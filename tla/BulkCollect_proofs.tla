------------------------- MODULE BulkCollect_proofs -------------------------
(***************************************************************************)
(* Proofs about BulkCollect for every set of switches and of requests and  *)
(* any number of batches.                                                  *)
(***************************************************************************)
EXTENDS BulkCollect, TLAPS, FiniteSetTheorems

\* A set of ids has a total.
LEMMA TotalOfIds ==
    ASSUME NEW ids \in SUBSET Switches
    PROVE  Cardinality(ids) \in 0..Cardinality(Switches)
<1>1. Cardinality(Switches) \in Nat
  BY BulkAssumption, FS_CardinalityType
<1>2. Cardinality(ids) \in Nat /\ Cardinality(ids) <= Cardinality(Switches)
  BY BulkAssumption, FS_Subset, FS_CardinalityType
<1> QED
  BY <1>1, <1>2

\* What is left of a batch is between nothing and all of it.
LEMMA DoneOfPending ==
    ASSUME NEW ids \in SUBSET Switches
    PROVE  LET left == collecting_ids \cap ids
           IN  Cardinality(ids) - Cardinality(left) \in 0..Cardinality(ids)
<1>1. IsFiniteSet(ids) /\ Cardinality(ids) \in Nat
  BY BulkAssumption, FS_Subset, FS_CardinalityType
<1>2. /\ Cardinality(collecting_ids \cap ids) \in Nat
      /\ Cardinality(collecting_ids \cap ids) <= Cardinality(ids)
  BY <1>1, FS_Subset, FS_CardinalityType
<1> QED
  BY <1>1, <1>2

\* The steps of the collector that BulkCollect takes through SingleFlight.
LEMMA JobSteps ==
    ASSUME Flight!TypeOK, NEW s \in Switches
    PROVE  /\ Flight!Submit(s) => Flight!TypeOK' /\ collecting_ids' = collecting_ids \cup {s}
           /\ Flight!Start(s) => Flight!TypeOK' /\ collecting_ids' = collecting_ids
           /\ Flight!Finish(s) => Flight!TypeOK' /\ collecting_ids' = collecting_ids \ {s}
           /\ Flight!Cancel(s) => Flight!TypeOK' /\ collecting_ids' = collecting_ids \ {s}
  BY DEF Flight!TypeOK, Flight!Submit, Flight!Start, Flight!Finish, Flight!Cancel,
         Flight!Move, Flight!JobState, collecting_ids

-----------------------------------------------------------------------------
(* Type correctness.                                                       *)

LEMMA TypeInit == Init => TypeOK
<1>1. {} \in SUBSET Switches /\ Cardinality({}) = 0 /\ 0 \in 0..Cardinality(Switches)
  BY TotalOfIds, FS_EmptySet
<1> QED
  BY <1>1, BulkAssumption
  DEF Init, TypeOK, Threads, BatchPc, PollPc, StopPc, NoReply, Flight!Init,
      Flight!TypeOK, Flight!JobState

LEMMA TypeStep == TypeOK /\ [Next]_vars => TypeOK'
<1> SUFFICES ASSUME TypeOK, [Next]_vars PROVE TypeOK'
  OBVIOUS
<1> USE BulkAssumption
    DEF TypeOK, Threads, BatchPc, PollPc, StopPc, Goto, Ends, Answer
<1>0. Flight!TypeOK' /\ (job' = job => Flight!TypeOK')
  <2>1. job' = job => Flight!TypeOK'
    BY DEF Flight!TypeOK
  <2>2. CASE \E s \in Switches : \/ Flight!Submit(s) \/ Flight!Start(s)
                                 \/ Flight!Finish(s) \/ Flight!Cancel(s)
    BY <2>1, <2>2, JobSteps
  <2>3. CASE job' = job
    BY <2>1, <2>3
  <2> HIDE DEF TypeOK, Threads, BatchPc, PollPc, StopPc, Goto, Ends, Answer
  <2> QED
    BY <2>1, <2>2, <2>3
    DEF Next, vars, Single, WorkerStarts, WorkerFinishes, BatchStart, BatchStep,
        BatchQueue, BatchSkip, BatchError, BulkRecord, WallRecord, PollStep,
        StatusRead, StatusPending, StatusEnded, StatusRunning, StopStart, StopStep,
        StopCancel, StopEmpty, StopMark
<1>1. ASSUME NEW s \in Switches, Single(s) \/ WorkerStarts(s) \/ WorkerFinishes(s)
      PROVE  TypeOK'
  BY <1>0, <1>1 DEF Single, WorkerStarts, WorkerFinishes
<1>2. ASSUME NEW b \in Batches, NEW kind \in {"bulk", "wall"}, NEW ids \in SUBSET Switches,
             BatchStart(b, kind, ids)
      PROVE  TypeOK'
  BY <1>0, <1>2 DEF BatchStart
<1>3. ASSUME NEW b \in Batches, BatchStep(b) PROVE TypeOK'
  <2>1. ASSUME NEW s \in Switches, BatchQueue(b, s) PROVE TypeOK'
    BY <1>0, <2>1 DEF BatchQueue
  <2>2. ASSUME NEW s \in Switches, BatchSkip(b, s) PROVE TypeOK'
    BY <1>0, <2>2 DEF BatchSkip
  <2>3. CASE BatchError(b)
    BY <1>0, <2>3 DEF BatchError
  <2>4. \A ids \in SUBSET Switches : Record(ids) =>
            sw_bulk' \in [ids : SUBSET Switches, total : 0..Cardinality(Switches),
                          started : BOOLEAN, stopping : BOOLEAN]
    <3> SUFFICES ASSUME NEW ids \in SUBSET Switches, Record(ids)
                 PROVE  sw_bulk' \in [ids : SUBSET Switches, total : 0..Cardinality(Switches),
                                      started : BOOLEAN, stopping : BOOLEAN]
      OBVIOUS
    <3>1. Cardinality(ids) \in 0..Cardinality(Switches)
      BY TotalOfIds
    <3> QED
      BY <3>1 DEF Record
  <2>5. CASE BulkRecord(b)
    BY <1>0, <2>4, <2>5 DEF BulkRecord, Alive
  <2>6. CASE WallRecord(b)
    BY <1>0, <2>4, <2>6 DEF WallRecord, Alive
  <2> QED
    BY <1>3, <2>1, <2>2, <2>3, <2>5, <2>6 DEF BatchStep
<1>4. ASSUME NEW p \in Pollers, PollStep(p) PROVE TypeOK'
  <2>1. CASE StatusRead(p)
    <3>1. 0 \in 0..Cardinality(Switches)
      BY TotalOfIds, FS_EmptySet
    <3>2. NoReply \in [running : BOOLEAN, done : Int, stopping : BOOLEAN,
                       total : 0..Cardinality(Switches)]
      BY <3>1 DEF NoReply
    <3>3. CASE Answer(p, NoReply) /\ UNCHANGED <<pc, owes>>
      BY <1>0, <2>1, <3>2, <3>3 DEF StatusRead
    <3>4. CASE Goto(p, "pending") /\ owes' = [owes EXCEPT ![p] = shown] /\ UNCHANGED reply
      BY <1>0, <2>1, <3>4 DEF StatusRead
    <3> QED
      BY <2>1, <3>3, <3>4 DEF StatusRead
  <2>2. CASE StatusPending(p)
    <3>1. Cardinality(collecting_ids \cap snap[p].ids) \in Nat
      BY FS_Subset, FS_CardinalityType
    <3> QED
      BY <1>0, <2>2, <3>1 DEF StatusPending
  <2>3. CASE StatusEnded(p)
    BY <1>0, <2>3 DEF StatusEnded
  <2>4. CASE StatusRunning(p)
    BY <1>0, <2>4 DEF StatusRunning
  <2> QED
    BY <1>4, <2>1, <2>2, <2>3, <2>4 DEF PollStep
<1>5. ASSUME NEW c \in Stoppers, StopStart(c) \/ StopStep(c) PROVE TypeOK'
  <2>1. CASE StopStart(c)
    BY <1>0, <2>1 DEF StopStart
  <2>2. ASSUME NEW s \in Switches, StopCancel(c, s) PROVE TypeOK'
    BY <1>0, <2>2 DEF StopCancel
  <2>3. CASE StopEmpty(c)
    BY <1>0, <2>3 DEF StopEmpty
  <2>4. CASE StopMark(c)
    BY <1>0, <2>4 DEF StopMark
  <2> QED
    BY <1>5, <2>1, <2>2, <2>3, <2>4 DEF StopStep
<1>6. CASE UNCHANGED vars
  BY <1>0, <1>6 DEF vars
<1> HIDE DEF TypeOK, Threads, BatchPc, PollPc, StopPc, Goto, Ends, Answer
<1> QED
  BY <1>1, <1>2, <1>3, <1>4, <1>5, <1>6 DEF Next

\* Every variable keeps to its type in every behaviour.
THEOREM TypeCorrect == Spec => []TypeOK
  BY TypeInit, TypeStep, PTL DEF Spec

-----------------------------------------------------------------------------
(* The progress a status request reports.                                  *)

\* Totals belong to the ids beside them, and what is on record as unfinished
\* is marked in the collector.
BulkInv ==
    /\ sw_bulk.total = Cardinality(sw_bulk.ids)
    /\ \A p \in Pollers : snap[p].total = Cardinality(snap[p].ids)
    /\ shown \subseteq sw_bulk.ids \cap collecting_ids
    /\ \A s \in Switches : by[s] # Nobody => s \in collecting_ids
    /\ \A p \in Pollers : owes[p] \subseteq collecting_ids
    /\ \A p \in Pollers : pc[p] = "pending" => owes[p] \subseteq snap[p].ids
    /\ DoneWithinTotal
    /\ FinishedMeansFinished

LEMMA BulkInit == Init => BulkInv
<1>1. Cardinality({}) = 0 /\ 0 \in 0..0
  BY FS_EmptySet
<1> SUFFICES ASSUME Init PROVE BulkInv
  OBVIOUS
<1>2. /\ sw_bulk.ids = {} /\ sw_bulk.total = 0 /\ shown = {}
      /\ \A s \in Switches : by[s] = Nobody
  BY DEF Init
<1>3. \A p \in Pollers : /\ snap[p].ids = {} /\ snap[p].total = 0 /\ owes[p] = {}
                         /\ reply[p].done = 0 /\ reply[p].total = 0
  BY DEF Init, NoReply
<1> QED
  BY <1>1, <1>2, <1>3 DEF BulkInv, DoneWithinTotal, FinishedMeansFinished

\* A step that neither answers nor records, and ends no job.
LEMMA BulkKept ==
    ASSUME TypeOK, BulkInv, sw_bulk' = sw_bulk, snap' = snap, reply' = reply,
           shown' = shown, owes' = owes, collecting_ids \subseteq collecting_ids',
           \A p \in Pollers : pc'[p] = pc[p],
           \A s \in Switches : by'[s] # Nobody => s \in collecting_ids'
    PROVE  BulkInv'
  BY DEF BulkInv, DoneWithinTotal, FinishedMeansFinished, TypeOK

\* A job ends or is dropped.
LEMMA BulkEnds ==
    ASSUME TypeOK, BulkInv, NEW s \in Switches, Ends(s),
           collecting_ids' = collecting_ids \ {s},
           sw_bulk' = sw_bulk, snap' = snap, reply' = reply, pc' = pc
    PROVE  BulkInv'
<1> USE DEF BulkInv, Ends, TypeOK
<1>1. shown' \subseteq sw_bulk'.ids \cap collecting_ids'
  OBVIOUS
<1>2. \A u \in Switches : by'[u] # Nobody => u \in collecting_ids'
  OBVIOUS
<1>3. \A p \in Pollers : owes'[p] = owes[p] \ {s}
  OBVIOUS
<1>4. DoneWithinTotal' /\ FinishedMeansFinished'
  BY <1>3 DEF DoneWithinTotal, FinishedMeansFinished
<1> QED
  BY <1>1, <1>2, <1>3, <1>4

LEMMA BulkStep == TypeOK /\ BulkInv /\ [Next]_vars => BulkInv'
<1> SUFFICES ASSUME TypeOK, BulkInv, [Next]_vars PROVE BulkInv'
  OBVIOUS
<1> USE BulkAssumption DEF Goto
<1>0. /\ Flight!TypeOK
      /\ Batches \subseteq Threads /\ Pollers \subseteq Threads /\ Stoppers \subseteq Threads
      /\ pc \in [Threads -> BatchPc \cup PollPc \cup StopPc]
      /\ job' = job => collecting_ids' = collecting_ids
      /\ \A s \in Switches : by[s] # Nobody => s \in collecting_ids
  BY DEF TypeOK, Threads, collecting_ids, BulkInv
<1>1. ASSUME NEW s \in Switches, Single(s) \/ WorkerStarts(s) PROVE BulkInv'
  <2>1. collecting_ids \subseteq collecting_ids'
    BY <1>0, <1>1, JobSteps DEF Single, WorkerStarts
  <2> QED
    BY <1>0, <1>1, <2>1, BulkKept DEF Single, WorkerStarts
<1>2. ASSUME NEW s \in Switches, WorkerFinishes(s) PROVE BulkInv'
  BY <1>0, <1>2, JobSteps, BulkEnds DEF WorkerFinishes
<1>3. ASSUME NEW b \in Batches, NEW kind \in {"bulk", "wall"}, NEW ids \in SUBSET Switches,
             BatchStart(b, kind, ids)
      PROVE  BulkInv'
  <2>1. \A p \in Pollers : pc'[p] = pc[p]
    BY <1>0, <1>3 DEF BatchStart
  <2> QED
    BY <1>0, <1>3, <2>1, BulkKept DEF BatchStart
<1>4. ASSUME NEW b \in Batches, BatchStep(b) PROVE BulkInv'
  <2>1. ASSUME NEW s \in Switches, BatchQueue(b, s) PROVE BulkInv'
    <3>1. collecting_ids' = collecting_ids \cup {s}
      BY <1>0, <2>1, JobSteps DEF BatchQueue
    <3>2. \A u \in Switches : by'[u] # Nobody => u \in collecting_ids'
      BY <1>0, <2>1, <3>1 DEF BatchQueue, TypeOK
    <3> QED
      BY <2>1, <3>1, <3>2, BulkKept DEF BatchQueue
  <2>2. ASSUME NEW s \in Switches, BatchSkip(b, s) PROVE BulkInv'
    BY <1>0, <2>2, BulkKept DEF BatchSkip
  <2>3. CASE BatchError(b)
    <3>1. \A p \in Pollers : pc'[p] = pc[p]
      BY <1>0, <2>3 DEF BatchError
    <3> QED
      BY <1>0, <2>3, <3>1, BulkKept DEF BatchError
  <2>4. Alive(b) \subseteq queued[b] \cap collecting_ids
    BY <1>0 DEF Alive, TypeOK
  <2>5. ASSUME NEW ids \in SUBSET Switches, Record(ids),
               shown' \subseteq ids \cap collecting_ids, pc' = [pc EXCEPT ![b] = "idle"],
               UNCHANGED <<job, snap, reply, by, owes>>
        PROVE  BulkInv'
    <3>1. sw_bulk'.ids = ids /\ sw_bulk'.total = Cardinality(ids)
      BY <2>5 DEF Record, TypeOK
    <3>2. \A p \in Pollers : pc'[p] = pc[p]
      BY <1>0, <2>5
    <3> QED
      BY <1>0, <2>5, <3>1, <3>2 DEF BulkInv, DoneWithinTotal, FinishedMeansFinished
  <2>6. CASE BulkRecord(b)
    <3>1. queued[b] \in SUBSET Switches
      BY DEF TypeOK
    <3> QED
      BY <2>4, <2>5, <2>6, <3>1 DEF BulkRecord
  <2>7. CASE WallRecord(b)
    <3>1. CASE Record(sw_bulk.ids \cup queued[b]) /\ shown' = shown \cup Alive(b)
      <4>1. sw_bulk.ids \cup queued[b] \in SUBSET Switches
        BY DEF TypeOK
      <4>2. shown' \subseteq (sw_bulk.ids \cup queued[b]) \cap collecting_ids
        BY <2>4, <3>1 DEF BulkInv
      <4> QED
        BY <2>5, <2>7, <3>1, <4>1, <4>2 DEF WallRecord
    <3>2. CASE UNCHANGED <<sw_bulk, shown>>
      <4>1. \A p \in Pollers : pc'[p] = pc[p]
        BY <1>0, <2>7 DEF WallRecord
      <4> QED
        BY <1>0, <2>7, <3>2, <4>1, BulkKept DEF WallRecord
    <3> QED
      BY <2>7, <3>1, <3>2 DEF WallRecord
  <2> QED
    BY <1>4, <2>1, <2>2, <2>3, <2>6, <2>7 DEF BatchStep
<1>5. ASSUME NEW p \in Pollers, PollStep(p) PROVE BulkInv'
  <2> USE DEF TypeOK
  <2>1. CASE StatusRead(p)
    <3>1. /\ snap'[p] = [ids |-> sw_bulk.ids, total |-> sw_bulk.total]
          /\ \A q \in Pollers \ {p} : snap'[q] = snap[q]
          /\ sw_bulk' = sw_bulk /\ shown' = shown /\ by' = by
          /\ collecting_ids' = collecting_ids
      BY <1>0, <2>1 DEF StatusRead
    <3>2. CASE Answer(p, NoReply) /\ UNCHANGED <<pc, owes>>
      <4>1. \A q \in Pollers : \/ reply'[q] = reply[q]
                               \/ reply'[q].done = 0 /\ reply'[q].total = 0
        BY <3>2 DEF Answer, NoReply
      <4>2. pc[p] = "idle"
        BY <2>1 DEF StatusRead
      <4>3. DoneWithinTotal'
        BY <4>1 DEF BulkInv, DoneWithinTotal
      <4>4. FinishedMeansFinished'
        BY <3>2 DEF BulkInv, FinishedMeansFinished
      <4>5. \A q \in Pollers : snap'[q].total = Cardinality(snap'[q].ids)
        BY <3>1 DEF BulkInv
      <4> QED
        BY <3>1, <3>2, <4>2, <4>3, <4>4, <4>5 DEF BulkInv
    <3>3. CASE pc' = [pc EXCEPT ![p] = "pending"] /\ owes' = [owes EXCEPT ![p] = shown]
                 /\ UNCHANGED reply
      <4>1. /\ owes'[p] = shown /\ pc'[p] = "pending"
            /\ \A q \in Pollers \ {p} : owes'[q] = owes[q] /\ pc'[q] = pc[q]
        BY <1>0, <3>3
      <4> QED
        BY <3>1, <3>3, <4>1 DEF BulkInv, DoneWithinTotal, FinishedMeansFinished
    <3> QED
      BY <2>1, <3>2, <3>3 DEF StatusRead
  <2>2. CASE StatusPending(p)
    <3> DEFINE left == collecting_ids \cap snap[p].ids
    <3>1. /\ reply'[p].done = snap[p].total - Cardinality(left)
          /\ reply'[p].total = snap[p].total
          /\ \A q \in Pollers \ {p} : reply'[q] = reply[q] /\ pc'[q] = pc[q]
          /\ pc'[p] = IF left = {} THEN "ended" ELSE "running"
          /\ UNCHANGED <<sw_bulk, snap, by, shown, owes>>
          /\ collecting_ids' = collecting_ids
      BY <1>0, <2>2 DEF StatusPending, Answer
    <3>2. reply'[p].done \in 0..reply'[p].total
      BY <3>1, DoneOfPending DEF BulkInv
    <3>3. owes[p] \subseteq left
      BY <2>2 DEF BulkInv, StatusPending
    <3>4. DoneWithinTotal'
      BY <3>1, <3>2 DEF BulkInv, DoneWithinTotal
    <3>5. FinishedMeansFinished'
      BY <3>1, <3>3 DEF BulkInv, FinishedMeansFinished
    <3>6. \A q \in Pollers : pc'[q] = "pending" => pc[q] = "pending"
      BY <3>1
    <3> QED
      BY <3>1, <3>4, <3>5, <3>6 DEF BulkInv
  <2>3. CASE StatusEnded(p)
    <3>1. /\ sw_bulk'.ids = sw_bulk.ids /\ sw_bulk'.total = sw_bulk.total
          /\ pc'[p] = "idle" /\ \A q \in Pollers \ {p} : pc'[q] = pc[q]
          /\ UNCHANGED <<snap, reply, by, shown, owes>>
          /\ collecting_ids' = collecting_ids
      BY <1>0, <2>3 DEF StatusEnded
    <3> QED
      BY <3>1 DEF BulkInv, DoneWithinTotal, FinishedMeansFinished
  <2>4. CASE StatusRunning(p)
    <3>1. /\ reply'[p].done = reply[p].done /\ reply'[p].total = reply[p].total
          /\ pc'[p] = "idle"
          /\ \A q \in Pollers \ {p} : reply'[q] = reply[q] /\ pc'[q] = pc[q]
          /\ UNCHANGED <<sw_bulk, snap, by, shown, owes>>
          /\ collecting_ids' = collecting_ids
      BY <1>0, <2>4 DEF StatusRunning, Answer
    <3> QED
      BY <3>1 DEF BulkInv, DoneWithinTotal, FinishedMeansFinished
  <2> QED
    BY <1>5, <2>1, <2>2, <2>3, <2>4 DEF PollStep
<1>6. ASSUME NEW c \in Stoppers, StopStart(c) \/ StopStep(c) PROVE BulkInv'
  <2>1. CASE StopStart(c) \/ StopEmpty(c)
    <3>1. \A p \in Pollers : pc'[p] = pc[p]
      BY <1>0, <2>1 DEF StopStart, StopEmpty
    <3> QED
      BY <1>0, <2>1, <3>1, BulkKept DEF StopStart, StopEmpty
  <2>2. ASSUME NEW s \in Switches, StopCancel(c, s) PROVE BulkInv'
    BY <1>0, <2>2, JobSteps, BulkEnds DEF StopCancel
  <2>3. CASE StopMark(c)
    <3>1. /\ sw_bulk'.ids = sw_bulk.ids /\ sw_bulk'.total = sw_bulk.total
          /\ \A p \in Pollers : pc'[p] = pc[p]
          /\ UNCHANGED <<snap, reply, by, shown, owes>>
          /\ collecting_ids' = collecting_ids
      BY <1>0, <2>3 DEF StopMark, TypeOK
    <3> QED
      BY <3>1 DEF BulkInv, DoneWithinTotal, FinishedMeansFinished
  <2> QED
    BY <1>6, <2>1, <2>2, <2>3 DEF StopStep
<1>7. CASE UNCHANGED vars
  BY <1>0, <1>7, BulkKept DEF vars
<1> QED
  BY <1>1, <1>2, <1>3, <1>4, <1>5, <1>6, <1>7 DEF Next

\* No answer shows more done than there is, or less than nothing.
THEOREM ProgressBounded == Spec => []DoneWithinTotal
<1>1. Spec => [](TypeOK /\ BulkInv)
  BY TypeInit, TypeStep, BulkInit, BulkStep, PTL DEF Spec
<1>2. TypeOK /\ BulkInv => DoneWithinTotal
  BY DEF BulkInv
<1> QED
  BY <1>1, <1>2, PTL

\* A batch reported as finished is finished.
THEOREM NoEarlyFinish == Spec => []FinishedMeansFinished
<1>1. Spec => [](TypeOK /\ BulkInv)
  BY TypeInit, TypeStep, BulkInit, BulkStep, PTL DEF Spec
<1>2. TypeOK /\ BulkInv => FinishedMeansFinished
  BY DEF BulkInv
<1> QED
  BY <1>1, <1>2, PTL
=============================================================================
