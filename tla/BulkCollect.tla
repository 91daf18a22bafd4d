---------------------------- MODULE BulkCollect ----------------------------
(***************************************************************************)
(* Batches of switch collections in app.py: bulk_collect_endpoint and      *)
(* wall_recollect_switches submit many switches and record the batch in    *)
(* _sw_bulk, bulk_collect_status reports its progress from the collector's *)
(* marks and bulk_collect_stop cancels what is still queued.               *)
(*                                                                         *)
(* The collector is the one of SingleFlight, which SwitchCollector         *)
(* implements: a switch is marked exactly while its job is not idle.  An   *)
(* action is one section under _sw_bulk_lock or one step of a job.         *)
(***************************************************************************)
EXTENDS Integers, FiniteSets

CONSTANTS
    Switches,
    Batches,        \* threads of bulk-collect and wall-recollect requests
    Pollers,        \* threads of status requests
    Stoppers,       \* threads of stop requests
    MaxBatches,     \* bound: batch requests in a behaviour
    MaxSingles,     \* bound: collections requested one by one
    Nobody

ASSUME BulkAssumption ==
    /\ IsFiniteSet(Switches)
    /\ Batches \cap Pollers = {}
    /\ Batches \cap Stoppers = {}
    /\ Pollers \cap Stoppers = {}
    /\ MaxBatches \in Nat
    /\ MaxSingles \in Nat
    /\ Nobody \notin Batches

VARIABLES
    job,        \* the collector: SingleFlight's variable
    sw_bulk,    \* _sw_bulk
    pc,
    todo,       \* ids a batch request has not submitted yet
    queued,     \* its queued list
    snap,       \* ids and total a status request read
    reply,      \* the last answer to each poller
    by,         \* history: the batch request whose job a switch is running
    shown,      \* history: jobs of the batch on record that have not ended
    owes,       \* history: what was shown when the poller took its snapshot,
                \* without the jobs that have ended since
    batches, singles

vars == <<job, sw_bulk, pc, todo, queued, snap, reply, by, shown, owes,
          batches, singles>>

Flight == INSTANCE SingleFlight

Threads == Batches \cup Pollers \cup Stoppers
BatchPc == {"idle", "bulk", "wall"}
PollPc  == {"idle", "pending", "ended", "running"}
StopPc  == {"idle", "cancel", "mark"}

NoReply == [running |-> FALSE, done |-> 0, total |-> 0, stopping |-> FALSE]

TypeOK ==
    /\ Flight!TypeOK
    /\ sw_bulk \in [ids : SUBSET Switches, total : 0..Cardinality(Switches),
                    started : BOOLEAN, stopping : BOOLEAN]
    /\ pc \in [Threads -> BatchPc \cup PollPc \cup StopPc]
    /\ \A b \in Batches : pc[b] \in BatchPc
    /\ \A p \in Pollers : pc[p] \in PollPc
    /\ \A c \in Stoppers : pc[c] \in StopPc
    /\ todo \in [Batches -> SUBSET Switches]
    /\ queued \in [Batches -> SUBSET Switches]
    /\ snap \in [Pollers -> [ids : SUBSET Switches, total : 0..Cardinality(Switches)]]
    /\ reply \in [Pollers -> [running : BOOLEAN, done : Int, stopping : BOOLEAN,
                              total : 0..Cardinality(Switches)]]
    /\ by \in [Switches -> Batches \cup {Nobody}]
    /\ shown \subseteq Switches
    /\ owes \in [Pollers -> SUBSET Switches]
    /\ batches \in 0..MaxBatches
    /\ singles \in 0..MaxSingles

Init ==
    /\ Flight!Init
    /\ sw_bulk = [ids |-> {}, total |-> 0, started |-> FALSE, stopping |-> FALSE]
    /\ pc = [t \in Threads |-> "idle"]
    /\ todo = [b \in Batches |-> {}]
    /\ queued = [b \in Batches |-> {}]
    /\ snap = [p \in Pollers |-> [ids |-> {}, total |-> 0]]
    /\ reply = [p \in Pollers |-> NoReply]
    /\ by = [s \in Switches |-> Nobody]
    /\ shown = {}
    /\ owes = [p \in Pollers |-> {}]
    /\ batches = 0
    /\ singles = 0

Goto(t, label) == pc' = [pc EXCEPT ![t] = label]

\* Faulty variant: only what a worker has already taken.
RunningIds == {s \in Switches : job[s] = "running"}

\* collector.collecting_ids: the marks, of queued and of running jobs.
collecting_ids == {s \in Switches : job[s] # "idle"}

-----------------------------------------------------------------------------
(* The collector.                                                          *)

\* The job of s ends or is dropped.
Ends(s) ==
    /\ by' = [by EXCEPT ![s] = Nobody]
    /\ shown' = shown \ {s}
    /\ owes' = [p \in Pollers |-> owes[p] \ {s}]

\* A single request or the scheduler submits a switch.
Single(s) ==
    /\ singles < MaxSingles
    /\ Flight!Submit(s)
    /\ singles' = singles + 1
    /\ UNCHANGED <<sw_bulk, pc, todo, queued, snap, reply, by, shown, owes, batches>>

WorkerStarts(s) ==
    /\ Flight!Start(s)
    /\ UNCHANGED <<sw_bulk, pc, todo, queued, snap, reply, by, shown, owes,
                   batches, singles>>

WorkerFinishes(s) ==
    /\ Flight!Finish(s)
    /\ Ends(s)
    /\ UNCHANGED <<sw_bulk, pc, todo, queued, snap, reply, batches, singles>>

-----------------------------------------------------------------------------
(* bulk_collect_endpoint and wall_recollect_switches.                      *)

BatchStart(b, kind, ids) ==
    /\ pc[b] = "idle"
    /\ batches < MaxBatches
    /\ batches' = batches + 1
    /\ todo' = [todo EXCEPT ![b] = ids]
    /\ queued' = [queued EXCEPT ![b] = {}]
    /\ Goto(b, kind)
    /\ UNCHANGED <<job, sw_bulk, snap, reply, by, shown, owes, singles>>

\* One turn of the loop: collect_switch queues the switch ...
BatchQueue(b, s) ==
    /\ pc[b] \in {"bulk", "wall"}
    /\ s \in todo[b]
    /\ Flight!Submit(s)
    /\ todo' = [todo EXCEPT ![b] = @ \ {s}]
    /\ queued' = [queued EXCEPT ![b] = @ \cup {s}]
    /\ by' = [by EXCEPT ![s] = b]
    /\ UNCHANGED <<sw_bulk, pc, snap, reply, shown, owes, batches, singles>>

\* ... or it is skipped: busy, deleted, without an account, address refused.
BatchSkip(b, s) ==
    /\ pc[b] \in {"bulk", "wall"}
    /\ s \in todo[b]
    /\ todo' = [todo EXCEPT ![b] = @ \ {s}]
    /\ UNCHANGED <<job, sw_bulk, pc, queued, snap, reply, by, shown, owes,
                   batches, singles>>

\* An exception ends the request: what it queued is collected unrecorded.
BatchError(b) ==
    /\ pc[b] \in {"bulk", "wall"}
    /\ todo[b] # {}
    /\ todo' = [todo EXCEPT ![b] = {}]
    /\ Goto(b, "idle")
    /\ UNCHANGED <<job, sw_bulk, queued, snap, reply, by, shown, owes, batches, singles>>

\* The batch on record; stopping stays as it is.
Record(ids) ==
    sw_bulk' = [sw_bulk EXCEPT !.ids = ids, !.total = Cardinality(ids), !.started = TRUE]

\* The jobs queued by b that have not ended.
Alive(b) == {s \in queued[b] : by[s] = b}

\* bulk-collect replaces the batch on record.
BulkRecord(b) ==
    /\ pc[b] = "bulk"
    /\ todo[b] = {}
    /\ Record(queued[b])
    /\ shown' = Alive(b)
    /\ Goto(b, "idle")
    /\ UNCHANGED <<job, todo, queued, snap, reply, by, owes, batches, singles>>

\* wall-recollect adds to it, when it queued anything.
WallRecord(b) ==
    /\ pc[b] = "wall"
    /\ todo[b] = {}
    /\ \/ queued[b] # {} /\ Record(sw_bulk.ids \cup queued[b])
                         /\ shown' = shown \cup Alive(b)
       \/ queued[b] = {} /\ UNCHANGED <<sw_bulk, shown>>
    /\ Goto(b, "idle")
    /\ UNCHANGED <<job, todo, queued, snap, reply, by, owes, batches, singles>>

-----------------------------------------------------------------------------
(* bulk_collect_status.                                                    *)

Answer(p, r) == reply' = [reply EXCEPT ![p] = r]

\* The snapshot of the record; without a batch the answer is immediate.
StatusRead(p) ==
    /\ pc[p] = "idle"
    /\ snap' = [snap EXCEPT ![p] = [ids |-> sw_bulk.ids, total |-> sw_bulk.total]]
    /\ \/ /\ ~sw_bulk.started \/ sw_bulk.total = 0
          /\ Answer(p, NoReply)
          /\ UNCHANGED <<pc, owes>>
       \/ /\ sw_bulk.started /\ sw_bulk.total # 0
          /\ Goto(p, "pending")
          /\ owes' = [owes EXCEPT ![p] = shown]
          /\ UNCHANGED reply
    /\ UNCHANGED <<job, sw_bulk, todo, queued, by, shown, batches, singles>>

\* Faulty variant: the total is read when it is needed.
PendingWithLiveTotal(p) ==
    /\ pc[p] = "pending"
    /\ LET pending == collecting_ids \cap snap[p].ids IN
         /\ Answer(p, [running |-> pending # {}, stopping |-> FALSE,
                       done |-> sw_bulk.total - Cardinality(pending),
                       total |-> sw_bulk.total])
         /\ Goto(p, IF pending = {} THEN "ended" ELSE "running")
    /\ UNCHANGED <<job, sw_bulk, todo, queued, snap, by, shown, owes, batches, singles>>

\* What is left of the batch, under the collector's lock.
StatusPending(p) ==
    /\ pc[p] = "pending"
    /\ LET pending == collecting_ids \cap snap[p].ids IN
         /\ Answer(p, [running |-> pending # {}, stopping |-> FALSE,
                       done |-> snap[p].total - Cardinality(pending),
                       total |-> snap[p].total])
         /\ Goto(p, IF pending = {} THEN "ended" ELSE "running")
    /\ UNCHANGED <<job, sw_bulk, todo, queued, snap, by, shown, owes, batches, singles>>

\* Faulty variant: the batch stays on record as started.
EndedStaysStarted(p) ==
    /\ pc[p] = "ended"
    /\ Goto(p, "idle")
    /\ sw_bulk' = [sw_bulk EXCEPT !.stopping = FALSE]
    /\ UNCHANGED <<job, todo, queued, snap, reply, by, shown, owes, batches, singles>>

\* The batch is over: two sections under the lock with nothing between them
\* that another section depends on, so one step.
StatusEnded(p) ==
    /\ pc[p] = "ended"
    /\ Goto(p, "idle")
    /\ sw_bulk' = [sw_bulk EXCEPT !.started = FALSE, !.stopping = FALSE]
    /\ UNCHANGED <<job, todo, queued, snap, reply, by, shown, owes, batches, singles>>

StatusRunning(p) ==
    /\ pc[p] = "running"
    /\ Goto(p, "idle")
    /\ Answer(p, [reply[p] EXCEPT !.stopping = sw_bulk.stopping])
    /\ UNCHANGED <<job, sw_bulk, todo, queued, snap, by, shown, owes, batches, singles>>

-----------------------------------------------------------------------------
(* bulk_collect_stop.                                                      *)

StopStart(c) ==
    /\ pc[c] = "idle"
    /\ sw_bulk.started
    /\ Goto(c, "cancel")
    /\ UNCHANGED <<job, sw_bulk, todo, queued, snap, reply, by, shown, owes,
                   batches, singles>>

\* Faulty variant: a cancelled switch keeps a job nobody will take.
StopCancelForgets(c, s) ==
    /\ pc[c] = "cancel"
    /\ job[s] = "pending"
    /\ job' = [job EXCEPT ![s] = "cancelled"]
    /\ Ends(s)
    /\ UNCHANGED <<sw_bulk, pc, todo, queued, snap, reply, batches, singles>>

\* One turn of cancel_pending: whatever is queued, of the batch or not.
StopCancel(c, s) ==
    /\ pc[c] = "cancel"
    /\ Flight!Cancel(s)
    /\ Ends(s)
    /\ UNCHANGED <<sw_bulk, pc, todo, queued, snap, reply, batches, singles>>

StopEmpty(c) ==
    /\ pc[c] = "cancel"
    /\ \A s \in Switches : job[s] # "pending"
    /\ Goto(c, "mark")
    /\ UNCHANGED <<job, sw_bulk, todo, queued, snap, reply, by, shown, owes,
                   batches, singles>>

StopMark(c) ==
    /\ pc[c] = "mark"
    /\ sw_bulk' = [sw_bulk EXCEPT !.stopping = TRUE]
    /\ Goto(c, "idle")
    /\ UNCHANGED <<job, todo, queued, snap, reply, by, shown, owes, batches, singles>>

-----------------------------------------------------------------------------
BatchStep(b) ==
    \/ \E s \in Switches : BatchQueue(b, s) \/ BatchSkip(b, s)
    \/ BatchError(b) \/ BulkRecord(b) \/ WallRecord(b)

PollStep(p) == StatusRead(p) \/ StatusPending(p) \/ StatusEnded(p) \/ StatusRunning(p)

StopStep(c) == (\E s \in Switches : StopCancel(c, s)) \/ StopEmpty(c) \/ StopMark(c)

Next ==
    \/ \E s \in Switches : Single(s) \/ WorkerStarts(s) \/ WorkerFinishes(s)
    \/ \E b \in Batches, kind \in {"bulk", "wall"}, ids \in SUBSET Switches \ {{}} :
          BatchStart(b, kind, ids)
    \/ \E b \in Batches : BatchStep(b)
    \/ \E p \in Pollers : PollStep(p)
    \/ \E c \in Stoppers : StopStart(c) \/ StopStep(c)

Spec == Init /\ [][Next]_vars

\* Workers take and end every job (MarksReleased of SwitchCollector), a request
\* that was begun goes on, and a page that shows the progress bar polls on.
Fairness ==
    /\ \A s \in Switches : WF_vars(WorkerStarts(s)) /\ WF_vars(WorkerFinishes(s))
    /\ \A b \in Batches : WF_vars(BatchStep(b))
    /\ \A p \in Pollers : WF_vars(PollStep(p))
    /\ \A c \in Stoppers : WF_vars(StopStep(c))

FairSpec == Spec /\ Fairness

-----------------------------------------------------------------------------
(* Properties.                                                             *)

\* The progress bar stays within its ends: ids, total and started are read in
\* one section and replaced in one, so no answer mixes two batches.
DoneWithinTotal ==
    \A p \in Pollers : reply[p].done \in 0..reply[p].total

\* A status request that finds its batch finished is right about every job
\* the batch had on record when it was read: none of them still goes on, also
\* not one that only waits for a worker, whatever was submitted or stopped
\* since.
FinishedMeansFinished ==
    \A p \in Pollers : pc[p] = "ended" => owes[p] = {}

\* The progress bar of a batch ends: some poll sees the batch over and takes
\* it off the record.
ProgressEnds ==
    sw_bulk.started /\ sw_bulk.total # 0 ~> ~sw_bulk.started \/ sw_bulk.total = 0

-----------------------------------------------------------------------------
(* What comments of the source say and the code does not keep.             *)

\* The comment on the record of bulk_collect_endpoint: the batch is recorded
\* for the progress bar and the stop button.  While jobs of the recorded
\* batch go on, both have something to show and to stop.
BatchIsVisible == shown # {} => sw_bulk.started

\* The comment in bulk_collect_status: with "stopping" what was queued has
\* been cancelled and only connected devices are being finished.
StoppingMeansCancelled ==
    [][\A p \in Pollers :
          StatusRunning(p) /\ sw_bulk.stopping =>
              \A s \in shown : job[s] # "pending"]_vars
=============================================================================
