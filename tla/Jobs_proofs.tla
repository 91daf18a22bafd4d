---------------------------- MODULE Jobs_proofs -----------------------------
(***************************************************************************)
(* Proofs about the background jobs (firewalls, diagnoses, servers,        *)
(* facility scans), each by itself and together as MCJobs composes them,   *)
(* for any number of devices, threads, requests and faults.                *)
(***************************************************************************)
EXTENDS MCJobs, FiniteSetTheorems, TLAPS

-----------------------------------------------------------------------------
(***************************************************************************)
(* The jobs of the firewalls.                                              *)
(***************************************************************************)
LEMMA Threads ==
    /\ AllThread \in FwThreads /\ Scheduler \in FwThreads /\ Clicks \subseteq FwThreads
    /\ AllThread \notin Clicks /\ Scheduler \notin Clicks /\ AllThread # Scheduler
    /\ \A t \in FwThreads : t \in Clicks \/ t = AllThread \/ t = Scheduler
  BY FirewallAssumption DEF FwThreads

LEMMA FirewallsCounted ==
    /\ Cardinality(Firewalls) \in Nat
    /\ Cardinality({}) = 0
    /\ \A S \in SUBSET Firewalls :
          /\ Cardinality(S) \in Nat /\ Cardinality(S) <= Cardinality(Firewalls)
          /\ \A f \in S : Cardinality(S \ {f}) = Cardinality(S) - 1
<1>1. Cardinality(Firewalls) \in Nat /\ Cardinality({}) = 0
  BY FirewallAssumption, FS_CardinalityType, FS_EmptySet
<1>2. ASSUME NEW S \in SUBSET Firewalls
      PROVE  /\ IsFiniteSet(S) /\ Cardinality(S) \in Nat
             /\ Cardinality(S) <= Cardinality(Firewalls)
  BY FirewallAssumption, FS_Subset, FS_CardinalityType
<1>3. ASSUME NEW S \in SUBSET Firewalls, NEW f \in S
      PROVE  Cardinality(S \ {f}) = Cardinality(S) - 1
  BY <1>2, FS_RemoveElement
<1> QED
  BY <1>1, <1>2, <1>3

-----------------------------------------------------------------------------
(* Types, and what a run has counted.                                      *)

\* Where each caller can be, and that it knows its firewall there.
FwPlaces ==
    /\ \A c \in Clicks : at[c] \in Inside \cup {"idle", "release"}
    /\ at[AllThread] # "release" /\ at[Scheduler] \notin {"release", "list"}
    /\ \A t \in FwThreads : at[t] \in Inside \cup {"release"} => fid[t] \in Firewalls

\* The collect-all run accounts for every firewall it has listed: counted, at
\* hand or still to come; and the record is its own.
RunCounts ==
    LET left == Cardinality(rest[AllThread])
    IN  /\ at[AllThread] = "idle" => listed = -1
        /\ at[AllThread] # "idle" => fw_all.running
        /\ at[AllThread] = "list" => fw_all.done = 0 /\ listed = -1
        /\ at[AllThread] = "next" => fw_all.done + left = listed
        /\ at[AllThread] \in Inside => fw_all.done + left + 1 = listed
        /\ SkippedOnlyWhenStopped
        /\ stopAsked => fw_all.stop
        /\ fw_all.stop /\ at[AllThread] # "idle" => stopAsked

FwIInv == FwTypeOK /\ FwPlaces /\ RunCounts

LEMMA FwInitial == FwInit => FwIInv
<1> SUFFICES ASSUME FwInit PROVE FwIInv
  OBVIOUS
<1>1. fw_all \in [running : BOOLEAN, stop : BOOLEAN, done : 0..Cardinality(Firewalls)]
  BY FirewallsCounted DEF FwInit
<1>2. listed \in -1..Cardinality(Firewalls)
  BY FirewallsCounted DEF FwInit
<1>3. jobs \in 0..MaxJobs /\ dbFaults \in 0..MaxDbFaults
  BY FirewallAssumption DEF FwInit
<1>4. FwTypeOK
  BY <1>1, <1>2, <1>3 DEF FwInit, FwTypeOK, FwPc
<1>5. FwPlaces /\ RunCounts
  BY Threads DEF FwInit, FwPlaces, RunCounts, SkippedOnlyWhenStopped, Inside
<1> QED
  BY <1>4, <1>5 DEF FwIInv

\* One collection, by any caller: it stays inside, or ends and is counted.
\* Faults and lost writes are at most recorded.
LEMMA CollectionStep ==
    ASSUME FwIInv, NEW t \in FwThreads,
           MarkStatus(t) \/ Collect(t) \/ DoneStatus(t) \/ FailStatus(t)
    PROVE  /\ UNCHANGED <<collecting_firewalls, fid, rest, stopAsked, listed, unstarted, jobs>>
           /\ at[t] \in Inside /\ fid[t] \in Firewalls
           /\ \/ /\ \E to \in Inside \ {"mark"} : FwGoto(t, to)
                 /\ UNCHANGED fw_all
              \/ Counted(t) /\ (FwGoto(t, After(t)) \/ (t = Scheduler /\ FwGoto(t, "end")))
           /\ \/ UNCHANGED <<fw_status, unwritten>>
              \/ \E s \in {"collecting", "done", "failed"} : Write(fid[t], s)
              \/ UNCHANGED fw_status /\ unwritten' = unwritten \cup {fid[t]}
           /\ dbFaults' \in 0..MaxDbFaults
<1> USE DEF MarkStatus, Collect, DoneStatus, FailStatus
<1>1. at[t] \in Inside /\ fid[t] \in Firewalls
  BY DEF FwIInv, FwPlaces, Inside
<1>2. UNCHANGED dbFaults \/ DbRaises
  OBVIOUS
<1>3. dbFaults' \in 0..MaxDbFaults
  BY <1>2, FirewallAssumption DEF DbRaises, FwIInv, FwTypeOK
<1>4. \/ /\ \E to \in Inside \ {"mark"} : FwGoto(t, to)
         /\ UNCHANGED fw_all
      \/ Counted(t) /\ (FwGoto(t, After(t)) \/ (t = Scheduler /\ FwGoto(t, "end")))
  <2> USE DEF FwGoto
  <2>1. CASE MarkStatus(t) \/ Collect(t)
    BY <2>1 DEF Inside
  <2>2. CASE DoneStatus(t)
    BY <2>2 DEF Inside
  <2>3. CASE FailStatus(t)
    BY <2>3
  <2> QED
    BY <2>1, <2>2, <2>3
<1> QED
  BY <1>1, <1>3, <1>4

LEMMA FwStep == FwIInv /\ [FwNext]_fwVars => FwIInv'
<1> SUFFICES ASSUME FwIInv, [FwNext]_fwVars PROVE FwIInv'
  OBVIOUS
<1> USE Threads DEF FwGoto
<1>1. ASSUME NEW t \in FwThreads,
             MarkStatus(t) \/ Collect(t) \/ DoneStatus(t) \/ FailStatus(t)
      PROVE  FwIInv'
  <2>1. /\ UNCHANGED <<collecting_firewalls, fid, rest, stopAsked, listed, unstarted, jobs>>
        /\ at[t] \in Inside /\ fid[t] \in Firewalls
        /\ dbFaults' \in 0..MaxDbFaults
    BY <1>1, CollectionStep
  <2>2. /\ fw_status' \in [Firewalls -> {"new", "collecting", "done", "failed"}]
        /\ unwritten' \subseteq Firewalls
    <3>1. \/ UNCHANGED <<fw_status, unwritten>>
          \/ \E s \in {"collecting", "done", "failed"} : Write(fid[t], s)
          \/ UNCHANGED fw_status /\ unwritten' = unwritten \cup {fid[t]}
      BY <1>1, CollectionStep
    <3> QED
      BY <2>1, <3>1 DEF FwIInv, FwTypeOK, Write
  <2>3. CASE (\E to \in Inside \ {"mark"} : FwGoto(t, to)) /\ UNCHANGED fw_all
    <3>1. FwTypeOK'
      BY <2>1, <2>2, <2>3 DEF FwIInv, FwTypeOK, FwPc
    <3>2. FwPlaces' /\ RunCounts'
      BY <2>1, <2>3 DEF FwIInv, FwTypeOK, FwPlaces, RunCounts, SkippedOnlyWhenStopped, Inside
    <3> QED
      BY <3>1, <3>2 DEF FwIInv
  <2>4. CASE Counted(t) /\ (FwGoto(t, After(t)) \/ (t = Scheduler /\ FwGoto(t, "end")))
    <3>1. CASE t = AllThread
      <4>1. fw_all' = [fw_all EXCEPT !.done = @ + 1] /\ at' = [at EXCEPT ![t] = "next"]
        BY <2>4, <3>1 DEF Counted, After
      <4>2. Cardinality(rest[AllThread]) \in Nat
        BY FirewallsCounted DEF FwIInv, FwTypeOK
      <4>3. fw_all.done + 1 \in 0..Cardinality(Firewalls)
        BY <2>1, <3>1, <4>2, FirewallsCounted DEF FwIInv, FwTypeOK, RunCounts
      <4>4. /\ fw_all' \in [running : BOOLEAN, stop : BOOLEAN, done : 0..Cardinality(Firewalls)]
            /\ fw_all'.done = fw_all.done + 1
            /\ fw_all'.running = fw_all.running /\ fw_all'.stop = fw_all.stop
        BY <4>1, <4>3 DEF FwIInv, FwTypeOK
      <4>5. FwTypeOK'
        BY <2>1, <2>2, <4>1, <4>4 DEF FwIInv, FwTypeOK, FwPc
      <4>6. FwPlaces'
        BY <2>1, <3>1, <4>1 DEF FwIInv, FwTypeOK, FwPlaces, Inside
      <4>7. RunCounts'
        <5>1. fw_all.done \in Nat /\ listed \in Int
          BY FirewallsCounted DEF FwIInv, FwTypeOK
        <5>2. at'[AllThread] = "next" /\ rest' = rest /\ listed' = listed /\ stopAsked' = stopAsked
          BY <2>1, <3>1, <4>1 DEF FwIInv, FwTypeOK
        <5>3. fw_all.done + Cardinality(rest[AllThread]) + 1 = listed
          BY <2>1, <3>1 DEF FwIInv, RunCounts
        <5>4. fw_all'.done + Cardinality(rest[AllThread]) = listed
          BY <4>2, <4>4, <5>1, <5>3
        <5> QED
          BY <2>1, <3>1, <4>4, <5>2, <5>4
          DEF FwIInv, RunCounts, SkippedOnlyWhenStopped, Inside
      <4> QED
        BY <4>5, <4>6, <4>7 DEF FwIInv
    <3>2. CASE t # AllThread
      <4>1. UNCHANGED fw_all /\ \E to \in {"release", "next", "end"} :
                /\ at' = [at EXCEPT ![t] = to]
                /\ to = "release" <=> t \in Clicks
        BY <2>4, <3>2 DEF Counted, After
      <4>2. FwTypeOK'
        BY <2>1, <2>2, <4>1 DEF FwIInv, FwTypeOK, FwPc
      <4>3. FwPlaces' /\ RunCounts'
        BY <2>1, <3>2, <4>1
        DEF FwIInv, FwTypeOK, FwPlaces, RunCounts, SkippedOnlyWhenStopped, Inside
      <4> QED
        BY <4>2, <4>3 DEF FwIInv
    <3> QED
      BY <3>1, <3>2
  <2> QED
    BY <1>1, <2>3, <2>4, CollectionStep
<1>2. ASSUME NEW c \in Clicks, NEW f \in Firewalls, Click(c, f) PROVE FwIInv'
  <2>1. jobs' \in 0..MaxJobs
    BY <1>2, FirewallAssumption DEF Click, NewJob, FwIInv, FwTypeOK
  <2>2. FwTypeOK'
    BY <1>2, <2>1 DEF Click, FwIInv, FwTypeOK, FwPc, Inside
  <2>3. FwPlaces' /\ RunCounts'
    BY <1>2 DEF Click, FwIInv, FwTypeOK, FwPlaces, RunCounts, SkippedOnlyWhenStopped, Inside
  <2> QED
    BY <2>2, <2>3 DEF FwIInv
<1>3. ASSUME NEW c \in Clicks, ClickRelease(c) PROVE FwIInv'
  <2>1. FwTypeOK'
    BY <1>3 DEF ClickRelease, FwIInv, FwTypeOK, FwPc
  <2>2. FwPlaces' /\ RunCounts'
    BY <1>3 DEF ClickRelease, FwIInv, FwTypeOK, FwPlaces, RunCounts, SkippedOnlyWhenStopped, Inside
  <2> QED
    BY <2>1, <2>2 DEF FwIInv
<1>4. ASSUME NEW ids \in SUBSET Firewalls, AllStart(ids) PROVE FwIInv'
  <2>1. jobs' \in 0..MaxJobs
    BY <1>4, FirewallAssumption DEF AllStart, NewJob, FwIInv, FwTypeOK
  <2>2. /\ fw_all' \in [running : BOOLEAN, stop : BOOLEAN, done : 0..Cardinality(Firewalls)]
        /\ fw_all'.running /\ ~fw_all'.stop /\ fw_all'.done = 0
    BY <1>4, FirewallsCounted DEF AllStart
  <2>3. listed' = -1 /\ listed' \in -1..Cardinality(Firewalls) /\ stopAsked' = FALSE
    BY <1>4, FirewallsCounted DEF AllStart
  <2>4. rest' \in [FwThreads -> SUBSET Firewalls] /\ at' \in [FwThreads -> FwPc]
    BY <1>4 DEF AllStart, FwIInv, FwTypeOK, FwPc
  <2>5. unstarted' \in BOOLEAN
    BY <1>4 DEF AllStart, FwIInv, FwTypeOK
  <2>6. FwTypeOK'
    BY <1>4, <2>1, <2>2, <2>3, <2>4, <2>5 DEF AllStart, FwIInv, FwTypeOK
  <2>7. at[AllThread] = "idle"
    BY <1>4 DEF AllStart, FwIInv, RunCounts
  <2>8. /\ at'[AllThread] \in {"idle", "list"}
        /\ \A t \in FwThreads \ {AllThread} : at'[t] = at[t]
        /\ fid' = fid
    BY <1>4, <2>7 DEF AllStart, FwIInv, FwTypeOK
  <2>9. FwPlaces' /\ RunCounts'
    BY <2>2, <2>3, <2>8
    DEF FwIInv, FwPlaces, RunCounts, SkippedOnlyWhenStopped, Inside
  <2> QED
    BY <2>6, <2>9 DEF FwIInv
<1>5. CASE AllList
  <2>1. Cardinality(rest[AllThread]) \in 0..Cardinality(Firewalls)
    BY FirewallsCounted DEF FwIInv, FwTypeOK
  <2>2. UNCHANGED dbFaults \/ DbRaises
    BY <1>5 DEF AllList
  <2>3. dbFaults' \in 0..MaxDbFaults
    BY <2>2, FirewallAssumption DEF DbRaises, FwIInv, FwTypeOK
  <2>4. listed' \in -1..Cardinality(Firewalls)
    BY <1>5, <2>1, FirewallsCounted DEF AllList, FwIInv, FwTypeOK
  <2>5. FwTypeOK'
    BY <1>5, <2>3, <2>4 DEF AllList, FwIInv, FwTypeOK, FwPc
  <2>6. FwPlaces'
    BY <1>5 DEF AllList, FwIInv, FwTypeOK, FwPlaces, Inside
  <2>7. RunCounts'
    BY <1>5, <2>1, FirewallsCounted
    DEF AllList, FwIInv, FwTypeOK, RunCounts, SkippedOnlyWhenStopped, Inside
  <2> QED
    BY <2>5, <2>6, <2>7 DEF FwIInv
<1>6. CASE AllNext
  <2>1. CASE FwGoto(AllThread, "end")
    <3>1. UNCHANGED <<fid, rest>> /\ (fw_all.stop \/ rest[AllThread] = {})
      BY <1>6, <2>1 DEF AllNext, FwIInv, FwTypeOK
    <3>2. FwTypeOK' /\ FwPlaces'
      BY <1>6, <2>1, <3>1 DEF AllNext, FwIInv, FwTypeOK, FwPc, FwPlaces, Inside
    <3>3. /\ at[AllThread] = "next" /\ at'[AllThread] = "end"
          /\ UNCHANGED <<fw_all, listed, stopAsked>>
      BY <1>6, <2>1 DEF AllNext, FwIInv, FwTypeOK
    <3>4. rest[AllThread] = {} => fw_all.done = listed
      BY <3>3, FirewallsCounted DEF FwIInv, FwTypeOK, RunCounts
    <3>5. RunCounts'
      BY <3>1, <3>3, <3>4 DEF FwIInv, RunCounts, SkippedOnlyWhenStopped, Inside
    <3> QED
      BY <3>2, <3>5 DEF FwIInv
  <2>2. ASSUME NEW f \in First(rest[AllThread]),
               fid' = [fid EXCEPT ![AllThread] = f],
               rest' = [rest EXCEPT ![AllThread] = @ \ {f}],
               at' = [at EXCEPT ![AllThread] = "mark"]
        PROVE  FwIInv'
    <3>1. f \in rest[AllThread] /\ rest[AllThread] \in SUBSET Firewalls /\ f \in Firewalls
      BY DEF First, FwIInv, FwTypeOK
    <3>2. /\ Cardinality(rest[AllThread]) \in Nat
          /\ Cardinality(rest[AllThread] \ {f}) = Cardinality(rest[AllThread]) - 1
      BY <3>1, FirewallsCounted
    <3>3. FwTypeOK' /\ FwPlaces'
      BY <1>6, <2>2, <3>1 DEF AllNext, FwIInv, FwTypeOK, FwPc, FwPlaces, Inside
    <3>4. /\ at[AllThread] = "next" /\ at'[AllThread] = "mark"
          /\ rest'[AllThread] = rest[AllThread] \ {f}
          /\ UNCHANGED <<fw_all, listed, stopAsked>>
          /\ fw_all.done \in Nat /\ listed \in Int
      BY <1>6, <2>2, FirewallsCounted DEF AllNext, FwIInv, FwTypeOK
    <3>5. fw_all.done + Cardinality(rest'[AllThread]) + 1 = listed
      BY <3>2, <3>4 DEF FwIInv, RunCounts
    <3>6. RunCounts'
      BY <3>4, <3>5 DEF FwIInv, RunCounts, SkippedOnlyWhenStopped, Inside
    <3> QED
      BY <3>3, <3>6 DEF FwIInv
  <2> QED
    BY <1>6, <2>1, <2>2 DEF AllNext
<1>7. CASE AllEnd
  <2>1. /\ fw_all' \in [running : BOOLEAN, stop : BOOLEAN, done : 0..Cardinality(Firewalls)]
    BY <1>7 DEF AllEnd, FwIInv, FwTypeOK
  <2>2. listed' \in -1..Cardinality(Firewalls)
    BY <1>7, FirewallsCounted DEF AllEnd
  <2>3. FwTypeOK'
    BY <1>7, <2>1, <2>2 DEF AllEnd, FwIInv, FwTypeOK, FwPc
  <2>4. FwPlaces' /\ RunCounts'
    BY <1>7 DEF AllEnd, FwIInv, FwTypeOK, FwPlaces, RunCounts, SkippedOnlyWhenStopped, Inside
  <2> QED
    BY <2>3, <2>4 DEF FwIInv
<1>8. CASE AllStop
  <2>1. /\ fw_all' \in [running : BOOLEAN, stop : BOOLEAN, done : 0..Cardinality(Firewalls)]
        /\ fw_all'.running /\ fw_all'.stop /\ fw_all'.done = fw_all.done
    BY <1>8 DEF AllStop, FwIInv, FwTypeOK
  <2>2. FwTypeOK' /\ FwPlaces'
    BY <1>8, <2>1 DEF AllStop, FwIInv, FwTypeOK, FwPlaces
  <2>3. RunCounts'
    BY <1>8, <2>1 DEF AllStop, FwIInv, RunCounts, SkippedOnlyWhenStopped
  <2> QED
    BY <2>2, <2>3 DEF FwIInv
<1>9. ASSUME NEW fs \in SUBSET Firewalls, SchedStart(fs) PROVE FwIInv'
  <2>1. jobs' \in 0..MaxJobs
    BY <1>9, FirewallAssumption DEF SchedStart, NewJob, FwIInv, FwTypeOK
  <2>2. FwTypeOK'
    BY <1>9, <2>1 DEF SchedStart, FwIInv, FwTypeOK, FwPc
  <2>3. FwPlaces' /\ RunCounts'
    BY <1>9 DEF SchedStart, FwIInv, FwTypeOK, FwPlaces, RunCounts, SkippedOnlyWhenStopped, Inside
  <2> QED
    BY <2>2, <2>3 DEF FwIInv
<1>10. CASE SchedNext \/ SchedEnd
  <2>1. /\ UNCHANGED <<fw_all, collecting_firewalls, fw_status, stopAsked, listed,
                       unstarted, unwritten, jobs, dbFaults>>
        /\ \A t \in FwThreads \ {Scheduler} :
              at'[t] = at[t] /\ fid'[t] = fid[t] /\ rest'[t] = rest[t]
    BY <1>10 DEF SchedNext, SchedEnd, FwIInv, FwTypeOK
  <2>2. /\ at' \in [FwThreads -> FwPc]
        /\ fid' \in [FwThreads -> Firewalls \cup {NoFirewall}]
        /\ rest' \in [FwThreads -> SUBSET Firewalls]
        /\ \/ at'[Scheduler] \in {"idle", "end"}
           \/ at'[Scheduler] = "mark" /\ fid'[Scheduler] \in Firewalls
    BY <1>10 DEF SchedNext, SchedEnd, First, FwIInv, FwTypeOK, FwPc, Inside
  <2>3. FwTypeOK' /\ FwPlaces'
    BY <2>1, <2>2 DEF FwIInv, FwTypeOK, FwPlaces, Inside
  <2>4. RunCounts'
    BY <2>1 DEF FwIInv, RunCounts, SkippedOnlyWhenStopped
  <2> QED
    BY <2>3, <2>4 DEF FwIInv
<1>11. CASE UNCHANGED fwVars
  BY <1>11 DEF fwVars, FwIInv, FwTypeOK, FwPlaces, RunCounts, SkippedOnlyWhenStopped
<1> QED
  BY <1>1, <1>2, <1>3, <1>4, <1>5, <1>6, <1>7, <1>8, <1>9, <1>10, <1>11 DEF FwNext, FwThreadStep

LEMMA FwInductive == FwSpec => []FwIInv
  BY FwInitial, FwStep, PTL DEF FwSpec

\* Every variable keeps to its type in every behaviour.
THEOREM FirewallTypeCorrect == FwSpec => []FwTypeOK
  BY FwInductive, PTL DEF FwIInv

-----------------------------------------------------------------------------
(* The guard of the single request and the badge.                          *)

\* A firewall is in the guard set exactly while one request works on it.
FwHolders ==
    /\ \A c \in Clicks : at[c] # "idle" => fid[c] \in collecting_firewalls
    /\ \A f \in collecting_firewalls : \E c \in Clicks : at[c] # "idle" /\ fid[c] = f
    /\ \A c, d \in Clicks :
          at[c] # "idle" /\ at[d] # "idle" /\ fid[c] = fid[d] => c = d

LEMMA FwHoldersInit == FwInit => FwHolders
  BY Threads DEF FwInit, FwHolders

LEMMA FwHoldersStep == FwIInv /\ FwHolders /\ [FwNext]_fwVars => FwHolders'
<1> SUFFICES ASSUME FwIInv, FwHolders, [FwNext]_fwVars PROVE FwHolders'
  OBVIOUS
<1> USE Threads DEF FwGoto, FwHolders
<1> DEFINE Same == /\ collecting_firewalls' = collecting_firewalls
                   /\ \A c \in Clicks : (at'[c] # "idle" <=> at[c] # "idle") /\ fid'[c] = fid[c]
<1>0. ASSUME Same PROVE FwHolders'
  BY <1>0
<1>1. ASSUME NEW t \in FwThreads,
             MarkStatus(t) \/ Collect(t) \/ DoneStatus(t) \/ FailStatus(t)
      PROVE  Same
  <2>1. /\ UNCHANGED <<collecting_firewalls, fid>> /\ at[t] \in Inside
        /\ \E to \in FwPc \ {"idle"} : at' = [at EXCEPT ![t] = to]
    BY <1>1, CollectionStep DEF FwPc, Inside, After
  <2> QED
    BY <2>1 DEF Inside, FwIInv, FwTypeOK
<1>2. ASSUME NEW c \in Clicks, NEW f \in Firewalls, Click(c, f) PROVE FwHolders'
  BY <1>2 DEF Click, FwIInv, FwTypeOK
<1>3. ASSUME NEW c \in Clicks, ClickRelease(c) PROVE FwHolders'
  BY <1>3 DEF ClickRelease, FwIInv, FwTypeOK
<1>4. ASSUME NEW ids \in SUBSET Firewalls, AllStart(ids) \/ SchedStart(ids) PROVE Same
  BY <1>4 DEF AllStart, SchedStart, FwIInv, FwTypeOK
<1>5. CASE AllList \/ AllNext \/ AllEnd \/ AllStop \/ SchedNext \/ SchedEnd
  BY <1>5, <1>0 DEF AllList, AllNext, AllEnd, AllStop, SchedNext, SchedEnd, FwIInv, FwTypeOK
<1>6. CASE UNCHANGED fwVars
  BY <1>6, <1>0 DEF fwVars
<1> QED
  BY <1>0, <1>1, <1>2, <1>3, <1>4, <1>5, <1>6 DEF FwNext, FwThreadStep

LEMMA FwHolderCount == FwHolders => GuardHasOneHolder
<1> SUFFICES ASSUME FwHolders, NEW f \in Firewalls
             PROVE  Cardinality({c \in Clicks : at[c] # "idle" /\ fid[c] = f})
                        = IF f \in collecting_firewalls THEN 1 ELSE 0
  BY DEF GuardHasOneHolder
<1> DEFINE H == {c \in Clicks : at[c] # "idle" /\ fid[c] = f}
<1>1. CASE f \in collecting_firewalls
  <2>1. PICK c \in Clicks : at[c] # "idle" /\ fid[c] = f
    BY <1>1 DEF FwHolders
  <2>2. H = {c}
    BY <2>1 DEF FwHolders
  <2> QED
    BY <1>1, <2>2, FS_Singleton
<1>2. CASE f \notin collecting_firewalls
  <2>1. H = {}
    BY <1>2 DEF FwHolders
  <2> QED
    BY <1>2, <2>1, FS_EmptySet
<1> QED
  BY <1>1, <1>2

\* The badge: whoever wrote "collecting" is still at the firewall, and leaves
\* it only with another status written or its write lost.
LEMMA BadgeInit == FwInit => CollectingIsCollected
  BY DEF FwInit, CollectingIsCollected

LEMMA BadgeStep ==
    FwIInv /\ CollectingIsCollected /\ [FwNext]_fwVars => CollectingIsCollected'
<1> SUFFICES ASSUME FwIInv, CollectingIsCollected, [FwNext]_fwVars
             PROVE  CollectingIsCollected'
  OBVIOUS
<1> USE Threads DEF FwGoto, CollectingIsCollected
<1> DEFINE Same == /\ UNCHANGED <<fw_status, unwritten>>
                   /\ \A t \in FwThreads :
                         at[t] \in Inside => at'[t] \in Inside /\ fid'[t] = fid[t]
<1>0. ASSUME Same PROVE CollectingIsCollected'
  BY <1>0
<1>1. ASSUME NEW t \in FwThreads,
             MarkStatus(t) \/ Collect(t) \/ DoneStatus(t) \/ FailStatus(t)
      PROVE  CollectingIsCollected'
  <2>1. /\ UNCHANGED fid /\ fid[t] \in Firewalls
        /\ at[t] \in Inside /\ \E to \in FwPc : at' = [at EXCEPT ![t] = to]
    BY <1>1, CollectionStep DEF FwPc, Inside, After
  <2>2. \/ at'[t] \in Inside /\ UNCHANGED <<fw_status, unwritten>>
        \/ at'[t] \in Inside /\ Write(fid[t], "collecting")
        \/ \E s \in {"done", "failed"} : Write(fid[t], s)
        \/ UNCHANGED fw_status /\ unwritten' = unwritten \cup {fid[t]}
    BY <1>1 DEF MarkStatus, Collect, DoneStatus, FailStatus, Inside, FwIInv, FwTypeOK
  <2> QED
    BY <2>1, <2>2 DEF Write, FwIInv, FwTypeOK
<1>2. ASSUME NEW c \in Clicks, NEW f \in Firewalls, Click(c, f) PROVE Same
  BY <1>2 DEF Click, Inside, FwIInv, FwTypeOK
<1>3. ASSUME NEW c \in Clicks, ClickRelease(c) PROVE Same
  BY <1>3 DEF ClickRelease, Inside, FwIInv, FwTypeOK
<1>4. ASSUME NEW ids \in SUBSET Firewalls, AllStart(ids) \/ SchedStart(ids) PROVE Same
  BY <1>4 DEF AllStart, SchedStart, Inside, FwIInv, FwTypeOK, RunCounts
<1>5. CASE AllList \/ AllNext \/ AllEnd \/ AllStop \/ SchedNext \/ SchedEnd
  BY <1>5, <1>0
  DEF AllList, AllNext, AllEnd, AllStop, SchedNext, SchedEnd, Inside, FwIInv, FwTypeOK
<1>6. CASE UNCHANGED fwVars
  BY <1>6, <1>0 DEF fwVars
<1> QED
  BY <1>0, <1>1, <1>2, <1>3, <1>4, <1>5, <1>6 DEF FwNext, FwThreadStep

-----------------------------------------------------------------------------
(* The stop of a run.                                                      *)

\* Only AllNext takes the collect-all thread to a firewall, and it looks at
\* the flag that the accepted stop has set.
LEMMA FwStopStep ==
    FwIInv /\ [FwNext]_fwVars =>
        (stopAsked /\ stopAsked' /\ at'[AllThread] = "mark" => at[AllThread] = "mark")
<1> SUFFICES ASSUME FwIInv, [FwNext]_fwVars, stopAsked, at'[AllThread] = "mark"
             PROVE  at[AllThread] = "mark"
  OBVIOUS
<1> USE Threads DEF FwGoto
<1>1. ASSUME NEW t \in FwThreads,
             MarkStatus(t) \/ Collect(t) \/ DoneStatus(t) \/ FailStatus(t)
      PROVE  at[AllThread] = "mark"
  <2>1. \E to \in FwPc \ {"mark"} : at' = [at EXCEPT ![t] = to]
    BY <1>1, CollectionStep DEF FwPc, Inside, After
  <2> QED
    BY <2>1 DEF FwIInv, FwTypeOK
<1>2. ASSUME NEW c \in Clicks, NEW f \in Firewalls, Click(c, f) PROVE at[AllThread] = "mark"
  BY <1>2 DEF Click, FwIInv, FwTypeOK
<1>3. ASSUME NEW c \in Clicks, ClickRelease(c) PROVE at[AllThread] = "mark"
  BY <1>3 DEF ClickRelease, FwIInv, FwTypeOK
<1>4. ASSUME NEW ids \in SUBSET Firewalls, AllStart(ids) \/ SchedStart(ids)
      PROVE  at[AllThread] = "mark"
  BY <1>4 DEF AllStart, SchedStart, FwIInv, FwTypeOK
<1>5. CASE AllNext
  BY <1>5 DEF AllNext, FwIInv, FwTypeOK, RunCounts
<1>6. CASE AllList \/ AllEnd \/ AllStop \/ SchedNext \/ SchedEnd
  BY <1>6 DEF AllList, AllEnd, AllStop, SchedNext, SchedEnd, FwIInv, FwTypeOK
<1>7. CASE UNCHANGED fwVars
  BY <1>7 DEF fwVars
<1> QED
  BY <1>1, <1>2, <1>3, <1>4, <1>5, <1>6, <1>7 DEF FwNext, FwThreadStep

\* Guard, badge and stop of the collections of firewalls, with any number of
\* firewalls, requests and faults.
THEOREM FirewallsAreSafe == FwSpec => FirewallSafety
<1>1. FwSpec => [](FwIInv /\ FwHolders /\ CollectingIsCollected)
  BY FwInitial, FwStep, FwHoldersInit, FwHoldersStep, BadgeInit, BadgeStep, PTL DEF FwSpec
<1>2. FwIInv /\ FwHolders => GuardHasOneHolder /\ SkippedOnlyWhenStopped
  BY FwHolderCount DEF FwIInv, RunCounts
<1>3. FwIInv /\ [FwNext]_fwVars =>
        [stopAsked /\ stopAsked' /\ at'[AllThread] = "mark" => at[AllThread] = "mark"]_fwVars
  BY FwStopStep
<1> QED
  BY <1>1, <1>2, <1>3, PTL DEF FwSpec, FirewallSafety, StopBeginsNothing

-----------------------------------------------------------------------------
(***************************************************************************)
(* The diagnoses.                                                          *)
(***************************************************************************)


LEMMA DevicesCounted ==
    /\ Cardinality(DiagDevices) \in Nat
    /\ Cardinality({}) = 0
    /\ \A S \in SUBSET DiagDevices :
          /\ Cardinality(S) \in Nat /\ Cardinality(S) <= Cardinality(DiagDevices)
          /\ \A d \in S : Cardinality(S \ {d}) = Cardinality(S) - 1
          /\ \A d \in DiagDevices \ S : Cardinality(S \cup {d}) = Cardinality(S) + 1
<1>1. Cardinality(DiagDevices) \in Nat /\ Cardinality({}) = 0
  BY DiagnosisAssumption, FS_CardinalityType, FS_EmptySet
<1>2. ASSUME NEW S \in SUBSET DiagDevices
      PROVE  /\ IsFiniteSet(S) /\ Cardinality(S) \in Nat
             /\ Cardinality(S) <= Cardinality(DiagDevices)
  BY DiagnosisAssumption, FS_Subset, FS_CardinalityType
<1>3. ASSUME NEW S \in SUBSET DiagDevices, NEW d \in S
      PROVE  Cardinality(S \ {d}) = Cardinality(S) - 1
  BY <1>2, FS_RemoveElement
<1>4. ASSUME NEW S \in SUBSET DiagDevices, NEW d \in DiagDevices \ S
      PROVE  Cardinality(S \cup {d}) = Cardinality(S) + 1
  BY <1>2, FS_AddElement
<1> QED
  BY <1>1, <1>2, <1>3, <1>4

FwDiagRecord == [running : BOOLEAN, total : DiagCount, done : DiagCount, ok : DiagCount]
SwDiagRecord == [running : BOOLEAN, done : DiagCount, corrected : DiagCount, error : BOOLEAN]

ListedTasks == {s \in DiagDevices : task[s] # "none"}
CountedTasks == {s \in DiagDevices : task[s] = "counted"}
NoTaskUnderWay == \A s \in DiagDevices : task[s] \notin {"waiting", "busy"}

\* The diagnosis of the firewalls: visited and unvisited ones are together
\* never more than there are, and only a refusal leaves the record behind.
FwDiagInv ==
    /\ fw_diag \in FwDiagRecord
    /\ fwDiagAt \in {"idle", "asked", "list", "visit", "end"}
    /\ fwDiagLeft \subseteq DiagDevices
    /\ fwDiagRefused \in BOOLEAN
    /\ fwDiagAt = "visit" =>
          /\ fw_diag.done + Cardinality(fwDiagLeft) <= Cardinality(DiagDevices)
          /\ fw_diag.ok <= fw_diag.done
    /\ FwDiagStuckOnlyAfterRefusal

\* The diagnosis of the switches: while the thread counts, done is the number
\* of tasks it has taken, and tasks are under way only while it waits for them.
SwDiagInv ==
    /\ diag_all \in SwDiagRecord
    /\ diagAt \in {"idle", "asked", "list", "count", "drain"}
    /\ task \in [DiagDevices -> {"none", "waiting", "busy", "counted"} \cup TaskOutcome]
    /\ diagListed \in -1..Cardinality(DiagDevices)
    /\ diag_all.running <=> diagAt # "idle"
    /\ diagAt \notin {"count", "drain"} => NoTaskUnderWay
    /\ diagAt \in {"asked", "list"} => diag_all.done = 0 /\ diag_all.corrected = 0
    /\ diagAt = "count" =>
          /\ diagListed = Cardinality(ListedTasks)
          /\ diag_all.done = Cardinality(CountedTasks)
          /\ diag_all.corrected <= diag_all.done
    /\ LossIsReported

DiagIInv == FwDiagInv /\ SwDiagInv /\ diagnoses \in 0..MaxDiagnoses

LEMMA DiagInitial == DiagInit => DiagIInv
<1> SUFFICES ASSUME DiagInit PROVE DiagIInv
  OBVIOUS
<1> USE DevicesCounted DEF DiagInit, DiagCount
<1>1. FwDiagInv
  <2>1. fw_diag \in FwDiagRecord /\ ~fw_diag.running
    BY DEF FwDiagRecord
  <2> QED
    BY <2>1 DEF FwDiagInv, FwDiagStuckOnlyAfterRefusal
<1>2. SwDiagInv
  BY DEF SwDiagInv, SwDiagRecord, LossIsReported, NoTaskUnderWay
<1> QED
  BY <1>1, <1>2, DiagnosisAssumption DEF DiagIInv

LEMMA FwDiagStepKeeps ==
    ASSUME FwDiagInv, FwDiagAsk \/ FwDiagStep
    PROVE  FwDiagInv' /\ UNCHANGED swDiagVars
<1> USE DevicesCounted
    DEF FwDiagInv, FwDiagStuckOnlyAfterRefusal
<1>0. UNCHANGED swDiagVars
  BY DEF FwDiagAsk, FwDiagStep, FwDiagRefuse, FwDiagThread, FwDiagList, FwDiagVisit, FwDiagEnd
<1>1. CASE FwDiagAsk
  BY <1>1 DEF FwDiagAsk, FwDiagRecord, DiagCount
<1>2. CASE FwDiagRefuse \/ FwDiagThread
  BY <1>2 DEF FwDiagRefuse, FwDiagThread
<1>3. CASE FwDiagList
  <2>1. CASE fwDiagAt' = "end"
    BY <1>3, <2>1 DEF FwDiagList
  <2>2. CASE fwDiagAt' # "end"
    <3>1. PICK wanted \in SUBSET DiagDevices :
            /\ fwDiagLeft' = wanted
            /\ fw_diag' = [fw_diag EXCEPT !.total = Cardinality(wanted), !.done = 0, !.ok = 0]
      BY <1>3, <2>2 DEF FwDiagList
    <3>2. Cardinality(wanted) \in DiagCount /\ 0 \in DiagCount
      BY DEF DiagCount
    <3>3. fw_diag' \in FwDiagRecord /\ fw_diag'.done = 0 /\ fw_diag'.ok = 0
      BY <3>1, <3>2 DEF FwDiagRecord
    <3>4. /\ fwDiagLeft' \subseteq DiagDevices
          /\ Cardinality(fwDiagLeft') <= Cardinality(DiagDevices)
          /\ Cardinality(fwDiagLeft') \in Nat
      BY <3>1
    <3>5. fwDiagAt' = "visit" /\ UNCHANGED fwDiagRefused
      BY <1>3, <2>2 DEF FwDiagList
    <3> QED
      BY <1>0, <3>3, <3>4, <3>5
  <2> QED
    BY <2>1, <2>2
<1>4. CASE FwDiagVisit
  <2>1. CASE fwDiagAt' = "end" /\ UNCHANGED <<fw_diag, fwDiagLeft>>
    BY <1>4, <2>1 DEF FwDiagVisit
  <2>2. ASSUME NEW f \in fwDiagLeft, NEW ok \in 0..1,
               fwDiagLeft' = fwDiagLeft \ {f},
               fw_diag' = [fw_diag EXCEPT !.done = @ + 1, !.ok = @ + ok],
               UNCHANGED fwDiagAt
        PROVE  FwDiagInv'
    <3>1. /\ Cardinality(fwDiagLeft) \in Nat /\ Cardinality(fwDiagLeft \ {f}) \in Nat
          /\ Cardinality(fwDiagLeft \ {f}) = Cardinality(fwDiagLeft) - 1
      OBVIOUS
    <3>2. /\ fw_diag.done \in Nat /\ fw_diag.ok \in Nat
          /\ fw_diag.done + Cardinality(fwDiagLeft) <= Cardinality(DiagDevices)
          /\ fw_diag.ok <= fw_diag.done
      BY <1>4 DEF FwDiagVisit, FwDiagRecord, DiagCount
    <3>3. fw_diag.done + 1 \in DiagCount /\ fw_diag.ok + ok \in DiagCount
      BY <3>1, <3>2 DEF DiagCount
    <3>4. /\ fw_diag' \in FwDiagRecord
          /\ fw_diag'.done = fw_diag.done + 1 /\ fw_diag'.ok = fw_diag.ok + ok
          /\ fw_diag'.running = fw_diag.running
      BY <2>2, <3>3 DEF FwDiagRecord
    <3> QED
      BY <1>4, <2>2, <3>1, <3>2, <3>4 DEF FwDiagVisit
  <2> QED
    BY <1>4, <2>1, <2>2 DEF FwDiagVisit
<1>5. CASE FwDiagEnd
  BY <1>5 DEF FwDiagEnd, FwDiagRecord
<1> QED
  BY <1>1, <1>2, <1>3, <1>4, <1>5 DEF FwDiagStep

LEMMA SwDiagStepKeeps ==
    ASSUME SwDiagInv, DiagAsk \/ DiagMain \/ DiagPool
    PROVE  SwDiagInv' /\ UNCHANGED fwDiagVars
<1> USE DevicesCounted DEF SwDiagInv, LossIsReported, NoTaskUnderWay
<1>0. UNCHANGED fwDiagVars
  BY DEF DiagAsk, DiagMain, DiagPool, DiagThread, DiagList, DiagCountOne, DiagEnd,
         TaskBegin, TaskEnd
<1>1. CASE DiagAsk
  BY <1>1 DEF DiagAsk, SwDiagRecord, DiagCount
<1>2. CASE DiagThread
  <2>1. -1 \in -1..Cardinality(DiagDevices)
    OBVIOUS
  <2> QED
    BY <1>2, <2>1 DEF DiagThread, SwDiagRecord
<1>3. CASE DiagList
  <2>1. CASE diagAt' = "idle"
    <3>1. /\ diagAt = "list" /\ UNCHANGED <<task, diagListed>>
          /\ diag_all' = [diag_all EXCEPT !.running = FALSE, !.error = TRUE]
      BY <1>3, <2>1 DEF DiagList
    <3>2. diag_all' \in SwDiagRecord /\ ~diag_all'.running /\ diag_all'.error
      BY <3>1 DEF SwDiagRecord
    <3>3. NoTaskUnderWay' /\ task' = task /\ diagListed' = diagListed
      BY <3>1
    <3> QED
      BY <1>0, <2>1, <3>2, <3>3
  <2>2. CASE diagAt' # "idle"
    <3>1. PICK switches \in SUBSET DiagDevices :
            /\ task' = [s \in DiagDevices |-> IF s \in switches THEN "waiting" ELSE "none"]
            /\ diagListed' = Cardinality(switches)
      BY <1>3, <2>2 DEF DiagList
    <3>2. diagAt = "list" /\ diagAt' = "count" /\ UNCHANGED diag_all
      BY <1>3, <2>2 DEF DiagList
    <3>3. ListedTasks' = switches /\ CountedTasks' = {}
      BY <3>1 DEF ListedTasks, CountedTasks
    <3>4. diag_all.done = 0 /\ diag_all.corrected = 0 /\ diag_all.running
      BY <3>2
    <3>5. /\ task' \in [DiagDevices -> {"none", "waiting", "busy", "counted"} \cup TaskOutcome]
          /\ diagListed' \in -1..Cardinality(DiagDevices)
          /\ diagListed' = Cardinality(ListedTasks') /\ Cardinality(CountedTasks') = 0
      BY <3>1, <3>3
    <3> QED
      BY <1>0, <3>2, <3>4, <3>5
  <2> QED
    BY <2>1, <2>2
<1>4. ASSUME NEW s \in DiagDevices, TaskBegin(s) \/ TaskEnd(s) PROVE SwDiagInv'
  <2>1. PICK to \in {"busy"} \cup TaskOutcome : task' = [task EXCEPT ![s] = to]
    BY <1>4 DEF TaskBegin, TaskEnd
  <2>2. task[s] \in {"waiting", "busy"} /\ UNCHANGED <<diag_all, diagAt, diagListed>>
    BY <1>4 DEF TaskBegin, TaskEnd
  <2>3. /\ task' \in [DiagDevices -> {"none", "waiting", "busy", "counted"} \cup TaskOutcome]
        /\ ListedTasks' = ListedTasks /\ CountedTasks' = CountedTasks
    BY <2>1, <2>2 DEF ListedTasks, CountedTasks, TaskOutcome
  <2> QED
    BY <2>2, <2>3
<1>5. ASSUME NEW s \in DiagDevices, DiagCountOne(s) PROVE SwDiagInv'
  <2>1. /\ diagAt = "count" /\ task[s] \in TaskOutcome
        /\ task' = [task EXCEPT ![s] = "counted"]
        /\ UNCHANGED diagListed
    BY <1>5 DEF DiagCountOne
  <2>2. /\ task' \in [DiagDevices -> {"none", "waiting", "busy", "counted"} \cup TaskOutcome]
        /\ ListedTasks' = ListedTasks
        /\ CountedTasks' = CountedTasks \cup {s} /\ s \in DiagDevices \ CountedTasks
    BY <2>1 DEF ListedTasks, CountedTasks, TaskOutcome
  <2>3. /\ Cardinality(CountedTasks) \in Nat
        /\ Cardinality(CountedTasks') = Cardinality(CountedTasks) + 1
        /\ Cardinality(CountedTasks') <= Cardinality(DiagDevices)
    <3>1. CountedTasks \in SUBSET DiagDevices /\ CountedTasks' \in SUBSET DiagDevices
      BY DEF CountedTasks
    <3> QED
      BY <2>2, <3>1
  <2>4. CASE diagAt' = "drain" /\ UNCHANGED diag_all
    BY <2>1, <2>2, <2>4
  <2>5. ASSUME NEW c \in {diag_all.corrected, diag_all.corrected + 1},
               diag_all' = [diag_all EXCEPT !.done = @ + 1, !.corrected = c],
               UNCHANGED diagAt
        PROVE  SwDiagInv'
    <3>1. /\ diag_all.done = Cardinality(CountedTasks)
          /\ diag_all.corrected \in Nat /\ diag_all.corrected <= diag_all.done
      BY <2>1 DEF SwDiagRecord, DiagCount
    <3>2. diag_all.done + 1 \in DiagCount /\ c \in DiagCount
      BY <2>3, <3>1 DEF DiagCount
    <3>3. /\ diag_all' \in SwDiagRecord
          /\ diag_all'.done = diag_all.done + 1 /\ diag_all'.corrected = c
          /\ diag_all'.running = diag_all.running /\ diag_all'.error = diag_all.error
      BY <2>5, <3>2 DEF SwDiagRecord
    <3>4. diag_all'.done = Cardinality(CountedTasks') /\ diag_all'.corrected <= diag_all'.done
      BY <2>3, <3>1, <3>3
    <3> QED
      BY <2>1, <2>2, <2>5, <3>3, <3>4
  <2>6. \/ diagAt' = "drain" /\ UNCHANGED diag_all
        \/ /\ diag_all' = [diag_all EXCEPT !.done = @ + 1,
                 !.corrected = IF task[s] = "corrected" THEN @ + 1 ELSE @]
           /\ UNCHANGED diagAt
    BY <1>5 DEF DiagCountOne
  <2>7. \/ diagAt' = "drain" /\ UNCHANGED diag_all
        \/ /\ \E c \in {diag_all.corrected, diag_all.corrected + 1} :
                diag_all' = [diag_all EXCEPT !.done = @ + 1, !.corrected = c]
           /\ UNCHANGED diagAt
    <3>1. CASE task[s] = "corrected"
      BY <2>6, <3>1
    <3>2. CASE task[s] # "corrected"
      BY <2>6, <3>2
    <3> QED
      BY <3>1, <3>2
  <2> QED
    BY <2>4, <2>5, <2>7
<1>6. CASE DiagEnd
  <2>1. /\ diagAt \in {"count", "drain"} /\ diagAt' = "idle"
        /\ UNCHANGED <<task, diagListed>>
        /\ diag_all' = [diag_all EXCEPT !.running = FALSE, !.error = diagAt = "drain"]
    BY <1>6 DEF DiagEnd
  <2>2. /\ diag_all' \in SwDiagRecord
        /\ ~diag_all'.running /\ (diag_all'.error <=> diagAt = "drain")
        /\ diag_all'.done = diag_all.done /\ diag_all'.corrected = diag_all.corrected
    BY <2>1 DEF SwDiagRecord
  <2>3. NoTaskUnderWay'
    BY <1>6, <2>1 DEF DiagEnd
  <2>4. diagAt = "count" => ListedTasks = CountedTasks
    BY <1>6 DEF DiagEnd, ListedTasks, CountedTasks
  <2>5. UNCHANGED <<task, diagListed>> /\ diagAt' = "idle" /\ diagAt \in {"count", "drain"}
    BY <2>1
  <2>6. CountedTasks' = CountedTasks
    BY <2>5 DEF CountedTasks
  <2>7. LossIsReported'
    BY <2>2, <2>4, <2>5, <2>6 DEF CountedTasks
  <2> QED
    BY <1>0, <2>2, <2>3, <2>5, <2>7
<1> QED
  BY <1>0, <1>1, <1>2, <1>3, <1>4, <1>5, <1>6 DEF DiagMain, DiagPool

LEMMA DiagStep == DiagIInv /\ [DiagNext]_diagVars => DiagIInv'
<1> SUFFICES ASSUME DiagIInv, [DiagNext]_diagVars PROVE DiagIInv'
  OBVIOUS
<1> USE DEF DiagIInv
<1>1. UNCHANGED diagnoses \/ NewDiagnosis
  BY DEF DiagNext, FwDiagAsk, FwDiagStep, FwDiagRefuse, FwDiagThread, FwDiagList, FwDiagVisit,
         FwDiagEnd, DiagAsk, DiagMain, DiagPool, DiagThread, DiagList, DiagCountOne, DiagEnd,
         TaskBegin, TaskEnd, diagVars
<1>2. diagnoses' \in 0..MaxDiagnoses
  BY <1>1, DiagnosisAssumption DEF NewDiagnosis
<1>3. CASE FwDiagAsk \/ FwDiagStep
  <2>1. FwDiagInv' /\ UNCHANGED swDiagVars
    BY <1>3, FwDiagStepKeeps
  <2> QED
    BY <1>2, <2>1
    DEF swDiagVars, SwDiagInv, LossIsReported, NoTaskUnderWay, ListedTasks, CountedTasks
<1>4. CASE DiagAsk \/ DiagMain \/ DiagPool
  <2>1. SwDiagInv' /\ UNCHANGED fwDiagVars
    BY <1>4, SwDiagStepKeeps
  <2> QED
    BY <1>2, <2>1 DEF fwDiagVars, FwDiagInv, FwDiagStuckOnlyAfterRefusal
<1>5. CASE UNCHANGED diagVars
  BY <1>2, <1>5
  DEF diagVars, swDiagVars, fwDiagVars, SwDiagInv, LossIsReported, NoTaskUnderWay, ListedTasks,
      CountedTasks, FwDiagInv, FwDiagStuckOnlyAfterRefusal
<1> QED
  BY <1>3, <1>4, <1>5 DEF DiagNext

\* Every variable keeps to its type in every behaviour; no counter passes the
\* number of devices.
THEOREM DiagnosisTypeCorrect == DiagSpec => []DiagTypeOK
<1>1. DiagIInv => DiagTypeOK
  BY DEF DiagIInv, FwDiagInv, SwDiagInv, FwDiagRecord, SwDiagRecord, DiagTypeOK
<1> QED
  BY <1>1, DiagInitial, DiagStep, PTL DEF DiagSpec

\* No diagnosis runs behind the back of its record, and none ends with results
\* missing and nothing said.
THEOREM DiagnosesAreSafe == DiagSpec => []DiagnosisSafety
<1>1. DiagIInv => DiagnosisSafety
  BY DEF DiagIInv, FwDiagInv, SwDiagInv, DiagnosisSafety, NoTaskOutlivesRun, NoTaskUnderWay
<1> QED
  BY <1>1, DiagInitial, DiagStep, PTL DEF DiagSpec

-----------------------------------------------------------------------------
(***************************************************************************)
(* The collection of the servers.                                          *)
(***************************************************************************)


Owners == SrvClicks \cup SrvRuns
VisitPc == {"none", "waiting", "account", "guard"} \cup Held \cup SrvResult

LEMMA VisitPair ==
    ASSUME NEW v \in Visits
    PROVE  v[1] \in Owners /\ v[2] \in Servers /\ v = <<v[1], v[2]>>
  BY DEF Visits, Owners

\* The counters of a bulk run: what it has counted and what it still waits for
\* are together never more than the servers.
SrvCounts ==
    \A r \in SrvRuns :
        /\ results[r] + Cardinality(toCount[r]) <= Cardinality(Servers)
        /\ run[r] \in {"idle", "list", "except"} => results[r] = 0
        /\ run[r] # "count" => toCount[r] = {}

LEMMA ServersCounted ==
    /\ Cardinality(Servers) \in Nat
    /\ Cardinality({}) = 0
    /\ \A S \in SUBSET Servers :
          /\ Cardinality(S) \in Nat /\ Cardinality(S) <= Cardinality(Servers)
          /\ \A s \in S : Cardinality(S \ {s}) = Cardinality(S) - 1
<1>1. Cardinality(Servers) \in Nat /\ Cardinality({}) = 0
  BY ServerAssumption, FS_CardinalityType, FS_EmptySet
<1>2. ASSUME NEW S \in SUBSET Servers
      PROVE  /\ IsFiniteSet(S) /\ Cardinality(S) \in Nat
             /\ Cardinality(S) <= Cardinality(Servers)
  BY ServerAssumption, FS_Subset, FS_CardinalityType
<1>3. ASSUME NEW S \in SUBSET Servers, NEW s \in S
      PROVE  Cardinality(S \ {s}) = Cardinality(S) - 1
  BY <1>2, FS_RemoveElement
<1> QED
  BY <1>1, <1>2, <1>3

LEMMA SrvTypeInit == SrvInit => SrvTypeOK /\ SrvCounts
<1> SUFFICES ASSUME SrvInit PROVE SrvTypeOK /\ SrvCounts
  OBVIOUS
<1>1. srv_progress \in [running : BOOLEAN, done : 0..Cardinality(Servers)]
  BY ServersCounted DEF SrvInit
<1>2. srvJobs \in 0..MaxSrvJobs /\ srvFaults \in 0..MaxSrvFaults
  BY ServerAssumption DEF SrvInit
<1>3. results \in [SrvRuns -> 0..Cardinality(Servers)]
  BY ServersCounted DEF SrvInit
<1>4. SrvTypeOK
  BY <1>1, <1>2, <1>3 DEF SrvInit, SrvTypeOK
<1>5. SrvCounts
  BY ServersCounted DEF SrvInit, SrvCounts
<1> QED
  BY <1>4, <1>5

LEMMA SrvCountsStep == SrvTypeOK /\ SrvCounts /\ [SrvNext]_srvVars => SrvCounts'
<1> SUFFICES ASSUME SrvTypeOK, SrvCounts, [SrvNext]_srvVars PROVE SrvCounts'
  OBVIOUS
<1> DEFINE Same == results' = results /\ toCount' = toCount /\ run' = run
<1>0. ASSUME Same PROVE SrvCounts'
  BY <1>0 DEF SrvCounts
<1>1. ASSUME NEW c \in SrvClicks, NEW s \in Servers, SrvClick(c, s) PROVE Same
  BY <1>1 DEF SrvClick, bulkVars
<1>2. ASSUME NEW v \in Visits, VisitStep(v) PROVE Same
  BY <1>2 DEF VisitStep, Guard, MarkServer, Probe, SaveServer, FailServer, FreeServer,
              PoolBegin, PoolAccount, bulkVars
<1>3. ASSUME NEW r \in SrvRuns, RunStart(r) PROVE SrvCounts'
  BY <1>3 DEF RunStart, RunGoes, SrvCounts, SrvTypeOK
<1>4. ASSUME NEW r \in SrvRuns, RunStep(r) PROVE SrvCounts'
  <2>1. CASE RunList(r)
    <3>1. PICK ids \in SUBSET Servers : toCount' = [toCount EXCEPT ![r] = ids] \/ UNCHANGED toCount
      BY <2>1 DEF RunList
    <3>2. /\ run[r] = "list" /\ results' = results
          /\ \/ run' = [run EXCEPT ![r] = "count"]
             \/ run' = [run EXCEPT ![r] = "except"] /\ UNCHANGED toCount
      BY <2>1 DEF RunList, RunGoes
    <3>3. results[r] = 0 /\ toCount[r] = {}
      BY <3>2 DEF SrvCounts
    <3> QED
      BY <3>1, <3>2, <3>3, ServersCounted DEF SrvCounts, SrvTypeOK
  <2>2. CASE Count(r)
    <3>1. CASE /\ toCount' = [toCount EXCEPT ![r] = {}]
               /\ run' = [run EXCEPT ![r] = "drain"]
               /\ UNCHANGED results
      BY <2>2, <3>1, ServersCounted DEF Count, SrvCounts, SrvTypeOK
    <3>2. PICK s \in toCount[r] : 
                \/ /\ toCount' = [toCount EXCEPT ![r] = @ \ {s}]
                   /\ results' = [results EXCEPT ![r] = @ + 1]
                   /\ UNCHANGED run
                \/ /\ toCount' = [toCount EXCEPT ![r] = {}]
                   /\ run' = [run EXCEPT ![r] = "drain"]
                   /\ UNCHANGED results
      BY <2>2 DEF Count, RunGoes
    <3> QED
      BY <2>2, <3>1, <3>2, ServersCounted DEF Count, SrvCounts, SrvTypeOK
  <2>3. CASE Drain(r)
    BY <2>3 DEF Drain, RunGoes, SrvCounts, SrvTypeOK
  <2>4. CASE RunFinally(r)
    BY <2>4, ServersCounted DEF RunFinally, RunGoes, SrvCounts, SrvTypeOK
  <2>5. CASE RunExcept(r)
    BY <2>5, ServersCounted DEF RunExcept, RunGoes, SrvCounts, SrvTypeOK
  <2> QED
    BY <1>4, <2>1, <2>2, <2>3, <2>4, <2>5 DEF RunStep
<1>5. CASE SrvStop
  BY <1>5, <1>0 DEF SrvStop
<1>6. CASE UNCHANGED srvVars
  BY <1>6, <1>0 DEF srvVars
<1> QED
  BY <1>0, <1>1, <1>2, <1>3, <1>4, <1>5, <1>6 DEF SrvNext

\* A step of a visit leaves the bulk threads alone and keeps to the types.
LEMMA VisitStepType ==
    ASSUME SrvTypeOK, NEW v \in Visits, VisitStep(v)
    PROVE  /\ UNCHANGED <<bulkVars, srvJobs>>
           /\ SrvTypeOK'
<1> USE DEF VisitStep, Guard, MarkServer, Probe, SaveServer, FailServer, FreeServer,
            PoolBegin, PoolAccount, VisitGoes, visitVars
<1>1. UNCHANGED <<bulkVars, srvJobs>>
  OBVIOUS
<1>2. \E from, to \in VisitPc : VisitGoes(v, from, to)
  BY DEF VisitPc, Held, SrvResult, Answer
<1>3. visit' \in [Visits -> VisitPc]
  BY <1>2 DEF SrvTypeOK, VisitPc
<1>4. inflight' \subseteq Servers
  BY VisitPair DEF SrvTypeOK
<1>5. /\ srv_status' \in [Servers -> {"new", "collecting", "done", "failed"}]
      /\ srvLost' \subseteq Servers
  <2>1. \/ UNCHANGED <<srv_status, srvLost>>
        \/ \E status \in {"collecting", "done", "failed"} : SetSrvStatus(v[2], status)
        \/ srvLost' = srvLost \cup {v[2]} /\ UNCHANGED srv_status
    OBVIOUS
  <2> QED
    BY <2>1, VisitPair DEF SrvTypeOK, SetSrvStatus
<1>6. srvFaults' \in 0..MaxSrvFaults
  <2>1. UNCHANGED srvFaults \/ SrvRaises
    OBVIOUS
  <2> QED
    BY <2>1, ServerAssumption DEF SrvTypeOK, SrvRaises
<1> QED
  BY <1>1, <1>3, <1>4, <1>5, <1>6 DEF SrvTypeOK, bulkVars, VisitPc

\* So does a step of a bulk thread, which in turn leaves the servers alone.
LEMMA RunStepType ==
    ASSUME SrvTypeOK, SrvCounts, NEW r \in SrvRuns, RunStart(r) \/ RunStep(r)
    PROVE  UNCHANGED visitVars /\ SrvTypeOK'
<1> USE DEF RunStep, RunStart, RunList, Count, Drain, RunFinally, RunExcept
<1>1. UNCHANGED visitVars
  OBVIOUS
<1>2. visit' \in [Visits -> VisitPc]
  BY DEF SrvTypeOK, VisitPc
<1>3. run' \in [SrvRuns -> {"idle", "list", "count", "drain", "finally", "except"}]
  BY DEF SrvTypeOK, RunGoes
<1>4. toCount' \in [SrvRuns -> SUBSET Servers]
  <2>1. UNCHANGED toCount \/ \E ids \in SUBSET Servers : toCount' = [toCount EXCEPT ![r] = ids]
    <3>1. CASE Count(r)
      <4>1. \/ toCount' = [toCount EXCEPT ![r] = {}]
            \/ \E s \in toCount[r] : toCount' = [toCount EXCEPT ![r] = toCount[r] \ {s}]
        BY <3>1
      <4>2. {} \in SUBSET Servers /\ \A s : toCount[r] \ {s} \in SUBSET Servers
        BY DEF SrvTypeOK
      <4> QED
        BY <4>1, <4>2
    <3> QED
      BY <3>1
  <2> QED
    BY <2>1 DEF SrvTypeOK
<1>5. /\ results' \in [SrvRuns -> 0..Cardinality(Servers)]
      /\ srv_progress' \in [running : BOOLEAN, done : 0..Cardinality(Servers)]
  <2> DEFINE CountsOne ==
                 /\ results' = [results EXCEPT ![r] = @ + 1]
                 /\ srv_progress' = [srv_progress EXCEPT !.done = results[r] + 1]
  <2>1. CASE toCount[r] # {} /\ CountsOne
    <3>1. PICK s \in toCount[r] : CountsOne
      BY <2>1
    <3>2. Cardinality(toCount[r]) \in Nat \ {0}
      <4>1. toCount[r] \in SUBSET Servers
        BY DEF SrvTypeOK
      <4>2. /\ Cardinality(toCount[r]) \in Nat /\ Cardinality(toCount[r] \ {s}) \in Nat
            /\ Cardinality(toCount[r] \ {s}) = Cardinality(toCount[r]) - 1
        BY <4>1, ServersCounted
      <4> HIDE DEF RunStep, RunStart
      <4> QED
        BY <4>2
    <3>3. results[r] + 1 \in 0..Cardinality(Servers)
      BY <3>2, ServersCounted DEF SrvTypeOK, SrvCounts
    <3>4. srv_progress'.running \in BOOLEAN
      BY <3>1 DEF SrvTypeOK
    <3> QED
      BY <3>1, <3>3, <3>4 DEF SrvTypeOK
  <2>2. CASE UNCHANGED <<results, srv_progress>>
    BY <2>2 DEF SrvTypeOK
  <2>3. CASE UNCHANGED results /\ srv_progress' = [running |-> TRUE, done |-> 0]
    BY <2>3, ServersCounted DEF SrvTypeOK
  <2>4. CASE /\ results' = [results EXCEPT ![r] = 0]
             /\ srv_progress' = [srv_progress EXCEPT !.running = FALSE]
    <3>1. results' \in [SrvRuns -> 0..Cardinality(Servers)]
      BY <2>4, ServersCounted DEF SrvTypeOK
    <3>2. srv_progress' \in [running : BOOLEAN, done : 0..Cardinality(Servers)]
      BY <2>4 DEF SrvTypeOK
    <3> QED
      BY <3>1, <3>2
  <2>5. \/ UNCHANGED <<results, srv_progress>>
        \/ UNCHANGED results /\ srv_progress' = [running |-> TRUE, done |-> 0]
        \/ toCount[r] # {} /\ CountsOne
        \/ RunFinally(r) \/ RunExcept(r)
    <3> HIDE DEF RunFinally, RunExcept
    <3> QED
      OBVIOUS
  <2> QED
    BY <2>1, <2>2, <2>3, <2>4, <2>5
<1>6. srvAsked' \subseteq SrvRuns /\ srv_stop' \in BOOLEAN
  BY DEF SrvTypeOK
<1>7. overtaken' \in BOOLEAN
  <2>1. UNCHANGED overtaken \/ Overtakes(r)
    OBVIOUS
  <2>2. CASE Overtakes(r)
    <3> HIDE DEF RunStep, RunStart
    <3> QED
      BY <2>2 DEF Overtakes
  <2> QED
    BY <2>1, <2>2 DEF SrvTypeOK
<1>8. srvJobs' \in 0..MaxSrvJobs /\ srvFaults' \in 0..MaxSrvFaults
  <2>1. UNCHANGED srvJobs \/ NewSrvJob
    OBVIOUS
  <2>2. UNCHANGED srvFaults \/ SrvRaises
    OBVIOUS
  <2> QED
    BY <2>1, <2>2, ServerAssumption DEF SrvTypeOK, SrvRaises, NewSrvJob
<1> QED
  BY <1>1, <1>2, <1>3, <1>4, <1>5, <1>6, <1>7, <1>8 DEF SrvTypeOK, visitVars, VisitPc

LEMMA SrvTypeStep == SrvTypeOK /\ SrvCounts /\ [SrvNext]_srvVars => SrvTypeOK'
<1> SUFFICES ASSUME SrvTypeOK, SrvCounts, [SrvNext]_srvVars PROVE SrvTypeOK'
  OBVIOUS
<1>1. ASSUME NEW c \in SrvClicks, NEW s \in Servers, SrvClick(c, s) PROVE SrvTypeOK'
  <2>1. srvJobs' \in 0..MaxSrvJobs
    BY <1>1, ServerAssumption DEF SrvClick, NewSrvJob, SrvTypeOK
  <2>2. visit' \in [Visits -> VisitPc]
    BY <1>1 DEF SrvClick, VisitGoes, SrvTypeOK, VisitPc
  <2> QED
    BY <1>1, <2>1, <2>2 DEF SrvClick, bulkVars, SrvTypeOK, VisitPc
<1>2. CASE SrvStop
  BY <1>2 DEF SrvStop, SrvTypeOK, visitVars
<1>3. CASE UNCHANGED srvVars
  BY <1>3 DEF srvVars, SrvTypeOK
<1> QED
  BY <1>1, <1>2, <1>3, VisitStepType, RunStepType DEF SrvNext

\* Every variable keeps to its type in every behaviour.
THEOREM ServerTypeCorrect == SrvSpec => []SrvTypeOK
  BY SrvTypeInit, SrvTypeStep, SrvCountsStep, PTL DEF SrvSpec

-----------------------------------------------------------------------------
(* The visits of a bulk thread.                                            *)

\* Outside its pool a bulk thread has no visits, in it those it has to count;
\* none waits once the pool is being left.
PoolVisits ==
    \A r \in SrvRuns, s \in Servers :
        /\ run[r] \notin {"count", "drain"} => visit[<<r, s>>] = "none"
        /\ run[r] = "count" /\ s \notin toCount[r] => visit[<<r, s>>] = "none"
        /\ run[r] = "drain" => visit[<<r, s>>] # "waiting"

LEMMA PoolVisitsInit == SrvInit => PoolVisits
  BY DEF SrvInit, PoolVisits, Visits

LEMMA PoolVisitsStep == SrvTypeOK /\ PoolVisits /\ [SrvNext]_srvVars => PoolVisits'
<1> SUFFICES ASSUME SrvTypeOK, PoolVisits, [SrvNext]_srvVars PROVE PoolVisits'
  OBVIOUS
<1>1. ASSUME NEW c \in SrvClicks, NEW s \in Servers, SrvClick(c, s) PROVE PoolVisits'
  BY <1>1, ServerAssumption DEF SrvClick, bulkVars, VisitGoes, PoolVisits, Visits, SrvTypeOK
<1>2. ASSUME NEW v \in Visits, VisitStep(v) PROVE PoolVisits'
  <2>1. UNCHANGED <<run, toCount>>
    BY <1>2, VisitStepType DEF bulkVars
  <2>2. PICK to \in VisitPc \ {"waiting"} :
            /\ visit[v] # "none" /\ visit' = [visit EXCEPT ![v] = to]
    BY <1>2 DEF VisitStep, Guard, MarkServer, Probe, SaveServer, FailServer, FreeServer,
                PoolBegin, PoolAccount, VisitGoes, VisitPc, Held, SrvResult, Answer
  <2>3. \A q \in SrvRuns, s \in Servers :
           \/ visit'[<<q, s>>] = visit[<<q, s>>]
           \/ visit[<<q, s>>] # "none" /\ visit'[<<q, s>>] # "waiting"
    <3>1. \A w \in Visits : visit'[w] = IF w = v THEN to ELSE visit[w]
      BY <2>2 DEF SrvTypeOK
    <3>2. \A q \in SrvRuns, s \in Servers : <<q, s>> \in Visits
      BY DEF Visits
    <3> QED
      BY <2>2, <3>1, <3>2
  <2> QED
    BY <2>1, <2>3 DEF PoolVisits
<1>3. ASSUME NEW r \in SrvRuns, RunStart(r) PROVE PoolVisits'
  BY <1>3 DEF RunStart, RunGoes, PoolVisits, SrvTypeOK
<1>4. ASSUME NEW r \in SrvRuns, RunStep(r) PROVE PoolVisits'
  <2>0. \A q \in SrvRuns, s \in Servers : <<q, s>> \in Visits
    BY DEF Visits
  <2>1. CASE RunList(r)
    <3>1. CASE UNCHANGED <<toCount, visit>>
      BY <2>1, <3>1 DEF RunList, RunGoes, PoolVisits, SrvTypeOK
    <3>2. CASE \E ids \in SUBSET Servers :
                  /\ toCount' = [toCount EXCEPT ![r] = ids]
                  /\ visit' = [v \in Visits |->
                                  IF v[1] = r /\ v[2] \in ids THEN "waiting" ELSE visit[v]]
                  /\ run' = [run EXCEPT ![r] = "count"]
      <4>1. PICK ids \in SUBSET Servers :
                  /\ toCount' = [toCount EXCEPT ![r] = ids]
                  /\ visit' = [v \in Visits |->
                                  IF v[1] = r /\ v[2] \in ids THEN "waiting" ELSE visit[v]]
                  /\ run' = [run EXCEPT ![r] = "count"]
        BY <3>2
      <4>2. \A q \in SrvRuns, t \in Servers :
               visit'[<<q, t>>] = IF q = r /\ t \in ids THEN "waiting" ELSE visit[<<q, t>>]
        BY <2>0, <4>1
      <4>3. /\ toCount'[r] = ids /\ run'[r] = "count" /\ run[r] = "list"
            /\ \A q \in SrvRuns \ {r} : toCount'[q] = toCount[q] /\ run'[q] = run[q]
        BY <2>1, <4>1 DEF RunList, SrvTypeOK
      <4> QED
        BY <4>2, <4>3 DEF PoolVisits
    <3> QED
      BY <2>1, <3>1, <3>2 DEF RunList, RunGoes
  <2>2. CASE Count(r)
    <3>1. CASE \E s \in toCount[r] :
                  /\ visit' = [visit EXCEPT ![<<r, s>>] = "none"]
                  /\ toCount' = [toCount EXCEPT ![r] = @ \ {s}]
                  /\ UNCHANGED run
      <4>1. PICK s \in toCount[r] :
                  /\ visit' = [visit EXCEPT ![<<r, s>>] = "none"]
                  /\ toCount' = [toCount EXCEPT ![r] = @ \ {s}]
                  /\ UNCHANGED run
        BY <3>1
      <4>2. \A q \in SrvRuns, t \in Servers :
               visit'[<<q, t>>] = IF q = r /\ t = s THEN "none" ELSE visit[<<q, t>>]
        BY <2>0, <4>1 DEF SrvTypeOK
      <4>3. /\ toCount'[r] = toCount[r] \ {s} /\ run' = run
            /\ \A q \in SrvRuns \ {r} : toCount'[q] = toCount[q]
        BY <4>1 DEF SrvTypeOK
      <4>4. run[r] = "count"
        BY <2>2 DEF Count
      <4>5. ASSUME NEW q \in SrvRuns, NEW t \in Servers
            PROVE  /\ run'[q] \notin {"count", "drain"} => visit'[<<q, t>>] = "none"
                   /\ run'[q] = "count" /\ t \notin toCount'[q] => visit'[<<q, t>>] = "none"
                   /\ run'[q] = "drain" => visit'[<<q, t>>] # "waiting"
        <5>1. CASE q = r
          BY <4>2, <4>3, <4>4, <5>1 DEF PoolVisits
        <5>2. CASE q # r
          BY <4>2, <4>3, <5>2 DEF PoolVisits
        <5> QED
          BY <5>1, <5>2
      <4> QED
        BY <4>5 DEF PoolVisits
    <3>2. CASE /\ visit' = [v \in Visits |->
                              IF v[1] = r /\ visit[v] \in SrvResult \cup {"waiting"}
                              THEN "none" ELSE visit[v]]
               /\ run' = [run EXCEPT ![r] = "drain"]
               /\ toCount' = [toCount EXCEPT ![r] = {}]
      BY <2>0, <3>2 DEF PoolVisits, SrvTypeOK
    <3> QED
      BY <2>2, <3>1, <3>2 DEF Count, RunGoes
  <2>3. CASE Drain(r)
    BY <2>0, <2>3 DEF Drain, RunGoes, PoolVisits, SrvTypeOK
  <2>4. CASE RunFinally(r)
    BY <2>4 DEF RunFinally, RunGoes, PoolVisits, SrvTypeOK
  <2>5. CASE RunExcept(r)
    BY <2>5 DEF RunExcept, RunGoes, PoolVisits, SrvTypeOK
  <2> QED
    BY <1>4, <2>1, <2>2, <2>3, <2>4, <2>5 DEF RunStep
<1>5. CASE SrvStop
  BY <1>5 DEF SrvStop, PoolVisits
<1>6. CASE UNCHANGED srvVars
  BY <1>6 DEF srvVars, PoolVisits
<1> QED
  BY <1>1, <1>2, <1>3, <1>4, <1>5, <1>6 DEF SrvNext

-----------------------------------------------------------------------------
(* What a step does to the marks.                                          *)

statusVars == <<srv_status, srvLost>>

\* Nobody that holds a server moves.
Quiet ==
    /\ UNCHANGED <<inflight, statusVars>>
    /\ \A v \in Visits : visit[v] \in Held \/ visit'[v] \in Held => visit'[v] = visit[v]

\* A visit marks its server ...
Takes(v) ==
    /\ visit[v] = "guard" /\ visit' = [visit EXCEPT ![v] = "mark"]
    /\ v[2] \notin inflight /\ inflight' = inflight \cup {v[2]}
    /\ UNCHANGED statusVars

\* ... goes on with it ...
Works(v, to) ==
    /\ visit[v] \in Held \ {"free"} /\ visit' = [visit EXCEPT ![v] = to]
    /\ UNCHANGED inflight
    /\ \/ to # "free" /\ UNCHANGED statusVars
       \/ to = "probe" /\ SetSrvStatus(v[2], "collecting")
       \/ to = "free" /\ \E status \in {"done", "failed"} : SetSrvStatus(v[2], status)
       \/ to = "free" /\ srvLost' = srvLost \cup {v[2]} /\ UNCHANGED srv_status

\* ... and lets it go.
Frees(v) ==
    /\ visit[v] = "free"
    /\ \E to \in VisitPc \ Held : visit' = [visit EXCEPT ![v] = to]
    /\ inflight' = inflight \ {v[2]}
    /\ UNCHANGED statusVars

LEMMA StepsOnMarks ==
    SrvTypeOK /\ PoolVisits /\ [SrvNext]_srvVars =>
        \/ Quiet
        \/ \E v \in Visits : Takes(v)
        \/ \E v \in Visits, to \in Held \ {"mark"} : Works(v, to)
        \/ \E v \in Visits : Frees(v)
<1> DEFINE Goal ==
        \/ Quiet
        \/ \E v \in Visits : Takes(v)
        \/ \E v \in Visits, to \in Held \ {"mark"} : Works(v, to)
        \/ \E v \in Visits : Frees(v)
<1> SUFFICES ASSUME SrvTypeOK, PoolVisits, [SrvNext]_srvVars PROVE Goal
  OBVIOUS
<1>1. ASSUME NEW c \in SrvClicks, NEW s \in Servers, SrvClick(c, s) PROVE Quiet
  BY <1>1 DEF SrvClick, bulkVars, VisitGoes, Quiet, statusVars, Held, SrvTypeOK
<1>2. ASSUME NEW v \in Visits, VisitStep(v) PROVE Goal
  <2>1. CASE Guard(v)
    BY <2>1 DEF Guard, VisitGoes, Answer, Takes, Quiet, statusVars, Held, SrvTypeOK
  <2>2. CASE MarkServer(v) \/ Probe(v) \/ SaveServer(v) \/ FailServer(v)
    <3>1. \E to \in Held \ {"mark"} : Works(v, to)
      BY <2>2 DEF MarkServer, Probe, SaveServer, FailServer, VisitGoes, Works, Held, statusVars
    <3> QED
      BY <3>1
  <2>3. CASE FreeServer(v)
    <3>1. Answer(v, "ended") \in VisitPc \ Held
      BY DEF Answer, VisitPc, SrvResult, Held
    <3>2. Frees(v)
      BY <2>3, <3>1 DEF FreeServer, VisitGoes, Frees, statusVars
    <3> QED
      BY <3>2
  <2>4. CASE PoolBegin(v) \/ PoolAccount(v)
    BY <2>4 DEF PoolBegin, PoolAccount, VisitGoes, Quiet, visitVars, statusVars, Held, SrvTypeOK
  <2> QED
    BY <1>2, <2>1, <2>2, <2>3, <2>4 DEF VisitStep
<1>3. ASSUME NEW r \in SrvRuns, RunStart(r) PROVE Quiet
  BY <1>3 DEF RunStart, Quiet, visitVars, statusVars
<1>4. ASSUME NEW r \in SrvRuns, RunStep(r) PROVE Quiet
  <2>0. UNCHANGED <<inflight, statusVars>>
    BY <1>4 DEF RunStep, RunList, Count, Drain, RunFinally, RunExcept, visitVars, statusVars
  <2>1. CASE RunList(r)
    <3>1. \A v \in Visits : v[1] = r => visit[v] = "none"
      BY <2>1, VisitPair DEF RunList, PoolVisits
    <3>2. \/ UNCHANGED visit
          \/ \E ids \in SUBSET Servers :
                visit' = [v \in Visits |->
                             IF v[1] = r /\ v[2] \in ids THEN "waiting" ELSE visit[v]]
      BY <2>1 DEF RunList
    <3> QED
      BY <2>0, <3>1, <3>2 DEF Quiet, Held
  <2>2. CASE Count(r)
    <3>1. \/ \E w \in Visits : /\ visit[w] \in SrvResult
                               /\ visit' = [visit EXCEPT ![w] = "none"]
          \/ visit' = [v \in Visits |->
                          IF v[1] = r /\ visit[v] \in SrvResult \cup {"waiting"}
                          THEN "none" ELSE visit[v]]
      BY <2>2 DEF Count, Visits, SrvTypeOK
    <3> QED
      BY <2>0, <3>1 DEF Quiet, Held, SrvResult, SrvTypeOK
  <2>3. CASE Drain(r)
    <3>1. \A v \in Visits : v[1] = r => visit[v] \notin Held
      BY <2>3, VisitPair DEF Drain, Busy
    <3> QED
      BY <2>0, <2>3, <3>1 DEF Drain, Quiet, Held
  <2>4. CASE RunFinally(r) \/ RunExcept(r)
    BY <2>0, <2>4 DEF RunFinally, RunExcept, Quiet
  <2> QED
    BY <1>4, <2>1, <2>2, <2>3, <2>4 DEF RunStep
<1>5. CASE SrvStop
  BY <1>5 DEF SrvStop, Quiet, visitVars, statusVars
<1>6. CASE UNCHANGED srvVars
  BY <1>6 DEF srvVars, Quiet, statusVars
<1> QED
  BY <1>1, <1>2, <1>3, <1>4, <1>5, <1>6 DEF SrvNext

-----------------------------------------------------------------------------
(* Marks and badges.                                                       *)

\* A server is marked exactly while a visit holds it, and only one does; a
\* visit about to let it go has left no "collecting" behind.
SrvMarks ==
    /\ \A v \in Visits : visit[v] \in Held => v[2] \in inflight
    /\ \A s \in inflight : \E v \in Visits : v[2] = s /\ visit[v] \in Held
    /\ \A v, w \in Visits : visit[v] \in Held /\ visit[w] \in Held /\ v[2] = w[2] => v = w
    /\ \A v \in Visits :
          visit[v] = "free" => srv_status[v[2]] # "collecting" \/ v[2] \in srvLost

SrvMarksInv == SrvMarks /\ ServerBadgeIsTrue

LEMMA SrvMarksInit == SrvInit => SrvMarksInv
  BY DEF SrvInit, SrvMarksInv, SrvMarks, ServerBadgeIsTrue, Held

LEMMA SrvMarksStep ==
    SrvTypeOK /\ PoolVisits /\ SrvMarksInv /\ [SrvNext]_srvVars => SrvMarksInv'
<1> SUFFICES ASSUME SrvTypeOK, PoolVisits, SrvMarksInv, [SrvNext]_srvVars PROVE SrvMarksInv'
  OBVIOUS
<1> USE DEF SrvMarksInv, SrvMarks, ServerBadgeIsTrue, statusVars, SrvTypeOK
<1>1. CASE Quiet
  BY <1>1 DEF Quiet, Held
<1>2. ASSUME NEW v \in Visits, Takes(v) PROVE SrvMarksInv'
  BY <1>2, VisitPair DEF Takes, Held
<1>3. ASSUME NEW v \in Visits, NEW to \in Held \ {"mark"}, Works(v, to) PROVE SrvMarksInv'
  BY <1>3, VisitPair DEF Works, Held, SetSrvStatus
<1>4. ASSUME NEW v \in Visits, Frees(v) PROVE SrvMarksInv'
  BY <1>4, VisitPair DEF Frees, Held
<1> QED
  BY <1>1, <1>2, <1>3, <1>4, StepsOnMarks

LEMMA HolderCount ==
    SrvMarks => InflightHasOneHolder
<1> SUFFICES ASSUME SrvMarks, NEW s \in Servers
             PROVE  Cardinality({v \in Visits : v[2] = s /\ visit[v] \in Held})
                        = IF s \in inflight THEN 1 ELSE 0
  BY DEF InflightHasOneHolder
<1> DEFINE H == {v \in Visits : v[2] = s /\ visit[v] \in Held}
<1>1. CASE s \in inflight
  <2>1. PICK v \in Visits : v[2] = s /\ visit[v] \in Held
    BY <1>1 DEF SrvMarks
  <2>2. H = {v}
    BY <2>1 DEF SrvMarks
  <2> QED
    BY <1>1, <2>2, FS_Singleton
<1>2. CASE s \notin inflight
  <2>1. H = {}
    BY <1>2 DEF SrvMarks
  <2> QED
    BY <1>2, <2>1, FS_EmptySet
<1> QED
  BY <1>1, <1>2

-----------------------------------------------------------------------------
(* The record of a bulk run and its stop flag.                             *)

\* Unless the record was taken from a live run, the one live run is on it,
\* and who was asked to stop finds the flag set.
SrvRecord ==
    /\ BulkRunOnRecord
    /\ \A r \in SrvRuns : Live(r) /\ srv_stop => r \in srvAsked
    /\ \A r \in SrvRuns : run[r] = "idle" => r \notin srvAsked
    /\ \A r \in SrvRuns : r \in srvAsked /\ Live(r) => srv_stop \/ overtaken

LEMMA SrvRecordInit == SrvInit => SrvRecord
  BY DEF SrvInit, SrvRecord, BulkRunOnRecord, Live

LEMMA SrvRecordStep == SrvTypeOK /\ SrvRecord /\ [SrvNext]_srvVars => SrvRecord'
<1> SUFFICES ASSUME SrvTypeOK, SrvRecord, [SrvNext]_srvVars PROVE SrvRecord'
  OBVIOUS
<1> USE DEF SrvRecord, BulkRunOnRecord, Live, RunGoes
<1>0. ASSUME UNCHANGED bulkVars PROVE SrvRecord'
  BY <1>0 DEF bulkVars
<1>1. ASSUME NEW c \in SrvClicks, NEW s \in Servers, SrvClick(c, s) PROVE SrvRecord'
  BY <1>0, <1>1 DEF SrvClick
<1>2. ASSUME NEW v \in Visits, VisitStep(v) PROVE SrvRecord'
  BY <1>0, <1>2, VisitStepType
<1>3. ASSUME NEW r \in SrvRuns, RunStart(r) PROVE SrvRecord'
  BY <1>3 DEF RunStart, SrvTypeOK
<1>4. ASSUME NEW r \in SrvRuns, RunStep(r) PROVE SrvRecord'
  <2>1. CASE RunList(r)
    BY <2>1 DEF RunList, SrvTypeOK
  <2>2. CASE Count(r)
    BY <2>2 DEF Count, SrvTypeOK
  <2>3. CASE Drain(r)
    BY <2>3 DEF Drain, SrvTypeOK
  <2>4. CASE RunFinally(r)
    BY <2>4 DEF RunFinally, Overtakes, SrvTypeOK
  <2>5. CASE RunExcept(r)
    BY <2>5 DEF RunExcept, Overtakes, SrvTypeOK
  <2> QED
    BY <1>4, <2>1, <2>2, <2>3, <2>4, <2>5 DEF RunStep
<1>5. CASE SrvStop
  BY <1>5 DEF SrvStop, SrvTypeOK
<1>6. CASE UNCHANGED srvVars
  BY <1>0, <1>6 DEF srvVars, bulkVars
<1> QED
  BY <1>1, <1>2, <1>3, <1>4, <1>5, <1>6 DEF SrvNext

\* The only step that takes a waiting visit to its account is PoolBegin.
LEMMA StopStep ==
    SrvTypeOK /\ PoolVisits /\ SrvRecord /\ [SrvNext]_srvVars =>
        \A v \in Visits : v[1] \in srvAsked /\ ~overtaken /\ visit[v] = "waiting"
                             => visit'[v] # "account"
<1> SUFFICES ASSUME SrvTypeOK, PoolVisits, SrvRecord, [SrvNext]_srvVars,
                    NEW v \in Visits,
                    v[1] \in srvAsked, ~overtaken, visit[v] = "waiting"
             PROVE  visit'[v] # "account"
  OBVIOUS
<1>1. srv_stop
  <2>1. v[1] \in SrvRuns /\ v = <<v[1], v[2]>> /\ v[2] \in Servers
    BY VisitPair DEF SrvTypeOK
  <2>2. Live(v[1])
    BY <2>1 DEF PoolVisits, Live
  <2> QED
    BY <2>1, <2>2 DEF SrvRecord
<1>2. ASSUME NEW w \in Visits, VisitStep(w) PROVE visit'[v] # "account"
  BY <1>1, <1>2 DEF VisitStep, Guard, MarkServer, Probe, SaveServer, FailServer, FreeServer,
                    PoolBegin, PoolAccount, VisitGoes, Answer, SrvTypeOK
<1>3. ASSUME NEW c \in SrvClicks, NEW s \in Servers, SrvClick(c, s) PROVE visit'[v] # "account"
  BY <1>3 DEF SrvClick, VisitGoes, SrvTypeOK
<1>4. ASSUME NEW r \in SrvRuns, RunStart(r) \/ RunStep(r) PROVE visit'[v] # "account"
  BY <1>4 DEF RunStart, RunStep, RunList, Count, Drain, RunFinally, RunExcept, SrvTypeOK
<1>5. CASE SrvStop \/ UNCHANGED srvVars
  BY <1>5 DEF SrvStop, srvVars
<1> QED
  BY <1>2, <1>3, <1>4, <1>5 DEF SrvNext

SrvIInv == SrvTypeOK /\ SrvCounts /\ PoolVisits /\ SrvMarksInv /\ SrvRecord

LEMMA SrvInductive == SrvSpec => []SrvIInv
<1>1. SrvInit => SrvIInv
  BY SrvTypeInit, PoolVisitsInit, SrvMarksInit, SrvRecordInit DEF SrvIInv
<1>2. SrvIInv /\ [SrvNext]_srvVars => SrvIInv'
  BY SrvTypeStep, SrvCountsStep, PoolVisitsStep, SrvMarksStep, SrvRecordStep DEF SrvIInv
<1> QED
  BY <1>1, <1>2, PTL DEF SrvSpec

\* Marks, badges and the record of a bulk run tell the truth, and a stop
\* reaches the run it was meant for, with any number of threads and faults.
THEOREM ServersAreSafe == SrvSpec => ServerSafety
<1>1. SrvIInv => /\ InflightHasOneHolder /\ ServerBadgeIsTrue /\ BulkRunOnRecord
                 /\ OnlyAskedRunsSkip
  BY HolderCount DEF SrvIInv, SrvMarksInv, SrvRecord, OnlyAskedRunsSkip, Live
<1>2. SrvIInv /\ [SrvNext]_srvVars =>
        [\A v \in Visits : v[1] \in srvAsked /\ ~overtaken /\ visit[v] = "waiting"
                             => visit'[v] # "account"]_srvVars
  BY StopStep DEF SrvIInv
<1> QED
  BY <1>1, <1>2, SrvInductive, PTL DEF SrvSpec, ServerSafety, StopSkipsTheRest

-----------------------------------------------------------------------------
(* Refinement of SingleFlight.                                             *)

ServerMap == [s \in Servers |-> ServerJob(s)]

LEMMA ServerFlightInit == SrvInit => ServerFlight!Init
  BY DEF SrvInit, ServerFlight!Init, ServerJob

LEMMA ServerFlightStep ==
    SrvIInv /\ [SrvNext]_srvVars => [ServerFlight!Next]_ServerMap
<1> SUFFICES ASSUME SrvIInv, [SrvNext]_srvVars
             PROVE  ServerFlight!Next \/ UNCHANGED ServerMap
  BY DEF ServerMap
<1> USE DEF SrvIInv, SrvTypeOK
<1>1. CASE Quiet
  <2>1. \A s \in Servers : ServerJob(s)' = ServerJob(s)
    BY <1>1 DEF Quiet, ServerJob, Held
  <2> QED
    BY <2>1 DEF ServerMap
<1>0. ASSUME NEW s \in Servers, NEW to,
             ServerJob(s)' = to, \A t \in Servers \ {s} : ServerJob(t)' = ServerJob(t)
      PROVE  ServerMap' = [ServerMap EXCEPT ![s] = to]
  BY <1>0 DEF ServerMap
<1>2. ASSUME NEW v \in Visits, Takes(v) PROVE ServerFlight!Submit(v[2])
  <2>1. v[2] \in Servers
    BY VisitPair
  <2>2. ServerJob(v[2]) = "idle" /\ ServerJob(v[2])' = "pending"
    BY <1>2, <2>1 DEF Takes, ServerJob
  <2>3. \A t \in Servers \ {v[2]} : ServerJob(t)' = ServerJob(t)
    BY <1>2, <2>1 DEF Takes, ServerJob
  <2> QED
    BY <1>0, <2>1, <2>2, <2>3 DEF ServerFlight!Submit, ServerFlight!Move, ServerMap
<1>3. ASSUME NEW v \in Visits, NEW to \in Held \ {"mark"}, Works(v, to)
      PROVE  ServerFlight!Start(v[2]) \/ UNCHANGED ServerMap
  <2>1. v[2] \in Servers /\ v[2] \in inflight
    BY <1>3, VisitPair DEF Works, SrvMarksInv, SrvMarks
  <2>2. \A t \in Servers \ {v[2]} : ServerJob(t)' = ServerJob(t)
    BY <1>3, <2>1 DEF Works, ServerJob
  <2>3. \A w \in Visits : w[2] = v[2] /\ visit[w] = "mark" => w = v
    BY <1>3 DEF Works, SrvMarksInv, SrvMarks, Held
  <2>4. ServerJob(v[2])' = "running"
    BY <1>3, <2>1, <2>3 DEF Works, ServerJob
  <2>5. CASE visit[v] = "mark"
    <3>1. ServerJob(v[2]) = "pending"
      BY <2>1, <2>5 DEF ServerJob
    <3> QED
      BY <1>0, <2>1, <2>2, <2>4, <3>1 DEF ServerFlight!Start, ServerFlight!Move, ServerMap
  <2>6. CASE visit[v] # "mark"
    <3>1. ServerJob(v[2]) = "running"
      BY <2>1, <2>3, <2>6 DEF ServerJob
    <3> QED
      BY <2>2, <2>4, <3>1 DEF ServerMap
  <2> QED
    BY <2>5, <2>6
<1>4. ASSUME NEW v \in Visits, Frees(v) PROVE ServerFlight!Finish(v[2])
  <2>1. v[2] \in Servers /\ v[2] \in inflight
    BY <1>4, VisitPair DEF Frees, SrvMarksInv, SrvMarks, Held
  <2>2. \A t \in Servers \ {v[2]} : ServerJob(t)' = ServerJob(t)
    BY <1>4, <2>1 DEF Frees, ServerJob, Held
  <2>3. \A w \in Visits : w[2] = v[2] => visit[w] # "mark"
    BY <1>4 DEF Frees, SrvMarksInv, SrvMarks, Held
  <2>4. ServerJob(v[2]) = "running" /\ ServerJob(v[2])' = "idle"
    BY <1>4, <2>1, <2>3 DEF Frees, ServerJob
  <2> QED
    BY <1>0, <2>1, <2>2, <2>4 DEF ServerFlight!Finish, ServerFlight!Move, ServerMap
<1> QED
  BY <1>1, <1>2, <1>3, <1>4, StepsOnMarks, VisitPair DEF ServerFlight!Next

\* At most one collection of a server at a time, ended by nobody but the visit
\* that runs it: every step of the servers is one of SingleFlight or none.
THEOREM ServerRefinement == SrvSpec => ServersAreSingleFlight
<1>1. []SrvIInv /\ [][SrvNext]_srvVars => [][ServerFlight!Next]_ServerMap
  BY ServerFlightStep, PTL
<1> QED
  BY <1>1, SrvInductive, ServerFlightInit, PTL
  DEF SrvSpec, ServersAreSingleFlight, ServerFlight!Spec, ServerMap

-----------------------------------------------------------------------------
(***************************************************************************)
(* The facility scans.                                                     *)
(***************************************************************************)


FacPc == InBand \cup {"idle", "register", "launch", "release", "finally", "unregister",
                      "next", "claim", "returned", "end"}

LEMMA ScanKinds ==
    /\ ManualScans \subseteq ScanThreads /\ AutoScans \subseteq ScanThreads
    /\ \A t \in ScanThreads : (t \in ManualScans \/ t \in AutoScans) /\ t # NoScan
    /\ \A t \in ManualScans : t \notin AutoScans
  BY FacilityAssumption DEF ScanThreads

-----------------------------------------------------------------------------
(* Types.                                                                  *)

LEMMA FacTypeInit == FacInit => FacTypeOK
<1> SUFFICES ASSUME FacInit PROVE FacTypeOK
  OBVIOUS
<1>1. bandsLeft \in [AutoScans -> 0..Bands] /\ scans \in 0..MaxScans
  BY FacilityAssumption DEF FacInit
<1>2. stoppedResult \in [ScanThreads -> BOOLEAN] /\ scanStop \in BOOLEAN
  BY DEF FacInit
<1> QED
  BY <1>1, <1>2 DEF FacInit, FacTypeOK, InBand

LEMMA FacTypeStep == FacTypeOK /\ [FacNext]_facVars => FacTypeOK'
<1> SUFFICES ASSUME FacTypeOK, [FacNext]_facVars PROVE FacTypeOK'
  OBVIOUS
<1> USE ScanKinds, FacilityAssumption DEF FacTypeOK, Goes, threadVars
<1>1. ASSUME NEW t \in ManualScans, StartScan(t) PROVE FacTypeOK'
  <2>1. robbed' \in BOOLEAN
    BY <1>1 DEF StartScan, Robs
  <2>2. scans' \in 0..MaxScans
    BY <1>1 DEF StartScan
  <2> QED
    BY <1>1, <2>1, <2>2 DEF StartScan, InBand
<1>2. ASSUME NEW t \in ScanThreads, ScanStep(t) PROVE FacTypeOK'
  <2>1. CASE Register(t)
    BY <2>1 DEF Register, InBand
  <2>2. CASE Launch(t)
    BY <2>2 DEF Launch, BandEnds, InBand
  <2>3. CASE Open(t)
    BY <2>3 DEF Open, InBand
  <2>4. CASE Sweep(t)
    BY <2>4 DEF Sweep, InBand
  <2>5. CASE Store(t)
    BY <2>5 DEF Store, InBand
  <2>6. CASE Consume(t)
    BY <2>6 DEF Consume, InBand
  <2>7. CASE Release(t)
    BY <2>7 DEF Release, InBand
  <2>8. CASE Finally(t)
    BY <2>8 DEF Finally, Robs, InBand
  <2>9. CASE Unregister(t)
    BY <2>9 DEF Unregister, BandEnds, InBand
  <2> QED
    BY <1>2, <2>1, <2>2, <2>3, <2>4, <2>5, <2>6, <2>7, <2>8, <2>9 DEF ScanStep
<1>3. ASSUME NEW t \in AutoScans, AutoStart(t) PROVE FacTypeOK'
  <2>1. scans' \in 0..MaxScans
    BY <1>3 DEF AutoStart
  <2>2. bandsLeft' \in [AutoScans -> 0..Bands]
    BY <1>3 DEF AutoStart
  <2> QED
    BY <1>3, <2>1, <2>2 DEF AutoStart, InBand
<1>4. ASSUME NEW t \in AutoScans, AutoStep(t) PROVE FacTypeOK'
  <2>1. CASE AutoNext(t)
    <3>1. bandsLeft' \in [AutoScans -> 0..Bands]
      BY <2>1 DEF AutoNext
    <3> QED
      BY <2>1, <3>1 DEF AutoNext, InBand
  <2>2. CASE AutoDies(t)
    BY <2>2 DEF AutoDies, BandEnds, InBand
  <2>3. CASE AutoClaim(t)
    <3>1. robbed' \in BOOLEAN
      BY <2>3 DEF AutoClaim, Robs
    <3> QED
      BY <2>3, <3>1 DEF AutoClaim, BandEnds, InBand
  <2>4. CASE AutoReturned(t)
    BY <2>4 DEF AutoReturned, InBand
  <2>5. CASE AutoEnd(t)
    BY <2>5 DEF AutoEnd, BandEnds, InBand
  <2> QED
    BY <1>4, <2>1, <2>2, <2>3, <2>4, <2>5 DEF AutoStep
<1>5. CASE Poll
  BY <1>5 DEF Poll, Robs
<1>6. CASE ScanStop
  BY <1>6 DEF ScanStop
<1>7. CASE UNCHANGED facVars
  BY <1>7 DEF facVars
<1> QED
  BY <1>1, <1>2, <1>3, <1>4, <1>5, <1>6, <1>7 DEF FacNext

\* Every variable keeps to its type in every behaviour, and an idle thread
\* has neither a sweep nor a stop behind it.
THEOREM FacilityTypeCorrect == FacSpec => []FacTypeOK
  BY FacTypeInit, FacTypeStep, PTL DEF FacSpec

-----------------------------------------------------------------------------
(* One scan at a time.                                                     *)

\* The two kinds of scans go through places of their own.
FacPlaces ==
    /\ \A t \in ManualScans : fpc[t] \notin {"next", "claim", "returned", "end"}
    /\ \A t \in AutoScans : fpc[t] \notin {"register", "launch", "finally", "unregister"}

LEMMA FacPlacesInit == FacInit => FacPlaces
  BY ScanKinds DEF FacInit, FacPlaces

LEMMA FacPlacesStep ==
    FacTypeOK /\ FacPlaces /\ [FacNext]_facVars => FacPlaces'
<1> SUFFICES ASSUME FacTypeOK, FacPlaces, [FacNext]_facVars PROVE FacPlaces'
  OBVIOUS
<1> USE ScanKinds, FacilityAssumption
    DEF FacPlaces, FacTypeOK, Goes
<1>1. ASSUME NEW t \in ManualScans, StartScan(t) PROVE FacPlaces'
  BY <1>1 DEF StartScan
<1>2. ASSUME NEW t \in ScanThreads, ScanStep(t) PROVE FacPlaces'
  <2>1. CASE Register(t)
    BY <2>1 DEF Register
  <2>2. CASE Launch(t)
    BY <2>2 DEF Launch
  <2>3. CASE Open(t)
    BY <2>3 DEF Open
  <2>4. CASE Sweep(t)
    BY <2>4 DEF Sweep
  <2>5. CASE Store(t)
    BY <2>5 DEF Store
  <2>6. CASE Consume(t)
    BY <2>6 DEF Consume
  <2>7. CASE Release(t)
    BY <2>7 DEF Release
  <2>8. CASE Finally(t)
    BY <2>8 DEF Finally
  <2>9. CASE Unregister(t)
    BY <2>9 DEF Unregister
  <2> QED
    BY <1>2, <2>1, <2>2, <2>3, <2>4, <2>5, <2>6, <2>7, <2>8, <2>9 DEF ScanStep
<1>3. ASSUME NEW t \in AutoScans, AutoStart(t) PROVE FacPlaces'
  BY <1>3 DEF AutoStart
<1>4. ASSUME NEW t \in AutoScans, AutoStep(t) PROVE FacPlaces'
  <2>1. CASE AutoNext(t)
    BY <2>1 DEF AutoNext
  <2>2. CASE AutoDies(t)
    BY <2>2 DEF AutoDies
  <2>3. CASE AutoClaim(t)
    BY <2>3 DEF AutoClaim
  <2>4. CASE AutoReturned(t)
    BY <2>4 DEF AutoReturned
  <2>5. CASE AutoEnd(t)
    BY <2>5 DEF AutoEnd
  <2> QED
    BY <1>4, <2>1, <2>2, <2>3, <2>4, <2>5 DEF AutoStep
<1>5. CASE Poll
  BY <1>5 DEF Poll
<1>6. CASE ScanStop
  BY <1>6 DEF ScanStop
<1>7. CASE UNCHANGED facVars
  BY <1>7 DEF facVars
<1> QED
  BY <1>1, <1>2, <1>3, <1>4, <1>5, <1>6, <1>7 DEF FacNext

\* A scan owns running from its claim until it resets it.
Owns(t) == Claimed(t) \/ fpc[t] = "release"

SoleOwner ==
    \/ robbed
    \/ /\ \A t, u \in ScanThreads : Owns(t) /\ Owns(u) => t = u
       /\ \A t \in ScanThreads : Owns(t) => scanning

LEMMA SoleOwnerInit == FacInit => SoleOwner
  BY DEF FacInit, SoleOwner, Owns, Claimed, InBand

LEMMA SoleOwnerStep ==
    FacTypeOK /\ FacPlaces /\ SoleOwner /\ [FacNext]_facVars => SoleOwner'
<1> SUFFICES ASSUME FacTypeOK, FacPlaces, SoleOwner, [FacNext]_facVars PROVE SoleOwner'
  OBVIOUS
<1> USE ScanKinds, FacilityAssumption
    DEF SoleOwner, Owns, Claimed, InBand, FacTypeOK, FacPlaces, Goes
<1>1. ASSUME NEW t \in ManualScans, StartScan(t) PROVE SoleOwner'
  BY <1>1 DEF StartScan, Robs, Reapable, Alive
<1>2. ASSUME NEW t \in ScanThreads, ScanStep(t) PROVE SoleOwner'
  <2>1. CASE Register(t)
    BY <2>1 DEF Register
  <2>2. CASE Launch(t)
    BY <2>2 DEF Launch, BandEnds
  <2>3. CASE Open(t)
    BY <2>3 DEF Open
  <2>4. CASE Sweep(t)
    BY <2>4 DEF Sweep
  <2>5. CASE Store(t)
    BY <2>5 DEF Store
  <2>6. CASE Consume(t)
    BY <2>6 DEF Consume
  <2>7. CASE Release(t)
    BY <2>7 DEF Release
  <2>8. CASE Finally(t)
    BY <2>8 DEF Finally, Robs
  <2>9. CASE Unregister(t)
    BY <2>9 DEF Unregister, BandEnds
  <2> QED
    BY <1>2, <2>1, <2>2, <2>3, <2>4, <2>5, <2>6, <2>7, <2>8, <2>9 DEF ScanStep
<1>3. ASSUME NEW t \in AutoScans, AutoStart(t) PROVE SoleOwner'
  BY <1>3 DEF AutoStart
<1>4. ASSUME NEW t \in AutoScans, AutoStep(t) PROVE SoleOwner'
  <2>1. CASE AutoNext(t)
    BY <2>1 DEF AutoNext
  <2>2. CASE AutoDies(t)
    BY <2>2 DEF AutoDies, BandEnds
  <2>3. CASE AutoClaim(t)
    BY <2>3 DEF AutoClaim, BandEnds, Robs, Reapable, Alive
  <2>4. CASE AutoReturned(t)
    BY <2>4 DEF AutoReturned
  <2>5. CASE AutoEnd(t)
    BY <2>5 DEF AutoEnd, BandEnds
  <2> QED
    BY <1>4, <2>1, <2>2, <2>3, <2>4, <2>5 DEF AutoStep
<1>5. CASE Poll
  BY <1>5 DEF Poll, Robs, Reapable, Alive
<1>6. CASE ScanStop
  BY <1>6 DEF ScanStop
<1>7. CASE UNCHANGED facVars
  BY <1>7 DEF facVars
<1> QED
  BY <1>1, <1>2, <1>3, <1>4, <1>5, <1>6, <1>7 DEF FacNext

\* What RunningHasAnOwner needs to be inductive: a thread that is yet to be
\* launched owns running only while it is on record, because its launch may
\* fail; and the dead thread on record is a manual one, because an automatic
\* one that died comes back to life under its old name.
RunningIsOwned ==
    scanning =>
        \/ \E t \in ScanThreads : (Owns(t) \/ fpc[t] = "finally") /\ fpc[t] # "launch"
        \/ scanWorker \in ManualScans /\ ~Alive(scanWorker)

LEMMA RunningIsOwnedInit == FacInit => RunningIsOwned
  BY DEF FacInit, RunningIsOwned

LEMMA RunningIsOwnedStep ==
    FacTypeOK /\ FacPlaces /\ RunningIsOwned /\ [FacNext]_facVars => RunningIsOwned'
<1> SUFFICES ASSUME FacTypeOK, FacPlaces, RunningIsOwned, [FacNext]_facVars PROVE RunningIsOwned'
  OBVIOUS
<1> USE ScanKinds, FacilityAssumption
    DEF RunningIsOwned, Owns, Claimed, InBand, Alive, FacTypeOK, FacPlaces, Goes
<1>1. ASSUME NEW t \in ManualScans, StartScan(t) PROVE RunningIsOwned'
  BY <1>1 DEF StartScan, Robs, Reapable, Alive
<1>2. ASSUME NEW t \in ScanThreads, ScanStep(t) PROVE RunningIsOwned'
  <2>1. CASE Register(t)
    BY <2>1 DEF Register
  <2>2. CASE Launch(t)
    BY <2>2 DEF Launch, BandEnds
  <2>3. CASE Open(t)
    BY <2>3 DEF Open
  <2>4. CASE Sweep(t)
    BY <2>4 DEF Sweep
  <2>5. CASE Store(t)
    BY <2>5 DEF Store
  <2>6. CASE Consume(t)
    BY <2>6 DEF Consume
  <2>7. CASE Release(t)
    BY <2>7 DEF Release
  <2>8. CASE Finally(t)
    BY <2>8 DEF Finally, Robs
  <2>9. CASE Unregister(t)
    BY <2>9 DEF Unregister, BandEnds
  <2> QED
    BY <1>2, <2>1, <2>2, <2>3, <2>4, <2>5, <2>6, <2>7, <2>8, <2>9 DEF ScanStep
<1>3. ASSUME NEW t \in AutoScans, AutoStart(t) PROVE RunningIsOwned'
  BY <1>3 DEF AutoStart
<1>4. ASSUME NEW t \in AutoScans, AutoStep(t) PROVE RunningIsOwned'
  <2>1. CASE AutoNext(t)
    BY <2>1 DEF AutoNext
  <2>2. CASE AutoDies(t)
    BY <2>2 DEF AutoDies, BandEnds
  <2>3. CASE AutoClaim(t)
    BY <2>3 DEF AutoClaim, BandEnds, Robs, Reapable, Alive
  <2>4. CASE AutoReturned(t)
    BY <2>4 DEF AutoReturned
  <2>5. CASE AutoEnd(t)
    BY <2>5 DEF AutoEnd, BandEnds
  <2> QED
    BY <1>4, <2>1, <2>2, <2>3, <2>4, <2>5 DEF AutoStep
<1>5. CASE Poll
  BY <1>5 DEF Poll, Robs, Reapable, Alive
<1>6. CASE ScanStop
  BY <1>6 DEF ScanStop
<1>7. CASE UNCHANGED facVars
  BY <1>7 DEF facVars
<1> QED
  BY <1>1, <1>2, <1>3, <1>4, <1>5, <1>6, <1>7 DEF FacNext

-----------------------------------------------------------------------------
(* Stops.                                                                  *)

Before == {"register", "launch", "open", "sweep"}

\* Until its sweep has ended, a scan that was asked to stop finds the flag
\* set; a manual scan that finds it set was asked.
StopIsHeard ==
    /\ \A t \in heard \ autoReset :
          \/ robbed
          \/ /\ fpc[t] \in Before => scanStop
             /\ fpc[t] \in {"store", "consume"} => sweep[t] # "complete"
    /\ \A t \in ManualScans : fpc[t] \in Before /\ scanStop => t \in heard
    /\ \A t \in ScanThreads : fpc[t] = "sweep" => sweep[t] = "none"

LEMMA StopIsHeardInit == FacInit => StopIsHeard
  BY ScanKinds DEF FacInit, StopIsHeard, Before

LEMMA StopIsHeardStep ==
    FacTypeOK /\ FacPlaces /\ SoleOwner /\ StopIsHeard /\ [FacNext]_facVars => StopIsHeard'
<1> SUFFICES ASSUME FacTypeOK, FacPlaces, SoleOwner, StopIsHeard, [FacNext]_facVars PROVE StopIsHeard'
  OBVIOUS
<1> USE ScanKinds, FacilityAssumption
    DEF StopIsHeard, Before, SoleOwner, Owns, Claimed, InBand, FacTypeOK, FacPlaces, Goes, threadVars
<1>1. ASSUME NEW t \in ManualScans, StartScan(t) PROVE StopIsHeard'
  BY <1>1 DEF StartScan, Robs, Reapable, Alive
<1>2. ASSUME NEW t \in ScanThreads, ScanStep(t) PROVE StopIsHeard'
  <2>1. CASE Register(t)
    BY <2>1 DEF Register
  <2>2. CASE Launch(t)
    BY <2>2 DEF Launch, BandEnds
  <2>3. CASE Open(t)
    BY <2>3 DEF Open
  <2>4. CASE Sweep(t)
    BY <2>4 DEF Sweep
  <2>5. CASE Store(t)
    BY <2>5 DEF Store
  <2>6. CASE Consume(t)
    BY <2>6 DEF Consume
  <2>7. CASE Release(t)
    BY <2>7 DEF Release
  <2>8. CASE Finally(t)
    BY <2>8 DEF Finally, Robs
  <2>9. CASE Unregister(t)
    BY <2>9 DEF Unregister, BandEnds
  <2> QED
    BY <1>2, <2>1, <2>2, <2>3, <2>4, <2>5, <2>6, <2>7, <2>8, <2>9 DEF ScanStep
<1>3. ASSUME NEW t \in AutoScans, AutoStart(t) PROVE StopIsHeard'
  BY <1>3 DEF AutoStart
<1>4. ASSUME NEW t \in AutoScans, AutoStep(t) PROVE StopIsHeard'
  <2>1. CASE AutoNext(t)
    BY <2>1 DEF AutoNext
  <2>2. CASE AutoDies(t)
    BY <2>2 DEF AutoDies, BandEnds
  <2>3. CASE AutoClaim(t)
    BY <2>3 DEF AutoClaim, BandEnds, Robs, Reapable, Alive
  <2>4. CASE AutoReturned(t)
    BY <2>4 DEF AutoReturned
  <2>5. CASE AutoEnd(t)
    BY <2>5 DEF AutoEnd, BandEnds
  <2> QED
    BY <1>4, <2>1, <2>2, <2>3, <2>4, <2>5 DEF AutoStep
<1>5. CASE Poll
  BY <1>5 DEF Poll, Robs, Reapable, Alive
<1>6. CASE ScanStop
  BY <1>6 DEF ScanStop
<1>7. CASE UNCHANGED facVars
  BY <1>7 DEF facVars
<1> QED
  BY <1>1, <1>2, <1>3, <1>4, <1>5, <1>6, <1>7 DEF FacNext

\* Only Sweep ends a sweep as "stopped", and only when it finds the flag set.
LEMMA NoStopIsLeftOverStep ==
    FacTypeOK /\ FacPlaces /\ StopIsHeard /\ [FacNext]_facVars =>
        \A t \in ManualScans : fpc[t] = "sweep" /\ sweep'[t] = "stopped" => t \in heard
<1> SUFFICES ASSUME FacTypeOK, FacPlaces, StopIsHeard, [FacNext]_facVars,
                    NEW t \in ManualScans, fpc[t] = "sweep", sweep'[t] = "stopped"
             PROVE  t \in heard
  OBVIOUS
<1>1. sweep[t] = "none" /\ (scanStop => t \in heard)
  BY ScanKinds DEF StopIsHeard, Before
<1> USE ScanKinds DEF FacTypeOK, Goes, threadVars
<1>2. ASSUME NEW u \in ScanThreads, Sweep(u) PROVE t \in heard
  BY <1>1, <1>2 DEF Sweep
<1>3. ASSUME NEW u \in ScanThreads, ScanStep(u), ~Sweep(u) PROVE sweep'[t] # "stopped"
  BY <1>1, <1>3 DEF ScanStep, Register, Launch, Open, Store, Consume, Release, Finally,
                    Unregister, BandEnds
<1>4. ASSUME NEW u \in AutoScans, AutoStart(u) \/ AutoStep(u) PROVE sweep'[t] # "stopped"
  BY <1>1, <1>4 DEF AutoStart, AutoStep, AutoNext, AutoDies, AutoClaim, AutoReturned, AutoEnd,
                    BandEnds
<1>5. ASSUME NEW u \in ManualScans, StartScan(u) PROVE sweep'[t] # "stopped"
  BY <1>1, <1>5 DEF StartScan
<1>6. CASE Poll \/ ScanStop \/ UNCHANGED facVars
  BY <1>1, <1>6 DEF Poll, ScanStop, facVars
<1> QED
  BY <1>2, <1>3, <1>4, <1>5, <1>6 DEF FacNext

FacIInv == FacTypeOK /\ FacPlaces /\ SoleOwner /\ RunningIsOwned /\ StopIsHeard

LEMMA FacInductive == FacSpec => []FacIInv
<1>1. FacInit => FacIInv
  BY FacTypeInit, FacPlacesInit, SoleOwnerInit, RunningIsOwnedInit, StopIsHeardInit DEF FacIInv
<1>2. FacIInv /\ [FacNext]_facVars => FacIInv'
  BY FacTypeStep, FacPlacesStep, SoleOwnerStep, RunningIsOwnedStep, StopIsHeardStep DEF FacIInv
<1> QED
  BY <1>1, <1>2, PTL DEF FacSpec

\* One scan at a time, running always with an owner that resets it, an accepted
\* stop heard, and none left over for the next scan.
THEOREM ScansAreSafe == FacSpec => ScanSafety
<1>1. FacIInv => OneScanAtATime
  BY DEF FacIInv, SoleOwner, Owns, OneScanAtATime
<1>2. FacIInv => RunningHasAnOwner
  BY ScanKinds, FacilityAssumption
  DEF FacIInv, RunningIsOwned, Owns, RunningHasAnOwner, Reapable
<1>3. FacIInv => AcceptedStopEndsSweep
  BY DEF FacIInv, StopIsHeard, AcceptedStopEndsSweep
<1>4. FacIInv /\ [FacNext]_facVars =>
        [\A t \in ManualScans :
            fpc[t] = "sweep" /\ sweep'[t] = "stopped" => t \in heard]_facVars
  BY NoStopIsLeftOverStep DEF FacIInv
<1> QED
  BY <1>1, <1>2, <1>3, <1>4, FacInductive, PTL DEF FacSpec, ScanSafety, NoStopIsLeftOver

-----------------------------------------------------------------------------
(***************************************************************************)
(* The jobs together.                                                      *)
(***************************************************************************)


\* What the proofs of the four jobs establish, taken together.
JobsIInv ==
    /\ FwIInv /\ FwHolders /\ CollectingIsCollected
    /\ DiagIInv /\ SrvIInv /\ FacIInv

LEMMA JobsInit == Init => JobsIInv
<1> SUFFICES ASSUME Init PROVE JobsIInv
  OBVIOUS
<1>1. FwIInv /\ FwHolders /\ CollectingIsCollected
  BY FwInitial, FwHoldersInit, BadgeInit DEF Init
<1>2. DiagIInv
  BY DiagInitial DEF Init
<1>3. SrvIInv
  BY SrvTypeInit, PoolVisitsInit, SrvMarksInit, SrvRecordInit DEF Init, SrvIInv
<1>4. FacIInv
  BY FacTypeInit, FacPlacesInit, SoleOwnerInit, RunningIsOwnedInit, StopIsHeardInit
  DEF Init, FacIInv
<1> QED
  BY <1>1, <1>2, <1>3, <1>4 DEF JobsIInv

\* A step of one job is a stuttering step of the others.
LEMMA JobsStep == JobsIInv /\ [Next]_vars => JobsIInv'
<1> SUFFICES ASSUME JobsIInv, [Next]_vars PROVE JobsIInv'
  OBVIOUS
<1>1. [FwNext]_fwVars /\ [DiagNext]_diagVars /\ [SrvNext]_srvVars /\ [FacNext]_facVars
  BY DEF Next, vars
<1>2. FwIInv' /\ FwHolders' /\ CollectingIsCollected'
  BY <1>1, FwStep, FwHoldersStep, BadgeStep DEF JobsIInv
<1>3. DiagIInv'
  BY <1>1, DiagStep DEF JobsIInv
<1>4. SrvIInv'
  BY <1>1, SrvTypeStep, SrvCountsStep, PoolVisitsStep, SrvMarksStep, SrvRecordStep
  DEF JobsIInv, SrvIInv
<1>5. FacIInv'
  BY <1>1, FacTypeStep, FacPlacesStep, SoleOwnerStep, RunningIsOwnedStep, StopIsHeardStep
  DEF JobsIInv, FacIInv
<1> QED
  BY <1>2, <1>3, <1>4, <1>5 DEF JobsIInv

\* Every variable of every job keeps to its type.
THEOREM JobsTypeCorrect == Spec => []JobsTypeOK
<1>1. JobsIInv => JobsTypeOK
  <2>1. DiagIInv => DiagTypeOK
    BY DEF DiagIInv, FwDiagInv, SwDiagInv, FwDiagRecord, SwDiagRecord, DiagTypeOK
  <2> QED
    BY <2>1 DEF JobsIInv, FwIInv, SrvIInv, FacIInv, JobsTypeOK
<1> QED
  BY <1>1, JobsInit, JobsStep, PTL DEF Spec
=============================================================================
