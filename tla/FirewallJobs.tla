---------------------------- MODULE FirewallJobs ----------------------------
(***************************************************************************)
(* Collection of firewalls.  Three callers share collect_firewall and      *)
(* save_firewall_result, and only the first looks at the guard set:        *)
(*   Clicks     requests for one firewall, collect_firewall_endpoint;      *)
(*   AllThread  _run_collect_all_firewalls, started by the collect-all     *)
(*              request and recorded in _fw_all;                           *)
(*   Scheduler  the loop over firewalls in collect_all_registered.         *)
(* An action is one section under a lock, one database transaction or the  *)
(* conversation with the device.                                           *)
(***************************************************************************)
EXTENDS Integers, FiniteSets

CONSTANTS
    Firewalls,          \* ids of the registered firewalls
    Clicks,             \* request threads
    AllThread, Scheduler,
    NoFirewall,
    MaxJobs,            \* bound: jobs of any caller in a behaviour
    MaxDbFaults         \* bound: database transactions that raise

ASSUME FirewallAssumption ==
    /\ IsFiniteSet(Firewalls) /\ Firewalls \subseteq Nat
    /\ NoFirewall \notin Firewalls
    /\ AllThread \notin Clicks
    /\ Scheduler \notin Clicks \cup {AllThread}
    /\ MaxJobs \in Nat
    /\ MaxDbFaults \in Nat

VARIABLES
    fw_all,                 \* _fw_all
    collecting_firewalls,   \* _collecting_firewalls
    fw_status,              \* firewalls.status
    at,                     \* where each thread is
    fid,                    \* the firewall it works on
    rest,                   \* the firewalls its loop has not reached
    stopAsked,              \* history: a stop was accepted during this run
    listed,                 \* history: size of the run's list, -1 if unread
    unstarted,              \* history: a run was recorded but has no thread
    unwritten,              \* history: firewalls whose last status was lost
    jobs, dbFaults

fwVars == <<fw_all, collecting_firewalls, fw_status, at, fid, rest, stopAsked,
            listed, unstarted, unwritten, jobs, dbFaults>>

FwThreads == Clicks \cup {AllThread, Scheduler}

\* In a collection of one firewall ...
Inside == {"mark", "device", "done", "fail"}
\* ... or between two of them.
FwPc == Inside \cup {"idle", "list", "next", "release", "end"}

FwTypeOK ==
    /\ fw_all \in [running : BOOLEAN, stop : BOOLEAN, done : 0..Cardinality(Firewalls)]
    /\ collecting_firewalls \subseteq Firewalls
    /\ fw_status \in [Firewalls -> {"new", "collecting", "done", "failed"}]
    /\ at \in [FwThreads -> FwPc]
    /\ fid \in [FwThreads -> Firewalls \cup {NoFirewall}]
    /\ rest \in [FwThreads -> SUBSET Firewalls]
    /\ stopAsked \in BOOLEAN
    /\ listed \in -1..Cardinality(Firewalls)
    /\ unstarted \in BOOLEAN
    /\ unwritten \subseteq Firewalls
    /\ jobs \in 0..MaxJobs
    /\ dbFaults \in 0..MaxDbFaults

FwInit ==
    /\ fw_all = [running |-> FALSE, stop |-> FALSE, done |-> 0]
    /\ collecting_firewalls = {}
    /\ fw_status = [f \in Firewalls |-> "new"]
    /\ at = [t \in FwThreads |-> "idle"]
    /\ fid = [t \in FwThreads |-> NoFirewall]
    /\ rest = [t \in FwThreads |-> {}]
    /\ stopAsked = FALSE
    /\ listed = -1
    /\ unstarted = FALSE
    /\ unwritten = {}
    /\ jobs = 0
    /\ dbFaults = 0

FwGoto(t, label) == at' = [at EXCEPT ![t] = label]

NewJob == jobs < MaxJobs /\ jobs' = jobs + 1
DbRaises == dbFaults < MaxDbFaults /\ dbFaults' = dbFaults + 1

\* set_firewall_status; what it writes is no longer lost.
Write(f, s) ==
    /\ fw_status' = [fw_status EXCEPT ![f] = s]
    /\ unwritten' = unwritten \ {f}

\* list_firewalls gives them in the order of their ids.
First(fs) == {f \in fs : \A g \in fs : f <= g}

-----------------------------------------------------------------------------
(* One collection, by whichever caller.                                    *)

MarkStatus(t) ==
    /\ at[t] = "mark"
    /\ \/ Write(fid[t], "collecting") /\ FwGoto(t, "device") /\ UNCHANGED dbFaults
       \/ DbRaises /\ FwGoto(t, "fail") /\ UNCHANGED <<fw_status, unwritten>>
    /\ UNCHANGED <<fw_all, collecting_firewalls, fid, rest, stopAsked, listed,
                   unstarted, jobs>>

\* collect_firewall, by REST or SSH, and save_firewall_result: both may raise.
Collect(t) ==
    /\ at[t] = "device"
    /\ \E outcome \in {"done", "fail"} : FwGoto(t, outcome)
    /\ UNCHANGED <<fw_all, collecting_firewalls, fw_status, fid, rest, stopAsked,
                   listed, unstarted, unwritten, jobs, dbFaults>>

\* Where a caller goes when a collection has ended.
After(t) == IF t \in Clicks THEN "release" ELSE "next"

\* The collect-all thread counts in its finally block.
Counted(t) ==
    fw_all' = IF t = AllThread THEN [fw_all EXCEPT !.done = @ + 1] ELSE fw_all

DoneStatus(t) ==
    /\ at[t] = "done"
    /\ \/ Write(fid[t], "done") /\ FwGoto(t, After(t)) /\ Counted(t)
          /\ UNCHANGED dbFaults
       \/ DbRaises /\ FwGoto(t, "fail") /\ UNCHANGED <<fw_all, fw_status, unwritten>>
    /\ UNCHANGED <<collecting_firewalls, fid, rest, stopAsked, listed, unstarted, jobs>>

\* The except block.  A request and the collect-all thread go on when even
\* this write fails; the scheduler's write has no try and ends its loop.
FailStatus(t) ==
    /\ at[t] = "fail"
    /\ \/ Write(fid[t], "failed") /\ FwGoto(t, After(t)) /\ UNCHANGED dbFaults
       \/ /\ DbRaises
          /\ FwGoto(t, IF t = Scheduler THEN "end" ELSE After(t))
          /\ unwritten' = unwritten \cup {fid[t]}
          /\ UNCHANGED fw_status
    /\ Counted(t)
    /\ UNCHANGED <<collecting_firewalls, fid, rest, stopAsked, listed, unstarted, jobs>>

-----------------------------------------------------------------------------
(* collect_firewall_endpoint.                                              *)

\* The guard is taken after everything that may refuse the request (404, 400);
\* a firewall in the set is answered with 409.
Click(c, f) ==
    /\ at[c] = "idle"
    /\ f \notin collecting_firewalls
    /\ NewJob
    /\ collecting_firewalls' = collecting_firewalls \cup {f}
    /\ fid' = [fid EXCEPT ![c] = f]
    /\ FwGoto(c, "mark")
    /\ UNCHANGED <<fw_all, fw_status, rest, stopAsked, listed, unstarted, unwritten,
                   dbFaults>>

\* The finally block: discard, without the lock, is one step of the set.
ClickRelease(c) ==
    /\ at[c] = "release"
    /\ collecting_firewalls' = collecting_firewalls \ {fid[c]}
    /\ fid' = [fid EXCEPT ![c] = NoFirewall]
    /\ FwGoto(c, "idle")
    /\ UNCHANGED <<fw_all, fw_status, rest, stopAsked, listed, unstarted, unwritten,
                   jobs, dbFaults>>

-----------------------------------------------------------------------------
(* collect_all_firewalls_endpoint and its thread.                          *)

\* Faulty variant: the counter of the last run goes on.
AllStartKeepsDone(ids) ==
    /\ ~fw_all.running
    /\ NewJob
    /\ fw_all' = [fw_all EXCEPT !.running = TRUE, !.stop = FALSE]
    /\ stopAsked' = FALSE /\ listed' = -1
    /\ rest' = [rest EXCEPT ![AllThread] = ids]
    /\ FwGoto(AllThread, "list")
    /\ UNCHANGED <<collecting_firewalls, fw_status, fid, unstarted, unwritten, dbFaults>>

\* The request: check and record under one lock; then the thread starts, or
\* its start raises and the record stays "running" without one.
AllStart(ids) ==
    /\ ~fw_all.running
    /\ NewJob
    /\ fw_all' = [running |-> TRUE, stop |-> FALSE, done |-> 0]
    /\ stopAsked' = FALSE /\ listed' = -1
    /\ \/ rest' = [rest EXCEPT ![AllThread] = ids] /\ FwGoto(AllThread, "list")
          /\ UNCHANGED unstarted
       \/ unstarted' = TRUE /\ UNCHANGED <<rest, at>>
    /\ UNCHANGED <<collecting_firewalls, fw_status, fid, unwritten, dbFaults>>

\* The thread reads the list again; a database error goes to the finally block.
AllList ==
    /\ at[AllThread] = "list"
    /\ \/ /\ listed' = Cardinality(rest[AllThread])
          /\ FwGoto(AllThread, "next")
          /\ UNCHANGED dbFaults
       \/ DbRaises /\ FwGoto(AllThread, "end") /\ UNCHANGED listed
    /\ UNCHANGED <<fw_all, collecting_firewalls, fw_status, fid, rest, stopAsked,
                   unstarted, unwritten, jobs>>

\* Faulty variant: the stop flag is looked at only before the first firewall.
AllNextChecksOnce ==
    /\ at[AllThread] = "next"
    /\ \/ /\ rest[AllThread] = {} \/ (fw_all.stop /\ fw_all.done = 0)
          /\ FwGoto(AllThread, "end") /\ UNCHANGED <<fid, rest>>
       \/ \E f \in First(rest[AllThread]) :
             /\ ~fw_all.stop \/ fw_all.done # 0
             /\ fid' = [fid EXCEPT ![AllThread] = f]
             /\ rest' = [rest EXCEPT ![AllThread] = @ \ {f}]
             /\ FwGoto(AllThread, "mark")
    /\ UNCHANGED <<fw_all, collecting_firewalls, fw_status, stopAsked, listed,
                   unstarted, unwritten, jobs, dbFaults>>

\* The head of the loop: a stop request ends the run before the next firewall.
AllNext ==
    /\ at[AllThread] = "next"
    /\ \/ /\ fw_all.stop \/ rest[AllThread] = {}
          /\ FwGoto(AllThread, "end") /\ UNCHANGED <<fid, rest>>
       \/ \E f \in First(rest[AllThread]) :
             /\ ~fw_all.stop
             /\ fid' = [fid EXCEPT ![AllThread] = f]
             /\ rest' = [rest EXCEPT ![AllThread] = @ \ {f}]
             /\ FwGoto(AllThread, "mark")
    /\ UNCHANGED <<fw_all, collecting_firewalls, fw_status, stopAsked, listed,
                   unstarted, unwritten, jobs, dbFaults>>

\* Its finally block.
AllEnd ==
    /\ at[AllThread] = "end"
    /\ fw_all' = [fw_all EXCEPT !.running = FALSE]
    /\ fid' = [fid EXCEPT ![AllThread] = NoFirewall]
    /\ rest' = [rest EXCEPT ![AllThread] = {}]
    /\ FwGoto(AllThread, "idle")
    /\ stopAsked' = FALSE /\ listed' = -1
    /\ UNCHANGED <<collecting_firewalls, fw_status, unstarted, unwritten, jobs, dbFaults>>

\* collect_all_firewalls_stop; without a run it is refused with 400.
AllStop ==
    /\ fw_all.running
    /\ ~fw_all.stop
    /\ fw_all' = [fw_all EXCEPT !.stop = TRUE]
    /\ stopAsked' = TRUE
    /\ UNCHANGED <<collecting_firewalls, fw_status, at, fid, rest, listed, unstarted,
                   unwritten, jobs, dbFaults>>

-----------------------------------------------------------------------------
(* collect_all_registered, its second half.                                *)

\* The firewalls it visits are those whose stored account can be read.
SchedStart(fs) ==
    /\ at[Scheduler] = "idle"
    /\ NewJob
    /\ rest' = [rest EXCEPT ![Scheduler] = fs]
    /\ FwGoto(Scheduler, "next")
    /\ UNCHANGED <<fw_all, collecting_firewalls, fw_status, fid, stopAsked, listed,
                   unstarted, unwritten, dbFaults>>

SchedNext ==
    /\ at[Scheduler] = "next"
    /\ \/ rest[Scheduler] = {} /\ FwGoto(Scheduler, "end") /\ UNCHANGED <<fid, rest>>
       \/ \E f \in First(rest[Scheduler]) :
             /\ fid' = [fid EXCEPT ![Scheduler] = f]
             /\ rest' = [rest EXCEPT ![Scheduler] = @ \ {f}]
             /\ FwGoto(Scheduler, "mark")
    /\ UNCHANGED <<fw_all, collecting_firewalls, fw_status, stopAsked, listed,
                   unstarted, unwritten, jobs, dbFaults>>

SchedEnd ==
    /\ at[Scheduler] = "end"
    /\ fid' = [fid EXCEPT ![Scheduler] = NoFirewall]
    /\ rest' = [rest EXCEPT ![Scheduler] = {}]
    /\ FwGoto(Scheduler, "idle")
    /\ UNCHANGED <<fw_all, collecting_firewalls, fw_status, stopAsked, listed,
                   unstarted, unwritten, jobs, dbFaults>>

-----------------------------------------------------------------------------
FwThreadStep(t) ==
    \/ MarkStatus(t) \/ Collect(t) \/ DoneStatus(t) \/ FailStatus(t)
    \/ t \in Clicks /\ ClickRelease(t)
    \/ t = AllThread /\ (AllList \/ AllNext \/ AllEnd)
    \/ t = Scheduler /\ (SchedNext \/ SchedEnd)

FwNext ==
    \/ \E c \in Clicks, f \in Firewalls : Click(c, f)
    \/ \E ids \in SUBSET Firewalls \ {{}} : AllStart(ids) \/ SchedStart(ids)
    \/ AllStop
    \/ \E t \in FwThreads : FwThreadStep(t)

FwSpec == FwInit /\ [][FwNext]_fwVars

\* A thread that was started goes on; sockets and sessions have time limits.
FwFairness == \A t \in FwThreads : WF_fwVars(FwThreadStep(t))

-----------------------------------------------------------------------------
(* Properties.                                                             *)

\* The guard of the single request: a firewall in the set has exactly one
\* request that collects it and will take it out again, whatever raises on
\* the way (a leaked entry answers 409 until the next start).
GuardHasOneHolder ==
    \A f \in Firewalls :
        Cardinality({c \in Clicks : at[c] # "idle" /\ fid[c] = f})
            = (IF f \in collecting_firewalls THEN 1 ELSE 0)

\* "collecting" on the screen is true: some caller is at this firewall and
\* will write its outcome, although the callers do not know of each other.
\* Excepted is a firewall whose final write was lost to the database.
CollectingIsCollected ==
    \A f \in Firewalls : fw_status[f] = "collecting" =>
        f \in unwritten \/ \E t \in FwThreads : at[t] \in Inside /\ fid[t] = f

\* A collect-all run that leaves firewalls out was told to, or could not read
\* the list: the stop button of an earlier run never ends a later one.
SkippedOnlyWhenStopped ==
    at[AllThread] = "end" =>
        fw_all.done = listed \/ stopAsked \/ listed = -1

\* After a stop was accepted the run begins no further firewall.
StopBeginsNothing ==
    [][stopAsked /\ stopAsked' /\ at'[AllThread] = "mark" => at[AllThread] = "mark"]_fwVars

\* The record of a run ends: only a thread that could not be started leaves
\* it "running", which refuses every later run.
FwRunEnds == fw_all.running /\ ~unstarted ~> ~fw_all.running

\* What can go wrong with the collections of firewalls that no test of one
\* of them shows: guard, badge, and the stop of the run on record.
FirewallSafety ==
    /\ [](/\ GuardHasOneHolder /\ CollectingIsCollected /\ SkippedOnlyWhenStopped)
    /\ StopBeginsNothing
=============================================================================
