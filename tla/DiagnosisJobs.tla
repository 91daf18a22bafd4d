--------------------------- MODULE DiagnosisJobs ---------------------------
(***************************************************************************)
(* The two "diagnose all" jobs of app.py, each a record the page polls and *)
(* one background thread: _fw_diag visits the firewalls one by one,        *)
(* _diag_all hands the switches to a thread pool and counts the results as *)
(* they come.  They share nothing; the two parts below are separate.       *)
(***************************************************************************)
EXTENDS Integers, FiniteSets

CONSTANTS
    DiagDevices,        \* the registered devices, of either kind
    PoolSize,           \* ThreadPoolExecutor(max_workers=8)
    MaxDiagnoses        \* bound: accepted requests of either kind

ASSUME DiagnosisAssumption ==
    IsFiniteSet(DiagDevices) /\ PoolSize \in Nat \ {0} /\ MaxDiagnoses \in Nat

VARIABLES
    fw_diag,            \* _fw_diag: running, total, done, ok
    fwDiagAt,           \* the request, then the thread, that set running
    fwDiagLeft,         \* firewalls the thread has not visited
    fwDiagRefused,      \* history: the accepted request was refused later on
    diag_all,           \* _diag_all: running, done, corrected, error
    diagAt,             \* the request, then the thread
    task,               \* the pool: the task of each switch
    diagListed,         \* history: switches the thread has read
    diagnoses

fwDiagVars == <<fw_diag, fwDiagAt, fwDiagLeft, fwDiagRefused>>
swDiagVars == <<diag_all, diagAt, task, diagListed>>
diagVars == <<fwDiagVars, swDiagVars, diagnoses>>

DiagCount == 0..Cardinality(DiagDevices)

\* A task that has ended and is still to be counted.
TaskOutcome == {"ok", "corrected", "raised"}

DiagTypeOK ==
    /\ fw_diag \in [running : BOOLEAN, total : DiagCount, done : DiagCount, ok : DiagCount]
    /\ fwDiagAt \in {"idle", "asked", "list", "visit", "end"}
    /\ fwDiagLeft \subseteq DiagDevices
    /\ fwDiagRefused \in BOOLEAN
    /\ diag_all \in [running : BOOLEAN, done : DiagCount, corrected : DiagCount,
                     error : BOOLEAN]
    /\ diagAt \in {"idle", "asked", "list", "count", "drain"}
    /\ task \in [DiagDevices -> {"none", "waiting", "busy", "counted"} \cup TaskOutcome]
    /\ diagListed \in -1..Cardinality(DiagDevices)
    /\ diagnoses \in 0..MaxDiagnoses

DiagInit ==
    /\ fw_diag = [running |-> FALSE, total |-> 0, done |-> 0, ok |-> 0]
    /\ fwDiagAt = "idle" /\ fwDiagLeft = {} /\ fwDiagRefused = FALSE
    /\ diag_all = [running |-> FALSE, done |-> 0, corrected |-> 0, error |-> FALSE]
    /\ diagAt = "idle" /\ task = [s \in DiagDevices |-> "none"] /\ diagListed = -1
    /\ diagnoses = 0

NewDiagnosis == diagnoses < MaxDiagnoses /\ diagnoses' = diagnoses + 1

-----------------------------------------------------------------------------
(* diagnose_all_firewalls_endpoint and _run_diagnose_all_firewalls.        *)

\* The request takes the record first ...
FwDiagAsk ==
    /\ ~fw_diag.running
    /\ NewDiagnosis
    /\ fw_diag' = [running |-> TRUE, total |-> 0, done |-> 0, ok |-> 0]
    /\ fwDiagAt' = "asked"
    /\ UNCHANGED <<fwDiagLeft, fwDiagRefused, swDiagVars>>

\* ... and reads its ids afterwards: an invalid list is refused with 400, and
\* nothing takes running back.
FwDiagRefuse ==
    /\ fwDiagAt = "asked"
    /\ fwDiagAt' = "idle"
    /\ fwDiagRefused' = TRUE
    /\ UNCHANGED <<fw_diag, fwDiagLeft, swDiagVars, diagnoses>>

FwDiagThread ==
    /\ fwDiagAt = "asked"
    /\ fwDiagAt' = "list"
    /\ UNCHANGED <<fw_diag, fwDiagLeft, fwDiagRefused, swDiagVars, diagnoses>>

\* The list, cut down to the ids asked for; an error goes to the finally block.
FwDiagList ==
    /\ fwDiagAt = "list"
    /\ \/ \E wanted \in SUBSET DiagDevices :
             /\ fwDiagLeft' = wanted
             /\ fw_diag' = [fw_diag EXCEPT !.total = Cardinality(wanted), !.done = 0, !.ok = 0]
          /\ fwDiagAt' = "visit"
       \/ fwDiagAt' = "end" /\ UNCHANGED <<fw_diag, fwDiagLeft>>
    /\ UNCHANGED <<fwDiagRefused, swDiagVars, diagnoses>>

\* One firewall: reachable or not, it is a result.
FwDiagVisit ==
    /\ fwDiagAt = "visit"
    /\ \/ \E f \in fwDiagLeft, ok \in 0..1 :
             /\ fwDiagLeft' = fwDiagLeft \ {f}
             /\ fw_diag' = [fw_diag EXCEPT !.done = @ + 1, !.ok = @ + ok]
             /\ UNCHANGED fwDiagAt
       \/ fwDiagLeft = {} /\ fwDiagAt' = "end" /\ UNCHANGED <<fw_diag, fwDiagLeft>>
    /\ UNCHANGED <<fwDiagRefused, swDiagVars, diagnoses>>

FwDiagEnd ==
    /\ fwDiagAt = "end"
    /\ fw_diag' = [fw_diag EXCEPT !.running = FALSE]
    /\ fwDiagAt' = "idle"
    /\ UNCHANGED <<fwDiagLeft, fwDiagRefused, swDiagVars, diagnoses>>

-----------------------------------------------------------------------------
(* diagnose_all_endpoint and _run_diagnose_all.                            *)

\* The check and the new record are one section under _diag_all_lock.
DiagAsk ==
    /\ ~diag_all.running
    /\ NewDiagnosis
    /\ diag_all' = [running |-> TRUE, done |-> 0, corrected |-> 0, error |-> FALSE]
    /\ diagAt' = "asked"
    /\ UNCHANGED <<task, diagListed, fwDiagVars>>

\* The thread starts, or the except block of the request gives the record back.
DiagThread ==
    /\ diagAt = "asked"
    /\ \/ diagAt' = "list" /\ UNCHANGED diag_all
       \/ diagAt' = "idle" /\ diag_all' = [diag_all EXCEPT !.running = FALSE]
    /\ diagListed' = -1
    /\ UNCHANGED <<task, fwDiagVars, diagnoses>>

\* The thread reads the switches itself, and submits a task for each.
DiagList ==
    /\ diagAt = "list"
    /\ \/ \E switches \in SUBSET DiagDevices :
             /\ task' = [s \in DiagDevices |->
                            IF s \in switches THEN "waiting" ELSE "none"]
             /\ diagListed' = Cardinality(switches)
          /\ diagAt' = "count"
          /\ UNCHANGED diag_all
       \/ /\ diag_all' = [diag_all EXCEPT !.running = FALSE, !.error = TRUE]
          /\ diagAt' = "idle"
          /\ UNCHANGED <<task, diagListed>>
    /\ UNCHANGED <<fwDiagVars, diagnoses>>

TaskBegin(s) ==
    /\ task[s] = "waiting"
    /\ Cardinality({r \in DiagDevices : task[r] = "busy"}) < PoolSize
    /\ task' = [task EXCEPT ![s] = "busy"]
    /\ UNCHANGED <<diag_all, diagAt, diagListed, fwDiagVars, diagnoses>>

\* Reading the account is outside every try of the task and may raise; a
\* vendor guess that differs from the one listed is written back.
TaskEnd(s) ==
    /\ task[s] = "busy"
    /\ \E outcome \in TaskOutcome : task' = [task EXCEPT ![s] = outcome]
    /\ UNCHANGED <<diag_all, diagAt, diagListed, fwDiagVars, diagnoses>>

\* as_completed hands over one result; the first that raised ends the loop.
DiagCountOne(s) ==
    /\ diagAt = "count"
    /\ task[s] \in TaskOutcome
    /\ \/ /\ task[s] = "raised"
          /\ diagAt' = "drain" /\ UNCHANGED diag_all
       \/ /\ task[s] # "raised"
          /\ diag_all' = [diag_all EXCEPT
                 !.done = @ + 1,
                 !.corrected = IF task[s] = "corrected" THEN @ + 1 ELSE @]
          /\ UNCHANGED diagAt
    /\ task' = [task EXCEPT ![s] = "counted"]
    /\ UNCHANGED <<diagListed, fwDiagVars, diagnoses>>

\* Faulty variant: the exception that ended the loop is swallowed.
DiagEndSilent ==
    /\ \/ diagAt = "drain" /\ \A s \in DiagDevices : task[s] \notin {"waiting", "busy"}
       \/ diagAt = "count" /\ \A s \in DiagDevices : task[s] \in {"none", "counted"}
    /\ diag_all' = [diag_all EXCEPT !.running = FALSE]
    /\ diagAt' = "idle"
    /\ UNCHANGED <<task, diagListed, fwDiagVars, diagnoses>>

\* All are counted, or the loop was left and the pool has waited for the tasks
\* that remained; then error is set, and the finally block resets running.
DiagEnd ==
    /\ \/ diagAt = "drain" /\ \A s \in DiagDevices : task[s] \notin {"waiting", "busy"}
       \/ diagAt = "count" /\ \A s \in DiagDevices : task[s] \in {"none", "counted"}
    /\ diag_all' = [diag_all EXCEPT !.running = FALSE, !.error = diagAt = "drain"]
    /\ diagAt' = "idle"
    /\ UNCHANGED <<task, diagListed, fwDiagVars, diagnoses>>

-----------------------------------------------------------------------------
FwDiagStep == FwDiagRefuse \/ FwDiagThread \/ FwDiagList \/ FwDiagVisit \/ FwDiagEnd
DiagMain == DiagThread \/ DiagList \/ (\E s \in DiagDevices : DiagCountOne(s)) \/ DiagEnd
DiagPool == \E s \in DiagDevices : TaskBegin(s) \/ TaskEnd(s)

DiagNext == FwDiagAsk \/ DiagAsk \/ FwDiagStep \/ DiagMain \/ DiagPool

DiagSpec == DiagInit /\ [][DiagNext]_diagVars

\* Threads go on; every connection of a task has its time limit.
DiagFairness ==
    /\ WF_diagVars(FwDiagStep)
    /\ WF_diagVars(DiagMain)
    /\ WF_diagVars(DiagPool)

-----------------------------------------------------------------------------
(* Properties.                                                             *)

\* A new diagnosis of the switches never meets tasks of an old one: while a
\* task waits or talks to a switch, running refuses the next request.
NoTaskOutlivesRun ==
    ~diag_all.running => \A s \in DiagDevices : task[s] \notin {"waiting", "busy"}

\* A diagnosis that has ended and left results out says so: its error is set,
\* or it counted every switch it listed, corrected ones among them.
LossIsReported ==
    diagAt = "idle" /\ diagListed # -1 =>
        \/ diag_all.error
        \/ /\ diag_all.done = diagListed
           /\ diag_all.corrected
                <= Cardinality({s \in DiagDevices : task[s] = "counted"})

\* The diagnosis of the firewalls stays on record only while somebody is at
\* it, except after a refused id list, which locks the button until a restart.
FwDiagStuckOnlyAfterRefusal ==
    fw_diag.running /\ fwDiagAt = "idle" => fwDiagRefused

\* Whatever raises, the diagnosis of the switches ends and frees its record.
DiagnosisEnds == diag_all.running ~> ~diag_all.running

\* No diagnosis runs behind the back of its record, and none ends with
\* results missing and nothing said.
DiagnosisSafety ==
    /\ NoTaskOutlivesRun /\ LossIsReported /\ FwDiagStuckOnlyAfterRefusal
=============================================================================
