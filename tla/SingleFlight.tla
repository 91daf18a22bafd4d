---------------------------- MODULE SingleFlight ----------------------------
(***************************************************************************)
(* What the collection queue of core/collector.py promises to the rest of  *)
(* the application: at any time a switch has at most one collection job.   *)
(* A job is first pending (accepted, waiting for a worker), then running;  *)
(* it is dropped while pending (stop request, failed enqueue) or ends when *)
(* its worker lets go of the switch.  A running job is never cancelled and *)
(* a switch with a job is never given a second one.                        *)
(***************************************************************************)
CONSTANT Switches

VARIABLE job

JobState == {"idle", "pending", "running"}

TypeOK == job \in [Switches -> JobState]

Init == job = [s \in Switches |-> "idle"]

Move(s, from, to) ==
    /\ job[s] = from
    /\ job' = [job EXCEPT ![s] = to]

\* collect_switch accepts a request.
Submit(s) == Move(s, "idle", "pending")

\* cancel_pending or _abort_enqueue drops a job no worker has taken.
Cancel(s) == Move(s, "pending", "idle")

\* A worker takes the job; from here only the worker ends it.
Start(s) == Move(s, "pending", "running")

Finish(s) == Move(s, "running", "idle")

\* The process dies and starts again: the queue is in memory only.
Restart == job' = [s \in Switches |-> "idle"]

Next ==
    \/ \E s \in Switches : Submit(s) \/ Cancel(s) \/ Start(s) \/ Finish(s)
    \/ Restart

Spec == Init /\ [][Next]_job
=============================================================================
