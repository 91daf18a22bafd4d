------------------------------- MODULE MCJobs -------------------------------
(***************************************************************************)
(* The background jobs that share no state, checked in one run: Init picks *)
(* the job that the behaviour is about and the others stay as they are.    *)
(***************************************************************************)
EXTENDS FirewallJobs, DiagnosisJobs, ServerJobs, FacilityJobs

CONSTANTS
    Jobs,                       \* the jobs of this instance
    c1, c2, k1,                 \* request threads
    r1, r2,                     \* bulk threads of the server collection
    m1, a1                      \* a manual and an automatic scan

VARIABLE job                    \* the job of this behaviour

MCFirewalls == 1..2
MCClicks == {c1, c2}
MCDevices == 1..3
MCServers == 1..2
MCSrvRuns == {r1, r2}
MCSrvClicks == {k1}
MCManualScans == {m1}
MCAutoScans == {a1}
MCAllJobs == {"firewalls", "diagnosis", "servers", "facility"}
MCFacility == {"facility"}

Init == job \in Jobs /\ FwInit /\ DiagInit /\ SrvInit /\ FacInit

Next ==
    \/ job = "firewalls" /\ FwNext /\ UNCHANGED <<job, diagVars, srvVars, facVars>>
    \/ job = "diagnosis" /\ DiagNext /\ UNCHANGED <<job, fwVars, srvVars, facVars>>
    \/ job = "servers" /\ SrvNext /\ UNCHANGED <<job, fwVars, diagVars, facVars>>
    \/ job = "facility" /\ FacNext /\ UNCHANGED <<job, fwVars, diagVars, srvVars>>

vars == <<job, fwVars, diagVars, srvVars, facVars>>

Spec ==
    /\ Init /\ [][Next]_vars
    /\ FwFairness /\ DiagFairness /\ SrvFairness /\ FacFairness

\* Every variable of the jobs has its type.
JobsTypeOK ==
    /\ FwTypeOK /\ DiagTypeOK /\ SrvTypeOK /\ FacTypeOK

\* Every run that started ends, whatever raises on the way, and frees its
\* record for the next one (see the four modules for the exceptions).
RunsEnd ==
    /\ FwRunEnds /\ DiagnosisEnds /\ BulkRunEnds /\ ScanEnds
=============================================================================
