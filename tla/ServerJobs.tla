----------------------------- MODULE ServerJobs -----------------------------
(***************************************************************************)
(* Collection of servers, core/server_collector.py.  collect_server is     *)
(* called by request threads and by the thread pool of a bulk run; _inflight *)
(* keeps a server from being collected twice at once, _progress and _stop  *)
(* keep one bulk run at a time.  A visit is one call of collect_server, or *)
(* of the _one that wraps it, by an owner for a server.  The pool begins   *)
(* waiting visits in any number and order.                                 *)
(***************************************************************************)
EXTENDS Integers, FiniteSets

CONSTANTS
    Servers,            \* ids of the registered servers
    SrvClicks,          \* request threads: collect, diagnose
    SrvRuns,            \* bulk threads: collect-all, diagnose-all
    MaxSrvJobs,         \* bound: requests of either kind
    MaxSrvFaults        \* bound: database calls that raise

ASSUME ServerAssumption ==
    /\ IsFiniteSet(Servers) /\ Servers \subseteq Nat
    /\ SrvClicks \cap SrvRuns = {}
    /\ MaxSrvJobs \in Nat /\ MaxSrvFaults \in Nat

VARIABLES
    inflight,           \* _inflight
    srv_status,         \* servers.status
    srv_progress,       \* _progress: running, done
    srv_stop,           \* _stop
    visit,              \* where each visit is
    run,                \* where each bulk thread is
    toCount,            \* results that thread has not taken from the pool
    results,            \* its done + failed + skipped
    srvAsked,           \* history: bulk threads that were asked to stop
    srvLost,            \* history: servers whose last status was lost
    overtaken,          \* history: running was reset under a live run
    srvJobs, srvFaults

srvVars == <<inflight, srv_status, srv_progress, srv_stop, visit, run, toCount,
             results, srvAsked, srvLost, overtaken, srvJobs, srvFaults>>

Visits == (SrvClicks \cup SrvRuns) \X Servers

\* The visits that hold the server.
Held == {"mark", "probe", "saveDone", "saveFailed", "fail", "free"}
SrvResult == {"ended", "skipped", "raised"}

SrvTypeOK ==
    /\ inflight \subseteq Servers
    /\ srv_status \in [Servers -> {"new", "collecting", "done", "failed"}]
    /\ srv_progress \in [running : BOOLEAN, done : 0..Cardinality(Servers)]
    /\ srv_stop \in BOOLEAN
    /\ visit \in [Visits -> {"none", "waiting", "account", "guard"} \cup Held \cup SrvResult]
    /\ run \in [SrvRuns -> {"idle", "list", "count", "drain", "finally", "except"}]
    /\ toCount \in [SrvRuns -> SUBSET Servers]
    /\ results \in [SrvRuns -> 0..Cardinality(Servers)]
    /\ srvAsked \subseteq SrvRuns
    /\ srvLost \subseteq Servers
    /\ overtaken \in BOOLEAN
    /\ srvJobs \in 0..MaxSrvJobs /\ srvFaults \in 0..MaxSrvFaults

SrvInit ==
    /\ inflight = {}
    /\ srv_status = [s \in Servers |-> "new"]
    /\ srv_progress = [running |-> FALSE, done |-> 0]
    /\ srv_stop = FALSE
    /\ visit = [v \in Visits |-> "none"]
    /\ run = [r \in SrvRuns |-> "idle"]
    /\ toCount = [r \in SrvRuns |-> {}]
    /\ results = [r \in SrvRuns |-> 0]
    /\ srvAsked = {} /\ srvLost = {} /\ overtaken = FALSE
    /\ srvJobs = 0 /\ srvFaults = 0

NewSrvJob == srvJobs < MaxSrvJobs /\ srvJobs' = srvJobs + 1
SrvRaises == srvFaults < MaxSrvFaults /\ srvFaults' = srvFaults + 1

VisitGoes(v, from, to) == visit[v] = from /\ visit' = [visit EXCEPT ![v] = to]
RunGoes(r, to) == run' = [run EXCEPT ![r] = to]

\* update_server(status=...)
SetSrvStatus(s, status) ==
    /\ srv_status' = [srv_status EXCEPT ![s] = status]
    /\ srvLost' = srvLost \ {s}

bulkVars == <<srv_progress, srv_stop, run, toCount, results, srvAsked, overtaken>>

-----------------------------------------------------------------------------
(* collect_server and _collect_server_locked.                              *)

\* A request for one server; whether it is in flight is asked by its thread.
SrvClick(c, s) ==
    /\ NewSrvJob
    /\ VisitGoes(<<c, s>>, "none", "guard")
    /\ UNCHANGED <<inflight, srv_status, srvLost, srvFaults, bulkVars>>

\* Where a visit that ends early goes: a request thread just ends.
Answer(v, result) == IF v[1] \in SrvClicks THEN "none" ELSE result

\* Faulty variant: the mark is set without asking for it.
GuardUnasked(v) ==
    /\ VisitGoes(v, "guard", "mark")
    /\ inflight' = inflight \cup {v[2]}
    /\ UNCHANGED <<srv_status, srvLost, srvJobs, srvFaults, bulkVars>>

\* The row is read first: gone or unreadable means failed.  Then check and
\* mark under _inflight_lock.
Guard(v) ==
    /\ \/ VisitGoes(v, "guard", Answer(v, "ended")) /\ UNCHANGED inflight
       \/ /\ v[2] \in inflight
          /\ VisitGoes(v, "guard", Answer(v, "skipped")) /\ UNCHANGED inflight
       \/ /\ v[2] \notin inflight
          /\ VisitGoes(v, "guard", "mark")
          /\ inflight' = inflight \cup {v[2]}
    /\ UNCHANGED <<srv_status, srvLost, srvJobs, srvFaults, bulkVars>>

MarkServer(v) ==
    /\ \/ /\ VisitGoes(v, "mark", "probe")
          /\ SetSrvStatus(v[2], "collecting") /\ UNCHANGED srvFaults
       \/ /\ VisitGoes(v, "mark", "fail")
          /\ SrvRaises /\ UNCHANGED <<srv_status, srvLost>>
    /\ UNCHANGED <<inflight, srvJobs, bulkVars>>

\* Port scan, names, location, SSH, WMI, SNMP: some evidence of the server
\* makes it done, none makes it failed, and a lookup may raise.
Probe(v) ==
    /\ \E to \in {"saveDone", "saveFailed", "fail"} : VisitGoes(v, "probe", to)
    /\ UNCHANGED <<inflight, srv_status, srvLost, srvJobs, srvFaults, bulkVars>>

SaveServer(v) ==
    /\ \/ /\ VisitGoes(v, "saveDone", "free")
          /\ SetSrvStatus(v[2], "done") /\ UNCHANGED srvFaults
       \/ /\ VisitGoes(v, "saveFailed", "free")
          /\ SetSrvStatus(v[2], "failed") /\ UNCHANGED srvFaults
       \/ /\ \E from \in {"saveDone", "saveFailed"} : VisitGoes(v, from, "fail")
          /\ SrvRaises /\ UNCHANGED <<srv_status, srvLost>>
    /\ UNCHANGED <<inflight, srvJobs, bulkVars>>

\* Both except blocks, of the save and of the whole: "failed" is written under
\* a try of its own.
FailServer(v) ==
    /\ VisitGoes(v, "fail", "free")
    /\ \/ SetSrvStatus(v[2], "failed") /\ UNCHANGED srvFaults
       \/ SrvRaises /\ srvLost' = srvLost \cup {v[2]} /\ UNCHANGED srv_status
    /\ UNCHANGED <<inflight, srvJobs, bulkVars>>

\* The finally block.
FreeServer(v) ==
    /\ VisitGoes(v, "free", Answer(v, "ended"))
    /\ inflight' = inflight \ {v[2]}
    /\ UNCHANGED <<srv_status, srvLost, srvJobs, srvFaults, bulkVars>>

-----------------------------------------------------------------------------
(* collect_all_servers, _collect_all_locked and its pool.                  *)

visitVars == <<inflight, srv_status, srvLost>>

\* Bulk threads whose pool may still begin visits, or whose end is to come.
Live(r) == run[r] \in {"list", "count", "drain", "finally"}

\* Check and record under _prog_lock; a second thread returns already_running.
RunStart(r) ==
    /\ run[r] = "idle" /\ ~srv_progress.running
    /\ NewSrvJob
    /\ srv_stop' = FALSE
    /\ srv_progress' = [running |-> TRUE, done |-> 0]
    /\ RunGoes(r, "list")
    /\ UNCHANGED <<visitVars, visit, toCount, results, srvAsked, overtaken, srvFaults>>

RunList(r) ==
    /\ run[r] = "list"
    /\ \/ \E ids \in SUBSET Servers :
             /\ toCount' = [toCount EXCEPT ![r] = ids]
             /\ visit' = [v \in Visits |->
                             IF v[1] = r /\ v[2] \in ids THEN "waiting" ELSE visit[v]]
             /\ srv_progress' = [running |-> TRUE, done |-> 0]
          /\ RunGoes(r, "count") /\ UNCHANGED srvFaults
       \/ SrvRaises /\ RunGoes(r, "except") /\ UNCHANGED <<toCount, visit, srv_progress>>
    /\ UNCHANGED <<visitVars, srv_stop, results, srvAsked, overtaken, srvJobs>>

\* Faulty variant: the pool does not look at the stop flag.
PoolBeginUnasked(v) ==
    /\ VisitGoes(v, "waiting", "account")
    /\ UNCHANGED <<visitVars, srvJobs, srvFaults, bulkVars>>

\* _one: after a stop request the servers that remain are skipped.
PoolBegin(v) ==
    /\ VisitGoes(v, "waiting", IF srv_stop THEN "skipped" ELSE "account")
    /\ UNCHANGED <<visitVars, srvJobs, srvFaults, bulkVars>>

\* The stored account is read outside the try of _one.
PoolAccount(v) ==
    /\ \/ VisitGoes(v, "account", "guard") /\ UNCHANGED srvFaults
       \/ VisitGoes(v, "account", "raised") /\ SrvRaises
    /\ UNCHANGED <<visitVars, srvJobs, bulkVars>>

\* ex.map gives the results in the order of the servers; the first that
\* raised ends the loop and cancels the visits the pool has not begun.
Count(r) ==
    /\ run[r] = "count"
    /\ \E s \in toCount[r] :
          /\ \A t \in toCount[r] : s <= t
          /\ \/ /\ visit[<<r, s>>] \in SrvResult \ {"raised"}
                /\ visit' = [visit EXCEPT ![<<r, s>>] = "none"]
                /\ toCount' = [toCount EXCEPT ![r] = @ \ {s}]
                /\ results' = [results EXCEPT ![r] = @ + 1]
                /\ srv_progress' = [srv_progress EXCEPT !.done = results[r] + 1]
                /\ UNCHANGED run
             \/ /\ visit[<<r, s>>] = "raised"
                /\ visit' = [v \in Visits |->
                                IF v[1] = r /\ visit[v] \in SrvResult \cup {"waiting"}
                                THEN "none" ELSE visit[v]]
                /\ toCount' = [toCount EXCEPT ![r] = {}]
                /\ RunGoes(r, "drain")
                /\ UNCHANGED <<results, srv_progress>>
    /\ UNCHANGED <<visitVars, srv_stop, srvAsked, overtaken, srvJobs, srvFaults>>

Busy(v) == visit[v] \in Held \cup {"account", "guard"}

\* Leaving the pool waits for the visits it has begun.
Drain(r) ==
    /\ run[r] = "drain"
    /\ \A s \in Servers : ~Busy(<<r, s>>)
    /\ visit' = [v \in Visits |-> IF v[1] = r THEN "none" ELSE visit[v]]
    /\ RunGoes(r, "finally")
    /\ UNCHANGED <<visitVars, srv_progress, srv_stop, toCount, results, srvAsked,
                   overtaken, srvJobs, srvFaults>>

\* Resetting running while another bulk thread is live.
Overtakes(r) == overtaken' = (overtaken \/ \E o \in SrvRuns \ {r} : Live(o))

\* The finally block; an exception goes on to the caller.
RunFinally(r) ==
    /\ \/ run[r] = "finally" /\ RunGoes(r, "except")
       \/ run[r] = "count" /\ toCount[r] = {} /\ RunGoes(r, "idle")
    /\ srv_progress' = [srv_progress EXCEPT !.running = FALSE]
    /\ srvAsked' = srvAsked \ {r}
    /\ Overtakes(r)
    /\ results' = [results EXCEPT ![r] = 0]
    /\ UNCHANGED <<visitVars, visit, srv_stop, toCount, srvJobs, srvFaults>>

\* Faulty variant: the exception leaves the record as it is.
RunExceptKeeps(r) ==
    /\ run[r] = "except"
    /\ RunGoes(r, "idle")
    /\ UNCHANGED <<visitVars, visit, srv_progress, srv_stop, toCount, results, srvAsked,
                   overtaken, srvJobs, srvFaults>>

\* The except block of collect_all_servers resets running once more, and may
\* take it from a run that began after the finally block.
RunExcept(r) ==
    /\ run[r] = "except"
    /\ RunGoes(r, "idle")
    /\ srv_progress' = [srv_progress EXCEPT !.running = FALSE]
    /\ srvAsked' = srvAsked \ {r}
    /\ Overtakes(r)
    /\ results' = [results EXCEPT ![r] = 0]
    /\ UNCHANGED <<visitVars, visit, srv_stop, toCount, srvJobs, srvFaults>>

\* request_stop; refused when nothing runs.
SrvStop ==
    /\ srv_progress.running /\ ~srv_stop
    /\ srv_stop' = TRUE
    /\ srvAsked' = srvAsked \cup {r \in SrvRuns : Live(r)}
    /\ UNCHANGED <<visitVars, visit, srv_progress, run, toCount, results, overtaken, srvJobs, srvFaults>>

-----------------------------------------------------------------------------
VisitStep(v) ==
    \/ Guard(v) \/ MarkServer(v) \/ Probe(v) \/ SaveServer(v) \/ FailServer(v)
    \/ FreeServer(v) \/ PoolBegin(v) \/ PoolAccount(v)

RunStep(r) == RunList(r) \/ Count(r) \/ Drain(r) \/ RunFinally(r) \/ RunExcept(r)

SrvNext ==
    \/ \E c \in SrvClicks, s \in Servers : SrvClick(c, s)
    \/ \E r \in SrvRuns : RunStart(r) \/ RunStep(r)
    \/ \E v \in Visits : VisitStep(v)
    \/ SrvStop

SrvSpec == SrvInit /\ [][SrvNext]_srvVars

\* Every probe has a time limit, and the pool has a thread for every visit in
\* the end.
SrvFairness ==
    /\ \A v \in Visits : WF_srvVars(VisitStep(v))
    /\ \A r \in SrvRuns : WF_srvVars(RunStep(r))

-----------------------------------------------------------------------------
(* Properties.                                                             *)

\* A server in flight has exactly one visit that holds it and will let it go,
\* whatever raises on the way: a mark that is left behind would have every
\* later collection of the server skipped until a restart.
InflightHasOneHolder ==
    \A s \in Servers :
        Cardinality({v \in Visits : v[2] = s /\ visit[v] \in Held})
            = (IF s \in inflight THEN 1 ELSE 0)

\* The badge "collecting" never stays behind: the server is in flight, or the
\* database refused even the status of the except block.
ServerBadgeIsTrue ==
    \A s \in Servers : srv_status[s] = "collecting" => s \in inflight \cup srvLost

\* One bulk run at a time, and the record shows it: unless the except block of
\* an earlier run has reset the record of a later one.
BulkRunOnRecord ==
    \/ overtaken
    \/ /\ \A r, q \in SrvRuns : Live(r) /\ Live(q) => r = q
       /\ srv_progress.running => \E r \in SrvRuns : run[r] # "idle"
       /\ \A r \in SrvRuns : Live(r) => srv_progress.running

\* A bulk run that was asked to stop begins no further server.
StopSkipsTheRest ==
    [][\A v \in Visits :
          v[1] \in srvAsked /\ ~overtaken /\ visit[v] = "waiting"
              => visit'[v] # "account"]_srvVars

\* A run nobody asked to stop skips no server on account of a stop: what it
\* counts as skipped was being collected by somebody else.
OnlyAskedRunsSkip ==
    \A r \in SrvRuns : run[r] = "count" /\ srv_stop => r \in srvAsked

\* The record of a bulk run ends, even when the list or an account cannot be
\* read; a record that stays refuses every later run.
BulkRunEnds == srv_progress.running ~> ~srv_progress.running

\* The abstract job of a server.
ServerJob(s) ==
    IF s \notin inflight THEN "idle"
    ELSE IF \E v \in Visits : v[2] = s /\ visit[v] = "mark" THEN "pending" ELSE "running"

ServerFlight ==
    INSTANCE SingleFlight WITH Switches <- Servers,
                               job <- [s \in Servers |-> ServerJob(s)]

\* The same abstract job as for switches: at most one collection of a server,
\* and nobody but the visit that runs it ends it.
ServersAreSingleFlight == ServerFlight!Spec

\* Marks, badges and the record of a bulk run tell the truth, and a stop
\* reaches the run that it was meant for.
ServerSafety ==
    /\ [](/\ InflightHasOneHolder /\ ServerBadgeIsTrue /\ BulkRunOnRecord
          /\ OnlyAskedRunsSkip)
    /\ StopSkipsTheRest
=============================================================================
