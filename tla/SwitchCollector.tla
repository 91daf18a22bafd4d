-------------------------- MODULE SwitchCollector --------------------------
(***************************************************************************)
(* The asynchronous switch collection of core/collector.py: HTTP handlers  *)
(* and the scheduler (Requesters) call collect_switch, a pool of daemon    *)
(* threads (Workers) runs _worker_loop_once, and stop requests             *)
(* (Cancellers) run cancel_pending.  They share                            *)
(*   marks    _collecting_switches, guarded by _collector_lock;            *)
(*   queue    _worker_queue, a bounded queue.Queue of switch ids;          *)
(*   session  credentials._session, guarded by its own lock;               *)
(*   status   the switches.status column, one SQLite transaction a write;  *)
(*   alarm    the last switch_unreachable or switch_recovered event the    *)
(*            collector wrote; the reachability monitor keeps its own state. *)
(* An action is one critical section, one queue operation or one database  *)
(* transaction: other threads run between any two of them.                 *)
(***************************************************************************)
EXTENDS Naturals, Sequences, FiniteSets

CONSTANTS
    Switches,       \* registered switches
    Requesters,     \* threads that call collect_switch, each with its account
    Workers,        \* collector-worker-<i>
    Cancellers,     \* threads that call cancel_pending
    QueueMax,       \* maxsize of _worker_queue (1000 in the code)
    MaxRequests,    \* bound: accepted requests in a behaviour
    MaxCrashes,     \* bound: restarts of the process in a behaviour
    DbFaults,       \* TRUE: a database transaction may raise
    NoSwitch, NoCred

ASSUME ThreadsAssumption ==
    /\ Requesters \cap Workers = {}
    /\ Requesters \cap Cancellers = {}
    /\ Workers \cap Cancellers = {}

ASSUME ConstantsAssumption ==
    /\ IsFiniteSet(Switches)
    /\ NoSwitch \notin Switches
    /\ NoCred \notin Requesters
    /\ QueueMax \in Nat \ {0}
    /\ MaxRequests \in Nat
    /\ MaxCrashes \in Nat
    /\ DbFaults \in BOOLEAN

VARIABLES
    marks, queue, session, status, alarm,
    pc,         \* where each thread is
    arg,        \* the switch it is working on
    prev,       \* a worker's prev_status
    cred,       \* a worker's copy of the credential
    asked,      \* history: whose request the current job of a switch is
    lost,       \* history: switches whose final status or alarm was lost to
                \* a database fault or a restart
    requests, crashes

vars == <<marks, queue, session, status, alarm, pc, arg, prev, cred, asked,
          lost, requests, crashes>>

Threads == Requesters \cup Workers \cup Cancellers

Status == {"new", "collecting", "done", "failed"}
Alarm  == {"none", "unreachable", "recovered"}

\* Program counters.  In the Holding ones the thread is responsible for the
\* mark of its switch: nobody else will release it.
RequesterPc == {"idle", "save", "put", "abort", "dispose"}
CancellerPc == {"idle", "pop", "unmark", "clear", "read", "reset"}
WorkerPc    == {"idle", "begin", "mark", "load", "device", "finish",
                "recover", "fail", "alarm", "clear", "release"}

Holding(t) ==
    \/ t \in Requesters /\ pc[t] \in {"save", "put", "abort"}
    \/ t \in Cancellers /\ pc[t] = "unmark"
    \/ t \in Workers    /\ pc[t] # "idle"

Queued(s)  == \E i \in 1..Len(queue) : queue[i] = s
Held(s)    == \E t \in Threads : Holding(t) /\ arg[t] = s
Running(s) == \E w \in Workers : pc[w] # "idle" /\ arg[w] = s

TypeOK ==
    /\ marks \subseteq Switches
    /\ queue \in Seq(Switches)
    /\ session \in [Switches -> Requesters \cup {NoCred}]
    /\ status \in [Switches -> Status]
    /\ alarm \in [Switches -> Alarm]
    /\ pc \in [Threads -> RequesterPc \cup CancellerPc \cup WorkerPc]
    /\ \A r \in Requesters : pc[r] \in RequesterPc
    /\ \A c \in Cancellers : pc[c] \in CancellerPc
    /\ \A w \in Workers : pc[w] \in WorkerPc
    /\ arg \in [Threads -> Switches \cup {NoSwitch}]
    /\ \A t \in Threads : pc[t] \notin {"idle", "pop"} => arg[t] \in Switches
    /\ prev \in [Workers -> Status \cup {"none"}]
    /\ cred \in [Workers -> Requesters \cup {NoCred}]
    /\ asked \in [Switches -> Requesters \cup {NoCred}]
    /\ lost \subseteq Switches
    /\ requests \in 0..MaxRequests
    /\ crashes \in 0..MaxCrashes

Init ==
    /\ marks = {}
    /\ queue = <<>>
    /\ session = [s \in Switches |-> NoCred]
    /\ pc = [t \in Threads |-> "idle"]
    /\ arg = [t \in Threads |-> NoSwitch]
    /\ prev = [w \in Workers |-> "none"]
    /\ cred = [w \in Workers |-> NoCred]
    /\ status \in [Switches -> {"new", "done", "failed"}]
    /\ alarm = [s \in Switches |->
                    IF status[s] = "failed" THEN "unreachable" ELSE "none"]
    /\ asked = [s \in Switches |-> NoCred]
    /\ lost = {}
    /\ requests = 0
    /\ crashes = 0

Goto(t, label) == pc' = [pc EXCEPT ![t] = label]

\* The thread is done with its switch.
Leave(t) ==
    /\ Goto(t, "idle")
    /\ arg' = [arg EXCEPT ![t] = NoSwitch]

SetStatus(s, value) == status' = [status EXCEPT ![s] = value]
Dispose(s) == session' = [session EXCEPT ![s] = NoCred]

\* _collecting_switches.discard under _collector_lock.
Unmark(s) ==
    /\ marks' = marks \ {s}
    /\ asked' = [asked EXCEPT ![s] = NoCred]

-----------------------------------------------------------------------------
(* collect_switch and _abort_enqueue, in a requester's thread.             *)

\* Faulty variant: the mark is set without looking at it.
AcceptUnchecked(r, s) ==
    /\ pc[r] = "idle"
    /\ requests < MaxRequests
    /\ marks' = marks \cup {s}
    /\ asked' = [asked EXCEPT ![s] = r]
    /\ requests' = requests + 1
    /\ Goto(r, "save")
    /\ arg' = [arg EXCEPT ![r] = s]
    /\ UNCHANGED <<queue, session, status, alarm, prev, cred, lost, crashes>>

\* The in-progress check and the mark, one critical section.
Accept(r, s) ==
    /\ pc[r] = "idle"
    /\ requests < MaxRequests
    /\ s \notin marks
    /\ marks' = marks \cup {s}
    /\ asked' = [asked EXCEPT ![s] = r]
    /\ requests' = requests + 1
    /\ Goto(r, "save")
    /\ arg' = [arg EXCEPT ![r] = s]
    /\ UNCHANGED <<queue, session, status, alarm, prev, cred, lost, crashes>>

\* Faulty variant: the account is stored before the check.
RejectAfterSave(r, s) ==
    /\ pc[r] = "idle"
    /\ s \in marks
    /\ session' = [session EXCEPT ![s] = r]
    /\ UNCHANGED <<marks, queue, status, alarm, pc, arg, prev, cred, asked,
                   lost, requests, crashes>>

\* "Switch N is already being collected": nothing is stored.
Reject(r, s) ==
    /\ pc[r] = "idle"
    /\ s \in marks
    /\ UNCHANGED vars

\* credentials.save_credential
Save(r) ==
    /\ pc[r] = "save"
    /\ session' = [session EXCEPT ![arg[r]] = r]
    /\ Goto(r, "put")
    /\ UNCHANGED <<marks, queue, status, alarm, arg, prev, cred, asked, lost,
                   requests, crashes>>

\* _worker_queue.put(block=False): queued, or queue.Full.
Put(r) ==
    /\ pc[r] = "put"
    /\ Len(queue) < QueueMax
    /\ queue' = Append(queue, arg[r])
    /\ Leave(r)
    /\ UNCHANGED <<marks, session, status, alarm, prev, cred, asked, lost,
                   requests, crashes>>

\* Faulty variant: queue.Full only answers the caller.
PutFullKeepsMark(r) ==
    /\ pc[r] = "put"
    /\ Len(queue) >= QueueMax
    /\ Leave(r)
    /\ UNCHANGED <<marks, queue, session, status, alarm, prev, cred, asked,
                   lost, requests, crashes>>

PutFull(r) ==
    /\ pc[r] = "put"
    /\ Len(queue) >= QueueMax
    /\ Goto(r, "abort")
    /\ UNCHANGED <<marks, queue, session, status, alarm, arg, prev, cred,
                   asked, lost, requests, crashes>>

\* Faulty variant: the aborted request leaves its credential behind.
AbortKeepsCredential(r) ==
    /\ pc[r] = "abort"
    /\ Unmark(arg[r])
    /\ Leave(r)
    /\ UNCHANGED <<queue, session, status, alarm, prev, cred, lost, requests,
                   crashes>>

\* _abort_enqueue: first the mark, then the credential.
AbortUnmark(r) ==
    /\ pc[r] = "abort"
    /\ Unmark(arg[r])
    /\ Goto(r, "dispose")
    /\ UNCHANGED <<queue, session, status, alarm, arg, prev, cred, lost,
                   requests, crashes>>

AbortDispose(r) ==
    /\ pc[r] = "dispose"
    /\ Dispose(arg[r])
    /\ Leave(r)
    /\ UNCHANGED <<marks, queue, status, alarm, prev, cred, asked, lost,
                   requests, crashes>>

-----------------------------------------------------------------------------
(* cancel_pending, in the thread of a stop request: a loop that ends when  *)
(* the queue is empty.                                                     *)

CancelStart(c) ==
    /\ pc[c] = "idle"
    /\ queue # <<>>
    /\ Goto(c, "pop")
    /\ UNCHANGED <<marks, queue, session, status, alarm, arg, prev, cred,
                   asked, lost, requests, crashes>>

CancelPop(c) ==
    /\ pc[c] = "pop"
    /\ queue # <<>>
    /\ arg' = [arg EXCEPT ![c] = Head(queue)]
    /\ queue' = Tail(queue)
    /\ Goto(c, "unmark")
    /\ UNCHANGED <<marks, session, status, alarm, prev, cred, asked, lost,
                   requests, crashes>>

CancelEnd(c) ==
    /\ pc[c] = "pop"
    /\ queue = <<>>
    /\ Leave(c)
    /\ UNCHANGED <<marks, queue, session, status, alarm, prev, cred, asked,
                   lost, requests, crashes>>

CancelUnmark(c) ==
    /\ pc[c] = "unmark"
    /\ Unmark(arg[c])
    /\ Goto(c, "clear")
    /\ UNCHANGED <<queue, session, status, alarm, arg, prev, cred, lost,
                   requests, crashes>>

CancelClear(c) ==
    /\ pc[c] = "clear"
    /\ Dispose(arg[c])
    /\ Goto(c, "read")
    /\ UNCHANGED <<marks, queue, status, alarm, arg, prev, cred, asked, lost,
                   requests, crashes>>

\* db.get_switch: only a switch seen 'collecting' will be set back to 'new'.
\* An error while reading is swallowed and leaves the status alone.
CancelRead(c) ==
    /\ pc[c] = "read"
    /\ \/ status[arg[c]] = "collecting" /\ Goto(c, "reset")
       \/ (status[arg[c]] # "collecting" \/ DbFaults) /\ Goto(c, "pop")
    /\ UNCHANGED <<marks, queue, session, status, alarm, arg, prev, cred,
                   asked, lost, requests, crashes>>

CancelReset(c) ==
    /\ pc[c] = "reset"
    /\ \/ SetStatus(arg[c], "new")
       \/ DbFaults /\ UNCHANGED status
    /\ Goto(c, "pop")
    /\ UNCHANGED <<marks, queue, session, alarm, arg, prev, cred, asked, lost,
                   requests, crashes>>

-----------------------------------------------------------------------------
(* _worker_loop_once, in a worker.  Every label from "begin" to "recover"  *)
(* is inside the try: an exception there goes to the except block at       *)
(* "fail", and every path ends in the finally block at "clear".            *)

Take(w) ==
    /\ pc[w] = "idle"
    /\ queue # <<>>
    /\ arg' = [arg EXCEPT ![w] = Head(queue)]
    /\ queue' = Tail(queue)
    /\ Goto(w, "begin")
    /\ UNCHANGED <<marks, session, status, alarm, prev, cred, asked, lost,
                   requests, crashes>>

\* A database call of the try block raises.
Raise(w) ==
    /\ DbFaults
    /\ pc[w] \in {"begin", "mark", "load", "finish", "recover"}
    /\ Goto(w, "fail")
    /\ UNCHANGED <<marks, queue, session, status, alarm, arg, prev, cred,
                   asked, lost, requests, crashes>>

\* db.get_switch: the status before this collection, for the alarms.
Begin(w) ==
    /\ pc[w] = "begin"
    /\ prev' = [prev EXCEPT ![w] = status[arg[w]]]
    /\ Goto(w, "mark")
    /\ UNCHANGED <<marks, queue, session, status, alarm, arg, cred, asked,
                   lost, requests, crashes>>

\* Faulty variant: a status the rest of the code does not know.
MarkRunning(w) ==
    /\ pc[w] = "mark"
    /\ SetStatus(arg[w], "running")
    /\ Goto(w, "load")
    /\ UNCHANGED <<marks, queue, session, alarm, arg, prev, cred, asked, lost,
                   requests, crashes>>

MarkCollecting(w) ==
    /\ pc[w] = "mark"
    /\ SetStatus(arg[w], "collecting")
    /\ Goto(w, "load")
    /\ UNCHANGED <<marks, queue, session, alarm, arg, prev, cred, asked, lost,
                   requests, crashes>>

\* Faulty variant: without an account the worker just gives the job up.
LoadOrGiveUp(w) ==
    /\ pc[w] = "load"
    /\ cred' = [cred EXCEPT ![w] = session[arg[w]]]
    /\ Goto(w, IF session[arg[w]] = NoCred THEN "clear" ELSE "device")
    /\ UNCHANGED <<marks, queue, session, status, alarm, arg, prev, asked,
                   lost, requests, crashes>>

\* credentials.load_credential returns a copy; none is a ValueError.
Load(w) ==
    /\ pc[w] = "load"
    /\ cred' = [cred EXCEPT ![w] = session[arg[w]]]
    /\ Goto(w, IF session[arg[w]] = NoCred THEN "fail" ELSE "device")
    /\ UNCHANGED <<marks, queue, session, status, alarm, arg, prev, asked,
                   lost, requests, crashes>>

\* TCP precheck, SSH session under the hard timeout, OS detection, parsing and
\* the rows saved from the outputs: they end, or one of them raises.
Device(w) ==
    /\ pc[w] = "device"
    /\ Goto(w, "finish") \/ Goto(w, "fail")
    /\ UNCHANGED <<marks, queue, session, status, alarm, arg, prev, cred,
                   asked, lost, requests, crashes>>

Finish(w) ==
    /\ pc[w] = "finish"
    /\ SetStatus(arg[w], "done")
    /\ Goto(w, IF prev[w] = "failed" THEN "recover" ELSE "clear")
    /\ lost' = IF prev[w] = "failed" THEN lost ELSE lost \ {arg[w]}
    /\ UNCHANGED <<marks, queue, session, alarm, arg, prev, cred, asked,
                   requests, crashes>>

\* save_device_event("switch_recovered")
Recover(w) ==
    /\ pc[w] = "recover"
    /\ alarm' = [alarm EXCEPT ![arg[w]] = "recovered"]
    /\ lost' = lost \ {arg[w]}
    /\ Goto(w, "clear")
    /\ UNCHANGED <<marks, queue, session, status, arg, prev, cred, asked,
                   requests, crashes>>

\* Faulty variant: only a switch that worked before raises an alarm.
FailAfterDone(w) ==
    /\ pc[w] = "fail"
    /\ SetStatus(arg[w], "failed")
    /\ Goto(w, IF prev[w] = "done" THEN "alarm" ELSE "clear")
    /\ UNCHANGED <<marks, queue, session, alarm, arg, prev, cred, asked, lost,
                   requests, crashes>>

\* The except block.  An error of its own first call skips the alarm.
Fail(w) ==
    /\ pc[w] = "fail"
    /\ SetStatus(arg[w], "failed")
    /\ Goto(w, IF prev[w] # "failed" THEN "alarm" ELSE "clear")
    /\ UNCHANGED <<marks, queue, session, alarm, arg, prev, cred, asked, lost,
                   requests, crashes>>

\* Faulty variant: the exception skips the finally block.
FailLostEscapes(w) ==
    /\ DbFaults
    /\ pc[w] = "fail"
    /\ lost' = lost \cup {arg[w]}
    /\ Leave(w)
    /\ UNCHANGED <<marks, queue, session, status, alarm, prev, cred, asked,
                   requests, crashes>>

FailLost(w) ==
    /\ DbFaults
    /\ pc[w] = "fail"
    /\ lost' = lost \cup {arg[w]}
    /\ Goto(w, "clear")
    /\ UNCHANGED <<marks, queue, session, status, alarm, arg, prev, cred,
                   asked, requests, crashes>>

\* save_device_event("switch_unreachable"), whose errors are swallowed.
RaiseAlarm(w) ==
    /\ pc[w] = "alarm"
    /\ \/ /\ alarm' = [alarm EXCEPT ![arg[w]] = "unreachable"]
          /\ lost' = lost \ {arg[w]}
       \/ /\ DbFaults
          /\ lost' = lost \cup {arg[w]}
          /\ UNCHANGED alarm
    /\ Goto(w, "clear")
    /\ UNCHANGED <<marks, queue, session, status, arg, prev, cred, asked,
                   requests, crashes>>

\* The finally block: first the credential, then the mark.
Clear(w) ==
    /\ pc[w] = "clear"
    /\ Dispose(arg[w])
    /\ cred' = [cred EXCEPT ![w] = NoCred]
    /\ Goto(w, "release")
    /\ UNCHANGED <<marks, queue, status, alarm, arg, prev, asked, lost,
                   requests, crashes>>

Release(w) ==
    /\ pc[w] = "release"
    /\ Unmark(arg[w])
    /\ prev' = [prev EXCEPT ![w] = "none"]
    /\ Leave(w)
    /\ UNCHANGED <<queue, session, status, alarm, cred, lost, requests, crashes>>

-----------------------------------------------------------------------------
\* The process dies at any point and starts again.  Only the database is
\* left: init_collector starts with empty memory, reset_stale_collecting
\* turns 'collecting' rows into 'failed' (its errors are only logged).
Crash ==
    /\ crashes < MaxCrashes
    /\ crashes' = crashes + 1
    /\ marks' = {}
    /\ queue' = <<>>
    /\ session' = [s \in Switches |-> NoCred]
    /\ pc' = [t \in Threads |-> "idle"]
    /\ arg' = [t \in Threads |-> NoSwitch]
    /\ prev' = [w \in Workers |-> "none"]
    /\ cred' = [w \in Workers |-> NoCred]
    /\ \/ status' = [s \in Switches |->
                        IF status[s] = "collecting" THEN "failed" ELSE status[s]]
       \/ DbFaults /\ UNCHANGED status
    /\ lost' = lost \cup {s \in Switches : status[s] = "collecting" \/ Running(s)}
    /\ asked' = [s \in Switches |-> NoCred]
    /\ UNCHANGED <<alarm, requests>>

RequesterStep(r) ==
    Save(r) \/ Put(r) \/ PutFull(r) \/ AbortUnmark(r) \/ AbortDispose(r)

CancellerStep(c) ==
    \/ CancelPop(c) \/ CancelEnd(c) \/ CancelUnmark(c) \/ CancelClear(c)
    \/ CancelRead(c) \/ CancelReset(c)

WorkerStep(w) ==
    \/ Take(w) \/ Raise(w) \/ Begin(w) \/ MarkCollecting(w) \/ Load(w)
    \/ Device(w) \/ Finish(w) \/ Recover(w) \/ Fail(w)
    \/ FailLost(w) \/ RaiseAlarm(w) \/ Clear(w) \/ Release(w)

Next ==
    \/ \E r \in Requesters, s \in Switches : Accept(r, s) \/ Reject(r, s)
    \/ \E r \in Requesters : RequesterStep(r)
    \/ \E c \in Cancellers : CancelStart(c) \/ CancellerStep(c)
    \/ \E w \in Workers : WorkerStep(w)
    \/ Crash

Spec == Init /\ [][Next]_vars

\* A thread that is inside a call goes on: the scheduler of the interpreter
\* runs every runnable thread, and the hard timeout ends every SSH session.
\* Nothing obliges anyone to make a request, to stop one, or the process to
\* die.
Fairness ==
    /\ \A r \in Requesters : WF_vars(RequesterStep(r))
    /\ \A c \in Cancellers : WF_vars(CancellerStep(c))
    /\ \A w \in Workers : WF_vars(WorkerStep(w))

FairSpec == Spec /\ Fairness

-----------------------------------------------------------------------------
(* Properties.                                                             *)

\* Every mark has someone who will release it: a requester still enqueuing,
\* a queue entry, a canceller about to unmark, or a worker.  A mark without
\* one is the permanent "already being collected" that the comment on
\* _worker_loop tells of.
MarksAreHeld ==
    \A s \in marks : Queued(s) \/ Held(s)

\* No switch is collected twice at once: what is queued or held is marked,
\* and no two queue entries and threads stand for the same switch.
SingleHolder ==
    /\ \A i \in 1..Len(queue) : queue[i] \in marks
    /\ \A t \in Threads : Holding(t) => arg[t] \in marks
    /\ \A i, j \in 1..Len(queue) : i # j => queue[i] # queue[j]
    /\ \A t, u \in Threads :
          Holding(t) /\ Holding(u) /\ t # u => arg[t] # arg[u]
    /\ \A i \in 1..Len(queue), t \in Threads : Holding(t) => queue[i] # arg[t]

\* The comment on maxsize: duplicate prevention keeps the queue shorter than
\* the number of registered switches, so with a maxsize of at least that many
\* a bulk request never meets "Queue is full".
NeverFull ==
    QueueMax >= Cardinality(Switches) =>
        \A r \in Requesters : pc[r] = "put" => Len(queue) < QueueMax

\* A worker logs in with the account of the request that was accepted for
\* its switch, never with that of a duplicate request or of an earlier job.
WorkerUsesItsOwnCredential ==
    \A w \in Workers : cred[w] # NoCred => cred[w] = asked[arg[w]]

\* A plaintext credential stays in the session store no longer than the job
\* it belongs to: once the mark is gone, a thread is about to remove it.
CredentialsDisposed ==
    \A s \in Switches : session[s] # NoCred =>
        \/ s \in marks
        \/ \E r \in Requesters : pc[r] = "dispose" /\ arg[r] = s
        \/ \E c \in Cancellers : pc[c] = "clear" /\ arg[c] = s

\* A switch shown as 'collecting' is being collected, unless the write that
\* should have ended it was lost.
CollectingIsAttended ==
    \A s \in Switches : status[s] = "collecting" => Running(s) \/ s \in lost

\* A switch left 'failed' has been announced as unreachable, unless the
\* announcement was lost: the transition test on prev_status skips no outage.
FailureAnnounced ==
    \A s \in Switches : status[s] = "failed" =>
        \/ alarm[s] = "unreachable"
        \/ s \in lost
        \/ \E w \in Workers : pc[w] = "alarm" /\ arg[w] = s

\* Every accepted job ends and frees its switch for the next one: worker
\* threads survive every exception and both finally and abort paths unmark.
MarksReleased == \A s \in Switches : s \in marks ~> s \notin marks

\* The job of a switch, by who has it.
JobOf(s) == IF Running(s) THEN "running"
            ELSE IF Queued(s) \/ Held(s) THEN "pending" ELSE "idle"

JobMap == [s \in Switches |-> JobOf(s)]

Flight == INSTANCE SingleFlight WITH job <- JobMap

\* The collector implements single-flight jobs: nothing is collected that was
\* not submitted, a second submission waits for the end of the first job, and
\* a stop request never takes a job away from its worker.
ImplementsSingleFlight == Flight!Spec

-----------------------------------------------------------------------------
(* What comments of the source say and the code does not keep.             *)

\* app.py, collect_switch_endpoint: "a duplicate request can never overwrite
\* or clear an active job's credential".  An active job is queued, or with a
\* worker that has not loaded its credential yet.
ActiveJobKeepsCredential ==
    \A s \in Switches :
        (Queued(s) \/ \E w \in Workers : arg[w] = s /\ pc[w] \in {"begin", "mark", "load"})
            => session[s] # NoCred

\* cancel_pending: a stop leaves the previous result of a switch in place.
StopKeepsResults ==
    [][\A s \in Switches :
          status[s] \in {"done", "failed"} => status'[s] # "new"]_vars
=============================================================================
