---------------------------- MODULE InstanceLock ----------------------------
(***************************************************************************)
(* One writer per database: core/instance_lock.py and the places of app.py *)
(* that use it.  NetDash runs on several PCs on one shared folder.  The    *)
(* first takes an operating system lock on netdash_server.lock and serves; *)
(* the others start read-only and try the lock every few seconds, to take  *)
(* over when the first one ends.                                           *)
(*                                                                         *)
(* An action is one file operation or one assignment other threads or      *)
(* other PCs can see.  Files on the share may fail to open or be written.  *)
(***************************************************************************)
EXTENDS Naturals, FiniteSets

CONSTANTS
    Hosts,
    MaxLaunches,    \* bound: process starts in a behaviour
    MaxFaults,      \* bound: failures of the share or of the start-up
    None

ASSUME InstanceAssumption ==
    /\ None \notin Hosts
    /\ MaxLaunches \in Nat
    /\ MaxFaults \in Nat

VARIABLES
    holder,         \* whose byte of the lock file is locked
    info,           \* whose name is in netdash_server.info
    pc,             \* the main thread of a process, then its watcher
    READONLY,       \* db.READONLY: connections are opened query_only
    IS_READONLY,    \* app.config: write requests are refused
    services,       \* workers, scheduler and pollers run
    unlocked,       \* history: served although the lock could not be opened
    launches, faults

vars == <<holder, info, pc, READONLY, IS_READONLY, services, unlocked,
          launches, faults>>

Pc == {"off",
       "acquire", "name", "start",          \* main: lock, info file, create_app
       "serving",
       "watch", "rename", "promote", "begin",   \* watcher of a read-only process
       "giveup", "unname", "back",          \* promotion failed
       "exit", "erase", "end"}              \* atexit: release, then the end

TypeOK ==
    /\ holder \in Hosts \cup {None}
    /\ info \in Hosts \cup {None}
    /\ pc \in [Hosts -> Pc]
    /\ READONLY \in [Hosts -> BOOLEAN]
    /\ IS_READONLY \in [Hosts -> BOOLEAN]
    /\ services \in [Hosts -> BOOLEAN]
    /\ unlocked \in [Hosts -> BOOLEAN]
    /\ launches \in 0..MaxLaunches
    /\ faults \in 0..MaxFaults

Init ==
    /\ holder = None
    /\ info = None
    /\ pc = [h \in Hosts |-> "off"]
    /\ READONLY = [h \in Hosts |-> FALSE]
    /\ IS_READONLY = [h \in Hosts |-> FALSE]
    /\ services = [h \in Hosts |-> FALSE]
    /\ unlocked = [h \in Hosts |-> FALSE]
    /\ launches = 0
    /\ faults = 0

Goto(h, label) == pc' = [pc EXCEPT ![h] = label]

Fault ==
    /\ faults < MaxFaults
    /\ faults' = faults + 1

-----------------------------------------------------------------------------
(* acquire: the three outcomes of the attempt.                             *)

\* open() of the lock file raises.
OpenFails == Fault /\ UNCHANGED holder

\* The byte is locked by another process.
Blocked == holder # None /\ UNCHANGED <<holder, faults>>

Locks(h) == holder = None /\ holder' = h /\ UNCHANGED faults

\* Faulty variant: what a torn write leaves behind is taken for a name.
WriteInfoTorn(h) == info' \in {h, "torn"} /\ UNCHANGED faults

\* The info file is written after the lock is taken; an error is ignored and
\* leaves the old file or one that read_info cannot parse.
WriteInfo(h) ==
    \/ info' = h /\ UNCHANGED faults
    \/ Fault /\ info' \in {info, None}

-----------------------------------------------------------------------------
(* The main thread.                                                        *)

Launch(h) ==
    /\ pc[h] = "off"
    /\ launches < MaxLaunches
    /\ launches' = launches + 1
    /\ Goto(h, "acquire")
    /\ UNCHANGED <<holder, info, READONLY, IS_READONLY, services, unlocked, faults>>

\* At the start an unreadable lock file does not keep the server from serving.
Acquire(h) ==
    /\ pc[h] = "acquire"
    /\ \/ /\ OpenFails
          /\ unlocked' = [unlocked EXCEPT ![h] = TRUE]
          /\ Goto(h, "start")
          /\ UNCHANGED <<READONLY, IS_READONLY>>
       \/ /\ Locks(h)
          /\ Goto(h, "name")
          /\ UNCHANGED <<READONLY, IS_READONLY, unlocked>>
       \/ /\ Blocked
          /\ IS_READONLY' = [IS_READONLY EXCEPT ![h] = TRUE]
          /\ READONLY' = [READONLY EXCEPT ![h] = TRUE]
          /\ Goto(h, "watch")
          /\ UNCHANGED unlocked
    /\ UNCHANGED <<info, services, launches>>

Name(h) ==
    /\ pc[h] \in {"name", "rename"}
    /\ WriteInfo(h)
    /\ Goto(h, IF pc[h] = "name" THEN "start" ELSE "promote")
    /\ UNCHANGED <<holder, READONLY, IS_READONLY, services, unlocked, launches>>

\* _start_primary_services: the schema is brought up to date first and what
\* fails there ends the process; every later part is allowed to fail alone.
Start(h) ==
    /\ pc[h] = "start"
    /\ \/ /\ services' = [services EXCEPT ![h] = TRUE]
          /\ Goto(h, "serving")
          /\ UNCHANGED faults
       \/ /\ Fault
          /\ Goto(h, "exit")
          /\ UNCHANGED services
    /\ UNCHANGED <<holder, info, READONLY, IS_READONLY, unlocked, launches>>

-----------------------------------------------------------------------------
(* _watch_and_promote, the watcher of a read-only instance.                *)

\* Faulty variant: an unreadable lock file counts as taken, as at the start.
WatchUnlocked(h) ==
    /\ pc[h] = "watch"
    /\ \/ OpenFails /\ Goto(h, "begin")
       \/ Blocked /\ UNCHANGED pc
       \/ Locks(h) /\ Goto(h, "rename")
    /\ UNCHANGED <<info, READONLY, IS_READONLY, services, unlocked, launches>>

\* acquire(allow_unlocked=False) every PROMOTE_POLL_SEC.
Watch(h) ==
    /\ pc[h] = "watch"
    /\ \/ OpenFails /\ UNCHANGED pc
       \/ Blocked /\ UNCHANGED pc
       \/ Locks(h) /\ Goto(h, "rename")
    /\ UNCHANGED <<info, READONLY, IS_READONLY, services, unlocked, launches>>

\* _promote_to_primary: new connections may write.
Promote(h) ==
    /\ pc[h] = "promote"
    /\ READONLY' = [READONLY EXCEPT ![h] = FALSE]
    /\ Goto(h, "begin")
    /\ UNCHANGED <<holder, info, IS_READONLY, services, unlocked, launches, faults>>

\* Faulty variant: a failed promotion goes back to watching with the lock.
BeginKeepsLock(h) ==
    /\ pc[h] = "begin"
    /\ \/ /\ services' = [services EXCEPT ![h] = TRUE]
          /\ IS_READONLY' = [IS_READONLY EXCEPT ![h] = FALSE]
          /\ Goto(h, "serving")
          /\ UNCHANGED faults
       \/ /\ Fault
          /\ Goto(h, "watch")
          /\ UNCHANGED <<services, IS_READONLY>>
    /\ UNCHANGED <<holder, info, READONLY, unlocked, launches>>

\* Faulty variant: write requests are let in before the schema is ready.
BeginOpensFirst(h) ==
    /\ pc[h] = "begin"
    /\ IS_READONLY' = [IS_READONLY EXCEPT ![h] = FALSE]
    /\ \/ /\ services' = [services EXCEPT ![h] = TRUE]
          /\ Goto(h, "serving")
          /\ UNCHANGED faults
       \/ /\ Fault
          /\ Goto(h, "giveup")
          /\ UNCHANGED services
    /\ UNCHANGED <<holder, info, READONLY, unlocked, launches>>

\* The services, then the gate for write requests.
Begin(h) ==
    /\ pc[h] = "begin"
    /\ \/ /\ services' = [services EXCEPT ![h] = TRUE]
          /\ IS_READONLY' = [IS_READONLY EXCEPT ![h] = FALSE]
          /\ Goto(h, "serving")
          /\ UNCHANGED faults
       \/ /\ Fault
          /\ Goto(h, "giveup")
          /\ UNCHANGED <<services, IS_READONLY>>
    /\ UNCHANGED <<holder, info, READONLY, unlocked, launches>>

-----------------------------------------------------------------------------
(* release: first the lock, then the info file.  A failed promotion goes   *)
(* back to watching; atexit runs it before the daemon threads stop.        *)

Unlock(h) ==
    /\ pc[h] \in {"giveup", "exit"}
    /\ holder' = IF holder = h THEN None ELSE holder
    /\ Goto(h, IF pc[h] = "giveup" THEN "unname"
               ELSE IF holder = h THEN "erase" ELSE "end")
    /\ UNCHANGED <<info, READONLY, IS_READONLY, services, unlocked, launches, faults>>

EraseInfo(h) ==
    /\ pc[h] \in {"unname", "erase"}
    /\ \/ info' = None /\ UNCHANGED faults
       \/ Fault /\ UNCHANGED info
    /\ Goto(h, IF pc[h] = "unname" THEN "back" ELSE "end")
    /\ UNCHANGED <<holder, READONLY, IS_READONLY, services, unlocked, launches>>

Back(h) ==
    /\ pc[h] = "back"
    /\ IS_READONLY' = [IS_READONLY EXCEPT ![h] = TRUE]
    /\ READONLY' = [READONLY EXCEPT ![h] = TRUE]
    /\ Goto(h, "watch")
    /\ UNCHANGED <<holder, info, services, unlocked, launches, faults>>

\* The process is told to end.
Exit(h) ==
    /\ pc[h] \in {"serving", "watch"}
    /\ Goto(h, "exit")
    /\ UNCHANGED <<holder, info, READONLY, IS_READONLY, services, unlocked,
                   launches, faults>>

\* The process is gone: the operating system frees its lock.
Gone(h) ==
    /\ Goto(h, "off")
    /\ holder' = IF holder = h THEN None ELSE holder
    /\ READONLY' = [READONLY EXCEPT ![h] = FALSE]
    /\ IS_READONLY' = [IS_READONLY EXCEPT ![h] = FALSE]
    /\ services' = [services EXCEPT ![h] = FALSE]
    /\ unlocked' = [unlocked EXCEPT ![h] = FALSE]
    /\ UNCHANGED <<info, launches, faults>>

End(h) == pc[h] = "end" /\ Gone(h)

Crash(h) == pc[h] # "off" /\ Gone(h)

-----------------------------------------------------------------------------
Step(h) ==
    \/ Acquire(h) \/ Name(h) \/ Start(h)
    \/ Watch(h) \/ Promote(h) \/ Begin(h)
    \/ Unlock(h) \/ EraseInfo(h) \/ Back(h) \/ End(h)

Next == \E h \in Hosts : Launch(h) \/ Step(h) \/ Exit(h) \/ Crash(h)

Spec == Init /\ [][Next]_vars

\* A process that runs goes on; nobody has to start, stop or crash one.
FairSpec == Spec /\ \A h \in Hosts : WF_vars(Step(h))

-----------------------------------------------------------------------------
(* Properties.                                                             *)

Exiting(h) == pc[h] \in {"exit", "erase", "end"}

\* Two instances write to the database only if one of them had to start
\* without the lock file or is on its way out.
OneServer ==
    \A g, h \in Hosts : g # h /\ services[g] /\ services[h] =>
        \E k \in {g, h} : unlocked[k] \/ Exiting(k)

\* Write requests are let in only where the lock is held and the services
\* run: read-only instances and failed promotions keep the gate closed.
GateFollowsLock ==
    \A h \in Hosts :
        pc[h] \notin {"off", "acquire", "name", "start"} /\ ~IS_READONLY[h] =>
            \/ holder = h /\ services[h]
            \/ unlocked[h]
            \/ Exiting(h)

\* When the server is gone and a read-only instance watches, somebody gets the
\* lock: no failed promotion takes it to a process that does nothing with it.
Takeover ==
    \A h \in Hosts :
        holder = None /\ pc[h] = "watch" ~>
            \/ \E k \in Hosts : services[k]
            \/ pc[h] # "watch"

-----------------------------------------------------------------------------
(* What a comment of the source says and the code does not keep.           *)

\* instance_lock.py: the server keeps the exclusive lock for the lifetime of
\* the process.
LockForLife ==
    \A h \in Hosts : services[h] /\ ~unlocked[h] => holder = h
=============================================================================
