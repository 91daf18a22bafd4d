---------------------------- MODULE FacilityJobs ----------------------------
(***************************************************************************)
(* The threads that scan the bands of the facility network,                *)
(* core/facility.py: a manual scan visits one band, an automatic one       *)
(* (scheduler, scan-all) visits every remembered band in turn.  They share *)
(* _status["running"], _stop_requested and _worker, each read and written  *)
(* under _lock, but not in one section.                                    *)
(***************************************************************************)
EXTENDS Integers, FiniteSets

CONSTANTS
    ManualScans,        \* threads of start_collect_band
    AutoScans,          \* threads of run_auto_scan
    NoScan,             \* _worker when nobody is registered
    Bands,              \* number of remembered bands
    MaxScans            \* bound: scans started

ASSUME FacilityAssumption ==
    /\ NoScan \notin ManualScans \cup AutoScans
    /\ ManualScans \cap AutoScans = {}
    /\ Bands \in Nat /\ MaxScans \in Nat

VARIABLES
    scanning,           \* _status["running"]
    scanStop,           \* _stop_requested
    scanWorker,         \* _worker
    fpc,                \* where each thread is
    bandsLeft,          \* bands an automatic scan has not visited
    sweep,              \* how the sweep of its band ended
    stoppedResult,      \* the "stopped" of what collect_band returned
    heard,              \* history: threads asked to stop before the sweep of
                        \* their band ended
    autoReset,          \* history: of these, those an automatic start overheard
    robbed,             \* history: running was taken from a live scan
    scans

facVars == <<scanning, scanStop, scanWorker, fpc, bandsLeft, sweep, stoppedResult,
             heard, autoReset, robbed, scans>>

ScanThreads == ManualScans \cup AutoScans

\* collect_band: connection and VRF, the ping sweep, evaluation and
\* _apply_scan, the stop flag, running.
InBand == {"open", "sweep", "store", "consume"}

FacTypeOK ==
    /\ scanning \in BOOLEAN /\ scanStop \in BOOLEAN /\ robbed \in BOOLEAN
    /\ scanWorker \in ScanThreads \cup {NoScan}
    /\ fpc \in [ScanThreads -> InBand \cup
                   {"idle", "register", "launch", "release", "finally", "unregister",
                    "next", "claim", "returned", "end"}]
    /\ bandsLeft \in [AutoScans -> 0..Bands]
    /\ sweep \in [ScanThreads -> {"none", "complete", "partial", "stopped"}]
    /\ stoppedResult \in [ScanThreads -> BOOLEAN]
    /\ heard \subseteq ScanThreads /\ autoReset \subseteq ScanThreads
    /\ scans \in 0..MaxScans
    /\ \A t \in ScanThreads : fpc[t] = "idle" => sweep[t] = "none" /\ t \notin heard

FacInit ==
    /\ scanning = FALSE /\ scanStop = FALSE /\ scanWorker = NoScan
    /\ fpc = [t \in ScanThreads |-> "idle"]
    /\ bandsLeft = [a \in AutoScans |-> 0]
    /\ sweep = [t \in ScanThreads |-> "none"]
    /\ stoppedResult = [t \in ScanThreads |-> FALSE]
    /\ heard = {} /\ autoReset = {} /\ robbed = FALSE
    /\ scans = 0

Goes(t, from, to) == fpc[t] = from /\ fpc' = [fpc EXCEPT ![t] = to]

\* is_alive(): a thread that is not started yet is not alive.
Alive(t) == fpc[t] \notin {"idle", "register", "launch"}

\* A scan that counts on running being set.
Claimed(t) == fpc[t] \in InBand \cup {"register", "launch"}

Reapable == scanning /\ scanWorker # NoScan /\ ~Alive(scanWorker)

\* Resetting running while a thread other than t owns it.  To _reap_dead_worker
\* a thread that is registered and not yet started looks dead.
Robs(t) == robbed' = (robbed \/ \E o \in ScanThreads \ {t} : Claimed(o) \/ fpc[o] = "release")

BandEnds(t) ==
    /\ sweep' = [sweep EXCEPT ![t] = "none"]
    /\ stoppedResult' = [stoppedResult EXCEPT ![t] = FALSE]
    /\ heard' = heard \ {t}
    /\ autoReset' = autoReset \ {t}

threadVars == <<bandsLeft, sweep, stoppedResult, heard, autoReset>>

-----------------------------------------------------------------------------
(* start_collect_band, request_stop and the polls.                         *)

\* Faulty variant: a stop request of the scan before is left standing.
StartScanKeepsStop(t) ==
    /\ scans < MaxScans /\ scans' = scans + 1
    /\ ~scanning /\ Goes(t, "idle", "register")
    /\ scanning' = TRUE
    /\ UNCHANGED <<scanStop, scanWorker, threadVars, robbed>>

\* One section under _lock; a request that finds running set is refused.
StartScan(t) ==
    /\ scans < MaxScans /\ scans' = scans + 1
    /\ Goes(t, "idle", "register")
    /\ \/ ~scanning /\ UNCHANGED <<scanWorker, robbed>>
       \/ Reapable /\ scanWorker' = NoScan /\ Robs(t)
    /\ scanning' = TRUE /\ scanStop' = FALSE
    /\ UNCHANGED threadVars

Register(t) ==
    /\ Goes(t, "register", "launch")
    /\ scanWorker' = t
    /\ UNCHANGED <<scanning, scanStop, threadVars, robbed, scans>>

\* t.start(), which may raise: the registered thread then never lives.
Launch(t) ==
    /\ \/ Goes(t, "launch", "open") /\ UNCHANGED threadVars
       \/ Goes(t, "launch", "idle") /\ BandEnds(t) /\ UNCHANGED bandsLeft
    /\ UNCHANGED <<scanning, scanStop, scanWorker, robbed, scans>>

\* get_status by a poll or by the monitor loop.
Poll ==
    /\ Reapable
    /\ scanWorker' = NoScan /\ scanning' = FALSE /\ Robs(NoScan)
    /\ UNCHANGED <<scanStop, fpc, threadVars, scans>>

\* request_stop; refused when nothing runs.
ScanStop ==
    /\ scanning /\ ~scanStop
    /\ scanStop' = TRUE
    /\ heard' = heard \cup {t \in ScanThreads : fpc[t] \in {"register", "launch", "open", "sweep"}}
    /\ UNCHANGED <<scanning, scanWorker, fpc, bandsLeft, sweep, stoppedResult, autoReset,
                   robbed, scans>>

-----------------------------------------------------------------------------
(* collect_band.                                                           *)

\* It sets running itself; the switch, the parser or the connection may raise.
Open(t) ==
    /\ Goes(t, "open", "sweep") \/ Goes(t, "open", "release")
    /\ scanning' = TRUE
    /\ sweep' = [sweep EXCEPT ![t] = "none"]
    /\ UNCHANGED <<scanStop, scanWorker, bandsLeft, stoppedResult, heard, autoReset, robbed, scans>>

\* The flag is read before every ping, so a complete sweep has seen it unset;
\* a session that cannot be resumed ends the sweep without a look at it.
Sweep(t) ==
    /\ \/ /\ Goes(t, "sweep", "store")
          /\ \E how \in {IF scanStop THEN "stopped" ELSE "complete", "partial"} :
                sweep' = [sweep EXCEPT ![t] = how]
       \/ Goes(t, "sweep", "release") /\ UNCHANGED sweep
    /\ UNCHANGED <<scanning, scanStop, scanWorker, bandsLeft, stoppedResult, heard, autoReset,
                   robbed, scans>>

\* _apply_scan stores the evidence and the result tells of a stop; a sweep
\* without any ARP entry stores nothing and returns "stopped": False.
Store(t) ==
    /\ \/ /\ Goes(t, "store", "consume")
          /\ \E told \in {FALSE, sweep[t] = "stopped"} :
                stoppedResult' = [stoppedResult EXCEPT ![t] = told]
       \/ Goes(t, "store", "release") /\ UNCHANGED stoppedResult
    /\ UNCHANGED <<scanning, scanStop, scanWorker, bandsLeft, sweep, heard, autoReset, robbed, scans>>

Consume(t) ==
    /\ Goes(t, "consume", "release")
    /\ scanStop' = FALSE
    /\ UNCHANGED <<scanning, scanWorker, threadVars, robbed, scans>>

\* _set(running=False) at the end of collect_band or in the except block.
Release(t) ==
    /\ \/ t \in ManualScans /\ Goes(t, "release", "finally")
       \/ t \in AutoScans /\ Goes(t, "release", "returned")
    /\ scanning' = FALSE
    /\ UNCHANGED <<scanStop, scanWorker, threadVars, robbed, scans>>

\* The finally block of a manual scan resets running a second time: by then it
\* may be that of an automatic scan or of a second manual one.
Finally(t) ==
    /\ Goes(t, "finally", "unregister")
    /\ scanning' = FALSE
    /\ Robs(t)
    /\ UNCHANGED <<scanStop, scanWorker, threadVars, scans>>

Unregister(t) ==
    /\ Goes(t, "unregister", "idle")
    /\ scanWorker' = IF scanWorker = t THEN NoScan ELSE scanWorker
    /\ BandEnds(t)
    /\ UNCHANGED <<scanning, scanStop, bandsLeft, robbed, scans>>

-----------------------------------------------------------------------------
(* run_auto_scan.                                                          *)

\* The stop flag is reset whoever is scanning.  Two of them may run: the
\* endpoint looks at running, which is unset between two bands.
AutoStart(t) ==
    /\ scans < MaxScans /\ scans' = scans + 1
    /\ Goes(t, "idle", "next")
    /\ scanStop' = FALSE
    /\ autoReset' = autoReset \cup (heard \ {t})
    /\ bandsLeft' = [bandsLeft EXCEPT ![t] = Bands]
    /\ UNCHANGED <<scanning, scanWorker, sweep, stoppedResult, heard, robbed>>

\* While a scan runs the thread waits, for 30 minutes at most, and then goes on
\* all the same; a band without a stored account is passed over.
AutoNext(t) ==
    /\ \/ (scanStop \/ bandsLeft[t] = 0) /\ Goes(t, "next", "end") /\ UNCHANGED bandsLeft
       \/ /\ ~scanStop /\ bandsLeft[t] > 0
          /\ Goes(t, "next", "claim") \/ Goes(t, "next", "next")
          /\ bandsLeft' = [bandsLeft EXCEPT ![t] = @ - 1]
    /\ UNCHANGED <<scanning, scanStop, scanWorker, sweep, stoppedResult, heard, autoReset,
                   robbed, scans>>

\* The stored account is read outside any try: the thread dies and stays
\* registered, until a poll finds running set by a later scan and frees it.
AutoDies(t) ==
    /\ bandsLeft[t] > 0 /\ Goes(t, "next", "idle")
    /\ BandEnds(t)
    /\ bandsLeft' = [bandsLeft EXCEPT ![t] = 0]
    /\ UNCHANGED <<scanning, scanStop, scanWorker, robbed, scans>>

\* One section under _lock: reap, look, claim and register.
AutoClaim(t) ==
    /\ \/ /\ scanning /\ ~Reapable
          /\ Goes(t, "claim", "next")
          /\ UNCHANGED <<scanning, scanWorker, robbed>>
       \/ /\ ~scanning \/ Reapable
          /\ Goes(t, "claim", "open")
          /\ scanning' = TRUE /\ scanWorker' = t
          /\ IF Reapable THEN Robs(t) ELSE UNCHANGED robbed
    /\ BandEnds(t)
    /\ UNCHANGED <<scanStop, bandsLeft, scans>>

\* A band that was stopped ends the whole scan; one that raised does not.
AutoReturned(t) ==
    /\ Goes(t, "returned", IF stoppedResult[t] THEN "end" ELSE "next")
    /\ UNCHANGED <<scanning, scanStop, scanWorker, threadVars, robbed, scans>>

AutoEnd(t) ==
    /\ Goes(t, "end", "idle")
    /\ scanWorker' = IF scanWorker = t THEN NoScan ELSE scanWorker
    /\ BandEnds(t)
    /\ bandsLeft' = [bandsLeft EXCEPT ![t] = 0]
    /\ UNCHANGED <<scanning, scanStop, robbed, scans>>

-----------------------------------------------------------------------------
ScanStep(t) ==
    \/ Register(t) \/ Launch(t) \/ Open(t) \/ Sweep(t) \/ Store(t) \/ Consume(t)
    \/ Release(t) \/ Finally(t) \/ Unregister(t)

AutoStep(t) == AutoNext(t) \/ AutoDies(t) \/ AutoClaim(t) \/ AutoReturned(t) \/ AutoEnd(t)

FacNext ==
    \/ \E t \in ManualScans : StartScan(t)
    \/ \E t \in AutoScans : AutoStart(t) \/ AutoStep(t)
    \/ \E t \in ScanThreads : ScanStep(t)
    \/ Poll \/ ScanStop

FacSpec == FacInit /\ [][FacNext]_facVars

\* Pings and connections have time limits; the monitor loop asks for the
\* status every minute.
FacFairness ==
    /\ \A t \in ScanThreads : WF_facVars(ScanStep(t))
    /\ \A t \in AutoScans : WF_facVars(AutoStep(t))
    /\ WF_facVars(Poll)

-----------------------------------------------------------------------------
(* Properties.                                                             *)

\* Two bands are never swept at once, unless running was taken from a live
\* scan: by a poll that found the worker on record dead or not yet started
\* while another scan was being claimed, or by the second reset of a manual
\* scan.  No other step may do that.
OneScanAtATime ==
    robbed \/ \A t, u \in ScanThreads : Claimed(t) /\ Claimed(u) => t = u

\* Whenever running is set there is somebody to reset it: the thread that
\* claimed it, or a registered dead one whose flag every poll frees.  A flag
\* without an owner would refuse scans until a restart.
RunningHasAnOwner ==
    scanning => Reapable \/ \E t \in ScanThreads : Claimed(t) \/ fpc[t] \in {"release", "finally"}

\* A stop that was accepted while a band was swept ends that sweep, however
\* early it came; only the start of an automatic scan, or a scan that robbed
\* it of running, can make it unheard.
AcceptedStopEndsSweep ==
    \A t \in heard \ autoReset :
        robbed \/ (fpc[t] \in {"store", "consume"} => sweep[t] # "complete")

\* The sweep of a manual scan is stopped by a request made for that scan, and
\* never by the flag that an earlier scan left, also not when that one raised
\* before it could take the flag back.  (An automatic scan looks at the flag
\* between its bands too, and obeys a request of that time.)
NoStopIsLeftOver ==
    [][\A t \in ManualScans :
          fpc[t] = "sweep" /\ sweep'[t] = "stopped" => t \in heard]_facVars

\* Every scan ends, and running with it, even when its thread could not start.
ScanEnds == scanning ~> ~scanning

\* What the comment in run_auto_scan says of a stop request: an automatic scan
\* that was stopped while it swept a band sweeps no further band.
StoppedAutoScanEnds ==
    [][\A a \in AutoScans :
          a \in heard \ autoReset /\ ~robbed /\ fpc[a] = "claim" => fpc'[a] # "open"]_facVars

\* One scan at a time, with an owner, and stopped by nothing but a request
\* made for it.
ScanSafety ==
    /\ [](/\ OneScanAtATime /\ RunningHasAnOwner /\ AcceptedStopEndsSweep)
    /\ NoStopIsLeftOver
=============================================================================
