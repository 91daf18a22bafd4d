--------------------------- MODULE FacilityMonitor ---------------------------
(***************************************************************************)
(* monitor_known_hosts: every minute the hosts of the table are judged by  *)
(* the MAC tables of the switches alone.  A host goes offline when its MAC *)
(* is missing under two generations of the tables; the same generation     *)
(* seen again is no news.  One host, several switches; the collections of  *)
(* the switches store their tables while the monitor reads.                *)
(***************************************************************************)
EXTENDS Integers, FiniteSets

CONSTANTS
    Switches,
    MaxSnapshots            \* bound: collections that store a snapshot

ASSUME MonitorAssumption == MaxSnapshots \in Nat

VARIABLES
    newest,                 \* newest snapshot of each switch
    withMacs,               \* newest snapshot of each switch that has MACs
    holds,                  \* is the host's MAC in that snapshot
    shown,                  \* the host's row: gone, on or off
    missed,                 \* _miss_counts: times and last generation
    poll,                   \* the monitor: where it is and what it read
    lacking,                \* history: generations read since the MAC was
                            \* last seen, all without it
    doubtful                \* history: the generation was not the one of the
                            \* map, or could not be read

monitorVars == <<newest, withMacs, holds, shown, missed, poll, lacking, doubtful>>

MISS_THRESHOLD == 2

Generations == [Switches -> 0..MaxSnapshots]
Unread == [s \in Switches |-> -1]       \* (), what a failed query yields
NoMiss == [n |-> 0, of |-> [s \in Switches |-> -2]]
Resting == [at |-> "idle", alive |-> FALSE, under |-> Unread, row |-> "gone"]

MonitorTypeOK ==
    /\ newest \in Generations /\ withMacs \in Generations
    /\ \A s \in Switches : withMacs[s] <= newest[s]
    /\ holds \in [Switches -> BOOLEAN]
    /\ shown \in {"gone", "on", "off"}
    /\ missed = NoMiss \/ missed.n \in 1..MISS_THRESHOLD - 1
    /\ poll.at \in {"idle", "hosts", "judge"} /\ poll.row \in {"gone", "on", "off"}
    /\ lacking \subseteq Generations
    /\ doubtful \in BOOLEAN

MonitorInit ==
    /\ newest = [s \in Switches |-> 0] /\ withMacs = newest
    /\ holds = [s \in Switches |-> FALSE]
    /\ shown = "on"
    /\ missed = NoMiss
    /\ poll = Resting
    /\ lacking = {} /\ doubtful = FALSE

\* A collection stores its snapshot; one whose MAC command failed has none.
StoreSnapshot(s) ==
    /\ \A r \in Switches : newest[r] < MaxSnapshots
    /\ LET id == 1 + newest[CHOOSE r \in Switches : \A q \in Switches : newest[q] <= newest[r]]
       IN newest' = [newest EXCEPT ![s] = id]
    /\ \/ /\ withMacs' = [withMacs EXCEPT ![s] = newest'[s]]
          /\ \E has \in BOOLEAN : holds' = [holds EXCEPT ![s] = has]
       \/ UNCHANGED <<withMacs, holds>>
    /\ UNCHANGED <<shown, missed, poll, lacking, doubtful>>

Recorded == {s \in Switches : withMacs[s] > 0}

\* get_mac_to_switchport: per switch the newest snapshot that has MACs.
MacsOf == Recorded

\* running is looked at, then the tables are read; without any MAC nothing
\* is judged.
ReadMacs ==
    /\ poll.at = "idle"
    /\ Recorded # {}
    /\ poll' = [poll EXCEPT !.at = "hosts", !.under = withMacs,
                            !.alive = \E s \in MacsOf : holds[s]]
    /\ lacking' = IF \E s \in Recorded : holds[s] THEN {} ELSE lacking \cup {withMacs}
    /\ UNCHANGED <<newest, withMacs, holds, shown, missed, doubtful>>

ReadHosts ==
    /\ poll.at = "hosts"
    /\ poll' = [poll EXCEPT !.at = "judge", !.row = shown]
    /\ UNCHANGED <<newest, withMacs, holds, shown, missed, lacking, doubtful>>

\* Faulty variant: every poll counts.
CountMissEachPoll(generation) == [n |-> missed.n + 1, of |-> generation]

CountMiss(generation) ==
    IF missed.of = generation THEN missed ELSE [n |-> missed.n + 1, of |-> generation]

\* What is left of the count of a host that is alive.
AfterSeen(row) == NoMiss

AfterLoss(counted) == NoMiss

\* The generation is read, the host judged, its subnet saved if it changed
\* (a failed save is logged) and the counters of hosts that are gone dropped.
Judge ==
    /\ poll.at = "judge"
    /\ \E generation \in {withMacs, Unread} :
          LET counted == CountMiss(generation)
              off == counted.n >= MISS_THRESHOLD
          IN
          IF poll.row = "gone" THEN missed' = NoMiss /\ UNCHANGED <<shown, doubtful>>
          ELSE IF poll.alive
          THEN /\ missed' = AfterSeen(poll.row)
               /\ doubtful' = FALSE
               /\ \/ poll.row = "off" /\ shown' = "on"
                  \/ UNCHANGED shown
          ELSE IF poll.row = "on"
          THEN /\ missed' = IF off THEN AfterLoss(counted) ELSE counted
               /\ doubtful' = (doubtful \/ generation # poll.under)
               /\ \/ off /\ shown' = "off"
                  \/ UNCHANGED shown
          ELSE UNCHANGED <<missed, shown, doubtful>>
    /\ lacking' = IF poll.row = "gone" \/ shown' # shown THEN {} ELSE lacking
    /\ poll' = Resting
    /\ UNCHANGED <<newest, withMacs, holds>>

\* A band scan or a recheck finds the host; a user deletes it.
HostAnswers ==
    /\ poll.at = "idle"
    /\ shown' = "on"
    /\ UNCHANGED <<newest, withMacs, holds, missed, poll, lacking, doubtful>>

HostDeleted ==
    /\ shown' = "gone"
    /\ UNCHANGED <<newest, withMacs, holds, missed, poll, lacking, doubtful>>

MonitorNext ==
    \/ \E s \in Switches : StoreSnapshot(s)
    \/ ReadMacs \/ ReadHosts \/ Judge \/ HostAnswers \/ HostDeleted

MonitorSpec == MonitorInit /\ [][MonitorNext]_monitorVars

-----------------------------------------------------------------------------
(* Properties.                                                             *)

\* A silent host is not reported lost because the same tables were looked at
\* twice, nor because a collection could not read any MAC: it goes offline
\* when two different generations lacked its MAC and none in between had it.
\* The exception is a generation that was stored between the reading of the
\* tables and that of the generation, or that could not be read.
LossNeedsTwoGenerations ==
    [][shown = "on" /\ shown' = "off" => Cardinality(lacking) >= MISS_THRESHOLD \/ doubtful']_monitorVars

\* The misses on record are consecutive: a host whose MAC was seen in the last
\* tables that were judged has none.
MissesAreConsecutive ==
    poll.at = "idle" /\ lacking = {} => missed = NoMiss

\* A host is lost on two pieces of news, each another one.
MonitorSafety ==
    /\ [](/\ MissesAreConsecutive)
    /\ LossNeedsTwoGenerations
=============================================================================
