--------------------------- MODULE StatusMonitor ----------------------------
(***************************************************************************)
(* The two sweeps of core/status_monitor.py: hosts by ping, ports of       *)
(* switches by SNMP.                                                       *)
(***************************************************************************)
EXTENDS Integers, Sequences, FiniteSets

-----------------------------------------------------------------------------
(***************************************************************************)
(* check_facility: every few minutes all hosts of the table are pinged. A  *)
(* host is online again at the first answer and offline after two polls    *)
(* without one; a band whose hosts are all silent at once is not judged,   *)
(* since this PC cannot reach it. Scans and users change the table while   *)
(* the pings run.                                                          *)
(***************************************************************************)
CONSTANTS
    HostRows,               \* <<subnet, ip>> of the table, in its order
    BandGuard,              \* online hosts from which a silent band is skipped
    MaxPolls                \* bound: polls begun

ASSUME StatusAssumption ==
    HostRows \in Seq(Nat \X Nat) /\ BandGuard \in Nat \ {0} /\ MaxPolls \in Nat

VARIABLES
    table,                  \* online of each row
    silences,               \* _miss: polls without answer, by ip
    pinged,                 \* the poll: the rows as read
    polls,
    unanswered,             \* history: polls without answer of an ip that was
                            \* online, since one was answered or not judged
    outages                 \* history: rows the last poll took offline

statusVars == <<table, silences, pinged, polls, unanswered, outages>>

MISSES == 2                 \* MISS_THRESHOLD

RowIndex == DOMAIN HostRows
BandIn(i) == HostRows[i][1]
IpIn(i) == HostRows[i][2]
Ips == {IpIn(i) : i \in RowIndex}
BandsIn == {BandIn(i) : i \in RowIndex}
NotPolling == <<>>

StatusTypeOK ==
    /\ table \in [RowIndex -> BOOLEAN]
    /\ silences \in [Ips -> 0..MISSES - 1]
    /\ pinged = NotPolling \/ pinged \in [RowIndex -> BOOLEAN]
    /\ polls \in 0..MaxPolls
    /\ outages \subseteq RowIndex

StatusInit ==
    /\ table = [i \in RowIndex |-> TRUE]
    /\ silences = [p \in Ips |-> 0]
    /\ pinged = NotPolling /\ polls = 0
    /\ unanswered = [p \in Ips |-> 0] /\ outages = {}

PollBegin ==
    /\ pinged = NotPolling /\ polls < MaxPolls
    /\ pinged' = table
    /\ polls' = polls + 1
    /\ UNCHANGED <<table, silences, unanswered, outages>>

OnlineRows(b) == {i \in RowIndex : BandIn(i) = b /\ pinged[i]}

Skipped(b, alive) ==
    Cardinality(OnlineRows(b)) >= BandGuard /\ \A i \in OnlineRows(b) : IpIn(i) \notin alive

AfterSkip(n) == 0

AfterOutage(n) == 0

\* One row: what is counted for its address and what becomes of the row.
JudgeRow(acc, i, alive) ==
    LET p == IpIn(i)
        n == acc.silences[p]
    IN
    IF Skipped(BandIn(i), alive) THEN [acc EXCEPT !.silences[p] = AfterSkip(n)]
    ELSE IF p \in alive
    THEN [acc EXCEPT !.silences[p] = 0, !.table[i] = IF pinged[i] THEN @ ELSE TRUE]
    ELSE IF ~pinged[i] THEN acc
    ELSE IF n + 1 < MISSES THEN [acc EXCEPT !.silences[p] = n + 1]
    ELSE [acc EXCEPT !.silences[p] = AfterOutage(n + 1), !.table[i] = FALSE, !.outages = @ \cup {i}]

\* The rows in their order, each after the ones before it.
Judged(alive) ==
    LET after[n \in 0..Len(HostRows)] ==
          IF n = 0 THEN [silences |-> silences, table |-> table, outages |-> {}]
          ELSE JudgeRow(after[n - 1], n, alive)
    IN  after[Len(HostRows)]

PollEnd ==
    /\ pinged # NotPolling
    /\ \E alive \in SUBSET Ips :
          LET judged == Judged(alive) IN
          /\ silences' = judged.silences /\ table' = judged.table /\ outages' = judged.outages
          /\ unanswered' = [p \in Ips |->
                IF p \in alive \/ \E i \in RowIndex : IpIn(i) = p /\ Skipped(BandIn(i), alive)
                THEN 0
                ELSE IF unanswered[p] < MISSES /\ \E i \in RowIndex : IpIn(i) = p /\ pinged[i]
                THEN unanswered[p] + 1 ELSE unanswered[p]]
    /\ pinged' = NotPolling
    /\ UNCHANGED polls

\* A scan or the MAC monitor writes the row.
RowChanges(i) ==
    /\ pinged # NotPolling
    /\ table' = [table EXCEPT ![i] = ~@]
    /\ UNCHANGED <<silences, pinged, polls, unanswered, outages>>

StatusNext == PollBegin \/ PollEnd \/ \E i \in RowIndex : RowChanges(i)

StatusSpec == StatusInit /\ [][StatusNext]_statusVars

-----------------------------------------------------------------------------
(* Properties.                                                             *)

\* A host is reported lost after two polls in a row without an answer, not
\* counting those in which its band was out of reach; only an address that is
\* stored under two bands is counted twice in one poll.
OutageNeedsTwoPolls ==
    \A i \in outages :
        \/ unanswered[IpIn(i)] >= MISSES
        \/ \E j \in RowIndex \ {i} : IpIn(j) = IpIn(i)

\* However many hosts are silent, no poll reports all of a band at once when
\* enough of them were online before: that is the PC's own connection.
NoBandIsLostAtOnce ==
    [][\A b \in BandsIn :
          PollEnd /\ Cardinality(OnlineRows(b)) >= BandGuard => ~(OnlineRows(b) \subseteq outages')]_statusVars

-----------------------------------------------------------------------------
(***************************************************************************)
(* check_ports: the operational state of the ports of a switch is walked   *)
(* by SNMP and compared with the state that the last walk left in the      *)
(* database. A walk may fail as a whole or miss a port, and the program    *)
(* may be restarted between the events and the new state.                  *)
(***************************************************************************)
CONSTANTS
    Ports,
    MaxWalks                \* bound: walks begun

ASSUME PortAssumption == MaxWalks \in Nat

VARIABLES
    link,                   \* the ports: up or down
    baseline,               \* port_state: up, down or none
    announced,              \* the last event of each port, or its first state
    walk,                   \* what the walk found; walk.told: events are out
    walks,
    forgotten,              \* history: ports that a walk missed
    repeated                \* history: ports announced by a poll that died

portVars == <<link, baseline, announced, walk, walks, forgotten, repeated>>

States == {"none", "up", "down"}
NoWalk == [at |-> "idle", found |-> [p \in Ports |-> "none"]]

PortTypeOK ==
    /\ link \in [Ports -> {"up", "down"}]
    /\ baseline \in [Ports -> States]
    /\ announced \in [Ports -> States]
    /\ walk \in [at : {"idle", "compare", "save"}, found : [Ports -> States]]
    /\ forgotten \subseteq Ports /\ repeated \subseteq Ports

PortInit ==
    /\ link = [p \in Ports |-> "up"]
    /\ baseline = [p \in Ports |-> "none"] /\ announced = baseline
    /\ walk = NoWalk /\ walks = 0
    /\ forgotten = {} /\ repeated = {}

LinkChanges(p) ==
    /\ link' = [link EXCEPT ![p] = IF @ = "up" THEN "down" ELSE "up"]
    /\ UNCHANGED <<baseline, announced, walk, walks, forgotten, repeated>>

\* Only up and down count, a port in another state is as good as not seen.
OperOf(p) == {link[p], "none"}

\* A walk that fails or finds no port leaves everything.
Walk ==
    /\ walk.at = "idle" /\ walks < MaxWalks
    /\ walks' = walks + 1
    /\ \E found \in [Ports -> UNION {OperOf(p) : p \in Ports}] :
          /\ \A p \in Ports : found[p] \in OperOf(p)
          /\ \E p \in Ports : found[p] # "none"
          /\ walk' = [at |-> "compare", found |-> found]
    /\ UNCHANGED <<link, baseline, announced, forgotten, repeated>>

Transition(p) == walk.found[p] # "none" /\ baseline[p] # "none" /\ walk.found[p] # baseline[p]

FirstSight(p) == walk.found[p] # "none" /\ baseline[p] = "none"

\* The first state of a port is what its later events are relative to.
Announce ==
    /\ walk.at = "compare"
    /\ announced' = [p \in Ports |->
          IF Transition(p) \/ (FirstSight(p) /\ announced[p] = "none") THEN walk.found[p] ELSE announced[p]]
    /\ walk' = [walk EXCEPT !.at = "save"]
    /\ UNCHANGED <<link, baseline, walks, forgotten, repeated>>

\* save_port_state replaces all rows of the switch.
Saved == baseline' = walk.found

SaveStates ==
    /\ walk.at = "save"
    /\ Saved
    /\ forgotten' = forgotten \cup {p \in Ports : baseline[p] # "none" /\ walk.found[p] = "none"}
    /\ walk' = NoWalk
    /\ UNCHANGED <<link, announced, walks, repeated>>

\* The program ends, or the transaction fails, with the events out.
LoseSave ==
    /\ walk.at # "idle"
    /\ repeated' = IF walk.at = "save" THEN repeated \cup {p \in Ports : announced[p] # baseline[p]}
                   ELSE repeated
    /\ walk' = NoWalk
    /\ UNCHANGED <<link, baseline, announced, walks, forgotten>>

PortNext == (\E p \in Ports : LinkChanges(p)) \/ Walk \/ Announce \/ SaveStates \/ LoseSave

PortSpec == PortInit /\ [][PortNext]_portVars

-----------------------------------------------------------------------------
(* Properties.                                                             *)

\* Between two walks the last event of a port is the state it was last seen
\* in, also after a restart: no outage stays unannounced and no recovery.  Only
\* a port that a walk missed, whose baseline is gone, or whose events went out
\* without the new baseline may differ.
EventsFollowTheLink ==
    walk.at = "idle" => \A p \in Ports \ (forgotten \cup repeated) : announced[p] = baseline[p]
=============================================================================
