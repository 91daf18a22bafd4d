--------------------------- MODULE MetricsPoller ----------------------------
(***************************************************************************)
(* The metrics of devices: what the poller reads and judges                *)
(* (core/metrics_poller.py), and the row of a firewall that a collection   *)
(* writes (core/collector.py, core/db.py).                                 *)
(***************************************************************************)
EXTENDS Integers, FiniteSets

-----------------------------------------------------------------------------
(***************************************************************************)
(* The poller of metrics (core/metrics_poller.py) at one device: the       *)
(* increments of an error counter that it records, the alarms at a limit,  *)
(* the ports whose traffic it keeps. Samples and alarm states are held in  *)
(* memory and end with the process; events and points are stored.          *)
(***************************************************************************)
CONSTANTS
    CountMax,           \* bound: errors that happen at the port
    PollMax             \* bound: polls

ASSUME PollerAssumption == CountMax \in Nat /\ PollMax \in Nat

VARIABLES
    counter,            \* the device's error counter, since it started
    sample,             \* _prev_errors: the counter at the last poll
    points,             \* increments recorded, in all
    happened,           \* history: errors since the first sample ever
    gap,                \* history: a restart or a lost write between samples
    over,               \* _over_state of a metric
    lastTold,           \* the last stored event about the metric
    limit,              \* the setting, 0: off
    unsaid,             \* history: metrics with an event that was not stored
    rounds

pollVars == <<counter, sample, points, happened, gap, over, lastTold, limit, unsaid, rounds>>

Metrics == {"cpu", "temp"}
NoSample == -1
NotYet == -1                    \* the poller has not looked
Values == 0..3                  \* what the device answers
NoAnswer == -1
Limits == {0, 2}
Margin == 1                     \* an alarm ends one below the limit

PollerTypeOK ==
    /\ counter \in 0..CountMax /\ sample \in {NoSample} \cup 0..CountMax
    /\ points \in 0..CountMax /\ happened \in {NotYet} \cup 0..CountMax
    /\ gap \in BOOLEAN
    /\ over \in [Metrics -> BOOLEAN]
    /\ lastTold \in [Metrics -> {"none", "over", "clear"}]
    /\ limit \in Limits /\ unsaid \subseteq Metrics
    /\ rounds \in 0..PollMax

PollerInit ==
    /\ counter = 0 /\ sample = NoSample /\ points = 0 /\ happened = NotYet /\ gap = FALSE
    /\ over = [m \in Metrics |-> FALSE]
    /\ lastTold = [m \in Metrics |-> "none"]
    /\ limit = 2 /\ unsaid = {} /\ rounds = 0

alarmVars == <<over, lastTold, limit, unsaid>>
countVars == <<counter, sample, points, happened, gap>>

-----------------------------------------------------------------------------
(* Port errors.                                                            *)

ErrorHappens ==
    /\ counter < CountMax /\ happened < CountMax
    /\ counter' = counter + 1
    /\ happened' = IF happened = NotYet THEN NotYet ELSE happened + 1
    /\ UNCHANGED <<sample, points, gap, alarmVars, rounds>>

DeviceRestarts ==
    /\ counter > 0
    /\ counter' = 0 /\ gap' = TRUE
    /\ UNCHANGED <<sample, points, happened, alarmVars, rounds>>

\* compute_error_delta: nothing at first sight, nothing if the counter fell.
Delta(prev, cur) == IF prev # NoSample /\ cur > prev THEN cur - prev ELSE 0

\* collect_port_errors; the sample is kept whether or not the point is.
PollErrors(stored) ==
    /\ rounds < PollMax /\ rounds' = rounds + 1
    /\ points' = IF stored THEN points + Delta(sample, counter) ELSE points
    /\ gap' = (gap \/ ~stored)
    /\ sample' = counter
    /\ happened' = IF happened = NotYet THEN 0 ELSE happened
    /\ UNCHANGED <<counter, alarmVars>>

-----------------------------------------------------------------------------
(* Alarms.                                                                 *)

\* What a value makes of the state, "none" if it changes nothing.
Judgement(isOver, value) ==
    IF limit = 0 \/ value = NoAnswer THEN "none"
    ELSE IF ~isOver /\ value > limit THEN "over"
    ELSE IF isOver /\ value <= limit - Margin THEN "clear"
    ELSE "none"

OverAfter(change, verdict) ==
    [m \in Metrics |-> IF m \in change THEN verdict[m] = "over" ELSE over[m]]

\* check_thresholds and check_temp in one poll: the state is changed before
\* the event is stored; an exception there skips what is left of the poll.
CheckValues(cpu, temp, failed) ==
    LET value == [cpu |-> cpu, temp |-> temp]
        verdict == [m \in Metrics |-> Judgement(over[m], value[m])]
        reached == IF failed = "cpu" THEN {"cpu"} ELSE Metrics
        change == {m \in reached : verdict[m] # "none"}
    IN  /\ rounds < PollMax /\ rounds' = rounds + 1
        /\ failed \in change \cup {"nothing"}
        /\ over' = OverAfter(change, verdict)
        /\ lastTold' = [m \in Metrics |->
                      IF m \in change \ {failed} THEN verdict[m] ELSE lastTold[m]]
        /\ unsaid' = (unsaid \ (change \ {failed})) \cup (change \cap {failed})
        /\ UNCHANGED <<limit, countVars>>

SetLimit ==
    /\ \E l \in Limits \ {limit} : limit' = l
    /\ UNCHANGED <<over, lastTold, unsaid, countVars, rounds>>

\* The process ends and starts again; the tables are still there.
ProcessRestarts ==
    /\ rounds < PollMax /\ rounds' = rounds + 1
    /\ sample' = NoSample /\ gap' = TRUE
    /\ over' = [m \in Metrics |-> FALSE]
    /\ unsaid' = unsaid \cup {m \in Metrics : over[m]}
    /\ UNCHANGED <<counter, points, happened, lastTold, limit>>

PollerNext ==
    \/ ErrorHappens \/ DeviceRestarts
    \/ \E stored \in BOOLEAN : PollErrors(stored)
    \/ \E c, t \in Values \cup {NoAnswer}, f \in Metrics \cup {"nothing"} : CheckValues(c, t, f)
    \/ SetLimit \/ ProcessRestarts

PollerSpec == PollerInit /\ [][PollerNext]_pollVars

-----------------------------------------------------------------------------
(* Properties.                                                             *)

\* No error is recorded twice, none that happened before the poller first
\* looked, and none that did not happen: not when the device restarts and
\* its counter falls, nor when the poller does and loses its samples.
ErrorsAreRecordedOnce == points <= IF happened = NotYet THEN 0 ELSE happened

\* As long as neither restarts and every point is stored, none is missed.
NoErrorIsMissed ==
    ~gap /\ sample # NoSample => points + (counter - sample) = happened

\* Alarms of a metric come in pairs: an alarm that was told is not told
\* again before its end, whatever the values do around the limit, whether
\* the device answers or not, and with the limit switched off and on.  Only
\* an event that could not be stored, or a restart of the process, breaks
\* the pair, for the metric it met, until the next event is stored.
AlarmsComeInPairs ==
    \A m \in Metrics \ unsaid : over[m] <=> lastTold[m] = "over"

-----------------------------------------------------------------------------
(***************************************************************************)
(* The row device_env of one firewall. A collection (the button, the       *)
(* batch, the scheduler: nothing keeps two apart) writes the temperatures, *)
(* then merges what SNMP told into the stored metrics, then what REST and  *)
(* SSH told: each merge reads the row, changes its copy and writes it back *)
(* in another transaction (core/collector.py, core/db.py).                 *)
(***************************************************************************)
CONSTANTS
    Collecting,         \* threads that collect the firewall
    MaxGathered         \* bound: merges

ASSUME GatheredAssumption == MaxGathered \in Nat

VARIABLES
    temps,              \* the temperatures are stored
    metrics,            \* the stored metrics: a value per field
    merge,              \* per thread: the merge under way and its copy
    revision,           \* history: writes of the metrics
    crossed,            \* history: a copy was written over a later write, or over a
                        \* row that could not be read
    gathered

envVars == <<temps, metrics, merge, revision, crossed, gathered>>

\* model: the identity; cpu: a measured value; vpn: what only REST tells;
\* notes: what REST could not tell, of the last collection.
Fields == {"model", "cpu", "vpn", "notes"}
Nothing == "nothing"
Sources == {"snmp", "ssh", "rest"}
NoMerge == [of |-> "none", copy |-> [f \in Fields |-> Nothing], at |-> 0]

EnvTypeOK ==
    /\ temps \in BOOLEAN
    /\ metrics \in [Fields -> Sources \cup {Nothing}]
    /\ metrics["vpn"] \in {"rest", Nothing} /\ metrics["notes"] \in {"rest", Nothing}
    /\ \A c \in Collecting : merge[c].of \in {"none", "snmp", "extra"}
    /\ revision \in 0..MaxGathered /\ gathered \in 0..MaxGathered
    /\ crossed \in BOOLEAN

EnvInit ==
    /\ temps = FALSE
    /\ metrics = [f \in Fields |-> Nothing]
    /\ merge = [c \in Collecting |-> NoMerge]
    /\ revision = 0 /\ crossed = FALSE /\ gathered = 0

\* collect_env_snmp, in any collection in which the device answers:
\* save_device_env sets the columns of the temperatures only.
\* Faulty variant: the row is replaced.
RowWithTempsNew == [f \in Fields |-> Nothing]
RowWithTemps == metrics
SaveTemps ==
    /\ temps' = TRUE /\ metrics' = RowWithTemps
    /\ UNCHANGED <<merge, revision, crossed, gathered>>

Unreadable == -1
\* The row is read for a merge; a read that fails is an empty row.
ReadMetrics(c, of, read) ==
    /\ merge[c].of = "none"
    /\ gathered < MaxGathered /\ gathered' = gathered + 1
    /\ merge' = [merge EXCEPT ![c] =
          IF read THEN [of |-> of, copy |-> metrics, at |-> revision]
          ELSE [NoMerge EXCEPT !.of = of, !.at = Unreadable]]
    /\ UNCHANGED <<temps, metrics, revision, crossed>>

SnmpMerged(copy) ==
    [copy EXCEPT !["cpu"] = "snmp",
                 !["model"] = IF @ = Nothing THEN "snmp" ELSE @]

ExtraMerged(copy, rest, sys, ssh, noted) ==
    [model |-> IF ssh THEN "ssh" ELSE IF copy["model"] = Nothing /\ sys THEN "rest"
               ELSE copy["model"],
     cpu   |-> IF copy["cpu"] = Nothing /\ ssh THEN "ssh" ELSE copy["cpu"],
     vpn   |-> IF rest THEN "rest" ELSE copy["vpn"],
     notes |-> IF noted THEN "rest" ELSE Nothing]

WriteMetrics(c, new) ==
    /\ metrics' = new
    /\ revision' = revision + 1
    /\ crossed' = (crossed \/ merge[c].at # revision)
    /\ merge' = [merge EXCEPT ![c] = NoMerge]
    /\ UNCHANGED <<temps, gathered>>
WriteSnmp(c) == merge[c].of = "snmp" /\ WriteMetrics(c, SnmpMerged(merge[c].copy))
WriteExtra(c, rest, sys, ssh, noted) ==
    /\ merge[c].of = "extra"
    /\ rest \/ ssh \/ noted
    /\ WriteMetrics(c, ExtraMerged(merge[c].copy, rest, sys, ssh, noted))

EnvNext ==
    \/ SaveTemps
    \/ \E c \in Collecting : \/ \E of \in {"snmp", "extra"}, r \in BOOLEAN : ReadMetrics(c, of, r)
                             \/ WriteSnmp(c)
                             \/ \E r, i, s, n \in BOOLEAN : WriteExtra(c, r, i, s, n)

EnvSpec == EnvInit /\ [][EnvNext]_envVars

-----------------------------------------------------------------------------
(* Properties.                                                             *)

\* Three paths share the metrics of a firewall: none of them loses what
\* another one stored (the notes are replaced by intent), unless two
\* collections crossed and one wrote a copy it had read before the other,
\* or the row could not be read.
NoPathErasesAnother ==
    [][~crossed' => \A f \in Fields \ {"notes"} :
          metrics[f] # Nothing => metrics'[f] # Nothing]_envVars

\* The identity that SSH told is the one shown: neither SNMP nor REST
\* replaces it afterwards.
SshNamesTheModel ==
    [][~crossed' /\ metrics["model"] = "ssh" => metrics'["model"] = "ssh"]_envVars
=============================================================================
