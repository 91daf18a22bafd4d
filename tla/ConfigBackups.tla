--------------------------- MODULE ConfigBackups ----------------------------
(***************************************************************************)
(* What a collection keeps and judges of a switch: its configuration and   *)
(* its log (core/db.py, core/collector.py, core/log_analyzer.py).          *)
(***************************************************************************)
EXTENDS Questions, FiniteSets, Sequences

-----------------------------------------------------------------------------
(***************************************************************************)
(* The kept configurations of a switch (core/db.py, save_config_backup and *)
(* its readers; app.py, /api/configs) and the alarms that a collection     *)
(* raises about the configuration and the log (core/collector.py,          *)
(* _collect_worker), with collections that end half way.                   *)
(***************************************************************************)
CONSTANTS
    Contents,           \* contents that differ in more than volatile lines
    KeepBackups,        \* backups kept of a switch (20)
    MaxBackups          \* bound: backups ever written

VARIABLES
    running,            \* what the switch is configured with
    backups,            \* config_backups, [id, content], the oldest first
    lastId,             \* the highest id so far
    telling,            \* the collection: "idle", or what it is about to tell
    compared,           \* history: the configuration that was last looked at
    changes,            \* history: looks that found another one than the last
    toldOf,             \* history: alarms about a change
    untold              \* history: changes whose alarm was lost by a fault

backupVars == <<running, backups, lastId, telling, compared, changes, toldOf, untold>>

NeverCompared == "never"

ASSUME BackupAssumption ==
    /\ KeepBackups \in Nat \ {0} /\ MaxBackups \in Nat
    /\ Contents # {} /\ NeverCompared \notin Contents

BackupFrom(config) ==
    /\ running = config /\ backups = <<>> /\ lastId = 0 /\ telling = "idle"
    /\ compared = NeverCompared /\ changes = 0 /\ toldOf = 0 /\ untold = 0
BackupInit == \E c \in Contents : BackupFrom(c)

Reconfigure ==
    /\ \E c \in Contents : running' = c
    /\ UNCHANGED <<backups, lastId, telling, compared, changes, toldOf, untold>>

-----------------------------------------------------------------------------
(* save_config_backup and the alarm.                                       *)

Unlike(content) == backups = <<>> \/ backups[Len(backups)].content # content

LastOnes(n, s) == SubSeq(s, IF Len(s) > n THEN Len(s) - n + 1 ELSE 1, Len(s))

\* id: other switches have backups in between.  trimmed: whether the DELETE worked;
\* an exception there is caught inside the transaction, so the backup stays, but
\* is not told of.  Nothing is looked at without an output, or if the setting
\* says so, or if the SELECT or the INSERT fails.
SaveBackup ==
    /\ telling = "idle"
    /\ \E trimmed \in BOOLEAN, id \in lastId + 1..lastId + 2 :
        LET all == Append(backups, [id |-> id, content |-> running])
            first == backups = <<>>
        IN  IF Unlike(running)
            THEN /\ id <= MaxBackups /\ lastId' = id
                 /\ backups' = IF trimmed THEN LastOnes(KeepBackups, all) ELSE all
                 /\ telling' = IF trimmed /\ ~first THEN "change" ELSE "idle"
                 /\ untold' = IF ~trimmed /\ ~first THEN untold + 1 ELSE untold
            ELSE UNCHANGED <<backups, lastId, telling, untold>>
    /\ changes' = IF compared \notin {NeverCompared, running} THEN changes + 1 ELSE changes
    /\ compared' = running
    /\ UNCHANGED <<running, toldOf>>

TellChange ==
    /\ telling = "change" /\ telling' = "idle" /\ toldOf' = toldOf + 1
    /\ UNCHANGED <<running, backups, lastId, compared, changes, untold>>
\* The event cannot be stored, or the process ends before.
LoseChange ==
    /\ telling = "change" /\ telling' = "idle" /\ untold' = untold + 1
    /\ UNCHANGED <<running, backups, lastId, compared, changes, toldOf>>

BackupNext == Reconfigure \/ SaveBackup \/ TellChange \/ LoseChange
BackupSpec == BackupInit /\ [][BackupNext]_backupVars

-----------------------------------------------------------------------------
(* config_diff and the other readers.                                      *)

Before(id) ==
    LET listed == LastOnes(KeepBackups, backups)
        older == {n \in DOMAIN listed : listed[n].id < id}
        last == CHOOSE n \in older : \A m \in older : m <= n
    IN  {n \in DOMAIN backups : older # {} /\ backups[n] = listed[last]}

\* The content that the diff of a backup starts from; the empty one if there is
\* none before.
DiffBase(id) == {backups[n].content : n \in Before(id)}

-----------------------------------------------------------------------------
(* Properties.                                                             *)

BackupTypeOK ==
    /\ \A n \in DOMAIN backups : backups[n].id \in 1..lastId /\ backups[n].content \in Contents
    /\ \A n \in 1..(Len(backups) - 1) : backups[n].id < backups[n + 1].id
    /\ backups # <<>> => backups[Len(backups)].id = lastId
    /\ telling \in {"idle", "change"}

\* Each configuration that a collection found changed is told once, if no fault
\* lost the alarm: a return to an old configuration as well, and none twice.
ChangesAreTold ==
    toldOf + untold + (IF telling = "change" THEN 1 ELSE 0) = changes

\* The diff of a listed backup compares it with the one before it, and it is never
\* empty.
DiffTellsAChange ==
    \A n \in DOMAIN backups :
        n > 1 /\ n > Len(backups) - KeepBackups + 1 =>
            DiffBase(backups[n].id) = {backups[n - 1].content}
              /\ backups[n].content \notin DiffBase(backups[n].id)

-----------------------------------------------------------------------------
(***************************************************************************)
(* What the log of a switch is judged to say (core/log_analyzer.py) and    *)
(* which ports its events name (core/collector.py, _extract_event_ports).  *)
(* The log is in the order of time; most systems print no year.            *)
(***************************************************************************)
LogYear == 12                   \* length of a year, in windows
RolloverBack == 9               \* a jump further back is a new year (300 days)
FlapWindow == 1                 \* flap_window_min
FlapThreshold == 3              \* flap_threshold
PortsNamed == 1                 \* ports that a message names

LogLines == {"a", "a?", "b"}    \* link up/down of a port; "?": no time can be read
FlapOf(line) == IF line = "b" THEN "b" ELSE "a"
Readable(line) == line # "a?"

-----------------------------------------------------------------------------
(* Times: what is printed has no year.                                     *)

Stamp(time) == time % LogYear
LeapDay == 2                    \* a date that the next year does not have

FixYearRollover(stamps) ==
    LET Years(n) == Cardinality({k \in 2..n : stamps[k] - stamps[k - 1] < -RolloverBack})
    IN  [n \in DOMAIN stamps |->
            IF stamps[n] = LeapDay THEN stamps[n] ELSE stamps[n] + LogYear * Years(n)]

\* sorted: the n-th place has the value that fewer than n are below, and at
\* least n are not above.
InOrder(list) ==
    [n \in DOMAIN list |->
        CHOOSE v \in ToSet(list) :
            /\ Cardinality({k \in DOMAIN list : list[k] < v}) < n
            /\ Cardinality({k \in DOMAIN list : list[k] <= v}) >= n]

\* _max_in_window, with two pointers over the sorted times: lo moves on past
\* the times that are too far back.
FromFirst == [lo |-> 1, best |-> 0]
Slide(ts, acc, hi) ==
    LET lo == acc.lo + Cardinality({k \in acc.lo..hi : ts[hi] - ts[k] > FlapWindow})
        width == hi - lo + 1
    IN  [lo |-> lo, best |-> IF width > acc.best THEN width ELSE acc.best]
SlideAll(ts, places) ==
    FoldLeft(LAMBDA acc, hi : Slide(ts, acc, hi), FromFirst, places)
MaxInWindow(stamps) ==
    LET ts == InOrder(FixYearRollover(stamps))
    IN  SlideAll(ts, [n \in DOMAIN ts |-> n]).best

-----------------------------------------------------------------------------
(* analyze.                                                                *)

\* The ports told to be flapping: by their lines with a time, if there are enough
\* of them, by all their lines otherwise.
IsFlapping(lines, port) ==
    LET of == Filtered(lines, {l \in ToSet(lines) : FlapOf(l.line) = port})
        ts == Filtered(of, {l \in ToSet(of) : Readable(l.line)})
    IN  /\ Len(of) >= FlapThreshold
        /\ Len(ts) >= FlapThreshold =>
              MaxInWindow([n \in DOMAIN ts |-> Stamp(ts[n].time)]) >= FlapThreshold
Flapping(lines) == {port \in {"a", "b"} : IsFlapping(lines, port)}

\* others: whether there are lines of a loop, of an err-disabled port.
LogAlert(lines, others) ==
    IF "looping" \in others THEN "critical"
    ELSE IF "error" \in others \/ Flapping(lines) # {} THEN "warning"
    ELSE "none"

\* The events in the order of the answer: loops, errors, flaps by their counts.
LogEvents(lines, others) ==
    LET Count(port) == Cardinality({n \in DOMAIN lines : FlapOf(lines[n].line) = port})
        flaps == CHOOSE list \in [1..Cardinality(Flapping(lines)) -> Flapping(lines)] :
                    \A m, n \in DOMAIN list :
                        m < n => list[m] # list[n] /\ Count(list[m]) >= Count(list[n])
    IN  (IF "looping" \in others THEN <<[type |-> "looping", port |-> "x"]>> ELSE <<>>)
     \o (IF "error" \in others THEN <<[type |-> "error", port |-> "y"]>> ELSE <<>>)
     \o [n \in DOMAIN flaps |-> [type |-> "flapping", port |-> flaps[n]]]

EventPorts(events, kind) ==
    LET of == Filtered(events, {e \in ToSet(events) :
                IF kind = "flapping" THEN e.type = "flapping"
                ELSE e.type \in {"looping", "error"}})
    IN  [n \in 1..Min({PortsNamed, Len(of)}) |-> of[n].port]

\* The alarm of a collection: its kind and the ports that it names.
LogAlarm(lines, others) ==
    LET kind == IF LogAlert(lines, others) = "critical" THEN "looping" ELSE "flapping"
    IN  [kind |-> kind, ports |-> ToSet(EventPorts(LogEvents(lines, others), kind))]

\* When the lines of a log are written: in order, by a few gaps.
Gaps == {0, 1, 2, 6}
LogTimes ==
    {times \in [1..MaxLen["log"] -> 8..(11 + 6 * (MaxLen["log"] - 1))] :
        \A n \in DOMAIN times : IF n = 1 THEN times[n] \in {8, 11}
                                ELSE times[n] - times[n - 1] \in Gaps}
AskLog ==
    /\ Fresh
    /\ \E times \in LogTimes, kinds \in [1..MaxLen["log"] -> LogLines],
          others \in SUBSET {"looping", "error"} :
          /\ others # {} => \A n \in 2..MaxLen["log"] : times[n] - times[n - 1] < 2
          /\ question' = [of |-> "log", others |-> others,
                          lines |-> [n \in 1..MaxLen["log"] |->
                                        [line |-> kinds[n], time |-> times[n]]]]

LogNext == AskLog
-----------------------------------------------------------------------------
(* Properties.                                                             *)

\* The comments of log_analyzer.py say that flapping is judged by the density in
\* time, also across the turn of a year: a port with enough readable lines is
\* told exactly if so many of them truly lie within one window, in a log without
\* a leap day and without a gap that is longer than the year less the jump; one
\* with too few of them if it has enough lines at all.
FlapsAreDense ==
    Asked("log") =>
        LET lines == question.lines
            Of(port) == {n \in DOMAIN lines : FlapOf(lines[n].line) = port}
            Timed(port) == {n \in Of(port) : Readable(lines[n].line)}
            Dense(port) ==
                \E n \in Timed(port) :
                    Cardinality({k \in Timed(port) :
                        lines[k].time \in lines[n].time..(lines[n].time + FlapWindow)})
                      >= FlapThreshold
            regular(port) ==
                /\ \A n \in Timed(port) : Stamp(lines[n].time) # LeapDay
                /\ \A n, k \in Timed(port) :
                      n < k /\ (\A m \in (n + 1)..(k - 1) : m \notin Timed(port))
                        => lines[k].time - lines[n].time < LogYear - RolloverBack
        IN  \A port \in {"a", "b"} :
               regular(port) =>
                 (port \in Flapping(lines) <=>
                    IF Cardinality(Timed(port)) >= FlapThreshold THEN Dense(port)
                    ELSE Cardinality(Of(port)) >= FlapThreshold)

\* An alarm about flapping names flapping ports only, and one if there is one;
\* one about a loop names the port of the loop, whatever else happened.
AlarmNamesItsPorts ==
    Asked("log") =>
        LET lines == question.lines
            alert == LogAlert(lines, question.others)
            alarm == LogAlarm(lines, question.others)
        IN  /\ alert # "none" /\ alarm.kind = "flapping" =>
                  /\ alarm.ports \subseteq Flapping(lines)
                  /\ Flapping(lines) # {} => alarm.ports # {}
            /\ alarm.kind = "looping" => "x" \in alarm.ports
=============================================================================
