------------------------------ MODULE Scheduler ------------------------------
(***************************************************************************)
(* The loop that starts the daily collections (and, with a single time,    *)
(* the daily facility scan).  An iteration starts what fell due since the  *)
(* last one, so that a late iteration misses nothing; after a pause above  *)
(* the catch-up limit nothing is made up for.  Time counts in units of the *)
(* distance between two times of day, day by day.                          *)
(***************************************************************************)
EXTENDS Integers, Sequences, FiniteSets

CONSTANTS
    Times,                  \* auto_collect_times, in the order of the setting
    Day,                    \* units of a day
    CatchUp,                \* _CATCHUP_LIMIT_SEC
    MaxClock                \* bound: units observed

ASSUME SchedulerAssumption ==
    /\ Day \in Nat \ {0} /\ CatchUp \in 0..Day - 1 /\ MaxClock \in Nat
    /\ Times \in Seq(0..Day - 1)

VARIABLES
    clock,
    lastCheck,              \* last_check
    lastSlot,               \* last_slot: the last occurrence started
    started,                \* how often each occurrence was started
    excused,                \* history: occurrences that the loop may leave out
    broken,                 \* history: due in an iteration that broke
    crowded                 \* history: due together with another occurrence

schedVars == <<clock, lastCheck, lastSlot, started, excused, broken, crowded>>

Occurrences == {t \in 1..MaxClock : \E i \in DOMAIN Times : t % Day = Times[i]}

SchedTypeOK ==
    /\ clock \in 0..MaxClock /\ lastCheck \in 0..clock
    /\ lastSlot \in Occurrences \cup {0}
    /\ started \in [Occurrences -> Nat]
    /\ excused \subseteq Occurrences /\ broken \cup crowded \subseteq Occurrences

SchedInit ==
    /\ clock = 0 /\ lastCheck = 0 /\ lastSlot = 0
    /\ started = [t \in Occurrences |-> 0]
    /\ excused = {} /\ broken = {} /\ crowded = {}

Today == clock - (clock % Day)

\* Faulty variant: only the time of day today is a candidate.
CandidatesToday(t) == {Today + t}

\* Today and, past midnight, yesterday.
Candidates(t) == {Today + t, Today + t - Day}

InWindow(c) == lastCheck < c /\ c <= clock

\* due_slots: the places in the setting of the times that are due.
DueSlots ==
    IF clock - lastCheck > CatchUp THEN {}
    ELSE {i \in DOMAIN Times : \E c \in Candidates(Times[i]) : InWindow(c)}

\* The occurrence that is due for the i-th time: the later candidate first.
When(i) ==
    CHOOSE c \in Candidates(Times[i]) :
        InWindow(c) /\ \A d \in Candidates(Times[i]) : InWindow(d) => d <= c

\* last_slot after the entries at the places due, in their order.
LastOf(due) ==
    IF due = {} THEN lastSlot ELSE When(CHOOSE i \in due : \A j \in due : j <= i)

\* The places at which something is started: not what was started last.
FreshSlots == {i \in DueSlots : When(i) # LastOf({j \in DueSlots : j < i})}

StartedAt(slots) ==
    [t \in Occurrences |-> started[t] + Cardinality({i \in slots : When(i) = t})]

Window == {t \in Occurrences : lastCheck < t /\ t <= clock}
Crowd == crowded' = IF Cardinality(Window) > 1 THEN crowded \cup Window ELSE crowded

\* An iteration that ends well, with the automatic collection on or off.
Iterate ==
    /\ \/ /\ started' = StartedAt(FreshSlots)
          /\ lastSlot' = LastOf(DueSlots)
          /\ excused' = IF clock - lastCheck > CatchUp THEN excused \cup Window ELSE excused
       \/ /\ excused' = excused \cup Window
          /\ UNCHANGED <<started, lastSlot>>
    /\ lastCheck' = clock
    /\ Crowd
    /\ UNCHANGED <<clock, broken>>

\* last_check stays, so that the same window is looked at again.
WindowAfterError == UNCHANGED lastCheck

\* An iteration that an exception ends: before the entry at place n, in the
\* start of it (the slot is on record already), or after the last, in the purge.
Break ==
    /\ \E n \in 1..Len(Times) + 1, within \in BOOLEAN :
          /\ within => n \in FreshSlots
          /\ started' = StartedAt({i \in FreshSlots : i < n})
          /\ lastSlot' = IF within THEN When(n) ELSE LastOf({i \in DueSlots : i < n})
          /\ excused' = IF within THEN excused \cup {When(n)} ELSE excused
    /\ broken' = broken \cup Window
    /\ Crowd
    /\ WindowAfterError
    /\ UNCHANGED clock

Tick ==
    /\ clock < MaxClock
    /\ clock' = clock + 1
    /\ UNCHANGED <<lastCheck, lastSlot, started, excused, broken, crowded>>

\* An occurrence is started at most twice here: that is enough to see it.
SchedBound == \A t \in Occurrences : started[t] < 3

SchedNext == SchedBound /\ (Iterate \/ Break \/ Tick)

SchedSpec == SchedInit /\ [][SchedNext]_schedVars

-----------------------------------------------------------------------------
(* Properties.                                                             *)

\* No time is missed, also across midnight and when an iteration breaks: what
\* lies behind the last check was started, unless the setting was off, the
\* loop slept above the limit, or the thread itself could not be started.
NoSlotIsMissed ==
    \A t \in Occurrences : t <= lastCheck => started[t] > 0 \/ t \in excused

\* The setting may list a time of day twice: nothing compares its entries.
ListedOnce(t) ==
    \A i, j \in DOMAIN Times : Times[i] = t % Day /\ Times[j] = t % Day => i = j

\* No time is started twice: the last slot is remembered.  Only one that was
\* due in an iteration that broke and shared a window with another time can be,
\* since the memory is of one slot, or one that the setting lists twice.
NoSlotStartsTwice ==
    \A t \in Occurrences \ (broken \cap crowded) : ListedOnce(t) => started[t] <= 1

\* Each time of day is started once.
ScheduleSafety ==
    /\ NoSlotIsMissed /\ NoSlotStartsTwice
=============================================================================
