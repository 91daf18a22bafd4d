----------------------------- MODULE SwitchStore -----------------------------
(***************************************************************************)
(* What a collection of one switch leaves in the database: the snapshot    *)
(* with its tables, which is bound to the switch by foreign keys, and the  *)
(* rows of tables that are not; the detection of MACs that vanished; the   *)
(* retention of snapshots; and the deletion of the switch, which may come  *)
(* between any two of these transactions.                                  *)
(***************************************************************************)
EXTENDS Integers, Sequences, FiniteSets

CONSTANTS
    Keep,                   \* _SNAPSHOT_KEEP
    MaxCollections          \* bound: collections begun

ASSUME StoreAssumption == Keep \in Nat \ {0} /\ MaxCollections \in Nat

VARIABLES
    registered,             \* the row in switches
    snapshots,              \* MAC rows of each snapshot kept, oldest first
    loose,                  \* tables without foreign key that have rows
    recorded,               \* "disconnected" events of the MAC in question
    work,                   \* the worker: where it is, what the device said
    collections,
    late,                   \* history: tables written after the deletion
    blind,                  \* history: snapshots since the last with MACs, or
                            \* Keep when there was none
    loss                    \* history of the MAC: was it in the last table
                            \* that was stored; how often it went from one to
                            \* the next, how often unseen as a snapshot without
                            \* MACs lay between, and how often it was detected
                            \* by a collection that stored no table

storeVars == <<registered, snapshots, loose, recorded, work, collections, late, blind,
               loss>>

\* What show mac gave: nothing (the command failed), a table without entries,
\* one without the MAC in question, one with it.
Readings == {"failed", "empty", "others", "both"}
RowsOf(reading) == IF reading \in {"failed", "empty"} THEN "none" ELSE reading

\* In the order in which the worker writes them.
LooseTables == <<"port_channels", "neighbors", "vlan_names", "switch_logs", "device_env",
                 "config_backups", "device_events">>
LooseSet == {LooseTables[i] : i \in DOMAIN LooseTables}
NoWork == [at |-> 0, reading |-> "failed", detected |-> FALSE]

StoreTypeOK ==
    /\ registered \in BOOLEAN
    /\ snapshots \in Seq({"none", "others", "both"}) /\ Len(snapshots) <= Keep
    /\ loose \subseteq LooseSet /\ late \subseteq LooseSet
    /\ recorded \in 0..MaxCollections
    /\ work.reading \in Readings

StoreInit ==
    /\ registered = TRUE /\ snapshots = <<>> /\ loose = {} /\ recorded = 0
    /\ work = NoWork /\ collections = 0
    /\ late = {} /\ blind = Keep
    /\ loss = [here |-> FALSE, times |-> 0, unseen |-> 0, undone |-> 0]

\* Step 1 is the detection, 2 the snapshot, 3 its MAC rows, then the others.
CollectBegin ==
    /\ work.at = 0 /\ registered
    /\ collections < MaxCollections /\ collections' = collections + 1
    /\ \E r \in Readings : work' = [NoWork EXCEPT !.at = 1, !.reading = r]
    /\ UNCHANGED <<registered, snapshots, loose, recorded, late, blind, loss>>

Previous == snapshots[Len(snapshots)]
Vanished == snapshots # <<>> /\ Previous = "both" /\ RowsOf(work.reading) # "both"

\* Faulty variant: the oldest snapshot is compared with.
LossSeenSinceOldest ==
    /\ snapshots # <<>> /\ snapshots[1] = "both"
    /\ work.reading \in {"empty", "others"}

\* _detect_disconnected against the latest snapshot, unless the output of the
\* command is blank.
LossSeen == Vanished /\ work.reading # "failed"

Detect ==
    /\ work.at = 1
    /\ recorded' = recorded + (IF LossSeen THEN 1 ELSE 0)
    /\ work' = [work EXCEPT !.at = 2, !.detected = LossSeen]
    /\ UNCHANGED <<registered, snapshots, loose, collections, late, blind, loss>>

Retain(seq) == SubSeq(seq, IF Len(seq) > Keep THEN Len(seq) - Keep + 1 ELSE 1, Len(seq))

\* The worker's except block: the status of a switch that is gone is nowhere.
GiveUpCollect ==
    /\ work' = NoWork
    /\ loss' = IF work.at \in {2, 3} /\ work.detected
               THEN [loss EXCEPT !.undone = @ + 1] ELSE loss

BoundToSwitch == registered

\* The snapshot, with the retention in its transaction.
SaveSnapshot ==
    /\ work.at = 2
    /\ \/ /\ BoundToSwitch
          /\ snapshots' = Retain(Append(snapshots, "none"))
          /\ blind' = blind + 1
          /\ work' = [work EXCEPT !.at = 3]
          /\ UNCHANGED loss
       \/ GiveUpCollect /\ UNCHANGED <<snapshots, blind>>
    /\ UNCHANGED <<registered, loose, recorded, collections, late>>

\* The table of this collection replaces that of the last one.
TableStored ==
    LET has == work.reading = "both"
        gone == loss.here /\ ~has
    IN
    loss' = IF work.reading = "failed" THEN loss
            ELSE [loss EXCEPT !.here = has,
                              !.times = @ + (IF gone THEN 1 ELSE 0),
                              !.unseen = @ + (IF gone /\ ~work.detected THEN 1 ELSE 0)]

\* An empty list is not written, and cannot fail.
SaveMacRows ==
    /\ work.at = 3
    /\ \/ /\ RowsOf(work.reading) # "none" /\ BoundToSwitch /\ snapshots # <<>>
          /\ snapshots' = [snapshots EXCEPT ![Len(snapshots)] = RowsOf(work.reading)]
          /\ blind' = 0
          /\ work' = [work EXCEPT !.at = 4]
          /\ TableStored
       \/ /\ RowsOf(work.reading) = "none"
          /\ work' = [work EXCEPT !.at = 4]
          /\ TableStored
          /\ UNCHANGED <<snapshots, blind>>
       \/ GiveUpCollect /\ UNCHANGED <<snapshots, blind>>
    /\ UNCHANGED <<registered, loose, recorded, collections, late>>

\* Tables without foreign key take rows of any switch.
SaveLoose ==
    /\ work.at \in 4..3 + Len(LooseTables)
    /\ LET table == LooseTables[work.at - 3] IN
       \/ /\ loose' = loose \cup {table}
          /\ late' = IF registered THEN late ELSE late \cup {table}
          /\ work' = [work EXCEPT !.at = @ + 1]
          /\ UNCHANGED loss
       \/ work' = [work EXCEPT !.at = @ + 1] /\ UNCHANGED <<loose, late, loss>>
       \/ GiveUpCollect /\ UNCHANGED <<loose, late>>
    /\ UNCHANGED <<registered, snapshots, recorded, collections, blind>>

CollectEnd ==
    /\ work.at = 4 + Len(LooseTables)
    /\ work' = NoWork
    /\ UNCHANGED <<registered, snapshots, loose, recorded, collections, late, blind, loss>>

\* _purge_switch_children.
PurgeChildren == snapshots' = <<>> /\ loose' = {}

DeleteSwitch ==
    /\ registered
    /\ registered' = FALSE
    /\ PurgeChildren
    /\ UNCHANGED <<recorded, work, collections, late, blind, loss>>

StoreNext ==
    CollectBegin \/ Detect \/ SaveSnapshot \/ SaveMacRows \/ SaveLoose \/ CollectEnd \/ DeleteSwitch

StoreSpec == StoreInit /\ [][StoreNext]_storeVars

-----------------------------------------------------------------------------
(* Properties.                                                             *)

\* Of a deleted switch nothing is left but the rows that a collection wrote
\* after the deletion into tables without a foreign key: no snapshot ever.
OnlyLateRowsSurvive ==
    ~registered => snapshots = <<>> /\ loose \subseteq late

\* A collection that read no MAC does not take the known ones away, as long as
\* fewer than Keep of them follow each other: get_mac_to_switchport still finds
\* a snapshot with MACs.
LastMacsAreKept ==
    registered /\ blind < Keep => \E i \in DOMAIN snapshots : snapshots[i] # "none"

\* The loss of a MAC is recorded once, and never because the command failed.
\* It is not recorded when a snapshot without MACs lies between, and recorded
\* for nothing by a collection that fails before its table is stored.
LossesAreRecordedOnce ==
    registered /\ work.at \notin {2, 3} => recorded = loss.times - loss.unseen + loss.undone

\* Only snapshots without MACs hide a loss.
UnseenOnlyWhenBlind ==
    [][loss'.unseen > loss.unseen => blind > 1 \/ ~registered]_storeVars
=============================================================================
