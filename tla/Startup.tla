------------------------------ MODULE Startup -------------------------------
(***************************************************************************)
(* What a primary does to the database before it serves (core/db.py,       *)
(* init_schema, validate_schema, reset_stale_collecting,                   *)
(* normalize_vendor_values; app.py, _start_primary_services): missing      *)
(* tables and columns, the rebuild of the firewall tables, the conversion  *)
(* of times, statuses and vendors.  Any statement may be the last one of   *)
(* this process; then the next start finds what was committed.             *)
(*                                                                         *)
(* A statement on the schema is committed at once, unless a transaction is *)
(* open; the first INSERT or UPDATE opens one, which lasts to the commit.  *)
(***************************************************************************)
EXTENDS Integers, FiniteSets, Sequences, Functions

CONSTANTS
    FirewallIds,        \* firewalls that are ever registered
    MaxCrashes          \* bound: starts that fail or processes that end

ASSUME StartupAssumption == 1 \in FirewallIds /\ MaxCrashes \in Nat

VARIABLES
    disk,               \* the database as committed
    mem,                \* as the open connection sees it
    tx,                 \* whether its transaction is open
    pc, child,          \* the next statement, the child table it is about
    owned,              \* history: rows that the tables were given
    unopened,           \* history: what was left out at this start
    crashes

startVars == <<disk, mem, tx, pc, child, owned, unopened, crashes>>

Children == <<"interfaces", "arp">>
OwnedKinds == {"switches", "servers", "firewalls"}
Dated == {"switches", "events"}         \* two of the tables with times
TableColumns == {"cred_blob", "ha_info"}     \* columns of later versions
NewColumns == {"cred_blob"}             \* those in CREATE_FIREWALLS_TABLE
Bak(c) == IF c = "interfaces" THEN "interfaces_bak" ELSE "arp_bak"

NewTable(cols, parent) == [rows |-> {}, cols |-> cols, unique |-> FALSE, parent |-> parent]
EmptyTables ==
    [t \in {"firewalls", "interfaces", "arp"} |->
        IF t = "firewalls" THEN NewTable(NewColumns, "none") ELSE NewTable({}, "firewalls")]

\* The databases that older versions left: none, one with the UNIQUE host, one
\* in which a rebuild by RENAME left firewalls_old and children that refer to it.
Old(unique, parent) ==
    [t \in {"firewalls", "interfaces", "arp"} |->
        [rows |-> {1}, cols |-> {}, unique |-> unique /\ t = "firewalls",
         parent |-> IF t = "firewalls" THEN "none" ELSE parent]]
OldTables == {<<>>, Old(TRUE, "firewalls"),
              [t \in {"firewalls", "interfaces", "arp", "firewalls_old"} |->
                  IF t = "firewalls_old" THEN Old(FALSE, "none")["firewalls"]
                  ELSE Old(FALSE, "firewalls_old")[t]]}

StartupFrom(tables) ==
    /\ disk = [tables |-> tables,
               times |-> [t \in Dated |-> IF tables = <<>> THEN {} ELSE {"utc"}],
               flag |-> FALSE, status |-> [k \in OwnedKinds |-> "ok"], vendor |-> "alias"]
    /\ mem = disk /\ tx = FALSE
    /\ pc = "down" /\ child = 1 /\ unopened = {} /\ crashes = 0
    /\ owned = [t \in {"firewalls", "interfaces", "arp"} |->
                   IF tables = <<>> THEN {} ELSE {1}]
StartupInit == \E tables \in OldTables : StartupFrom(tables)

-----------------------------------------------------------------------------
(* Statements, connections and crashes.                                    *)

Execute(new, writes) ==
    /\ mem' = new
    /\ tx' = (tx \/ writes)
    /\ disk' = IF tx \/ writes THEN disk ELSE new

Tables(t) == [mem EXCEPT !.tables = t]
Has(name) == name \in DOMAIN mem.tables
With(tables, name, table) ==
    [t \in DOMAIN tables \cup {name} |-> IF t = name THEN table ELSE tables[t]]
Without(name) == Restrict(mem.tables, DOMAIN mem.tables \ {name})

\* Statement at point from, with which the program goes on at point to.
Step(from, to, new, writes) ==
    /\ pc = from /\ pc' = to
    /\ Execute(new, writes)
    /\ UNCHANGED <<owned, unopened, crashes>>
Statement(from, to, new, writes) == Step(from, to, new, writes) /\ UNCHANGED child

StartProcess ==
    /\ pc = "down"
    /\ pc' = "tables" /\ child' = 1 /\ mem' = disk /\ tx' = FALSE /\ unopened' = {}
    /\ UNCHANGED <<disk, owned, crashes>>

\* The process ends, or get_db gives up on the schema: what is not committed
\* is lost.
Crash ==
    /\ pc # "down" /\ crashes < MaxCrashes
    /\ crashes' = crashes + 1
    /\ pc' = "down" /\ mem' = disk /\ tx' = FALSE
    /\ UNCHANGED <<disk, child, owned, unopened>>

-----------------------------------------------------------------------------
(* init_schema.                                                            *)

CreateTables ==
    Statement("tables", "columns",
              Tables([t \in DOMAIN mem.tables \cup DOMAIN EmptyTables |->
                         IF Has(t) THEN mem.tables[t] ELSE EmptyTables[t]]), FALSE)

\* ALTER TABLE firewalls ADD COLUMN and the like: an error, if the column is
\* there, changes nothing.
AddColumn ==
    /\ pc = "columns"
    /\ \E c \in TableColumns \ mem.tables["firewalls"].cols :
           Statement("columns", "columns",
                     Tables([mem.tables EXCEPT !["firewalls"].cols = @ \cup {c}]), FALSE)
AllColumns ==
    /\ pc = "columns" /\ TableColumns \subseteq mem.tables["firewalls"].cols
    /\ Statement("columns", IF Has("firewalls_old") THEN "repair" ELSE "unique", mem, FALSE)

\* The children of firewalls_old are made anew, one after the other.
RenameChild ==
    /\ pc = "repair" /\ child <= Len(Children)
    /\ LET c == Children[child]
       IN  IF mem.tables[c].parent = "firewalls_old"
           THEN Statement("repair", "create",
                          Tables(With(Without(c), Bak(c), mem.tables[c])), FALSE)
           ELSE Step("repair", "repair", mem, FALSE) /\ child' = child + 1
CreateChild ==
    /\ pc = "create"
    /\ Statement("create", "copy", Tables(With(mem.tables, Children[child], NewTable({}, "firewalls"))), FALSE)
CopyChild ==
    /\ pc = "copy"
    /\ LET c == Children[child]
       IN  Statement("copy", "dropbak",
                     Tables([mem.tables EXCEPT ![c].rows = mem.tables[Bak(c)].rows,
                                               ![c].cols = mem.tables[Bak(c)].cols]), TRUE)
DropBak ==
    /\ pc = "dropbak"
    /\ Step("dropbak", "repair", Tables(Without(Bak(Children[child]))), FALSE)
    /\ child' = child + 1
DropOld ==
    /\ pc = "repair" /\ child > Len(Children)
    /\ Statement("repair", "unique", Tables(Without("firewalls_old")), FALSE)

\* UNIQUE goes away with the old table; an error ends the rebuild.
NothingToDrop ==
    /\ pc = "unique" /\ (~mem.tables["firewalls"].unique \/ Has("firewalls_new"))
    /\ Statement("unique", "times", mem, FALSE)
CreateNew ==
    /\ pc = "unique" /\ mem.tables["firewalls"].unique /\ ~Has("firewalls_new")
    /\ Statement("unique", "widen", Tables(With(mem.tables, "firewalls_new", NewTable(NewColumns, "none"))), FALSE)
WidenNew ==
    /\ pc = "widen"
    /\ Statement("widen", "copynew",
                 Tables([mem.tables EXCEPT !["firewalls_new"].cols =
                            @ \cup mem.tables["firewalls"].cols]), FALSE)
CopyNew ==
    /\ pc = "copynew"
    /\ Statement("copynew", "drop",
                 Tables([mem.tables EXCEPT !["firewalls_new"].rows =
                            mem.tables["firewalls"].rows]), TRUE)
DropFirewalls ==
    /\ pc = "drop"
    /\ Statement("drop", "rename", Tables(Without("firewalls")), FALSE)
RenameNew ==
    /\ pc = "rename"
    /\ Statement("rename", "times",
                 Tables(With(Without("firewalls_new"), "firewalls", mem.tables["firewalls_new"])),
                 FALSE)

\* Times of the versions that stored UTC, once: the flag tells.
ToLocalTime(time) == IF time = "utc" THEN "local" ELSE "twice"
TimesAreLocal ==
    /\ pc = "times" /\ mem.flag
    /\ Statement("times", "commit", mem, FALSE)
ConvertTimes ==
    /\ pc = "times" /\ ~mem.flag
    /\ Statement("times", "flag",
                 [mem EXCEPT !.times = [t \in Dated |-> {ToLocalTime(x) : x \in @[t]}]], TRUE)
SetFlag ==
    /\ pc = "flag"
    /\ Statement("flag", "commit", [mem EXCEPT !.flag = TRUE], TRUE)

Commit ==
    /\ pc = "commit" /\ pc' = "stale"
    /\ disk' = mem /\ tx' = FALSE
    /\ UNCHANGED <<mem, child, owned, unopened, crashes>>

-----------------------------------------------------------------------------
(* The repairs after it, each a transaction; one that fails is left out.   *)

\* Faulty variant: switches only.
ResetSwitches(status) == [status EXCEPT !["switches"] = IF @ = "collecting" THEN "failed" ELSE @]
ResetStale(status) == [k \in OwnedKinds |-> IF status[k] = "collecting" THEN "failed" ELSE status[k]]

Repair(from, to, new) ==
    /\ pc = from /\ pc' = to
    /\ \/ mem' = new /\ disk' = new /\ UNCHANGED unopened
       \/ unopened' = unopened \cup {from} /\ UNCHANGED <<mem, disk>>
    /\ UNCHANGED <<tx, child, owned, crashes>>
ResetCollecting == Repair("stale", "vendors", [mem EXCEPT !.status = ResetStale(@)])
NormalizeVendors == Repair("vendors", "ready", [mem EXCEPT !.vendor = "canonical"])

-----------------------------------------------------------------------------
(* A primary at work, in short transactions.                               *)

Working(new) ==
    /\ pc = "ready" /\ mem' = new /\ disk' = new
    /\ UNCHANGED <<tx, pc, child, unopened, crashes>>
Register(id) ==
    /\ pc = "ready" /\ id \notin mem.tables["firewalls"].rows
    /\ Working([mem EXCEPT !.tables["firewalls"].rows = @ \cup {id}, !.vendor = "alias",
                           !.times = [t \in Dated |-> @[t] \cup {"local"}]])
    /\ owned' = [owned EXCEPT !["firewalls"] = @ \cup {id}]
CollectionStarts(k) ==
    /\ Working([mem EXCEPT !.status[k] = "collecting"]) /\ UNCHANGED owned
CollectionEnds(k) ==
    /\ pc = "ready" /\ mem.status[k] = "collecting"
    /\ Working([mem EXCEPT !.status[k] = "ok"]) /\ UNCHANGED owned

StartupNext ==
    \/ StartProcess \/ Crash
    \/ CreateTables \/ AddColumn \/ AllColumns
    \/ RenameChild \/ CreateChild \/ CopyChild \/ DropBak \/ DropOld
    \/ NothingToDrop \/ CreateNew \/ WidenNew \/ CopyNew \/ DropFirewalls \/ RenameNew
    \/ TimesAreLocal \/ ConvertTimes \/ SetFlag \/ Commit
    \/ ResetCollecting \/ NormalizeVendors
    \/ \E id \in FirewallIds : Register(id)
    \/ \E k \in OwnedKinds : CollectionStarts(k) \/ CollectionEnds(k)

StartupSpec == StartupInit /\ [][StartupNext]_startVars
-----------------------------------------------------------------------------
(* Properties.                                                             *)

StartupTypeOK ==
    /\ DOMAIN disk.tables \subseteq
           {"firewalls", "firewalls_new", "firewalls_old", "interfaces", "arp",
            "interfaces_bak", "arp_bak"}
    /\ \A t \in DOMAIN disk.tables : disk.tables[t].rows \subseteq FirewallIds
    /\ ~tx => mem = disk
    /\ pc \in {"down", "ready"} => ~tx
    /\ child \in 1..(Len(Children) + 1) /\ crashes \in 0..MaxCrashes
    /\ unopened \subseteq {"stale", "vendors"}

\* At no point of the rebuild is a registered firewall, or a column of it,
\* gone from the committed database, and the rows of a child are in the child
\* or in the copy of it, wherever a process ended and however often.
FirewallsAreKept ==
    /\ "firewalls" \in DOMAIN disk.tables => owned["firewalls"] \subseteq disk.tables["firewalls"].rows
    /\ owned["firewalls"] # {} => "firewalls" \in DOMAIN disk.tables
    /\ \A c \in {"interfaces", "arp"} :
           owned[c] \subseteq UNION {disk.tables[t].rows : t \in {c, Bak(c)} \cap DOMAIN disk.tables}
    /\ pc = "ready" => TableColumns \subseteq disk.tables["firewalls"].cols

\* No time is shifted twice, although the conversion has no way to tell which
\* times it converted, and none is left once the flag is set.
TimesAreConvertedOnce ==
    \A t \in Dated : "twice" \notin disk.times[t] /\ (disk.flag => "utc" \notin disk.times[t])

\* A primary starts to work on a database in which nobody collects and the
\* vendors have one name each, unless just that repair failed; the rebuild
\* is done, unless a process ended in the middle of it.
ReadyIsRepaired ==
    [][pc # "ready" /\ pc' = "ready" =>
         LET db == disk'
         IN  /\ "stale" \notin unopened' => \A k \in OwnedKinds : db.status[k] # "collecting"
             /\ "vendors" \notin unopened' => db.vendor = "canonical"
             /\ db.flag /\ "firewalls_old" \notin DOMAIN db.tables
             /\ \A c \in {"interfaces", "arp"} : db.tables[c].parent = "firewalls"
             /\ db.tables["firewalls"].unique => "firewalls_new" \in DOMAIN db.tables
             /\ crashes = 0 => DOMAIN db.tables = {"firewalls", "interfaces", "arp"}]_startVars

\* Whenever a process ends, the migrations lose nothing, shift no time twice,
\* and a later start completes them.
StartupSafety ==
    /\ [](/\ FirewallsAreKept /\ TimesAreConvertedOnce)
    /\ ReadyIsRepaired
=============================================================================
