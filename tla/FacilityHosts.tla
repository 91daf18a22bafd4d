---------------------------- MODULE FacilityHosts ----------------------------
(***************************************************************************)
(* The table facility_hosts and the jobs that rewrite it.  Each of them    *)
(* reads rows, works on its copy (pings, MAC tables, for seconds or for    *)
(* minutes) and writes the copy back in one transaction, and none of them  *)
(* looks whether the rows have changed in the meantime.  A host is one     *)
(* address; the same address may be stored under several notations of its  *)
(* band (10.0.0.0/24, 10.0.0.0/22).                                        *)
(***************************************************************************)
EXTENDS Integers, FiniteSets

CONSTANTS
    Notations,          \* notations of the band
    Hosts,              \* addresses of the band
    MaxRewrites         \* bound: jobs begun

ASSUME HostsAssumption == Notations # {} /\ MaxRewrites \in Nat

VARIABLES
    rows,               \* facility_hosts: online of each (subnet, ip)
    told,               \* the last event about a host
    scan,               \* a band scan: where it is, its subnet, its copy
    recheck,            \* recollect_single_host / recollect_offline_facility
    monitor,            \* monitor_known_hosts / rematch
    stale,              \* history: hosts written from an outdated copy, or
                        \* made by a recheck after their row had gone
    unheard,            \* history: offline hosts that are not announced so,
                        \* since a recheck took them for offline already or
                        \* the write behind their last event failed
    rewrites

hostVars == <<rows, told, scan, recheck, monitor, stale, unheard, rewrites>>

Keys == Notations \X Hosts
Online == {"absent", "on", "off"}
Table == [Keys -> Online]
Empty == [k \in Keys |-> "absent"]

HostTypeOK ==
    /\ rows \in Table
    /\ told \in [Hosts -> {"none", "on", "off"}]
    /\ scan \in [at : {"idle", "sweep", "write"}, band : Notations, copy : Table]
    /\ recheck \in [at : {"idle", "probe", "write"}, band : Notations, copy : Table,
                    asked : SUBSET Hosts, single : BOOLEAN]
    /\ monitor \in [at : {"idle", "read", "write"}, copy : Table]
    /\ stale \subseteq Hosts
    /\ unheard \subseteq {h \in Hosts : \E b \in Notations : rows[b, h] = "off"}
    /\ rewrites \in 0..MaxRewrites

\* Rows b holds of its hosts, each announced; c is the band of the last jobs.
HostFrom(b, s, c) ==
    /\ rows = [k \in Keys |-> IF k[1] = b THEN s[k[2]] ELSE "absent"]
    /\ told = s
    /\ scan = [at |-> "idle", band |-> c, copy |-> Empty]
    /\ recheck = [at |-> "idle", band |-> c, copy |-> Empty, asked |-> {}, single |-> FALSE]
    /\ monitor = [at |-> "idle", copy |-> Empty]
    /\ stale = {} /\ unheard = {}
    /\ rewrites = 0

HostInit ==
    \E b, c \in Notations : \E s \in [Hosts -> {"on", "off"}] : HostFrom(b, s, c)

Begin == rewrites < MaxRewrites /\ rewrites' = rewrites + 1

Stored(table, h) == {b \in Notations : table[b, h] # "absent"}
BandOf(table, b) == [k \in Keys |-> IF k[1] = b THEN table[k] ELSE "absent"]
Outdated(copy, bands) == {h \in Hosts : \E b \in bands : rows[b, h] # copy[b, h]}

\* _drop_other_subnet_rows: for every row to be stored, those of the same
\* address under another notation.
OtherNotation(k, list) == \E b \in Notations \ {k[1]} : list[b, k[2]] # "absent"

\* Faulty variant: the delete and the inserts are two transactions, and the
\* second fails.
ReplaceSubnetSplit(b, list) ==
    \/ rows' = [k \in Keys |->
                    IF list[k] # "absent" THEN list[k]
                    ELSE IF k[1] = b \/ OtherNotation(k, list) THEN "absent" ELSE rows[k]]
    \/ rows' = [k \in Keys |-> IF k[1] = b THEN "absent" ELSE rows[k]]

\* replace_facility_subnet: all rows of the subnet go, and the list, which may
\* hold rows of other subnets, is stored.
ReplaceSubnet(b, list) ==
    rows' = [k \in Keys |->
                IF list[k] # "absent" THEN list[k]
                ELSE IF k[1] = b \/ OtherNotation(k, list) THEN "absent" ELSE rows[k]]

\* save_facility_hosts: nothing is deleted but other notations.
SaveHosts(list) ==
    rows' = [k \in Keys |->
                IF list[k] # "absent" THEN list[k]
                ELSE IF OtherNotation(k, list) THEN "absent" ELSE rows[k]]

Remember(outdated, silent) ==
    /\ stale' = stale \cup outdated
    /\ unheard' = {h \in unheard \cup silent : \E b \in Notations : rows'[b, h] = "off"}

-----------------------------------------------------------------------------
(* collect_band and _apply_scan; _status keeps one scan at a time.         *)

ScanBegin(b) ==
    /\ Begin
    /\ scan.at = "idle"
    /\ scan' = [scan EXCEPT !.at = "sweep", !.band = b]
    /\ UNCHANGED <<rows, told, recheck, monitor, stale, unheard>>

ScanRead ==
    /\ scan.at = "sweep"
    /\ scan' = [scan EXCEPT !.at = "write", !.copy = BandOf(rows, scan.band)]
    /\ UNCHANGED <<rows, told, recheck, monitor, stale, unheard, rewrites>>

\* What the sweep found out of each host: it answered, it is silent, silent
\* but alive in a MAC table, or it was not pinged after a stop or a lost
\* session.
Evidence == [Hosts -> {"answer", "silent", "alive", "unscanned"}]

Verdict(e, before) ==
    CASE e = "answer" -> "on"
      [] e # "answer" /\ before = "absent" -> "absent"
      [] e = "silent" /\ before # "absent" -> "off"
      [] e = "alive" /\ before # "absent" -> "on"
      [] OTHER -> before

ScanList(e) ==
    [k \in Keys |-> IF k[1] = scan.band THEN Verdict(e[k[2]], scan.copy[k]) ELSE "absent"]

ScanEvent(e, h) ==
    LET before == scan.copy[scan.band, h] IN
    IF e[h] = "answer" /\ before # "on" THEN "on"
    ELSE IF e[h] = "silent" /\ before = "on" THEN "off" ELSE told[h]

\* Events first, then the transaction, which may fail.
ScanWrite ==
    /\ scan.at = "write"
    /\ \E e \in Evidence :
          /\ told' = [h \in Hosts |-> ScanEvent(e, h)]
          /\ \/ /\ ReplaceSubnet(scan.band, ScanList(e))
                /\ Remember(Outdated(scan.copy, {scan.band}), {})
             \/ UNCHANGED rows /\ Remember({}, {h \in Hosts : e[h] = "answer"})
    /\ scan' = [scan EXCEPT !.at = "idle", !.copy = Empty]
    /\ UNCHANGED <<recheck, monitor, rewrites>>

-----------------------------------------------------------------------------
(* recollect_single_host, recollect_offline_facility, _apply_host_results. *)

\* The bulk recheck asks for the hosts that are offline now.
RecheckBegin(b) ==
    /\ Begin
    /\ recheck.at = "idle"
    /\ \E h \in Hosts, single \in BOOLEAN :
          LET asked == IF single THEN {h} ELSE {g \in Hosts : rows[b, g] = "off"} IN
          /\ asked # {}
          /\ recheck' = [recheck EXCEPT !.at = "probe", !.band = b, !.asked = asked,
                                        !.single = single]
    /\ UNCHANGED <<rows, told, scan, monitor, stale, unheard>>

\* The pings over SSH are over; the table is read again, with all its bands.
RecheckRead ==
    /\ recheck.at = "probe"
    /\ recheck' = [recheck EXCEPT !.at = "write", !.copy = rows]
    /\ UNCHANGED <<rows, told, scan, monitor, stale, unheard, rewrites>>

\* The recheck of one host tells both directions, the bulk one recoveries.
RecheckEvent(h, found) ==
    LET before == recheck.copy[recheck.band, h] IN
    IF h \in found /\ before # "on" THEN "on"
    ELSE IF recheck.single /\ h \in recheck.asked \ found /\ before = "on" THEN "off"
    ELSE told[h]

\* A host whose row is gone under this notation gets a new one.
RecheckWrite ==
    /\ recheck.at = "write"
    /\ \E found \in SUBSET recheck.asked :
          /\ ReplaceSubnet(recheck.band,
                [k \in Keys |-> IF k[1] = recheck.band /\ k[2] \in recheck.asked
                                THEN (IF k[2] \in found THEN "on" ELSE "off")
                                ELSE recheck.copy[k]])
          /\ told' = [h \in Hosts |-> RecheckEvent(h, found)]
          /\ Remember(Outdated(recheck.copy, Notations)
                        \cup {h \in recheck.asked : recheck.copy[recheck.band, h] = "absent"},
                      {h \in recheck.asked \ found :
                          ~recheck.single /\ recheck.copy[recheck.band, h] = "on"})
    /\ recheck' = [recheck EXCEPT !.at = "idle", !.copy = Empty, !.asked = {}]
    /\ UNCHANGED <<scan, monitor, rewrites>>

-----------------------------------------------------------------------------
(* monitor_known_hosts, rematch and the requests that delete rows.         *)

\* Asked once, before the MAC tables are read.
MonitorBegin ==
    /\ Begin
    /\ monitor.at = "idle" /\ scan.at = "idle"
    /\ monitor' = [monitor EXCEPT !.at = "read"]
    /\ UNCHANGED <<rows, told, scan, recheck, stale, unheard>>

MonitorRead ==
    /\ monitor.at = "read"
    /\ monitor' = [monitor EXCEPT !.at = "write", !.copy = rows]
    /\ UNCHANGED <<rows, told, scan, recheck, stale, unheard, rewrites>>

\* The subnets with a host that is back or lost are replaced, then the hosts
\* are announced, also those whose subnet could not be saved.
MonitorWrite ==
    /\ monitor.at = "write"
    /\ \E b \in Notations, turned \in SUBSET Hosts :
          /\ \A h \in turned : monitor.copy[b, h] # "absent"
          /\ turned # {}
          /\ LET after(h) == IF monitor.copy[b, h] = "on" THEN "off" ELSE "on" IN
             /\ \/ /\ ReplaceSubnet(b, [k \in Keys |->
                        IF k[1] # b THEN "absent"
                        ELSE IF k[2] \in turned THEN after(k[2]) ELSE monitor.copy[k]])
                   /\ Remember(Outdated(monitor.copy, {b}), {})
                \/ UNCHANGED rows /\ Remember({}, turned)
             /\ told' = [h \in Hosts |-> IF h \in turned THEN after(h) ELSE told[h]]
    /\ monitor' = [at |-> "idle", copy |-> Empty]
    /\ UNCHANGED <<scan, recheck, rewrites>>

\* rematch writes every host it read with the online it read.
RematchWrite ==
    /\ monitor.at = "write"
    /\ SaveHosts(monitor.copy)
    /\ Remember(Outdated(monitor.copy, Notations), {})
    /\ monitor' = [at |-> "idle", copy |-> Empty]
    /\ UNCHANGED <<told, scan, recheck, rewrites>>

DeleteHost(h) ==
    /\ Begin
    /\ rows' = [k \in Keys |-> IF k[2] = h THEN "absent" ELSE rows[k]]
    /\ Remember({}, {})
    /\ UNCHANGED <<told, scan, recheck, monitor>>

\* dedupe_facility_by_ip keeps the row that was updated last.
Dedupe ==
    /\ \E h \in Hosts : Cardinality(Stored(rows, h)) > 1
    /\ \E keep \in [Hosts -> Notations] :
          /\ \A h \in Hosts : Stored(rows, h) # {} => keep[h] \in Stored(rows, h)
          /\ rows' = [k \in Keys |-> IF keep[k[2]] = k[1] THEN rows[k] ELSE "absent"]
    /\ Remember({}, {})
    /\ UNCHANGED <<told, scan, recheck, monitor, rewrites>>

-----------------------------------------------------------------------------
HostNext ==
    \/ \E b \in Notations : ScanBegin(b) \/ RecheckBegin(b)
    \/ ScanRead \/ ScanWrite \/ RecheckRead \/ RecheckWrite
    \/ MonitorBegin \/ MonitorRead \/ MonitorWrite \/ RematchWrite
    \/ \E h \in Hosts : DeleteHost(h)
    \/ Dedupe

HostSpec == HostInit /\ [][HostNext]_hostVars

-----------------------------------------------------------------------------
(* Properties.                                                             *)

\* A host has one line in the table, whatever notation its band was collected
\* under: only an outdated copy, or a recheck of a host whose row had gone to
\* the other notation, makes a second line, until the next dedupe.
OneLinePerHost ==
    \A h \in Hosts \ stale : Cardinality(Stored(rows, h)) <= 1

\* A host that the table shows offline was announced offline: unless its row
\* came from an outdated copy, the write of its recovery failed, or a bulk
\* recheck that began while it was offline found it silent after it had come
\* back in between.
OutageIsAnnounced ==
    \A h \in Hosts \ (stale \cup unheard) :
        (\E b \in Notations : rows[b, h] = "off") => told[h] = "off"

\* A host disappears from the table when a user deletes it; a job that works
\* with an up to date copy loses none, also when its write fails.
HostsAreKept ==
    [][\A h \in Hosts :
          Stored(rows, h) # {} /\ Stored(rows', h) = {}
              => h \in stale' \/ rewrites' > rewrites]_hostVars

\* What the jobs that rewrite the table keep in spite of each other.
HostSafety ==
    /\ [](/\ OneLinePerHost /\ OutageIsAnnounced)
    /\ HostsAreKept
=============================================================================
