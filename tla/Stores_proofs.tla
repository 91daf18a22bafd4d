--------------------------- MODULE Stores_proofs ---------------------------
(***************************************************************************)
(* Proofs about what is read from devices and what the database layer      *)
(* keeps and serves of it, about the registered devices and the racks they *)
(* are in, and about a start of the primary, which migrates the database:  *)
(* for any set of firewalls and any number of processes that end half way, *)
(* by an inductive invariant that says, for each statement of the          *)
(* migration, what the connection sees and what is committed.              *)
(***************************************************************************)
EXTENDS MacCache, FacilityHosts, SwitchStore, ConfigBackups, SnmpWalk, MetricsPoller,
        ServerSpecs, Registry, RackRoom, Startup, FiniteSetTheorems, TLAPS

-----------------------------------------------------------------------------
(* The two caches over the MAC history.                                    *)

\* What the history promises was in the database when it was promised.
FloorsAreReached ==
    /\ floor \in [macs : 0..macVersion, links : 0..linkFloor]
    /\ linkFloor \in 0..linkVersion

\* What a build has read so far may be stored: a set of uplinks that is still
\* to be kept is as new as the next such set must be, and what goes into the
\* map as new as the map must be.
BuildsAreCurrent ==
    \A p \in Fillers :
        /\ fill[p].at = "uplinks" => fill[p].links >= linkFloor
        /\ fill[p].at \in {"macs", "store"} => fill[p].links >= floor.links
        /\ fill[p].at = "store" => fill[p].macs >= floor.macs

CacheIInv ==
    CacheTypeOK /\ FloorsAreReached /\ BuildsAreCurrent
        /\ NothingOlderIsServed /\ RefreshHasAThread

LEMMA CacheInitial == CacheInit => CacheIInv
<1> SUFFICES ASSUME CacheInit PROVE CacheIInv
    OBVIOUS
<1> USE CacheAssumption DEF CacheInit, NotCached, NoMap, NotFilling, Versions
<1>1. CacheTypeOK
  <2>1. NotCached \in Versions /\ 0 \in Versions
    OBVIOUS
  <2>2. NotFilling \in [at : {"idle", "links", "uplinks", "macs", "store"},
                        links : Versions, macs : Versions]
    BY <2>1
  <2>3. lastSeen \in [macs : Versions, links : Versions, refreshing : BOOLEAN]
    BY <2>1
  <2>4. uplinks \in Versions /\ macVersion \in 0..MaxVersions /\ linkVersion \in 0..MaxVersions
    OBVIOUS
  <2> QED
    BY <2>2, <2>3, <2>4 DEF CacheTypeOK
<1>2. FloorsAreReached
  BY DEF FloorsAreReached
<1>3. BuildsAreCurrent
  BY DEF BuildsAreCurrent
<1>4. NothingOlderIsServed /\ RefreshHasAThread
  BY DEF NothingOlderIsServed, RefreshHasAThread
<1> QED
  BY <1>1, <1>2, <1>3, <1>4 DEF CacheIInv

LEMMA CacheStep == CacheIInv /\ [CacheNext]_cacheVars => CacheIInv'
<1> SUFFICES ASSUME CacheIInv, [CacheNext]_cacheVars PROVE CacheIInv'
    OBVIOUS
<1> USE CacheAssumption
    DEF CacheIInv, CacheTypeOK, FloorsAreReached, BuildsAreCurrent,
       NothingOlderIsServed, RefreshHasAThread, NoMap, NotCached, NotFilling, Versions
<1>1. CASE StoreMacs
  BY <1>1 DEF StoreMacs
<1>2. CASE DropMap
  BY <1>2 DEF DropMap
<1>3. CASE DropRest
  <2>0. NotCached \in Versions
    OBVIOUS
  <2>1. CacheTypeOK'
    BY <1>3, <2>0 DEF DropRest, DropUplinks
  <2>2. linkFloor' \in 0..linkVersion' /\ linkFloor' >= linkFloor
    BY <1>3 DEF DropRest, DropUplinks
  <2>3. FloorsAreReached'
    <3>1. CASE floor' = floor
      BY <1>3, <2>2, <3>1 DEF DropRest
    <3>2. CASE Quiet /\ floor' = [macs |-> macVersion, links |-> linkVersion]
      <4>1. linkFloor' = linkVersion
        BY <1>3, <3>2 DEF DropRest, DropUplinks, NoUplinkFill, Quiet
      <4> QED
        BY <1>3, <3>2, <4>1 DEF DropRest
    <3> QED
      BY <1>3, <3>1, <3>2 DEF DropRest
  <2>4. BuildsAreCurrent'
    BY <1>3 DEF DropRest, DropUplinks, NoUplinkFill, Quiet
  <2>5. NothingOlderIsServed'
    BY <1>3 DEF DropRest, DropUplinks
  <2>6. RefreshHasAThread'
    BY <1>3 DEF DropRest
  <2> QED
    BY <2>1, <2>3, <2>4, <2>5, <2>6
<1>4. CASE StoreLinks
  BY <1>4 DEF StoreLinks, NoUplinkFill
<1>5. ASSUME NEW p \in Fillers, FirstCall(p) PROVE CacheIInv'
  BY <1>5 DEF FirstCall, StartFill
<1>6. ASSUME NEW p \in Fillers, ExpiredCall(p) PROVE CacheIInv'
  BY <1>6 DEF ExpiredCall, StartFill
<1>7. ASSUME NEW p \in Fillers, GetUplinks(p) PROVE CacheIInv'
  BY <1>7 DEF GetUplinks
<1>8. ASSUME NEW p \in Fillers, KeepUplinks(p) PROVE CacheIInv'
  BY <1>8 DEF KeepUplinks
<1>9. ASSUME NEW p \in Fillers, ReadMacRows(p) PROVE CacheIInv'
  BY <1>9 DEF ReadMacRows
<1>10. ASSUME NEW p \in Fillers, KeepMap(p) PROVE CacheIInv'
  BY <1>10 DEF KeepMap
<1>11. ASSUME NEW p \in Fillers, FillFails(p) PROVE CacheIInv'
  <2>1. lastSeen' \in [macs : Versions, links : Versions, refreshing : BOOLEAN]
        /\ lastSeen'.macs = lastSeen.macs /\ lastSeen'.links = lastSeen.links
        /\ (lastSeen'.refreshing => lastSeen.refreshing)
        /\ (p \in Refreshers => ~lastSeen'.refreshing)
        /\ (lastSeen' # NoMap => lastSeen # NoMap)
    <3>1. CASE p \in Refreshers
      <4>1. lastSeen' = [lastSeen EXCEPT !.refreshing = FALSE]
        BY <1>11, <3>1 DEF FillFails, GiveUp
      <4>2. lastSeen' \in [macs : Versions, links : Versions, refreshing : BOOLEAN]
            /\ lastSeen'.macs = lastSeen.macs /\ lastSeen'.links = lastSeen.links
            /\ ~lastSeen'.refreshing
        BY <4>1
      <4>3. ASSUME lastSeen = NoMap PROVE lastSeen' = NoMap
        <5>1. lastSeen.macs = NotCached /\ lastSeen.links = NotCached
          BY <4>3
        <5> QED
          BY ONLY <4>2, <5>1 DEF NoMap
      <4> HIDE DEF NoMap
      <4> QED
        BY <3>1, <4>2, <4>3
    <3>2. CASE p \notin Refreshers
      BY <1>11, <3>2 DEF FillFails, GiveUp
    <3> QED
      BY <3>1, <3>2
  <2>2. /\ fill' = [fill EXCEPT ![p] = NotFilling]
        /\ UNCHANGED <<macVersion, linkVersion, uplinks, popped, floor, linkFloor>>
    BY <1>11 DEF FillFails
  <2>3. CacheTypeOK' /\ FloorsAreReached' /\ BuildsAreCurrent'
    BY <2>1, <2>2
  <2>4. NothingOlderIsServed'
    BY <2>1, <2>2
  <2>5. RefreshHasAThread'
    BY <2>1, <2>2
  <2> QED
    BY <2>3, <2>4, <2>5
<1>12. CASE UNCHANGED cacheVars
  BY <1>12 DEF cacheVars
<1> QED
  BY <1>1, <1>2, <1>3, <1>4, <1>5, <1>6, <1>7, <1>8, <1>9, <1>10, <1>11, <1>12 DEF CacheNext

\* Whatever the number of requests, refreshes and stored snapshots, neither
\* cache holds anything older than an invalidation that no build was overtaken
\* by, and an entry marked as being refreshed has a thread that renews it
\* (get_mac_last_seen, uplinks_for and the invalidations).
THEOREM CachesAreSafe == CacheSpec => []CacheSafety
<1>1. CacheIInv => CacheSafety
  BY DEF CacheIInv, CacheSafety
<1> QED
  BY CacheInitial, CacheStep, <1>1, PTL DEF CacheSpec

-----------------------------------------------------------------------------
(* The hosts of the facilities.                                            *)

\* A host that no outdated copy was written over has one line.
OneLine ==
    \A h \in Hosts \ stale : \A b, c \in Notations :
        rows[b, h] # "absent" /\ rows[c, h] # "absent" => b = c

HostIInv == HostTypeOK /\ OneLine /\ OutageIsAnnounced

\* What a step may not do to the lines of host h.
KeepsHost(h) ==
    Stored(rows, h) # {} /\ Stored(rows', h) = {} => h \in stale' \/ rewrites' > rewrites

HasRow(list, h) == \E c \in Notations : list[c, h] # "absent"

\* The lines of a host after replace_facility_subnet: those of the list, if it
\* has any; else only that of the subnet is gone.
LEMMA Replaced ==
    ASSUME rows \in Table, NEW b \in Notations, NEW list \in Table, ReplaceSubnet(b, list)
    PROVE  /\ rows' \in Table
           /\ \A h \in Hosts, c \in Notations :
                  rows'[c, h] = IF HasRow(list, h) THEN list[c, h]
                                ELSE IF c = b THEN "absent" ELSE rows[c, h]
<1>1. \A k \in Keys :
          rows'[k] = IF list[k] # "absent" THEN list[k]
                     ELSE IF k[1] = b \/ OtherNotation(k, list) THEN "absent" ELSE rows[k]
  BY DEF ReplaceSubnet
<1>2. rows' \in Table
  BY DEF ReplaceSubnet, Table, Online
<1>3. ASSUME NEW h \in Hosts, NEW c \in Notations
      PROVE  rows'[c, h] = IF HasRow(list, h) THEN list[c, h]
                           ELSE IF c = b THEN "absent" ELSE rows[c, h]
  <2>1. <<c, h>> \in Keys /\ <<c, h>>[1] = c /\ <<c, h>>[2] = h
    BY DEF Keys
  <2>2. rows'[c, h] = IF list[c, h] # "absent" THEN list[c, h]
                      ELSE IF c = b \/ OtherNotation(<<c, h>>, list) THEN "absent" ELSE rows[c, h]
    BY <1>1, <2>1
  <2>3. OtherNotation(<<c, h>>, list) <=> \E d \in Notations \ {c} : list[d, h] # "absent"
    BY <2>1 DEF OtherNotation
  <2> QED
    BY <2>2, <2>3 DEF HasRow
<1> QED
  BY <1>2, <1>3

\* The same of save_facility_hosts, which deletes no subnet.
LEMMA SavedLines ==
    ASSUME rows \in Table, NEW list \in Table, SaveHosts(list)
    PROVE  /\ rows' \in Table
           /\ \A h \in Hosts, c \in Notations :
                  rows'[c, h] = IF HasRow(list, h) THEN list[c, h] ELSE rows[c, h]
<1>1. \A k \in Keys :
          rows'[k] = IF list[k] # "absent" THEN list[k]
                     ELSE IF OtherNotation(k, list) THEN "absent" ELSE rows[k]
  BY DEF SaveHosts
<1>2. rows' \in Table
  BY DEF SaveHosts, Table, Online
<1>3. ASSUME NEW h \in Hosts, NEW c \in Notations
      PROVE  rows'[c, h] = IF HasRow(list, h) THEN list[c, h] ELSE rows[c, h]
  <2>1. <<c, h>> \in Keys /\ <<c, h>>[1] = c /\ <<c, h>>[2] = h
    BY DEF Keys
  <2>2. rows'[c, h] = IF list[c, h] # "absent" THEN list[c, h]
                      ELSE IF OtherNotation(<<c, h>>, list) THEN "absent" ELSE rows[c, h]
    BY <1>1, <2>1
  <2>3. OtherNotation(<<c, h>>, list) <=> \E d \in Notations \ {c} : list[d, h] # "absent"
    BY <2>1 DEF OtherNotation
  <2> QED
    BY <2>2, <2>3 DEF HasRow
<1> QED
  BY <1>2, <1>3

\* What is remembered of a write; a host is heard of again when no line of it
\* is offline.
LEMMA Remembered ==
    ASSUME NEW outdated \in SUBSET Hosts, NEW silent \in SUBSET Hosts,
           Remember(outdated, silent), stale \subseteq Hosts, unheard \subseteq Hosts
    PROVE  /\ stale' = stale \cup outdated /\ stale' \subseteq Hosts
           /\ unheard' \subseteq {h \in Hosts : \E b \in Notations : rows'[b, h] = "off"}
           /\ \A h \in Hosts \ unheard' :
                  (\E b \in Notations : rows'[b, h] = "off") => h \notin unheard \cup silent
BY DEF Remember

\* A write keeps the invariant, if it does the following to the lines and the
\* announcement of each host that it is not outdated about.
LEMMA HostWrite ==
    ASSUME HostIInv, NEW outdated \in SUBSET Hosts, NEW silent \in SUBSET Hosts,
           Remember(outdated, silent),
           rows' \in Table, told' \in [Hosts -> {"none", "on", "off"}],
           scan' \in [at : {"idle", "sweep", "write"}, band : Notations, copy : Table],
           recheck' \in [at : {"idle", "probe", "write"}, band : Notations, copy : Table,
                         asked : SUBSET Hosts, single : BOOLEAN],
           monitor' \in [at : {"idle", "read", "write"}, copy : Table],
           rewrites' \in 0..MaxRewrites,
           \A h \in Hosts \ (stale \cup outdated) :
              /\ \A b, c \in Notations :
                    rows'[b, h] # "absent" /\ rows'[c, h] # "absent" => b = c
              /\ h \notin silent /\ (\E b \in Notations : rows'[b, h] = "off") =>
                    \/ told'[h] = "off"
                    \/ (\E b \in Notations : rows[b, h] = "off") /\ told'[h] = told[h]
              /\ Stored(rows, h) # {} /\ Stored(rows', h) = {} => rewrites' > rewrites
    PROVE  HostIInv' /\ \A h \in Hosts : KeepsHost(h)
<1>1. stale \subseteq Hosts /\ unheard \subseteq Hosts
  BY DEF HostIInv, HostTypeOK
<1>2. /\ stale' = stale \cup outdated /\ stale' \subseteq Hosts
      /\ unheard' \subseteq {h \in Hosts : \E b \in Notations : rows'[b, h] = "off"}
      /\ \A h \in Hosts \ unheard' :
             (\E b \in Notations : rows'[b, h] = "off") => h \notin unheard \cup silent
  BY <1>1, Remembered
<1>3. OneLine'
  BY <1>2 DEF OneLine
<1>4. OutageIsAnnounced'
  BY <1>2 DEF OutageIsAnnounced, HostIInv
<1>5. HostTypeOK'
  BY <1>2 DEF HostTypeOK
<1>6. \A h \in Hosts : KeepsHost(h)
  BY <1>2 DEF KeepsHost
<1> QED
  BY <1>3, <1>4, <1>5, <1>6 DEF HostIInv

LEMMA HostInitial == HostInit => HostIInv
<1> SUFFICES ASSUME NEW b \in Notations, NEW c \in Notations,
                    NEW s \in [Hosts -> {"on", "off"}], HostFrom(b, s, c)
             PROVE  HostIInv
    BY DEF HostInit
<1>1. HostTypeOK
  BY HostsAssumption
     DEF HostFrom, HostTypeOK, Table, Online, Empty, Keys
<1>2. \A h \in Hosts, d \in Notations : rows[d, h] = IF d = b THEN s[h] ELSE "absent"
  BY DEF HostFrom, Keys
<1>3. told = s /\ \A h \in Hosts : s[h] # "absent"
  BY DEF HostFrom
<1>4. OneLine
  BY <1>2 DEF OneLine
<1>5. OutageIsAnnounced
  BY <1>2, <1>3 DEF OutageIsAnnounced
<1> QED
  BY <1>1, <1>4, <1>5 DEF HostIInv

\* A step that begins a job or reads the table.
LEMMA HostRead ==
    ASSUME HostIInv, UNCHANGED <<rows, told, stale, unheard>>,
           scan' \in [at : {"idle", "sweep", "write"}, band : Notations, copy : Table],
           recheck' \in [at : {"idle", "probe", "write"}, band : Notations, copy : Table,
                         asked : SUBSET Hosts, single : BOOLEAN],
           monitor' \in [at : {"idle", "read", "write"}, copy : Table],
           rewrites' \in 0..MaxRewrites
    PROVE  HostIInv' /\ \A h \in Hosts : KeepsHost(h)
<1>1. HostTypeOK'
  BY DEF HostIInv, HostTypeOK
<1>2. OneLine'
  BY DEF HostIInv, OneLine
<1>4. OutageIsAnnounced'
  BY DEF HostIInv, OutageIsAnnounced
<1>3. \A h \in Hosts : KeepsHost(h)
  BY DEF KeepsHost, Stored
<1> QED
  BY <1>1, <1>2, <1>3, <1>4 DEF HostIInv

LEMMA HostStep ==
    HostIInv /\ [HostNext]_hostVars => HostIInv' /\ \A h \in Hosts : KeepsHost(h)
<1> SUFFICES ASSUME HostIInv, [HostNext]_hostVars
             PROVE  HostIInv' /\ \A h \in Hosts : KeepsHost(h)
    OBVIOUS
<1> DEFINE Goal == HostIInv' /\ \A h \in Hosts : KeepsHost(h)
<1>t. /\ rows \in Table /\ told \in [Hosts -> {"none", "on", "off"}]
      /\ scan \in [at : {"idle", "sweep", "write"}, band : Notations, copy : Table]
      /\ recheck \in [at : {"idle", "probe", "write"}, band : Notations, copy : Table,
                      asked : SUBSET Hosts, single : BOOLEAN]
      /\ monitor \in [at : {"idle", "read", "write"}, copy : Table]
      /\ rewrites \in 0..MaxRewrites /\ MaxRewrites \in Nat
  BY HostsAssumption DEF HostIInv, HostTypeOK
<1>e. Empty \in Table
  BY DEF Empty, Table, Online
<1>k. \A h \in Hosts, b \in Notations : <<b, h>> \in Keys
  BY DEF Keys
<1>b. ASSUME Begin PROVE rewrites' \in 0..MaxRewrites /\ rewrites' > rewrites
  BY <1>b, <1>t DEF Begin
<1>1. ASSUME NEW b \in Notations, ScanBegin(b) PROVE Goal
  BY <1>1, <1>t, <1>b, HostRead DEF ScanBegin
<1>2. ASSUME NEW b \in Notations, RecheckBegin(b) PROVE Goal
  <2>1. PICK h \in Hosts, single \in BOOLEAN :
            recheck' = [recheck EXCEPT !.at = "probe", !.band = b, !.single = single,
                            !.asked = IF single THEN {h} ELSE {g \in Hosts : rows[b, g] = "off"}]
    BY <1>2 DEF RecheckBegin
  <2>2. recheck' \in [at : {"idle", "probe", "write"}, band : Notations, copy : Table,
                      asked : SUBSET Hosts, single : BOOLEAN]
    BY <2>1, <1>t
  <2> QED
    BY <1>2, <2>2, <1>t, <1>b, HostRead DEF RecheckBegin
<1>3. CASE ScanRead
  <2>1. BandOf(rows, scan.band) \in Table
    BY <1>t DEF BandOf, Table, Online
  <2> QED
    BY <1>3, <2>1, <1>t, HostRead DEF ScanRead
<1>4. CASE RecheckRead
  BY <1>4, <1>t, HostRead DEF RecheckRead
<1>5. CASE MonitorBegin
  BY <1>5, <1>t, <1>b, HostRead DEF MonitorBegin
<1>6. CASE MonitorRead
  BY <1>6, <1>t, HostRead DEF MonitorRead
<1>7. CASE ScanWrite
  <2> DEFINE band == scan.band
             copy == scan.copy
             outdated == Outdated(copy, {band})
  <2>1. PICK e \in Evidence :
            /\ told' = [h \in Hosts |-> ScanEvent(e, h)]
            /\ \/ /\ ReplaceSubnet(band, ScanList(e))
                  /\ Remember(outdated, {})
               \/ UNCHANGED rows /\ Remember({}, {h \in Hosts : e[h] = "answer"})
    BY <1>7 DEF ScanWrite
  <2>2. band \in Notations /\ copy \in Table
    BY <1>t
  <2>3. \A h \in Hosts : e[h] \in {"answer", "silent", "alive", "unscanned"}
    BY DEF Evidence
  <2> DEFINE list == ScanList(e)
  <2>4. /\ list \in Table
        /\ \A h \in Hosts, c \in Notations :
               list[c, h] = IF c = band THEN Verdict(e[h], copy[band, h]) ELSE "absent"
    <3>1. \A k \in Keys : k[1] \in Notations /\ k[2] \in Hosts
      BY DEF Keys
    <3>2. \A h \in Hosts, k \in Keys : Verdict(e[h], copy[k]) \in Online
      BY <2>2, <2>3 DEF Verdict, Table, Online
    <3> QED
      BY <3>1, <3>2, <1>k DEF ScanList, Table, Online
  <2>5. \A h \in Hosts :
            /\ told'[h] = ScanEvent(e, h)
            /\ copy[band, h] \in Online
    BY <2>1, <2>2, <1>k DEF Table
  <2>6. told' \in [Hosts -> {"none", "on", "off"}]
    BY <2>1, <1>t DEF ScanEvent
  <2>7. /\ scan' \in [at : {"idle", "sweep", "write"}, band : Notations, copy : Table]
        /\ UNCHANGED <<recheck, monitor, rewrites>>
    BY <1>7, <1>t, <1>e DEF ScanWrite
  <2>8. \A h \in Hosts \ outdated : rows[band, h] = copy[band, h]
    BY DEF Outdated
  <2>9. {} \in SUBSET Hosts /\ outdated \in SUBSET Hosts
        /\ {h \in Hosts : e[h] = "answer"} \in SUBSET Hosts
    BY DEF Outdated
  <2> HIDE DEF list, outdated
  <2>10. ASSUME ReplaceSubnet(band, list), Remember(outdated, {})
         PROVE  Goal
    <3> HIDE DEF Goal, band, copy
    <3>1. /\ rows' \in Table
          /\ \A h \in Hosts, c \in Notations :
                 rows'[c, h] = IF HasRow(list, h) THEN list[c, h]
                               ELSE IF c = band THEN "absent" ELSE rows[c, h]
      <4>1. list \in Table /\ band \in Notations /\ rows \in Table
        BY <1>t, <2>2, <2>4
      <4> QED
        BY ONLY <4>1, <2>10, Replaced
    <3>2. \A h \in Hosts : HasRow(list, h) <=> Verdict(e[h], copy[band, h]) # "absent"
      BY <2>2, <2>4 DEF HasRow
    <3>3. ASSUME NEW h \in Hosts \ (stale \cup outdated)
          PROVE  /\ \A b, c \in Notations :
                        rows'[b, h] # "absent" /\ rows'[c, h] # "absent" => b = c
                 /\ (\E b \in Notations : rows'[b, h] = "off") =>
                        \/ told'[h] = "off"
                        \/ (\E b \in Notations : rows[b, h] = "off") /\ told'[h] = told[h]
                 /\ Stored(rows, h) # {} => Stored(rows', h) # {}
      <4>1. rows[band, h] = copy[band, h] /\ copy[band, h] \in Online
        BY <2>5, <2>8
      <4>2. CASE HasRow(list, h)
        <5>1. \A c \in Notations :
                  rows'[c, h] = IF c = band THEN Verdict(e[h], copy[band, h]) ELSE "absent"
          BY <3>1, <4>2, <2>4
        <5>2. Verdict(e[h], copy[band, h]) # "absent"
          BY <3>2, <4>2
        <5>3. Verdict(e[h], copy[band, h]) = "off" =>
                  ScanEvent(e, h) = "off" \/ (copy[band, h] = "off" /\ ScanEvent(e, h) = told[h])
          BY <4>1, <2>3 DEF Verdict, ScanEvent, Online, band, copy
        <5> QED
          BY <5>1, <5>2, <5>3, <4>1, <2>2, <2>5 DEF Stored
      <4>3. CASE ~HasRow(list, h)
        <5>1. e[h] # "answer" /\ copy[band, h] = "absent"
          BY <3>2, <4>3, <4>1, <2>3 DEF Verdict, Online
        <5>2. \A c \in Notations : rows'[c, h] = rows[c, h]
          BY <3>1, <4>3, <4>1, <5>1
        <5>3. told'[h] = told[h]
          BY <5>1, <2>5 DEF ScanEvent, band, copy
        <5> QED
          BY <5>2, <5>3 DEF Stored, HostIInv, OneLine
      <4> QED
        BY <4>2, <4>3
    <3> QED
      BY <1>t, <2>6, <2>7, <2>9, <2>10, <3>1, <3>3, HostWrite DEF Goal
  <2>11. ASSUME UNCHANGED rows, Remember({}, {h \in Hosts : e[h] = "answer"})
         PROVE  Goal
    <3>1. ASSUME NEW h \in Hosts \ stale
          PROVE  /\ \A b, c \in Notations :
                        rows'[b, h] # "absent" /\ rows'[c, h] # "absent" => b = c
                 /\ e[h] # "answer" /\ (\E b \in Notations : rows'[b, h] = "off") =>
                        \/ told'[h] = "off"
                        \/ (\E b \in Notations : rows[b, h] = "off") /\ told'[h] = told[h]
                 /\ Stored(rows', h) = Stored(rows, h)
      BY <2>11, <2>5 DEF HostIInv, OneLine, ScanEvent, Stored
    <3> QED
      BY <1>t, <2>6, <2>7, <2>9, <2>11, <3>1, HostWrite
  <2> QED
    BY <2>1, <2>10, <2>11 DEF list, outdated
<1>8. CASE RecheckWrite
  <2> DEFINE band == recheck.band
             copy == recheck.copy
             asked == recheck.asked
             outdated == Outdated(copy, Notations) \cup {h \in asked : copy[band, h] = "absent"}
  <2>1. PICK found \in SUBSET asked :
            /\ ReplaceSubnet(band, [k \in Keys |-> IF k[1] = band /\ k[2] \in asked
                                     THEN (IF k[2] \in found THEN "on" ELSE "off")
                                     ELSE copy[k]])
            /\ told' = [h \in Hosts |-> RecheckEvent(h, found)]
            /\ Remember(outdated, {h \in asked \ found : ~recheck.single /\ copy[band, h] = "on"})
    BY <1>8 DEF RecheckWrite
  <2> DEFINE list == [k \in Keys |-> IF k[1] = band /\ k[2] \in asked
                                      THEN (IF k[2] \in found THEN "on" ELSE "off")
                                      ELSE copy[k]]
             silent == {h \in asked \ found : ~recheck.single /\ copy[band, h] = "on"}
  <2>2. /\ band \in Notations /\ copy \in Table /\ asked \subseteq Hosts
        /\ rows \in Table /\ recheck.single \in BOOLEAN
    BY <1>t
  <2>3. /\ list \in Table
        /\ \A h \in Hosts, c \in Notations :
               list[c, h] = IF c = band /\ h \in asked
                            THEN (IF h \in found THEN "on" ELSE "off") ELSE copy[c, h]
    BY <2>2, <1>k DEF Table, Online
  <2>4. \A h \in Hosts : told'[h] = RecheckEvent(h, found)
    BY <2>1
  <2>5. told' \in [Hosts -> {"none", "on", "off"}]
    BY <2>1, <1>t DEF RecheckEvent
  <2>6. /\ recheck' \in [at : {"idle", "probe", "write"}, band : Notations, copy : Table,
                          asked : SUBSET Hosts, single : BOOLEAN]
        /\ UNCHANGED <<scan, monitor, rewrites>>
    BY <1>8, <1>t, <1>e DEF RecheckWrite
  <2>7. /\ outdated \in SUBSET Hosts /\ silent \in SUBSET Hosts
        /\ \A h \in Hosts \ outdated :
              /\ \A c \in Notations : rows[c, h] = copy[c, h]
              /\ h \in asked => copy[band, h] # "absent"
    BY <2>2 DEF Outdated
  <2>8. \A h \in Hosts : h \in silent <=> h \in asked \ found /\ ~recheck.single /\ copy[band, h] = "on"
    BY <2>2
  <2>9. ReplaceSubnet(band, list) /\ Remember(outdated, silent)
    BY <2>1
  <2>10. \A h \in Hosts, c \in Notations : copy[c, h] \in Online
    BY <2>2, <1>k DEF Table
  <2> HIDE DEF list, outdated, silent
  <2>11. /\ rows' \in Table
         /\ \A h \in Hosts, c \in Notations :
                rows'[c, h] = IF HasRow(list, h) THEN list[c, h]
                              ELSE IF c = band THEN "absent" ELSE rows[c, h]
    <3> HIDE DEF band, copy, asked
    <3> QED
      BY ONLY <2>2, <2>3, <2>9, Replaced
  <2>12. ASSUME NEW h \in Hosts \ (stale \cup outdated)
         PROVE  /\ \A b, c \in Notations :
                       rows'[b, h] # "absent" /\ rows'[c, h] # "absent" => b = c
                /\ h \notin silent /\ (\E b \in Notations : rows'[b, h] = "off") =>
                       \/ told'[h] = "off"
                       \/ (\E b \in Notations : rows[b, h] = "off") /\ told'[h] = told[h]
                /\ Stored(rows, h) # {} => Stored(rows', h) # {}
    <3> HIDE DEF band, copy, asked
    <3>1. /\ \A c \in Notations : rows[c, h] = copy[c, h]
          /\ \A b, c \in Notations : rows[b, h] # "absent" /\ rows[c, h] # "absent" => b = c
      BY <2>7 DEF HostIInv, OneLine
    <3>2. CASE h \in asked
      <4>1. copy[band, h] # "absent"
        BY <2>7, <3>2
      <4>2. \A c \in Notations \ {band} : copy[c, h] = "absent"
        BY <2>2, <3>1, <4>1
      <4>3. \A c \in Notations :
                list[c, h] = IF c = band THEN (IF h \in found THEN "on" ELSE "off") ELSE "absent"
        BY <2>3, <3>2, <4>2
      <4>4. HasRow(list, h)
        BY <2>2, <4>3 DEF HasRow
      <4>5. \A c \in Notations :
                rows'[c, h] = IF c = band THEN (IF h \in found THEN "on" ELSE "off") ELSE "absent"
        BY <2>11, <4>3, <4>4
      <4>6. h \notin found /\ h \notin silent =>
                told'[h] = "off" \/ (copy[band, h] = "off" /\ told'[h] = told[h])
        BY <2>2, <2>4, <2>8, <2>10, <3>2, <4>1 DEF RecheckEvent, Online, band, copy, asked
      <4> QED
        BY <2>2, <3>1, <4>5, <4>6 DEF Stored
    <3>3. CASE h \notin asked
      <4>1. \A c \in Notations : list[c, h] = rows[c, h]
        BY <2>3, <3>1, <3>3
      <4>2. \A c \in Notations : rows'[c, h] = rows[c, h]
        BY <2>2, <2>11, <4>1 DEF HasRow
      <4>3. told'[h] = told[h]
        BY <2>2, <2>4, <3>3 DEF RecheckEvent, band, copy, asked
      <4> QED
        BY <3>1, <4>2, <4>3 DEF Stored
    <3> QED
      BY <3>2, <3>3
  <2> QED
    BY <1>t, <2>5, <2>6, <2>7, <2>9, <2>11, <2>12, HostWrite
<1>9. CASE MonitorWrite
  <2> DEFINE copy == monitor.copy
  <2>1. PICK b \in Notations, turned \in SUBSET Hosts :
            /\ \A h \in turned : copy[b, h] # "absent"
            /\ LET after(h) == IF copy[b, h] = "on" THEN "off" ELSE "on" IN
               /\ \/ /\ ReplaceSubnet(b, [k \in Keys |->
                          IF k[1] # b THEN "absent"
                          ELSE IF k[2] \in turned THEN after(k[2]) ELSE copy[k]])
                     /\ Remember(Outdated(copy, {b}), {})
                  \/ UNCHANGED rows /\ Remember({}, turned)
               /\ told' = [h \in Hosts |-> IF h \in turned THEN after(h) ELSE told[h]]
    BY <1>9 DEF MonitorWrite
  <2> DEFINE after(h) == IF copy[b, h] = "on" THEN "off" ELSE "on"
             list == [k \in Keys |-> IF k[1] # b THEN "absent"
                                     ELSE IF k[2] \in turned THEN after(k[2]) ELSE copy[k]]
             outdated == Outdated(copy, {b})
  <2>2. copy \in Table /\ rows \in Table
    BY <1>t
  <2>3. /\ list \in Table
        /\ \A h \in Hosts, c \in Notations :
               list[c, h] = IF c # b THEN "absent"
                            ELSE IF h \in turned THEN after(h) ELSE copy[b, h]
    BY <2>2, <1>k DEF Table, Online
  <2>4. /\ told' \in [Hosts -> {"none", "on", "off"}]
        /\ \A h \in Hosts : told'[h] = IF h \in turned THEN after(h) ELSE told[h]
    BY <2>1, <1>t
  <2>5. /\ monitor' \in [at : {"idle", "read", "write"}, copy : Table]
        /\ UNCHANGED <<scan, recheck, rewrites>>
    BY <1>9, <1>e DEF MonitorWrite
  <2>6. \A h \in Hosts \ outdated : rows[b, h] = copy[b, h]
    BY DEF Outdated
  <2>7. {} \in SUBSET Hosts /\ outdated \in SUBSET Hosts
    BY DEF Outdated
  <2>8. \/ ReplaceSubnet(b, list) /\ Remember(outdated, {})
        \/ UNCHANGED rows /\ Remember({}, turned)
    BY <2>1
  <2> HIDE DEF list, outdated, copy
  <2>9. ASSUME ReplaceSubnet(b, list), Remember(outdated, {})
        PROVE  Goal
    <3>1. /\ rows' \in Table
          /\ \A h \in Hosts, c \in Notations :
                 rows'[c, h] = IF HasRow(list, h) THEN list[c, h]
                               ELSE IF c = b THEN "absent" ELSE rows[c, h]
      BY ONLY <2>2, <2>3, <2>9, Replaced
    <3>2. ASSUME NEW h \in Hosts \ (stale \cup outdated)
          PROVE  /\ \A d, c \in Notations :
                        rows'[d, h] # "absent" /\ rows'[c, h] # "absent" => d = c
                 /\ (\E d \in Notations : rows'[d, h] = "off") =>
                        \/ told'[h] = "off"
                        \/ (\E d \in Notations : rows[d, h] = "off") /\ told'[h] = told[h]
                 /\ Stored(rows, h) # {} => Stored(rows', h) # {}
      <4>1. rows[b, h] = copy[b, h]
        BY <2>6
      <4>2. HasRow(list, h) <=> rows[b, h] # "absent"
        BY <2>1, <2>3, <4>1 DEF HasRow
      <4>3. CASE rows[b, h] # "absent"
        <5>1. \A c \in Notations :
                  rows'[c, h] = IF c # b THEN "absent"
                                ELSE IF h \in turned THEN after(h) ELSE rows[b, h]
          BY <2>3, <3>1, <4>1, <4>2, <4>3
        <5> QED
          BY <2>4, <4>3, <5>1 DEF Stored
      <4>4. CASE rows[b, h] = "absent"
        <5>1. \A c \in Notations : rows'[c, h] = rows[c, h]
          BY <3>1, <4>2, <4>4
        <5>2. told'[h] = told[h]
          BY <2>1, <2>4, <4>1, <4>4
        <5> QED
          BY <5>1, <5>2 DEF Stored, HostIInv, OneLine
      <4> QED
        BY <4>3, <4>4
    <3> HIDE DEF Goal
    <3> QED
      BY <1>t, <2>4, <2>5, <2>7, <2>9, <3>1, <3>2, HostWrite DEF Goal
  <2>10. ASSUME UNCHANGED rows, Remember({}, turned)
         PROVE  Goal
    <3>1. ASSUME NEW h \in Hosts \ stale
          PROVE  /\ \A d, c \in Notations :
                        rows'[d, h] # "absent" /\ rows'[c, h] # "absent" => d = c
                 /\ h \notin turned /\ (\E d \in Notations : rows'[d, h] = "off") =>
                        \/ told'[h] = "off"
                        \/ (\E d \in Notations : rows[d, h] = "off") /\ told'[h] = told[h]
                 /\ Stored(rows', h) = Stored(rows, h)
      BY <2>10, <2>4 DEF HostIInv, OneLine, Stored
    <3> QED
      BY <1>t, <2>4, <2>5, <2>7, <2>10, <3>1, HostWrite
  <2> QED
    BY <2>8, <2>9, <2>10
<1>10. CASE RematchWrite
  <2> DEFINE copy == monitor.copy
             outdated == Outdated(copy, Notations)
  <2>1. copy \in Table /\ rows \in Table
    BY <1>t
  <2>2. SaveHosts(copy) /\ Remember(outdated, {}) /\ UNCHANGED <<told, scan, recheck, rewrites>>
        /\ monitor' \in [at : {"idle", "read", "write"}, copy : Table]
    BY <1>10, <1>e DEF RematchWrite
  <2>3. \A h \in Hosts \ outdated, c \in Notations : rows[c, h] = copy[c, h]
    BY DEF Outdated
  <2>4. {} \in SUBSET Hosts /\ outdated \in SUBSET Hosts
    BY DEF Outdated
  <2> HIDE DEF outdated, copy
  <2>5. /\ rows' \in Table
        /\ \A h \in Hosts, c \in Notations :
               rows'[c, h] = IF HasRow(copy, h) THEN copy[c, h] ELSE rows[c, h]
    BY ONLY <2>1, <2>2, SavedLines
  <2>6. \A h \in Hosts \ outdated, c \in Notations : rows'[c, h] = rows[c, h]
    BY <2>3, <2>5
  <2> HIDE DEF Goal
  <2>7. ASSUME NEW h \in Hosts \ (stale \cup outdated)
        PROVE  /\ \A d, c \in Notations :
                      rows'[d, h] # "absent" /\ rows'[c, h] # "absent" => d = c
               /\ (\E d \in Notations : rows'[d, h] = "off") =>
                      (\E d \in Notations : rows[d, h] = "off") /\ told'[h] = told[h]
               /\ Stored(rows', h) = Stored(rows, h)
    BY <2>2, <2>6 DEF HostIInv, OneLine, Stored
  <2> QED
    BY <1>t, <2>2, <2>4, <2>5, <2>7, HostWrite DEF Goal
<1>11. ASSUME NEW g \in Hosts, DeleteHost(g) PROVE Goal
  <2>1. /\ Begin /\ Remember({}, {}) /\ UNCHANGED <<told, scan, recheck, monitor>>
        /\ rows' = [k \in Keys |-> IF k[2] = g THEN "absent" ELSE rows[k]]
    BY <1>11 DEF DeleteHost
  <2>2. /\ rows' \in Table
        /\ \A h \in Hosts, c \in Notations :
               rows'[c, h] = IF h = g THEN "absent" ELSE rows[c, h]
    BY <2>1, <1>t, <1>k DEF Table, Online
  <2>3. {} \in SUBSET Hosts
    OBVIOUS
  <2>4. ASSUME NEW h \in Hosts \ stale
        PROVE  /\ \A d, c \in Notations :
                      rows'[d, h] # "absent" /\ rows'[c, h] # "absent" => d = c
               /\ (\E d \in Notations : rows'[d, h] = "off") =>
                      (\E d \in Notations : rows[d, h] = "off") /\ told'[h] = told[h]
    <3>1. \A d \in Notations : rows'[d, h] # "absent" => rows'[d, h] = rows[d, h]
      BY <2>2
    <3>2. \A d, c \in Notations : rows[d, h] # "absent" /\ rows[c, h] # "absent" => d = c
      BY DEF HostIInv, OneLine
    <3>3. told' = told
      BY <2>1
    <3> QED
      BY <3>1, <3>2, <3>3
  <2>5. rewrites' \in 0..MaxRewrites /\ rewrites' > rewrites
    BY <1>b, <2>1
  <2> HIDE DEF Goal
  <2>6. \A h \in Hosts \ (stale \cup {}) :
           /\ \A d, c \in Notations :
                 rows'[d, h] # "absent" /\ rows'[c, h] # "absent" => d = c
           /\ h \notin {} /\ (\E d \in Notations : rows'[d, h] = "off") =>
                 \/ told'[h] = "off"
                 \/ (\E d \in Notations : rows[d, h] = "off") /\ told'[h] = told[h]
           /\ Stored(rows, h) # {} /\ Stored(rows', h) = {} => rewrites' > rewrites
    BY <2>4, <2>5
  <2>7. /\ rows' \in Table /\ told' \in [Hosts -> {"none", "on", "off"}]
        /\ scan' \in [at : {"idle", "sweep", "write"}, band : Notations, copy : Table]
        /\ recheck' \in [at : {"idle", "probe", "write"}, band : Notations, copy : Table,
                          asked : SUBSET Hosts, single : BOOLEAN]
        /\ monitor' \in [at : {"idle", "read", "write"}, copy : Table]
    BY <1>t, <2>1, <2>2
  <2> QED
    BY <2>1, <2>3, <2>5, <2>6, <2>7, HostWrite DEF Goal
<1>12. CASE Dedupe
  <2>1. PICK keep \in [Hosts -> Notations] :
            /\ \A h \in Hosts : Stored(rows, h) # {} => keep[h] \in Stored(rows, h)
            /\ rows' = [k \in Keys |-> IF keep[k[2]] = k[1] THEN rows[k] ELSE "absent"]
    BY <1>12 DEF Dedupe
  <2>2. Remember({}, {}) /\ UNCHANGED <<told, scan, recheck, monitor, rewrites>>
    BY <1>12 DEF Dedupe
  <2>3. /\ rows' \in Table
        /\ \A h \in Hosts, c \in Notations :
               rows'[c, h] = IF keep[h] = c THEN rows[c, h] ELSE "absent"
    BY <2>1, <1>t, <1>k DEF Table, Online
  <2>4. {} \in SUBSET Hosts
    OBVIOUS
  <2>5. ASSUME NEW h \in Hosts \ stale
        PROVE  /\ \A d, c \in Notations :
                      rows'[d, h] # "absent" /\ rows'[c, h] # "absent" => d = c
               /\ (\E d \in Notations : rows'[d, h] = "off") =>
                      (\E d \in Notations : rows[d, h] = "off") /\ told'[h] = told[h]
               /\ Stored(rows, h) # {} => Stored(rows', h) # {}
    <3>1. \A d \in Notations : rows'[d, h] # "absent" => d = keep[h] /\ rows'[d, h] = rows[d, h]
      BY <2>3
    <3>2. told' = told
      BY <2>2
    <3>3. ASSUME Stored(rows, h) # {} PROVE keep[h] \in Stored(rows', h)
      <4>1. keep[h] \in Notations /\ rows[keep[h], h] # "absent"
        BY <2>1, <3>3 DEF Stored
      <4> QED
        BY <2>3, <4>1 DEF Stored
    <3> QED
      BY <3>1, <3>2, <3>3
  <2> HIDE DEF Goal
  <2> QED
    BY <1>t, <2>2, <2>3, <2>4, <2>5, HostWrite DEF Goal
<1>13. CASE UNCHANGED hostVars
  BY <1>13, <1>t, HostRead DEF hostVars
<1> QED
  BY <1>1, <1>2, <1>3, <1>4, <1>5, <1>6, <1>7, <1>8, <1>9, <1>10, <1>11, <1>12, <1>13
     DEF HostNext

\* However many jobs rewrite the table at the same time, for every band,
\* notation and set of hosts: one line per host, no unannounced outage and no
\* lost host, but for what an outdated copy wrote (_apply_scan,
\* recollect_single_host, monitor_known_hosts, rematch, dedupe).
THEOREM HostsAreSafe == HostSpec => HostSafety
<1>1. HostIInv => OneLinePerHost
  <2> SUFFICES ASSUME HostIInv, NEW h \in Hosts \ stale
               PROVE  Cardinality(Stored(rows, h)) <= 1
    BY DEF OneLinePerHost
  <2>1. CASE Stored(rows, h) = {}
    BY <2>1, FS_EmptySet
  <2>2. CASE Stored(rows, h) # {}
    <3>1. PICK b : b \in Stored(rows, h)
      BY <2>2
    <3>2. \A c \in Stored(rows, h) : c = b
      BY <3>1 DEF HostIInv, OneLine, Stored
    <3>3. Stored(rows, h) = {b}
      BY <3>1, <3>2
    <3>4. Cardinality({b}) = 1
      BY FS_Singleton
    <3> QED
      BY <3>3, <3>4
  <2> QED
    BY <2>1, <2>2
<1>2. HostIInv => OutageIsAnnounced
  BY DEF HostIInv
<1>3. HostIInv /\ [HostNext]_hostVars =>
          [\A h \in Hosts :
              Stored(rows, h) # {} /\ Stored(rows', h) = {}
                  => h \in stale' \/ rewrites' > rewrites]_hostVars
  BY HostStep DEF KeepsHost
<1> QED
  BY HostInitial, HostStep, <1>1, <1>2, <1>3, PTL DEF HostSpec, HostSafety, HostsAreKept

-----------------------------------------------------------------------------
(* What a collection of a switch leaves.                                   *)

MacTables == {"none", "others", "both"}
Works == [at : Nat, reading : Readings, detected : BOOLEAN]
Losses == [here : BOOLEAN, times : Int, unseen : Int, undone : Int]

StoreTypes ==
    /\ registered \in BOOLEAN /\ snapshots \in Seq(MacTables) /\ Len(snapshots) <= Keep
    /\ recorded \in Int /\ work \in Works /\ blind \in Nat /\ loss \in Losses

\* The newest snapshot tells whether the past collection stored MACs, and with
\* which of them; one with MACs is as far back as blind says.
NewestIsTold ==
    registered =>
        /\ blind = 0 <=> snapshots # <<>> /\ Previous # "none"
        /\ blind = 0 => (loss.here <=> Previous = "both")
        /\ work.at = 3 => blind > 0
        /\ blind < Keep => blind < Len(snapshots) /\ snapshots[Len(snapshots) - blind] # "none"

\* Between the detection and the table the loss is recorded but not yet there.
LossIsPending ==
    registered =>
        /\ recorded = loss.times - loss.unseen + loss.undone
                      + (IF work.at \in {2, 3} /\ work.detected THEN 1 ELSE 0)
        /\ work.at \in {2, 3} /\ work.detected
               => loss.here /\ work.reading \in {"empty", "others"}
        /\ work.at \in {2, 3} /\ ~work.detected /\ loss.here /\ work.reading \in {"empty", "others"}
               => blind > (IF work.at = 3 THEN 1 ELSE 0)

StoreIInv == StoreTypes /\ OnlyLateRowsSurvive /\ NewestIsTold /\ LossIsPending

LEMMA StoreInitial == StoreInit => StoreIInv
<1> SUFFICES ASSUME StoreInit PROVE StoreIInv
    OBVIOUS
<1> USE StoreAssumption DEF StoreInit
<1>1. work \in Works /\ work.at = 0
  BY DEF NoWork, Works, Readings
<1>2. loss \in Losses /\ loss.times = 0 /\ loss.unseen = 0 /\ loss.undone = 0
  BY DEF Losses
<1>3. snapshots = <<>> /\ Len(snapshots) = 0 /\ snapshots \in Seq(MacTables)
  OBVIOUS
<1>4. StoreTypes
  BY <1>1, <1>2, <1>3 DEF StoreTypes
<1>5. NewestIsTold
  BY <1>1, <1>3 DEF NewestIsTold
<1>6. LossIsPending
  BY <1>1, <1>2 DEF LossIsPending
<1> QED
  BY <1>4, <1>5, <1>6 DEF StoreIInv, OnlyLateRowsSurvive

\* A snapshot without MACs goes to the end, the oldest one may go.
LEMMA Retained ==
    ASSUME NEW s \in Seq(MacTables), Len(s) <= Keep
    PROVE  LET r == Retain(Append(s, "none")) IN
           /\ r \in Seq(MacTables) /\ Len(r) <= Keep /\ Len(r) > 0 /\ r[Len(r)] = "none"
           /\ \A b \in Nat : b + 1 < Keep /\ b < Len(s)
                             => b + 1 < Len(r) /\ r[Len(r) - (b + 1)] = s[Len(s) - b]
<1> USE StoreAssumption
<1> DEFINE a == Append(s, "none")
           from == IF Len(a) > Keep THEN Len(a) - Keep + 1 ELSE 1
           r == SubSeq(a, from, Len(a))
<1>1. /\ a \in Seq(MacTables) /\ Len(a) = Len(s) + 1 /\ Len(s) \in Nat /\ a[Len(s) + 1] = "none"
      /\ \A i \in 1..Len(s) : a[i] = s[i]
  BY DEF MacTables
<1> HIDE DEF a
<1>2. from \in 1..Len(a) /\ from - 1 <= Len(a) - 1
  BY <1>1
<1> HIDE DEF from
<1>3. r \in Seq(MacTables) /\ Len(r) = Len(a) - from + 1
  BY <1>1, <1>2
<1>4. \A i \in 1..Len(r) : r[i] = a[from + i - 1]
  BY <1>1, <1>2, <1>3
<1> HIDE DEF r
<1>5. Len(r) = (IF Len(s) + 1 > Keep THEN Keep ELSE Len(s) + 1) /\ Len(r) \in Nat
  BY <1>1, <1>2, <1>3 DEF from
<1>6. Len(r) <= Keep /\ Len(r) > 0
  BY <1>1, <1>5
<1>7. from + Len(r) - 1 = Len(s) + 1
  BY <1>1, <1>2, <1>3
<1>8. r[Len(r)] = "none"
  BY <1>1, <1>4, <1>5, <1>6, <1>7
<1>9. ASSUME NEW b \in Nat, b + 1 < Keep, b < Len(s)
      PROVE  b + 1 < Len(r) /\ r[Len(r) - (b + 1)] = s[Len(s) - b]
  <2>1. b + 1 < Len(r)
    BY <1>1, <1>5, <1>9
  <2>2. Len(r) - (b + 1) \in 1..Len(r)
    BY <1>5, <2>1
  <2>3. r[Len(r) - (b + 1)] = a[from + (Len(r) - (b + 1)) - 1]
    BY <1>4, <2>2
  <2>4. from + (Len(r) - (b + 1)) - 1 = Len(s) - b /\ Len(s) - b \in 1..Len(s)
    BY <1>1, <1>2, <1>5, <1>7, <1>9
  <2> QED
    BY <1>1, <2>1, <2>3, <2>4
<1>10. Retain(Append(s, "none")) = r
  BY DEF Retain, a, from, r
<1> QED
  BY <1>3, <1>6, <1>8, <1>9, <1>10

\* A collection that ends early.
LEMMA GiveUpFacts ==
    ASSUME StoreTypes, GiveUpCollect
    PROVE  /\ work' \in Works /\ work'.at = 0 /\ loss' \in Losses /\ loss'.here = loss.here
           /\ loss'.times = loss.times /\ loss'.unseen = loss.unseen
           /\ loss'.undone = loss.undone + (IF work.at \in {2, 3} /\ work.detected THEN 1 ELSE 0)
<1>1. work' = NoWork
  BY DEF GiveUpCollect
<1>2. NoWork \in Works /\ NoWork.at = 0
  BY DEF NoWork, Works, Readings
<1>3. loss \in Losses /\ loss' = IF work.at \in {2, 3} /\ work.detected
                                 THEN [loss EXCEPT !.undone = @ + 1] ELSE loss
  BY DEF GiveUpCollect, StoreTypes
<1>4. /\ loss' \in Losses /\ loss'.here = loss.here /\ loss'.times = loss.times
      /\ loss'.unseen = loss.unseen
      /\ loss'.undone = loss.undone + (IF work.at \in {2, 3} /\ work.detected THEN 1 ELSE 0)
  BY <1>3 DEF Losses
<1> QED
  BY <1>1, <1>2, <1>4

\* A collection whose table is stored.
LEMMA StoredFacts ==
    ASSUME StoreTypes, TableStored
    PROVE  LET gone == loss.here /\ work.reading # "both" IN
           /\ loss' \in Losses
           /\ work.reading = "failed" => loss' = loss
           /\ work.reading # "failed" =>
                 /\ loss'.here = (work.reading = "both") /\ loss'.undone = loss.undone
                 /\ loss'.times = loss.times + (IF gone THEN 1 ELSE 0)
                 /\ loss'.unseen = loss.unseen + (IF gone /\ ~work.detected THEN 1 ELSE 0)
<1>1. loss \in Losses /\ work \in Works
  BY DEF StoreTypes
<1>2. CASE work.reading = "failed"
  BY <1>1, <1>2 DEF TableStored
<1>3. CASE work.reading # "failed"
  <2> DEFINE has == work.reading = "both"
             gone == loss.here /\ ~has
  <2>1. loss' = [loss EXCEPT !.here = has, !.times = @ + (IF gone THEN 1 ELSE 0),
                             !.unseen = @ + (IF gone /\ ~work.detected THEN 1 ELSE 0)]
    BY <1>3 DEF TableStored
  <2>2. has \in BOOLEAN
    OBVIOUS
  <2>3. loss.times \in Int /\ loss.unseen \in Int
    BY <1>1 DEF Losses
  <2> DEFINE n == loss.times + (IF gone THEN 1 ELSE 0)
             u == loss.unseen + (IF gone /\ ~work.detected THEN 1 ELSE 0)
  <2>4. n \in Int /\ u \in Int
    BY <2>3
  <2>5. loss' = [loss EXCEPT !.here = has, !.times = n, !.unseen = u]
    BY <2>1
  <2> HIDE DEF n, u
  <2>6. PICK h \in BOOLEAN : h = has
    BY <2>2
  <2>7. /\ loss' \in Losses /\ loss'.here = h /\ loss'.undone = loss.undone
        /\ loss'.times = n /\ loss'.unseen = u
    BY <1>1, <2>4, <2>5, <2>6 DEF Losses
  <2> QED
    BY <1>3, <2>6, <2>7 DEF n, u
<1> QED
  BY <1>2, <1>3

LEMMA StoreStep == StoreIInv /\ [StoreNext]_storeVars => StoreIInv'
<1> SUFFICES ASSUME StoreIInv, [StoreNext]_storeVars PROVE StoreIInv'
    OBVIOUS
<1> USE StoreAssumption DEF StoreIInv
<1>w. /\ work \in Works /\ work.at \in Nat /\ work.reading \in Readings /\ work.detected \in BOOLEAN
      /\ loss \in Losses /\ loss.here \in BOOLEAN /\ loss.times \in Int /\ loss.unseen \in Int
      /\ loss.undone \in Int /\ blind \in Nat /\ recorded \in Int
      /\ snapshots \in Seq(MacTables) /\ Len(snapshots) \in Nat /\ Len(snapshots) <= Keep
  BY DEF StoreTypes, Works, Losses
<1>g. ASSUME GiveUpCollect, UNCHANGED <<registered, snapshots, loose, recorded, late, blind>>
      PROVE  StoreIInv'
  <2>1. StoreTypes'
    BY <1>g, GiveUpFacts DEF StoreTypes
  <2>2. NewestIsTold'
    BY <1>g, GiveUpFacts DEF NewestIsTold, Previous
  <2>3. LossIsPending'
    BY <1>g, <1>w, GiveUpFacts DEF LossIsPending
  <2> QED
    BY <1>g, <2>1, <2>2, <2>3 DEF OnlyLateRowsSurvive
<1>1. CASE CollectBegin
  <2>1. PICK r \in Readings : work' = [NoWork EXCEPT !.at = 1, !.reading = r]
    BY <1>1 DEF CollectBegin
  <2>2. work' \in Works /\ work'.at = 1 /\ work.at = 0
    BY <1>1, <2>1 DEF NoWork, Works, CollectBegin
  <2>3. UNCHANGED <<registered, snapshots, loose, recorded, late, blind, loss>>
    BY <1>1 DEF CollectBegin
  <2> QED
    BY <1>w, <2>2, <2>3 DEF StoreTypes, OnlyLateRowsSurvive, NewestIsTold, LossIsPending, Previous
<1>2. CASE Detect
  <2>1. /\ work.at = 1 /\ recorded' = recorded + (IF LossSeen THEN 1 ELSE 0)
        /\ work' = [work EXCEPT !.at = 2, !.detected = LossSeen]
        /\ UNCHANGED <<registered, snapshots, loose, late, blind, loss>>
    BY <1>2 DEF Detect
  <2>2. PICK seen \in BOOLEAN : seen = LossSeen
    BY DEF LossSeen, Vanished
  <2>3. work' \in Works /\ work'.at = 2 /\ work'.reading = work.reading /\ work'.detected = seen
    BY <1>w, <2>1, <2>2 DEF Works
  <2>4. registered /\ seen => loss.here /\ work.reading \in {"empty", "others"}
    BY <1>w, <2>2 DEF LossSeen, Vanished, RowsOf, NewestIsTold, Readings
  <2>5. registered /\ ~seen /\ loss.here /\ work.reading \in {"empty", "others"} => blind > 0
    <3>1. SUFFICES ASSUME registered, blind = 0, loss.here, work.reading \in {"empty", "others"}
                   PROVE  seen
      BY <1>w
    <3>2. snapshots # <<>> /\ Previous = "both"
      BY <3>1 DEF NewestIsTold
    <3>3. LossSeen
      BY <3>1, <3>2 DEF LossSeen, Vanished, RowsOf
    <3> QED
      BY <2>2, <3>3
  <2>6. StoreTypes'
    BY <1>w, <2>1, <2>3 DEF StoreTypes
  <2>7. NewestIsTold'
    BY <2>1, <2>3 DEF NewestIsTold, Previous
  <2>8. LossIsPending'
    BY <1>w, <2>1, <2>2, <2>3, <2>4, <2>5 DEF LossIsPending
  <2> QED
    BY <2>1, <2>6, <2>7, <2>8 DEF OnlyLateRowsSurvive
<1>3. CASE SaveSnapshot
  <2>1. CASE GiveUpCollect /\ UNCHANGED <<snapshots, blind>>
    BY <1>3, <1>g, <2>1 DEF SaveSnapshot
  <2>2. CASE /\ BoundToSwitch
             /\ snapshots' = Retain(Append(snapshots, "none"))
             /\ blind' = blind + 1 /\ work' = [work EXCEPT !.at = 3] /\ UNCHANGED loss
    <3>1. work.at = 2 /\ registered /\ UNCHANGED <<registered, loose, recorded, late>>
      BY <1>3, <2>2 DEF SaveSnapshot, BoundToSwitch
    <3>2. work' \in Works /\ work'.at = 3 /\ work'.reading = work.reading /\ work'.detected = work.detected
      BY <1>w, <2>2 DEF Works
    <3>3. /\ snapshots' \in Seq(MacTables) /\ Len(snapshots') <= Keep /\ Len(snapshots') > 0
          /\ snapshots'[Len(snapshots')] = "none"
          /\ \A b \in Nat : b + 1 < Keep /\ b < Len(snapshots)
                => b + 1 < Len(snapshots') /\ snapshots'[Len(snapshots') - (b + 1)] = snapshots[Len(snapshots) - b]
      BY <1>w, <2>2, Retained
    <3>4. StoreTypes'
      BY <1>w, <2>2, <3>1, <3>2, <3>3 DEF StoreTypes
    <3>5. NewestIsTold'
      <4>1. blind' > 0 /\ Previous' = "none"
        BY <1>w, <2>2, <3>3 DEF Previous
      <4>2. ASSUME blind' < Keep
            PROVE  blind' < Len(snapshots') /\ snapshots'[Len(snapshots') - blind'] # "none"
        <5>1. blind < Keep /\ blind + 1 < Keep
          BY <1>w, <2>2, <4>2
        <5>2. blind < Len(snapshots) /\ snapshots[Len(snapshots) - blind] # "none"
          BY <3>1, <5>1 DEF NewestIsTold
        <5> QED
          BY <1>w, <2>2, <3>3, <5>1, <5>2
      <4> QED
        BY <1>w, <2>2, <4>1, <4>2 DEF NewestIsTold
    <3>6. LossIsPending'
      BY <1>w, <2>2, <3>1, <3>2 DEF LossIsPending
    <3> QED
      BY <3>1, <3>4, <3>5, <3>6 DEF OnlyLateRowsSurvive
  <2> QED
    BY <1>3, <2>1, <2>2 DEF SaveSnapshot
<1>4. CASE SaveMacRows
  <2> DEFINE macs == RowsOf(work.reading)
  <2>0. macs \in MacTables /\ (macs = "both" <=> work.reading = "both")
        /\ (macs # "none" => work.reading # "failed")
    BY <1>w DEF RowsOf, Readings, MacTables
  <2>1. CASE GiveUpCollect /\ UNCHANGED <<snapshots, blind>>
    BY <1>4, <1>g, <2>1 DEF SaveMacRows
  <2>2. CASE /\ macs # "none" /\ BoundToSwitch /\ snapshots # <<>>
             /\ snapshots' = [snapshots EXCEPT ![Len(snapshots)] = macs]
             /\ blind' = 0 /\ work' = [work EXCEPT !.at = 4] /\ TableStored
    <3> HIDE DEF macs
    <3>1. work.at = 3 /\ registered /\ UNCHANGED <<registered, loose, recorded, late>>
      BY <1>4, <2>2 DEF SaveMacRows, BoundToSwitch
    <3>2. work' \in Works /\ work'.at = 4
      BY <1>w, <2>2 DEF Works
    <3>3. Len(snapshots) > 0
      BY <1>w, <2>2
    <3>4. /\ snapshots' \in Seq(MacTables) /\ Len(snapshots') = Len(snapshots)
          /\ snapshots'[Len(snapshots)] = macs /\ snapshots' # <<>>
      BY <1>w, <2>0, <2>2, <3>3
    <3>5. StoreTypes'
      BY <1>w, <2>2, <3>1, <3>2, <3>4, StoredFacts DEF StoreTypes
    <3>6. loss'.here <=> macs = "both"
      BY <2>0, <2>2, <3>5, StoredFacts
    <3>7. NewestIsTold'
      BY <1>w, <2>2, <3>2, <3>3, <3>4, <3>6 DEF NewestIsTold, Previous
    <3>8. LossIsPending'
      <4>1. work.reading \in {"others", "both"}
        BY <1>w, <2>0, <2>2 DEF macs, RowsOf, Readings
      <4>2. /\ loss'.undone = loss.undone
            /\ loss'.times = loss.times + (IF loss.here /\ work.reading # "both" THEN 1 ELSE 0)
            /\ loss'.unseen = loss.unseen + (IF loss.here /\ work.reading # "both" /\ ~work.detected
                                             THEN 1 ELSE 0)
        BY <2>0, <2>2, <3>5, StoredFacts
      <4> QED
        BY <1>w, <3>1, <3>2, <4>1, <4>2 DEF LossIsPending
    <3> QED
      BY <3>1, <3>5, <3>7, <3>8 DEF OnlyLateRowsSurvive
  <2>3. CASE /\ macs = "none" /\ work' = [work EXCEPT !.at = 4] /\ TableStored
             /\ UNCHANGED <<snapshots, blind>>
    <3>0. work.reading \in {"failed", "empty"}
      BY <1>w, <2>3 DEF RowsOf, Readings
    <3>1. work.at = 3 /\ UNCHANGED <<registered, loose, recorded, late>>
      BY <1>4 DEF SaveMacRows
    <3>2. work' \in Works /\ work'.at = 4
      BY <1>w, <2>3 DEF Works
    <3>3. loss' \in Losses
      BY <2>3, StoredFacts DEF StoreIInv
    <3>4. StoreTypes'
      BY <1>w, <2>3, <3>1, <3>2, <3>3 DEF StoreTypes
    <3>5. NewestIsTold'
      BY <1>w, <2>3, <3>1, <3>2 DEF NewestIsTold, Previous
    <3>6. LossIsPending'
      <4>1. CASE work.reading = "failed"
        <5>1. loss' = loss
          BY <2>3, <4>1, StoredFacts
        <5> QED
          BY <1>w, <3>1, <3>2, <4>1, <5>1 DEF LossIsPending
      <4>2. CASE work.reading = "empty"
        <5>1. /\ loss'.undone = loss.undone
              /\ loss'.times = loss.times + (IF loss.here THEN 1 ELSE 0)
              /\ loss'.unseen = loss.unseen + (IF loss.here /\ ~work.detected THEN 1 ELSE 0)
          BY <2>3, <4>2, StoredFacts
        <5> QED
          BY SMTT(30), <1>w, <3>1, <3>2, <4>2, <5>1 DEF LossIsPending
      <4> QED
        BY <3>0, <4>1, <4>2
    <3> QED
      BY <3>1, <3>4, <3>5, <3>6, <2>3 DEF OnlyLateRowsSurvive
  <2> QED
    BY <1>4, <2>1, <2>2, <2>3 DEF SaveMacRows
<1>5. CASE SaveLoose
  <2>0. work.at >= 4 /\ UNCHANGED <<registered, snapshots, recorded, blind>>
    BY <1>5 DEF SaveLoose
  <2>1. CASE GiveUpCollect /\ UNCHANGED <<loose, late>>
    BY <1>g, <2>0, <2>1
  <2>2. CASE work' = [work EXCEPT !.at = @ + 1] /\ UNCHANGED loss
             /\ (\/ UNCHANGED <<loose, late>>
                 \/ \E table : /\ loose' = loose \cup {table}
                               /\ late' = IF registered THEN late ELSE late \cup {table})
    <3>1. work' \in Works /\ work'.at = work.at + 1
      BY <1>w, <2>2 DEF Works
    <3>2. ~registered => loose' \subseteq late'
      BY <2>2 DEF OnlyLateRowsSurvive
    <3> QED
      BY <1>w, <2>0, <2>2, <3>1, <3>2
         DEF StoreTypes, OnlyLateRowsSurvive, NewestIsTold, LossIsPending, Previous
  <2> QED
    BY <1>5, <2>1, <2>2 DEF SaveLoose
<1>6. CASE CollectEnd
  <2>1. work' \in Works /\ work'.at = 0 /\ work.at >= 4
    <3>1. Len(LooseTables) \in Nat
      BY DEF LooseTables
    <3> QED
      BY <1>6, <3>1 DEF CollectEnd, NoWork, Works, Readings
  <2>2. UNCHANGED <<registered, snapshots, loose, recorded, late, blind, loss>>
    BY <1>6 DEF CollectEnd
  <2> QED
    BY <1>w, <2>1, <2>2 DEF StoreTypes, OnlyLateRowsSurvive, NewestIsTold, LossIsPending, Previous
<1>7. CASE DeleteSwitch
  <2>1. /\ ~registered' /\ registered' \in BOOLEAN /\ snapshots' = <<>> /\ loose' = {}
        /\ UNCHANGED <<recorded, work, late, blind, loss>>
    BY <1>7 DEF DeleteSwitch, PurgeChildren
  <2>2. snapshots' \in Seq(MacTables) /\ Len(snapshots') = 0
    BY <2>1
  <2> QED
    BY <1>w, <2>1, <2>2 DEF StoreTypes, OnlyLateRowsSurvive, NewestIsTold, LossIsPending
<1>8. CASE UNCHANGED storeVars
  BY <1>8 DEF storeVars, StoreTypes, OnlyLateRowsSurvive, NewestIsTold, LossIsPending, Previous
<1> QED
  BY <1>1, <1>2, <1>3, <1>4, <1>5, <1>6, <1>7, <1>8 DEF StoreNext

LEMMA StoredIsTold == StoreIInv => OnlyLateRowsSurvive /\ LastMacsAreKept /\ LossesAreRecordedOnce
<1> SUFFICES ASSUME StoreIInv PROVE LastMacsAreKept /\ LossesAreRecordedOnce
    BY DEF StoreIInv
<1> USE StoreAssumption DEF StoreIInv
<1>1. LastMacsAreKept
  <2>1. SUFFICES ASSUME registered, blind < Keep PROVE \E i \in DOMAIN snapshots : snapshots[i] # "none"
    BY DEF LastMacsAreKept
  <2>2. blind \in Nat /\ snapshots \in Seq(MacTables) /\ blind < Len(snapshots)
        /\ snapshots[Len(snapshots) - blind] # "none"
    BY <2>1 DEF StoreTypes, NewestIsTold
  <2>3. Len(snapshots) - blind \in DOMAIN snapshots
    BY <2>2
  <2> QED
    BY <2>2, <2>3
<1>2. LossesAreRecordedOnce
  BY DEF LossesAreRecordedOnce, LossIsPending, StoreTypes, Losses
<1> QED
  BY <1>1, <1>2

\* Only after a snapshot without MACs a loss is not seen.
LEMMA UnseenIsBlind ==
    ASSUME StoreIInv, [StoreNext]_storeVars, loss'.unseen > loss.unseen
    PROVE  blind > 1 \/ ~registered
<1>1. /\ loss.unseen \in Int /\ work \in Works /\ work.reading \in Readings /\ StoreTypes
  BY DEF StoreIInv, StoreTypes, Losses, Works
<1>2. loss' # loss
  BY <1>1
<1>3. ~GiveUpCollect
  BY <1>1, GiveUpFacts
<1>4. SaveMacRows /\ TableStored
  BY <1>2, <1>3 DEF StoreNext, storeVars, CollectBegin, Detect, SaveSnapshot, SaveMacRows, SaveLoose,
                    CollectEnd, DeleteSwitch
<1>5. work.at = 3
  BY <1>4 DEF SaveMacRows
<1>6. work.reading # "failed" /\ work.reading # "both" /\ loss.here /\ ~work.detected
  BY <1>1, <1>4, StoredFacts
<1> QED
  BY <1>1, <1>5, <1>6 DEF StoreIInv, LossIsPending, Readings

-----------------------------------------------------------------------------
(* The kept configurations.                                                *)

Backups == [id : Nat, content : Contents]

\* The backups are in the order of their ids, each differs from the one before,
\* and the past is what the past collection saw.
BackupsAreInOrder ==
    /\ backups \in Seq(Backups) /\ lastId \in Nat /\ running \in Contents
    /\ \A m, n \in 1..Len(backups) : m < n => backups[m].id < backups[n].id
    /\ \A n \in 1..Len(backups) : backups[n].id <= lastId
    /\ \A n \in 1..Len(backups) : n > 1 => backups[n - 1].content # backups[n].content
    /\ backups = <<>> => compared = NeverCompared
    /\ backups # <<>> => compared = backups[Len(backups)].content

BackupIInv ==
    /\ BackupsAreInOrder /\ ChangesAreTold
    /\ telling \in {"idle", "change"} /\ changes \in Nat /\ toldOf \in Nat /\ untold \in Nat

LEMMA IdsAreNumbers == \A b \in Backups : b.id \in Nat
  BY DEF Backups

LEMMA ConfigurationsAreSeen == \A b \in Backups : b.content # NeverCompared
  BY BackupAssumption DEF Backups, NeverCompared

LEMMA BackupInitial == BackupInit => BackupIInv
<1> SUFFICES ASSUME BackupInit PROVE BackupIInv
    OBVIOUS
<1>1. /\ running \in Contents /\ backups = <<>> /\ lastId = 0 /\ telling = "idle"
      /\ compared = NeverCompared /\ changes = 0 /\ toldOf = 0 /\ untold = 0
  BY DEF BackupInit, BackupFrom
<1>2. Len(backups) = 0 /\ backups \in Seq(Backups)
  BY <1>1
<1> QED
  BY <1>1, <1>2 DEF BackupIInv, BackupsAreInOrder, ChangesAreTold

\* The past n entries of a list.
LEMMA LastOnesFacts ==
    ASSUME NEW S, NEW s \in Seq(S), NEW n \in Nat \ {0}
    PROVE  LET r == LastOnes(n, s)
               off == IF Len(s) > n THEN Len(s) - n ELSE 0
           IN  /\ r \in Seq(S) /\ Len(r) = Len(s) - off /\ off \in 0..Len(s)
               /\ \A i \in 1..Len(r) : r[i] = s[i + off]
<1> DEFINE off == IF Len(s) > n THEN Len(s) - n ELSE 0
           r == SubSeq(s, off + 1, Len(s))
<1>1. Len(s) \in Nat /\ off \in 0..Len(s)
  OBVIOUS
<1>2. LastOnes(n, s) = r
  BY DEF LastOnes
<1> HIDE DEF off
<1>3. r \in Seq(S) /\ Len(r) = Len(s) - off
  BY <1>1
<1>4. \A i \in 1..Len(r) : r[i] = s[i + off]
  BY <1>1, <1>3
<1> HIDE DEF r
<1> QED
  BY <1>1, <1>2, <1>3, <1>4 DEF off

\* A backup that is written after the others, which differ from it.
LEMMA BackupWritten ==
    ASSUME BackupsAreInOrder, NEW id \in Nat, id > lastId, Unlike(running),
           LET all == Append(backups, [id |-> id, content |-> running])
           IN  backups' \in {all, LastOnes(KeepBackups, all)},
           lastId' = id, compared' = running, running' = running
    PROVE  BackupsAreInOrder'
<1> USE BackupAssumption DEF BackupsAreInOrder
<1> DEFINE row == [id |-> id, content |-> running]
           all == Append(backups, row)
<1>1. row \in Backups /\ row.id = id /\ row.content = running
  BY DEF Backups
<1> HIDE DEF row
<1>2. /\ all \in Seq(Backups) /\ Len(all) = Len(backups) + 1 /\ Len(backups) \in Nat
      /\ all[Len(backups) + 1] = row
      /\ \A n \in 1..Len(backups) : all[n] = backups[n] /\ backups[n] \in Backups
  BY <1>1
<1> HIDE DEF all
<1>3. ASSUME NEW m \in 1..Len(all), NEW n \in 1..Len(all), m < n PROVE all[m].id < all[n].id
  <2>1. CASE n = Len(backups) + 1
    <3>1. m \in 1..Len(backups) /\ all[m] = backups[m] /\ backups[m] \in Backups
      BY <1>2, <1>3, <2>1
    <3>2. all[m].id <= lastId /\ all[m].id \in Nat
      BY <3>1, IdsAreNumbers
    <3> QED
      BY <1>1, <1>2, <2>1, <3>1, <3>2
  <2>2. CASE n # Len(backups) + 1
    <3>1. m \in 1..Len(backups) /\ n \in 1..Len(backups) /\ all[m] = backups[m] /\ all[n] = backups[n]
      BY <1>2, <1>3, <2>2
    <3> QED
      BY <1>3, <3>1
  <2> QED
    BY <2>1, <2>2
<1>4. ASSUME NEW n \in 1..Len(all) PROVE all[n].id <= id /\ all[n].id \in Nat
  <2>1. CASE n = Len(backups) + 1
    BY <1>1, <1>2, <2>1
  <2>2. CASE n # Len(backups) + 1
    <3>1. n \in 1..Len(backups) /\ all[n] = backups[n] /\ backups[n] \in Backups
      BY <1>2, <2>2
    <3>2. all[n].id <= lastId /\ all[n].id \in Nat
      BY <3>1, IdsAreNumbers
    <3> QED
      BY <3>2
  <2> QED
    BY <2>1, <2>2
<1>5. ASSUME NEW n \in 1..Len(all), n > 1 PROVE all[n - 1].content # all[n].content
  <2>1. CASE n = Len(backups) + 1
    <3>1. Len(backups) > 0 /\ all[n - 1] = backups[Len(backups)] /\ all[n] = row
      BY <1>2, <1>5, <2>1
    <3>2. backups # <<>>
      BY <3>1
    <3> QED
      BY <1>1, <3>1, <3>2 DEF Unlike
  <2>2. CASE n # Len(backups) + 1
    <3>1. n \in 1..Len(backups) /\ n - 1 \in 1..Len(backups)
      BY <1>2, <1>5, <2>2
    <3> QED
      BY <1>2, <1>5, <3>1
  <2> QED
    BY <2>1, <2>2
<1>6. all # <<>> /\ Len(all) \in Nat /\ all[Len(all)].content = running
  BY <1>1, <1>2
<1>7. CASE backups' = all
  BY <1>2, <1>3, <1>4, <1>5, <1>6, <1>7
<1>8. CASE backups' = LastOnes(KeepBackups, all)
  <2> DEFINE off == IF Len(all) > KeepBackups THEN Len(all) - KeepBackups ELSE 0
             r == LastOnes(KeepBackups, all)
  <2>1. r \in Seq(Backups) /\ Len(r) = Len(all) - off /\ off \in 0..Len(all)
        /\ \A i \in 1..Len(r) : r[i] = all[i + off]
    BY <1>2, LastOnesFacts
  <2>2. Len(all) > 0 /\ off < Len(all)
    BY <1>2
  <2> HIDE DEF off, r
  <2>3. Len(r) \in Nat /\ Len(r) > 0 /\ r # <<>>
    BY <1>6, <2>1, <2>2
  <2>4. \A i \in 1..Len(r) : i + off \in 1..Len(all)
    BY <1>6, <2>1
  <2>5. ASSUME NEW m \in 1..Len(r), NEW n \in 1..Len(r), m < n PROVE r[m].id < r[n].id
    <3>1. m + off \in 1..Len(all) /\ n + off \in 1..Len(all) /\ m + off < n + off
      BY <2>1, <2>3, <2>4, <2>5
    <3>2. all[m + off].id < all[n + off].id
      BY <1>3, <3>1
    <3> QED
      BY <2>1, <3>2
  <2>6. \A n \in 1..Len(r) : r[n].id <= id
    BY <1>4, <2>1, <2>4
  <2>7. ASSUME NEW n \in 1..Len(r), n > 1 PROVE r[n - 1].content # r[n].content
    <3>1. n - 1 \in 1..Len(r) /\ n + off \in 1..Len(all) /\ n + off > 1 /\ n - 1 + off = n + off - 1
      BY ONLY <1>6, <2>1, <2>3, <2>7
    <3>2. PICK k \in 1..Len(all) : k = n + off /\ k > 1
      BY ONLY <3>1
    <3>3. all[k - 1].content # all[k].content
      BY ONLY <1>5, <3>2
    <3>4. r[n - 1] = all[k - 1] /\ r[n] = all[k]
      <4>1. (n - 1) + off = k - 1
        BY ONLY <2>1, <3>1, <3>2, <1>6
      <4>2. r[n - 1] = all[(n - 1) + off] /\ r[n] = all[n + off]
        BY ONLY <2>1, <3>1
      <4> QED
        BY ONLY <3>2, <4>1, <4>2
    <3> QED
      BY <3>3, <3>4
  <2>8. r[Len(r)].content = running
    <3>1. Len(r) \in 1..Len(r) /\ Len(r) + off = Len(all)
      BY ONLY <1>6, <2>1, <2>3
    <3>2. r[Len(r)] = all[Len(r) + off]
      BY ONLY <2>1, <3>1
    <3> QED
      BY ONLY <1>6, <3>1, <3>2
  <2>9. backups' = r
    BY <1>8 DEF r
  <2> QED
    BY <2>1, <2>3, <2>5, <2>6, <2>7, <2>8, <2>9
<1>9. backups' \in {all, LastOnes(KeepBackups, all)}
  BY DEF all, row
<1> QED
  BY <1>7, <1>8, <1>9

LEMMA BackupStep == BackupIInv /\ [BackupNext]_backupVars => BackupIInv'
<1> SUFFICES ASSUME BackupIInv, [BackupNext]_backupVars PROVE BackupIInv'
    OBVIOUS
<1> USE BackupAssumption DEF BackupIInv
<1>1. CASE Reconfigure
  BY <1>1 DEF Reconfigure, BackupsAreInOrder, ChangesAreTold
<1>2. CASE SaveBackup
  <2>1. PICK trimmed \in BOOLEAN, id \in lastId + 1..lastId + 2 :
          LET all == Append(backups, [id |-> id, content |-> running])
              first == backups = <<>>
          IN  IF Unlike(running)
              THEN /\ lastId' = id
                   /\ backups' = IF trimmed THEN LastOnes(KeepBackups, all) ELSE all
                   /\ telling' = IF trimmed /\ ~first THEN "change" ELSE "idle"
                   /\ untold' = IF ~trimmed /\ ~first THEN untold + 1 ELSE untold
              ELSE UNCHANGED <<backups, lastId, telling, untold>>
    BY <1>2 DEF SaveBackup
  <2>2. /\ telling = "idle" /\ compared' = running /\ UNCHANGED <<running, toldOf>>
        /\ changes' = IF compared \notin {NeverCompared, running} THEN changes + 1 ELSE changes
    BY <1>2 DEF SaveBackup
  <2>3. id \in Nat /\ id > lastId
    BY <2>1 DEF BackupsAreInOrder
  <2>4. CASE Unlike(running)
    <3>1. BackupsAreInOrder'
      BY <2>1, <2>2, <2>3, <2>4, BackupWritten
    <3>2. CASE backups = <<>>
      <4>1. compared = NeverCompared /\ telling' = "idle" /\ untold' = untold
        BY <2>1, <2>4, <3>2 DEF BackupsAreInOrder
      <4> QED
        BY <2>2, <3>1, <4>1 DEF ChangesAreTold
    <3>3. CASE backups # <<>>
      <4>1. backups[Len(backups)] \in Backups /\ compared = backups[Len(backups)].content
        BY <3>3 DEF BackupsAreInOrder
      <4>2. compared # running /\ compared # NeverCompared
        BY <2>4, <3>3, <4>1, ConfigurationsAreSeen DEF Unlike
      <4>3. changes' = changes + 1
        BY <2>2, <4>2
      <4>4. telling' = (IF trimmed THEN "change" ELSE "idle")
            /\ untold' = (IF ~trimmed THEN untold + 1 ELSE untold)
        BY <2>1, <2>4, <3>3
      <4> QED
        BY <2>2, <3>1, <4>3, <4>4 DEF ChangesAreTold
    <3> QED
      BY <3>2, <3>3
  <2>5. CASE ~Unlike(running)
    <3>1. UNCHANGED <<backups, lastId, telling, untold>> /\ backups # <<>>
          /\ backups[Len(backups)].content = running
      BY <2>1, <2>5 DEF Unlike
    <3>2. compared = running /\ changes' = changes
      BY <2>2, <3>1 DEF BackupsAreInOrder
    <3> QED
      BY <2>2, <3>1, <3>2 DEF BackupsAreInOrder, ChangesAreTold
  <2> QED
    BY <2>4, <2>5
<1>3. CASE TellChange
  BY <1>3 DEF TellChange, BackupsAreInOrder, ChangesAreTold
<1>4. CASE LoseChange
  BY <1>4 DEF LoseChange, BackupsAreInOrder, ChangesAreTold
<1>5. CASE UNCHANGED backupVars
  BY <1>5 DEF backupVars, BackupsAreInOrder, ChangesAreTold
<1> QED
  BY <1>1, <1>2, <1>3, <1>4, <1>5 DEF BackupNext

\* The diff of a backup starts from the one before.
LEMMA DiffFacts == BackupIInv => DiffTellsAChange
<1> SUFFICES ASSUME BackupIInv, NEW n \in DOMAIN backups, n > 1, n > Len(backups) - KeepBackups + 1
             PROVE  /\ DiffBase(backups[n].id) = {backups[n - 1].content}
                    /\ backups[n].content \notin DiffBase(backups[n].id)
    BY DEF DiffTellsAChange
<1> USE BackupAssumption DEF BackupIInv, BackupsAreInOrder
<1> DEFINE off == IF Len(backups) > KeepBackups THEN Len(backups) - KeepBackups ELSE 0
           listed == LastOnes(KeepBackups, backups)
           older == {i \in DOMAIN listed : listed[i].id < backups[n].id}
           past == CHOOSE i \in older : \A j \in older : j <= i
<1>1. /\ n \in 1..Len(backups) /\ Len(backups) \in Nat /\ n - 1 \in 1..Len(backups)
  OBVIOUS
<1>2. listed \in Seq(Backups) /\ Len(listed) = Len(backups) - off /\ off \in 0..Len(backups)
      /\ \A i \in 1..Len(listed) : listed[i] = backups[i + off]
  BY LastOnesFacts
<1>3. off + 1 < n
  BY <1>1
<1> HIDE DEF off, listed
<1>4. \A i \in 1..Len(backups) : backups[i].id \in Nat
  BY IdsAreNumbers
<1>5. older = 1..(n - 1 - off)
  <2>1. \A i \in 1..Len(listed) : i + off \in 1..Len(backups) /\ (listed[i].id < backups[n].id <=> i + off < n)
    <3>1. SUFFICES ASSUME NEW i \in 1..Len(listed)
                   PROVE  i + off \in 1..Len(backups) /\ (listed[i].id < backups[n].id <=> i + off < n)
      OBVIOUS
    <3>2. i + off \in 1..Len(backups) /\ listed[i] = backups[i + off] /\ i + off \in Int
      BY <1>1, <1>2
    <3>a. backups[i + off].id \in Nat /\ backups[n].id \in Nat
      BY <1>1, <1>4, <3>2
    <3>b. \A m, k \in 1..Len(backups) : m < k => backups[m].id < backups[k].id
      OBVIOUS
    <3>3. CASE i + off < n
      BY <1>1, <3>2, <3>3
    <3>4. CASE i + off = n
      BY <1>1, <1>4, <3>2, <3>4
    <3>5. CASE i + off > n
      <4>1. backups[n].id < backups[i + off].id
        BY <1>1, <3>2, <3>5
      <4> QED
        BY ONLY <1>1, <3>2, <3>a, <3>5, <4>1
    <3> QED
      BY ONLY <1>1, <3>2, <3>3, <3>4, <3>5
  <2>2. DOMAIN listed = 1..Len(listed) /\ Len(listed) \in Nat
    BY <1>2
  <2>3. ASSUME NEW i PROVE i \in older <=> i \in 1..(n - 1 - off)
    <3>1. CASE i \in 1..Len(listed)
      <4>1. i \in older <=> i + off < n
        BY <2>1, <2>2, <3>1
      <4> QED
        BY ONLY <1>1, <1>2, <3>1, <4>1
    <3>2. CASE i \notin 1..Len(listed)
      <4>1. i \notin older
        BY <2>2, <3>2
      <4> QED
        BY ONLY <1>1, <1>2, <2>2, <3>2, <4>1
    <3> QED
      BY <3>1, <3>2
  <2> QED
    BY <2>3
<1> HIDE DEF older
<1>6. past = n - 1 - off
  BY <1>1, <1>2, <1>3, <1>5
<1>7. listed[past] = backups[n - 1] /\ older # {}
  <2>1. n - 1 - off \in 1..Len(listed) /\ (n - 1 - off) + off = n - 1 /\ n - 1 - off \in older
    <3>1. /\ n \in 1..Len(backups) /\ Len(backups) \in Nat /\ off \in 0..Len(backups)
          /\ Len(listed) = Len(backups) - off /\ off + 1 < n
      BY ONLY <1>1, <1>2, <1>3
    <3>2. n - 1 - off \in 1..Len(listed) /\ (n - 1 - off) + off = n - 1
          /\ n - 1 - off \in 1..(n - 1 - off)
      BY ONLY <3>1
    <3> QED
      BY ONLY <1>5, <3>2
  <2>2. listed[n - 1 - off] = backups[(n - 1 - off) + off]
    BY <1>2, <2>1
  <2> QED
    BY <1>6, <2>1, <2>2
<1>8. Before(backups[n].id) = {i \in DOMAIN backups : backups[i] = backups[n - 1]}
  BY <1>7 DEF Before, older, listed
<1>9. DiffBase(backups[n].id) = {backups[n - 1].content}
  BY <1>1, <1>8 DEF DiffBase
<1> QED
  BY <1>1, <1>9

-----------------------------------------------------------------------------
(* The walk over a column.                                                 *)

\* The rows read so far are the first ones, and an answer to the request under
\* way tells the next ones.
WalkIsInOrder ==
    /\ client \in {"send", "wait", "done"} /\ column \in 0..ColumnMax
    /\ cursor \in 0..column /\ cursor <= MaxRows
    /\ out \in Seq(Nat) /\ Len(out) = cursor /\ \A k \in 1..cursor : out[k] = k
    /\ spent \in 0..Budget /\ rid = spent /\ tried \in 0..SendRetries
    /\ socket \in Sockets /\ cut \in BOOLEAN
    /\ \A d \in net : d.rid \in Nat /\ d.rid <= rid
    /\ client = "wait" => \A d \in net : d.rid = rid => d.rows = RowsAfter(cursor)

WalkIInv == WalkIsInOrder /\ RowsAreComplete

LEMMA WalkInitial == (WalkInit \/ WalkFrom(0)) => WalkIInv
<1> SUFFICES ASSUME NEW n \in 0..ColumnMax, WalkFrom(n) PROVE WalkIInv
  BY WalkAssumption DEF WalkInit
<1>1. column = n /\ client = "send" /\ cursor = 0 /\ out = <<>> /\ rid = 0 /\ tried = 0
      /\ spent = 0 /\ socket = "u" /\ net = {} /\ cut = FALSE
  BY DEF WalkFrom
<1>2. out \in Seq(Nat) /\ Len(out) = 0
  BY <1>1
<1>3. n \in Nat /\ 0 \in 0..n /\ 0 \in 0..Budget /\ 0 \in 0..SendRetries /\ 0 <= MaxRows
  BY WalkAssumption
<1>4. WalkIsInOrder
  <2>1. cursor \in 0..column /\ cursor <= MaxRows /\ column \in 0..ColumnMax
    BY <1>1, <1>3
  <2>2. Len(out) = cursor /\ \A k \in 1..cursor : out[k] = k
    BY <1>1, <1>2
  <2>3. spent \in 0..Budget /\ rid = spent /\ tried \in 0..SendRetries
    BY <1>1, <1>3
  <2>4. socket \in Sockets /\ cut \in BOOLEAN /\ client \in {"send", "wait", "done"}
        /\ client # "wait" /\ net = {}
    BY <1>1 DEF Sockets
  <2> QED
    BY <1>2, <2>1, <2>2, <2>3, <2>4 DEF WalkIsInOrder
<1> QED
  BY <1>1, <1>4 DEF WalkIInv, RowsAreComplete

\* What the agent tells after a row.
LEMMA RowsFacts ==
    ASSUME WalkIInv
    PROVE  /\ RowsAfter(cursor) \in Seq(Nat)
           /\ \A k \in 1..Len(RowsAfter(cursor)) : RowsAfter(cursor)[k] = cursor + k
           /\ RowsAfter(cursor) = <<>> => cursor = column
<1> DEFINE n == IF cursor + Bulk <= column + Beyond THEN Bulk ELSE column + Beyond - cursor
<1>1. n \in Nat /\ cursor \in Nat /\ column \in Nat /\ cursor <= column
  BY WalkAssumption DEF WalkIInv, WalkIsInOrder
<1>2. n = 0 => cursor = column
  BY <1>1, WalkAssumption
<1>3. RowsAfter(cursor) = [k \in 1..n |-> cursor + k]
  BY DEF RowsAfter
<1> HIDE DEF n
<1> DEFINE r == [k \in 1..n |-> cursor + k]
<1>4. r \in Seq(Nat) /\ Len(r) = n /\ \A k \in 1..n : r[k] = cursor + k
  BY <1>1
<1>5. r = <<>> => n = 0
  BY <1>4
<1> QED
  BY <1>2, <1>3, <1>4, <1>5

\* How many of them are taken.
LEMMA TakenFacts ==
    ASSUME WalkIInv, NEW body \in Seq(Nat), \A k \in 1..Len(body) : body[k] = cursor + k
    PROVE  \E n \in 0..Len(body) :
              /\ Taken(body) = SubSeq(body, 1, n)
              /\ cursor + n <= column /\ cursor + n <= MaxRows
              /\ n < Len(body) => cursor + n = column \/ cursor + n = MaxRows
<1> DEFINE Fit(n) == \A k \in 1..n : body[k] <= column /\ Len(out) + k <= MaxRows
           upto == CHOOSE n \in 0..Len(body) : Fit(n) /\ (n < Len(body) => ~Fit(n + 1))
           room == IF column <= MaxRows THEN column - cursor ELSE MaxRows - cursor
           least == IF room <= Len(body) THEN room ELSE Len(body)
<1>1. cursor \in Nat /\ column \in Nat /\ MaxRows \in Nat /\ cursor <= column /\ cursor <= MaxRows
      /\ Len(out) = cursor
  BY WalkAssumption DEF WalkIInv, WalkIsInOrder
<1>2. Len(body) \in Nat /\ room \in Nat /\ least \in 0..Len(body)
  BY <1>1
<1>3. ASSUME NEW n \in 0..Len(body) PROVE Fit(n) <=> n <= room
  <2>1. \A k \in 1..n : k \in 1..Len(body) /\ body[k] = cursor + k
    BY <1>2
  <2>2. n <= room => Fit(n)
    BY <1>1, <1>2, <2>1
  <2>3. ASSUME Fit(n), n > 0 PROVE n <= room
    <3>1. n \in 1..n
      BY <2>3
    <3>2. body[n] <= column /\ Len(out) + n <= MaxRows
      BY <2>3, <3>1
    <3> QED
      BY <1>1, <2>1, <3>1, <3>2
  <2> QED
    BY <1>2, <2>2, <2>3
<1> HIDE DEF Fit
<1>4. Fit(least) /\ (least < Len(body) => ~Fit(least + 1))
  <2>1. least < Len(body) => least = room /\ least + 1 \in 0..Len(body)
    BY <1>2
  <2>2. Fit(least)
    BY <1>2, <1>3
  <2>3. ASSUME least < Len(body) PROVE ~Fit(least + 1)
    BY <1>2, <1>3, <2>1, <2>3
  <2> QED
    BY <2>2, <2>3
<1>5. upto \in 0..Len(body) /\ Fit(upto) /\ (upto < Len(body) => ~Fit(upto + 1))
  <2> HIDE DEF least
  <2> QED
    BY <1>2, <1>4
<1>6. Taken(body) = SubSeq(body, 1, upto)
  BY DEF Taken, Fit
<1> HIDE DEF upto
<1>7. upto <= room /\ (upto < Len(body) => upto >= room)
  BY <1>2, <1>3, <1>5
<1> QED
  BY <1>1, <1>2, <1>5, <1>6, <1>7

LEMMA WalkReceives == WalkIInv /\ Receive => WalkIInv'
<1> SUFFICES ASSUME WalkIInv, Receive PROVE WalkIInv'
  OBVIOUS
<1>1. PICK d \in net : /\ AnswersThis(d) /\ net' = net \ {d} /\ out' = out \o Taken(d.rows)
                       /\ cursor' = IF Taken(d.rows) = <<>> THEN cursor
                                    ELSE Taken(d.rows)[Len(Taken(d.rows))]
                       /\ client' = IF Taken(d.rows) # d.rows \/ d.rows = <<>> THEN "done" ELSE "send"
  BY DEF Receive
<1>2. client = "wait" /\ UNCHANGED <<column, rid, tried, spent, socket, cut>>
  BY DEF Receive
<1> DEFINE body == RowsAfter(cursor)
<1>3. d.rows = body
  BY <1>1, <1>2 DEF AnswersThis, WalkIInv, WalkIsInOrder
<1>4. /\ body \in Seq(Nat) /\ Len(body) \in Nat /\ \A k \in 1..Len(body) : body[k] = cursor + k
      /\ body = <<>> => cursor = column
  BY RowsFacts
<1> HIDE DEF body
<1>5. PICK n \in 0..Len(body) : /\ Taken(body) = SubSeq(body, 1, n)
                                /\ cursor + n <= column /\ cursor + n <= MaxRows
                                /\ n < Len(body) => cursor + n = column \/ cursor + n = MaxRows
  BY <1>4, TakenFacts
<1> DEFINE t == SubSeq(body, 1, n)
<1>6. t \in Seq(Nat) /\ Len(t) = n /\ \A k \in 1..n : t[k] = cursor + k
  BY <1>4
<1>7. t # body \/ body = <<>> => n < Len(body) \/ cursor = column
  <2>1. n = Len(body) => t = body
    BY <1>4
  <2> QED
    BY <1>4, <1>5, <2>1
<1>8. t = <<>> <=> n = 0
  BY <1>6
<1> HIDE DEF t
<1>9. out' = out \o t /\ cursor' = (IF t = <<>> THEN cursor ELSE t[Len(t)])
      /\ client' = (IF t # body \/ body = <<>> THEN "done" ELSE "send")
  BY <1>1, <1>3, <1>5 DEF t
<1>10. /\ out \in Seq(Nat) /\ Len(out) = cursor /\ cursor \in Nat /\ column \in 0..ColumnMax
       /\ \A k \in 1..cursor : out[k] = k
  BY DEF WalkIInv, WalkIsInOrder
<1>11. cursor' = cursor + n
  <2>1. CASE n = 0
    BY <1>8, <1>9, <1>10, <2>1
  <2>2. CASE n > 0
    <3>1. n \in 1..n /\ t # <<>>
      BY <1>8, <2>2
    <3> QED
      BY <1>6, <1>9, <3>1
  <2> QED
    BY <2>1, <2>2
<1>12. out' \in Seq(Nat) /\ Len(out') = cursor' /\ \A k \in 1..cursor' : out'[k] = k
  <2>1. out' \in Seq(Nat) /\ Len(out') = cursor + n
    <3>1. t \in Seq(Nat) /\ out \in Seq(Nat) /\ out' = out \o t
      BY <1>6, <1>9, <1>10
    <3>2. out' \in Seq(Nat) /\ Len(out') = Len(out) + Len(t)
      BY ONLY <3>1
    <3> QED
      BY <1>6, <1>10, <3>2
  <2>2. ASSUME NEW k \in 1..(cursor + n) PROVE out'[k] = k
    <3>1. CASE k <= cursor
      <4>1. out'[k] = out[k] /\ k \in 1..cursor
        BY <1>6, <1>9, <1>10, <2>2, <3>1
      <4> QED
        BY <1>10, <4>1
    <3>2. CASE k > cursor
      <4>1. out'[k] = t[k - cursor] /\ k - cursor \in 1..n
        BY <1>6, <1>9, <1>10, <2>2, <3>2
      <4> QED
        BY <1>6, <1>10, <4>1
    <3> QED
      BY <1>10, <3>1, <3>2
  <2> QED
    BY <1>11, <2>1, <2>2
<1>13. client' = "done" => cursor' = column \/ cursor' = MaxRows
  <2>1. client' = "done" => n < Len(body) \/ cursor = column
    BY <1>7, <1>9
  <2>2. cursor + n <= column /\ (n < Len(body) => cursor + n = column \/ cursor + n = MaxRows)
    BY <1>5
  <2>3. cursor = column => cursor + n = column
    BY <1>4, <1>10, <2>2
  <2> QED
    BY <1>11, <2>1, <2>2, <2>3
<1>14. cursor' \in 0..column /\ cursor' <= MaxRows
  BY <1>5, <1>10, <1>11
<1>15. RowsAreComplete'
  BY <1>2, <1>10, <1>12, <1>13, <1>14, WalkAssumption DEF RowsAreComplete
<1>16. client' \in {"send", "done"}
  BY <1>9
<1>17. WalkIsInOrder'
  BY <1>1, <1>2, <1>12, <1>14, <1>16 DEF WalkIInv, WalkIsInOrder
<1> QED
  BY <1>15, <1>17 DEF WalkIInv

LEMMA WalkStep == WalkIInv /\ [WalkNext]_walkVars => WalkIInv'
<1> SUFFICES ASSUME WalkIInv, [WalkNext]_walkVars PROVE WalkIInv'
  OBVIOUS
<1> USE WalkAssumption DEF WalkIInv, WalkIsInOrder, RowsAreComplete
<1>1. ASSUME Transmit(rid'), UNCHANGED <<column, cursor, out, cut>>,
             rid' = rid \/ rid' = rid + 1, rid' = spent', spent' \in 0..Budget,
             tried' \in 0..SendRetries, rid' = rid => client = "wait"
      PROVE  WalkIInv'
  <2>1. PICK port \in Sockets, answered \in BOOLEAN :
          /\ socket' = port /\ client' = "wait"
          /\ net' = IF answered THEN net \cup {Answer(port, rid', RowsAfter(cursor))} ELSE net
    BY <1>1 DEF Transmit
  <2> DEFINE d0 == Answer(port, rid', RowsAfter(cursor))
  <2>2. d0.rid = rid' /\ d0.rows = RowsAfter(cursor)
    BY DEF Answer
  <2> HIDE DEF d0
  <2>3. rid' \in Nat /\ rid \in Nat /\ rid <= rid'
    BY <1>1
  <2>4. RowsAfter(cursor)' = RowsAfter(cursor)
    BY <1>1 DEF RowsAfter
  <2>5. ASSUME NEW d \in net' PROVE d.rid \in Nat /\ d.rid <= rid' /\ (d.rid = rid' => d.rows = RowsAfter(cursor))
    <3>1. CASE d = d0
      BY <2>2, <2>3, <3>1
    <3>2. CASE d # d0
      <4>1. d \in net
        BY <2>1, <2>5, <3>2 DEF d0
      <4>2. d.rid \in Nat /\ d.rid <= rid /\ (client = "wait" /\ d.rid = rid => d.rows = RowsAfter(cursor))
        BY <4>1
      <4> QED
        BY <1>1, <2>3, <4>2
    <3> QED
      BY <3>1, <3>2
  <2> QED
    BY <1>1, <2>1, <2>4, <2>5
<1>2. CASE SendRequest
  <2>1. spent < Budget /\ spent \in Nat /\ rid = spent
    BY <1>2 DEF SendRequest, Limited
  <2> QED
    BY <1>1, <1>2, <2>1 DEF SendRequest
<1>3. CASE StopAtLimit
  <2>1. /\ client' = "done" /\ cut' = (spent >= Budget /\ Len(out) < MaxRows)
        /\ UNCHANGED <<column, cursor, out, rid, tried, spent, socket, net>>
        /\ (spent >= Budget \/ Len(out) >= MaxRows)
    BY <1>3 DEF StopAtLimit, Limited
  <2>2. cut' \in BOOLEAN
    BY <2>1
  <2>3. Len(out) = cursor /\ cursor \in 0..column /\ column \in Nat /\ spent \in Nat /\ cursor <= MaxRows
    OBVIOUS
  <2>4. RowsAreComplete'
    <3>1. CASE spent >= Budget /\ Len(out) < MaxRows
      <4>1. cut' = TRUE
        BY <2>1, <3>1
      <4> QED
        BY <4>1
    <3>2. CASE ~(spent >= Budget /\ Len(out) < MaxRows)
      <4>1. Len(out) >= MaxRows /\ MaxRows \in Nat
        BY <2>1, <3>2
      <4>2. cursor = MaxRows
        BY <2>3, <4>1
      <4> QED
        BY <2>1, <2>3, <4>2
    <3> QED
      BY <3>1, <3>2
  <2> QED
    BY <2>1, <2>2, <2>4
<1>4. CASE TimesOut
  <2>1. CASE tried < SendRetries
    <3>1. tried' = tried + 1 /\ Transmit(rid) /\ UNCHANGED <<cut, column, cursor, out, rid, spent>>
          /\ client = "wait"
      BY <1>4, <2>1 DEF TimesOut
    <3>2. Transmit(rid')
      BY <3>1
    <3>3. tried' \in 0..SendRetries
      BY <2>1, <3>1
    <3> QED
      BY <1>1, <3>1, <3>2, <3>3
  <2>2. CASE ~(tried < SendRetries)
    BY <1>4, <2>2 DEF TimesOut
  <2> QED
    BY <2>1, <2>2
<1>5. CASE Lost
  BY <1>5 DEF Lost, RowsAfter
<1>6. CASE Discard
  BY <1>6 DEF Discard, RowsAfter
<1>7. CASE Receive
  BY <1>7, WalkReceives
<1>8. CASE UNCHANGED walkVars
  BY <1>8 DEF walkVars, RowsAfter
<1> QED
  BY <1>2, <1>3, <1>4, <1>5, <1>6, <1>7, <1>8 DEF WalkNext

LEMMA WalkFacts == WalkIInv => RowsAreOfTheColumn /\ RowsAreComplete /\ WalkTypeOK
<1> SUFFICES ASSUME WalkIInv PROVE RowsAreOfTheColumn /\ WalkTypeOK
  BY DEF WalkIInv
<1>1. out \in Seq(Nat) /\ Len(out) = cursor /\ \A k \in 1..cursor : out[k] = k
  BY DEF WalkIInv, WalkIsInOrder
<1>2. out = [k \in 1..Len(out) |-> k]
  BY <1>1
<1> QED
  BY <1>1, <1>2 DEF WalkIInv, WalkIsInOrder, RowsAreOfTheColumn, WalkTypeOK

-----------------------------------------------------------------------------
(* The counters and alarms of a device.                                    *)

\* What is recorded and what the next poll may add happened since the first
\* sample; before it, and without a restart, there is no other one.
SamplesAreTrue ==
    /\ happened = NotYet => points = 0 /\ sample = NoSample
    /\ happened # NotYet => points <= happened
    /\ sample # NoSample => points + (IF counter < sample THEN counter ELSE counter - sample)
                            <= happened
    /\ ~gap /\ sample = NoSample => happened = NotYet

PollerIInv == PollerTypeOK /\ SamplesAreTrue /\ NoErrorIsMissed /\ AlarmsComeInPairs

LEMMA PollerInitial == PollerInit => PollerIInv
<1> SUFFICES ASSUME PollerInit PROVE PollerIInv
  OBVIOUS
<1> USE PollerAssumption DEF PollerInit
<1>1. PollerTypeOK
  <2>1. over \in [Metrics -> BOOLEAN] /\ lastTold \in [Metrics -> {"none", "over", "clear"}]
    OBVIOUS
  <2>2. 0 \in 0..CountMax /\ 0 \in 0..PollMax
    OBVIOUS
  <2>3. limit \in Limits /\ gap \in BOOLEAN /\ unsaid \subseteq Metrics
    BY DEF Limits
  <2> QED
    BY <2>1, <2>2, <2>3 DEF PollerTypeOK
<1>2. SamplesAreTrue /\ NoErrorIsMissed
  BY DEF SamplesAreTrue, NoErrorIsMissed, NoSample, NotYet
<1>3. AlarmsComeInPairs
  BY DEF AlarmsComeInPairs
<1> QED
  BY <1>1, <1>2, <1>3 DEF PollerIInv

\* Nothing is recorded twice and nothing that did not happen.
LEMMA RecordedFacts == PollerIInv => ErrorsAreRecordedOnce /\ NoErrorIsMissed /\ AlarmsComeInPairs
<1> SUFFICES ASSUME PollerIInv PROVE ErrorsAreRecordedOnce
  BY DEF PollerIInv
<1> QED
  BY DEF PollerIInv, PollerTypeOK, SamplesAreTrue, ErrorsAreRecordedOnce

LEMMA PollerStep == PollerIInv /\ [PollerNext]_pollVars => PollerIInv'
<1> SUFFICES ASSUME PollerIInv, [PollerNext]_pollVars PROVE PollerIInv'
  OBVIOUS
<1> USE PollerAssumption DEF PollerIInv
<1>t. /\ counter \in Nat /\ counter <= CountMax /\ points \in Nat /\ points <= CountMax
      /\ (sample = NoSample \/ (sample \in Nat /\ sample <= CountMax))
      /\ (happened = NotYet \/ (happened \in Nat /\ happened <= CountMax))
      /\ NoSample = -1 /\ NotYet = -1 /\ gap \in BOOLEAN /\ rounds \in 0..PollMax
  BY DEF PollerTypeOK, NoSample, NotYet
<1>a. UNCHANGED alarmVars => AlarmsComeInPairs'
  BY DEF alarmVars, AlarmsComeInPairs
<1>b. UNCHANGED alarmVars => over' \in [Metrics -> BOOLEAN] /\ lastTold' \in [Metrics -> {"none", "over", "clear"}]
                             /\ limit' \in Limits /\ unsaid' \subseteq Metrics
  BY DEF alarmVars, PollerTypeOK
<1>c. UNCHANGED countVars => /\ counter' \in 0..CountMax /\ sample' \in {NoSample} \cup 0..CountMax
                             /\ points' \in 0..CountMax /\ happened' \in {NotYet} \cup 0..CountMax
                             /\ gap' \in BOOLEAN /\ SamplesAreTrue' /\ NoErrorIsMissed'
  BY DEF countVars, PollerTypeOK, SamplesAreTrue, NoErrorIsMissed
<1>1. CASE ErrorHappens
  <2>1. /\ counter < CountMax /\ happened < CountMax /\ counter' = counter + 1
        /\ happened' = IF happened = NotYet THEN NotYet ELSE happened + 1
        /\ UNCHANGED <<sample, points, gap, rounds>> /\ UNCHANGED alarmVars
    BY <1>1 DEF ErrorHappens
  <2>2. /\ counter' \in 0..CountMax /\ sample' \in {NoSample} \cup 0..CountMax
        /\ points' \in 0..CountMax /\ happened' \in {NotYet} \cup 0..CountMax
    BY <1>t, <2>1
  <2>3. SamplesAreTrue'
    BY <1>t, <2>1 DEF SamplesAreTrue
  <2>4. NoErrorIsMissed'
    BY <1>t, <2>1 DEF SamplesAreTrue, NoErrorIsMissed
  <2> QED
    BY <1>t, <1>a, <1>b, <2>1, <2>2, <2>3, <2>4 DEF PollerTypeOK
<1>2. CASE DeviceRestarts
  <2>1. /\ counter' = 0 /\ gap' = TRUE /\ UNCHANGED <<sample, points, happened, rounds>>
        /\ UNCHANGED alarmVars
    BY <1>2 DEF DeviceRestarts
  <2>2. SamplesAreTrue'
    BY <1>t, <2>1 DEF SamplesAreTrue
  <2>3. NoErrorIsMissed'
    BY <2>1 DEF NoErrorIsMissed
  <2> QED
    BY <1>t, <1>a, <1>b, <2>1, <2>2, <2>3 DEF PollerTypeOK
<1>3. ASSUME NEW stored \in BOOLEAN, PollErrors(stored) PROVE PollerIInv'
  <2>1. /\ rounds < PollMax /\ rounds' = rounds + 1
        /\ points' = IF stored THEN points + Delta(sample, counter) ELSE points
        /\ gap' = (gap \/ ~stored) /\ sample' = counter
        /\ happened' = IF happened = NotYet THEN 0 ELSE happened
        /\ UNCHANGED counter /\ UNCHANGED alarmVars
    BY <1>3 DEF PollErrors
  <2>2. Delta(sample, counter) = IF sample # NoSample /\ counter > sample THEN counter - sample ELSE 0
    BY DEF Delta
  <2>3. gap' \in BOOLEAN /\ (~gap' => ~gap /\ stored)
    BY <1>t, <2>1
  <2>4. points' \in Nat /\ points' <= happened' /\ happened' \in Nat /\ happened' <= CountMax
    BY <1>t, <2>1, <2>2 DEF SamplesAreTrue
  <2>5. SamplesAreTrue'
    BY <1>t, <2>1, <2>4 DEF SamplesAreTrue
  <2>6. NoErrorIsMissed'
    <3>1. SUFFICES ASSUME ~gap, stored PROVE points' = happened'
      BY <1>t, <2>1, <2>3, <2>4 DEF NoErrorIsMissed
    <3>2. CASE sample = NoSample
      BY <1>t, <2>1, <2>2, <3>1, <3>2 DEF SamplesAreTrue
    <3>3. CASE sample # NoSample
      <4>1. points + (counter - sample) = happened /\ happened # NotYet
        BY <3>1, <3>3 DEF NoErrorIsMissed, SamplesAreTrue
      <4>2. counter >= sample
        BY <1>t, <3>3, <4>1 DEF SamplesAreTrue
      <4> QED
        BY <1>t, <2>1, <2>2, <3>1, <3>3, <4>1, <4>2
    <3> QED
      BY <3>2, <3>3
  <2>7. rounds' \in 0..PollMax
    BY <1>t, <2>1
  <2> QED
    BY <1>t, <1>a, <1>b, <2>1, <2>3, <2>4, <2>5, <2>6, <2>7 DEF PollerTypeOK
<1>4. ASSUME NEW c \in Values \cup {NoAnswer}, NEW t \in Values \cup {NoAnswer},
             NEW f \in Metrics \cup {"nothing"}, CheckValues(c, t, f)
      PROVE  PollerIInv'
  <2> DEFINE value == [cpu |-> c, temp |-> t]
             verdict == [m \in Metrics |-> Judgement(over[m], value[m])]
             reached == IF f = "cpu" THEN {"cpu"} ELSE Metrics
             change == {m \in reached : verdict[m] # "none"}
  <2>1. /\ rounds < PollMax /\ rounds' = rounds + 1 /\ over' = OverAfter(change, verdict)
        /\ lastTold' = [m \in Metrics |-> IF m \in change \ {f} THEN verdict[m] ELSE lastTold[m]]
        /\ unsaid' = (unsaid \ (change \ {f})) \cup (change \cap {f})
        /\ UNCHANGED limit /\ UNCHANGED countVars
    BY <1>4 DEF CheckValues
  <2>2. change \subseteq Metrics
    BY DEF Metrics
  <2>3. \A m \in Metrics : verdict[m] \in {"none", "over", "clear"}
    BY DEF Judgement
  <2>4. \A m \in change : verdict[m] # "none"
    OBVIOUS
  <2> HIDE DEF value, verdict, reached, change
  <2>5. over \in [Metrics -> BOOLEAN] /\ lastTold \in [Metrics -> {"none", "over", "clear"}]
        /\ unsaid \subseteq Metrics /\ limit \in Limits
    BY DEF PollerTypeOK
  <2>6. /\ over' = [m \in Metrics |-> IF m \in change THEN verdict[m] = "over" ELSE over[m]]
    BY <2>1 DEF OverAfter
  <2>7. over' \in [Metrics -> BOOLEAN] /\ lastTold' \in [Metrics -> {"none", "over", "clear"}]
        /\ unsaid' \subseteq Metrics /\ limit' \in Limits
    <3>1. over' \in [Metrics -> BOOLEAN]
      BY <2>5, <2>6
    <3>2. lastTold' \in [Metrics -> {"none", "over", "clear"}]
      BY <2>1, <2>3, <2>5
    <3> QED
      BY <2>1, <2>2, <2>5, <3>1, <3>2
  <2>8. AlarmsComeInPairs'
    <3>1. SUFFICES ASSUME NEW m \in Metrics \ unsaid' PROVE over'[m] <=> lastTold'[m] = "over"
      BY DEF AlarmsComeInPairs
    <3>2. CASE m \in change
      <4>1. m # f
        BY <2>1, <3>1, <3>2
      <4>2. lastTold'[m] = verdict[m]
        BY <2>1, <3>2, <4>1
      <4>3. over'[m] = (verdict[m] = "over")
        BY <2>6, <3>2
      <4> QED
        BY <4>2, <4>3
    <3>3. CASE m \notin change
      <4>1. m \notin unsaid
        BY <2>1, <3>1, <3>3
      <4>2. over'[m] = over[m] /\ lastTold'[m] = lastTold[m]
        BY <2>1, <2>6, <3>3
      <4> QED
        BY <4>1, <4>2 DEF AlarmsComeInPairs
    <3> QED
      BY <3>2, <3>3
  <2>9. rounds' \in 0..PollMax
    BY <1>t, <2>1
  <2> QED
    BY <1>c, <2>1, <2>7, <2>8, <2>9 DEF PollerTypeOK
<1>5. CASE SetLimit
  BY <1>t, <1>c, <1>5 DEF SetLimit, PollerTypeOK, AlarmsComeInPairs
<1>6. CASE ProcessRestarts
  <2>1. /\ rounds < PollMax /\ rounds' = rounds + 1 /\ sample' = NoSample /\ gap' = TRUE
        /\ over' = [m \in Metrics |-> FALSE] /\ unsaid' = unsaid \cup {m \in Metrics : over[m]}
        /\ UNCHANGED <<counter, points, happened, lastTold, limit>>
    BY <1>6 DEF ProcessRestarts
  <2>2. SamplesAreTrue' /\ NoErrorIsMissed'
    BY <1>t, <2>1 DEF SamplesAreTrue, NoErrorIsMissed
  <2>3. AlarmsComeInPairs'
    BY <2>1 DEF AlarmsComeInPairs
  <2>4. PollerTypeOK'
    BY <1>t, <2>1 DEF PollerTypeOK
  <2> QED
    BY <2>2, <2>3, <2>4
<1>7. CASE UNCHANGED pollVars
  BY <1>a, <1>b, <1>c, <1>7, <1>t DEF pollVars, PollerTypeOK, alarmVars, countVars
<1> QED
  BY <1>1, <1>2, <1>3, <1>4, <1>5, <1>6, <1>7 DEF PollerNext

-----------------------------------------------------------------------------
(* The row of a firewall.                                                  *)

Rows == [Fields -> Sources \cup {Nothing}]

\* A copy that was read after the last write is what is stored.
CopiesAreOfTheirTime ==
    /\ metrics \in Rows /\ revision \in Nat
    /\ \A c \in Collecting :
          /\ merge[c].copy \in Rows
          /\ merge[c].of # "none" => merge[c].at <= revision /\ merge[c].at \in Int
          /\ merge[c].of # "none" /\ merge[c].at = revision => merge[c].copy = metrics
    /\ DOMAIN merge = Collecting

LEMMA NothingIsARow == NoMerge.of = "none" /\ NoMerge.copy \in Rows
  BY DEF NoMerge, Rows

LEMMA EnvInitial == EnvInit => CopiesAreOfTheirTime
<1> SUFFICES ASSUME EnvInit PROVE CopiesAreOfTheirTime
  OBVIOUS
<1>1. \A c \in Collecting : merge[c] = NoMerge
  BY DEF EnvInit
<1>2. metrics \in Rows
  BY DEF EnvInit, Rows
<1>3. DOMAIN merge = Collecting /\ revision = 0
  BY DEF EnvInit
<1> QED
  BY <1>1, <1>2, <1>3, NothingIsARow DEF CopiesAreOfTheirTime

\* What a thread makes of its copy.
MergedFrom(copy, new) ==
    \/ new = SnmpMerged(copy)
    \/ \E rest, sys, ssh, noted \in BOOLEAN : new = ExtraMerged(copy, rest, sys, ssh, noted)

\* Neither merge takes a field away, or the identity that SSH told.
LEMMA MergesAdd ==
    ASSUME NEW copy \in Rows, NEW new, MergedFrom(copy, new)
    PROVE  /\ new \in Rows
           /\ \A f \in Fields \ {"notes"} : copy[f] # Nothing => new[f] # Nothing
           /\ copy["model"] = "ssh" => new["model"] = "ssh"
<1> USE DEF Fields, Sources, Nothing, Rows
<1>2. CASE new = SnmpMerged(copy)
  <2>1. /\ new \in [Fields -> Sources \cup {Nothing}] /\ new["cpu"] = "snmp"
        /\ new["model"] = (IF copy["model"] = Nothing THEN "snmp" ELSE copy["model"])
        /\ new["vpn"] = copy["vpn"]
    BY <1>2 DEF SnmpMerged
  <2> QED
    BY <2>1
<1>3. ASSUME NEW rest \in BOOLEAN, NEW sys \in BOOLEAN, NEW ssh \in BOOLEAN, NEW noted \in BOOLEAN,
             new = ExtraMerged(copy, rest, sys, ssh, noted)
      PROVE  /\ new \in Rows
             /\ \A f \in Fields \ {"notes"} : copy[f] # Nothing => new[f] # Nothing
             /\ copy["model"] = "ssh" => new["model"] = "ssh"
  <2>1. /\ DOMAIN new = Fields
        /\ new["model"] = IF ssh THEN "ssh" ELSE IF copy["model"] = Nothing /\ sys THEN "rest"
                          ELSE copy["model"]
        /\ new["cpu"] = IF copy["cpu"] = Nothing /\ ssh THEN "ssh" ELSE copy["cpu"]
        /\ new["vpn"] = IF rest THEN "rest" ELSE copy["vpn"]
        /\ new["notes"] = IF noted THEN "rest" ELSE Nothing
    BY <1>3 DEF ExtraMerged
  <2>2. new = [f \in Fields |-> new[f]]
    BY <1>3 DEF ExtraMerged
  <2>3. \A f \in Fields : new[f] \in Sources \cup {Nothing}
    BY <2>1
  <2> QED
    BY <2>1, <2>2, <2>3
<1> QED
  BY <1>2, <1>3 DEF MergedFrom

LEMMA WriteFacts ==
    ASSUME CopiesAreOfTheirTime, NEW c \in Collecting,
           \/ WriteSnmp(c)
           \/ \E r, i, s, n \in BOOLEAN : WriteExtra(c, r, i, s, n)
    PROVE  /\ revision' = revision + 1 /\ merge[c].of # "none"
           /\ merge' = [merge EXCEPT ![c] = NoMerge]
           /\ MergedFrom(merge[c].copy, metrics')
           /\ ~crossed' => merge[c].copy = metrics
<1>1. /\ revision' = revision + 1 /\ crossed' = (crossed \/ merge[c].at # revision)
      /\ merge' = [merge EXCEPT ![c] = NoMerge] /\ merge[c].of \in {"snmp", "extra"}
      /\ MergedFrom(merge[c].copy, metrics')
  BY DEF WriteSnmp, WriteExtra, WriteMetrics, MergedFrom
<1>2. ~crossed' => merge[c].at = revision
  BY <1>1
<1> QED
  BY <1>1, <1>2 DEF CopiesAreOfTheirTime

\* What an action leaves of the row, if no thread crossed another.
RowIsKept ==
    /\ \A f \in Fields \ {"notes"} : metrics[f] # Nothing => metrics'[f] # Nothing
    /\ metrics["model"] = "ssh" => metrics'["model"] = "ssh"

LEMMA EnvStep ==
    CopiesAreOfTheirTime /\ [EnvNext]_envVars
      => CopiesAreOfTheirTime' /\ (~crossed' => RowIsKept)
<1> SUFFICES ASSUME CopiesAreOfTheirTime, [EnvNext]_envVars
             PROVE  CopiesAreOfTheirTime' /\ (~crossed' => RowIsKept)
  OBVIOUS
<1>1. CASE SaveTemps \/ UNCHANGED envVars
  <2>1. UNCHANGED <<metrics, merge, revision, crossed>>
    BY <1>1 DEF SaveTemps, RowWithTemps, envVars
  <2> QED
    BY <2>1 DEF CopiesAreOfTheirTime, RowIsKept
<1>2. ASSUME NEW c \in Collecting, NEW of \in {"snmp", "extra"}, NEW read \in BOOLEAN,
             ReadMetrics(c, of, read)
      PROVE  CopiesAreOfTheirTime' /\ (~crossed' => RowIsKept)
  <2> DEFINE new == IF read THEN [of |-> of, copy |-> metrics, at |-> revision]
                    ELSE [NoMerge EXCEPT !.of = of, !.at = Unreadable]
  <2>1. UNCHANGED <<metrics, revision, crossed>> /\ merge' = [merge EXCEPT ![c] = new]
    BY <1>2 DEF ReadMetrics
  <2>2. /\ new.of = of /\ new.at = (IF read THEN revision ELSE -1)
        /\ new.copy = (IF read THEN metrics ELSE NoMerge.copy)
    BY DEF NoMerge, Unreadable
  <2> HIDE DEF new
  <2>3. new.copy \in Rows /\ new.at <= revision /\ new.at \in Int
        /\ (new.at = revision => new.copy = metrics)
    BY <2>2, NothingIsARow DEF CopiesAreOfTheirTime
  <2> QED
    BY <2>1, <2>3 DEF CopiesAreOfTheirTime, RowIsKept
<1>3. ASSUME NEW c \in Collecting,
             \/ WriteSnmp(c)
             \/ \E r, i, s, n \in BOOLEAN : WriteExtra(c, r, i, s, n)
      PROVE  CopiesAreOfTheirTime' /\ (~crossed' => RowIsKept)
  <2>1. /\ revision' = revision + 1 /\ merge' = [merge EXCEPT ![c] = NoMerge]
        /\ MergedFrom(merge[c].copy, metrics') /\ (~crossed' => merge[c].copy = metrics)
    BY <1>3, WriteFacts
  <2>2. merge[c].copy \in Rows
    BY DEF CopiesAreOfTheirTime
  <2> DEFINE copy == merge[c].copy
             row == metrics'
  <2>3. copy \in Rows /\ MergedFrom(copy, row)
    BY <2>1, <2>2
  <2> HIDE DEF copy, row
  <2>4. /\ row \in Rows
        /\ \A f \in Fields \ {"notes"} : copy[f] # Nothing => row[f] # Nothing
        /\ copy["model"] = "ssh" => row["model"] = "ssh"
    BY <2>3, MergesAdd
  <2>5. ~crossed' => RowIsKept
    BY <2>1, <2>4 DEF copy, row, RowIsKept
  <2> QED
    BY <2>1, <2>4, <2>5, NothingIsARow DEF row, CopiesAreOfTheirTime
<1> QED
  BY <1>1, <1>2, <1>3 DEF EnvNext

-----------------------------------------------------------------------------
(* What a collection of a server finds out.                                *)

Known == {"none", "good", "typo", "wrong"}
Excuses == {"account", "ssh", "specs", "wmi", "snmp"}
Views == [os : Systems \cup {""}, specs : BOOLEAN, tries : Seq(Known), account : Known,
          excuses : SUBSET Excuses]

\* The given accounts: one, and the stored one after a refusal of the other.
GivenFrom(m, account, given) ==
    \/ given = <<account>>
    \/ given = <<account, m.stored>> /\ account # "good" /\ m.stored \in {"good", "wrong"}
                                     /\ m.stored # account

LEMMA ShortLists ==
    ASSUME NEW S, NEW a \in S, NEW b \in S
    PROVE  <<>> \in Seq(S) /\ <<a>> \in Seq(S) /\ <<a, b>> \in Seq(S)
  OBVIOUS

LEMMA TriedFacts ==
    ASSUME NEW m \in Meetings, NEW account \in Known
    PROVE  LET given == Tried(AccountsToTry(m, account)) IN
           /\ GivenFrom(m, account, given)
           /\ Accepted(given) <=> account = "good" \/ (m.stored = "good" /\ given = <<account, m.stored>>)
<1> DEFINE given == Tried(AccountsToTry(m, account))
<1>1. m.stored \in {"none", "good", "wrong"}
  BY DEF Meetings
<1>2. CASE m.stored \in {"none", account}
  <2>1. AccountsToTry(m, account) = <<account>>
    BY <1>2 DEF AccountsToTry
  <2>2. given = <<account>>
    BY <2>1 DEF Tried
  <2>3. {given[n] : n \in DOMAIN given} = {account}
    BY <2>2
  <2>4. given # <<account, m.stored>>
    BY <2>2
  <2> QED
    BY <2>2, <2>3, <2>4 DEF GivenFrom, Accepted
<1>3. CASE m.stored \notin {"none", account} /\ account = "good"
  <2>1. AccountsToTry(m, account) = <<account, m.stored>>
    BY <1>3 DEF AccountsToTry
  <2>2. given = <<account>>
    BY <1>3, <2>1 DEF Tried
  <2>3. {given[n] : n \in DOMAIN given} = {account}
    BY <2>2
  <2> QED
    BY <1>3, <2>2, <2>3 DEF GivenFrom, Accepted
<1>4. CASE m.stored \notin {"none", account} /\ account # "good"
  <2>1. AccountsToTry(m, account) = <<account, m.stored>>
    BY <1>4 DEF AccountsToTry
  <2>2. given = <<account, m.stored>>
    BY <1>4, <2>1 DEF Tried
  <2>3. {given[n] : n \in DOMAIN given} = {account, m.stored}
    <3>1. DOMAIN given = {1, 2} /\ given[1] = account /\ given[2] = m.stored
      BY <2>2
    <3> QED
      BY <3>1
  <2> QED
    BY <1>1, <1>4, <2>2, <2>3 DEF GivenFrom, Accepted
<1> QED
  BY <1>2, <1>3, <1>4

-----------------------------------------------------------------------------
(* The stages.                                                             *)

LEMMA UnaskedFacts ==
    ASSUME NEW m \in Meetings, NEW system
    PROVE  LET v == Unasked(m, system) IN
           /\ v \in Views /\ v.specs = FALSE /\ v.tries = <<>> /\ v.account = m.entered
           /\ v.excuses = IF m.entered = "none" /\ m.open # {} THEN {"account"} ELSE {}
           /\ v.os = IF system \in Systems THEN "" ELSE Inferred(m.open)
<1>1. m.entered \in Known
  BY DEF Meetings, Known
<1>2. Inferred(m.open) \in Systems \cup {""}
  BY DEF Inferred, Systems
<1>3. <<>> \in Seq(Known)
  OBVIOUS
<1> QED
  BY <1>1, <1>2, <1>3 DEF Unasked, Views, Excuses

\* What a login by SSH leaves.
LEMMA SshFacts ==
    ASSUME NEW m \in Meetings, NEW system \in Systems \cup {"auto"}, NEW v \in Views,
           actual \in Systems, m.entered # "none", "ssh" \in m.open, v.account = m.entered, v.tries = <<>>
    PROVE  LET r == SshStage(m, system, v)
               given == Tried(AccountsToTry(m, v.account))
               in == Accepted(given) /\ m.ssh # "broken"
               found == Detected(m, system)
               os == IF system \notin Systems /\ found # "unknown" THEN found ELSE v.os
           IN  /\ r \in Views
               /\ r.tries = (IF system \in Systems THEN <<>> ELSE <<m.entered>>)
                            \o (IF m.ssh = "broken" THEN <<v.account>> ELSE given)
               /\ r.account = IF in THEN "good" ELSE v.account
               /\ r.specs => in
               /\ r.excuses = IF in THEN (IF r.specs THEN v.excuses ELSE v.excuses \cup {"specs"})
                              ELSE v.excuses \cup {"ssh"}
               /\ r.os = IF in /\ found = "unknown" /\ (actual = "windows" \/ os = "")
                         THEN actual ELSE os
<1> DEFINE given == Tried(AccountsToTry(m, v.account))
           in == Accepted(given) /\ m.ssh # "broken"
           found == Detected(m, system)
           os == IF system \notin Systems /\ found # "unknown" THEN found ELSE v.os
           tries == (IF system \in Systems THEN <<>> ELSE <<m.entered>>)
                    \o (IF m.ssh = "broken" THEN <<v.account>> ELSE given)
           account == IF in THEN "good" ELSE v.account
           specs == in /\ m.ssh = "specs" /\ Fits(found)
           excuses == IF in THEN (IF specs THEN v.excuses ELSE v.excuses \cup {"specs"})
                      ELSE v.excuses \cup {"ssh"}
           system1 == IF in /\ found = "unknown" /\ (actual = "windows" \/ os = "") THEN actual ELSE os
<1>1. v.account \in Known /\ v.os \in Systems \cup {""} /\ v.excuses \in SUBSET Excuses
      /\ v = [os |-> v.os, specs |-> v.specs, tries |-> v.tries, account |-> v.account,
              excuses |-> v.excuses]
  BY DEF Views
<1>2. SshStage(m, system, v)
        = [v EXCEPT !.tries = tries, !.account = account, !.specs = specs, !.os = system1,
                    !.excuses = excuses]
  BY DEF SshStage
<1>3. tries \in Seq(Known)
  <2>1. m.stored \in Known /\ m.entered \in Known
    BY DEF Meetings, Known
  <2>2. given \in Seq(Known)
    <3>1. GivenFrom(m, v.account, given)
      BY <1>1, TriedFacts
    <3>2. <<v.account>> \in Seq(Known) /\ <<v.account, m.stored>> \in Seq(Known)
      BY <1>1, <2>1, ShortLists
    <3> QED
      BY <3>1, <3>2 DEF GivenFrom
  <2>3. <<m.entered>> \in Seq(Known) /\ <<v.account>> \in Seq(Known) /\ <<>> \in Seq(Known)
    BY <1>1, <2>1, ShortLists
  <2> DEFINE first == IF system \in Systems THEN <<>> ELSE <<m.entered>>
             then == IF m.ssh = "broken" THEN <<v.account>> ELSE given
  <2>4. first \in Seq(Known) /\ then \in Seq(Known)
    BY <2>2, <2>3
  <2>5. tries = first \o then
    OBVIOUS
  <2> HIDE DEF given, first, then, tries
  <2> QED
    BY <2>4, <2>5
<1>4. found \in Systems \cup {"unknown"}
  BY DEF Detected
<1>5. account \in Known /\ specs \in BOOLEAN /\ system1 \in Systems \cup {""}
      /\ excuses \in SUBSET Excuses /\ (specs => in)
  BY <1>1, <1>4 DEF Known, Excuses
<1> HIDE DEF tries, account, specs, excuses, system1
<1>6. SshStage(m, system, v)
        = [os |-> system1, specs |-> specs, tries |-> tries, account |-> account, excuses |-> excuses]
  BY <1>1, <1>2
<1>7. [os |-> system1, specs |-> specs, tries |-> tries, account |-> account, excuses |-> excuses]
        \in Views
  BY <1>3, <1>5 DEF Views
<1>8. excuses = (IF in THEN (IF specs THEN v.excuses ELSE v.excuses \cup {"specs"})
                 ELSE v.excuses \cup {"ssh"})
  BY DEF excuses
<1> DEFINE r == SshStage(m, system, v)
<1>9. r \in Views /\ r.os = system1 /\ r.specs = specs /\ r.tries = tries /\ r.account = account
      /\ r.excuses = excuses
  BY <1>6, <1>7
<1> HIDE DEF r
<1>10. r.excuses = (IF in THEN (IF r.specs THEN v.excuses ELSE v.excuses \cup {"specs"})
                    ELSE v.excuses \cup {"ssh"})
  BY <1>8, <1>9
<1>11. r.tries = tries /\ r.account = account /\ (r.specs => in) /\ r.os = system1
  BY <1>5, <1>9
<1> HIDE DEF given, in, found, os
<1>12. /\ r.tries = (IF system \in Systems THEN <<>> ELSE <<m.entered>>)
                   \o (IF m.ssh = "broken" THEN <<v.account>> ELSE given)
       /\ r.account = IF in THEN "good" ELSE v.account
       /\ r.os = IF in /\ found = "unknown" /\ (actual = "windows" \/ os = "") THEN actual ELSE os
  BY <1>11 DEF tries, account, system1
<1> QED
  BY <1>9, <1>10, <1>11, <1>12 DEF r, given, in, found, os

\* What WMI leaves.
LEMMA WmiFacts ==
    ASSUME NEW m \in Meetings, NEW v \in Views, actual \in Systems
    PROVE  LET r == WmiStage(m, v)
               given == Tried(AccountsToTry(m, v.account))
               in == Accepted(given) /\ actual = "windows" /\ m.wmi # "broken"
           IN  /\ r \in Views
               /\ \/ r = v /\ (v.specs \/ m.entered = "none" \/ m.open \cap {"rpc", "winrm"} = {})
                  \/ /\ ~v.specs /\ m.entered # "none" /\ r.tries = v.tries \o given
                     /\ r.specs <=> in /\ m.wmi = "specs"
                     /\ r.os = IF in THEN "windows" ELSE v.os
                     /\ r.excuses = IF in THEN v.excuses \ {"ssh", "specs"} ELSE v.excuses \cup {"wmi"}
<1> DEFINE given == Tried(AccountsToTry(m, v.account))
           in == Accepted(given) /\ actual = "windows" /\ m.wmi # "broken"
           r == WmiStage(m, v)
           tries == v.tries \o given
           specs == in /\ m.wmi = "specs"
           os == IF in THEN "windows" ELSE v.os
           excuses == IF in THEN v.excuses \ {"ssh", "specs"} ELSE v.excuses \cup {"wmi"}
<1>1. v.account \in Known /\ v.os \in Systems \cup {""} /\ v.excuses \in SUBSET Excuses
      /\ v = [os |-> v.os, specs |-> v.specs, tries |-> v.tries, account |-> v.account,
              excuses |-> v.excuses] /\ v.tries \in Seq(Known)
  BY DEF Views
<1>2. CASE v.specs \/ m.entered = "none" \/ m.open \cap {"rpc", "winrm"} = {}
  BY <1>2 DEF WmiStage
<1>3. CASE ~(v.specs \/ m.entered = "none" \/ m.open \cap {"rpc", "winrm"} = {})
  <2>1. r = [v EXCEPT !.tries = tries, !.specs = specs, !.os = os, !.excuses = excuses]
    BY <1>3 DEF WmiStage
  <2>2. specs \in BOOLEAN /\ os \in Systems \cup {""} /\ excuses \in SUBSET Excuses
    BY <1>1 DEF Systems, Excuses
  <2>3. tries \in Seq(Known)
    <3>1. GivenFrom(m, v.account, given)
      BY <1>1, TriedFacts
    <3>2. m.stored \in Known
      BY DEF Meetings, Known
    <3>3. <<v.account>> \in Seq(Known) /\ <<v.account, m.stored>> \in Seq(Known)
      BY <1>1, <3>2, ShortLists
    <3>4. given \in Seq(Known)
      BY <3>1, <3>3 DEF GivenFrom
    <3>5. tries = v.tries \o given
      OBVIOUS
    <3>6. v.tries \in Seq(Known)
      BY <1>1
    <3> HIDE DEF given, tries
    <3> QED
      BY ONLY <3>4, <3>5, <3>6
  <2> HIDE DEF tries, specs, os, excuses, r
  <2>4. r = [os |-> os, specs |-> specs, tries |-> tries, account |-> v.account, excuses |-> excuses]
    BY <1>1, <2>1
  <2>5. r \in Views /\ r.os = os /\ r.specs = specs /\ r.tries = tries /\ r.excuses = excuses
    BY <1>1, <2>2, <2>3, <2>4 DEF Views
  <2>6. r.specs <=> in /\ m.wmi = "specs"
    BY <2>5 DEF specs
  <2>7. r.os = (IF in THEN "windows" ELSE v.os)
        /\ r.excuses = (IF in THEN v.excuses \ {"ssh", "specs"} ELSE v.excuses \cup {"wmi"})
    BY <2>5 DEF os, excuses
  <2>8. r.tries = v.tries \o given
    BY <2>5 DEF tries
  <2> HIDE DEF given, in
  <2>9. /\ r \in Views /\ ~v.specs /\ m.entered # "none" /\ r.tries = v.tries \o given
        /\ r.specs <=> in /\ m.wmi = "specs"
        /\ r.os = IF in THEN "windows" ELSE v.os
        /\ r.excuses = IF in THEN v.excuses \ {"ssh", "specs"} ELSE v.excuses \cup {"wmi"}
    BY <1>3, <2>5, <2>6, <2>7, <2>8
  <2> QED
    BY <2>9 DEF r, given, in
<1> QED
  BY <1>2, <1>3

\* What SNMP leaves.
LEMMA SnmpFacts ==
    ASSUME NEW m \in Meetings, NEW system, NEW v \in Views, actual \in Systems
    PROVE  LET r == SnmpStage(m, system, v) IN
           /\ r \in Views /\ r.tries = v.tries
           /\ \/ r = v /\ (v.specs \/ m.snmp = "off" \/ m.open = {})
              \/ /\ ~v.specs /\ ~r.specs /\ r.excuses = v.excuses \cup {"snmp"} /\ r.os = v.os
              \/ /\ r.specs /\ r.excuses \subseteq {"snmp"} \cap v.excuses
                 /\ r.os = IF v.os = "" /\ system = "auto" THEN actual ELSE v.os
<1> DEFINE r == SnmpStage(m, system, v)
<1>1. v.account \in Known /\ v.os \in Systems \cup {""} /\ v.excuses \in SUBSET Excuses
      /\ v = [os |-> v.os, specs |-> v.specs, tries |-> v.tries, account |-> v.account,
              excuses |-> v.excuses] /\ v.tries \in Seq(Known) /\ v.specs \in BOOLEAN
  BY DEF Views
<1>2. CASE v.specs \/ m.snmp = "off" \/ (m.open = {} /\ ~m.named)
  BY <1>2 DEF SnmpStage
<1>3. CASE ~(v.specs \/ m.snmp = "off" \/ (m.open = {} /\ ~m.named)) /\ m.snmp = "silent"
  <2>1. r = [v EXCEPT !.excuses = v.excuses \cup {"snmp"}]
    BY <1>3 DEF SnmpStage
  <2> HIDE DEF r
  <2>2. r = [os |-> v.os, specs |-> v.specs, tries |-> v.tries, account |-> v.account,
             excuses |-> v.excuses \cup {"snmp"}]
    BY <1>1, <2>1
  <2>3. v.excuses \cup {"snmp"} \in SUBSET Excuses
    BY <1>1 DEF Excuses
  <2>4. r \in Views /\ r.excuses = v.excuses \cup {"snmp"} /\ r.specs = v.specs /\ r.os = v.os
        /\ r.tries = v.tries
    BY <1>1, <2>2, <2>3 DEF Views
  <2> QED
    BY <1>3, <2>4 DEF r
<1>4. CASE ~(v.specs \/ m.snmp = "off" \/ (m.open = {} /\ ~m.named)) /\ m.snmp # "silent"
  <2> DEFINE os == IF v.os = "" /\ system = "auto" THEN actual ELSE v.os
             excuses == v.excuses \ {"ssh", "specs", "wmi", "account"}
  <2>1. r = [v EXCEPT !.specs = TRUE, !.excuses = excuses, !.os = os]
    BY <1>4 DEF SnmpStage
  <2>2. os \in Systems \cup {""} /\ excuses \in SUBSET Excuses
        /\ excuses \subseteq {"snmp"} \cap v.excuses
    BY <1>1 DEF Excuses
  <2> HIDE DEF r, os, excuses
  <2>3. r = [os |-> os, specs |-> TRUE, tries |-> v.tries, account |-> v.account, excuses |-> excuses]
    BY <1>1, <2>1
  <2>4. r \in Views /\ r.excuses = excuses /\ r.specs /\ r.os = os /\ r.tries = v.tries
    BY <1>1, <2>2, <2>3 DEF Views
  <2> QED
    BY <2>2, <2>4 DEF r, os
<1> QED
  BY <1>2, <1>3, <1>4

-----------------------------------------------------------------------------
(* The accounts given away.                                                *)

LEMMA FewPlaces ==
    ASSUME NEW S, NEW x, NEW y, NEW z
    PROVE  /\ S \subseteq {x, y} => Cardinality(S) <= 2
           /\ S \subseteq {x, y, z} => Cardinality(S) <= 3
<1>1. IsFiniteSet({x}) /\ Cardinality({x}) = 1
  BY FS_Singleton
<1>2. IsFiniteSet({x} \cup {y}) /\ Cardinality({x} \cup {y}) <= 2
  BY <1>1, FS_AddElement
<1>3. Cardinality({x} \cup {y}) \in Nat
  BY <1>2, FS_CardinalityType
<1>4. IsFiniteSet(({x} \cup {y}) \cup {z}) /\ Cardinality(({x} \cup {y}) \cup {z}) <= 3
  BY <1>2, <1>3, FS_AddElement
<1>5. {x} \cup {y} = {x, y} /\ ({x} \cup {y}) \cup {z} = {x, y, z}
  OBVIOUS
<1>6. ASSUME S \subseteq {x, y} PROVE Cardinality(S) <= 2
  <2>1. Cardinality(S) <= Cardinality({x, y}) /\ IsFiniteSet(S)
    BY <1>2, <1>5, <1>6, FS_Subset
  <2>2. Cardinality(S) \in Nat /\ Cardinality({x, y}) \in Nat
    BY <1>2, <1>5, <2>1, FS_CardinalityType
  <2> QED
    BY <1>2, <1>5, <2>1, <2>2
<1>7. ASSUME S \subseteq {x, y, z} PROVE Cardinality(S) <= 3
  <2>1. Cardinality(S) <= Cardinality({x, y, z}) /\ IsFiniteSet(S)
    BY <1>4, <1>5, <1>7, FS_Subset
  <2>2. Cardinality(S) \in Nat /\ Cardinality({x, y, z}) \in Nat
    BY <1>4, <1>5, <2>1, FS_CardinalityType
  <2> QED
    BY <1>4, <1>5, <2>1, <2>2
<1> QED
  BY <1>6, <1>7

Spared(m, t) ==
    /\ Cardinality({n \in DOMAIN t : t[n] = "typo"}) <= 3
    /\ Cardinality({n \in DOMAIN t : t[n] = "wrong"}) <= 2
    /\ \A i, j \in DOMAIN t : i < j /\ t[i] = "good" /\ m.ssh # "broken" => t[j] = "good"

\* The account goes to the question for the system, to SSH and to WMI.
LEMMA TriesFacts ==
    ASSUME NEW m \in Meetings, NEW e \in {"good", "typo"}, NEW a \in {e, "good"},
           NEW d \in {<<>>, <<e>>}, NEW s, NEW k,
           s = <<>> \/ GivenFrom(m, e, s), k = <<>> \/ GivenFrom(m, a, k),
           m.ssh # "broken" /\ s = <<e, "good">> => a = "good"
    PROVE  Spared(m, (d \o s) \o k)
<1> DEFINE t == (d \o s) \o k
           p == Len(d)
           q == Len(d) + Len(s)
<1>1. /\ d \in Seq({"good", "typo", "wrong"}) /\ p \in {0, 1} /\ (p = 1 => d[1] = e)
  <2>1. CASE d = <<>>
    BY <2>1
  <2>2. CASE d = <<e>>
    BY <2>2
  <2> QED
    BY <2>1, <2>2
<1>2. /\ s \in Seq({"good", "typo", "wrong"}) /\ Len(s) \in {0, 1, 2} /\ (Len(s) > 0 => s[1] = e)
      /\ Len(s) = 2 => s[2] \in {"good", "wrong"} /\ e # "good" /\ s[2] = m.stored /\ s = <<e, m.stored>>
  <2>1. CASE s = <<>>
    BY <2>1
  <2>2. CASE s = <<e>>
    BY <2>2
  <2>3. CASE s = <<e, m.stored>> /\ e # "good" /\ m.stored \in {"good", "wrong"}
    BY <2>3
  <2> QED
    BY <2>1, <2>2, <2>3 DEF GivenFrom
<1>3. /\ k \in Seq({"good", "typo", "wrong"}) /\ Len(k) \in {0, 1, 2} /\ (Len(k) > 0 => k[1] = a)
      /\ Len(k) = 2 => k[2] \in {"good", "wrong"} /\ a # "good" /\ k[2] = m.stored
  <2>1. CASE k = <<>>
    BY <2>1
  <2>2. CASE k = <<a>>
    BY <2>2
  <2>3. CASE k = <<a, m.stored>> /\ a # "good" /\ m.stored \in {"good", "wrong"}
    BY <2>3
  <2> QED
    BY <2>1, <2>2, <2>3 DEF GivenFrom
<1>4. /\ DOMAIN t = 1..(q + Len(k))
      /\ \A n \in DOMAIN t : t[n] = IF n <= p THEN d[n] ELSE IF n <= q THEN s[n - p] ELSE k[n - q]
  BY <1>1, <1>2, <1>3
<1> HIDE DEF t
<1>5. ASSUME NEW n \in DOMAIN t
      PROVE  /\ n \in Int
             /\ \/ n = 1 /\ n <= p /\ t[n] = e
                \/ n = p + 1 /\ n <= q /\ t[n] = e
                \/ n = p + 2 /\ n <= q /\ Len(s) = 2 /\ t[n] = s[2]
                \/ n = q + 1 /\ t[n] = a
                \/ n = q + 2 /\ Len(k) = 2 /\ t[n] = k[2]
  <2>1. CASE n <= p
    BY <1>1, <1>2, <1>3, <1>4, <2>1
  <2>2. CASE n > p /\ n <= q
    <3>1. n - p \in 1..Len(s) /\ t[n] = s[n - p]
      BY <1>1, <1>2, <1>3, <1>4, <2>2
    <3>2. n - p = 1 \/ (n - p = 2 /\ Len(s) = 2)
      BY <1>1, <1>2, <3>1
    <3> QED
      BY <1>1, <1>2, <1>4, <2>2, <3>1, <3>2
  <2>3. CASE n > q
    <3>1. n - q \in 1..Len(k) /\ t[n] = k[n - q]
      BY <1>1, <1>2, <1>3, <1>4, <2>3
    <3>2. n - q = 1 \/ (n - q = 2 /\ Len(k) = 2)
      BY <1>1, <1>2, <1>3, <3>1
    <3> QED
      BY <1>1, <1>2, <1>3, <1>4, <2>3, <3>1, <3>2
  <2> QED
    BY <1>1, <1>2, <1>3, <1>4, <2>1, <2>2, <2>3
<1>6. {n \in DOMAIN t : t[n] = "typo"} \subseteq {1, p + 1, q + 1}
  BY <1>2, <1>3, <1>5
<1>7. {n \in DOMAIN t : t[n] = "wrong"} \subseteq {p + 2, q + 2}
  BY <1>5
<1>8. ASSUME NEW i \in DOMAIN t, NEW j \in DOMAIN t, i < j, t[i] = "good", m.ssh # "broken"
      PROVE  t[j] = "good"
  <2>0. p \in Nat /\ q \in Nat /\ p <= q /\ Len(s) \in Nat /\ Len(k) \in Nat /\ q = p + Len(s)
    BY <1>1, <1>2, <1>3
  <2> HIDE DEF p, q
  <2>1. CASE e = "good"
    <3>1. a = "good" /\ Len(s) # 2 /\ Len(k) # 2
      BY <1>2, <1>3, <2>1
    <3> QED
      BY <1>5, <2>1, <3>1
  <2>2. CASE e # "good"
    <3>1. CASE i <= q
      <4>1. i = p + 2 /\ Len(s) = 2 /\ s[2] = "good" /\ i <= q
        BY <1>5, <1>8, <2>0, <2>2, <3>1
      <4>2. a = "good" /\ Len(k) # 2
        BY <1>2, <1>3, <1>8, <4>1
      <4>3. i = q
        BY <2>0, <4>1
      <4> QED
        BY <1>5, <1>8, <2>0, <4>2, <4>3
    <3>2. CASE i > q
      <4>1. i = q + 1 \/ (i = q + 2 /\ Len(k) = 2)
        BY <1>5, <2>0, <3>2
      <4>2. CASE i = q + 1
        BY <1>3, <1>5, <1>8, <2>0, <4>2
      <4>3. CASE i = q + 2
        BY <1>5, <1>8, <2>0, <4>3
      <4> QED
        BY <4>1, <4>2, <4>3
    <3> QED
      BY <1>5, <2>0, <3>1, <3>2
  <2> QED
    BY <2>1, <2>2
<1> HIDE DEF p, q
<1>9. Cardinality({n \in DOMAIN t : t[n] = "typo"}) <= 3 /\ Cardinality({n \in DOMAIN t : t[n] = "wrong"}) <= 2
  BY <1>6, <1>7, FewPlaces
<1> QED
  BY <1>8, <1>9 DEF t, Spared

-----------------------------------------------------------------------------
(* A collection.                                                           *)

SpecIInv ==
    /\ osType \in Systems \cup {"auto"} /\ actual \in Systems /\ sure \in BOOLEAN
    /\ SpecTypeOK /\ ExcusesFitTheSpecs /\ AccountsAreSpared /\ ToldSystemIsKept

\* After SSH: without specifications there is an excuse, with them none.
LEMMA SeenFacts ==
    ASSUME NEW m \in Meetings, osType \in Systems \cup {"auto"}, actual \in Systems
    PROVE  LET r == SshStage(m, osType, Unasked(m, osType)) IN
           /\ r \in Views
           /\ r.specs => m.entered # "none" /\ r.excuses = {}
           /\ "snmp" \notin r.excuses /\ "wmi" \notin r.excuses
           /\ m.entered # "none" => "account" \notin r.excuses
           /\ m.open # {} /\ ~r.specs => r.excuses # {}
           /\ osType \in Systems => r.os = ""
           /\ m.entered = "none" => r.tries = <<>>
           /\ m.entered # "none" =>
                \E d, s : /\ r.tries = d \o s /\ d \in {<<>>, <<m.entered>>}
                          /\ s = <<>> \/ GivenFrom(m, m.entered, s)
                          /\ r.account \in {m.entered, "good"}
                          /\ m.ssh # "broken" /\ s = <<m.entered, "good">> => r.account = "good"
<1> DEFINE v == Unasked(m, osType)
           r == SshStage(m, osType, v)
<1>1. /\ v \in Views /\ v.specs = FALSE /\ v.tries = <<>> /\ v.account = m.entered
      /\ v.excuses = (IF m.entered = "none" /\ m.open # {} THEN {"account"} ELSE {})
      /\ v.os = (IF osType \in Systems THEN "" ELSE Inferred(m.open))
  BY UnaskedFacts
<1>2. m.entered \in {"none", "good", "typo"}
  BY DEF Meetings
<1> HIDE DEF v
<1>3. CASE m.entered = "none"
  <2>1. r = v
    BY <1>3 DEF SshStage
  <2> HIDE DEF r
  <2>2. r.specs = FALSE /\ r.tries = <<>> /\ r \in Views
        /\ r.excuses = (IF m.open # {} THEN {"account"} ELSE {})
        /\ r.os = (IF osType \in Systems THEN "" ELSE Inferred(m.open))
    BY <1>1, <1>3, <2>1
  <2>3. /\ r.specs => m.entered # "none" /\ r.excuses = {}
        /\ "snmp" \notin r.excuses /\ "wmi" \notin r.excuses
        /\ m.open # {} /\ ~r.specs => r.excuses # {}
        /\ osType \in Systems => r.os = ""
    <3>1. CASE m.open = {}
      BY <2>2, <3>1
    <3>2. CASE m.open # {}
      <4>1. r.excuses = {"account"}
        BY <2>2, <3>2
      <4> QED
        BY <2>2, <4>1
    <3> QED
      BY <3>1, <3>2
  <2> QED
    BY ONLY <1>3, <2>2, <2>3 DEF r, v
<1>4. CASE m.entered # "none" /\ "ssh" \notin m.open
  <2>1. v = [os |-> v.os, specs |-> v.specs, tries |-> v.tries, account |-> v.account,
             excuses |-> v.excuses] /\ v.os \in Systems \cup {""} /\ v.account \in Known
    BY <1>1 DEF Views
  <2>2. r = [v EXCEPT !.excuses = v.excuses \cup {"ssh"}]
    BY <1>4 DEF SshStage
  <2> HIDE DEF r
  <2>3. r = [os |-> v.os, specs |-> FALSE, tries |-> <<>>, account |-> m.entered,
             excuses |-> {"ssh"}]
    BY <1>1, <1>4, <2>1, <2>2
  <2>4. <<>> \in Seq(Known) /\ {"ssh"} \in SUBSET Excuses
    BY DEF Excuses
  <2>5. r \in Views /\ r.specs = FALSE /\ r.excuses = {"ssh"} /\ r.os = v.os /\ r.tries = <<>>
        /\ r.account = m.entered
    BY <1>1, <2>1, <2>3, <2>4 DEF Views
  <2>6. r.tries = <<>> \o <<>>
    BY <2>5
  <2>7. \E d, s : /\ r.tries = d \o s /\ d \in {<<>>, <<m.entered>>}
                  /\ s = <<>> \/ GivenFrom(m, m.entered, s)
                  /\ r.account \in {m.entered, "good"}
                  /\ m.ssh # "broken" /\ s = <<m.entered, "good">> => r.account = "good"
    <3>1. <<>> # <<m.entered, "good">>
      OBVIOUS
    <3> QED
      BY <2>5, <2>6, <3>1
  <2> QED
    BY <1>1, <1>4, <2>5, <2>7 DEF v, r
<1>5. CASE m.entered # "none" /\ "ssh" \in m.open
  <2> DEFINE given == Tried(AccountsToTry(m, v.account))
             in == Accepted(given) /\ m.ssh # "broken"
             found == Detected(m, osType)
             os == IF osType \notin Systems /\ found # "unknown" THEN found ELSE v.os
             d == IF osType \in Systems THEN <<>> ELSE <<m.entered>>
             s == IF m.ssh = "broken" THEN <<v.account>> ELSE given
  <2>1. /\ r \in Views /\ r.tries = d \o s
        /\ r.account = (IF in THEN "good" ELSE v.account)
        /\ r.specs => in
        /\ r.excuses = (IF in THEN (IF r.specs THEN v.excuses ELSE v.excuses \cup {"specs"})
                        ELSE v.excuses \cup {"ssh"})
        /\ r.os = (IF in /\ found = "unknown" /\ (actual = "windows" \/ os = "")
                   THEN actual ELSE os)
    <3>1. /\ m \in Meetings /\ v \in Views /\ osType \in Systems \cup {"auto"} /\ actual \in Systems /\ m.entered # "none"
          /\ "ssh" \in m.open /\ v.account = m.entered /\ v.tries = <<>>
      BY <1>1, <1>5
    <3> HIDE DEF r, given, in, found, os, d, s
    <3>2. LET x == SshStage(m, osType, v)
              y == Tried(AccountsToTry(m, v.account))
              accepted == Accepted(y) /\ m.ssh # "broken"
              z == Detected(m, osType)
              o == IF osType \notin Systems /\ z # "unknown" THEN z ELSE v.os
          IN  /\ x \in Views
              /\ x.tries = (IF osType \in Systems THEN <<>> ELSE <<m.entered>>)
                            \o (IF m.ssh = "broken" THEN <<v.account>> ELSE y)
              /\ x.account = IF accepted THEN "good" ELSE v.account
              /\ x.specs => accepted
              /\ x.excuses = IF accepted THEN (IF x.specs THEN v.excuses ELSE v.excuses \cup {"specs"})
                             ELSE v.excuses \cup {"ssh"}
              /\ x.os = IF accepted /\ z = "unknown" /\ (actual = "windows" \/ o = "")
                        THEN actual ELSE o
      BY ONLY <3>1, SshFacts
    <3> QED
      BY ONLY <3>2 DEF r, given, in, found, os, d, s
  <2>2. osType \in Systems => r.os = ""
    BY <1>1, <2>1 DEF Detected, Systems
  <2>3. GivenFrom(m, m.entered, given)
        /\ (Accepted(given) <=> m.entered = "good" \/ (m.stored = "good" /\ given = <<m.entered, m.stored>>))
    BY <1>1, <1>2, TriedFacts DEF Known
  <2>4. s = <<>> \/ GivenFrom(m, m.entered, s)
    BY <1>1, <2>3 DEF GivenFrom
  <2>5. m.ssh # "broken" /\ s = <<m.entered, "good">> => r.account = "good"
    <3> SUFFICES ASSUME m.ssh # "broken", s = <<m.entered, "good">> PROVE r.account = "good"
      OBVIOUS
    <3>1. given = <<m.entered, "good">>
      OBVIOUS
    <3>2. given # <<m.entered>>
      BY <3>1
    <3>3. m.stored = "good"
      <4>1. given = <<m.entered, m.stored>>
        BY <2>3, <3>2 DEF GivenFrom
      <4>2. given[2] = "good" /\ given[2] = m.stored
        <5> HIDE DEF given
        <5> QED
          BY <3>1, <4>1
      <4> QED
        BY <4>2
    <3>4. in
      <4> HIDE DEF given
      <4> QED
        BY <2>3, <3>1, <3>3
    <3> HIDE DEF given, in, s, d, os, found, r
    <3> QED
      BY <2>1, <3>4
  <2> HIDE DEF given, in, found, os, d, s, r
  <2>6. r.account \in {m.entered, "good"} /\ r.excuses \in {{}, {"specs"}, {"ssh"}}
        /\ (r.specs => r.excuses = {}) /\ (~r.specs => r.excuses # {})
    BY <1>1, <1>5, <2>1
  <2>7. d \in {<<>>, <<m.entered>>}
    BY DEF d
  <2>8. \E x, y : /\ r.tries = x \o y /\ x \in {<<>>, <<m.entered>>}
                  /\ y = <<>> \/ GivenFrom(m, m.entered, y)
                  /\ r.account \in {m.entered, "good"}
                  /\ m.ssh # "broken" /\ y = <<m.entered, "good">> => r.account = "good"
    BY <2>1, <2>4, <2>5, <2>6, <2>7
  <2> QED
    BY <1>5, <2>1, <2>2, <2>6, <2>8 DEF r, v
<1> QED
  BY <1>3, <1>4, <1>5

LEMMA CollectionFacts ==
    ASSUME NEW m \in Meetings, osType \in Systems \cup {"auto"}, actual \in Systems
    PROVE  LET w == WmiStage(m, SshStage(m, osType, Unasked(m, osType)))
               v == SnmpStage(m, osType, w)
           IN  /\ v \in Views
               /\ v.specs => v.excuses = {}
               /\ m.open # {} /\ v.excuses = {} /\ ~v.specs =>
                    m.snmp = "off" /\ m.wmi = "bare" /\ actual = "windows"
               /\ osType = actual => v.os \in {"", actual}
               /\ \/ v.tries = <<>>
                  \/ m.entered # "none" /\ \E d, s, k, a :
                        /\ v.tries = (d \o s) \o k /\ d \in {<<>>, <<m.entered>>}
                        /\ s = <<>> \/ GivenFrom(m, m.entered, s)
                        /\ a \in {m.entered, "good"} /\ (k = <<>> \/ GivenFrom(m, a, k))
                        /\ m.ssh # "broken" /\ s = <<m.entered, "good">> => a = "good"
<1> DEFINE u == SshStage(m, osType, Unasked(m, osType))
           w == WmiStage(m, u)
           v == SnmpStage(m, osType, w)
           given == Tried(AccountsToTry(m, u.account))
           in == Accepted(given) /\ actual = "windows" /\ m.wmi # "broken"
<1>1. /\ u \in Views
      /\ u.specs => m.entered # "none" /\ u.excuses = {}
      /\ "snmp" \notin u.excuses /\ "wmi" \notin u.excuses
      /\ m.entered # "none" => "account" \notin u.excuses
      /\ m.open # {} /\ ~u.specs => u.excuses # {}
      /\ osType \in Systems => u.os = ""
      /\ m.entered = "none" => u.tries = <<>>
      /\ m.entered # "none" =>
           \E d, s : /\ u.tries = d \o s /\ d \in {<<>>, <<m.entered>>}
                     /\ s = <<>> \/ GivenFrom(m, m.entered, s)
                     /\ u.account \in {m.entered, "good"}
                     /\ m.ssh # "broken" /\ s = <<m.entered, "good">> => u.account = "good"
  BY SeenFacts
<1> HIDE DEF u
<1>2. /\ w \in Views
      /\ \/ w = u /\ (u.specs \/ m.entered = "none" \/ m.open \cap {"rpc", "winrm"} = {})
         \/ /\ ~u.specs /\ m.entered # "none" /\ w.tries = u.tries \o given
            /\ w.specs <=> in /\ m.wmi = "specs"
            /\ w.os = IF in THEN "windows" ELSE u.os
            /\ w.excuses = IF in THEN u.excuses \ {"ssh", "specs"} ELSE u.excuses \cup {"wmi"}
  BY <1>1, WmiFacts
<1>3. u.account \in Known /\ u.excuses \in SUBSET Excuses /\ u.specs \in BOOLEAN
      /\ u.tries \in Seq(Known)
  BY <1>1 DEF Views
<1>4. GivenFrom(m, u.account, given)
  BY <1>3, TriedFacts
<1> HIDE DEF w, given, in
<1>5. /\ v \in Views /\ v.tries = w.tries
      /\ \/ v = w /\ (w.specs \/ m.snmp = "off" \/ m.open = {})
         \/ /\ ~w.specs /\ ~v.specs /\ v.excuses = w.excuses \cup {"snmp"} /\ v.os = w.os
         \/ /\ v.specs /\ v.excuses \subseteq {"snmp"} \cap w.excuses
            /\ v.os = IF w.os = "" /\ osType = "auto" THEN actual ELSE w.os
  BY <1>2, SnmpFacts
<1> HIDE DEF v
<1>6. w.specs \in BOOLEAN /\ w.excuses \in SUBSET Excuses /\ v.specs \in BOOLEAN
  BY <1>2, <1>5 DEF Views
<1>7. "snmp" \notin w.excuses /\ (w.specs => w.excuses = {})
  <2>1. CASE w = u
    BY <1>1, <2>1
  <2>2. CASE w # u
    <3>1. "snmp" \notin w.excuses
      <4>1. CASE in
        <5>1. w.excuses = u.excuses \ {"ssh", "specs"}
          BY <1>2, <2>2, <4>1
        <5> QED
          BY <1>1, <5>1
      <4>2. CASE ~in
        <5>1. w.excuses = u.excuses \cup {"wmi"}
          BY <1>2, <2>2, <4>2
        <5>2. "snmp" \notin u.excuses
          BY <1>1
        <5> QED
          BY ONLY <5>1, <5>2
      <4> QED
        BY <4>1, <4>2
    <3>2. ASSUME w.specs PROVE w.excuses = {}
      <4>1. in
        BY <1>2, <2>2, <3>2
      <4>2. w.excuses = u.excuses \ {"ssh", "specs"} /\ m.entered # "none"
        BY <1>2, <2>2, <4>1
      <4>3. "account" \notin u.excuses
        BY <1>1, <4>2
      <4> QED
        BY <1>1, <1>3, <4>2, <4>3 DEF Excuses
    <3> QED
      BY <3>1, <3>2
  <2> QED
    BY <2>1, <2>2
<1>8. v.specs => v.excuses = {}
  BY <1>5, <1>6, <1>7
<1>9. ASSUME m.open # {}, v.excuses = {}, ~v.specs
      PROVE  m.snmp = "off" /\ m.wmi = "bare" /\ actual = "windows"
  <2>1. v = w /\ m.snmp = "off" /\ ~w.specs
    BY <1>5, <1>9
  <2>2. w # u
    BY <1>1, <1>9, <2>1
  <2>3. in /\ m.wmi # "specs"
    BY <1>2, <1>9, <2>1, <2>2
  <2>4. m.wmi \in {"specs", "bare", "broken"}
    BY DEF Meetings
  <2> QED
    BY <2>1, <2>3, <2>4 DEF in
<1>10. osType = actual => v.os \in {"", actual}
  BY <1>1, <1>2, <1>5 DEF in, Systems
<1>11. \/ v.tries = <<>>
       \/ m.entered # "none" /\ \E d, s, k, a :
             /\ v.tries = (d \o s) \o k /\ d \in {<<>>, <<m.entered>>}
             /\ s = <<>> \/ GivenFrom(m, m.entered, s)
             /\ a \in {m.entered, "good"} /\ (k = <<>> \/ GivenFrom(m, a, k))
             /\ m.ssh # "broken" /\ s = <<m.entered, "good">> => a = "good"
  <2>1. CASE m.entered = "none"
    BY <1>1, <1>2, <1>5, <2>1
  <2>2. CASE m.entered # "none"
    <3>1. PICK d, s : /\ u.tries = d \o s /\ d \in {<<>>, <<m.entered>>}
                      /\ s = <<>> \/ GivenFrom(m, m.entered, s)
                      /\ u.account \in {m.entered, "good"}
                      /\ m.ssh # "broken" /\ s = <<m.entered, "good">> => u.account = "good"
      BY <1>1, <2>2
    <3>2. \E k : v.tries = u.tries \o k /\ (k = <<>> \/ GivenFrom(m, u.account, k))
      <4>1. CASE w = u
        <5>1. u.tries \o <<>> = u.tries
          BY <1>3
        <5> QED
          BY <1>5, <4>1, <5>1
      <4>2. CASE w # u
        BY <1>2, <1>4, <1>5, <4>2
      <4> QED
        BY <4>1, <4>2
    <3>3. PICK k : v.tries = u.tries \o k /\ (k = <<>> \/ GivenFrom(m, u.account, k))
      BY <3>2
    <3>4. v.tries = (d \o s) \o k
      BY <3>1, <3>3
    <3> QED
      BY ONLY <2>2, <3>1, <3>3, <3>4
  <2> QED
    BY <2>1, <2>2
<1> QED
  BY <1>5, <1>8, <1>9, <1>10, <1>11 DEF v, w, u

LEMMA SpecInitial == (SpecInit \/ SpecFrom("linux")) => SpecIInv
<1>1. ASSUME NEW system \in Systems, SpecFrom(system) PROVE SpecIInv
  BY <1>1 DEF SpecFrom, SpecIInv, SpecTypeOK, ExcusesFitTheSpecs, AccountsAreSpared,
              ToldSystemIsKept
<1> QED
  BY <1>1 DEF SpecInit, Systems

LEMMA CollectKeeps ==
    ASSUME SpecIInv, NEW m \in Meetings, CollectSpecs(m)
    PROVE  SpecIInv'
<1> DEFINE v == SnmpStage(m, osType,
                          WmiStage(m, SshStage(m, osType, Unasked(m, osType))))
<1>0. osType \in Systems \cup {"auto"} /\ actual \in Systems /\ sure \in BOOLEAN
      /\ (sure => osType = actual)
  BY DEF SpecIInv, ToldSystemIsKept
<1>1. /\ v \in Views
      /\ v.specs => v.excuses = {}
      /\ m.open # {} /\ v.excuses = {} /\ ~v.specs =>
           m.snmp = "off" /\ m.wmi = "bare" /\ actual = "windows"
      /\ osType = actual => v.os \in {"", actual}
  BY <1>0, CollectionFacts
<1>2. \/ v.tries = <<>>
      \/ m.entered # "none" /\ \E d, s, k, a :
            /\ v.tries = (d \o s) \o k /\ d \in {<<>>, <<m.entered>>}
            /\ s = <<>> \/ GivenFrom(m, m.entered, s)
            /\ a \in {m.entered, "good"} /\ (k = <<>> \/ GivenFrom(m, a, k))
            /\ m.ssh # "broken" /\ s = <<m.entered, "good">> => a = "good"
  BY <1>0, CollectionFacts
<1>3. /\ osType' = (IF v.os = "" THEN osType ELSE v.os)
      /\ sure' = (sure \/ (v.os = actual /\ v.os # Inferred(m.open)))
      /\ contact' = [met |-> m, told |-> v, end |-> Outcome(m, v)] /\ actual' = actual
  BY DEF CollectSpecs
<1> HIDE DEF v
<1>4. v.os \in Systems \cup {""} /\ v.specs \in BOOLEAN /\ v.excuses \in SUBSET Excuses
  BY <1>1 DEF Views
<1>5. contact'.met = m /\ contact'.told = v /\ contact'.end = Outcome(m, v)
      /\ contact' # NoContact
  BY <1>3 DEF NoContact
<1>6. osType' \in Systems \cup {"auto"} /\ actual' \in Systems /\ sure' \in BOOLEAN
  BY <1>0, <1>3, <1>4
<1>7. ToldSystemIsKept'
  <2>1. CASE sure
    BY <1>0, <1>1, <1>3, <2>1 DEF ToldSystemIsKept, Systems
  <2>2. CASE ~sure
    BY <1>0, <1>3, <2>2 DEF ToldSystemIsKept, Systems
  <2> QED
    BY <2>1, <2>2
<1>8. SpecTypeOK'
  <2>1. Outcome(m, v).status \in {"done", "failed"}
    BY DEF Outcome
  <2> QED
    BY <1>4, <1>5, <1>6, <2>1 DEF SpecTypeOK, Excuses
<1>9. ExcusesFitTheSpecs'
  <2>1. ASSUME Outcome(m, v).shown = {}, ~v.specs
        PROVE  m.open # {} /\ v.excuses = {}
    BY <2>1 DEF Outcome
  <2> QED
    BY <1>1, <1>3, <1>5, <2>1 DEF ExcusesFitTheSpecs
<1>10. AccountsAreSpared'
  <2>1. CASE v.tries = <<>>
    <3>1. DOMAIN v.tries = {}
      BY <2>1
    <3>2. \A u : {n \in DOMAIN v.tries : v.tries[n] = u} = {}
      BY <3>1
    <3> QED
      BY <1>5, <3>1, <3>2, FS_EmptySet DEF AccountsAreSpared
  <2>2. CASE v.tries # <<>>
    <3>1. PICK d, s, k, a :
            /\ v.tries = (d \o s) \o k /\ d \in {<<>>, <<m.entered>>}
            /\ s = <<>> \/ GivenFrom(m, m.entered, s)
            /\ a \in {m.entered, "good"} /\ (k = <<>> \/ GivenFrom(m, a, k))
            /\ m.ssh # "broken" /\ s = <<m.entered, "good">> => a = "good"
      BY <1>2, <2>2
    <3>2. m.entered \in {"good", "typo"}
      BY <1>2, <2>2 DEF Meetings
    <3>3. Spared(m, v.tries)
      BY <3>1, <3>2, TriesFacts
    <3> QED
      BY <1>5, <3>3 DEF AccountsAreSpared, Spared
  <2> QED
    BY <2>1, <2>2
<1> QED
  BY <1>6, <1>7, <1>8, <1>9, <1>10 DEF SpecIInv

LEMMA SpecStep == SpecIInv /\ [SpecNext]_specVars => SpecIInv'
<1> SUFFICES ASSUME SpecIInv, [SpecNext]_specVars PROVE SpecIInv'
  OBVIOUS
<1>1. ASSUME NEW m \in Meetings, CollectSpecs(m) PROVE SpecIInv'
  BY <1>1, CollectKeeps
<1>2. CASE ContactEnds
  BY <1>2 DEF ContactEnds, SpecIInv, SpecTypeOK, ExcusesFitTheSpecs, AccountsAreSpared,
              ToldSystemIsKept
<1>3. CASE UNCHANGED specVars
  BY <1>3 DEF specVars, SpecIInv, SpecTypeOK, ExcusesFitTheSpecs, AccountsAreSpared,
              ToldSystemIsKept
<1> QED
  BY <1>1, <1>2, <1>3 DEF SpecNext

-----------------------------------------------------------------------------
(* The registered devices.                                                 *)

AdoptStates == {"idle", "next", "save", "delete"}
AdoptRow == [at : AdoptStates, list : SUBSET (Ids \X RowIps), row : Ids \cup {0},
             ip : RowIps \cup {"none"}]

\* While a PUT is under way the account also fits the address that it will write.
AccountsWillFit ==
    edit # NoEdit /\ edit.id \in Present(switches) =>
        switches[edit.id].account \in {NoAccount, edit.ip} \/ edit.id \in imported

PutsAreOfAnAddress == edit # NoEdit => edit.ip \in RowIps

\* AUTOINCREMENT: a new row takes no id that was ever given.
IdsAreSpent ==
    /\ Present(switches) \subseteq 1..last["switches"]
    /\ Present(servers) \subseteq 1..last["servers"]

\* What an adoption knows of its switches is true of those that were not edited,
\* the one in hand is of the list, ...
ListsAreTrue ==
    \A a \in Adopters :
        /\ adopt[a] \in AdoptRow
        /\ adopt[a].list \subseteq (1..last["switches"]) \X RowIps
        /\ \A l \in adopt[a].list :
              l[1] \in touched \/ switches[l[1]] = NoRow \/ switches[l[1]].ip = l[2]
        /\ adopt[a].at \in {"save", "delete"} => <<adopt[a].row, adopt[a].ip>> \in adopt[a].list

\* ... its server is not yet known when it is about to be made, unless another
\* request made it meanwhile, and is there when the switch is about to go.
ServerComesFirst ==
    \A a \in Adopters :
        /\ adopt[a].at = "save" => ServerAt(adopt[a].ip) \subseteq raced
        /\ adopt[a].at = "delete" => ServerAt(adopt[a].ip) # {}

RegIInv ==
    /\ RegTypeOK /\ adopt \in [Adopters -> AdoptRow]
    /\ AccountsFitTheAddress /\ AccountsWillFit /\ PutsAreOfAnAddress
    /\ IdsAreSpent /\ ListsAreTrue /\ ServerComesFirst

-----------------------------------------------------------------------------
(* Rows.                                                                   *)

LEMMA SwitchRows ==
    ASSUME NEW row \in SwitchRow
    PROVE  /\ row.name \in Names /\ row.ip \in RowIps /\ row.type \in {"", "Server"}
           /\ row.account \in RowIps \cup {NoAccount} /\ row # NoRow
           /\ \A ip \in RowIps :
                 LET new == [row EXCEPT !.ip = ip]
                 IN  new \in SwitchRow /\ new.ip = ip /\ new.account = row.account
           /\ \A t \in {"", "Server"} :
                 LET new == [row EXCEPT !.type = t]
                 IN  new \in SwitchRow /\ new.ip = row.ip /\ new.account = row.account
           /\ \A c \in RowIps \cup {NoAccount} :
                 LET new == [row EXCEPT !.account = c]
                 IN  new \in SwitchRow /\ new.ip = row.ip /\ new.account = c
<1>1. row # NoRow
  <2>1. DOMAIN row = {"name", "ip", "type", "account"} /\ DOMAIN NoRow = {"ip"}
    BY DEF SwitchRow, NoRow
  <2> QED
    BY <2>1
<1> QED
  BY <1>1 DEF SwitchRow

LEMMA ServerRows ==
    ASSUME NEW row \in ServerRow
    PROVE  /\ row.ip \in RowIps /\ row.location \in {"", "rack"} /\ row.os \in {"auto", "linux"}
           /\ row # NoRow
<1>1. row # NoRow
  <2>1. DOMAIN row = {"ip", "location", "os"} /\ DOMAIN NoRow = {"ip"}
    BY DEF ServerRow, NoRow
  <2> QED
    BY <2>1
<1> QED
  BY <1>1 DEF ServerRow

LEMMA RegInitial == RegInit => RegIInv
<1> SUFFICES ASSUME RegInit PROVE RegIInv
  OBVIOUS
<1>1. PICK n \in Names, i \in RowIps :
         switches = [s \in Ids |-> IF s = 1 THEN [name |-> n, ip |-> i, type |-> "Server",
                                                  account |-> NoAccount] ELSE NoRow]
  BY RegistryAssumption DEF RegInit
<1> DEFINE first == [name |-> n, ip |-> i, type |-> "Server", account |-> NoAccount]
<1>2. first \in SwitchRow /\ first.account = NoAccount
  BY DEF SwitchRow
<1>3. /\ switches \in [Ids -> SwitchRow \cup {NoRow}]
      /\ \A s \in Ids : switches[s] = IF s = 1 THEN first ELSE NoRow
  BY <1>1, <1>2
<1>4. Present(switches) \subseteq {1} /\ Present(servers) = {}
  BY <1>3 DEF Present, RegInit
<1>5. NotAdopting \in AdoptRow /\ NotAdopting.at = "idle" /\ NotAdopting.list = {}
      /\ NotAdopting.row = 0
  BY DEF NotAdopting, AdoptRow, AdoptStates
<1>6. adopt \in [Adopters -> AdoptRow] /\ \A a \in Adopters : adopt[a] = NotAdopting
  BY <1>5 DEF RegInit
<1>7. last \in [{"switches", "servers"} -> 0..MaxIds] /\ last["switches"] = 1 /\ last["servers"] = 0
  BY RegistryAssumption DEF RegInit
<1>8. RegTypeOK
  BY <1>3, <1>5, <1>6, <1>7, RegistryAssumption DEF RegInit, RegTypeOK, NoEdit
<1>9. AccountsFitTheAddress /\ AccountsWillFit /\ PutsAreOfAnAddress
  BY <1>2, <1>3, <1>4 DEF AccountsFitTheAddress, AccountsWillFit, PutsAreOfAnAddress, RegInit, Present
<1>10. IdsAreSpent
  BY <1>4, <1>7 DEF IdsAreSpent
<1>11. ListsAreTrue /\ ServerComesFirst
  BY <1>5, <1>6 DEF ListsAreTrue, ServerComesFirst
<1> QED
  BY <1>6, <1>8, <1>9, <1>10, <1>11 DEF RegIInv

-----------------------------------------------------------------------------
(* Requests about switches: a row that an adoption has in its list is gone  *)
(* or has the same address as before, or the request is in "touched".      *)

SwitchEffect ==
    /\ UNCHANGED <<servers, adopt, raced>>
    /\ switches' \in [Ids -> SwitchRow \cup {NoRow}]
    /\ last' \in [{"switches", "servers"} -> 0..MaxIds]
    /\ last'["servers"] = last["servers"] /\ last["switches"] <= last'["switches"]
    /\ touched' \subseteq Ids /\ imported' \subseteq Ids /\ blanked' \subseteq Ids
    /\ edit' \in [id : Ids \cup {0}, ip : RowIps \cup {"none"}]
    /\ edit' # NoEdit => edit'.ip \in RowIps
    /\ edits' \in 0..MaxEdits
    /\ touched \subseteq touched'
    /\ Present(switches)' \subseteq 1..last'["switches"]
    /\ \A s \in Ids : \/ switches'[s] = NoRow
                      \/ switches[s] # NoRow /\ switches'[s].ip = switches[s].ip
                      \/ Listed(s) => s \in touched'
                      \/ s \notin 1..last["switches"]

LEMMA SwitchEffectKeeps ==
    ASSUME RegIInv, SwitchEffect, AccountsFitTheAddress', AccountsWillFit'
    PROVE  RegIInv'
<1>1. servers' = servers /\ adopt' = adopt /\ raced' = raced
  BY DEF SwitchEffect
<1>2. RegTypeOK' /\ adopt' \in [Adopters -> AdoptRow]
  BY <1>1 DEF RegIInv, RegTypeOK, SwitchEffect
<1>3. IdsAreSpent'
  BY <1>1 DEF RegIInv, IdsAreSpent, SwitchEffect, Present
<1>4. last["switches"] \in Nat /\ last'["switches"] \in Nat /\ last["switches"] <= last'["switches"]
  BY RegistryAssumption DEF RegIInv, RegTypeOK, SwitchEffect
<1>5. ListsAreTrue'
  <2> SUFFICES ASSUME NEW a \in Adopters
               PROVE  /\ adopt[a] \in AdoptRow
                      /\ adopt[a].list \subseteq (1..last'["switches"]) \X RowIps
                      /\ \A l \in adopt[a].list :
                            l[1] \in touched' \/ switches'[l[1]] = NoRow \/ switches'[l[1]].ip = l[2]
                      /\ adopt[a].at \in {"save", "delete"}
                            => <<adopt[a].row, adopt[a].ip>> \in adopt[a].list
    BY <1>1 DEF ListsAreTrue
  <2>1. /\ adopt[a] \in AdoptRow
        /\ adopt[a].list \subseteq (1..last["switches"]) \X RowIps
        /\ adopt[a].at \in {"save", "delete"} => <<adopt[a].row, adopt[a].ip>> \in adopt[a].list
    BY DEF RegIInv, ListsAreTrue
  <2>2. 1..last["switches"] \subseteq 1..last'["switches"]
    BY <1>4
  <2>3. ASSUME NEW l \in adopt[a].list
        PROVE  l[1] \in touched' \/ switches'[l[1]] = NoRow \/ switches'[l[1]].ip = l[2]
    <3>1. l[1] \in 1..last["switches"] /\ l[1] \in Ids
      <4>1. l[1] \in 1..last["switches"]
        BY <2>1
      <4>2. last["switches"] <= MaxIds
        BY RegistryAssumption DEF RegIInv, RegTypeOK
      <4> QED
        BY <1>4, <4>1, <4>2, RegistryAssumption DEF Ids
    <3>2. Listed(l[1])
      BY DEF Listed
    <3>3. l[1] \in touched \/ switches[l[1]] = NoRow \/ switches[l[1]].ip = l[2]
      BY DEF RegIInv, ListsAreTrue
    <3> QED
      BY <3>1, <3>2, <3>3 DEF SwitchEffect
  <2> QED
    BY <2>1, <2>2, <2>3
<1>6. ServerComesFirst'
  BY <1>1 DEF RegIInv, ServerComesFirst, ServerAt, Present
<1>7. PutsAreOfAnAddress'
  BY DEF SwitchEffect, PutsAreOfAnAddress
<1> QED
  BY <1>2, <1>3, <1>5, <1>6, <1>7 DEF RegIInv

\* What the invariant says of one table row and of the counters.
LEMMA SwitchFacts ==
    ASSUME RegIInv
    PROVE  /\ switches \in [Ids -> SwitchRow \cup {NoRow}]
           /\ Present(switches) \subseteq Ids /\ Present(switches) \subseteq 1..last["switches"]
           /\ \A s \in Present(switches) : switches[s] \in SwitchRow
           /\ last \in [{"switches", "servers"} -> 0..MaxIds]
           /\ touched \subseteq Ids /\ imported \subseteq Ids /\ blanked \subseteq Ids
           /\ edit \in [id : Ids \cup {0}, ip : RowIps \cup {"none"}]
           /\ edit # NoEdit => edit.ip \in RowIps
           /\ edits \in 0..MaxEdits
           /\ \A s \in Present(switches) :
                 switches[s].account \in {NoAccount, switches[s].ip} \/ s \in imported
           /\ edit # NoEdit /\ edit.id \in Present(switches) =>
                 switches[edit.id].account \in {NoAccount, edit.ip} \/ edit.id \in imported
BY DEF RegIInv, RegTypeOK, Present, IdsAreSpent, AccountsFitTheAddress, AccountsWillFit,
       PutsAreOfAnAddress

LEMMA EditIsCounted == edits \in 0..MaxEdits /\ Edit => edits' \in 0..MaxEdits
BY RegistryAssumption DEF Edit

LEMMA TouchIsKept ==
    ASSUME NEW id \in Ids, touched \subseteq Ids, Touch(id)
    PROVE  touched \subseteq touched' /\ touched' \subseteq Ids /\ (Listed(id) => id \in touched')
BY DEF Touch

\* One row is written anew, and nothing else in the table.
LEMMA OneRowWritten ==
    ASSUME RegIInv, NEW s \in Present(switches), NEW row \in SwitchRow \cup {NoRow},
           switches' = [switches EXCEPT ![s] = row], last' = last, touched \subseteq touched',
           row = NoRow \/ row.ip = switches[s].ip \/ (Listed(s) => s \in touched')
    PROVE  /\ switches' \in [Ids -> SwitchRow \cup {NoRow}]
           /\ last' \in [{"switches", "servers"} -> 0..MaxIds]
           /\ last'["servers"] = last["servers"] /\ last["switches"] <= last'["switches"]
           /\ Present(switches)' \subseteq 1..last'["switches"]
           /\ \A x \in Ids : switches'[x] = IF x = s THEN row ELSE switches[x]
           /\ \A x \in Ids : \/ switches'[x] = NoRow
                             \/ switches[x] # NoRow /\ switches'[x].ip = switches[x].ip
                             \/ Listed(x) => x \in touched'
                             \/ x \notin 1..last["switches"]
<1>1. /\ switches \in [Ids -> SwitchRow \cup {NoRow}] /\ s \in Ids /\ switches[s] # NoRow
      /\ Present(switches) \subseteq 1..last["switches"]
      /\ last \in [{"switches", "servers"} -> 0..MaxIds]
  BY SwitchFacts DEF Present
<1>2. /\ switches' \in [Ids -> SwitchRow \cup {NoRow}]
      /\ \A x \in Ids : switches'[x] = IF x = s THEN row ELSE switches[x]
  BY <1>1
<1>3. Present(switches)' \subseteq Present(switches)
  BY <1>1, <1>2 DEF Present
<1>4. last["switches"] \in Nat
  BY <1>1, RegistryAssumption
<1>5. ASSUME NEW x \in Ids
      PROVE  \/ switches'[x] = NoRow
             \/ switches[x] # NoRow /\ switches'[x].ip = switches[x].ip
             \/ Listed(x) => x \in touched'
             \/ x \notin 1..last["switches"]
  <2>1. CASE x = s
    BY <1>1, <1>2, <2>1
  <2>2. CASE x # s
    BY <1>2, <2>2
  <2> QED
    BY <2>1, <2>2
<1>6. /\ last' \in [{"switches", "servers"} -> 0..MaxIds]
      /\ last'["servers"] = last["servers"] /\ last["switches"] <= last'["switches"]
      /\ Present(switches)' \subseteq 1..last'["switches"]
  <2>1. last["switches"] <= last["switches"]
    BY <1>4
  <2>2. last' = last
    OBVIOUS
  <2> QED
    BY ONLY <1>1, <1>3, <2>1, <2>2
<1> QED
  BY ONLY <1>2, <1>5, <1>6

LEMMA ImportSwitchKeeps ==
    ASSUME RegIInv, NEW name \in Names, NEW ip \in RowIps, ImportSwitch(name, ip)
    PROVE  RegIInv'
<1> DEFINE known == {s \in Present(switches) : switches[s].name = name}
<1>1. /\ edits' \in 0..MaxEdits
      /\ UNCHANGED <<servers, edit, adopt, raced, blanked>>
  BY SwitchFacts, EditIsCounted DEF ImportSwitch
<1>2. CASE known # {}
  <2>1. PICK s \in known :
          /\ switches' = [switches EXCEPT ![s].ip = ip]
          /\ imported' = IF switches[s].ip # ip THEN imported \cup {s} ELSE imported
          /\ Touch(s) /\ last' = last
    BY <1>2 DEF ImportSwitch
  <2> DEFINE row == [switches[s] EXCEPT !.ip = ip]
  <2>2. s \in Present(switches) /\ s \in Ids /\ switches[s] \in SwitchRow
    BY SwitchFacts
  <2>3. row \in SwitchRow /\ row.ip = ip /\ row.account = switches[s].account
    BY <2>2, SwitchRows
  <2>4. switches' = [switches EXCEPT ![s] = row]
    BY <2>1, <2>2, SwitchFacts
  <2> HIDE DEF row
  <2>5. touched \subseteq touched' /\ touched' \subseteq Ids /\ (Listed(s) => s \in touched')
    BY <2>1, <2>2, SwitchFacts, TouchIsKept
  <2>6. SwitchEffect
    BY <1>1, <2>1, <2>2, <2>3, <2>4, <2>5, SwitchFacts, OneRowWritten DEF SwitchEffect
  <2>7. \A x \in Ids : switches'[x] = IF x = s THEN row ELSE switches[x]
    BY <2>2, <2>4, SwitchFacts
  <2>8. AccountsFitTheAddress' /\ AccountsWillFit'
    BY <1>1, <2>1, <2>2, <2>3, <2>7, SwitchFacts
       DEF AccountsFitTheAddress, AccountsWillFit, Present
  <2> QED
    BY <2>6, <2>8, SwitchEffectKeeps
<1>3. CASE known = {}
  <2> DEFINE new == NewId("switches")
             row == [name |-> name, ip |-> ip, type |-> "", account |-> NoAccount]
  <2>1. /\ last["switches"] < MaxIds
        /\ switches' = [switches EXCEPT ![new] = row]
        /\ last' = [last EXCEPT !["switches"] = last["switches"] + 1]
        /\ imported' = imported /\ touched' = touched
    BY <1>3 DEF ImportSwitch, Spare, Given
  <2>2. row \in SwitchRow /\ row.account = NoAccount
    BY DEF SwitchRow
  <2>3. /\ last \in [{"switches", "servers"} -> 0..MaxIds] /\ last["switches"] \in Nat
        /\ MaxIds \in Nat
    BY SwitchFacts, RegistryAssumption
  <2>4. new = last["switches"] + 1 /\ new \in Ids /\ new \in 0..MaxIds
        /\ new \notin 1..last["switches"]
    <3>1. new = last["switches"] + 1
      BY DEF NewId
    <3>2. \A l, m \in Nat : l < m => /\ l + 1 \in 1..m /\ l + 1 \in 0..m
                                     /\ l + 1 \notin 1..l
      OBVIOUS
    <3>3. last["switches"] < MaxIds
      BY <2>1
    <3> HIDE DEF new
    <3> QED
      BY ONLY <2>3, <3>1, <3>2, <3>3 DEF Ids
  <2> HIDE DEF row, new
  <2>5. /\ switches' \in [Ids -> SwitchRow \cup {NoRow}]
        /\ \A x \in Ids : switches'[x] = IF x = new THEN row ELSE switches[x]
    BY <2>1, <2>2, <2>4, SwitchFacts
  <2>6. last' \in [{"switches", "servers"} -> 0..MaxIds] /\ last'["switches"] = new
        /\ last'["servers"] = last["servers"]
    BY <2>1, <2>3, <2>4
  <2>7. Present(switches)' \subseteq 1..new
    <3>1. Present(switches)' \subseteq Present(switches) \cup {new}
      BY <2>5 DEF Present
    <3>2. 1..last["switches"] \cup {new} \subseteq 1..new
      BY <2>3, <2>4
    <3> QED
      BY <3>1, <3>2, SwitchFacts
  <2>8. SwitchEffect
    <3>1. \A x \in Ids : x = new \/ switches'[x] = switches[x]
      BY <2>5
    <3>2. last["switches"] <= last'["switches"]
      BY <2>3, <2>4, <2>6
    <3> QED
      BY <1>1, <2>1, <2>4, <2>5, <2>6, <2>7, <3>1, <3>2, SwitchFacts DEF SwitchEffect
  <2>9. AccountsFitTheAddress' /\ AccountsWillFit'
    BY <1>1, <2>1, <2>2, <2>5, SwitchFacts DEF AccountsFitTheAddress, AccountsWillFit, Present
  <2> QED
    BY <2>8, <2>9, SwitchEffectKeeps
<1> QED
  BY <1>2, <1>3

LEMMA SaveAccountKeeps ==
    ASSUME RegIInv, NEW s \in Ids, SaveAccount(s)
    PROVE  RegIInv'
<1>1. /\ edits' \in 0..MaxEdits /\ s \in Present(switches)
      /\ UNCHANGED <<servers, edit, adopt, touched, raced, last, blanked>>
      /\ switches' = [switches EXCEPT ![s].account = switches[s].ip]
      /\ imported' = IF edit.id = s /\ edit.ip # switches[s].ip THEN imported \cup {s}
                     ELSE imported \ {s}
  BY SwitchFacts, EditIsCounted DEF SaveAccount
<1> DEFINE row == [switches[s] EXCEPT !.account = switches[s].ip]
<1>2. switches[s] \in SwitchRow /\ switches[s].ip \in RowIps
  BY <1>1, SwitchFacts, SwitchRows
<1>3. row \in SwitchRow /\ row.ip = switches[s].ip /\ row.account = switches[s].ip
  BY <1>2, SwitchRows
<1>4. switches' = [switches EXCEPT ![s] = row]
  BY <1>1, SwitchFacts
<1> HIDE DEF row
<1>5. SwitchEffect
  BY <1>1, <1>3, <1>4, SwitchFacts, OneRowWritten DEF SwitchEffect
<1>6. \A x \in Ids : switches'[x] = IF x = s THEN row ELSE switches[x]
  BY <1>4, SwitchFacts
<1>7. AccountsFitTheAddress'
  BY <1>1, <1>3, <1>6, SwitchFacts DEF AccountsFitTheAddress, Present
<1>8. AccountsWillFit'
  BY <1>1, <1>3, <1>6, SwitchFacts DEF AccountsWillFit, Present
<1> QED
  BY <1>5, <1>7, <1>8, SwitchEffectKeeps

LEMMA SetTypeKeeps ==
    ASSUME RegIInv, NEW s \in Ids, NEW t \in {"", "Server"}, SetType(s, t)
    PROVE  RegIInv'
<1>1. /\ edits' \in 0..MaxEdits /\ s \in Present(switches) /\ Touch(s)
      /\ UNCHANGED <<servers, edit, adopt, raced, imported, last, blanked>>
      /\ switches' = [switches EXCEPT ![s].type = t]
  BY SwitchFacts, EditIsCounted DEF SetType
<1> DEFINE row == [switches[s] EXCEPT !.type = t]
<1>2. switches[s] \in SwitchRow
  BY <1>1, SwitchFacts
<1>3. row \in SwitchRow /\ row.ip = switches[s].ip /\ row.account = switches[s].account
  BY <1>2, SwitchRows
<1>4. switches' = [switches EXCEPT ![s] = row]
  BY <1>1, SwitchFacts
<1> HIDE DEF row
<1>5. touched \subseteq touched' /\ touched' \subseteq Ids
  BY <1>1, SwitchFacts, TouchIsKept
<1>6. SwitchEffect
  BY <1>1, <1>3, <1>4, <1>5, SwitchFacts, OneRowWritten DEF SwitchEffect
<1>7. \A x \in Ids : switches'[x] = IF x = s THEN row ELSE switches[x]
  BY <1>4, SwitchFacts
<1>8. AccountsFitTheAddress' /\ AccountsWillFit'
  BY <1>1, <1>3, <1>7, SwitchFacts DEF AccountsFitTheAddress, AccountsWillFit, Present
<1> QED
  BY <1>6, <1>8, SwitchEffectKeeps

LEMMA PutBeginKeeps ==
    ASSUME RegIInv, NEW s \in Ids, NEW ip \in RowIps, PutBegin(s, ip)
    PROVE  RegIInv'
<1>1. /\ edits' \in 0..MaxEdits /\ s \in Present(switches) /\ edit' = [id |-> s, ip |-> ip]
      /\ UNCHANGED <<servers, adopt, touched, raced, last, blanked>>
      /\ ClearAccount(s, ip)
  BY SwitchFacts, EditIsCounted DEF PutBegin
<1>2. edit' \in [id : Ids \cup {0}, ip : RowIps \cup {"none"}] /\ edit'.id = s /\ edit'.ip = ip
  BY <1>1
<1>3. switches[s] \in SwitchRow
  BY <1>1, SwitchFacts
<1>4. PICK row \in SwitchRow :
        /\ switches' = [switches EXCEPT ![s] = row] /\ row.ip = switches[s].ip
        /\ \/ row.account = NoAccount /\ imported' = imported \ {s}
           \/ row = switches[s] /\ imported' = imported /\ row.ip = ip
  <2>1. CASE switches[s].ip # ip
    <3> DEFINE row == [switches[s] EXCEPT !.account = NoAccount]
    <3>1. row \in SwitchRow /\ row.ip = switches[s].ip /\ row.account = NoAccount
      BY <1>3, SwitchRows
    <3>2. switches' = [switches EXCEPT ![s] = row] /\ imported' = imported \ {s}
      BY <1>1, <2>1, SwitchFacts DEF ClearAccount
    <3> QED
      BY <3>1, <3>2
  <2>2. CASE switches[s].ip = ip
    <3>1. switches' = switches /\ imported' = imported
      BY <1>1, <2>2 DEF ClearAccount
    <3>2. switches' = [switches EXCEPT ![s] = switches[s]]
      BY <3>1, SwitchFacts
    <3> QED
      BY <1>3, <2>2, <3>1, <3>2
  <2> QED
    BY <2>1, <2>2
<1>5. SwitchEffect
  BY <1>1, <1>2, <1>4, SwitchFacts, OneRowWritten DEF SwitchEffect
<1>6. \A x \in Ids : switches'[x] = IF x = s THEN row ELSE switches[x]
  BY <1>4, SwitchFacts
<1>7. AccountsFitTheAddress'
  BY <1>1, <1>4, <1>6, SwitchFacts DEF AccountsFitTheAddress, Present
<1>8. AccountsWillFit'
  BY <1>1, <1>2, <1>4, <1>6, SwitchFacts DEF AccountsWillFit
<1> QED
  BY <1>5, <1>7, <1>8, SwitchEffectKeeps

LEMMA PutWriteKeeps ==
    ASSUME RegIInv, PutWrite
    PROVE  RegIInv'
<1>1. /\ edit # NoEdit /\ edit' = NoEdit
      /\ UNCHANGED <<servers, adopt, raced, edits, imported, last, blanked>>
  BY DEF PutWrite
<1>2. edit' \in [id : Ids \cup {0}, ip : RowIps \cup {"none"}] /\ AccountsWillFit'
  BY <1>1 DEF NoEdit, AccountsWillFit
<1>3. CASE edit.id \in Present(switches)
  <2> DEFINE s == edit.id
             row == [switches[s] EXCEPT !.ip = edit.ip]
  <2>1. switches' = [switches EXCEPT ![s].ip = edit.ip] /\ Touch(s)
    BY <1>3 DEF PutWrite
  <2>2. s \in Ids /\ switches[s] \in SwitchRow
    BY <1>3, SwitchFacts
  <2>3. row \in SwitchRow /\ row.ip = edit.ip /\ row.account = switches[s].account
    <3>1. edit.ip \in RowIps
      BY <1>1, <2>2 DEF RegIInv, PutsAreOfAnAddress
    <3> QED
      BY <2>2, <3>1, SwitchRows
  <2>4. switches' = [switches EXCEPT ![s] = row]
    BY <2>1, <2>2, SwitchFacts
  <2>5. s \in Present(switches)
    BY <1>3
  <2>6. switches[s].account \in {NoAccount, edit.ip} \/ s \in imported
    BY <1>1, <1>3, SwitchFacts
  <2> HIDE DEF row, s
  <2>7. touched \subseteq touched' /\ touched' \subseteq Ids /\ (Listed(s) => s \in touched')
    BY <2>1, <2>2, SwitchFacts, TouchIsKept
  <2>8. SwitchEffect
    BY <1>1, <1>2, <2>2, <2>3, <2>4, <2>5, <2>7, SwitchFacts, OneRowWritten DEF SwitchEffect
  <2>9. \A x \in Ids : switches'[x] = IF x = s THEN row ELSE switches[x]
    BY <2>2, <2>4, SwitchFacts
  <2>10. AccountsFitTheAddress'
    BY <1>1, <2>3, <2>6, <2>9, SwitchFacts DEF AccountsFitTheAddress, Present
  <2> QED
    BY <1>2, <2>8, <2>10, SwitchEffectKeeps
<1>4. CASE edit.id \notin Present(switches)
  <2>1. switches' = switches /\ touched' = touched
    BY <1>4 DEF PutWrite
  <2>2. last["switches"] \in Nat
    BY SwitchFacts, RegistryAssumption
  <2>3. SwitchEffect
    BY <1>1, <1>2, <2>1, <2>2, SwitchFacts DEF SwitchEffect, Present
  <2>4. AccountsFitTheAddress'
    BY <1>1, <2>1, SwitchFacts DEF AccountsFitTheAddress, Present
  <2> QED
    BY <1>2, <2>3, <2>4, SwitchEffectKeeps
<1> QED
  BY <1>3, <1>4

LEMMA RemoveSwitchKeeps ==
    ASSUME RegIInv, NEW s \in Ids, RemoveSwitch(s)
    PROVE  RegIInv'
<1>1. /\ edits' \in 0..MaxEdits /\ s \in Present(switches) /\ Touch(s)
      /\ UNCHANGED <<servers, edit, adopt, raced, imported, last, blanked>>
      /\ switches' = [switches EXCEPT ![s] = NoRow]
  BY SwitchFacts, EditIsCounted DEF RemoveSwitch
<1>2. touched \subseteq touched' /\ touched' \subseteq Ids
  BY <1>1, SwitchFacts, TouchIsKept
<1>3. NoRow \in SwitchRow \cup {NoRow}
  OBVIOUS
<1>4. SwitchEffect
  BY <1>1, <1>2, <1>3, SwitchFacts, OneRowWritten DEF SwitchEffect
<1>5. \A x \in Ids : switches'[x] = IF x = s THEN NoRow ELSE switches[x]
  BY <1>1, SwitchFacts
<1>6. AccountsFitTheAddress' /\ AccountsWillFit'
  BY <1>1, <1>5, SwitchFacts DEF AccountsFitTheAddress, AccountsWillFit, Present
<1> QED
  BY <1>4, <1>6, SwitchEffectKeeps

-----------------------------------------------------------------------------
(* Requests about servers.                                                 *)

LEMMA ServerFacts ==
    ASSUME RegIInv
    PROVE  /\ servers \in [Ids -> ServerRow \cup {NoRow}]
           /\ Present(servers) \subseteq Ids /\ Present(servers) \subseteq 1..last["servers"]
           /\ \A v \in Present(servers) : servers[v] \in ServerRow
           /\ last \in [{"switches", "servers"} -> 0..MaxIds]
           /\ last["servers"] \in Nat /\ MaxIds \in Nat
           /\ raced \subseteq Ids /\ blanked \subseteq Ids
BY RegistryAssumption DEF RegIInv, RegTypeOK, Present, IdsAreSpent

\* The rows stay, each at its address and in its rack; a system changes only
\* with v in "changed".
ServersStay(changed) ==
    /\ servers' \in [Ids -> ServerRow \cup {NoRow}]
    /\ last' \in [{"switches", "servers"} -> 0..MaxIds] /\ last'["switches"] = last["switches"]
    /\ Present(servers)' \subseteq 1..last'["servers"]
    /\ \A v \in Present(servers) :
          /\ servers'[v] # NoRow /\ servers'[v].ip = servers[v].ip
          /\ servers[v].location = "rack" => servers'[v].location = "rack"
          /\ servers'[v].os = servers[v].os \/ v \in changed

LEMMA OneServerWritten ==
    ASSUME RegIInv, NEW v \in Present(servers), NEW row \in ServerRow,
           servers' = [servers EXCEPT ![v] = row], last' = last, row.ip = servers[v].ip,
           servers[v].location = "rack" => row.location = "rack",
           NEW changed, row.os = servers[v].os \/ v \in changed
    PROVE  /\ ServersStay(changed)
           /\ \A x \in Ids : servers[x] = NoRow => servers'[x] = NoRow
<1>1. v \in Ids /\ servers[v] # NoRow
  BY ServerFacts DEF Present
<1>2. /\ servers' \in [Ids -> ServerRow \cup {NoRow}]
      /\ \A x \in Ids : servers'[x] = IF x = v THEN row ELSE servers[x]
  BY <1>1, ServerFacts
<1>3. row # NoRow
  BY ServerRows
<1>4. Present(servers)' = Present(servers)
  BY <1>1, <1>2, <1>3 DEF Present
<1>5. \A x \in Present(servers) :
          /\ servers'[x] # NoRow /\ servers'[x].ip = servers[x].ip
          /\ servers[x].location = "rack" => servers'[x].location = "rack"
          /\ servers'[x].os = servers[x].os \/ x \in changed
  <2>1. \A x \in Present(servers) : x \in Ids /\ servers[x] # NoRow
    BY DEF Present
  <2> QED
    BY <1>2, <1>3, <2>1
<1>6. last' = last
  OBVIOUS
<1> QED
  BY <1>1, <1>2, <1>4, <1>5, <1>6, ServerFacts DEF ServersStay

\* save_server writes the row of the address, or makes one.
LEMMA SaveServerWrites ==
    ASSUME RegIInv, NEW ip \in RowIps, NEW location \in {"keep", "rack"},
           NEW os \in {"auto", "linux"}, SaveServer(ip, location, os)
    PROVE  /\ ServersStay({v \in ServerAt(ip) : servers'[v].os = os})
           /\ \A v \in Ids : servers[v] = NoRow /\ servers'[v] # NoRow => servers'[v].ip = ip
           /\ \E v \in Ids : servers'[v] # NoRow /\ servers'[v].ip = ip
<1> DEFINE changed == {v \in ServerAt(ip) : servers'[v].os = os}
<1>1. CASE ServerAt(ip) # {}
  <2>1. PICK v \in ServerAt(ip) :
          servers' = [servers EXCEPT
               ![v].location = IF location = "keep" THEN @ ELSE location,
               ![v].os = IF os = "keep" THEN @ ELSE os]
    BY <1>1 DEF SaveServer
  <2> DEFINE where == IF location = "keep" THEN servers[v].location ELSE location
             row == [servers[v] EXCEPT !.location = where, !.os = os]
  <2>2. /\ v \in Present(servers) /\ v \in Ids /\ servers[v] \in ServerRow /\ servers[v].ip = ip
        /\ last' = last
    BY <1>1, ServerFacts DEF ServerAt, SaveServer
  <2>3. where \in {"", "rack"} /\ (servers[v].location = "rack" => where = "rack")
    BY <2>2, ServerRows
  <2> HIDE DEF where
  <2>4. row \in ServerRow /\ row.ip = servers[v].ip /\ row.location = where /\ row.os = os
    BY <2>2, <2>3 DEF ServerRow
  <2>5. servers' = [servers EXCEPT ![v] = row]
    BY <2>1, <2>2, ServerFacts DEF where
  <2> HIDE DEF row
  <2>6. servers'[v] = row /\ v \in changed
    BY <2>1, <2>2, <2>4, <2>5, ServerFacts
  <2> HIDE DEF changed
  <2>7. ServersStay(changed) /\ \A x \in Ids : servers[x] = NoRow => servers'[x] = NoRow
    BY <2>2, <2>3, <2>4, <2>5, <2>6, OneServerWritten
  <2>8. servers'[v] # NoRow /\ servers'[v].ip = ip
    BY <2>2, <2>4, <2>6, ServerRows
  <2> QED
    BY <2>2, <2>7, <2>8 DEF changed
<1>2. CASE ServerAt(ip) = {}
  <2> DEFINE new == NewId("servers")
             where == IF location = "keep" THEN "" ELSE location
             row == [ip |-> ip, location |-> where, os |-> os]
  <2>1. /\ last["servers"] < MaxIds /\ servers' = [servers EXCEPT ![new] = row]
        /\ last' = [last EXCEPT !["servers"] = last["servers"] + 1]
    BY <1>2 DEF SaveServer, Spare, Given
  <2>2. row \in ServerRow /\ row.ip = ip
    BY DEF ServerRow
  <2>3. new = last["servers"] + 1 /\ new \in Ids /\ new \in 0..MaxIds
        /\ new \notin 1..last["servers"] /\ 1..last["servers"] \subseteq 1..new /\ new \in 1..new
    <3>1. new = last["servers"] + 1
      BY DEF NewId
    <3>2. \A l, m \in Nat : l < m => /\ l + 1 \in 1..m /\ l + 1 \in 0..m
                                     /\ l + 1 \notin 1..l /\ 1..l \subseteq 1..(l + 1)
                                     /\ l + 1 \in 1..(l + 1)
      OBVIOUS
    <3>3. last["servers"] < MaxIds /\ last["servers"] \in Nat /\ MaxIds \in Nat
      BY <2>1, ServerFacts
    <3> HIDE DEF new
    <3> QED
      BY ONLY <3>1, <3>2, <3>3 DEF Ids
  <2> HIDE DEF new, row
  <2>4. /\ servers' \in [Ids -> ServerRow \cup {NoRow}]
        /\ \A x \in Ids : servers'[x] = IF x = new THEN row ELSE servers[x]
    BY <2>1, <2>2, <2>3, ServerFacts
  <2>5. last' \in [{"switches", "servers"} -> 0..MaxIds] /\ last'["servers"] = new
        /\ last'["switches"] = last["switches"]
    BY <2>1, <2>3, ServerFacts
  <2>6. row # NoRow
    BY <2>2, ServerRows
  <2>7. Present(servers)' \subseteq 1..last'["servers"]
    <3>1. Present(servers)' \subseteq Present(servers) \cup {new}
      BY <2>4 DEF Present
    <3> QED
      BY <2>3, <2>5, <3>1, ServerFacts
  <2>8. \A x \in Present(servers) : servers'[x] = servers[x] /\ servers[x] # NoRow
    <3>1. \A x \in Present(servers) : x \in Ids /\ x # new /\ servers[x] # NoRow
      BY <2>3, ServerFacts DEF Present
    <3> QED
      BY <2>4, <3>1
  <2>9. ServersStay(changed)
    BY <2>4, <2>5, <2>7, <2>8 DEF ServersStay
  <2>10. \A x \in Ids : servers[x] = NoRow /\ servers'[x] # NoRow => servers'[x].ip = ip
    BY <2>2, <2>4
  <2>11. new \in Ids /\ servers'[new] # NoRow /\ servers'[new].ip = ip
    BY <2>2, <2>3, <2>4, <2>6
  <2> QED
    BY <2>9, <2>10, <2>11
<1> QED
  BY <1>1, <1>2

\* A request about servers: what it makes at an address that an adoption is about
\* to save is in "raced".
LEMMA ServerEffectKeeps ==
    ASSUME RegIInv, NEW changed, ServersStay(changed),
           UNCHANGED <<switches, edit, touched, imported>>,
           edits' \in 0..MaxEdits, blanked' \subseteq Ids, raced \subseteq raced', raced' \subseteq Ids,
           NEW who \in SUBSET Adopters, adopt' \in [Adopters -> AdoptRow],
           \A a \in Adopters : /\ adopt'[a].list = adopt[a].list /\ adopt'[a].ip = adopt[a].ip
                               /\ adopt'[a].row = adopt[a].row
                               /\ a \notin who => adopt'[a].at = adopt[a].at,
           \A a \in who : /\ adopt[a].at = "save" /\ adopt'[a].at = "delete"
                          /\ \E v \in Ids : servers'[v] # NoRow /\ servers'[v].ip = adopt[a].ip,
           \A a \in Adopters \ who : adopt[a].at = "save" =>
               \A v \in Ids : servers[v] = NoRow /\ servers'[v] # NoRow
                              /\ servers'[v].ip = adopt[a].ip => v \in raced'
    PROVE  RegIInv'
<1>1. switches' = switches /\ edit' = edit /\ touched' = touched /\ imported' = imported
  OBVIOUS
<1>2. \A a \in Adopters : /\ adopt'[a].at \in AdoptStates /\ adopt'[a].list \subseteq Ids \X RowIps
                          /\ adopt'[a].row \in Ids \cup {0}
  BY DEF AdoptRow
<1>3. RegTypeOK'
  BY <1>1, <1>2 DEF RegIInv, RegTypeOK, ServersStay, AdoptStates
<1>4. AccountsFitTheAddress' /\ AccountsWillFit' /\ PutsAreOfAnAddress'
  BY <1>1 DEF RegIInv, AccountsFitTheAddress, AccountsWillFit, PutsAreOfAnAddress, Present
<1>5. IdsAreSpent'
  BY <1>1 DEF RegIInv, IdsAreSpent, ServersStay, Present
<1>6. ListsAreTrue'
  <2>1. ASSUME NEW a \in Adopters
        PROVE  /\ adopt'[a] \in AdoptRow
               /\ adopt'[a].list \subseteq (1..last'["switches"]) \X RowIps
               /\ \A l \in adopt'[a].list :
                     l[1] \in touched' \/ switches'[l[1]] = NoRow \/ switches'[l[1]].ip = l[2]
               /\ adopt'[a].at \in {"save", "delete"}
                     => <<adopt'[a].row, adopt'[a].ip>> \in adopt'[a].list
    <3>1. /\ adopt[a].list \subseteq (1..last["switches"]) \X RowIps
          /\ \A l \in adopt[a].list :
                l[1] \in touched \/ switches[l[1]] = NoRow \/ switches[l[1]].ip = l[2]
          /\ adopt[a].at \in {"save", "delete"}
                => <<adopt[a].row, adopt[a].ip>> \in adopt[a].list
      BY DEF RegIInv, ListsAreTrue
    <3>2. last'["switches"] = last["switches"]
      BY DEF ServersStay
    <3>3. adopt'[a] \in AdoptRow
      OBVIOUS
    <3>4. adopt'[a].at \in {"save", "delete"} => adopt[a].at \in {"save", "delete"}
      OBVIOUS
    <3> QED
      BY <1>1, <3>1, <3>2, <3>3, <3>4
  <2> QED
    BY <2>1 DEF ListsAreTrue
<1>7. ServerComesFirst'
  <2>1. \A v \in Ids : servers[v] # NoRow => servers'[v] # NoRow /\ servers'[v].ip = servers[v].ip
    BY DEF ServersStay, Present
  <2>2. ASSUME NEW a \in Adopters, adopt'[a].at = "save"
        PROVE  \A v \in Ids : servers'[v] # NoRow /\ servers'[v].ip = adopt'[a].ip => v \in raced'
    <3>1. a \notin who /\ adopt[a].at = "save" /\ adopt'[a].ip = adopt[a].ip
      BY <2>2
    <3>2. \A v \in Ids : servers[v] # NoRow /\ servers[v].ip = adopt[a].ip => v \in raced
      BY <3>1 DEF RegIInv, ServerComesFirst, ServerAt, Present
    <3> QED
      BY <2>1, <3>1, <3>2
  <2>3. ASSUME NEW a \in Adopters, adopt'[a].at = "delete"
        PROVE  \E v \in Ids : servers'[v] # NoRow /\ servers'[v].ip = adopt'[a].ip
    <3>1. CASE a \in who
      BY <3>1
    <3>2. CASE a \notin who
      <4>1. adopt[a].at = "delete" /\ adopt'[a].ip = adopt[a].ip
        BY <2>3, <3>2
      <4>2. \E v \in Ids : servers[v] # NoRow /\ servers[v].ip = adopt[a].ip
        BY <4>1 DEF RegIInv, ServerComesFirst, ServerAt, Present
      <4> QED
        BY <2>1, <4>1, <4>2
    <3> QED
      BY <3>1, <3>2
  <2> QED
    BY <2>2, <2>3 DEF ServerComesFirst, ServerAt, Present
<1> QED
  BY <1>3, <1>4, <1>5, <1>6, <1>7 DEF RegIInv

KnownData ==
    \A v \in Present(servers) \ raced :
        /\ servers[v].os = "linux" => servers'[v].os = "linux" \/ v \in blanked'
        /\ servers[v].location = "rack" => servers'[v].location = "rack"

LEMMA ImportServerKeeps ==
    ASSUME RegIInv, NEW ip \in RowIps, NEW l \in {"keep", "rack"}, NEW o \in {"auto", "linux"},
           ImportServer(ip, l, o)
    PROVE  RegIInv' /\ KnownData
<1>1. /\ edits' \in 0..MaxEdits /\ SaveServer(ip, l, o)
      /\ blanked' = blanked \cup {v \in ServerAt(ip) : o = "auto" /\ servers[v].os # "auto"}
      /\ raced' = raced \cup
            IF \E a \in Adopters : adopt[a].at = "save" /\ adopt[a].ip = ip
            THEN {v \in Ids : servers[v] = NoRow /\ servers'[v] # NoRow} ELSE {}
      /\ UNCHANGED <<switches, edit, touched, imported>> /\ adopt' = adopt
  BY SwitchFacts, EditIsCounted DEF ImportServer
<1> DEFINE changed == {v \in ServerAt(ip) : servers'[v].os = o}
<1>2. /\ ServersStay(changed)
      /\ \A v \in Ids : servers[v] = NoRow /\ servers'[v] # NoRow => servers'[v].ip = ip
  <2>1. SaveServer(ip, l, o)
    BY <1>1
  <2> QED
    BY ONLY ZenonT(40), <2>1, RegIInv, ip \in RowIps, l \in {"keep", "rack"}, o \in {"auto", "linux"},
       SaveServerWrites
<1>3. blanked' \subseteq Ids /\ raced \subseteq raced' /\ raced' \subseteq Ids
  BY <1>1, ServerFacts DEF ServerAt
<1>4. \A a \in Adopters : adopt[a].at = "save" =>
         \A v \in Ids : servers[v] = NoRow /\ servers'[v] # NoRow
                        /\ servers'[v].ip = adopt[a].ip => v \in raced'
  BY <1>1, <1>2
<1>5. adopt' \in [Adopters -> AdoptRow]
  BY <1>1 DEF RegIInv
<1>6. KnownData
  <2>1. \A v \in Present(servers) : servers[v].os \in {"auto", "linux"}
    BY ServerFacts, ServerRows
  <2> QED
    BY <1>1, <1>2, <2>1 DEF ServersStay, KnownData
<1> HIDE DEF changed
<1>7. UNCHANGED <<switches, edit, touched, imported>>
  BY <1>1
<1>8. {} \in SUBSET Adopters /\ Adopters \ {} = Adopters
  OBVIOUS
<1>9. RegIInv'
  BY <1>1, <1>2, <1>3, <1>4, <1>5, <1>7, <1>8, ServerEffectKeeps
<1> QED
  BY <1>6, <1>9

LEMMA ServerChangeKeeps ==
    ASSUME RegIInv, NEW v \in Ids, CollectServer(v) \/ PlaceServer(v)
    PROVE  RegIInv' /\ KnownData
<1>1. /\ edits' \in 0..MaxEdits /\ v \in Present(servers) /\ last' = last
      /\ UNCHANGED <<switches, edit, touched, imported>>
      /\ adopt' = adopt /\ raced' = raced /\ blanked' = blanked
  BY SwitchFacts, EditIsCounted DEF CollectServer, PlaceServer
<1>2. servers[v] \in ServerRow
  BY <1>1, ServerFacts
<1>3. PICK row \in ServerRow :
        /\ servers' = [servers EXCEPT ![v] = row] /\ row.ip = servers[v].ip
        /\ servers[v].location = "rack" => row.location = "rack"
        /\ servers[v].os = "linux" => row.os = "linux"
  <2>1. CASE CollectServer(v)
    <3> DEFINE row == [servers[v] EXCEPT !.os = "linux"]
    <3>1. row \in ServerRow /\ row.ip = servers[v].ip /\ row.location = servers[v].location
          /\ row.os = "linux"
      BY <1>2 DEF ServerRow
    <3>2. servers' = [servers EXCEPT ![v] = row]
      BY <2>1, ServerFacts DEF CollectServer
    <3> QED
      BY <3>1, <3>2
  <2>2. CASE PlaceServer(v)
    <3> DEFINE row == [servers[v] EXCEPT !.location = "rack"]
    <3>1. row \in ServerRow /\ row.ip = servers[v].ip /\ row.location = "rack"
          /\ row.os = servers[v].os
      BY <1>2 DEF ServerRow
    <3>2. servers' = [servers EXCEPT ![v] = row]
      BY <2>2, ServerFacts DEF PlaceServer
    <3> QED
      BY <3>1, <3>2
  <2> QED
    BY <1>1, <2>1, <2>2
<1>4. v \in {v} /\ {} \in SUBSET Adopters /\ Adopters \ {} = Adopters
  OBVIOUS
<1>5. ServersStay({v}) /\ \A x \in Ids : servers[x] = NoRow => servers'[x] = NoRow
  BY <1>1, <1>3, <1>4, OneServerWritten
<1>6. adopt' \in [Adopters -> AdoptRow] /\ raced \subseteq raced' /\ raced' \subseteq Ids
      /\ blanked' \subseteq Ids
  BY <1>1, ServerFacts DEF RegIInv
<1>7. UNCHANGED <<switches, edit, touched, imported>>
  BY <1>1
<1>8. RegIInv'
  BY <1>1, <1>4, <1>5, <1>6, <1>7, ServerEffectKeeps
<1>9. KnownData
  <2>1. \A x \in Present(servers) : servers'[x] = IF x = v THEN row ELSE servers[x]
    BY <1>3, ServerFacts
  <2> QED
    BY <1>3, <2>1 DEF KnownData
<1> QED
  BY <1>8, <1>9

-----------------------------------------------------------------------------
(* The adoption.                                                           *)

AdoptionKeeps(a) ==
    adopt[a].at = "delete" /\ adopt'[a].at = "next" /\ adopt[a].row \notin touched =>
        \A ip \in RowIps : Registered(ip) => Registered(ip)'

\* What an adoption has in hand.
LEMMA AdoptFacts ==
    ASSUME RegIInv, NEW a \in Adopters
    PROVE  /\ adopt[a] \in AdoptRow /\ adopt[a].at \in AdoptStates
           /\ adopt[a].list \subseteq (1..last["switches"]) \X RowIps
           /\ adopt[a].list \subseteq Ids \X RowIps
           /\ adopt[a].row \in Ids \cup {0} /\ adopt[a].ip \in RowIps \cup {"none"}
           /\ \A l \in adopt[a].list :
                 l[1] \in touched \/ switches[l[1]] = NoRow \/ switches[l[1]].ip = l[2]
           /\ adopt[a].at \in {"save", "delete"} =>
                 /\ <<adopt[a].row, adopt[a].ip>> \in adopt[a].list
                 /\ adopt[a].row \in Ids /\ adopt[a].ip \in RowIps
           /\ adopt[a].at = "save" => ServerAt(adopt[a].ip) \subseteq raced
           /\ adopt[a].at = "delete" => ServerAt(adopt[a].ip) # {}
<1>1. adopt[a] \in AdoptRow
  BY DEF RegIInv
<1>2. /\ adopt[a].at \in AdoptStates /\ adopt[a].list \subseteq Ids \X RowIps
      /\ adopt[a].row \in Ids \cup {0} /\ adopt[a].ip \in RowIps \cup {"none"}
  BY <1>1 DEF AdoptRow
<1>3. /\ adopt[a].list \subseteq (1..last["switches"]) \X RowIps
      /\ \A l \in adopt[a].list :
            l[1] \in touched \/ switches[l[1]] = NoRow \/ switches[l[1]].ip = l[2]
      /\ adopt[a].at \in {"save", "delete"} => <<adopt[a].row, adopt[a].ip>> \in adopt[a].list
  BY DEF RegIInv, ListsAreTrue
<1>4. /\ adopt[a].at = "save" => ServerAt(adopt[a].ip) \subseteq raced
      /\ adopt[a].at = "delete" => ServerAt(adopt[a].ip) # {}
  BY DEF RegIInv, ServerComesFirst
<1>5. adopt[a].at \in {"save", "delete"} => adopt[a].row \in Ids /\ adopt[a].ip \in RowIps
  BY <1>2, <1>3
<1> QED
  BY <1>1, <1>2, <1>3, <1>4, <1>5

\* One adoption moves and leaves the tables as they are, or removes a switch.
LEMMA OneAdoptionMoves ==
    ASSUME RegIInv, NEW a \in Adopters, NEW new \in AdoptRow, adopt' = [adopt EXCEPT ![a] = new],
           UNCHANGED <<servers, edit, raced, imported, edits, last, blanked>>,
           switches' \in [Ids -> SwitchRow \cup {NoRow}],
           \A s \in Ids : switches'[s] = switches[s] \/ switches'[s] = NoRow,
           touched' \subseteq touched,
           \A b \in Adopters \ {a} : \A l \in adopt[b].list : l[1] \in touched => l[1] \in touched',
           new.list \subseteq (1..last["switches"]) \X RowIps,
           \A l \in new.list : l[1] \in touched' \/ switches'[l[1]] = NoRow
                               \/ switches'[l[1]].ip = l[2],
           new.at \in {"save", "delete"} => <<new.row, new.ip>> \in new.list,
           new.at = "save" => ServerAt(new.ip) \subseteq raced,
           new.at = "delete" => ServerAt(new.ip) # {}
    PROVE  RegIInv'
<1>1. /\ servers' = servers /\ edit' = edit /\ raced' = raced /\ imported' = imported
      /\ edits' = edits /\ last' = last /\ blanked' = blanked
  OBVIOUS
<1>2. /\ adopt' \in [Adopters -> AdoptRow]
      /\ \A b \in Adopters : adopt'[b] = IF b = a THEN new ELSE adopt[b]
  BY DEF RegIInv
<1>3. RegTypeOK'
  <2>1. \A b \in Adopters : /\ adopt'[b].at \in AdoptStates /\ adopt'[b].list \subseteq Ids \X RowIps
                            /\ adopt'[b].row \in Ids \cup {0}
    BY <1>2 DEF AdoptRow
  <2> QED
    BY <1>1, <2>1 DEF RegIInv, RegTypeOK, AdoptStates
<1>4. \A s \in Present(switches)' : s \in Present(switches) /\ switches'[s] = switches[s]
  BY DEF Present
<1>5. AccountsFitTheAddress' /\ AccountsWillFit' /\ PutsAreOfAnAddress'
  <2>1. AccountsFitTheAddress'
    BY <1>1, <1>4 DEF RegIInv, AccountsFitTheAddress
  <2>2. AccountsWillFit' /\ PutsAreOfAnAddress'
    BY <1>1, <1>4 DEF RegIInv, AccountsWillFit, PutsAreOfAnAddress
  <2> QED
    BY <2>1, <2>2
<1>6. IdsAreSpent'
  BY <1>1, <1>4 DEF RegIInv, IdsAreSpent, Present
<1>7. ListsAreTrue'
  <2>1. ASSUME NEW b \in Adopters
        PROVE  /\ adopt'[b] \in AdoptRow
               /\ adopt'[b].list \subseteq (1..last["switches"]) \X RowIps
               /\ \A l \in adopt'[b].list :
                     l[1] \in touched' \/ switches'[l[1]] = NoRow \/ switches'[l[1]].ip = l[2]
               /\ adopt'[b].at \in {"save", "delete"}
                     => <<adopt'[b].row, adopt'[b].ip>> \in adopt'[b].list
    <3>1. CASE b = a
      BY <1>2, <3>1
    <3>2. CASE b # a
      <4>1. \A l \in adopt[b].list : l[1] \in Ids
        BY AdoptFacts
      <4>2. \A l \in adopt[b].list :
                l[1] \in touched' \/ switches'[l[1]] = NoRow \/ switches'[l[1]].ip = l[2]
        BY <3>2, <4>1, AdoptFacts
      <4> QED
        BY <1>2, <3>2, <4>2, AdoptFacts
    <3> QED
      BY <3>1, <3>2
  <2> QED
    BY <1>1, <2>1 DEF ListsAreTrue
<1>8. ServerComesFirst'
  <2>1. ASSUME NEW b \in Adopters
        PROVE  /\ adopt'[b].at = "save" => ServerAt(adopt'[b].ip) \subseteq raced
               /\ adopt'[b].at = "delete" => ServerAt(adopt'[b].ip) # {}
    BY <1>2, AdoptFacts
  <2> QED
    BY <1>1, <2>1 DEF ServerComesFirst, ServerAt, Present
<1> QED
  BY <1>2, <1>3, <1>5, <1>6, <1>7, <1>8 DEF RegIInv

LEMMA AdoptListKeeps ==
    ASSUME RegIInv, NEW a \in Adopters, AdoptList(a)
    PROVE  RegIInv' /\ adopt[a].at = "idle"
<1> DEFINE list == {<<s, switches[s].ip>> : s \in {r \in Present(switches) : switches[r].type = "Server"}}
           new == [NotAdopting EXCEPT !.at = "next", !.list = list]
<1>1. /\ adopt' = [adopt EXCEPT ![a] = new] /\ adopt[a].at = "idle"
      /\ UNCHANGED <<switches, servers, edit, touched, raced, imported, edits, last, blanked>>
  BY DEF AdoptList
<1>2. \A s \in Present(switches) : /\ s \in 1..last["switches"] /\ s \in Ids
                                   /\ switches[s].ip \in RowIps
  BY SwitchFacts, SwitchRows
<1>3. list \subseteq (1..last["switches"]) \X RowIps /\ list \subseteq Ids \X RowIps
      /\ \A l \in list : switches[l[1]].ip = l[2]
  BY <1>2
<1> HIDE DEF list
<1>4. new \in AdoptRow /\ new.at = "next" /\ new.list = list
  BY <1>3 DEF NotAdopting, AdoptRow, AdoptStates
<1> HIDE DEF new
<1>5. switches' \in [Ids -> SwitchRow \cup {NoRow}] /\ switches' = switches /\ touched' = touched
      /\ UNCHANGED <<servers, edit, raced, imported, edits, last, blanked>>
  BY <1>1, SwitchFacts
<1>6. RegIInv'
  BY <1>1, <1>3, <1>4, <1>5, OneAdoptionMoves
<1> QED
  BY <1>1, <1>6

LEMMA AdoptCheckKeeps ==
    ASSUME RegIInv, NEW a \in Adopters, AdoptCheck(a)
    PROVE  RegIInv' /\ adopt[a].at = "next"
<1>1. PICK l \in adopt[a].list :
        adopt' = [adopt EXCEPT ![a] =
           [adopt[a] EXCEPT !.at = AfterCheck(ServerAt(l[2]) # {}), !.row = l[1], !.ip = l[2]]]
  BY DEF AdoptCheck, RegIInv
<1> DEFINE at == AfterCheck(ServerAt(l[2]) # {})
           new == [adopt[a] EXCEPT !.at = at, !.row = l[1], !.ip = l[2]]
<1>2. /\ adopt' = [adopt EXCEPT ![a] = new] /\ adopt[a].at = "next"
      /\ UNCHANGED <<switches, servers, edit, touched, raced, imported, edits, last, blanked>>
  BY <1>1 DEF AdoptCheck
<1>3. at \in AdoptStates /\ at = (IF ServerAt(l[2]) # {} THEN "delete" ELSE "save")
  BY DEF AfterCheck, AdoptStates
<1>4. l = <<l[1], l[2]>> /\ l[1] \in Ids /\ l[2] \in RowIps
  <2>1. l \in Ids \X RowIps
    BY AdoptFacts
  <2> QED
    BY ONLY <2>1
<1> HIDE DEF at
<1>5. /\ new \in AdoptRow /\ new.at = at /\ new.list = adopt[a].list
      /\ new.row = l[1] /\ new.ip = l[2]
  BY <1>3, <1>4, AdoptFacts DEF AdoptRow
<1> HIDE DEF new
<1>6. switches' \in [Ids -> SwitchRow \cup {NoRow}] /\ switches' = switches /\ touched' = touched
      /\ UNCHANGED <<servers, edit, raced, imported, edits, last, blanked>>
  BY <1>2, SwitchFacts
<1>7. \A x \in new.list : x[1] \in touched' \/ switches'[x[1]] = NoRow \/ switches'[x[1]].ip = x[2]
  BY <1>5, <1>6, AdoptFacts
<1>8. /\ new.at \in {"save", "delete"} => <<new.row, new.ip>> \in new.list
      /\ new.at = "save" => ServerAt(new.ip) \subseteq raced
      /\ new.at = "delete" => ServerAt(new.ip) # {}
  BY <1>3, <1>4, <1>5
<1>9. new.list \subseteq (1..last["switches"]) \X RowIps
  BY <1>5, AdoptFacts
<1>10. RegIInv'
  BY <1>2, <1>5, <1>6, <1>7, <1>8, <1>9, OneAdoptionMoves
<1> QED
  BY <1>2, <1>10

\* The switch goes: if nobody edited it, its address is the one that was saved.
LEMMA AdoptDeleteKeeps ==
    ASSUME RegIInv, NEW a \in Adopters, AdoptDelete(a)
    PROVE  RegIInv' /\ AdoptionKeeps(a)
<1> DEFINE r == adopt[a].row
           list == {l \in adopt[a].list : l[1] # r}
           new == [adopt[a] EXCEPT !.at = "next", !.list = list]
<1>1. /\ adopt' = [adopt EXCEPT ![a] = new] /\ adopt[a].at = "delete"
      /\ switches' = [switches EXCEPT ![r] = NoRow]
      /\ UNCHANGED <<servers, edit, touched, raced, imported, edits, last, blanked>>
  BY DEF AdoptDelete, RegIInv
<1>2. new \in AdoptRow /\ new.at = "next" /\ new.list = list
  BY AdoptFacts DEF AdoptRow, AdoptStates
<1>3. /\ r \in Ids /\ adopt[a].ip \in RowIps /\ <<r, adopt[a].ip>> \in adopt[a].list
      /\ ServerAt(adopt[a].ip) # {}
  BY <1>1, AdoptFacts
<1>4. r \in touched \/ switches[r] = NoRow \/ switches[r].ip = adopt[a].ip
  <2> HIDE DEF r
  <2> QED
    BY <1>3, AdoptFacts
<1>5. list \subseteq (1..last["switches"]) \X RowIps /\ list \subseteq adopt[a].list
  BY AdoptFacts
<1> HIDE DEF new, list, r
<1>6. /\ switches' \in [Ids -> SwitchRow \cup {NoRow}]
      /\ \A s \in Ids : switches'[s] = IF s = r THEN NoRow ELSE switches[s]
  BY <1>1, <1>3, SwitchFacts
<1>7. \A l \in new.list : l[1] \in touched' \/ switches'[l[1]] = NoRow \/ switches'[l[1]].ip = l[2]
  <2>1. \A l \in new.list : l \in adopt[a].list /\ l[1] \in Ids
    BY <1>2, <1>5, AdoptFacts
  <2>2. \A l \in new.list : l[1] \in touched \/ switches[l[1]] = NoRow \/ switches[l[1]].ip = l[2]
    BY <2>1, AdoptFacts
  <2> QED
    BY <1>1, <1>6, <2>1, <2>2
<1>8. touched' = touched /\ UNCHANGED <<servers, edit, raced, imported, edits, last, blanked>>
  BY <1>1
<1>9. RegIInv'
  BY <1>1, <1>2, <1>5, <1>6, <1>7, <1>8, OneAdoptionMoves
<1>10. AdoptionKeeps(a)
  <2> SUFFICES ASSUME r \notin touched, NEW ip \in RowIps, Registered(ip)
               PROVE  (\E s \in Ids : switches'[s].ip = ip) \/ \E v \in Ids : servers[v].ip = ip
    BY <1>8 DEF AdoptionKeeps, Registered, r
  <2>1. CASE \E v \in Ids : servers[v].ip = ip
    BY <2>1
  <2>2. ASSUME NEW s \in Ids, switches[s].ip = ip
        PROVE  (\E x \in Ids : switches'[x].ip = ip) \/ \E v \in Ids : servers[v].ip = ip
    <3>1. CASE s # r \/ switches[s] = NoRow
      BY <1>6, <2>2, <3>1
    <3>2. CASE s = r /\ switches[s] # NoRow
      <4>1. ip = adopt[a].ip
        BY <1>4, <2>2, <3>2
      <4> QED
        BY <1>3, <4>1 DEF ServerAt, Present
    <3> QED
      BY <3>1, <3>2
  <2> QED
    BY <2>1, <2>2 DEF Registered
<1> QED
  BY <1>9, <1>10

LEMMA AdoptEndKeeps ==
    ASSUME RegIInv, NEW a \in Adopters, AdoptEnd(a)
    PROVE  RegIInv' /\ adopt'[a].at # "next"
<1>1. /\ adopt' = [adopt EXCEPT ![a] = NotAdopting]
      /\ touched' = {s \in touched : \E b \in Adopters \ {a} : \E l \in adopt[b].list : l[1] = s}
      /\ switches' = switches
      /\ UNCHANGED <<servers, edit, raced, imported, edits, last, blanked>>
  BY DEF AdoptEnd
<1>2. NotAdopting \in AdoptRow /\ NotAdopting.at = "idle" /\ NotAdopting.list = {}
  BY DEF NotAdopting, AdoptRow, AdoptStates
<1>3. touched' \subseteq touched
      /\ \A b \in Adopters \ {a} : \A l \in adopt[b].list : l[1] \in touched => l[1] \in touched'
  BY <1>1
<1>4. switches' \in [Ids -> SwitchRow \cup {NoRow}]
  BY <1>1, SwitchFacts
<1>5. RegIInv'
  BY <1>1, <1>2, <1>3, <1>4, OneAdoptionMoves
<1>6. adopt'[a].at = "idle"
  BY <1>1, <1>2 DEF RegIInv
<1> QED
  BY <1>5, <1>6

LEMMA AdoptSaveKeeps ==
    ASSUME RegIInv, NEW a \in Adopters, AdoptSave(a)
    PROVE  RegIInv' /\ KnownData /\ adopt'[a].at # "next"
<1> DEFINE ip == adopt[a].ip
           new == [adopt[a] EXCEPT !.at = "delete"]
           changed == {v \in ServerAt(ip) : servers'[v].os = "auto"}
<1>1. /\ adopt[a].at = "save" /\ SaveServer(ip, "keep", "auto")
      /\ adopt' = [adopt EXCEPT ![a] = new]
      /\ raced' = raced \cup
            IF \E b \in Adopters \ {a} : adopt[b].at = "save" /\ adopt[b].ip = ip
            THEN {v \in Ids : servers[v] = NoRow /\ servers'[v] # NoRow} ELSE {}
      /\ UNCHANGED <<switches, edit, touched, imported, edits, blanked>>
  BY DEF AdoptSave, RegIInv
<1>2. ip \in RowIps /\ ServerAt(ip) \subseteq raced
  BY <1>1, AdoptFacts
<1>3. /\ new \in AdoptRow /\ new.at = "delete" /\ new.list = adopt[a].list /\ new.ip = adopt[a].ip
      /\ new.row = adopt[a].row
  BY AdoptFacts DEF AdoptRow, AdoptStates
<1>4. /\ ServersStay(changed)
      /\ \A v \in Ids : servers[v] = NoRow /\ servers'[v] # NoRow => servers'[v].ip = ip
      /\ \E v \in Ids : servers'[v] # NoRow /\ servers'[v].ip = ip
  <2> HIDE DEF ip
  <2> QED
    BY <1>1, <1>2, SaveServerWrites
<1>5. changed \subseteq raced
  BY <1>2
<1> HIDE DEF new, changed
<1>6. /\ adopt' \in [Adopters -> AdoptRow]
      /\ \A b \in Adopters : adopt'[b] = IF b = a THEN new ELSE adopt[b]
  BY <1>1, <1>3 DEF RegIInv
<1>7. /\ edits' \in 0..MaxEdits /\ blanked' \subseteq Ids /\ raced \subseteq raced'
      /\ raced' \subseteq Ids /\ UNCHANGED <<switches, edit, touched, imported>>
  BY <1>1, SwitchFacts, ServerFacts
<1>8. \A b \in Adopters \ {a} : adopt[b].at = "save" =>
         \A v \in Ids : servers[v] = NoRow /\ servers'[v] # NoRow
                        /\ servers'[v].ip = adopt[b].ip => v \in raced'
  BY <1>1, <1>4
<1>9. \A b \in Adopters : /\ adopt'[b].list = adopt[b].list /\ adopt'[b].ip = adopt[b].ip
                          /\ adopt'[b].row = adopt[b].row
                          /\ b \notin {a} => adopt'[b].at = adopt[b].at
  BY <1>3, <1>6
<1>10. \A b \in {a} : /\ adopt[b].at = "save" /\ adopt'[b].at = "delete"
                      /\ \E v \in Ids : servers'[v] # NoRow /\ servers'[v].ip = adopt[b].ip
  BY <1>1, <1>3, <1>4, <1>6
<1>11. {a} \in SUBSET Adopters
  OBVIOUS
<1>12. RegIInv'
  BY ONLY RegIInv, <1>4, <1>6, <1>7, <1>8, <1>9, <1>10, <1>11, ServerEffectKeeps
<1>13. KnownData
  BY <1>4, <1>5 DEF KnownData, ServersStay
<1> QED
  BY <1>10, <1>12, <1>13

LEMMA RegStep ==
    RegIInv /\ [RegNext]_regVars
      => /\ RegIInv'
         /\ [\A a \in Adopters : AdoptionKeeps(a)]_regVars
         /\ [KnownData]_regVars
<1> SUFFICES ASSUME RegIInv, [RegNext]_regVars
             PROVE  RegIInv' /\ (\A a \in Adopters : AdoptionKeeps(a)) /\ KnownData
  OBVIOUS
<1>1. adopt' = adopt => \A a \in Adopters : AdoptionKeeps(a)
  BY DEF AdoptionKeeps
<1>2. servers' = servers => KnownData
  BY DEF KnownData
<1>3. ASSUME NEW n \in Names, NEW i \in RowIps, ImportSwitch(n, i)
      PROVE  RegIInv' /\ adopt' = adopt /\ servers' = servers
  <2>1. RegIInv'
    BY <1>3, ImportSwitchKeeps
  <2> QED
    BY <1>3, <2>1 DEF ImportSwitch
<1>4. ASSUME NEW s \in Ids, SaveAccount(s) \/ RemoveSwitch(s)
      PROVE  RegIInv' /\ adopt' = adopt /\ servers' = servers
  <2>1. RegIInv'
    BY <1>4, SaveAccountKeeps, RemoveSwitchKeeps
  <2> QED
    BY <1>4, <2>1 DEF SaveAccount, RemoveSwitch
<1>5. ASSUME NEW s \in Ids, NEW t \in {"", "Server"}, SetType(s, t)
      PROVE  RegIInv' /\ adopt' = adopt /\ servers' = servers
  <2>1. RegIInv'
    BY <1>5, SetTypeKeeps
  <2> QED
    BY <1>5, <2>1 DEF SetType
<1>6. ASSUME NEW s \in Ids, NEW i \in RowIps, PutBegin(s, i)
      PROVE  RegIInv' /\ adopt' = adopt /\ servers' = servers
  <2>1. RegIInv'
    BY <1>6, PutBeginKeeps
  <2> QED
    BY <1>6, <2>1 DEF PutBegin
<1>7. CASE PutWrite
  <2>1. RegIInv' /\ adopt' = adopt /\ servers' = servers
    <3>1. RegIInv'
      BY <1>7, PutWriteKeeps
    <3> QED
      BY <1>7, <3>1 DEF PutWrite
  <2> QED
    BY <1>1, <1>2, <2>1
<1>8. ASSUME NEW i \in RowIps, NEW l \in {"keep", "rack"}, NEW o \in {"auto", "linux"},
             ImportServer(i, l, o)
      PROVE  RegIInv' /\ adopt' = adopt /\ KnownData
  <2>1. RegIInv' /\ KnownData
    BY <1>8, ImportServerKeeps
  <2> QED
    BY <1>8, <2>1 DEF ImportServer
<1>9. ASSUME NEW v \in Ids, CollectServer(v) \/ PlaceServer(v)
      PROVE  RegIInv' /\ adopt' = adopt /\ KnownData
  <2>1. RegIInv' /\ KnownData
    BY <1>9, ServerChangeKeeps
  <2> QED
    BY <1>9, <2>1 DEF CollectServer, PlaceServer
<1>10. ASSUME NEW a \in Adopters,
              AdoptList(a) \/ AdoptCheck(a) \/ AdoptSave(a) \/ AdoptDelete(a) \/ AdoptEnd(a)
       PROVE  RegIInv' /\ (\A b \in Adopters : AdoptionKeeps(b)) /\ KnownData
  <2>1. \A b \in Adopters \ {a} : adopt'[b] = adopt[b]
    BY <1>10 DEF AdoptList, AdoptCheck, AdoptSave, AdoptDelete, AdoptEnd, RegIInv
  <2>2. \A b \in Adopters \ {a} : AdoptionKeeps(b)
    BY <2>1 DEF AdoptionKeeps
  <2>3. AdoptionKeeps(a) /\ RegIInv'
    <3>1. CASE AdoptList(a)
      BY <3>1, AdoptListKeeps DEF AdoptionKeeps
    <3>2. CASE AdoptCheck(a)
      BY <3>2, AdoptCheckKeeps DEF AdoptionKeeps
    <3>3. CASE AdoptSave(a)
      BY <3>3, AdoptSaveKeeps DEF AdoptionKeeps
    <3>4. CASE AdoptDelete(a)
      BY <3>4, AdoptDeleteKeeps
    <3>5. CASE AdoptEnd(a)
      BY <3>5, AdoptEndKeeps DEF AdoptionKeeps
    <3> QED
      BY <1>10, <3>1, <3>2, <3>3, <3>4, <3>5
  <2>4. KnownData
    <3>1. CASE AdoptSave(a)
      BY <3>1, AdoptSaveKeeps
    <3>2. CASE ~AdoptSave(a)
      BY <1>2, <1>10, <3>2 DEF AdoptList, AdoptCheck, AdoptDelete, AdoptEnd
    <3> QED
      BY <3>1, <3>2
  <2> QED
    BY <2>2, <2>3, <2>4
<1>11. CASE UNCHANGED regVars
  <2>1. UNCHANGED <<switches, servers, edit, touched, raced, imported, edits, last, blanked>>
        /\ adopt' = adopt
    BY <1>11 DEF regVars
  <2>2. switches' = switches /\ servers' = servers /\ edit' = edit /\ touched' = touched
        /\ raced' = raced /\ imported' = imported /\ edits' = edits /\ last' = last
        /\ blanked' = blanked
    BY <2>1
  <2>3. RegIInv'
    <3>1. RegTypeOK' /\ adopt' \in [Adopters -> AdoptRow]
      BY <2>1, <2>2 DEF RegIInv, RegTypeOK
    <3>2. AccountsFitTheAddress' /\ AccountsWillFit' /\ PutsAreOfAnAddress' /\ IdsAreSpent'
      BY <2>2 DEF RegIInv, AccountsFitTheAddress, AccountsWillFit, PutsAreOfAnAddress,
                  IdsAreSpent, Present
    <3>3. ListsAreTrue' /\ ServerComesFirst'
      BY <2>1, <2>2 DEF RegIInv, ListsAreTrue, ServerComesFirst, ServerAt, Present
    <3> QED
      BY <3>1, <3>2, <3>3 DEF RegIInv
  <2> QED
    BY <1>1, <1>2, <2>1, <2>2, <2>3
<1> QED
  BY <1>1, <1>2, <1>3, <1>4, <1>5, <1>6, <1>7, <1>8, <1>9, <1>10, <1>11 DEF RegNext

-----------------------------------------------------------------------------
(* The racks of the server room.                                           *)

Sorts == {"sw", "fw"}
Saves == [at : {"idle", "checked"}, id : ItemIds \cup {0}, units : SUBSET (1..Units),
          since : SUBSET ItemIds]
RestoreEntries == [device : RackDevices, row : Nat, unit : 1..Units]

RoomIsTyped ==
    /\ RoomTypeOK
    /\ born \in [RackDevices -> Nat \ {0}]
    /\ todo \subseteq RestoreEntries
    /\ items \in [ItemIds -> SUBSET (1..Units)]
    /\ saving \in [Editors -> Saves]
    /\ restoring \in BOOLEAN

\* An item that was written into the units of a request after its look at the
\* rack is known to it.
LaterItemsAreKnown ==
    \A e \in Editors : saving[e].at = "checked" =>
        \A j \in ItemIds \ {saving[e].id} :
            items[j] \cap saving[e].units # {} => j \in saving[e].since

\* A restore has one update for a device, which is in no rack unless a user put
\* it there, ...
UpdatesAreNeeded ==
    /\ \A e \in todo : Racked(place[e.device]) => e.device \in handled
    /\ \A e, o \in todo : e.device = o.device => e = o

\* ... and one for every device that a kept unit waits for.
NoneIsForgotten ==
    restoring =>
        \A k \in DOMAIN layout :
            \A d \in ListedDevices(k, Sorts) :
                \/ \E x \in RackDevices : Kindred(x) = k /\ x \in handled
                \/ Racked(place[d])
                \/ \E e \in todo : e.device = d /\ e.row = born[d]

RoomIInv ==
    RoomIsTyped /\ ItemsOverlapOnlyByRace /\ LaterItemsAreKnown /\ UpdatesAreNeeded /\ NoneIsForgotten

\* by_key: the virtual address of two firewalls stands for the backup if that is
\* registered, and an address stands for at most one device.
LEMMA ListedIs ==
    ASSUME NEW k \in Sorts, NEW R \in SUBSET Sorts
    PROVE  ListedDevices(k, R) =
               {d \in RackDevices :
                   /\ k \in R /\ Kindred(d) = k /\ place[d] # Unregistered
                   /\ d = "active" => place["backup"] = Unregistered}
<1> DEFINE there == {d \in RackDevices : Kindred(d) = k /\ place[d] # Unregistered}
<1>1. Cardinality({"active", "backup"}) = 2
  <2>1. IsFiniteSet({"active"}) /\ Cardinality({"active"}) = 1
    BY FS_Singleton
  <2>2. Cardinality({"active"} \cup {"backup"}) = Cardinality({"active"}) + 1
    BY <2>1, FS_AddElement
  <2>3. {"active"} \cup {"backup"} = {"active", "backup"}
    OBVIOUS
  <2> QED
    BY <2>1, <2>2, <2>3
<1>2. /\ Cardinality({}) = 0 /\ Cardinality({"switch"}) = 1
      /\ Cardinality({"active"}) = 1 /\ Cardinality({"backup"}) = 1
  BY FS_EmptySet, FS_Singleton
<1>3. ListedDevices(k, R) = IF k \notin R THEN {}
                            ELSE IF Cardinality(there) > 1 THEN {"backup"} ELSE there
  BY DEF ListedDevices
<1>4. CASE k = "sw"
  <2>1. there \in {{}, {"switch"}}
    BY <1>4 DEF RackDevices, Kindred
  <2>2. Cardinality(there) \in {0, 1}
    <3> HIDE DEF there
    <3> QED
      BY <1>2, <2>1
  <2> QED
    BY <1>3, <1>4, <2>2 DEF RackDevices, Kindred
<1>5. CASE k = "fw"
  <2>1. there = {"active", "backup"} \/ there = {"active"} \/ there = {"backup"} \/ there = {}
    BY <1>5 DEF RackDevices, Kindred
  <2>2. CASE there = {"active", "backup"}
    <3>1. Cardinality(there) > 1 /\ place["backup"] # Unregistered
      BY <1>1, <2>2
    <3> QED
      BY <1>3, <1>5, <2>2, <3>1 DEF RackDevices, Kindred
  <2>3. CASE there \in {{"active"}, {"backup"}, {}}
    <3>1. Cardinality(there) \in {0, 1}
      <4> HIDE DEF there
      <4> QED
        BY <1>2, <2>3
    <3>2. "active" \in there => "backup" \notin there
      BY <2>3
    <3>3. "active" \in there => place["backup"] = Unregistered
      BY <1>5, <3>2 DEF RackDevices, Kindred
    <3> QED
      BY <1>3, <1>5, <3>1, <3>3 DEF RackDevices, Kindred
  <2> QED
    BY <2>1, <2>2, <2>3
<1> QED
  BY <1>4, <1>5 DEF Sorts

LEMMA RoomInitial == RoomInit => RoomIInv
<1> SUFFICES ASSUME RoomInit PROVE RoomIInv
  OBVIOUS
<1>1. 1 \in Unregistered..Units /\ Unregistered \in Unregistered..Units
  BY RoomAssumption DEF Unregistered
<1>2. place \in [RackDevices -> Unregistered..Units]
  BY <1>1 DEF RoomInit
<1>3. \A i \in ItemIds : items[i] = {}
  BY DEF RoomInit
<1>4. NoSave \in Saves /\ NoSave.at = "idle"
  BY DEF NoSave, Saves
<1>5. RoomIsTyped
  <2>1. DOMAIN layout = {} /\ todo = {} /\ restoring = FALSE
    BY DEF RoomInit
  <2>2. RoomTypeOK
    BY <1>2, <1>3, <2>1 DEF RoomTypeOK
  <2>3. born \in [RackDevices -> Nat \ {0}]
    BY DEF RoomInit
  <2>4. items \in [ItemIds -> SUBSET (1..Units)] /\ saving \in [Editors -> Saves]
    BY <1>4 DEF RoomInit
  <2> QED
    BY <2>1, <2>2, <2>3, <2>4 DEF RoomIsTyped
<1>6. UpdatesAreNeeded /\ NoneIsForgotten
  BY DEF RoomInit, UpdatesAreNeeded, NoneIsForgotten
<1>7. ItemsOverlapOnlyByRace
  BY <1>3 DEF ItemsOverlapOnlyByRace
<1>8. LaterItemsAreKnown
  BY <1>4 DEF RoomInit, LaterItemsAreKnown
<1> QED
  BY <1>5, <1>6, <1>7, <1>8 DEF RoomIInv

\* What a user changes is in "handled".
LEMMA ChangeKeeps ==
    ASSUME RoomIInv, NEW d \in RackDevices, NEW where \in Unregistered..Units, NEW row \in Nat \ {0},
           row \in {born[d], born[d] + 1}, Change(d, where, row)
    PROVE  RoomIInv' /\ \A x \in RackDevices : place'[x] # place[x] => x \in handled'
<1>1. /\ \A x \in RackDevices : place'[x] = (IF x = d THEN where ELSE place[x])
                             /\ born'[x] = (IF x = d THEN row ELSE born[x])
      /\ place' \in [RackDevices -> Unregistered..Units] /\ born' \in [RackDevices -> Nat \ {0}]
      /\ handled' = handled \cup {d}
      /\ layout' = layout /\ todo' = todo /\ restoring' = restoring /\ items' = items
      /\ saving' = saving /\ together' = together
  BY DEF Change, RoomIInv, RoomIsTyped, RoomTypeOK
<1>2. RoomIsTyped'
  <2>1. \A x \in RackDevices : born[x] \in Nat /\ born'[x] \in Nat /\ born[x] <= born'[x]
    BY <1>1 DEF RoomIInv, RoomIsTyped
  <2>2. \A e \in todo : e.device \in RackDevices /\ e.row \in 1..born[e.device] /\ Racked(e.unit)
    BY DEF RoomIInv, RoomIsTyped, RoomTypeOK, RestoreEntries
  <2>3. \A e \in todo' : e.row \in 1..born'[e.device] /\ Racked(e.unit)
    BY <1>1, <2>1, <2>2
  <2> QED
    BY <1>1, <2>3 DEF RoomIInv, RoomIsTyped, RoomTypeOK, Racked
<1>3. ItemsOverlapOnlyByRace' /\ LaterItemsAreKnown'
  BY <1>1 DEF RoomIInv, ItemsOverlapOnlyByRace, LaterItemsAreKnown
<1>4. UpdatesAreNeeded'
  <2>1. \A e \in todo : e.device \in RackDevices
    BY DEF RoomIInv, RoomIsTyped, RestoreEntries
  <2> QED
    BY <1>1, <2>1 DEF RoomIInv, UpdatesAreNeeded, Racked
<1>5. NoneIsForgotten'
  <2> SUFFICES ASSUME restoring, NEW k \in DOMAIN layout, NEW x \in ListedDevices(k, Sorts)',
                      ~\E y \in RackDevices : Kindred(y) = k /\ y \in handled'
               PROVE  Racked(place'[x]) \/ \E e \in todo : e.device = x /\ e.row = born'[x]
    BY <1>1 DEF NoneIsForgotten
  <2>1. k \in Sorts /\ Sorts \in SUBSET Sorts
    BY DEF RoomIInv, RoomIsTyped, RoomTypeOK, Sorts
  <2>2. Kindred(d) # k
    BY <1>1
  <2>3. ListedDevices(k, Sorts)' =
               {y \in RackDevices :
                   /\ k \in Sorts /\ Kindred(y) = k /\ place'[y] # Unregistered
                   /\ y = "active" => place'["backup"] = Unregistered}
    BY <1>1, <2>1, <2>2, ListedIs DEF ListedDevices, RackDevices, Kindred
  <2>4. x \in RackDevices /\ Kindred(x) = k /\ place[x] # Unregistered /\ x # d
        /\ (x = "active" => place["backup"] = Unregistered)
    BY <1>1, <2>1, <2>2, <2>3 DEF RackDevices, Kindred
  <2>5. x \in ListedDevices(k, Sorts)
    BY <2>1, <2>4, ListedIs
  <2> QED
    BY <1>1, <2>4, <2>5 DEF RoomIInv, NoneIsForgotten
<1> QED
  BY <1>1, <1>2, <1>3, <1>4, <1>5 DEF RoomIInv

LEMMA SaveLayoutKeeps ==
    ASSUME RoomIInv, NEW readable \in SUBSET Sorts, SaveLayout(readable)
    PROVE  RoomIInv'
<1>1. /\ UNCHANGED <<place, born, todo, restoring, items, saving, handled, together>>
      /\ DOMAIN layout' = {k \in readable : \E d \in ListedDevices(k, readable) : Racked(place[d])}
      /\ \A k \in DOMAIN layout' :
            layout'[k] = place[CHOOSE d \in ListedDevices(k, readable) : TRUE]
  BY DEF SaveLayout
<1>2. ASSUME NEW k \in DOMAIN layout'
      PROVE  k \in Sorts /\ \A d \in ListedDevices(k, Sorts) :
                                Racked(place[d]) /\ layout'[k] = place[d]
  <2>1. k \in readable /\ k \in Sorts /\ Sorts \in SUBSET Sorts
    BY <1>1
  <2>2. ListedDevices(k, readable) = ListedDevices(k, Sorts)
    BY <2>1, ListedIs
  <2>3. PICK d \in ListedDevices(k, readable) : Racked(place[d])
    BY <1>1
  <2>4. \A o \in ListedDevices(k, readable) : o = d
    <3>1. \A o \in ListedDevices(k, readable) :
             /\ o \in RackDevices /\ Kindred(o) = k /\ place[o] # Unregistered
             /\ o = "active" => place["backup"] = Unregistered
      BY <2>1, ListedIs
    <3> QED
      BY <2>3, <3>1 DEF RackDevices, Kindred
  <2>5. (CHOOSE o \in ListedDevices(k, readable) : TRUE) = d
    BY <2>3, <2>4
  <2>6. layout'[k] = place[d]
    BY <1>1, <2>5
  <2> QED
    BY <2>1, <2>2, <2>3, <2>4, <2>6
<1>3. ASSUME NEW k \in DOMAIN layout'
      PROVE  Racked(layout'[k])
  <2>1. k \in readable /\ Sorts \in SUBSET Sorts
    BY <1>1
  <2>2. PICK d \in ListedDevices(k, readable) : Racked(place[d])
    BY <1>1
  <2>3. ListedDevices(k, readable) = ListedDevices(k, Sorts)
    BY <2>1, ListedIs
  <2> QED
    BY <1>2, <2>2, <2>3
<1>4. RoomIsTyped'
  BY <1>1, <1>2, <1>3 DEF RoomIInv, RoomIsTyped, RoomTypeOK, Sorts, Racked
<1>5. NoneIsForgotten'
  <2>1. \A k : ListedDevices(k, Sorts)' = ListedDevices(k, Sorts)
    BY <1>1 DEF ListedDevices
  <2> QED
    BY <1>1, <1>2, <2>1 DEF NoneIsForgotten, Racked
<1>6. ItemsOverlapOnlyByRace' /\ LaterItemsAreKnown' /\ UpdatesAreNeeded'
  BY <1>1 DEF RoomIInv, ItemsOverlapOnlyByRace, LaterItemsAreKnown, UpdatesAreNeeded, Racked
<1> QED
  BY <1>4, <1>5, <1>6 DEF RoomIInv

LEMMA RestoreReadsKeeps ==
    ASSUME RoomIInv, NEW readable \in SUBSET Sorts, RestoreReads(readable)
    PROVE  RoomIInv'
<1>1. /\ UNCHANGED <<place, born, layout, items, saving, together>>
      /\ restoring' = TRUE /\ todo' = Entries(readable)
      /\ handled' = UNION {{d \in RackDevices : Kindred(d) = k} : k \in Sorts \ readable}
  BY DEF RestoreReads, Sorts
<1>2. Sorts \in SUBSET Sorts /\ DOMAIN layout \subseteq Sorts
      /\ \A k \in DOMAIN layout : Racked(layout[k])
  BY DEF RoomIInv, RoomIsTyped, RoomTypeOK, Sorts
<1>3. \A e \in todo' : \E k \in DOMAIN layout : \E d \in ListedDevices(k, readable) :
         ~Racked(place[d]) /\ e = [device |-> d, row |-> born[d], unit |-> layout[k]]
  BY <1>1 DEF Entries
<1>4. \A k \in DOMAIN layout : \A d \in ListedDevices(k, readable) :
         ~Racked(place[d]) => [device |-> d, row |-> born[d], unit |-> layout[k]] \in todo'
  BY <1>1 DEF Entries
<1>5. \A k \in DOMAIN layout : \A d \in ListedDevices(k, readable) :
         d \in RackDevices /\ Kindred(d) = k
  BY <1>2, ListedIs
<1>6. ASSUME NEW e \in todo'
      PROVE  \E k \in DOMAIN layout :
                /\ e.device \in ListedDevices(k, readable) /\ ~Racked(place[e.device])
                /\ e = [device |-> e.device, row |-> born[e.device], unit |-> layout[k]]
                /\ e.row = born[e.device] /\ e.unit = layout[k]
  BY <1>3
<1>7. RoomIsTyped'
  <2>1. \A e \in todo' : e.row \in 1..born[e.device] /\ Racked(e.unit) /\ e \in RestoreEntries
    <3> SUFFICES ASSUME NEW e \in todo'
                 PROVE  e.row \in 1..born[e.device] /\ Racked(e.unit) /\ e \in RestoreEntries
      OBVIOUS
    <3>1. PICK k \in DOMAIN layout :
                /\ e.device \in ListedDevices(k, readable)
                /\ e = [device |-> e.device, row |-> born[e.device], unit |-> layout[k]]
                /\ e.row = born[e.device] /\ e.unit = layout[k]
      BY <1>6
    <3>2. e.device \in RackDevices /\ born[e.device] \in Nat \ {0} /\ layout[k] \in 1..Units
      BY <1>2, <1>5, <3>1 DEF RoomIInv, RoomIsTyped, Racked
    <3> QED
      BY <3>1, <3>2 DEF RestoreEntries, Racked
  <2> QED
    BY <1>1, <2>1 DEF RoomIInv, RoomIsTyped, RoomTypeOK, Racked
<1>8. UpdatesAreNeeded'
  <2>1. \A e \in todo' : ~Racked(place[e.device])
    BY <1>6
  <2>2. ASSUME NEW e \in todo', NEW o \in todo', e.device = o.device
        PROVE  e = o
    <3>1. PICK k \in DOMAIN layout :
                /\ e.device \in ListedDevices(k, readable)
                /\ e = [device |-> e.device, row |-> born[e.device], unit |-> layout[k]]
      BY <1>6
    <3>2. PICK j \in DOMAIN layout :
                /\ o.device \in ListedDevices(j, readable)
                /\ o = [device |-> o.device, row |-> born[o.device], unit |-> layout[j]]
      BY <1>6
    <3>3. k = j
      BY <1>5, <2>2, <3>1, <3>2
    <3> QED
      BY <2>2, <3>1, <3>2, <3>3
  <2> QED
    BY <1>1, <2>1, <2>2 DEF UpdatesAreNeeded, Racked
<1>9. NoneIsForgotten'
  <2>1. \A k : ListedDevices(k, Sorts)' = ListedDevices(k, Sorts)
    BY <1>1 DEF ListedDevices
  <2> SUFFICES ASSUME NEW k \in DOMAIN layout, NEW d \in ListedDevices(k, Sorts)
               PROVE  \/ \E x \in RackDevices : Kindred(x) = k /\ x \in handled'
                      \/ Racked(place[d])
                      \/ \E e \in todo' : e.device = d /\ e.row = born[d]
    BY <1>1, <2>1 DEF NoneIsForgotten, Racked
  <2>2. CASE k \in readable
    <3>1. ListedDevices(k, readable) = ListedDevices(k, Sorts)
      BY <1>2, <2>2, ListedIs
    <3>2. ~Racked(place[d]) => [device |-> d, row |-> born[d], unit |-> layout[k]] \in todo'
      BY <1>4, <3>1
    <3> QED
      BY <3>2
  <2>3. CASE k \notin readable
    <3>1. d \in RackDevices /\ Kindred(d) = k /\ k \in Sorts
      BY <1>2, ListedIs
    <3> QED
      BY <1>1, <2>3, <3>1
  <2> QED
    BY <2>2, <2>3
<1>10. ItemsOverlapOnlyByRace' /\ LaterItemsAreKnown'
  BY <1>1 DEF RoomIInv, ItemsOverlapOnlyByRace, LaterItemsAreKnown
<1> QED
  BY <1>7, <1>8, <1>9, <1>10 DEF RoomIInv

\* A restore writes the unit of a device that is in no rack, if it is still the
\* row that was read, and whoever it writes was not forgotten.
LEMMA RestoreKeeps ==
    ASSUME RoomIInv, RestoreWrites \/ RestoreSkips \/ RestoreEnds
    PROVE  /\ RoomIInv'
           /\ \A d \in RackDevices : Racked(place[d]) /\ place'[d] # place[d] => d \in handled'
           /\ restoring /\ ~restoring' =>
                \A k \in DOMAIN layout : \A d \in ListedDevices(k, Sorts) :
                    (\A x \in RackDevices : Kindred(x) = k => x \notin handled) => Racked(place[d])
<1>1. CASE RestoreEnds
  BY <1>1 DEF RestoreEnds, RoomIInv, RoomIsTyped, RoomTypeOK, ItemsOverlapOnlyByRace,
              LaterItemsAreKnown, UpdatesAreNeeded, NoneIsForgotten, Racked
<1>2. ASSUME NEW e \in todo, RestoreWrites \/ RestoreSkips, todo' = todo \ {e},
             UNCHANGED <<born, layout, restoring, items, saving, together>>,
             \/ /\ place' = IF place[e.device] # Unregistered /\ born[e.device] = e.row
                            THEN [place EXCEPT ![e.device] = e.unit] ELSE place
                /\ handled' = handled
             \/ place' = place /\ handled' = handled \cup {e.device}
      PROVE  /\ RoomIInv'
             /\ \A d \in RackDevices : Racked(place[d]) /\ place'[d] # place[d] => d \in handled'
  <2>1. e.device \in RackDevices /\ e.row \in 1..born[e.device] /\ e.unit \in 1..Units /\ Racked(e.unit)
    BY DEF RoomIInv, RoomIsTyped, RoomTypeOK, RestoreEntries, Racked
  <2>2. \A d \in RackDevices :
           /\ d # e.device => place'[d] = place[d]
           /\ (place'[d] = Unregistered) = (place[d] = Unregistered)
           /\ Racked(place[d]) => Racked(place'[d])
    BY <1>2, <2>1 DEF RoomIInv, RoomIsTyped, RoomTypeOK, Racked, Unregistered
  <2>3. e.unit \in Unregistered..Units
    BY <2>1, RoomAssumption DEF Unregistered
  <2>4. place' \in [RackDevices -> Unregistered..Units]
    BY <1>2, <2>1, <2>3 DEF RoomIInv, RoomIsTyped, RoomTypeOK
  <2>5. RoomIsTyped'
    BY <1>2, <2>4 DEF RoomIInv, RoomIsTyped, RoomTypeOK, Racked
  <2>6. UpdatesAreNeeded'
    <3>1. \A o \in todo' : o \in todo /\ o.device \in RackDevices /\ o.device # e.device
      BY <1>2 DEF RoomIInv, UpdatesAreNeeded, RoomIsTyped, RestoreEntries
    <3>2. \A o \in todo' : Racked(place'[o.device]) => o.device \in handled'
      BY <1>2, <2>2, <3>1 DEF RoomIInv, UpdatesAreNeeded
    <3> QED
      BY <3>1, <3>2 DEF RoomIInv, UpdatesAreNeeded, Racked
  <2>7. NoneIsForgotten'
    <3> SUFFICES ASSUME restoring, NEW k \in DOMAIN layout, NEW d \in ListedDevices(k, Sorts)',
                        ~\E x \in RackDevices : Kindred(x) = k /\ x \in handled'
                 PROVE  Racked(place'[d]) \/ \E o \in todo' : o.device = d /\ o.row = born[d]
      BY <1>2 DEF NoneIsForgotten, Racked
    <3>1. k \in Sorts /\ Sorts \in SUBSET Sorts
      BY DEF RoomIInv, RoomIsTyped, RoomTypeOK, Sorts
    <3>2. ListedDevices(k, Sorts)' = ListedDevices(k, Sorts)
      <4>1. {x \in RackDevices : Kindred(x) = k /\ place'[x] # Unregistered}
              = {x \in RackDevices : Kindred(x) = k /\ place[x] # Unregistered}
        BY <2>2
      <4> QED
        BY <4>1 DEF ListedDevices
    <3>3. d \in RackDevices /\ Kindred(d) = k /\ place[d] # Unregistered
      BY <3>1, <3>2, ListedIs
    <3>4. Racked(place[d]) \/ \E o \in todo : o.device = d /\ o.row = born[d]
      BY <1>2, <3>2 DEF RoomIInv, NoneIsForgotten
    <3>5. CASE Racked(place[d])
      BY <2>2, <3>3, <3>5
    <3>6. ASSUME NEW o \in todo, o.device = d, o.row = born[d] PROVE Racked(place'[d]) \/ o \in todo'
      BY <1>2, <2>1, <3>3, <3>6 DEF RoomIInv, RoomIsTyped, RoomTypeOK
    <3> QED
      BY <3>4, <3>5, <3>6
  <2>8. ItemsOverlapOnlyByRace' /\ LaterItemsAreKnown'
    BY <1>2 DEF RoomIInv, ItemsOverlapOnlyByRace, LaterItemsAreKnown
  <2>9. \A d \in RackDevices : Racked(place[d]) /\ place'[d] # place[d] => d \in handled'
    BY <1>2, <2>2 DEF RoomIInv, UpdatesAreNeeded
  <2> QED
    BY <2>5, <2>6, <2>7, <2>8, <2>9 DEF RoomIInv
<1>3. CASE RestoreWrites
  <2>1. PICK e \in todo :
          /\ todo' = todo \ {e}
          /\ place' = IF place[e.device] # Unregistered /\ born[e.device] = e.row
                      THEN [place EXCEPT ![e.device] = e.unit] ELSE place
          /\ UNCHANGED <<born, layout, restoring, items, saving, handled, together>>
    BY <1>3 DEF RestoreWrites
  <2>2. UNCHANGED <<born, layout, restoring, items, saving, together>> /\ handled' = handled
    BY <2>1
  <2> QED
    BY ONLY <1>2, <1>3, <2>1, <2>2
<1>4. CASE RestoreSkips
  <2>1. PICK e \in todo :
          /\ todo' = todo \ {e} /\ handled' = handled \cup {e.device}
          /\ UNCHANGED <<place, born, layout, restoring, items, saving, together>>
    BY <1>4 DEF RestoreSkips
  <2>2. UNCHANGED <<born, layout, restoring, items, saving, together>> /\ place' = place
    BY <2>1
  <2> QED
    BY ONLY <1>2, <1>4, <2>1, <2>2
<1>5. restoring /\ ~restoring' => RestoreEnds
  BY DEF RestoreWrites, RestoreSkips
<1>6. RestoreEnds => todo = {} /\ restoring /\ place' = place
  BY DEF RestoreEnds
<1>7. restoring /\ todo = {} =>
        \A k \in DOMAIN layout : \A d \in ListedDevices(k, Sorts) :
            (\A x \in RackDevices : Kindred(x) = k => x \notin handled) => Racked(place[d])
  BY DEF RoomIInv, NoneIsForgotten
<1> QED
  BY <1>1, <1>3, <1>4, <1>5, <1>6, <1>7

-----------------------------------------------------------------------------
(* The items.                                                              *)

\* Everything but the items and the requests for them.
restOfRoom == <<place, born, layout, todo, restoring, handled>>

LEMMA RestIsKept ==
    ASSUME RoomIInv, UNCHANGED restOfRoom, items' \in [ItemIds -> SUBSET (1..Units)],
           saving' \in [Editors -> Saves]
    PROVE  RoomIsTyped' /\ UpdatesAreNeeded' /\ NoneIsForgotten'
<1>1. UNCHANGED <<place, born, layout, todo, restoring, handled>>
  BY DEF restOfRoom
<1>2. RoomIsTyped'
  BY <1>1 DEF RoomIInv, RoomIsTyped, RoomTypeOK, Racked
<1>3. UpdatesAreNeeded'
  BY <1>1 DEF RoomIInv, UpdatesAreNeeded, Racked
<1>4. NoneIsForgotten'
  <2>1. \A k : ListedDevices(k, Sorts)' = ListedDevices(k, Sorts)
    BY <1>1 DEF ListedDevices
  <2> QED
    BY <1>1, <2>1 DEF RoomIInv, NoneIsForgotten, Racked
<1> QED
  BY <1>2, <1>3, <1>4

LEMMA ItemIsCheckedKeeps ==
    ASSUME RoomIInv, NEW e \in Editors, ItemIsChecked(e)
    PROVE  RoomIInv'
<1>1. PICK span \in Spans, id \in {0} \cup {i \in ItemIds : items[i] # {}}, readable \in SUBSET {"sw", "fw"} :
         /\ span \cap OccupiedUnits(readable, id) = {}
         /\ saving' = [saving EXCEPT ![e] = [at |-> "checked", id |-> id, units |-> span, since |-> {}]]
  BY DEF ItemIsChecked
<1> DEFINE s == [at |-> "checked", id |-> id, units |-> span, since |-> {}]
<1>2. span \in SUBSET (1..Units)
  BY RoomAssumption DEF Spans
<1>3. s \in Saves /\ s.id = id /\ s.units = span /\ s.at = "checked"
  BY <1>2 DEF Saves
<1>4. \A j \in ItemIds \ {id} : items[j] \cap span = {}
  BY <1>1 DEF OccupiedUnits
<1>5. UNCHANGED restOfRoom /\ items' = items /\ together' = together
  BY DEF ItemIsChecked, restOfRoom
<1>6. saving' = [saving EXCEPT ![e] = s]
  BY <1>1
<1> HIDE DEF s
<1>7. \A o \in Editors : saving'[o] = IF o = e THEN s ELSE saving[o]
  BY <1>6 DEF RoomIInv, RoomIsTyped
<1>8. saving' \in [Editors -> Saves] /\ items' \in [ItemIds -> SUBSET (1..Units)]
  BY <1>3, <1>5, <1>6 DEF RoomIInv, RoomIsTyped
<1>9. LaterItemsAreKnown'
  BY <1>3, <1>4, <1>5, <1>7 DEF RoomIInv, LaterItemsAreKnown
<1>10. ItemsOverlapOnlyByRace'
  BY <1>5 DEF RoomIInv, ItemsOverlapOnlyByRace
<1> QED
  BY <1>5, <1>8, <1>9, <1>10, RestIsKept DEF RoomIInv

LEMMA ItemIsWrittenKeeps ==
    ASSUME RoomIInv, NEW e \in Editors, ItemIsWritten(e)
    PROVE  RoomIInv'
<1> DEFINE Free(i) == /\ saving[e].id = 0 \/ items[i] # {}
                      /\ \A j \in ItemIds \ {i} :
                            items[j] # {} => FirstUnit(items[j]) # FirstUnit(saving[e].units)
<1>1. PICK i \in ItemIds :
         /\ IF saving[e].id = 0 THEN items[i] = {} ELSE i = saving[e].id
         /\ items' = IF Free(i) THEN [items EXCEPT ![i] = saving[e].units] ELSE items
         /\ together' = IF Free(i) THEN together \cup {{i, j} : j \in saving[e].since} ELSE together
         /\ saving' = [o \in Editors |->
                         IF o = e THEN NoSave
                         ELSE IF saving[o].at = "checked" /\ Free(i)
                              THEN [saving[o] EXCEPT !.since = @ \cup {i}]
                              ELSE saving[o]]
  BY DEF ItemIsWritten
<1>2. saving[e].at = "checked" /\ UNCHANGED restOfRoom
  BY DEF ItemIsWritten, restOfRoom
<1>3. /\ \A o \in Editors : /\ saving[o] \in Saves /\ saving[o].units \in SUBSET (1..Units)
                            /\ saving[o].since \in SUBSET ItemIds
                            /\ saving[o].id \in ItemIds \cup {0} /\ saving[o].at \in {"idle", "checked"}
      /\ NoSave \in Saves /\ NoSave.at = "idle" /\ 0 \notin ItemIds
  BY RoomAssumption DEF RoomIInv, RoomIsTyped, Saves, NoSave
<1>4. \A o \in Editors :
         LET more == [saving[o] EXCEPT !.since = @ \cup {i}]
         IN  /\ more \in Saves /\ more.at = saving[o].at /\ more.id = saving[o].id
             /\ more.units = saving[o].units /\ more.since = saving[o].since \cup {i}
  BY <1>3 DEF RoomIInv, RoomIsTyped, Saves
<1>5. saving' \in [Editors -> Saves]
  BY <1>1, <1>3, <1>4
<1>6. \A o \in Editors : saving'[o].at = "checked" =>
         /\ o # e /\ saving[o].at = "checked" /\ saving'[o].id = saving[o].id
         /\ saving'[o].units = saving[o].units
         /\ saving'[o].since = IF Free(i) THEN saving[o].since \cup {i} ELSE saving[o].since
  BY <1>1, <1>3, <1>4
<1>7. /\ items' \in [ItemIds -> SUBSET (1..Units)]
      /\ \A j \in ItemIds \ {i} : items'[j] = items[j]
      /\ Free(i) => items'[i] = saving[e].units
      /\ ~Free(i) => items' = items
  BY <1>1, <1>3 DEF RoomIInv, RoomIsTyped
<1>8. LaterItemsAreKnown'
  <2>1. ASSUME NEW o \in Editors, saving'[o].at = "checked", NEW j \in ItemIds \ {saving'[o].id},
               items'[j] \cap saving'[o].units # {}
        PROVE  j \in saving'[o].since
    <3>1. j \in ItemIds \ {saving[o].id} /\ saving[o].at = "checked"
      BY <1>6, <2>1
    <3>2. CASE Free(i) /\ j = i
      BY <1>6, <2>1, <3>2
    <3>3. CASE ~(Free(i) /\ j = i)
      <4>1. items'[j] = items[j]
        BY <1>7, <3>1, <3>3
      <4>2. j \in saving[o].since
        BY <1>6, <2>1, <3>1, <4>1 DEF RoomIInv, LaterItemsAreKnown
      <4> QED
        BY <1>6, <2>1, <4>2
    <3> QED
      BY <3>2, <3>3
  <2> QED
    BY <2>1 DEF LaterItemsAreKnown
<1>9. ItemsOverlapOnlyByRace'
  <2>1. ASSUME Free(i), NEW j \in ItemIds \ {i}, items'[i] \cap items'[j] # {}
        PROVE  {i, j} \in together' /\ FirstUnit(items'[i]) # FirstUnit(items'[j])
    <3>1. items'[i] = saving[e].units /\ items'[j] = items[j] /\ items[j] # {}
      BY <1>7, <2>1
    <3>2. j # saving[e].id
      BY <1>1, <1>3
    <3>3. j \in saving[e].since
      BY <1>2, <2>1, <3>1, <3>2 DEF RoomIInv, LaterItemsAreKnown
    <3>4. {i, j} \in together'
      BY <1>1, <2>1, <3>3
    <3> QED
      BY <2>1, <3>1, <3>4
  <2>2. \A j, k \in ItemIds \ {i} : j # k /\ items'[j] \cap items'[k] # {} =>
            {j, k} \in together' /\ FirstUnit(items'[j]) # FirstUnit(items'[k])
    BY <1>1, <1>7 DEF RoomIInv, ItemsOverlapOnlyByRace
  <2>3. CASE Free(i)
    <3> SUFFICES ASSUME NEW j \in ItemIds, NEW k \in ItemIds, j # k, items'[j] \cap items'[k] # {}
                 PROVE  {j, k} \in together' /\ FirstUnit(items'[j]) # FirstUnit(items'[k])
      BY DEF ItemsOverlapOnlyByRace
    <3>1. CASE j = i
      BY <2>1, <2>3, <3>1
    <3>2. CASE k = i
      <4>1. {i, j} \in together' /\ FirstUnit(items'[i]) # FirstUnit(items'[j])
        BY <2>1, <2>3, <3>2
      <4>2. {j, k} = {i, j}
        BY <3>2
      <4> QED
        BY <3>2, <4>1, <4>2
    <3>3. CASE j # i /\ k # i
      BY <2>2, <3>3
    <3> QED
      BY <3>1, <3>2, <3>3
  <2>4. CASE ~Free(i)
    <3>1. items' = items /\ together' = together
      BY <1>1, <1>7, <2>4
    <3> QED
      BY <3>1 DEF RoomIInv, ItemsOverlapOnlyByRace
  <2> QED
    BY <2>3, <2>4
<1> QED
  BY <1>2, <1>5, <1>7, <1>8, <1>9, RestIsKept DEF RoomIInv

LEMMA ItemIsDeletedKeeps ==
    ASSUME RoomIInv, NEW i \in ItemIds, ItemIsDeleted(i)
    PROVE  RoomIInv'
<1>1. /\ items' = [items EXCEPT ![i] = {}] /\ UNCHANGED restOfRoom
      /\ saving' = saving /\ together' = together
  BY DEF ItemIsDeleted, restOfRoom
<1>2. /\ items' \in [ItemIds -> SUBSET (1..Units)] /\ items'[i] = {}
      /\ \A j \in ItemIds : items'[j] # {} => items'[j] = items[j]
  BY <1>1 DEF RoomIInv, RoomIsTyped
<1>3. ItemsOverlapOnlyByRace'
  BY <1>1, <1>2 DEF RoomIInv, ItemsOverlapOnlyByRace
<1>4. LaterItemsAreKnown'
  BY <1>1, <1>2 DEF RoomIInv, LaterItemsAreKnown
<1>5. saving' \in [Editors -> Saves]
  BY <1>1 DEF RoomIInv, RoomIsTyped
<1> QED
  BY <1>1, <1>2, <1>3, <1>4, <1>5, RestIsKept DEF RoomIInv

LEMMA RoomStep ==
    RoomIInv /\ [RoomNext]_roomVars
      => /\ RoomIInv'
         /\ [\A d \in RackDevices :
                Racked(place[d]) /\ place'[d] # place[d] => d \in handled']_roomVars
         /\ [restoring /\ ~restoring' =>
               \A k \in DOMAIN layout : \A d \in ListedDevices(k, {"sw", "fw"}) :
                  (\A x \in RackDevices : Kindred(x) = k => x \notin handled)
                      => Racked(place[d])]_roomVars
<1> SUFFICES ASSUME RoomIInv, [RoomNext]_roomVars
             PROVE  /\ RoomIInv'
                    /\ \A d \in RackDevices :
                          Racked(place[d]) /\ place'[d] # place[d] => d \in handled'
                    /\ restoring /\ ~restoring' =>
                         \A k \in DOMAIN layout : \A d \in ListedDevices(k, Sorts) :
                            (\A x \in RackDevices : Kindred(x) = k => x \notin handled)
                                => Racked(place[d])
  BY DEF Sorts
<1>1. ASSUME NEW d \in RackDevices, NEW where \in Unregistered..Units, NEW row \in Nat \ {0},
             row \in {born[d], born[d] + 1}, Change(d, where, row)
      PROVE  /\ RoomIInv' /\ restoring' = restoring
             /\ \A x \in RackDevices : place'[x] # place[x] => x \in handled'
  BY <1>1, ChangeKeeps DEF Change
<1>2. \A d \in RackDevices : born[d] \in Nat \ {0} /\ born[d] + 1 \in Nat \ {0}
  BY DEF RoomIInv, RoomIsTyped
<1>3. Unregistered \in Unregistered..Units /\ NoPlace \in Unregistered..Units
      /\ \A w \in {Office, NoPlace} \cup 1..Units : w \in Unregistered..Units
  BY RoomAssumption DEF Unregistered, Office, NoPlace
<1>4. ASSUME NEW d \in RackDevices, NEW where \in {Office, NoPlace} \cup 1..Units, Locate(d, where)
      PROVE  /\ RoomIInv' /\ restoring' = restoring
             /\ \A x \in RackDevices : place'[x] # place[x] => x \in handled'
  BY <1>1, <1>2, <1>3, <1>4 DEF Locate
<1>5. ASSUME NEW d \in RackDevices, Unregister(d) \/ RegisterAnew(d)
      PROVE  /\ RoomIInv' /\ restoring' = restoring
             /\ \A x \in RackDevices : place'[x] # place[x] => x \in handled'
  BY <1>1, <1>2, <1>3, <1>5 DEF Unregister, RegisterAnew
<1>6. ASSUME NEW readable \in SUBSET {"sw", "fw"}, SaveLayout(readable) \/ RestoreReads(readable)
      PROVE  RoomIInv' /\ place' = place /\ (restoring => restoring')
  <2>1. readable \in SUBSET Sorts
    BY DEF Sorts
  <2>2. RoomIInv'
    BY <1>6, <2>1, SaveLayoutKeeps, RestoreReadsKeeps
  <2> QED
    BY <1>6, <2>2 DEF SaveLayout, RestoreReads
<1>7. CASE RestoreWrites \/ RestoreSkips \/ RestoreEnds
  BY <1>7, RestoreKeeps
<1>8. ASSUME NEW e \in Editors, ItemIsChecked(e) \/ ItemIsWritten(e)
      PROVE  RoomIInv' /\ place' = place /\ (restoring => restoring')
  <2>1. RoomIInv'
    BY <1>8, ItemIsCheckedKeeps, ItemIsWrittenKeeps
  <2> QED
    BY <1>8, <2>1 DEF ItemIsChecked, ItemIsWritten
<1>9. ASSUME NEW i \in ItemIds, ItemIsDeleted(i)
      PROVE  RoomIInv' /\ place' = place /\ (restoring => restoring')
  BY <1>9, ItemIsDeletedKeeps DEF ItemIsDeleted
<1>10. CASE UNCHANGED roomVars
  <2>1. UNCHANGED restOfRoom /\ items' = items /\ saving' = saving /\ together' = together
    BY <1>10 DEF roomVars, restOfRoom
  <2>2. RoomIsTyped' /\ UpdatesAreNeeded' /\ NoneIsForgotten'
    BY <2>1, RestIsKept DEF RoomIInv, RoomIsTyped
  <2>3. ItemsOverlapOnlyByRace' /\ LaterItemsAreKnown'
    BY <2>1 DEF RoomIInv, ItemsOverlapOnlyByRace, LaterItemsAreKnown
  <2> QED
    BY <2>1, <2>2, <2>3 DEF RoomIInv, restOfRoom
<1> QED
  BY <1>4, <1>5, <1>6, <1>7, <1>8, <1>9, <1>10 DEF RoomNext

-----------------------------------------------------------------------------
(* The types that the invariants leave out.                                *)

\* The collections of a switch are counted, and write into its tables only.
StoreCounts ==
    /\ collections \in 0..MaxCollections /\ recorded \in Nat
    /\ recorded + (IF work.at = 1 THEN 1 ELSE 0) <= collections
    /\ loose \subseteq LooseSet /\ late \subseteq LooseSet

LEMMA StoreCounted ==
    /\ StoreInit => StoreCounts
    /\ StoreIInv /\ StoreCounts /\ [StoreNext]_storeVars => StoreCounts'
    /\ StoreIInv /\ StoreCounts => StoreTypeOK
<1> USE StoreAssumption DEF StoreCounts
<1>1. StoreInit => StoreCounts
  BY DEF StoreInit, NoWork
<1>2. ASSUME StoreIInv, StoreCounts, [StoreNext]_storeVars PROVE StoreCounts'
  <2>1. work \in Works /\ work.at \in Nat
    BY <1>2 DEF StoreIInv, StoreTypes, Works
  <2>2. GiveUpCollect => work'.at = 0
    BY DEF GiveUpCollect, NoWork
  <2>3. CASE CollectBegin
    <3>1. PICK r \in Readings : work' = [NoWork EXCEPT !.at = 1, !.reading = r]
      BY <2>3 DEF CollectBegin
    <3>2. work'.at = 1 /\ work.at = 0
      BY <2>3, <3>1 DEF NoWork, CollectBegin
    <3> QED
      BY <1>2, <2>3, <3>2 DEF CollectBegin
  <2>4. CASE Detect
    <3>1. work.at = 1 /\ work'.at = 2
      BY <2>1, <2>4 DEF Detect, Works
    <3>2. recorded' = recorded \/ recorded' = recorded + 1
      BY <1>2, <2>4 DEF Detect
    <3> QED
      BY <1>2, <2>4, <3>1, <3>2 DEF Detect
  <2>5. CASE SaveSnapshot
    <3>1. work'.at \in {0, 3}
      BY <2>1, <2>2, <2>5 DEF SaveSnapshot, Works
    <3> QED
      BY <1>2, <2>5, <3>1 DEF SaveSnapshot
  <2>6. CASE SaveMacRows
    <3>1. work'.at \in {0, 4}
      BY <2>1, <2>2, <2>6 DEF SaveMacRows, Works
    <3> QED
      BY <1>2, <2>6, <3>1 DEF SaveMacRows
  <2>7. CASE SaveLoose
    <3>1. work.at - 3 \in DOMAIN LooseTables
      BY <2>1, <2>7 DEF SaveLoose, LooseTables
    <3>2. LooseTables[work.at - 3] \in LooseSet
      BY <3>1 DEF LooseSet
    <3>3. work'.at # 1 /\ work.at # 1
      BY <2>1, <2>2, <2>7 DEF SaveLoose, Works
    <3>4. loose' \subseteq LooseSet /\ late' \subseteq LooseSet
      BY <1>2, <2>7, <3>2 DEF SaveLoose
    <3>5. UNCHANGED <<recorded, collections>>
      BY <2>7 DEF SaveLoose
    <3> QED
      BY <1>2, <3>3, <3>4, <3>5
  <2>8. CASE CollectEnd
    BY <1>2, <2>8 DEF CollectEnd, NoWork
  <2>9. CASE DeleteSwitch
    BY <1>2, <2>9 DEF DeleteSwitch, PurgeChildren
  <2>10. CASE UNCHANGED storeVars
    BY <1>2, <2>10 DEF storeVars
  <2> QED
    BY <1>2, <2>3, <2>4, <2>5, <2>6, <2>7, <2>8, <2>9, <2>10 DEF StoreNext
<1>3. ASSUME StoreIInv, StoreCounts PROVE StoreTypeOK
  <2>1. StoreTypes /\ work.reading \in Readings
    BY <1>3 DEF StoreIInv, StoreTypes, Works
  <2>2. recorded \in 0..MaxCollections
    BY <1>3
  <2> QED
    BY <1>3, <2>1, <2>2 DEF StoreTypes, StoreTypeOK, MacTables
<1> QED
  BY <1>1, <1>2, <1>3

\* Ids begin at 1 and the newest backup has the highest.
BackupsAreKnown ==
    /\ \A n \in 1..Len(backups) : backups[n].id >= 1
    /\ backups # <<>> => backups[Len(backups)].id = lastId

LEMMA BackupsKnown ==
    /\ BackupInit => BackupsAreKnown
    /\ BackupIInv /\ BackupsAreKnown /\ [BackupNext]_backupVars => BackupsAreKnown'
    /\ BackupIInv /\ BackupsAreKnown => BackupTypeOK
<1> USE BackupAssumption DEF BackupsAreKnown
<1>1. BackupInit => BackupsAreKnown
  BY DEF BackupInit, BackupFrom
<1>2. ASSUME BackupIInv, BackupsAreKnown, [BackupNext]_backupVars PROVE BackupsAreKnown'
  <2>1. backups \in Seq(Backups) /\ Len(backups) \in Nat /\ lastId \in Nat /\ running \in Contents
    BY <1>2 DEF BackupIInv, BackupsAreInOrder
  <2>2. CASE SaveBackup
    <3>1. PICK deleted \in BOOLEAN, id \in lastId + 1..lastId + 2 :
            LET all == Append(backups, [id |-> id, content |-> running])
            IN  IF Unlike(running)
                THEN lastId' = id /\ backups' = IF deleted THEN LastOnes(KeepBackups, all) ELSE all
                ELSE UNCHANGED <<backups, lastId>>
      BY <2>2 DEF SaveBackup
    <3>2. running' = running
      BY <2>2 DEF SaveBackup
    <3>3. CASE ~Unlike(running)
      BY <1>2, <3>1, <3>2, <3>3
    <3>4. CASE Unlike(running)
      <4> DEFINE row == [id |-> id, content |-> running]
                 all == Append(backups, row)
      <4>1. row \in Backups /\ row.id = id /\ row.content = running /\ id \in Nat /\ id >= 1
        BY <2>1 DEF Backups
      <4> HIDE DEF row
      <4>2. /\ all \in Seq(Backups) /\ Len(all) = Len(backups) + 1 /\ all[Len(all)] = row
            /\ \A n \in 1..Len(backups) : all[n] = backups[n]
        BY <2>1, <4>1
      <4> HIDE DEF all
      <4>3. \A n \in 1..Len(all) : all[n].id >= 1
        <5> TAKE n \in 1..Len(all)
        <5>1. n = Len(all) \/ n \in 1..Len(backups)
          BY <2>1, <4>2
        <5> QED
          BY <1>2, <4>1, <4>2, <5>1
      <4>4. lastId' = id /\ backups' \in {all, LastOnes(KeepBackups, all)}
        BY <3>1, <3>4 DEF all, row
      <4>5. CASE backups' = all
        BY <1>2, <2>1, <3>2, <4>1, <4>2, <4>3, <4>4, <4>5
      <4>6. CASE backups' = LastOnes(KeepBackups, all)
        <5> DEFINE r == LastOnes(KeepBackups, all)
                   off == IF Len(all) > KeepBackups THEN Len(all) - KeepBackups ELSE 0
        <5>1. /\ r \in Seq(Backups) /\ Len(r) = Len(all) - off /\ off \in 0..Len(all)
              /\ \A i \in 1..Len(r) : r[i] = all[i + off]
          BY <4>2, LastOnesFacts
        <5>2. off < Len(all) /\ Len(all) \in Nat
          BY <2>1, <4>2
        <5> HIDE DEF r, off
        <5>3. Len(r) \in Nat /\ Len(r) \in 1..Len(r) /\ Len(r) + off = Len(all)
          BY <5>1, <5>2
        <5>4. r[Len(r)] = row
          BY <4>2, <5>1, <5>3
        <5>5. \A i \in 1..Len(r) : i + off \in 1..Len(all)
          BY <5>1, <5>2, <5>3
        <5>6. \A i \in 1..Len(r) : r[i].id >= 1
          BY <4>3, <5>1, <5>5
        <5>7. backups' = r
          BY <4>6 DEF r
        <5> QED
          BY <1>2, <3>2, <4>1, <4>4, <5>4, <5>6, <5>7
      <4> QED
        BY <4>4, <4>5, <4>6
    <3> QED
      BY <3>3, <3>4
  <2>3. CASE Reconfigure \/ TellChange \/ LoseChange \/ UNCHANGED backupVars
    BY <1>2, <2>3 DEF Reconfigure, TellChange, LoseChange, backupVars
  <2> QED
    BY <1>2, <2>2, <2>3 DEF BackupNext
<1>3. ASSUME BackupIInv, BackupsAreKnown PROVE BackupTypeOK
  <2>1. /\ backups \in Seq(Backups) /\ Len(backups) \in Nat /\ lastId \in Nat
        /\ DOMAIN backups = 1..Len(backups) /\ telling \in {"idle", "change"}
        /\ \A n \in 1..Len(backups) : backups[n].id <= lastId
        /\ \A m, n \in 1..Len(backups) : m < n => backups[m].id < backups[n].id
    BY <1>3 DEF BackupIInv, BackupsAreInOrder
  <2>2. \A n \in 1..Len(backups) : backups[n].id \in Nat /\ backups[n].content \in Contents
    <3> TAKE n \in 1..Len(backups)
    <3>1. backups[n] \in Backups
      BY ONLY <2>1
    <3> QED
      BY ONLY <3>1 DEF Backups
  <2>3. \A n \in DOMAIN backups : backups[n].id \in 1..lastId /\ backups[n].content \in Contents
    BY <1>3, <2>1, <2>2
  <2>4. \A n \in 1..(Len(backups) - 1) : n \in 1..Len(backups) /\ n + 1 \in 1..Len(backups) /\ n < n + 1
    BY <2>1
  <2>5. \A n \in 1..(Len(backups) - 1) : backups[n].id < backups[n + 1].id
    BY <2>1, <2>4
  <2> QED
    BY <1>3, <2>1, <2>3, <2>5 DEF BackupTypeOK
<1> QED
  BY <1>1, <1>2, <1>3

\* The threads that hold a copy of the metrics.
Merging == {c \in Collecting : merge[c].of # "none"}

\* Each write belongs to a reading, and VPN and notes come over REST only.
ReadingsAreCounted ==
    /\ temps \in BOOLEAN /\ crossed \in BOOLEAN
    /\ \A f \in {"vpn", "notes"} :
          /\ metrics[f] \in {"rest", Nothing}
          /\ \A c \in Collecting : merge[c].copy[f] \in {"rest", Nothing}
    /\ \A c \in Collecting : merge[c].of \in {"none", "snmp", "extra"}
    /\ IsFiniteSet(Merging) /\ revision + Cardinality(Merging) <= gathered
    /\ gathered \in 0..MaxGathered

LEMMA ReadingsCounted ==
    /\ EnvInit => ReadingsAreCounted
    /\ CopiesAreOfTheirTime /\ ReadingsAreCounted /\ [EnvNext]_envVars => ReadingsAreCounted'
    /\ CopiesAreOfTheirTime /\ ReadingsAreCounted => EnvTypeOK
<1> USE GatheredAssumption DEF ReadingsAreCounted
<1>0. /\ NoMerge.of = "none" /\ \A f \in {"vpn", "notes"} : NoMerge.copy[f] = Nothing
      /\ "vpn" \in Fields /\ "notes" \in Fields /\ Nothing \notin Sources
  BY DEF NoMerge, Fields, Nothing, Sources
<1>1. EnvInit => ReadingsAreCounted
  <2> SUFFICES ASSUME EnvInit PROVE ReadingsAreCounted
      OBVIOUS
  <2>1. \A c \in Collecting : merge[c] = NoMerge
    BY DEF EnvInit
  <2>2. Merging = {}
    BY <1>0, <2>1 DEF Merging
  <2>3. IsFiniteSet(Merging) /\ Cardinality(Merging) = 0
    BY <2>2, FS_EmptySet
  <2>4. metrics["vpn"] = Nothing /\ metrics["notes"] = Nothing
    BY <1>0 DEF EnvInit
  <2>5. revision = 0 /\ gathered = 0 /\ temps = FALSE /\ crossed = FALSE
    BY DEF EnvInit
  <2>6. revision + Cardinality(Merging) <= gathered /\ gathered \in 0..MaxGathered
    BY <2>3, <2>5
  <2>7. \A c \in Collecting : /\ merge[c].of \in {"none", "snmp", "extra"}
                             /\ \A f \in {"vpn", "notes"} : merge[c].copy[f] \in {"rest", Nothing}
    BY <1>0, <2>1
  <2> HIDE DEF Nothing
  <2> QED
    BY <2>3, <2>4, <2>5, <2>6, <2>7
<1>2. ASSUME CopiesAreOfTheirTime, ReadingsAreCounted, [EnvNext]_envVars PROVE ReadingsAreCounted'
  <2>0. /\ revision \in Nat /\ DOMAIN merge = Collecting /\ metrics \in Rows
        /\ Cardinality(Merging) \in Nat /\ gathered \in Nat
    BY <1>2, FS_CardinalityType DEF CopiesAreOfTheirTime
  <2>1. CASE SaveTemps \/ UNCHANGED envVars
    <3>1. UNCHANGED <<metrics, merge, revision, crossed, gathered>> /\ temps' \in BOOLEAN
      BY <1>2, <2>1 DEF SaveTemps, RowWithTemps, envVars
    <3>2. Merging' = Merging
      BY <3>1 DEF Merging
    <3> QED
      BY <1>2, <3>1, <3>2
  <2>2. ASSUME NEW c \in Collecting, NEW of \in {"snmp", "extra"}, NEW read \in BOOLEAN,
               ReadMetrics(c, of, read)
        PROVE  ReadingsAreCounted'
    <3> DEFINE new == IF read THEN [of |-> of, copy |-> metrics, at |-> revision]
                      ELSE [NoMerge EXCEPT !.of = of, !.at = Unreadable]
    <3>1. /\ UNCHANGED <<temps, metrics, revision, crossed>> /\ merge' = [merge EXCEPT ![c] = new]
          /\ gathered' = gathered + 1 /\ gathered < MaxGathered /\ merge[c].of = "none"
      BY <2>2 DEF ReadMetrics
    <3>2. new.of = of /\ new.copy \in {metrics, NoMerge.copy}
      BY DEF NoMerge, Unreadable
    <3> HIDE DEF new
    <3>3. \A k \in Collecting : merge'[k] = IF k = c THEN new ELSE merge[k]
      BY <2>0, <3>1
    <3>4. Merging' = Merging \cup {c} /\ c \notin Merging
      BY <3>1, <3>2, <3>3 DEF Merging
    <3>5. IsFiniteSet(Merging') /\ Cardinality(Merging') = Cardinality(Merging) + 1
      BY <1>2, <3>4, FS_AddElement
    <3>6. revision' + Cardinality(Merging)' <= gathered' /\ gathered' \in 0..MaxGathered
      BY <1>2, <2>0, <3>1, <3>5
    <3>7. \A k \in Collecting : /\ merge'[k].of \in {"none", "snmp", "extra"}
                                /\ \A f \in {"vpn", "notes"} : merge'[k].copy[f] \in {"rest", Nothing}
      BY <1>0, <1>2, <3>2, <3>3
    <3> QED
      BY <1>2, <3>1, <3>5, <3>6, <3>7
  <2>3. ASSUME NEW c \in Collecting,
               \/ WriteSnmp(c)
               \/ \E r, i, s, n \in BOOLEAN : WriteExtra(c, r, i, s, n)
        PROVE  ReadingsAreCounted'
    <3>1. /\ revision' = revision + 1 /\ merge[c].of # "none" /\ merge' = [merge EXCEPT ![c] = NoMerge]
          /\ MergedFrom(merge[c].copy, metrics')
      BY <1>2, <2>3, WriteFacts
    <3>2. UNCHANGED <<temps, gathered>> /\ crossed' \in BOOLEAN
      BY <2>3 DEF WriteSnmp, WriteExtra, WriteMetrics
    <3>3. \A k \in Collecting : merge'[k] = IF k = c THEN NoMerge ELSE merge[k]
      BY <2>0, <3>1
    <3>4. Merging' = Merging \ {c} /\ c \in Merging
      BY <1>0, <3>1, <3>3 DEF Merging
    <3>5. IsFiniteSet(Merging') /\ Cardinality(Merging') = Cardinality(Merging) - 1
      BY <1>2, <3>4, FS_RemoveElement
    <3>6. revision' + Cardinality(Merging)' <= gathered'
      BY <1>2, <2>0, <3>1, <3>2, <3>5
    <3>7. merge[c].copy \in Rows /\ \A f \in {"vpn", "notes"} : merge[c].copy[f] \in {"rest", Nothing}
      BY <1>2 DEF CopiesAreOfTheirTime
    <3> DEFINE copy == merge[c].copy
               row == metrics'
    <3>8. /\ copy \in [Fields -> Sources \cup {Nothing}] /\ MergedFrom(copy, row)
          /\ \A f \in {"vpn", "notes"} : copy[f] \in {"rest", Nothing}
      BY <3>1, <3>7 DEF Rows
    <3> HIDE DEF copy, row
    <3>9. \A f \in {"vpn", "notes"} : row[f] \in {"rest", Nothing}
      <4>1. CASE row = SnmpMerged(copy)
        <5>1. row["vpn"] = copy["vpn"] /\ row["notes"] = copy["notes"]
          BY <3>8, <4>1 DEF SnmpMerged, Fields
        <5> QED
          BY <3>8, <5>1
      <4>2. ASSUME NEW rest \in BOOLEAN, NEW sys \in BOOLEAN, NEW ssh \in BOOLEAN, NEW noted \in BOOLEAN,
                   row = ExtraMerged(copy, rest, sys, ssh, noted)
            PROVE  \A f \in {"vpn", "notes"} : row[f] \in {"rest", Nothing}
        <5>1. /\ row["vpn"] = IF rest THEN "rest" ELSE copy["vpn"]
              /\ row["notes"] = IF noted THEN "rest" ELSE Nothing
          BY <4>2 DEF ExtraMerged
        <5> QED
          BY <3>8, <5>1
      <4> QED
        BY <3>8, <4>1, <4>2 DEF MergedFrom
    <3>10. \A k \in Collecting : /\ merge'[k].of \in {"none", "snmp", "extra"}
                                 /\ \A f \in {"vpn", "notes"} : merge'[k].copy[f] \in {"rest", Nothing}
      BY <1>0, <1>2, <3>3
    <3> QED
      BY <1>2, <3>2, <3>5, <3>6, <3>9, <3>10 DEF row
  <2> QED
    BY <1>2, <2>1, <2>2, <2>3 DEF EnvNext
<1>3. ASSUME CopiesAreOfTheirTime, ReadingsAreCounted PROVE EnvTypeOK
  <2>1. Cardinality(Merging) \in Nat /\ revision \in Nat /\ metrics \in Rows
    BY <1>3, FS_CardinalityType DEF CopiesAreOfTheirTime
  <2>2. revision \in 0..MaxGathered
    BY <1>3, <2>1
  <2> QED
    BY <1>3, <2>1, <2>2 DEF EnvTypeOK, Rows
<1> QED
  BY <1>1, <1>2, <1>3

-----------------------------------------------------------------------------
(* What a start does to the database.                                      *)

TableNames == {"firewalls", "firewalls_new", "firewalls_old", "interfaces", "arp",
          "interfaces_bak", "arp_bak"}
Kids == {"interfaces", "arp"}
TableType == [rows : SUBSET FirewallIds, cols : SUBSET TableColumns, unique : BOOLEAN,
              parent : {"none", "firewalls", "firewalls_old"}]
TableSets == UNION {[names -> TableType] : names \in SUBSET TableNames}
Database ==
    [tables : TableSets, times : [Dated -> SUBSET {"utc", "local", "twice"}], flag : BOOLEAN,
     status : [OwnedKinds -> {"ok", "collecting", "failed"}], vendor : {"alias", "canonical"}]

Early == {"tables", "columns"}
Repairing == {"repair", "create", "copy", "dropbak"}
Rebuilding == {"widen", "copynew", "drop", "rename"}
Late == {"times", "flag", "commit", "stale", "vendors", "ready"}
Points == {"down", "unique"} \cup Early \cup Repairing \cup Rebuilding \cup Late

StartTypes ==
    /\ disk \in Database /\ mem \in Database /\ tx \in BOOLEAN /\ pc \in Points
    /\ child \in 1..3 /\ crashes \in 0..MaxCrashes /\ unopened \subseteq {"stale", "vendors"}
    /\ owned \in [{"firewalls", "interfaces", "arp"} -> SUBSET FirewallIds]

\* The firewalls that were ever registered are in their table.
FirewallsIn(tables) ==
    /\ "firewalls" \in DOMAIN tables => owned["firewalls"] \subseteq tables["firewalls"].rows
    /\ owned["firewalls"] # {} => "firewalls" \in DOMAIN tables

\* The rows of a child are in it or in the copy of it; one that refers to
\* firewalls_old has not been copied, and firewalls_old is there.
KidIn(tables, c) ==
    /\ \A id \in owned[c] : \E t \in {c, Bak(c)} \cap DOMAIN tables : id \in tables[t].rows
    /\ c \in DOMAIN tables => tables[c].parent \in {"firewalls", "firewalls_old"}
    /\ c \in DOMAIN tables /\ tables[c].parent = "firewalls_old" =>
           "firewalls_old" \in DOMAIN tables /\ Bak(c) \notin DOMAIN tables

\* The flag tells which times there are.
TimesFit(db) == \A t \in Dated : db.times[t] \subseteq (IF db.flag THEN {"local"} ELSE {"utc"})

\* What any start may find.
DiskIsSound ==
    /\ FirewallsIn(disk.tables) /\ (\A c \in Kids : KidIn(disk.tables, c)) /\ TimesFit(disk)

\* The connection sees the same, but between two statements that one
\* transaction holds together.
MemIsSound ==
    /\ pc # "rename" => FirewallsIn(mem.tables)
    /\ \A c \in Kids : KidIn(mem.tables, c)
    /\ IF pc = "flag" THEN ~mem.flag /\ \A t \in Dated : mem.times[t] \subseteq {"local"}
       ELSE TimesFit(mem)

TransactionIsOpen ==
    /\ ~tx => mem = disk
    /\ pc \in {"drop", "rename", "flag"} => tx
    /\ pc \in {"down", "tables", "columns", "stale", "vendors", "ready"} => ~tx

\* The tables and columns there are, once they were made.
TablesAreMade ==
    pc \notin {"down", "tables"} =>
        /\ pc # "rename" => "firewalls" \in DOMAIN mem.tables
        /\ pc \notin {"columns", "rename"} => TableColumns \subseteq mem.tables["firewalls"].cols
        /\ \A c \in Kids : c \in DOMAIN mem.tables \/ (pc = "create" /\ c = Children[child])

\* The copying of the children: those before child refer to firewalls.
KidsAreRepaired ==
    /\ pc \in Early => child = 1
    /\ pc \in Repairing =>
           /\ "firewalls_old" \in DOMAIN mem.tables
           /\ \A j \in 1..2 : j < child => Children[j] \in DOMAIN mem.tables
                                          /\ mem.tables[Children[j]].parent = "firewalls"
           /\ pc # "repair" => child \in 1..2 /\ Bak(Children[child]) \in DOMAIN mem.tables
           /\ pc \in {"create", "copy"} =>
                  owned[Children[child]] \subseteq mem.tables[Bak(Children[child])].rows
           /\ pc = "create" => Children[child] \notin DOMAIN mem.tables
           /\ pc \in {"copy", "dropbak"} => mem.tables[Children[child]].parent = "firewalls"
           /\ pc = "dropbak" => owned[Children[child]] \subseteq mem.tables[Children[child]].rows

\* The rebuild of the table firewalls.
FirewallsAreRebuilt ==
    /\ pc \in {"unique"} \cup Rebuilding \cup Late =>
           /\ "firewalls_old" \notin DOMAIN mem.tables
           /\ \A c \in Kids : mem.tables[c].parent = "firewalls"
    /\ pc \in Rebuilding =>
           /\ "firewalls_new" \in DOMAIN mem.tables /\ ~mem.tables["firewalls_new"].unique
           /\ pc # "widen" => TableColumns \subseteq mem.tables["firewalls_new"].cols
           /\ pc \in {"drop", "rename"} =>
                  owned["firewalls"] \subseteq mem.tables["firewalls_new"].rows
    /\ pc \in Late => (mem.tables["firewalls"].unique => "firewalls_new" \in DOMAIN mem.tables)

\* The repairs at the end.
RepairsAreDone ==
    /\ pc \in {"commit", "stale", "vendors", "ready"} => mem.flag
    /\ pc = "vendors" /\ "stale" \notin unopened =>
           \A k \in OwnedKinds : mem.status[k] # "collecting"

\* No table is left over at the first start.
NothingIsLeftOver ==
    crashes = 0 =>
        DOMAIN mem.tables \subseteq
            {"firewalls", "interfaces", "arp"}
            \cup (IF pc \in {"down"} \cup Early \cup Repairing THEN {"firewalls_old"} ELSE {})
            \cup (IF pc \in {"create", "copy", "dropbak"} THEN {Bak(Children[child])} ELSE {})
            \cup (IF pc \in Rebuilding THEN {"firewalls_new"} ELSE {})

StartIInv ==
    /\ StartTypes /\ DiskIsSound /\ MemIsSound /\ TransactionIsOpen /\ TablesAreMade
    /\ KidsAreRepaired /\ FirewallsAreRebuilt /\ RepairsAreDone /\ NothingIsLeftOver

\* What a primary finds when it begins to work.
ReadyStep ==
    pc # "ready" /\ pc' = "ready" =>
         LET db == disk'
         IN  /\ "stale" \notin unopened' => \A k \in OwnedKinds : db.status[k] # "collecting"
             /\ "vendors" \notin unopened' => db.vendor = "canonical"
             /\ db.flag /\ "firewalls_old" \notin DOMAIN db.tables
             /\ \A c \in {"interfaces", "arp"} : db.tables[c].parent = "firewalls"
             /\ db.tables["firewalls"].unique => "firewalls_new" \in DOMAIN db.tables
             /\ crashes = 0 => DOMAIN db.tables = {"firewalls", "interfaces", "arp"}

\* The children by name.
LEMMA KidsNamed ==
    /\ Children[1] = "interfaces" /\ Children[2] = "arp" /\ Len(Children) = 2
    /\ Bak("interfaces") = "interfaces_bak" /\ Bak("arp") = "arp_bak"
BY DEF Children, Bak

\* A set of tables is a function on some of the names.
LEMMA TableSet ==
    ASSUME NEW T PROVE T \in TableSets <=>
        /\ DOMAIN T \subseteq TableNames /\ T \in [DOMAIN T -> TableType]
BY DEF TableSets

\* A statement that changes the tables changes nothing else.
LEMMA TablesEdited ==
    ASSUME mem \in Database, NEW T \in TableSets
    PROVE  /\ Tables(T) \in Database /\ Tables(T).tables = T
           /\ Tables(T).times = mem.times /\ Tables(T).flag = mem.flag
           /\ Tables(T).status = mem.status /\ Tables(T).vendor = mem.vendor
BY DEF Tables, Database

LEMMA NewTableType ==
    ASSUME NEW cols \in SUBSET TableColumns, NEW parent \in {"none", "firewalls", "firewalls_old"}
    PROVE  /\ NewTable(cols, parent) \in TableType
           /\ NewTable(cols, parent).rows = {} /\ NewTable(cols, parent).cols = cols
           /\ ~NewTable(cols, parent).unique /\ NewTable(cols, parent).parent = parent
BY DEF NewTable, TableType

\* A table is added to some tables, or replaces one of them.
LEMMA WithTable ==
    ASSUME NEW T \in TableSets, NEW name \in TableNames, NEW table \in TableType
    PROVE  /\ With(T, name, table) \in TableSets
           /\ DOMAIN With(T, name, table) = DOMAIN T \cup {name}
           /\ With(T, name, table)[name] = table
           /\ \A t \in DOMAIN T : t # name => With(T, name, table)[t] = T[t]
<1>1. DOMAIN T \subseteq TableNames /\ T \in [DOMAIN T -> TableType]
  BY TableSet
<1>2. With(T, name, table) \in [DOMAIN T \cup {name} -> TableType]
  BY <1>1 DEF With
<1> QED
  BY <1>1, <1>2, TableSet DEF With

\* A table is taken away.
LEMMA WithoutTable ==
    ASSUME mem \in Database, NEW name
    PROVE  /\ Without(name) \in TableSets
           /\ DOMAIN Without(name) = DOMAIN mem.tables \ {name}
           /\ \A t \in DOMAIN mem.tables : t # name => Without(name)[t] = mem.tables[t]
<1>1. DOMAIN mem.tables \subseteq TableNames /\ mem.tables \in [DOMAIN mem.tables -> TableType]
  BY TableSet DEF Database
<1>2. Without(name) = [t \in DOMAIN mem.tables \ {name} |-> mem.tables[t]]
  BY DEF Without, Restrict
<1>3. Without(name) \in [DOMAIN mem.tables \ {name} -> TableType]
  BY <1>1, <1>2
<1> QED
  BY <1>1, <1>2, <1>3, TableSet

\* The rows of a table are replaced.
LEMMA RowsEdited ==
    ASSUME NEW T \in TableSets, NEW name \in DOMAIN T, NEW ids \in SUBSET FirewallIds
    PROVE  /\ [T EXCEPT ![name].rows = ids] \in TableSets
           /\ DOMAIN [T EXCEPT ![name].rows = ids] = DOMAIN T
           /\ \A t \in DOMAIN T : t # name => [T EXCEPT ![name].rows = ids][t] = T[t]
           /\ [T EXCEPT ![name].rows = ids][name].rows = ids
           /\ [T EXCEPT ![name].rows = ids][name].cols = T[name].cols
           /\ [T EXCEPT ![name].rows = ids][name].unique = T[name].unique
           /\ [T EXCEPT ![name].rows = ids][name].parent = T[name].parent
<1>1. DOMAIN T \subseteq TableNames /\ T \in [DOMAIN T -> TableType] /\ T[name] \in TableType
  BY TableSet
<1>2. [T EXCEPT ![name].rows = ids] \in [DOMAIN T -> TableType]
  BY <1>1 DEF TableType
<1>3. [T EXCEPT ![name].rows = ids] \in TableSets
  BY <1>1, <1>2, TableSet
<1> QED
  BY <1>1, <1>3 DEF TableType

\* The columns of a table are replaced.
LEMMA ColumnsEdited ==
    ASSUME NEW T \in TableSets, NEW name \in DOMAIN T, NEW cols \in SUBSET TableColumns
    PROVE  /\ [T EXCEPT ![name].cols = cols] \in TableSets
           /\ DOMAIN [T EXCEPT ![name].cols = cols] = DOMAIN T
           /\ \A t \in DOMAIN T : t # name => [T EXCEPT ![name].cols = cols][t] = T[t]
           /\ [T EXCEPT ![name].cols = cols][name].cols = cols
           /\ [T EXCEPT ![name].cols = cols][name].rows = T[name].rows
           /\ [T EXCEPT ![name].cols = cols][name].unique = T[name].unique
           /\ [T EXCEPT ![name].cols = cols][name].parent = T[name].parent
<1>1. DOMAIN T \subseteq TableNames /\ T \in [DOMAIN T -> TableType] /\ T[name] \in TableType
  BY TableSet
<1>2. [T EXCEPT ![name].cols = cols] \in [DOMAIN T -> TableType]
  BY <1>1 DEF TableType
<1>3. [T EXCEPT ![name].cols = cols] \in TableSets
  BY <1>1, <1>2, TableSet
<1> QED
  BY <1>1, <1>3 DEF TableType

LEMMA KidFacts ==
    /\ Kids = {"interfaces", "arp"}
    /\ \A c \in Kids : Bak(c) \in {"interfaces_bak", "arp_bak"}
    /\ \A c, d \in Kids : Bak(c) = Bak(d) => c = d
    /\ \A i \in 1..2 : Children[i] \in Kids
    /\ \A i, j \in 1..2 : Children[i] = Children[j] => i = j
    /\ \A c \in Kids : \E i \in 1..2 : c = Children[i]
<1> USE KidsNamed DEF Kids
<1>1. \A i \in 1..2 : i = 1 \/ i = 2
  OBVIOUS
<1> QED
  BY <1>1

\* The tables as the connection sees them.
LEMMA StartTables ==
    ASSUME StartIInv
    PROVE  /\ mem \in Database /\ tx \in BOOLEAN
           /\ DOMAIN mem.tables \subseteq TableNames /\ mem.tables \in TableSets
           /\ \A t \in DOMAIN mem.tables : mem.tables[t] \in TableType
<1>1. mem \in Database /\ tx \in BOOLEAN /\ mem.tables \in TableSets
  BY DEF StartIInv, StartTypes, Database
<1> QED
  BY <1>1, TableSet

\* A statement that changes the tables, and what it does to the disk.
LEMMA TablesStated ==
    ASSUME StartIInv, NEW from, NEW to, NEW T \in TableSets, NEW writes \in BOOLEAN,
           Step(from, to, Tables(T), writes)
    PROVE  /\ pc = from /\ pc' = to /\ mem' \in Database /\ mem'.tables = T
           /\ mem'.times = mem.times /\ mem'.flag = mem.flag
           /\ mem'.status = mem.status /\ mem'.vendor = mem.vendor
           /\ tx' = (tx \/ writes) /\ disk' = (IF tx' THEN disk ELSE mem')
           /\ UNCHANGED <<owned, unopened, crashes>>
<1>1. mem \in Database /\ tx \in BOOLEAN
  BY StartTables
<1>2. /\ pc = from /\ pc' = to /\ mem' = Tables(T) /\ tx' = (tx \/ writes)
      /\ disk' = (IF tx' THEN disk ELSE mem') /\ UNCHANGED <<owned, unopened, crashes>>
  BY <1>1 DEF Step, Execute
<1>3. /\ Tables(T) \in Database /\ Tables(T).tables = T
      /\ Tables(T).times = mem.times /\ Tables(T).flag = mem.flag
      /\ Tables(T).status = mem.status /\ Tables(T).vendor = mem.vendor
  BY <1>1, TablesEdited
<1> QED
  BY <1>2, <1>3

\* The disk is sound after a statement: it holds what it held, or what the
\* connection sees.
LEMMA DiskStated ==
    ASSUME StartIInv, disk' = IF tx' THEN disk ELSE mem', UNCHANGED owned, MemIsSound',
           pc' \in {"rename", "flag"} => tx'
    PROVE  DiskIsSound'
<1>1. CASE tx'
  BY <1>1 DEF StartIInv, DiskIsSound, FirewallsIn, KidIn, TimesFit
<1>2. CASE ~tx'
  <2>1. disk' = mem' /\ pc' \notin {"rename", "flag"}
    BY <1>2
  <2> QED
    BY <2>1 DEF MemIsSound, DiskIsSound, FirewallsIn, KidIn, TimesFit
<1> QED
  BY <1>1, <1>2

\* The tables of an older version.
LEMMA OldTable ==
    ASSUME NEW unique \in BOOLEAN, NEW parent \in {"firewalls", "firewalls_old", "none"}
    PROVE  /\ DOMAIN Old(unique, parent) = {"firewalls", "interfaces", "arp"}
           /\ \A t \in {"firewalls", "interfaces", "arp"} :
                 /\ Old(unique, parent)[t] \in TableType
                 /\ Old(unique, parent)[t].rows = {1}
                 /\ t # "firewalls" => Old(unique, parent)[t].parent = parent
<1>1. ASSUME NEW t \in {"firewalls", "interfaces", "arp"}
      PROVE  Old(unique, parent)[t] =
                 [rows |-> {1}, cols |-> {}, unique |-> unique /\ t = "firewalls",
                  parent |-> IF t = "firewalls" THEN "none" ELSE parent]
  BY DEF Old
<1>2. DOMAIN Old(unique, parent) = {"firewalls", "interfaces", "arp"}
  BY DEF Old
<1>3. ASSUME NEW t \in {"firewalls", "interfaces", "arp"}
      PROVE  /\ Old(unique, parent)[t] \in TableType
             /\ Old(unique, parent)[t].rows = {1}
             /\ t # "firewalls" => Old(unique, parent)[t].parent = parent
  <2>1. {1} \in SUBSET FirewallIds /\ {} \in SUBSET TableColumns
    BY StartupAssumption
  <2>2. PICK u \in BOOLEAN : u = (unique /\ t = "firewalls")
    OBVIOUS
  <2>3. Old(unique, parent)[t] =
            [rows |-> {1}, cols |-> {}, unique |-> u,
             parent |-> IF t = "firewalls" THEN "none" ELSE parent]
    BY <1>1, <2>2
  <2> QED
    BY <2>1, <2>3 DEF TableType
<1> QED
  BY <1>2, <1>3

LEMMA StartInitial == StartupInit => StartIInv
<1> SUFFICES ASSUME NEW tables \in OldTables, StartupFrom(tables) PROVE StartIInv
    BY DEF StartupInit
<1> USE StartupAssumption
<1>1. /\ tables \in TableSets /\ DOMAIN tables \subseteq {"firewalls", "interfaces", "arp", "firewalls_old"}
      /\ tables # <<>> => {"firewalls", "interfaces", "arp"} \subseteq DOMAIN tables
      /\ \A t \in DOMAIN tables : tables[t].rows = {1}
      /\ \A c \in {"interfaces", "arp"} \cap DOMAIN tables :
            /\ tables[c].parent \in {"firewalls", "firewalls_old"}
            /\ tables[c].parent = "firewalls_old" => "firewalls_old" \in DOMAIN tables
  <2>1. CASE tables = <<>>
    <3>1. DOMAIN tables = {}
      BY <2>1
    <3>2. tables \in [{} -> TableType]
      BY <2>1
    <3>3. tables \in TableSets
      BY <3>1, <3>2, TableSet
    <3> QED
      BY <2>1, <3>1, <3>3
  <2>2. CASE tables = Old(TRUE, "firewalls")
    <3>1. /\ DOMAIN tables = {"firewalls", "interfaces", "arp"}
          /\ \A t \in {"firewalls", "interfaces", "arp"} :
                /\ tables[t] \in TableType /\ tables[t].rows = {1}
                /\ t # "firewalls" => tables[t].parent = "firewalls"
      BY <2>2, OldTable
    <3>2. tables \in [DOMAIN tables -> TableType]
      BY <2>2, <3>1 DEF Old
    <3>3. tables \in TableSets
      BY <3>1, <3>2, TableSet DEF TableNames
    <3> QED
      BY <3>1, <3>3
  <2>3. CASE tables = [t \in {"firewalls", "interfaces", "arp", "firewalls_old"} |->
                          IF t = "firewalls_old" THEN Old(FALSE, "none")["firewalls"]
                          ELSE Old(FALSE, "firewalls_old")[t]]
    <3>1. /\ Old(FALSE, "none")["firewalls"] \in TableType
          /\ Old(FALSE, "none")["firewalls"].rows = {1}
          /\ \A t \in {"firewalls", "interfaces", "arp"} :
                /\ Old(FALSE, "firewalls_old")[t] \in TableType
                /\ Old(FALSE, "firewalls_old")[t].rows = {1}
                /\ t # "firewalls" => Old(FALSE, "firewalls_old")[t].parent = "firewalls_old"
      BY OldTable
    <3>2. /\ DOMAIN tables = {"firewalls", "interfaces", "arp", "firewalls_old"}
          /\ tables["firewalls_old"] = Old(FALSE, "none")["firewalls"]
          /\ \A t \in {"firewalls", "interfaces", "arp"} : tables[t] = Old(FALSE, "firewalls_old")[t]
      BY <2>3
    <3>3. tables \in [DOMAIN tables -> TableType]
      BY <2>3, <3>1, <3>2
    <3>4. tables \in TableSets
      BY <3>2, <3>3, TableSet DEF TableNames
    <3> QED
      BY <3>1, <3>2, <3>4
  <2> QED
    BY <2>1, <2>2, <2>3 DEF OldTables
<1>2. /\ mem = disk /\ tx = FALSE /\ pc = "down" /\ child = 1 /\ unopened = {} /\ crashes = 0
      /\ disk = [tables |-> tables,
                 times |-> [t \in Dated |-> IF tables = <<>> THEN {} ELSE {"utc"}],
                 flag |-> FALSE, status |-> [k \in OwnedKinds |-> "ok"], vendor |-> "alias"]
      /\ owned = [t \in {"firewalls", "interfaces", "arp"} |-> IF tables = <<>> THEN {} ELSE {1}]
  BY DEF StartupFrom
<1>3. /\ disk \in Database /\ disk.tables = tables /\ ~disk.flag
      /\ \A t \in Dated : disk.times[t] \subseteq {"utc"}
  BY <1>1, <1>2 DEF Database
<1>4. \A t \in {"firewalls", "interfaces", "arp"} :
          owned[t] \subseteq {1} /\ (tables = <<>> => owned[t] = {})
  BY <1>2
<1>5. owned \in [{"firewalls", "interfaces", "arp"} -> SUBSET FirewallIds]
  BY <1>2
<1>6. StartTypes
  <2>1. 0 \in 0..MaxCrashes /\ 1 \in 1..3 /\ "down" \in Points
    BY DEF Points
  <2> QED
    BY <1>2, <1>3, <1>5, <2>1 DEF StartTypes
<1>7. FirewallsIn(disk.tables) /\ \A c \in Kids : KidIn(disk.tables, c)
  BY <1>1, <1>3, <1>4, KidFacts DEF FirewallsIn, KidIn, Kids
<1>8. TimesFit(disk)
  BY <1>3 DEF TimesFit
<1>9. DiskIsSound /\ MemIsSound
  BY <1>2, <1>7, <1>8 DEF DiskIsSound, MemIsSound
<1>10. TransactionIsOpen /\ TablesAreMade /\ KidsAreRepaired /\ FirewallsAreRebuilt /\ RepairsAreDone
  BY <1>2 DEF TransactionIsOpen, TablesAreMade, KidsAreRepaired, FirewallsAreRebuilt,
              RepairsAreDone, Repairing, Rebuilding, Late
<1>11. NothingIsLeftOver
  BY <1>1, <1>2, <1>3 DEF NothingIsLeftOver, Repairing, Rebuilding, Early
<1> QED
  BY <1>6, <1>9, <1>10, <1>11 DEF StartIInv

LEMMA CreateTablesKeeps ==
    ASSUME StartIInv, CreateTables PROVE StartIInv'
<1> USE StartupAssumption DEF Points, Early, Repairing, Rebuilding, Late
<1>t. /\ StartTypes /\ DiskIsSound /\ MemIsSound /\ TransactionIsOpen /\ TablesAreMade
      /\ KidsAreRepaired /\ FirewallsAreRebuilt /\ RepairsAreDone /\ NothingIsLeftOver
  BY DEF StartIInv
<1>a. mem \in Database /\ tx \in BOOLEAN /\ pc = "tables"
  BY <1>t DEF StartTypes, CreateTables, Statement, Step
<1>b. DOMAIN mem.tables \subseteq TableNames /\ mem.tables \in [DOMAIN mem.tables -> TableType]
  BY <1>a, TableSet DEF Database
<1> DEFINE T == [t \in DOMAIN mem.tables \cup DOMAIN EmptyTables |->
                    IF Has(t) THEN mem.tables[t] ELSE EmptyTables[t]]
<1>c. /\ DOMAIN EmptyTables = {"firewalls", "interfaces", "arp"}
      /\ \A t \in DOMAIN EmptyTables : EmptyTables[t] \in TableType
      /\ EmptyTables["firewalls"].rows = {}
      /\ \A c \in Kids : EmptyTables[c].rows = {} /\ EmptyTables[c].parent = "firewalls"
  <2>1. NewColumns \in SUBSET TableColumns
    BY DEF NewColumns, TableColumns
  <2>2. NewTable(NewColumns, "none") \in TableType /\ NewTable({}, "firewalls") \in TableType
        /\ NewTable(NewColumns, "none").rows = {} /\ NewTable({}, "firewalls").rows = {}
        /\ NewTable({}, "firewalls").parent = "firewalls"
    BY <2>1, NewTableType
  <2> QED
    BY <2>2 DEF EmptyTables, Kids
<1>d. /\ DOMAIN T = DOMAIN mem.tables \cup {"firewalls", "interfaces", "arp"}
      /\ \A t \in DOMAIN mem.tables : T[t] = mem.tables[t]
      /\ \A t \in {"firewalls", "interfaces", "arp"} \ DOMAIN mem.tables : T[t] = EmptyTables[t]
      /\ T \in TableSets
  <2>1. T \in [DOMAIN mem.tables \cup DOMAIN EmptyTables -> TableType]
    BY <1>b, <1>c DEF Has
  <2>2. DOMAIN T \subseteq TableNames
    BY <1>b, <1>c DEF TableNames
  <2>3. T \in TableSets
    BY <2>1, <2>2, TableSet
  <2> QED
    BY <1>c, <2>3 DEF Has
<1> HIDE DEF T
<1>e. Statement("tables", "columns", Tables(T), FALSE)
  BY DEF CreateTables, T
<1>1. /\ pc = "tables" /\ pc' = "columns" /\ mem' \in Database /\ mem'.tables = T
      /\ mem'.times = mem.times /\ mem'.flag = mem.flag
      /\ mem'.status = mem.status /\ mem'.vendor = mem.vendor
      /\ tx' = (tx \/ FALSE) /\ disk' = (IF tx' THEN disk ELSE mem')
      /\ UNCHANGED <<owned, unopened, crashes>> /\ UNCHANGED child
  BY ONLY StartIInv, <1>d, <1>e, FALSE \in BOOLEAN, TablesStated DEF Statement
<1>2. StartTypes'
  BY <1>t, <1>1, <1>c, <1>d, KidFacts DEF StartTypes
<1>3. MemIsSound'
  BY <1>t, <1>1, <1>c, <1>d, KidFacts DEF MemIsSound, FirewallsIn, KidIn, TimesFit
<1>4. DiskIsSound'
  BY <1>1, <1>c, <1>d, <1>3, DiskStated
<1>5. TransactionIsOpen'
  BY <1>t, <1>1, <1>c, <1>d, KidFacts DEF TransactionIsOpen
<1>6. TablesAreMade'
  BY <1>t, <1>1, <1>c, <1>d, KidFacts DEF TablesAreMade
<1>7. KidsAreRepaired'
  BY <1>t, <1>1, <1>c, <1>d, KidFacts DEF KidsAreRepaired
<1>8. FirewallsAreRebuilt'
  BY <1>t, <1>1, <1>c, <1>d, KidFacts DEF FirewallsAreRebuilt
<1>9. RepairsAreDone'
  BY <1>t, <1>1, <1>c, <1>d, KidFacts DEF RepairsAreDone
<1>10. NothingIsLeftOver'
  BY <1>t, <1>1, <1>c, <1>d, KidFacts DEF NothingIsLeftOver
<1> QED
  BY <1>2, <1>3, <1>4, <1>5, <1>6, <1>7, <1>8, <1>9, <1>10 DEF StartIInv

LEMMA DropOldKeeps ==
    ASSUME StartIInv, DropOld PROVE StartIInv'
<1> USE StartupAssumption DEF Points, Early, Repairing, Rebuilding, Late
<1>t. /\ StartTypes /\ DiskIsSound /\ MemIsSound /\ TransactionIsOpen /\ TablesAreMade
      /\ KidsAreRepaired /\ FirewallsAreRebuilt /\ RepairsAreDone /\ NothingIsLeftOver
  BY DEF StartIInv
<1>a. /\ mem \in Database /\ tx \in BOOLEAN /\ pc = "repair"
      /\ DOMAIN mem.tables \subseteq TableNames /\ mem.tables \in TableSets
      /\ \A t \in DOMAIN mem.tables : mem.tables[t] \in TableType
      /\ child > 2 /\ child \in 1..3
  BY StartTables, <1>t, KidsNamed DEF StartTypes, DropOld, Statement, Step
<1> DEFINE T == Without("firewalls_old")
<1>d. /\ T \in TableSets
      /\ DOMAIN T = DOMAIN mem.tables \ {"firewalls_old"}
      /\ \A t \in DOMAIN T : T[t] = mem.tables[t]
  BY <1>a, WithoutTable
<1> HIDE DEF T
<1>e. Statement("repair", "unique", Tables(T), FALSE)
  BY DEF DropOld, T
<1>1. /\ pc = "repair" /\ pc' = "unique" /\ mem' \in Database /\ mem'.tables = T
      /\ mem'.times = mem.times /\ mem'.flag = mem.flag
      /\ mem'.status = mem.status /\ mem'.vendor = mem.vendor
      /\ tx' = (tx \/ FALSE) /\ disk' = (IF tx' THEN disk ELSE mem')
      /\ UNCHANGED <<owned, unopened, crashes>> /\ UNCHANGED child
  BY ONLY StartIInv, <1>d, <1>e, FALSE \in BOOLEAN, TablesStated DEF Statement
<1>k. \A c \in Kids : c \in DOMAIN mem.tables /\ mem.tables[c].parent = "firewalls"
  BY <1>t, <1>a, KidFacts DEF KidsAreRepaired
<1>2. StartTypes'
  BY <1>t, <1>1, <1>a, <1>d, <1>k, KidFacts DEF StartTypes
<1>3. MemIsSound'
  BY <1>t, <1>1, <1>a, <1>d, <1>k, KidFacts DEF MemIsSound, FirewallsIn, KidIn, TimesFit
<1>4. DiskIsSound'
  BY <1>1, <1>a, <1>d, <1>k, <1>3, DiskStated
<1>5. TransactionIsOpen'
  BY <1>t, <1>1, <1>a, <1>d, <1>k, KidFacts DEF TransactionIsOpen
<1>6. TablesAreMade'
  BY <1>t, <1>1, <1>a, <1>d, <1>k, KidFacts DEF TablesAreMade
<1>7. KidsAreRepaired'
  BY <1>t, <1>1, <1>a, <1>d, <1>k, KidFacts DEF KidsAreRepaired
<1>8. FirewallsAreRebuilt'
  BY <1>t, <1>1, <1>a, <1>d, <1>k, KidFacts DEF FirewallsAreRebuilt
<1>9. RepairsAreDone'
  BY <1>t, <1>1, <1>a, <1>d, <1>k, KidFacts DEF RepairsAreDone
<1>10. NothingIsLeftOver'
  BY <1>t, <1>1, <1>a, <1>d, <1>k, KidFacts DEF NothingIsLeftOver
<1> QED
  BY <1>2, <1>3, <1>4, <1>5, <1>6, <1>7, <1>8, <1>9, <1>10 DEF StartIInv

LEMMA DropFirewallsKeeps ==
    ASSUME StartIInv, DropFirewalls PROVE StartIInv'
<1> USE StartupAssumption DEF Points, Early, Repairing, Rebuilding, Late
<1>t. /\ StartTypes /\ DiskIsSound /\ MemIsSound /\ TransactionIsOpen /\ TablesAreMade
      /\ KidsAreRepaired /\ FirewallsAreRebuilt /\ RepairsAreDone /\ NothingIsLeftOver
  BY DEF StartIInv
<1>a. /\ mem \in Database /\ tx \in BOOLEAN /\ pc = "drop"
      /\ DOMAIN mem.tables \subseteq TableNames /\ mem.tables \in TableSets
      /\ \A t \in DOMAIN mem.tables : mem.tables[t] \in TableType
  BY StartTables DEF DropFirewalls, Statement, Step
<1> DEFINE T == Without("firewalls")
<1>d. /\ T \in TableSets
      /\ DOMAIN T = DOMAIN mem.tables \ {"firewalls"}
      /\ \A t \in DOMAIN T : T[t] = mem.tables[t]
  BY <1>a, WithoutTable
<1> HIDE DEF T
<1>e. Statement("drop", "rename", Tables(T), FALSE)
  BY DEF DropFirewalls, T
<1>1. /\ pc = "drop" /\ pc' = "rename" /\ mem' \in Database /\ mem'.tables = T
      /\ mem'.times = mem.times /\ mem'.flag = mem.flag
      /\ mem'.status = mem.status /\ mem'.vendor = mem.vendor
      /\ tx' = (tx \/ FALSE) /\ disk' = (IF tx' THEN disk ELSE mem')
      /\ UNCHANGED <<owned, unopened, crashes>> /\ UNCHANGED child
  BY ONLY StartIInv, <1>d, <1>e, FALSE \in BOOLEAN, TablesStated DEF Statement
<1>k. \A c \in Kids : c \in DOMAIN mem.tables /\ mem.tables[c].parent = "firewalls"
  BY <1>t, <1>a DEF TablesAreMade, FirewallsAreRebuilt
<1>x. tx
  BY <1>t, <1>a DEF TransactionIsOpen
<1>2. StartTypes'
  BY <1>t, <1>1, <1>a, <1>d, <1>k, <1>x, KidFacts DEF StartTypes
<1>3. MemIsSound'
  BY <1>t, <1>1, <1>a, <1>d, <1>k, <1>x, KidFacts DEF MemIsSound, FirewallsIn, KidIn, TimesFit
<1>4. DiskIsSound'
  BY <1>1, <1>a, <1>d, <1>k, <1>x, <1>3, DiskStated
<1>5. TransactionIsOpen'
  BY <1>t, <1>1, <1>a, <1>d, <1>k, <1>x, KidFacts DEF TransactionIsOpen
<1>6. TablesAreMade'
  BY <1>t, <1>1, <1>a, <1>d, <1>k, <1>x, KidFacts DEF TablesAreMade
<1>7. KidsAreRepaired'
  BY <1>t, <1>1, <1>a, <1>d, <1>k, <1>x, KidFacts DEF KidsAreRepaired
<1>8. FirewallsAreRebuilt'
  BY <1>t, <1>1, <1>a, <1>d, <1>k, <1>x, KidFacts DEF FirewallsAreRebuilt
<1>9. RepairsAreDone'
  BY <1>t, <1>1, <1>a, <1>d, <1>k, <1>x, KidFacts DEF RepairsAreDone
<1>10. NothingIsLeftOver'
  BY <1>t, <1>1, <1>a, <1>d, <1>k, <1>x, KidFacts DEF NothingIsLeftOver
<1> QED
  BY <1>2, <1>3, <1>4, <1>5, <1>6, <1>7, <1>8, <1>9, <1>10 DEF StartIInv

LEMMA CreateNewKeeps ==
    ASSUME StartIInv, CreateNew PROVE StartIInv'
<1> USE StartupAssumption DEF Points, Early, Repairing, Rebuilding, Late
<1>t. /\ StartTypes /\ DiskIsSound /\ MemIsSound /\ TransactionIsOpen /\ TablesAreMade
      /\ KidsAreRepaired /\ FirewallsAreRebuilt /\ RepairsAreDone /\ NothingIsLeftOver
  BY DEF StartIInv
<1>a. /\ mem \in Database /\ tx \in BOOLEAN /\ pc = "unique"
      /\ DOMAIN mem.tables \subseteq TableNames /\ mem.tables \in TableSets
      /\ \A t \in DOMAIN mem.tables : mem.tables[t] \in TableType
  BY StartTables DEF CreateNew, Statement, Step
<1> DEFINE T == With(mem.tables, "firewalls_new", NewTable(NewColumns, "none"))
<1>d. /\ T \in TableSets
      /\ DOMAIN T = DOMAIN mem.tables \cup {"firewalls_new"}
      /\ \A t \in DOMAIN mem.tables : t # "firewalls_new" => T[t] = mem.tables[t]
      /\ ~T["firewalls_new"].unique
  <2>1. NewColumns \in SUBSET TableColumns
    BY DEF NewColumns, TableColumns
  <2>2. NewTable(NewColumns, "none") \in TableType /\ ~NewTable(NewColumns, "none").unique
    BY <2>1, NewTableType
  <2>3. "firewalls_new" \in TableNames
    BY DEF TableNames
  <2> DEFINE N == NewTable(NewColumns, "none")
  <2> HIDE DEF N
  <2>4. N \in TableType /\ ~N.unique
    BY <2>2 DEF N
  <2>5. /\ With(mem.tables, "firewalls_new", N) \in TableSets
        /\ DOMAIN With(mem.tables, "firewalls_new", N) = DOMAIN mem.tables \cup {"firewalls_new"}
        /\ With(mem.tables, "firewalls_new", N)["firewalls_new"] = N
        /\ \A t \in DOMAIN mem.tables : t # "firewalls_new" =>
               With(mem.tables, "firewalls_new", N)[t] = mem.tables[t]
    BY ONLY <1>a, <2>3, <2>4, WithTable
  <2> QED
    BY <2>4, <2>5 DEF N
<1> HIDE DEF T
<1>e. Statement("unique", "widen", Tables(T), FALSE)
  BY DEF CreateNew, T
<1>1. /\ pc = "unique" /\ pc' = "widen" /\ mem' \in Database /\ mem'.tables = T
      /\ mem'.times = mem.times /\ mem'.flag = mem.flag
      /\ mem'.status = mem.status /\ mem'.vendor = mem.vendor
      /\ tx' = (tx \/ FALSE) /\ disk' = (IF tx' THEN disk ELSE mem')
      /\ UNCHANGED <<owned, unopened, crashes>> /\ UNCHANGED child
  BY ONLY StartIInv, <1>d, <1>e, FALSE \in BOOLEAN, TablesStated DEF Statement
<1>k. \A c \in Kids : c \in DOMAIN mem.tables /\ mem.tables[c].parent = "firewalls"
  BY <1>t, <1>a DEF TablesAreMade, FirewallsAreRebuilt
<1>2. StartTypes'
  BY <1>t, <1>1, <1>a, <1>d, <1>k, KidFacts DEF StartTypes
<1>3. MemIsSound'
  BY <1>t, <1>1, <1>a, <1>d, <1>k, KidFacts DEF MemIsSound, FirewallsIn, KidIn, TimesFit
<1>4. DiskIsSound'
  BY <1>1, <1>a, <1>d, <1>k, <1>3, DiskStated
<1>5. TransactionIsOpen'
  BY <1>t, <1>1, <1>a, <1>d, <1>k, KidFacts DEF TransactionIsOpen
<1>6. TablesAreMade'
  BY <1>t, <1>1, <1>a, <1>d, <1>k, KidFacts DEF TablesAreMade
<1>7. KidsAreRepaired'
  BY <1>t, <1>1, <1>a, <1>d, <1>k, KidFacts DEF KidsAreRepaired
<1>8. FirewallsAreRebuilt'
  BY <1>t, <1>1, <1>a, <1>d, <1>k, KidFacts DEF FirewallsAreRebuilt
<1>9. RepairsAreDone'
  BY <1>t, <1>1, <1>a, <1>d, <1>k, KidFacts DEF RepairsAreDone
<1>10. NothingIsLeftOver'
  BY <1>t, <1>1, <1>a, <1>d, <1>k, KidFacts DEF NothingIsLeftOver
<1> QED
  BY <1>2, <1>3, <1>4, <1>5, <1>6, <1>7, <1>8, <1>9, <1>10 DEF StartIInv

LEMMA RenameNewKeeps ==
    ASSUME StartIInv, RenameNew PROVE StartIInv'
<1> USE StartupAssumption DEF Points, Early, Repairing, Rebuilding, Late
<1>t. /\ StartTypes /\ DiskIsSound /\ MemIsSound /\ TransactionIsOpen /\ TablesAreMade
      /\ KidsAreRepaired /\ FirewallsAreRebuilt /\ RepairsAreDone /\ NothingIsLeftOver
  BY DEF StartIInv
<1>a. /\ mem \in Database /\ tx \in BOOLEAN /\ pc = "rename"
      /\ DOMAIN mem.tables \subseteq TableNames /\ mem.tables \in TableSets
      /\ \A t \in DOMAIN mem.tables : mem.tables[t] \in TableType
  BY StartTables DEF RenameNew, Statement, Step
<1> DEFINE T == With(Without("firewalls_new"), "firewalls", mem.tables["firewalls_new"])
<1>d. /\ T \in TableSets
      /\ DOMAIN T = (DOMAIN mem.tables \ {"firewalls_new"}) \cup {"firewalls"}
      /\ \A t \in DOMAIN mem.tables : t \notin {"firewalls", "firewalls_new"} => T[t] = mem.tables[t]
      /\ T["firewalls"] = mem.tables["firewalls_new"]
  <2>1. "firewalls_new" \in DOMAIN mem.tables /\ "firewalls" \in TableNames
    BY <1>t, <1>a DEF FirewallsAreRebuilt, TableNames
  <2>2. /\ Without("firewalls_new") \in TableSets
        /\ DOMAIN Without("firewalls_new") = DOMAIN mem.tables \ {"firewalls_new"}
        /\ \A t \in DOMAIN mem.tables : t # "firewalls_new" => Without("firewalls_new")[t] = mem.tables[t]
    BY <1>a, WithoutTable
  <2> DEFINE W == Without("firewalls_new")
             N == mem.tables["firewalls_new"]
  <2>3. W \in TableSets /\ "firewalls" \in TableNames /\ N \in TableType
    BY <1>a, <2>1, <2>2
  <2> HIDE DEF W, N
  <2>4. /\ With(W, "firewalls", N) \in TableSets
        /\ DOMAIN With(W, "firewalls", N) = DOMAIN W \cup {"firewalls"}
        /\ With(W, "firewalls", N)["firewalls"] = N
        /\ \A t \in DOMAIN W : t # "firewalls" => With(W, "firewalls", N)[t] = W[t]
    BY ONLY <2>3, WithTable
  <2> QED
    BY <2>2, <2>4 DEF W, N
<1> HIDE DEF T
<1>e. Statement("rename", "times", Tables(T), FALSE)
  BY DEF RenameNew, T
<1>1. /\ pc = "rename" /\ pc' = "times" /\ mem' \in Database /\ mem'.tables = T
      /\ mem'.times = mem.times /\ mem'.flag = mem.flag
      /\ mem'.status = mem.status /\ mem'.vendor = mem.vendor
      /\ tx' = (tx \/ FALSE) /\ disk' = (IF tx' THEN disk ELSE mem')
      /\ UNCHANGED <<owned, unopened, crashes>> /\ UNCHANGED child
  BY ONLY StartIInv, <1>d, <1>e, FALSE \in BOOLEAN, TablesStated DEF Statement
<1>k. \A c \in Kids : c \in DOMAIN mem.tables /\ mem.tables[c].parent = "firewalls"
  BY <1>t, <1>a DEF TablesAreMade, FirewallsAreRebuilt
<1>x. /\ owned["firewalls"] \subseteq T["firewalls"].rows /\ TableColumns \subseteq T["firewalls"].cols
      /\ ~T["firewalls"].unique
  BY <1>t, <1>a, <1>d DEF FirewallsAreRebuilt
<1>y. \A c \in Kids : c \in DOMAIN T /\ T[c].parent = "firewalls" /\ T[c] = mem.tables[c]
  BY <1>d, <1>k, KidFacts
<1>2. StartTypes'
  BY <1>t, <1>1, <1>a, <1>d, <1>k, <1>x, <1>y, KidFacts DEF StartTypes
<1>3. MemIsSound'
  BY <1>t, <1>1, <1>a, <1>d, <1>k, <1>x, <1>y, KidFacts DEF MemIsSound, FirewallsIn, KidIn, TimesFit
<1>4. DiskIsSound'
  BY <1>1, <1>a, <1>d, <1>k, <1>x, <1>y, <1>3, DiskStated
<1>5. TransactionIsOpen'
  BY <1>t, <1>1, <1>a, <1>d, <1>k, <1>x, <1>y, KidFacts DEF TransactionIsOpen
<1>6. TablesAreMade'
  BY <1>t, <1>1, <1>a, <1>d, <1>k, <1>x, <1>y, KidFacts DEF TablesAreMade
<1>7. KidsAreRepaired'
  BY <1>t, <1>1, <1>a, <1>d, <1>k, <1>x, <1>y, KidFacts DEF KidsAreRepaired
<1>8. FirewallsAreRebuilt'
  BY <1>t, <1>1, <1>a, <1>d, <1>k, <1>x, <1>y, KidFacts DEF FirewallsAreRebuilt
<1>9. RepairsAreDone'
  BY <1>t, <1>1, <1>a, <1>d, <1>k, <1>x, <1>y, KidFacts DEF RepairsAreDone
<1>10. NothingIsLeftOver'
  BY <1>t, <1>1, <1>a, <1>d, <1>k, <1>x, <1>y, KidFacts DEF NothingIsLeftOver
<1> QED
  BY <1>2, <1>3, <1>4, <1>5, <1>6, <1>7, <1>8, <1>9, <1>10 DEF StartIInv

LEMMA WidenNewKeeps ==
    ASSUME StartIInv, WidenNew PROVE StartIInv'
<1> USE StartupAssumption DEF Points, Early, Repairing, Rebuilding, Late
<1>t. /\ StartTypes /\ DiskIsSound /\ MemIsSound /\ TransactionIsOpen /\ TablesAreMade
      /\ KidsAreRepaired /\ FirewallsAreRebuilt /\ RepairsAreDone /\ NothingIsLeftOver
  BY DEF StartIInv
<1>a. /\ mem \in Database /\ tx \in BOOLEAN /\ pc = "widen"
      /\ DOMAIN mem.tables \subseteq TableNames /\ mem.tables \in TableSets
      /\ \A t \in DOMAIN mem.tables : mem.tables[t] \in TableType
      /\ "firewalls_new" \in DOMAIN mem.tables /\ "firewalls" \in DOMAIN mem.tables
  BY StartTables, <1>t DEF FirewallsAreRebuilt, TablesAreMade, WidenNew, Statement, Step
<1> DEFINE C == mem.tables["firewalls_new"].cols \cup mem.tables["firewalls"].cols
<1> DEFINE T == [mem.tables EXCEPT !["firewalls_new"].cols = C]
<1>d. /\ T \in TableSets
      /\ DOMAIN T = DOMAIN mem.tables
      /\ \A t \in DOMAIN mem.tables : t # "firewalls_new" => T[t] = mem.tables[t]
      /\ T["firewalls_new"] \in TableType
      /\ T["firewalls_new"].cols = mem.tables["firewalls_new"].cols \cup mem.tables["firewalls"].cols
      /\ T["firewalls_new"].rows = mem.tables["firewalls_new"].rows
      /\ T["firewalls_new"].unique = mem.tables["firewalls_new"].unique
  <2>1. mem.tables \in [DOMAIN mem.tables -> TableType] /\ "firewalls_new" \in DOMAIN mem.tables
    BY <1>a, TableSet
  <2>9. C \in SUBSET TableColumns
    BY <1>a DEF TableType
  <2>2. T \in TableSets /\ DOMAIN T = DOMAIN mem.tables
        /\ (\A t \in DOMAIN mem.tables : t # "firewalls_new" => T[t] = mem.tables[t])
        /\ T["firewalls_new"].cols = C
        /\ T["firewalls_new"].rows = mem.tables["firewalls_new"].rows
        /\ T["firewalls_new"].unique = mem.tables["firewalls_new"].unique
        /\ T["firewalls_new"].parent = mem.tables["firewalls_new"].parent
    <3> HIDE DEF C
    <3> QED
      BY ONLY <1>a, <2>1, <2>9, ColumnsEdited
  <2>3. T["firewalls_new"] \in TableType
    BY <2>1, <2>2, TableSet
  <2> QED
    BY <2>2, <2>3
<1> HIDE DEF T
<1>e. Statement("widen", "copynew", Tables(T), FALSE)
  BY DEF WidenNew, T, C
<1>1. /\ pc = "widen" /\ pc' = "copynew" /\ mem' \in Database /\ mem'.tables = T
      /\ mem'.times = mem.times /\ mem'.flag = mem.flag
      /\ mem'.status = mem.status /\ mem'.vendor = mem.vendor
      /\ tx' = (tx \/ FALSE) /\ disk' = (IF tx' THEN disk ELSE mem')
      /\ UNCHANGED <<owned, unopened, crashes>> /\ UNCHANGED child
  BY ONLY StartIInv, <1>d, <1>e, FALSE \in BOOLEAN, TablesStated DEF Statement
<1>k. \A c \in Kids : c \in DOMAIN mem.tables /\ mem.tables[c].parent = "firewalls"
  BY <1>t, <1>a DEF TablesAreMade, FirewallsAreRebuilt
<1>y. \A c \in Kids : c \in DOMAIN T /\ T[c] = mem.tables[c]
  BY <1>d, <1>k DEF Kids
<1>x. owned["firewalls"] \subseteq mem.tables["firewalls"].rows /\ TableColumns \subseteq mem.tables["firewalls"].cols
  BY <1>t, <1>a DEF MemIsSound, FirewallsIn, TablesAreMade
<1>2. StartTypes'
  BY <1>t, <1>1, <1>a, <1>d, <1>k, <1>y, <1>x, KidFacts DEF StartTypes
<1>3. MemIsSound'
  BY <1>t, <1>1, <1>a, <1>d, <1>k, <1>y, <1>x, KidFacts DEF MemIsSound, FirewallsIn, KidIn, TimesFit
<1>4. DiskIsSound'
  BY <1>1, <1>a, <1>d, <1>k, <1>y, <1>x, <1>3, DiskStated
<1>5. TransactionIsOpen'
  BY <1>t, <1>1, <1>a, <1>d, <1>k, <1>y, <1>x, KidFacts DEF TransactionIsOpen
<1>6. TablesAreMade'
  BY <1>t, <1>1, <1>a, <1>d, <1>k, <1>y, <1>x, KidFacts DEF TablesAreMade
<1>7. KidsAreRepaired'
  BY <1>t, <1>1, <1>a, <1>d, <1>k, <1>y, <1>x, KidFacts DEF KidsAreRepaired
<1>8. FirewallsAreRebuilt'
  BY <1>t, <1>1, <1>a, <1>d, <1>k, <1>y, <1>x, KidFacts DEF FirewallsAreRebuilt
<1>9. RepairsAreDone'
  BY <1>t, <1>1, <1>a, <1>d, <1>k, <1>y, <1>x, KidFacts DEF RepairsAreDone
<1>10. NothingIsLeftOver'
  BY <1>t, <1>1, <1>a, <1>d, <1>k, <1>y, <1>x, KidFacts DEF NothingIsLeftOver
<1> QED
  BY <1>2, <1>3, <1>4, <1>5, <1>6, <1>7, <1>8, <1>9, <1>10 DEF StartIInv

LEMMA CopyNewKeeps ==
    ASSUME StartIInv, CopyNew PROVE StartIInv'
<1> USE StartupAssumption DEF Points, Early, Repairing, Rebuilding, Late
<1>t. /\ StartTypes /\ DiskIsSound /\ MemIsSound /\ TransactionIsOpen /\ TablesAreMade
      /\ KidsAreRepaired /\ FirewallsAreRebuilt /\ RepairsAreDone /\ NothingIsLeftOver
  BY DEF StartIInv
<1>a. /\ mem \in Database /\ tx \in BOOLEAN /\ pc = "copynew"
      /\ DOMAIN mem.tables \subseteq TableNames /\ mem.tables \in TableSets
      /\ \A t \in DOMAIN mem.tables : mem.tables[t] \in TableType
      /\ "firewalls_new" \in DOMAIN mem.tables /\ "firewalls" \in DOMAIN mem.tables
  BY StartTables, <1>t DEF FirewallsAreRebuilt, TablesAreMade, CopyNew, Statement, Step
<1> DEFINE C == mem.tables["firewalls"].rows
<1> DEFINE T == [mem.tables EXCEPT !["firewalls_new"].rows = C]
<1>d. /\ T \in TableSets
      /\ DOMAIN T = DOMAIN mem.tables
      /\ \A t \in DOMAIN mem.tables : t # "firewalls_new" => T[t] = mem.tables[t]
      /\ T["firewalls_new"] \in TableType
      /\ T["firewalls_new"].cols = mem.tables["firewalls_new"].cols
      /\ T["firewalls_new"].rows = mem.tables["firewalls"].rows
      /\ T["firewalls_new"].unique = mem.tables["firewalls_new"].unique
  <2>1. mem.tables \in [DOMAIN mem.tables -> TableType] /\ "firewalls_new" \in DOMAIN mem.tables
    BY <1>a, TableSet
  <2>9. C \in SUBSET FirewallIds
    BY <1>a DEF TableType
  <2>2. T \in TableSets /\ DOMAIN T = DOMAIN mem.tables
        /\ (\A t \in DOMAIN mem.tables : t # "firewalls_new" => T[t] = mem.tables[t])
        /\ T["firewalls_new"].rows = C
        /\ T["firewalls_new"].cols = mem.tables["firewalls_new"].cols
        /\ T["firewalls_new"].unique = mem.tables["firewalls_new"].unique
        /\ T["firewalls_new"].parent = mem.tables["firewalls_new"].parent
    <3> HIDE DEF C
    <3> QED
      BY ONLY <1>a, <2>1, <2>9, RowsEdited
  <2>3. T["firewalls_new"] \in TableType
    BY <2>1, <2>2, TableSet
  <2> QED
    BY <2>2, <2>3
<1> HIDE DEF T
<1>e. Statement("copynew", "drop", Tables(T), TRUE)
  BY DEF CopyNew, T, C
<1>1. /\ pc = "copynew" /\ pc' = "drop" /\ mem' \in Database /\ mem'.tables = T
      /\ mem'.times = mem.times /\ mem'.flag = mem.flag
      /\ mem'.status = mem.status /\ mem'.vendor = mem.vendor
      /\ tx' = (tx \/ TRUE) /\ disk' = (IF tx' THEN disk ELSE mem')
      /\ UNCHANGED <<owned, unopened, crashes>> /\ UNCHANGED child
  BY ONLY StartIInv, <1>d, <1>e, TRUE \in BOOLEAN, TablesStated DEF Statement
<1>k. \A c \in Kids : c \in DOMAIN mem.tables /\ mem.tables[c].parent = "firewalls"
  BY <1>t, <1>a DEF TablesAreMade, FirewallsAreRebuilt
<1>y. \A c \in Kids : c \in DOMAIN T /\ T[c] = mem.tables[c]
  BY <1>d, <1>k DEF Kids
<1>x. owned["firewalls"] \subseteq mem.tables["firewalls"].rows /\ TableColumns \subseteq mem.tables["firewalls"].cols
  BY <1>t, <1>a DEF MemIsSound, FirewallsIn, TablesAreMade
<1>2. StartTypes'
  BY <1>t, <1>1, <1>a, <1>d, <1>k, <1>y, <1>x, KidFacts DEF StartTypes
<1>3. MemIsSound'
  BY <1>t, <1>1, <1>a, <1>d, <1>k, <1>y, <1>x, KidFacts DEF MemIsSound, FirewallsIn, KidIn, TimesFit
<1>4. DiskIsSound'
  BY <1>1, <1>a, <1>d, <1>k, <1>y, <1>x, <1>3, DiskStated
<1>5. TransactionIsOpen'
  BY <1>t, <1>1, <1>a, <1>d, <1>k, <1>y, <1>x, KidFacts DEF TransactionIsOpen
<1>6. TablesAreMade'
  BY <1>t, <1>1, <1>a, <1>d, <1>k, <1>y, <1>x, KidFacts DEF TablesAreMade
<1>7. KidsAreRepaired'
  BY <1>t, <1>1, <1>a, <1>d, <1>k, <1>y, <1>x, KidFacts DEF KidsAreRepaired
<1>8. FirewallsAreRebuilt'
  BY <1>t, <1>1, <1>a, <1>d, <1>k, <1>y, <1>x, KidFacts DEF FirewallsAreRebuilt
<1>9. RepairsAreDone'
  BY <1>t, <1>1, <1>a, <1>d, <1>k, <1>y, <1>x, KidFacts DEF RepairsAreDone
<1>10. NothingIsLeftOver'
  BY <1>t, <1>1, <1>a, <1>d, <1>k, <1>y, <1>x, KidFacts DEF NothingIsLeftOver
<1> QED
  BY <1>2, <1>3, <1>4, <1>5, <1>6, <1>7, <1>8, <1>9, <1>10 DEF StartIInv

LEMMA AddColumnKeeps ==
    ASSUME StartIInv, AddColumn PROVE StartIInv'
<1> USE StartupAssumption DEF Points, Early, Repairing, Rebuilding, Late
<1>t. /\ StartTypes /\ DiskIsSound /\ MemIsSound /\ TransactionIsOpen /\ TablesAreMade
      /\ KidsAreRepaired /\ FirewallsAreRebuilt /\ RepairsAreDone /\ NothingIsLeftOver
  BY DEF StartIInv
<1>a. /\ mem \in Database /\ tx \in BOOLEAN /\ pc = "columns"
      /\ DOMAIN mem.tables \subseteq TableNames /\ mem.tables \in TableSets
      /\ \A t \in DOMAIN mem.tables : mem.tables[t] \in TableType
      /\ "firewalls" \in DOMAIN mem.tables
  BY StartTables, <1>t DEF TablesAreMade, AddColumn, Statement, Step
<1>p. PICK x \in TableColumns :
          Statement("columns", "columns",
                    Tables([mem.tables EXCEPT !["firewalls"].cols = @ \cup {x}]), FALSE)
  BY DEF AddColumn
<1> DEFINE C == mem.tables["firewalls"].cols \cup {x}
<1> DEFINE T == [mem.tables EXCEPT !["firewalls"].cols = C]
<1>d. /\ T \in TableSets
      /\ DOMAIN T = DOMAIN mem.tables
      /\ \A t \in DOMAIN mem.tables : t # "firewalls" => T[t] = mem.tables[t]
      /\ T["firewalls"] \in TableType
      /\ T["firewalls"].rows = mem.tables["firewalls"].rows
      /\ T["firewalls"].unique = mem.tables["firewalls"].unique
  <2>1. mem.tables \in [DOMAIN mem.tables -> TableType] /\ "firewalls" \in DOMAIN mem.tables
    BY <1>a, TableSet
  <2>9. C \in SUBSET TableColumns
    BY <1>a, <1>p DEF TableType
  <2>2. T \in TableSets /\ DOMAIN T = DOMAIN mem.tables
        /\ (\A t \in DOMAIN mem.tables : t # "firewalls" => T[t] = mem.tables[t])
        /\ T["firewalls"].cols = C
        /\ T["firewalls"].rows = mem.tables["firewalls"].rows
        /\ T["firewalls"].unique = mem.tables["firewalls"].unique
        /\ T["firewalls"].parent = mem.tables["firewalls"].parent
    <3> HIDE DEF C
    <3> QED
      BY ONLY <1>a, <2>1, <2>9, ColumnsEdited
  <2>3. T["firewalls"] \in TableType
    BY <2>1, <2>2, TableSet
  <2> QED
    BY <2>2, <2>3
<1> HIDE DEF T
<1>e. Statement("columns", "columns", Tables(T), FALSE)
  BY <1>p DEF T, C
<1>1. /\ pc = "columns" /\ pc' = "columns" /\ mem' \in Database /\ mem'.tables = T
      /\ mem'.times = mem.times /\ mem'.flag = mem.flag
      /\ mem'.status = mem.status /\ mem'.vendor = mem.vendor
      /\ tx' = (tx \/ FALSE) /\ disk' = (IF tx' THEN disk ELSE mem')
      /\ UNCHANGED <<owned, unopened, crashes>> /\ UNCHANGED child
  BY ONLY StartIInv, <1>d, <1>e, FALSE \in BOOLEAN, TablesStated DEF Statement
<1>y. \A c \in Kids : T[c] = mem.tables[c] \/ c \notin DOMAIN mem.tables
  BY <1>d DEF Kids
<1>2. StartTypes'
  BY <1>t, <1>1, <1>a, <1>d, <1>y, KidFacts DEF StartTypes
<1>3. MemIsSound'
  BY <1>t, <1>1, <1>a, <1>d, <1>y, KidFacts DEF MemIsSound, FirewallsIn, KidIn, TimesFit
<1>4. DiskIsSound'
  BY <1>1, <1>a, <1>d, <1>y, <1>3, DiskStated
<1>5. TransactionIsOpen'
  BY <1>t, <1>1, <1>a, <1>d, <1>y, KidFacts DEF TransactionIsOpen
<1>6. TablesAreMade'
  BY <1>t, <1>1, <1>a, <1>d, <1>y, KidFacts DEF TablesAreMade
<1>7. KidsAreRepaired'
  BY <1>t, <1>1, <1>a, <1>d, <1>y, KidFacts DEF KidsAreRepaired
<1>8. FirewallsAreRebuilt'
  BY <1>t, <1>1, <1>a, <1>d, <1>y, KidFacts DEF FirewallsAreRebuilt
<1>9. RepairsAreDone'
  BY <1>t, <1>1, <1>a, <1>d, <1>y, KidFacts DEF RepairsAreDone
<1>10. NothingIsLeftOver'
  BY <1>t, <1>1, <1>a, <1>d, <1>y, KidFacts DEF NothingIsLeftOver
<1> QED
  BY <1>2, <1>3, <1>4, <1>5, <1>6, <1>7, <1>8, <1>9, <1>10 DEF StartIInv

LEMMA CreateChildKeeps ==
    ASSUME StartIInv, CreateChild PROVE StartIInv'
<1> USE StartupAssumption DEF Points, Early, Repairing, Rebuilding, Late
<1>t. /\ StartTypes /\ DiskIsSound /\ MemIsSound /\ TransactionIsOpen /\ TablesAreMade
      /\ KidsAreRepaired /\ FirewallsAreRebuilt /\ RepairsAreDone /\ NothingIsLeftOver
  BY DEF StartIInv
<1>a. /\ mem \in Database /\ tx \in BOOLEAN /\ pc = "create"
      /\ DOMAIN mem.tables \subseteq TableNames /\ mem.tables \in TableSets
      /\ \A t \in DOMAIN mem.tables : mem.tables[t] \in TableType
  BY StartTables DEF CreateChild, Statement, Step
<1>p. PICK k \in Kids : k = Children[child] /\ child \in 1..2
  BY <1>t, <1>a, KidFacts DEF KidsAreRepaired
<1>q. PICK b \in TableNames : b = Bak(k) /\ b \notin {"firewalls", "firewalls_new", "firewalls_old", "interfaces", "arp"}
  BY KidFacts DEF TableNames
<1>r. k \in TableNames /\ k \notin {"firewalls", "firewalls_new", "firewalls_old", "interfaces_bak", "arp_bak"}
      /\ \A c \in Kids \ {k} : Bak(c) # b /\ c # b /\ c # k
  BY <1>q, KidFacts DEF TableNames, Kids
<1> DEFINE T == With(mem.tables, k, NewTable({}, "firewalls"))
<1>d. /\ T \in TableSets
      /\ DOMAIN T = DOMAIN mem.tables \cup {k}
      /\ \A t \in DOMAIN mem.tables : t # k => T[t] = mem.tables[t]
      /\ T[k].parent = "firewalls"
  <2> DEFINE N == NewTable({}, "firewalls")
  <2>1. k \in TableNames
    BY <1>r
  <2>2. N \in TableType /\ N.parent = "firewalls"
    BY NewTableType
  <2> DEFINE M == mem.tables
  <2>4. M \in TableSets /\ k \in TableNames /\ N \in TableType
    BY <1>a, <2>1, <2>2
  <2> HIDE DEF M, N
  <2>5. /\ With(M, k, N) \in TableSets
        /\ DOMAIN With(M, k, N) = DOMAIN M \cup {k}
        /\ With(M, k, N)[k] = N
        /\ \A t \in DOMAIN M : t # k => With(M, k, N)[t] = M[t]
    BY ONLY <2>4, WithTable
  <2> QED
    BY <2>2, <2>5 DEF M, N
<1> HIDE DEF T
<1>e. Statement("create", "copy", Tables(T), FALSE)
  BY <1>p DEF CreateChild, T
<1>1. /\ pc = "create" /\ pc' = "copy" /\ mem' \in Database /\ mem'.tables = T
      /\ mem'.times = mem.times /\ mem'.flag = mem.flag
      /\ mem'.status = mem.status /\ mem'.vendor = mem.vendor
      /\ tx' = (tx \/ FALSE) /\ disk' = (IF tx' THEN disk ELSE mem')
      /\ UNCHANGED <<owned, unopened, crashes>> /\ UNCHANGED child
  BY ONLY StartIInv, <1>d, <1>e, FALSE \in BOOLEAN, TablesStated DEF Statement
<1>z. /\ b \in DOMAIN mem.tables /\ owned[k] \subseteq mem.tables[b].rows /\ k \notin DOMAIN mem.tables
      /\ T["firewalls"] = mem.tables["firewalls"] /\ "firewalls" \in DOMAIN mem.tables
      /\ \A c \in Kids \ {k} : c \in DOMAIN mem.tables /\ T[c] = mem.tables[c]
      /\ \A j \in 1..2 : j # child => Children[j] # k
      /\ TableColumns \subseteq mem.tables["firewalls"].cols
  BY <1>t, <1>a, <1>d, <1>p, <1>q, <1>r, KidFacts DEF KidsAreRepaired, TablesAreMade
<1>2. StartTypes'
  BY <1>t, <1>1, <1>a, <1>d, <1>p, <1>q, <1>r, <1>z, KidFacts DEF StartTypes
<1>3. MemIsSound'
  BY <1>t, <1>1, <1>a, <1>d, <1>p, <1>q, <1>r, <1>z, KidFacts DEF MemIsSound, FirewallsIn, KidIn, TimesFit
<1>4. DiskIsSound'
  BY <1>1, <1>a, <1>d, <1>p, <1>q, <1>r, <1>z, <1>3, DiskStated
<1>5. TransactionIsOpen'
  BY <1>t, <1>1, <1>a, <1>d, <1>p, <1>q, <1>r, <1>z, KidFacts DEF TransactionIsOpen
<1>6. TablesAreMade'
  BY <1>t, <1>1, <1>a, <1>d, <1>p, <1>q, <1>r, <1>z, KidFacts DEF TablesAreMade
<1>7. KidsAreRepaired'
  BY <1>t, <1>1, <1>a, <1>d, <1>p, <1>q, <1>r, <1>z, KidFacts DEF KidsAreRepaired
<1>8. FirewallsAreRebuilt'
  BY <1>t, <1>1, <1>a, <1>d, <1>p, <1>q, <1>r, <1>z, KidFacts DEF FirewallsAreRebuilt
<1>9. RepairsAreDone'
  BY <1>t, <1>1, <1>a, <1>d, <1>p, <1>q, <1>r, <1>z, KidFacts DEF RepairsAreDone
<1>10. NothingIsLeftOver'
  BY <1>t, <1>1, <1>a, <1>d, <1>p, <1>q, <1>r, <1>z, KidFacts DEF NothingIsLeftOver
<1> QED
  BY <1>2, <1>3, <1>4, <1>5, <1>6, <1>7, <1>8, <1>9, <1>10 DEF StartIInv

LEMMA CopyChildKeeps ==
    ASSUME StartIInv, CopyChild PROVE StartIInv'
<1> USE StartupAssumption DEF Points, Early, Repairing, Rebuilding, Late
<1>t. /\ StartTypes /\ DiskIsSound /\ MemIsSound /\ TransactionIsOpen /\ TablesAreMade
      /\ KidsAreRepaired /\ FirewallsAreRebuilt /\ RepairsAreDone /\ NothingIsLeftOver
  BY DEF StartIInv
<1>a. /\ mem \in Database /\ tx \in BOOLEAN /\ pc = "copy"
      /\ DOMAIN mem.tables \subseteq TableNames /\ mem.tables \in TableSets
      /\ \A t \in DOMAIN mem.tables : mem.tables[t] \in TableType
  BY StartTables DEF CopyChild, Statement, Step
<1>p. PICK k \in Kids : k = Children[child] /\ child \in 1..2
  BY <1>t, <1>a, KidFacts DEF KidsAreRepaired
<1>q. PICK b \in TableNames : b = Bak(k) /\ b \notin {"firewalls", "firewalls_new", "firewalls_old", "interfaces", "arp"}
  BY KidFacts DEF TableNames
<1>r. k \in TableNames /\ k \notin {"firewalls", "firewalls_new", "firewalls_old", "interfaces_bak", "arp_bak"}
      /\ \A c \in Kids \ {k} : Bak(c) # b /\ c # b /\ c # k
  BY <1>q, KidFacts DEF TableNames, Kids
<1>s. /\ b \in DOMAIN mem.tables /\ k \in DOMAIN mem.tables /\ owned[k] \subseteq mem.tables[b].rows
      /\ mem.tables[k].parent = "firewalls"
      /\ "firewalls" \in DOMAIN mem.tables /\ TableColumns \subseteq mem.tables["firewalls"].cols
      /\ \A c \in Kids : c \in DOMAIN mem.tables
  BY <1>t, <1>a, <1>p, <1>q, KidFacts DEF KidsAreRepaired, TablesAreMade
<1> DEFINE T1 == [mem.tables EXCEPT ![k].rows = mem.tables[b].rows]
<1> HIDE DEF T1
<1> DEFINE T == [T1 EXCEPT ![k].cols = mem.tables[b].cols]
<1>d. /\ T \in TableSets
      /\ DOMAIN T = DOMAIN mem.tables
      /\ \A t \in DOMAIN mem.tables : t # k => T[t] = mem.tables[t]
      /\ T[k].parent = "firewalls" /\ T[k].rows = mem.tables[b].rows
  <2> DEFINE ids == mem.tables[b].rows
             cols == mem.tables[b].cols
  <2>1. k \in DOMAIN mem.tables /\ ids \in SUBSET FirewallIds /\ cols \in SUBSET TableColumns
    BY <1>a, <1>s DEF TableType
  <2>2. T1 = [mem.tables EXCEPT ![k].rows = ids] /\ T = [T1 EXCEPT ![k].cols = cols]
    BY DEF T1
  <2> HIDE DEF ids, cols, T
  <2>3. /\ T1 \in TableSets /\ DOMAIN T1 = DOMAIN mem.tables
        /\ \A t \in DOMAIN mem.tables : t # k => T1[t] = mem.tables[t]
        /\ T1[k].rows = ids /\ T1[k].parent = mem.tables[k].parent
    BY ONLY <1>a, <2>1, <2>2, RowsEdited
  <2>4. T1 \in TableSets /\ k \in DOMAIN T1 /\ cols \in SUBSET TableColumns
        /\ T = [T1 EXCEPT ![k].cols = cols]
    BY <2>1, <2>2, <2>3
  <2>5. /\ T \in TableSets /\ DOMAIN T = DOMAIN T1
        /\ \A t \in DOMAIN T1 : t # k => T[t] = T1[t]
        /\ T[k].rows = T1[k].rows /\ T[k].parent = T1[k].parent
    BY ONLY ZenonT(40), <2>4, ColumnsEdited
  <2> QED
    BY <1>s, <2>3, <2>5 DEF ids
<1> HIDE DEF T
<1>e. Statement("copy", "dropbak", Tables(T), TRUE)
  BY <1>p, <1>q DEF CopyChild, T, T1
<1>1. /\ pc = "copy" /\ pc' = "dropbak" /\ mem' \in Database /\ mem'.tables = T
      /\ mem'.times = mem.times /\ mem'.flag = mem.flag
      /\ mem'.status = mem.status /\ mem'.vendor = mem.vendor
      /\ tx' = (tx \/ TRUE) /\ disk' = (IF tx' THEN disk ELSE mem')
      /\ UNCHANGED <<owned, unopened, crashes>> /\ UNCHANGED child
  BY ONLY StartIInv, <1>d, <1>e, TRUE \in BOOLEAN, TablesStated DEF Statement
<1>z. /\ T["firewalls"] = mem.tables["firewalls"]
      /\ \A c \in Kids \ {k} : T[c] = mem.tables[c]
      /\ \A j \in 1..2 : j # child => Children[j] # k
  BY <1>t, <1>a, <1>d, <1>p, <1>q, <1>r, <1>s, KidFacts
<1>2. StartTypes'
  BY <1>t, <1>1, <1>a, <1>d, <1>p, <1>q, <1>r, <1>s, <1>z, KidFacts DEF StartTypes
<1>3. MemIsSound'
  BY <1>t, <1>1, <1>a, <1>d, <1>p, <1>q, <1>r, <1>s, <1>z, KidFacts DEF MemIsSound, FirewallsIn, KidIn, TimesFit
<1>4. DiskIsSound'
  BY <1>1, <1>a, <1>d, <1>p, <1>q, <1>r, <1>s, <1>z, <1>3, DiskStated
<1>5. TransactionIsOpen'
  BY <1>t, <1>1, <1>a, <1>d, <1>p, <1>q, <1>r, <1>s, <1>z, KidFacts DEF TransactionIsOpen
<1>6. TablesAreMade'
  BY <1>t, <1>1, <1>a, <1>d, <1>p, <1>q, <1>r, <1>s, <1>z, KidFacts DEF TablesAreMade
<1>7. KidsAreRepaired'
  BY <1>t, <1>1, <1>a, <1>d, <1>p, <1>q, <1>r, <1>s, <1>z, KidFacts DEF KidsAreRepaired
<1>8. FirewallsAreRebuilt'
  BY <1>t, <1>1, <1>a, <1>d, <1>p, <1>q, <1>r, <1>s, <1>z, KidFacts DEF FirewallsAreRebuilt
<1>9. RepairsAreDone'
  BY <1>t, <1>1, <1>a, <1>d, <1>p, <1>q, <1>r, <1>s, <1>z, KidFacts DEF RepairsAreDone
<1>10. NothingIsLeftOver'
  BY <1>t, <1>1, <1>a, <1>d, <1>p, <1>q, <1>r, <1>s, <1>z, KidFacts DEF NothingIsLeftOver
<1> QED
  BY <1>2, <1>3, <1>4, <1>5, <1>6, <1>7, <1>8, <1>9, <1>10 DEF StartIInv

LEMMA DropBakKeeps ==
    ASSUME StartIInv, DropBak PROVE StartIInv'
<1> USE StartupAssumption DEF Points, Early, Repairing, Rebuilding, Late
<1>t. /\ StartTypes /\ DiskIsSound /\ MemIsSound /\ TransactionIsOpen /\ TablesAreMade
      /\ KidsAreRepaired /\ FirewallsAreRebuilt /\ RepairsAreDone /\ NothingIsLeftOver
  BY DEF StartIInv
<1>a. /\ mem \in Database /\ tx \in BOOLEAN /\ pc = "dropbak"
      /\ DOMAIN mem.tables \subseteq TableNames /\ mem.tables \in TableSets
      /\ \A t \in DOMAIN mem.tables : mem.tables[t] \in TableType
  BY StartTables DEF DropBak, Statement, Step
<1>p. PICK k \in Kids : k = Children[child] /\ child \in 1..2
  BY <1>t, <1>a, KidFacts DEF KidsAreRepaired
<1>q. PICK b \in TableNames : b = Bak(k) /\ b \notin {"firewalls", "firewalls_new", "firewalls_old", "interfaces", "arp"}
  BY KidFacts DEF TableNames
<1>r. k \in TableNames /\ k \notin {"firewalls", "firewalls_new", "firewalls_old", "interfaces_bak", "arp_bak"}
      /\ \A c \in Kids \ {k} : Bak(c) # b /\ c # b /\ c # k
  BY <1>q, KidFacts DEF TableNames, Kids
<1> DEFINE T == Without(b)
<1>d. /\ T \in TableSets
      /\ DOMAIN T = DOMAIN mem.tables \ {b}
      /\ \A t \in DOMAIN mem.tables : t # b => T[t] = mem.tables[t]
  BY <1>a, WithoutTable
<1> HIDE DEF T
<1>e. Step("dropbak", "repair", Tables(T), FALSE) /\ child' = child + 1
  BY <1>p, <1>q DEF DropBak, T
<1>1. /\ pc = "dropbak" /\ pc' = "repair" /\ mem' \in Database /\ mem'.tables = T
      /\ mem'.times = mem.times /\ mem'.flag = mem.flag
      /\ mem'.status = mem.status /\ mem'.vendor = mem.vendor
      /\ tx' = (tx \/ FALSE) /\ disk' = (IF tx' THEN disk ELSE mem')
      /\ UNCHANGED <<owned, unopened, crashes>> /\ child' = child + 1
  BY ONLY StartIInv, <1>d, <1>e, FALSE \in BOOLEAN, TablesStated DEF Statement
<1>z. /\ k \in DOMAIN mem.tables /\ owned[k] \subseteq mem.tables[k].rows
      /\ mem.tables[k].parent = "firewalls"
      /\ T["firewalls"] = mem.tables["firewalls"]
      /\ "firewalls" \in DOMAIN mem.tables /\ TableColumns \subseteq mem.tables["firewalls"].cols
      /\ \A c \in Kids : c \in DOMAIN mem.tables /\ T[c] = mem.tables[c]
      /\ "firewalls_old" \in DOMAIN mem.tables
      /\ \A j \in 1..2 : j < child + 1 => j < child \/ j = child
  BY <1>t, <1>a, <1>d, <1>p, <1>q, <1>r, KidFacts DEF KidsAreRepaired, TablesAreMade
<1>2. StartTypes'
  BY <1>t, <1>1, <1>a, <1>d, <1>p, <1>q, <1>r, <1>z, KidFacts DEF StartTypes
<1>3. MemIsSound'
  BY <1>t, <1>1, <1>a, <1>d, <1>p, <1>q, <1>r, <1>z, KidFacts DEF MemIsSound, FirewallsIn, KidIn, TimesFit
<1>4. DiskIsSound'
  BY <1>1, <1>a, <1>d, <1>p, <1>q, <1>r, <1>z, <1>3, DiskStated
<1>5. TransactionIsOpen'
  BY <1>t, <1>1, <1>a, <1>d, <1>p, <1>q, <1>r, <1>z, KidFacts DEF TransactionIsOpen
<1>6. TablesAreMade'
  BY <1>t, <1>1, <1>a, <1>d, <1>p, <1>q, <1>r, <1>z, KidFacts DEF TablesAreMade
<1>7. KidsAreRepaired'
  BY <1>t, <1>1, <1>a, <1>d, <1>p, <1>q, <1>r, <1>z, KidFacts DEF KidsAreRepaired
<1>8. FirewallsAreRebuilt'
  BY <1>t, <1>1, <1>a, <1>d, <1>p, <1>q, <1>r, <1>z, KidFacts DEF FirewallsAreRebuilt
<1>9. RepairsAreDone'
  BY <1>t, <1>1, <1>a, <1>d, <1>p, <1>q, <1>r, <1>z, KidFacts DEF RepairsAreDone
<1>10. NothingIsLeftOver'
  BY <1>t, <1>1, <1>a, <1>d, <1>p, <1>q, <1>r, <1>z, KidFacts DEF NothingIsLeftOver
<1> QED
  BY <1>2, <1>3, <1>4, <1>5, <1>6, <1>7, <1>8, <1>9, <1>10 DEF StartIInv

\* A statement that finds nothing to do.
LEMMA NothingStated ==
    ASSUME StartIInv, NEW from, NEW to, Step(from, to, mem, FALSE)
    PROVE  pc = from /\ pc' = to /\ UNCHANGED <<mem, disk, tx, owned, unopened, crashes>>
<1>1. tx \in BOOLEAN /\ (~tx => mem = disk)
  BY DEF StartIInv, StartTypes, TransactionIsOpen
<1> QED
  BY <1>1 DEF Step, Execute

LEMMA RenameChildKeeps ==
    ASSUME StartIInv, RenameChild PROVE StartIInv'
<1> USE StartupAssumption DEF Points, Early, Repairing, Rebuilding, Late
<1>t. /\ StartTypes /\ DiskIsSound /\ MemIsSound /\ TransactionIsOpen /\ TablesAreMade
      /\ KidsAreRepaired /\ FirewallsAreRebuilt /\ RepairsAreDone /\ NothingIsLeftOver
  BY DEF StartIInv
<1>a. /\ mem \in Database /\ tx \in BOOLEAN /\ pc = "repair"
      /\ DOMAIN mem.tables \subseteq TableNames /\ mem.tables \in TableSets
      /\ \A t \in DOMAIN mem.tables : mem.tables[t] \in TableType
  BY StartTables DEF RenameChild, Statement, Step
<1>p. PICK k \in Kids : k = Children[child] /\ child \in 1..2
  BY <1>t, KidsNamed, KidFacts DEF RenameChild, StartTypes
<1>q. PICK b \in TableNames : b = Bak(k) /\ b \notin {"firewalls", "firewalls_new", "firewalls_old", "interfaces", "arp"}
  BY KidFacts DEF TableNames
<1>r. k \in TableNames /\ k \notin {"firewalls", "firewalls_new", "firewalls_old", "interfaces_bak", "arp_bak"}
      /\ \A c \in Kids \ {k} : Bak(c) # b /\ c # b /\ c # k
  BY <1>q, KidFacts DEF TableNames, Kids
<1>s. /\ k \in DOMAIN mem.tables
      /\ "firewalls" \in DOMAIN mem.tables /\ TableColumns \subseteq mem.tables["firewalls"].cols
      /\ \A c \in Kids : c \in DOMAIN mem.tables
      /\ "firewalls_old" \in DOMAIN mem.tables
  BY <1>t, <1>a, <1>p, KidFacts DEF KidsAreRepaired, TablesAreMade
<1>n. ASSUME mem.tables[k].parent # "firewalls_old" PROVE StartIInv'
  <2>1. Step("repair", "repair", mem, FALSE) /\ child' = child + 1
    BY <1>n, <1>p DEF RenameChild
  <2>2. /\ pc' = "repair" /\ mem' = mem /\ tx' = tx /\ (~tx' => disk' = mem) /\ (tx' => disk' = disk)
        /\ UNCHANGED <<owned, unopened, crashes>>
    BY <1>a, <2>1 DEF Step, Execute
  <2>3. UNCHANGED disk
    BY <1>t, <2>2 DEF TransactionIsOpen
  <2>4. mem.tables[k].parent = "firewalls"
    BY <1>t, <1>a, <1>n, <1>p, <1>s DEF MemIsSound, KidIn
  <2>5. \A j \in 1..2 : j < child + 1 => j < child \/ j = child
    BY <1>p
  <2>6. child' = child + 1 /\ child + 1 \in 1..3
    BY <1>p, <2>1
  <2>7. StartTypes' /\ DiskIsSound' /\ MemIsSound' /\ TransactionIsOpen' /\ TablesAreMade'
    BY <1>t, <1>a, <2>2, <2>3, <2>6
       DEF StartTypes, DiskIsSound, MemIsSound, FirewallsIn, KidIn, TimesFit, TransactionIsOpen, TablesAreMade
  <2>8. KidsAreRepaired'
    BY <1>t, <1>a, <1>p, <1>s, <2>2, <2>4, <2>5, <2>6 DEF KidsAreRepaired
  <2>9. FirewallsAreRebuilt' /\ RepairsAreDone' /\ NothingIsLeftOver'
    BY <1>t, <1>a, <2>2 DEF FirewallsAreRebuilt, RepairsAreDone, NothingIsLeftOver
  <2> QED
    BY <2>7, <2>8, <2>9 DEF StartIInv
<1>o. SUFFICES ASSUME mem.tables[k].parent = "firewalls_old" PROVE StartIInv'
  BY <1>n
<1> DEFINE T == With(Without(k), b, mem.tables[k])
<1>d. /\ T \in TableSets
      /\ DOMAIN T = (DOMAIN mem.tables \ {k}) \cup {b}
      /\ \A t \in DOMAIN mem.tables : t \notin {k, b} => T[t] = mem.tables[t]
      /\ T[b] = mem.tables[k]
  <2>1. b \in TableNames /\ mem.tables[k] \in TableType
    BY <1>a, <1>s
  <2>2. /\ Without(k) \in TableSets /\ DOMAIN Without(k) = DOMAIN mem.tables \ {k}
        /\ \A t \in DOMAIN mem.tables : t # k => Without(k)[t] = mem.tables[t]
    BY <1>a, WithoutTable
  <2> DEFINE W == Without(k)
             K == mem.tables[k]
  <2>3. W \in TableSets /\ K \in TableType /\ T = With(W, b, K)
    BY <2>1, <2>2
  <2> HIDE DEF T, W, K
  <2>4. /\ T \in TableSets /\ DOMAIN T = DOMAIN W \cup {b} /\ T[b] = K
        /\ \A t \in DOMAIN W : t # b => T[t] = W[t]
    BY ONLY <2>1, <2>3, WithTable
  <2> QED
    BY <2>2, <2>4 DEF W, K
<1> HIDE DEF T
<1>e. Statement("repair", "create", Tables(T), FALSE)
  BY <1>p, <1>q, <1>o DEF RenameChild, T
<1>1. /\ pc = "repair" /\ pc' = "create" /\ mem' \in Database /\ mem'.tables = T
      /\ mem'.times = mem.times /\ mem'.flag = mem.flag
      /\ mem'.status = mem.status /\ mem'.vendor = mem.vendor
      /\ tx' = (tx \/ FALSE) /\ disk' = (IF tx' THEN disk ELSE mem')
      /\ UNCHANGED <<owned, unopened, crashes>> /\ UNCHANGED child
  BY ONLY StartIInv, <1>d, <1>e, FALSE \in BOOLEAN, TablesStated DEF Statement
<1>z. /\ T["firewalls"] = mem.tables["firewalls"] /\ b \notin DOMAIN mem.tables
      /\ \A c \in Kids \ {k} : T[c] = mem.tables[c]
      /\ \A j \in 1..2 : j # child => Children[j] # k
      /\ owned[k] \subseteq mem.tables[k].rows
  BY <1>t, <1>a, <1>d, <1>o, <1>p, <1>q, <1>r, <1>s, KidFacts DEF MemIsSound, KidIn
<1>2. StartTypes'
  BY <1>t, <1>1, <1>a, <1>d, <1>p, <1>q, <1>r, <1>s, <1>z, KidFacts DEF StartTypes
<1>3. MemIsSound'
  BY <1>t, <1>1, <1>a, <1>d, <1>p, <1>q, <1>r, <1>s, <1>z, KidFacts DEF MemIsSound, FirewallsIn, KidIn, TimesFit
<1>4. DiskIsSound'
  BY <1>1, <1>a, <1>d, <1>p, <1>q, <1>r, <1>s, <1>z, <1>3, DiskStated
<1>5. TransactionIsOpen'
  BY <1>t, <1>1, <1>a, <1>d, <1>p, <1>q, <1>r, <1>s, <1>z, KidFacts DEF TransactionIsOpen
<1>6. TablesAreMade'
  BY <1>t, <1>1, <1>a, <1>d, <1>p, <1>q, <1>r, <1>s, <1>z, KidFacts DEF TablesAreMade
<1>7. KidsAreRepaired'
  BY <1>t, <1>1, <1>a, <1>d, <1>p, <1>q, <1>r, <1>s, <1>z, KidFacts DEF KidsAreRepaired
<1>8. FirewallsAreRebuilt'
  BY <1>t, <1>1, <1>a, <1>d, <1>p, <1>q, <1>r, <1>s, <1>z, KidFacts DEF FirewallsAreRebuilt
<1>9. RepairsAreDone'
  BY <1>t, <1>1, <1>a, <1>d, <1>p, <1>q, <1>r, <1>s, <1>z, KidFacts DEF RepairsAreDone
<1>10. NothingIsLeftOver'
  BY <1>t, <1>1, <1>a, <1>d, <1>p, <1>q, <1>r, <1>s, <1>z, KidFacts DEF NothingIsLeftOver
<1> QED
  BY <1>2, <1>3, <1>4, <1>5, <1>6, <1>7, <1>8, <1>9, <1>10 DEF StartIInv

LEMMA AllColumnsKeeps ==
    ASSUME StartIInv, AllColumns PROVE StartIInv'
<1> USE StartupAssumption DEF Points, Early, Repairing, Rebuilding, Late
<1>t. /\ StartTypes /\ DiskIsSound /\ MemIsSound /\ TransactionIsOpen /\ TablesAreMade
      /\ KidsAreRepaired /\ FirewallsAreRebuilt /\ RepairsAreDone /\ NothingIsLeftOver
  BY DEF StartIInv
<1>p. PICK to \in {"repair", "unique"} :
          /\ to = (IF "firewalls_old" \in DOMAIN mem.tables THEN "repair" ELSE "unique")
          /\ Step("columns", to, mem, FALSE) /\ UNCHANGED child
  BY DEF AllColumns, Statement, Has
<1>1. pc = "columns" /\ pc' = to /\ UNCHANGED <<mem, disk, tx, child, owned, unopened, crashes>>
  BY <1>p, NothingStated
<1>2. TableColumns \subseteq mem.tables["firewalls"].cols
  BY DEF AllColumns
<1>3. StartTypes' /\ DiskIsSound' /\ MemIsSound' /\ TransactionIsOpen' /\ TablesAreMade'
  BY <1>t, <1>1, <1>2
     DEF StartTypes, DiskIsSound, MemIsSound, FirewallsIn, KidIn, TimesFit, TransactionIsOpen, TablesAreMade
<1>4. \A c \in Kids : c \in DOMAIN mem.tables
  BY <1>t, <1>1 DEF TablesAreMade
<1>5. to = "unique" => /\ "firewalls_old" \notin DOMAIN mem.tables
                       /\ \A c \in Kids : mem.tables[c].parent = "firewalls"
  BY <1>t, <1>1, <1>p, <1>4 DEF MemIsSound, KidIn
<1>6. \A j \in 1..2 : ~(j < child)
  BY <1>t, <1>1 DEF KidsAreRepaired
<1>7. KidsAreRepaired'
  BY <1>t, <1>1, <1>p, <1>6 DEF KidsAreRepaired
<1>8. FirewallsAreRebuilt'
  BY <1>t, <1>1, <1>p, <1>5 DEF FirewallsAreRebuilt
<1>9. RepairsAreDone' /\ NothingIsLeftOver'
  BY <1>t, <1>1, <1>p DEF RepairsAreDone, NothingIsLeftOver
<1> QED
  BY <1>3, <1>7, <1>8, <1>9 DEF StartIInv

LEMMA NothingToDropKeeps ==
    ASSUME StartIInv, NothingToDrop PROVE StartIInv'
<1> USE StartupAssumption DEF Points, Early, Repairing, Rebuilding, Late
<1>t. /\ StartTypes /\ DiskIsSound /\ MemIsSound /\ TransactionIsOpen /\ TablesAreMade
      /\ KidsAreRepaired /\ FirewallsAreRebuilt /\ RepairsAreDone /\ NothingIsLeftOver
  BY DEF StartIInv
<1>1. /\ pc = "unique" /\ pc' = "times" /\ UNCHANGED <<mem, disk, tx, child, owned, unopened, crashes>>
      /\ ~mem.tables["firewalls"].unique \/ "firewalls_new" \in DOMAIN mem.tables
  BY NothingStated DEF NothingToDrop, Statement, Has
<1>2. StartTypes' /\ DiskIsSound' /\ MemIsSound' /\ TransactionIsOpen' /\ TablesAreMade'
  BY <1>t, <1>1
     DEF StartTypes, DiskIsSound, MemIsSound, FirewallsIn, KidIn, TimesFit, TransactionIsOpen, TablesAreMade
<1>3. KidsAreRepaired' /\ FirewallsAreRebuilt'
  BY <1>t, <1>1 DEF KidsAreRepaired, FirewallsAreRebuilt
<1>4. RepairsAreDone' /\ NothingIsLeftOver'
  BY <1>t, <1>1 DEF RepairsAreDone, NothingIsLeftOver
<1> QED
  BY <1>2, <1>3, <1>4 DEF StartIInv

LEMMA TimesAreLocalKeeps ==
    ASSUME StartIInv, TimesAreLocal PROVE StartIInv'
<1> USE StartupAssumption DEF Points, Early, Repairing, Rebuilding, Late
<1>t. /\ StartTypes /\ DiskIsSound /\ MemIsSound /\ TransactionIsOpen /\ TablesAreMade
      /\ KidsAreRepaired /\ FirewallsAreRebuilt /\ RepairsAreDone /\ NothingIsLeftOver
  BY DEF StartIInv
<1>1. /\ pc = "times" /\ pc' = "commit" /\ UNCHANGED <<mem, disk, tx, child, owned, unopened, crashes>>
      /\ mem.flag
  BY NothingStated DEF TimesAreLocal, Statement
<1>2. StartTypes' /\ DiskIsSound' /\ MemIsSound' /\ TransactionIsOpen' /\ TablesAreMade'
  BY <1>t, <1>1
     DEF StartTypes, DiskIsSound, MemIsSound, FirewallsIn, KidIn, TimesFit, TransactionIsOpen, TablesAreMade
<1>3. KidsAreRepaired' /\ FirewallsAreRebuilt'
  BY <1>t, <1>1 DEF KidsAreRepaired, FirewallsAreRebuilt
<1>4. RepairsAreDone' /\ NothingIsLeftOver'
  BY <1>t, <1>1 DEF RepairsAreDone, NothingIsLeftOver
<1> QED
  BY <1>2, <1>3, <1>4 DEF StartIInv

LEMMA ConvertTimesKeeps ==
    ASSUME StartIInv, ConvertTimes PROVE StartIInv'
<1> USE StartupAssumption DEF Points, Early, Repairing, Rebuilding, Late
<1>t. /\ StartTypes /\ DiskIsSound /\ MemIsSound /\ TransactionIsOpen /\ TablesAreMade
      /\ KidsAreRepaired /\ FirewallsAreRebuilt /\ RepairsAreDone /\ NothingIsLeftOver
  BY DEF StartIInv
<1> DEFINE times == [t \in Dated |-> {ToLocalTime(x) : x \in mem.times[t]}]
<1>1. /\ pc = "times" /\ pc' = "flag" /\ UNCHANGED <<disk, child, owned, unopened, crashes>>
      /\ tx' /\ mem' = [mem EXCEPT !.times = times] /\ ~mem.flag
  BY DEF ConvertTimes, Statement, Step, Execute
<1>2. mem \in Database /\ \A t \in Dated : mem.times[t] \subseteq {"utc"}
  BY <1>t, <1>1 DEF StartTypes, MemIsSound, TimesFit
<1>3. /\ times \in [Dated -> SUBSET {"utc", "local", "twice"}]
      /\ \A t \in Dated : times[t] \subseteq {"local"}
  BY <1>2 DEF ToLocalTime
<1> HIDE DEF times
<1>4. /\ mem' \in Database /\ mem'.tables = mem.tables /\ mem'.times = times /\ mem'.flag = mem.flag
      /\ mem'.status = mem.status
  BY <1>1, <1>2, <1>3 DEF Database
<1>5. StartTypes' /\ DiskIsSound' /\ MemIsSound' /\ TransactionIsOpen' /\ TablesAreMade'
  BY <1>t, <1>1, <1>3, <1>4
     DEF StartTypes, DiskIsSound, MemIsSound, FirewallsIn, KidIn, TimesFit, TransactionIsOpen, TablesAreMade
<1>6. KidsAreRepaired' /\ FirewallsAreRebuilt'
  BY <1>t, <1>1, <1>4 DEF KidsAreRepaired, FirewallsAreRebuilt
<1>7. RepairsAreDone' /\ NothingIsLeftOver'
  BY <1>t, <1>1, <1>4 DEF RepairsAreDone, NothingIsLeftOver
<1> QED
  BY <1>5, <1>6, <1>7 DEF StartIInv

LEMMA SetFlagKeeps ==
    ASSUME StartIInv, SetFlag PROVE StartIInv'
<1> USE StartupAssumption DEF Points, Early, Repairing, Rebuilding, Late
<1>t. /\ StartTypes /\ DiskIsSound /\ MemIsSound /\ TransactionIsOpen /\ TablesAreMade
      /\ KidsAreRepaired /\ FirewallsAreRebuilt /\ RepairsAreDone /\ NothingIsLeftOver
  BY DEF StartIInv
<1>1. /\ pc = "flag" /\ pc' = "commit" /\ UNCHANGED <<disk, child, owned, unopened, crashes>>
      /\ tx' /\ mem' = [mem EXCEPT !.flag = TRUE]
  BY DEF SetFlag, Statement, Step, Execute
<1>2. mem \in Database /\ \A t \in Dated : mem.times[t] \subseteq {"local"}
  BY <1>t, <1>1 DEF StartTypes, MemIsSound
<1>3. /\ mem' \in Database /\ mem'.tables = mem.tables /\ mem'.times = mem.times /\ mem'.flag
      /\ mem'.status = mem.status
  BY <1>1, <1>2 DEF Database
<1>4. StartTypes' /\ DiskIsSound' /\ MemIsSound' /\ TransactionIsOpen' /\ TablesAreMade'
  BY <1>t, <1>1, <1>2, <1>3
     DEF StartTypes, DiskIsSound, MemIsSound, FirewallsIn, KidIn, TimesFit, TransactionIsOpen, TablesAreMade
<1>5. KidsAreRepaired' /\ FirewallsAreRebuilt'
  BY <1>t, <1>1, <1>3 DEF KidsAreRepaired, FirewallsAreRebuilt
<1>6. RepairsAreDone' /\ NothingIsLeftOver'
  BY <1>t, <1>1, <1>3 DEF RepairsAreDone, NothingIsLeftOver
<1> QED
  BY <1>4, <1>5, <1>6 DEF StartIInv

LEMMA CommitKeeps ==
    ASSUME StartIInv, Commit PROVE StartIInv'
<1> USE StartupAssumption DEF Points, Early, Repairing, Rebuilding, Late
<1>t. /\ StartTypes /\ DiskIsSound /\ MemIsSound /\ TransactionIsOpen /\ TablesAreMade
      /\ KidsAreRepaired /\ FirewallsAreRebuilt /\ RepairsAreDone /\ NothingIsLeftOver
  BY DEF StartIInv
<1>1. /\ pc = "commit" /\ pc' = "stale" /\ disk' = mem /\ tx' = FALSE
      /\ UNCHANGED <<mem, child, owned, unopened, crashes>>
  BY DEF Commit
<1>2. StartTypes' /\ TransactionIsOpen' /\ TablesAreMade'
  BY <1>t, <1>1 DEF StartTypes, TransactionIsOpen, TablesAreMade
<1>3. MemIsSound'
  BY <1>t, <1>1 DEF MemIsSound, FirewallsIn, KidIn, TimesFit
<1>4. DiskIsSound'
  BY <1>t, <1>1 DEF MemIsSound, DiskIsSound, FirewallsIn, KidIn, TimesFit
<1>5. KidsAreRepaired' /\ FirewallsAreRebuilt'
  BY <1>t, <1>1 DEF KidsAreRepaired, FirewallsAreRebuilt
<1>6. RepairsAreDone' /\ NothingIsLeftOver'
  BY <1>t, <1>1 DEF RepairsAreDone, NothingIsLeftOver
<1> QED
  BY <1>2, <1>3, <1>4, <1>5, <1>6 DEF StartIInv

LEMMA StartProcessKeeps ==
    ASSUME StartIInv, StartProcess PROVE StartIInv'
<1> USE StartupAssumption DEF Points, Early, Repairing, Rebuilding, Late
<1>t. /\ StartTypes /\ DiskIsSound /\ MemIsSound /\ TransactionIsOpen /\ TablesAreMade
      /\ KidsAreRepaired /\ FirewallsAreRebuilt /\ RepairsAreDone /\ NothingIsLeftOver
  BY DEF StartIInv
<1>1. /\ pc = "down" /\ pc' = "tables" /\ child' = 1 /\ mem' = disk /\ tx' = FALSE /\ unopened' = {}
      /\ UNCHANGED <<disk, owned, crashes>>
  BY DEF StartProcess
<1>2. mem = disk
  BY <1>t, <1>1 DEF TransactionIsOpen
<1>8. child' \in 1..3
  BY <1>1
<1>9. unopened' \subseteq {"stale", "vendors"}
  BY <1>1
<1>10. tx' \in BOOLEAN /\ pc' \in Points
  BY <1>1
<1>3. StartTypes'
  BY <1>t, <1>1, <1>8, <1>9, <1>10 DEF StartTypes
<1>7. TransactionIsOpen' /\ TablesAreMade'
  BY <1>t, <1>1 DEF TransactionIsOpen, TablesAreMade
<1>6. DiskIsSound' /\ MemIsSound'
  BY <1>t, <1>1 DEF DiskIsSound, MemIsSound, FirewallsIn, KidIn, TimesFit
<1>4. KidsAreRepaired' /\ FirewallsAreRebuilt'
  BY <1>t, <1>1, <1>2 DEF KidsAreRepaired, FirewallsAreRebuilt
<1>5. RepairsAreDone' /\ NothingIsLeftOver'
  BY <1>t, <1>1, <1>2 DEF RepairsAreDone, NothingIsLeftOver
<1> QED
  BY <1>3, <1>4, <1>5, <1>6, <1>7 DEF StartIInv

LEMMA CrashKeeps ==
    ASSUME StartIInv, Crash PROVE StartIInv'
<1> USE StartupAssumption DEF Points, Early, Repairing, Rebuilding, Late
<1>t. /\ StartTypes /\ DiskIsSound /\ MemIsSound /\ TransactionIsOpen /\ TablesAreMade
      /\ KidsAreRepaired /\ FirewallsAreRebuilt /\ RepairsAreDone /\ NothingIsLeftOver
  BY DEF StartIInv
<1>1. /\ crashes < MaxCrashes /\ crashes' = crashes + 1 /\ pc' = "down" /\ mem' = disk /\ tx' = FALSE
      /\ UNCHANGED <<disk, child, owned, unopened>>
  BY DEF Crash
<1>2. crashes' \in 0..MaxCrashes /\ crashes' # 0
  BY <1>t, <1>1 DEF StartTypes
<1>3. StartTypes' /\ TransactionIsOpen' /\ TablesAreMade'
  BY <1>t, <1>1, <1>2 DEF StartTypes, TransactionIsOpen, TablesAreMade
<1>6. DiskIsSound' /\ MemIsSound'
  BY <1>t, <1>1 DEF DiskIsSound, MemIsSound, FirewallsIn, KidIn, TimesFit
<1>4. KidsAreRepaired' /\ FirewallsAreRebuilt'
  BY <1>1 DEF KidsAreRepaired, FirewallsAreRebuilt
<1>5. RepairsAreDone' /\ NothingIsLeftOver'
  BY <1>1, <1>2 DEF RepairsAreDone, NothingIsLeftOver
<1> QED
  BY <1>3, <1>4, <1>5, <1>6 DEF StartIInv

LEMMA ResetCollectingKeeps ==
    ASSUME StartIInv, ResetCollecting PROVE StartIInv'
<1> USE StartupAssumption DEF Points, Early, Repairing, Rebuilding, Late
<1>t. /\ StartTypes /\ DiskIsSound /\ MemIsSound /\ TransactionIsOpen /\ TablesAreMade
      /\ KidsAreRepaired /\ FirewallsAreRebuilt /\ RepairsAreDone /\ NothingIsLeftOver
  BY DEF StartIInv
<1>1. /\ pc = "stale" /\ pc' = "vendors" /\ UNCHANGED <<tx, child, owned, crashes>>
      /\ \/ mem' = [mem EXCEPT !.status = ResetStale(mem.status)] /\ disk' = mem' /\ UNCHANGED unopened
         \/ unopened' = unopened \cup {"stale"} /\ UNCHANGED <<mem, disk>>
  BY DEF ResetCollecting, Repair
<1>2. mem = disk /\ mem \in Database
  BY <1>t, <1>1 DEF TransactionIsOpen, StartTypes
<1>3. /\ ResetStale(mem.status) \in [OwnedKinds -> {"ok", "collecting", "failed"}]
      /\ \A k \in OwnedKinds : ResetStale(mem.status)[k] # "collecting"
  BY <1>2 DEF ResetStale, Database
<1>4. /\ mem' \in Database /\ disk' = mem' /\ mem'.tables = mem.tables /\ mem'.times = mem.times
      /\ mem'.flag = mem.flag
      /\ "stale" \notin unopened' => \A k \in OwnedKinds : mem'.status[k] # "collecting"
  BY <1>1, <1>2, <1>3 DEF Database
<1>5. StartTypes' /\ TransactionIsOpen' /\ TablesAreMade'
  BY <1>t, <1>1, <1>4 DEF StartTypes, TransactionIsOpen, TablesAreMade
<1>6. DiskIsSound' /\ MemIsSound'
  BY <1>t, <1>1, <1>4 DEF DiskIsSound, MemIsSound, FirewallsIn, KidIn, TimesFit
<1>7. KidsAreRepaired' /\ FirewallsAreRebuilt'
  BY <1>t, <1>1, <1>4 DEF KidsAreRepaired, FirewallsAreRebuilt
<1>8. RepairsAreDone' /\ NothingIsLeftOver'
  BY <1>t, <1>1, <1>4 DEF RepairsAreDone, NothingIsLeftOver
<1> QED
  BY <1>5, <1>6, <1>7, <1>8 DEF StartIInv

\* The last repair: the step with which a primary begins to work.
LEMMA NormalizeVendorsKeeps ==
    ASSUME StartIInv, NormalizeVendors PROVE StartIInv' /\ ReadyStep
<1> USE StartupAssumption DEF Points, Early, Repairing, Rebuilding, Late
<1>t. /\ StartTypes /\ DiskIsSound /\ MemIsSound /\ TransactionIsOpen /\ TablesAreMade
      /\ KidsAreRepaired /\ FirewallsAreRebuilt /\ RepairsAreDone /\ NothingIsLeftOver
  BY DEF StartIInv
<1>1. /\ pc = "vendors" /\ pc' = "ready" /\ UNCHANGED <<tx, child, owned, crashes>>
      /\ \/ mem' = [mem EXCEPT !.vendor = "canonical"] /\ disk' = mem' /\ UNCHANGED unopened
         \/ unopened' = unopened \cup {"vendors"} /\ UNCHANGED <<mem, disk>>
  BY DEF NormalizeVendors, Repair
<1>2. mem = disk /\ mem \in Database
  BY <1>t, <1>1 DEF TransactionIsOpen, StartTypes
<1>4. /\ mem' \in Database /\ disk' = mem' /\ mem'.tables = mem.tables /\ mem'.times = mem.times
      /\ mem'.flag = mem.flag /\ mem'.status = mem.status
      /\ "vendors" \notin unopened' => mem'.vendor = "canonical"
      /\ "stale" \notin unopened' => "stale" \notin unopened
  BY <1>1, <1>2 DEF Database
<1>5. StartTypes' /\ TransactionIsOpen' /\ TablesAreMade'
  BY <1>t, <1>1, <1>4 DEF StartTypes, TransactionIsOpen, TablesAreMade
<1>6. DiskIsSound' /\ MemIsSound'
  BY <1>t, <1>1, <1>4 DEF DiskIsSound, MemIsSound, FirewallsIn, KidIn, TimesFit
<1>7. KidsAreRepaired' /\ FirewallsAreRebuilt'
  BY <1>t, <1>1, <1>4 DEF KidsAreRepaired, FirewallsAreRebuilt
<1>8. RepairsAreDone' /\ NothingIsLeftOver'
  BY <1>t, <1>1, <1>4 DEF RepairsAreDone, NothingIsLeftOver
<1>9. /\ "firewalls" \in DOMAIN mem.tables /\ \A c \in Kids : c \in DOMAIN mem.tables
      /\ crashes = 0 => DOMAIN mem.tables \subseteq {"firewalls", "interfaces", "arp"}
  BY <1>t, <1>1 DEF TablesAreMade, NothingIsLeftOver
<1>10. ReadyStep
  BY <1>t, <1>1, <1>4, <1>9 DEF ReadyStep, RepairsAreDone, FirewallsAreRebuilt, Kids
<1> QED
  BY <1>5, <1>6, <1>7, <1>8, <1>10 DEF StartIInv

LEMMA RegisterKeeps ==
    ASSUME StartIInv, NEW id \in FirewallIds, Register(id) PROVE StartIInv'
<1> USE StartupAssumption DEF Points, Early, Repairing, Rebuilding, Late
<1>t. /\ StartTypes /\ DiskIsSound /\ MemIsSound /\ TransactionIsOpen /\ TablesAreMade
      /\ KidsAreRepaired /\ FirewallsAreRebuilt /\ RepairsAreDone /\ NothingIsLeftOver
  BY DEF StartIInv
<1>a. /\ pc = "ready" /\ mem \in Database /\ mem.tables \in TableSets
      /\ "firewalls" \in DOMAIN mem.tables /\ mem.tables["firewalls"] \in TableType
      /\ mem.flag /\ \A c \in Kids : c \in DOMAIN mem.tables
  BY <1>t, StartTables DEF Register, TablesAreMade, RepairsAreDone
<1> DEFINE ids == mem.tables["firewalls"].rows \cup {id}
           T == [mem.tables EXCEPT !["firewalls"].rows = ids]
           times == [t \in Dated |-> mem.times[t] \cup {"local"}]
<1>1. /\ mem' = [mem EXCEPT !.tables["firewalls"].rows = ids, !.vendor = "alias", !.times = times]
      /\ pc' = pc /\ disk' = mem' /\ UNCHANGED <<tx, child, unopened, crashes>>
      /\ owned' = [owned EXCEPT !["firewalls"] = @ \cup {id}]
  BY DEF Register, Working
<1>2. ids \in SUBSET FirewallIds
  BY <1>a DEF TableType
<1>d. /\ T \in TableSets /\ DOMAIN T = DOMAIN mem.tables
      /\ \A t \in DOMAIN mem.tables : t # "firewalls" => T[t] = mem.tables[t]
      /\ T["firewalls"].rows = ids /\ T["firewalls"].cols = mem.tables["firewalls"].cols
      /\ T["firewalls"].unique = mem.tables["firewalls"].unique
  <2> HIDE DEF ids
  <2>1. "firewalls" \in DOMAIN mem.tables
    BY <1>a
  <2> QED
    BY ONLY <1>a, <1>2, <2>1, RowsEdited
<1>3. times \in [Dated -> SUBSET {"utc", "local", "twice"}] /\ \A t \in Dated : times[t] \subseteq {"local"}
  BY <1>t, <1>a DEF MemIsSound, TimesFit
<1>4. mem' = [mem EXCEPT !.tables = T, !.vendor = "alias", !.times = times]
  BY <1>1, <1>a DEF Database
<1>5. owned \in [{"firewalls", "interfaces", "arp"} -> SUBSET FirewallIds]
  BY <1>t DEF StartTypes
<1>6. /\ owned' \in [{"firewalls", "interfaces", "arp"} -> SUBSET FirewallIds]
      /\ owned'["firewalls"] = owned["firewalls"] \cup {id}
      /\ \A c \in Kids : owned'[c] = owned[c]
  BY <1>1, <1>5 DEF Kids
<1>7. owned["firewalls"] \subseteq mem.tables["firewalls"].rows
  BY <1>t, <1>a DEF MemIsSound, FirewallsIn
<1>8. owned'["firewalls"] \subseteq T["firewalls"].rows
  BY <1>6, <1>7, <1>d
<1> HIDE DEF T, times, ids
<1>9. /\ mem' \in Database /\ mem'.tables = T /\ mem'.times = times /\ mem'.flag = mem.flag
  BY <1>4, <1>a, <1>d, <1>3 DEF Database
<1>y. \A c \in Kids : c \in DOMAIN T /\ T[c] = mem.tables[c]
  BY <1>a, <1>d DEF Kids
<1>z. ~tx /\ mem.flag
  BY <1>t, <1>a, KidFacts DEF TransactionIsOpen, RepairsAreDone
<1>10. StartTypes' /\ TransactionIsOpen' /\ TablesAreMade'
  BY <1>t, <1>1, <1>6, <1>9, <1>a, <1>d, <1>y, <1>z DEF StartTypes, TransactionIsOpen, TablesAreMade
<1>11. MemIsSound'
  BY <1>t, <1>1, <1>3, <1>6, <1>8, <1>9, <1>a, <1>d, <1>y, <1>z, KidFacts
     DEF MemIsSound, FirewallsIn, KidIn, TimesFit
<1>12. DiskIsSound'
  BY <1>1, <1>a, <1>11 DEF DiskIsSound, MemIsSound, FirewallsIn, KidIn, TimesFit
<1>13. KidsAreRepaired' /\ FirewallsAreRebuilt'
  BY <1>t, <1>1, <1>9, <1>a, <1>d, <1>y DEF KidsAreRepaired, FirewallsAreRebuilt
<1>14. RepairsAreDone' /\ NothingIsLeftOver'
  BY <1>t, <1>1, <1>9, <1>a, <1>d, <1>z DEF RepairsAreDone, NothingIsLeftOver
<1> QED
  BY <1>10, <1>11, <1>12, <1>13, <1>14 DEF StartIInv

\* The status of a device, as a primary at work changes it.
LEMMA WorkingKeeps ==
    ASSUME StartIInv, NEW status \in [OwnedKinds -> {"ok", "collecting", "failed"}],
           Working([mem EXCEPT !.status = status]), UNCHANGED owned
    PROVE  StartIInv'
<1> USE StartupAssumption DEF Points, Early, Repairing, Rebuilding, Late
<1>t. /\ StartTypes /\ DiskIsSound /\ MemIsSound /\ TransactionIsOpen /\ TablesAreMade
      /\ KidsAreRepaired /\ FirewallsAreRebuilt /\ RepairsAreDone /\ NothingIsLeftOver
  BY DEF StartIInv
<1>1. /\ pc = "ready" /\ mem' = [mem EXCEPT !.status = status] /\ disk' = mem'
      /\ UNCHANGED <<tx, pc, child, owned, unopened, crashes>>
  BY DEF Working
<1>2. mem \in Database
  BY <1>t DEF StartTypes
<1>3. /\ mem' \in Database /\ mem'.tables = mem.tables /\ mem'.times = mem.times /\ mem'.flag = mem.flag
  BY <1>1, <1>2 DEF Database
<1>4. StartTypes' /\ TransactionIsOpen' /\ TablesAreMade'
  BY <1>t, <1>1, <1>3 DEF StartTypes, TransactionIsOpen, TablesAreMade
<1>5. MemIsSound'
  BY <1>t, <1>1, <1>3 DEF MemIsSound, FirewallsIn, KidIn, TimesFit
<1>6. DiskIsSound'
  BY <1>1, <1>5 DEF DiskIsSound, MemIsSound, FirewallsIn, KidIn, TimesFit
<1>7. KidsAreRepaired' /\ FirewallsAreRebuilt'
  BY <1>t, <1>1, <1>3 DEF KidsAreRepaired, FirewallsAreRebuilt
<1>8. RepairsAreDone' /\ NothingIsLeftOver'
  BY <1>t, <1>1, <1>3 DEF RepairsAreDone, NothingIsLeftOver
<1> QED
  BY <1>4, <1>5, <1>6, <1>7, <1>8 DEF StartIInv

LEMMA CollectionKeeps ==
    ASSUME StartIInv, NEW k \in OwnedKinds, CollectionStarts(k) \/ CollectionEnds(k)
    PROVE  StartIInv'
<1>1. mem \in Database
  BY DEF StartIInv, StartTypes
<1>2. ASSUME NEW value \in {"ok", "collecting", "failed"}
      PROVE  /\ [mem EXCEPT !.status[k] = value] = [mem EXCEPT !.status = [mem.status EXCEPT ![k] = value]]
             /\ [mem.status EXCEPT ![k] = value] \in [OwnedKinds -> {"ok", "collecting", "failed"}]
  BY <1>1 DEF Database
<1>3. CASE CollectionStarts(k)
  <2>1. Working([mem EXCEPT !.status = [mem.status EXCEPT ![k] = "collecting"]]) /\ UNCHANGED owned
    BY <1>2, <1>3 DEF CollectionStarts
  <2> QED
    BY <1>2, <2>1, WorkingKeeps
<1>4. CASE CollectionEnds(k)
  <2>1. Working([mem EXCEPT !.status = [mem.status EXCEPT ![k] = "ok"]]) /\ UNCHANGED owned
    BY <1>2, <1>4 DEF CollectionEnds
  <2> QED
    BY <1>2, <2>1, WorkingKeeps
<1> QED
  BY <1>3, <1>4

\* Every step keeps the invariant, and a primary begins to work on a database
\* that was repaired.
LEMMA StartStep == StartIInv /\ [StartupNext]_startVars => StartIInv' /\ ReadyStep
<1> SUFFICES ASSUME StartIInv, [StartupNext]_startVars PROVE StartIInv' /\ ReadyStep
  OBVIOUS
<1>1. CASE StartProcess \/ Crash \/ Commit
  BY <1>1, StartProcessKeeps, CrashKeeps, CommitKeeps DEF ReadyStep, StartProcess, Crash, Commit
<1>2. CASE CreateTables \/ AddColumn \/ AllColumns
  <2>1. pc' # "ready"
    BY <1>2 DEF CreateTables, AddColumn, AllColumns, Statement, Step
  <2> QED
    BY <1>2, <2>1, CreateTablesKeeps, AddColumnKeeps, AllColumnsKeeps DEF ReadyStep
<1>3. CASE RenameChild \/ CreateChild \/ CopyChild \/ DropBak \/ DropOld
  <2>1. pc' # "ready"
    BY <1>3 DEF RenameChild, CreateChild, CopyChild, DropBak, DropOld, Statement, Step
  <2> QED
    BY <1>3, <2>1, RenameChildKeeps, CreateChildKeeps, CopyChildKeeps, DropBakKeeps, DropOldKeeps
       DEF ReadyStep
<1>4. CASE NothingToDrop \/ CreateNew \/ WidenNew \/ CopyNew \/ DropFirewalls \/ RenameNew
  <2>1. pc' # "ready"
    BY <1>4 DEF NothingToDrop, CreateNew, WidenNew, CopyNew, DropFirewalls, RenameNew, Statement, Step
  <2> QED
    BY <1>4, <2>1, NothingToDropKeeps, CreateNewKeeps, WidenNewKeeps, CopyNewKeeps,
       DropFirewallsKeeps, RenameNewKeeps DEF ReadyStep
<1>5. CASE TimesAreLocal \/ ConvertTimes \/ SetFlag
  <2>1. pc' # "ready"
    BY <1>5 DEF TimesAreLocal, ConvertTimes, SetFlag, Statement, Step
  <2> QED
    BY <1>5, <2>1, TimesAreLocalKeeps, ConvertTimesKeeps, SetFlagKeeps DEF ReadyStep
<1>6. CASE ResetCollecting \/ NormalizeVendors
  BY <1>6, ResetCollectingKeeps, NormalizeVendorsKeeps DEF ReadyStep, ResetCollecting, Repair
<1>7. CASE \E id \in FirewallIds : Register(id)
  BY <1>7, RegisterKeeps DEF ReadyStep, Register
<1>8. CASE \E k \in OwnedKinds : CollectionStarts(k) \/ CollectionEnds(k)
  BY <1>8, CollectionKeeps DEF ReadyStep, CollectionStarts, CollectionEnds, Working
<1>9. CASE UNCHANGED startVars
  BY <1>9
     DEF startVars, ReadyStep, StartIInv, StartTypes, DiskIsSound, MemIsSound, FirewallsIn, KidIn,
         TimesFit, TransactionIsOpen, TablesAreMade, KidsAreRepaired, FirewallsAreRebuilt,
         RepairsAreDone, NothingIsLeftOver
<1> QED
  BY <1>1, <1>2, <1>3, <1>4, <1>5, <1>6, <1>7, <1>8, <1>9 DEF StartupNext

\* Whenever and however often a process ends in the middle of a start
\* (init_schema, validate_schema, the repairs of app.py), no registered
\* firewall and no row of its tables is lost, no time is shifted twice, and a
\* primary begins to work only on a database that was repaired.
THEOREM StartsAreSafe == StartupSpec => StartupSafety
<1>1. StartIInv => FirewallsAreKept /\ TimesAreConvertedOnce
  <2> SUFFICES ASSUME StartIInv PROVE FirewallsAreKept /\ TimesAreConvertedOnce
    OBVIOUS
  <2>t. StartTypes /\ DiskIsSound /\ TransactionIsOpen /\ TablesAreMade
    BY DEF StartIInv
  <2>1. pc = "ready" => TableColumns \subseteq disk.tables["firewalls"].cols
    BY <2>t DEF TransactionIsOpen, TablesAreMade
  <2>2. ASSUME NEW c \in {"interfaces", "arp"}
        PROVE  owned[c] \subseteq UNION {disk.tables[t].rows : t \in {c, Bak(c)} \cap DOMAIN disk.tables}
    BY <2>t DEF DiskIsSound, KidIn, Kids
  <2>3. FirewallsAreKept
    BY <2>t, <2>1, <2>2 DEF DiskIsSound, FirewallsIn, FirewallsAreKept
  <2>4. TimesAreConvertedOnce
    BY <2>t DEF DiskIsSound, TimesFit, TimesAreConvertedOnce
  <2> QED
    BY <2>3, <2>4
<1>2. StartIInv /\ [StartupNext]_startVars => [ReadyStep]_startVars
  BY StartStep
<1>3. StartupSpec => []StartIInv
  BY StartInitial, StartStep, PTL DEF StartupSpec
<1>4. StartupSpec => [][ReadyStep]_startVars
  BY <1>2, <1>3, PTL DEF StartupSpec
<1> QED
  BY <1>1, <1>3, <1>4, PTL DEF StartupSafety, ReadyIsRepaired, ReadyStep

LEMMA StartTyped == StartIInv => StartupTypeOK
<1> SUFFICES ASSUME StartIInv PROVE StartupTypeOK
    OBVIOUS
<1>1. StartTypes /\ TransactionIsOpen
  BY DEF StartIInv
<1>2. DOMAIN disk.tables \subseteq TableNames /\ \A t \in DOMAIN disk.tables : disk.tables[t].rows \subseteq FirewallIds
  <2>1. disk.tables \in TableSets
    BY <1>1 DEF StartTypes, Database
  <2>2. PICK names \in SUBSET TableNames : disk.tables \in [names -> TableType]
    BY <2>1 DEF TableSets
  <2>3. DOMAIN disk.tables = names /\ \A t \in names : disk.tables[t] \in TableType
    BY <2>2
  <2> QED
    BY <2>3 DEF TableType
<1>3. child \in 1..(Len(Children) + 1)
  <2>1. Len(Children) = 2
    BY DEF Children
  <2> QED
    BY <1>1, <2>1 DEF StartTypes
<1>4. (~tx => mem = disk) /\ (pc \in {"down", "ready"} => ~tx)
  BY <1>1 DEF TransactionIsOpen
<1> QED
  BY <1>1, <1>2, <1>3, <1>4 DEF StartupTypeOK, StartTypes, TableNames
=============================================================================
