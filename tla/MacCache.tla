------------------------------- MODULE MacCache -------------------------------
(***************************************************************************)
(* The two caches over the MAC history: the set of uplink ports and the    *)
(* map of where each MAC was last seen, which is built from that set.      *)
(* What the database holds is a pair of versions, of the MAC snapshots and *)
(* of the topology; a cached value is the versions that it was built from. *)
(* The time to live may be over whenever an entry is looked at.            *)
(***************************************************************************)
EXTENDS Integers, FiniteSets

CONSTANTS
    Readers,                \* request threads, and that of the warm-up
    Refreshers,             \* bound: threads of refreshes
    MaxVersions             \* bound: stored snapshots

ASSUME CacheAssumption == MaxVersions \in Nat

VARIABLES
    macVersion, linkVersion,    \* what is in the database
    lastSeen,                   \* _mac_last_cache of the database
    uplinks,                    \* _uplink_cache of the database
    fill,                       \* what each thread is building
    popped,                     \* the writer is between the two pops
    floor, linkFloor            \* history: versions a later answer must have

cacheVars == <<macVersion, linkVersion, lastSeen, uplinks, fill, popped, floor, linkFloor>>

Fillers == Readers \cup Refreshers
NotCached == -1
NoMap == [macs |-> NotCached, links |-> NotCached, refreshing |-> FALSE]
NotFilling == [at |-> "idle", links |-> NotCached, macs |-> NotCached]
Versions == NotCached..MaxVersions

CacheTypeOK ==
    /\ macVersion \in 0..MaxVersions /\ linkVersion \in 0..MaxVersions
    /\ lastSeen \in [macs : Versions, links : Versions, refreshing : BOOLEAN]
    /\ uplinks \in Versions
    /\ fill \in [Fillers -> [at : {"idle", "links", "uplinks", "macs", "store"},
                             links : Versions, macs : Versions]]
    /\ popped \in BOOLEAN

CacheInit ==
    /\ macVersion = 0 /\ linkVersion = 0
    /\ lastSeen = NoMap /\ uplinks = NotCached
    /\ fill = [p \in Fillers |-> NotFilling]
    /\ popped = FALSE
    /\ floor = [macs |-> 0, links |-> 0] /\ linkFloor = 0

Quiet == \A p \in Fillers : fill[p].at = "idle"

-----------------------------------------------------------------------------
(* Writers.  The worker commits, then drops the caches.                    *)

\* save_mac_entries, and delete_switch: invalidate_mac_last_cache drops the
\* map first.
StoreMacs ==
    /\ ~popped /\ macVersion < MaxVersions
    /\ macVersion' = macVersion + 1
    /\ UNCHANGED <<linkVersion, lastSeen, uplinks, fill, popped, floor, linkFloor>>

DropMap ==
    /\ ~popped
    /\ lastSeen' = NoMap
    /\ popped' = TRUE
    /\ UNCHANGED <<macVersion, linkVersion, uplinks, fill, floor, linkFloor>>

NoUplinkFill == \A p \in Fillers : fill[p].at # "uplinks"

\* Faulty variant: the map is dropped and the uplinks stay.
DropUplinksForgotten ==
    /\ popped' = FALSE
    /\ linkFloor' = IF NoUplinkFill THEN linkVersion ELSE linkFloor
    /\ UNCHANGED uplinks

\* invalidate_uplink_cache.
DropUplinks ==
    /\ popped' = FALSE
    /\ linkFloor' = IF NoUplinkFill THEN linkVersion ELSE linkFloor
    /\ uplinks' = NotCached

\* The second half of invalidate_mac_last_cache: a build that is under way, or
\* was stored since the map was dropped, is not held against the next answers.
DropRest ==
    /\ popped
    /\ DropUplinks
    /\ floor' = IF Quiet /\ lastSeen = NoMap
                THEN [macs |-> macVersion, links |-> linkVersion] ELSE floor
    /\ UNCHANGED <<macVersion, linkVersion, lastSeen, fill>>

\* save_port_channels and save_neighbors drop the uplinks only.
StoreLinks ==
    /\ ~popped /\ linkVersion < MaxVersions
    /\ linkVersion' = linkVersion + 1
    /\ uplinks' = NotCached
    /\ linkFloor' = IF NoUplinkFill THEN linkVersion' ELSE linkFloor
    /\ UNCHANGED <<macVersion, lastSeen, fill, popped, floor>>

-----------------------------------------------------------------------------
(* get_mac_last_seen, warm_mac_last_cache and the build.                   *)

StartFill(p) == fill' = [fill EXCEPT ![p].at = "links"]

\* No entry: the request builds the map itself, as the thread of
\* warm_mac_last_cache does at the start of the program.
FirstCall(p) ==
    /\ p \in Readers /\ fill[p].at = "idle"
    /\ lastSeen = NoMap
    /\ StartFill(p)
    /\ UNCHANGED <<macVersion, linkVersion, lastSeen, uplinks, popped, floor, linkFloor>>

\* An expired entry is served and refreshed by a thread of its own; the flag
\* keeps later requests from starting another.  Fresh entries are served.
ExpiredCall(p) ==
    /\ p \in Refreshers /\ fill[p].at = "idle"
    /\ lastSeen # NoMap /\ ~lastSeen.refreshing
    /\ lastSeen' = [lastSeen EXCEPT !.refreshing = TRUE]
    /\ StartFill(p)
    /\ UNCHANGED <<macVersion, linkVersion, uplinks, popped, floor, linkFloor>>

\* uplinks_for: a fresh set is taken, else the topology is read now.
GetUplinks(p) ==
    /\ fill[p].at = "links"
    /\ \/ /\ uplinks # NotCached
          /\ fill' = [fill EXCEPT ![p].links = uplinks, ![p].at = "macs"]
       \/ fill' = [fill EXCEPT ![p].links = linkVersion, ![p].at = "uplinks"]
    /\ UNCHANGED <<macVersion, linkVersion, lastSeen, uplinks, popped, floor, linkFloor>>

KeepUplinks(p) ==
    /\ fill[p].at = "uplinks"
    /\ uplinks' = fill[p].links
    /\ fill' = [fill EXCEPT ![p].at = "macs"]
    /\ UNCHANGED <<macVersion, linkVersion, lastSeen, popped, floor, linkFloor>>

ReadMacRows(p) ==
    /\ fill[p].at = "macs"
    /\ fill' = [fill EXCEPT ![p].macs = macVersion, ![p].at = "store"]
    /\ UNCHANGED <<macVersion, linkVersion, lastSeen, uplinks, popped, floor, linkFloor>>

KeepMap(p) ==
    /\ fill[p].at = "store"
    /\ lastSeen' = [macs |-> fill[p].macs, links |-> fill[p].links, refreshing |-> FALSE]
    /\ fill' = [fill EXCEPT ![p] = NotFilling]
    /\ UNCHANGED <<macVersion, linkVersion, uplinks, popped, floor, linkFloor>>

\* The flag of the entry there is now, whoever set it, is cleared.
GiveUp(p) ==
    lastSeen' = IF p \in Refreshers THEN [lastSeen EXCEPT !.refreshing = FALSE] ELSE lastSeen

\* The database cannot be opened.
FillFails(p) ==
    /\ fill[p].at = "macs"
    /\ GiveUp(p)
    /\ fill' = [fill EXCEPT ![p] = NotFilling]
    /\ UNCHANGED <<macVersion, linkVersion, uplinks, popped, floor, linkFloor>>

CacheNext ==
    \/ StoreMacs \/ DropMap \/ DropRest \/ StoreLinks
    \/ \E p \in Fillers :
          \/ FirstCall(p) \/ ExpiredCall(p) \/ GetUplinks(p) \/ KeepUplinks(p)
          \/ ReadMacRows(p) \/ KeepMap(p) \/ FillFails(p)

CacheSpec == CacheInit /\ [][CacheNext]_cacheVars

-----------------------------------------------------------------------------
(* Properties.                                                             *)

\* After an invalidation that no build was overtaken by, neither cache holds
\* anything older than the data it was about: a map built later does not take
\* its uplinks from before.
NothingOlderIsServed ==
    /\ lastSeen # NoMap => lastSeen.macs >= floor.macs /\ lastSeen.links >= floor.links
    /\ uplinks # NotCached => uplinks >= linkFloor

\* An entry marked as being refreshed has a thread that will replace it or
\* clear the mark: otherwise it would be served for ever.
RefreshHasAThread ==
    lastSeen.refreshing => \E p \in Refreshers : fill[p].at # "idle"

\* What the caches serve is current and will be renewed.
CacheSafety ==
    /\ NothingOlderIsServed /\ RefreshHasAThread
=============================================================================
