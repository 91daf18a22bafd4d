# Verification of NetDash

NetDash is a Flask application that collects the state of switches, firewalls
and servers over SSH, REST and SNMP, keeps it in one SQLite file on a shared
folder and shows it in a browser.  This directory holds TLA+ models of the parts
of it where several threads or several PCs act on shared state, where a process
or a session may end between two steps, or where one fact is computed in several
ways; the TLC configurations that check them; and the TLAPS proofs about them.
`src/...:n` below means a line of the repository.

    tlc -config collector.cfg MCSwitchCollector     # one of the runs
    tlapm SwitchCollector_proofs.tla                # one of the proofs

## 1. Inventory

| component | code | state it keeps | operations | models |
|---|---|---|---|---|
| Switch collector | `core/collector.py`, `core/credentials.py`, `core/log_analyzer.py` | `_collecting_switches`, `_worker_queue`, session credentials, `switches.status`, `switches.vendor`, backups, device events | `collect_switch`, worker loop, `cancel_pending`, driver and vendor of a session, log and configuration alarms, restart | SwitchCollector, SingleFlight, DriverChoice, ConfigBackups |
| Batch collection | `app.py` 3603-3642, 3890-3943, 4867-4954 | `_sw_bulk` | bulk-collect, wall recollection, status, stop | BulkCollect |
| Instance lock | `core/instance_lock.py`, `app.py` 748-971, 5290-5325 | lock and info file, `db.READONLY`, `IS_READONLY` | acquire, release, watch, promote | InstanceLock |
| Firewall jobs | `app.py` 215-367, 4658-4830, `collector.py` 489-627, 1774-1800 | `_collecting_firewalls`, `_fw_all`, `_fw_diag`, `metrics_json` | single, collect-all, diagnose-all, stop, scheduled collection, merge of metrics | FirewallJobs, DiagnosisJobs, MetricsPoller |
| Switch diagnosis | `app.py` 128-206 | `_diag_all` | start, pool of threads, status | DiagnosisJobs |
| Facility scan | `core/facility.py` | `_status`, `_stop_requested`, `_worker`, `_miss_counts`, `facility_hosts` | band scan, offline recheck, monitor, rematch, auto scan, stop, reaper, detection of bands | FacilityJobs, FacilityHosts, FacilityMonitor, BandSweep, Attachment |
| Server collection | `core/server_collector.py` | `_inflight`, `_progress`, `_stop`, specifications | single, collect-all, stop; SSH, WMI and SNMP in turn | ServerJobs, ServerSpecs |
| Database layer | `core/db.py` | tables, MAC and uplink caches, migrations | snapshots, retention, deletion, cache fill and invalidation, start-up repair, rows of devices | MacCache, SwitchStore, Startup, Registry |
| Scheduler | `core/scheduler.py` | last slots, last check | `due_slots`, loop | Scheduler |
| Notifier | `core/notifier.py` | queue of 1000, retry list of 500 | notify, 60 s flush, relay or direct delivery | Notifier |
| Accounts, rate limit | `core/session_creds.py`, `app.py` 710-747 | accounts with a time to live, request times | set, get, purge; window check | ClientAccess |
| Monitors | `core/status_monitor.py`, `core/reachability.py` | last known states | periodic sweeps | StatusMonitor, Reachability |
| Metrics poller | `core/metrics_poller.py`, `core/snmp_collect.py` | last counters, active alarms | deltas, thresholds, SNMP walks | MetricsPoller, SnmpWalk |
| Topology, location | `core/topology.py`, `core/facility.py`, `core/tps_location.py` | stored links | edges, layers, links and bands of firewalls, zones, autolink | Topology, Attachment |
| Web shell | `core/webshell.py` | one session: channel, two threads, clocks | connect, input, output, end | WebShell |
| Profiles of PCs | `core/pcprofile.py` | `pc_profiles` | account, source address | PcProfiles |
| Imports | `core/excel_loader.py`, `app.py` | none | blocks of a sheet, inventories, specifications, ledger | Imports |
| Server room, wall | `core/serverroom.py`, `racklayout.py`, `rackitems.py`, `wallstats.py` | locations, kept layout, items | place, save, restore; cards, lists, timeline | RackRoom, WallFacility |

Device parsers, protocol clients, the exports and reports and the browser client
are left out (section 6); PROJECT.json lists each with its reason.

**What is hard.** Threads of Flask, of the collector and of the pollers share
module globals, each under a lock of its own that is held for one step only;
what a handler read under the lock is stale when it uses it.  Collections are
submitted by people and by the scheduler, stopped while they wait, and fail at
any database call because the file sits on a network share.  The process may
die in any state, in the middle of a migration too, and restarts with an empty
memory and an old database.  Sessions with devices break between two commands,
answer with the words of another system, and lose datagrams.  One fact (the
port of a host, the zone of a switch, the rows of a sheet) is computed by
several functions that have to agree.

**What correct means.** Jobs: one collection of a device at a time; each accepted
request ends and frees what it took, whatever raises; a stop reaches the run it
was meant for and no other; badges and records tell the truth.  Accounts are used
only for the request, kind of device and PC they came with, and are then gone.
Watchers: an outage is announced when it was observed often enough, once, and the
last event is the state.  Stores: nothing known is lost to an outdated copy, a
failed step or a crash.  Functions: the answers agree with the rows they are
computed from and with each other.  The individual hazards, each at its line, are
in PROJECT.json.

## 2. Modules

    SingleFlight            abstract: one job per switch or server
      ^ implemented by ^                  ^ used by
    SwitchCollector   ServerJobs          BulkCollect          InstanceLock
    SwitchCollector_proofs                BulkCollect_proofs   InstanceLock_proofs
    MCSwitchCollector                     MCBulkCollect        MCInstanceLock

    MCJobs = FirewallJobs + DiagnosisJobs + ServerJobs + FacilityJobs
      ^ Jobs_proofs
    MCData = FacilityHosts + FacilityMonitor + ... + Questions and the functions
      ^ Data_proofs (the composition) on Stores_proofs, Watchers_proofs, Answers_proofs

MCJobs and MCData hold parts that share no state.  `Init` picks the part that a
behaviour is about, the others stay at their first state: the run checks the sum
of the parts, never their product.  Definitions that a proof has to unfold are
recursive functions (the sums of the rate limiter, the slots of the scheduler, the rows
that a poll judges one by one) or `FoldLeft` over a list, never RECURSIVE operators;
`Filtered` and `InOrder` stand for SelectSeq and for a sort by time, which tlapm does
not reason about.

**SingleFlight** is what a collector promises to its callers: `job[s]` is idle,
pending or running; only an idle switch takes a job, only a pending job is
cancelled, only its worker ends a running one.

**SwitchCollector** is `collector.py`.  An action is one critical section, one
operation of `queue.Queue` or one SQLite transaction, because other threads run
between any two of these.

| code | actions |
|---|---|
| `collect_switch`, `_abort_enqueue` | `Accept` / `Reject`, `Save`, `Put` / `PutFull`, `AbortUnmark`, `AbortDispose` |
| `cancel_pending` | `CancelStart`, `CancelPop`, `CancelUnmark`, `CancelClear`, `CancelRead`, `CancelReset`, `CancelEnd` |
| `_worker_loop_once`, try | `Take`, `Begin`, `MarkCollecting`, `Load`, `Device`, `Finish`, `Recover`, and `Raise` for a database call that raises |
| its except and finally | `Fail`, `FailLost`, `RaiseAlarm`; `Clear`, `Release` |
| end of the process, `reset_stale_collecting` | `Crash` |

`Device` is the SSH session with its precheck, retries, hard timeout, detection of
the operating system, parsing and saving of rows: it ends or it raises.  What
happens inside of it is DriverChoice, SwitchStore and ConfigBackups.
The variables `asked` and `lost` are history: whose request a job is, and which
switches lost their final status or alarm to a fault.  No action reads them.

**BulkCollect** is the batch record of `app.py` over the jobs of SingleFlight, so
that everything SwitchCollector may do (start, finish, drop) can happen between
any two sections of a handler.  **InstanceLock** is a set of PCs: the main thread,
the watcher of a read-only instance, `release` and the ends of a process.

**The jobs of MCJobs.**  As in SwitchCollector an action is one section under a
lock, one transaction or one conversation with a device; a database call may raise
a bounded number of times.

| module | code | notes |
|---|---|---|
| FirewallJobs | `collect_firewall_endpoint`, `_run_collect_all_firewalls`, its stop, the loop in `collect_all_registered` | three callers of one collection, of which only the first looks at the guard set; `stopAsked`, `listed`, `unstarted`, `unwritten` are history |
| DiagnosisJobs | `_fw_diag` and `_diag_all` with their threads and pool | a refused id list after `running` was set, exceptions at every step, results counted as they come |
| ServerJobs | `collect_server`, `collect_all_servers`, `_one`, the endpoints | a visit is one call of `collect_server`; the visits implement SingleFlight |
| FacilityJobs | `collect_band`, `run_auto_scan`, `request_stop`, `get_status` with `_reap_dead_worker` | `_status["running"]`, `_stop_requested` and `_worker` under `_lock`, not in one section |

**The stores of MCData.**

| module | what an action is | what may come in between |
|---|---|---|
| FacilityHosts | a scan, recheck, monitor or rematch reads, or writes its copy back | the other jobs, a deletion, the dedupe of notations |
| FacilityMonitor | reading of MACs, of hosts, the judgement | snapshots of the switches, an answer, a deletion |
| MacCache | start of a fill, uplinks, rows, storing of the map | invalidations, a background refresh, the time to live |
| SwitchStore | detection of losses, snapshot, MAC rows, loose rows | the deletion of the switch; retention is part of the snapshot |
| Registry | an import, edit, adoption step or collection of a row | two adoptions at once (`GET /api/servers`) |
| MetricsPoller (second half) | one read or one write-back of the metrics of a firewall | the second collection of the same firewall |
| RackRoom | a location, item or kept layout | two windows, a restore that reads and then writes |
| ConfigBackups | a new configuration, its backup, its alarm | a collection that ends half way |
| PcProfiles | a reroute, account, source address of a PC | the other PC on the same database |
| Startup | one statement of `init_schema` or a repair | the end of the process at any statement; firewalls registered between two starts |

**The watchers and sessions of MCData.**

| module | code |
|---|---|
| Scheduler | `due_slots` and the loop: late iterations, breaks, pauses above the catch-up limit |
| Notifier | `notify`, the list, relay and direct delivery, the retry list |
| ClientAccess | the rate limiter's window and its purge; `session_creds` with the clock read before the lock |
| StatusMonitor | `check_facility` (pings) and `check_ports` (SNMP walks, events before the new state) |
| Reachability | the sweep over management ports with its pool and its limit |
| MetricsPoller | `compute_error_delta`, thresholds with their alarms, restarts |
| ServerSpecs | `_collect_server_locked`: guess of the system, accounts, WMI, SNMP, excuses |
| BandSweep | `collect_band` over a session that breaks: pings, reads, resumption, conclusion |
| DriverChoice | `_ssh_collect`, `_probe_os`, `_alteon_collect`, the vendor learnt |
| SnmpWalk | `_Session.walk`: requests, retries, foreign datagrams, limits |
| WebShell | `run_shell`: the thread of the web socket and the reader |

**The functions of MCData.**  A function without state is asked one question (variable
`question` of module Questions), whose lists have at most `MaxLen` elements of the kinds
that the function tells apart, and the invariant compares
its answer with a reference definition, or with the answer of another function on
the same rows: Topology (links, depth, firewalls, bands, kinds, zones, autolink,
ports of a line), Attachment (uplinks, place of a host, histories), WallFacility
(switch of a host, cards and lists, timeline, pairs of firewalls), Imports (blocks,
inventories, specifications, ledger), BandSweep (bands and VRF of a gateway),
ConfigBackups (year turn, density of flaps, ports of an alarm), RackRoom (cells of
the rack sheet).

The definitions commented as faulty variants are plausible bugs.  Each belongs to
one property, which fails when the variant takes the place of the definition
behind it (the list "mutants" of PROJECT.json).

## 3. Runs

| run | bounds | distinct states | shows |
|---|---|---|---|
| `collector` | 2 switches, 2 requesters, 2 workers, 1 stop thread, queue of 1, 3 accepted requests, 1 restart, database faults | 760 000 | all safety properties of SwitchCollector; it implements SingleFlight |
| `collector_live` | the same with 1 worker and a queue of 2 | 720 000 | the queue is never full; every mark is released |
| `bulk` | 2 switches, 2 batches, 1 poller, 1 stop thread, 1 single request | 410 000 | progress in range, no early end, progress bars end |
| `instances` | 3 PCs, 4 starts, 2 faults of the share | 75 000 | one writer, write gate, takeover |
| `jobs` | 2 firewalls, 2 requests, 2 runs, 1 database fault; 3 switches, 2 diagnoses, pool of 2; 2 servers, 2 bulk runs, 1 request, 1 fault; 2 bands, 1 manual and 1 automatic scan thread, 3 scans | 200 000 | guards, badges and records of the jobs, their stops and ends; servers implement SingleFlight |
| `data` | below | 650 000 | stores, watchers, sessions and functions |
| `collector_credential`, `collector_stop`, `bulk_visible`, `bulk_stopping`, `instances_exit`, `facility_stop` | as above, fewer requests | until the violation | section 5 |

*Why the bounds are enough.* Every conflict in the collector is between threads on
the same switch; the second switch is there to fill the queue and to show that
switches do not disturb each other.  A queue of one entry is full with one switch
waiting, which makes `PutFull` and the abort path reachable; a queue of two is the
case `QueueMax >= Cardinality(Switches)` of the code, which has room for 1000.
Three requests allow one job to end, a second one to run and a third to meet it.
With a third PC, two watchers race for the lock of a server that ends.  In `jobs` a
second run exists to meet what the first one left (records, stop flags), a second
firewall, server or band to be skipped by a stop, and three switches on a pool of
two leave one task waiting.  The theorems of section 4 hold for all values.

Bounds of `data`, each the least that lets the case in question happen:

| part | bounds | because |
|---|---|---|
| hosts | 2 hosts, 2 notations of a band, 3 jobs | one job outdates the copy of another; a third meets what both left |
| monitor, store | 2 switches, 3 snapshots, 2 kept | two generations and one that replaces them; a blind snapshot between two others |
| cache | 2 readers, 1 refresher, 1 new version | a fill that an invalidation overtakes, and a second fill |
| scheduler | day of 4 units, slots at 0 and 3, catch-up of 2, clock to 9 | two midnights, a pause on each side of the limit |
| mail | queue of 2, retry list of 1, 3 alarms, 2 domains | both lists overflow, delivery to one domain only |
| limits, sessions | window and time to live of 2, clock to 5 | an entry that leaves exactly at the end, and one after it |
| status, ports, reach | 3 rows (one address in two bands), 4 polls; 2 ports, 4 walks; 3 devices on 2 addresses, 3 sweeps | two misses, a judgement that is skipped, and a return |
| registry, room, profiles | 2 names and addresses, 2 identities, 2 adopters; 2 units, 2 windows, 2 edits; 2 PCs, 3 steps | two writers that read before either wrote |
| poller, env | counters below 4 that wrap, 4 polls; 2 collections | wrap, restart and a missed poll in one behaviour |
| sweep, shell, driver, walk | 3 addresses in chunks of 2; output of 2, session of 3; 3 commands, 2 retries; column of 4, 2 beyond, 2 to a request, 1 retry | the break comes before, in and after the part it spoils |
| backups, startup | 2 contents, 2 kept of 5; 2 firewalls, 2 crashes | return to an old configuration; a crash in the repair of a crash |
| functions | lists of at most 2 to 4 rows, lines or tokens (`MCMaxLen`), 5 nodes | two rows that compete and one that decides |

`CHECK_DEADLOCK FALSE` is set because the system stops when the bounded numbers of
requests, batches and starts are used up.  Symmetry is used in the safety runs of
switches and threads only, which the code treats alike; the liveness runs do without.

*Properties of the collector, of batches and of instances.*

- `MarksAreHeld`: a mark has a requester, a queue entry, a canceller or a worker that
  will release it (otherwise "already being collected" until a restart).
- `SingleHolder`: one holder a switch, across queue and threads.
- `WorkerUsesItsOwnCredential`, `CredentialsDisposed`: an account serves the request
  it came with and leaves the memory with it.
- `CollectingIsAttended`, `FailureAnnounced`: status and alarms tell the truth, faults
  of the final write excepted.
- `NeverFull`: the comment on `maxsize=1000`, that duplicate prevention bounds the queue.
- `MarksReleased` (liveness), `ImplementsSingleFlight` (refinement).
- `DoneWithinTotal`, `FinishedMeansFinished`, `ProgressEnds` (liveness).
- `OneServer`, `GateFollowsLock`, `Takeover` (liveness).

*Properties of `jobs` and `data`.*  Each is the conjunction of named parts, which
are stated and explained in the module they are about.

| property | parts |
|---|---|
| `FirewallSafety` | `GuardHasOneHolder`, `CollectingIsCollected`, `SkippedOnlyWhenStopped`, `StopBeginsNothing` |
| `DiagnosisSafety` | `NoTaskOutlivesRun`, `LossIsReported`, `FwDiagStuckOnlyAfterRefusal` |
| `ServerSafety` | `InflightHasOneHolder`, `ServerBadgeIsTrue`, `BulkRunOnRecord`, `OnlyAskedRunsSkip`, `StopSkipsTheRest` |
| `ScanSafety` | `OneScanAtATime`, `RunningHasAnOwner`, `AcceptedStopEndsSweep`, `NoStopIsLeftOver` |
| `RunsEnd` (liveness) | `FwRunEnds`, `DiagnosisEnds`, `BulkRunEnds`, `ScanEnds` |
| `ServersAreSingleFlight` | ServerJobs implements SingleFlight |
| `HostSafety` | `OneLinePerHost`, `OutageIsAnnounced`, `HostsAreKept` |
| `MonitorSafety` | `MissesAreConsecutive`, `LossNeedsTwoGenerations` |
| `PollSafety` | `OutageNeedsTwoPolls`, `NoBandIsLostAtOnce`, `EventsFollowTheLink`, `SharedAddressSharedResult`, `LossIsObserved`, `EventsFollowTheState` |
| `CacheSafety` | `NothingOlderIsServed`, `RefreshHasAThread` |
| `ScheduleSafety` | `NoSlotIsMissed`, `NoSlotStartsTwice` |
| `AccessSafety` | `NoBurstAboveLimit`, `RefusedForAReason`, `LiveAccountsAreKept`, `ExpiredAccountsAreGone`, `AccountIsFound`, `NewAccountIsUsed`, `ChosenSourceIsOwn` |
| `StoreSafety` | `OnlyLateRowsSurvive`, `LastMacsAreKept`, `LossesAreRecordedOnce`, `UnseenOnlyWhenBlind`, `ChangesAreTold`, `DiffTellsAChange` |
| `StartupSafety` | `FirewallsAreKept`, `TimesAreConvertedOnce`, `ReadyIsRepaired` |
| `AlarmSafety` | `AlarmsAreAccountedFor`, `NewestAreKept`, `MailedOnce`, `ErrorsAreRecordedOnce`, `NoErrorIsMissed`, `AlarmsComeInPairs` |
| `ReadingSafety` | `NoPathErasesAnother`, `SshNamesTheModel`, `ExcusesFitTheSpecs`, `AccountsAreSpared`, `ToldSystemIsKept`, `RowsAreOfTheColumn`, `RowsAreComplete` |
| `SessionSafety` | `OnlyAskedIsOff`, `FoundStaysFound`, `ParserFitsTheCommands`, `DoneHadAnAnswer`, `AlteonIsAskedOnce`, `VendorIsLearned` |
| `ShellSafety` | `AccountFitsTheKind`, `LastWordsAreShown`, `SessionsAreBounded` |
| `RowSafety` | `AccountsFitTheAddress`, `AdoptionLosesNoDevice`, `KnownServersKeepTheirData`, `ItemsOverlapOnlyByRace`, `RackedStayPut`, `LayoutIsRestored` |
| `AnswerSafety` | the functions: `LinksAreWitnessed`, `DepthIsDistance`, `FirewallIsLinkedOnce`, `BandsBelongToInterfaces`, `KindsAgree`, `ZoneIsBetweenSiteAndType`, `AutolinkTellsWhatRowsTell`, `LinePortIsPhysical`, `BandsHaveOneSource`, `UplinkIsNeverDirect`, `HistoriesPreferAccess`, `CardsMatchTheirLists`, `LineAndFilterAgree`, `TimelineIsTheLastEvent`, `PairsFailTogether`, `RowsAreImportedOnce`, `ReadersAgree`, `KnownSpecsSurvive`, `LedgerKeepsTheLastWord`, `EveryDeviceIsOnTheSheet`, `CellsAreApart`, `VendorFollowsTheBands`, `BandIsPingedWhereItIs`, `FlapsAreDense`, `AlarmNamesItsPorts` |

Many parts name an exception ("unless two collections crossed", "unless its row came
from an outdated copy").  Each exception is a behaviour of the code that the run
produces without it, and is kept in a history variable that no action reads; the
ones that a comment of the code excludes are in section 5.

*Fairness.* A thread inside a call goes on (weak fairness of each thread's steps): the
interpreter runs every runnable thread, and `hard_timeout` or the timeout of a socket
ends every conversation with a device.  Requests, stop requests, launches, exits and
crashes have none.  In BulkCollect workers take and end jobs, which is `MarksReleased`
of SwitchCollector, and a page with a progress bar polls on.  In InstanceLock a process
that runs goes on.  In the jobs of MCJobs a started thread and the pool go on, and, for
the reaper of FacilityJobs, the page polls its status (every few seconds while it is
open).  The number of faults and restarts is bounded, so a
fault cannot repeat for ever; with one that does, no liveness could be expected of the
code either.  The parts of MCData are checked for safety only.

## 4. Proofs

TLAPS checks the theorems for every value of the constants, from the assumptions named
in the modules: sets of threads are disjoint, `Switches` is finite, sets that a part
starts from (`Notations`, `Contents`, `Domains`, `Names`, `RowIps`) have a member, model
values such as `NoSwitch`, `NeverCompared` or the PC `"none"` are outside of the sets
they extend, bounds are natural numbers (those of the questions too, `MaxLen`), the nodes
of the topology are finitely many, and a queue, list or rack has room for at least one
entry.  TLC evaluates each assumption in the runs.

*Collector, batches, instances.*

| theorem | argument |
|---|---|
| `SwitchCollector_proofs!TypeCorrect` | action by action; `QueueTail` for the queue |
| `OneJobPerSwitch`, `NoOrphanMark` | `Holders == SingleHolder /\ MarksAreHeld` is inductive as a whole: a worker that takes the head of the queue is its only holder because entries are distinct and no thread holds a queued switch, and unmarking is safe because the unmarking thread was the only holder |
| `NoCredentialLeft` | `Disposal` on top of `Holders`: `CredentialsDisposed`, and a worker about to give its mark back has already emptied the session entry |
| `OwnCredential` | `Ownership` on top of `Holders`: from `Save` until a worker has read it, the session entry of a marked switch is the account of the request in `asked` or gone, since `Reject` stores nothing and `Save` runs under the mark |
| `QueueNeverFull` | the entries of the queue are distinct and differ from the requester's switch, so there are at most `Cardinality(Switches) - 1` of them (`ShortQueue`) |
| `NoStrandedCollecting`, `NoSilentFailure` | `StatusInv`: the invariants, with what each label of a worker knows of status, `prev` and alarm |
| `Refinement` | every step maps to a step of SingleFlight or leaves `JobMap` unchanged (`FlightStep`); `HeadTaken` and `Unmarked` say how the map moves |
| `BulkCollect_proofs!TypeCorrect`, `ProgressBounded`, `NoEarlyFinish` | `BulkInv`: recorded total is the number of recorded ids, snapshots the same, and what is shown or owed has a job and is among the ids |
| `InstanceLock_proofs!TypeCorrect`, `OneServerAtATime`, `GateIsSafe` | `LockInv`: who holds the lock by where a process is |

*Jobs (Jobs_proofs).*

| theorem | inductive invariant |
|---|---|
| `JobsTypeCorrect` | the type invariants of the four jobs, each with what bounds its counters: devices done are at most those listed (`RunCounts`, `SrvCounts`) and a result belongs to a task |
| `FirewallsAreSafe` | `FwIInv`, `FwHolders`, `CollectingIsCollected`: which caller is between adding a firewall to the guard set and taking it out, counted over all three kinds of callers |
| `DiagnosesAreSafe` | `DiagIInv`: where a task is (waiting, in the pool, told) against the counters of the record |
| `ServersAreSafe`, `ServerRefinement` | `SrvIInv`: the visits of a pool (`PoolVisits`), marks with their visit (`SrvMarksInv`), the bulk record with its thread (`SrvRecord`); every visit maps to a job of SingleFlight |
| `ScansAreSafe` | `FacIInv`: one owner of `_status["running"]`, which is a thread past its first section (`SoleOwner`, `RunningIsOwned`), and where a stop that was accepted can be (`StopIsHeard`) |

*Data.*  Stores_proofs (with the start of the program) and Watchers_proofs hold the
invariant of each part, that it holds at first and that each step keeps it;
Answers_proofs holds one lemma for each function; Data_proofs shows that every part of
MCData starts and moves by its own specification or stands still (`StartOfParts`,
`StepOfParts`), and concludes for the composition.

| theorem | inductive invariants and why they are needed |
|---|---|
| `Data_proofs!DataTypeCorrect` | the invariants of all 23 parts; counters are bounded by what they count (`StoreCounts`, `ReadingsAreCounted`: each write belongs to a reading) |
| `PartsAreSafe` | MCData implements the specifications of the six parts that follow, so that their theorems hold of it |
| `Stores_proofs!CachesAreSafe` | `BuildsAreCurrent`: what a fill has read is not older than the last invalidation it may store across |
| `HostsAreSafe` | `OneLine`: a host has one line unless an outdated copy was written over it; `HostWrite` is the one lemma about all writers |
| `Watchers_proofs!ShellsAreSafe` | `LimitsAreWatched`, `ReaderHasAReason`: the clocks were looked at before the handler went on, and a reader lives as long as its session |
| `MonitorIsSafe` | a count of misses is on record with the generations that it came from (`PollIsOnRecord`, `MissIsOnRecord`) |
| `SchedulesAreSafe` | what is started at most once and by which check; `DueFacts` on slots of any number of days |
| `Stores_proofs!StartsAreSafe` | `StartIInv`: what the file and the open transaction hold at each statement, one lemma for each statement and repair and for the crash |
| `PollsAreSafe` | `SilencesAreCounted`: `AllJudged` follows the rows of a poll one by one; `AnnouncedIsSeen` for ports, `SweepIsTyped` for devices |
| `AccessIsSafe` | `TableIsRight`: the times kept are those admitted in the window, by `CountOf` as a sum; `AccountsAreDated`; `ProfilesAreOwn`, `NewestIsStored` |
| `StoresAreSafe` | `LossIsPending`: recorded losses are those that happened less those unseen and one in hand; `NewestIsTold`; `BackupsAreInOrder` |
| `ReadingsAreSafe` | `CopiesAreOfTheirTime` (a copy not crossed is the row), the stages of a collection (`SshFacts`, `WmiFacts`, `SnmpFacts`), `WalkIsInOrder` (the rows so far are the first rows of the column) |
| `AlarmsAreSafe` | `AlarmsAreInOrder`, `WaitingIsUnsent`: the two lists are sorted and apart, and nothing in them has a copy out unless a delivery was in doubt; `SamplesAreTrue` |
| `SessionsAreSafe` | `EachWasTried`, `AnswersAreThere`; `CommandsAreForTheSwitch`, `LoginsSoFar`, `RepliesAreCounted` |
| `RowsAreSafe` | `IdsAreSpent`, `ListsAreTrue`, `ServerComesFirst`: what an adoption read is true of rows not edited since, and the server is stored before the switch goes; `LaterItemsAreKnown`, `UpdatesAreNeeded`, `NoneIsForgotten` |
| `AnswersAreRight` | `AnswerSafety` of every question (below) |

*The functions (Answers_proofs).*  `FoldHasSolution`, `FoldHasSteps` and `FoldIsRun` turn
`FoldLeft` over any list into its run: a first value and one step for each element.  Of
each function an invariant of these steps is proved, from it what the answer is, and from
that the property.  The ones that need more than the rows so far:

| function | what holds after each step |
|---|---|
| layers (`DepthIsDistance`) | the nodes of the queue are in the order of their distance, of two distances at most; a node has its depth exactly when it was reached, and who left the queue has all its neighbours reached (`PassIsOk`, `WalkTells`) |
| flaps of a log (`FlapsAreDense`) | times ascend once the year is corrected (`TimesAscend`), so the two pointers hold the events of one window and the most they held reaches the threshold exactly when enough times lie close by (`WindowIs`), which is the density of the lines that the reference counts (`DenseIs`) |
| blocks of a sheet (`RowsAreImportedOnce`, `ReadersAgree`) | a block is its headings and the rows below them up to the next headings (`BlockGrown`, `BlocksAre`), which the second reader finds as the nearest headings above a row (`UploadAre`, `NearestIs`) |
| autolink (`AutolinkTellsWhatRowsTell`) | each drawn link stands for a row and each row read is drawn (`CanvasSteps`, `RowsAreDrawn`), a redraw changes ports only |
| cells of the rack sheet | what is placed is on top of what was placed before, or alone in its unit (`PlacedOnTop`, `PlacedAlone`, `UnitsAreApart`) |
| timeline | which segment holds a time, and that one does, is left alone by dropping the empty ones (`HoldersAreKept`) |
| zone | what is kept of a name is its words, in number and in order (`CoreIsWords`) |

`NotAsked` and `NotAskedNext` discharge the parts that speak of the other questions, and
`SameAnswers` the steps of the other parts of MCData, which leave the question alone.
The theorem is for lists of any length and any number of nodes.  What the questions fix,
and the theorem with them: two hosts on a wall and the events of its timeline, three
firewalls, three devices on the sheet of the racks, and the kinds of rows, cells and words
that a question is made of, chosen so that each comparison of the code can go either way.

Why strengthenings are needed: `MarksAreHeld` alone is not inductive, because unmarking a
switch with a second holder would leave that one without a mark; `CredentialsDisposed`
is not, because a worker at `release` must be known to have emptied the entry before it
gives the mark back, and a requester about to store to hold the mark; `OneServer`
is not, because it says nothing of the process that is about to start its services.
The same holds of every property above that speaks of the end of an operation: the
invariant says what the operation knows at each of its steps.

Induction: the induction theorems of the library take an operator, which the provers
cannot instantiate.  What needs one is proved by a least counterexample (`LeastNumber`,
`LeastNatural`, from the well-founded order of the naturals) or told of the set of numbers
for which the claim holds (`NaturalsInSet`, `UpToInSet`): sums over a window, lists of
slots, the rows of a poll or a walk, every fold of a function.  A recursive function is
shown to exist before its equation is used.

What proving changed in the properties.  `MissesAreConsecutive` and `OnlyAskedRunsSkip`
became stronger: their exceptions were not needed.  Two now name what they are about, where
the small instance had hidden it: `NoStopIsLeftOver` manual scans, since an automatic one
obeys a flag that it finds between its bands, and `NoSlotStartsTwice` a time that is listed
once (`ListedOnce`), since a setting that repeats a time starts it twice.  For
`AnswersAreRight` the functions were put into folds and the lengths of their lists became
constants; no part of `AnswerSafety` was weakened.

Only model-checked: the liveness properties (`MarksReleased`, `ProgressEnds`, `Takeover`,
`RunsEnd`), since fairness and ENABLED are outside of the prover's reach.  Every safety
invariant, action property and refinement of a run is proved.

## 5. Where code and comments disagree

Each of these runs ends in a counterexample of the code's own steps.

1. `collector_credential`: `cancel_pending` unmarks a switch (`src/core/collector.py:809`)
   and then clears its credential (812).  A request accepted between the two loses its
   credential and its collection fails with "No credentials available".  The comment at
   `src/app.py:5002` excludes this.  `_abort_enqueue` has the same order; the worker's
   finally block has the right one.
2. `collector_stop`: `cancel_pending` reads the status (819) and writes `new` (821) for a
   switch that may be collected again in between; the result of that collection is
   overwritten.  The comment at 815 says results are left as they are.
3. `bulk_visible`: a status request that found one batch over clears `started`
   (`src/app.py:3620`) of the next, which then has neither progress bar nor stop button.
4. `bulk_stopping`: `stopping` is set after the queue was emptied and is not reset by a new
   batch; "only connected devices are being finished" (3627) is shown for waiting ones.
5. `instances_exit`: an orderly exit gives the lock back while the daemon threads still
   run; `src/core/instance_lock.py:8` promises the lock for the lifetime of the process.
6. `facility_stop`: `collect_band` resets the stop flag and returns `"stopped": False` when a
   band has no ARP entry or its session is lost (`src/core/facility.py:877`);
   `run_auto_scan` then scans the next band, which the comment at 1726 says it does not.

The models name further behaviours, as exceptions of a property or in comments, that a
reader of the code may not expect.  Those that a comment of the code speaks against:

- `core/rackitems.py`: the occupied units are looked up outside of the lock, so that two
  windows can store overlapping items with different first units (`ItemsOverlapOnlyByRace`).
- `core/racklayout.py`: a device at a location that is not a rack is moved by a restore,
  although one "that has a location" is said to be left alone.
- `core/collector.py:1152`: alarms of the log are to be raised at transitions only, but the
  state they are compared with is never written (`flapping.run_analysis` has no caller), so
  that a log that stays bad is announced at every collection.
- `app.py` 1697: an import without an operating system resets a collected one to `auto`.
- `core/pcprofile.py`: an account stored at a PC without a profile keeps the shared source
  address, which may be another PC's, as its own.

Those of which no comment says anything:

- *Startup.* A process that ends after `CREATE TABLE firewalls_new` leaves the UNIQUE
  constraint for good; one that ends between the renaming of a child table and the commit
  leaves its rows in `<child>_bak`.
- *Place of a host.* `facility.py` 1012 and 1401 and `db.find_mac_location` judge without
  the uplinks; the member of a port channel whose other member is an uplink is not one.
- *Sweeps.* When reading the ARP table fails for good, addresses pinged since the last read
  are judged off line; so are all when the routing instance was not recognised.
- *Firewall metrics.* REST and SSH without sensors drop those of SNMP if nothing else was
  told; crossing collections write older values.
- *Servers.* A guessed operating system stays; WMI without specifications and SNMP switched
  off leave a server "done" without a reason.
- *Drivers.* A switch whose outputs mention Alteon may be taken for one, and one stored as
  Alteon is not asked again; a session that breaks after one command is "done".
- *Web shell.* The last output may be lost between the reader's two looks.
- *Walk of a column.* One that a timeout cuts gives too small a number of processors.
- *Configurations.* If deleting old backups fails, a change is stored and not announced.
- *Logs.* A gap of more than 65 days, and 29 February, defeat the correction of the year; an
  alarm that rests on disabled ports only is called flapping and names no port.
- *Accounts.* `clear_all_credentials` leaves those of servers; after a reroute to an adapter
  with an old profile the old account is used.
- *Wall.* Four functions decide on the switch of a host; they agree as long as its row has one.

## 6. Not modelled

- Device parsers (`core/parsers/`) and protocol clients (`core/firewall/`,
  `wmi_collect.py`, `ssh_compat.py`): recognition of text and I/O without state of their
  own; their results and failures are choices of the modules that call them.
- Exports, reports and the browser client: they display what the modelled functions answer.
- Plain reading and editing of one row, settings, logging, schema and formats.
- `flapping.run_analysis`, `facility.reconcile_online_by_mac` and `correlator.correlate` have no
  caller; `correlator.reconcile` answers a query.
- Within the modelled components: demo mode (needs no account), the shutdown sentinel of
  the tests, encryption of accounts (a blob is readable where it was stored), a second
  `init_collector` in one process, a restart of the process in BulkCollect (its record is
  memory only), a repeated id in one bulk request, the names of hosts by DNS and WMI, the
  OIDs and encodings of SNMP, and the wording of answers.
- Interaction between the parts of MCData: each is checked with the environment its module
  states (snapshots that appear, rows that change, threads that write in between), not
  with the other module that causes it.
- A start that takes the lock file for unreadable serves without the lock by design
  (`allow_unlocked=True`); `OneServer` names that exception instead of hiding it.

## 7. Plan

1. Composition of FacilityJobs with FacilityHosts, whose scans are here two views of one
   function, and of SwitchCollector with SwitchStore.
2. The questions that fix a number of hosts, firewalls or devices, for any number of them.
