---------------------------- MODULE Data_proofs -----------------------------
(***************************************************************************)
(* Proofs about the parts that MCData composes: what is proved about each  *)
(* by itself holds of all of them together, for any number of devices,     *)
(* addresses, rows, callers and steps.                                     *)
(***************************************************************************)
EXTENDS MCData, Watchers_proofs, Stores_proofs, Answers_proofs

-----------------------------------------------------------------------------
(***************************************************************************)
(* The parts together: each starts and moves by its own specification, and *)
(* stays as it is while another one moves.                                 *)
(***************************************************************************)
LEMMA StartOfParts ==
    Init => /\ HostInit /\ MonitorInit /\ CacheInit /\ SchedInit /\ ShellInit /\ StartupInit
            /\ StatusInit /\ PortInit /\ ReachInit /\ LimitInit /\ SessionInit /\ ProfileInit
            /\ StoreInit /\ BackupInit /\ EnvInit /\ PollerInit
            /\ (SpecInit \/ SpecFrom("linux")) /\ (WalkInit \/ WalkFrom(0))
            /\ MailInit /\ RegInit /\ RoomInit
            /\ (SweepInit \/ SweepStart({}, {}, "global", TRUE))
            /\ \/ DriverInit
               \/ DriverFrom([system |-> "ios", tells |-> TRUE, menu |-> FALSE,
                              mentions |-> FALSE], "ios")
<1>1. AnyOf(Notations) \in Notations /\ AnyOf(Contents) \in Contents
  BY HostsAssumption, BackupAssumption DEF AnyOf
<1>2. HostFrom(AnyOf(Notations), [h \in Hosts |-> "on"], AnyOf(Notations)) => HostInit
  <2>1. [h \in Hosts |-> "on"] \in [Hosts -> {"on", "off"}]
    OBVIOUS
  <2> QED
    BY ONLY <1>1, <2>1 DEF HostInit
<1>3. BackupFrom(AnyOf(Contents)) => BackupInit
  BY ONLY <1>1 DEF BackupInit
<1>4. StartupFrom(<<>>) => StartupInit
  <2>1. <<>> \in OldTables
    BY DEF OldTables
  <2> QED
    BY ONLY <2>1 DEF StartupInit
<1> QED
  BY ONLY <1>2, <1>3, <1>4 DEF Init

LEMMA StepOfParts ==
    [Next]_vars => /\ [HostNext]_hostVars /\ [MonitorNext]_monitorVars /\ [CacheNext]_cacheVars
                   /\ [SchedNext]_schedVars /\ [ShellNext]_shellVars /\ [StartupNext]_startVars
                   /\ [StatusNext]_statusVars /\ [PortNext]_portVars /\ [ReachNext]_reachVars
                   /\ [LimitNext]_limitVars /\ [SessionNext]_sessionVars
                   /\ [ProfileNext]_profileVars /\ [StoreNext]_storeVars
                   /\ [BackupNext]_backupVars /\ [EnvNext]_envVars
                   /\ [PollerNext]_pollVars /\ [SpecNext]_specVars /\ [WalkNext]_walkVars
                   /\ [MailBound /\ MailNext]_mailVars /\ [RegNext]_regVars
                   /\ [RoomNext]_roomVars /\ [SweepNext]_sweepVars /\ [DriverNext]_driverVars
  BY DEF Next, Only, vars

-----------------------------------------------------------------------------
(***************************************************************************)
(* Types.  Each part keeps its own invariant, which implies its type       *)
(* invariant; where it said less, the Typed lemmas complete it.            *)
(***************************************************************************)
WatchersIInv ==
    /\ MonitorIInv /\ SchedIInv /\ ShellIInv /\ StatusIInv /\ PortIInv /\ ReachIInv
    /\ LimitIInv /\ SessionIInv /\ ProfileIInv /\ MailIInv /\ DriverIInv /\ SweepIInv

StoresIInv ==
    /\ HostIInv /\ CacheIInv /\ StoreIInv /\ StoreCounts /\ BackupIInv /\ BackupsAreKnown
    /\ CopiesAreOfTheirTime /\ ReadingsAreCounted /\ PollerIInv /\ SpecIInv /\ WalkIInv
    /\ RegIInv /\ RoomIInv /\ StartIInv

LEMMA WatchersKeep ==
    /\ Init => WatchersIInv
    /\ WatchersIInv /\ [Next]_vars => WatchersIInv'
    /\ WatchersIInv => /\ MonitorTypeOK /\ SchedTypeOK /\ ShellTypeOK /\ StatusTypeOK
                       /\ PortTypeOK /\ ReachTypeOK /\ LimitTypeOK /\ SessionTypeOK
                       /\ ProfileTypeOK /\ MailTypeOK /\ DriverTypeOK /\ SweepTypeOK
<1>1. Init => WatchersIInv
  BY StartOfParts, MonitorInitial, SchedInitial, ShellInitial, StatusInitial, PortInitial,
     ReachInitial, LimitInitial, SessionInitial, ProfileInitial, MailInitial, DriverInitial,
     SweepInitial DEF WatchersIInv
<1>2. WatchersIInv /\ [Next]_vars => WatchersIInv'
  BY StepOfParts, MonitorStep, SchedStep, ShellStep, StatusStep, PortStep, ReachStep,
     LimitStep, SessionStep, ProfileStep, MailStep, DriverStep, SweepStep DEF WatchersIInv
<1>3. WatchersIInv => /\ StatusTypeOK /\ ReachTypeOK /\ LimitTypeOK /\ SessionTypeOK
                      /\ ProfileTypeOK
  BY ONLY StatusTyped, ReachTyped, LimitTyped, SessionTyped, ProfileTyped DEF WatchersIInv
<1>4. WatchersIInv => /\ MonitorTypeOK /\ SchedTypeOK /\ ShellTypeOK /\ PortTypeOK
                      /\ MailTypeOK /\ DriverTypeOK /\ SweepTypeOK
  BY DEF WatchersIInv, MonitorIInv, SchedIInv, ShellIInv, PortIInv, MailIInv, DriverIInv, SweepIInv
<1> QED
  BY ONLY <1>1, <1>2, <1>3, <1>4

LEMMA StoresKeep ==
    /\ Init => StoresIInv
    /\ StoresIInv /\ [Next]_vars => StoresIInv'
    /\ StoresIInv => /\ HostTypeOK /\ CacheTypeOK /\ StoreTypeOK /\ BackupTypeOK /\ EnvTypeOK
                     /\ PollerTypeOK /\ SpecTypeOK /\ WalkTypeOK /\ RegTypeOK /\ RoomTypeOK
                     /\ StartupTypeOK
<1>1. Init => StoresIInv
  BY StartOfParts, HostInitial, CacheInitial, StoreInitial, StoreCounted, BackupInitial,
     BackupsKnown, EnvInitial, ReadingsCounted, PollerInitial, SpecInitial, WalkInitial,
     RegInitial, RoomInitial, StartInitial DEF StoresIInv
<1>2. StoresIInv /\ [Next]_vars => StoresIInv'
  BY StepOfParts, HostStep, CacheStep, StoreStep, StoreCounted, BackupStep, BackupsKnown,
     EnvStep, ReadingsCounted, PollerStep, SpecStep, WalkStep, RegStep, RoomStep, StartStep
     DEF StoresIInv
<1>3. StoresIInv => /\ StoreTypeOK /\ BackupTypeOK /\ EnvTypeOK /\ WalkTypeOK /\ StartupTypeOK
  BY ONLY StoreCounted, BackupsKnown, ReadingsCounted, WalkFacts, StartTyped DEF StoresIInv
<1>4. StoresIInv => RoomTypeOK
  BY DEF StoresIInv, RoomIInv, RoomIsTyped, RoomTypeOK
<1>5. StoresIInv => HostTypeOK /\ CacheTypeOK /\ PollerTypeOK /\ SpecTypeOK /\ RegTypeOK
  BY DEF StoresIInv, HostIInv, CacheIInv, PollerIInv, SpecIInv, RegIInv
<1> QED
  BY ONLY <1>1, <1>2, <1>3, <1>4, <1>5

\* Every variable of every part has its type in every state, for any hosts,
\* switches, firewalls, accounts, rows and bounds.
THEOREM DataTypeCorrect == Spec => []DataTypeOK
<1>1. WatchersIInv /\ StoresIInv => DataTypeOK
  BY ONLY WatchersKeep, StoresKeep DEF DataTypeOK
<1>2. Spec => [](WatchersIInv /\ StoresIInv)
  BY WatchersKeep, StoresKeep, PTL DEF Spec
<1> QED
  BY <1>1, <1>2, PTL

-----------------------------------------------------------------------------
(* The properties of the parts.                                            *)

\* Together the parts keep what each keeps alone: the hosts of the facilities, the
\* facility monitor, the MAC caches, the scheduler, the web shell and the start of
\* the program, each of which the composition implements.
THEOREM PartsAreSafe ==
    Spec => /\ HostSafety /\ MonitorSafety /\ StartupSafety
            /\ [](CacheSafety /\ ScheduleSafety /\ ShellSafety)
<1>1. Spec => HostSpec /\ MonitorSpec
  BY StartOfParts, StepOfParts, PTL DEF Spec, HostSpec, MonitorSpec
<1>2. Spec => CacheSpec /\ SchedSpec
  BY StartOfParts, StepOfParts, PTL DEF Spec, CacheSpec, SchedSpec
<1>3. Spec => ShellSpec /\ StartupSpec
  BY StartOfParts, StepOfParts, PTL DEF Spec, ShellSpec, StartupSpec
<1> QED
  BY <1>1, <1>2, <1>3, HostsAreSafe, MonitorIsSafe, StartsAreSafe, CachesAreSafe,
     SchedulesAreSafe, ShellsAreSafe, PTL

\* An outage is announced when the host was silent in as many polls as it needs
\* and never a whole band at once (check_facility), an event of a port follows
\* its link (check_ports), and one of a device what its address answered
\* (reachability.py), for any hosts, ports and devices.
THEOREM PollsAreSafe == Spec => PollSafety
<1> DEFINE PollsIInv == StatusIInv /\ PortIInv /\ ReachIInv
<1>1. Init => PollsIInv
  BY StartOfParts, StatusInitial, PortInitial, ReachInitial
<1>2. PollsIInv /\ [Next]_vars => PollsIInv'
  BY StepOfParts, StatusStep, PortStep, ReachStep
<1>3. PollsIInv => OutageNeedsTwoPolls /\ EventsFollowTheLink /\ EventsFollowTheState
  BY AnnouncedFollows DEF StatusIInv, ReachIInv
<1>4. Spec => []PollsIInv
  BY <1>1, <1>2, PTL DEF Spec
<1>5. Spec => NoBandIsLostAtOnce
  <2>1. PollsIInv /\ [Next]_vars
          => [\A b \in BandsIn : PollEnd /\ Cardinality(OnlineRows(b)) >= BandGuard
                                 => ~(OnlineRows(b) \subseteq outages')]_statusVars
    BY PollEndKeeps
  <2> QED
    BY <1>4, <2>1, PTL DEF Spec, NoBandIsLostAtOnce
<1>6. Spec => SharedAddressSharedResult
  <2>1. PollsIInv /\ [Next]_vars
          => [\A d, e \in Devices :
                 /\ Address[d] = Address[e] /\ {d, e} \subseteq sweep.list
                 /\ SweepEnd /\ Result(d) # "none"
                 => reach'[d] = reach'[e]]_reachVars
    BY StepOfParts, SharedAndObserved
  <2> QED
    BY <1>4, <2>1, PTL DEF Spec, SharedAddressSharedResult
<1>7. Spec => LossIsObserved
  <2>1. PollsIInv /\ [Next]_vars
          => [\A d \in Devices : reach[d] # "no" /\ reach'[d] = "no"
                                  => sweep.results[TargetOf(d)] = "no"]_reachVars
    BY StepOfParts, SharedAndObserved
  <2> QED
    BY <1>4, <2>1, PTL DEF Spec, LossIsObserved
<1> QED
  BY <1>3, <1>4, <1>5, <1>6, <1>7, PTL DEF PollSafety

\* No caller gets more requests through than the limit in any window, and a
\* request is refused only above it (rate_limit.py); an account is gone after
\* its time and not before (session_cred.py); and the account and the source
\* address that a PC uses are its own and the newest (pc_profiles).
THEOREM AccessIsSafe == Spec => AccessSafety
<1> DEFINE AccessIInv == LimitIInv /\ SessionIInv /\ ProfileIInv
<1>1. Init => AccessIInv
  BY StartOfParts, LimitInitial, SessionInitial, ProfileInitial
<1>2. AccessIInv /\ [Next]_vars => AccessIInv'
  BY StepOfParts, LimitStep, SessionStep, ProfileStep
<1>3. AccessIInv => /\ NoBurstAboveLimit /\ RefusedForAReason /\ ExpiredAccountsAreGone
                    /\ AccountIsFound /\ NewAccountIsUsed /\ ChosenSourceIsOwn
  BY ProfilesAreSafe DEF LimitIInv, SessionIInv
<1>4. Spec => []AccessIInv
  BY <1>1, <1>2, PTL DEF Spec
<1>5. Spec => LiveAccountsAreKept
  <2>1. AccessIInv /\ [Next]_vars
          => [PurgeEnd => \A a \in Accounts : accounts[a] > now
                                             => accounts'[a] = accounts[a]]_sessionVars
    BY PurgeSpares
  <2> QED
    BY <1>4, <2>1, PTL DEF Spec, LiveAccountsAreKept
<1> QED
  BY <1>3, <1>4, <1>5, PTL DEF AccessSafety

\* Of each switch the last MACs, the losses of a MAC table and the changes of
\* the configuration are kept and told once, whatever else is stored, and
\* nothing of a deleted one is (core/db.py, core/collector.py).
THEOREM StoresAreSafe == Spec => StoreSafety
<1> DEFINE SwitchIInv == StoreIInv /\ BackupIInv
<1>1. Init => SwitchIInv
  BY StartOfParts, StoreInitial, BackupInitial
<1>2. SwitchIInv /\ [Next]_vars => SwitchIInv'
  BY StepOfParts, StoreStep, BackupStep
<1>3. SwitchIInv => /\ OnlyLateRowsSurvive /\ LastMacsAreKept /\ LossesAreRecordedOnce
                    /\ ChangesAreTold /\ DiffTellsAChange
  BY StoredIsTold, DiffFacts DEF BackupIInv
<1>4. Spec => []SwitchIInv
  BY <1>1, <1>2, PTL DEF Spec
<1>5. Spec => UnseenOnlyWhenBlind
  <2>1. SwitchIInv /\ [Next]_vars
          => [loss'.unseen > loss.unseen => blind > 1 \/ ~registered]_storeVars
    BY StepOfParts, UnseenIsBlind
  <2> QED
    BY <1>4, <2>1, PTL DEF Spec, UnseenOnlyWhenBlind
<1> QED
  BY <1>3, <1>4, <1>5, PTL DEF StoreSafety

\* What a device told over one way is not lost to another: a server whose
\* specifications were found has no excuse of the ways that failed, its accounts
\* are given away sparingly and its system is not guessed anew
\* (server_collector.py), a walk by SNMP has the rows of its column, all of them
\* unless it was cut short (snmp.py), and no way of asking a firewall erases what
\* another one told (save_firewall_metrics).
THEOREM ReadingsAreSafe == Spec => ReadingSafety
<1> DEFINE ReadingsIInv == SpecIInv /\ WalkIInv /\ CopiesAreOfTheirTime
<1>1. Init => ReadingsIInv
  BY StartOfParts, SpecInitial, WalkInitial, EnvInitial
<1>2. ReadingsIInv /\ [Next]_vars => ReadingsIInv'
  BY StepOfParts, SpecStep, WalkStep, EnvStep
<1>3. ReadingsIInv => /\ ExcusesFitTheSpecs /\ AccountsAreSpared /\ ToldSystemIsKept
                      /\ RowsAreOfTheColumn /\ RowsAreComplete
  BY WalkFacts DEF SpecIInv
<1>4. Spec => []ReadingsIInv
  BY <1>1, <1>2, PTL DEF Spec
<1>5. Spec => NoPathErasesAnother
  <2>1. ReadingsIInv /\ [Next]_vars
          => [~crossed' => \A f \in Fields \ {"notes"} :
                 metrics[f] # Nothing => metrics'[f] # Nothing]_envVars
    BY StepOfParts, EnvStep DEF RowIsKept
  <2> QED
    BY <1>4, <2>1, PTL DEF Spec, NoPathErasesAnother
<1>6. Spec => SshNamesTheModel
  <2>1. ReadingsIInv /\ [Next]_vars
          => [~crossed' /\ metrics["model"] = "ssh" => metrics'["model"] = "ssh"]_envVars
    BY StepOfParts, EnvStep DEF RowIsKept
  <2> QED
    BY <1>4, <2>1, PTL DEF Spec, SshNamesTheModel
<1> QED
  BY <1>3, <1>4, <1>5, <1>6, PTL DEF ReadingSafety

\* An alarm of the poller has its end and each error of an interface is recorded
\* once (metrics_poller.py); the mail of an alarm is sent once, to all or to those
\* it could be sent to, or the alarm was dropped for newer ones (notifier.py).
THEOREM AlarmsAreSafe == Spec => []AlarmSafety
<1> DEFINE AlarmsIInv == MailIInv /\ PollerIInv
<1>1. Init => AlarmsIInv
  BY StartOfParts, MailInitial, PollerInitial
<1>2. AlarmsIInv /\ [Next]_vars => AlarmsIInv'
  BY StepOfParts, MailStep, PollerStep
<1>3. AlarmsIInv => AlarmSafety
  BY MailFacts, RecordedFacts DEF AlarmSafety
<1> QED
  BY <1>1, <1>2, <1>3, PTL DEF Spec

\* No address is judged off line that was not pinged, and what the sweep of a
\* band found stays found whatever breaks (facility.py, collect_band); the parser
\* of a collection is that of the commands, and a type of switch is stored only
\* on the word of the device (collector.py).
THEOREM SessionsAreSafe == Spec => SessionSafety
<1> DEFINE SessionsIInv == SweepIInv /\ DriverIInv
<1>1. Init => SessionsIInv
  BY StartOfParts, SweepInitial, DriverInitial
<1>2. SessionsIInv /\ [Next]_vars => SessionsIInv'
  BY StepOfParts, SweepStep, DriverStep
<1>3. SessionsIInv => OnlyAskedIsOff /\ ParserFitsTheCommands /\ DoneHadAnAnswer /\ AlteonIsAskedOnce
  BY SweepFacts, DriverFacts
<1>4. Spec => []SessionsIInv
  BY <1>1, <1>2, PTL DEF Spec
<1>5. Spec => FoundStaysFound
  <2>1. SessionsIInv /\ [Next]_vars
          => [union \subseteq union' /\ (stage' = "over" => verdicts'.found = union)]_sweepVars
    BY StepOfParts, SweepStep
  <2> QED
    BY <1>4, <2>1, PTL DEF Spec, FoundStaysFound
<1>6. Spec => VendorIsLearned
  <2>1. SessionsIInv /\ [Next]_vars
          => [stored' # stored => stored' = hardware.system \/ hardware.mentions]_driverVars
    BY StepOfParts, DriverStep
  <2> QED
    BY <1>4, <2>1, PTL DEF Spec, VendorIsLearned
<1> QED
  BY <1>3, <1>4, <1>5, <1>6, PTL DEF SessionSafety

\* The account of a switch is for its address and an adopted device is in one of
\* the tables all the time, with its place and system kept (core/db.py, app.py);
\* two items of a rack overlap only if they were saved at the same time, and a
\* restore puts every device of a kept address into its rack and moves none that
\* is in one (rackitems.py, racklayout.py).
THEOREM RowsAreSafe == Spec => RowSafety
<1> DEFINE RowsIInv == RegIInv /\ RoomIInv
<1>1. Init => RowsIInv
  BY StartOfParts, RegInitial, RoomInitial
<1>2. RowsIInv /\ [Next]_vars => RowsIInv'
  BY StepOfParts, RegStep, RoomStep
<1>3. RowsIInv => AccountsFitTheAddress /\ ItemsOverlapOnlyByRace
  BY DEF RegIInv, RoomIInv
<1>4. Spec => []RowsIInv
  BY <1>1, <1>2, PTL DEF Spec
<1>5. Spec => AdoptionLosesNoDevice
  <2>1. RowsIInv /\ [Next]_vars
          => [\A a \in Adopters :
                 adopt[a].at = "delete" /\ adopt'[a].at = "next" /\ adopt[a].row \notin touched =>
                     \A ip \in RowIps : Registered(ip) => Registered(ip)']_regVars
    BY StepOfParts, RegStep DEF AdoptionKeeps
  <2> QED
    BY <1>4, <2>1, PTL DEF Spec, AdoptionLosesNoDevice
<1>6. Spec => KnownServersKeepTheirData
  <2>1. RowsIInv /\ [Next]_vars
          => [\A v \in Present(servers) \ raced :
                 /\ servers[v].os = "linux" => servers'[v].os = "linux" \/ v \in blanked'
                 /\ servers[v].location = "rack" => servers'[v].location = "rack"]_regVars
    BY StepOfParts, RegStep DEF KnownData
  <2> QED
    BY <1>4, <2>1, PTL DEF Spec, KnownServersKeepTheirData
<1>7. Spec => RackedStayPut
  <2>1. RowsIInv /\ [Next]_vars
          => [\A d \in RackDevices :
                 Racked(place[d]) /\ place'[d] # place[d] => d \in handled']_roomVars
    BY StepOfParts, RoomStep
  <2> QED
    BY <1>4, <2>1, PTL DEF Spec, RackedStayPut
<1>8. Spec => LayoutIsRestored
  <2>1. RowsIInv /\ [Next]_vars
          => [restoring /\ ~restoring' =>
                \A k \in DOMAIN layout :
                   \A d \in ListedDevices(k, {"sw", "fw"}) :
                       (\A x \in RackDevices : Kindred(x) = k => x \notin handled)
                           => Racked(place[d])]_roomVars
    BY StepOfParts, RoomStep
  <2> QED
    BY <1>4, <2>1, PTL DEF Spec, LayoutIsRestored
<1> QED
  BY <1>3, <1>4, <1>5, <1>6, <1>7, <1>8, PTL DEF RowSafety

-----------------------------------------------------------------------------
(* The answers of the functions.                                           *)

\* A question is answered right, by the function that it is put to.
LEMMA AnswersGiven == Functions => AnswerSafety'
<1>1. CASE AskLink
  <2>1. question'.of = "link"
    BY ONLY <1>1, AskedByName
  <2> QED
    BY ONLY <1>1, <2>1, NotAskedNext, LinkAnswer DEF AnswerSafety, Asked
<1>2. CASE AskDepth
  <2>1. question'.of = "depth"
    BY ONLY <1>2, AskedByName
  <2> QED
    BY ONLY <1>2, <2>1, NotAskedNext, DepthAnswer DEF AnswerSafety, Asked
<1>3. CASE AskFirewall
  <2>1. question'.of = "firewall"
    BY ONLY <1>3, AskedByName
  <2> QED
    BY ONLY <1>3, <2>1, NotAskedNext, FirewallAnswer DEF AnswerSafety, Asked
<1>4. CASE AskBands
  <2>1. question'.of = "bands"
    BY ONLY <1>4, AskedByName
  <2> QED
    BY ONLY <1>4, <2>1, NotAskedNext, BandsAnswer DEF AnswerSafety, Asked
<1>5. CASE AskKind
  <2>1. question'.of = "kind"
    BY ONLY <1>5, AskedByName
  <2> QED
    BY ONLY <1>5, <2>1, NotAskedNext, KindAnswer DEF AnswerSafety, Asked
<1>6. CASE AskZone
  <2>1. question'.of = "zone"
    BY ONLY <1>6, AskedByName
  <2> QED
    BY ONLY <1>6, <2>1, NotAskedNext, ZoneAnswer DEF AnswerSafety, Asked
<1>7. CASE AskAutolink
  <2>1. question'.of = "autolink"
    BY ONLY <1>7, AskedByName
  <2> QED
    BY ONLY <1>7, <2>1, NotAskedNext, AutolinkAnswer DEF AnswerSafety, Asked
<1>8. CASE AskPort
  <2>1. question'.of = "port"
    BY ONLY <1>8, AskedByName
  <2> QED
    BY ONLY <1>8, <2>1, NotAskedNext, PortAnswer DEF AnswerSafety, Asked
<1>9. CASE AskSuggest
  <2>1. question'.of = "suggest"
    BY ONLY <1>9, AskedByName
  <2> QED
    BY ONLY <1>9, <2>1, NotAskedNext, SuggestAnswer DEF AnswerSafety, Asked
<1>10. CASE AskAttachment
  <2>1. question'.of = "attachment"
    BY ONLY <1>10, AskedByName
  <2> QED
    BY ONLY <1>10, <2>1, NotAskedNext, AttachmentAnswer DEF AnswerSafety, Asked
<1>11. CASE AskHistory
  <2>1. question'.of = "history"
    BY ONLY <1>11, AskedByName
  <2> QED
    BY ONLY <1>11, <2>1, NotAskedNext, HistoryAnswer DEF AnswerSafety, Asked
<1>12. CASE AskHosts
  <2>1. question'.of = "wallHosts"
    BY ONLY <1>12, AskedByName
  <2> QED
    BY ONLY <1>12, <2>1, NotAskedNext, HostsAnswer, CardsAnswer DEF AnswerSafety, Asked
<1>13. CASE AskTimeline
  <2>1. question'.of = "timeline"
    BY ONLY <1>13, AskedByName
  <2> QED
    BY ONLY <1>13, <2>1, NotAskedNext, TimelineAnswer DEF AnswerSafety, Asked
<1>14. CASE AskFirewalls
  <2>1. question'.of = "wallFirewalls"
    BY ONLY <1>14, AskedByName
  <2> QED
    BY ONLY <1>14, <2>1, NotAskedNext, FirewallsAnswer DEF AnswerSafety, Asked
<1>15. CASE AskSheet
  <2>1. question'.of = "sheet"
    BY ONLY <1>15, AskedByName
  <2> QED
    BY ONLY <1>15, <2>1, NotAskedNext, OnceAnswer, AgreeAnswer DEF AnswerSafety, Asked
<1>16. CASE AskSpecs
  <2>1. question'.of = "specs"
    BY ONLY <1>16, AskedByName
  <2> QED
    BY ONLY <1>16, <2>1, NotAskedNext, SpecsAnswer DEF AnswerSafety, Asked
<1>17. CASE AskLedger
  <2>1. question'.of = "ledger"
    BY ONLY <1>17, AskedByName
  <2> QED
    BY ONLY <1>17, <2>1, NotAskedNext, LedgerAnswer DEF AnswerSafety, Asked
<1>18. CASE AskDetection
  <2>1. question'.of = "detect"
    BY ONLY <1>18, AskedByName
  <2> QED
    BY ONLY <1>18, <2>1, NotAskedNext, DetectionAnswer DEF AnswerSafety, Asked
<1>19. CASE AskVrf
  <2>1. question'.of = "vrf"
    BY ONLY <1>19, AskedByName
  <2> QED
    BY ONLY <1>19, <2>1, NotAskedNext, VrfAnswer DEF AnswerSafety, Asked
<1>20. CASE AskLog
  <2>1. question'.of = "log"
    BY ONLY <1>20, AskedByName
  <2> QED
    BY ONLY <1>20, <2>1, NotAskedNext, FlapsAnswer, AlarmAnswer DEF AnswerSafety, Asked
<1>21. CASE AskRackSheet
  <2>1. question'.of = "rack sheet"
    BY ONLY <1>21, AskedByName
  <2> QED
    BY ONLY <1>21, <2>1, NotAskedNext, SheetAnswer, ApartAnswer DEF AnswerSafety, Asked
<1> QED
  BY ONLY <1>1, <1>2, <1>3, <1>4, <1>5, <1>6, <1>7, <1>8, <1>9, <1>10, <1>11, <1>12,
     <1>13, <1>14, <1>15, <1>16, <1>17, <1>18, <1>19, <1>20, <1>21
     DEF Functions, TopoNext, EditorNext, AttachNext, WallNext, ImportNext, DetectNext, LogNext,
         SheetNext

\* Whatever is asked, and whatever else happens, the answers are right: of the topology,
\* the ports and histories of hosts, the wall, the imports, the bands and the vendor of a
\* gateway, the sheet of the racks and the alarms of a log; for lists of any length
\* (MaxLen) and any number of nodes.
THEOREM AnswersAreRight == Spec => []AnswerSafety
<1>1. Init => AnswerSafety
  <2> SUFFICES ASSUME Init PROVE AnswerSafety
    OBVIOUS
  <2>1. question.of = "nothing"
    BY DEF Init, QuestionInit
  <2> QED
    BY ONLY <2>1, NotAsked DEF AnswerSafety, Asked
<1>2. AnswerSafety /\ [Next]_vars => AnswerSafety'
  <2> SUFFICES ASSUME AnswerSafety, [Next]_vars PROVE AnswerSafety'
    OBVIOUS
  <2>1. Functions \/ question' = question
    BY DEF Next, Only, vars
  <2>2. CASE Functions
    BY ONLY <2>2, AnswersGiven
  <2>3. CASE question' = question
    BY ONLY AnswerSafety, <2>3, SameAnswers DEF AnswerSafety
  <2> QED
    BY ONLY <2>1, <2>2, <2>3
<1> QED
  BY <1>1, <1>2, PTL DEF Spec
=============================================================================
