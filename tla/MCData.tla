------------------------------- MODULE MCData -------------------------------
(***************************************************************************)
(* The parts that keep or compute data and share no state, checked in one  *)
(* run: Init picks the part that the behaviour is about and the others     *)
(* stay as they are.                                                       *)
(***************************************************************************)
EXTENDS FacilityHosts, FacilityMonitor, MacCache, Scheduler, SwitchStore, Notifier,
        ClientAccess, StatusMonitor, Reachability, Registry, MetricsPoller,
        ServerSpecs, BandSweep, WebShell, DriverChoice, SnmpWalk, Startup, RackRoom,
        ConfigBackups, PcProfiles, Topology, Attachment, WallFacility, Imports, TLC

CONSTANT Parts                  \* the parts of this instance
VARIABLE part                   \* the part of this behaviour

MCNotations == {"A", "B"}
MCHosts == {1, 2}
MCSwitches == {"s", "t"}
MCReaders == {"r", "w"}
MCRefreshers == {"x"}
MCTimes == <<0, 3>>
MCDomains == {"a", "b"}
MCCallers == {"k", "l"}
MCAccounts == {"a", "b"}
MCHostRows == << <<1, 1>>, <<1, 2>>, <<2, 1>> >>
MCPorts == {"p", "q"}
MCPcs == {"p", "q", "r"}
MCAddress == "p" :> "A" @@ "q" :> "A" @@ "r" :> "B"
MCNames == {"n", "m"}
MCIps == {"1", "2"}
MCEditors == {"x", "y"}
MCContents == {"c", "d"}
MCCollectors == {"A", "B"}
MCAdopters == {"x", "y"}
MCFirewalls == {1, 2}
MCItems == {1, 2}
MCTopoNodes == 1..5
MCMaxLen == [link |-> 2, firewall |-> 3, bands |-> 4, zone |-> 4, autolink |-> 2, suggest |-> 2,
             history |-> 4, sheet |-> 4, ledger |-> 2, detect |-> 2, vrf |-> 3, log |-> 4]
MCCollecting == {"c", "d"}
MCParts == {"hosts", "monitor", "cache", "scheduler", "store", "mail", "limits",
            "sessions", "status", "ports", "reach", "registry",
            "poller", "env", "specs", "sweep", "shell", "driver",
            "walk", "startup", "room", "backups", "profiles",
            "functions"}

\* What a part that stands still is left with.
AnyOf(S) == CHOOSE x \in S : TRUE

Init ==
    /\ part \in Parts
    /\ IF part = "hosts" THEN HostInit
       ELSE HostFrom(AnyOf(Notations), [h \in Hosts |-> "on"], AnyOf(Notations))
    /\ MonitorInit /\ CacheInit /\ SchedInit /\ StoreInit /\ MailInit /\ LimitInit
    /\ SessionInit /\ StatusInit /\ PortInit /\ ReachInit
    /\ RegInit /\ PollerInit /\ EnvInit /\ QuestionInit
    /\ IF part = "specs" THEN SpecInit ELSE SpecFrom("linux")
    /\ IF part = "sweep" THEN SweepInit ELSE SweepStart({}, {}, "global", TRUE)
    /\ ShellInit
    /\ IF part = "driver" THEN DriverInit
       ELSE DriverFrom([system |-> "ios", tells |-> TRUE, menu |-> FALSE,
                        mentions |-> FALSE], "ios")
    /\ IF part = "walk" THEN WalkInit ELSE WalkFrom(0)
    /\ IF part = "startup" THEN StartupInit ELSE StartupFrom(<<>>)
    /\ RoomInit /\ ProfileInit
    /\ IF part = "backups" THEN BackupInit ELSE BackupFrom(AnyOf(Contents))

\* Nothing but part p moves.
Only(p) ==
    /\ part = p /\ UNCHANGED part
    /\ (p # "hosts"       => UNCHANGED hostVars)
    /\ (p # "monitor"     => UNCHANGED monitorVars)
    /\ (p # "cache"       => UNCHANGED cacheVars)
    /\ (p # "scheduler"   => UNCHANGED schedVars)
    /\ (p # "store"       => UNCHANGED storeVars)
    /\ (p # "mail"        => UNCHANGED mailVars)
    /\ (p # "limits"      => UNCHANGED limitVars)
    /\ (p # "sessions"    => UNCHANGED sessionVars)
    /\ (p # "status"      => UNCHANGED statusVars)
    /\ (p # "ports"       => UNCHANGED portVars)
    /\ (p # "reach"       => UNCHANGED reachVars)
    /\ (p # "registry"    => UNCHANGED regVars)
    /\ (p # "poller"      => UNCHANGED pollVars)
    /\ (p # "env"         => UNCHANGED envVars)
    /\ (p # "specs"       => UNCHANGED specVars)
    /\ (p # "sweep"       => UNCHANGED sweepVars)
    /\ (p # "shell"       => UNCHANGED shellVars)
    /\ (p # "driver"      => UNCHANGED driverVars)
    /\ (p # "walk"        => UNCHANGED walkVars)
    /\ (p # "startup"     => UNCHANGED startVars)
    /\ (p # "room"        => UNCHANGED roomVars)
    /\ (p # "backups"     => UNCHANGED backupVars)
    /\ (p # "profiles"    => UNCHANGED profileVars)
    /\ (p # "functions"   => UNCHANGED question)

\* One question to one function.
Functions == TopoNext \/ EditorNext \/ AttachNext \/ WallNext \/ ImportNext \/ DetectNext
    \/ LogNext \/ SheetNext

Next ==
    \/ part = "hosts" /\ HostNext /\ Only("hosts")
    \/ part = "monitor" /\ MonitorNext /\ Only("monitor")
    \/ part = "cache" /\ CacheNext /\ Only("cache")
    \/ part = "scheduler" /\ SchedNext /\ Only("scheduler")
    \/ part = "store" /\ StoreNext /\ Only("store")
    \/ part = "mail" /\ MailBound /\ MailNext /\ Only("mail")
    \/ part = "limits" /\ LimitNext /\ Only("limits")
    \/ part = "sessions" /\ SessionNext /\ Only("sessions")
    \/ part = "status" /\ StatusNext /\ Only("status")
    \/ part = "ports" /\ PortNext /\ Only("ports")
    \/ part = "reach" /\ ReachNext /\ Only("reach")
    \/ part = "registry" /\ RegNext /\ Only("registry")
    \/ part = "poller" /\ PollerNext /\ Only("poller")
    \/ part = "env" /\ EnvNext /\ Only("env")
    \/ part = "specs" /\ SpecNext /\ Only("specs")
    \/ part = "sweep" /\ SweepNext /\ Only("sweep")
    \/ part = "shell" /\ ShellNext /\ Only("shell")
    \/ part = "driver" /\ DriverNext /\ Only("driver")
    \/ part = "walk" /\ WalkNext /\ Only("walk")
    \/ part = "startup" /\ StartupNext /\ Only("startup")
    \/ part = "room" /\ RoomNext /\ Only("room")
    \/ part = "backups" /\ BackupNext /\ Only("backups")
    \/ part = "profiles" /\ ProfileNext /\ Only("profiles")
    \/ part = "functions" /\ Functions /\ Only("functions")

vars == <<part, hostVars, monitorVars, cacheVars, schedVars, storeVars, mailVars,
          limitVars, sessionVars, statusVars, portVars, reachVars,
          regVars, pollVars, envVars, specVars, sweepVars, shellVars,
          driverVars, walkVars, startVars, roomVars, backupVars, profileVars, question>>

Spec == Init /\ [][Next]_vars

\* Every variable of the parts has its type.
DataTypeOK ==
    /\ HostTypeOK /\ MonitorTypeOK /\ CacheTypeOK /\ SchedTypeOK /\ StoreTypeOK
    /\ MailTypeOK /\ LimitTypeOK /\ SessionTypeOK /\ StatusTypeOK /\ PortTypeOK
    /\ ReachTypeOK /\ RegTypeOK /\ PollerTypeOK /\ EnvTypeOK /\ SpecTypeOK
    /\ ShellTypeOK /\ SweepTypeOK /\ DriverTypeOK /\ WalkTypeOK /\ StartupTypeOK
    /\ RoomTypeOK /\ BackupTypeOK /\ ProfileTypeOK

\* The sweeps over hosts, ports and devices: an outage is announced when it
\* was seen, as often as it has to be seen, and the last event is the state.
PollSafety ==
    /\ [](/\ OutageNeedsTwoPolls /\ EventsFollowTheLink /\ EventsFollowTheState)
    /\ NoBandIsLostAtOnce /\ SharedAddressSharedResult /\ LossIsObserved

\* The limit on requests, the accounts in memory and those of the PCs: each is
\* used in time, by the one it belongs to, and gone when it should be.
AccessSafety ==
    /\ [](/\ NoBurstAboveLimit /\ RefusedForAReason /\ ExpiredAccountsAreGone
          /\ AccountIsFound /\ NewAccountIsUsed /\ ChosenSourceIsOwn)
    /\ LiveAccountsAreKept

\* What the collections of a switch leave in the database tells what happened:
\* last MACs, losses and changes of the configuration, each once; and nothing
\* of a switch that is gone.
StoreSafety ==
    /\ [](/\ OnlyLateRowsSurvive /\ LastMacsAreKept /\ LossesAreRecordedOnce
          /\ ChangesAreTold /\ DiffTellsAChange)
    /\ UnseenOnlyWhenBlind

\* From the counters to the mail: an alarm of the poller has its end, and each
\* is sent once or accounted for.
AlarmSafety ==
    /\ AlarmsAreAccountedFor /\ NewestAreKept /\ MailedOnce /\ ErrorsAreRecordedOnce
    /\ NoErrorIsMissed /\ AlarmsComeInPairs

\* What devices told over one way is not lost to another one: the metrics of
\* a firewall, the specifications of a server, the rows of an SNMP walk.
ReadingSafety ==
    /\ [](/\ ExcusesFitTheSpecs /\ AccountsAreSpared /\ ToldSystemIsKept
          /\ RowsAreOfTheColumn /\ RowsAreComplete)
    /\ NoPathErasesAnother /\ SshNamesTheModel

\* A session that breaks, or a wrong guess at the device, costs nothing that
\* was known: the driver of a switch, the addresses of a band.
SessionSafety ==
    /\ [](OnlyAskedIsOff /\ ParserFitsTheCommands /\ DoneHadAnAnswer /\ AlteonIsAskedOnce)
    /\ FoundStaysFound /\ VendorIsLearned

\* The rows of devices survive what rewrites them: imports, adoption, edits at
\* the same time, the restore of racks.
RowSafety ==
    /\ [](AccountsFitTheAddress /\ ItemsOverlapOnlyByRace)
    /\ AdoptionLosesNoDevice /\ KnownServersKeepTheirData /\ RackedStayPut
    /\ LayoutIsRestored

\* The answers of the functions: the topology, the port a host hangs at, the
\* figures and lists of the wall, what an import keeps, where the sheet of the
\* racks tells a device, which bands and VRF a gateway has and which ports an
\* alarm of the log names agree with the rows that they are computed from, and
\* with each other.
AnswerSafety ==
    /\ LinksAreWitnessed /\ DepthIsDistance /\ FirewallIsLinkedOnce
    /\ BandsBelongToInterfaces /\ KindsAgree /\ ZoneIsBetweenSiteAndType
    /\ AutolinkTellsWhatRowsTell /\ LinePortIsPhysical /\ BandsHaveOneSource
    /\ UplinkIsNeverDirect /\ HistoriesPreferAccess /\ CardsMatchTheirLists
    /\ LineAndFilterAgree /\ TimelineIsTheLastEvent /\ PairsFailTogether
    /\ RowsAreImportedOnce /\ ReadersAgree /\ KnownSpecsSurvive
    /\ LedgerKeepsTheLastWord /\ EveryDeviceIsOnTheSheet /\ CellsAreApart
    /\ VendorFollowsTheBands /\ BandIsPingedWhereItIs
    /\ FlapsAreDense /\ AlarmNamesItsPorts
=============================================================================
