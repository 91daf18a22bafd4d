-------------------------- MODULE Watchers_proofs ---------------------------
(***************************************************************************)
(* Proofs about the parts that watch something on their own, the terminal  *)
(* sessions, the monitor of the facility hosts, the scheduler and the      *)
(* sweeps over hosts, ports and devices, and about what is kept of the     *)
(* callers and PCs that ask: their requests, accounts and addresses, about *)
(* the mail of alarms, and about the sessions that find the driver of a    *)
(* switch and sweep a band.                                                *)
(***************************************************************************)
EXTENDS WebShell, FacilityMonitor, Scheduler, StatusMonitor, Reachability,
        ClientAccess, PcProfiles, Notifier, DriverChoice, BandSweep,
        FiniteSetTheorems, WellFoundedInduction, TLAPS

-----------------------------------------------------------------------------
(* Induction, for sets of numbers.                                         *)

\* A set of natural numbers has a least one.
LEMMA LeastNumber ==
    ASSUME NEW T \in SUBSET Nat, T # {}
    PROVE  \E m \in T : \A n \in T : m <= n
<1>1. IsWellFoundedOn({ss \in Nat \X Nat : ss[1] < ss[2]}, Nat)
  BY NatLessThanWellFounded DEF OpToRel
<1>2. PICK x \in T : \A y \in T : ~ (<<y, x>> \in {ss \in Nat \X Nat : ss[1] < ss[2]})
  BY <1>1, WFMin
<1>3. x \in Nat /\ \A y \in T : y \in Nat /\ ~ (y < x)
  BY <1>2
<1> QED
  BY <1>3

-----------------------------------------------------------------------------
(* The terminal sessions.                                                  *)

\* Input is the only thing that makes a session younger, and a session that
\* the handler looked at in this round is within both limits.
LimitsAreWatched ==
    /\ lastInput = typed
    /\ handler = "serving" /\ watched
           => tick - lastInput <= IdleTimeout /\ tick - opened <= MaxSession

\* Why a reader is through: the output was out of its reach, or the browser
\* is gone, or the shell has ended and everything is shown.
ReaderHasAReason ==
    /\ handler = "idle" => reader = "none" /\ ~stop
    /\ (stop \/ handler = "over") /\ reader \in {"looking", "asking"} => outrun
    /\ reader = "asking" /\ device.exited /\ ~outrun => screen = device.sent
    /\ reader = "over" => outrun \/ ~browser \/ (device.exited /\ screen = device.sent)

ShellIInv ==
    /\ ShellTypeOK /\ device \in [sent : Nat, exited : BOOLEAN]
    /\ AccountFitsTheKind /\ SessionsAreBounded /\ LimitsAreWatched /\ ReaderHasAReason

LEMMA ShellInitial == ShellInit => ShellIInv
<1> SUFFICES ASSUME ShellInit PROVE ShellIInv
    OBVIOUS
<1> USE ShellAssumption DEF ShellInit
<1>1. ShellTypeOK
  <2>1. device.sent = 0 /\ ~device.exited /\ 0 \in 0..OutputMax /\ 0 \in 0..0 /\ 0 \in 0..ShellEnd
    OBVIOUS
  <2> QED
    BY <2>1 DEF ShellTypeOK
<1>2. device \in [sent : Nat, exited : BOOLEAN]
  OBVIOUS
<1>3. AccountFitsTheKind /\ SessionsAreBounded
  BY DEF AccountFitsTheKind, SessionsAreBounded
<1>4. LimitsAreWatched /\ ReaderHasAReason
  BY DEF LimitsAreWatched, ReaderHasAReason
<1> QED
  BY <1>1, <1>2, <1>3, <1>4 DEF ShellIInv

LEMMA ShellStep == ShellIInv /\ [ShellNext]_shellVars => ShellIInv'
<1> SUFFICES ASSUME ShellIInv, [ShellNext]_shellVars PROVE ShellIInv'
    OBVIOUS
<1> USE ShellAssumption
    DEF ShellIInv, ShellTypeOK, AccountFitsTheKind, SessionsAreBounded,
        LimitsAreWatched, ReaderHasAReason, Kinds, threadVars, clockVars
<1>1. ASSUME NEW kind \in Kinds, NEW kept \in Kept, NEW answers \in BOOLEAN, Connect(kind, kept, answers)
      PROVE ShellIInv'
  <2>1. asked' = kind /\ login' \in {"none", "session", kind}
        /\ (login' = "session" => kind = "switch")
    BY <1>1 DEF Connect, AccountFor
  <2>2. \/ handler' = "over" /\ reader' = "none"
        \/ handler' = "serving" /\ reader' = "looking"
    BY <1>1 DEF Connect
  <2>3. /\ handler = "idle" /\ UNCHANGED <<stop, device, screen, browser, tick, outrun>>
        /\ opened' = tick /\ lastInput' = tick /\ typed' = tick /\ watched' = FALSE
    BY <1>1 DEF Connect
  <2>4. ShellTypeOK'
    <3>1. login' \in {"none", "session"} \cup Kinds /\ asked' \in Kinds \cup {"none"}
      BY <2>1
    <3>2. opened' \in 0..tick' /\ lastInput' \in opened'..tick' /\ typed' \in opened'..tick'
      BY <2>3
    <3> QED
      BY <2>2, <2>3, <3>1, <3>2
  <2>5. AccountFitsTheKind' /\ SessionsAreBounded' /\ LimitsAreWatched'
    BY <2>1, <2>2, <2>3
  <2>6. ReaderHasAReason'
    BY <2>2, <2>3
  <2> QED
    BY <2>3, <2>4, <2>5, <2>6
<1>2. CASE DeviceSends
  BY <1>2 DEF DeviceSends
<1>3. ASSUME NEW n \in {0, 1}, DeviceExits(n)
      PROVE ShellIInv'
  <2>1. /\ device.sent \in 0..OutputMax /\ device.sent + n \in 0..OutputMax
        /\ device.sent <= device.sent + n
    BY <1>3 DEF DeviceExits
  <2>2. /\ device'.sent = device.sent + n /\ device'.exited
        /\ device' \in [sent : Nat, exited : BOOLEAN]
    BY <1>3, <2>1 DEF DeviceExits
  <2>3. screen \in 0..(device.sent + n)
    BY <2>1
  <2>4. ShellTypeOK'
    BY <1>3, <2>1, <2>2, <2>3 DEF DeviceExits
  <2>5. ReaderHasAReason'
    BY <1>3, <2>1, <2>2 DEF DeviceExits
  <2> QED
    BY <1>3, <2>2, <2>4, <2>5 DEF DeviceExits
<1>4. CASE BrowserLeaves
  BY <1>4 DEF BrowserLeaves
<1>5. CASE ShellTick
  <2>1. ShellTypeOK'
    <3>1. /\ tick' \in 0..ShellEnd /\ opened \in 0..tick'
          /\ lastInput \in opened..tick' /\ typed \in opened..tick'
      BY <1>5 DEF ShellTick
    <3> QED
      BY <1>5, <3>1 DEF ShellTick
  <2>2. SessionsAreBounded'
    BY <1>5 DEF ShellTick
  <2> QED
    BY <1>5, <2>1, <2>2 DEF ShellTick
<1>6. CASE Deliver
  BY <1>6 DEF Deliver, Pumpable
<1>7. CASE NothingToRead
  BY <1>7 DEF NothingToRead, Pumpable
<1>8. CASE ReaderGivesUp
  BY <1>8 DEF ReaderGivesUp, ReaderEnds, Pumpable
<1>9. CASE LookAgain
  BY <1>9 DEF LookAgain
<1>10. CASE ReaderHasEnded
  BY <1>10 DEF ReaderHasEnded, EndSession
<1>11. CASE SessionTimesOut
  BY <1>11 DEF SessionTimesOut, EndSession
<1>12. CASE BrowserIsGone
  BY <1>12 DEF BrowserIsGone, EndSession
<1>13. CASE InputIsLost
  BY <1>13 DEF InputIsLost, EndSession
<1>14. CASE InputIsSent
  BY <1>14 DEF InputIsSent, TimedOut
<1>15. CASE NoInput
  BY <1>15 DEF NoInput, TimedOut
<1>16. CASE UNCHANGED shellVars
  BY <1>16 DEF shellVars
<1> QED
  BY <1>1, <1>2, <1>3, <1>4, <1>5, <1>6, <1>7, <1>8, <1>9, <1>10, <1>11, <1>12, <1>13, <1>14, <1>15, <1>16
     DEF ShellNext

\* Whatever the limits and however much the device says: a session uses an
\* account of its own kind of device, shows the last words of a shell that
\* ended, and ends in time (run_shell and its reader thread).
THEOREM ShellsAreSafe == ShellSpec => []ShellSafety
<1>1. ShellIInv => ShellSafety
  BY DEF ShellIInv, ShellSafety, LastWordsAreShown, ReaderHasAReason
<1> QED
  BY ShellInitial, ShellStep, <1>1, PTL DEF ShellSpec

-----------------------------------------------------------------------------
(* The monitor of the facility hosts.                                      *)

Polls == [at : {"idle", "hosts", "judge"}, alive : BOOLEAN, under : [Switches -> Int],
          row : {"gone", "on", "off"}]

\* A poll that found the host's MAC nowhere read tables that lack it, and one
\* that did not is going to drop the count.
PollIsOnRecord ==
    poll.at # "idle" => Switches # {} /\ (~poll.alive => poll.under \in lacking)

\* A miss on record was a generation that lacked the MAC, unless the
\* generation was in doubt; a poll under way that saw the MAC will drop it.
MissIsOnRecord ==
    missed # NoMiss /\ (poll.at = "idle" \/ ~poll.alive) =>
        lacking # {} /\ (~doubtful => missed.of \in lacking)

MonitorIInv ==
    /\ MonitorTypeOK /\ poll \in Polls /\ IsFiniteSet(lacking)
    /\ missed = NoMiss \/ missed \in [n : {1}, of : [Switches -> Int]]
    /\ PollIsOnRecord /\ MissIsOnRecord

LEMMA MonitorInitial == MonitorInit => MonitorIInv
<1> SUFFICES ASSUME MonitorInit PROVE MonitorIInv
    OBVIOUS
<1> USE MonitorAssumption DEF MonitorInit
<1>1. MonitorTypeOK
  <2>1. 0 \in 0..MaxSnapshots
    OBVIOUS
  <2>2. newest \in Generations /\ withMacs = newest /\ \A s \in Switches : withMacs[s] <= newest[s]
    BY <2>1 DEF Generations
  <2>3. poll.at = "idle" /\ poll.row = "gone"
    BY DEF Resting
  <2> QED
    BY <2>2, <2>3 DEF MonitorTypeOK
<1>2. poll \in Polls /\ IsFiniteSet(lacking)
  BY FS_EmptySet DEF Polls, Resting, Unread
<1>3. PollIsOnRecord /\ MissIsOnRecord
  BY DEF PollIsOnRecord, MissIsOnRecord, Resting
<1> QED
  BY <1>1, <1>2, <1>3 DEF MonitorIInv

\* The count of the host after a poll that missed it.
LEMMA Counted ==
    ASSUME missed = NoMiss \/ missed \in [n : {1}, of : [Switches -> Int]],
           NEW generation \in [Switches -> Int],
           Switches # {}, \A s \in Switches : generation[s] >= -1
    PROVE  /\ CountMiss(generation) \in [n : {1, 2}, of : {generation}]
           /\ CountMiss(generation).n >= MISS_THRESHOLD =>
                  missed # NoMiss /\ missed.of # generation
<1>1. CASE missed = NoMiss
  <2>1. missed.n = 0 /\ missed.of = [s \in Switches |-> -2]
    BY <1>1 DEF NoMiss
  <2>2. missed.of # generation
    BY <2>1
  <2> QED
    BY <2>1, <2>2 DEF CountMiss, MISS_THRESHOLD
<1>2. CASE missed \in [n : {1}, of : [Switches -> Int]]
  <2>1. missed # NoMiss
    BY <1>2 DEF NoMiss
  <2> QED
    BY <1>2, <2>1 DEF CountMiss, MISS_THRESHOLD
<1> QED
  BY <1>1, <1>2

\* A new snapshot is newer than those of every switch, and within the bound.
LEMMA NewestIsUnique ==
    ASSUME newest \in Generations, NEW s \in Switches,
           \A r \in Switches : newest[r] < MaxSnapshots
    PROVE  LET id == 1 + newest[CHOOSE r \in Switches : \A q \in Switches : newest[q] <= newest[r]]
           IN  id \in 0..MaxSnapshots /\ \A q \in Switches : newest[q] < id
<1> DEFINE left == {MaxSnapshots - newest[q] : q \in Switches}
<1>1. \A q \in Switches : newest[q] \in 0..MaxSnapshots - 1
  BY MonitorAssumption DEF Generations
<1>2. left \in SUBSET Nat /\ left # {}
  BY <1>1, MonitorAssumption
<1>3. PICK m \in left : \A n \in left : m <= n
  BY <1>2, LeastNumber
<1>4. PICK r \in Switches : m = MaxSnapshots - newest[r]
  BY <1>3
<1>5. ASSUME NEW q \in Switches PROVE newest[q] <= newest[r]
  <2>1. MaxSnapshots - newest[r] <= MaxSnapshots - newest[q]
    BY <1>3, <1>4
  <2>2. newest[q] \in Int /\ newest[r] \in Int /\ MaxSnapshots \in Int
    BY <1>1, MonitorAssumption
  <2> QED
    BY <2>1, <2>2
<1> DEFINE last == CHOOSE x \in Switches : \A q \in Switches : newest[q] <= newest[x]
<1>6. last \in Switches /\ \A q \in Switches : newest[q] <= newest[last]
  BY <1>5
<1> QED
  BY <1>1, <1>6, MonitorAssumption

LEMMA MonitorStep ==
    MonitorIInv /\ [MonitorNext]_monitorVars =>
        /\ MonitorIInv'
        /\ shown = "on" /\ shown' = "off" =>
               Cardinality(lacking) >= MISS_THRESHOLD \/ doubtful'
<1> SUFFICES ASSUME MonitorIInv, [MonitorNext]_monitorVars
             PROVE  /\ MonitorIInv'
                    /\ shown = "on" /\ shown' = "off" =>
                           Cardinality(lacking) >= MISS_THRESHOLD \/ doubtful'
    OBVIOUS
<1> USE MonitorAssumption
<1>t. /\ MonitorTypeOK /\ poll \in Polls /\ IsFiniteSet(lacking)
      /\ missed = NoMiss \/ missed \in [n : {1}, of : [Switches -> Int]]
      /\ PollIsOnRecord /\ MissIsOnRecord
  BY DEF MonitorIInv
<1>1. ASSUME NEW s \in Switches, StoreSnapshot(s) PROVE MonitorIInv' /\ shown' = shown
  <2>1. UNCHANGED <<shown, missed, poll, lacking, doubtful>>
    BY <1>1 DEF StoreSnapshot
  <2>2. PICK id \in 0..MaxSnapshots :
            /\ newest' = [newest EXCEPT ![s] = id] /\ newest[s] < id
    <3>1. newest \in Generations /\ \A r \in Switches : newest[r] < MaxSnapshots
      BY <1>1, <1>t DEF StoreSnapshot, MonitorTypeOK
    <3> QED
      BY <1>1, <3>1, NewestIsUnique DEF StoreSnapshot
  <2>3. \/ withMacs' = [withMacs EXCEPT ![s] = newest'[s]] /\ holds' \in [Switches -> BOOLEAN]
        \/ UNCHANGED <<withMacs, holds>>
    BY <1>1, <1>t DEF StoreSnapshot, MonitorTypeOK
  <2>4. newest' \in Generations /\ newest'[s] = id /\ newest[s] < newest'[s]
        /\ \A r \in Switches \ {s} : newest'[r] = newest[r]
    BY <1>t, <2>2 DEF MonitorTypeOK, Generations
  <2>5. withMacs' \in Generations /\ \A r \in Switches : withMacs'[r] <= newest'[r]
    BY <1>t, <2>3, <2>4 DEF MonitorTypeOK, Generations
  <2>6. MonitorTypeOK'
    BY <1>t, <2>1, <2>3, <2>4, <2>5 DEF MonitorTypeOK, NoMiss
  <2> QED
    BY <2>1, <2>6, <1>t DEF MonitorIInv, PollIsOnRecord, MissIsOnRecord, NoMiss
<1>2. CASE ReadMacs
  <2>1. /\ poll.at = "idle" /\ UNCHANGED <<newest, withMacs, holds, shown, missed, doubtful>>
        /\ poll' = [poll EXCEPT !.at = "hosts", !.under = withMacs,
                               !.alive = \E s \in Recorded : holds[s]]
        /\ lacking' = IF \E s \in Recorded : holds[s] THEN {} ELSE lacking \cup {withMacs}
        /\ Switches # {}
    BY <1>2 DEF ReadMacs, MacsOf, Recorded
  <2>2. withMacs \in [Switches -> Int] /\ withMacs \in Generations /\ lacking \subseteq Generations
    BY <1>t DEF MonitorTypeOK, Generations
  <2>3. /\ poll' \in Polls /\ poll'.at = "hosts" /\ poll'.under = withMacs
        /\ poll'.alive <=> \E s \in Recorded : holds[s]
        /\ poll'.row = poll.row
    BY <1>t, <2>1, <2>2 DEF Polls
  <2>4. IsFiniteSet(lacking') /\ lacking' \subseteq Generations
    BY <1>t, <2>1, <2>2, FS_EmptySet, FS_AddElement
  <2>5. MonitorTypeOK'
    BY <1>t, <2>1, <2>3, <2>4 DEF MonitorTypeOK, Generations, NoMiss, Polls
  <2>6. PollIsOnRecord'
    BY <2>1, <2>3 DEF PollIsOnRecord
  <2>7. MissIsOnRecord'
    BY <1>t, <2>1, <2>3 DEF MissIsOnRecord, NoMiss
  <2> QED
    BY <1>t, <2>1, <2>3, <2>4, <2>5, <2>6, <2>7 DEF MonitorIInv, NoMiss
<1>3. CASE ReadHosts
  <2>1. /\ poll.at = "hosts" /\ poll' = [poll EXCEPT !.at = "judge", !.row = shown]
        /\ UNCHANGED <<newest, withMacs, holds, shown, missed, lacking, doubtful>>
    BY <1>3 DEF ReadHosts
  <2>2. /\ poll' \in Polls /\ poll'.at = "judge" /\ poll'.under = poll.under
        /\ poll'.alive = poll.alive
    BY <1>t, <2>1 DEF Polls, MonitorTypeOK
  <2>3. MonitorTypeOK'
    BY <1>t, <2>1, <2>2 DEF MonitorTypeOK, Generations, NoMiss, Polls
  <2> QED
    BY <1>t, <2>1, <2>2, <2>3 DEF MonitorIInv, PollIsOnRecord, MissIsOnRecord, NoMiss
<1>4. CASE Judge
  <2>1. PICK generation \in {withMacs, Unread} :
          LET counted == CountMiss(generation)
              off == counted.n >= MISS_THRESHOLD
          IN
          IF poll.row = "gone" THEN missed' = NoMiss /\ UNCHANGED <<shown, doubtful>>
          ELSE IF poll.alive
          THEN /\ missed' = NoMiss
               /\ doubtful' = FALSE
               /\ \/ poll.row = "off" /\ shown' = "on"
                  \/ UNCHANGED shown
          ELSE IF poll.row = "on"
          THEN /\ missed' = IF off THEN NoMiss ELSE counted
               /\ doubtful' = (doubtful \/ generation # poll.under)
               /\ \/ off /\ shown' = "off"
                  \/ UNCHANGED shown
          ELSE UNCHANGED <<missed, shown, doubtful>>
    BY <1>4 DEF Judge, AfterSeen, AfterLoss
  <2>2. /\ poll.at = "judge" /\ UNCHANGED <<newest, withMacs, holds>>
        /\ lacking' = IF poll.row = "gone" \/ shown' # shown THEN {} ELSE lacking
        /\ poll' = Resting
    BY <1>4 DEF Judge
  <2>3. /\ poll' \in Polls /\ poll'.at = "idle" /\ poll'.row = "gone"
    BY <2>2 DEF Polls, Resting, Unread
  <2>4. IsFiniteSet(lacking') /\ lacking' \subseteq Generations
    BY <1>t, <2>2, FS_EmptySet DEF MonitorTypeOK
  <2> DEFINE counted == CountMiss(generation)
             off == counted.n >= MISS_THRESHOLD
  <2>5. ~poll.alive => poll.under \in lacking
    BY <1>t, <2>2 DEF PollIsOnRecord
  <2>6. missed # NoMiss /\ ~poll.alive => lacking # {} /\ (~doubtful => missed.of \in lacking)
    BY <1>t DEF MissIsOnRecord
  <2>7. ASSUME poll.row = "on", ~poll.alive
        PROVE  /\ counted \in [n : {1, 2}, of : {generation}]
               /\ generation \in [Switches -> Int]
               /\ off => missed # NoMiss /\ missed.of # generation
    <3>1. Switches # {}
      BY <1>t, <2>2 DEF PollIsOnRecord
    <3>2. generation \in [Switches -> Int] /\ \A s \in Switches : generation[s] >= -1
      BY <1>t DEF MonitorTypeOK, Generations, Unread
    <3> QED
      BY <1>t, <3>1, <3>2, Counted
  <2>8. CASE poll.row = "gone" \/ poll.alive
    <3>1. missed' = NoMiss /\ ~(shown = "on" /\ shown' = "off") /\ shown' \in {"gone", "on", "off"}
          /\ doubtful' \in BOOLEAN
      BY <1>t, <2>1, <2>8 DEF MonitorTypeOK
    <3>2. MonitorTypeOK'
      BY <1>t, <2>2, <2>3, <2>4, <3>1 DEF MonitorTypeOK
    <3> QED
      BY <2>3, <2>4, <3>1, <3>2 DEF MonitorIInv, PollIsOnRecord, MissIsOnRecord
  <2>9. CASE poll.row = "on" /\ ~poll.alive
    <3>1. /\ missed' = IF off THEN NoMiss ELSE counted
          /\ doubtful' = (doubtful \/ generation # poll.under)
          /\ (off /\ shown' = "off") \/ UNCHANGED shown
      BY <2>1, <2>9
    <3>2. ~off => counted \in [n : {1}, of : {generation}]
      BY <2>7, <2>9 DEF MISS_THRESHOLD
    <3>3. missed' = NoMiss \/ missed' \in [n : {1}, of : {generation}]
      BY <3>1, <3>2
    <3>4. shown = "on" /\ shown' = "off" => Cardinality(lacking) >= MISS_THRESHOLD \/ doubtful'
      <4> SUFFICES ASSUME off, ~doubtful' PROVE Cardinality(lacking) >= MISS_THRESHOLD
        BY <3>1
      <4>1. missed.of \in lacking /\ generation \in lacking /\ missed.of # generation
        BY <2>5, <2>6, <2>7, <2>9, <3>1
      <4>2. IsFiniteSet({missed.of, generation}) /\ Cardinality({missed.of, generation}) = 2
        <5>1. IsFiniteSet({missed.of}) /\ Cardinality({missed.of}) = 1
          BY FS_Singleton
        <5>2. {missed.of} \cup {generation} = {missed.of, generation}
          OBVIOUS
        <5>3. /\ IsFiniteSet({missed.of} \cup {generation})
              /\ Cardinality({missed.of} \cup {generation}) =
                     IF generation \in {missed.of} THEN Cardinality({missed.of})
                     ELSE Cardinality({missed.of}) + 1
          BY <5>1, FS_AddElement
        <5> QED
          BY <4>1, <5>1, <5>2, <5>3
      <4>3. Cardinality({missed.of, generation}) <= Cardinality(lacking)
        BY <1>t, <4>1, FS_Subset
      <4> QED
        BY <1>t, <4>2, <4>3, FS_CardinalityType DEF MISS_THRESHOLD
    <3>5. shown' \in {"gone", "on", "off"} /\ doubtful' \in BOOLEAN
      BY <1>t, <3>1 DEF MonitorTypeOK
    <3>6. MonitorTypeOK'
      BY <1>t, <2>2, <2>3, <2>4, <3>3, <3>5 DEF MonitorTypeOK, MISS_THRESHOLD
    <3>7. MissIsOnRecord'
      <4> SUFFICES ASSUME missed' # NoMiss
                   PROVE  lacking' # {} /\ (~doubtful' => missed'.of \in lacking')
        BY DEF MissIsOnRecord, NoMiss
      <4>1. ~off /\ missed'.of = generation
        BY <3>1, <3>3
      <4>2. lacking' = lacking
        BY <2>2, <2>9, <3>1, <4>1
      <4> QED
        BY <2>5, <2>9, <3>1, <4>1, <4>2
    <3>8. missed' = NoMiss \/ missed' \in [n : {1}, of : [Switches -> Int]]
      BY <2>7, <2>9, <3>3
    <3> QED
      BY <2>3, <2>4, <3>4, <3>6, <3>7, <3>8 DEF MonitorIInv, PollIsOnRecord, NoMiss
  <2>10. CASE poll.row = "off" /\ ~poll.alive
    <3>1. UNCHANGED <<missed, shown, doubtful>> /\ lacking' = lacking
      BY <2>1, <2>2, <2>10
    <3>2. MonitorTypeOK'
      BY <1>t, <2>2, <2>3, <3>1 DEF MonitorTypeOK, NoMiss
    <3>3. MissIsOnRecord'
      BY <2>6, <2>10, <3>1 DEF MissIsOnRecord, NoMiss
    <3> QED
      BY <1>t, <2>3, <2>4, <3>1, <3>2, <3>3 DEF MonitorIInv, PollIsOnRecord, NoMiss
  <2> QED
    BY <1>t, <2>8, <2>9, <2>10 DEF Polls
<1>5. CASE HostAnswers
  BY <1>5, <1>t DEF HostAnswers, MonitorIInv, MonitorTypeOK, PollIsOnRecord, MissIsOnRecord, NoMiss
<1>6. CASE HostDeleted
  BY <1>6, <1>t DEF HostDeleted, MonitorIInv, MonitorTypeOK, PollIsOnRecord, MissIsOnRecord, NoMiss
<1>7. CASE UNCHANGED monitorVars
  BY <1>7, <1>t DEF monitorVars, MonitorIInv, MonitorTypeOK, PollIsOnRecord, MissIsOnRecord, NoMiss
<1> QED
  BY <1>1, <1>2, <1>3, <1>4, <1>5, <1>6, <1>7 DEF MonitorNext, ReadMacs, ReadHosts, HostAnswers, HostDeleted, monitorVars

\* For every set of switches and number of collections: a host that the
\* monitor reports lost was missing from two generations of the MAC tables,
\* and the misses on record are consecutive (monitor_known_hosts).
THEOREM MonitorIsSafe == MonitorSpec => MonitorSafety
<1>1. MonitorIInv => MissesAreConsecutive
  BY DEF MonitorIInv, MissIsOnRecord, MissesAreConsecutive
<1>2. MonitorIInv /\ [MonitorNext]_monitorVars =>
          [shown = "on" /\ shown' = "off" =>
              Cardinality(lacking) >= MISS_THRESHOLD \/ doubtful']_monitorVars
  BY MonitorStep
<1> QED
  BY MonitorInitial, MonitorStep, <1>1, <1>2, PTL
     DEF MonitorSpec, MonitorSafety, LossNeedsTwoGenerations

-----------------------------------------------------------------------------
(* The scheduler.                                                          *)

\* What was started last is on record, nothing is started ahead of its time,
\* and what an iteration that breaks may look at again was remembered.
SchedIInv ==
    /\ SchedTypeOK
    /\ NoSlotIsMissed
    /\ lastSlot # 0 => started[lastSlot] > 0 \/ lastSlot \in excused
    /\ \A t \in Occurrences : t > clock => started[t] = 0
    /\ \A t \in Occurrences \ (broken \cap crowded) : ListedOnce(t) =>
           /\ started[t] <= 1
           /\ lastCheck < t /\ started[t] > 0 => t \in broken /\ lastSlot = t

\* A number of days and a time of day.
LEMMA TimeOfDay ==
    ASSUME NEW q \in Int, NEW r \in 0..Day - 1 PROVE (Day * q + r) % Day = r
BY SMTT(30), SchedulerAssumption

LEMMA DayAndTime ==
    ASSUME NEW t \in Nat
    PROVE  /\ t % Day \in 0..Day - 1
           /\ t \div Day \in Int /\ t = Day * (t \div Day) + (t % Day)
BY SchedulerAssumption

\* The last of some places.
LEMMA LastPlace ==
    ASSUME NEW S \in SUBSET DOMAIN Times, S # {}
    PROVE  \E i \in S : \A j \in S : j <= i
<1>1. DOMAIN Times = 1..Len(Times) /\ Len(Times) \in Nat
  BY SchedulerAssumption
<1> DEFINE T == {Len(Times) - i : i \in S}
<1>2. T \in SUBSET Nat /\ T # {}
  BY <1>1
<1>3. PICK m \in T : \A n \in T : m <= n
  BY <1>2, LeastNumber
<1>4. PICK i \in S : m = Len(Times) - i
  BY <1>3
<1>5. \A j \in S : Len(Times) - i <= Len(Times) - j
  BY <1>3, <1>4
<1> QED
  BY <1>1, <1>4, <1>5

SchedTypes ==
    /\ clock \in Nat /\ lastCheck \in Nat /\ lastCheck <= clock /\ Day \in Nat \ {0}
    /\ CatchUp \in Nat /\ CatchUp < Day /\ clock <= MaxClock /\ MaxClock \in Nat
    /\ \A i \in DOMAIN Times : Times[i] \in 0..Day - 1
    /\ DOMAIN Times = 1..Len(Times) /\ Len(Times) \in Nat

LEMMA SchedTyped == SchedIInv => SchedTypes
BY SchedulerAssumption DEF SchedIInv, SchedTypeOK, SchedTypes

\* At most one candidate for a time is in the window.
LEMMA OneCandidate ==
    ASSUME SchedTypes, clock - lastCheck <= CatchUp, NEW i \in DOMAIN Times,
           NEW c \in Candidates(Times[i]), InWindow(c)
    PROVE  When(i) = c
<1>0. Times[i] \in Int /\ Day \in Int /\ Day > 0 /\ clock \in Int
  BY DEF SchedTypes
<1>1. Today \in Int
  BY <1>0, DayAndTime DEF SchedTypes, Today
<1>2. \A d \in Candidates(Times[i]) : InWindow(d) => d = c
  BY <1>0, <1>1 DEF Candidates, InWindow, SchedTypes
<1>3. c \in Int /\ c <= c
  BY <1>0, <1>1 DEF Candidates
<1>4. \E d \in Candidates(Times[i]) :
          InWindow(d) /\ \A e \in Candidates(Times[i]) : InWindow(e) => e <= d
  BY <1>2, <1>3
<1>5. When(i) \in Candidates(Times[i]) /\ InWindow(When(i))
  BY <1>4 DEF When
<1> QED
  BY <1>2, <1>5

\* A candidate is an occurrence of its time.
LEMMA CandidateFacts ==
    ASSUME SchedTypes, NEW i \in DOMAIN Times, NEW c \in Candidates(Times[i]), InWindow(c)
    PROVE  c \in Window /\ c % Day = Times[i]
<1>1. /\ clock % Day \in 0..Day - 1
      /\ clock \div Day \in Int /\ clock = Day * (clock \div Day) + (clock % Day)
  BY DayAndTime DEF SchedTypes
<1> DEFINE q == clock \div Day
<1>2. q \in Int /\ Today = Day * q
  BY <1>1 DEF Today, SchedTypes
<1> HIDE DEF q
<1>3. Times[i] \in 0..Day - 1 /\ Day \in Int
  BY DEF SchedTypes
<1>4. c = Day * q + Times[i] \/ c = Day * (q - 1) + Times[i]
  BY <1>2, <1>3 DEF Candidates
<1>5. c % Day = Times[i]
  <2>1. q - 1 \in Int
    BY <1>2
  <2> QED
    BY <1>2, <1>3, <1>4, <2>1, TimeOfDay
<1>6. c \in 1..MaxClock
  BY <1>2, <1>3, <1>4 DEF SchedTypes, InWindow
<1> QED
  BY <1>5, <1>6 DEF Window, Occurrences, InWindow

\* What is due is what falls into the window.
LEMMA DueFacts ==
    ASSUME SchedTypes
    PROVE  /\ DueSlots \subseteq DOMAIN Times
           /\ \A i \in DueSlots : When(i) \in Window /\ When(i) % Day = Times[i]
           /\ clock - lastCheck <= CatchUp => \A t \in Window : \E i \in DueSlots : When(i) = t
<1>0. clock - lastCheck \in Int /\ CatchUp \in Int
  BY DEF SchedTypes
<1>1. ASSUME NEW i \in DueSlots
      PROVE  i \in DOMAIN Times /\ When(i) \in Window /\ When(i) % Day = Times[i]
  <2>1. /\ clock - lastCheck <= CatchUp
        /\ i \in DOMAIN Times /\ \E c \in Candidates(Times[i]) : InWindow(c)
    BY <1>0 DEF DueSlots
  <2>2. PICK c \in Candidates(Times[i]) : InWindow(c)
    BY <2>1
  <2> QED
    BY <2>1, <2>2, OneCandidate, CandidateFacts
<1>2. ASSUME clock - lastCheck <= CatchUp, NEW t \in Window
      PROVE  \E i \in DueSlots : When(i) = t
  <2>1. t \in Nat /\ lastCheck < t /\ t <= clock
    BY DEF Window, Occurrences
  <2>2. PICK i \in DOMAIN Times : t % Day = Times[i]
    BY DEF Window, Occurrences
  <2> DEFINE q == clock \div Day
             p == t \div Day
             r == clock % Day
  <2>3. q \in Int /\ r \in 0..Day - 1 /\ clock = Day * q + r
    BY DayAndTime DEF SchedTypes
  <2>4. p \in Int /\ Times[i] \in 0..Day - 1 /\ t = Day * p + Times[i]
    BY <2>1, <2>2, DayAndTime
  <2>5. Today = Day * q
    BY <2>3 DEF Today, SchedTypes
  <2> HIDE DEF p, q, r
  <2>6. clock - Day < t
    BY <1>2, <2>1 DEF SchedTypes
  <2>7. p = q \/ p = q - 1
    <3>1. Day * p + Times[i] <= Day * q + r
      BY <2>1, <2>3, <2>4
    <3>2. Day * q + r - Day < Day * p + Times[i]
      BY <2>1, <2>3, <2>4, <2>6 DEF SchedTypes
    <3>3. Day \in Int /\ Day > 0
      BY DEF SchedTypes
    <3>4. ~(p >= q + 1)
      <4>1. SUFFICES ASSUME p >= q + 1 PROVE FALSE
        OBVIOUS
      <4>2. Day * p >= Day * (q + 1)
        BY <2>3, <2>4, <3>3, <4>1
      <4>3. Day * (q + 1) = Day * q + Day
        BY <2>3, <3>3
      <4> QED
        BY <2>3, <2>4, <3>1, <3>3, <4>2, <4>3
    <3>5. ~(p <= q - 2)
      <4>1. SUFFICES ASSUME p <= q - 2 PROVE FALSE
        OBVIOUS
      <4>2. Day * p <= Day * (q - 2)
        BY <2>3, <2>4, <3>3, <4>1
      <4>3. Day * (q - 2) = Day * q - 2 * Day
        BY <2>3, <3>3
      <4> QED
        BY <2>3, <2>4, <3>2, <3>3, <4>2, <4>3
    <3> QED
      BY <2>3, <2>4, <3>4, <3>5
  <2>11. Day * (q - 1) = Day * q - Day
    BY <2>3 DEF SchedTypes
  <2>12. t = Today + Times[i] \/ t = Today + Times[i] - Day
    <3>1. Day \in Int /\ Times[i] \in Int /\ Day * q \in Int
      BY <2>3, <2>4 DEF SchedTypes
    <3>2. CASE p = q
      BY <2>4, <2>5, <3>1, <3>2
    <3>3. CASE p = q - 1
      <4>1. t = (Day * q - Day) + Times[i]
        BY <2>4, <2>11, <3>3
      <4> QED
        BY <2>5, <3>1, <4>1
    <3> QED
      BY <2>7, <3>2, <3>3
  <2>8. t \in Candidates(Times[i])
    BY <2>12 DEF Candidates
  <2>9. InWindow(t)
    BY <2>1 DEF InWindow
  <2>10. i \in DueSlots
    BY <1>0, <1>2, <2>8, <2>9 DEF DueSlots
  <2> QED
    BY <1>2, <2>8, <2>9, <2>10, OneCandidate
<1> QED
  BY <1>1, <1>2

\* What last_slot becomes.
LEMMA LastFacts ==
    ASSUME SchedTypes, NEW S \in SUBSET DueSlots
    PROVE  /\ S = {} => LastOf(S) = lastSlot
           /\ S # {} => \E i \in S : LastOf(S) = When(i)
BY DueFacts, LastPlace DEF LastOf

\* What is due before place n is started there, or was the last before.
LEMMA DueIsStarted ==
    ASSUME SchedTypes, NEW n \in Int, NEW i \in DueSlots, i < n
    PROVE  When(i) = lastSlot \/ \E j \in FreshSlots : j < n /\ When(j) = When(i)
<1> DEFINE T == {k \in DueSlots : /\ k < n /\ When(k) # lastSlot
                                  /\ ~ \E j \in FreshSlots : j < n /\ When(j) = When(k)}
<1>1. SUFFICES ASSUME T # {} PROVE FALSE
  OBVIOUS
<1>2. T \in SUBSET Nat
  BY DueFacts DEF SchedTypes
<1>3. PICK m \in T : \A k \in T : m <= k
  BY <1>1, <1>2, LeastNumber
<1> DEFINE S == {j \in DueSlots : j < m}
<1>4. m \in DueSlots /\ m \notin FreshSlots /\ m < n /\ m \in Nat
  BY <1>2, <1>3
<1>5. When(m) = LastOf(S)
  BY <1>4 DEF FreshSlots
<1>6. PICK j \in S : When(m) = When(j)
  BY <1>3, <1>5, LastFacts
<1>7. j \notin T /\ j \in DueSlots /\ j < m /\ j \in Nat
  BY <1>2, <1>3, <1>4, DueFacts DEF SchedTypes
<1> QED
  BY <1>3, <1>4, <1>6, <1>7

\* How often an occurrence was started afterwards.
LEMMA StartedFacts ==
    ASSUME SchedTypes, started \in [Occurrences -> Nat], NEW S \in SUBSET DOMAIN Times
    PROVE  /\ StartedAt(S) \in [Occurrences -> Nat]
           /\ \A t \in Occurrences :
                 /\ StartedAt(S)[t] >= started[t]
                 /\ (\E i \in S : When(i) = t) => StartedAt(S)[t] > 0
                 /\ (\A i \in S : When(i) # t) => StartedAt(S)[t] = started[t]
                 /\ (\A i, j \in S : When(i) = t /\ When(j) = t => i = j)
                       => StartedAt(S)[t] <= started[t] + 1
<1>1. IsFiniteSet(S)
  <2>1. Len(Times) \in Int /\ S \subseteq 1..Len(Times)
    BY DEF SchedTypes
  <2>2. IsFiniteSet(1..Len(Times))
    BY <2>1, FS_Interval
  <2> QED
    BY <2>1, <2>2, FS_Subset
<1>2. ASSUME NEW t \in Occurrences
      PROVE  /\ Cardinality({i \in S : When(i) = t}) \in Nat
             /\ (\E i \in S : When(i) = t) => Cardinality({i \in S : When(i) = t}) > 0
             /\ (\A i \in S : When(i) # t) => Cardinality({i \in S : When(i) = t}) = 0
             /\ (\A i, j \in S : When(i) = t /\ When(j) = t => i = j)
                   => Cardinality({i \in S : When(i) = t}) <= 1
  <2> DEFINE C == {i \in S : When(i) = t}
  <2>1. IsFiniteSet(C)
    BY <1>1, FS_Subset
  <2>2. Cardinality(C) \in Nat /\ (C = {} <=> Cardinality(C) = 0)
    BY <2>1, FS_CardinalityType, FS_EmptySet
  <2>3. ASSUME NEW i \in C, \A j \in C : j = i PROVE Cardinality(C) <= 1
    <3>1. C = {i}
      BY <2>3
    <3> QED
      BY <3>1, FS_Singleton
  <2> QED
    BY <2>2, <2>3
<1> QED
  BY <1>2 DEF StartedAt


LEMMA SchedInitial == SchedInit => SchedIInv
BY SchedulerAssumption DEF SchedInit, SchedIInv, SchedTypeOK, NoSlotIsMissed, Occurrences

\* What an iteration that gets to place n leaves on record.
LEMMA Started ==
    ASSUME SchedIInv, NEW n \in Int, started' = StartedAt({i \in FreshSlots : i < n}),
           Crowd
    PROVE  /\ started' \in [Occurrences -> Nat] /\ crowded' \subseteq Occurrences
           /\ crowded \subseteq crowded'
           /\ \A t \in Occurrences :
                 /\ started[t] > 0 => started'[t] > 0
                 /\ t \notin Window => started'[t] = started[t]
           /\ \A i \in DueSlots : i < n => started'[When(i)] > 0 \/ When(i) \in excused
           /\ \A t \in Window : ListedOnce(t) =>
                 /\ started'[t] <= started[t] + 1
                 /\ t \notin crowded' =>
                       /\ lastSlot = t => started'[t] = started[t]
                       /\ \A i \in DueSlots : When(i) = t
                       /\ \A i, j \in DueSlots : i = j
<1> DEFINE S == {i \in FreshSlots : i < n}
<1>1. SchedTypes /\ started \in [Occurrences -> Nat] /\ crowded \subseteq Occurrences
  BY SchedTyped DEF SchedIInv, SchedTypeOK
<1>2. S \in SUBSET DOMAIN Times /\ S \subseteq FreshSlots /\ FreshSlots \subseteq DueSlots
  BY <1>1, DueFacts DEF FreshSlots
<1>3. started' = StartedAt(S)
  OBVIOUS
<1>4. Window \subseteq Occurrences /\ \A i \in DueSlots : When(i) \in Window /\ When(i) % Day = Times[i]
  BY <1>1, DueFacts DEF Window
<1>w. IsFiniteSet(Window)
  <2>1. Window \subseteq 1..MaxClock /\ IsFiniteSet(1..MaxClock)
    BY <1>1, FS_Interval DEF Window, Occurrences, SchedTypes
  <2> QED
    BY <2>1, FS_Subset
<1>5. \A t \in Window \ crowded' : Window = {t}
  <2>1. SUFFICES ASSUME NEW t \in Window \ crowded', NEW u \in Window, u # t PROVE FALSE
    OBVIOUS
  <2>2. ~(Cardinality(Window) > 1)
    BY <2>1 DEF Crowd
  <2>3. {t, u} \subseteq Window /\ Cardinality({t, u}) = 2
    <3> DEFINE A == {t}
    <3>1. IsFiniteSet(A) /\ Cardinality(A) = 1
      BY FS_Singleton
    <3>2. {t, u} = A \cup {u} /\ u \notin A
      BY <2>1
    <3>3. {t, u} \subseteq Window
      BY <2>1
    <3> HIDE DEF A
    <3>4. Cardinality(A \cup {u}) = Cardinality(A) + 1
      BY ONLY <3>1, <3>2, FS_AddElement
    <3> QED
      BY ONLY <3>1, <3>2, <3>3, <3>4
  <2> QED
    BY <1>w, <2>2, <2>3, FS_Subset, FS_CardinalityType
<1>6. crowded' \subseteq Occurrences /\ crowded \subseteq crowded'
  BY <1>1, <1>4 DEF Crowd
<1>7. ASSUME NEW i \in DueSlots, i < n PROVE started'[When(i)] > 0 \/ When(i) \in excused
  <2>1. CASE When(i) = lastSlot
    <3>1. lastSlot \in Occurrences
      BY <1>4, <1>7, <2>1
    <3>2. lastSlot # 0
      BY <3>1 DEF Occurrences
    <3> QED
      <4>1. started[lastSlot] > 0 \/ lastSlot \in excused
        BY <3>2 DEF SchedIInv
      <4>2. started'[lastSlot] >= started[lastSlot] /\ started' \in [Occurrences -> Nat]
        <5> HIDE DEF S
        <5> QED
          BY <1>1, <1>2, <1>3, <3>1, StartedFacts
      <4> QED
        BY <1>1, <2>1, <3>1, <4>1, <4>2
  <2>2. CASE \E j \in FreshSlots : j < n /\ When(j) = When(i)
    <3>1. When(i) \in Occurrences /\ \E j \in S : When(j) = When(i)
      BY <1>4, <2>2
    <3> HIDE DEF S
    <3> QED
      BY <1>1, <1>2, <1>3, <3>1, StartedFacts
  <2> QED
    BY <1>1, <1>7, <2>1, <2>2, DueIsStarted
<1>11. ASSUME NEW t \in Window, ListedOnce(t)
       PROVE  started'[t] <= started[t] + 1
  <2>2. \A i, j \in S : When(i) = t /\ When(j) = t => i = j
    BY <1>1, <1>2, <1>4, <1>11, DueFacts DEF ListedOnce
  <2>3. t \in Occurrences
    BY <1>4
  <2> HIDE DEF S
  <2> QED
    BY <1>1, <1>2, <1>3, <2>2, <2>3, StartedFacts
<1>8. ASSUME NEW t \in Window \ crowded', ListedOnce(t)
      PROVE  /\ \A i \in DueSlots : When(i) = t
             /\ \A i, j \in DueSlots : i = j
             /\ lastSlot = t => started'[t] = started[t]
  <2>1. \A i \in DueSlots : When(i) = t
    BY <1>4, <1>5, <1>8
  <2>2. \A i, j \in DueSlots : i = j
    BY <1>1, <1>4, <1>8, <2>1, DueFacts DEF ListedOnce
  <2>3. t \in Occurrences
    BY <1>4
  <2>5. ASSUME lastSlot = t, NEW i \in FreshSlots PROVE FALSE
    <3>1. {j \in DueSlots : j < i} = {}
      <4>1. \A j \in DueSlots : j = i /\ j \in Int
        BY <1>2, <2>2, <2>5, DueFacts, <1>1 DEF SchedTypes
      <4> QED
        BY <4>1
    <3>2. When(i) # LastOf({j \in DueSlots : j < i}) /\ When(i) = t
      BY <1>2, <2>1, <2>5 DEF FreshSlots
    <3> QED
      BY <2>5, <3>1, <3>2 DEF LastOf
  <2>6. lastSlot = t => \A i \in S : FALSE
    BY <2>5
  <2>7. lastSlot = t => started'[t] = started[t]
    <3> HIDE DEF S
    <3> QED
      BY <1>1, <1>2, <1>3, <2>3, <2>6, StartedFacts
  <2> QED
    BY <2>1, <2>2, <2>7
<1>9. ASSUME NEW t \in Occurrences
      PROVE  /\ started[t] > 0 => started'[t] > 0
             /\ t \notin Window => started'[t] = started[t]
  <2>1. t \notin Window => \A i \in S : When(i) # t
    BY <1>2, <1>4
  <2> HIDE DEF S
  <2>2. /\ started'[t] >= started[t] /\ started'[t] \in Nat /\ started[t] \in Nat
        /\ (\A i \in S : When(i) # t) => started'[t] = started[t]
    BY <1>1, <1>2, <1>3, StartedFacts
  <2> QED
    BY <2>1, <2>2
<1>10. started' \in [Occurrences -> Nat]
  <2> HIDE DEF S
  <2> QED
    BY <1>1, <1>2, <1>3, StartedFacts
<1> QED
  BY <1>6, <1>7, <1>8, <1>9, <1>10, <1>11


\* An iteration that ends well.
LEMMA IterateKeeps == ASSUME SchedIInv, Iterate PROVE SchedIInv'
<1>t. /\ SchedTypes /\ SchedTypeOK /\ Window \subseteq Occurrences
      /\ \A t \in Window : lastCheck < t /\ t <= clock
  BY SchedTyped DEF SchedIInv, Window
<1>1. lastCheck' = clock /\ Crowd /\ UNCHANGED <<clock, broken>>
  BY DEF Iterate
<1>2. CASE UNCHANGED <<started, lastSlot>> /\ excused' = excused \cup Window
  <2>1. crowded' \subseteq Occurrences /\ crowded \subseteq crowded'
    BY <1>t, <1>1 DEF Crowd, SchedTypeOK
  <2>2. SchedTypeOK'
    BY <1>t, <1>1, <1>2, <2>1 DEF SchedTypeOK, SchedTypes
  <2>3. NoSlotIsMissed'
    BY <1>t, <1>1, <1>2 DEF SchedIInv, NoSlotIsMissed, Window, Occurrences, SchedTypes
  <2>4. \A t \in Occurrences \ (broken' \cap crowded') : ListedOnce(t) =>
            /\ started'[t] <= 1
            /\ lastCheck' < t /\ started'[t] > 0 => t \in broken' /\ lastSlot' = t
    BY <1>t, <1>1, <1>2, <2>1 DEF SchedIInv, Occurrences, SchedTypes
  <2> QED
    BY <1>1, <1>2, <2>2, <2>3, <2>4 DEF SchedIInv
<1>3. CASE /\ started' = StartedAt(FreshSlots)
           /\ lastSlot' = LastOf(DueSlots)
           /\ excused' = IF clock - lastCheck > CatchUp THEN excused \cup Window ELSE excused
  <2> DEFINE n == Len(Times) + 1
  <2>1. /\ n \in Int /\ FreshSlots = {i \in FreshSlots : i < n} /\ \A i \in DueSlots : i < n
        /\ DueSlots \subseteq DOMAIN Times
        /\ \A i \in DueSlots : When(i) \in Window
    BY <1>t, DueFacts DEF FreshSlots, SchedTypes
  <2> HIDE DEF n
  <2>2. started' = StartedAt({i \in FreshSlots : i < n})
    BY <1>3, <2>1
  <2>3. /\ started' \in [Occurrences -> Nat] /\ crowded' \subseteq Occurrences
        /\ crowded \subseteq crowded'
        /\ \A t \in Occurrences :
              /\ started[t] > 0 => started'[t] > 0
              /\ t \notin Window => started'[t] = started[t]
        /\ \A i \in DueSlots : i < n => started'[When(i)] > 0 \/ When(i) \in excused
        /\ \A t \in Window : ListedOnce(t) =>
              /\ started'[t] <= started[t] + 1
              /\ t \notin crowded' => (lastSlot = t => started'[t] = started[t])
    BY <1>1, <2>1, <2>2, Started
  <2>4. lastSlot' = lastSlot \/ \E i \in DueSlots : lastSlot' = When(i)
    BY <1>t, <1>3, LastFacts
  <2>5. lastSlot' \in Occurrences \cup {0} /\ excused' \subseteq Occurrences /\ excused \subseteq excused'
    BY <1>t, <1>3, <2>1, <2>4 DEF SchedTypeOK
  <2>6. SchedTypeOK'
    BY <1>t, <1>1, <2>3, <2>5 DEF SchedTypeOK, SchedTypes
  <2>7. lastSlot' # 0 => started'[lastSlot'] > 0 \/ lastSlot' \in excused'
    BY <1>t, <2>1, <2>3, <2>4, <2>5 DEF SchedIInv, SchedTypeOK
  <2>8. \A t \in Window : started'[t] > 0 \/ t \in excused'
    BY <1>t, <1>3, <2>1, <2>3, <2>5, DueFacts DEF SchedTypes
  <2>9. NoSlotIsMissed'
    <3>1. \A t \in Occurrences : t <= clock => t \in Window \/ t <= lastCheck
      BY <1>t DEF Window, Occurrences, SchedTypes
    <3> QED
      BY <1>1, <2>3, <2>5, <2>8, <3>1 DEF SchedIInv, NoSlotIsMissed
  <2>10. ASSUME NEW t \in Occurrences
         PROVE  t > clock => started'[t] = 0
    BY <1>t, <2>3, <2>10 DEF SchedIInv, Occurrences, SchedTypes
  <2>11. ASSUME NEW t \in Occurrences \ (broken \cap crowded'), ListedOnce(t)
         PROVE  /\ started'[t] <= 1
                /\ clock < t /\ started'[t] > 0 => t \in broken /\ lastSlot' = t
    <3>1. /\ started[t] <= 1 /\ started[t] \in Nat /\ started'[t] \in Nat /\ t \in Int
          /\ lastCheck < t /\ started[t] > 0 => t \in broken /\ lastSlot = t
      BY <1>t, <2>3, <2>11 DEF SchedIInv, SchedTypeOK, Occurrences
    <3>2. ~(clock < t /\ started'[t] > 0)
      BY <1>t, <2>10, <2>11, <3>1 DEF SchedTypes
    <3>3. CASE t \notin Window
      BY <2>3, <2>11, <3>1, <3>2, <3>3
    <3>4. CASE t \in Window
      <4>1. lastCheck < t
        BY <1>t, <3>4
      <4>2. started'[t] <= started[t] + 1 /\ (t \notin crowded' /\ lastSlot = t => started'[t] = started[t])
        BY <2>3, <2>11, <3>4
      <4>3. started[t] > 0 => t \notin crowded' /\ lastSlot = t
        BY <2>11, <3>1, <4>1
      <4> QED
        BY <3>1, <3>2, <4>2, <4>3
    <3> QED
      BY <3>2, <3>3, <3>4
  <2> QED
    BY <1>1, <2>6, <2>7, <2>9, <2>10, <2>11 DEF SchedIInv
<1> QED
  BY <1>2, <1>3 DEF Iterate


\* An iteration that an exception ends: what it started is looked at again.
LEMMA BreakKeeps == ASSUME SchedIInv, Break PROVE SchedIInv'
<1>t. /\ SchedTypes /\ SchedTypeOK /\ Window \subseteq Occurrences
      /\ \A t \in Window : lastCheck < t /\ t <= clock
  BY SchedTyped DEF SchedIInv, Window
<1>1. UNCHANGED <<clock, lastCheck>> /\ Crowd /\ broken' = broken \cup Window
  BY DEF Break, WindowAfterError
<1>2. PICK n \in 1..Len(Times) + 1, within \in BOOLEAN :
          /\ within => n \in FreshSlots
          /\ started' = StartedAt({i \in FreshSlots : i < n})
          /\ lastSlot' = IF within THEN When(n) ELSE LastOf({i \in DueSlots : i < n})
          /\ excused' = IF within THEN excused \cup {When(n)} ELSE excused
  BY DEF Break
<1>3. n \in Int /\ DueSlots \subseteq DOMAIN Times /\ FreshSlots \subseteq DueSlots
      /\ \A i \in DueSlots : i \in Int /\ When(i) \in Window
  BY <1>t, <1>2, DueFacts DEF FreshSlots, SchedTypes
<1>4. /\ started' \in [Occurrences -> Nat] /\ crowded' \subseteq Occurrences
      /\ crowded \subseteq crowded'
      /\ \A t \in Occurrences :
            /\ started[t] > 0 => started'[t] > 0
            /\ t \notin Window => started'[t] = started[t]
      /\ \A i \in DueSlots : i < n => started'[When(i)] > 0 \/ When(i) \in excused
      /\ \A t \in Window : ListedOnce(t) =>
            /\ started'[t] <= started[t] + 1
            /\ t \notin crowded' =>
                  /\ lastSlot = t => started'[t] = started[t]
                  /\ \A i \in DueSlots : When(i) = t
                  /\ \A i, j \in DueSlots : i = j
  BY <1>1, <1>2, <1>3, Started
<1> DEFINE S == {i \in DueSlots : i < n}
<1>5. \/ within /\ n \in DueSlots /\ lastSlot' = When(n) /\ excused' = excused \cup {When(n)}
      \/ /\ ~within /\ excused' = excused
         /\ \/ S = {} /\ lastSlot' = lastSlot
            \/ \E i \in S : lastSlot' = When(i)
  BY <1>t, <1>2, <1>3, LastFacts
<1>6. lastSlot' \in Occurrences \cup {0} /\ excused' \subseteq Occurrences /\ excused \subseteq excused'
  BY <1>t, <1>3, <1>5 DEF SchedTypeOK
<1>7. SchedTypeOK'
  BY <1>t, <1>1, <1>4, <1>6 DEF SchedTypeOK, SchedTypes
<1>8. lastSlot' # 0 => started'[lastSlot'] > 0 \/ lastSlot' \in excused'
  BY <1>t, <1>3, <1>4, <1>5, <1>6 DEF SchedIInv, SchedTypeOK
<1>9. NoSlotIsMissed'
  BY <1>1, <1>4, <1>6 DEF SchedIInv, NoSlotIsMissed
<1>10. ASSUME NEW t \in Occurrences PROVE t > clock => started'[t] = 0
  <2>1. t > clock => t \notin Window
    BY <1>t, <1>10 DEF Occurrences, SchedTypes
  <2> QED
    BY <1>4, <1>10, <2>1 DEF SchedIInv
<1>11. ASSUME NEW t \in Occurrences \ (broken' \cap crowded'), ListedOnce(t)
       PROVE  /\ started'[t] <= 1
              /\ lastCheck < t /\ started'[t] > 0 => t \in broken' /\ lastSlot' = t
  <2>1. /\ started[t] <= 1 /\ started[t] \in Nat /\ started'[t] \in Nat /\ t \in Int
        /\ lastCheck < t /\ started[t] > 0 => t \in broken /\ lastSlot = t
    BY <1>t, <1>1, <1>4, <1>11 DEF SchedIInv, SchedTypeOK, Occurrences
  <2>2. CASE t \notin Window
    <3>1. ~(lastCheck < t /\ t <= clock) /\ started'[t] = started[t]
      BY <1>4, <1>11, <2>2 DEF Window
    <3>2. t > clock => started'[t] = 0
      BY <1>10, <1>11
    <3> QED
      BY <1>t, <2>1, <3>1, <3>2 DEF SchedTypes
  <2>3. CASE t \in Window
    <3>1. lastCheck < t /\ t \in broken' /\ t \notin crowded'
      BY <1>t, <1>1, <1>11, <2>3
    <3>2. /\ started'[t] <= started[t] + 1
          /\ lastSlot = t => started'[t] = started[t]
          /\ \A i \in DueSlots : When(i) = t
          /\ \A i, j \in DueSlots : i = j
      BY <1>4, <1>11, <2>3, <3>1
    <3>3. started'[t] <= 1
      BY <2>1, <3>1, <3>2
    <3>4. CASE S # {} \/ within
      BY <1>5, <3>1, <3>2, <3>3, <3>4
    <3>5. CASE S = {} /\ ~within
      <4>1. {i \in FreshSlots : i < n} = {}
        BY <1>3, <3>5
      <4>2. started'[t] = started[t] /\ lastSlot' = lastSlot
        <5>1. started' = StartedAt({}) /\ started \in [Occurrences -> Nat] /\ {} \subseteq DOMAIN Times
          BY <1>t, <1>2, <4>1 DEF SchedTypeOK
        <5>2. StartedAt({})[t] = started[t]
          BY <1>t, <1>11, <5>1, StartedFacts
        <5> QED
          BY <1>5, <3>5, <5>1, <5>2
      <4> QED
        BY <2>1, <3>1, <3>3, <4>2
    <3> QED
      BY <3>4, <3>5
  <2> QED
    BY <2>2, <2>3
<1> QED
  BY <1>1, <1>7, <1>8, <1>9, <1>10, <1>11 DEF SchedIInv

LEMMA SchedStep == SchedIInv /\ [SchedNext]_schedVars => SchedIInv'
<1> SUFFICES ASSUME SchedIInv, [SchedNext]_schedVars PROVE SchedIInv'
  OBVIOUS
<1>1. CASE Iterate
  BY <1>1, IterateKeeps
<1>2. CASE Break
  BY <1>2, BreakKeeps
<1>3. CASE Tick
  <2>1. clock' = clock + 1 /\ clock < MaxClock
        /\ UNCHANGED <<lastCheck, lastSlot, started, excused, broken, crowded>>
    BY <1>3 DEF Tick
  <2>2. SchedTypeOK' /\ \A t \in Occurrences : t > clock' => t > clock
    BY SMTT(30), <2>1, SchedTyped DEF SchedIInv, SchedTypeOK, SchedTypes, Occurrences
  <2> QED
    BY <2>1, <2>2 DEF SchedIInv, NoSlotIsMissed
<1>4. CASE UNCHANGED schedVars
  BY <1>4 DEF schedVars, SchedIInv, SchedTypeOK, NoSlotIsMissed
<1> QED
  BY <1>1, <1>2, <1>3, <1>4 DEF SchedNext

\* Each time of day is started, also across midnight and after an iteration
\* that broke, and once, unless it was due in one that broke and shared a
\* window with another (due_slots, _loop): for every setting and limit.
THEOREM SchedulesAreSafe == SchedSpec => []ScheduleSafety
<1>1. SchedIInv => ScheduleSafety
  BY DEF SchedIInv, ScheduleSafety, NoSlotStartsTwice
<1> QED
  BY <1>1, SchedInitial, SchedStep, PTL DEF SchedSpec

-----------------------------------------------------------------------------
(* The sweep over the hosts.                                               *)

\* No other row has the address of row i.
Alone(i) == \A j \in RowIndex \ {i} : IpIn(j) # IpIn(i)

\* An address that is stored once is counted once for each poll.
SilencesAreCounted ==
    /\ table \in [RowIndex -> BOOLEAN] /\ silences \in [Ips -> 0..(MISSES - 1)]
    /\ pinged = NotPolling \/ pinged \in [RowIndex -> BOOLEAN]
    /\ unanswered \in [Ips -> Nat] /\ outages \subseteq RowIndex
    /\ polls \in 0..MaxPolls
    /\ \A i \in RowIndex : Alone(i) => silences[IpIn(i)] <= unanswered[IpIn(i)]

StatusIInv == SilencesAreCounted /\ OutageNeedsTwoPolls

Tallies == [silences : [Ips -> 0..(MISSES - 1)], table : [RowIndex -> BOOLEAN], outages : SUBSET RowIndex]

\* Row i was online, did not answer and its band was judged.
Silent(i, alive) == pinged[i] /\ IpIn(i) \notin alive /\ ~Skipped(BandIn(i), alive)

\* What the first n rows have come to.
TallyOf(n, alive, acc) ==
    /\ acc \in Tallies
    /\ \A i \in acc.outages :
          i <= n /\ Silent(i, alive) /\ (Alone(i) => silences[IpIn(i)] + 1 >= MISSES)
    /\ \A i \in RowIndex : Alone(i) =>
          /\ i > n => acc.silences[IpIn(i)] = silences[IpIn(i)]
          /\ i <= n => IF IpIn(i) \in alive \/ Skipped(BandIn(i), alive)
                       THEN acc.silences[IpIn(i)] = 0
                       ELSE IF ~pinged[i] THEN acc.silences[IpIn(i)] = silences[IpIn(i)]
                       ELSE /\ acc.silences[IpIn(i)] < MISSES
                            /\ acc.silences[IpIn(i)] <= silences[IpIn(i)] + 1

\* What one row does to the tally.
RowResult(i, alive, acc, new) ==
    /\ new \in Tallies
    /\ \A q \in Ips : q # IpIn(i) => new.silences[q] = acc.silences[q]
    /\ \/ new.outages = acc.outages
       \/ /\ new.outages = acc.outages \cup {i}
          /\ Silent(i, alive) /\ acc.silences[IpIn(i)] + 1 >= MISSES
    /\ IF IpIn(i) \in alive \/ Skipped(BandIn(i), alive) THEN new.silences[IpIn(i)] = 0
       ELSE IF ~pinged[i] THEN new.silences[IpIn(i)] = acc.silences[IpIn(i)]
       ELSE new.silences[IpIn(i)] < MISSES /\ new.silences[IpIn(i)] <= acc.silences[IpIn(i)] + 1

LEMMA RowsAreNumbered ==
    /\ Len(HostRows) \in Nat /\ RowIndex = 1..Len(HostRows)
    /\ (\A i \in RowIndex : IpIn(i) \in Ips) /\ MISSES = 2
BY StatusAssumption DEF RowIndex, Ips, MISSES

\* The result of one row is a tally again.
LEMMA RowJudged ==
    ASSUME SilencesAreCounted, pinged \in [RowIndex -> BOOLEAN], NEW alive \in SUBSET Ips,
           NEW i \in RowIndex, NEW acc, TallyOf(i - 1, alive, acc)
    PROVE  TallyOf(i, alive, JudgeRow(acc, i, alive))
<1> USE RowsAreNumbered DEF SilencesAreCounted
<1> DEFINE p == IpIn(i)
           tally == JudgeRow(acc, i, alive)
<1>1. /\ acc \in Tallies /\ acc.silences \in [Ips -> 0..(MISSES - 1)] /\ acc.table \in [RowIndex -> BOOLEAN]
      /\ acc.outages \subseteq RowIndex /\ p \in Ips
  BY DEF TallyOf, Tallies
<1>2. i \in Nat /\ i - 1 \in Nat
  OBVIOUS
<1>3. \A j \in RowIndex : Alone(j) /\ j # i => IpIn(j) # p
  BY DEF Alone
<1>4. ASSUME RowResult(i, alive, acc, tally) PROVE TallyOf(i, alive, tally)
  <2> DEFINE m == tally.silences
             o == tally.outages
  <2>1. /\ tally \in Tallies /\ m \in [Ips -> 0..(MISSES - 1)]
        /\ \A q \in Ips : q # p => m[q] = acc.silences[q]
        /\ \/ o = acc.outages
           \/ o = acc.outages \cup {i} /\ Silent(i, alive) /\ acc.silences[p] + 1 >= MISSES
        /\ IF p \in alive \/ Skipped(BandIn(i), alive) THEN m[p] = 0
           ELSE IF ~pinged[i] THEN m[p] = acc.silences[p]
           ELSE m[p] < MISSES /\ m[p] <= acc.silences[p] + 1
    BY <1>4 DEF RowResult, Tallies
  <2>2. Alone(i) => acc.silences[p] = silences[p]
    BY <1>2 DEF TallyOf
  <2> HIDE DEF tally, m, o
  <2>3. \A j \in o : j <= i /\ Silent(j, alive) /\ (Alone(j) => silences[IpIn(j)] + 1 >= MISSES)
    <3>1. \A j \in acc.outages : j <= i - 1 /\ Silent(j, alive)
                                 /\ (Alone(j) => silences[IpIn(j)] + 1 >= MISSES)
      BY DEF TallyOf
    <3>2. \A j \in acc.outages : j <= i
      BY <1>1, <1>2, <3>1
    <3> QED
      BY <1>2, <2>1, <2>2, <3>1, <3>2
  <2>4. ASSUME NEW j \in RowIndex, Alone(j)
        PROVE  /\ j > i => m[IpIn(j)] = silences[IpIn(j)]
               /\ j <= i => IF IpIn(j) \in alive \/ Skipped(BandIn(j), alive)
                            THEN m[IpIn(j)] = 0
                            ELSE IF ~pinged[j] THEN m[IpIn(j)] = silences[IpIn(j)]
                            ELSE m[IpIn(j)] < MISSES /\ m[IpIn(j)] <= silences[IpIn(j)] + 1
    <3>1. CASE j = i
      BY <1>2, <2>1, <2>2, <2>4, <3>1
    <3>2. CASE j # i
      <4>1. m[IpIn(j)] = acc.silences[IpIn(j)]
        BY <1>3, <2>1, <2>4, <3>2
      <4>2. (j > i <=> j > i - 1) /\ (j <= i <=> j <= i - 1)
        BY <1>2, <3>2
      <4>3. /\ j > i - 1 => acc.silences[IpIn(j)] = silences[IpIn(j)]
            /\ j <= i - 1 => IF IpIn(j) \in alive \/ Skipped(BandIn(j), alive)
                            THEN acc.silences[IpIn(j)] = 0
                            ELSE IF ~pinged[j] THEN acc.silences[IpIn(j)] = silences[IpIn(j)]
                            ELSE acc.silences[IpIn(j)] < MISSES
                                 /\ acc.silences[IpIn(j)] <= silences[IpIn(j)] + 1
        BY <2>4 DEF TallyOf
      <4> QED
        BY <4>1, <4>2, <4>3
    <3> QED
      BY <3>1, <3>2
  <2> QED
    BY <2>1, <2>3, <2>4 DEF TallyOf, m, o
<1>5. CASE Skipped(BandIn(i), alive)
  <2> DEFINE m == [acc.silences EXCEPT ![p] = 0]
  <2>1. tally = [silences |-> m, table |-> acc.table, outages |-> acc.outages]
    BY <1>1, <1>5 DEF JudgeRow, AfterSkip, Tallies
  <2>2. m \in [Ips -> 0..(MISSES - 1)] /\ m[p] = 0 /\ \A q \in Ips : q # p => m[q] = acc.silences[q]
    BY <1>1
  <2> HIDE DEF m, tally, p
  <2>9. tally \in Tallies /\ tally.silences = m /\ tally.outages = acc.outages
    BY <1>1, <1>5, <2>1, <2>2 DEF Tallies
  <2>10. RowResult(i, alive, acc, tally)
    BY <1>1, <2>9, <1>5, <2>1, <2>2 DEF RowResult, p
  <2> QED
    BY <1>4, <2>10 DEF tally
<1>6. CASE ~Skipped(BandIn(i), alive) /\ p \in alive
  <2> DEFINE m == [acc.silences EXCEPT ![p] = 0]
             t == [acc.table EXCEPT ![i] = IF pinged[i] THEN @ ELSE TRUE]
  <2>1. tally = [silences |-> m, table |-> t, outages |-> acc.outages]
    BY <1>1, <1>6 DEF JudgeRow, Tallies
  <2>2. m \in [Ips -> 0..(MISSES - 1)] /\ m[p] = 0 /\ \A q \in Ips : q # p => m[q] = acc.silences[q]
    BY <1>1
  <2>3. t \in [RowIndex -> BOOLEAN]
    BY <1>1
  <2> HIDE DEF m, t, tally, p
  <2>9. tally \in Tallies /\ tally.silences = m /\ tally.outages = acc.outages
    BY <1>1, <1>6, <2>1, <2>2, <2>3 DEF Tallies
  <2>10. RowResult(i, alive, acc, tally)
    BY <1>1, <2>9, <1>6, <2>1, <2>2, <2>3 DEF RowResult, p
  <2> QED
    BY <1>4, <2>10 DEF tally
<1>7. CASE ~Skipped(BandIn(i), alive) /\ p \notin alive /\ ~pinged[i]
  <2>1. tally = [silences |-> acc.silences, table |-> acc.table, outages |-> acc.outages]
    BY <1>1, <1>7 DEF JudgeRow, Tallies
  <2> HIDE DEF tally, p
  <2>9. tally \in Tallies /\ tally.silences = acc.silences /\ tally.outages = acc.outages
    BY <1>1, <1>7, <2>1 DEF Tallies
  <2>10. RowResult(i, alive, acc, tally)
    BY <1>1, <2>9, <1>7, <2>1 DEF RowResult, p
  <2> QED
    BY <1>4, <2>10 DEF tally
<1>8. CASE ~Skipped(BandIn(i), alive) /\ p \notin alive /\ pinged[i] /\ acc.silences[p] + 1 < MISSES
  <2> DEFINE m == [acc.silences EXCEPT ![p] = acc.silences[p] + 1]
  <2>1. tally = [silences |-> m, table |-> acc.table, outages |-> acc.outages]
    BY <1>1, <1>8 DEF JudgeRow, Tallies
  <2>2. m \in [Ips -> 0..(MISSES - 1)] /\ m[p] = acc.silences[p] + 1 /\ \A q \in Ips : q # p => m[q] = acc.silences[q]
    <3>1. p \in Ips /\ acc.silences \in [Ips -> 0..(MISSES - 1)]
      BY <1>1
    <3>2. acc.silences[p] + 1 \in 0..(MISSES - 1)
      BY ONLY <1>8, <3>1, RowsAreNumbered
    <3> QED
      BY ONLY <3>1, <3>2
  <2>3. m[p] < MISSES /\ m[p] <= acc.silences[p] + 1
    BY <1>1, <1>8, <2>2
  <2> HIDE DEF m, tally, p
  <2>9. tally \in Tallies /\ tally.silences = m /\ tally.outages = acc.outages
    BY <1>1, <1>8, <2>1, <2>2, <2>3 DEF Tallies
  <2>10. RowResult(i, alive, acc, tally)
    BY <1>1, <2>9, <1>8, <2>1, <2>2, <2>3 DEF RowResult, p
  <2> QED
    BY <1>4, <2>10 DEF tally
<1>9. CASE ~Skipped(BandIn(i), alive) /\ p \notin alive /\ pinged[i] /\ ~(acc.silences[p] + 1 < MISSES)
  <2> DEFINE m == [acc.silences EXCEPT ![p] = 0]
             t == [acc.table EXCEPT ![i] = FALSE]
             o == acc.outages \cup {i}
  <2>1. tally = [silences |-> m, table |-> t, outages |-> o]
    BY <1>1, <1>9 DEF JudgeRow, AfterOutage, Tallies
  <2>2. m \in [Ips -> 0..(MISSES - 1)] /\ m[p] = 0 /\ \A q \in Ips : q # p => m[q] = acc.silences[q]
    BY <1>1
  <2>3. t \in [RowIndex -> BOOLEAN] /\ o \subseteq RowIndex
    BY <1>1
  <2>5. acc.silences[p] \in Nat
    <3>1. p \in Ips /\ acc.silences \in [Ips -> 0..(MISSES - 1)]
      BY <1>1
    <3> QED
      BY ONLY <3>1, RowsAreNumbered
  <2>4. Silent(i, alive) /\ acc.silences[p] + 1 >= MISSES /\ 0 < MISSES
    <3>1. Silent(i, alive)
      BY <1>9 DEF Silent
    <3> QED
      BY ONLY <1>9, <2>5, <3>1, RowsAreNumbered
  <2>6. o = acc.outages \cup {i}
    OBVIOUS
  <2> HIDE DEF m, t, o, tally, p
  <2>9. tally \in Tallies /\ tally.silences = m /\ tally.outages = o
    BY <1>1, <1>9, <2>1, <2>2, <2>3, <2>4, <2>5, <2>6 DEF Tallies
  <2>10. RowResult(i, alive, acc, tally)
    BY <1>1, <2>9, <1>9, <2>1, <2>2, <2>3, <2>4, <2>5, <2>6 DEF RowResult, p
  <2> QED
    BY <1>4, <2>10 DEF tally
<1> QED
  BY <1>5, <1>6, <1>7, <1>8, <1>9

\* All rows together.
LEMMA AllJudged ==
    ASSUME SilencesAreCounted, pinged \in [RowIndex -> BOOLEAN], NEW alive \in SUBSET Ips
    PROVE  TallyOf(Len(HostRows), alive, Judged(alive))
<1> USE RowsAreNumbered
<1> DEFINE Size == Len(HostRows)
           first == [silences |-> silences, table |-> table, outages |-> {}]
           Chain(n, f) == /\ f[0] = first
                          /\ \A k \in 1..n : f[k] = JudgeRow(f[k - 1], k, alive)
           Without == {n \in 0..Size : ~ \E f : f = [k \in 0..n |-> f[k]] /\ Chain(n, f)}
           Body(f) == [n \in 0..Size |-> IF n = 0 THEN first ELSE JudgeRow(f[n - 1], n, alive)]
           after == CHOOSE f : f = Body(f)
<1>1. ASSUME Without # {} PROVE FALSE
  <2>1. PICK n \in Without : \A m \in Without : n <= m
    <3>1. Without \in SUBSET Nat
      OBVIOUS
    <3> HIDE DEF Without
    <3> QED
      BY <1>1, <3>1, LeastNumber
  <2>2. CASE n = 0
    <3> DEFINE g == [k \in 0..0 |-> first]
    <3> HIDE DEF first
    <3>1. g = [k \in 0..0 |-> g[k]] /\ g[0] = first /\ Chain(0, g)
      OBVIOUS
    <3> QED
      BY <2>1, <2>2, <3>1
  <2>3. CASE n # 0
    <3>1. n \in 1..Size /\ n - 1 \in 0..Size /\ n - 1 \notin Without
      <4>1. n \in 0..Size
        BY <2>1
      <4> HIDE DEF Without
      <4> QED
        BY <2>1, <2>3, <4>1
    <3>2. PICK f : f = [k \in 0..(n - 1) |-> f[k]] /\ Chain(n - 1, f)
      BY <3>1
    <3> DEFINE g == [k \in 0..n |-> IF k = n THEN JudgeRow(f[n - 1], n, alive) ELSE f[k]]
    <3> HIDE DEF first
    <3>3. g = [k \in 0..n |-> g[k]] /\ g[0] = first
      BY <3>1, <3>2
    <3>4. ASSUME NEW k \in 1..n PROVE g[k] = JudgeRow(g[k - 1], k, alive)
      <4>1. CASE k = n
        <5>1. g[k] = JudgeRow(f[n - 1], n, alive) /\ g[n - 1] = f[n - 1]
          BY <3>1, <4>1
        <5> QED
          BY <4>1, <5>1
      <4>2. CASE k # n
        <5>1. k \in 1..(n - 1) /\ g[k] = f[k] /\ g[k - 1] = f[k - 1]
          BY <3>1, <4>2
        <5> QED
          BY <3>2, <5>1
      <4> QED
        BY <4>1, <4>2
    <3>5. \E h : h = [k \in 0..n |-> h[k]] /\ Chain(n, h)
      <4> HIDE DEF g
      <4> QED
        BY <3>3, <3>4
    <3> QED
      BY <2>1, <3>1, <3>5
  <2> QED
    BY <2>2, <2>3
<1>2. Size \in 0..Size /\ Size \notin Without
  <2> HIDE DEF Without
  <2> QED
    BY <1>1
<1>3. PICK f : f = [k \in 0..Size |-> f[k]] /\ Chain(Size, f)
  BY <1>2
<1>4. f = Body(f)
  <2> DEFINE b == Body(f)
  <2>1. ASSUME NEW k \in 0..Size PROVE f[k] = b[k]
    <3> HIDE DEF first
    <3>1. CASE k = 0
      BY <1>3, <3>1
    <3>2. CASE k # 0
      <4>1. k \in 1..Size
        BY <3>2
      <4>2. f[k] = JudgeRow(f[k - 1], k, alive)
        BY <1>3, <4>1
      <4>3. b[k] = JudgeRow(f[k - 1], k, alive)
        BY <3>2
      <4> QED
        BY <4>2, <4>3
    <3> QED
      BY <3>1, <3>2
  <2>2. b = [k \in 0..Size |-> b[k]]
    OBVIOUS
  <2> HIDE DEF b
  <2>3. [k \in 0..Size |-> f[k]] = [k \in 0..Size |-> b[k]]
    BY <2>1
  <2> QED
    BY <1>3, <2>2, <2>3 DEF b
<1>5. after = Body(after)
  <2> HIDE DEF Body
  <2> QED
    BY <1>4
<1>6. Judged(alive) = after[Size]
  BY DEF Judged
<1>7. after[0] = first /\ \A n \in 1..Size : after[n] = JudgeRow(after[n - 1], n, alive)
  <2> HIDE DEF after, first
  <2> QED
    BY <1>5
<1> HIDE DEF after, Body
<1> DEFINE Wrong == {n \in 0..Size : ~TallyOf(n, alive, after[n])}
<1>8. ASSUME Wrong # {} PROVE FALSE
  <2>1. PICK n \in Wrong : \A m \in Wrong : n <= m
    <3>1. Wrong \in SUBSET Nat
      OBVIOUS
    <3> HIDE DEF Wrong
    <3> QED
      BY <1>8, <3>1, LeastNumber
  <2>2. CASE n = 0
    <3>1. first \in Tallies /\ first.outages = {} /\ first.silences = silences
      BY DEF Tallies, SilencesAreCounted
    <3> HIDE DEF first
    <3>2. TallyOf(0, alive, first)
      BY <3>1 DEF TallyOf
    <3> QED
      BY <1>7, <2>1, <2>2, <3>2
  <2>3. CASE n # 0
    <3>1. n \in 1..Size /\ n \in RowIndex /\ n - 1 \in 0..Size /\ n - 1 \notin Wrong
      BY <2>1, <2>3
    <3>2. TallyOf(n - 1, alive, after[n - 1]) /\ after[n] = JudgeRow(after[n - 1], n, alive)
      BY <1>7, <3>1
    <3>3. TallyOf(n, alive, after[n])
      BY <3>1, <3>2, RowJudged
    <3> QED
      BY <2>1, <3>3
  <2> QED
    BY <2>2, <2>3
<1>9. Size \notin Wrong
  BY <1>8
<1> QED
  BY <1>2, <1>6, <1>9

LEMMA StatusInitial == StatusInit => StatusIInv
<1> SUFFICES ASSUME StatusInit PROVE StatusIInv
    OBVIOUS
<1> USE RowsAreNumbered
<1>1. SilencesAreCounted
  <2>1. 0 \in 0..(MISSES - 1) /\ 0 \in 0..MaxPolls
    BY ONLY RowsAreNumbered, StatusAssumption
  <2> QED
    BY <2>1 DEF StatusInit, SilencesAreCounted
<1>2. OutageNeedsTwoPolls
  BY DEF StatusInit, OutageNeedsTwoPolls
<1> QED
  BY <1>1, <1>2 DEF StatusIInv

\* The end of a poll keeps the counts, and no band goes as a whole.
LEMMA PollEndKeeps ==
    ASSUME StatusIInv, PollEnd
    PROVE  /\ StatusIInv'
           /\ \A b \in BandsIn : Cardinality(OnlineRows(b)) >= BandGuard
                                 => ~(OnlineRows(b) \subseteq outages')
<1> USE RowsAreNumbered, StatusAssumption
<1>1. pinged \in [RowIndex -> BOOLEAN] /\ SilencesAreCounted
  BY DEF PollEnd, StatusIInv, SilencesAreCounted
<1> DEFINE Excused(p, alive) ==
               p \in alive \/ \E i \in RowIndex : IpIn(i) = p /\ Skipped(BandIn(i), alive)
           Wants(p) == \E i \in RowIndex : IpIn(i) = p /\ pinged[i]
<1>2. PICK alive \in SUBSET Ips :
         /\ silences' = Judged(alive).silences /\ table' = Judged(alive).table
         /\ outages' = Judged(alive).outages
         /\ unanswered' = [p \in Ips |-> IF Excused(p, alive) THEN 0
                                         ELSE IF unanswered[p] < MISSES /\ Wants(p)
                                         THEN unanswered[p] + 1 ELSE unanswered[p]]
  BY DEF PollEnd
<1>3. pinged' = NotPolling /\ polls' = polls
  BY DEF PollEnd
<1>4. TallyOf(Len(HostRows), alive, Judged(alive))
  BY <1>1, AllJudged
<1>5. /\ silences' \in [Ips -> 0..(MISSES - 1)] /\ table' \in [RowIndex -> BOOLEAN] /\ outages' \subseteq RowIndex
  BY <1>2, <1>4 DEF TallyOf, Tallies
<1>6. \A i \in outages' : Silent(i, alive) /\ (Alone(i) => silences[IpIn(i)] + 1 >= MISSES)
  BY <1>2, <1>4 DEF TallyOf
<1>7. unanswered \in [Ips -> Nat] /\ unanswered' \in [Ips -> Nat]
  <2>1. unanswered \in [Ips -> Nat]
    BY <1>1 DEF SilencesAreCounted
  <2> HIDE DEF Excused, Wants
  <2> QED
    BY <1>2, <2>1
<1>8. ASSUME NEW i \in RowIndex, Alone(i)
      PROVE  /\ Excused(IpIn(i), alive) <=> IpIn(i) \in alive \/ Skipped(BandIn(i), alive)
             /\ Wants(IpIn(i)) <=> pinged[i]
  BY <1>8 DEF Alone
<1>9. ASSUME NEW i \in RowIndex, Alone(i)
      PROVE  unanswered'[IpIn(i)] = IF IpIn(i) \in alive \/ Skipped(BandIn(i), alive) THEN 0
                                    ELSE IF unanswered[IpIn(i)] < MISSES /\ pinged[i]
                                    THEN unanswered[IpIn(i)] + 1 ELSE unanswered[IpIn(i)]
  <2> HIDE DEF Excused, Wants
  <2>1. unanswered'[IpIn(i)] = IF Excused(IpIn(i), alive) THEN 0
                               ELSE IF unanswered[IpIn(i)] < MISSES /\ Wants(IpIn(i))
                               THEN unanswered[IpIn(i)] + 1 ELSE unanswered[IpIn(i)]
    BY <1>2
  <2> QED
    BY <1>8, <1>9, <2>1
<1>10. ASSUME NEW i \in RowIndex, Alone(i) PROVE silences'[IpIn(i)] <= unanswered'[IpIn(i)]
  <2>1. IF IpIn(i) \in alive \/ Skipped(BandIn(i), alive) THEN silences'[IpIn(i)] = 0
        ELSE IF ~pinged[i] THEN silences'[IpIn(i)] = silences[IpIn(i)]
        ELSE silences'[IpIn(i)] < MISSES /\ silences'[IpIn(i)] <= silences[IpIn(i)] + 1
    BY <1>2, <1>4, <1>10 DEF TallyOf
  <2>2. silences[IpIn(i)] \in Nat /\ unanswered[IpIn(i)] \in Nat /\ silences'[IpIn(i)] \in Nat
        /\ silences[IpIn(i)] <= unanswered[IpIn(i)]
    <3>1. IpIn(i) \in Ips /\ \A n \in 0..(MISSES - 1) : n \in Nat
      BY ONLY <1>10, RowsAreNumbered, i \in RowIndex
    <3>2. /\ silences[IpIn(i)] \in 0..(MISSES - 1) /\ unanswered[IpIn(i)] \in Nat
          /\ silences[IpIn(i)] <= unanswered[IpIn(i)]
      BY <1>1, <1>10, <3>1 DEF SilencesAreCounted
    <3>3. silences'[IpIn(i)] \in 0..(MISSES - 1)
      BY ONLY <1>5, <3>1
    <3> QED
      BY ONLY <3>1, <3>2, <3>3
  <2> QED
    BY <1>9, <1>10, <2>1, <2>2 DEF MISSES
<1>11. SilencesAreCounted'
  BY <1>1, <1>3, <1>5, <1>7, <1>10 DEF SilencesAreCounted, Alone
<1>12. OutageNeedsTwoPolls'
  <2>1. SUFFICES ASSUME NEW i \in outages', Alone(i) PROVE unanswered'[IpIn(i)] >= MISSES
    BY <1>5 DEF OutageNeedsTwoPolls, Alone
  <2>2. i \in RowIndex /\ Silent(i, alive) /\ silences[IpIn(i)] + 1 >= MISSES
    BY <1>5, <1>6, <2>1
  <2>3. silences[IpIn(i)] \in Nat /\ unanswered[IpIn(i)] \in Nat
        /\ silences[IpIn(i)] <= unanswered[IpIn(i)]
    BY <1>1, <2>1, <2>2 DEF SilencesAreCounted
  <2> QED
    BY SMTT(30), <1>9, <2>1, <2>2, <2>3 DEF Silent, MISSES
<1>13. ASSUME NEW b \in BandsIn, Cardinality(OnlineRows(b)) >= BandGuard, OnlineRows(b) \subseteq outages'
       PROVE  FALSE
  <2>1. OnlineRows(b) # {}
    <3>1. Cardinality({}) = 0
      BY FS_EmptySet
    <3>2. ~(0 >= BandGuard)
      OBVIOUS
    <3> QED
      BY <1>13, <3>1, <3>2
  <2>2. \A i \in OnlineRows(b) : BandIn(i) = b
    BY DEF OnlineRows
  <2>3. \A i \in OnlineRows(b) : Silent(i, alive)
    BY <1>6, <1>13
  <2>4. Skipped(b, alive)
    BY <1>13, <2>3 DEF Skipped, Silent
  <2> QED
    BY <2>1, <2>2, <2>3, <2>4 DEF Silent
<1> QED
  BY <1>11, <1>12, <1>13 DEF StatusIInv

LEMMA StatusStep == StatusIInv /\ [StatusNext]_statusVars => StatusIInv'
<1> SUFFICES ASSUME StatusIInv, [StatusNext]_statusVars PROVE StatusIInv'
    OBVIOUS
<1>1. CASE PollBegin
  <2>1. /\ UNCHANGED <<table, silences, unanswered, outages>> /\ pinged' = table
        /\ polls < MaxPolls /\ polls' = polls + 1
    BY <1>1 DEF PollBegin
  <2>2. SilencesAreCounted /\ polls' \in 0..MaxPolls
    BY <2>1, StatusAssumption DEF StatusIInv, SilencesAreCounted
  <2>3. SilencesAreCounted'
    BY ONLY <2>1, <2>2 DEF SilencesAreCounted
  <2> QED
    BY <2>1, <2>3 DEF StatusIInv, OutageNeedsTwoPolls
<1>2. CASE PollEnd
  BY <1>2, PollEndKeeps
<1>3. ASSUME NEW i \in RowIndex, RowChanges(i) PROVE StatusIInv'
  BY <1>3 DEF RowChanges, StatusIInv, SilencesAreCounted, OutageNeedsTwoPolls
<1>4. CASE UNCHANGED statusVars
  BY <1>4 DEF statusVars, StatusIInv, SilencesAreCounted, OutageNeedsTwoPolls
<1> QED
  BY <1>1, <1>2, <1>3, <1>4 DEF StatusNext

-----------------------------------------------------------------------------
(* The sweep over the ports.                                               *)

\* A port that the walks saw each time was announced in the state of the
\* baseline, and between the events and the new baseline in the state found.
AnnouncedIsSeen ==
    \A p \in Ports \ (forgotten \cup repeated) :
        IF walk.at = "save" /\ walk.found[p] # "none"
        THEN announced[p] = walk.found[p] ELSE announced[p] = baseline[p]

PortIInv == PortTypeOK /\ AnnouncedIsSeen

LEMMA PortInitial == PortInit => PortIInv
BY DEF PortInit, PortIInv, PortTypeOK, AnnouncedIsSeen, NoWalk, States

LEMMA PortStep == PortIInv /\ [PortNext]_portVars => PortIInv'
<1> SUFFICES ASSUME PortIInv, [PortNext]_portVars PROVE PortIInv'
    OBVIOUS
<1> USE DEF PortIInv, PortTypeOK, States
<1>w. /\ walk \in [at : {"idle", "compare", "save"}, found : [Ports -> States]]
      /\ walk.at \in {"idle", "compare", "save"} /\ walk.found \in [Ports -> States]
  OBVIOUS
<1>n. /\ NoWalk \in [at : {"idle", "compare", "save"}, found : [Ports -> States]]
      /\ NoWalk.at = "idle"
  BY DEF NoWalk
<1>1. ASSUME NEW p \in Ports, LinkChanges(p) PROVE PortIInv'
  BY <1>1 DEF LinkChanges, AnnouncedIsSeen
<1>2. CASE Walk
  <2>1. PICK found \in [Ports -> UNION {OperOf(p) : p \in Ports}] :
           walk' = [at |-> "compare", found |-> found]
    BY <1>2 DEF Walk
  <2>2. found \in [Ports -> States]
    BY <2>1 DEF OperOf
  <2>3. walk' \in [at : {"idle", "compare", "save"}, found : [Ports -> States]] /\ walk'.at = "compare"
    BY <2>1, <2>2
  <2> QED
    BY <1>2, <2>3 DEF Walk, AnnouncedIsSeen
<1>3. CASE Announce
  <2>1. walk' \in [at : {"idle", "compare", "save"}, found : [Ports -> States]]
        /\ walk'.at = "save" /\ walk'.found = walk.found
    BY <1>3, <1>w DEF Announce
  <2>2. UNCHANGED <<link, baseline, forgotten, repeated>> /\ walk.at = "compare"
    BY <1>3 DEF Announce
  <2>3. announced' \in [Ports -> States]
    BY <1>3, <1>w DEF Announce
  <2>4. \A p \in Ports : announced'[p] = IF Transition(p) \/ (FirstSight(p) /\ announced[p] = "none")
                                         THEN walk.found[p] ELSE announced[p]
    BY <1>3 DEF Announce
  <2>5. AnnouncedIsSeen'
    BY <2>1, <2>2, <2>4 DEF AnnouncedIsSeen, Transition, FirstSight
  <2> QED
    BY <2>1, <2>2, <2>3, <2>5
<1>4. CASE SaveStates
  <2>1. /\ baseline' = walk.found /\ walk' = NoWalk /\ walk.at = "save"
        /\ UNCHANGED <<link, announced, repeated>>
        /\ forgotten' = forgotten \cup {p \in Ports : baseline[p] # "none" /\ walk.found[p] = "none"}
    BY <1>4 DEF SaveStates, Saved
  <2>2. AnnouncedIsSeen'
    BY <2>1, <1>n DEF AnnouncedIsSeen
  <2> QED
    BY <1>n, <1>w, <2>1, <2>2
<1>5. CASE LoseSave
  <2>1. /\ walk' = NoWalk /\ UNCHANGED <<link, baseline, announced, forgotten>>
        /\ repeated' = IF walk.at = "save" THEN repeated \cup {p \in Ports : announced[p] # baseline[p]}
                       ELSE repeated
    BY <1>5 DEF LoseSave
  <2>2. AnnouncedIsSeen'
    BY <2>1, <1>n DEF AnnouncedIsSeen
  <2> QED
    BY <1>n, <2>1, <2>2
<1>6. CASE UNCHANGED portVars
  BY <1>6 DEF portVars, AnnouncedIsSeen
<1> QED
  BY <1>1, <1>2, <1>3, <1>4, <1>5, <1>6 DEF PortNext

LEMMA AnnouncedFollows == PortIInv => EventsFollowTheLink
BY DEF PortIInv, AnnouncedIsSeen, EventsFollowTheLink

-----------------------------------------------------------------------------
(* The sweep over the devices.                                             *)

\* A sweep has a result, or none yet, for the target of each device it read.
SweepIsTyped ==
    /\ reach \in [Devices -> {"none", "yes", "no"}] /\ listed \subseteq Devices
    /\ \/ sweep.at = "idle" /\ sweep = NoSweep
       \/ /\ sweep \in [at : {"probe"}, list : SUBSET Devices,
                        results : [TargetsOf(sweep.list) -> {"none", "yes", "no"}]]
          /\ sweep.at = "probe"

ReachIInv == SweepIsTyped /\ EventsFollowTheState

LEMMA ReachInitial == ReachInit => ReachIInv
BY DEF ReachInit, ReachIInv, SweepIsTyped, EventsFollowTheState, NoSweep

\* What the end of a sweep does.
LEMMA SweepEndFacts ==
    ASSUME ReachIInv, SweepEnd
    PROVE  /\ sweep.list \subseteq Devices
           /\ \A d \in sweep.list : Result(d) \in {"none", "yes", "no"}
           /\ reach' \in [Devices -> {"none", "yes", "no"}]
           /\ \A d \in Devices : reach'[d] = IF d \in sweep.list /\ Result(d) # "none"
                                             THEN Result(d) ELSE reach[d]
           /\ signalled' = reach' /\ sweep' = NoSweep /\ listed' = listed
<1> USE DEF ReachIInv, SweepIsTyped
<1> DEFINE judged == {d \in sweep.list : Result(d) # "none"}
<1>1. /\ sweep.at = "probe" /\ sweep.list \subseteq Devices
      /\ sweep.results \in [TargetsOf(sweep.list) -> {"none", "yes", "no"}]
  BY DEF SweepEnd, NoSweep
<1>2. \A d \in sweep.list : Result(d) \in {"none", "yes", "no"}
  BY <1>1 DEF Result, TargetsOf
<1>3. reach' = [d \in Devices |-> IF d \in judged THEN Result(d) ELSE reach[d]]
  BY DEF SweepEnd
<1>4. signalled' = [d \in Devices |-> IF d \in judged /\ (Signals(d) \/ reach[d] = "none")
                                      THEN Result(d) ELSE signalled[d]]
  BY DEF SweepEnd
<1>5. signalled = reach
  BY DEF EventsFollowTheState
<1>6. \A d \in Devices : (IF d \in judged /\ (Signals(d) \/ reach[d] = "none") THEN Result(d) ELSE signalled[d])
                         = (IF d \in judged THEN Result(d) ELSE reach[d])
  BY <1>5 DEF Signals
<1>7. signalled' = reach'
  BY <1>3, <1>4, <1>6
<1>8. reach' \in [Devices -> {"none", "yes", "no"}]
  BY <1>1, <1>2, <1>3
<1>9. sweep' = NoSweep /\ listed' = listed
  BY DEF SweepEnd
<1> QED
  BY <1>1, <1>2, <1>3, <1>7, <1>8, <1>9

LEMMA ReachStep == ReachIInv /\ [ReachNext]_reachVars => ReachIInv'
<1> SUFFICES ASSUME ReachIInv, [ReachNext]_reachVars PROVE ReachIInv'
    OBVIOUS
<1> USE DEF ReachIInv, SweepIsTyped, EventsFollowTheState
<1>1. CASE SweepBegin
  <2>1. sweep' = [at |-> "probe", list |-> listed, results |-> [t \in TargetsOf(listed) |-> "none"]]
        /\ UNCHANGED <<listed, reach, signalled>>
    BY <1>1 DEF SweepBegin
  <2>2. sweep'.at = "probe" /\ sweep'.list = listed
    BY <2>1
  <2>3. sweep' \in [at : {"probe"}, list : SUBSET Devices,
                    results : [TargetsOf(listed) -> {"none", "yes", "no"}]]
    BY <2>1
  <2>4. TargetsOf(sweep.list)' = TargetsOf(listed)
    BY <2>2 DEF TargetsOf, TargetOf
  <2> QED
    BY <2>1, <2>2, <2>3, <2>4
<1>2. CASE Probed
  <2>1. PICK t \in DOMAIN sweep.results, answer \in {"yes", "no"} :
           sweep' = [sweep EXCEPT !.results[t] = answer]
    BY <1>2 DEF Probed
  <2>2. sweep.at = "probe" /\ UNCHANGED <<listed, reach, signalled>>
    BY <1>2 DEF Probed
  <2>3. sweep \in [at : {"probe"}, list : SUBSET Devices,
                   results : [TargetsOf(sweep.list) -> {"none", "yes", "no"}]]
    BY <2>2
  <2>4. sweep' \in [at : {"probe"}, list : SUBSET Devices,
                    results : [TargetsOf(sweep.list) -> {"none", "yes", "no"}]]
        /\ sweep'.at = "probe" /\ sweep'.list = sweep.list
    BY <2>1, <2>3
  <2>5. TargetsOf(sweep.list)' = TargetsOf(sweep.list)
    BY <2>4 DEF TargetsOf, TargetOf
  <2> QED
    BY <2>2, <2>4, <2>5
<1>3. CASE SweepEnd
  <2>1. sweep'.at = "idle" /\ sweep' = NoSweep
    BY <1>3, SweepEndFacts DEF NoSweep
  <2> QED
    BY <1>3, <2>1, SweepEndFacts
<1>4. ASSUME NEW d \in Devices, ListChanges(d) PROVE ReachIInv'
  BY <1>4 DEF ListChanges, TargetsOf, TargetOf
<1>5. CASE UNCHANGED reachVars
  BY <1>5 DEF reachVars, TargetsOf, TargetOf
<1> QED
  BY <1>1, <1>2, <1>3, <1>4, <1>5 DEF ReachNext

\* The halves of a cluster share the result, and a loss has a failed probe.
LEMMA SharedAndObserved ==
    ASSUME ReachIInv, [ReachNext]_reachVars
    PROVE  /\ \A d, e \in Devices :
                 Address[d] = Address[e] /\ {d, e} \subseteq sweep.list
                 /\ SweepEnd /\ Result(d) # "none" => reach'[d] = reach'[e]
           /\ \A d \in Devices :
                 reach[d] # "no" /\ reach'[d] = "no" => sweep.results[TargetOf(d)] = "no"
<1>1. ASSUME NEW d \in Devices, NEW e \in Devices, Address[d] = Address[e],
             {d, e} \subseteq sweep.list, SweepEnd, Result(d) # "none"
      PROVE  reach'[d] = reach'[e]
  <2>1. Result(d) = Result(e)
    BY <1>1 DEF Result, TargetOf
  <2> QED
    BY <1>1, <2>1, SweepEndFacts
<1>2. ASSUME NEW d \in Devices, reach[d] # "no", reach'[d] = "no"
      PROVE  sweep.results[TargetOf(d)] = "no"
  <2>1. SweepEnd
    BY <1>2 DEF ReachNext, SweepBegin, Probed, ListChanges, reachVars
  <2> QED
    BY <1>2, <2>1, SweepEndFacts DEF Result
<1> QED
  BY <1>1, <1>2

-----------------------------------------------------------------------------
(* Counting requests.                                                      *)

\* sums holds the sum of the first entries of times, for each number of them.
Sums(times, n, sums) ==
    /\ sums \in [0..n -> Nat]
    /\ \A t \in 0..n : sums[t] = times[t] + (IF t = 0 THEN 0 ELSE sums[t - 1])

\* The partial sums of a table exist.
LEMMA SumsExist ==
    ASSUME NEW times \in [0..MaxTime -> Nat]
    PROVE  \E sums : Sums(times, MaxTime, sums)
<1> USE LimitsAssumption
<1> DEFINE Without == {n \in 0..MaxTime : ~ \E sums : Sums(times, n, sums)}
<1>1. SUFFICES ASSUME Without # {} PROVE FALSE
  OBVIOUS
<1>2. PICK n \in Without : \A m \in Without : n <= m
  <2>1. Without \in SUBSET Nat
    OBVIOUS
  <2> HIDE DEF Without
  <2> QED
    BY <1>1, <2>1, LeastNumber
<1>3. CASE n = 0
  <2> DEFINE first == [t \in 0..0 |-> times[0]]
  <2>1. Sums(times, 0, first)
    BY DEF Sums
  <2> QED
    BY <1>2, <1>3, <2>1
<1>4. CASE n # 0
  <2>1. n - 1 \in 0..MaxTime /\ n \in 0..MaxTime /\ n - 1 \notin Without
    BY <1>2, <1>4
  <2>2. PICK sums : Sums(times, n - 1, sums)
    BY <2>1
  <2> DEFINE longer == [t \in 0..n |-> IF t = n THEN times[n] + sums[n - 1] ELSE sums[t]]
  <2>3. longer \in [0..n -> Nat]
    BY <2>1, <2>2, <1>4 DEF Sums
  <2>4. ASSUME NEW t \in 0..n
        PROVE  longer[t] = times[t] + (IF t = 0 THEN 0 ELSE longer[t - 1])
    <3>1. CASE t = n
      <4>1. longer[t] = times[n] + sums[n - 1] /\ t - 1 = n - 1 /\ n - 1 \in 0..n /\ n - 1 # n
        BY <2>1, <3>1, <1>4
      <4>2. longer[n - 1] = sums[n - 1]
        BY <4>1
      <4> QED
        BY <4>1, <4>2, <3>1, <1>4
    <3>2. CASE t # n
      <4>1. t \in 0..(n - 1) /\ longer[t] = sums[t]
        BY <2>1, <3>2
      <4>2. t # 0 => t - 1 \in 0..n /\ t - 1 # n
        BY <2>1, <4>1
      <4>3. t # 0 => longer[t - 1] = sums[t - 1]
        BY <4>2
      <4>4. sums[t] = times[t] + (IF t = 0 THEN 0 ELSE sums[t - 1])
        BY <4>1, <2>2 DEF Sums
      <4> QED
        BY <4>1, <4>3, <4>4
    <3> QED
      BY <3>1, <3>2
  <2>5. Sums(times, n, longer)
    BY <2>3, <2>4 DEF Sums
  <2> QED
    BY <1>2, <2>5
<1> QED
  BY <1>3, <1>4

\* CountOf is the last of them.
LEMMA TimesCounted ==
    ASSUME NEW times \in [0..MaxTime -> Nat]
    PROVE  \E sums : Sums(times, MaxTime, sums) /\ CountOf(times) = sums[MaxTime]
<1> USE LimitsAssumption
<1> DEFINE Body(f) == [t \in 0..MaxTime |-> times[t] + (IF t = 0 THEN 0 ELSE f[t - 1])]
<1> DEFINE count == CHOOSE f : f = Body(f)
<1>1. PICK sums : Sums(times, MaxTime, sums)
  BY SumsExist
<1>2. sums = Body(sums)
  BY <1>1 DEF Sums
<1>3. count = Body(count)
  <2> HIDE DEF Body
  <2> QED
    BY <1>2
<1>4. CountOf(times) = count[MaxTime]
  BY DEF CountOf
<1> HIDE DEF count
<1>5. ASSUME NEW t \in 0..MaxTime PROVE count[t] = sums[t]
  <2> DEFINE Wrong == {n \in 0..MaxTime : count[n] # sums[n]}
  <2>1. SUFFICES ASSUME Wrong # {} PROVE FALSE
    OBVIOUS
  <2>2. PICK n \in Wrong : \A m \in Wrong : n <= m
    <3>1. Wrong \in SUBSET Nat
      OBVIOUS
    <3> HIDE DEF Wrong
    <3> QED
      BY <2>1, <3>1, LeastNumber
  <2>3. count[n] = times[n] + (IF n = 0 THEN 0 ELSE count[n - 1])
    BY <1>3
  <2>4. sums[n] = times[n] + (IF n = 0 THEN 0 ELSE sums[n - 1])
    BY <1>1 DEF Sums
  <2>5. n # 0 => count[n - 1] = sums[n - 1]
    BY <2>2
  <2> QED
    BY <2>2, <2>3, <2>4, <2>5
<1>6. MaxTime \in 0..MaxTime
  OBVIOUS
<1> QED
  BY <1>1, <1>4, <1>5, <1>6

\* A table with fewer requests at each time has fewer in all.
LEMMA CountGrows ==
    ASSUME NEW a \in [0..MaxTime -> Nat], NEW b \in [0..MaxTime -> Nat],
           \A t \in 0..MaxTime : a[t] <= b[t]
    PROVE  CountOf(a) \in Nat /\ CountOf(b) \in Nat /\ CountOf(a) <= CountOf(b)
<1> USE LimitsAssumption
<1>1. PICK f : Sums(a, MaxTime, f) /\ CountOf(a) = f[MaxTime]
  BY TimesCounted
<1>2. PICK g : Sums(b, MaxTime, g) /\ CountOf(b) = g[MaxTime]
  BY TimesCounted
<1> DEFINE Wrong == {n \in 0..MaxTime : ~(f[n] <= g[n])}
<1>3. ASSUME Wrong # {} PROVE FALSE
  <2>1. PICK n \in Wrong : \A m \in Wrong : n <= m
    <3>1. Wrong \in SUBSET Nat
      OBVIOUS
    <3> HIDE DEF Wrong
    <3> QED
      BY <1>3, <3>1, LeastNumber
  <2>2. f[n] = a[n] + (IF n = 0 THEN 0 ELSE f[n - 1]) /\ g[n] = b[n] + (IF n = 0 THEN 0 ELSE g[n - 1])
    BY <1>1, <1>2 DEF Sums
  <2>3. n # 0 => f[n - 1] <= g[n - 1] /\ f[n - 1] \in Nat /\ g[n - 1] \in Nat
    BY <2>1, <1>1, <1>2 DEF Sums
  <2>4. a[n] \in Nat /\ b[n] \in Nat /\ a[n] <= b[n]
    OBVIOUS
  <2> QED
    BY <2>1, <2>2, <2>3, <2>4
<1>4. MaxTime \in 0..MaxTime /\ MaxTime \notin Wrong
  BY <1>3
<1> QED
  BY <1>1, <1>2, <1>4 DEF Sums

\* One request more at one time is one more in all.
LEMMA CountOneMore ==
    ASSUME NEW a \in [0..MaxTime -> Nat], NEW x \in 0..MaxTime
    PROVE  CountOf([a EXCEPT ![x] = @ + 1]) = CountOf(a) + 1
<1> USE LimitsAssumption
<1> DEFINE b == [a EXCEPT ![x] = @ + 1]
<1>1. b \in [0..MaxTime -> Nat] /\ \A t \in 0..MaxTime : b[t] = a[t] + (IF t = x THEN 1 ELSE 0)
  OBVIOUS
<1> HIDE DEF b
<1>2. PICK f : Sums(a, MaxTime, f) /\ CountOf(a) = f[MaxTime]
  BY TimesCounted
<1>3. PICK g : Sums(b, MaxTime, g) /\ CountOf(b) = g[MaxTime]
  BY <1>1, TimesCounted
<1> DEFINE Wrong == {n \in 0..MaxTime : g[n] # f[n] + (IF n >= x THEN 1 ELSE 0)}
<1>4. ASSUME Wrong # {} PROVE FALSE
  <2>1. PICK n \in Wrong : \A m \in Wrong : n <= m
    <3>1. Wrong \in SUBSET Nat
      OBVIOUS
    <3> HIDE DEF Wrong
    <3> QED
      BY <1>4, <3>1, LeastNumber
  <2>2. f[n] = a[n] + (IF n = 0 THEN 0 ELSE f[n - 1]) /\ g[n] = b[n] + (IF n = 0 THEN 0 ELSE g[n - 1])
    BY <1>2, <1>3 DEF Sums
  <2>3. n # 0 => g[n - 1] = f[n - 1] + (IF n - 1 >= x THEN 1 ELSE 0) /\ f[n - 1] \in Nat
    <3>1. SUFFICES ASSUME n # 0
                   PROVE  g[n - 1] = f[n - 1] + (IF n - 1 >= x THEN 1 ELSE 0) /\ f[n - 1] \in Nat
      OBVIOUS
    <3>2. n \in 0..MaxTime /\ n - 1 \in 0..MaxTime /\ n - 1 \notin Wrong
      BY <2>1, <3>1
    <3>3. f[n - 1] \in Nat
      BY <3>2, <1>2 DEF Sums
    <3> QED
      BY <3>2, <3>3
  <2>4. a[n] \in Nat /\ b[n] = a[n] + (IF n = x THEN 1 ELSE 0)
    BY <1>1
  <2>5. CASE n = 0
    BY <2>1, <2>2, <2>4, <2>5
  <2>6. CASE n # 0
    <3>1. n - 1 >= x <=> n >= x /\ n # x
      BY <2>1
    <3>2. g[n] = f[n] + (IF n >= x THEN 1 ELSE 0)
      <4>1. CASE n = x
        <5>1. ~(n - 1 >= x) /\ n >= x
          BY <4>1
        <5>2. g[n - 1] = f[n - 1] /\ f[n - 1] \in Nat
          BY <2>3, <2>6, <5>1
        <5>3. g[n] = a[n] + 1 + f[n - 1] /\ f[n] = a[n] + f[n - 1]
          BY <2>2, <2>4, <2>6, <4>1, <5>2
        <5>4. a[n] \in Nat /\ f[n - 1] \in Nat
          BY <2>4, <5>2
        <5> HIDE DEF Wrong
        <5>5. g[n] = f[n] + 1
          BY ONLY <5>3, <5>4
        <5> QED
          BY <5>1, <5>5
      <4>2. CASE n # x
        BY <2>2, <2>3, <2>4, <2>6, <3>1, <4>2
      <4> QED
        BY <4>1, <4>2
    <3> QED
      BY <2>1, <3>2
  <2> QED
    BY <2>5, <2>6
<1>5. MaxTime \in 0..MaxTime /\ MaxTime \notin Wrong
  BY <1>4
<1>6. CountOf(b) = CountOf(a) + 1
  BY <1>2, <1>3, <1>5
<1> QED
  BY <1>6 DEF b

-----------------------------------------------------------------------------
(* The rate limiter.                                                       *)

\* What the table of the limiter holds of a key is what got through, but for
\* what is too old to count.
TableIsRight ==
    /\ time \in 1..MaxTime
    /\ tracker \in [Callers -> [0..MaxTime -> Nat]]
    /\ admitted \in [Callers -> [0..MaxTime -> Nat]]
    /\ \A k \in Callers, t \in 0..MaxTime :
          /\ tracker[k][t] <= MaxRequests
          /\ Recent(t) => tracker[k][t] = admitted[k][t]
          /\ t > time => admitted[k][t] = 0

LimitIInv == TableIsRight /\ NoBurstAboveLimit /\ RefusedForAReason

\* A time has at most as many requests as there are in all.
LEMMA EntryCounted ==
    ASSUME NEW a \in [0..MaxTime -> Nat], NEW x \in 0..MaxTime
    PROVE  CountOf(a) \in Nat /\ a[x] <= CountOf(a)
<1> USE LimitsAssumption
<1>1. PICK f : Sums(a, MaxTime, f) /\ CountOf(a) = f[MaxTime]
  BY TimesCounted
<1> DEFINE Wrong == {n \in x..MaxTime : ~(a[x] <= f[n])}
<1>2. ASSUME Wrong # {} PROVE FALSE
  <2>1. PICK n \in Wrong : \A m \in Wrong : n <= m
    <3>1. Wrong \in SUBSET Nat
      OBVIOUS
    <3> HIDE DEF Wrong
    <3> QED
      BY <1>2, <3>1, LeastNumber
  <2>2. n \in 0..MaxTime /\ f[n] = a[n] + (IF n = 0 THEN 0 ELSE f[n - 1])
    BY <1>1, <2>1 DEF Sums
  <2>3. a[n] \in Nat /\ (n # 0 => f[n - 1] \in Nat)
    BY <1>1, <2>2 DEF Sums
  <2>4. n > x => a[x] <= f[n - 1]
    BY <2>1
  <2>5. n >= x
    BY <2>1
  <2>6. CASE n = x
    BY <2>1, <2>2, <2>3, <2>6
  <2>7. CASE n > x
    <3>1. n # 0 /\ a[x] \in Nat
      BY <2>7
    <3> QED
      BY <2>1, <2>2, <2>3, <2>4, <2>7, <3>1
  <2> QED
    BY <2>5, <2>6, <2>7
<1>3. MaxTime \in x..MaxTime /\ MaxTime \notin Wrong
  BY <1>2
<1> QED
  BY <1>1, <1>3 DEF Sums

\* No table at all holds no request.
LEMMA NoneCounted == CountOf(NoTimes) = 0
<1> USE LimitsAssumption
<1>1. NoTimes \in [0..MaxTime -> Nat] /\ \A t \in 0..MaxTime : NoTimes[t] = 0
  BY DEF NoTimes
<1>2. PICK f : Sums(NoTimes, MaxTime, f) /\ CountOf(NoTimes) = f[MaxTime]
  BY <1>1, TimesCounted
<1> DEFINE Wrong == {n \in 0..MaxTime : f[n] # 0}
<1>3. ASSUME Wrong # {} PROVE FALSE
  <2>1. PICK n \in Wrong : \A m \in Wrong : n <= m
    <3>1. Wrong \in SUBSET Nat
      OBVIOUS
    <3> HIDE DEF Wrong
    <3> QED
      BY <1>3, <3>1, LeastNumber
  <2>2. n \in 0..MaxTime /\ f[n] = NoTimes[n] + (IF n = 0 THEN 0 ELSE f[n - 1])
    BY <1>2, <2>1 DEF Sums
  <2>3. n # 0 => f[n - 1] = 0
    BY <2>1, <2>2
  <2> QED
    BY <1>1, <2>1, <2>2, <2>3
<1>4. MaxTime \in 0..MaxTime /\ MaxTime \notin Wrong
  BY <1>3
<1> QED
  BY <1>2, <1>4

LEMMA LimitInitial == LimitInit => LimitIInv
<1> SUFFICES ASSUME LimitInit PROVE LimitIInv
    OBVIOUS
<1> USE LimitsAssumption DEF LimitInit
<1>1. NoTimes \in [0..MaxTime -> Nat] /\ \A t \in 0..MaxTime : NoTimes[t] = 0
  BY DEF NoTimes
<1>2. TableIsRight
  BY <1>1 DEF TableIsRight
<1>3. NoBurstAboveLimit
  <2>1. SUFFICES ASSUME NEW k \in Callers, NEW s \in 0..MaxTime
                 PROVE  CountOf([t \in 0..MaxTime |-> IF s <= t /\ t < s + WindowLen
                                                      THEN admitted[k][t] ELSE 0]) <= MaxRequests
    BY DEF NoBurstAboveLimit
  <2>2. [t \in 0..MaxTime |-> IF s <= t /\ t < s + WindowLen THEN admitted[k][t] ELSE 0] = NoTimes
    BY <1>1 DEF NoTimes
  <2> QED
    BY <2>2, NoneCounted
<1> QED
  BY <1>2, <1>3 DEF LimitIInv, RefusedForAReason

\* The times of the admitted requests of key k in the window from s on.
Span(k, s) == [t \in 0..MaxTime |-> IF s <= t /\ t < s + WindowLen THEN admitted[k][t] ELSE 0]

LEMMA SpanIsATable ==
    ASSUME TableIsRight, NEW k \in Callers, NEW s \in 0..MaxTime
    PROVE  Span(k, s) \in [0..MaxTime -> Nat]
BY DEF Span, TableIsRight

\* A request that is let through.
LEMMA AdmittedKeeps ==
    ASSUME LimitIInv, NEW k \in Callers, Request(k), ~Full(Pruned(tracker[k]))
    PROVE  LimitIInv'
<1> USE LimitsAssumption DEF LimitIInv
<1> DEFINE pruned == Pruned(tracker[k])
           counts == [tracker EXCEPT ![k] = [Pruned(tracker[k]) EXCEPT ![time] = @ + 1]]
<1>1. time \in 1..MaxTime /\ time \in 0..MaxTime /\ time' = time /\ turnedAway' = turnedAway
  BY DEF Request, TableIsRight
<1>2. admitted' = [admitted EXCEPT ![k][time] = @ + 1] /\ tracker' = DropKeys(counts)
  BY DEF Request
<1>3. pruned \in [0..MaxTime -> Nat]
      /\ \A t \in 0..MaxTime : pruned[t] = IF Recent(t) THEN tracker[k][t] ELSE 0
  BY DEF Pruned, TableIsRight
<1>4. CountOf(pruned) \in Nat /\ CountOf(pruned) < MaxRequests
  <2>1. CountOf(pruned) \in Nat
    BY <1>3, CountGrows
  <2> QED
    BY <2>1 DEF Full
<1>5. /\ counts \in [Callers -> [0..MaxTime -> Nat]]
      /\ \A c \in Callers : counts[c] = IF c = k THEN [pruned EXCEPT ![time] = @ + 1] ELSE tracker[c]
  <2> DEFINE cell == [pruned EXCEPT ![time] = @ + 1]
  <2>1. tracker \in [Callers -> [0..MaxTime -> Nat]]
    BY DEF TableIsRight
  <2>2. counts = [tracker EXCEPT ![k] = cell]
    OBVIOUS
  <2> HIDE DEF pruned, counts
  <2>3. cell \in [0..MaxTime -> Nat]
    BY <1>1, <1>3
  <2> HIDE DEF cell
  <2>4. /\ counts \in [Callers -> [0..MaxTime -> Nat]]
        /\ \A c \in Callers : counts[c] = IF c = k THEN cell ELSE tracker[c]
    BY <2>1, <2>2, <2>3
  <2> QED
    BY <2>4 DEF cell
<1> HIDE DEF pruned, counts
<1>6. pruned[time] + 1 <= MaxRequests
  BY <1>1, <1>3, <1>4, EntryCounted
<1>7. admitted' \in [Callers -> [0..MaxTime -> Nat]]
      /\ \A c \in Callers, t \in 0..MaxTime :
            admitted'[c][t] = admitted[c][t] + (IF c = k /\ t = time THEN 1 ELSE 0)
  <2>1. admitted \in [Callers -> [0..MaxTime -> Nat]]
    BY DEF TableIsRight
  <2>2. admitted' \in [Callers -> [0..MaxTime -> Nat]]
    BY <1>1, <1>2, <2>1
  <2>3. \A c \in Callers : c # k => admitted'[c] = admitted[c]
    BY <1>2, <2>1
  <2>4. admitted'[k] = [admitted[k] EXCEPT ![time] = @ + 1]
    BY <1>2, <2>1
  <2>5. \A t \in 0..MaxTime : admitted'[k][t] = admitted[k][t] + (IF t = time THEN 1 ELSE 0)
    BY <1>1, <2>1, <2>4
  <2>6. \A c \in Callers, t \in 0..MaxTime : admitted[c][t] \in Nat
    BY <2>1
  <2> QED
    BY <2>2, <2>3, <2>5, <2>6
<1>8. \A c \in Callers, t \in 0..MaxTime :
         /\ counts[c][t] \in Nat /\ counts[c][t] <= MaxRequests
         /\ Recent(t) => counts[c][t] = admitted'[c][t]
  <2>1. SUFFICES ASSUME NEW c \in Callers, NEW t \in 0..MaxTime
                 PROVE  /\ counts[c][t] \in Nat /\ counts[c][t] <= MaxRequests
                        /\ Recent(t) => counts[c][t] = admitted'[c][t]
    OBVIOUS
  <2>2. CASE c # k
    <3>1. counts[c] = tracker[c]
      BY <1>5, <2>2
    <3>2. admitted'[c][t] = admitted[c][t] + 0
      BY <1>7, <2>2
    <3>3. tracker[c][t] \in Nat /\ tracker[c][t] <= MaxRequests /\ admitted[c][t] \in Nat
          /\ (Recent(t) => tracker[c][t] = admitted[c][t])
      BY DEF TableIsRight
    <3> QED
      BY <3>1, <3>2, <3>3
  <2>3. CASE c = k
    <3>1. counts[c][t] = pruned[t] + (IF t = time THEN 1 ELSE 0) /\ pruned[t] \in Nat
      <4>1. counts[c] = [pruned EXCEPT ![time] = @ + 1]
        BY <1>5, <2>3
      <4> QED
        BY ONLY <1>1, <1>3, <4>1, t \in 0..MaxTime
    <3>2. pruned[t] = IF Recent(t) THEN tracker[k][t] ELSE 0
      BY <1>3
    <3>3. tracker[k][t] \in Nat /\ tracker[k][t] <= MaxRequests
          /\ (Recent(t) => tracker[k][t] = admitted[k][t])
      BY DEF TableIsRight
    <3>4. counts[c][t] <= MaxRequests
      BY <1>6, <3>1, <3>2, <3>3
    <3> QED
      <4>1. admitted'[c][t] = admitted[k][t] + (IF t = time THEN 1 ELSE 0)
        BY <1>7, <2>3
      <4>2. Recent(t) => pruned[t] = admitted[k][t]
        BY <3>2, <3>3
      <4> QED
        BY ONLY <3>1, <3>4, <4>1, <4>2
  <2> QED
    BY <2>2, <2>3
<1>9. \A c \in Callers : tracker'[c] = counts[c] \/ (ExpiredKey(counts[c]) /\ tracker'[c] = NoTimes)
  BY <1>2, <1>5 DEF DropKeys
<1>10. tracker' \in [Callers -> [0..MaxTime -> Nat]]
  <2>1. NoTimes \in [0..MaxTime -> Nat]
    BY DEF NoTimes
  <2> QED
    BY <1>2, <1>5, <2>1 DEF DropKeys
<1>11. TableIsRight'
  <2>1. SUFFICES ASSUME NEW c \in Callers, NEW t \in 0..MaxTime
                 PROVE  /\ tracker'[c][t] <= MaxRequests
                        /\ Recent(t) => tracker'[c][t] = admitted'[c][t]
                        /\ t > time => admitted'[c][t] = 0
    BY <1>1, <1>7, <1>10 DEF TableIsRight, Recent
  <2>2. t > time => admitted'[c][t] = 0
    <3>1. admitted'[c][t] = admitted[c][t] + (IF c = k /\ t = time THEN 1 ELSE 0)
      BY ONLY <1>7, <2>1
    <3>2. t > time => admitted[c][t] = 0
      BY DEF TableIsRight
    <3>3. t > time => t # time
      BY ONLY <1>1, t \in 0..MaxTime
    <3> QED
      BY ONLY <3>1, <3>2, <3>3
  <2>3. CASE tracker'[c] = counts[c]
    BY <1>8, <2>2, <2>3
  <2>4. CASE ExpiredKey(counts[c]) /\ tracker'[c] = NoTimes
    <3>1. tracker'[c][t] = 0
      BY <2>4 DEF NoTimes
    <3>2. Recent(t) => ~(counts[c][t] > 0)
      BY <2>4 DEF ExpiredKey
    <3> QED
      BY <1>8, <2>2, <3>1, <3>2
  <2> QED
    BY <1>9, <2>3, <2>4
<1>12. NoBurstAboveLimit'
  <2>1. SUFFICES ASSUME NEW c \in Callers, NEW s \in 0..MaxTime
                 PROVE  CountOf(Span(c, s)') <= MaxRequests
    BY DEF NoBurstAboveLimit, Span
  <2>2. Span(c, s) \in [0..MaxTime -> Nat] /\ CountOf(Span(c, s)) <= MaxRequests
    BY SpanIsATable DEF NoBurstAboveLimit, Span
  <2>3. CASE ~(c = k /\ s <= time /\ time < s + WindowLen)
    <3>1. \A t \in 0..MaxTime : s <= t /\ t < s + WindowLen => admitted'[c][t] = admitted[c][t]
      <4>1. \A t \in 0..MaxTime : admitted[c][t] \in Nat
        BY DEF TableIsRight
      <4> QED
        BY <1>1, <1>7, <2>3, <4>1
    <3>2. Span(c, s)' = Span(c, s)
      BY <3>1 DEF Span
    <3> QED
      BY <2>2, <3>2
  <2>4. CASE c = k /\ s <= time /\ time < s + WindowLen
    <3>1. Span(c, s)' = [Span(c, s) EXCEPT ![time] = @ + 1]
      <4>1. Span(c, s)' = [t \in 0..MaxTime |-> IF s <= t /\ t < s + WindowLen
                                                THEN admitted'[c][t] ELSE 0]
        BY DEF Span
      <4>2. \A t \in 0..MaxTime : admitted'[c][t] = IF t = time THEN admitted[c][t] + 1 ELSE admitted[c][t]
        <5>1. \A t \in 0..MaxTime : admitted[c][t] \in Nat
          BY DEF TableIsRight
        <5> QED
          BY <1>7, <2>4, <5>1
      <4>3. Span(c, s)[time] = admitted[c][time]
        BY <1>1, <2>4 DEF Span
      <4> QED
        BY <1>1, <2>4, <4>1, <4>2, <4>3 DEF Span
    <3>2. \A t \in 0..MaxTime : Span(c, s)[t] <= pruned[t]
      <4>1. SUFFICES ASSUME NEW t \in 0..MaxTime PROVE Span(c, s)[t] <= pruned[t]
        OBVIOUS
      <4>2. Span(c, s)[t] = IF s <= t /\ t < s + WindowLen THEN admitted[k][t] ELSE 0
        BY <2>4 DEF Span
      <4>3. pruned[t] = IF Recent(t) THEN tracker[k][t] ELSE 0
        BY <1>3
      <4>4. tracker[k][t] \in Nat /\ admitted[k][t] \in Nat
            /\ (Recent(t) => tracker[k][t] = admitted[k][t])
        BY DEF TableIsRight
      <4>5. s <= t => Recent(t)
        BY <1>1, <2>4 DEF Recent
      <4> QED
        BY <4>2, <4>3, <4>4, <4>5
    <3>3. CountOf(Span(c, s)) \in Nat /\ CountOf(Span(c, s)) <= CountOf(pruned)
      BY <1>3, <2>2, <3>2, CountGrows
    <3>4. CountOf(Span(c, s)') = CountOf(Span(c, s)) + 1
      BY <1>1, <2>2, <3>1, CountOneMore
    <3> QED
      BY <1>4, <3>3, <3>4
  <2> QED
    BY <2>3, <2>4
<1> QED
  BY <1>1, <1>11, <1>12 DEF RefusedForAReason

\* A request that is refused.
LEMMA RefusedKeeps ==
    ASSUME LimitIInv, NEW k \in Callers, Request(k), Full(Pruned(tracker[k]))
    PROVE  LimitIInv'
<1> USE LimitsAssumption DEF LimitIInv
<1>1. UNCHANGED <<time, tracker, admitted>> /\ turnedAway' = (InWindowLen(k) >= MaxRequests)
  BY DEF Request
<1> DEFINE pruned == Pruned(tracker[k])
           through == [t \in 0..MaxTime |-> IF time - t < WindowLen THEN admitted[k][t] ELSE 0]
<1>2. pruned \in [0..MaxTime -> Nat] /\ through \in [0..MaxTime -> Nat]
      /\ \A t \in 0..MaxTime : pruned[t] <= through[t]
  BY DEF Pruned, TableIsRight, Recent
<1>3. InWindowLen(k) = CountOf(through)
  BY DEF InWindowLen
<1>4. CountOf(pruned) >= MaxRequests
  BY DEF Full
<1> HIDE DEF pruned, through
<1>5. CountOf(pruned) \in Nat /\ CountOf(through) \in Nat /\ CountOf(pruned) <= CountOf(through)
  BY ONLY <1>2, CountGrows
<1>6. turnedAway'
  <2>1. InWindowLen(k) >= MaxRequests
    BY <1>3, <1>4, <1>5
  <2> QED
    BY <1>1, <2>1, Zenon
<1>7. TableIsRight'
  BY <1>1 DEF TableIsRight, Recent
<1>8. NoBurstAboveLimit'
  BY <1>1 DEF NoBurstAboveLimit
<1> QED
  BY <1>6, <1>7, <1>8 DEF RefusedForAReason

LEMMA LimitStep == LimitIInv /\ [LimitNext]_limitVars => LimitIInv'
<1> SUFFICES ASSUME LimitIInv, [LimitNext]_limitVars PROVE LimitIInv'
    OBVIOUS
<1>1. ASSUME NEW k \in Callers, Request(k) PROVE LimitIInv'
  BY <1>1, AdmittedKeeps, RefusedKeeps
<1>2. CASE Pass
  <2>1. time' = time + 1 /\ time < MaxTime /\ UNCHANGED <<tracker, admitted, turnedAway>>
    BY <1>2 DEF Pass
  <2>2. TableIsRight'
    BY <2>1, LimitsAssumption DEF LimitIInv, TableIsRight, Recent
  <2> QED
    BY <2>1, <2>2 DEF LimitIInv, NoBurstAboveLimit, RefusedForAReason
<1>3. CASE UNCHANGED limitVars
  <2>1. UNCHANGED <<time, tracker, admitted, turnedAway>>
    BY <1>3 DEF limitVars
  <2> QED
    BY <2>1 DEF LimitIInv, TableIsRight, Recent, NoBurstAboveLimit, RefusedForAReason
<1> QED
  BY <1>1, <1>2, <1>3 DEF LimitNext

-----------------------------------------------------------------------------
(* The accounts in memory.                                                 *)

\* The purge has seen a time that is past, and an account was put in after
\* the last purge looked at the clock.
AccountsAreDated ==
    /\ now \in 1..MaxNow /\ accounts \in [Accounts -> Nat] /\ swept \in 0..now
    /\ purge.at \in Int /\ purge.at <= now /\ (purge # NotPurging => purge.at \in 1..now)
    /\ purge.over \subseteq Accounts
    /\ \A a \in Accounts : accounts[a] <= MaxNow + Ttl

SessionIInv == AccountsAreDated /\ ExpiredAccountsAreGone

LEMMA SessionInitial == SessionInit => SessionIInv
<1> SUFFICES ASSUME SessionInit PROVE SessionIInv
    OBVIOUS
<1>1. purge.at = -1 /\ purge.over = {}
  BY DEF SessionInit, NotPurging
<1> QED
  BY <1>1, SessionAssumption
     DEF SessionInit, SessionIInv, AccountsAreDated, ExpiredAccountsAreGone

LEMMA SessionStep == SessionIInv /\ [SessionNext]_sessionVars => SessionIInv'
<1> SUFFICES ASSUME SessionIInv, [SessionNext]_sessionVars PROVE SessionIInv'
    OBVIOUS
<1> USE SessionAssumption DEF SessionIInv, AccountsAreDated, ExpiredAccountsAreGone
<1>1. ASSUME NEW a \in Accounts, SetCredential(a) PROVE SessionIInv'
  BY <1>1 DEF SetCredential, Expiry
<1>2. ASSUME NEW a \in Accounts, GetCredential(a) PROVE SessionIInv'
  BY <1>2 DEF GetCredential
<1>3. ASSUME NEW a \in Accounts, Clear(a) PROVE SessionIInv'
  BY <1>3 DEF Clear
<1>4. CASE PurgeBegin
  <2>1. purge'.at = now /\ purge'.over \subseteq Accounts /\ UNCHANGED <<now, accounts, swept>>
    BY <1>4 DEF PurgeBegin
  <2> QED
    BY <2>1
<1>5. CASE PurgeEnd
  <2>1. purge.at \in 1..now /\ swept' = purge.at /\ now' = now /\ purge' = NotPurging
        /\ accounts' = [a \in Accounts |-> IF accounts[a] <= purge.at THEN 0 ELSE accounts[a]]
    BY <1>5 DEF PurgeEnd, Dead
  <2>2. purge'.at = -1 /\ purge'.over = {}
    BY <2>1 DEF NotPurging
  <2> QED
    BY <2>1, <2>2 DEF NotPurging
<1>6. CASE PassNow
  BY <1>6 DEF PassNow
<1>7. CASE UNCHANGED sessionVars
  BY <1>7 DEF sessionVars
<1> QED
  BY <1>1, <1>2, <1>3, <1>4, <1>5, <1>6, <1>7 DEF SessionNext

\* A step of the purge keeps what has not expired.
LEMMA PurgeSpares ==
    ASSUME SessionIInv, PurgeEnd
    PROVE  \A a \in Accounts : accounts[a] > now => accounts'[a] = accounts[a]
BY SessionAssumption DEF SessionIInv, AccountsAreDated, PurgeEnd, Dead

-----------------------------------------------------------------------------
(* The accounts and addresses of the PCs.                                  *)

ProfileKeys == Pcs \X {0, 1, 2}
SourcesKnown == {NoSource} \cup (Pcs \X Adapters)

\* A profile that was written by its PC, by the n-th write at the latest.
ProfilesOf(k, n) ==
    [host : {k[1]}, source : SourcesKnown, at : 1..n, blob : {NoBlob} \cup [pc : {k[1]}, at : 1..n]]

PcsAreKnown ==
    /\ wayOut \in [Pcs -> {0} \cup Adapters] /\ identity \in [Pcs -> ProfileKeys]
    /\ \A p \in Pcs : identity[p] \in KeysFor(p, wayOut[p])
    /\ sharedSource \in SourcesKnown /\ written \in Nat
    /\ newestSaved \in [Pcs -> Nat] /\ savedUnder \in [Pcs -> ProfileKeys]
    /\ \A p \in Pcs : savedUnder[p][1] = p

ProfilesAreOwn ==
    /\ DOMAIN profiles \subseteq ProfileKeys
    /\ \A k \in DOMAIN profiles : profiles[k] \in ProfilesOf(k, written)

\* The account under the key it was last saved under is the newest one.
NewestIsStored ==
    \A p \in Pcs : savedUnder[p] \in DOMAIN profiles /\ profiles[savedUnder[p]].blob # NoBlob
                   => profiles[savedUnder[p]].blob.at = newestSaved[p]

ChosenIsStored ==
    /\ chosen \subseteq DOMAIN profiles
    /\ \A k \in chosen : profiles[k].source \in SourcesOf(k[1])

ProfileIInv == PcsAreKnown /\ ProfilesAreOwn /\ NewestIsStored /\ ChosenIsStored

LEMMA ProfileInitial == ProfileInit => ProfileIInv
<1> SUFFICES ASSUME ProfileInit PROVE ProfileIInv
    OBVIOUS
<1> USE DEF ProfileInit
<1>1. \A p \in Pcs : <<p, 1>> \in ProfileKeys /\ <<p, 1>>[1] = p
  BY DEF ProfileKeys
<1>2. PcsAreKnown
  BY <1>1 DEF PcsAreKnown, Adapters, SourcesKnown, KeysFor
<1>3. DOMAIN profiles = {}
  OBVIOUS
<1> QED
  BY <1>2, <1>3 DEF ProfileIInv, ProfilesAreOwn, NewestIsStored, ChosenIsStored

\* A key of a PC names the PC.
LEMMA KeyFacts ==
    ASSUME PcsAreKnown, NEW pc \in Pcs
    PROVE  /\ identity[pc] \in ProfileKeys /\ identity[pc][1] = pc
           /\ DetectedSource(pc) \in {NoSource} \cup SourcesOf(pc)
<1>1. identity[pc] \in ProfileKeys /\ identity[pc] \in KeysFor(pc, wayOut[pc])
  BY DEF PcsAreKnown
<1>2. identity[pc][1] = pc
  BY <1>1 DEF KeysFor
<1>3. wayOut[pc] \in {0} \cup Adapters
  BY DEF PcsAreKnown
<1> QED
  BY <1>1, <1>2, <1>3 DEF DetectedSource, SourcesOf

\* Reading the own address.
LEMMA SourceFacts ==
    ASSUME ProfileIInv, NEW pc \in Pcs
    PROVE  /\ SourceIp(pc) \in SourcesKnown
           /\ identity[pc] \in chosen => SourceIp(pc) \in SourcesOf(pc)
           /\ \A s \in SourcesOf(pc) : s # NoSource /\ s \in SourcesKnown
<1>1. identity[pc][1] = pc
  BY KeyFacts DEF ProfileIInv
<1>2. \A s \in SourcesOf(pc) : s # NoSource /\ s \in SourcesKnown
  BY DEF SourcesOf, SourcesKnown, NoSource
<1>3. identity[pc] \in DOMAIN profiles => profiles[identity[pc]].source \in SourcesKnown
  BY DEF ProfileIInv, ProfilesAreOwn, ProfilesOf
<1>4. SourceIp(pc) \in SourcesKnown
  BY <1>3 DEF SourceIp, ProfileIInv, PcsAreKnown
<1>5. ASSUME identity[pc] \in chosen PROVE SourceIp(pc) \in SourcesOf(pc)
  <2>1. identity[pc] \in DOMAIN profiles /\ profiles[identity[pc]].source \in SourcesOf(pc)
    BY <1>1, <1>5 DEF ProfileIInv, ChosenIsStored
  <2> QED
    BY <1>2, <2>1 DEF SourceIp
<1> QED
  BY <1>2, <1>4, <1>5

\* A profile that is written.
LEMMA Upserted ==
    ASSUME ProfileIInv, NEW pc \in Pcs, NEW source \in SourcesKnown,
           NEW blob \in {NoBlob, [pc |-> pc, at |-> written + 1]},
           profiles' = Upsert(pc, source, blob), written' = written + 1
    PROVE  /\ DOMAIN profiles' = DOMAIN profiles \cup {identity[pc]}
           /\ \A k \in DOMAIN profiles : k # identity[pc] => profiles'[k] = profiles[k]
           /\ profiles'[identity[pc]].source = source
           /\ profiles'[identity[pc]].blob =
                 IF blob # NoBlob THEN blob
                 ELSE IF identity[pc] \in DOMAIN profiles THEN profiles[identity[pc]].blob ELSE NoBlob
           /\ ProfilesAreOwn'
<1> DEFINE key == identity[pc]
           old == IF key \in DOMAIN profiles THEN profiles[key].blob ELSE NoBlob
           row == [host |-> pc, source |-> source, at |-> written + 1,
                   blob |-> IF blob # NoBlob THEN blob ELSE old]
<1>1. key \in ProfileKeys /\ key[1] = pc
  BY KeyFacts DEF ProfileIInv
<1>2. profiles' = [k \in DOMAIN profiles \cup {key} |-> IF k = key THEN row ELSE profiles[k]]
  BY DEF Upsert
<1>3. written \in Nat /\ written' = written + 1
  BY DEF ProfileIInv, PcsAreKnown
<1>4. \A k \in DOMAIN profiles : profiles[k] \in ProfilesOf(k, written')
  <2>1. SUFFICES ASSUME NEW k \in DOMAIN profiles PROVE profiles[k] \in ProfilesOf(k, written')
    OBVIOUS
  <2>2. profiles[k] \in ProfilesOf(k, written)
    BY DEF ProfileIInv, ProfilesAreOwn
  <2>3. 1..written \subseteq 1..written'
    BY <1>3
  <2> QED
    BY <2>2, <2>3 DEF ProfilesOf
<1>5. row.blob \in {NoBlob} \cup [pc : {pc}, at : 1..written']
  <2>1. old \in {NoBlob} \cup [pc : {pc}, at : 1..written']
    BY <1>1, <1>4 DEF ProfilesOf
  <2>2. written + 1 \in 1..written'
    BY <1>3
  <2> QED
    BY <2>1, <2>2
<1>6. row \in ProfilesOf(key, written')
  <2>1. written + 1 \in 1..written'
    BY <1>3
  <2> QED
    BY <1>1, <1>5, <2>1 DEF ProfilesOf
<1>7. row.source = source /\ row.blob = IF blob # NoBlob THEN blob ELSE old
  OBVIOUS
<1> HIDE DEF row, old
<1>8. /\ DOMAIN profiles' = DOMAIN profiles \cup {key} /\ profiles'[key] = row
      /\ \A k \in DOMAIN profiles : k # key => profiles'[k] = profiles[k]
  BY <1>2
<1>9. ProfilesAreOwn'
  <2>1. DOMAIN profiles' \subseteq ProfileKeys
    BY <1>1, <1>8 DEF ProfileIInv, ProfilesAreOwn
  <2>2. \A k \in DOMAIN profiles' : profiles'[k] \in ProfilesOf(k, written')
    BY <1>4, <1>6, <1>8
  <2> QED
    BY <2>1, <2>2 DEF ProfilesAreOwn
<1> QED
  BY <1>7, <1>8, <1>9 DEF old

LEMMA ProfileStep == ProfileIInv /\ [ProfileNext]_profileVars => ProfileIInv'
<1> SUFFICES ASSUME ProfileIInv, [ProfileNext]_profileVars PROVE ProfileIInv'
    OBVIOUS
<1> USE DEF ProfileIInv
<1>1. ASSUME NEW pc \in Pcs, Reroute(pc) PROVE ProfileIInv'
  <2>1. PICK out \in {0} \cup Adapters : \E key \in KeysFor(pc, out) :
           /\ wayOut' = [wayOut EXCEPT ![pc] = out]
           /\ identity' = [identity EXCEPT ![pc] = key]
    BY <1>1 DEF Reroute
  <2>2. PICK key \in KeysFor(pc, out) : identity' = [identity EXCEPT ![pc] = key]
                                        /\ wayOut' = [wayOut EXCEPT ![pc] = out]
    BY <2>1
  <2>3. written' = written + 1 /\ UNCHANGED <<profiles, sharedSource, newestSaved, savedUnder, chosen>>
    BY <1>1 DEF Reroute
  <2>4. key \in ProfileKeys
    BY DEF KeysFor, ProfileKeys, Adapters
  <2>5. PcsAreKnown'
    BY <2>2, <2>3, <2>4 DEF PcsAreKnown
  <2>6. ProfilesAreOwn'
    <3>1. written \in Nat /\ 1..written \subseteq 1..written'
      BY <2>3 DEF PcsAreKnown
    <3> QED
      BY <2>3, <3>1 DEF ProfilesAreOwn, ProfilesOf
  <2> QED
    BY <2>3, <2>5, <2>6 DEF NewestIsStored, ChosenIsStored
<1>2. ASSUME NEW pc \in Pcs, KeepAccount(pc) PROVE ProfileIInv'
  <2> DEFINE source == IF SourceIp(pc) # NoSource THEN SourceIp(pc) ELSE DetectedSource(pc)
             fresh == [pc |-> pc, at |-> written + 1]
             key == identity[pc]
  <2>1. PICK encrypted \in BOOLEAN :
           /\ profiles' = Upsert(pc, source, IF encrypted THEN fresh ELSE NoBlob)
           /\ newestSaved' = IF encrypted THEN [newestSaved EXCEPT ![pc] = written + 1] ELSE newestSaved
           /\ savedUnder' = IF encrypted THEN [savedUnder EXCEPT ![pc] = key] ELSE savedUnder
    BY <1>2 DEF KeepAccount
  <2>2. written' = written + 1 /\ UNCHANGED <<wayOut, identity, sharedSource, chosen>> /\ written \in Nat
    BY <1>2 DEF KeepAccount, PcsAreKnown
  <2>3. key \in ProfileKeys /\ key[1] = pc
    BY KeyFacts
  <2>4. source \in SourcesKnown /\ (key \in chosen => source \in SourcesOf(pc))
    BY KeyFacts, SourceFacts DEF SourcesKnown
  <2>5. fresh # NoBlob /\ fresh.at = written + 1
    <3>1. NoBlob.pc = "none" /\ fresh.pc = pc /\ pc # "none"
      BY ProfileAssumption DEF NoBlob
    <3> QED
      BY <3>1
  <2> DEFINE blob == IF encrypted THEN fresh ELSE NoBlob
  <2>6. blob \in {NoBlob, fresh}
    OBVIOUS
  <2> HIDE DEF source, blob
  <2>7. /\ DOMAIN profiles' = DOMAIN profiles \cup {key}
        /\ \A k \in DOMAIN profiles : k # key => profiles'[k] = profiles[k]
        /\ profiles'[key].source = source
        /\ profiles'[key].blob = IF blob # NoBlob THEN blob
                                 ELSE IF key \in DOMAIN profiles THEN profiles[key].blob ELSE NoBlob
        /\ ProfilesAreOwn'
    <3>1. profiles' = Upsert(pc, source, blob)
      BY <2>1 DEF blob
    <3> QED
      BY <2>2, <2>4, <2>6, <3>1, Upserted
  <2>8. PcsAreKnown'
    <3>1. newestSaved' \in [Pcs -> Nat]
      BY <2>1, <2>2 DEF PcsAreKnown
    <3>2. savedUnder' \in [Pcs -> ProfileKeys] /\ \A p \in Pcs : savedUnder'[p][1] = p
      <4>1. savedUnder \in [Pcs -> ProfileKeys] /\ \A p \in Pcs : savedUnder[p][1] = p
        BY DEF PcsAreKnown
      <4> HIDE DEF key
      <4> QED
        BY <2>1, <2>3, <4>1
    <3> QED
      BY <2>2, <3>1, <3>2 DEF PcsAreKnown, KeysFor
  <2>9. NewestIsStored'
    <3>1. SUFFICES ASSUME NEW p \in Pcs, savedUnder'[p] \in DOMAIN profiles',
                          profiles'[savedUnder'[p]].blob # NoBlob
                   PROVE  profiles'[savedUnder'[p]].blob.at = newestSaved'[p]
      BY DEF NewestIsStored
    <3>2. CASE encrypted /\ p = pc
      <4>1. savedUnder'[p] = key /\ newestSaved'[p] = written + 1 /\ blob = fresh
        BY <2>1, <3>2 DEF PcsAreKnown, blob
      <4> QED
        BY <2>5, <2>7, <4>1
    <3>3. CASE p # pc
      <4>1. savedUnder'[p] = savedUnder[p] /\ newestSaved'[p] = newestSaved[p] /\ savedUnder[p] # key
        BY <2>1, <2>3, <3>3 DEF PcsAreKnown
      <4>2. savedUnder[p] \in DOMAIN profiles /\ profiles'[savedUnder[p]] = profiles[savedUnder[p]]
        BY <2>7, <3>1, <4>1
      <4> QED
        BY <3>1, <4>1, <4>2 DEF NewestIsStored
    <3>4. CASE ~encrypted /\ p = pc
      <4>1. savedUnder'[p] = savedUnder[p] /\ newestSaved'[p] = newestSaved[p] /\ blob = NoBlob
        BY <2>1, <3>4 DEF blob
      <4>2. savedUnder[p] \in DOMAIN profiles /\ profiles'[savedUnder[p]].blob = profiles[savedUnder[p]].blob
        BY <2>7, <3>1, <4>1
      <4> QED
        BY <3>1, <4>1, <4>2 DEF NewestIsStored
    <3> QED
      BY <3>2, <3>3, <3>4
  <2>10. ChosenIsStored'
    BY <2>2, <2>3, <2>4, <2>7 DEF ChosenIsStored, SourcesOf
  <2> QED
    BY <2>7, <2>8, <2>9, <2>10
<1>3. ASSUME NEW pc \in Pcs, ChooseSource(pc) PROVE ProfileIInv'
  <2> DEFINE key == identity[pc]
  <2>1. PICK source \in {NoSource} \cup SourcesOf(pc) :
           LET own == IF source # NoSource THEN source ELSE DetectedSource(pc)
           IN  /\ sharedSource' = source
               /\ profiles' = Upsert(pc, own, NoBlob)
               /\ chosen' = IF own # NoSource THEN chosen \cup {key} ELSE chosen \ {key}
    BY <1>3 DEF ChooseSource
  <2> DEFINE own == IF source # NoSource THEN source ELSE DetectedSource(pc)
  <2>2. /\ sharedSource' = source /\ profiles' = Upsert(pc, own, NoBlob)
        /\ chosen' = IF own # NoSource THEN chosen \cup {key} ELSE chosen \ {key}
    BY <2>1
  <2>3. written' = written + 1 /\ UNCHANGED <<wayOut, identity, newestSaved, savedUnder>> /\ written \in Nat
    BY <1>3 DEF ChooseSource, PcsAreKnown
  <2>4. key \in ProfileKeys /\ key[1] = pc
    BY KeyFacts
  <2>5. own \in {NoSource} \cup SourcesOf(pc) /\ own \in SourcesKnown /\ source \in SourcesKnown
    BY KeyFacts, SourceFacts DEF SourcesKnown
  <2> HIDE DEF own
  <2>6. /\ DOMAIN profiles' = DOMAIN profiles \cup {key}
        /\ \A k \in DOMAIN profiles : k # key => profiles'[k] = profiles[k]
        /\ profiles'[key].source = own
        /\ profiles'[key].blob = IF key \in DOMAIN profiles THEN profiles[key].blob ELSE NoBlob
        /\ ProfilesAreOwn'
    BY <2>2, <2>3, <2>5, Upserted
  <2>7. PcsAreKnown'
    BY <2>2, <2>3, <2>5 DEF PcsAreKnown, KeysFor
  <2>8. NewestIsStored'
    BY <2>3, <2>6 DEF NewestIsStored
  <2>9. ChosenIsStored'
    BY <2>2, <2>4, <2>5, <2>6 DEF ChosenIsStored, SourcesOf
  <2> QED
    BY <2>6, <2>7, <2>8, <2>9
<1>4. ASSUME NEW key \in DOMAIN profiles, DeleteProfile(key) PROVE ProfileIInv'
  <2>1. /\ profiles' = [k \in DOMAIN profiles \ {key} |-> profiles[k]] /\ chosen' = chosen \ {key}
        /\ UNCHANGED <<wayOut, identity, sharedSource, written, newestSaved, savedUnder>>
    BY <1>4 DEF DeleteProfile
  <2>2. DOMAIN profiles' = DOMAIN profiles \ {key} /\ \A k \in DOMAIN profiles' : profiles'[k] = profiles[k]
    BY <2>1
  <2>3. PcsAreKnown'
    BY <2>1 DEF PcsAreKnown, KeysFor
  <2>4. ProfilesAreOwn'
    BY <2>1, <2>2 DEF ProfilesAreOwn
  <2>5. NewestIsStored'
    BY <2>1, <2>2 DEF NewestIsStored
  <2>6. ChosenIsStored'
    BY <2>1, <2>2 DEF ChosenIsStored, SourcesOf
  <2> QED
    BY <2>3, <2>4, <2>5, <2>6
<1>5. CASE ClearAll
  <2>1. /\ profiles' = [k \in DOMAIN profiles |-> [profiles[k] EXCEPT !.blob = NoBlob]]
        /\ UNCHANGED <<wayOut, identity, sharedSource, written, newestSaved, savedUnder, chosen>>
    BY <1>5 DEF ClearAll
  <2>2. DOMAIN profiles' = DOMAIN profiles
    BY <2>1
  <2>3. ASSUME NEW k \in DOMAIN profiles
        PROVE  /\ profiles'[k] \in ProfilesOf(k, written) /\ profiles'[k].source = profiles[k].source
               /\ profiles'[k].blob = NoBlob
    <3>1. profiles[k] \in ProfilesOf(k, written) /\ profiles'[k] = [profiles[k] EXCEPT !.blob = NoBlob]
      BY <2>1 DEF ProfilesAreOwn
    <3> QED
      BY <3>1 DEF ProfilesOf
  <2>4. PcsAreKnown'
    BY <2>1 DEF PcsAreKnown, KeysFor
  <2> QED
    BY <2>1, <2>2, <2>3, <2>4 DEF ProfilesAreOwn, NewestIsStored, ChosenIsStored, SourcesOf
<1>6. CASE UNCHANGED profileVars
  BY <1>6 DEF profileVars, PcsAreKnown, ProfilesAreOwn, NewestIsStored, ChosenIsStored, SourcesOf, KeysFor
<1> QED
  BY <1>1, <1>2, <1>3, <1>4, <1>5, <1>6 DEF ProfileNext

\* What the reader of an account finds.
LEMMA CredentialFacts ==
    ASSUME ProfileIInv, NEW pc \in Pcs
    PROVE  /\ (\E k \in DOMAIN profiles : profiles[k].blob.pc = pc) <=> Credential(pc) # 0
           /\ identity[pc] = savedUnder[pc] /\ Decoded(pc, identity[pc]) # 0
                 => Credential(pc) = newestSaved[pc]
<1> DEFINE others == {k \in DOMAIN profiles \ {identity[pc]} : profiles[k].host = pc /\ Decoded(pc, k) # 0}
<1>1. pc # "none" /\ NoBlob.pc = "none" /\ NoBlob.at = 0
  BY ProfileAssumption DEF NoBlob
<1>2. ASSUME NEW k \in DOMAIN profiles
      PROVE  /\ profiles[k].blob.pc = pc <=> Decoded(pc, k) # 0
             /\ profiles[k].blob.pc = pc => profiles[k].host = pc /\ profiles[k].blob # NoBlob
                                            /\ Decoded(pc, k) = profiles[k].blob.at
             /\ profiles[k].at \in Nat
  <2>1. profiles[k] \in ProfilesOf(k, written) /\ written \in Nat
    BY DEF ProfileIInv, ProfilesAreOwn, PcsAreKnown
  <2>2. profiles[k].blob \in {NoBlob} \cup [pc : {k[1]}, at : 1..written] /\ profiles[k].host = k[1]
        /\ profiles[k].at \in 1..written
    BY <2>1 DEF ProfilesOf
  <2>3. CASE profiles[k].blob = NoBlob
    BY <1>1, <2>2, <2>3 DEF Decoded
  <2>4. CASE profiles[k].blob \in [pc : {k[1]}, at : 1..written]
    <3>1. profiles[k].blob.pc = k[1] /\ profiles[k].blob.at \in 1..written
      BY <2>4
    <3>2. profiles[k].blob.at # 0 /\ profiles[k].blob.at # NoBlob.at
      BY <1>1, <2>1, <3>1
    <3>3. profiles[k].blob # NoBlob
      BY <3>2
    <3> QED
      BY <2>1, <2>2, <3>1, <3>2, <3>3 DEF Decoded
  <2> QED
    BY <2>2, <2>3, <2>4
<1>3. \A k : Decoded(pc, k) # 0 => k \in DOMAIN profiles
  BY DEF Decoded
<1>4. ASSUME Decoded(pc, identity[pc]) # 0 PROVE Credential(pc) = Decoded(pc, identity[pc])
  BY <1>4 DEF Credential
<1>5. ASSUME Decoded(pc, identity[pc]) = 0, others = {} PROVE Credential(pc) = 0
  BY <1>5 DEF Credential
<1>6. ASSUME Decoded(pc, identity[pc]) = 0, others # {} PROVE Credential(pc) # 0
  <2> DEFINE Newest(k) == \A j \in others : profiles[j].at <= profiles[k].at
             last == CHOOSE k \in others : Newest(k)
  <2>1. \A k \in others : k \in DOMAIN profiles /\ profiles[k].at \in 1..written /\ written \in Nat
    BY DEF ProfileIInv, ProfilesAreOwn, ProfilesOf, PcsAreKnown
  <2> DEFINE ages == {n \in Nat : \E k \in others : n = written - profiles[k].at}
  <2>2. PICK k \in others : TRUE
    BY <1>6
  <2>3. written - profiles[k].at \in ages
    BY <2>1, <2>2
  <2>4. PICK n \in ages : \A m \in ages : n <= m
    <3>1. ages \in SUBSET Nat /\ ages # {}
      BY <2>3
    <3> HIDE DEF ages
    <3> QED
      BY <3>1, LeastNumber
  <2>5. PICK j \in others : n = written - profiles[j].at
    BY <2>4
  <2>6. ASSUME NEW i \in others PROVE profiles[i].at <= profiles[j].at
    <3>1. written - profiles[i].at \in ages
      BY <2>1
    <3>2. n <= written - profiles[i].at
      BY <2>4, <3>1
    <3> QED
      BY <2>1, <2>5, <3>2
  <2>7. Newest(j)
    BY <2>6
  <2>8. last \in others
    <3> HIDE DEF Newest, others
    <3> QED
      BY <2>5, <2>7
  <2>9. Credential(pc) = Decoded(pc, last)
    BY <1>6 DEF Credential
  <2> QED
    BY <2>8, <2>9
<1>7. (\E k \in DOMAIN profiles : profiles[k].blob.pc = pc) <=> Credential(pc) # 0
  <2>1. ASSUME NEW k \in DOMAIN profiles, profiles[k].blob.pc = pc PROVE Credential(pc) # 0
    <3>1. Decoded(pc, k) # 0 /\ profiles[k].host = pc
      BY <1>2, <2>1
    <3>2. CASE k = identity[pc]
      BY <1>4, <3>1, <3>2
    <3>3. CASE k # identity[pc]
      <4>1. k \in others
        BY <3>1, <3>3
      <4> QED
        BY <1>4, <1>6, <4>1
    <3> QED
      BY <3>2, <3>3
  <2>2. ASSUME Credential(pc) # 0 PROVE \E k \in DOMAIN profiles : profiles[k].blob.pc = pc
    <3>1. CASE Decoded(pc, identity[pc]) # 0
      BY <1>2, <1>3, <3>1
    <3>2. CASE Decoded(pc, identity[pc]) = 0
      <4>1. PICK k \in others : TRUE
        BY <1>5, <2>2, <3>2
      <4> QED
        BY <1>2, <4>1
    <3> QED
      BY <3>1, <3>2
  <2> QED
    BY <2>1, <2>2
<1>8. ASSUME identity[pc] = savedUnder[pc], Decoded(pc, identity[pc]) # 0
      PROVE  Credential(pc) = newestSaved[pc]
  <2>1. identity[pc] \in DOMAIN profiles /\ profiles[identity[pc]].blob # NoBlob
        /\ Decoded(pc, identity[pc]) = profiles[identity[pc]].blob.at
    BY <1>2, <1>3, <1>8
  <2>2. profiles[identity[pc]].blob.at = newestSaved[pc]
    BY <1>8, <2>1 DEF ProfileIInv, NewestIsStored
  <2> QED
    BY <1>4, <1>8, <2>1, <2>2
<1> QED
  BY <1>7, <1>8

LEMMA ProfilesAreSafe == ProfileIInv => AccountIsFound /\ NewAccountIsUsed /\ ChosenSourceIsOwn
BY CredentialFacts, SourceFacts DEF AccountIsFound, NewAccountIsUsed, ChosenSourceIsOwn

-----------------------------------------------------------------------------
(* The mailing of alarms.                                                  *)

Rising(seq) == \A i, j \in DOMAIN seq : i < j => seq[i] < seq[j]

\* Alarms wait in the order of their numbers, behind what was cut off.
AlarmsAreInOrder ==
    /\ Rising(pending) /\ Rising(mailQueue)
    /\ \A e \in Range(pending), f \in Range(mailQueue) : e < f
    /\ \A e \in Range(pending) \cup Range(mailQueue) : e <= Len(alarms)
    /\ \A t \in trimmed : /\ t <= Len(alarms)
                          /\ \A e \in Range(pending) \cup Range(mailQueue) : t < e

\* What waits was not mailed yet, nor was what is still to happen.
WaitingIsUnsent ==
    \A e \in Alarms \ doubted :
        e \in Range(pending) \cup Range(mailQueue) \/ e > Len(alarms)
            => \A d \in Domains : copies[e][d] = 0

MailIInv == /\ MailTypeOK /\ Len(alarms) <= MaxAlarms /\ AlarmsAreInOrder /\ WaitingIsUnsent
            /\ AlarmsAreAccountedFor /\ MailedOnce

LEMMA MailInitial == MailInit => MailIInv
<1> SUFFICES ASSUME MailInit PROVE MailIInv
  OBVIOUS
<1>1. Range(pending) = {} /\ Range(mailQueue) = {} /\ DOMAIN pending = {} /\ DOMAIN mailQueue = {}
      /\ DOMAIN alarms = {} /\ Len(alarms) = 0
  BY DEF MailInit, Range
<1>2. MailTypeOK
  BY NotifierAssumption DEF MailInit, MailTypeOK
<1>3. AlarmsAreInOrder /\ AlarmsAreAccountedFor
  BY <1>1 DEF MailInit, AlarmsAreInOrder, AlarmsAreAccountedFor, Rising
<1>4. WaitingIsUnsent /\ MailedOnce
  BY <1>1 DEF MailInit, WaitingIsUnsent, MailedOnce, Alarms
<1> QED
  BY <1>1, <1>2, <1>3, <1>4, NotifierAssumption DEF MailIInv

-----------------------------------------------------------------------------
(* Lists of numbers.                                                       *)

LEMMA RangeFacts ==
    ASSUME NEW s \in Seq(Alarms)
    PROVE  /\ Range(s) \subseteq Alarms /\ DOMAIN s = 1..Len(s) /\ Len(s) \in Nat
           /\ \A x : x \in Range(s) <=> \E i \in 1..Len(s) : x = s[i]
  BY DEF Range

LEMMA AppendRises ==
    ASSUME NEW s \in Seq(Alarms), NEW x \in Alarms, Rising(s), \A e \in Range(s) : e < x
    PROVE  /\ Append(s, x) \in Seq(Alarms) /\ Rising(Append(s, x))
           /\ Range(Append(s, x)) = Range(s) \cup {x}
<1> DEFINE t == Append(s, x)
<1>1. t \in Seq(Alarms) /\ Len(t) = Len(s) + 1 /\ Len(s) \in Nat /\ t[Len(s) + 1] = x
      /\ \A i \in 1..Len(s) : t[i] = s[i]
  OBVIOUS
<1> HIDE DEF t
<1>2. DOMAIN t = 1..(Len(s) + 1) /\ DOMAIN s = 1..Len(s)
  BY <1>1
<1>3. Range(t) = Range(s) \cup {x}
  BY <1>1, <1>2 DEF Range
<1>4. ASSUME NEW i \in DOMAIN t, NEW j \in DOMAIN t, i < j PROVE t[i] < t[j]
  <2>1. CASE j = Len(s) + 1
    <3>1. i \in 1..Len(s) /\ t[i] = s[i] /\ t[j] = x
      BY <1>1, <1>2, <1>4, <2>1
    <3>2. s[i] \in Range(s)
      BY <1>2, <3>1 DEF Range
    <3> QED
      BY <3>1, <3>2
  <2>2. CASE j # Len(s) + 1
    <3>1. i \in 1..Len(s) /\ j \in 1..Len(s)
      BY <1>1, <1>2, <1>4, <2>2
    <3> QED
      BY <1>1, <1>2, <1>4, <3>1 DEF Rising
  <2> QED
    BY <2>1, <2>2
<1> QED
  BY <1>1, <1>3, <1>4 DEF Rising, t

LEMMA JoinRises ==
    ASSUME NEW s \in Seq(Alarms), NEW t \in Seq(Alarms), Rising(s), Rising(t),
           \A e \in Range(s), f \in Range(t) : e < f
    PROVE  /\ s \o t \in Seq(Alarms) /\ Rising(s \o t)
           /\ Range(s \o t) = Range(s) \cup Range(t)
<1> DEFINE u == s \o t
           n == Len(s)
<1>1. /\ u \in Seq(Alarms) /\ n \in Nat /\ Len(t) \in Nat /\ Len(u) = n + Len(t)
      /\ \A i \in 1..n : u[i] = s[i]
      /\ \A i \in 1..Len(t) : u[n + i] = t[i]
  OBVIOUS
<1> HIDE DEF u, n
<1>2. DOMAIN u = 1..(n + Len(t)) /\ DOMAIN s = 1..n /\ DOMAIN t = 1..Len(t)
  BY <1>1 DEF n
<1>3. ASSUME NEW i \in DOMAIN u, i > n PROVE i - n \in 1..Len(t) /\ u[i] = t[i - n]
  <2>1. i - n \in 1..Len(t) /\ n + (i - n) = i
    BY <1>1, <1>2, <1>3
  <2> QED
    BY <1>1, <2>1
<1>4. Range(u) = Range(s) \cup Range(t)
  <2>1. ASSUME NEW x \in Range(u) PROVE x \in Range(s) \cup Range(t)
    <3>1. PICK i \in DOMAIN u : x = u[i]
      BY <2>1 DEF Range
    <3>2. CASE i <= n
      BY <1>1, <1>2, <3>1, <3>2 DEF Range
    <3>3. CASE i > n
      BY <1>2, <1>3, <3>1, <3>3 DEF Range
    <3> QED
      BY <1>1, <1>2, <3>2, <3>3
  <2>2. ASSUME NEW x \in Range(s) PROVE x \in Range(u)
    <3>1. PICK i \in 1..n : x = s[i]
      BY <1>2, <2>2 DEF Range
    <3>2. i \in DOMAIN u /\ u[i] = x
      BY <1>1, <1>2, <3>1
    <3> QED
      BY <3>2 DEF Range
  <2>3. ASSUME NEW x \in Range(t) PROVE x \in Range(u)
    <3>1. PICK i \in 1..Len(t) : x = t[i]
      BY <1>2, <2>3 DEF Range
    <3>2. n + i \in DOMAIN u /\ u[n + i] = x
      BY <1>1, <1>2, <3>1
    <3> QED
      BY <3>2 DEF Range
  <2> QED
    BY <2>1, <2>2, <2>3
<1>5. ASSUME NEW i \in DOMAIN u, NEW j \in DOMAIN u, i < j PROVE u[i] < u[j]
  <2>1. CASE j <= n
    <3>1. i \in 1..n /\ j \in 1..n
      BY <1>1, <1>2, <1>5, <2>1
    <3> QED
      BY <1>1, <1>2, <1>5, <3>1 DEF Rising
  <2>2. CASE i > n
    <3>1. j > n /\ i - n < j - n
      BY <1>1, <1>2, <1>5, <2>2
    <3> QED
      BY <1>2, <1>3, <2>2, <3>1 DEF Rising
  <2>3. CASE i <= n /\ j > n
    <3>1. i \in 1..n /\ u[i] = s[i] /\ s[i] \in Range(s)
      BY <1>1, <1>2, <2>3 DEF Range
    <3>2. u[j] \in Range(t)
      BY <1>2, <1>3, <2>3 DEF Range
    <3> QED
      BY <3>1, <3>2
  <2> QED
    BY <1>1, <1>2, <2>1, <2>2, <2>3
<1> QED
  BY <1>1, <1>4, <1>5 DEF Rising, u

\* What is cut off a rising list is below the rest of it.
LEMMA TrimFacts ==
    ASSUME NEW s \in Seq(Alarms), Rising(s)
    PROVE  /\ Trim(s) \in Seq(Alarms) /\ Rising(Trim(s)) /\ Range(Trim(s)) \subseteq Range(s)
           /\ \A t \in Range(s) \ Range(Trim(s)), e \in Range(Trim(s)) : t < e
<1>1. CASE Len(s) <= PendingMax
  <2>1. Trim(s) = s
    BY <1>1, NotifierAssumption DEF Trim
  <2> QED
    BY <2>1
<1>2. CASE Len(s) > PendingMax
  <2> DEFINE cut == Len(s) - PendingMax
             t == SubSeq(s, cut + 1, Len(s))
  <2>1. Trim(s) = t
    BY <1>2 DEF Trim
  <2>2. cut \in Nat /\ cut + 1 \in 1..Len(s) /\ Len(s) \in Nat /\ PendingMax \in Nat
        /\ cut + PendingMax = Len(s)
    BY <1>2, NotifierAssumption
  <2>3. t \in Seq(Alarms) /\ Len(t) = PendingMax /\ \A i \in 1..PendingMax : t[i] = s[cut + i]
    <3>1. cut + 1 \in Int /\ Len(s) \in Int /\ cut + 1 >= 1 /\ cut + 1 <= Len(s)
          /\ Len(s) - (cut + 1) + 1 = PendingMax
      BY <2>2
    <3>2. \A i \in 1..PendingMax : (cut + 1) + i - 1 = cut + i /\ cut + i \in 1..Len(s)
      BY <2>2
    <3> HIDE DEF cut
    <3>3. t \in Seq(Alarms) /\ Len(t) = PendingMax
          /\ \A i \in 1..PendingMax : t[i] = s[(cut + 1) + i - 1]
      BY <2>2, <3>1, <3>2
    <3> QED
      BY <3>2, <3>3
  <2> HIDE DEF cut, t
  <2>4. DOMAIN t = 1..PendingMax /\ DOMAIN s = 1..Len(s)
    BY <2>3
  <2>5. Rising(t)
    <3>1. ASSUME NEW i \in 1..PendingMax, NEW j \in 1..PendingMax, i < j PROVE t[i] < t[j]
      <4>1. cut + i \in 1..Len(s) /\ cut + j \in 1..Len(s) /\ cut + i < cut + j
        BY <2>2, <3>1
      <4>2. t[i] = s[cut + i] /\ t[j] = s[cut + j]
        BY <2>3
      <4> QED
        BY <2>4, <4>1, <4>2 DEF Rising
    <3> QED
      BY <2>4, <3>1 DEF Rising
  <2>6. Range(t) \subseteq Range(s)
    <3>1. ASSUME NEW i \in 1..PendingMax PROVE cut + i \in DOMAIN s /\ t[i] = s[cut + i]
      BY <2>2, <2>3, <2>4
    <3> QED
      BY <2>4, <3>1 DEF Range
  <2>7. ASSUME NEW x \in Range(s) \ Range(t), NEW e \in Range(t) PROVE x < e
    <3>1. PICK i \in DOMAIN s : x = s[i]
      BY <2>7 DEF Range
    <3>2. PICK j \in DOMAIN t : e = t[j]
      BY <2>7 DEF Range
    <3>3. i <= cut
      <4>1. SUFFICES ASSUME i > cut PROVE FALSE
        BY <2>2, <2>4, <3>1
      <4>2. i - cut \in 1..PendingMax /\ cut + (i - cut) = i
        BY <2>2, <2>4, <3>1, <4>1
      <4>3. t[i - cut] = x
        BY <2>3, <3>1, <4>2
      <4> QED
        BY <2>4, <2>7, <4>2, <4>3 DEF Range
    <3>4. cut + j \in DOMAIN s /\ e = s[cut + j] /\ i < cut + j
      BY <2>2, <2>3, <2>4, <3>1, <3>2, <3>3
    <3> QED
      BY <3>1, <3>4 DEF Rising
  <2> QED
    BY <2>1, <2>3, <2>5, <2>6, <2>7
<1> QED
  BY <1>1, <1>2, NotifierAssumption

-----------------------------------------------------------------------------
(* The steps.                                                              *)

LEMMA QueuesFacts ==
    ASSUME MailIInv
    PROVE  /\ Range(pending) \subseteq Alarms /\ Range(mailQueue) \subseteq Alarms
           /\ Range(pending) \cap Range(mailQueue) = {}
           /\ Len(alarms) \in 0..MaxAlarms /\ DOMAIN alarms = 1..Len(alarms)
           /\ MaxAlarms \in Nat
<1>1. pending \in Seq(Alarms) /\ mailQueue \in Seq(Alarms) /\ alarms \in Seq({"warning", "info"})
      /\ Len(alarms) <= MaxAlarms
  BY DEF MailIInv, MailTypeOK
<1>2. Range(pending) \subseteq Alarms /\ Range(mailQueue) \subseteq Alarms
  BY <1>1, RangeFacts
<1>3. ASSUME NEW e \in Range(pending), e \in Range(mailQueue) PROVE FALSE
  <2>1. e < e /\ e \in Int
    BY <1>2, <1>3 DEF MailIInv, AlarmsAreInOrder, Alarms
  <2> QED
    BY <2>1
<1> QED
  BY <1>1, <1>2, <1>3, NotifierAssumption

LEMMA MailedFacts ==
    ASSUME MailIInv, MailBound, NEW E \in SUBSET Alarms, NEW D \in SUBSET Domains
    PROVE  /\ Mailed(E, D) \in [Alarms -> [Domains -> 0..3]]
           /\ \A e \in Alarms, d \in Domains :
                Mailed(E, D)[e][d] = IF e \in E /\ d \in D THEN copies[e][d] + 1 ELSE copies[e][d]
<1>1. \A e \in Alarms, d \in Domains : copies[e][d] \in 0..2
  BY DEF MailIInv, MailTypeOK, MailBound
<1> QED
  BY <1>1 DEF Mailed

LEMMA MailedToNobody ==
    ASSUME MailIInv, NEW E, NEW D, E = {} \/ D = {}
    PROVE  Mailed(E, D) = copies
<1>1. copies \in [Alarms -> [Domains -> 0..3]]
  BY DEF MailIInv, MailTypeOK
<1>2. copies = [e \in Alarms |-> [d \in Domains |-> copies[e][d]]]
  BY <1>1
<1>3. Mailed(E, D) = [e \in Alarms |-> [d \in Domains |-> copies[e][d]]]
  BY DEF Mailed
<1> QED
  BY <1>2, <1>3

\* The list is done, its alarms E mailed to the domains D.
LEMMA DoneKeeps ==
    ASSUME MailIInv, MailBound, NEW E \in SUBSET Range(pending), NEW D \in SUBSET Domains,
           D # {}, copies' = Mailed(E, D), Done(E),
           UNCHANGED <<alarms, mailQueue, refused, doubted>>
    PROVE  MailIInv'
<1>1. /\ Range(pending) \subseteq Alarms /\ Range(mailQueue) \subseteq Alarms
      /\ Range(pending) \cap Range(mailQueue) = {}
      /\ Len(alarms) \in 0..MaxAlarms /\ DOMAIN alarms = 1..Len(alarms) /\ MaxAlarms \in Nat
  BY QueuesFacts
<1>2. pending' = <<>> /\ unwanted' = unwanted \cup (Range(pending) \ E) /\ trimmed' = trimmed
  BY DEF Done
<1>3. Range(pending') = {} /\ DOMAIN pending' = {} /\ pending' \in Seq(Alarms)
  BY <1>2 DEF Range
<1>4. /\ copies' \in [Alarms -> [Domains -> 0..3]]
      /\ \A e \in Alarms, d \in Domains :
           copies'[e][d] = IF e \in E /\ d \in D THEN copies[e][d] + 1 ELSE copies[e][d]
  <2>1. E \in SUBSET Alarms
    BY <1>1
  <2>2. /\ Mailed(E, D) \in [Alarms -> [Domains -> 0..3]]
        /\ \A e \in Alarms, d \in Domains :
             Mailed(E, D)[e][d] = IF e \in E /\ d \in D THEN copies[e][d] + 1 ELSE copies[e][d]
    BY <2>1, MailedFacts
  <2> QED
    BY <2>2
<1>5. MailTypeOK'
  BY <1>1, <1>2, <1>3, <1>4 DEF MailIInv, MailTypeOK
<1>6. AlarmsAreInOrder'
  BY <1>2, <1>3 DEF MailIInv, AlarmsAreInOrder, Rising
<1>7. WaitingIsUnsent'
  <2>1. ASSUME NEW e \in Alarms \ doubted, NEW d \in Domains,
               e \in Range(mailQueue) \/ e > Len(alarms)
        PROVE  copies'[e][d] = 0
    <3>1. e \notin E
      BY <1>1, <2>1 DEF MailIInv, AlarmsAreInOrder, Alarms
    <3> QED
      BY <1>4, <2>1, <3>1 DEF MailIInv, WaitingIsUnsent
  <2> QED
    BY <1>3, <2>1 DEF WaitingIsUnsent
<1>8. MailedOnce'
  <2>1. ASSUME NEW e \in Alarms \ doubted, NEW d \in Domains PROVE copies'[e][d] <= 1
    <3>1. CASE e \in E
      BY <1>4, <2>1, <3>1 DEF MailIInv, WaitingIsUnsent
    <3>2. CASE e \notin E
      BY <1>4, <2>1, <3>2 DEF MailIInv, MailedOnce
    <3> QED
      BY <3>1, <3>2
  <2> QED
    BY <1>3, <2>1 DEF MailedOnce
<1>9. AlarmsAreAccountedFor'
  <2>1. ASSUME NEW e \in 1..Len(alarms)
        PROVE  \/ e \in Range(mailQueue) \cup refused \cup trimmed \cup unwanted'
               \/ \E d \in Domains : copies'[e][d] > 0
    <3>1. e \in Alarms
      BY <1>1 DEF Alarms
    <3>2. \A d \in Domains : copies[e][d] \in 0..3
      BY <3>1 DEF MailIInv, MailTypeOK
    <3>3. CASE e \in E
      <4>1. PICK d \in D : TRUE
        OBVIOUS
      <4>2. d \in Domains /\ copies'[e][d] = copies[e][d] + 1
        BY <1>4, <3>1, <3>3
      <4> QED
        BY <3>2, <4>2
    <3>4. CASE e \in Range(pending) \ E
      BY <1>2, <3>4
    <3>5. CASE e \notin Range(pending)
      <4>1. \A d \in Domains : copies'[e][d] = copies[e][d]
        BY <1>4, <3>1, <3>5
      <4> QED
        BY <1>1, <1>2, <3>5, <4>1 DEF MailIInv, AlarmsAreAccountedFor
    <3> QED
      BY <3>3, <3>4, <3>5
  <2> QED
    BY <1>1, <1>2, <1>3, <2>1 DEF AlarmsAreAccountedFor
<1> QED
  BY <1>5, <1>6, <1>7, <1>8, <1>9 DEF MailIInv

\* The list is kept, its alarms E mailed to the domains D or not.
LEMMA RetryKeeps ==
    ASSUME MailIInv, MailBound, NEW E \in SUBSET Range(pending), NEW D \in SUBSET Domains,
           copies' = Mailed(E, D), doubted' = doubted \cup E, Retry,
           UNCHANGED <<alarms, mailQueue, refused, unwanted>>
    PROVE  MailIInv'
<1>1. /\ Range(pending) \subseteq Alarms /\ Range(mailQueue) \subseteq Alarms
      /\ Len(alarms) \in 0..MaxAlarms /\ DOMAIN alarms = 1..Len(alarms) /\ MaxAlarms \in Nat
  BY QueuesFacts
<1>2. pending' = Trim(pending)
      /\ trimmed' = trimmed \cup (Range(pending) \ Range(pending'))
  BY DEF Retry
<1>3. /\ pending' \in Seq(Alarms) /\ Rising(pending') /\ Range(pending') \subseteq Range(pending)
      /\ \A t \in Range(pending) \ Range(pending'), e \in Range(pending') : t < e
  BY <1>2, TrimFacts DEF MailIInv, MailTypeOK, AlarmsAreInOrder
<1>4. /\ copies' \in [Alarms -> [Domains -> 0..3]]
      /\ \A e \in Alarms, d \in Domains :
           copies'[e][d] = IF e \in E /\ d \in D THEN copies[e][d] + 1 ELSE copies[e][d]
  <2>1. E \in SUBSET Alarms
    BY <1>1
  <2>2. /\ Mailed(E, D) \in [Alarms -> [Domains -> 0..3]]
        /\ \A e \in Alarms, d \in Domains :
             Mailed(E, D)[e][d] = IF e \in E /\ d \in D THEN copies[e][d] + 1 ELSE copies[e][d]
    BY <2>1, MailedFacts
  <2> QED
    BY <2>2
<1>5. MailTypeOK'
  BY <1>1, <1>2, <1>3, <1>4 DEF MailIInv, MailTypeOK
<1>6. AlarmsAreInOrder'
  <2>1. ASSUME NEW t \in trimmed', NEW e \in Range(pending') \cup Range(mailQueue)
        PROVE  t <= Len(alarms) /\ t < e
    BY <1>2, <1>3, <2>1 DEF MailIInv, AlarmsAreInOrder
  <2>2. ASSUME NEW t \in trimmed' PROVE t <= Len(alarms)
    BY <1>2, <2>2 DEF MailIInv, AlarmsAreInOrder
  <2>3. /\ Rising(mailQueue)
        /\ \A e \in Range(pending'), f \in Range(mailQueue) : e < f
        /\ \A e \in Range(pending') \cup Range(mailQueue) : e <= Len(alarms)
    BY <1>3 DEF MailIInv, AlarmsAreInOrder
  <2> QED
    BY <1>3, <2>1, <2>2, <2>3 DEF AlarmsAreInOrder, Rising
<1>7. WaitingIsUnsent'
  BY <1>3, <1>4 DEF MailIInv, WaitingIsUnsent
<1>8. MailedOnce'
  BY <1>3, <1>4 DEF MailIInv, MailedOnce
<1>9. AlarmsAreAccountedFor'
  <2>1. ASSUME NEW e \in 1..Len(alarms)
        PROVE  \/ e \in Range(mailQueue) \cup Range(pending') \cup refused \cup trimmed' \cup unwanted
               \/ \E d \in Domains : copies'[e][d] > 0
    <3>1. e \in Alarms
      BY <1>1 DEF Alarms
    <3>2. \A d \in Domains : copies[e][d] > 0 => copies'[e][d] > 0
      <4>1. \A d \in Domains : copies[e][d] \in 0..3
        BY <3>1 DEF MailIInv, MailTypeOK
      <4> QED
        BY <1>4, <3>1, <4>1
    <3>3. \/ e \in Range(mailQueue) \cup Range(pending) \cup refused \cup trimmed \cup unwanted
          \/ \E d \in Domains : copies[e][d] > 0
      BY <1>1, <2>1 DEF MailIInv, AlarmsAreAccountedFor
    <3> QED
      BY <1>2, <3>2, <3>3
  <2> QED
    BY <1>1, <2>1 DEF AlarmsAreAccountedFor
<1> QED
  BY <1>5, <1>6, <1>7, <1>8, <1>9 DEF MailIInv

LEMMA NotifyKeeps ==
    ASSUME MailIInv, NEW severity \in {"warning", "info"}, Notify(severity)
    PROVE  MailIInv'
<1> DEFINE n == Len(alarms) + 1
<1>1. /\ Range(pending) \subseteq Alarms /\ Range(mailQueue) \subseteq Alarms
      /\ Len(alarms) \in 0..MaxAlarms /\ DOMAIN alarms = 1..Len(alarms) /\ MaxAlarms \in Nat
  BY QueuesFacts
<1>2. /\ Len(alarms) < MaxAlarms /\ alarms' = Append(alarms, severity)
      /\ UNCHANGED <<pending, copies, trimmed, unwanted, doubted>>
  BY DEF Notify
<1>3. alarms' \in Seq({"warning", "info"}) /\ Len(alarms') = n /\ DOMAIN alarms' = 1..n
      /\ n \in Alarms /\ n <= MaxAlarms
  <2>1. alarms \in Seq({"warning", "info"})
    BY DEF MailIInv, MailTypeOK
  <2> QED
    BY <1>1, <1>2, <2>1 DEF Alarms
<1>4. \/ mailQueue' = Append(mailQueue, n) /\ refused' = refused /\ Len(mailQueue) < QueueMax
      \/ mailQueue' = mailQueue /\ refused' = refused \cup {n}
  BY <1>3 DEF Notify, Room
<1>5. mailQueue \in Seq(Alarms) /\ Rising(mailQueue) /\ \A e \in Range(mailQueue) : e < n
  BY <1>1 DEF MailIInv, MailTypeOK, AlarmsAreInOrder, Alarms
<1>6. /\ mailQueue' \in Seq(Alarms) /\ Rising(mailQueue') /\ Len(mailQueue') <= QueueMax
      /\ \/ Range(mailQueue') = Range(mailQueue) \cup {n} /\ refused' = refused
         \/ Range(mailQueue') = Range(mailQueue) /\ refused' = refused \cup {n}
  <2>1. CASE mailQueue' = Append(mailQueue, n) /\ refused' = refused /\ Len(mailQueue) < QueueMax
    <3>1. Len(mailQueue') <= QueueMax
      BY <1>5, <2>1, NotifierAssumption
    <3> QED
      BY <1>3, <1>5, <2>1, <3>1, AppendRises
  <2>2. CASE mailQueue' = mailQueue /\ refused' = refused \cup {n}
    BY <1>5, <2>2 DEF MailIInv, MailTypeOK
  <2> QED
    BY <1>4, <2>1, <2>2
<1> HIDE DEF n
<1>7. n = Len(alarms) + 1
  BY DEF n
<1>8. MailTypeOK'
  BY <1>2, <1>3, <1>6 DEF MailIInv, MailTypeOK
<1>9. AlarmsAreInOrder'
  <2>1. \A e \in Range(pending) \cup Range(mailQueue) \cup trimmed : e \in Alarms /\ e < n
    BY <1>1, <1>7 DEF MailIInv, MailTypeOK, AlarmsAreInOrder, Alarms
  <2>2. Range(mailQueue') \subseteq Range(mailQueue) \cup {n}
    BY <1>6
  <2>3. \A e \in Range(pending), f \in Range(mailQueue') : e < f
    BY <2>1, <2>2 DEF MailIInv, AlarmsAreInOrder
  <2>4. \A e \in Range(pending) \cup Range(mailQueue') : e <= n
    BY <1>3, <2>1, <2>2 DEF Alarms
  <2>5. \A t \in trimmed : t <= n /\ \A e \in Range(pending) \cup Range(mailQueue') : t < e
    BY <1>3, <2>1, <2>2 DEF MailIInv, AlarmsAreInOrder, Alarms
  <2>6. Rising(pending)
    BY DEF MailIInv, AlarmsAreInOrder
  <2> QED
    BY <1>2, <1>3, <1>6, <2>3, <2>4, <2>5, <2>6 DEF AlarmsAreInOrder, Rising
<1>10. WaitingIsUnsent' /\ MailedOnce'
  <2>1. ASSUME NEW e \in Alarms \ doubted,
               e \in Range(pending) \cup Range(mailQueue') \/ e > n
        PROVE  \A d \in Domains : copies[e][d] = 0
    <3>1. e \in Range(pending) \cup Range(mailQueue) \/ e > Len(alarms)
      BY <1>1, <1>6, <1>7, <2>1 DEF Alarms
    <3> QED
      BY <2>1, <3>1 DEF MailIInv, WaitingIsUnsent
  <2> QED
    BY <1>2, <1>3, <2>1 DEF MailIInv, WaitingIsUnsent, MailedOnce
<1>11. AlarmsAreAccountedFor'
  <2>1. DOMAIN alarms' = DOMAIN alarms \cup {n}
    BY <1>1, <1>3, <1>7
  <2> QED
    BY <1>2, <1>6, <2>1 DEF MailIInv, AlarmsAreAccountedFor
<1> QED
  BY <1>3, <1>8, <1>9, <1>10, <1>11 DEF MailIInv

LEMMA CollectsKeeps ==
    ASSUME MailIInv, Collect
    PROVE  MailIInv'
<1>1. /\ pending' = pending \o mailQueue /\ mailQueue' = <<>>
      /\ UNCHANGED <<alarms, copies, refused, trimmed, unwanted, doubted>>
  BY DEF Collect
<1>2. /\ pending' \in Seq(Alarms) /\ Rising(pending')
      /\ Range(pending') = Range(pending) \cup Range(mailQueue)
  BY <1>1, JoinRises DEF MailIInv, MailTypeOK, AlarmsAreInOrder
<1>3. Range(mailQueue') = {} /\ DOMAIN mailQueue' = {} /\ mailQueue' \in Seq(Alarms)
      /\ Len(mailQueue') = 0
  BY <1>1 DEF Range
<1>4. MailTypeOK'
  BY <1>1, <1>2, <1>3, NotifierAssumption DEF MailIInv, MailTypeOK
<1>5. AlarmsAreInOrder'
  BY <1>1, <1>2, <1>3 DEF MailIInv, AlarmsAreInOrder, Rising
<1>6. WaitingIsUnsent' /\ AlarmsAreAccountedFor'
  BY <1>1, <1>2, <1>3 DEF MailIInv, WaitingIsUnsent, AlarmsAreAccountedFor
<1>7. MailedOnce'
  BY <1>1, <1>2 DEF MailIInv, WaitingIsUnsent, MailedOnce
<1> QED
  BY <1>1, <1>4, <1>5, <1>6, <1>7 DEF MailIInv

LEMMA MailStep == MailIInv /\ [MailBound /\ MailNext]_mailVars => MailIInv'
<1> SUFFICES ASSUME MailIInv, [MailBound /\ MailNext]_mailVars PROVE MailIInv'
  OBVIOUS
<1>1. ASSUME NEW s \in {"warning", "info"}, Notify(s) PROVE MailIInv'
  BY <1>1, NotifyKeeps
<1>2. CASE Collect
  BY <1>2, CollectsKeeps
<1>3. CASE MailBound /\ NothingToSend
  <2>1. Done({}) /\ UNCHANGED <<alarms, mailQueue, copies, refused, doubted>>
    BY <1>3 DEF NothingToSend
  <2>2. copies' = Mailed({}, Domains)
    BY <2>1, MailedToNobody
  <2> QED
    BY <1>3, <2>1, <2>2, DoneKeeps, NotifierAssumption
<1>4. CASE MailBound /\ SendByRelay
  <2>1. PICK minSeverity \in {"warning", "info"} :
          \/ copies' = Mailed(Wanted(minSeverity), Domains) /\ Done(Wanted(minSeverity))
             /\ UNCHANGED doubted
          \/ UNCHANGED copies /\ Retry /\ UNCHANGED <<unwanted, doubted>>
          \/ /\ copies' = Mailed(Wanted(minSeverity), Domains)
             /\ doubted' = doubted \cup Wanted(minSeverity) /\ Retry /\ UNCHANGED unwanted
    BY <1>4 DEF SendByRelay
  <2>2. UNCHANGED <<alarms, mailQueue, refused>>
    BY <1>4 DEF SendByRelay
  <2>3. Wanted(minSeverity) \in SUBSET Range(pending)
    BY DEF Wanted
  <2>4. CASE /\ copies' = Mailed(Wanted(minSeverity), Domains) /\ Done(Wanted(minSeverity))
             /\ UNCHANGED doubted
    BY <1>4, <2>2, <2>3, <2>4, DoneKeeps, NotifierAssumption
  <2>5. CASE UNCHANGED copies /\ Retry /\ UNCHANGED <<unwanted, doubted>>
    <3>1. copies' = Mailed({}, Domains) /\ doubted' = doubted \cup {}
      BY <2>5, MailedToNobody
    <3> QED
      BY <1>4, <2>2, <2>5, <3>1, RetryKeeps
  <2>6. CASE /\ copies' = Mailed(Wanted(minSeverity), Domains)
             /\ doubted' = doubted \cup Wanted(minSeverity) /\ Retry /\ UNCHANGED unwanted
    BY <1>4, <2>2, <2>3, <2>6, RetryKeeps
  <2> QED
    BY <2>1, <2>4, <2>5, <2>6
<1>5. CASE MailBound /\ SendDirectly
  <2>1. PICK minSeverity \in {"warning", "info"}, reached \in SUBSET Domains :
          /\ copies' = Mailed(Wanted(minSeverity), reached)
          /\ IF DirectSucceeded(reached)
             THEN Done(Wanted(minSeverity)) ELSE Retry /\ UNCHANGED unwanted
    BY <1>5 DEF SendDirectly
  <2>2. UNCHANGED <<alarms, mailQueue, refused, doubted>>
    BY <1>5 DEF SendDirectly
  <2>3. Wanted(minSeverity) \in SUBSET Range(pending)
    BY DEF Wanted
  <2>4. CASE reached # {}
    <3>1. Done(Wanted(minSeverity))
      BY <2>1, <2>4 DEF DirectSucceeded
    <3> QED
      BY <1>5, <2>1, <2>2, <2>3, <2>4, <3>1, DoneKeeps
  <2>5. CASE reached = {}
    <3>1. Retry /\ UNCHANGED unwanted
      BY <2>1, <2>5 DEF DirectSucceeded
    <3>2. copies' = Mailed({}, Domains) /\ doubted' = doubted \cup {}
      BY <2>1, <2>2, <2>5, MailedToNobody
    <3> QED
      BY <1>5, <2>2, <3>1, <3>2, RetryKeeps
  <2> QED
    BY <2>4, <2>5
<1>6. CASE UNCHANGED mailVars
  BY <1>6 DEF mailVars, MailIInv, MailTypeOK, AlarmsAreInOrder, WaitingIsUnsent,
              AlarmsAreAccountedFor, MailedOnce, Rising
<1> QED
  BY <1>1, <1>2, <1>3, <1>4, <1>5, <1>6 DEF MailNext

LEMMA MailFacts == MailIInv => AlarmsAreAccountedFor /\ NewestAreKept /\ MailedOnce
  BY DEF MailIInv, AlarmsAreInOrder, NewestAreKept

-----------------------------------------------------------------------------
(* The driver for a switch.                                                *)

\* How many logins a session has behind it.
LoginsSoFar ==
    /\ session \in {"first", "asked"} => attempt \in 1..Retries /\ logins < attempt
    /\ session = "probe" => logins <= Retries
    /\ session \in {"second", "sending"} => logins <= Retries + 1
    /\ session = "menu" => logins <= Retries + 2

\* Commands whose answers are all there did not all fail.
RepliesAreCounted ==
    /\ replies = [ok |-> replies.ok, bad |-> replies.bad]
    /\ replies.ok \in Nat /\ replies.bad \in Nat /\ Answered <= CommandCount
    /\ session = "first" => replies = NoReplies
    /\ session \in {"second"} => replies = NoReplies
    /\ Sends => replies.bad # CommandCount

\* What the commands are for is what the switch said it is.
CommandsAreForTheSwitch ==
    /\ hardware.menu => hardware.system = "alteon"
    /\ session = "asked" /\ hardware.tells => eff = hardware.system
    /\ session \in {"second", "sending"} => eff = hardware.system
    /\ session = "menu" => eff = "alteon"
    /\ eff # driver => eff = hardware.system \/ hardware.mentions

\* A prompt of an Alteon, or its stored vendor, leaves the menu session alone.
MenuIsLast ==
    /\ prompted => /\ hardware.menu /\ stored = "alteon" /\ eff = "alteon"
                   /\ session \in {"menu", "done", "failed"}
    /\ tries = 0 => session = "idle"
    /\ raw = "alteon" /\ tries > 0 =>
         \/ session = "menu" /\ logins = 0
         \/ session \in {"done", "failed"} /\ logins = 1

DriverIInv == /\ DriverTypeOK /\ LoginsSoFar /\ RepliesAreCounted /\ CommandsAreForTheSwitch
              /\ MenuIsLast /\ ParserFitsTheCommands /\ DoneHadAnAnswer

LEMMA DriverInitial ==
    DriverInit \/ DriverFrom([system |-> "ios", tells |-> TRUE, menu |-> FALSE,
                              mentions |-> FALSE], "ios")
      => DriverIInv
<1> DEFINE plain == [system |-> "ios", tells |-> TRUE, menu |-> FALSE, mentions |-> FALSE]
<1>1. ASSUME NEW h \in Hardware, NEW v \in SwitchKinds \cup {"unknown"},
             h.menu => h.system = "alteon", DriverFrom(h, v)
      PROVE  DriverIInv
  <2>1. DriverTypeOK
    <3>1. 0 \in 0..Retries /\ 0 \in 0..MaxTries /\ 0 \in 0..(Retries + 3) /\ 0 \in 0..CommandCount
      BY DriverAssumption
    <3>2. replies.ok = 0 /\ replies.bad = 0
      BY <1>1 DEF DriverFrom, NoReplies
    <3> QED
      BY <1>1, <3>1, <3>2 DEF DriverFrom, DriverTypeOK, SwitchKinds, Idle
  <2>2. RepliesAreCounted
    BY <1>1, DriverAssumption DEF DriverFrom, RepliesAreCounted, NoReplies, Sends, Answered
  <2> QED
    BY <1>1, <2>1, <2>2 DEF DriverFrom, DriverIInv, LoginsSoFar, CommandsAreForTheSwitch,
                            MenuIsLast, ParserFitsTheCommands, DoneHadAnAnswer
<1>2. plain \in Hardware /\ plain.menu = FALSE /\ "ios" \in SwitchKinds
  BY DEF Hardware, SwitchKinds
<1>3. ASSUME DriverFrom(plain, "ios") PROVE DriverIInv
  <2> HIDE DEF plain
  <2> QED
    BY <1>1, <1>2, <1>3
<1> QED
  BY <1>1, <1>3 DEF DriverInit

\* What the tables of the switch and its version say.
LEMMA VendorFacts ==
    ASSUME DriverIInv
    PROVE  /\ VendorIn(TRUE) \in {hardware.system, NoVendor} /\ VendorIn(FALSE) = NoVendor
           /\ hardware.tells <=> VendorIn(TRUE) # NoVendor
           /\ hardware.system \in SwitchKinds /\ hardware.tells \in BOOLEAN
           /\ hardware.menu \in BOOLEAN /\ hardware.mentions \in BOOLEAN
           /\ NoVendor \notin SwitchKinds /\ "unknown" \notin SwitchKinds
<1>1. /\ hardware.system \in SwitchKinds /\ hardware.tells \in BOOLEAN
      /\ hardware.menu \in BOOLEAN /\ hardware.mentions \in BOOLEAN
  <2>1. hardware \in Hardware
    BY DEF DriverIInv, DriverTypeOK
  <2> QED
    BY <2>1 DEF Hardware
<1> QED
  BY <1>1 DEF VendorIn, NoVendor, SwitchKinds

\* What a session knows at its end is learned.
LEMMA FinishKeeps ==
    ASSUME DriverIInv, NEW told \in BOOLEAN, Finish(told), version' \in BOOLEAN,
           \/ Sends /\ Answered = CommandCount /\ told = version
           \/ session = "menu" /\ (told => hardware.system = "alteon")
    PROVE  DriverIInv' /\ (stored' # stored => stored' = hardware.system \/ hardware.mentions)
<1>1. /\ session' = "done" /\ logins' = logins + 1
      /\ parsed' = ParserFor(told)
      /\ stored' = IF Learned(told) \notin {NoVendor, raw} THEN Learned(told) ELSE stored
      /\ UNCHANGED <<hardware, raw, driver, eff, attempt, replies, prompted, tries>>
  BY DEF Finish
<1>2. VendorIn(told) \in {NoVendor, eff} /\ VendorIn(told) \in {NoVendor, hardware.system}
  BY VendorFacts DEF VendorIn, DriverIInv, CommandsAreForTheSwitch, Sends
<1>3. Learned(told) \in {NoVendor, eff}
      /\ (Learned(told) # NoVendor => Learned(told) = hardware.system \/ hardware.mentions)
  BY <1>2 DEF Learned, DriverIInv, CommandsAreForTheSwitch
<1>4. ParserFor(told) = eff
  BY <1>2 DEF ParserFor, Learned
<1>5. eff \in SwitchKinds /\ stored' \in SwitchKinds \cup {"unknown"} /\ logins + 1 \in 0..(Retries + 3)
  <2>1. logins <= Retries + 2 /\ logins \in Nat
    BY DriverAssumption DEF DriverIInv, DriverTypeOK, LoginsSoFar, Sends
  <2> QED
    BY <1>1, <1>3, <2>1, DriverAssumption DEF DriverIInv, DriverTypeOK
<1>6. replies.ok > 0 \/ eff = "alteon"
  BY DriverAssumption DEF DriverIInv, RepliesAreCounted, CommandsAreForTheSwitch, Answered
<1>7. raw = "alteon" /\ tries > 0 => logins = 0
  BY DEF DriverIInv, MenuIsLast, Sends
<1>8. prompted => stored' = "alteon"
  BY <1>1, <1>3 DEF DriverIInv, MenuIsLast
<1>9. DriverTypeOK'
  BY <1>1, <1>4, <1>5 DEF DriverIInv, DriverTypeOK, Idle
<1>10. tries # 0
  BY DEF DriverIInv, MenuIsLast, Sends
<1>11. RepliesAreCounted'
  BY <1>1 DEF DriverIInv, RepliesAreCounted, Sends, Answered
<1> QED
  BY <1>1, <1>3, <1>4, <1>6, <1>7, <1>8, <1>9, <1>10, <1>11
     DEF DriverIInv, LoginsSoFar, CommandsAreForTheSwitch, MenuIsLast, ParserFitsTheCommands,
         DoneHadAnAnswer

\* A session that is given up, after so many logins.
LEMMA GiveKeeps ==
    ASSUME DriverIInv, session \in {"first", "asked", "second", "sending"},
           Give(WhichSession), logins' = logins + 1,
           replies'.ok \in Nat, replies'.bad \in Nat,
           replies' = [ok |-> replies'.ok, bad |-> replies'.bad], (Answered <= CommandCount)',
           version' \in BOOLEAN, UNCHANGED <<sessionConst, eff, attempt>>
    PROVE  DriverIInv'
<1>1. session' = (IF session \in {"second", "sending"} THEN "failed" ELSE "probe")
  BY DEF Give, WhichSession
<1>2. /\ logins \in Nat /\ Retries \in Nat
      /\ session \in {"first", "asked"} => logins < Retries
      /\ session \in {"second", "sending"} => logins <= Retries + 1
  BY DriverAssumption DEF DriverIInv, DriverTypeOK, LoginsSoFar
<1>3. UNCHANGED <<hardware, stored, raw, driver, prompted, parsed, tries, eff, attempt>>
  BY DEF sessionConst
<1>4. replies'.ok \in 0..CommandCount /\ replies'.bad \in 0..CommandCount
  BY DriverAssumption DEF Answered
<1>5. DriverTypeOK'
  BY <1>1, <1>2, <1>3, <1>4 DEF DriverIInv, DriverTypeOK, Idle
<1>6. LoginsSoFar' /\ CommandsAreForTheSwitch'
  BY <1>1, <1>2, <1>3 DEF DriverIInv, LoginsSoFar, CommandsAreForTheSwitch
<1>7. RepliesAreCounted'
  BY <1>1 DEF RepliesAreCounted, Sends
<1>8. MenuIsLast' /\ ParserFitsTheCommands' /\ DoneHadAnAnswer'
  BY <1>1, <1>3 DEF DriverIInv, MenuIsLast, ParserFitsTheCommands, DoneHadAnAnswer
<1> QED
  BY <1>5, <1>6, <1>7, <1>8 DEF DriverIInv

LEMMA SessionStarts == DriverIInv /\ StartSession => DriverIInv'
<1> SUFFICES ASSUME DriverIInv, StartSession PROVE DriverIInv'
  OBVIOUS
<1>1. /\ session \in Idle /\ tries < MaxTries
      /\ tries' = tries + 1 /\ raw' = stored
      /\ driver' = Normalized(stored) /\ eff' = Normalized(stored)
      /\ session' = (IF Normalized(stored) = "alteon" THEN "menu" ELSE "first")
      /\ attempt' = 1 /\ replies' = NoReplies /\ version' = FALSE
      /\ logins' = 0 /\ prompted' = FALSE /\ parsed' = NoVendor
      /\ UNCHANGED <<hardware, stored>>
  BY DEF StartSession
<1>2. Normalized(stored) \in SwitchKinds /\ (Normalized(stored) = "alteon" <=> stored = "alteon")
  BY DEF DriverIInv, DriverTypeOK, Normalized, SwitchKinds
<1>3. DriverTypeOK'
  <2>1. 1 \in 0..Retries /\ 0 \in 0..(Retries + 3) /\ 0 \in 0..CommandCount
    BY DriverAssumption
  <2>2. tries' \in 0..MaxTries
    BY <1>1, DriverAssumption DEF DriverIInv, DriverTypeOK
  <2>3. replies'.ok = 0 /\ replies'.bad = 0
    BY <1>1 DEF NoReplies
  <2> QED
    BY <1>1, <1>2, <2>1, <2>2, <2>3 DEF DriverIInv, DriverTypeOK
<1>4. RepliesAreCounted'
  BY <1>1, DriverAssumption DEF RepliesAreCounted, NoReplies, Sends, Answered
<1>5. LoginsSoFar'
  BY <1>1, DriverAssumption DEF LoginsSoFar
<1>6. MenuIsLast'
  <2>1. tries' # 0
    BY <1>1 DEF DriverIInv, DriverTypeOK
  <2> QED
    BY <1>1, <1>2, <2>1 DEF MenuIsLast
<1>7. CommandsAreForTheSwitch' /\ ParserFitsTheCommands' /\ DoneHadAnAnswer'
  BY <1>1 DEF DriverIInv, CommandsAreForTheSwitch, ParserFitsTheCommands, DoneHadAnAnswer
<1> QED
  BY <1>3, <1>4, <1>5, <1>6, <1>7 DEF DriverIInv

LEMMA DriverStep ==
    DriverIInv /\ [DriverNext]_driverVars
      => DriverIInv' /\ (stored' # stored => stored' = hardware.system \/ hardware.mentions)
<1> SUFFICES ASSUME DriverIInv, [DriverNext]_driverVars
             PROVE  DriverIInv' /\ (stored' # stored => stored' = hardware.system \/ hardware.mentions)
  OBVIOUS
<1> DEFINE Goal == DriverIInv' /\ (stored' # stored => stored' = hardware.system \/ hardware.mentions)
<1>0. /\ logins \in Nat /\ attempt \in 0..Retries /\ Retries \in Nat \ {0}
      /\ CommandCount \in Nat \ {0} /\ version \in BOOLEAN /\ replies.ok \in Nat
      /\ replies.bad \in Nat /\ replies = [ok |-> replies.ok, bad |-> replies.bad]
      /\ Answered <= CommandCount
  BY DriverAssumption DEF DriverIInv, DriverTypeOK, RepliesAreCounted
<1>1. CASE StartSession
  BY <1>1, SessionStarts DEF StartSession
<1>2. CASE Diagnose
  <2>1. stored' = hardware.system
        /\ UNCHANGED <<hardware, raw, session, driver, eff, attempt, replies, version,
                       logins, prompted, parsed, tries>>
    BY <1>2, VendorFacts DEF Diagnose, DriverIInv, CommandsAreForTheSwitch
  <2>2. DriverTypeOK'
    BY <2>1, VendorFacts DEF DriverIInv, DriverTypeOK
  <2>3. MenuIsLast'
    BY <2>1 DEF DriverIInv, CommandsAreForTheSwitch, MenuIsLast
  <2> QED
    BY <2>1, <2>2, <2>3 DEF DriverIInv, LoginsSoFar, RepliesAreCounted, Sends, Answered,
                            CommandsAreForTheSwitch, ParserFitsTheCommands, DoneHadAnAnswer
<1>3. CASE AttemptFails
  <2>1. replies' = NoReplies /\ version' = FALSE /\ logins' = logins + 1
        /\ UNCHANGED <<sessionConst, eff>>
        /\ session \in {"first", "asked", "second", "sending"}
    BY <1>3 DEF AttemptFails, Sends
  <2>2. replies'.ok = 0 /\ replies'.bad = 0 /\ replies' = [ok |-> replies'.ok, bad |-> replies'.bad]
        /\ (Answered <= CommandCount)'
    BY <1>0, <2>1 DEF NoReplies, Answered
  <2>3. CASE WhichSession = "first" /\ attempt < Retries
    <3>1. session' = "first" /\ attempt' = attempt + 1 /\ session \in {"first", "asked"}
      BY <1>3, <2>1, <2>3 DEF AttemptFails, WhichSession
    <3>2. UNCHANGED <<hardware, stored, raw, driver, prompted, parsed, tries, eff>>
      BY <2>1 DEF sessionConst
    <3>3. logins < attempt
      BY <3>1 DEF DriverIInv, LoginsSoFar
    <3>4. DriverTypeOK'
      <4>1. attempt' \in 0..Retries /\ logins' \in 0..(Retries + 3) /\ 0 \in 0..CommandCount
        BY <1>0, <2>1, <2>3, <3>1, <3>3
      <4> QED
        BY <2>1, <2>2, <3>1, <3>2, <4>1 DEF DriverIInv, DriverTypeOK
    <3>5. LoginsSoFar'
      BY <1>0, <2>1, <2>3, <3>1, <3>3 DEF LoginsSoFar
    <3>6. RepliesAreCounted'
      BY <1>0, <2>1, <2>2, <3>1 DEF RepliesAreCounted, Sends
    <3> QED
      BY <3>1, <3>2, <3>4, <3>5, <3>6 DEF DriverIInv, CommandsAreForTheSwitch, MenuIsLast,
                                          ParserFitsTheCommands, DoneHadAnAnswer
  <2>4. CASE ~(WhichSession = "first" /\ attempt < Retries)
    <3>1. Give(WhichSession) /\ UNCHANGED attempt
      BY <1>3, <2>4 DEF AttemptFails
    <3>2. /\ replies'.ok \in Nat /\ replies'.bad \in Nat /\ version' \in BOOLEAN
          /\ UNCHANGED <<sessionConst, eff, attempt>>
      <4>1. replies'.ok \in Nat /\ replies'.bad \in Nat
        BY <2>2
      <4>2. version' \in BOOLEAN
        BY <2>1
      <4>3. UNCHANGED <<sessionConst, eff, attempt>>
        BY <2>1, <3>1 DEF sessionConst
      <4> QED
        BY <4>1, <4>2, <4>3
    <3>3. DriverIInv'
      BY <2>1, <2>2, <3>1, <3>2, GiveKeeps
    <3>4. stored' = stored
      BY <2>1 DEF sessionConst
    <3> QED
      BY <3>3, <3>4
  <2> QED
    BY <2>3, <2>4
<1>4. CASE PromptIsMenu
  <2>1. /\ session = "first" /\ hardware.menu
        /\ prompted' = TRUE /\ stored' = "alteon"
        /\ session' = "menu" /\ eff' = "alteon" /\ replies' = NoReplies /\ logins' = logins + 1
        /\ UNCHANGED <<hardware, raw, driver, attempt, version, parsed, tries>>
    BY <1>4 DEF PromptIsMenu
  <2>2. hardware.system = "alteon" /\ logins < Retries
    BY <1>0, <2>1 DEF DriverIInv, CommandsAreForTheSwitch, LoginsSoFar
  <2>3. DriverTypeOK'
    BY <1>0, <2>1, <2>2 DEF DriverIInv, DriverTypeOK, SwitchKinds, NoReplies
  <2>4. RepliesAreCounted'
    BY <1>0, <2>1 DEF RepliesAreCounted, NoReplies, Sends, Answered
  <2>5. MenuIsLast'
    BY <2>1, <2>2 DEF DriverIInv, MenuIsLast
  <2> QED
    BY <1>0, <2>1, <2>2, <2>3, <2>4, <2>5 DEF DriverIInv, LoginsSoFar, CommandsAreForTheSwitch,
                                         ParserFitsTheCommands, DoneHadAnAnswer
<1>5. CASE VersionFails
  <2>1. session = "first" /\ Give(WhichSession) /\ version' = FALSE /\ logins' = logins + 1
        /\ UNCHANGED <<sessionConst, eff, attempt, replies>>
    BY <1>5 DEF VersionFails, WhichSession
  <2> QED
    BY <1>0, <2>1, GiveKeeps DEF sessionConst, Answered
<1>6. CASE VersionIsRead
  <2>1. /\ session = "first" /\ session' = "asked" /\ version' = TRUE
        /\ eff' = (IF VendorIn(TRUE) = NoVendor THEN eff ELSE VendorIn(TRUE))
        /\ UNCHANGED <<hardware, stored, raw, driver, prompted, parsed, tries,
                       attempt, replies, logins>>
    BY <1>6 DEF VersionIsRead, sessionConst
  <2>2. eff' \in SwitchKinds /\ eff' \in {eff, hardware.system}
        /\ (hardware.tells => eff' = hardware.system)
    BY <2>1, VendorFacts DEF DriverIInv, DriverTypeOK
  <2>3. replies = NoReplies /\ ~prompted /\ ~(raw = "alteon" /\ tries > 0) /\ tries # 0
    BY <2>1 DEF DriverIInv, RepliesAreCounted, MenuIsLast
  <2>4. DriverTypeOK'
    BY <2>1, <2>2 DEF DriverIInv, DriverTypeOK
  <2>5. RepliesAreCounted'
    BY <1>0, <2>1, <2>3 DEF RepliesAreCounted, NoReplies, Answered
  <2>6. CommandsAreForTheSwitch' /\ LoginsSoFar' /\ MenuIsLast'
    BY <2>1, <2>2, <2>3 DEF DriverIInv, CommandsAreForTheSwitch, LoginsSoFar, MenuIsLast
  <2> QED
    BY <2>1, <2>4, <2>5, <2>6 DEF DriverIInv, ParserFitsTheCommands, DoneHadAnAnswer
<1>7. CASE SecondIsOpen
  <2>1. /\ session = "second" /\ session' = "sending"
        /\ UNCHANGED <<hardware, stored, raw, driver, prompted, parsed, tries,
                       eff, attempt, replies, version, logins>>
    BY <1>7 DEF SecondIsOpen, sessionConst
  <2>2. replies = NoReplies
    BY <2>1 DEF DriverIInv, RepliesAreCounted
  <2>3. RepliesAreCounted'
    BY <1>0, <2>1, <2>2 DEF RepliesAreCounted, NoReplies, Answered
  <2>4. DriverTypeOK'
    BY <2>1 DEF DriverIInv, DriverTypeOK
  <2> QED
    BY <2>1, <2>3, <2>4 DEF DriverIInv, LoginsSoFar, CommandsAreForTheSwitch, MenuIsLast,
                            ParserFitsTheCommands, DoneHadAnAnswer
<1>8. CASE CommandAnswers
  <2>1. /\ Sends /\ Answered < CommandCount /\ version' \in BOOLEAN
        /\ replies' = [replies EXCEPT !.ok = @ + 1]
        /\ UNCHANGED <<hardware, stored, raw, driver, prompted, parsed, tries,
                       session, eff, attempt, logins>>
    BY <1>0, <1>8 DEF CommandAnswers, sessionConst
  <2>2. replies' = [ok |-> replies.ok + 1, bad |-> replies.bad]
    BY <1>0, <2>1
  <2>3. RepliesAreCounted'
    BY <1>0, <2>1, <2>2 DEF DriverIInv, RepliesAreCounted, Sends, Answered
  <2>4. DriverTypeOK'
    BY <1>0, <2>1, <2>2 DEF DriverIInv, DriverTypeOK, Answered
  <2>5. session # "done"
    BY <2>1 DEF Sends
  <2> QED
    BY <2>1, <2>3, <2>4, <2>5 DEF DriverIInv, LoginsSoFar, CommandsAreForTheSwitch, MenuIsLast,
                            ParserFitsTheCommands, DoneHadAnAnswer
<1>9. CASE CommandFails
  <2>1. /\ Sends /\ Answered < CommandCount /\ version' \in BOOLEAN
        /\ replies' = [replies EXCEPT !.bad = @ + 1]
        /\ UNCHANGED <<hardware, stored, raw, driver, prompted, parsed, tries, eff, attempt>>
    BY <1>0, <1>9 DEF CommandFails, sessionConst
  <2>2. replies' = [ok |-> replies.ok, bad |-> replies.bad + 1]
    BY <1>0, <2>1
  <2>3. replies'.ok \in Nat /\ replies'.bad \in Nat
        /\ replies' = [ok |-> replies'.ok, bad |-> replies'.bad] /\ (Answered <= CommandCount)'
    BY <1>0, <2>1, <2>2 DEF Answered
  <2>4. CASE Mismatch(replies')
    <3>1. Give(WhichSession) /\ logins' = logins + 1
      BY <1>9, <2>4 DEF CommandFails
    <3>2. session \in {"first", "asked", "second", "sending"}
      BY <2>1 DEF Sends
    <3>3. UNCHANGED <<sessionConst, eff, attempt>>
      BY <2>1 DEF sessionConst
    <3> QED
      BY <2>1, <2>3, <3>1, <3>2, <3>3, GiveKeeps
  <2>5. CASE ~Mismatch(replies')
    <3>1. UNCHANGED <<session, logins>>
      BY <1>9, <2>5 DEF CommandFails
    <3>2. RepliesAreCounted'
      BY <2>1, <2>3, <2>5, <3>1 DEF RepliesAreCounted, Sends, Mismatch
    <3>3. DriverTypeOK'
      BY <1>0, <2>1, <2>3, <3>1 DEF DriverIInv, DriverTypeOK, Answered
    <3>4. session # "done"
      BY <2>1 DEF Sends
    <3> QED
      BY <2>1, <3>1, <3>2, <3>3, <3>4 DEF DriverIInv, LoginsSoFar, CommandsAreForTheSwitch,
                                          MenuIsLast, ParserFitsTheCommands, DoneHadAnAnswer
  <2> QED
    BY <2>4, <2>5
<1>10. ASSUME session = "menu", session' = "failed", logins' = logins + 1,
              UNCHANGED <<sessionConst, eff, attempt, replies, version>>
       PROVE  Goal
  <2>1. UNCHANGED <<hardware, stored, raw, driver, prompted, parsed, tries>>
    BY <1>10 DEF sessionConst
  <2>2. logins <= Retries + 2 /\ eff = "alteon"
    BY <1>10 DEF DriverIInv, LoginsSoFar, CommandsAreForTheSwitch
  <2>3. DriverTypeOK'
    BY <1>0, <1>10, <2>1, <2>2 DEF DriverIInv, DriverTypeOK, Idle
  <2>4. RepliesAreCounted'
    BY <1>0, <1>10 DEF RepliesAreCounted, Sends, Answered
  <2>5. MenuIsLast'
    BY <1>0, <1>10, <2>1 DEF DriverIInv, MenuIsLast
  <2> QED
    BY <1>10, <2>1, <2>3, <2>4, <2>5 DEF DriverIInv, LoginsSoFar, CommandsAreForTheSwitch,
                                         ParserFitsTheCommands, DoneHadAnAnswer
<1>11. CASE HardTimeout
  <2>1. logins' = logins + 1 /\ UNCHANGED <<sessionConst, eff, attempt, replies, version>>
        /\ session \in {"first", "asked", "second", "sending", "menu"}
    BY <1>11 DEF HardTimeout
  <2>2. CASE session = "menu"
    BY <1>10, <1>11, <2>1, <2>2 DEF HardTimeout
  <2>3. CASE session # "menu"
    <3>1. Give(WhichSession)
      BY <1>11, <2>3 DEF HardTimeout
    <3> QED
      BY <1>0, <2>1, <2>3, <3>1, GiveKeeps DEF sessionConst, Answered
  <2> QED
    BY <2>2, <2>3
<1>12. CASE Probe
  <2>1. PICK probed \in {NoVendor, VendorIn(TRUE), IF hardware.menu THEN "alteon" ELSE NoVendor} :
           /\ session' = IF probed \in {NoVendor, driver} THEN "failed"
                         ELSE IF probed = "alteon" THEN "menu" ELSE "second"
           /\ eff' = IF probed = NoVendor THEN eff ELSE probed
           /\ version' = (probed # NoVendor)
    BY <1>12 DEF Probe
  <2>2. /\ session = "probe" /\ logins' = logins + 1 /\ replies' = NoReplies
        /\ UNCHANGED <<hardware, stored, raw, driver, prompted, parsed, tries, attempt>>
    BY <1>12 DEF Probe, sessionConst
  <2>3. probed \in {NoVendor, hardware.system}
    BY <2>1, VendorFacts DEF DriverIInv, CommandsAreForTheSwitch
  <2>4. logins <= Retries /\ ~prompted /\ ~(raw = "alteon" /\ tries > 0) /\ tries # 0
    BY <2>2 DEF DriverIInv, LoginsSoFar, MenuIsLast
  <2>5. version' \in BOOLEAN
    BY <2>1
  <2>6. eff' \in SwitchKinds
    BY <2>1, <2>3, VendorFacts DEF DriverIInv, DriverTypeOK
  <2>7. DriverTypeOK'
    BY <1>0, <2>1, <2>2, <2>4, <2>5, <2>6 DEF DriverIInv, DriverTypeOK, NoReplies, Idle
  <2>8. RepliesAreCounted'
    BY <1>0, <2>1, <2>2 DEF RepliesAreCounted, NoReplies, Sends, Answered
  <2>9. CommandsAreForTheSwitch'
    BY <2>1, <2>2, <2>3 DEF DriverIInv, CommandsAreForTheSwitch
  <2>10. LoginsSoFar' /\ MenuIsLast'
    BY <1>0, <2>1, <2>2, <2>4 DEF LoginsSoFar, MenuIsLast
  <2> QED
    BY <2>1, <2>2, <2>7, <2>8, <2>9, <2>10 DEF DriverIInv, ParserFitsTheCommands, DoneHadAnAnswer
<1>13. CASE MenuFails
  BY <1>10, <1>13 DEF MenuFails
<1>14. CASE Recollect
  <2>1. /\ Sends /\ LooksLikeAlteon
        /\ session' = "menu" /\ eff' = "alteon" /\ logins' = logins + 1
        /\ version' = FALSE /\ replies' = NoReplies
        /\ UNCHANGED <<hardware, stored, raw, driver, prompted, parsed, tries, attempt>>
    BY <1>14 DEF Recollect, sessionConst
  <2>2. logins <= Retries + 1 /\ ~prompted /\ ~(raw = "alteon" /\ tries > 0) /\ tries # 0
    BY <1>0, <2>1 DEF DriverIInv, LoginsSoFar, MenuIsLast, Sends
  <2>3. DriverTypeOK'
    <3>1. logins' \in 0..(Retries + 3) /\ 0 \in 0..CommandCount /\ replies'.ok = 0 /\ replies'.bad = 0
      BY <1>0, <2>1, <2>2 DEF NoReplies
    <3> QED
      BY <2>1, <3>1 DEF DriverIInv, DriverTypeOK, SwitchKinds
  <2>4. RepliesAreCounted'
    BY <1>0, <2>1 DEF RepliesAreCounted, NoReplies, Sends, Answered
  <2>5. CommandsAreForTheSwitch'
    BY <2>1 DEF DriverIInv, CommandsAreForTheSwitch, LooksLikeAlteon
  <2> QED
    BY <1>0, <2>1, <2>2, <2>3, <2>4, <2>5 DEF DriverIInv, LoginsSoFar, MenuIsLast,
                                         ParserFitsTheCommands, DoneHadAnAnswer
<1>15. CASE OutputsAreThere
  <2>1. Finish(version) /\ version' = version /\ Sends /\ Answered = CommandCount
    BY <1>15 DEF OutputsAreThere
  <2> QED
    BY <1>0, <2>1, FinishKeeps
<1>16. CASE MenuIsThere
  <2>1. session = "menu" /\ version' = (hardware.system = "alteon") /\ Finish(version')
    BY <1>16 DEF MenuIsThere
  <2>2. version' \in BOOLEAN /\ (version' => hardware.system = "alteon")
    BY <2>1
  <2> QED
    BY <2>1, <2>2, FinishKeeps
<1>17. CASE UNCHANGED driverVars
  BY <1>17 DEF driverVars, DriverIInv, DriverTypeOK, LoginsSoFar, RepliesAreCounted, Sends,
               Answered, CommandsAreForTheSwitch, MenuIsLast, ParserFitsTheCommands, DoneHadAnAnswer
<1> QED
  BY <1>1, <1>2, <1>3, <1>4, <1>5, <1>6, <1>7, <1>8, <1>9, <1>11, <1>12, <1>13, <1>14, <1>15,
     <1>16, <1>17 DEF DriverNext

LEMMA DriverFacts ==
    DriverIInv => ParserFitsTheCommands /\ DoneHadAnAnswer /\ AlteonIsAskedOnce
  BY DEF DriverIInv, MenuIsLast, AlteonIsAskedOnce

-----------------------------------------------------------------------------
(* The sweep of a band.                                                    *)

Finished == {"last", "judge", "over"}

\* Every address before the next one was pinged or is counted as not scanned,
\* and the sweep ends behind the last one unless it was stopped or cut off.
EachWasTried ==
    /\ \A a \in 1..(next - 1) : a \in sent \/ a \in unsent
    /\ sent \cup unsent \subseteq 1..(next - 1)
    /\ stage \in Finished /\ stoppedAt = Running /\ ~partialError => next = BandSize + 1
    /\ stoppedAt # Running => stoppedAt = next
    /\ stage \in {"ping", "read"} => stoppedAt = Running

\* Who answered is in the table of the gateway or was read from it.
AnswersAreThere ==
    /\ vrf = band.vrf => /\ sent \cap band.up \subseteq arpTable \cup union
                         /\ heard \cap band.up \subseteq union
    /\ verdicts.off \subseteq sent \ union
    /\ stage # "over" => verdicts.off = {}

SweepIInv == SweepTypeOK /\ EachWasTried /\ AnswersAreThere

LEMMA SweepInitial == SweepInit \/ SweepStart({}, {}, "global", TRUE) => SweepIInv
<1>1. ASSUME NEW up \in SUBSET All, NEW old \in SUBSET up, NEW where \in {"global", "vrf"},
             NEW d \in BOOLEAN, SweepStart(up, old, where, d)
      PROVE  SweepIInv
  <2>1. band.up = up /\ band.old = old /\ band.vrf = where
    BY <1>1 DEF SweepStart
  <2>2. 1 \in 1..(BandSize + 1) /\ 1..(1 - 1) = {} /\ 0 \in 0..MaxReconnect
    BY SweepAssumption
  <2>3. verdicts.found = {} /\ verdicts.off = {}
    BY <1>1 DEF SweepStart, NoVerdicts
  <2>4. SweepTypeOK
    BY <1>1, <2>1, <2>2, <2>3 DEF SweepStart, SweepTypeOK
  <2> QED
    BY <1>1, <2>1, <2>2, <2>3, <2>4 DEF SweepStart, SweepIInv, EachWasTried, AnswersAreThere, Finished
<1>2. SweepInit => SweepIInv
  BY <1>1 DEF SweepInit
<1>3. SweepStart({}, {}, "global", TRUE) => SweepIInv
  BY <1>1
<1> QED
  BY <1>2, <1>3

LEMMA SweepStep ==
    SweepIInv /\ [SweepNext]_sweepVars
      => /\ SweepIInv'
         /\ [union \subseteq union' /\ (stage' = "over" => verdicts'.found = union)]_sweepVars
<1> SUFFICES ASSUME SweepIInv, [SweepNext]_sweepVars
             PROVE  /\ SweepIInv'
                    /\ [union \subseteq union'
                          /\ (stage' = "over" => verdicts'.found = union)]_sweepVars
  OBVIOUS
<1> DEFINE Goal == SweepIInv' /\ union \subseteq union' /\ (stage' = "over" => verdicts'.found = union)
<1>0. /\ BandSize \in Nat /\ next \in 1..(BandSize + 1) /\ sent \subseteq 1..(next - 1)
      /\ unsent \subseteq 1..(next - 1) /\ All = 1..BandSize
      /\ \A a \in 1..(next - 1) : a \in sent \/ a \in unsent
  BY SweepAssumption DEF SweepIInv, SweepTypeOK, EachWasTried, All
<1>1. ASSUME Pinging, Advance, UNCHANGED <<loopVars, union>>,
             \/ /\ sent' = sent \cup {next} /\ unsent' = unsent
                /\ arpTable' = IF next \in band.up /\ vrf = band.vrf THEN arpTable \cup {next}
                               ELSE arpTable
             \/ sent' = sent /\ unsent' = unsent \cup {next} /\ arpTable' = arpTable
      PROVE  Goal
  <2>1. /\ next \in 1..BandSize /\ next' = next + 1 /\ stage = "ping" /\ stage' \in {"ping", "read"}
        /\ UNCHANGED <<band, vrf, reconnects, stoppedAt, partialError, heard, verdicts, union>>
    BY <1>0, <1>1 DEF Pinging, Advance, loopVars
  <2>2. next' \in 1..(BandSize + 1) /\ 1..(next' - 1) = 1..(next - 1) \cup {next} /\ next \in All
    BY <1>0, <2>1
  <2>3. stoppedAt = Running
    BY <2>1 DEF SweepIInv, EachWasTried
  <2>4. SweepTypeOK'
    BY <1>0, <1>1, <2>1, <2>2 DEF SweepIInv, SweepTypeOK
  <2>5. EachWasTried'
    BY <1>0, <1>1, <2>1, <2>2, <2>3 DEF EachWasTried, Finished
  <2>6. AnswersAreThere'
    BY <1>1, <2>1 DEF SweepIInv, AnswersAreThere
  <2> QED
    BY <2>1, <2>4, <2>5, <2>6 DEF SweepIInv
<1>2. CASE Ping
  BY <1>1, <1>2 DEF Ping
<1>3. CASE PingFails
  BY <1>1, <1>3 DEF PingFails
<1>4. CASE SessionResumes
  <2>1. reconnects + 1 \in 0..MaxReconnect
    BY <1>4, SweepAssumption DEF SessionResumes, SweepIInv, SweepTypeOK
  <2> QED
    BY <1>4, <2>1 DEF SessionResumes, Pinging, SweepIInv, SweepTypeOK, EachWasTried, AnswersAreThere,
                      Finished
<1>5. CASE SessionEnds
  BY <1>5 DEF SessionEnds, Pinging, SweepIInv, SweepTypeOK, EachWasTried, AnswersAreThere, Finished
<1>6. CASE StopSeen
  <2>1. next \in All /\ next # Running
    BY <1>0, <1>6 DEF StopSeen, Pinging, Running
  <2> QED
    BY <1>6, <2>1 DEF StopSeen, Pinging, SweepIInv, SweepTypeOK, EachWasTried, AnswersAreThere, Finished
<1>7. CASE AllPinged
  <2>1. next = BandSize + 1
    BY <1>0, <1>7 DEF AllPinged
  <2> QED
    BY <1>7, <2>1 DEF AllPinged, loopVars, SweepIInv, SweepTypeOK, EachWasTried, AnswersAreThere,
                      Finished
<1>8. CASE ReadArp
  <2>1. union' = (IF vrf = band.vrf THEN union \cup arpTable ELSE union)
        /\ heard' = sent /\ stage \in {"read", "last"}
        /\ stage' = (IF stage = "read" THEN "ping" ELSE "judge")
        /\ UNCHANGED <<band, vrf, next, arpTable, unsent, reconnects, stoppedAt,
                       partialError, sent, verdicts>>
    BY <1>8 DEF ReadArp
  <2>2. verdicts.off = {}
    BY <2>1 DEF SweepIInv, AnswersAreThere
  <2>3. SweepTypeOK' /\ EachWasTried'
    BY <2>1 DEF SweepIInv, SweepTypeOK, EachWasTried, Finished
  <2>4. AnswersAreThere'
    BY <2>1, <2>2 DEF SweepIInv, AnswersAreThere
  <2> QED
    BY <2>1, <2>3, <2>4 DEF SweepIInv
<1>9. CASE EntryAges
  BY <1>9 DEF EntryAges, loopVars, SweepIInv, SweepTypeOK, EachWasTried, AnswersAreThere, Finished
<1>10. CASE SessionLost
  BY <1>10 DEF SessionLost, SweepIInv, SweepTypeOK, EachWasTried, AnswersAreThere, Finished
<1>11. CASE FallbackFinds
  <2>1. verdicts.off = {}
    BY <1>11 DEF FallbackFinds, SweepIInv, AnswersAreThere
  <2> QED
    BY <1>11, <2>1 DEF FallbackFinds, SweepIInv, SweepTypeOK, EachWasTried, AnswersAreThere, Finished
<1>12. CASE Conclude
  <2>1. stage = "judge" /\ stage' = "over"
        /\ verdicts' = (IF union = {} THEN NoVerdicts ELSE [found |-> union, off |-> Scanned \ union])
        /\ UNCHANGED <<band, vrf, next, arpTable, union, unsent, reconnects, stoppedAt,
                       partialError, sent, heard>>
    BY <1>12 DEF Conclude
  <2>2. Scanned \ union \subseteq sent
    <3>1. stoppedAt # Running => stoppedAt = next
      BY DEF SweepIInv, EachWasTried
    <3>2. stoppedAt = Running /\ ~partialError => next = BandSize + 1
      BY <2>1 DEF SweepIInv, EachWasTried, Finished
    <3>3. All = 1..((BandSize + 1) - 1)
      BY <1>0
    <3>4. Scanned = ((1..(next - 1)) \ unsent) \cup union
      BY <3>1, <3>2, <3>3 DEF Scanned
    <3> QED
      BY <1>0, <3>4
  <2>3. verdicts'.found = union
        /\ verdicts'.off \in {{}, Scanned \ union}
    BY <2>1 DEF NoVerdicts
  <2>4. SweepTypeOK'
    BY <1>0, <2>1, <2>2, <2>3 DEF SweepIInv, SweepTypeOK
  <2>5. EachWasTried' /\ AnswersAreThere'
    BY <2>1, <2>2, <2>3 DEF SweepIInv, EachWasTried, AnswersAreThere, Finished
  <2> QED
    BY <2>1, <2>3, <2>4, <2>5 DEF SweepIInv
<1>13. CASE UNCHANGED sweepVars
  BY <1>13 DEF sweepVars, SweepIInv, SweepTypeOK, EachWasTried, AnswersAreThere, Finished
<1> QED
  BY <1>2, <1>3, <1>4, <1>5, <1>6, <1>7, <1>8, <1>9, <1>10, <1>11, <1>12, <1>13 DEF SweepNext

LEMMA SweepFacts == SweepIInv => OnlyAskedIsOff
  BY DEF SweepIInv, SweepTypeOK, AnswersAreThere, OnlyAskedIsOff

-----------------------------------------------------------------------------
(* The types that the invariants leave out.                                *)

LEMMA StatusTyped == StatusIInv => StatusTypeOK
BY DEF StatusIInv, SilencesAreCounted, StatusTypeOK

LEMMA ReachTyped == ReachIInv => ReachTypeOK
<1> SUFFICES ASSUME ReachIInv PROVE ReachTypeOK
    OBVIOUS
<1>1. SweepIsTyped /\ signalled = reach
  BY DEF ReachIInv, EventsFollowTheState
<1>2. CASE sweep.at = "idle"
  <2>1. sweep.list = {} /\ DOMAIN sweep.results = {}
    BY <1>1, <1>2 DEF SweepIsTyped, NoSweep
  <2> QED
    BY <1>1, <1>2, <2>1 DEF SweepIsTyped, ReachTypeOK
<1>3. CASE sweep.at # "idle"
  <2>1. sweep.at = "probe" /\ sweep.list \subseteq Devices /\ DOMAIN sweep.results = TargetsOf(sweep.list)
    BY <1>1, <1>3 DEF SweepIsTyped
  <2>2. TargetsOf(sweep.list) \subseteq Addresses
    BY <2>1 DEF TargetsOf, TargetOf, Addresses
  <2> QED
    BY <1>1, <2>1, <2>2 DEF SweepIsTyped, ReachTypeOK
<1> QED
  BY <1>2, <1>3

LEMMA LimitTyped == LimitIInv => LimitTypeOK
<1> SUFFICES ASSUME LimitIInv, NEW k \in Callers PROVE tracker[k] \in [0..MaxTime -> 0..MaxRequests]
  BY DEF LimitIInv, TableIsRight, LimitTypeOK
<1>1. tracker[k] \in [0..MaxTime -> Nat] /\ \A t \in 0..MaxTime : tracker[k][t] <= MaxRequests
  BY DEF LimitIInv, TableIsRight
<1>2. \A n \in Nat : n <= MaxRequests => n \in 0..MaxRequests
  BY LimitsAssumption
<1> QED
  BY <1>1, <1>2

LEMMA SessionTyped == SessionIInv => SessionTypeOK
<1> SUFFICES ASSUME SessionIInv PROVE SessionTypeOK
    OBVIOUS
<1>1. AccountsAreDated
  BY DEF SessionIInv
<1>2. \A n \in Nat : n <= MaxNow + Ttl => n \in 0..(MaxNow + Ttl)
  BY SessionAssumption
<1>3. accounts \in [Accounts -> 0..(MaxNow + Ttl)]
  BY <1>1, <1>2 DEF AccountsAreDated
<1> QED
  BY <1>1, <1>3 DEF AccountsAreDated, SessionTypeOK

LEMMA ProfileTyped == ProfileIInv => ProfileTypeOK
<1> SUFFICES ASSUME ProfileIInv PROVE ProfileTypeOK
    OBVIOUS
<1>1. ASSUME NEW k \in DOMAIN profiles
      PROVE  /\ profiles[k].host = k[1] /\ profiles[k].at \in 1..written
             /\ profiles[k].blob = NoBlob \/ profiles[k].blob.pc = k[1]
  BY DEF ProfileIInv, ProfilesAreOwn, ProfilesOf
<1> QED
  BY <1>1 DEF ProfileIInv, PcsAreKnown, ChosenIsStored, ProfileTypeOK
=============================================================================
