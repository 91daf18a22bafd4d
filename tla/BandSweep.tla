----------------------------- MODULE BandSweep ------------------------------
(***************************************************************************)
(* The bands of a gateway: which it has and in which VRF one is, and the   *)
(* sweep of one band through it (core/facility.py).                        *)
(***************************************************************************)
EXTENDS Questions, FiniteSets, Sequences

-----------------------------------------------------------------------------
(***************************************************************************)
(* The sweep of one band through its gateway (collect_band of              *)
(* core/facility.py): pings one address after another, reads the ARP table *)
(* after each chunk, resumes when the session breaks, and tells which      *)
(* addresses answered and which of the others may be judged off line.      *)
(***************************************************************************)
CONSTANTS
    BandSize,           \* number of addresses of the band
    Chunk,              \* _SWEEP_CHUNK
    MaxReconnect        \* _MAX_RECONNECT

ASSUME SweepAssumption ==
    /\ BandSize \in Nat /\ Chunk \in Nat \ {0} /\ MaxReconnect \in Nat

VARIABLES
    band,               \* the hosts that are up, the VRF of the band, old ARP entries
    vrf,                \* the VRF that pings and reads use
    stage, next,        \* where the sweep is, the address whose turn it is
    arpTable,           \* the ARP entries of the gateway that were made for this band
    union,              \* arp_union: what the reads told
    unsent,             \* unscanned: addresses whose ping failed
    reconnects, stoppedAt, partialError,
    sent,              \* history: addresses that were pinged
    heard,              \* history: addresses that were pinged before the last read
    verdicts            \* found and off line, at the end

sweepVars == <<band, vrf, stage, next, arpTable, union, unsent, reconnects, stoppedAt,
               partialError, sent, heard, verdicts>>

All == 1..BandSize
Running == 0                    \* stoppedAt of a sweep that was not stopped
NoVerdicts == [found |-> {}, off |-> {}]

SweepStart(up, old, where, detected) ==
    /\ band = [up |-> up, old |-> old, vrf |-> where]
    /\ vrf = IF detected THEN where ELSE "global"
    /\ stage = "ping" /\ next = 1
    /\ arpTable = old /\ union = {} /\ unsent = {}
    /\ reconnects = 0 /\ stoppedAt = Running /\ partialError = FALSE
    /\ sent = {} /\ heard = {} /\ verdicts = NoVerdicts

\* _find_vrf_for_subnet may not understand the gateway.
SweepInit ==
    \E up \in SUBSET All, old \in {{}, {1}}, where \in {"global", "vrf"}, d \in BOOLEAN :
        old \subseteq up /\ (where = "global" => d) /\ SweepStart(up, old, where, d)

-----------------------------------------------------------------------------
(* The loop over the addresses.                                            *)

loopVars == <<band, vrf, reconnects, stoppedAt, partialError, heard, verdicts>>
Pinging == stage = "ping" /\ next <= BandSize

\* The next address; after a chunk the ARP table is read.
Advance ==
    /\ next' = next + 1
    /\ stage' = IF next % Chunk = 0 THEN "read" ELSE "ping"

Ping ==
    /\ Pinging
    /\ sent' = sent \cup {next}
    /\ arpTable' = IF next \in band.up /\ vrf = band.vrf THEN arpTable \cup {next} ELSE arpTable
    /\ Advance
    /\ UNCHANGED <<loopVars, union, unsent>>

\* No answer to the command, in a session that is alive.
PingFails ==
    /\ Pinging
    /\ unsent' = unsent \cup {next}
    /\ Advance
    /\ UNCHANGED <<loopVars, union, arpTable, sent>>

\* The session broke: again with the same address, or it cannot be resumed.
SessionResumes ==
    /\ Pinging /\ reconnects < MaxReconnect
    /\ reconnects' = reconnects + 1
    /\ UNCHANGED <<band, vrf, stage, next, arpTable, union, unsent, stoppedAt,
                   partialError, sent, heard, verdicts>>

SessionEnds ==
    /\ Pinging /\ reconnects = MaxReconnect
    /\ partialError' = TRUE /\ stage' = "last"
    /\ UNCHANGED <<band, vrf, next, arpTable, union, unsent, reconnects, stoppedAt,
                   sent, heard, verdicts>>

\* A stop request is seen before an address.
StopSeen ==
    /\ Pinging
    /\ stoppedAt' = next /\ stage' = "last"
    /\ UNCHANGED <<band, vrf, next, arpTable, union, unsent, reconnects,
                   partialError, sent, heard, verdicts>>

AllPinged ==
    /\ stage = "ping" /\ next > BandSize
    /\ stage' = "last"
    /\ UNCHANGED <<loopVars, next, arpTable, union, unsent, sent>>

-----------------------------------------------------------------------------
(* _read_arp, after a chunk and at the end; a session that broke is tried  *)
(* once more.                                                              *)

\* Faulty variant: a read replaces what the reads before told.
ReadArpAfresh ==
    /\ stage \in {"read", "last"}
    /\ union' = IF vrf = band.vrf THEN arpTable ELSE {}
    /\ heard' = sent
    /\ stage' = IF stage = "read" THEN "ping" ELSE "judge"
    /\ UNCHANGED <<band, vrf, next, arpTable, unsent, reconnects, stoppedAt,
                   partialError, sent, verdicts>>
ReadArp ==
    /\ stage \in {"read", "last"}
    /\ union' = IF vrf = band.vrf THEN union \cup arpTable ELSE union
    /\ heard' = sent
    /\ stage' = IF stage = "read" THEN "ping" ELSE "judge"
    /\ UNCHANGED <<band, vrf, next, arpTable, unsent, reconnects, stoppedAt,
                   partialError, sent, verdicts>>

\* An entry ages out of the gateway's table, later than the chunk it came in.
EntryAges ==
    /\ stage = "ping" /\ 1 \in arpTable /\ 1 \in union
    /\ arpTable' = arpTable \ {1}
    /\ UNCHANGED <<loopVars, stage, next, union, unsent, sent>>

\* The session cannot be made again: what is there is kept, nothing is raised.
SessionLost ==
    /\ stage \in {"ping", "read", "last"}
    /\ IF union = {} THEN stage' = "raised" /\ UNCHANGED partialError
       ELSE stage' = "judge" /\ partialError' = TRUE
    /\ UNCHANGED <<band, vrf, next, arpTable, union, unsent, reconnects, stoppedAt,
                   sent, heard, verdicts>>

-----------------------------------------------------------------------------
(* The result.                                                             *)

\* Without an entry all VRFs are asked, if the gateway answers.
FallbackFinds ==
    /\ stage = "judge" /\ union = {} /\ vrf # band.vrf /\ arpTable # {}
    /\ union' = arpTable
    /\ UNCHANGED <<band, vrf, stage, next, arpTable, unsent, reconnects, stoppedAt,
                   partialError, sent, heard, verdicts>>

Scanned ==
    ((IF stoppedAt # Running THEN 1..(stoppedAt - 1)
      ELSE IF partialError THEN 1..(next - 1) ELSE All) \ unsent) \cup union

\* Nothing is judged if nothing answered.
Conclude ==
    /\ stage = "judge"
    /\ verdicts' = IF union = {} THEN NoVerdicts
                   ELSE [found |-> union, off |-> Scanned \ union]
    /\ stage' = "over"
    /\ UNCHANGED <<band, vrf, next, arpTable, union, unsent, reconnects, stoppedAt,
                   partialError, sent, heard>>

SweepNext ==
    \/ Ping \/ PingFails \/ SessionResumes \/ SessionEnds \/ StopSeen \/ AllPinged
    \/ ReadArp \/ EntryAges \/ SessionLost \/ FallbackFinds \/ Conclude

SweepSpec == SweepInit /\ [][SweepNext]_sweepVars
-----------------------------------------------------------------------------
(* Properties.                                                             *)

SweepTypeOK ==
    /\ band.up \subseteq All /\ band.old \subseteq band.up
    /\ band.vrf \in {"global", "vrf"} /\ vrf \in {"global", "vrf"}
    /\ stage \in {"ping", "read", "last", "judge", "raised", "over"}
    /\ next \in 1..(BandSize + 1)
    /\ arpTable \subseteq band.up /\ union \subseteq band.up
    /\ unsent \subseteq All /\ sent \subseteq All /\ heard \subseteq sent
    /\ reconnects \in 0..MaxReconnect /\ stoppedAt \in {Running} \cup All
    /\ partialError \in BOOLEAN
    /\ verdicts.found \subseteq band.up /\ verdicts.off \subseteq All

\* An address is judged off line only if it was pinged in this sweep, however
\* the sweep ended, and a host that is up only if its pings went to another
\* VRF or the table was not read after them.
OnlyAskedIsOff ==
    /\ verdicts.off \subseteq sent
    /\ vrf = band.vrf => verdicts.off \cap band.up \cap heard = {}

\* What an ARP read told stays told: a host that was found in one chunk is in
\* the result although its entry is gone from the table at the end, and in
\* spite of sessions that broke in between.
FoundStaysFound ==
    [][union \subseteq union' /\ (stage' = "over" => verdicts'.found = union)]_sweepVars

-----------------------------------------------------------------------------
(***************************************************************************)
(* Which bands a gateway has and in which VRF one of them is               *)
(* (core/facility.py, detect_subnets, _find_vrf_for_subnet): the commands  *)
(* of the stored vendor, the commands of the other one in the same         *)
(* session, a new session with the driver that a probe names.              *)
(***************************************************************************)
\* A band is the range of its addresses.
Narrow == <<4, 7>>
Wide == <<0, 15>>
Local == <<900, 903>>           \* a loopback
TooWide == <<2000, 4000>>
TooNarrow == <<20, 21>>

SizeOf(b) == b[2] - b[1] + 1
Usable(b) == SizeOf(b) <= 1024 /\ SizeOf(b) >= 4 /\ b # Local

\* _finalize_subnets: usable bands, each once, in the order they were told.
Finalized(found) ==
    FoldLeft(LAMBDA out, b : IF Usable(b) /\ b \notin ToSet(out) THEN Append(out, b) ELSE out,
             <<>>, found)

-----------------------------------------------------------------------------
(* detect_subnets.                                                         *)

\* What the gateway is, and what it tells: route, iface and cfg are lists of
\* bands; lenient: it answers under a driver that is not its own.
Gateways ==
    [system : {"ios", "exos"}, lenient : BOOLEAN,
     told : SeqOf({Narrow, Wide, Local, TooWide, TooNarrow}, MaxLen["detect"])]
\* The answers to the commands of a system, under a driver.
Answers(g, commands, driver) ==
    IF g.system = commands /\ (driver = g.system \/ g.lenient) THEN Finalized(g.told) ELSE <<>>

\* The session with the driver of the stored vendor.
InSession(g, vendor) ==
    IF vendor = "exos" THEN Answers(g, "exos", vendor)
    ELSE IF Answers(g, "ios", vendor) # <<>> THEN Answers(g, "ios", vendor)
         ELSE Answers(g, "exos", vendor)

Retried(g, vendor, probed, redials) ==
    IF probed = "none" \/ probed = vendor \/ ~redials
       \/ Answers(g, probed, probed) = <<>>
    THEN [bands |-> <<>>, vendor |-> vendor]
    ELSE [bands |-> Answers(g, probed, probed), vendor |-> probed]

\* A gateway that is stored as EXOS is not probed.
DetectSubnets(g, vendor, probed, redials) ==
    IF InSession(g, vendor) # <<>> \/ vendor = "exos"
    THEN [bands |-> InSession(g, vendor), vendor |-> vendor]
    ELSE Retried(g, vendor, probed, redials)

AskDetection ==
    /\ Fresh
    /\ \E g \in Gateways, vendor \in {"ios", "exos"}, probed \in {"none", "ios", "exos"},
          redials \in BOOLEAN :
          question' = [of |-> "detect", gateway |-> g, vendor |-> vendor, probed |-> probed,
                       redials |-> redials]

\* The vendor of a switch is replaced only if the old one told no band and
\* the new one did: a wrong probe, or a session that fails, costs nothing.
\* The bands are those that the gateway tells, each once, if either the vendor
\* is right, or the gateway answers anyway, or a probe names the right one;
\* but a switch stored as EXOS that is none tells nothing.
VendorFollowsTheBands ==
    Asked("detect") =>
        LET g == question.gateway
            bands == Finalized(g.told)
            got == DetectSubnets(g, question.vendor, question.probed, question.redials)
            corrected == question.probed = g.system /\ question.redials
            reachable == \/ question.vendor = g.system
                         \/ question.vendor = "ios" /\ (g.lenient \/ corrected)
        IN  /\ got.vendor # question.vendor => got.vendor = g.system /\ got.bands # <<>>
            /\ got.bands = IF reachable THEN bands ELSE <<>>
            /\ IsInjective(got.bands) /\ \A b \in ToSet(got.bands) : Usable(b)
            /\ {b \in ToSet(g.told) : Usable(b)} = ToSet(bands)

-----------------------------------------------------------------------------
(* _find_vrf_for_subnet: the first VRF with a connected route around the   *)
(* band.                                                                   *)

Within(b, route) == route[1] <= b[1] /\ b[2] <= route[2]
HasBand(routes, b) == \E r \in routes : Within(b, r)
FindVrf(vrfs, b) ==
    LET with == {n \in DOMAIN vrfs : HasBand(vrfs[n], b)}
    IN  IF with = {} THEN 0 ELSE Min(with)

RouteSets == {{}, {Narrow}, {Wide}, {<<0, 3>>, <<8, 15>>}, {<<6, 9>>}}
AskVrf ==
    /\ Fresh
    /\ \E vrfs \in SeqOf(RouteSets, MaxLen["vrf"]), b \in {Narrow, <<8, 11>>} :
          question' = [of |-> "vrf", vrfs |-> vrfs, band |-> b]

\* Pings of a band go to a VRF only if that has every address of the band
\* connected, and to the global table only if no VRF has.
BandIsPingedWhereItIs ==
    Asked("vrf") =>
        LET b == question.band
            n == FindVrf(question.vrfs, b)
            Connected(k, a) == \E r \in question.vrfs[k] : a \in r[1]..r[2]
        IN  /\ n # 0 => \A a \in b[1]..b[2] : Connected(n, a)
            /\ n = 0 => \A k \in DOMAIN question.vrfs : \E a \in b[1]..b[2] : ~Connected(k, a)

DetectNext == AskDetection \/ AskVrf
DetectSpec == QuestionInit /\ [][DetectNext]_question
=============================================================================
