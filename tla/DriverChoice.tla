---------------------------- MODULE DriverChoice ----------------------------
(***************************************************************************)
(* How the collection of one switch finds the driver that fits it          *)
(* (core/collector.py, _ssh_collect, _probe_os, _alteon_collect and the    *)
(* part of _worker_loop_once that calls them): a session with the driver   *)
(* of the stored vendor that asks what the switch is, a raw probe if that  *)
(* fails, the menu session of an Alteon; and what is stored at the end.    *)
(***************************************************************************)
EXTENDS Integers, FiniteSets

CONSTANTS
    CommandCount,       \* commands of a vendor
    Retries,            \* max_retries of the first session
    MaxTries            \* bound: collections

ASSUME DriverAssumption ==
    /\ CommandCount \in Nat \ {0} /\ Retries \in Nat \ {0} /\ MaxTries \in Nat

SwitchKinds == {"ios", "exos", "alteon"}

VARIABLES
    hardware,           \* what the switch is and what it shows of that
    stored,             \* switches.vendor
    raw,                \* raw_vendor, as the collection read it
    session,            \* the session: its kind and where it is
    driver, eff,        \* vendor and eff_vendor
    attempt,            \* of the session
    replies,            \* commands with and without an answer
    version,            \* whether outputs["version"] has the text
    logins,             \* history: logins of this collection
    prompted,           \* history: the Alteon prompt was seen
    parsed,             \* the vendor of the parser, when it ran
    tries               \* collections so far

driverVars == <<hardware, stored, raw, session, driver, eff, attempt, replies,
                version, logins, prompted, parsed, tries>>

\* tells: its version text names it; menu: its prompt shows that it is an
\* Alteon; mentions: its tables or descriptions have the name of one.
Hardware == [system : SwitchKinds, tells : BOOLEAN, menu : BOOLEAN, mentions : BOOLEAN]
NoVendor == "none"
NoReplies == [ok |-> 0, bad |-> 0]
Idle == {"idle", "done", "failed"}

\* _norm_vendor
Normalized(vendor) == IF vendor = "unknown" THEN "ios" ELSE vendor
\* _detect_vendor_from_version
VendorIn(told) == IF told /\ hardware.tells THEN hardware.system ELSE NoVendor
\* _looks_like_alteon
LooksLikeAlteon == hardware.system = "alteon" \/ hardware.mentions

DriverFrom(h, vendor) ==
    /\ hardware = h /\ stored = vendor /\ raw = vendor
    /\ session = "idle" /\ driver = "ios" /\ eff = "ios" /\ attempt = 0
    /\ replies = NoReplies /\ version = FALSE
    /\ logins = 0 /\ prompted = FALSE /\ parsed = NoVendor /\ tries = 0

DriverInit ==
    \E h \in Hardware, vendor \in SwitchKinds \cup {"unknown"} :
        (h.menu => h.system = "alteon") /\ DriverFrom(h, vendor)

-----------------------------------------------------------------------------
StartSession ==
    /\ session \in Idle /\ tries < MaxTries
    /\ tries' = tries + 1 /\ raw' = stored
    /\ driver' = Normalized(stored) /\ eff' = Normalized(stored)
    /\ session' = IF Normalized(stored) = "alteon" THEN "menu" ELSE "first"
    /\ attempt' = 1 /\ replies' = NoReplies /\ version' = FALSE
    /\ logins' = 0 /\ prompted' = FALSE /\ parsed' = NoVendor
    /\ UNCHANGED <<hardware, stored>>

\* diagnose_switch and the requests that store what it guesses.
Diagnose ==
    /\ \E guess \in {VendorIn(TRUE), IF hardware.menu THEN "alteon" ELSE NoVendor} \ {NoVendor} :
           stored' = guess
    /\ UNCHANGED <<hardware, raw, session, driver, eff, attempt, replies, version,
                   logins, prompted, parsed, tries>>

-----------------------------------------------------------------------------
(* _ssh_collect.  first: with the question what the switch is; second:     *)
(* with the driver of the probe; asked and sending: after the question.    *)

\* An error that ends the session: after the first one comes the probe.
Give(kind) == session' = IF kind = "second" THEN "failed" ELSE "probe"
WhichSession == IF session \in {"second", "sending"} THEN "second" ELSE "first"
Sends == session \in {"asked", "sending"}
Answered == replies.ok + replies.bad
sessionConst == <<hardware, stored, raw, driver, prompted, parsed, tries>>

AttemptFails ==
    /\ session \in {"first", "second"} \/ (Sends /\ Answered = CommandCount)
    /\ IF WhichSession = "first" /\ attempt < Retries
       THEN session' = "first" /\ attempt' = attempt + 1
       ELSE Give(WhichSession) /\ UNCHANGED attempt
    /\ replies' = NoReplies /\ version' = FALSE /\ logins' = logins + 1
    /\ UNCHANGED <<sessionConst, eff>>

PromptIsMenu ==
    /\ session = "first" /\ hardware.menu
    /\ prompted' = TRUE /\ stored' = "alteon"
    /\ session' = "menu" /\ eff' = "alteon" /\ replies' = NoReplies /\ logins' = logins + 1
    /\ UNCHANGED <<hardware, raw, driver, attempt, version, parsed, tries>>

\* show version: the driver does not match the prompt, or the text is there.
VersionFails ==
    /\ session = "first" /\ ~hardware.menu
    /\ Give("first") /\ version' = FALSE /\ logins' = logins + 1
    /\ UNCHANGED <<sessionConst, eff, attempt, replies>>

VersionIsRead ==
    /\ session = "first" /\ ~hardware.menu
    /\ session' = "asked" /\ version' = TRUE
    /\ eff' = IF VendorIn(TRUE) = NoVendor THEN eff ELSE VendorIn(TRUE)
    /\ UNCHANGED <<sessionConst, attempt, replies, logins>>

SecondIsOpen ==
    /\ session = "second"
    /\ session' = "sending"
    /\ UNCHANGED <<sessionConst, eff, attempt, replies, version, logins>>

\* One command; it may be the one for the version.
CommandAnswers ==
    /\ Sends /\ Answered < CommandCount
    /\ replies' = [replies EXCEPT !.ok = @ + 1]
    /\ version' \in {version, TRUE}
    /\ UNCHANGED <<sessionConst, session, eff, attempt, logins>>

\* Two failures before any answer, or nothing but failures: a mismatch.
Mismatch(r) == (r.ok = 0 /\ r.bad >= 2) \/ r.bad = CommandCount
CommandFails ==
    /\ Sends /\ Answered < CommandCount
    /\ replies' = [replies EXCEPT !.bad = @ + 1]
    /\ version' \in {version, FALSE}
    /\ IF Mismatch(replies') THEN Give(WhichSession) /\ logins' = logins + 1
       ELSE UNCHANGED <<session, logins>>
    /\ UNCHANGED <<sessionConst, eff, attempt>>

\* _run_with_timeout: the thread is left alone with its session.
HardTimeout ==
    /\ session \in {"first", "asked", "second", "sending", "menu"}
    /\ IF session = "menu" THEN session' = "failed" ELSE Give(WhichSession)
    /\ logins' = logins + 1
    /\ UNCHANGED <<sessionConst, eff, attempt, replies, version>>

-----------------------------------------------------------------------------
(* _probe_os and _alteon_collect.                                          *)

Probe ==
    /\ session = "probe"
    /\ logins' = logins + 1 /\ replies' = NoReplies
    /\ \E probed \in {NoVendor, VendorIn(TRUE), IF hardware.menu THEN "alteon" ELSE NoVendor} :
           /\ session' = IF probed \in {NoVendor, driver} THEN "failed"
                         ELSE IF probed = "alteon" THEN "menu" ELSE "second"
           /\ eff' = IF probed = NoVendor THEN eff ELSE probed
           /\ version' = (probed # NoVendor)
    /\ UNCHANGED <<sessionConst, attempt>>

MenuFails ==
    /\ session = "menu"
    /\ session' = "failed" /\ logins' = logins + 1
    /\ UNCHANGED <<sessionConst, eff, attempt, replies, version>>

-----------------------------------------------------------------------------
(* With the outputs: which vendor's they are.                              *)

\* An Alteon that answered another vendor's commands is collected again.
Recollect ==
    /\ Sends /\ Answered = CommandCount
    /\ VendorIn(version) = NoVendor /\ eff # "alteon" /\ LooksLikeAlteon
    /\ session' = "menu" /\ eff' = "alteon" /\ logins' = logins + 1
    /\ version' = FALSE /\ replies' = NoReplies
    /\ UNCHANGED <<sessionConst, attempt>>

Learned(told) ==
    IF VendorIn(told) # NoVendor THEN VendorIn(told)
    ELSE IF eff # driver THEN eff ELSE NoVendor

ParserFor(told) == IF Learned(told) # NoVendor THEN Learned(told) ELSE eff

Finish(told) ==
    /\ session' = "done" /\ logins' = logins + 1
    /\ parsed' = ParserFor(told)
    /\ stored' = IF Learned(told) \notin {NoVendor, raw} THEN Learned(told) ELSE stored
    /\ UNCHANGED <<hardware, raw, driver, eff, attempt, replies, prompted, tries>>

OutputsAreThere ==
    /\ Sends /\ Answered = CommandCount
    /\ VendorIn(version) # NoVendor \/ eff = "alteon" \/ ~LooksLikeAlteon
    /\ Finish(version) /\ UNCHANGED version

\* Only an Alteon understands the commands of the menu.
MenuIsThere ==
    /\ session = "menu"
    /\ version' = (hardware.system = "alteon")
    /\ Finish(version')

DriverNext ==
    \/ StartSession \/ Diagnose
    \/ AttemptFails \/ PromptIsMenu \/ VersionFails \/ VersionIsRead \/ SecondIsOpen
    \/ CommandAnswers \/ CommandFails \/ HardTimeout
    \/ Probe \/ MenuFails \/ Recollect \/ OutputsAreThere \/ MenuIsThere

DriverSpec == DriverInit /\ [][DriverNext]_driverVars
-----------------------------------------------------------------------------
(* Properties.                                                             *)

DriverTypeOK ==
    /\ hardware \in Hardware /\ stored \in SwitchKinds \cup {"unknown"}
    /\ raw \in SwitchKinds \cup {"unknown"} /\ driver \in SwitchKinds /\ eff \in SwitchKinds
    /\ session \in Idle \cup {"first", "asked", "second", "sending", "probe", "menu"}
    /\ attempt \in 0..Retries /\ tries \in 0..MaxTries /\ logins \in 0..(Retries + 3)
    /\ replies.ok \in 0..CommandCount /\ replies.bad \in 0..CommandCount
    /\ version \in BOOLEAN /\ prompted \in BOOLEAN /\ parsed \in SwitchKinds \cup {NoVendor}

\* The outputs are parsed as what the commands of the session were for, on
\* every way to them: retries, the probe, the second collection of an Alteon.
ParserFitsTheCommands == session = "done" => parsed = eff

\* A collection that is done had an answer to a command at least, whatever
\* else failed in its session, or it was a session with a menu.
DoneHadAnAnswer == session = "done" => replies.ok > 0 \/ eff = "alteon"

\* An Alteon admits few sessions: once its prompt was seen the vendor is
\* stored, although the collection may still fail, and a collection that
\* starts with that vendor logs in once.
AlteonIsAskedOnce ==
    /\ prompted => stored = "alteon"
    /\ raw = "alteon" /\ session \in {"done", "failed"} /\ tries > 0 => logins = 1

\* The stored vendor is only replaced by what the switch is, whatever failed
\* in between and whoever diagnoses it meanwhile; a switch that does not tell
\* keeps what was registered.  A switch whose tables name an Alteon may be
\* taken for one.
VendorIsLearned ==
    [][stored' # stored => stored' = hardware.system \/ hardware.mentions]_driverVars
=============================================================================
