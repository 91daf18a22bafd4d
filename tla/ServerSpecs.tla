----------------------------- MODULE ServerSpecs -----------------------------
(***************************************************************************)
(* What one collection of a server finds out (core/server_collector.py,    *)
(* _collect_server_locked): the guess at its operating system, SSH with    *)
(* the entered and the stored account, WMI and SNMP where SSH told no      *)
(* specifications, the excuses that are left for the user.                 *)
(***************************************************************************)
EXTENDS Integers, FiniteSets, Sequences

VARIABLES
    osType,             \* servers.os_type
    actual,             \* the system the server runs
    sure,               \* history: the system was told, otherwise than the ports say
    contact             \* the last collection: what it met and what it told

specVars == <<osType, actual, sure, contact>>

Systems == {"linux", "aix", "windows"}
OpenPorts == {{}, {"web"}, {"ssh"}, {"rpc"}, {"ssh", "rpc"}, {"ssh", "winrm"}}
\* entered: the account the caller gives; stored: the one kept with the server;
\* ssh, wmi, snmp: what the server answers there; named: DNS, NetBIOS or ARP
\* tell of it.
Meetings == [open : OpenPorts, named : BOOLEAN,
             entered : {"none", "good", "typo"}, stored : {"none", "good", "wrong"},
             ssh : {"specs", "bare", "broken"}, wmi : {"specs", "bare", "broken"},
             snmp : {"off", "specs", "silent"}]

NoContact == [met |-> "nothing"]

SpecFrom(system) ==
    /\ osType = "auto" /\ actual = system
    /\ sure = FALSE /\ contact = NoContact
SpecInit == \E system \in Systems : SpecFrom(system)

-----------------------------------------------------------------------------
(* The stages, from record to record: os "" is no answer about the system, *)
(* tries are the accounts given to the server, account is the one in use.  *)

Inferred(open) ==
    IF "rpc" \in open THEN "windows" ELSE IF "ssh" \in open THEN "linux" ELSE ""

Unasked(m, stored) ==
    [os |-> IF stored \in Systems THEN "" ELSE Inferred(m.open),
     specs |-> FALSE, tries |-> <<>>, account |-> m.entered,
     excuses |-> IF m.entered = "none" /\ m.open # {} THEN {"account"} ELSE {}]

AccountsToTry(m, account) ==
    IF m.stored \in {"none", account} THEN <<account>> ELSE <<account, m.stored>>

\* The accounts given away: the next one only after a refusal.
Tried(accounts) ==
    IF accounts[1] = "good" \/ Len(accounts) = 1 THEN <<accounts[1]>> ELSE accounts
Accepted(accounts) == "good" \in {accounts[n] : n \in DOMAIN accounts}

\* The system that the commands are chosen for: detect_os with the entered
\* account, unless a system is stored.
Detected(m, stored) ==
    IF stored \in Systems THEN stored
    ELSE IF m.entered = "good" /\ m.ssh # "broken" THEN actual ELSE "unknown"

\* Commands of the wrong kind tell no specifications; what is unknown is asked
\* the one way and then the other.
Fits(system) == system = "unknown" \/ (system = "windows" <=> actual = "windows")

\* SSH with the candidates.
SshStage(m, stored, v) ==
    LET system == Detected(m, stored)
        detect == IF stored \in Systems THEN <<>> ELSE <<m.entered>>
        os == IF stored \notin Systems /\ system # "unknown" THEN system ELSE v.os
        tried == Tried(AccountsToTry(m, v.account))
        in == Accepted(tried) /\ m.ssh # "broken"
        specs == in /\ m.ssh = "specs" /\ Fits(system)
    IN  IF m.entered = "none" THEN v
        ELSE IF "ssh" \notin m.open THEN [v EXCEPT !.excuses = @ \cup {"ssh"}]
        ELSE [v EXCEPT
                !.tries = detect \o (IF m.ssh = "broken" THEN <<v.account>> ELSE tried),
                !.account = IF in THEN "good" ELSE @,
                !.specs = specs,
                !.os = IF in /\ system = "unknown" /\ (actual = "windows" \/ os = "")
                       THEN actual ELSE os,
                !.excuses = IF in THEN (IF specs THEN @ ELSE @ \cup {"specs"})
                            ELSE @ \cup {"ssh"}]

WmiStage(m, v) ==
    LET tried == Tried(AccountsToTry(m, v.account))
        in == Accepted(tried) /\ actual = "windows" /\ m.wmi # "broken"
    IN  IF v.specs \/ m.entered = "none" \/ m.open \cap {"rpc", "winrm"} = {} THEN v
        ELSE [v EXCEPT
                !.tries = @ \o tried,
                !.specs = in /\ m.wmi = "specs",
                !.os = IF in THEN "windows" ELSE @,
                !.excuses = IF in THEN @ \ {"ssh", "specs"} ELSE @ \cup {"wmi"}]

SnmpStage(m, stored, v) ==
    IF v.specs \/ m.snmp = "off" \/ (m.open = {} /\ ~m.named) THEN v
    ELSE IF m.snmp = "silent" THEN [v EXCEPT !.excuses = @ \cup {"snmp"}]
    ELSE [v EXCEPT
            !.specs = TRUE,
            !.excuses = @ \ {"ssh", "specs", "wmi", "account"},
            !.os = IF v.os = "" /\ stored = "auto" THEN actual ELSE @]

\* The state of the server, and the excuse shown.
Outcome(m, v) ==
    IF m.open # {} THEN [status |-> "done", shown |-> v.excuses]
    ELSE IF m.named THEN [status |-> "done", shown |-> {"ports"}]
    ELSE [status |-> "failed", shown |-> IF v.excuses = {} THEN {"unreachable"} ELSE v.excuses]

\* One collection: what was told is stored, what was not stays.
CollectSpecs(m) ==
    LET seen == SshStage(m, osType, Unasked(m, osType))
        v == SnmpStage(m, osType, WmiStage(m, seen))
    IN  /\ contact = NoContact
        /\ osType' = IF v.os = "" THEN osType ELSE v.os
        /\ sure' = (sure \/ (v.os = actual /\ v.os # Inferred(m.open)))
        /\ contact' = [met |-> m, told |-> v, end |-> Outcome(m, v)]
        /\ UNCHANGED actual

\* The collection is over.
ContactEnds ==
    /\ contact # NoContact /\ contact' = NoContact
    /\ UNCHANGED <<osType, actual, sure>>

SpecNext ==
    \/ \E m \in Meetings : (m.named => m.open = {}) /\ CollectSpecs(m)
    \/ ContactEnds

SpecsSpec == SpecInit /\ [][SpecNext]_specVars
-----------------------------------------------------------------------------
(* Properties.                                                             *)

SpecTypeOK ==
    /\ osType \in Systems \cup {"auto"} /\ actual \in Systems /\ sure \in BOOLEAN
    /\ contact = NoContact \/
         /\ contact.met \in Meetings /\ contact.end.status \in {"done", "failed"}
         /\ contact.told.excuses \subseteq {"account", "ssh", "specs", "wmi", "snmp"}

\* A server whose specifications were found, by whatever way, has no excuse
\* of the ways that failed before; and one that answers and has none has an
\* excuse, unless WMI answered without any and SNMP is switched off.
ExcusesFitTheSpecs ==
    contact # NoContact =>
        /\ contact.told.specs => contact.told.excuses = {}
        /\ contact.end.shown = {} /\ ~contact.told.specs =>
             /\ contact.met.snmp = "off" /\ contact.met.wmi = "bare"
             /\ actual = "windows" /\ "wmi" \notin contact.told.excuses

\* Accounts that are refused get locked: the entered one is given at most
\* three times (to find out the system, to SSH, to WMI), the stored one twice,
\* and once an account was accepted no other is tried.
AccountsAreSpared ==
    contact # NoContact =>
        LET tries == contact.told.tries
            TriesOf(a) == Cardinality({n \in DOMAIN tries : tries[n] = a})
        IN  /\ TriesOf("typo") <= 3 /\ TriesOf("wrong") <= 2
            /\ \A i, j \in DOMAIN tries :
                 i < j /\ tries[i] = "good" /\ contact.met.ssh # "broken" => tries[j] = "good"

\* The system that a login, WMI or SNMP told is not replaced afterwards by
\* what the open ports suggest, whatever ways are open in later collections.
ToldSystemIsKept == sure => osType = actual
=============================================================================
