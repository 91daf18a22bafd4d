----------------------------- MODULE PcProfiles -----------------------------
(***************************************************************************)
(* The accounts and source addresses of the PCs that collect               *)
(* (core/pcprofile.py; core/db.py, pc_profiles; app.py, source_ip and the  *)
(* accounts that are kept).  They share a database; a PC is known by the   *)
(* adapter on its way out, and an account is readable where it was saved.  *)
(***************************************************************************)
EXTENDS Integers, FiniteSets

CONSTANTS
    Pcs,                \* PCs, with names of their own
    MaxProfileSteps     \* bound: saves and changes of the way out

ASSUME ProfileAssumption == MaxProfileSteps \in Nat /\ "none" \notin Pcs

VARIABLES
    wayOut,             \* the adapter that each PC goes out through, 0: none
    identity,           \* the key it is known by
    profiles,           \* pc_profiles by key
    sharedSource,       \* app_settings.source_ip
    written,            \* order of the writes
    newestSaved,        \* history: the write of each PC's newest account
    savedUnder,         \* history: the key it was saved under
    chosen              \* history: keys whose source address was chosen

profileVars == <<wayOut, identity, profiles, sharedSource, written, newestSaved,
                 savedUnder, chosen>>

Adapters == {1, 2}
NoSource == <<>>                \* "": the operating system chooses
SourcesOf(pc) == {<<pc, a>> : a \in Adapters}
DetectedSource(pc) == IF wayOut[pc] = 0 THEN NoSource ELSE <<pc, wayOut[pc]>>
NoBlob == [pc |-> "none", at |-> 0]

\* get_local_identity: the MAC of the adapter on the way out; one that uuid finds
\* if the list of adapters tells none; the name of the PC (0) if uuid makes one up.
KeysFor(pc, out) ==
    (IF out = 0 THEN {} ELSE {<<pc, out>>}) \cup {<<pc, 1>>, <<pc, 0>>}

ProfileInit ==
    /\ wayOut = [p \in Pcs |-> 1] /\ identity = [p \in Pcs |-> <<p, 1>>]
    /\ profiles = [k \in {} |-> 0] /\ sharedSource = NoSource /\ written = 0
    /\ newestSaved = [p \in Pcs |-> 0]
    /\ savedUnder = [p \in Pcs |-> <<p, 1>>] /\ chosen = {}

\* A VPN, a second adapter: the way out changes.
Reroute(pc) ==
    /\ written < MaxProfileSteps /\ written' = written + 1
    /\ \E out \in {0} \cup Adapters : \E key \in KeysFor(pc, out) :
          /\ wayOut' = [wayOut EXCEPT ![pc] = out]
          /\ identity' = [identity EXCEPT ![pc] = key]
    /\ UNCHANGED <<profiles, sharedSource, newestSaved, savedUnder, chosen>>

-----------------------------------------------------------------------------
(* get_source_ip and get_credential.                                       *)

SourceIp(pc) ==
    IF identity[pc] \in DOMAIN profiles /\ profiles[identity[pc]].source # NoSource
    THEN profiles[identity[pc]].source ELSE sharedSource

\* The account of a profile, if this PC can read it.
Decoded(pc, key) ==
    IF key \in DOMAIN profiles /\ profiles[key].blob.pc = pc THEN profiles[key].blob.at ELSE 0

Credential(pc) ==
    LET others == {k \in DOMAIN profiles \ {identity[pc]} :
                      profiles[k].host = pc /\ Decoded(pc, k) # 0}
    IN  IF Decoded(pc, identity[pc]) # 0 THEN Decoded(pc, identity[pc])
        ELSE IF others = {} THEN 0
        ELSE LET last == CHOOSE k \in others :
                            \A j \in others : profiles[j].at <= profiles[k].at
             IN  Decoded(pc, last)

-----------------------------------------------------------------------------
(* save_profile and the endpoints that call it.                            *)

Upsert(pc, source, blob) ==
    LET key == identity[pc]
        old == IF key \in DOMAIN profiles THEN profiles[key].blob ELSE NoBlob
    IN  [k \in DOMAIN profiles \cup {key} |->
            IF k = key THEN [host |-> pc, source |-> source, at |-> written + 1,
                             blob |-> IF blob # NoBlob THEN blob ELSE old]
            ELSE profiles[k]]

\* A request to collect that keeps its account.  The account may be one that
\* cannot be encrypted.
KeepAccount(pc) ==
    /\ written < MaxProfileSteps /\ written' = written + 1
    /\ \E encrypted \in BOOLEAN :
        LET source == IF SourceIp(pc) # NoSource THEN SourceIp(pc) ELSE DetectedSource(pc)
        IN  /\ profiles' = Upsert(pc, source,
                              IF encrypted THEN [pc |-> pc, at |-> written + 1] ELSE NoBlob)
            /\ newestSaved' = IF encrypted THEN [newestSaved EXCEPT ![pc] = written + 1]
                              ELSE newestSaved
            /\ savedUnder' = IF encrypted THEN [savedUnder EXCEPT ![pc] = identity[pc]]
                             ELSE savedUnder
    /\ UNCHANGED <<wayOut, identity, sharedSource, chosen>>

ChooseSource(pc) ==
    /\ written < MaxProfileSteps /\ written' = written + 1
    /\ \E source \in {NoSource} \cup SourcesOf(pc) :
        LET own == IF source # NoSource THEN source ELSE DetectedSource(pc)
        IN  /\ sharedSource' = source
            /\ profiles' = Upsert(pc, own, NoBlob)
            /\ chosen' = IF own # NoSource THEN chosen \cup {identity[pc]}
                         ELSE chosen \ {identity[pc]}
    /\ UNCHANGED <<wayOut, identity, newestSaved, savedUnder>>

DeleteProfile(key) ==
    /\ profiles' = [k \in DOMAIN profiles \ {key} |-> profiles[k]]
    /\ chosen' = chosen \ {key}
    /\ UNCHANGED <<wayOut, identity, sharedSource, written, newestSaved, savedUnder>>

\* clear_all_credentials: the accounts of all PCs, not their addresses.
ClearAll ==
    /\ profiles' = [k \in DOMAIN profiles |-> [profiles[k] EXCEPT !.blob = NoBlob]]
    /\ UNCHANGED <<wayOut, identity, sharedSource, written, newestSaved, savedUnder, chosen>>

ProfileNext ==
    \/ \E pc \in Pcs : Reroute(pc) \/ KeepAccount(pc) \/ ChooseSource(pc)
    \/ \E key \in DOMAIN profiles : DeleteProfile(key)
    \/ ClearAll

ProfileSpec == ProfileInit /\ [][ProfileNext]_profileVars
-----------------------------------------------------------------------------
(* Properties.                                                             *)

ProfileTypeOK ==
    /\ \A k \in DOMAIN profiles :
          /\ profiles[k].host = k[1] /\ profiles[k].at \in 1..written
          /\ profiles[k].blob = NoBlob \/ profiles[k].blob.pc = k[1]
    /\ \A p \in Pcs : identity[p] \in KeysFor(p, wayOut[p])
    /\ chosen \subseteq DOMAIN profiles

\* The docstring of get_credential says that an account does not get lost any more
\* when the way out changes: as long as an account of this PC is stored, it finds
\* one, and only one that it saved itself.
AccountIsFound ==
    \A pc \in Pcs :
        (\E k \in DOMAIN profiles : profiles[k].blob.pc = pc) <=> Credential(pc) # 0

\* An account that was typed anew is the one that is used, at least until the way
\* out changes to an adapter with an older one.
NewAccountIsUsed ==
    \A pc \in Pcs :
        identity[pc] = savedUnder[pc] /\ Decoded(pc, identity[pc]) # 0
            => Credential(pc) = newestSaved[pc]

\* The module comment of pcprofile.py says that each PC goes out with its own
\* address: one that was chosen, or detected when none was chosen, at this PC is
\* not replaced by what another PC chooses later.
ChosenSourceIsOwn ==
    \A pc \in Pcs : identity[pc] \in chosen => SourceIp(pc) \in SourcesOf(pc)
=============================================================================
