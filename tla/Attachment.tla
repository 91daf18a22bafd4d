----------------------------- MODULE Attachment -----------------------------
(***************************************************************************)
(* Where a host is plugged in, judged by the MAC tables of the switches    *)
(* (core/facility.py, core/db.py): the ports beyond which a registered     *)
(* switch is, the attachment of a host, where a MAC was seen last.         *)
(* The host may be at the access switch A; B is the backbone, A hangs on   *)
(* its port e9, a member of its port channel po.                           *)
(***************************************************************************)
EXTENDS Questions, FiniteSets, Sequences

AccessPort == <<"A", "e1">>
AccessChannel == <<"A", "po">>
Trunk == <<"B", "e9">>
TrunkChannel == <<"B", "po">>
Vlan == <<"B", "vl">>
Places == {AccessPort, AccessChannel, Trunk, TrunkChannel, Vlan}
Nowhere == <<"", "">>           \* no switch and no port
IsPhysical(place) == place \in {AccessPort, Trunk}

EDGE_MAC_MAX == 4
Unknown == 9999                 \* a port without a count

-----------------------------------------------------------------------------
(* The ports beyond which a registered switch is.                          *)

Uplinks(told, members) ==
    LET mem == IF members THEN {Trunk} ELSE {}
    IN  told \cup (IF TrunkChannel \in told THEN mem
                   ELSE IF mem \cap told # {} THEN {TrunkChannel} ELSE {})

-----------------------------------------------------------------------------
(* _choose_attachment.                                                     *)

Fewest(places, count) == CHOOSE p \in places : \A q \in places : count[p] <= count[q]

Searched(sights, uplinks) == IF sights \subseteq uplinks THEN sights ELSE sights \ uplinks

FewMacs(place, among, count) ==
    \/ Cardinality(among) = 1
    \/ count[place] <= EDGE_MAC_MAX
    \/ \A p \in among \ {place} :
         (\A q \in among \ {place} : count[p] <= count[q]) => count[place] * 2 <= count[p]

\* members: the port channels with stored members.
ChooseAttachment(sights, uplinks, members, count) ==
    LET scan == Searched(sights, uplinks)
        physical == {p \in scan : IsPhysical(p)}
        channels == scan \cap members
        chosen == IF physical # {} THEN Fewest(physical, count)
                  ELSE IF channels # {} THEN Fewest(channels, count)
                  ELSE CHOOSE p \in scan : TRUE
        direct == IF physical # {} THEN FewMacs(chosen, physical, count)
                  ELSE channels # {} /\ count[chosen] <= EDGE_MAC_MAX
    IN  IF sights = {} THEN [place |-> Nowhere, direct |-> FALSE]
        ELSE [place |-> chosen, direct |-> direct /\ chosen \notin uplinks]

Counts == {1, 5, 12, Unknown}
AskAttachment ==
    /\ Fresh
    /\ \E sights \in SUBSET Places,
          told \in SUBSET {Trunk, TrunkChannel}, stored \in BOOLEAN,
          a, b, c \in Counts :
          question' = [of |-> "attachment", sights |-> sights, told |-> told, stored |-> stored,
                       count |-> [p \in Places |-> IF p[1] = "A" THEN a
                                    ELSE IF p = Trunk THEN b
                                    ELSE IF p = TrunkChannel THEN c ELSE Unknown]]

\* A band scan and a rematch never tell that a host is plugged into a port
\* beyond which a registered switch is known to be: neither when the host's
\* own switch forgot its MAC, nor when so few MACs are left at the port that
\* it looks like an access port, nor when the switch is known at a member
\* and the MAC at the channel.  A host that its access switch sees is placed
\* there as soon as the ports of the backbone are known as uplinks.
UplinkIsNeverDirect ==
    Asked("attachment") =>
        LET members == IF question.stored THEN {AccessChannel, TrunkChannel} ELSE {}
            uplinks == Uplinks(question.told, question.stored)
            found == ChooseAttachment(question.sights, uplinks, members, question.count)
            access == question.sights \cap {AccessPort, AccessChannel}
        IN  /\ found.direct => /\ found.place \notin question.told
                               /\ question.stored => ~(question.told # {} /\ found.place[1] = "B")
            /\ question.told # {} /\ question.stored /\ access # {} /\ Vlan \notin question.sights =>
                 found.place \in access
            /\ found.place = Nowhere <=> question.sights = {}

-----------------------------------------------------------------------------
(* The history of a MAC: rows of the snapshots, the oldest first.          *)

Newest(rows, Better(_)) ==
    LET best == {n \in DOMAIN rows : Better(rows[n])}
        of == IF best = {} THEN DOMAIN rows ELSE best
    IN  CHOOSE n \in of : \A k \in of : k <= n

\* _build_mac_last_map: no uplink, then the newest snapshot.
LastSeen(rows, uplinks) == rows[Newest(rows, LAMBDA place : place \notin uplinks)]

\* find_location_by_mac: no uplink, then a physical port, then the newest.
\* Faulty variant: a physical port, then no uplink.
RankPhysicalFirst(place, uplinks) ==
    (IF IsPhysical(place) THEN 2 ELSE 0) + (IF place \in uplinks THEN 0 ELSE 1)
Rank(place, uplinks) ==
    (IF place \in uplinks THEN 0 ELSE 2) + (IF IsPhysical(place) THEN 1 ELSE 0)
LocationByMac(rows, uplinks) ==
    LET top == {n \in DOMAIN rows :
                  \A k \in DOMAIN rows : Rank(rows[k], uplinks) <= Rank(rows[n], uplinks)}
    IN  rows[CHOOSE n \in top : \A k \in top : k <= n]

AskHistory ==
    /\ Fresh
    /\ \E rows \in SeqOf({AccessPort, AccessChannel, Trunk, TrunkChannel}, MaxLen["history"]),
          told \in SUBSET {Trunk, TrunkChannel}, stored \in BOOLEAN :
          /\ rows # <<>>
          /\ question' = [of |-> "history", rows |-> rows, told |-> told, stored |-> stored]

\* Wherever a dead host is looked up, the last access port it was seen at
\* is told, however often the backbone has seen it since; the map of all
\* hosts and the look-up of one agree whether only uplinks are left, and
\* name different switches only if a port channel was seen after a port.
HistoriesPreferAccess ==
    Asked("history") =>
        LET uplinks == Uplinks(question.told, question.stored)
            seen == ToSet(question.rows)
            last == LastSeen(question.rows, uplinks)
            location == LocationByMac(question.rows, uplinks)
        IN  /\ ~(seen \subseteq uplinks) => last \notin uplinks /\ location \notin uplinks
            /\ last[1] # location[1] => ~IsPhysical(last) /\ IsPhysical(location)
            /\ \A n \in DOMAIN question.rows :
                 question.rows[n] \notin uplinks =>
                    \E k \in n..Len(question.rows) : question.rows[k] = last

AttachNext == AskAttachment \/ AskHistory
AttachSpec == QuestionInit /\ [][AttachNext]_question
=============================================================================
