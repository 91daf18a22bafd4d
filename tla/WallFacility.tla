---------------------------- MODULE WallFacility ----------------------------
(***************************************************************************)
(* What the wall tells of hosts that are off line and of firewalls that    *)
(* fail (core/wallstats.py, wall_data and annotate_fw_ha of app.py): the   *)
(* switch a host is counted under, the zones, the timeline of one host.    *)
(***************************************************************************)
EXTENDS Questions, FiniteSets, Sequences

None == ""
\* live: the switch of the row; seen: where the MAC was last, by an uplink if
\* passing; labels: ports whose description tells the address; via: ports on
\* the way.
HostFacts == [online : BOOLEAN, live : {None, "A"}, seen : {None, "B"}, passing : BOOLEAN,
              labels : {{}, {<<"C", 1>>}, {<<"C", 1>>, <<"C", 2>>}, {<<"C", 1>>, <<"D", 1>>}},
              via : BOOLEAN]
ZoneOfSwitch(s) == IF s = None THEN "unknown" ELSE IF s \in {"A", "C"} THEN "east" ELSE "west"
Zones == {"east", "west", "unknown"}

\* find_ports_by_description: labels on several switches tell nothing, several
\* on one tell the switch.
Labelled(labels) ==
    LET at == {l[1] : l \in labels}
    IN  IF Cardinality(at) = 1 THEN CHOOSE s \in at : TRUE ELSE None

-----------------------------------------------------------------------------
(* Which switch a host is counted under.                                   *)

\* attach_of: history and labels are read for hosts that are off line.
AttachOf(h) ==
    IF h.live # None THEN h.live
    ELSE IF h.online THEN None
    ELSE IF h.seen # None /\ ~h.passing THEN h.seen
    ELSE Labelled(h.labels)

\* _fac_switch_of: the group of an item, for the filter.
FilterSwitch(h) ==
    IF AttachOf(h) # None THEN AttachOf(h) ELSE h.seen
\* The chip it is counted in; the history is taken as it is.
ChipSwitch(h) == IF h.live # None THEN h.live ELSE h.seen
\* The hosts that recollect-offline asks for a switch.
RecheckSwitch(h) == h.live

Detail(h) ==
    IF h.live = None /\ h.via THEN None ELSE FilterSwitch(h)

ZoneCard(hosts, zone) ==
    LET here == {n \in DOMAIN hosts : ZoneOfSwitch(AttachOf(hosts[n])) = zone}
    IN  [offline |-> Cardinality({n \in here : ~hosts[n].online}), total |-> Cardinality(here)]

\* facility_zone_hosts.
ZonePopup(hosts, zone) == Filtered(hosts, {h \in ToSet(hosts) : ZoneOfSwitch(AttachOf(h)) = zone})

AskHosts ==
    /\ Fresh
    /\ \E g, h \in {f \in HostFacts : (f.seen = None => ~f.passing) /\ (f.via => f.live = None)} :
          question' = [of |-> "wallHosts", hosts |-> <<g, h>>]

\* The card of a zone, the list behind it and the list of all hosts off line
\* tell the same hosts: none is counted and not listed, none is in two zones.
CardsMatchTheirLists ==
    Asked("wallHosts") =>
        LET hosts == question.hosts
            Off(list) == Cardinality({n \in DOMAIN list : ~list[n].online})
        IN  /\ \A z \in Zones : LET card == ZoneCard(hosts, z) popup == ZonePopup(hosts, z)
                                IN  card.offline = Off(popup) /\ card.total = Len(popup)
            /\ ZoneCard(hosts, "east").offline + ZoneCard(hosts, "west").offline
                 + ZoneCard(hosts, "unknown").offline = Off(hosts)

\* A host off line is found under the switch that its line names, unless the
\* line names the ports on the way; a switch that only passed its frames on
\* is named if nothing else is known.  As long as the row has a switch, chip,
\* filter, zone and recheck agree.
LineAndFilterAgree ==
    Asked("wallHosts") =>
        \A n \in DOMAIN question.hosts : LET h == question.hosts[n] IN ~h.online =>
            /\ Detail(h) \in {None, FilterSwitch(h)}
            /\ Detail(h) = "B" /\ h.passing => h.live = None /\ Labelled(h.labels) = None
            /\ h.live # None =>
                 {ChipSwitch(h), FilterSwitch(h), AttachOf(h), RecheckSwitch(h)} = {h.live}

-----------------------------------------------------------------------------
(* The timeline of a host.                                                 *)

WindowEnd == 5                      \* the window is 0..WindowEnd
EventLimit == 4                 \* events that get_facility_events gives

\* facility_history: events are <<time, online>>, the oldest first.
Segment(state, from, to) == [state |-> state, from |-> from, to |-> to]
StateOf(online) == IF online THEN "online" ELSE "offline"
Timeline(events, now) ==
    LET kept == SubSeq(events, 1, IF Len(events) > EventLimit THEN EventLimit ELSE Len(events))
        Until(n) == IF n < Len(kept) THEN kept[n + 1][1] ELSE WindowEnd
        all == IF kept = <<>>
               THEN IF now = None THEN <<>> ELSE <<Segment(now, 0, WindowEnd)>>
               ELSE <<Segment("unknown", 0, kept[1][1])>>
                    \o [n \in DOMAIN kept |-> Segment(StateOf(kept[n][2]), kept[n][1], Until(n))]
    IN  Filtered(all, {s \in ToSet(all) : s.from < s.to})

AskTimeline ==
    /\ Fresh
    /\ \E events \in SeqOf((0..4) \X BOOLEAN, 4), now \in {None, "online", "offline"} :
          /\ \A i, j \in DOMAIN events : i < j => events[i][1] <= events[j][1]
          /\ question' = [of |-> "timeline", events |-> events, now |-> now]

\* The timeline covers the window without a gap or an overlap, and at each
\* time it tells the last event before it: nothing is told of the time before
\* the first event, two events at one time count as the later.
TimelineIsTheLastEvent ==
    Asked("timeline") =>
        LET events == question.events
            line == Timeline(events, question.now)
            Before(t) == {n \in DOMAIN events : events[n][1] <= t}
            At(t) == IF events = <<>> THEN question.now
                     ELSE IF Before(t) = {} THEN "unknown"
                     ELSE StateOf(events[Max(Before(t))][2])
        IN  \A t \in 0..(WindowEnd - 1) :
              LET of == {n \in DOMAIN line : line[n].from <= t /\ t < line[n].to}
              IN  IF events = <<>> /\ question.now = None THEN of = {}
                  ELSE Cardinality(of) = 1 /\ \A n \in of : line[n].state = At(t)

-----------------------------------------------------------------------------
(* Firewalls that share an address.                                        *)

Statuses == {"new", "collecting", "done", "failed"}
Shown(rows, n) ==
    IF rows[n].host # None /\ \E k \in DOMAIN rows : rows[k].host = rows[n].host
                                                   /\ rows[k].status = "done"
    THEN "done" ELSE rows[n].status

\* wall_data: the lines of the category, and the number of firewalls down.
Unreached(rows) == {n \in DOMAIN rows : rows[n].reach = "no"}
FailedRows(rows) == {n \in DOMAIN rows : Shown(rows, n) = "failed"}
FirewallLines(rows) ==
    SetToSeq(Unreached(rows)) \o SetToSeq(FailedRows(rows) \ Unreached(rows))

AskFirewalls ==
    /\ Fresh
    /\ \E a, b, c \in [host : {None, "v", "w"}, status : Statuses, reach : {"yes", "no", "unknown"}] :
          /\ c.host # "v" /\ c.reach = "yes"
          /\ question' = [of |-> "wallFirewalls", rows |-> <<a, b, c>>]

\* A firewall of a pair is shown as failed only if no one of the pair answers;
\* a failed firewall without a partner always is; and each one that is down
\* has one line, however many ways it is down.
PairsFailTogether ==
    Asked("wallFirewalls") =>
        LET rows == question.rows
            Partners(n) == {k \in DOMAIN rows : rows[k].host = rows[n].host /\ rows[n].host # None}
            lines == FirewallLines(rows)
        IN  /\ \A n \in DOMAIN rows : rows[n].status = "failed" =>
                 (n \in FailedRows(rows) <=> \A k \in Partners(n) : rows[k].status # "done")
            /\ Len(lines) = Cardinality(Unreached(rows) \cup FailedRows(rows))
            /\ ToSet(lines) = Unreached(rows) \cup FailedRows(rows)

WallNext == AskHosts \/ AskTimeline \/ AskFirewalls
WallSpec == QuestionInit /\ [][WallNext]_question
=============================================================================
