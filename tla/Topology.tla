------------------------------ MODULE Topology ------------------------------
(***************************************************************************)
(* The topology functions (core/topology.py): which links are drawn        *)
(* between which devices and at which ports, the depth of a node, the      *)
(* links and bands the editor proposes, the bands and zones read out of    *)
(* configurations and names.                                               *)
(***************************************************************************)
EXTENDS Questions, FiniteSets, Sequences

CONSTANT TopoNodes              \* nodes of the depth question, integers

ASSUME TopologyAssumption == TopoNodes \subseteq Int /\ IsFiniteSet(TopoNodes)

-----------------------------------------------------------------------------
(* build_topology: links between two switches, 1 and 2.                    *)

LinkPorts == {"e1", "e2", "po"}
LearntOn == [e1 |-> 2, e2 |-> 1, po |-> 1]      \* MACs learnt on the port

\* _score: a physical port first, then the one with fewest MACs.
Score(port) == IF port = "po" THEN 10 + LearntOn[port] ELSE LearntOn[port]
Direct(ports) == CHOOSE p \in ports : \A q \in ports : Score(p) <= Score(q)

NoPort == "none"
\* seen[i]: the ports of i on which a MAC of the other switch was learnt.
MacLink(seen) ==
    [port |-> [i \in 1..2 |-> IF seen[i] = {} THEN NoPort ELSE Direct(seen[i])],
     mutual |-> seen[1] # {} /\ seen[2] # {},
     drawn |-> seen[1] # {} \/ seen[2] # {}]

\* A CDP/LLDP row of switch row.at; known: its remote is the other switch.
WithNeighbor(link, row) ==
    IF ~row.known THEN link
    ELSE [port |-> [i \in 1..2 |->
                      IF i = row.at THEN row.local
                      ELSE IF link.port[i] # NoPort THEN link.port[i] ELSE row.remote],
          mutual |-> TRUE, drawn |-> TRUE]
BuildLink(seen, rows) == FoldLeft(WithNeighbor, MacLink(seen), rows)

NeighborRows ==
    [at : 1..2, known : {TRUE}, local : {"e1", "e2"}, remote : {NoPort, "e1"}]
        \cup {[at |-> 1, known |-> FALSE, local |-> "e1", remote |-> "e1"]}
AskLink ==
    /\ Fresh
    /\ question' \in [of : {"link"}, seen : [1..2 -> SUBSET LinkPorts],
                  rows : SeqOf(NeighborRows, MaxLen["link"])]

\* build_topology draws a link for every observation and for nothing else,
\* draws it as confirmed only if both switches or the protocol saw it, and
\* gives a switch the port of its own last CDP/LLDP row, its best MAC port
\* if it has none.
LinksAreWitnessed ==
    Asked("link") =>
        LET link == BuildLink(question.seen, question.rows)
            told == {n \in DOMAIN question.rows : question.rows[n].known}
            own(i) == {n \in told : question.rows[n].at = i}
        IN  /\ link.drawn <=> (told # {} \/ question.seen[1] \cup question.seen[2] # {})
            /\ link.mutual <=> (told # {} \/ {} \notin {question.seen[1], question.seen[2]})
            /\ \A i \in 1..2 :
                 /\ own(i) # {} =>
                      \E n \in own(i) : /\ \A k \in own(i) : k <= n
                                        /\ link.port[i] = question.rows[n].local
                 /\ own(i) = {} /\ question.seen[i] # {} =>
                      /\ link.port[i] \in question.seen[i]
                      /\ (question.seen[i] # {"po"}) =>
                            /\ link.port[i] # "po"
                            /\ \A q \in question.seen[i] \ {"po"} :
                                   LearntOn[link.port[i]] <= LearntOn[q]

-----------------------------------------------------------------------------
(* build_topology: depth of the nodes below the best connected one.        *)

Pairs == {pair \in TopoNodes \X TopoNodes : pair[1] < pair[2]}
Adjacent(links, n) == {k \in TopoNodes : <<n, k>> \in links \/ <<k, n>> \in links}
Roots(links) ==
    {n \in TopoNodes : /\ Adjacent(links, n) # {}
                       /\ \A k \in TopoNodes :
                            Cardinality(Adjacent(links, k)) <= Cardinality(Adjacent(links, n))}

NoDepth == -1
\* One pass of the while loop: the neighbours without a depth are one below
\* the node at the head of the queue.
Visit(state, links) ==
    LET new == SetToSeq({k \in Adjacent(links, Head(state.queue)) :
                            state.depth[k] = NoDepth})
        here == state.depth[Head(state.queue)]
    IN  [queue |-> Tail(state.queue) \o new,
         depth |-> [k \in TopoNodes |-> IF Contains(new, k) THEN here + 1 ELSE state.depth[k]]]
\* Each node is queued once: the loop ends within as many passes.
VisitAll(state, links) ==
    LET after[n \in 0..Cardinality(TopoNodes)] ==
            IF n = 0 THEN state
            ELSE LET before == after[n - 1]
                 IN  IF before.queue = <<>> THEN before ELSE Visit(before, links)
    IN  after[Cardinality(TopoNodes)].depth
Depths(root, links) ==
    VisitAll([queue |-> <<root>>,
              depth |-> [n \in TopoNodes |-> IF n = root THEN 0 ELSE NoDepth]], links)

AskDepth ==
    /\ Fresh
    /\ \E links \in SUBSET Pairs : \E root \in Roots(links) :
          question' = [of |-> "depth", links |-> links, root |-> root]

\* The queue of build_topology gives every node its distance from the root,
\* and none to a node that no path reaches.
DepthIsDistance ==
    Asked("depth") =>
        LET within[n \in 0..Cardinality(TopoNodes)] ==
                IF n = 0 THEN {question.root}
                ELSE within[n - 1] \cup UNION {Adjacent(question.links, k) : k \in within[n - 1]}
            depth == Depths(question.root, question.links)
        IN  \A k \in TopoNodes : \A n \in DOMAIN within :
                (k \in within[n]) <=> (depth[k] # NoDepth /\ depth[k] <= n)

-----------------------------------------------------------------------------
(* build_topology: links of a firewall.                                    *)

FirewallSightings(cands) ==
    LET phys == Filtered(cands, {c \in ToSet(cands) : c.physical})
    IN  IF phys # <<>> THEN phys ELSE cands
\* Each switch once, at its first sighting.
FirstOfEach(cands) ==
    FoldLeft(LAMBDA links, c : IF \E l \in ToSet(links) : l.switch = c.switch THEN links
                               ELSE Append(links, [switch |-> c.switch, l3 |-> FALSE, port |-> c.port]),
             <<>>, cands)
FirewallLinks(cands, routed) ==
    LET direct == FirstOfEach(FirewallSightings(cands))
        linked == {l.switch : l \in ToSet(direct)}
    IN  direct \o [n \in 1..Cardinality(routed \ linked) |->
                     [switch |-> SetToSeq(routed \ linked)[n], l3 |-> TRUE, port |-> 0]]

AskFirewall ==
    /\ Fresh
    /\ question' \in [of : {"firewall"}, routed : SUBSET {1, 2},
                  cands : SeqOf([switch : {1, 2}, physical : BOOLEAN, port : {1, 2}],
                                MaxLen["firewall"])]

\* build_topology links a firewall with a switch at most once, over a port
\* channel only if no switch saw it on a physical port, and by its band only
\* if no port was found.
FirewallIsLinkedOnce ==
    Asked("firewall") =>
        LET links == FirewallLinks(question.cands, question.routed)
            cand == ToSet(question.cands)
            direct == {c \in cand : c.physical}
        IN  /\ \A m, n \in DOMAIN links : links[m].switch = links[n].switch => m = n
            /\ \A l \in ToSet(links) :
                 IF l.l3
                 THEN /\ l.switch \in question.routed
                      /\ \A c \in cand : c.switch = l.switch => ~c.physical /\ direct # {}
                 ELSE \E c \in cand : /\ c.switch = l.switch /\ c.port = l.port
                                      /\ direct # {} => c.physical
            /\ \A s \in question.routed \cup {c.switch : c \in direct} :
                 \E l \in ToSet(links) : l.switch = s

-----------------------------------------------------------------------------
(* parse_svi_subnets, classify_l3 and the kinds made of it.                *)

Nets == {"n1", "n2", "loopback"}
Lines == [is : {"interface"}, vlan : {0, 1, 2}]     \* 0: no Vlan interface
            \cup [is : {"address"}, net : Nets] \cup {[is |-> "other"]}

ReadSviLine(state, line) ==
    CASE line.is = "interface" -> [state EXCEPT !.inside = TRUE, !.vlan = line.vlan]
      [] line.is = "address" /\ state.inside /\ line.net # "loopback" /\
            \A k \in ToSet(state.out) : k.net # line.net ->
            [state EXCEPT !.out = Append(@, [vlan |-> state.vlan, net |-> line.net])]
      [] OTHER -> state
SviBands(lines) ==
    FoldLeft(ReadSviLine, [inside |-> FALSE, vlan |-> 0, out |-> <<>>], lines).out

AskBands ==
    /\ Fresh
    /\ question' \in [of : {"bands"}, lines : SeqOf(Lines, MaxLen["bands"])]

\* The bands of a configuration, one for each first address of a band.
BandsFit(lines) ==
    LET under(n) == {k \in 1..n : lines[k].is = "interface"}
        first == {n \in DOMAIN lines :
                    /\ lines[n].is = "address" /\ lines[n].net # "loopback"
                    /\ under(n) # {}
                    /\ \A k \in 1..(n - 1) :
                         lines[k].is = "address" /\ under(k) # {} => lines[k].net # lines[n].net}
        bands == SviBands(lines)
    IN  /\ Len(bands) = Cardinality(first)
        /\ \A n \in first :
             LET b == bands[Cardinality({k \in first : k <= n})]
             IN  /\ b.net = lines[n].net
                 /\ \E k \in under(n) : /\ \A j \in under(n) : j <= k
                                        /\ b.vlan = lines[k].vlan

\* parse_svi_subnets gives each band once, in the order of the configuration,
\* under the interface that holds its first address.
BandsBelongToInterfaces == Asked("bands") => BandsFit(question.lines)

Configs == [stored : BOOLEAN, routing : BOOLEAN, bands : 0..2,
            routes : {"none", "default", "other"}]
\* ip routing or a routing protocol; two bands; a route but the default one.
ClassifyL3(cfg) ==
    IF ~cfg.stored THEN "none"
    ELSE IF cfg.routing \/ cfg.bands >= 2 \/ cfg.routes = "other" THEN "L3" ELSE "L2"
Types == {"", "backbone", "l4", "ap", "l3"}
SwitchKind(cfg, type) ==
    IF type \in {"backbone", "l4", "ap"} THEN type
    ELSE IF ClassifyL3(cfg) = "L3" \/ type = "l3" THEN "l3" ELSE "l2"
\* build_serverroom_tree: "hidden" for the switches it leaves out.
TreeRole(cfg, type) ==
    IF type \in {"backbone", "l4"} THEN type
    ELSE IF ClassifyL3(cfg) = "L2" THEN "hidden" ELSE "l3"

AskKind == Fresh /\ question' \in [of : {"kind"}, cfg : Configs, type : Types]

\* The editor and the tree of the server room derive the kind of a switch
\* separately: a management address and a default gateway alone make no
\* router in either, and a switch that routes is hidden in neither.
KindsAgree ==
    Asked("kind") /\ question.cfg.stored =>
        LET routes == question.cfg.routing \/ question.cfg.bands = 2 \/ question.cfg.routes = "other"
            kind == SwitchKind(question.cfg, question.type)
            role == TreeRole(question.cfg, question.type)
        IN  /\ routes => kind # "l2" /\ role # "hidden"
            /\ ~routes /\ question.type = "" => kind = "l2" /\ role = "hidden"

-----------------------------------------------------------------------------
(* infer_zone: the zone in a name of the form site_floor_zone_type_number. *)

\* "SW" is a device type, "x+SW" a zone and a device type in one token.
Tokens == {"word", "word+SW", "SW", "floor", "model", "number"}
WithoutNumbers(tokens) ==
    LET last == {n \in DOMAIN tokens : tokens[n] # "number"}
    IN  IF last = {} THEN <<>>
        ELSE SubSeq(tokens, 1, CHOOSE n \in last : \A k \in last : k <= n)
ZoneOf(tokens) ==
    LET body == WithoutNumbers(tokens)
        named == IF body = <<>> \/ Len(tokens) < 3 THEN <<>>
                 ELSE IF Last(body) = "SW" THEN Front(body)
                 ELSE IF Last(body) = "word+SW" THEN Append(Front(body), "word")
                 ELSE <<>>
        core == Filtered(named, Tokens \ {"floor", "model", "number"})
    IN  IF Len(core) >= 2 THEN Tail(core) ELSE core

AskZone == Fresh /\ question' \in [of : {"zone"}, tokens : SeqOf(Tokens, MaxLen["zone"])]

\* The zone of a name, by the tokens before its type.
ZoneFits(tokens) ==
    LET zone == ZoneOf(tokens)
        ends == {n \in DOMAIN tokens :
                   /\ tokens[n] \in {"SW", "word+SW"}
                   /\ \A k \in (n + 1)..Len(tokens) : tokens[k] = "number"}
        words(n) == {k \in 1..n : tokens[k] \in {"word", "word+SW"}
                                  \/ (k < n /\ tokens[k] = "SW")}
    IN  IF ends = {} \/ Len(tokens) < 3 THEN zone = <<>>
        ELSE \A n \in ends :
               /\ ToSet(zone) \subseteq {"word", "word+SW", "SW"}
               /\ Len(zone) = IF Cardinality(words(n)) >= 2
                              THEN Cardinality(words(n)) - 1
                              ELSE Cardinality(words(n))

\* A name has a zone if its last token but numbers names a device type: the
\* words between the site and that type, never a floor, a model or a number.
ZoneIsBetweenSiteAndType == Asked("zone") => ZoneFits(question.tokens)

TopoNext == AskLink \/ AskDepth \/ AskFirewall \/ AskBands \/ AskKind \/ AskZone
TopoSpec == QuestionInit /\ [][TopoNext]_question

-----------------------------------------------------------------------------
(***************************************************************************)
(* What the topology editor fills in by itself (core/topology.py): the     *)
(* links between the devices put on the canvas, the ports at the ends of a *)
(* link, the bands of a switch.                                            *)
(***************************************************************************)
-----------------------------------------------------------------------------
(* autolink: "A" and "B" are switches, "F" is a firewall or a server.      *)

Canvas == {"A", "B", "F"}
NoPortName == <<>>
PortsOf(device) == {<<device, 1>>, <<device, 2>>}
CanvasPairs == {pair \in SUBSET Canvas : Cardinality(pair) = 2}

\* A CDP/LLDP row of switch row.at names its remote by address and by name.
\* both: the row tells the remote port as well.
EditorRows == [at : {"A", "B"}, ip : Canvas \cup {"other"}, name : {"B", "other"}, both : BOOLEAN]
RemoteOf(row, placed) ==
    IF row.ip \in placed THEN row.ip ELSE IF row.name \in placed THEN row.name ELSE "nobody"
Joins(row, placed) ==
    /\ row.at \in placed /\ RemoteOf(row, placed) \notin {"nobody", row.at}

\* A later row of a pair fills in the port that its end still lacks.
FillPorts(link, end, port) ==
    IF link.a.at = end /\ link.a.port = NoPortName THEN [link EXCEPT !.a.port = port]
    ELSE IF link.b.at = end /\ link.b.port = NoPortName THEN [link EXCEPT !.b.port = port]
    ELSE link
NoLink == [basis |-> "none"]
PutLink(links, row, placed) ==
    LET remote == RemoteOf(row, placed)
        remotePort == IF row.both THEN <<remote, 1>> ELSE NoPortName
        filled(link) == LET own == FillPorts(link, row.at, <<row.at, 2>>)
                        IN  IF row.both THEN FillPorts(own, remote, remotePort) ELSE own
    IN  IF ~Joins(row, placed) THEN links
        ELSE [links EXCEPT ![{row.at, remote}] =
                IF @ = NoLink
                THEN [basis |-> "neighbor", a |-> [at |-> row.at, port |-> <<row.at, 2>>],
                      b |-> [at |-> remote, port |-> remotePort]]
                ELSE filled(@)]
\* The MAC of the device that is no switch, seen at an access port.
PutSighting(links, placed, sight) ==
    LET pair == {sight.at, "F"}
    IN  IF "F" \in placed /\ sight.at \in placed /\ ~sight.uplink /\ links[pair] = NoLink
        THEN [links EXCEPT ![pair] =
                [basis |-> "mac", a |-> [at |-> sight.at, port |-> <<sight.at, 1>>],
                 b |-> [at |-> "F", port |-> NoPortName]]]
        ELSE links
Autolink(placed, rows, sight) ==
    PutSighting(FoldLeft(LAMBDA links, row : PutLink(links, row, placed),
                         [pair \in CanvasPairs |-> NoLink], rows),
                placed, sight)

AskAutolink ==
    /\ Fresh
    /\ question' \in [of : {"autolink"}, placed : {c \in SUBSET Canvas : Cardinality(c) >= 2},
                      rows : SeqOf(EditorRows, MaxLen["autolink"]),
                      sight : [at : {"A", "nobody"}, uplink : BOOLEAN]]

\* autolink joins two placed devices if a CDP/LLDP row says so, or if the
\* one that is no switch was learnt at an access port of the other; it takes
\* the row over the sighting, tells at each end a port of that end, and
\* tells every port that some row told, in whatever order the rows come.
AutolinkTellsWhatRowsTell ==
    Asked("autolink") =>
        LET placed == question.placed
            links == Autolink(placed, question.rows, question.sight)
            rows(pair) == {row \in ToSet(question.rows) :
                             Joins(row, placed) /\ {row.at, RemoteOf(row, placed)} = pair}
            seen(pair) == /\ pair = {question.sight.at, "F"} /\ pair \subseteq placed
                          /\ ~question.sight.uplink
            known(pair, end) == \E row \in rows(pair) : row.at = end \/ row.both
        IN  \A pair \in CanvasPairs :
              LET link == links[pair]
              IN  /\ link.basis = IF rows(pair) # {} THEN "neighbor"
                                  ELSE IF seen(pair) THEN "mac" ELSE "none"
                  /\ link # NoLink =>
                       /\ {link.a.at, link.b.at} = pair
                       /\ \A end \in {link.a, link.b} :
                            /\ end.port \in PortsOf(end.at) \cup {NoPortName}
                            /\ link.basis = "neighbor" =>
                                 (end.port # NoPortName <=> known(pair, end.at))

-----------------------------------------------------------------------------
(* resolve_link_ports: the port of a switch towards a device.              *)

SightPorts == {"e1", "e2", "po", "vl"}
Busy == [e1 |-> 2, e2 |-> 1, po |-> 0, vl |-> 3]    \* MACs learnt on the port
Physical(ports) == ports \cap {"e1", "e2"}
BestSight(sights) ==
    LET of == IF Physical(sights) # {} THEN Physical(sights) ELSE sights
    IN  CHOOSE p \in of : \A q \in of : Busy[p] <= Busy[q]
\* members: the ports of the port channel, as far as they are stored.
PortOn(sights, members) ==
    IF sights = {} THEN [port |-> "none", members |-> {}]
    ELSE IF BestSight(sights) = "po"
    THEN [port |-> "none", members |-> IF members = {} THEN {"po"} ELSE members]
    ELSE [port |-> BestSight(sights), members |-> {}]

AskPort ==
    /\ Fresh
    /\ question' \in [of : {"port"}, sights : SUBSET SightPorts, members : SUBSET {"e3", "e4"}]

\* A line drawn between two devices gets the physical port that learnt
\* fewest MACs, the members of a port channel only if no physical port saw
\* the device, and something whenever any port saw it.
LinePortIsPhysical ==
    Asked("port") =>
        LET end == PortOn(question.sights, question.members)
        IN  /\ Physical(question.sights) # {} =>
                 /\ end.port \in Physical(question.sights)
                 /\ \A q \in Physical(question.sights) : Busy[end.port] <= Busy[q]
            /\ end.members # {} => Physical(question.sights) = {} /\ "po" \in question.sights
            /\ question.sights = {} <=> (end.port = "none" /\ end.members = {})

-----------------------------------------------------------------------------
(* subnet_suggest: the bands of a switch, own (SVI), inherited (VLAN), seen. *)

SuggestNets == {"n1", "n2", "n3"}
\* parse_svi_subnets holds a band once; VLAN 0: a routed port.
SviLists == {l \in SeqOf([vlan : {0, 1}, net : {"n1", "n2"}], MaxLen["suggest"]) :
               \A i, j \in DOMAIN l : l[i].net = l[j].net => i = j}
Suggest(out, net, source) ==
    IF \E o \in ToSet(out) : o.net = net THEN out
    ELSE Append(out, [net |-> net, source |-> source])
\* The first band of VLAN 1 in the configurations of all switches.
InheritedNets(svis) ==
    LET of == Filtered(svis, {s \in ToSet(svis) : s.vlan = 1})
    IN  IF of = <<>> THEN <<>> ELSE <<Head(of).net>>
SuggestAll(out, nets, source) == FoldLeft(LAMBDA o, n : Suggest(o, n, source), out, nets)
SubnetSuggest(own, other, carries, arp) ==
    LET svis == SuggestAll(<<>>, [k \in DOMAIN own |-> own[k].net], "svi")
        vlans == SuggestAll(svis, IF carries THEN InheritedNets(own \o other) ELSE <<>>, "vlan")
    IN  SuggestAll(vlans, SetToSeq(arp), "arp")

AskSuggest ==
    /\ Fresh
    /\ question' \in [of : {"suggest"}, own : SviLists, other : SviLists,
                      carries : BOOLEAN, arp : SUBSET SuggestNets]

\* The editor proposes each band of a switch once, from its surest source:
\* its own interfaces, then the band of a VLAN it carries, then the
\* addresses it saw; no band that has a source is left out.
BandsHaveOneSource ==
    Asked("suggest") =>
        LET out == SubnetSuggest(question.own, question.other, question.carries, question.arp)
            own == {s.net : s \in ToSet(question.own)}
            carried == {s.net : s \in {t \in ToSet(question.own \o question.other) : t.vlan = 1}}
        IN  /\ \A i, j \in DOMAIN out : out[i].net = out[j].net => i = j
            /\ {o.net : o \in {p \in ToSet(out) : p.source = "svi"}} = own
            /\ \A o \in ToSet(out) : o.source = "vlan" => question.carries /\ o.net \in carried
            /\ question.carries /\ own = {} /\ carried # {} =>
                 \E o \in ToSet(out) : o.source = "vlan"
            /\ question.arp \subseteq {o.net : o \in ToSet(out)}
            /\ \A o \in ToSet(out) : o.source = "arp" => o.net \in question.arp

EditorNext == AskAutolink \/ AskPort \/ AskSuggest
EditorSpec == QuestionInit /\ [][EditorNext]_question
=============================================================================
