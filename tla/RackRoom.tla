------------------------------ MODULE RackRoom ------------------------------
(***************************************************************************)
(* The server room: the racks with the devices and items in them           *)
(* (core/racklayout.py, core/rackitems.py) and the sheet that is made of   *)
(* them (core/serverroom.py).                                              *)
(***************************************************************************)
EXTENDS Questions, FiniteSets, Sequences

-----------------------------------------------------------------------------
(***************************************************************************)
(* The racks of the server room: the places of the registered devices, the *)
(* kept copy of them that is restored after devices were registered anew   *)
(* (core/racklayout.py), and the items that are written into a rack by     *)
(* hand (core/rackitems.py), with requests that overlap.                   *)
(***************************************************************************)
CONSTANTS
    Units,              \* MAX_HEIGHT of the one rack
    ItemIds,            \* ids of rack_items
    Editors,            \* requests that save an item
    MaxRoomEdits        \* bound: changes by users

ASSUME RoomAssumption ==
    /\ Units \in Nat \ {0} /\ MaxRoomEdits \in Nat
    /\ ItemIds \subseteq Nat \ {0} /\ IsFiniteSet(ItemIds)

VARIABLES
    place,              \* where each device is
    born,               \* how often it was registered: its row
    layout,             \* rack_layout: the kept unit of each kind and address
    todo,               \* updates that the running restore has left
    restoring,          \* whether a restore runs
    items,              \* rack_items: the units of each
    saving,             \* a request between its look at the rack and its write
    handled,            \* history: devices changed by users since the restore read
    together,              \* history: pairs of items that were saved at the same time
    roomEdits

roomVars == <<place, born, layout, todo, restoring, items, saving, handled, together, roomEdits>>

\* Two firewalls of one virtual address, and a switch.
RackDevices == {"switch", "active", "backup"}
Kindred(d) == IF d = "switch" THEN "sw" ELSE "fw"
Unregistered == -2
Office == -1                    \* a location that is no place in a rack
NoPlace == 0
Racked(where) == where \in 1..Units
\* by_key: of devices with the same address the one that is listed last.
ListedDevices(k, readable) ==
    IF k \notin readable THEN {}
    ELSE LET there == {d \in RackDevices : Kindred(d) = k /\ place[d] # Unregistered}
         IN  IF Cardinality(there) > 1 THEN {"backup"} ELSE there
\* The unit that an item or a device begins at.
FirstUnit(units) == Min(units)
NoSave == [at |-> "idle", id |-> 0, units |-> {}, since |-> {}]

RoomInit ==
    /\ place = [d \in RackDevices |-> IF d = "backup" THEN Unregistered ELSE 1]
    /\ born = [d \in RackDevices |-> 1]
    /\ layout = [k \in {} |-> 0] /\ todo = {} /\ restoring = FALSE
    /\ items = [i \in ItemIds |-> {}]
    /\ saving = [e \in Editors |-> NoSave]
    /\ handled = {} /\ together = {} /\ roomEdits = 0

-----------------------------------------------------------------------------
(* Users change devices; nothing looks at what else is in the rack.        *)

Change(d, where, row) ==
    /\ roomEdits < MaxRoomEdits /\ roomEdits' = roomEdits + 1
    /\ place' = [place EXCEPT ![d] = where] /\ born' = [born EXCEPT ![d] = row]
    /\ handled' = handled \cup {d}
    /\ UNCHANGED <<layout, todo, restoring, items, saving, together>>
Locate(d, where) == place[d] # Unregistered /\ where # place[d] /\ Change(d, where, born[d])
Unregister(d) == place[d] # Unregistered /\ Change(d, Unregistered, born[d])
RegisterAnew(d) == place[d] = Unregistered /\ Change(d, NoPlace, born[d] + 1)

-----------------------------------------------------------------------------
(* save_snapshot and restore.  A table that cannot be read counts as empty. *)

SaveLayout(readable) ==
    /\ LET kept == {k \in readable : \E d \in ListedDevices(k, readable) : Racked(place[d])}
       IN  layout' = [k \in kept |-> place[CHOOSE d \in ListedDevices(k, readable) : TRUE]]
    /\ UNCHANGED <<place, born, todo, restoring, items, saving, handled, together, roomEdits>>

Entries(readable) ==
    UNION {{[device |-> d, row |-> born[d], unit |-> layout[k]] :
                d \in {x \in ListedDevices(k, readable) : ~Racked(place[x])}} : k \in DOMAIN layout}

RestoreReads(readable) ==
    /\ ~restoring /\ DOMAIN layout # {}
    /\ restoring' = TRUE /\ todo' = Entries(readable)
    /\ handled' = UNION {{d \in RackDevices : Kindred(d) = k} : k \in {"sw", "fw"} \ readable}
    /\ UNCHANGED <<place, born, layout, items, saving, together, roomEdits>>

\* One update, of the row that was read.
RestoreWrites ==
    \E e \in todo :
        /\ todo' = todo \ {e}
        /\ place' = IF place[e.device] # Unregistered /\ born[e.device] = e.row
                    THEN [place EXCEPT ![e.device] = e.unit] ELSE place
        /\ UNCHANGED <<born, layout, restoring, items, saving, handled, together, roomEdits>>

RestoreSkips ==
    \E e \in todo :
        /\ todo' = todo \ {e} /\ handled' = handled \cup {e.device}
        /\ UNCHANGED <<place, born, layout, restoring, items, saving, together, roomEdits>>

RestoreEnds ==
    /\ restoring /\ todo = {}
    /\ restoring' = FALSE
    /\ UNCHANGED <<place, born, layout, todo, items, saving, handled, together, roomEdits>>

-----------------------------------------------------------------------------
(* save_item: what is in the rack is read first, the item written later    *)
(* with nothing held in between.                                           *)

OccupiedUnits(readable, id) ==
    {place[d] : d \in {x \in RackDevices : Kindred(x) \in readable /\ Racked(place[x])}}
        \cup UNION {items[i] : i \in ItemIds \ {id}}

Spans == {{u} : u \in 1..Units} \cup {{u, u + 1} : u \in 1..(Units - 1)}

ItemIsChecked(e) ==
    /\ saving[e].at = "idle" /\ roomEdits < MaxRoomEdits /\ roomEdits' = roomEdits + 1
    /\ \E span \in Spans, id \in {0} \cup {i \in ItemIds : items[i] # {}},
          readable \in SUBSET {"sw", "fw"} :
           /\ span \cap OccupiedUnits(readable, id) = {}
           /\ saving' = [saving EXCEPT ![e] =
                            [at |-> "checked", id |-> id, units |-> span, since |-> {}]]
    /\ UNCHANGED <<place, born, layout, todo, restoring, items, handled, together>>

\* An item that was deleted meanwhile is not written, although the answer is ok;
\* one that begins where another does is refused by UNIQUE(rack, unit).
ItemIsWritten(e) ==
    /\ saving[e].at = "checked"
    /\ \E i \in ItemIds :
        /\ IF saving[e].id = 0 THEN items[i] = {} ELSE i = saving[e].id
        /\ LET written == /\ saving[e].id = 0 \/ items[i] # {}
                          /\ \A j \in ItemIds \ {i} :
                                items[j] # {} => FirstUnit(items[j]) # FirstUnit(saving[e].units)
           IN  /\ items' = IF written THEN [items EXCEPT ![i] = saving[e].units] ELSE items
               /\ together' = IF written THEN together \cup {{i, j} : j \in saving[e].since} ELSE together
               /\ saving' = [o \in Editors |->
                               IF o = e THEN NoSave
                               ELSE IF saving[o].at = "checked" /\ written
                                    THEN [saving[o] EXCEPT !.since = @ \cup {i}]
                                    ELSE saving[o]]
    /\ UNCHANGED <<place, born, layout, todo, restoring, handled, roomEdits>>

ItemIsDeleted(i) ==
    /\ items[i] # {}
    /\ items' = [items EXCEPT ![i] = {}]
    /\ UNCHANGED <<place, born, layout, todo, restoring, saving, handled, together, roomEdits>>

RoomNext ==
    \/ \E d \in RackDevices :
          \/ \E where \in {Office, NoPlace} \cup 1..Units : Locate(d, where)
          \/ Unregister(d) \/ RegisterAnew(d)
    \/ \E readable \in SUBSET {"sw", "fw"} : SaveLayout(readable) \/ RestoreReads(readable)
    \/ RestoreWrites \/ RestoreSkips \/ RestoreEnds
    \/ \E e \in Editors : ItemIsChecked(e) \/ ItemIsWritten(e)
    \/ \E i \in ItemIds : ItemIsDeleted(i)

RoomSpec == RoomInit /\ [][RoomNext]_roomVars
-----------------------------------------------------------------------------
(* Properties.                                                             *)

RoomTypeOK ==
    /\ place \in [RackDevices -> Unregistered..Units]
    /\ DOMAIN layout \subseteq {"sw", "fw"} /\ \A k \in DOMAIN layout : Racked(layout[k])
    /\ \A e \in todo : e.row \in 1..born[e.device] /\ Racked(e.unit)
    /\ todo # {} => restoring
    /\ \A i \in ItemIds : items[i] \subseteq 1..Units

\* The comment of rackitems.py says that an overlap is prevented when an item
\* is saved, also from two windows: two items share a unit only if one was
\* written while the other was between its look at the rack and its write, and
\* then they begin at different units.
ItemsOverlapOnlyByRace ==
    \A i, j \in ItemIds :
        i # j /\ items[i] \cap items[j] # {} =>
            {i, j} \in together /\ FirstUnit(items[i]) # FirstUnit(items[j])

\* A restore never moves a device that is in a rack: the user may have moved
\* it since, before the restore at least.
RackedStayPut ==
    [][\A d \in RackDevices :
          Racked(place[d]) /\ place'[d] # place[d] => d \in handled']_roomVars

\* At the end of a restore every device of a kept address is in a rack, one
\* that was registered anew since as well, if its table could be read, its
\* update did not fail and no user changed it meanwhile; of two firewalls with
\* one address just one.
LayoutIsRestored ==
    [][restoring /\ ~restoring' =>
         \A k \in DOMAIN layout :
            \A d \in ListedDevices(k, {"sw", "fw"}) :
                (\A x \in RackDevices : Kindred(x) = k => x \notin handled)
                    => Racked(place[d])]_roomVars

-----------------------------------------------------------------------------
(***************************************************************************)
(* The sheet of the server room (core/serverroom.py, build_rack_xlsx;      *)
(* app.py, export_serverroom): the devices in the order in which they are  *)
(* listed, each at a unit of a rack and so many units high.                *)
(***************************************************************************)
SheetHeight == 2                \* _RACK_U: units of a rack on the sheet at least
SheetRacks == {"A1", "A2", "B1"}
RowLetter(rack) == IF rack = "B1" THEN "B" ELSE "A"

\* What lies in a rack: by its lowest unit the devices named there and the height
\* of the first; by a further unit the lowest unit of what covers it.
NoRack == [slot |-> <<>>, span |-> <<>>]
Covered(rack, units) == {x \in units : x \in DOMAIN rack.slot \/ x \in DOMAIN rack.span}

Owner(rack, unit) ==
    IF unit \in DOMAIN rack.slot THEN {unit} ELSE {rack.span[unit]}

Placed(rack, d) ==
    LET units == d.unit..(d.unit + d.height - 1)
        taken == Covered(rack, units)
    IN  IF taken # {}
        THEN LET owner == Owner(rack, FirstUnit(taken))
             IN  [rack EXCEPT !.slot =
                    [u \in DOMAIN rack.slot |->
                        IF u \in owner THEN [rack.slot[u] EXCEPT !.names = @ \cup {d.name}]
                        ELSE rack.slot[u]]]
        ELSE [slot |-> [u \in DOMAIN rack.slot \cup {d.unit} |->
                           IF u = d.unit THEN [names |-> {d.name}, height |-> d.height]
                           ELSE rack.slot[u]],
              span |-> [u \in DOMAIN rack.span \cup (units \ {d.unit}) |->
                           IF u \in units THEN d.unit ELSE rack.span[u]]]

\* A unit 0 counts as none.
RackOf(devices, rack) ==
    FoldLeft(LAMBDA r, d : IF d.rack = rack /\ d.unit # 0 THEN Placed(r, d) ELSE r,
             NoRack, devices)
OnSheet(devices) == {r \in SheetRacks : DOMAIN RackOf(devices, r).slot # {}}

MaxUnit(devices, letter) ==
    Max({SheetHeight} \cup
        UNION {{u + RackOf(devices, r).slot[u].height - 1 : u \in DOMAIN RackOf(devices, r).slot} :
               r \in {x \in OnSheet(devices) : RowLetter(x) = letter}})

\* The first row of the sheet that the racks of a letter take.
FirstRow(devices, letter) ==
    IF letter = "B" /\ \E r \in OnSheet(devices) : RowLetter(r) = "A"
    THEN 1 + MaxUnit(devices, "A") + 3 ELSE 1
ColumnsOf(devices, rack) ==
    2 + 3 * Cardinality({r \in OnSheet(devices) :
                            RowLetter(r) = RowLetter(rack) /\ r = "A1" /\ rack = "A2"})

\* The cells with names: the top one of the merged cells of each device.
NamedCells(devices) ==
    UNION {LET slot == RackOf(devices, r).slot
               max == MaxUnit(devices, RowLetter(r))
               Row(u) == FirstRow(devices, RowLetter(r)) + 1 + (max - u)
           IN  {[rows |-> Row(u + slot[u].height - 1)..Row(u),
                 column |-> ColumnsOf(devices, r), names |-> slot[u].names,
                 label |-> <<r, u>>] :
                    u \in {x \in DOMAIN slot : x <= max}} : r \in OnSheet(devices)}

SheetDevices(names) ==
    {[name |-> n, rack |-> r, unit |-> u, height |-> h] :
        n \in names, r \in SheetRacks, u \in 0..3, h \in 1..2}
AskRackSheet ==
    /\ Fresh
    /\ \E d \in SheetDevices({"d"}), e \in SheetDevices({"e"}), f \in SheetDevices({"f"}) :
          /\ f.rack # "A2" /\ f.height + f.unit < 5
          /\ question' = [of |-> "rack sheet", devices |-> <<d, e, f>>]

SheetNext == AskRackSheet
-----------------------------------------------------------------------------
(* Properties.                                                             *)

\* The comment of build_rack_xlsx says that no device disappears from the sheet
\* any more: each with a unit from 1 on is named in exactly one cell, of its own
\* rack.
EveryDeviceIsOnTheSheet ==
    Asked("rack sheet") =>
        \A n \in DOMAIN question.devices :
            LET d == question.devices[n]
                in == {c \in NamedCells(question.devices) : d.name \in c.names}
            IN  IF d.unit = 0 THEN in = {}
                ELSE Cardinality(in) = 1 /\ \A c \in in : c.label[1] = d.rack

\* No cell lies on one of another device, in another rack or in the next row of
\* racks, nor above the head of its rack: a merged cell would swallow the name.
CellsAreApart ==
    Asked("rack sheet") =>
        LET cells == NamedCells(question.devices)
        IN  /\ \A c, b \in cells :
                  c # b /\ c.column = b.column => c.rows \cap b.rows = {}
            /\ \A c \in cells :
                  c.rows \subseteq (FirstRow(question.devices, RowLetter(c.label[1])) + 1)..20
=============================================================================
