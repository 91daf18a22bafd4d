------------------------------ MODULE Imports -------------------------------
(***************************************************************************)
(* Excel lists (core/excel_loader.py and the import requests of app.py):   *)
(* the sheet with several blocks, the inventories with one header, the     *)
(* specifications of servers, the ledger of hosts.                         *)
(***************************************************************************)
EXTENDS Questions, FiniteSets, Sequences

\* A cell is a heading, an address, a name or blank; validate_ipv4 refuses "9".
Headings == {"ip", "name", "mac", "switch"}
IsAddress(cell) == cell \in {"1", "2", "9"}
Allowed(cell) == cell \in {"1", "2"}
SheetRows == {<<"ip", "name">>, <<"name", "ip">>, <<"ip", "mac">>, <<"ip", "ip">>,
              <<"switch", "ip">>, <<"ip", "">>, <<"FW", "">>, <<"1", "FW">>, <<"FW-SW", "1">>,
              <<"2", "a">>, <<"a", "2">>, <<"9", "a">>}

HeadingsIn(row) == {row[c] : c \in DOMAIN row} \cap Headings
Columns(row, field) == {c \in DOMAIN row : row[c] = field}

-----------------------------------------------------------------------------
(* A sheet with several blocks.                                            *)

\* _looks_like_header: two fields at least.
LooksLikeHeader(row) == Cardinality(HeadingsIn(row)) >= 2

Blocks(sheet) ==
    FoldLeft(LAMBDA blocks, n :
        IF LooksLikeHeader(sheet[n]) THEN Append(blocks, <<n>>)
        ELSE IF blocks = <<>> THEN <<>>
        ELSE [blocks EXCEPT ![Len(blocks)] = Append(@, n)],
      <<>>, [n \in DOMAIN sheet |-> n])

\* _get_header_map: of two columns with a field the last one.
ColumnOf(header, field) == Max(Columns(header, field))

\* The kind of a block by its header.
Kind(header) ==
    IF "switch" \in HeadingsIn(header) THEN "host"
    ELSE IF "name" \in HeadingsIn(header) THEN "device"
    ELSE IF "mac" \in HeadingsIn(header) THEN "host" ELSE "device"

\* upload_excel: FW in the name is a firewall, unless it says SW too.
SheetTable(header, row) ==
    IF Kind(header) = "host" THEN "ledger"
    ELSE IF "name" \in HeadingsIn(header) /\ row[ColumnOf(header, "name")] = "FW"
         THEN "firewalls" ELSE "switches"

\* _block_to_records and the addresses that the request accepts.
Records(sheet, block) ==
    LET header == sheet[block[1]]
        at == ColumnOf(header, "ip")
        taken == IF "ip" \notin HeadingsIn(header) THEN <<>>
                 ELSE Filtered(Tail(block), {n \in DOMAIN sheet : Allowed(sheet[n][at])})
    IN  [k \in DOMAIN taken |-> [row |-> taken[k], ip |-> sheet[taken[k]][at],
                                 table |-> SheetTable(header, sheet[taken[k]])]]

\* What is imported, in the order of the sheet.
Upload(sheet) == FoldLeft(LAMBDA all, block : all \o Records(sheet, block), <<>>, Blocks(sheet))

-----------------------------------------------------------------------------
(* A sheet with one header: switches, servers and firewalls.               *)

Inventory(sheet) ==
    LET heads == {n \in DOMAIN sheet : "ip" \in HeadingsIn(sheet[n])}
        head == Min(heads)
        at == Min(Columns(sheet[head], "ip"))
        rows == IF heads = {} THEN <<>> ELSE [k \in 1..(Len(sheet) - head) |-> head + k]
    IN  Filtered(rows, {n \in DOMAIN sheet : 
                      /\ IsAddress(sheet[n][at])
                      /\ \A k \in (head + 1)..(n - 1) : sheet[k][at] # sheet[n][at]})

AskSheet ==
    /\ Fresh
    /\ \E sheet \in SeqOf(SheetRows, MaxLen["sheet"]) : question' = [of |-> "sheet", sheet |-> sheet]

\* The rows of a sheet that are due, and what an upload gives of each.
ImportedOnce(sheet) ==
    LET records == Upload(sheet)
        Above(n) == {h \in 1..(n - 1) : LooksLikeHeader(sheet[h])}
        Header(n) == sheet[Max(Above(n))]
        Due(n) == /\ Above(n) # {} /\ ~LooksLikeHeader(sheet[n])
                  /\ "ip" \in HeadingsIn(Header(n))
                  /\ \E c \in Columns(Header(n), "ip") : Allowed(sheet[n][c])
    IN  \A n \in DOMAIN sheet :
          LET of == {k \in DOMAIN records : records[k].row = n}
          IN  /\ Cardinality(of) = IF Due(n) THEN 1 ELSE 0
              /\ \A k \in of : records[k].table = SheetTable(Header(n), sheet[n])

\* Every row below a header whose cell under the heading of the address holds
\* an accepted one is imported, once, into one table, by the nearest header
\* above it; nothing else is: no title, no header, nothing above the first.
RowsAreImportedOnce == Asked("sheet") => ImportedOnce(question.sheet)

\* What the two readers tell of a sheet with one block.
AgreeOn(sheet) ==
    LET named == {n \in DOMAIN sheet : "ip" \in HeadingsIn(sheet[n])}
        at == ColumnOf(sheet[Max(named)], "ip")
        read == Inventory(sheet)
    IN  Cardinality(named) = 1 /\ (\A n \in named : LooksLikeHeader(sheet[n])) =>
          /\ \A i, j \in DOMAIN read : i < j => sheet[read[i]][at] # sheet[read[j]][at]
          /\ {sheet[read[k]][at] : k \in DOMAIN read} \cap {"1", "2"}
               = {r.ip : r \in ToSet(Upload(sheet))}

\* The two readers agree on a sheet in which one row names columns, and names
\* none twice: each address of an inventory is read once, by its first row,
\* and the addresses are those the sheet with several blocks tells.
ReadersAgree == Asked("sheet") => AgreeOn(question.sheet)

-----------------------------------------------------------------------------
(* Specifications of servers.                                              *)

Blank == 99
NoNumber == 98
Numbers == {-1, 0, 2}
NumCells == Numbers \cup {Blank, NoNumber}
NotGiven == -9
\* _to_num
ToNum(cell) == IF cell \in Numbers THEN cell ELSE NotGiven
Positive(n) == n # NotGiven /\ n > 0

\* parse_server_specs: memory in MB first, in GB if there is none or zero.
MemoryOf(cells) ==
    LET mb == ToNum(cells.mb) gb == ToNum(cells.gb)
    IN  IF mb \in {NotGiven, 0} THEN IF Positive(gb) THEN gb * 1024 ELSE NotGiven
        ELSE IF Positive(mb) THEN mb ELSE NotGiven
PositiveOf(cell) == IF Positive(ToNum(cell)) THEN ToNum(cell) ELSE NotGiven

SpecsGiven(cells) ==
    [mem |-> MemoryOf(cells), disk |-> PositiveOf(cells.disk), used |-> PositiveOf(cells.used)]

\* import_server_specs and update_server: what is not given stays.
SpecsStored(server, cells) ==
    LET given == SpecsGiven(cells)
    IN  [f \in DOMAIN server |-> IF given[f] = NotGiven THEN server[f] ELSE given[f]]

AskSpecs ==
    /\ Fresh
    /\ \E cells \in [mb : NumCells, gb : NumCells, disk : NumCells, used : NumCells],
          known \in {NotGiven, 7} :
          question' = [of |-> "specs", cells |-> cells,
                       server |-> [mem |-> known, disk |-> known, used |-> known]]

\* An import never takes a known specification away and never stores one that
\* is zero or less; a readable size is stored, a memory in whichever column
\* it is given, unless the other column is negative.
KnownSpecsSurvive ==
    Asked("specs") =>
        LET cells == question.cells
            server == question.server
            now == SpecsStored(server, cells)
        IN  /\ \A f \in DOMAIN now : now[f] = server[f] \/ now[f] > 0
            /\ cells.disk = 2 => now.disk = 2
            /\ cells.used = 2 => now.used = 2
            /\ cells.mb = 2 => now.mem = 2
            /\ cells.gb = 2 /\ cells.mb \notin {2, -1} => now.mem = 2048

-----------------------------------------------------------------------------
(* The ledger of hosts.                                                    *)

LedgerRow(old, row) == [f \in DOMAIN old |-> IF row[f] # "" THEN row[f] ELSE old[f]]
\* Rows of one address, in the order of the list.
LedgerAfter(old, rows) == FoldLeft(LedgerRow, old, rows)

LedgerCells == {"", "a", "b"}
AskLedger ==
    /\ Fresh
    /\ \E old \in [mac : LedgerCells, port : LedgerCells],
          rows \in SeqOf([mac : LedgerCells, port : LedgerCells], MaxLen["ledger"]) :
          question' = [of |-> "ledger", old |-> old, rows |-> rows]

\* Each column of a host holds the last value that any row gave it, whichever
\* rows left it blank.
LedgerKeepsTheLastWord ==
    Asked("ledger") =>
        LET rows == question.rows
            now == LedgerAfter(question.old, rows)
            Given(f) == {n \in DOMAIN rows : rows[n][f] # ""}
        IN  \A f \in DOMAIN now :
              now[f] = IF Given(f) = {} THEN question.old[f] ELSE rows[Max(Given(f))][f]

ImportNext == AskSheet \/ AskSpecs \/ AskLedger
ImportSpec == QuestionInit /\ [][ImportNext]_question
=============================================================================
