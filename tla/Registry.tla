------------------------------ MODULE Registry ------------------------------
(***************************************************************************)
(* The registered devices: the tables switches and servers (core/db.py),   *)
(* the requests of app.py that add, edit, import and delete rows, and      *)
(* adopt_server_switches, which every GET /api/servers runs and which      *)
(* moves a switch classified as Server into the table of the servers.      *)
(* Each transaction is one action; a request with several interleaves.     *)
(***************************************************************************)
EXTENDS Integers, FiniteSets

CONSTANTS
    Names,              \* names of switches
    RowIps,                \* addresses
    Adopters,           \* threads of GET /api/servers
    MaxIds,             \* bound: rows ever made in a table
    MaxEdits            \* bound: requests that change something

ASSUME RegistryAssumption ==
    /\ MaxIds \in Nat \ {0} /\ MaxEdits \in Nat
    /\ Names # {} /\ RowIps # {}

VARIABLES
    switches,           \* rows by id: name, ip, type, account
    servers,            \* rows by id: ip, location, os
    last,               \* the id given last in each table
    edit,               \* PUT /api/switches/<id> between its transactions
    adopt,              \* per thread: its list and where it is
    touched,            \* history: switches edited while a thread had them in its list
    raced,              \* history: servers made between a check and a save
    imported,           \* history: switches whose address an import replaced,
                        \* or whose account came while a PUT was under way
    blanked,            \* history: servers whose system an import without one replaced
    edits

regVars == <<switches, servers, last, edit, adopt, touched, raced, imported, blanked, edits>>

Ids == 1..MaxIds
NoRow == [ip |-> "none"]
NoAccount == "none"
SwitchRow == [name : Names, ip : RowIps, type : {"", "Server"}, account : RowIps \cup {NoAccount}]
ServerRow == [ip : RowIps, location : {"", "rack"}, os : {"auto", "linux"}]
NotAdopting == [at |-> "idle", list |-> {}, row |-> 0, ip |-> "none"]
NoEdit == [id |-> 0, ip |-> "none"]

RegTypeOK ==
    /\ switches \in [Ids -> SwitchRow \cup {NoRow}]
    /\ servers \in [Ids -> ServerRow \cup {NoRow}]
    /\ last \in [{"switches", "servers"} -> 0..MaxIds]
    /\ edit \in [id : Ids \cup {0}, ip : RowIps \cup {"none"}]
    /\ \A a \in Adopters :
         /\ adopt[a].at \in {"idle", "next", "save", "delete"}
         /\ adopt[a].list \subseteq Ids \X RowIps
         /\ adopt[a].row \in Ids \cup {0}
    /\ touched \subseteq Ids /\ raced \subseteq Ids /\ imported \subseteq Ids
    /\ blanked \subseteq Ids
    /\ edits \in 0..MaxEdits

RegInit ==
    /\ switches = [s \in Ids |->
          IF s = 1 THEN [name |-> CHOOSE n \in Names : TRUE, ip |-> CHOOSE i \in RowIps : TRUE,
                         type |-> "Server", account |-> NoAccount]
          ELSE NoRow]
    /\ servers = [s \in Ids |-> NoRow]
    /\ last = [switches |-> 1, servers |-> 0]
    /\ edit = NoEdit
    /\ adopt = [a \in Adopters |-> NotAdopting]
    /\ touched = {} /\ raced = {} /\ imported = {} /\ blanked = {}
    /\ edits = 0

Present(table) == {s \in Ids : table[s] # NoRow}
\* AUTOINCREMENT: the id after the highest one ever given.
NewId(of) == last[of] + 1
Spare(of) == last[of] < MaxIds
Given(of) == last' = [last EXCEPT ![of] = @ + 1]
Edit == edits < MaxEdits /\ edits' = edits + 1
Listed(id) == \E a \in Adopters : \E l \in adopt[a].list : l[1] = id
Touch(id) == touched' = IF Listed(id) THEN touched \cup {id} ELSE touched

-----------------------------------------------------------------------------
(* Requests about switches.                                                *)

\* import_switches_bulk (manual, Excel): a row of the same name is updated.
ImportSwitch(name, ip) ==
    LET known == {s \in Present(switches) : switches[s].name = name}
    IN  /\ Edit
        /\ IF known # {}
           THEN \E s \in known :
                  /\ switches' = [switches EXCEPT ![s].ip = ip]
                  /\ imported' = IF switches[s].ip # ip THEN imported \cup {s} ELSE imported
                  /\ Touch(s)
                  /\ UNCHANGED last
           ELSE /\ Spare("switches")
                /\ switches' = [switches EXCEPT ![NewId("switches")] =
                       [name |-> name, ip |-> ip, type |-> "", account |-> NoAccount]]
                /\ Given("switches")
                /\ UNCHANGED <<imported, touched>>
        /\ UNCHANGED <<servers, edit, adopt, raced, blanked>>

\* bulk-collect and collect store the account typed in for the switch.
SaveAccount(s) ==
    /\ Edit
    /\ s \in Present(switches)
    /\ switches' = [switches EXCEPT ![s].account = switches[s].ip]
    \* between the transactions of a PUT it is for the address before
    /\ imported' = IF edit.id = s /\ edit.ip # switches[s].ip THEN imported \cup {s}
                   ELSE imported \ {s}
    /\ UNCHANGED <<servers, edit, adopt, touched, raced, last, blanked>>

SetType(s, type) ==
    /\ Edit
    /\ s \in Present(switches)
    /\ switches' = [switches EXCEPT ![s].type = type]
    /\ Touch(s)
    /\ UNCHANGED <<servers, edit, adopt, raced, imported, last, blanked>>

ClearAccount(s, ip) ==
    IF switches[s].ip # ip
    THEN /\ switches' = [switches EXCEPT ![s].account = NoAccount]
         /\ imported' = imported \ {s}
    ELSE UNCHANGED <<switches, imported>>
PutBegin(s, ip) ==
    /\ Edit
    /\ edit = NoEdit /\ s \in Present(switches)
    /\ ClearAccount(s, ip)
    /\ edit' = [id |-> s, ip |-> ip]
    /\ UNCHANGED <<servers, adopt, touched, raced, last, blanked>>
\* ... and then the row is updated, if it is still there.
PutWrite ==
    /\ edit # NoEdit
    /\ IF edit.id \in Present(switches)
       THEN /\ switches' = [switches EXCEPT ![edit.id].ip = edit.ip]
            /\ Touch(edit.id)
       ELSE UNCHANGED <<switches, touched>>
    /\ edit' = NoEdit
    /\ UNCHANGED <<servers, adopt, raced, edits, imported, last, blanked>>

RemoveSwitch(s) ==
    /\ Edit
    /\ s \in Present(switches)
    /\ switches' = [switches EXCEPT ![s] = NoRow]
    /\ Touch(s)
    /\ UNCHANGED <<servers, edit, adopt, raced, imported, last, blanked>>

-----------------------------------------------------------------------------
(* Requests about servers.                                                 *)

ServerAt(ip) == {v \in Present(servers) : servers[v].ip = ip}

\* save_server: by address; "keep" leaves what is stored.
\* Faulty variant: a column that is not given is stored as it came.
SaveServerRaw(ip, location, os) ==
    IF ServerAt(ip) # {}
    THEN /\ \E v \in ServerAt(ip) : servers' = [servers EXCEPT ![v].location = location]
         /\ UNCHANGED last
    ELSE /\ Spare("servers") /\ Given("servers")
         /\ servers' = [servers EXCEPT ![NewId("servers")] =
                [ip |-> ip, location |-> location, os |-> os]]
SaveServer(ip, location, os) ==
    IF ServerAt(ip) # {}
    THEN /\ \E v \in ServerAt(ip) : servers' = [servers EXCEPT
               ![v].location = IF location = "keep" THEN @ ELSE location,
               ![v].os = IF os = "keep" THEN @ ELSE os]
         /\ UNCHANGED last
    ELSE /\ Spare("servers") /\ Given("servers")
         /\ servers' = [servers EXCEPT ![NewId("servers")] =
                [ip |-> ip, location |-> IF location = "keep" THEN "" ELSE location,
                 os |-> IF os = "keep" THEN "auto" ELSE os]]

\* Import of an inventory; a place that is not given is kept, a system that
\* is not given is "auto".
ImportServer(ip, location, os) ==
    /\ Edit
    /\ SaveServer(ip, location, os)
    /\ blanked' = blanked \cup {v \in ServerAt(ip) : os = "auto" /\ servers[v].os # "auto"}
    /\ raced' = raced \cup
          IF \E a \in Adopters : adopt[a].at = "save" /\ adopt[a].ip = ip
          THEN {v \in Ids : servers[v] = NoRow /\ servers'[v] # NoRow} ELSE {}
    /\ UNCHANGED <<switches, edit, adopt, touched, imported>>

\* A collection finds out the system of a server.
CollectServer(v) ==
    /\ Edit
    /\ v \in Present(servers) /\ servers[v].os = "auto"
    /\ servers' = [servers EXCEPT ![v].os = "linux"]
    /\ UNCHANGED <<switches, edit, adopt, touched, raced, imported, last, blanked>>

\* The user puts a server into a rack.
PlaceServer(v) ==
    /\ Edit
    /\ v \in Present(servers) /\ servers[v].location = ""
    /\ servers' = [servers EXCEPT ![v].location = "rack"]
    /\ UNCHANGED <<switches, edit, adopt, touched, raced, imported, last, blanked>>

-----------------------------------------------------------------------------
(* adopt_server_switches.                                                  *)

AdoptList(a) ==
    /\ adopt[a].at = "idle"
    /\ \E s \in Present(switches) : switches[s].type = "Server"
    /\ adopt' = [adopt EXCEPT ![a] =
          [NotAdopting EXCEPT !.at = "next",
              !.list = {<<s, switches[s].ip>> : s \in {r \in Present(switches) : switches[r].type = "Server"}}]]
    /\ UNCHANGED <<switches, servers, edit, touched, raced, imported, edits, last, blanked>>

\* Faulty variant: the row is removed before the server is made.
AfterCheckDeletes(known) == "delete"
AfterCheck(known) == IF known THEN "delete" ELSE "save"
\* The next row of the list: is its address a server already?
AdoptCheck(a) ==
    /\ adopt[a].at = "next" /\ adopt[a].list # {}
    /\ \E l \in adopt[a].list :
          adopt' = [adopt EXCEPT ![a] =
              [@ EXCEPT !.at = AfterCheck(ServerAt(l[2]) # {}), !.row = l[1], !.ip = l[2]]]
    /\ UNCHANGED <<switches, servers, edit, touched, raced, imported, edits, last, blanked>>

AdoptSave(a) ==
    /\ adopt[a].at = "save"
    /\ SaveServer(adopt[a].ip, "keep", "auto")
    /\ raced' = raced \cup
          IF \E b \in Adopters \ {a} : adopt[b].at = "save" /\ adopt[b].ip = adopt[a].ip
          THEN {v \in Ids : servers[v] = NoRow /\ servers'[v] # NoRow} ELSE {}
    /\ adopt' = [adopt EXCEPT ![a].at = "delete"]
    /\ UNCHANGED <<switches, edit, touched, imported, edits, blanked>>

AdoptDelete(a) ==
    /\ adopt[a].at = "delete"
    /\ switches' = [switches EXCEPT ![adopt[a].row] = NoRow]
    /\ adopt' = [adopt EXCEPT ![a] =
          [@ EXCEPT !.at = "next", !.list = {l \in adopt[a].list : l[1] # adopt[a].row}]]
    /\ UNCHANGED <<servers, edit, touched, raced, imported, edits, last, blanked>>

\* The list is done, or the process ends and loses the rest of it.
AdoptEnd(a) ==
    /\ adopt[a].at # "idle"
    /\ adopt' = [adopt EXCEPT ![a] = NotAdopting]
    /\ touched' = {s \in touched : \E b \in Adopters \ {a} : \E l \in adopt[b].list : l[1] = s}
    /\ UNCHANGED <<switches, servers, edit, raced, imported, edits, last, blanked>>

RegNext ==
    \/ \E n \in Names, i \in RowIps : ImportSwitch(n, i)
    \/ \E s \in Ids : SaveAccount(s) \/ RemoveSwitch(s)
    \/ \E s \in Ids : \E t \in {"", "Server"} : SetType(s, t)
    \/ \E s \in Ids : \E i \in RowIps : PutBegin(s, i)
    \/ PutWrite
    \/ \E i \in RowIps : \E l \in {"keep", "rack"}, o \in {"auto", "linux"} :
          ImportServer(i, l, o)
    \/ \E v \in Ids : CollectServer(v) \/ PlaceServer(v)
    \/ \E a \in Adopters :
          AdoptList(a) \/ AdoptCheck(a) \/ AdoptSave(a) \/ AdoptDelete(a) \/ AdoptEnd(a)

RegSpec == RegInit /\ [][RegNext]_regVars

-----------------------------------------------------------------------------
(* Properties.                                                             *)

Registered(ip) ==
    \/ \E s \in Ids : switches[s].ip = ip
    \/ \E v \in Ids : servers[v].ip = ip

\* An account is stored for the device at one address: a PUT of another
\* address takes it from the row first, whatever else happens in between.
\* Only an import that replaces the address of a name, and an account stored
\* between the two transactions of the PUT, leave it with another address.
AccountsFitTheAddress ==
    \A s \in Present(switches) :
        switches[s].account \in {NoAccount, switches[s].ip} \/ s \in imported

\* adopt_server_switches moves a device and never loses one: the server row
\* is there before the switch row goes, with two requests adopting at once
\* and with a process that ends in between; unless the switch was edited
\* after the list was read.
AdoptionLosesNoDevice ==
    [][\A a \in Adopters :
          adopt[a].at = "delete" /\ adopt'[a].at = "next" /\ adopt[a].row \notin touched =>
              \A ip \in RowIps : Registered(ip) => Registered(ip)']_regVars

\* Neither another import of the same list nor an adoption takes from a
\* server the place it was given, and no adoption the system that a collection
\* found, unless the server was made while an adoption was about to make it.
\* An import whose rows do not tell the system does replace it with "auto".
KnownServersKeepTheirData ==
    [][\A v \in Present(servers) \ raced :
          /\ servers[v].os = "linux" => servers'[v].os = "linux" \/ v \in blanked'
          /\ servers[v].location = "rack" => servers'[v].location = "rack"]_regVars
=============================================================================
