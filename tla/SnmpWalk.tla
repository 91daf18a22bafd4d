------------------------------ MODULE SnmpWalk ------------------------------
(***************************************************************************)
(* The SNMP client of the specifications of servers (core/snmp_collect.py, *)
(* _Session): a walk over one column of the agent with GETBULK requests,   *)
(* datagrams that are lost, late or those of somebody else, retries from a *)
(* new socket, and the limits of rows and time.                            *)
(***************************************************************************)
EXTENDS Integers, Sequences, FiniteSets

CONSTANTS
    ColumnMax,          \* bound: rows of the column
    Beyond,             \* rows that the agent has after the column
    Bulk,               \* max-repetitions (20 in the code)
    MaxRows,            \* max_rows
    SendRetries,        \* retries
    Budget              \* requests in the time of one server

ASSUME WalkAssumption ==
    /\ ColumnMax \in Nat /\ Beyond \in Nat /\ Bulk \in Nat \ {0}
    /\ MaxRows \in Nat \ {0} /\ SendRetries \in Nat /\ Budget \in Nat

VARIABLES
    column,             \* rows of the column
    client,             \* "send", "wait" for an answer, "done"
    cursor,             \* cur: the row after which the walk goes on
    out,                \* rows so far
    rid, tried, spent,  \* request id, retries of it, requests so far
    socket,             \* port of the open socket
    net,                \* datagrams under way to the client
    cut                 \* history: the walk ended for want of an answer or time

walkVars == <<column, client, cursor, out, rid, tried, spent, socket, net, cut>>

\* A port may be given to a later socket again.
Sockets == {"u", "v"}
RowsAfter(n) == [k \in 1..(IF n + Bulk <= column + Beyond THEN Bulk ELSE column + Beyond - n) |-> n + k]
Answer(port, id, rows) == [port |-> port, rid |-> id, rows |-> rows]

WalkFrom(n) ==
    /\ column = n /\ client = "send" /\ cursor = 0 /\ out = <<>>
    /\ rid = 0 /\ tried = 0 /\ spent = 0
    /\ socket = "u" /\ net = {} /\ cut = FALSE
WalkInit == \E n \in 0..ColumnMax : WalkFrom(n)

Limited == spent >= Budget \/ Len(out) >= MaxRows

\* _pdu and the first attempt of _send, or the next one with the same request.
\* The agent answers, or the request is lost.
Transmit(id) ==
    \E port \in Sockets, answered \in BOOLEAN :
        /\ socket' = port
        /\ net' = IF answered THEN net \cup {Answer(port, id, RowsAfter(cursor))} ELSE net
        /\ client' = "wait"

SendRequest ==
    /\ client = "send" /\ ~Limited
    /\ rid' = rid + 1 /\ tried' = 0 /\ spent' = spent + 1
    /\ Transmit(rid + 1)
    /\ UNCHANGED <<column, cursor, out, cut>>

StopAtLimit ==
    /\ client = "send" /\ Limited
    /\ client' = "done" /\ cut' = (spent >= Budget /\ Len(out) < MaxRows)
    /\ UNCHANGED <<column, cursor, out, rid, tried, spent, socket, net>>

\* socket.timeout
TimesOut ==
    /\ client = "wait"
    /\ IF tried < SendRetries
       THEN tried' = tried + 1 /\ Transmit(rid) /\ UNCHANGED cut
       ELSE client' = "done" /\ cut' = TRUE /\ UNCHANGED <<tried, socket, net>>
    /\ UNCHANGED <<column, cursor, out, rid, spent>>

\* A datagram is lost, or its port is closed.
Lost ==
    \E d \in net :
        /\ net' = net \ {d}
        /\ UNCHANGED <<column, client, cursor, out, rid, tried, spent, socket, cut>>

AnswersThis(d) == d.port = socket /\ d.rid = rid
Discard ==
    /\ client = "wait"
    /\ \E d \in net : d.port = socket /\ ~AnswersThis(d) /\ net' = net \ {d}
    /\ UNCHANGED <<column, client, cursor, out, rid, tried, spent, socket, cut>>

\* The rows of an answer up to the first one that is not of the column or that
\* there is no room for.
Taken(rows) ==
    LET Fit(n) == \A k \in 1..n : rows[k] <= column /\ Len(out) + k <= MaxRows
        last == CHOOSE n \in 0..Len(rows) : Fit(n) /\ (n < Len(rows) => ~Fit(n + 1))
    IN  SubSeq(rows, 1, last)

Receive ==
    /\ client = "wait"
    /\ \E d \in net :
        LET taken == Taken(d.rows) IN
        /\ AnswersThis(d)
        /\ net' = net \ {d}
        /\ out' = out \o taken
        /\ cursor' = IF taken = <<>> THEN cursor ELSE taken[Len(taken)]
        /\ client' = IF taken # d.rows \/ d.rows = <<>> THEN "done" ELSE "send"
    /\ UNCHANGED <<column, rid, tried, spent, socket, cut>>

WalkNext ==
    \/ SendRequest \/ StopAtLimit \/ TimesOut \/ Lost \/ Discard \/ Receive

WalkSpec == WalkInit /\ [][WalkNext]_walkVars
-----------------------------------------------------------------------------
(* Properties.                                                             *)

WalkTypeOK ==
    /\ client \in {"send", "wait", "done"} /\ column \in 0..ColumnMax /\ cursor \in 0..column
    /\ Len(out) <= MaxRows /\ rid \in 0..Budget /\ tried \in 0..SendRetries
    /\ spent \in 0..Budget /\ socket \in Sockets /\ cut \in BOOLEAN

\* The rows are those of the column from its first one on, each once and in
\* its order, whatever was lost, late or retried: the number of processors is
\* the length of a walk.
RowsAreOfTheColumn == out = [k \in 1..Len(out) |-> k] /\ Len(out) <= column

\* A walk that ends has all rows of the column or as many as the limit allows,
\* unless an answer never came or the time was over: only then is the number
\* of processors too small.
RowsAreComplete ==
    client = "done" /\ ~cut => Len(out) = IF column < MaxRows THEN column ELSE MaxRows
=============================================================================
