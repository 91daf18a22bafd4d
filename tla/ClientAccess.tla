---------------------------- MODULE ClientAccess ----------------------------
(***************************************************************************)
(* What a client may do and with which account: the rate limiter of the    *)
(* endpoints (app.py) and the accounts for collections that live in memory *)
(* only (core/session_creds.py).                                           *)
(***************************************************************************)
EXTENDS Integers, FiniteSets

-----------------------------------------------------------------------------
(***************************************************************************)
(* The rate limiter of the endpoints: per endpoint and client the times of *)
(* the requests that got through are kept, and old keys are dropped when   *)
(* there are many.                                                         *)
(***************************************************************************)
CONSTANTS
    Callers,                \* keys: endpoint and client
    MaxRequests, WindowLen, \* of the endpoint
    PurgeAbove,             \* number of keys above which old ones are dropped
    MaxTime                 \* bound: clock

ASSUME LimitsAssumption ==
    /\ MaxRequests \in Nat \ {0} /\ WindowLen \in Nat \ {0} /\ PurgeAbove \in Nat
    /\ MaxTime \in Nat \ {0}

VARIABLES
    time,
    tracker,                \* _rate_limit_tracker: times of each key
    admitted,               \* history: times at which each key got through
    turnedAway              \* history: was the last request refused rightly

limitVars == <<time, tracker, admitted, turnedAway>>

LimitTypeOK ==
    /\ time \in 1..MaxTime
    /\ \A k \in Callers : tracker[k] \in [0..MaxTime -> 0..MaxRequests]

NoTimes == [t \in 0..MaxTime |-> 0]
CountOf(times) ==
    LET count[t \in 0..MaxTime] == times[t] + (IF t = 0 THEN 0 ELSE count[t - 1])
    IN count[MaxTime]

LimitInit ==
    /\ time = 1
    /\ tracker = [k \in Callers |-> NoTimes] /\ admitted = tracker
    /\ turnedAway = TRUE

Recent(t) == time - t < WindowLen

Pruned(times) == [t \in 0..MaxTime |-> IF Recent(t) THEN times[t] ELSE 0]

ExpiredKey(times) == ~\E t \in 0..MaxTime : times[t] > 0 /\ Recent(t)

KeysOf(table) == {k \in Callers : CountOf(table[k]) > 0}

DropKeys(table) ==
    IF Cardinality(KeysOf(table)) > PurgeAbove
    THEN [k \in Callers |-> IF ExpiredKey(table[k]) THEN NoTimes ELSE table[k]]
    ELSE table

InWindowLen(k) == CountOf([t \in 0..MaxTime |-> IF time - t < WindowLen THEN admitted[k][t] ELSE 0])

Full(times) == CountOf(times) >= MaxRequests

\* A refused request changes nothing and is not counted.
Request(k) ==
    /\ IF Full(Pruned(tracker[k]))
       THEN /\ turnedAway' = (InWindowLen(k) >= MaxRequests)
            /\ UNCHANGED <<tracker, admitted>>
       ELSE /\ tracker' = DropKeys([tracker EXCEPT ![k] = [Pruned(tracker[k]) EXCEPT ![time] = @ + 1]])
            /\ admitted' = [admitted EXCEPT ![k][time] = @ + 1]
            /\ UNCHANGED turnedAway
    /\ UNCHANGED time

Pass ==
    /\ time < MaxTime
    /\ time' = time + 1
    /\ UNCHANGED <<tracker, admitted, turnedAway>>

LimitNext == Pass \/ \E k \in Callers : Request(k)

LimitSpec == LimitInit /\ [][LimitNext]_limitVars

-----------------------------------------------------------------------------
(* Properties.                                                             *)

\* In no span of the length of the window, wherever it begins, more requests
\* of a key get through than the limit; the purge of the table forgets none
\* that still counts.
NoBurstAboveLimit ==
    \A k \in Callers, s \in 0..MaxTime :
        CountOf([t \in 0..MaxTime |-> IF s <= t /\ t < s + WindowLen THEN admitted[k][t] ELSE 0])
            <= MaxRequests

\* A request is refused only if the limit is used up in the window that ends
\* with it.
RefusedForAReason == turnedAway

-----------------------------------------------------------------------------
(***************************************************************************)
(* The accounts for collections that live in memory only: entered once,    *)
(* per client and kind of device, used until they expire, and swept by the *)
(* loop of the scheduler.                                                  *)
(***************************************************************************)
CONSTANTS
    Accounts,               \* keys of the store: client and kind of device
    Ttl,
    MaxNow                  \* bound: clock

ASSUME SessionAssumption == Ttl \in Nat \ {0} /\ MaxNow \in Nat \ {0}

VARIABLES
    now,
    accounts,               \* _store: expiry of each account, 0 if none
    purge,                  \* purge_expired: its time, what was over then
    swept                   \* history: time of the last purge that ended

sessionVars == <<now, accounts, purge, swept>>

NotPurging == [at |-> -1, over |-> {}]

SessionTypeOK ==
    /\ now \in 1..MaxNow
    /\ accounts \in [Accounts -> 0..MaxNow + Ttl]
    /\ purge.over \subseteq Accounts /\ purge.at <= now
    /\ swept \in 0..now

SessionInit ==
    /\ now = 1
    /\ accounts = [a \in Accounts |-> 0]
    /\ purge = NotPurging
    /\ swept = 0

Expiry(a) == now + Ttl

SetCredential(a) ==
    /\ accounts' = [accounts EXCEPT ![a] = Expiry(a)]
    /\ UNCHANGED <<now, purge, swept>>

\* An expired account is thrown away by the request that asks for it.
GetCredential(a) ==
    /\ accounts[a] # 0 /\ accounts[a] <= now
    /\ accounts' = [accounts EXCEPT ![a] = 0]
    /\ UNCHANGED <<now, purge, swept>>

Clear(a) ==
    /\ accounts' = [accounts EXCEPT ![a] = 0]
    /\ UNCHANGED <<now, purge, swept>>

\* purge_expired looks at the clock, then waits for the lock.
PurgeBegin ==
    /\ purge = NotPurging
    /\ purge' = [at |-> now, over |-> {a \in Accounts : accounts[a] <= now}]
    /\ UNCHANGED <<now, accounts, swept>>

\* Faulty variant: what was over before the lock was taken goes.
DeadSeen(a) == a \in purge.over

Dead(a) == accounts[a] <= purge.at

PurgeEnd ==
    /\ purge # NotPurging
    /\ accounts' = [a \in Accounts |-> IF Dead(a) THEN 0 ELSE accounts[a]]
    /\ swept' = purge.at
    /\ purge' = NotPurging
    /\ UNCHANGED now

PassNow ==
    /\ now < MaxNow
    /\ now' = now + 1
    /\ UNCHANGED <<accounts, purge, swept>>

SessionNext ==
    \/ \E a \in Accounts : SetCredential(a) \/ GetCredential(a) \/ Clear(a)
    \/ PurgeBegin \/ PurgeEnd \/ PassNow

SessionSpec == SessionInit /\ [][SessionNext]_sessionVars

-----------------------------------------------------------------------------
(* Properties.                                                             *)

\* An account that is renewed while the purge waits for the lock is kept, and
\* so is every account that has not expired: only the user takes it away.
LiveAccountsAreKept ==
    [][PurgeEnd => \A a \in Accounts : accounts[a] > now => accounts'[a] = accounts[a]]_sessionVars

\* No password stays in memory that had expired when the last purge began.
ExpiredAccountsAreGone ==
    \A a \in Accounts : accounts[a] # 0 => accounts[a] > swept
=============================================================================
