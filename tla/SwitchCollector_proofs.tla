----------------------- MODULE SwitchCollector_proofs -----------------------
(***************************************************************************)
(* Proofs about SwitchCollector for every set of switches and threads,     *)
(* every queue capacity and any number of requests and restarts.           *)
(***************************************************************************)
EXTENDS SwitchCollector, TLAPS, SequenceTheorems, FiniteSetTheorems

-----------------------------------------------------------------------------
(* The queue as a sequence.                                                *)

\* Taking the head of the queue leaves the other entries, one place earlier.
LEMMA QueueTail ==
    ASSUME NEW q \in Seq(Switches), q # <<>>
    PROVE  /\ Len(q) \in Nat \ {0}
           /\ Head(q) \in Switches
           /\ Head(q) = q[1]
           /\ Tail(q) \in Seq(Switches)
           /\ Len(Tail(q)) = Len(q) - 1
           /\ \A i \in 1..Len(Tail(q)) : Tail(q)[i] = q[i + 1] /\ i + 1 \in 1..Len(q)
           /\ 1 \in 1..Len(q)
<1>1. Len(q) \in Nat \ {0}
  BY EmptySeq, LenProperties
<1>2. /\ Head(q) \in Switches
      /\ Tail(q) \in Seq(Switches)
      /\ Len(Tail(q)) = Len(q) - 1
      /\ \A i \in 1..Len(Tail(q)) : Tail(q)[i] = q[i + 1]
  BY HeadTailProperties
<1>3. Head(q) = q[1]
  OBVIOUS
<1> QED
  BY <1>1, <1>2, <1>3

-----------------------------------------------------------------------------
(* Type correctness.                                                       *)

LEMMA TypeInit == Init => TypeOK
  BY ConstantsAssumption, ThreadsAssumption
  DEF Init, TypeOK, Threads, Status, Alarm, RequesterPc, CancellerPc, WorkerPc

\* Every action of a thread keeps the types; the queue's by QueueTail.
LEMMA TypeStep == TypeOK /\ [Next]_vars => TypeOK'
<1> SUFFICES ASSUME TypeOK, [Next]_vars PROVE TypeOK'
  OBVIOUS
<1> USE ConstantsAssumption, ThreadsAssumption
    DEF TypeOK, Threads, Status, Alarm, RequesterPc, CancellerPc, WorkerPc,
        Goto, Leave, SetStatus, Dispose, Unmark
<1>1. ASSUME NEW r \in Requesters, NEW s \in Switches, Accept(r, s) PROVE TypeOK'
  BY <1>1 DEF Accept
<1>2. ASSUME NEW r \in Requesters, NEW s \in Switches, Reject(r, s) PROVE TypeOK'
  BY <1>2 DEF Reject, vars
<1>3. ASSUME NEW r \in Requesters, RequesterStep(r) PROVE TypeOK'
  <2>1. CASE Save(r)
    BY <2>1 DEF Save
  <2>2. CASE Put(r)
    <3>1. queue' \in Seq(Switches)
      BY <2>2, AppendProperties DEF Put
    <3> QED
      BY <2>2, <3>1 DEF Put
  <2>3. CASE PutFull(r)
    BY <2>3 DEF PutFull
  <2>4. CASE AbortUnmark(r)
    BY <2>4 DEF AbortUnmark
  <2>5. CASE AbortDispose(r)
    BY <2>5 DEF AbortDispose
  <2> QED
    BY <1>3, <2>1, <2>2, <2>3, <2>4, <2>5 DEF RequesterStep
<1>4. ASSUME NEW c \in Cancellers, CancelStart(c) PROVE TypeOK'
  BY <1>4 DEF CancelStart
<1>5. ASSUME NEW c \in Cancellers, CancellerStep(c) PROVE TypeOK'
  <2>1. CASE CancelPop(c)
    BY <2>1, QueueTail DEF CancelPop
  <2>2. CASE CancelEnd(c)
    BY <2>2 DEF CancelEnd
  <2>3. CASE CancelUnmark(c)
    BY <2>3 DEF CancelUnmark
  <2>4. CASE CancelClear(c)
    BY <2>4 DEF CancelClear
  <2>5. CASE CancelRead(c)
    BY <2>5 DEF CancelRead
  <2>6. CASE CancelReset(c)
    BY <2>6 DEF CancelReset
  <2> QED
    BY <1>5, <2>1, <2>2, <2>3, <2>4, <2>5, <2>6 DEF CancellerStep
<1>6. ASSUME NEW w \in Workers, WorkerStep(w) PROVE TypeOK'
  <2>1. CASE Take(w)
    BY <2>1, QueueTail DEF Take
  <2>2. CASE Raise(w)
    BY <2>2 DEF Raise
  <2>3. CASE Begin(w)
    BY <2>3 DEF Begin
  <2>4. CASE MarkCollecting(w)
    BY <2>4 DEF MarkCollecting
  <2>5. CASE Load(w)
    BY <2>5 DEF Load
  <2>6. CASE Device(w)
    <3>1. CASE Goto(w, "finish")
      BY SMTT(20), <2>6, <3>1 DEF Device
    <3>2. CASE Goto(w, "fail")
      BY SMTT(20), <2>6, <3>2 DEF Device
    <3> QED
      BY ONLY <2>6, <3>1, <3>2 DEF Device
  <2>7. CASE Finish(w)
    BY <2>7 DEF Finish
  <2>8. CASE Recover(w)
    BY <2>8 DEF Recover
  <2>9. CASE Fail(w)
    BY <2>9 DEF Fail
  <2>10. CASE FailLost(w)
    BY <2>10 DEF FailLost
  <2>11. CASE RaiseAlarm(w)
    BY <2>11 DEF RaiseAlarm
  <2>12. CASE Clear(w)
    BY <2>12 DEF Clear
  <2>13. CASE Release(w)
    BY <2>13 DEF Release
  <2> QED
    BY <1>6, <2>1, <2>2, <2>3, <2>4, <2>5, <2>6, <2>7, <2>8, <2>9, <2>10,
       <2>11, <2>12, <2>13 DEF WorkerStep
<1>7. ASSUME Crash PROVE TypeOK'
  BY <1>7 DEF Crash, Running
<1>8. CASE UNCHANGED vars
  BY <1>8 DEF vars
<1> QED
  BY <1>1, <1>2, <1>3, <1>4, <1>5, <1>6, <1>7, <1>8 DEF Next

\* Every variable of the collector keeps to its type in every behaviour.
THEOREM TypeCorrect == Spec => []TypeOK
  BY TypeInit, TypeStep, PTL DEF Spec

-----------------------------------------------------------------------------
(* One holder per mark.                                                    *)

Holders == SingleHolder /\ MarksAreHeld

\* What CancelPop and Take have in common.
TakesHead(t) ==
    /\ marks' = marks
    /\ queue # <<>>
    /\ queue' = Tail(queue)
    /\ arg' = [arg EXCEPT ![t] = Head(queue)]
    /\ \/ t \in Cancellers /\ pc[t] = "pop" /\ pc' = [pc EXCEPT ![t] = "unmark"]
       \/ t \in Workers /\ pc[t] = "idle" /\ pc' = [pc EXCEPT ![t] = "begin"]

\* A step that leaves marks and queue alone and changes neither who holds a
\* switch nor which one keeps the invariant.
LEMMA SameHolders ==
    ASSUME TypeOK, Holders,
           marks' = marks, queue' = queue,
           \A t \in Threads : Holding(t)' <=> Holding(t),
           \A t \in Threads : Holding(t) => arg'[t] = arg[t]
    PROVE  Holders'
  BY DEF Holders, SingleHolder, MarksAreHeld, Queued, Held

LEMMA HoldersInit == Init => Holders
  BY DEF Init, Holders, SingleHolder, MarksAreHeld, Holding, Threads

LEMMA HoldersStep == TypeOK /\ Holders /\ [Next]_vars => Holders'
<1> SUFFICES ASSUME TypeOK, Holders, [Next]_vars PROVE Holders'
  OBVIOUS
<1> USE ThreadsAssumption DEF Goto, Leave, Unmark, Threads
<1> DEFINE Same == /\ marks' = marks
                   /\ queue' = queue
                   /\ \A t \in Threads : Holding(t)' <=> Holding(t)
                   /\ \A t \in Threads : Holding(t) => arg'[t] = arg[t]
<1>0. Same => Holders'
  BY SameHolders
<1>1. ASSUME NEW r \in Requesters, NEW s \in Switches, Accept(r, s) PROVE Holders'
  <2>1. /\ s \notin marks
        /\ marks' = marks \cup {s}
        /\ queue' = queue
        /\ ~Holding(r) /\ Holding(r)'
        /\ arg'[r] = s
        /\ \A t \in Threads \ {r} : Holding(t)' <=> Holding(t)
        /\ \A t \in Threads \ {r} : arg'[t] = arg[t]
    BY <1>1 DEF Accept, Holding, TypeOK
  <2> QED
    BY <2>1 DEF Holders, SingleHolder, MarksAreHeld, Queued, Held
<1>2. ASSUME NEW r \in Requesters, NEW s \in Switches, Reject(r, s) PROVE Holders'
  BY <1>2, <1>0 DEF Reject, vars, Holding
<1>3. ASSUME NEW r \in Requesters, RequesterStep(r) PROVE Holders'
  <2>1. CASE Save(r)
    BY <2>1, <1>0 DEF Save, Holding, TypeOK
  <2>2. CASE Put(r)
    <3>1. /\ marks' = marks
          /\ Holding(r) /\ ~Holding(r)'
          /\ arg[r] \in Switches
          /\ \A t \in Threads \ {r} : Holding(t)' <=> Holding(t)
          /\ \A t \in Threads \ {r} : arg'[t] = arg[t]
      BY <2>2 DEF Put, Holding, TypeOK
    <3>2. /\ queue' = Append(queue, arg[r])
          /\ Len(queue) \in Nat
          /\ Len(queue') = Len(queue) + 1
          /\ \A i \in 1..Len(queue) : queue'[i] = queue[i]
          /\ queue'[Len(queue) + 1] = arg[r]
      BY <2>2, <3>1, AppendProperties, LenProperties DEF Put, TypeOK
    <3>3. SingleHolder'
      BY <3>1, <3>2 DEF Holders, SingleHolder
    <3>4. MarksAreHeld'
      BY <3>1, <3>2 DEF Holders, MarksAreHeld, Queued, Held
    <3> QED
      BY <3>3, <3>4 DEF Holders
  <2>3. CASE PutFull(r)
    BY <2>3, <1>0 DEF PutFull, Holding, TypeOK
  <2>4. CASE AbortUnmark(r)
    <3>1. /\ marks' = marks \ {arg[r]}
          /\ queue' = queue
          /\ Holding(r) /\ ~Holding(r)'
          /\ \A t \in Threads \ {r} : Holding(t)' <=> Holding(t)
          /\ arg' = arg
      BY <2>4 DEF AbortUnmark, Holding, TypeOK
    <3> QED
      BY <3>1 DEF Holders, SingleHolder, MarksAreHeld, Queued, Held
  <2>5. CASE AbortDispose(r)
    BY <2>5, <1>0 DEF AbortDispose, Holding, TypeOK
  <2> QED
    BY <1>3, <2>1, <2>2, <2>3, <2>4, <2>5 DEF RequesterStep
<1>4. ASSUME NEW c \in Cancellers, CancelStart(c) PROVE Holders'
  BY <1>4, <1>0 DEF CancelStart, Holding, TypeOK
<1>5. ASSUME NEW t \in Threads, TakesHead(t) PROVE Holders'
  <2>1. /\ marks' = marks
        /\ ~Holding(t) /\ Holding(t)'
        /\ arg'[t] = Head(queue)
        /\ \A u \in Threads \ {t} : Holding(u)' <=> Holding(u)
        /\ \A u \in Threads \ {t} : arg'[u] = arg[u]
    BY <1>5 DEF TakesHead, Holding, TypeOK
  <2>2. /\ arg'[t] = queue[1]
        /\ Len(queue) \in Nat \ {0}
        /\ Len(queue') = Len(queue) - 1
        /\ \A i \in 1..Len(queue') : queue'[i] = queue[i + 1] /\ i + 1 \in 1..Len(queue)
    BY <1>5, <2>1, QueueTail DEF TakesHead, TypeOK
  <2>3. SingleHolder'
    BY SMTT(20), <2>1, <2>2 DEF Holders, SingleHolder
  <2>4. MarksAreHeld'
    <3> SUFFICES ASSUME NEW s \in marks
                 PROVE  Queued(s)' \/ \E u \in Threads : Holding(u)' /\ arg'[u] = s
      BY <2>1 DEF MarksAreHeld, Held
    <3>1. CASE \E u \in Threads : Holding(u) /\ arg[u] = s
      BY <3>1, <2>1
    <3>2. CASE Queued(s)
      <4>1. PICK i \in 1..Len(queue) : queue[i] = s
        BY <3>2 DEF Queued
      <4>2. CASE i = 1
        BY <4>1, <4>2, <2>1, <2>2
      <4>3. CASE i # 1
        <5>1. i - 1 \in 1..Len(queue') /\ queue'[i - 1] = s
          BY <4>1, <4>3, <2>2
        <5> QED
          BY <5>1 DEF Queued
      <4> QED
        BY <4>2, <4>3
    <3> QED
      BY <3>1, <3>2 DEF Holders, MarksAreHeld, Held
  <2> QED
    BY <2>3, <2>4 DEF Holders
<1>6. ASSUME NEW c \in Cancellers, CancellerStep(c) PROVE Holders'
  <2>1. CASE CancelPop(c)
    BY <2>1, <1>5 DEF CancelPop, TakesHead
  <2>2. CASE CancelEnd(c)
    BY <2>2, <1>0 DEF CancelEnd, Holding, TypeOK
  <2>3. CASE CancelUnmark(c)
    <3>1. /\ marks' = marks \ {arg[c]}
          /\ queue' = queue
          /\ Holding(c) /\ ~Holding(c)'
          /\ \A t \in Threads \ {c} : Holding(t)' <=> Holding(t)
          /\ arg' = arg
      BY <2>3 DEF CancelUnmark, Holding, TypeOK
    <3> QED
      BY <3>1 DEF Holders, SingleHolder, MarksAreHeld, Queued, Held
  <2>4. CASE CancelClear(c)
    BY <2>4, <1>0 DEF CancelClear, Holding, TypeOK
  <2>5. CASE CancelRead(c)
    BY <2>5, <1>0 DEF CancelRead, Holding, TypeOK
  <2>6. CASE CancelReset(c)
    BY <2>6, <1>0 DEF CancelReset, Holding, TypeOK
  <2> QED
    BY <1>6, <2>1, <2>2, <2>3, <2>4, <2>5, <2>6 DEF CancellerStep
<1>7. ASSUME NEW w \in Workers, WorkerStep(w) PROVE Holders'
  <2>1. CASE Take(w)
    BY <2>1, <1>5 DEF Take, TakesHead
  <2>2. CASE \/ Raise(w) \/ Begin(w) \/ MarkCollecting(w) \/ Load(w)
             \/ Device(w) \/ Finish(w) \/ Recover(w) \/ Fail(w)
             \/ FailLost(w) \/ RaiseAlarm(w) \/ Clear(w)
    <3>1. /\ pc[w] # "idle" /\ \E l \in WorkerPc \ {"idle"} : pc' = [pc EXCEPT ![w] = l]
          /\ marks' = marks /\ queue' = queue /\ arg' = arg
      BY <2>2 DEF Raise, Begin, MarkCollecting, Load, Device, Finish, Recover,
                  Fail, FailLost, RaiseAlarm, Clear, WorkerPc
    <3> QED
      BY <3>1, <1>0 DEF Holding, TypeOK
  <2>3. CASE Release(w)
    <3>1. /\ marks' = marks \ {arg[w]}
          /\ queue' = queue
          /\ Holding(w) /\ ~Holding(w)'
          /\ \A t \in Threads \ {w} : Holding(t)' <=> Holding(t)
          /\ \A t \in Threads \ {w} : arg'[t] = arg[t]
      BY <2>3 DEF Release, Holding, TypeOK
    <3> QED
      BY <3>1 DEF Holders, SingleHolder, MarksAreHeld, Queued, Held
  <2> QED
    BY <1>7, <2>1, <2>2, <2>3 DEF WorkerStep
<1>8. ASSUME Crash PROVE Holders'
  BY <1>8 DEF Crash, Holders, SingleHolder, MarksAreHeld, Holding
<1>9. CASE UNCHANGED vars
  BY <1>9, <1>0 DEF vars, Holding
<1> QED
  BY <1>1, <1>2, <1>3, <1>4, <1>6, <1>7, <1>8, <1>9 DEF Next

\* No switch is ever collected twice at once, whatever the requests, stops,
\* faults and restarts.
THEOREM OneJobPerSwitch == Spec => []SingleHolder
<1>1. Spec => [](TypeOK /\ Holders)
  BY TypeInit, TypeStep, HoldersInit, HoldersStep, PTL DEF Spec
<1>2. TypeOK /\ Holders => SingleHolder
  BY DEF Holders
<1> QED
  BY <1>1, <1>2, PTL

\* No switch stays locked: each mark has someone who will release it.
THEOREM NoOrphanMark == Spec => []MarksAreHeld
<1>1. Spec => [](TypeOK /\ Holders)
  BY TypeInit, TypeStep, HoldersInit, HoldersStep, PTL DEF Spec
<1>2. TypeOK /\ Holders => MarksAreHeld
  BY DEF Holders
<1> QED
  BY <1>1, <1>2, PTL

-----------------------------------------------------------------------------
(* Credentials.                                                            *)

\* Inductive form of CredentialsDisposed: a worker about to give its mark
\* back has already emptied the session entry.
Disposal ==
    /\ CredentialsDisposed
    /\ \A w \in Workers : pc[w] = "release" => session[arg[w]] = NoCred

LEMMA DisposalInit == Init => Disposal
  BY DEF Init, Disposal, CredentialsDisposed, Threads

LEMMA DisposalStep == TypeOK /\ Holders /\ Disposal /\ [Next]_vars => Disposal'
<1> SUFFICES ASSUME TypeOK, Holders, Disposal, [Next]_vars PROVE Disposal'
  OBVIOUS
<1> USE ThreadsAssumption, ConstantsAssumption
    DEF Goto, Leave, Unmark, Dispose, Threads, Disposal, CredentialsDisposed, TypeOK
<1>1. ASSUME NEW r \in Requesters, NEW s \in Switches, Accept(r, s) PROVE Disposal'
  BY <1>1 DEF Accept
<1>2. ASSUME NEW r \in Requesters, NEW s \in Switches, Reject(r, s) PROVE Disposal'
  BY <1>2 DEF Reject, vars
<1>3. ASSUME NEW r \in Requesters, RequesterStep(r) PROVE Disposal'
  <2>1. CASE Save(r)
    <3>1. arg[r] \in marks /\ \A w \in Workers : pc[w] # "idle" => arg[w] # arg[r]
      BY <2>1 DEF Save, Holders, SingleHolder, Holding
    <3> QED
      BY <2>1, <3>1 DEF Save
  <2>2. CASE Put(r)
    BY <2>2 DEF Put
  <2>3. CASE PutFull(r)
    BY <2>3 DEF PutFull
  <2>4. CASE AbortUnmark(r)
    BY <2>4 DEF AbortUnmark
  <2>5. CASE AbortDispose(r)
    BY <2>5 DEF AbortDispose
  <2> QED
    BY <1>3, <2>1, <2>2, <2>3, <2>4, <2>5 DEF RequesterStep
<1>4. ASSUME NEW c \in Cancellers, CancelStart(c) \/ CancellerStep(c) PROVE Disposal'
  <2>1. CASE CancelUnmark(c)
    BY <2>1 DEF CancelUnmark
  <2>2. CASE CancelClear(c)
    BY <2>2 DEF CancelClear
  <2>3. CASE CancelPop(c)
    BY <2>3, QueueTail DEF CancelPop
  <2>4. CASE CancelStart(c) \/ CancelEnd(c) \/ CancelRead(c) \/ CancelReset(c)
    BY <2>4 DEF CancelStart, CancelEnd, CancelRead, CancelReset
  <2> QED
    BY <1>4, <2>1, <2>2, <2>3, <2>4 DEF CancellerStep
<1>5. ASSUME NEW w \in Workers, WorkerStep(w) PROVE Disposal'
  <2>1. CASE Take(w)
    BY <2>1 DEF Take
  <2>2. CASE \/ Raise(w) \/ Begin(w) \/ MarkCollecting(w) \/ Load(w)
             \/ Device(w) \/ Finish(w) \/ Recover(w) \/ Fail(w)
             \/ FailLost(w) \/ RaiseAlarm(w)
    <3>1. /\ \E l \in WorkerPc \ {"release"} : pc' = [pc EXCEPT ![w] = l]
          /\ marks' = marks /\ session' = session /\ arg' = arg
      BY <2>2 DEF Raise, Begin, MarkCollecting, Load, Device, Finish, Recover,
                  Fail, FailLost, RaiseAlarm, WorkerPc
    <3> QED
      BY <3>1
  <2>3. CASE Clear(w)
    BY <2>3 DEF Clear
  <2>4. CASE Release(w)
    BY <2>4 DEF Release
  <2> QED
    BY <1>5, <2>1, <2>2, <2>3, <2>4 DEF WorkerStep
<1>6. ASSUME Crash PROVE Disposal'
  BY <1>6 DEF Crash
<1>7. CASE UNCHANGED vars
  BY <1>7 DEF vars
<1> QED
  BY <1>1, <1>2, <1>3, <1>4, <1>5, <1>6, <1>7 DEF Next

\* The session store never keeps the credential of a job that is over.
THEOREM NoCredentialLeft == Spec => []CredentialsDisposed
<1>1. Spec => [](TypeOK /\ Holders /\ Disposal)
  BY TypeInit, TypeStep, HoldersInit, HoldersStep, DisposalInit, DisposalStep, PTL
  DEF Spec
<1>2. TypeOK /\ Holders /\ Disposal => CredentialsDisposed
  BY DEF Disposal
<1> QED
  BY <1>1, <1>2, PTL

-----------------------------------------------------------------------------
(* Whose credential.                                                       *)

\* The worker that runs the job of a switch may still read its credential.
Serving(w) == pc[w] \notin {"idle", "clear", "release"}

\* Inductive form of WorkerUsesItsOwnCredential: from the moment a requester
\* has saved the account to the moment the worker has it, the session entry
\* is that account or gone.
Ownership ==
    /\ WorkerUsesItsOwnCredential
    /\ \A w \in Workers : ~Serving(w) => pc[w] = "clear" \/ cred[w] = NoCred
    /\ \A r \in Requesters : pc[r] \in {"save", "put"} => asked[arg[r]] = r
    /\ \A r \in Requesters : pc[r] = "put" => session[arg[r]] \in {NoCred, r}
    /\ \A i \in 1..Len(queue) : session[queue[i]] \in {NoCred, asked[queue[i]]}
    /\ \A w \in Workers : Serving(w) => session[arg[w]] \in {NoCred, asked[arg[w]]}

LEMMA OwnershipInit == Init => Ownership
  BY DEF Init, Ownership, WorkerUsesItsOwnCredential, Serving, Threads

LEMMA OwnershipStep == TypeOK /\ Holders /\ Ownership /\ [Next]_vars => Ownership'
<1> SUFFICES ASSUME TypeOK, Holders, Ownership, [Next]_vars PROVE Ownership'
  OBVIOUS
<1> USE ThreadsAssumption, ConstantsAssumption
    DEF Goto, Leave, Unmark, Dispose, Threads, Ownership,
        WorkerUsesItsOwnCredential, Serving, TypeOK
<1>1. ASSUME NEW r \in Requesters, NEW s \in Switches, Accept(r, s) PROVE Ownership'
  <2>1. /\ \A i \in 1..Len(queue) : queue[i] # s
        /\ \A t \in Threads : Holding(t) => arg[t] # s
    BY <1>1 DEF Accept, Holders, SingleHolder
  <2> QED
    BY <1>1, <2>1 DEF Accept, Holding
<1>2. ASSUME NEW r \in Requesters, NEW s \in Switches, Reject(r, s) PROVE Ownership'
  BY <1>2 DEF Reject, vars
<1>3. ASSUME NEW r \in Requesters, RequesterStep(r) PROVE Ownership'
  <2>1. CASE Save(r)
    <3>1. /\ \A i \in 1..Len(queue) : queue[i] # arg[r]
          /\ \A t \in Threads \ {r} : Holding(t) => arg[t] # arg[r]
      BY <2>1 DEF Save, Holders, SingleHolder, Holding
    <3> QED
      BY <2>1, <3>1 DEF Save, Holding
  <2>2. CASE Put(r)
    <3>1. /\ Len(queue) \in Nat
          /\ Len(queue') = Len(queue) + 1
          /\ \A i \in 1..Len(queue) : queue'[i] = queue[i]
          /\ queue'[Len(queue) + 1] = arg[r]
      BY <2>2, AppendProperties, LenProperties DEF Put
    <3> QED
      BY <2>2, <3>1 DEF Put
  <2>3. CASE PutFull(r)
    BY <2>3 DEF PutFull
  <2>4. CASE AbortUnmark(r)
    <3>1. /\ \A i \in 1..Len(queue) : queue[i] # arg[r]
          /\ \A t \in Threads \ {r} : Holding(t) => arg[t] # arg[r]
      BY <2>4 DEF AbortUnmark, Holders, SingleHolder, Holding
    <3> QED
      BY <2>4, <3>1 DEF AbortUnmark, Holding
  <2>5. CASE AbortDispose(r)
    BY <2>5 DEF AbortDispose
  <2> QED
    BY <1>3, <2>1, <2>2, <2>3, <2>4, <2>5 DEF RequesterStep
<1>4. ASSUME NEW c \in Cancellers, CancelStart(c) \/ CancellerStep(c) PROVE Ownership'
  <2>1. CASE CancelUnmark(c)
    <3>1. /\ \A i \in 1..Len(queue) : queue[i] # arg[c]
          /\ \A t \in Threads \ {c} : Holding(t) => arg[t] # arg[c]
      BY <2>1 DEF CancelUnmark, Holders, SingleHolder, Holding
    <3> QED
      BY SMTT(30), <2>1, <3>1 DEF CancelUnmark, Holding
  <2>2. CASE CancelClear(c)
    BY <2>2 DEF CancelClear
  <2>3. CASE CancelPop(c)
    BY <2>3, QueueTail DEF CancelPop
  <2>4. CASE CancelStart(c) \/ CancelEnd(c) \/ CancelRead(c) \/ CancelReset(c)
    BY <2>4 DEF CancelStart, CancelEnd, CancelRead, CancelReset
  <2> QED
    BY <1>4, <2>1, <2>2, <2>3, <2>4 DEF CancellerStep
<1>5. ASSUME NEW w \in Workers, WorkerStep(w) PROVE Ownership'
  <2>1. CASE Take(w)
    BY <2>1, QueueTail DEF Take
  <2>2. CASE Load(w)
    BY <2>2 DEF Load
  <2>3. CASE \/ Raise(w) \/ Begin(w) \/ MarkCollecting(w)
             \/ Device(w) \/ Finish(w) \/ Recover(w) \/ Fail(w)
             \/ FailLost(w) \/ RaiseAlarm(w)
    <3>1. /\ Serving(w)
          /\ \E l \in WorkerPc \ {"idle", "release"} : pc' = [pc EXCEPT ![w] = l]
          /\ queue' = queue /\ session' = session /\ arg' = arg
          /\ cred' = cred /\ asked' = asked
      BY <2>3 DEF Raise, Begin, MarkCollecting, Device, Finish, Recover,
                  Fail, FailLost, RaiseAlarm, WorkerPc
    <3> QED
      BY <3>1
  <2>4. CASE Clear(w)
    BY <2>4 DEF Clear
  <2>5. CASE Release(w)
    <3>1. /\ \A i \in 1..Len(queue) : queue[i] # arg[w]
          /\ \A t \in Threads \ {w} : Holding(t) => arg[t] # arg[w]
      BY <2>5 DEF Release, Holders, SingleHolder, Holding
    <3> QED
      BY <2>5, <3>1 DEF Release, Holding
  <2> QED
    BY <1>5, <2>1, <2>2, <2>3, <2>4, <2>5 DEF WorkerStep
<1>6. ASSUME Crash PROVE Ownership'
  BY <1>6 DEF Crash
<1>7. CASE UNCHANGED vars
  BY <1>7 DEF vars
<1> QED
  BY <1>1, <1>2, <1>3, <1>4, <1>5, <1>6, <1>7 DEF Next

\* A worker never logs in to a switch with an account given for another
\* request.
THEOREM OwnCredential == Spec => []WorkerUsesItsOwnCredential
<1>1. Spec => [](TypeOK /\ Holders /\ Ownership)
  BY TypeInit, TypeStep, HoldersInit, HoldersStep, OwnershipInit, OwnershipStep, PTL
  DEF Spec
<1>2. TypeOK /\ Holders /\ Ownership => WorkerUsesItsOwnCredential
  BY DEF Ownership
<1> QED
  BY <1>1, <1>2, PTL

-----------------------------------------------------------------------------
(* The queue never fills.                                                  *)

\* A sequence without repetition over a set that misses one switch is shorter
\* than the number of switches.
LEMMA ShortQueue ==
    ASSUME NEW q \in Seq(Switches), NEW s \in Switches,
           \A i, j \in 1..Len(q) : i # j => q[i] # q[j],
           \A i \in 1..Len(q) : q[i] # s
    PROVE  Len(q) < Cardinality(Switches)
<1> DEFINE Others == Switches \ {s}
<1>1. /\ IsFiniteSet(Others)
      /\ Cardinality(Others) = Cardinality(Switches) - 1
      /\ Cardinality(Switches) \in Nat
  BY ConstantsAssumption, FS_RemoveElement, FS_CardinalityType
<1>2. Len(q) \in Nat /\ q \in [1..Len(q) -> Switches]
  BY LenProperties
<1>3. Cardinality(1..Len(q)) = Len(q) /\ IsFiniteSet(1..Len(q))
  <2>1. 1 \in Int /\ Len(q) \in Int
    BY <1>2
  <2>2. /\ IsFiniteSet(1..Len(q))
        /\ Cardinality(1..Len(q)) = IF 1 > Len(q) THEN 0 ELSE Len(q) - 1 + 1
    BY <2>1, FS_Interval
  <2> QED
    BY <1>2, <2>2
<1>4. SUFFICES ASSUME Cardinality(Others) < Cardinality(1..Len(q)) PROVE FALSE
  BY <1>1, <1>2, <1>3
<1>5. q \in [1..Len(q) -> Others]
  BY <1>2
<1>6. \E i, j \in 1..Len(q) : i # j /\ q[i] = q[j]
  BY <1>1, <1>3, <1>4, <1>5, FS_PigeonHole
<1> QED
  BY <1>6

\* With a maxsize of at least the number of switches no request is refused
\* with "Queue is full": the switch being enqueued is not in the queue yet.
THEOREM QueueNeverFull == Spec => []NeverFull
<1>1. Spec => [](TypeOK /\ Holders)
  BY TypeInit, TypeStep, HoldersInit, HoldersStep, PTL DEF Spec
<1>2. TypeOK /\ Holders => NeverFull
  <2> SUFFICES ASSUME TypeOK, Holders, QueueMax >= Cardinality(Switches),
                      NEW r \in Requesters, pc[r] = "put"
               PROVE  Len(queue) < QueueMax
    BY DEF NeverFull
  <2>1. Holding(r) /\ r \in Threads /\ arg[r] \in Switches
    BY DEF Holding, Threads, TypeOK
  <2>2. Len(queue) < Cardinality(Switches)
    BY <2>1, ShortQueue DEF TypeOK, Holders, SingleHolder
  <2>3. Len(queue) \in Nat /\ Cardinality(Switches) \in Nat /\ QueueMax \in Nat
    BY ConstantsAssumption, FS_CardinalityType, LenProperties DEF TypeOK
  <2> QED
    BY <2>2, <2>3
<1> QED
  BY <1>1, <1>2, PTL

-----------------------------------------------------------------------------
(* Status and alarms.                                                      *)

\* What a worker knows about the row of its switch.  Once the outcome is
\* written (or its write is lost) nobody else turns it back to 'collecting';
\* a worker that saw 'failed' has an announced outage before it.
StatusInv ==
    /\ CollectingIsAttended
    /\ FailureAnnounced
    /\ \A w \in Workers :
        /\ pc[w] = "recover" => status[arg[w]] \notin {"collecting", "failed"}
        /\ pc[w] = "alarm" => status[arg[w]] # "collecting"
        /\ pc[w] \in {"clear", "release"} =>
              status[arg[w]] # "collecting" \/ arg[w] \in lost
        /\ pc[w] \notin {"idle", "clear", "release"} /\ prev[w] = "failed" =>
              alarm[arg[w]] = "unreachable" \/ arg[w] \in lost
        /\ pc[w] \in {"idle", "begin"} => prev[w] = "none"

LEMMA StatusInit == Init => StatusInv
  BY DEF Init, StatusInv, CollectingIsAttended, FailureAnnounced, Threads

\* Steps that touch neither the rows nor a worker's view of them.
LEMMA StatusKept ==
    ASSUME TypeOK, StatusInv,
           status' = status, alarm' = alarm, lost' = lost, prev' = prev,
           \A w \in Workers : pc'[w] = pc[w] /\ arg'[w] = arg[w]
    PROVE  StatusInv'
  BY DEF StatusInv, CollectingIsAttended, FailureAnnounced, Running

LEMMA StatusStep == TypeOK /\ Holders /\ StatusInv /\ [Next]_vars => StatusInv'
<1> SUFFICES ASSUME TypeOK, Holders, StatusInv, [Next]_vars PROVE StatusInv'
  OBVIOUS
<1> USE ThreadsAssumption, ConstantsAssumption
    DEF Goto, Leave, Unmark, Dispose, SetStatus, Threads, TypeOK
<1>1. ASSUME NEW r \in Requesters, NEW s \in Switches, Accept(r, s) PROVE StatusInv'
  BY <1>1, StatusKept DEF Accept
<1>2. ASSUME NEW r \in Requesters, NEW s \in Switches, Reject(r, s) PROVE StatusInv'
  BY <1>2, StatusKept DEF Reject, vars
<1>3. ASSUME NEW r \in Requesters, RequesterStep(r) PROVE StatusInv'
  BY <1>3, StatusKept DEF RequesterStep, Save, Put, PutFull, AbortUnmark, AbortDispose
<1>4. ASSUME NEW c \in Cancellers, CancelStart(c) \/ CancellerStep(c) PROVE StatusInv'
  <2>1. CASE CancelReset(c) /\ status' = [status EXCEPT ![arg[c]] = "new"]
    BY <2>1 DEF CancelReset, StatusInv, CollectingIsAttended, FailureAnnounced, Running
  <2>2. CASE CancelReset(c) /\ status' = status
    BY <2>2, StatusKept DEF CancelReset
  <2>3. CASE \/ CancelStart(c) \/ CancelPop(c) \/ CancelEnd(c)
             \/ CancelUnmark(c) \/ CancelClear(c) \/ CancelRead(c)
    BY <2>3, StatusKept DEF CancelStart, CancelPop, CancelEnd, CancelUnmark,
                            CancelClear, CancelRead
  <2> QED
    BY <1>4, <2>1, <2>2, <2>3 DEF CancellerStep, CancelReset
<1>5. ASSUME NEW w \in Workers, WorkerStep(w) PROVE StatusInv'
  <2> DEFINE s == arg[w]
  <2>0. pc[w] # "idle" =>
          /\ s \in Switches
          /\ \A v \in Workers \ {w} : pc[v] # "idle" => arg[v] # s
    BY DEF Holders, SingleHolder, Holding
  <2> USE DEF StatusInv, CollectingIsAttended, FailureAnnounced, Running
  <2>1. CASE Take(w)
    BY <2>1 DEF Take
  <2>2. CASE Raise(w)
    BY <2>2, <2>0 DEF Raise
  <2>3. CASE Begin(w)
    BY <2>3, <2>0 DEF Begin
  <2>4. CASE MarkCollecting(w)
    BY <2>4, <2>0 DEF MarkCollecting
  <2>5. CASE Load(w)
    BY <2>5, <2>0 DEF Load
  <2>6. CASE Device(w)
    BY <2>6, <2>0 DEF Device
  <2>7. CASE Finish(w)
    BY <2>7, <2>0 DEF Finish
  <2>8. CASE Recover(w)
    BY <2>8, <2>0 DEF Recover
  <2>9. CASE Fail(w)
    BY <2>9, <2>0 DEF Fail
  <2>10. CASE FailLost(w)
    BY <2>10, <2>0 DEF FailLost
  <2>11. CASE RaiseAlarm(w)
    <3>1. /\ pc[w] = "alarm" /\ s \in Switches /\ status[s] # "collecting"
          /\ pc' = [pc EXCEPT ![w] = "clear"]
          /\ status' = status /\ arg' = arg /\ prev' = prev
          /\ \A v \in Workers \ {w} : pc[v] # "idle" => arg[v] # s
      BY <2>11, <2>0 DEF RaiseAlarm
    <3>2. CASE alarm' = [alarm EXCEPT ![s] = "unreachable"] /\ lost' = lost \ {s}
      BY <3>1, <3>2
    <3>3. CASE alarm' = alarm /\ lost' = lost \cup {s}
      BY <3>1, <3>3
    <3> QED
      BY <2>11, <3>2, <3>3 DEF RaiseAlarm
  <2>12. CASE Clear(w)
    BY <2>12, <2>0 DEF Clear
  <2>13. CASE Release(w)
    BY <2>13, <2>0 DEF Release
  <2> QED
    BY <1>5, <2>1, <2>2, <2>3, <2>4, <2>5, <2>6, <2>7, <2>8, <2>9, <2>10,
       <2>11, <2>12, <2>13 DEF WorkerStep
<1>6. ASSUME Crash PROVE StatusInv'
  BY <1>6 DEF Crash, StatusInv, CollectingIsAttended, FailureAnnounced, Running
<1>7. CASE UNCHANGED vars
  BY <1>7, StatusKept DEF vars
<1> QED
  BY <1>1, <1>2, <1>3, <1>4, <1>5, <1>6, <1>7 DEF Next

\* A row that says 'collecting' has a worker on it or lost its last write.
THEOREM NoStrandedCollecting == Spec => []CollectingIsAttended
<1>1. Spec => [](TypeOK /\ Holders /\ StatusInv)
  BY TypeInit, TypeStep, HoldersInit, HoldersStep, StatusInit, StatusStep, PTL
  DEF Spec
<1>2. TypeOK /\ Holders /\ StatusInv => CollectingIsAttended
  BY DEF StatusInv
<1> QED
  BY <1>1, <1>2, PTL

\* A row that says 'failed' has been announced or lost its announcement.
THEOREM NoSilentFailure == Spec => []FailureAnnounced
<1>1. Spec => [](TypeOK /\ Holders /\ StatusInv)
  BY TypeInit, TypeStep, HoldersInit, HoldersStep, StatusInit, StatusStep, PTL
  DEF Spec
<1>2. TypeOK /\ Holders /\ StatusInv => FailureAnnounced
  BY DEF StatusInv
<1> QED
  BY <1>1, <1>2, PTL

-----------------------------------------------------------------------------
(* Refinement of SingleFlight.                                             *)

\* Nothing about jobs changes when the same threads hold the same switches.
LEMMA SameJobs ==
    ASSUME TypeOK, queue' = queue,
           \A t \in Threads : Holding(t)' <=> Holding(t),
           \A t \in Threads : Holding(t) => arg'[t] = arg[t]
    PROVE  JobMap' = JobMap
<1>1. \A s \in Switches : /\ Queued(s)' <=> Queued(s)
                          /\ Held(s)' <=> Held(s)
                          /\ Running(s)' <=> Running(s)
  BY ThreadsAssumption DEF Queued, Held, Running, Holding, Threads
<1> QED
  BY <1>1 DEF JobMap, JobOf

\* A step that changes the job of one switch only.
LEMMA OneJob ==
    ASSUME NEW s \in Switches, NEW to,
           JobOf(s)' = to,
           \A u \in Switches \ {s} : JobOf(u)' = JobOf(u)
    PROVE  JobMap' = [JobMap EXCEPT ![s] = to]
  BY DEF JobMap

\* Only thread t may take or leave a switch.
OnlyThread(t) ==
    \A u \in Threads \ {t} : (Holding(u)' <=> Holding(u)) /\ arg'[u] = arg[u]

\* A thread takes switch a.
LEMMA Takes ==
    ASSUME NEW t \in Threads, NEW a \in Switches, OnlyThread(t),
           ~Holding(t), Holding(t)', arg'[t] = a
    PROVE  /\ \A s \in Switches \ {a} : Held(s)' <=> Held(s)
           /\ \A s \in Switches \ {a} : Running(s)' <=> Running(s)
           /\ Held(a)'
           /\ Running(a)' <=> Running(a) \/ t \in Workers
<1>1. \A w \in Workers : w \in Threads /\ (Holding(w) <=> pc[w] # "idle")
                         /\ (Holding(w)' <=> pc'[w] # "idle")
  BY ThreadsAssumption DEF Holding, Threads
<1>2. \A s \in Switches \ {a} : Held(s)' <=> Held(s)
  BY DEF Held, OnlyThread
<1>3. \A s \in Switches \ {a} : Running(s)' <=> Running(s)
  BY <1>1 DEF Running, OnlyThread
<1>4. Held(a)'
  BY DEF Held
<1>5. Running(a)' <=> Running(a) \/ t \in Workers
  BY <1>1 DEF Running, OnlyThread
<1> QED
  BY <1>2, <1>3, <1>4, <1>5

\* A thread leaves switch a.  Nobody else had it.
LEMMA Leaves ==
    ASSUME Holders, NEW t \in Threads, NEW a \in Switches, OnlyThread(t),
           Holding(t), ~Holding(t)', arg[t] = a
    PROVE  /\ \A s \in Switches \ {a} : Held(s)' <=> Held(s)
           /\ \A s \in Switches \ {a} : Running(s)' <=> Running(s)
           /\ Held(a) /\ ~Queued(a)
           /\ ~Held(a)' /\ ~Running(a)'
           /\ Running(a) <=> t \in Workers
<1>1. \A w \in Workers : w \in Threads /\ (Holding(w) <=> pc[w] # "idle")
                         /\ (Holding(w)' <=> pc'[w] # "idle")
  BY ThreadsAssumption DEF Holding, Threads
<1>2. \A u \in Threads \ {t} : Holding(u) => arg[u] # a
  BY DEF Holders, SingleHolder
<1>3. \A s \in Switches \ {a} : Held(s)' <=> Held(s)
  BY DEF Held, OnlyThread
<1>4. \A s \in Switches \ {a} : Running(s)' <=> Running(s)
  BY <1>1 DEF Running, OnlyThread
<1>5. Held(a) /\ ~Queued(a)
  BY DEF Held, Queued, Holders, SingleHolder
<1>6. ~Held(a)' /\ ~Running(a)'
  BY <1>1, <1>2 DEF Held, Running, OnlyThread
<1>7. Running(a) <=> t \in Workers
  BY <1>1, <1>2 DEF Running
<1> QED
  BY <1>3, <1>4, <1>5, <1>6, <1>7

\* A switch without a mark has no job.
LEMMA Unmarked ==
    ASSUME Holders, NEW s \in Switches, s \notin marks
    PROVE  ~Queued(s) /\ ~Held(s) /\ ~Running(s)
  BY ThreadsAssumption DEF Holders, SingleHolder, Queued, Held, Running, Holding, Threads

\* What follows a step that takes the head of the queue.
LEMMA HeadTaken ==
    ASSUME TypeOK, Holders, queue # <<>>, queue' = Tail(queue)
    PROVE  /\ Head(queue) \in Switches
           /\ Queued(Head(queue)) /\ ~Held(Head(queue)) /\ ~Running(Head(queue))
           /\ \A s \in Switches \ {Head(queue)} : Queued(s)' <=> Queued(s)
<1> DEFINE a == Head(queue)
<1>1. /\ a \in Switches /\ a = queue[1] /\ 1 \in 1..Len(queue)
      /\ Len(queue) \in Nat \ {0}
      /\ Len(queue') = Len(queue) - 1
      /\ \A i \in 1..Len(queue') : queue'[i] = queue[i + 1] /\ i + 1 \in 1..Len(queue)
  BY QueueTail DEF TypeOK
<1>2. Queued(a) /\ ~Held(a)
  BY <1>1 DEF Queued, Held, Holders, SingleHolder
<1>3. ~Running(a)
  BY <1>2, ThreadsAssumption DEF Held, Running, Holding, Threads
<1>4. ASSUME NEW s \in Switches \ {a} PROVE Queued(s)' <=> Queued(s)
  <2>1. ASSUME NEW i \in 1..Len(queue), queue[i] = s PROVE Queued(s)'
    <3>1. i - 1 \in 1..Len(queue') /\ queue'[i - 1] = s
      BY <1>1, <2>1
    <3> QED
      BY <3>1 DEF Queued
  <2>2. ASSUME NEW i \in 1..Len(queue'), queue'[i] = s PROVE Queued(s)
    BY <1>1, <2>2 DEF Queued
  <2> QED
    BY <2>1, <2>2 DEF Queued
<1> QED
  BY <1>1, <1>2, <1>3, <1>4

LEMMA FlightInit == Init => Flight!Init
  BY ThreadsAssumption
  DEF Init, Flight!Init, JobMap, JobOf, Running, Queued, Held, Holding, Threads

LEMMA FlightStep ==
    TypeOK /\ TypeOK' /\ Holders /\ Holders' /\ [Next]_vars => [Flight!Next]_JobMap
<1> SUFFICES ASSUME TypeOK, TypeOK', Holders, Holders', [Next]_vars
             PROVE  [Flight!Next]_JobMap
  OBVIOUS
<1> USE ThreadsAssumption DEF Goto, Leave, Unmark, Threads
<1> DEFINE Same == /\ queue' = queue
                   /\ \A t \in Threads : Holding(t)' <=> Holding(t)
                   /\ \A t \in Threads : Holding(t) => arg'[t] = arg[t]
<1>0. Same => JobMap' = JobMap
  BY SameJobs
<1>1. ASSUME NEW s \in Switches, NEW to \in {"idle", "pending", "running"},
             JobOf(s)' = to, \A u \in Switches \ {s} : JobOf(u)' = JobOf(u),
             \/ JobOf(s) = "idle" /\ to = "pending"
             \/ JobOf(s) = "pending" /\ to \in {"idle", "running"}
             \/ JobOf(s) = "running" /\ to = "idle"
      PROVE  Flight!Next
  <2>1. JobMap[s] = JobOf(s) /\ JobMap' = [JobMap EXCEPT ![s] = to]
    BY <1>1, OneJob DEF JobMap
  <2>2. Flight!Move(s, JobOf(s), to)
    BY <2>1 DEF Flight!Move
  <2> QED
    BY <1>1, <2>2
    DEF Flight!Next, Flight!Submit, Flight!Cancel, Flight!Start, Flight!Finish
<1>2. ASSUME NEW r \in Requesters, NEW s \in Switches, Accept(r, s) PROVE Flight!Next
  <2>1. /\ s \notin marks /\ queue' = queue /\ r \in Threads /\ r \notin Workers
        /\ ~Holding(r) /\ Holding(r)' /\ arg'[r] = s /\ OnlyThread(r)
    BY <1>2 DEF Accept, Holding, OnlyThread, TypeOK
  <2>2. ~Queued(s) /\ ~Held(s) /\ ~Running(s)
    BY <2>1, Unmarked
  <2>3. /\ Held(s)' /\ ~Running(s)'
        /\ \A u \in Switches \ {s} : (Held(u)' <=> Held(u)) /\ (Running(u)' <=> Running(u))
    BY <2>1, <2>2, Takes
  <2>4. \A u \in Switches : Queued(u)' <=> Queued(u)
    BY <2>1 DEF Queued
  <2>5. /\ JobOf(s) = "idle" /\ JobOf(s)' = "pending"
        /\ \A u \in Switches \ {s} : JobOf(u)' = JobOf(u)
    BY <2>2, <2>3, <2>4 DEF JobOf
  <2> QED
    BY <1>1, <2>5
<1>3. ASSUME NEW r \in Requesters, NEW s \in Switches, Reject(r, s) PROVE JobMap' = JobMap
  BY <1>3, <1>0 DEF Reject, vars, Holding
\* An unmarking thread that is not a worker cancels a pending job.
<1>4. ASSUME NEW t \in Threads, t \notin Workers, NEW a \in Switches, OnlyThread(t),
             Holding(t), ~Holding(t)', arg[t] = a, queue' = queue
      PROVE  Flight!Next
  <2>1. /\ Held(a) /\ ~Queued(a) /\ ~Held(a)' /\ ~Running(a)' /\ ~Running(a)
        /\ \A u \in Switches \ {a} : (Held(u)' <=> Held(u)) /\ (Running(u)' <=> Running(u))
    BY <1>4, Leaves
  <2>2. \A u \in Switches : Queued(u)' <=> Queued(u)
    BY <1>4 DEF Queued
  <2>3. /\ JobOf(a) = "pending" /\ JobOf(a)' = "idle"
        /\ \A u \in Switches \ {a} : JobOf(u)' = JobOf(u)
    BY <2>1, <2>2 DEF JobOf
  <2> QED
    BY <1>1, <2>3
<1>5. ASSUME NEW r \in Requesters, RequesterStep(r) PROVE [Flight!Next]_JobMap
  <2>1. CASE Save(r)
    BY <2>1, <1>0 DEF Save, Holding, TypeOK
  <2>2. CASE Put(r)
    <3>1. PICK a \in Switches : a = arg[r]
      BY <2>2 DEF Put, TypeOK
    <3>2. /\ r \in Threads /\ r \notin Workers
          /\ Holding(r) /\ ~Holding(r)' /\ OnlyThread(r)
      BY <2>2 DEF Put, Holding, OnlyThread, TypeOK
    <3>3. /\ Held(a) /\ ~Running(a)' /\ ~Running(a)
          /\ \A u \in Switches \ {a} : (Held(u)' <=> Held(u)) /\ (Running(u)' <=> Running(u))
      BY <3>1, <3>2, Leaves
    <3>4. /\ queue' = Append(queue, a) /\ Len(queue) \in Nat
          /\ Len(queue') = Len(queue) + 1
          /\ \A i \in 1..Len(queue) : queue'[i] = queue[i]
          /\ queue'[Len(queue) + 1] = a
      BY <2>2, <3>1, AppendProperties, LenProperties DEF Put, TypeOK
    <3>5. Queued(a)' /\ \A u \in Switches \ {a} : Queued(u)' <=> Queued(u)
      BY <3>4 DEF Queued
    <3>6. \A u \in Switches : JobOf(u)' = JobOf(u)
      BY <3>3, <3>5 DEF JobOf
    <3> QED
      BY <3>6 DEF JobMap
  <2>3. CASE PutFull(r)
    BY <2>3, <1>0 DEF PutFull, Holding, TypeOK
  <2>4. CASE AbortUnmark(r)
    <3>1. /\ arg[r] \in Switches /\ r \in Threads /\ r \notin Workers /\ queue' = queue
          /\ Holding(r) /\ ~Holding(r)' /\ OnlyThread(r)
      BY <2>4 DEF AbortUnmark, Holding, OnlyThread, TypeOK
    <3> QED
      BY <1>4, <3>1
  <2>5. CASE AbortDispose(r)
    BY <2>5, <1>0 DEF AbortDispose, Holding, TypeOK
  <2> QED
    BY <1>5, <2>1, <2>2, <2>3, <2>4, <2>5 DEF RequesterStep
<1>6. ASSUME NEW c \in Cancellers, CancelStart(c) PROVE JobMap' = JobMap
  BY <1>6, <1>0 DEF CancelStart, Holding, TypeOK
\* Who takes the head of the queue: a canceller keeps it pending, a worker
\* starts it.
<1>7. ASSUME NEW t \in Threads, TakesHead(t) PROVE [Flight!Next]_JobMap
  <2>1. PICK a \in Switches : a = Head(queue)
    BY <1>7, QueueTail DEF TakesHead, TypeOK
  <2>2. /\ ~Holding(t) /\ Holding(t)' /\ arg'[t] = a /\ OnlyThread(t)
    BY <1>7, <2>1 DEF TakesHead, Holding, OnlyThread, TypeOK
  <2>3. /\ Queued(a) /\ ~Held(a) /\ ~Running(a)
        /\ \A u \in Switches \ {a} : Queued(u)' <=> Queued(u)
    BY <1>7, <2>1, HeadTaken DEF TakesHead
  <2>4. /\ Held(a)' /\ (Running(a)' <=> t \in Workers)
        /\ \A u \in Switches \ {a} : (Held(u)' <=> Held(u)) /\ (Running(u)' <=> Running(u))
    BY <2>2, <2>3, Takes
  <2>5. JobOf(a) = "pending" /\ \A u \in Switches \ {a} : JobOf(u)' = JobOf(u)
    BY <2>3, <2>4 DEF JobOf
  <2>6. CASE t \in Workers
    <3>1. JobOf(a)' = "running"
      BY <2>4, <2>6 DEF JobOf
    <3> QED
      BY <1>1, <2>5, <3>1
  <2>7. CASE t \notin Workers
    <3>1. JobOf(a)' = "pending"
      BY <2>4, <2>7 DEF JobOf
    <3> QED
      BY <2>5, <3>1 DEF JobMap
  <2> QED
    BY <2>6, <2>7
<1>8. ASSUME NEW c \in Cancellers, CancellerStep(c) PROVE [Flight!Next]_JobMap
  <2>1. CASE CancelPop(c)
    BY <2>1, <1>7 DEF CancelPop, TakesHead
  <2>2. CASE CancelEnd(c)
    BY <2>2, <1>0 DEF CancelEnd, Holding, TypeOK
  <2>3. CASE CancelUnmark(c)
    <3>1. /\ arg[c] \in Switches /\ c \in Threads /\ c \notin Workers /\ queue' = queue
          /\ Holding(c) /\ ~Holding(c)' /\ OnlyThread(c)
      BY <2>3 DEF CancelUnmark, Holding, OnlyThread, TypeOK
    <3> QED
      BY <1>4, <3>1
  <2>4. CASE CancelClear(c)
    BY <2>4, <1>0 DEF CancelClear, Holding, TypeOK
  <2>5. CASE CancelRead(c)
    BY <2>5, <1>0 DEF CancelRead, Holding, TypeOK
  <2>6. CASE CancelReset(c)
    BY <2>6, <1>0 DEF CancelReset, Holding, TypeOK
  <2> QED
    BY <1>8, <2>1, <2>2, <2>3, <2>4, <2>5, <2>6 DEF CancellerStep
<1>9. ASSUME NEW w \in Workers, WorkerStep(w) PROVE [Flight!Next]_JobMap
  <2>1. CASE Take(w)
    BY <2>1, <1>7 DEF Take, TakesHead
  <2>2. CASE \/ Raise(w) \/ Begin(w) \/ MarkCollecting(w) \/ Load(w)
             \/ Device(w) \/ Finish(w) \/ Recover(w) \/ Fail(w)
             \/ FailLost(w) \/ RaiseAlarm(w) \/ Clear(w)
    <3>1. /\ pc[w] # "idle" /\ \E l \in WorkerPc \ {"idle"} : pc' = [pc EXCEPT ![w] = l]
          /\ queue' = queue /\ arg' = arg
      BY <2>2 DEF Raise, Begin, MarkCollecting, Load, Device, Finish, Recover,
                  Fail, FailLost, RaiseAlarm, Clear, WorkerPc
    <3> QED
      BY <3>1, <1>0 DEF Holding, TypeOK
  <2>3. CASE Release(w)
    <3>1. PICK a \in Switches : a = arg[w]
      BY <2>3 DEF Release, TypeOK
    <3>2. /\ w \in Threads /\ queue' = queue
          /\ Holding(w) /\ ~Holding(w)' /\ OnlyThread(w)
      BY <2>3 DEF Release, Holding, OnlyThread, TypeOK
    <3>3. /\ Running(a) /\ ~Queued(a) /\ ~Held(a)' /\ ~Running(a)'
          /\ \A u \in Switches \ {a} : (Held(u)' <=> Held(u)) /\ (Running(u)' <=> Running(u))
      BY <3>1, <3>2, Leaves
    <3>4. \A u \in Switches : Queued(u)' <=> Queued(u)
      BY <3>2 DEF Queued
    <3>5. /\ JobOf(a) = "running" /\ JobOf(a)' = "idle"
          /\ \A u \in Switches \ {a} : JobOf(u)' = JobOf(u)
      BY <3>3, <3>4 DEF JobOf
    <3> QED
      BY <1>1, <3>5
  <2> QED
    BY <1>9, <2>1, <2>2, <2>3 DEF WorkerStep
<1>10. ASSUME Crash PROVE Flight!Next
  <2>1. \A s \in Switches : ~Running(s)' /\ ~Queued(s)' /\ ~Held(s)'
    BY <1>10 DEF Crash, Running, Queued, Held, Holding
  <2>2. JobMap' = [s \in Switches |-> "idle"]
    BY <2>1 DEF JobMap, JobOf
  <2> QED
    BY <2>2 DEF Flight!Next, Flight!Restart
<1>11. CASE UNCHANGED vars
  BY <1>11, <1>0 DEF vars, Holding
<1> QED
  BY <1>2, <1>3, <1>5, <1>6, <1>8, <1>9, <1>10, <1>11 DEF Next

\* The collector, whatever its threads, faults and restarts do, gives each
\* switch one job at a time: every step is a step of SingleFlight or none.
THEOREM Refinement == Spec => ImplementsSingleFlight
<1>1. Spec => [](TypeOK /\ Holders)
  BY TypeInit, TypeStep, HoldersInit, HoldersStep, PTL DEF Spec
<1>2. [](TypeOK /\ Holders) /\ [][Next]_vars => [][Flight!Next]_JobMap
  BY FlightStep, PTL
<1> QED
  BY <1>1, <1>2, FlightInit, PTL DEF Spec, ImplementsSingleFlight, Flight!Spec
=============================================================================
