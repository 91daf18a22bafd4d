------------------------ MODULE InstanceLock_proofs ------------------------
(***************************************************************************)
(* Proofs about InstanceLock for any set of PCs and any number of starts,  *)
(* crashes and faults of the share.                                        *)
(***************************************************************************)
EXTENDS InstanceLock, TLAPS

LEMMA TypeInit == Init => TypeOK
  BY InstanceAssumption DEF Init, TypeOK, Pc

LEMMA TypeStep == TypeOK /\ [Next]_vars => TypeOK'
<1> SUFFICES ASSUME TypeOK, [Next]_vars PROVE TypeOK'
  OBVIOUS
<1> USE InstanceAssumption
    DEF TypeOK, Pc, Goto, Fault, OpenFails, Blocked, Locks, WriteInfo
<1>1. ASSUME NEW h \in Hosts, Launch(h) PROVE TypeOK'
  BY <1>1 DEF Launch
<1>2. ASSUME NEW h \in Hosts, Step(h) PROVE TypeOK'
  <2>1. CASE Acquire(h)
    <3>1. CASE OpenFails
      <4>1. UNCHANGED <<info, services, launches>>
        BY <2>1 DEF Acquire
      <4>2. holder' \in Hosts \cup {None} /\ faults' \in 0..MaxFaults
        BY <3>1
      <4>3. pc' \in [Hosts -> Pc]
        BY <2>1 DEF Acquire
      <4>4. /\ READONLY' \in [Hosts -> BOOLEAN]
            /\ IS_READONLY' \in [Hosts -> BOOLEAN]
            /\ unlocked' \in [Hosts -> BOOLEAN]
        BY <2>1 DEF Acquire
      <4> QED
        BY <4>1, <4>2, <4>3, <4>4
    <3>2. CASE Locks(h) \/ Blocked
      <4>1. UNCHANGED <<info, services, launches>>
        BY <2>1 DEF Acquire
      <4>2. holder' \in Hosts \cup {None} /\ faults' \in 0..MaxFaults
        BY <3>2
      <4>3. pc' \in [Hosts -> Pc]
        BY <2>1 DEF Acquire
      <4>4. /\ READONLY' \in [Hosts -> BOOLEAN]
            /\ IS_READONLY' \in [Hosts -> BOOLEAN]
            /\ unlocked' \in [Hosts -> BOOLEAN]
        BY <2>1 DEF Acquire
      <4> QED
        BY <4>1, <4>2, <4>3, <4>4
    <3> QED
      BY <2>1, <3>1, <3>2 DEF Acquire
  <2>2. CASE Name(h)
    BY <2>2 DEF Name
  <2>3. CASE Start(h)
    <3>1. faults' \in 0..MaxFaults
      BY <2>3 DEF Start
    <3>2. pc' \in [Hosts -> Pc] /\ services' \in [Hosts -> BOOLEAN]
      BY <2>3 DEF Start
    <3> QED
      BY <2>3, <3>1, <3>2 DEF Start
  <2>4. CASE Watch(h)
    BY <2>4 DEF Watch
  <2>5. CASE Promote(h)
    BY <2>5 DEF Promote
  <2>6. CASE Begin(h)
    <3>1. faults' \in 0..MaxFaults
      BY <2>6 DEF Begin
    <3>2. pc' \in [Hosts -> Pc] /\ services' \in [Hosts -> BOOLEAN]
      BY <2>6 DEF Begin
    <3>3. IS_READONLY' \in [Hosts -> BOOLEAN]
      BY <2>6 DEF Begin
    <3> QED
      BY <2>6, <3>1, <3>2, <3>3 DEF Begin
  <2>7. CASE Unlock(h)
    BY <2>7 DEF Unlock
  <2>8. CASE EraseInfo(h)
    BY <2>8 DEF EraseInfo
  <2>9. CASE Back(h)
    BY <2>9 DEF Back
  <2>10. CASE End(h)
    BY <2>10 DEF End, Gone
  <2> QED
    BY <1>2, <2>1, <2>2, <2>3, <2>4, <2>5, <2>6, <2>7, <2>8, <2>9, <2>10 DEF Step
<1>3. ASSUME NEW h \in Hosts, Exit(h) PROVE TypeOK'
  BY <1>3 DEF Exit
<1>4. ASSUME NEW h \in Hosts, Crash(h) PROVE TypeOK'
  BY <1>4 DEF Crash, Gone
<1>5. CASE UNCHANGED vars
  BY <1>5 DEF vars
<1> QED
  BY <1>1, <1>2, <1>3, <1>4, <1>5 DEF Next

\* Every variable keeps to its type in every behaviour.
THEOREM TypeCorrect == Spec => []TypeOK
  BY TypeInit, TypeStep, PTL DEF Spec

-----------------------------------------------------------------------------
(* Who holds the lock, by where a process is.                              *)

Promoting == {"rename", "promote", "begin", "giveup"}

LockInv ==
    \A h \in Hosts :
        /\ pc[h] \in Promoting \cup {"name"} => holder = h
        /\ pc[h] \in {"start", "serving"} => holder = h \/ unlocked[h]
        /\ services[h] => pc[h] = "serving" \/ Exiting(h)
        /\ pc[h] = "serving" => services[h]
        /\ pc[h] \in Promoting \cup {"watch", "unname", "back"} => IS_READONLY[h]

LEMMA LockInit == Init => LockInv
  BY InstanceAssumption DEF Init, LockInv, Promoting, Exiting

LEMMA LockStep == TypeOK /\ LockInv /\ [Next]_vars => LockInv'
<1> SUFFICES ASSUME TypeOK, LockInv, [Next]_vars PROVE LockInv'
  OBVIOUS
<1> USE InstanceAssumption
    DEF LockInv, Promoting, Exiting, TypeOK, Goto, OpenFails, Blocked, Locks
<1>1. ASSUME NEW h \in Hosts, Launch(h) PROVE LockInv'
  BY <1>1 DEF Launch
<1>2. ASSUME NEW h \in Hosts, Step(h) PROVE LockInv'
  <2>1. CASE Acquire(h)
    BY <2>1 DEF Acquire
  <2>2. CASE Name(h)
    BY <2>2 DEF Name
  <2>3. CASE Start(h)
    BY <2>3 DEF Start
  <2>4. CASE Watch(h)
    BY <2>4 DEF Watch
  <2>5. CASE Promote(h)
    BY <2>5 DEF Promote
  <2>6. CASE Begin(h)
    BY <2>6 DEF Begin
  <2>7. CASE Unlock(h)
    BY <2>7 DEF Unlock
  <2>8. CASE EraseInfo(h)
    BY <2>8 DEF EraseInfo
  <2>9. CASE Back(h)
    BY <2>9 DEF Back
  <2>10. CASE End(h)
    BY <2>10 DEF End, Gone
  <2> QED
    BY <1>2, <2>1, <2>2, <2>3, <2>4, <2>5, <2>6, <2>7, <2>8, <2>9, <2>10 DEF Step
<1>3. ASSUME NEW h \in Hosts, Exit(h) PROVE LockInv'
  BY <1>3 DEF Exit
<1>4. ASSUME NEW h \in Hosts, Crash(h) PROVE LockInv'
  BY <1>4 DEF Crash, Gone
<1>5. CASE UNCHANGED vars
  BY <1>5 DEF vars
<1> QED
  BY <1>1, <1>2, <1>3, <1>4, <1>5 DEF Next

\* Whatever fails or crashes, two writers at once mean a start without the
\* lock file or a process on its way out.
THEOREM OneServerAtATime == Spec => []OneServer
<1>1. Spec => [](TypeOK /\ LockInv)
  BY TypeInit, TypeStep, LockInit, LockStep, PTL DEF Spec
<1>2. TypeOK /\ LockInv => OneServer
  BY DEF LockInv, OneServer, Exiting
<1> QED
  BY <1>1, <1>2, PTL

\* Write requests are refused by every instance that is not the server.
THEOREM GateIsSafe == Spec => []GateFollowsLock
<1>1. Spec => [](TypeOK /\ LockInv)
  BY TypeInit, TypeStep, LockInit, LockStep, PTL DEF Spec
<1>2. TypeOK /\ LockInv => GateFollowsLock
  BY DEF TypeOK, Pc, LockInv, GateFollowsLock, Exiting, Promoting
<1> QED
  BY <1>1, <1>2, PTL
=============================================================================
