---------------------------- MODULE Reachability ----------------------------
(***************************************************************************)
(* The sweep that tries every minute whether the management port of each   *)
(* device answers.  Devices that share an address (the two halves of a     *)
(* cluster) are tried once and share the result.  Probes run in threads    *)
(* that the sweep waits for with a limit.                                  *)
(***************************************************************************)
EXTENDS Integers, FiniteSets

CONSTANTS
    Devices,
    Address,                \* address and port of each device
    MaxSweeps               \* bound: sweeps begun

ASSUME ReachAssumption == DOMAIN Address = Devices /\ MaxSweeps \in Nat

VARIABLES
    listed,                 \* the devices registered now
    reach,                  \* _state: reached, lost, or unknown
    signalled,              \* the last event of a device, or its first state
    sweep,                  \* the sweep: devices read, results so far
    sweeps

reachVars == <<listed, reach, signalled, sweep, sweeps>>

Addresses == {Address[d] : d \in Devices}

\* Faulty variant: every device is tried on its own.
TargetOfDevice(d) == d

TargetOf(d) == Address[d]

NoSweep == [at |-> "idle", list |-> {}, results |-> <<>>]

ReachTypeOK ==
    /\ listed \subseteq Devices
    /\ reach \in [Devices -> {"none", "yes", "no"}]
    /\ signalled \in [Devices -> {"none", "yes", "no"}]
    /\ sweep.at \in {"idle", "probe"} /\ sweep.list \subseteq Devices
    /\ DOMAIN sweep.results \subseteq Addresses

ReachInit ==
    /\ listed = Devices
    /\ reach = [d \in Devices |-> "none"] /\ signalled = reach
    /\ sweep = NoSweep /\ sweeps = 0

TargetsOf(devices) == {TargetOf(d) : d \in devices}

SweepBegin ==
    /\ sweep.at = "idle" /\ sweeps < MaxSweeps
    /\ sweep' = [at |-> "probe", list |-> listed, results |-> [t \in TargetsOf(listed) |-> "none"]]
    /\ sweeps' = sweeps + 1
    /\ UNCHANGED <<listed, reach, signalled>>

\* The cluster answers by its active half.
Probed ==
    /\ sweep.at = "probe"
    /\ \E t \in DOMAIN sweep.results, answer \in {"yes", "no"} :
          /\ sweep.results[t] = "none"
          /\ sweep' = [sweep EXCEPT !.results[t] = answer]
    /\ UNCHANGED <<listed, reach, signalled, sweeps>>

\* A probe that is not back in time gives no result: the device is left out.
Result(d) == sweep.results[TargetOf(d)]

Signals(d) == reach[d] # "none" /\ Result(d) # reach[d]

SweepEnd ==
    /\ sweep.at = "probe"
    /\ LET judged == {d \in sweep.list : Result(d) # "none"} IN
       /\ reach' = [d \in Devices |-> IF d \in judged THEN Result(d) ELSE reach[d]]
       /\ signalled' = [d \in Devices |->
             IF d \in judged /\ (Signals(d) \/ reach[d] = "none") THEN Result(d) ELSE signalled[d]]
    /\ sweep' = NoSweep
    /\ UNCHANGED <<listed, sweeps>>

\* A user deletes or registers a device; its state stays in memory.
ListChanges(d) ==
    /\ listed' = IF d \in listed THEN listed \ {d} ELSE listed \cup {d}
    /\ UNCHANGED <<reach, signalled, sweep, sweeps>>

ReachNext ==
    SweepBegin \/ SweepEnd \/ Probed \/ \E d \in Devices : ListChanges(d)

ReachSpec == ReachInit /\ [][ReachNext]_reachVars

-----------------------------------------------------------------------------
(* Properties.                                                             *)

\* The halves of a cluster are never told apart by the probe: two devices with
\* one address that the same sweep judged are both reached or both lost.
SharedAddressSharedResult ==
    [][\A d, e \in Devices :
          /\ Address[d] = Address[e] /\ {d, e} \subseteq sweep.list
          /\ SweepEnd /\ Result(d) # "none"
          => reach'[d] = reach'[e]]_reachVars

\* A device is lost only by a probe that failed, never because the sweep did
\* not wait for the probe.
LossIsObserved ==
    [][\A d \in Devices :
          reach[d] # "no" /\ reach'[d] = "no" => sweep.results[TargetOf(d)] = "no"]_reachVars

\* The last event of a device, or its first state, is the state it has: also
\* when the device was not registered for some sweeps in between.
EventsFollowTheState ==
    signalled = reach
=============================================================================
