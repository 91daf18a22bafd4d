------------------------- MODULE MCSwitchCollector -------------------------
(* TLC instance of SwitchCollector: sets of model values for the threads. *)
EXTENDS SwitchCollector, TLC

CONSTANTS s1, s2, r1, r2, w1, w2, c1

TwoSwitches    == {s1, s2}
TwoRequesters  == {r1, r2}
TwoWorkers     == {w1, w2}
OneWorker      == {w1}
OneCanceller   == {c1}

\* The code treats switches, workers and request threads alike.
Interchangeable ==
    Permutations(Switches) \cup Permutations(Requesters) \cup Permutations(Workers)
=============================================================================
