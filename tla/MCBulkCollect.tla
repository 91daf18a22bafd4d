--------------------------- MODULE MCBulkCollect ---------------------------
(* TLC instance of BulkCollect: sets of model values for the threads. *)
EXTENDS BulkCollect, TLC

CONSTANTS s1, s2, b1, b2, p1, p2, c1

TwoSwitches == {s1, s2}
TwoBatches  == {b1, b2}
OnePoller   == {p1}
TwoPollers  == {p1, p2}
OneStopper  == {c1}

\* The code treats switches and the threads of one kind alike.
Interchangeable ==
    Permutations(Switches) \cup Permutations(Batches) \cup Permutations(Pollers)
=============================================================================
