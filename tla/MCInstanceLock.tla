--------------------------- MODULE MCInstanceLock ---------------------------
(* TLC instance of InstanceLock: three PCs on one share. *)
EXTENDS InstanceLock

CONSTANTS h1, h2, h3

ThreeHosts == {h1, h2, h3}
=============================================================================
