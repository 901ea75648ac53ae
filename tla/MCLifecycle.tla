--------------------------- MODULE MCLifecycle ---------------------------
(* TLC instances of ConnectionLifecycle.                                   *)
EXTENDS ConnectionLifecycle, TLC

Symmetry == Permutations(Requests)
=============================================================================
