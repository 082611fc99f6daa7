-------------------------- MODULE MCProxyRegistry --------------------------
(* TLC instances of ProxyRegistry.  Controls, run ids and names are         *)
(* interchangeable in the safety runs; the liveness run uses no symmetry.   *)
EXTENDS ProxyRegistry, TLC

MCSymmetry == Permutations(Control) \cup Permutations(RunID) \cup Permutations(Name)
=============================================================================
