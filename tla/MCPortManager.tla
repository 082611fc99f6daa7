--------------------------- MODULE MCPortManager ---------------------------
(* TLC instances of PortManager: three proxy objects, two names, two ports. *)
EXTENDS PortManager, TLC

MCSymmetry == Permutations(Proxy) \cup Permutations(Name)
=============================================================================
