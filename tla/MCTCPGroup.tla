----------------------------- MODULE MCTCPGroup -----------------------------
(* Two proxies that agree, one that asks for any port under the same group, *)
(* and one of the same name that asks for any port under another group.     *)
EXTENDS TCPGroup, TLC

CONSTANTS x1, x2, x3, x4, g1, g2, k1, n1, n2, n3

MCConf == x1 :> [group |-> g1, key |-> k1, port |-> 1]
          @@ x2 :> [group |-> g1, key |-> k1, port |-> 1]
          @@ x3 :> [group |-> g1, key |-> k1, port |-> 0]
          @@ x4 :> [group |-> g2, key |-> k1, port |-> 0]

MCNameOf == x1 :> n1 @@ x2 :> n2 @@ x3 :> n3 @@ x4 :> n3
=============================================================================
