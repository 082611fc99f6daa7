----------------------------- MODULE NameLease -----------------------------
(***************************************************************************)
(* What frps promises about proxy names: a name is leased to one client    *)
(* session at a time.  A session gets a name only while nobody has it, and *)
(* only the session that has it gives it back.  ProxyRegistry implements   *)
(* this with proxy.Manager and one proxies map per control.  The same      *)
(* holds of TCP ports and the proxies that ask for them: PortManager       *)
(* implements it with freePorts, usedPorts and reservedPorts.              *)
(***************************************************************************)
CONSTANTS Session, Name

VARIABLE leased    \* leased[s]: the names session s has

Lease(s, n) ==
    /\ \A t \in Session : n \notin leased[t]
    /\ leased' = [leased EXCEPT ![s] = @ \cup {n}]

GiveBack(s, n) ==
    /\ n \in leased[s]
    /\ leased' = [leased EXCEPT ![s] = @ \ {n}]

Init == leased = [s \in Session |-> {}]

Next == \E s \in Session, n \in Name : Lease(s, n) \/ GiveBack(s, n)

Spec == Init /\ [][Next]_leased
=============================================================================
