---------------------------- MODULE PortManager ----------------------------
(***************************************************************************)
(* The public ports of frps: ports.Manager (server/ports/ports.go) and the *)
(* TCP and UDP proxies that acquire, listen on and release a port of it    *)
(* (server/proxy/tcp.go without a group, server/proxy/udp.go).             *)
(*                                                                         *)
(* Acquire and Release run under pm.mu and are atomic.  The proxy calls    *)
(* them apart from net.Listen and listener.Close, so the steps of several  *)
(* proxies interleave between Acquire and Listen, and between closing the  *)
(* listener and Release.                                                   *)
(***************************************************************************)
EXTENDS Naturals

CONSTANTS
    Proxy,         \* the proxy objects RegisterProxy creates
    Name,          \* proxy names; different clients may ask for the same one
    AllowPorts,    \* allow_ports of frps.ini
    RequestPorts,  \* the remote_port values clients ask for, 0 for any port
    NetType,       \* "tcp" or "udp": which of the two managers this is
    Nil            \* no entry in a Go map

ASSUME PortAssumption == /\ AllowPorts \subseteq Nat \ {0}
                         /\ RequestPorts \subseteq Nat
ASSUME NetTypeAssumption == NetType \in {"tcp", "udp"}
ASSUME NilAssumption == Nil \notin Name

VARIABLES
    freePorts,     \* pm.freePorts
    usedPorts,     \* pm.usedPorts: the name in the PortCtx of a used port
    reservedPorts, \* pm.reservedPorts: the last PortCtx of a name
    stage,         \* how far a proxy object is in Run and Close
    pname,         \* pxy.name
    realPort       \* pxy.realPort

vars == <<freePorts, usedPorts, reservedPorts, stage, pname, realPort>>

(* A PortCtx is one heap object that usedPorts and reservedPorts may share. *)
(* The one in usedPorts[p] is the one in reservedPorts[usedPorts[p]] exactly *)
(* when the latter has port p: every Acquire of p writes both.              *)
PortCtx == [port : AllowPorts, closed : BOOLEAN]

(* "acquired": Run is between Acquire and net.Listen; "closing": Close has   *)
(* closed the listener and not yet called Release; "reclose": a UDP proxy    *)
(* whose second Close call is still to come.                                 *)
Stage == {"idle", "acquired", "listening", "closing", "reclose"}

TypeOK ==
    /\ freePorts \subseteq AllowPorts
    /\ usedPorts \in [AllowPorts -> Name \cup {Nil}]
    /\ reservedPorts \in [Name -> PortCtx \cup {Nil}]
    /\ stage \in [Proxy -> Stage]
    /\ pname \in [Proxy -> Name \cup {Nil}]
    /\ realPort \in [Proxy -> AllowPorts \cup {0}]
    /\ \A x \in Proxy : stage[x] # "idle" => /\ pname[x] \in Name
                                             /\ realPort[x] \in AllowPorts

Init ==
    /\ freePorts = AllowPorts
    /\ usedPorts = [p \in AllowPorts |-> Nil]
    /\ reservedPorts = [n \in Name |-> Nil]
    /\ stage = [x \in Proxy |-> "idle"]
    /\ pname = [x \in Proxy |-> Nil]
    /\ realPort = [x \in Proxy |-> 0]

-----------------------------------------------------------------------------
(* isPortAvailable listens on the port and closes it again.  A listener of  *)
(* frps makes it fail; so may a process outside frps, which is why every    *)
(* action that needs an available port has an alternative that does not.    *)
isPortAvailable(p) ==
    ~ \E x \in Proxy : stage[x] = "listening" /\ realPort[x] = p

(* The three assignments shared by every successful branch of Acquire.      *)
Take(x, n, p) ==
    /\ usedPorts' = [usedPorts EXCEPT ![p] = n]
    /\ reservedPorts' = [reservedPorts EXCEPT ![n] = [port |-> p, closed |-> FALSE]]
    /\ freePorts' = freePorts \ {p}
    /\ stage' = [stage EXCEPT ![x] = "acquired"]
    /\ pname' = [pname EXCEPT ![x] = n]
    /\ realPort' = [realPort EXCEPT ![x] = p]

(* port = 0 and the name has a reserved port that can be listened on: taken *)
(* without asking whether it is in freePorts.                               *)
AcquireReserved(x, n) ==
    /\ 0 \in RequestPorts
    /\ stage[x] = "idle"
    /\ reservedPorts[n] # Nil
    /\ isPortAvailable(reservedPorts[n].port)
    /\ Take(x, n, reservedPorts[n].port)

(* port = 0 otherwise: some free port that can be listened on.              *)
AcquireRandom(x, n) ==
    /\ 0 \in RequestPorts
    /\ stage[x] = "idle"
    /\ \E p \in freePorts : isPortAvailable(p) /\ Take(x, n, p)

(* Mutant of AcquireSpecified: a used port is not refused.                *)
AcquireSpecifiedUnchecked(x, n, p) ==
    /\ p # 0
    /\ stage[x] = "idle"
    /\ p \in AllowPorts
    /\ isPortAvailable(p)
    /\ Take(x, n, p)

AcquireSpecified(x, n, p) ==
    /\ p # 0
    /\ stage[x] = "idle"
    /\ p \in freePorts
    /\ isPortAvailable(p)
    /\ Take(x, n, p)

(* Every error of Acquire (unavailable, already used, not allowed, none     *)
(* left) leaves the manager as it was, and Run returns: the proxy object is *)
(* dropped.  A port that is not free is refused; a free one may be refused  *)
(* too, because another process listens on it.                              *)
AcquireFails(x) ==
    /\ stage[x] = "idle"
    /\ UNCHANGED vars

(* Mutant of Release: the PortCtx is not marked closed.                   *)
ReleaseForgetsCtx(p) ==
    IF p \in AllowPorts /\ usedPorts[p] # Nil
    THEN /\ freePorts' = freePorts \cup {p}
         /\ usedPorts' = [usedPorts EXCEPT ![p] = Nil]
         /\ UNCHANGED reservedPorts
    ELSE UNCHANGED <<freePorts, usedPorts, reservedPorts>>

(* The PortCtx that Release marks closed is the one of usedPorts[p].        *)
Release(p) ==
    IF p \in AllowPorts /\ usedPorts[p] # Nil
    THEN /\ freePorts' = freePorts \cup {p}
         /\ usedPorts' = [usedPorts EXCEPT ![p] = Nil]
         /\ reservedPorts' =
              [n \in Name |->
                 IF n = usedPorts[p] /\ reservedPorts[n] # Nil
                                     /\ reservedPorts[n].port = p
                 THEN [port |-> p, closed |-> TRUE]
                 ELSE reservedPorts[n]]
    ELSE UNCHANGED <<freePorts, usedPorts, reservedPorts>>

-----------------------------------------------------------------------------
Listen(x) ==
    /\ stage[x] = "acquired"
    /\ isPortAvailable(realPort[x])
    /\ stage' = [stage EXCEPT ![x] = "listening"]
    /\ UNCHANGED <<freePorts, usedPorts, reservedPorts, pname, realPort>>

(* Mutant of ListenFails: no deferred Release.                            *)
ListenFailsKeepsPort(x) ==
    /\ stage[x] = "acquired"
    /\ stage' = [stage EXCEPT ![x] = "idle"]
    /\ UNCHANGED <<freePorts, usedPorts, reservedPorts, pname, realPort>>

(* net.Listen fails, because frps or another process listens on the port or *)
(* because Acquire is probing it just now: the deferred call releases it.   *)
ListenFails(x) ==
    /\ stage[x] = "acquired"
    /\ Release(realPort[x])
    /\ stage' = [stage EXCEPT ![x] = "idle"]
    /\ UNCHANGED <<pname, realPort>>

(* First half of Close: the listener is closed, the port can be listened on. *)
CloseListener(x) ==
    /\ stage[x] = "listening"
    /\ stage' = [stage EXCEPT ![x] = "closing"]
    /\ UNCHANGED <<freePorts, usedPorts, reservedPorts, pname, realPort>>

(* Second half of Close.  Closing udpConn also ends ForwardUserConn, whose  *)
(* goroutine then calls Close itself, so a UDP proxy is closed twice.       *)
CloseRelease(x) ==
    /\ stage[x] = "closing"
    /\ Release(realPort[x])
    /\ stage' = [stage EXCEPT ![x] = IF NetType = "udp" THEN "reclose" ELSE "idle"]
    /\ UNCHANGED <<pname, realPort>>

(* UDPProxy.Close with isClosed already set still calls Release.            *)
CloseAgain(x) ==
    /\ stage[x] = "reclose"
    /\ Release(realPort[x])
    /\ stage' = [stage EXCEPT ![x] = "idle"]
    /\ UNCHANGED <<pname, realPort>>

(* One round of cleanReservedPortsWorker: gone are the closed entries whose *)
(* UpdateTime is too old, here any set of closed entries.                   *)
CleanReserved(S) ==
    /\ S # {}
    /\ \A n \in S : reservedPorts[n] # Nil /\ reservedPorts[n].closed
    /\ reservedPorts' = [n \in Name |-> IF n \in S THEN Nil ELSE reservedPorts[n]]
    /\ UNCHANGED <<freePorts, usedPorts, stage, pname, realPort>>

Acquire(x, n) ==
    \/ AcquireReserved(x, n)
    \/ AcquireRandom(x, n)
    \/ \E p \in RequestPorts : AcquireSpecified(x, n, p)

Next ==
    \/ \E x \in Proxy, n \in Name : Acquire(x, n)
    \/ \E x \in Proxy : \/ AcquireFails(x)
                        \/ Listen(x)
                        \/ ListenFails(x)
                        \/ CloseListener(x)
                        \/ CloseRelease(x)
                        \/ CloseAgain(x)
    \/ \E S \in SUBSET Name : CleanReserved(S)

Spec == Init /\ [][Next]_vars

-----------------------------------------------------------------------------
(* A proxy holds its port from Acquire until it calls Release.              *)
Holds(x) == stage[x] \in {"acquired", "listening", "closing"}

(* Every allowed port is in exactly one of freePorts and usedPorts, so      *)
(* Acquire answers ErrPortNotAllowed for a port outside allow_ports only.   *)
Partition ==
    \A p \in AllowPorts : (p \in freePorts) <=> (usedPorts[p] = Nil)

(* No port leaks: a used port is the port of a proxy that still has to call *)
(* Release, whatever happened in Listen and however Closes interleaved.     *)
NoLeak ==
    \A p \in AllowPorts : usedPorts[p] # Nil =>
        \E x \in Proxy : Holds(x) /\ realPort[x] = p

(* A port belongs to at most one proxy at a time, and usedPorts names that  *)
(* proxy as long as it has the port: nobody else's Release freed it.        *)
HeldExclusively ==
    \A x \in Proxy : Holds(x) =>
        /\ usedPorts[realPort[x]] = pname[x]
        /\ \A y \in Proxy \ {x} : Holds(y) => realPort[y] # realPort[x]

(* A reservation that is not closed is the context of a port in use, so     *)
(* Release will close it and the cleaner will in the end forget the name.   *)
OpenReservationInUse ==
    \A n \in Name : reservedPorts[n] # Nil /\ ~reservedPorts[n].closed =>
        usedPorts[reservedPorts[n].port] = n

(* The port a proxy has, as a lease of NameLease.                           *)
Ports(x) == IF Holds(x) THEN {realPort[x]} ELSE {}

Leases == INSTANCE NameLease
            WITH Session <- Proxy, Name <- AllowPorts, leased <- [x \in Proxy |-> Ports(x)]

(* The ports are leases: every step gives one proxy a port that nobody has, *)
(* takes a port from the one proxy that has it, or moves no port at all.    *)
PortLeaseSpec == Leases!Spec
=============================================================================
