------------------------- MODULE PortManager_proofs -------------------------
(* Proofs about PortManager for every set of proxies, names and ports.      *)
EXTENDS PortManager, TLAPS

(* What Release does to the three maps, whatever the port.                  *)
LEMMA ReleaseType ==
    ASSUME TypeOK, NEW p \in AllowPorts, Release(p)
    PROVE  /\ freePorts' \subseteq AllowPorts
           /\ usedPorts' \in [AllowPorts -> Name \cup {Nil}]
           /\ reservedPorts' \in [Name -> PortCtx \cup {Nil}]
<1>1. CASE usedPorts[p] = Nil
  BY <1>1 DEF TypeOK, Release
<1>2. CASE usedPorts[p] # Nil
  <2>1. [port |-> p, closed |-> TRUE] \in PortCtx
    BY DEF PortCtx
  <2>2. reservedPorts' \in [Name -> PortCtx \cup {Nil}]
    BY <1>2, <2>1 DEF TypeOK, Release
  <2> QED BY <1>2, <2>2 DEF TypeOK, Release
<1> QED BY <1>1, <1>2

(* A successful Acquire of an allowed port keeps the types.                  *)
LEMMA TakeType ==
    ASSUME TypeOK, NEW x \in Proxy, NEW n \in Name, NEW p \in AllowPorts,
           Take(x, n, p)
    PROVE  TypeOK'
  BY DEF TypeOK, Take, PortCtx, Stage

(* The manager and the proxies keep their types in every behaviour of the   *)
(* Acquire, Listen, Close and cleaner steps.                                *)
THEOREM TypeCorrect == Spec => []TypeOK
<1>1. Init => TypeOK
  BY DEF Init, TypeOK, Stage
<1>2. TypeOK /\ [Next]_vars => TypeOK'
  <2> SUFFICES ASSUME TypeOK, [Next]_vars PROVE TypeOK'
    OBVIOUS
  <2>1. ASSUME NEW x \in Proxy, NEW n \in Name, AcquireReserved(x, n) PROVE TypeOK'
    <3>1. reservedPorts[n].port \in AllowPorts
      BY <2>1 DEF TypeOK, PortCtx, AcquireReserved
    <3> QED BY <2>1, <3>1, TakeType DEF AcquireReserved
  <2>2. ASSUME NEW x \in Proxy, NEW n \in Name, AcquireRandom(x, n) PROVE TypeOK'
    BY <2>2, TakeType DEF AcquireRandom, TypeOK
  <2>3. ASSUME NEW x \in Proxy, NEW n \in Name, NEW p \in RequestPorts,
               AcquireSpecified(x, n, p)
        PROVE TypeOK'
    BY <2>3, TakeType DEF AcquireSpecified, TypeOK
  <2>4. ASSUME NEW x \in Proxy, AcquireFails(x) PROVE TypeOK'
    BY <2>4 DEF AcquireFails, TypeOK, vars
  <2>5. ASSUME NEW x \in Proxy, Listen(x) PROVE TypeOK'
    BY <2>5 DEF Listen, TypeOK, Stage
  <2>6. ASSUME NEW x \in Proxy, ListenFails(x) PROVE TypeOK'
    <3>1. realPort[x] \in AllowPorts
      BY <2>6 DEF ListenFails, TypeOK
    <3> QED BY <2>6, <3>1, ReleaseType DEF ListenFails, TypeOK, Stage
  <2>7. ASSUME NEW x \in Proxy, CloseListener(x) PROVE TypeOK'
    BY <2>7 DEF CloseListener, TypeOK, Stage
  <2>8. ASSUME NEW x \in Proxy, CloseRelease(x) PROVE TypeOK'
    <3>1. realPort[x] \in AllowPorts
      BY <2>8 DEF CloseRelease, TypeOK
    <3> QED BY <2>8, <3>1, ReleaseType DEF CloseRelease, TypeOK, Stage
  <2>9. ASSUME NEW x \in Proxy, CloseAgain(x) PROVE TypeOK'
    <3>1. realPort[x] \in AllowPorts
      BY <2>9 DEF CloseAgain, TypeOK
    <3> QED BY <2>9, <3>1, ReleaseType DEF CloseAgain, TypeOK, Stage
  <2>10. ASSUME NEW S \in SUBSET Name, CleanReserved(S) PROVE TypeOK'
    BY <2>10 DEF CleanReserved, TypeOK
  <2>11. CASE UNCHANGED vars
    BY <2>11 DEF TypeOK, vars
  <2> QED
    BY <2>1, <2>2, <2>3, <2>4, <2>5, <2>6, <2>7, <2>8, <2>9, <2>10, <2>11
    DEF Next, Acquire
<1> QED BY <1>1, <1>2, PTL DEF Spec

-----------------------------------------------------------------------------
(* A successful Acquire moves its port from freePorts to usedPorts.          *)
LEMMA TakePartition ==
    ASSUME TypeOK, Partition, NEW x \in Proxy, NEW n \in Name,
           NEW p \in AllowPorts, Take(x, n, p)
    PROVE  Partition'
  BY NilAssumption DEF TypeOK, Take, Partition

(* Release moves its port back, or does nothing.                             *)
LEMMA ReleasePartition ==
    ASSUME TypeOK, Partition, NEW p \in AllowPorts, Release(p)
    PROVE  Partition'
  BY DEF TypeOK, Release, Partition

(* freePorts and usedPorts split allow_ports in every mode of the manager:  *)
(* fixed or random ports, TCP or UDP, proxies closed once or twice.         *)
THEOREM PartitionCorrect == Spec => []Partition
<1>1. Init => Partition
  BY DEF Init, Partition
<1>2. TypeOK /\ Partition /\ [Next]_vars => Partition'
  <2> SUFFICES ASSUME TypeOK, Partition, [Next]_vars PROVE Partition'
    OBVIOUS
  <2>1. ASSUME NEW x \in Proxy, NEW n \in Name, AcquireReserved(x, n) PROVE Partition'
    <3>1. reservedPorts[n].port \in AllowPorts
      BY <2>1 DEF TypeOK, PortCtx, AcquireReserved
    <3> QED BY <2>1, <3>1, TakePartition DEF AcquireReserved
  <2>2. ASSUME NEW x \in Proxy, NEW n \in Name, AcquireRandom(x, n) PROVE Partition'
    BY <2>2, TakePartition DEF AcquireRandom, TypeOK
  <2>3. ASSUME NEW x \in Proxy, NEW n \in Name, NEW p \in RequestPorts,
               AcquireSpecified(x, n, p)
        PROVE Partition'
    BY <2>3, TakePartition DEF AcquireSpecified, TypeOK
  <2>4. ASSUME NEW x \in Proxy, ListenFails(x) \/ CloseRelease(x) \/ CloseAgain(x)
        PROVE Partition'
    <3>1. realPort[x] \in AllowPorts /\ Release(realPort[x])
      BY <2>4 DEF ListenFails, CloseRelease, CloseAgain, TypeOK
    <3> QED BY <3>1, ReleasePartition
  <2>5. CASE UNCHANGED <<freePorts, usedPorts>>
    BY <2>5 DEF Partition
  <2> QED
    BY <2>1, <2>2, <2>3, <2>4, <2>5
    DEF Next, Acquire, AcquireFails, Listen, CloseListener, CleanReserved, vars
<1> QED BY <1>1, <1>2, TypeCorrect, PTL DEF Spec

-----------------------------------------------------------------------------
(* A successful Acquire makes its proxy the one that will release.           *)
LEMMA TakeNoLeak ==
    ASSUME TypeOK, NoLeak, NEW x \in Proxy, NEW n \in Name, NEW p \in AllowPorts,
           stage[x] = "idle", Take(x, n, p)
    PROVE  NoLeak'
<1> SUFFICES ASSUME NEW q \in AllowPorts, usedPorts'[q] # Nil
             PROVE  \E y \in Proxy : Holds(y)' /\ realPort'[y] = q
  BY DEF NoLeak
<1>1. CASE q = p
  <2>1. Holds(x)' /\ realPort'[x] = q
    BY <1>1 DEF TypeOK, Take, Holds
  <2> QED BY <2>1
<1>2. CASE q # p
  <2>1. usedPorts[q] # Nil
    BY <1>2 DEF TypeOK, Take
  <2>2. PICK y \in Proxy : Holds(y) /\ realPort[y] = q
    BY <2>1 DEF NoLeak
  <2>3. y # x
    BY <2>2 DEF Holds
  <2>4. Holds(y)' /\ realPort'[y] = q
    BY <2>2, <2>3 DEF TypeOK, Take, Holds
  <2> QED BY <2>4
<1> QED BY <1>1, <1>2

(* A step that releases the port of x may end x's hold, and nobody else's.  *)
LEMMA ReleaseNoLeak ==
    ASSUME TypeOK, NoLeak, NEW x \in Proxy, stage[x] # "idle",
           Release(realPort[x]),
           NEW s \in Stage, stage' = [stage EXCEPT ![x] = s],
           realPort' = realPort
    PROVE  NoLeak'
<1> SUFFICES ASSUME NEW q \in AllowPorts, usedPorts'[q] # Nil
             PROVE  \E y \in Proxy : Holds(y)' /\ realPort'[y] = q
  BY DEF NoLeak
<1>1. realPort[x] \in AllowPorts
  BY DEF TypeOK
<1>2. usedPorts[q] # Nil /\ q # realPort[x]
  BY <1>1 DEF TypeOK, Release
<1>3. PICK y \in Proxy : Holds(y) /\ realPort[y] = q
  BY <1>2 DEF NoLeak
<1>4. Holds(y)' /\ realPort'[y] = q
  BY <1>2, <1>3 DEF TypeOK, Holds
<1> QED BY <1>4

(* A used port always has a proxy that will still release it: no port is    *)
(* lost by a failed Listen or by any interleaving of Closes.                *)
THEOREM NoLeakCorrect == Spec => []NoLeak
<1>1. Init => NoLeak
  BY DEF Init, NoLeak
<1>2. TypeOK /\ NoLeak /\ [Next]_vars => NoLeak'
  <2> SUFFICES ASSUME TypeOK, NoLeak, [Next]_vars PROVE NoLeak'
    OBVIOUS
  <2>1. ASSUME NEW x \in Proxy, NEW n \in Name, AcquireReserved(x, n) PROVE NoLeak'
    <3>1. reservedPorts[n].port \in AllowPorts
      BY <2>1 DEF TypeOK, PortCtx, AcquireReserved
    <3> QED BY <2>1, <3>1, TakeNoLeak DEF AcquireReserved
  <2>2. ASSUME NEW x \in Proxy, NEW n \in Name, AcquireRandom(x, n) PROVE NoLeak'
    BY <2>2, TakeNoLeak DEF AcquireRandom, TypeOK
  <2>3. ASSUME NEW x \in Proxy, NEW n \in Name, NEW p \in RequestPorts,
               AcquireSpecified(x, n, p)
        PROVE NoLeak'
    BY <2>3, TakeNoLeak DEF AcquireSpecified, TypeOK
  <2>4. ASSUME NEW x \in Proxy, Listen(x) \/ CloseListener(x) PROVE NoLeak'
    BY <2>4 DEF Listen, CloseListener, NoLeak, Holds, TypeOK
  <2>5. ASSUME NEW x \in Proxy, ListenFails(x) PROVE NoLeak'
    BY <2>5, ReleaseNoLeak DEF ListenFails, Stage
  <2>6. ASSUME NEW x \in Proxy, CloseRelease(x) PROVE NoLeak'
    BY <2>6, ReleaseNoLeak DEF CloseRelease, Stage
  <2>7. ASSUME NEW x \in Proxy, CloseAgain(x) PROVE NoLeak'
    BY <2>7, ReleaseNoLeak DEF CloseAgain, Stage
  <2>8. CASE UNCHANGED <<usedPorts, stage, realPort>>
    BY <2>8 DEF NoLeak, Holds
  <2> QED
    BY <2>1, <2>2, <2>3, <2>4, <2>5, <2>6, <2>7, <2>8
    DEF Next, Acquire, AcquireFails, CleanReserved, vars
<1> QED BY <1>1, <1>2, TypeCorrect, PTL DEF Spec

-----------------------------------------------------------------------------
(* With fixed ports on the TCP manager nobody is ever granted a port that   *)
(* another proxy holds, although Acquire and Listen, and the listener's     *)
(* Close and Release, are separate steps.                                   *)
THEOREM FixedPortsExclusive ==
    ASSUME 0 \notin RequestPorts, NetType = "tcp"
    PROVE  Spec => []HeldExclusively
<1> DEFINE Once == \A x \in Proxy : stage[x] # "reclose"
<1> DEFINE IInv == TypeOK /\ Partition /\ HeldExclusively /\ Once
<1>1. Init => IInv
  BY DEF Init, TypeOK, Partition, HeldExclusively, Holds, Stage
<1>2. TypeOK /\ Partition /\ HeldExclusively /\ Once /\ [Next]_vars
        => HeldExclusively' /\ Once'
  <2> SUFFICES ASSUME TypeOK, Partition, HeldExclusively, Once, [Next]_vars
               PROVE  HeldExclusively' /\ Once'
    OBVIOUS
  <2>1. ASSUME NEW x \in Proxy, NEW n \in Name, NEW p \in RequestPorts,
               AcquireSpecified(x, n, p)
        PROVE HeldExclusively' /\ Once'
    <3>1. /\ p \in AllowPorts /\ usedPorts[p] = Nil /\ stage[x] = "idle"
          /\ Take(x, n, p)
      BY <2>1 DEF AcquireSpecified, TypeOK, Partition
    <3>2. \A y \in Proxy : Holds(y) => realPort[y] # p
      BY <3>1, NilAssumption DEF HeldExclusively, Holds, TypeOK
    <3>3. Holds(x)' /\ realPort'[x] = p /\ pname'[x] = n /\ usedPorts'[p] = n
      BY <3>1 DEF Take, Holds, TypeOK
    <3>4. \A y \in Proxy \ {x} : /\ Holds(y)' <=> Holds(y)
                                 /\ realPort'[y] = realPort[y]
                                 /\ pname'[y] = pname[y]
      BY <3>1 DEF Take, Holds, TypeOK
    <3>5. \A q \in AllowPorts \ {p} : usedPorts'[q] = usedPorts[q]
      BY <3>1 DEF Take, TypeOK
    <3>6. \A y \in Proxy : Holds(y) => realPort[y] \in AllowPorts
      BY DEF Holds, TypeOK
    <3>7. HeldExclusively'
      BY <3>2, <3>3, <3>4, <3>5, <3>6 DEF HeldExclusively
    <3>8. Once'
      BY <3>1 DEF Take, TypeOK
    <3> QED BY <3>7, <3>8
  <2>2. ASSUME NEW x \in Proxy, Listen(x) \/ CloseListener(x)
        PROVE HeldExclusively' /\ Once'
    BY <2>2 DEF Listen, CloseListener, HeldExclusively, Holds, TypeOK
  <2>3. ASSUME NEW x \in Proxy, ListenFails(x) \/ CloseRelease(x)
        PROVE HeldExclusively' /\ Once'
    <3>1. /\ Release(realPort[x]) /\ Holds(x)
          /\ stage' = [stage EXCEPT ![x] = "idle"]
          /\ pname' = pname /\ realPort' = realPort
      BY <2>3 DEF ListenFails, CloseRelease, Holds
    <3>2. /\ ~Holds(x)'
          /\ \A y \in Proxy \ {x} : Holds(y)' <=> Holds(y)
      BY <3>1 DEF Holds, TypeOK
    <3>3. \A y \in Proxy \ {x} : Holds(y) =>
            realPort[y] \in AllowPorts /\ realPort[y] # realPort[x]
      BY <3>1 DEF HeldExclusively, Holds, TypeOK
    <3>4. \A q \in AllowPorts : q # realPort[x] => usedPorts'[q] = usedPorts[q]
      BY <3>1 DEF Release, TypeOK
    <3>5. HeldExclusively'
      BY <3>1, <3>2, <3>3, <3>4 DEF HeldExclusively
    <3>6. Once'
      BY <3>1 DEF TypeOK
    <3> QED BY <3>5, <3>6
  <2>4. ASSUME NEW x \in Proxy, CloseAgain(x) PROVE FALSE
    BY <2>4 DEF CloseAgain
  <2>5. CASE UNCHANGED <<usedPorts, stage, pname, realPort>>
    BY <2>5 DEF HeldExclusively, Holds
  <2>6. ASSUME NEW x \in Proxy, NEW n \in Name,
               AcquireReserved(x, n) \/ AcquireRandom(x, n)
        PROVE FALSE
    BY <2>6 DEF AcquireReserved, AcquireRandom
  <2> QED
    BY <2>1, <2>2, <2>3, <2>4, <2>5, <2>6
    DEF Next, Acquire, AcquireFails, CleanReserved, vars
<1> QED BY <1>1, <1>2, TypeCorrect, PartitionCorrect, PTL DEF Spec

-----------------------------------------------------------------------------
LEMMA LeaseStep ==
    ASSUME 0 \notin RequestPorts, TypeOK, Partition, HeldExclusively, [Next]_vars
    PROVE  [Leases!Next]_([x \in Proxy |-> Ports(x)])
<1> DEFINE L == [x \in Proxy |-> Ports(x)]
<1>1. ASSUME NEW x \in Proxy, NEW n \in Name, NEW p \in RequestPorts, AcquireSpecified(x, n, p)
      PROVE  Leases!Next
  <2>1. /\ p \in AllowPorts /\ usedPorts[p] = Nil /\ stage[x] = "idle" /\ Take(x, n, p)
    BY <1>1 DEF AcquireSpecified, TypeOK, Partition
  <2>2. \A y \in Proxy : Holds(y) => realPort[y] # p
    BY <2>1, NilAssumption DEF HeldExclusively, Holds, TypeOK
  <2>3. \A y \in Proxy : p \notin L[y]
    BY <2>2 DEF Ports
  <2>4. Ports(x) = {} /\ Ports(x)' = {p} /\ \A y \in Proxy \ {x} : Ports(y)' = Ports(y)
    BY <2>1 DEF Take, Ports, Holds, TypeOK
  <2>5. L' = [L EXCEPT ![x] = @ \cup {p}]
    BY <2>4
  <2>6. Leases!Lease(x, p)
    BY <2>3, <2>5 DEF Leases!Lease
  <2> QED BY <2>1, <2>6 DEF Leases!Next
<1>2. ASSUME NEW x \in Proxy, ListenFails(x) \/ CloseRelease(x) PROVE Leases!Next
  <2>1. /\ Holds(x) /\ realPort[x] \in AllowPorts /\ realPort' = realPort
        /\ \/ stage' = [stage EXCEPT ![x] = "idle"]
           \/ stage' = [stage EXCEPT ![x] = "reclose"]
    BY <1>2 DEF ListenFails, CloseRelease, Holds, TypeOK
  <2>2. /\ Ports(x) = {realPort[x]} /\ Ports(x)' = {}
        /\ \A y \in Proxy \ {x} : Ports(y)' = Ports(y)
    BY <2>1 DEF Ports, Holds, TypeOK
  <2>3. L' = [L EXCEPT ![x] = @ \ {realPort[x]}] /\ realPort[x] \in L[x]
    BY <2>2
  <2>4. Leases!GiveBack(x, realPort[x])
    BY <2>3 DEF Leases!GiveBack
  <2> QED BY <2>1, <2>4 DEF Leases!Next
<1>3. ASSUME NEW x \in Proxy, Listen(x) \/ CloseListener(x) \/ CloseAgain(x) PROVE L' = L
  <2>1. \A y \in Proxy : Ports(y)' = Ports(y)
    BY <1>3 DEF Listen, CloseListener, CloseAgain, Ports, Holds, TypeOK
  <2> QED BY <2>1
<1>4. CASE UNCHANGED <<stage, realPort>>
  BY <1>4 DEF Ports, Holds
<1>5. ASSUME NEW x \in Proxy, NEW n \in Name, AcquireReserved(x, n) \/ AcquireRandom(x, n)
      PROVE  FALSE
  BY <1>5 DEF AcquireReserved, AcquireRandom
<1> QED
  BY <1>1, <1>2, <1>3, <1>4, <1>5 DEF Next, Acquire, AcquireFails, CleanReserved, vars

(* With fixed ports the manager and its proxies implement a lease: Acquire  *)
(* gives out a port nobody has and Release takes it from the one holder.    *)
THEOREM FixedPortsLeased ==
    ASSUME 0 \notin RequestPorts, NetType = "tcp"
    PROVE  Spec => PortLeaseSpec
<1>1. Init => Leases!Init
  BY DEF Init, Leases!Init, Ports, Holds
<1>2. TypeOK /\ Partition /\ HeldExclusively /\ [Next]_vars
        => [Leases!Next]_([x \in Proxy |-> Ports(x)])
  BY LeaseStep
<1> QED
  BY <1>1, <1>2, TypeCorrect, PartitionCorrect, FixedPortsExclusive, PTL
  DEF Spec, PortLeaseSpec, Leases!Spec

-----------------------------------------------------------------------------
(* A granted port had no reservation open, because it was free.             *)
LEMMA TakeReservation ==
    ASSUME TypeOK, OpenReservationInUse, NEW x \in Proxy, NEW n \in Name,
           NEW p \in AllowPorts, usedPorts[p] = Nil, Take(x, n, p)
    PROVE  OpenReservationInUse'
<1> SUFFICES ASSUME NEW m \in Name, reservedPorts'[m] # Nil, ~reservedPorts'[m].closed
             PROVE  usedPorts'[reservedPorts'[m].port] = m
  BY DEF OpenReservationInUse
<1>1. CASE m = n
  BY <1>1 DEF Take, TypeOK
<1>2. CASE m # n
  <2>1. reservedPorts'[m] = reservedPorts[m]
    BY <1>2 DEF Take, TypeOK
  <2>2. usedPorts[reservedPorts[m].port] = m /\ reservedPorts[m].port \in AllowPorts
    BY <2>1 DEF OpenReservationInUse, TypeOK, PortCtx
  <2>3. reservedPorts[m].port # p
    BY <2>2, NilAssumption
  <2> QED BY <2>1, <2>2, <2>3 DEF Take, TypeOK
<1> QED BY <1>1, <1>2

(* Release closes the one open reservation of its port.                     *)
LEMMA ReleaseReservation ==
    ASSUME TypeOK, OpenReservationInUse, NEW p \in AllowPorts, Release(p)
    PROVE  OpenReservationInUse'
<1> SUFFICES ASSUME NEW m \in Name, reservedPorts'[m] # Nil, ~reservedPorts'[m].closed
             PROVE  usedPorts'[reservedPorts'[m].port] = m
  BY DEF OpenReservationInUse
<1>1. CASE usedPorts[p] = Nil
  BY <1>1 DEF Release, OpenReservationInUse
<1>2. CASE usedPorts[p] # Nil
  <2>1. reservedPorts'[m] = reservedPorts[m]
    BY <1>2 DEF Release
  <2>2. ~(m = usedPorts[p] /\ reservedPorts[m].port = p)
    BY <1>2, <2>1 DEF Release
  <2>3. usedPorts[reservedPorts[m].port] = m /\ reservedPorts[m].port \in AllowPorts
    BY <2>1 DEF OpenReservationInUse, TypeOK, PortCtx
  <2>4. reservedPorts[m].port # p
    BY <2>2, <2>3
  <2> QED BY <1>2, <2>1, <2>3, <2>4 DEF Release, TypeOK
<1> QED BY <1>1, <1>2

(* With fixed ports every open reservation belongs to a port in use, on the *)
(* TCP and on the UDP manager: the second Close of a UDP proxy may release  *)
(* the port of another proxy, and closes that one's reservation with it.    *)
THEOREM FixedPortsReserved ==
    ASSUME 0 \notin RequestPorts
    PROVE  Spec => []OpenReservationInUse
<1>1. Init => OpenReservationInUse
  BY DEF Init, OpenReservationInUse
<1>2. TypeOK /\ Partition /\ OpenReservationInUse /\ [Next]_vars => OpenReservationInUse'
  <2> SUFFICES ASSUME TypeOK, Partition, OpenReservationInUse, [Next]_vars
               PROVE  OpenReservationInUse'
    OBVIOUS
  <2>1. ASSUME NEW x \in Proxy, NEW n \in Name, NEW p \in RequestPorts,
               AcquireSpecified(x, n, p)
        PROVE OpenReservationInUse'
    <3>1. p \in AllowPorts /\ usedPorts[p] = Nil /\ Take(x, n, p)
      BY <2>1 DEF AcquireSpecified, TypeOK, Partition
    <3> QED BY <3>1, TakeReservation
  <2>2. ASSUME NEW x \in Proxy, NEW n \in Name, AcquireReserved(x, n) \/ AcquireRandom(x, n)
        PROVE FALSE
    BY <2>2 DEF AcquireReserved, AcquireRandom
  <2>3. ASSUME NEW x \in Proxy, ListenFails(x) \/ CloseRelease(x) \/ CloseAgain(x)
        PROVE OpenReservationInUse'
    <3>1. realPort[x] \in AllowPorts /\ Release(realPort[x])
      BY <2>3 DEF ListenFails, CloseRelease, CloseAgain, TypeOK
    <3> QED BY <3>1, ReleaseReservation
  <2>4. ASSUME NEW S \in SUBSET Name, CleanReserved(S) PROVE OpenReservationInUse'
    BY <2>4 DEF CleanReserved, OpenReservationInUse
  <2>5. CASE UNCHANGED <<usedPorts, reservedPorts>>
    BY <2>5 DEF OpenReservationInUse
  <2> QED
    BY <2>1, <2>2, <2>3, <2>4, <2>5
    DEF Next, Acquire, AcquireFails, Listen, CloseListener, vars
<1> QED BY <1>1, <1>2, TypeCorrect, PartitionCorrect, PTL DEF Spec
=============================================================================
