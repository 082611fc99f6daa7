-------------------------- MODULE TCPGroup_proofs --------------------------
(***************************************************************************)
(* Ports and membership of the TCP groups, for any set of proxies, groups, *)
(* keys and ports, and any interleaving of Listen and CloseListener.       *)
(***************************************************************************)
EXTENDS TCPGroup, TLAPS

(* The invariants, point by point.                                          *)
Has(o, p) == Holds(o) /\ realPort[o] = p

PortsInv ==
    \A p \in Port \ twice :
        /\ p \in used <=> p \in leaked \/ \E o \in Object : Has(o, p)
        /\ p \in leaked => \A o \in Object : ~Has(o, p)
        /\ \A o, q \in Object : Has(o, p) /\ Has(q, p) => o = q

AgreeInv == \A o \in Object : \A x \in lns[o] : Conf[x] = param[o]

(* The last member of o has closed its channel and is about to release its  *)
(* port.                                                                    *)
Releasing(o) == mu[o] # Nil /\ pc[mu[o]] = "releasing"

(* Without a late join: the objects in the map are distinct, their channels *)
(* are open, and a group with members is in the map under its name alone,   *)
(* until its last member has released the port.                             *)
MapInv ==
    ~late => /\ \A g \in Group : groups[g] # Nil => chOpen[groups[g]] \/ Releasing(groups[g])
             /\ \A g, h \in Group : groups[g] # Nil /\ groups[g] = groups[h] => g = h
             /\ \A o \in Object : Live(o) \/ Releasing(o) =>
                    param[o].group \in Group /\ groups[param[o].group] = o

(* The steps in which no group changes, and those of its worker.            *)
Quiet(x) == AcquireFails(x) \/ ListenRefused(x) \/ Close(x) \/ AcceptEnds(x)
WorkerStep(o) == WorkerAccept(o) \/ WorkerPanics(o)

-----------------------------------------------------------------------------
(* The disjuncts of Next, grouped by what they change.                      *)
LEMMA NextCases ==
    ASSUME Next
    PROVE  \/ \E x \in Proxy : Quiet(x)
           \/ \E o \in Object : WorkerStep(o)
           \/ \E x \in Proxy : AcceptConn(x)
           \/ \E x \in Proxy : Lookup(x)
           \/ \E x \in Proxy : AcquirePort(x)
           \/ \E x \in Proxy : ListenFirst(x)
           \/ \E x \in Proxy : ListenFails(x)
           \/ \E x \in Proxy : ListenNext(x)
           \/ \E x \in Proxy : CloseListener(x)
           \/ \E x \in Proxy : CloseLast(x)
           \/ \E x \in Proxy : CloseReleases(x)
           \/ \E x \in Proxy : CloseLastPanics(x)
  BY DEF Next, Quiet, WorkerStep, CloseLn

(* TypeOK in parts: what the places hold, who is where, the port given.     *)
Places ==
    /\ groups \in [Group -> Object \cup {Nil}]
    /\ param \in [Object -> [group : Group, key : Key, port : Port \cup {0}] \cup {Nil}]
    /\ realPort \in [Object -> Port \cup {Nil}]
    /\ chOpen \in [Object -> BOOLEAN]
    /\ worker \in [Object -> {"none", "accept", "send"}]
    /\ reserved \in [Name -> Port \cup {Nil}]
    /\ used \subseteq Port /\ bound \subseteq Port
    /\ leaked \subseteq Port /\ twice \subseteq Port
    /\ late \in BOOLEAN

Links ==
    /\ mu \in [Object -> Proxy \cup {Nil}]
    /\ lns \in [Object -> SUBSET Proxy]
    /\ pc \in [Proxy -> {"idle", "found", "acquired", "member", "closing", "releasing"}]
    /\ at \in [Proxy -> Object \cup {Nil}]
    /\ loop \subseteq Proxy
    /\ \A x \in Proxy : at[x] = Nil <=> pc[x] = "idle"
    /\ \A o \in Object : \A x \in lns[o] : at[x] = o /\ pc[x] \in {"member", "closing"}
    /\ \A x \in loop : pc[x] \in {"member", "closing"}
    /\ \A x \in Proxy : pc[x] \in {"acquired", "releasing"} => mu[at[x]] = x
    /\ \A o \in Object : mu[o] # Nil => /\ at[mu[o]] = o /\ lns[o] = {}
                                        /\ pc[mu[o]] \in {"acquired", "releasing"}

Given == \A o \in Object : Holds(o) => realPort[o] \in Port

Typed == Places /\ Links /\ Given

LEMMA TypeParts == TypeOK <=> Typed
  BY DEF TypeOK, Typed, Places, Links, Given

LEMMA ConfFacts ==
    /\ Nil \notin Object /\ Nil \notin Proxy
    /\ Port \subseteq Nat \ {0}
    /\ \A x \in Proxy : /\ Conf[x] \in [group : Group, key : Key, port : Port \cup {0}]
                         /\ Conf[x].group \in Group
                         /\ Conf[x].port \in Port \cup {0}
                         /\ nameOf[x] \in Name
  BY GroupAssumption

(* Init has the right types.                                                *)
LEMMA TypeInit == Init => TypeOK
<1> SUFFICES ASSUME Init PROVE Places /\ Links /\ Given
  BY TypeParts DEF Typed
<1>1. Places
  BY DEF Init, Places
<1>2. Links /\ Given
  BY DEF Init, Links, Given, Holds
<1> QED BY <1>1, <1>2

(* TypeOK is inductive on its own.                                          *)
LEMMA TypeStep == TypeOK /\ [Next]_vars => TypeOK'
<1> SUFFICES ASSUME Places, Links, Given, [Next]_vars PROVE Typed'
  BY TypeParts DEF TypeOK, Typed, Places, Links, Given
<1> USE ConfFacts
<1>1. CASE UNCHANGED vars
  BY <1>1 DEF Typed, Places, Links, Given, Holds, vars, object, ports
<1>2. ASSUME NEW x \in Proxy, Quiet(x) PROVE Typed'
  <2>1. Places'
    BY <1>2 DEF Places, Quiet, AcquireFails, ListenRefused, Close, AcceptEnds, object, ports
  <2>5. Given'
    BY <1>2 DEF Given, Holds, Quiet, AcquireFails, ListenRefused, Close, AcceptEnds, object
  <2>2. CASE pc[x] = "found" /\ GiveUp(x) /\ UNCHANGED <<mu, lns, loop>>
    BY <2>1, <2>2, <2>5 DEF Typed, Links, GiveUp
  <2>3. CASE Close(x)
    BY <2>1, <2>3, <2>5 DEF Typed, Links, Close, object
  <2>4. CASE AcceptEnds(x)
    BY <2>1, <2>4, <2>5 DEF Typed, Links, AcceptEnds, object
  <2> QED BY <1>2, <2>1, <2>2, <2>3, <2>4 DEF Quiet, AcquireFails, ListenRefused, object
<1>3. ASSUME NEW o \in Object, WorkerStep(o) PROVE Typed'
  <2> USE <1>3 DEF WorkerStep, WorkerAccept, WorkerPanics
  <2>1. Places'
    BY DEF Places, ports
  <2>2. Links' /\ Given'
    BY DEF Links, Given, Holds
  <2> QED BY <2>1, <2>2 DEF Typed
<1>4. ASSUME NEW x \in Proxy, AcceptConn(x) PROVE Typed'
  <2>1. Places'
    BY <1>4 DEF Places, Links, AcceptConn, ports
  <2>2. Links' /\ Given'
    BY <1>4 DEF Links, Given, Holds, AcceptConn
  <2> QED BY <2>1, <2>2 DEF Typed
<1>5. ASSUME NEW x \in Proxy, Lookup(x) PROVE Typed'
  <2>1. CASE groups[Conf[x].group] # Nil
    <3>1. groups[Conf[x].group] \in Object
      BY <2>1 DEF Places
    <3>2. Links' /\ Given'
      BY <1>5, <2>1, <3>1 DEF Links, Given, Holds, Lookup, object
    <3>3. Places'
      BY <1>5, <2>1 DEF Places, Lookup, object, ports
    <3> QED BY <3>2, <3>3 DEF Typed
  <2>2. CASE groups[Conf[x].group] = Nil
    <3>1. PICK o \in Object : /\ Garbage(o)
                              /\ at' = [at EXCEPT ![x] = o]
                              /\ groups' = [groups EXCEPT ![Conf[x].group] = o]
                              /\ NewTCPGroup(o)
      BY <1>5, <2>2 DEF Lookup
    <3>2. lns[o] = {} /\ mu[o] = Nil
      BY <3>1 DEF Garbage, Links
    <3>3. lns' = lns /\ mu' = mu
      BY <3>1, <3>2 DEF NewTCPGroup, Links
    <3>4. Links'
      BY <1>5, <3>1, <3>2, <3>3 DEF Links, Garbage, Lookup
    <3>5. Given'
      BY <3>1, <3>2, <3>3 DEF Given, Holds, Places, NewTCPGroup
    <3>6. Places'
      BY <1>5, <3>1 DEF Places, Lookup, NewTCPGroup, ports
    <3> QED BY <3>4, <3>5, <3>6 DEF Typed
  <2> QED BY <2>1, <2>2
<1>6. ASSUME NEW x \in Proxy, AcquirePort(x) PROVE Typed'
  <2>1. at[x] \in Object
    BY <1>6 DEF AcquirePort, Links
  <2>2. PICK p \in Acquirable(x) :
          /\ used' = used \cup {p}
          /\ reserved' = [reserved EXCEPT ![nameOf[x]] = p]
          /\ realPort' = [realPort EXCEPT ![at[x]] = p]
          /\ leaked' = leaked \ {p}
          /\ twice' = twice \cup {q \in {p} : \E o \in Object : Holds(o) /\ realPort[o] = q}
    BY <1>6 DEF AcquirePort
  <2>3. p \in Port
    BY <2>2 DEF Acquirable
  <2>4. Places'
    BY <1>6, <2>1, <2>2, <2>3 DEF Places, AcquirePort
  <2>5. Links'
    BY <1>6, <2>1 DEF Links, AcquirePort
  <2>6. Given'
    BY <1>6, <2>1, <2>2, <2>3 DEF Places, Links, Given, Holds, AcquirePort
  <2> QED BY <2>4, <2>5, <2>6 DEF Typed
<1>7. ASSUME NEW x \in Proxy, ListenFirst(x) PROVE Typed'
  <2>1. at[x] \in Object /\ mu[at[x]] = x
    BY <1>7 DEF ListenFirst, Links
  <2>2. Places'
    BY <1>7, <2>1 DEF Places, ListenFirst
  <2>3. Links'
    BY <1>7, <2>1 DEF Links, ListenFirst
  <2>4. Given'
    BY <1>7, <2>1 DEF Links, Given, Holds, ListenFirst
  <2> QED BY <2>2, <2>3, <2>4 DEF Typed
<1>8. ASSUME NEW x \in Proxy, ListenFails(x) PROVE Typed'
  <2>1. at[x] \in Object /\ mu[at[x]] = x /\ realPort[at[x]] \in Port
    BY <1>8 DEF Links, Given, Holds, ListenFails
  <2>2. Places'
    BY <1>8, <2>1 DEF Places, ListenFails
  <2>3. Links' /\ Given'
    BY <1>8, <2>1 DEF Links, Given, Holds, ListenFails, GiveUp
  <2> QED BY <2>2, <2>3 DEF Typed
<1>9. ASSUME NEW x \in Proxy, ListenNext(x) PROVE Typed'
  <2>1. Places'
    BY <1>9 DEF Places, ListenNext, ports
  <2>2. Links' /\ Given'
    BY <1>9 DEF Links, Given, Holds, ListenNext
  <2> QED BY <2>1, <2>2 DEF Typed
<1>10. ASSUME NEW x \in Proxy, CloseListener(x) PROVE Typed'
  <2>1. Places'
    BY <1>10 DEF Places, CloseListener, ports
  <2>2. Links' /\ Given'
    BY <1>10 DEF Links, Given, Holds, CloseListener, GiveUp
  <2> QED BY <2>1, <2>2 DEF Typed
<1>11. ASSUME NEW x \in Proxy, CloseLast(x) PROVE Typed'
  <2>1. Places'
    BY <1>11 DEF Places, Links, CloseLast
  <2>2. at[x] \in Object /\ mu[at[x]] = Nil
    <3>1. at[x] \in Object
      BY <1>11 DEF Links, CloseLast
    <3>2. lns[at[x]] # {}
      BY <1>11 DEF CloseLast
    <3> QED BY <3>1, <3>2 DEF Links
  <2>5. /\ mu' = [mu EXCEPT ![at[x]] = x] /\ lns' = [lns EXCEPT ![at[x]] = {}]
        /\ pc' = [pc EXCEPT ![x] = "releasing"]
        /\ at' = at /\ loop' = loop \ {x} /\ realPort' = realPort /\ lns[at[x]] = {x}
    BY <1>11 DEF CloseLast
  <2>3. Links'
    BY <2>2, <2>5 DEF Links
  <2>4. Given'
    BY <2>2, <2>5 DEF Links, Given, Holds
  <2> QED BY <2>1, <2>3, <2>4 DEF Typed
<1>12. ASSUME NEW x \in Proxy, CloseReleases(x) PROVE Typed'
  <2>1. Places'
    BY <1>12 DEF Places, CloseReleases
  <2>2. at[x] \in Object /\ mu[at[x]] = x
    BY <1>12 DEF Links, CloseReleases
  <2>3. Links' /\ Given'
    BY <1>12, <2>2 DEF Links, Given, Holds, CloseReleases, GiveUp
  <2> QED BY <2>1, <2>3 DEF Typed
<1>13. ASSUME NEW x \in Proxy, CloseLastPanics(x) PROVE Typed'
  <2>1. at[x] \in Object /\ realPort[at[x]] \in Port
    <3>1. at[x] \in Object
      BY <1>13 DEF Links, CloseLastPanics
    <3>2. lns[at[x]] # {}
      BY <1>13 DEF CloseLastPanics
    <3> QED BY <3>1, <3>2 DEF Given, Holds
  <2>2. Places'
    BY <1>13, <2>1 DEF Places, CloseLastPanics
  <2>3. Links' /\ Given'
    BY <1>13 DEF Links, Given, Holds, CloseLastPanics, GiveUp
  <2> QED BY <2>2, <2>3 DEF Typed
<1> QED BY <1>1, <1>2, <1>3, <1>4, <1>5, <1>6, <1>7, <1>8, <1>9, <1>10, <1>11, <1>12, <1>13, NextCases

(* The proxies that wait, are members or close know each their group, which *)
(* no other proxy's members overlap.                                        *)
THEOREM TypeCorrect == Spec => []TypeOK
  BY TypeInit, TypeStep, PTL DEF Spec

-----------------------------------------------------------------------------
(* What each step does to the ports: nothing, hand one out, lose one, or    *)
(* give one back.  A port that is handed out while a group has it is one of *)
(* twice, for which PortsInv says nothing.                                  *)
LEMMA PortsStep == TypeOK /\ PortsInv /\ [Next]_vars => PortsInv'
<1> SUFFICES ASSUME Places, Links, Given, PortsInv, [Next]_vars PROVE PortsInv'
  BY TypeParts DEF Typed
<1> USE ConfFacts
<1>1. ASSUME UNCHANGED <<realPort, used, leaked, twice>>,
             \A o \in Object : Holds(o)' <=> Holds(o)
      PROVE  PortsInv'
  BY <1>1 DEF PortsInv, Has
<1>2. CASE UNCHANGED vars
  BY <1>1, <1>2 DEF vars, object, ports, Holds
<1>3. ASSUME NEW x \in Proxy, Quiet(x) PROVE PortsInv'
  BY <1>1, <1>3 DEF Quiet, AcquireFails, ListenRefused, Close, AcceptEnds, object, ports, Holds
<1>4. ASSUME NEW o \in Object, WorkerStep(o) PROVE PortsInv'
  BY <1>1, <1>4 DEF WorkerStep, WorkerAccept, WorkerPanics, ports, Holds
<1>5. ASSUME NEW x \in Proxy, AcceptConn(x) PROVE PortsInv'
  BY <1>1, <1>5 DEF AcceptConn, ports, Holds
<1>6. ASSUME NEW x \in Proxy, Lookup(x) PROVE PortsInv'
  <2>1. CASE groups[Conf[x].group] # Nil
    BY <1>1, <1>6, <2>1 DEF Lookup, object, ports, Holds
  <2>2. CASE groups[Conf[x].group] = Nil
    <3>1. PICK o \in Object : Garbage(o) /\ NewTCPGroup(o)
      BY <1>6, <2>2 DEF Lookup
    <3>2. lns[o] = {} /\ mu[o] = Nil
      BY <3>1 DEF Garbage, Links
    <3>3. lns' = lns /\ mu' = mu
      BY <3>1, <3>2 DEF NewTCPGroup, Links
    <3>4. \A q \in Object : q # o => realPort'[q] = realPort[q]
      BY <3>1 DEF NewTCPGroup, Places
    <3>5. \A q \in Object, p \in Port : Has(q, p)' <=> Has(q, p)
      BY <3>2, <3>3, <3>4 DEF Has, Holds
    <3>6. used' = used /\ leaked' = leaked /\ twice' = twice
      BY <1>6 DEF Lookup, ports
    <3> QED BY <3>5, <3>6 DEF PortsInv
  <2> QED BY <2>1, <2>2
<1>7. ASSUME NEW x \in Proxy, AcquirePort(x) PROVE PortsInv'
  <2>1. PICK g \in Object : g = at[x] /\ ~Holds(g) /\ x # Nil
    BY <1>7 DEF AcquirePort, Links, Holds
  <2>2. PICK p \in Acquirable(x) :
          /\ used' = used \cup {p}
          /\ realPort' = [realPort EXCEPT ![g] = p]
          /\ leaked' = leaked \ {p}
          /\ twice' = twice \cup {q \in {p} : \E o \in Object : Holds(o) /\ realPort[o] = q}
    BY <1>7, <2>1 DEF AcquirePort
  <2>3. p \in Port
    BY <2>2 DEF Acquirable
  <2>4. mu' = [mu EXCEPT ![g] = x] /\ lns' = lns
    BY <1>7, <2>1 DEF AcquirePort
  <2>5. \A o \in Object \ {g} : (Holds(o)' <=> Holds(o)) /\ realPort'[o] = realPort[o]
    BY <2>1, <2>2, <2>4 DEF Holds, Places, Links
  <2>6. Holds(g)' /\ realPort'[g] = p
    <3>1. mu'[g] = x
      BY <2>1, <2>4 DEF Links
    <3>2. realPort'[g] = p
      BY <2>1, <2>2 DEF Places
    <3> QED BY <2>1, <3>1, <3>2 DEF Holds
  <2>7. ASSUME NEW q \in Port, q \notin twice', q # p
        PROVE  /\ q \notin twice /\ (q \in used' <=> q \in used) /\ (q \in leaked' <=> q \in leaked)
               /\ \A o \in Object : Has(o, q)' <=> Has(o, q)
    BY <2>1, <2>2, <2>5, <2>6, <2>7 DEF Has
  <2>8. ASSUME p \notin twice'
        PROVE  \A o \in Object : Has(o, p)' <=> o = g
    <3>1. \A o \in Object : ~(Holds(o) /\ realPort[o] = p)
      BY <2>2, <2>8
    <3>2. Has(g, p)'
      BY <2>6 DEF Has
    <3>3. \A o \in Object \ {g} : ~Has(o, p)'
      BY <2>5, <3>1 DEF Has
    <3> QED BY <2>1, <3>2, <3>3
  <2>9. p \in used' /\ p \notin leaked'
    BY <2>2
  <2>10. ASSUME NEW q \in Port, q \notin twice'
         PROVE  /\ q \in used' <=> q \in leaked' \/ \E o \in Object : Has(o, q)'
                /\ q \in leaked' => \A o \in Object : ~Has(o, q)'
                /\ \A o, r \in Object : Has(o, q)' /\ Has(r, q)' => o = r
    <3>1. CASE q = p
      BY <2>1, <2>8, <2>9, <2>10, <3>1
    <3>2. CASE q # p
      BY <2>7, <2>10, <3>2 DEF PortsInv
    <3> QED BY <3>1, <3>2
  <2> QED BY <2>10 DEF PortsInv
<1>8. ASSUME NEW x \in Proxy, ListenFirst(x) PROVE PortsInv'
  <2>1. at[x] \in Object /\ mu[at[x]] = x
    BY <1>8 DEF ListenFirst, Links
  <2>2. \A o \in Object : Holds(o)' <=> Holds(o)
    BY <1>8, <2>1 DEF ListenFirst, Links, Holds
  <2> QED BY <1>1, <1>8, <2>2 DEF ListenFirst
<1>9. ASSUME NEW x \in Proxy, ListenFails(x) PROVE PortsInv'
  <2>1. at[x] \in Object /\ mu[at[x]] = x /\ lns[at[x]] = {}
    BY <1>9 DEF ListenFails, Links
  <2>2. \A o \in Object : Holds(o)' <=> Holds(o) /\ o # at[x]
    BY <1>9, <2>1 DEF ListenFails, Links, Holds
  <2>3. /\ realPort' = realPort /\ used' = used /\ twice' = twice
        /\ leaked' = leaked \cup {realPort[at[x]]}
    BY <1>9 DEF ListenFails
  <2>4. Holds(at[x])
    BY <2>1 DEF Holds
  <2> QED BY <2>1, <2>2, <2>3, <2>4 DEF PortsInv, Has
<1>10. ASSUME NEW x \in Proxy, ListenNext(x) PROVE PortsInv'
  <2>1. \A o \in Object : Holds(o)' <=> Holds(o)
    BY <1>10 DEF ListenNext, Links, Holds
  <2> QED BY <1>1, <1>10, <2>1 DEF ListenNext, ports
<1>11. ASSUME NEW x \in Proxy, CloseListener(x) PROVE PortsInv'
  <2>1. \A o \in Object : Holds(o)' <=> Holds(o)
    BY <1>11 DEF CloseListener, Links, Holds
  <2> QED BY <1>1, <1>11, <2>1 DEF CloseListener, ports
<1>12. ASSUME NEW x \in Proxy, CloseLast(x) PROVE PortsInv'
  <2>1. at[x] \in Object /\ x # Nil /\ lns[at[x]] = {x}
    BY <1>12 DEF CloseLast, Links
  <2>2. mu' = [mu EXCEPT ![at[x]] = x] /\ lns' = [lns EXCEPT ![at[x]] = {}]
    BY <1>12 DEF CloseLast
  <2>3. \A o \in Object : Holds(o)' <=> Holds(o)
    BY <2>1, <2>2 DEF Links, Holds
  <2> QED BY <1>1, <1>12, <2>3 DEF CloseLast
<1>13. ASSUME NEW x \in Proxy, CloseReleases(x) PROVE PortsInv'
  <2>1. at[x] \in Object /\ mu[at[x]] = x /\ lns[at[x]] = {}
    BY <1>13 DEF CloseReleases, Links
  <2>2. \A o \in Object : Holds(o)' <=> Holds(o) /\ o # at[x]
    BY <1>13, <2>1 DEF CloseReleases, Links, Holds
  <2>3. /\ realPort' = realPort /\ leaked' = leaked /\ twice' = twice
        /\ used' = used \ {realPort[at[x]]}
    BY <1>13 DEF CloseReleases
  <2>4. Holds(at[x])
    BY <2>1 DEF Holds
  <2> QED BY <2>1, <2>2, <2>3, <2>4 DEF PortsInv, Has
<1>14. ASSUME NEW x \in Proxy, CloseLastPanics(x) PROVE PortsInv'
  <2>1. at[x] \in Object /\ lns[at[x]] = {x} /\ mu[at[x]] = Nil
    <3>1. at[x] \in Object /\ lns[at[x]] = {x}
      BY <1>14 DEF CloseLastPanics, Links
    <3> QED BY <3>1 DEF Links
  <2>2. \A o \in Object : Holds(o)' <=> Holds(o) /\ o # at[x]
    BY <1>14, <2>1 DEF CloseLastPanics, Links, Holds
  <2>3. /\ realPort' = realPort /\ used' = used /\ twice' = twice
        /\ leaked' = leaked \cup {realPort[at[x]]}
    BY <1>14 DEF CloseLastPanics
  <2>4. Holds(at[x])
    BY <2>1 DEF Holds
  <2> QED BY <2>1, <2>2, <2>3, <2>4 DEF PortsInv, Has
<1> QED BY <1>2, <1>3, <1>4, <1>5, <1>6, <1>7, <1>8, <1>9, <1>10, <1>11, <1>12, <1>13, <1>14, NextCases

(* The ports of the groups are accounted for: until Acquire hands out a     *)
(* reserved one that a group still has, a port in use has exactly one group *)
(* or is known to be lost, whatever Listen and CloseListener interleave.    *)
THEOREM PortsAccountedCorrect == Spec => []PortsAccounted
<1>1. Init => PortsInv
  BY DEF Init, PortsInv, Has, Holds
<1>2. PortsInv => PortsAccounted
  BY DEF PortsInv, PortsAccounted, Has
<1> QED BY <1>1, <1>2, TypeInit, TypeStep, PortsStep, PTL DEF Spec

-----------------------------------------------------------------------------
(* A proxy joins only a group that has its parameters or no member.         *)
LEMMA AgreeStep == TypeOK /\ AgreeInv /\ [Next]_vars => AgreeInv'
<1> SUFFICES ASSUME Places, Links, AgreeInv, [Next]_vars PROVE AgreeInv'
  BY TypeParts DEF Typed
<1> USE ConfFacts
<1>1. ASSUME UNCHANGED param, \A o \in Object : lns'[o] \subseteq lns[o]
      PROVE  AgreeInv'
  BY <1>1 DEF AgreeInv
<1>2. CASE UNCHANGED vars
  BY <1>1, <1>2 DEF vars, object
<1>3. ASSUME NEW x \in Proxy, Quiet(x) PROVE AgreeInv'
  BY <1>1, <1>3 DEF Quiet, AcquireFails, ListenRefused, Close, AcceptEnds, object
<1>4. ASSUME NEW o \in Object, WorkerStep(o) PROVE AgreeInv'
  BY <1>1, <1>4 DEF WorkerStep, WorkerAccept, WorkerPanics
<1>5. ASSUME NEW x \in Proxy, AcceptConn(x) PROVE AgreeInv'
  BY <1>1, <1>5 DEF AcceptConn
<1>6. ASSUME NEW x \in Proxy, Lookup(x) PROVE AgreeInv'
  <2>1. CASE groups[Conf[x].group] # Nil
    BY <1>1, <1>6, <2>1 DEF Lookup, object
  <2>2. CASE groups[Conf[x].group] = Nil
    <3>1. PICK o \in Object : NewTCPGroup(o)
      BY <1>6, <2>2 DEF Lookup
    <3>2. lns'[o] = {} /\ \A q \in Object \ {o} : lns'[q] = lns[q] /\ param'[q] = param[q]
      BY <3>1 DEF NewTCPGroup, Links, Places
    <3> QED BY <3>2 DEF AgreeInv
  <2> QED BY <2>1, <2>2
<1>7. ASSUME NEW x \in Proxy, AcquirePort(x) \/ ListenFails(x) \/ CloseReleases(x)
      PROVE  AgreeInv'
  BY <1>1, <1>7 DEF AcquirePort, ListenFails, CloseReleases
<1>8. ASSUME NEW x \in Proxy, ListenFirst(x) PROVE AgreeInv'
  <2>1. at[x] \in Object
    BY <1>8 DEF ListenFirst, Links
  <2>2. param'[at[x]] = Conf[x] /\ lns'[at[x]] = {x}
    BY <1>8, <2>1 DEF ListenFirst, Places, Links
  <2>3. \A q \in Object \ {at[x]} : param'[q] = param[q] /\ lns'[q] = lns[q]
    BY <1>8, <2>1 DEF ListenFirst, Places, Links
  <2> QED BY <2>1, <2>2, <2>3 DEF AgreeInv
<1>9. ASSUME NEW x \in Proxy, ListenNext(x) PROVE AgreeInv'
  BY <1>9 DEF ListenNext, Agrees, AgreeInv, Links
<1>10. ASSUME NEW x \in Proxy, CloseListener(x) PROVE AgreeInv'
  BY <1>1, <1>10 DEF CloseListener, Links
<1>11. ASSUME NEW x \in Proxy, CloseLast(x) PROVE AgreeInv'
  BY <1>1, <1>11 DEF CloseLast, Links
<1>12. ASSUME NEW x \in Proxy, CloseLastPanics(x) PROVE AgreeInv'
  BY <1>1, <1>12 DEF CloseLastPanics, Links
<1> QED BY <1>2, <1>3, <1>4, <1>5, <1>6, <1>7, <1>8, <1>9, <1>10, <1>11, <1>12, NextCases

(* No proxy is a member beside one that asked with another key, port or     *)
(* name, also after the group was emptied while it waited.                  *)
THEOREM MembersAgreeCorrect == Spec => []MembersAgree
<1>1. Init => AgreeInv
  BY DEF Init, AgreeInv
<1>2. AgreeInv => MembersAgree
  BY DEF AgreeInv, MembersAgree
<1> QED BY <1>1, <1>2, TypeInit, TypeStep, AgreeStep, PTL DEF Spec

-----------------------------------------------------------------------------
(* late never becomes false again, and the last member takes the right      *)
(* group out of the map.                                                    *)
LEMMA MapStep == TypeOK /\ MapInv /\ [Next]_vars => MapInv'
<1> SUFFICES ASSUME Places, Links, MapInv, [Next]_vars PROVE MapInv'
  BY TypeParts DEF Typed
<1> USE ConfFacts
<1>1. ASSUME UNCHANGED <<groups, param, chOpen, late>>,
             \A o \in Object : /\ lns[o] = {} => lns'[o] = {}
                               /\ Releasing(o)' <=> Releasing(o)
      PROVE  MapInv'
  BY <1>1 DEF MapInv, Live, Places
<1>2. CASE UNCHANGED vars
  BY <1>1, <1>2 DEF vars, object, Releasing
<1>3. ASSUME NEW x \in Proxy, Quiet(x) PROVE MapInv'
  <2>1. \A o \in Object : Releasing(o)' <=> Releasing(o)
    BY <1>3 DEF Quiet, AcquireFails, ListenRefused, Close, AcceptEnds, GiveUp, object, Links, Releasing
  <2> QED BY <1>1, <1>3, <2>1 DEF Quiet, AcquireFails, ListenRefused, Close, AcceptEnds, object
<1>4. ASSUME NEW o \in Object, WorkerStep(o) PROVE MapInv'
  BY <1>1, <1>4 DEF WorkerStep, WorkerAccept, WorkerPanics, Releasing
<1>5. ASSUME NEW x \in Proxy, AcceptConn(x) PROVE MapInv'
  BY <1>1, <1>5 DEF AcceptConn, Releasing
<1>6. ASSUME NEW x \in Proxy, Lookup(x) PROVE MapInv'
  <2>1. CASE groups[Conf[x].group] # Nil
    <3>1. \A o \in Object : Releasing(o)' <=> Releasing(o)
      BY <1>6, <2>1 DEF Lookup, object, Links, Releasing
    <3> QED BY <1>1, <1>6, <2>1, <3>1 DEF Lookup, object
  <2>2. CASE groups[Conf[x].group] = Nil
    <3> DEFINE g == Conf[x].group
    <3>1. PICK o \in Object : /\ Garbage(o)
                              /\ groups' = [groups EXCEPT ![g] = o]
                              /\ NewTCPGroup(o)
      BY <1>6, <2>2 DEF Lookup
    <3>2. lns[o] = {} /\ mu[o] = Nil /\ \A h \in Group : groups[h] # o
      BY <3>1 DEF Garbage, InMap, Links
    <3>3. chOpen'[o] = TRUE /\ \A q \in Object \ {o} : chOpen'[q] = chOpen[q] /\ param'[q] = param[q]
      BY <3>1 DEF NewTCPGroup, Places
    <3>4. lns' = lns /\ mu' = mu
      BY <3>1, <3>2 DEF NewTCPGroup, Links
    <3>5. groups'[g] = o /\ \A h \in Group \ {g} : groups'[h] = groups[h]
      BY <3>1 DEF Places
    <3>6. late' = late /\ \A h \in Group : groups[h] \in Object \cup {Nil}
      BY <1>6 DEF Lookup, Places
    <3>7. \A q \in Object : Releasing(q)' <=> Releasing(q)
      BY <1>6, <3>4 DEF Lookup, Links, Releasing
    <3>8. ~Releasing(o) /\ ~Live(o)
      BY <3>2 DEF Releasing, Live
    <3>9. \A q \in Object : Live(q)' <=> Live(q)
      BY <3>4 DEF Live
    <3>10. g \in Group /\ groups[g] = Nil
      BY <2>2
    <3> HIDE DEF g
    <3> SUFFICES ASSUME ~late PROVE MapInv'
      BY <3>6 DEF MapInv
    <3>11. \A h \in Group, q \in Object : groups'[h] = q => chOpen'[q] \/ Releasing(q)'
      <4> SUFFICES ASSUME NEW h \in Group, NEW q \in Object, groups'[h] = q
                   PROVE  chOpen'[q] \/ Releasing(q)'
        OBVIOUS
      <4>1. CASE h = g
        BY <4>1, <3>3, <3>5
      <4>2. CASE h # g
        <5>1. groups[h] = q /\ q # o /\ groups[h] # Nil
          BY <4>2, <3>2, <3>5, ConfFacts
        <5>2. chOpen[q] \/ Releasing(q)
          BY <4>2, <3>5, <5>1 DEF MapInv
        <5> QED BY <5>1, <5>2, <3>3, <3>7
      <4> QED BY <4>1, <4>2
    <3>12. \A h, i \in Group : groups'[h] # Nil /\ groups'[h] = groups'[i] => h = i
      BY <3>2, <3>5, <3>6 DEF MapInv
    <3>13. \A q \in Object : Live(q)' \/ Releasing(q)' =>
                    param'[q].group \in Group /\ groups'[param'[q].group] = q
      <4> SUFFICES ASSUME NEW q \in Object, Live(q)' \/ Releasing(q)'
                   PROVE  param'[q].group \in Group /\ groups'[param'[q].group] = q
        OBVIOUS
      <4>1. q # o /\ (Live(q) \/ Releasing(q))
        BY <3>7, <3>8, <3>9
      <4>2. param'[q] = param[q] /\ param[q].group \in Group /\ groups[param[q].group] = q
        BY <4>1, <3>3 DEF MapInv
      <4> QED BY <4>2, <3>5, <3>10, ConfFacts
    <3>14. \A h \in Group : groups'[h] \in Object \cup {Nil}
      BY <3>5, <3>6
    <3>15. (\A h \in Group : groups[h] # Nil => chOpen[groups[h]] \/ Releasing(groups[h]))'
      BY <3>11, <3>14
    <3> QED BY <3>12, <3>13, <3>15 DEF MapInv
  <2> QED BY <2>1, <2>2
<1>7. ASSUME NEW x \in Proxy, AcquirePort(x) PROVE MapInv'
  <2>1. at[x] \in Object /\ mu[at[x]] = Nil
    BY <1>7 DEF AcquirePort, Links
  <2>2. mu' = [mu EXCEPT ![at[x]] = x] /\ pc' = [pc EXCEPT ![x] = "acquired"] /\ pc[x] = "found"
    BY <1>7 DEF AcquirePort
  <2>3. \A o \in Object : Releasing(o)' <=> Releasing(o)
    BY <2>1, <2>2 DEF Links, Releasing
  <2> QED BY <1>1, <1>7, <2>3 DEF AcquirePort
<1>8. ASSUME NEW x \in Proxy, ListenFirst(x) PROVE MapInv'
  <2>1. at[x] \in Object /\ mu[at[x]] = x /\ pc[x] = "acquired"
    BY <1>8 DEF ListenFirst, Links
  <2>2. mu' = [mu EXCEPT ![at[x]] = Nil] /\ pc' = [pc EXCEPT ![x] = "member"]
    BY <1>8 DEF ListenFirst
  <2>3. \A o \in Object : Releasing(o)' <=> Releasing(o)
    BY <2>1, <2>2 DEF Links, Releasing
  <2>4. param'[at[x]].group = Conf[x].group
    BY <1>8, <2>1 DEF ListenFirst, Places
  <2>5. \A q \in Object \ {at[x]} : param'[q] = param[q] /\ lns'[q] = lns[q]
    BY <1>8, <2>1 DEF ListenFirst, Places, Links
  <2>6. late' = (late \/ groups[Conf[x].group] # at[x]) /\ UNCHANGED <<groups, chOpen>>
    BY <1>8 DEF ListenFirst
  <2> SUFFICES ASSUME ~late' PROVE MapInv'
    BY DEF MapInv
  <2>7. ~late /\ groups[Conf[x].group] = at[x] /\ groups' = groups /\ chOpen' = chOpen
    BY <2>6
  <2>8. \A g \in Group : groups'[g] # Nil => groups'[g] \in Object /\ (chOpen[groups'[g]] \/ Releasing(groups[g]))
    BY <2>7 DEF MapInv, Places
  <2>9. (\A g \in Group : groups[g] # Nil => chOpen[groups[g]] \/ Releasing(groups[g]))'
    BY <2>3, <2>7, <2>8
  <2>10. \A o \in Object : Live(o)' \/ Releasing(o)' =>
                param'[o].group \in Group /\ groups'[param'[o].group] = o
    <3> SUFFICES ASSUME NEW o \in Object, Live(o)' \/ Releasing(o)'
                 PROVE  param'[o].group \in Group /\ groups'[param'[o].group] = o
      OBVIOUS
    <3>1. CASE o = at[x]
      BY <2>4, <2>7, <3>1, ConfFacts
    <3>2. CASE o # at[x]
      <4>1. Live(o) \/ Releasing(o)
        BY <2>3, <2>5, <3>2 DEF Live
      <4> QED BY <2>5, <2>7, <3>2, <4>1 DEF MapInv
    <3> QED BY <3>1, <3>2
  <2> QED BY <2>7, <2>9, <2>10 DEF MapInv
<1>9. ASSUME NEW x \in Proxy, ListenFails(x) PROVE MapInv'
  <2>1. at[x] \in Object /\ mu[at[x]] = x /\ pc[x] = "acquired"
    BY <1>9 DEF ListenFails, Links
  <2>2. mu' = [mu EXCEPT ![at[x]] = Nil] /\ pc' = [pc EXCEPT ![x] = "idle"]
    BY <1>9 DEF ListenFails, GiveUp
  <2>3. \A o \in Object : Releasing(o)' <=> Releasing(o)
    BY <2>1, <2>2 DEF Links, Releasing
  <2> QED BY <1>1, <1>9, <2>3 DEF ListenFails
<1>10. ASSUME NEW x \in Proxy, ListenNext(x) PROVE MapInv'
  <2>1. \A o \in Object : lns[o] = {} => lns'[o] = {}
    BY <1>10 DEF ListenNext, Links
  <2>2. (~late' => ~late) /\ UNCHANGED <<groups, param, chOpen>>
    BY <1>10 DEF ListenNext
  <2>3. \A o \in Object : Releasing(o)' <=> Releasing(o)
    BY <1>10 DEF ListenNext, Links, Releasing
  <2> QED BY <2>1, <2>2, <2>3 DEF MapInv, Live, Places
<1>11. ASSUME NEW x \in Proxy, CloseListener(x) PROVE MapInv'
  <2>1. \A o \in Object : Releasing(o)' <=> Releasing(o)
    BY <1>11 DEF CloseListener, GiveUp, Links, Releasing
  <2> QED BY <1>1, <1>11, <2>1 DEF CloseListener, Links
<1>12. ASSUME NEW x \in Proxy, CloseLast(x) PROVE MapInv'
  <2>1. PICK o \in Object : o = at[x] /\ x # Nil /\ pc[x] = "closing" /\ Live(o)
    BY <1>12 DEF CloseLast, Links, Live
  <2>2. /\ mu' = [mu EXCEPT ![o] = x] /\ pc' = [pc EXCEPT ![x] = "releasing"]
        /\ lns' = [lns EXCEPT ![o] = {}] /\ chOpen' = [chOpen EXCEPT ![o] = FALSE]
        /\ UNCHANGED <<groups, param, late>>
    BY <1>12, <2>1 DEF CloseLast
  <2>3. Releasing(o)' /\ ~Live(o)'
    BY <2>1, <2>2 DEF Releasing, Live, Links
  <2>4. \A q \in Object \ {o} : /\ Releasing(q)' <=> Releasing(q)
                                /\ Live(q)' <=> Live(q)
                                /\ chOpen'[q] = chOpen[q]
    BY <2>1, <2>2 DEF Releasing, Live, Links, Places
  <2> SUFFICES ASSUME ~late PROVE MapInv'
    BY <2>2 DEF MapInv
  <2>5. \A h \in Group, q \in Object : groups'[h] = q => chOpen'[q] \/ Releasing(q)'
    <3> SUFFICES ASSUME NEW h \in Group, NEW q \in Object, groups[h] = q
                 PROVE  chOpen'[q] \/ Releasing(q)'
      BY <2>2
    <3>1. CASE q = o
      BY <2>3, <3>1
    <3>2. CASE q # o
      <4>1. chOpen[q] \/ Releasing(q)
        BY ConfFacts DEF MapInv
      <4> QED BY <2>4, <3>2, <4>1 DEF Releasing
    <3> QED BY <3>1, <3>2
  <2>6. (\A h \in Group : groups[h] # Nil => chOpen[groups[h]] \/ Releasing(groups[h]))'
    BY <2>2, <2>5 DEF Places
  <2>7. ASSUME NEW q \in Object, Live(q)' \/ Releasing(q)'
        PROVE  Live(q) \/ Releasing(q)
    <3>1. CASE q = o
      BY <2>1, <3>1 DEF Live
    <3>2. CASE q # o
      BY <2>4, <2>7, <3>2
    <3> QED BY <3>1, <3>2
  <2>8. \A q \in Object : Live(q)' \/ Releasing(q)' =>
                    param'[q].group \in Group /\ groups'[param'[q].group] = q
    BY <2>2, <2>7 DEF MapInv
  <2>9. \A h, i \in Group : groups'[h] # Nil /\ groups'[h] = groups'[i] => h = i
    BY <2>2 DEF MapInv
  <2> QED BY <2>6, <2>8, <2>9 DEF MapInv
<1>13. ASSUME NEW x \in Proxy, CloseReleases(x) PROVE MapInv'
  <2> SUFFICES ASSUME ~late PROVE MapInv'
    BY <1>13 DEF MapInv, CloseReleases
  <2>1. PICK o \in Object : o = at[x] /\ mu[o] = x /\ Releasing(o) /\ lns[o] = {}
    BY <1>13 DEF CloseReleases, Links, Releasing
  <2>2. PICK g \in Group : g = param[o].group /\ groups[g] = o
    BY <2>1 DEF MapInv
  <2>3. groups' = [groups EXCEPT ![g] = Nil] /\ mu' = [mu EXCEPT ![o] = Nil] /\ pc' = [pc EXCEPT ![x] = "idle"]
    BY <1>13, <2>1, <2>2 DEF CloseReleases, GiveUp
  <2>4. groups'[g] = Nil /\ \A h \in Group \ {g} : groups'[h] = groups[h] /\ groups[h] # o
    BY <2>1, <2>2, <2>3 DEF Places, MapInv
  <2>5. UNCHANGED <<lns, param, chOpen>> /\ \A h \in Group : groups[h] \in Object \cup {Nil}
    BY <1>13 DEF CloseReleases, Places
  <2>6. ~Releasing(o)' /\ \A q \in Object \ {o} : Releasing(q)' <=> Releasing(q)
    BY <2>1, <2>3 DEF Releasing, Links
  <2>7. ~Live(o) /\ \A q \in Object : Live(q)' <=> Live(q)
    BY <2>1, <2>5 DEF Live
  <2>8. \A h \in Group, q \in Object : groups'[h] = q => chOpen'[q] \/ Releasing(q)'
    BY <2>4, <2>5, <2>6, ConfFacts DEF MapInv
  <2>9. (\A h \in Group : groups[h] # Nil => chOpen[groups[h]] \/ Releasing(groups[h]))'
    BY <2>4, <2>5, <2>8
  <2>10. \A h, i \in Group : groups'[h] # Nil /\ groups'[h] = groups'[i] => h = i
    BY <2>4 DEF MapInv
  <2>11. \A q \in Object : Live(q)' \/ Releasing(q)' =>
                    param'[q].group \in Group /\ groups'[param'[q].group] = q
    <3> SUFFICES ASSUME NEW q \in Object, Live(q)' \/ Releasing(q)'
                 PROVE  param'[q].group \in Group /\ groups'[param'[q].group] = q
      OBVIOUS
    <3>1. q # o /\ (Live(q) \/ Releasing(q))
      BY <2>6, <2>7
    <3>2. param'[q] = param[q] /\ param[q].group \in Group /\ groups[param[q].group] = q
      BY <3>1, <2>5 DEF MapInv
    <3> QED BY <2>2, <2>4, <3>1, <3>2
  <2> QED BY <2>9, <2>10, <2>11 DEF MapInv
<1>14. ASSUME NEW x \in Proxy, CloseLastPanics(x) PROVE MapInv'
  <2>1. \A o \in Object : Releasing(o)' <=> Releasing(o)
    BY <1>14 DEF CloseLastPanics, GiveUp, Links, Releasing
  <2> QED BY <1>1, <1>14, <2>1 DEF CloseLastPanics, Links
<1> QED BY <1>2, <1>3, <1>4, <1>5, <1>6, <1>7, <1>8, <1>9, <1>10, <1>11, <1>12, <1>13, <1>14, NextCases

(* The only way to a member that gets no connections is the window between  *)
(* the two locks of Listen: without a late join every member's group is the *)
(* one in the map and its channel is open.                                  *)
THEOREM MembersReachableCorrect == Spec => []MembersReachable
<1>1. Init => MapInv
  BY DEF Init, MapInv, Live, Releasing
<1>2. MapInv /\ TypeOK => MembersReachable
  BY ConfFacts DEF MapInv, MembersReachable, TypeOK, Live, Releasing
<1> QED BY <1>1, <1>2, TypeInit, TypeStep, MapStep, PTL DEF Spec
=============================================================================
