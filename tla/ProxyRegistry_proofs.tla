------------------------ MODULE ProxyRegistry_proofs ------------------------
(* Proofs about ProxyRegistry for any number of controls, run ids and names. *)
EXTENDS ProxyRegistry, FiniteSetTheorems, TLAPS

(* ClosePxy and RunOK keep the types of the two tables keyed by name.       *)
LEMMA TablesType ==
    ASSUME TypeOK, NEW c \in Control, NEW n \in Name, NEW t \in Type,
           RunOK(c, n, t) \/ ClosePxy(n, t)
    PROVE  /\ visitorListeners' \in [Name -> Control \cup {Nil}]
           /\ clientCfgs' \in [Name -> Control \cup {Nil}]
<1>1. /\ visitorListeners \in [Name -> Control \cup {Nil}]
      /\ clientCfgs \in [Name -> Control \cup {Nil}]
  BY DEF TypeOK
<1>2. CASE RunOK(c, n, t)
  BY <1>1, <1>2 DEF RunOK
<1>3. CASE ClosePxy(n, t)
  BY <1>1, <1>3 DEF ClosePxy
<1> QED BY <1>2, <1>3

(* The name and the type of a call under way.                                *)
LEMMA JobType ==
    ASSUME TypeOK, NEW c \in Control, job[c] # Nil
    PROVE  job[c].name \in Name /\ job[c].type \in Type /\ job[c] \in Job
  BY DEF TypeOK, Job

(* What a proxy is charged is a number.                                      *)
LEMMA ChargeType == \A t \in Type : Charge(t) \in Int
  BY DEF Charge, UsedPortsNum

(* The tables and the controls keep their types, and a control is inside a  *)
(* call only while its manager works or, in Del, while its stoper does.     *)
THEOREM TypeCorrect == Spec => []TypeOK
<1>1. Init => TypeOK
  BY DEF Init, TypeOK, Phase
<1>2. TypeOK /\ [Next]_vars => TypeOK'
  <2> SUFFICES ASSUME TypeOK, [Next]_vars PROVE TypeOK'
    OBVIOUS
  <2>1. ASSUME NEW c \in Control, NEW r \in RunID, Login(c, r) PROVE TypeOK'
    BY <2>1 DEF Login, TypeOK, Phase, tables
  <2>2. ASSUME NEW c \in Control, Start(c) PROVE TypeOK'
    BY <2>2 DEF Start, TypeOK, Phase, tables
  <2>3. ASSUME NEW c \in Control, Disconnect(c) PROVE TypeOK'
    BY <2>3 DEF Disconnect, TypeOK, tables
  <2>4. ASSUME NEW c \in Control, NEW n \in Name, NEW t \in Type, RegisterRun(c, n, t)
        PROVE TypeOK'
    <3>1. [op |-> "run", name |-> n, type |-> t] \in Job
      BY DEF Job
    <3>2. /\ visitorListeners' \in [Name -> Control \cup {Nil}]
          /\ clientCfgs' \in [Name -> Control \cup {Nil}]
      BY <2>4, TablesType DEF RegisterRun
    <3> QED BY <2>4, <3>1, <3>2, ChargeType DEF RegisterRun, Ready, TypeOK, session
  <2>5. ASSUME NEW c \in Control, RegisterAdd(c) PROVE TypeOK'
    BY <2>5, JobType DEF RegisterAdd, TypeOK, session
  <2>6. ASSUME NEW c \in Control, RegisterAddFails(c) PROVE TypeOK'
    <3>1. [op |-> "undo", name |-> job[c].name, type |-> job[c].type] \in Job
      BY <2>6, JobType DEF RegisterAddFails, Job
    <3>2. phase[c] = "working"
      BY <2>6 DEF RegisterAddFails, TypeOK
    <3> QED BY <2>6, <3>1, <3>2 DEF RegisterAddFails, TypeOK, session, tables
  <2>7. ASSUME NEW c \in Control, RegisterUndo(c) PROVE TypeOK'
    <3>1. /\ visitorListeners' \in [Name -> Control \cup {Nil}]
          /\ clientCfgs' \in [Name -> Control \cup {Nil}]
      BY <2>7, TablesType, JobType DEF RegisterUndo
    <3> QED BY <2>7, <3>1, ChargeType, JobType DEF RegisterUndo, TypeOK, session
  <2>8. ASSUME NEW c \in Control, NEW n \in Name, CloseProxy(c, n) PROVE TypeOK'
    <3>1. proxies[c][n] \in Type
      BY <2>8 DEF CloseProxy, TypeOK
    <3>2. [op |-> "del", name |-> n, type |-> proxies[c][n]] \in Job
      BY <3>1 DEF Job
    <3>3. /\ visitorListeners' \in [Name -> Control \cup {Nil}]
          /\ clientCfgs' \in [Name -> Control \cup {Nil}]
      BY <2>8, <3>1, TablesType DEF CloseProxy
    <3> QED BY <2>8, <3>1, <3>2, <3>3, ChargeType DEF CloseProxy, Ready, TypeOK, session
  <2>9. ASSUME NEW c \in Control, PxyDel(c) PROVE TypeOK'
    BY <2>9, JobType DEF PxyDel, TypeOK, session
  <2>10. ASSUME NEW c \in Control, StoperBegin(c) PROVE TypeOK'
    BY <2>10 DEF StoperBegin, Ready, TypeOK, Phase, tables
  <2>11. ASSUME NEW c \in Control, NEW n \in Name, StoperClose(c, n) PROVE TypeOK'
    <3>1. proxies[c][n] \in Type
      BY <2>11 DEF StoperClose, TypeOK
    <3>2. [op |-> "del", name |-> n, type |-> proxies[c][n]] \in Job
      BY <3>1 DEF Job
    <3>3. /\ visitorListeners' \in [Name -> Control \cup {Nil}]
          /\ clientCfgs' \in [Name -> Control \cup {Nil}]
      BY <2>11, <3>1, TablesType DEF StoperClose
    <3> QED BY <2>11, <3>2, <3>3 DEF StoperClose, TypeOK, session
  <2>12. ASSUME NEW c \in Control, StoperDone(c) PROVE TypeOK'
    BY <2>12 DEF StoperDone, TypeOK, Phase, tables
  <2>13. ASSUME NEW c \in Control, DelControl(c) PROVE TypeOK'
    BY <2>13 DEF DelControl, TypeOK, Phase, tables
  <2>14. ASSUME NEW c \in Control, StoperBlocked(c) PROVE TypeOK'
    BY <2>14 DEF StoperBlocked, Ready, TypeOK, Phase, tables
  <2>15. ASSUME NEW c \in Control, NEW n \in Name, CloseProxyPanics(c, n) PROVE TypeOK'
    <3>1. Charge("tcp") \in Int
      BY DEF Charge, UsedPortsNum
    <3> QED BY <2>15, <3>1 DEF CloseProxyPanics, Ready, TypeOK, Phase, tables
  <2>16. ASSUME NEW c \in Control, NEW n \in Name, StoperPanics(c, n) PROVE TypeOK'
    BY <2>16 DEF StoperPanics, TypeOK, Phase, tables
  <2>17. CASE UNCHANGED vars
    BY <2>17 DEF TypeOK, vars
  <2> QED
    BY <2>1, <2>2, <2>3, <2>4, <2>5, <2>6, <2>7, <2>8, <2>9, <2>10, <2>11,
       <2>12, <2>13, <2>14, <2>15, <2>16, <2>17
    DEF Next
<1> QED BY <1>1, <1>2, PTL DEF Spec

-----------------------------------------------------------------------------
(* The strengthening that makes RegistryAgrees inductive: between Close and *)
(* pxyManager.Del the control still has the proxy whose name it deletes.    *)
DelOwns ==
    \A c \in Control : job[c] # Nil /\ job[c].op = "del" =>
        proxies[c][job[c].name] = job[c].type

RegistryInv == RegistryAgrees /\ DelOwns

(* Every step keeps RegistryAgrees and its strengthening.                    *)
LEMMA RegistryStep ==
    ASSUME TypeOK, RegistryInv, [Next]_vars
    PROVE  RegistryInv'
<1> USE DEF RegistryInv
<1>1. ASSUME NEW c \in Control, RegisterAdd(c) PROVE RegistryInv'
  <2> DEFINE n == job[c].name
  <2>1. n \in Name /\ job[c].type \in Type /\ job[c].type # Nil
    BY <1>1, JobType, NilAssumption, TypeAssumption DEF RegisterAdd
  <2>2. \A d \in Control : proxies[d][n] = Nil
    BY <1>1, <2>1, NilAssumption DEF RegisterAdd, RegistryAgrees, TypeOK
  <2>3. /\ pxys' = [pxys EXCEPT ![n] = c]
        /\ proxies' = [proxies EXCEPT ![c][n] = job[c].type]
        /\ job' = [job EXCEPT ![c] = Nil]
    BY <1>1 DEF RegisterAdd
  <2>4. RegistryAgrees'
    BY <2>1, <2>2, <2>3, NilAssumption DEF RegistryAgrees, TypeOK
  <2>5. DelOwns'
    <3> SUFFICES ASSUME NEW d \in Control, job'[d] # Nil, job'[d].op = "del"
                 PROVE  proxies'[d][job'[d].name] = job'[d].type
      BY DEF DelOwns
    <3>1. d # c /\ job'[d] = job[d]
      BY <2>3 DEF TypeOK
    <3> QED BY <2>3, <3>1 DEF DelOwns, TypeOK
  <2> QED BY <2>4, <2>5
<1>2. ASSUME NEW c \in Control, PxyDel(c) PROVE RegistryInv'
  <2> DEFINE n == job[c].name
  <2>1. n \in Name /\ job[c].type # Nil
    BY <1>2, JobType, NilAssumption, TypeAssumption DEF PxyDel
  <2>2. pxys[n] = c
    BY <1>2, <2>1 DEF PxyDel, RegistryAgrees, DelOwns
  <2>3. /\ pxys' = [pxys EXCEPT ![n] = Nil]
        /\ proxies' = [proxies EXCEPT ![c][n] = Nil]
        /\ job' = [job EXCEPT ![c] = Nil]
    BY <1>2 DEF PxyDel
  <2>4. RegistryAgrees'
    BY <2>1, <2>2, <2>3, NilAssumption DEF RegistryAgrees, TypeOK
  <2>5. DelOwns'
    <3> SUFFICES ASSUME NEW d \in Control, job'[d] # Nil, job'[d].op = "del"
                 PROVE  proxies'[d][job'[d].name] = job'[d].type
      BY DEF DelOwns
    <3>1. d # c /\ job'[d] = job[d]
      BY <2>3 DEF TypeOK
    <3> QED BY <2>3, <3>1 DEF DelOwns, TypeOK
  <2> QED BY <2>4, <2>5
<1>3. ASSUME NEW c \in Control, NEW n \in Name, CloseProxy(c, n) \/ StoperClose(c, n)
      PROVE  RegistryInv'
  BY <1>3 DEF CloseProxy, StoperClose, RegistryAgrees, DelOwns, TypeOK
<1>4. ASSUME NEW c \in Control, NEW n \in Name, NEW t \in Type, RegisterRun(c, n, t)
      PROVE  RegistryInv'
  BY <1>4 DEF RegisterRun, RegistryAgrees, DelOwns, TypeOK
<1>5. ASSUME NEW c \in Control, RegisterAddFails(c) PROVE RegistryInv'
  BY <1>5 DEF RegisterAddFails, RegistryAgrees, DelOwns, TypeOK, tables
<1>6. ASSUME NEW c \in Control, RegisterUndo(c) PROVE RegistryInv'
  BY <1>6 DEF RegisterUndo, RegistryAgrees, DelOwns, TypeOK
<1>7. CASE UNCHANGED <<proxies, job, pxys>>
  BY <1>7 DEF RegistryAgrees, DelOwns
<1> QED
  BY <1>1, <1>2, <1>3, <1>4, <1>5, <1>6, <1>7
  DEF Next, Login, Start, Disconnect, StoperBegin, StoperBlocked, CloseProxyPanics,
      StoperPanics, StoperDone, DelControl, tables, vars

(* proxy.Manager and the proxies maps of the controls agree at every step   *)
(* of any number of clients.                                                *)
THEOREM RegistryCorrect == Spec => []RegistryAgrees
<1>1. Init => RegistryInv
  BY NilAssumption DEF Init, RegistryInv, RegistryAgrees, DelOwns
<1>2. TypeOK /\ RegistryInv /\ [Next]_vars => RegistryInv'
  BY RegistryStep
<1>3. RegistryInv => RegistryAgrees
  BY DEF RegistryInv
<1> QED BY <1>1, <1>2, <1>3, TypeCorrect, PTL DEF Spec

-----------------------------------------------------------------------------
(* A control's set of names changes only in RegisterAdd and PxyDel.         *)
LEMMA LeaseStep ==
    ASSUME TypeOK, RegistryInv, [Next]_vars
    PROVE  [Leases!Next]_([c \in Control |-> Names(c)])
<1> DEFINE L == [c \in Control |-> Names(c)]
<1>1. ASSUME NEW c \in Control, RegisterAdd(c) PROVE Leases!Next
  <2> DEFINE n == job[c].name
  <2>1. n \in Name /\ job[c].type # Nil
    BY <1>1, JobType, NilAssumption, TypeAssumption DEF RegisterAdd
  <2>2. \A d \in Control : n \notin L[d]
    BY <1>1, <2>1, NilAssumption DEF RegisterAdd, RegistryInv, RegistryAgrees, TypeOK, Names
  <2>3. \A d \in Control \ {c} : Names(d)' = Names(d)
    BY <1>1 DEF RegisterAdd, TypeOK, Names
  <2>4. Names(c)' = Names(c) \cup {n}
    BY <1>1, <2>1 DEF RegisterAdd, TypeOK, Names
  <2>5. L' = [L EXCEPT ![c] = L[c] \cup {n}]
    BY <2>3, <2>4
  <2>6. Leases!Lease(c, n)
    BY <2>2, <2>5 DEF Leases!Lease
  <2> QED BY <2>1, <2>6 DEF Leases!Next
<1>2. ASSUME NEW c \in Control, PxyDel(c) PROVE Leases!Next
  <2> DEFINE n == job[c].name
  <2>1. n \in Name /\ job[c].type # Nil
    BY <1>2, JobType, NilAssumption, TypeAssumption DEF PxyDel
  <2>2. n \in L[c]
    BY <1>2, <2>1 DEF PxyDel, RegistryInv, DelOwns, Names
  <2>3. \A d \in Control \ {c} : Names(d)' = Names(d)
    BY <1>2 DEF PxyDel, TypeOK, Names
  <2>4. Names(c)' = Names(c) \ {n}
    BY <1>2, <2>1 DEF PxyDel, TypeOK, Names
  <2>5. L' = [L EXCEPT ![c] = L[c] \ {n}]
    BY <2>3, <2>4
  <2>6. Leases!GiveBack(c, n)
    BY <2>2, <2>5 DEF Leases!GiveBack
  <2> QED BY <2>1, <2>6 DEF Leases!Next
<1>3. CASE UNCHANGED proxies
  BY <1>3 DEF Names
<1> QED
  BY <1>1, <1>2, <1>3
  DEF Next, Login, Start, Disconnect, RegisterRun, RegisterAddFails, RegisterUndo,
      CloseProxy, CloseProxyPanics, StoperBegin, StoperBlocked, StoperClose, StoperPanics,
      StoperDone, DelControl, vars

(* The controls implement the exclusive lease of proxy names: every step of *)
(* the server is a Lease, a GiveBack or leaves the leases alone.            *)
THEOREM Refinement == Spec => LeaseSpec
<1>1. Init => RegistryInv /\ Leases!Init
  BY NilAssumption
  DEF Init, RegistryInv, RegistryAgrees, DelOwns, Leases!Init, Names
<1>2. TypeOK /\ RegistryInv /\ [Next]_vars => RegistryInv'
  BY RegistryStep
<1>3. TypeOK /\ RegistryInv /\ [Next]_vars
        => [Leases!Next]_([c \in Control |-> Names(c)])
  BY LeaseStep
<1> QED BY <1>1, <1>2, <1>3, TypeCorrect, PTL DEF Spec, LeaseSpec, Leases!Spec

-----------------------------------------------------------------------------
(* A registration under way has the visitor listener it made in Run, and it *)
(* made it because the control had no stcp proxy of that name.              *)
JobListens ==
    \A c \in Control :
        job[c] # Nil /\ job[c].op \in {"run", "undo"} /\ job[c].type = "stcp" =>
            /\ visitorListeners[job[c].name] = c
            /\ proxies[c][job[c].name] # "stcp"

VisitorInv == VisitorServed /\ NoOrphanListener /\ JobListens

(* The steps that touch a proxy, a job or a visitor listener.               *)
LEMMA NextCases ==
    ASSUME [Next]_vars
    PROVE  \/ \E c \in Control, n \in Name, t \in Type : RegisterRun(c, n, t)
           \/ \E c \in Control : \/ RegisterAdd(c) \/ RegisterAddFails(c)
                                 \/ RegisterUndo(c) \/ PxyDel(c)
           \/ \E c \in Control, n \in Name : CloseProxy(c, n) \/ StoperClose(c, n)
           \/ UNCHANGED <<proxies, job, visitorListeners>>
  BY DEF Next, Login, Start, Disconnect, StoperBegin, StoperBlocked, CloseProxyPanics,
         StoperPanics, StoperDone, DelControl, tables, vars

(* Every step keeps the invariant about visitor listeners.                   *)
LEMMA VisitorStep ==
    ASSUME TypeOK, RegistryInv, VisitorInv, [Next]_vars
    PROVE  VisitorInv'
<1> USE NilAssumption, TypeAssumption DEF VisitorInv, VisitorServed, NoOrphanListener, JobListens, Serves
<1>1. ASSUME NEW c \in Control, NEW n \in Name, NEW t \in Type, RegisterRun(c, n, t)
      PROVE  VisitorInv'
  <2>1. /\ job[c] = Nil
        /\ job' = [job EXCEPT ![c] = [op |-> "run", name |-> n, type |-> t]]
        /\ proxies' = proxies
    BY <1>1 DEF RegisterRun, Ready
  <2>2. CASE t = "stcp"
    <3>1. visitorListeners[n] = Nil /\ visitorListeners' = [visitorListeners EXCEPT ![n] = c]
      BY <1>1, <2>2 DEF RegisterRun, RunOK
    <3>2. \A d \in Control : proxies[d][n] = "stcp" => ~Serves(d, n, "stcp")
      BY <3>1
    <3>3. [op |-> "run", name |-> n, type |-> t] # Nil
      BY DEF Job
    <3>4. VisitorServed'
      BY <2>1, <3>1, <3>2 DEF TypeOK
    <3>5. NoOrphanListener'
      BY <2>1, <2>2, <3>1, <3>3 DEF TypeOK
    <3>6. JobListens'
      BY <2>1, <2>2, <3>1, <3>2, <3>3 DEF TypeOK
    <3> QED BY <3>4, <3>5, <3>6
  <2>3. CASE t # "stcp"
    <3>1. visitorListeners' = visitorListeners
      BY <1>1, <2>3 DEF RegisterRun, RunOK
    <3> QED BY <2>1, <2>3, <3>1 DEF TypeOK
  <2> QED BY <2>2, <2>3
<1>2. ASSUME NEW c \in Control, RegisterAdd(c) PROVE VisitorInv'
  <2> DEFINE n == job[c].name
  <2>1. n \in Name /\ job[c].type \in Type /\ job[c].type # Nil
    BY <1>2, JobType DEF RegisterAdd
  <2>2. \A d \in Control : proxies[d][n] = Nil
    BY <1>2, <2>1 DEF RegisterAdd, RegistryInv, RegistryAgrees, TypeOK
  <2>3. /\ job[c] # Nil /\ job[c].op = "run"
        /\ proxies' = [proxies EXCEPT ![c][n] = job[c].type]
        /\ job' = [job EXCEPT ![c] = Nil]
        /\ visitorListeners' = visitorListeners
    BY <1>2 DEF RegisterAdd
  <2>4. VisitorServed'
    BY <2>1, <2>2, <2>3 DEF TypeOK
  <2>5. NoOrphanListener'
    <3> SUFFICES ASSUME NEW d \in Control, NEW m \in Name, visitorListeners[m] = d
                 PROVE  \/ Serves(d, m, "stcp")'
                        \/ /\ job'[d] # Nil
                           /\ job'[d].op \in {"run", "undo"}
                           /\ job'[d].name = m
                           /\ job'[d].type = "stcp"
      BY <2>3
    <3>1. CASE d = c /\ m = n
      <4>1. job[c].type = "stcp"
        BY <2>2, <3>1, <2>1
      <4> QED BY <2>1, <2>3, <3>1, <4>1 DEF TypeOK
    <3>2. CASE d = c /\ m # n
      <4>1. Serves(c, m, "stcp")
        BY <3>2
      <4> QED BY <2>1, <2>3, <3>2, <4>1 DEF TypeOK
    <3>3. CASE d # c
      <4>1. job'[d] = job[d] /\ proxies'[d] = proxies[d]
        BY <2>3, <3>3 DEF TypeOK
      <4> QED BY <4>1
    <3> QED BY <3>1, <3>2, <3>3
  <2>6. JobListens'
    BY <2>1, <2>2, <2>3 DEF TypeOK
  <2> QED BY <2>4, <2>5, <2>6
<1>3. ASSUME NEW c \in Control, RegisterAddFails(c) PROVE VisitorInv'
  <2>1. job'[c] = [op |-> "undo", name |-> job[c].name, type |-> job[c].type]
    BY <1>3 DEF RegisterAddFails, TypeOK
  <2>2. /\ job[c] # Nil /\ job[c].op = "run"
        /\ job'[c] # Nil
        /\ \A d \in Control \ {c} : job'[d] = job[d]
        /\ proxies' = proxies /\ visitorListeners' = visitorListeners
    <3>1. job'[c] \in Job
      BY <1>3, <2>1, JobType DEF RegisterAddFails, Job
    <3> QED BY <1>3, <3>1 DEF RegisterAddFails, TypeOK, tables
  <2> QED BY <2>1, <2>2
<1>4. ASSUME NEW c \in Control, RegisterUndo(c) PROVE VisitorInv'
  <2> DEFINE n == job[c].name
  <2>1. n \in Name /\ job[c].type \in Type
    BY <1>4, JobType DEF RegisterUndo
  <2>2. /\ job[c] # Nil /\ job[c].op = "undo"
        /\ job' = [job EXCEPT ![c] = Nil]
        /\ proxies' = proxies
        /\ ClosePxy(n, job[c].type)
    BY <1>4 DEF RegisterUndo
  <2>3. CASE job[c].type = "stcp"
    <3>1. visitorListeners' = [visitorListeners EXCEPT ![n] = Nil]
      BY <2>2, <2>3 DEF ClosePxy
    <3>2. visitorListeners[n] = c /\ proxies[c][n] # "stcp"
      BY <2>2, <2>3
    <3> QED BY <2>1, <2>2, <3>1, <3>2 DEF TypeOK
  <2>4. CASE job[c].type # "stcp"
    <3>1. visitorListeners' = visitorListeners
      BY <2>2, <2>4 DEF ClosePxy
    <3> QED BY <2>1, <2>2, <2>4, <3>1 DEF TypeOK
  <2> QED BY <2>3, <2>4
<1>5. ASSUME NEW c \in Control, NEW n \in Name, CloseProxy(c, n) \/ StoperClose(c, n)
      PROVE  VisitorInv'
  <2>1. /\ job[c] = Nil /\ proxies[c][n] # Nil
        /\ job' = [job EXCEPT ![c] = [op |-> "del", name |-> n, type |-> proxies[c][n]]]
        /\ proxies' = proxies
        /\ ClosePxy(n, proxies[c][n])
    BY <1>5 DEF CloseProxy, StoperClose, Ready
  <2>2. CASE proxies[c][n] = "stcp"
    <3>1. visitorListeners' = [visitorListeners EXCEPT ![n] = Nil]
      BY <2>1, <2>2 DEF ClosePxy
    <3>2. visitorListeners[n] = c
      BY <2>1, <2>2
    <3>3. /\ job'[c] = [op |-> "del", name |-> n, type |-> "stcp"]
          /\ job'[c] # Nil
          /\ \A d \in Control \ {c} : job'[d] = job[d]
          /\ visitorListeners'[n] = Nil
          /\ \A m \in Name \ {n} : visitorListeners'[m] = visitorListeners[m]
      <4>1. [op |-> "del", name |-> n, type |-> "stcp"] \in Job
        BY <2>1, <2>2 DEF Job, TypeOK
      <4> QED BY <2>1, <2>2, <3>1, <4>1 DEF TypeOK
    <3>4. VisitorServed'
      BY <2>1, <3>2, <3>3
    <3>5. NoOrphanListener'
      BY <2>1, <3>2, <3>3
    <3>6. JobListens'
      BY <2>1, <3>2, <3>3, JobType
    <3> QED BY <3>4, <3>5, <3>6
  <2>3. CASE proxies[c][n] # "stcp"
    <3>1. visitorListeners' = visitorListeners
      BY <2>1, <2>3 DEF ClosePxy
    <3>2. /\ job'[c] = [op |-> "del", name |-> n, type |-> proxies[c][n]]
          /\ \A d \in Control \ {c} : job'[d] = job[d]
      BY <2>1 DEF TypeOK
    <3>3. VisitorServed'
      BY <2>1, <3>1, <3>2
    <3>4. NoOrphanListener'
      BY <2>1, <2>3, <3>1, <3>2
    <3>5. JobListens'
      BY <2>1, <3>1, <3>2
    <3> QED BY <3>3, <3>4, <3>5
  <2> QED BY <2>2, <2>3
<1>6. ASSUME NEW c \in Control, PxyDel(c) PROVE VisitorInv'
  <2> DEFINE n == job[c].name
  <2>1. n \in Name
    BY <1>6, JobType DEF PxyDel
  <2>2. /\ job[c] # Nil /\ job[c].op = "del"
        /\ job' = [job EXCEPT ![c] = Nil]
        /\ proxies' = [proxies EXCEPT ![c][n] = Nil]
        /\ visitorListeners' = visitorListeners
    BY <1>6 DEF PxyDel
  <2>3. /\ job'[c] = Nil
        /\ \A d \in Control \ {c} : job'[d] = job[d] /\ proxies'[d] = proxies[d]
        /\ proxies'[c][n] = Nil
        /\ \A m \in Name \ {n} : proxies'[c][m] = proxies[c][m]
    BY <2>1, <2>2 DEF TypeOK
  <2>4. VisitorServed'
    BY <2>2, <2>3
  <2>5. NoOrphanListener'
    <3>1. \A m \in Name : visitorListeners[m] = c => m # n /\ Serves(c, m, "stcp")
      BY <2>2
    <3> QED BY <2>2, <2>3, <3>1
  <2>6. JobListens'
    BY <2>2, <2>3
  <2> QED BY <2>4, <2>5, <2>6
<1>7. CASE UNCHANGED <<proxies, job, visitorListeners>>
  BY <1>7
<1> HIDE DEF VisitorInv, VisitorServed, NoOrphanListener, JobListens, Serves
<1> QED BY <1>1, <1>2, <1>3, <1>4, <1>5, <1>6, <1>7, NextCases

(* A registered stcp or sudp proxy keeps its listener, and no listener is   *)
(* left behind, for any number of clients fighting for the same name.       *)
THEOREM VisitorsCorrect == Spec => [](VisitorServed /\ NoOrphanListener)
<1>1. Init => RegistryInv /\ VisitorInv
  BY NilAssumption, TypeAssumption
  DEF Init, RegistryInv, RegistryAgrees, DelOwns, VisitorInv, VisitorServed,
      NoOrphanListener, JobListens, Serves
<1>2. TypeOK /\ RegistryInv /\ [Next]_vars => RegistryInv'
  BY RegistryStep
<1>3. TypeOK /\ RegistryInv /\ VisitorInv /\ [Next]_vars => VisitorInv'
  BY VisitorStep
<1>4. VisitorInv => VisitorServed /\ NoOrphanListener
  BY DEF VisitorInv
<1> QED BY <1>1, <1>2, <1>3, <1>4, TypeCorrect, PTL DEF Spec

(* No visitor listener outlives the proxy that made it (RegisterProxy and   *)
(* its deferred Close, CloseProxy, stoper).                                 *)
THEOREM NoOrphanListenerCorrect == Spec => []NoOrphanListener
  BY VisitorsCorrect, PTL

-----------------------------------------------------------------------------
(* The steps that touch a proxy, a job or an xtcp client.                   *)
LEMMA ClientCases ==
    ASSUME [Next]_vars
    PROVE  \/ \E c \in Control, n \in Name, t \in Type : RegisterRun(c, n, t)
           \/ \E c \in Control : \/ RegisterAdd(c) \/ RegisterAddFails(c)
                                 \/ RegisterUndo(c) \/ PxyDel(c)
           \/ \E c \in Control, n \in Name : CloseProxy(c, n) \/ StoperClose(c, n)
           \/ UNCHANGED <<proxies, job, clientCfgs>>
  BY DEF Next, Login, Start, Disconnect, StoperBegin, StoperBlocked, CloseProxyPanics,
         StoperPanics, StoperDone, DelControl, tables, vars

(* An entry removed by name may be another client's, but none is left       *)
(* behind: every step of a control leaves its own entry to a call under way *)
(* or to a registered proxy.                                                *)
LEMMA ClientStep ==
    ASSUME TypeOK, RegistryInv, NoOrphanClient, [Next]_vars
    PROVE  NoOrphanClient'
<1> USE NilAssumption, TypeAssumption DEF NoOrphanClient, Serves
<1>1. ASSUME NEW c \in Control, NEW n \in Name, NEW t \in Type, RegisterRun(c, n, t)
      PROVE  NoOrphanClient'
  <2>1. /\ job[c] = Nil
        /\ job' = [job EXCEPT ![c] = [op |-> "run", name |-> n, type |-> t]]
        /\ proxies' = proxies
        /\ clientCfgs' = IF t = "xtcp" THEN [clientCfgs EXCEPT ![n] = c] ELSE clientCfgs
    BY <1>1 DEF RegisterRun, Ready, RunOK
  <2>2. [op |-> "run", name |-> n, type |-> t] # Nil
    BY DEF Job
  <2> QED BY <2>1, <2>2 DEF TypeOK
<1>2. ASSUME NEW c \in Control, RegisterAdd(c) PROVE NoOrphanClient'
  <2> DEFINE n == job[c].name
  <2>1. n \in Name /\ job[c].type \in Type /\ job[c].type # Nil
    BY <1>2, JobType DEF RegisterAdd
  <2>2. \A d \in Control : proxies[d][n] = Nil
    BY <1>2, <2>1 DEF RegisterAdd, RegistryInv, RegistryAgrees, TypeOK
  <2>3. /\ job[c] # Nil /\ job[c].op = "run"
        /\ proxies' = [proxies EXCEPT ![c][n] = job[c].type]
        /\ job' = [job EXCEPT ![c] = Nil]
        /\ clientCfgs' = clientCfgs
    BY <1>2 DEF RegisterAdd
  <2>4. /\ job'[c] = Nil
        /\ \A d \in Control \ {c} : job'[d] = job[d] /\ proxies'[d] = proxies[d]
        /\ proxies'[c][n] = job[c].type
        /\ \A m \in Name \ {n} : proxies'[c][m] = proxies[c][m]
    BY <2>1, <2>3 DEF TypeOK
  <2>5. \A m \in Name : clientCfgs[m] = c =>
           (m = n /\ job[c].type = "xtcp") \/ (m # n /\ proxies[c][m] = "xtcp")
    BY <2>1, <2>2, <2>3
  <2> HIDE DEF n
  <2> QED BY <2>3, <2>4, <2>5
<1>3. ASSUME NEW c \in Control, RegisterAddFails(c) PROVE NoOrphanClient'
  <2>1. job'[c] = [op |-> "undo", name |-> job[c].name, type |-> job[c].type]
    BY <1>3 DEF RegisterAddFails, TypeOK
  <2>2. /\ job[c] # Nil /\ job[c].op = "run"
        /\ job'[c] # Nil
        /\ \A d \in Control \ {c} : job'[d] = job[d]
        /\ proxies' = proxies /\ clientCfgs' = clientCfgs
    <3>1. job'[c] \in Job
      BY <1>3, <2>1, JobType DEF RegisterAddFails, Job
    <3> QED BY <1>3, <3>1 DEF RegisterAddFails, TypeOK, tables
  <2> QED BY <2>1, <2>2
<1>4. ASSUME NEW c \in Control, RegisterUndo(c) PROVE NoOrphanClient'
  <2> DEFINE n == job[c].name
  <2>1. n \in Name /\ job[c].type \in Type
    BY <1>4, JobType DEF RegisterUndo
  <2>2. /\ job[c] # Nil /\ job[c].op = "undo"
        /\ job' = [job EXCEPT ![c] = Nil]
        /\ proxies' = proxies
        /\ clientCfgs' = IF job[c].type = "xtcp" THEN [clientCfgs EXCEPT ![n] = Nil] ELSE clientCfgs
    BY <1>4 DEF RegisterUndo, ClosePxy
  <2> QED BY <2>1, <2>2 DEF TypeOK
<1>5. ASSUME NEW c \in Control, NEW n \in Name, CloseProxy(c, n) \/ StoperClose(c, n)
      PROVE  NoOrphanClient'
  <2>1. /\ job[c] = Nil /\ proxies[c][n] # Nil
        /\ job' = [job EXCEPT ![c] = [op |-> "del", name |-> n, type |-> proxies[c][n]]]
        /\ proxies' = proxies
        /\ clientCfgs' = IF proxies[c][n] = "xtcp" THEN [clientCfgs EXCEPT ![n] = Nil] ELSE clientCfgs
    BY <1>5 DEF CloseProxy, StoperClose, Ready, ClosePxy
  <2> QED BY <2>1 DEF TypeOK
<1>6. ASSUME NEW c \in Control, PxyDel(c) PROVE NoOrphanClient'
  <2> DEFINE n == job[c].name
  <2>1. n \in Name
    BY <1>6, JobType DEF PxyDel
  <2>2. /\ job[c] # Nil /\ job[c].op = "del"
        /\ job' = [job EXCEPT ![c] = Nil]
        /\ proxies' = [proxies EXCEPT ![c][n] = Nil]
        /\ clientCfgs' = clientCfgs
    BY <1>6 DEF PxyDel
  <2>3. /\ job'[c] = Nil
        /\ \A d \in Control \ {c} : job'[d] = job[d] /\ proxies'[d] = proxies[d]
        /\ \A m \in Name \ {n} : proxies'[c][m] = proxies[c][m]
    BY <2>1, <2>2 DEF TypeOK
  <2>4. \A m \in Name : clientCfgs[m] = c => m # n /\ Serves(c, m, "xtcp")
    BY <2>2
  <2> QED BY <2>2, <2>3, <2>4
<1>7. CASE UNCHANGED <<proxies, job, clientCfgs>>
  BY <1>7
<1> HIDE DEF NoOrphanClient, Serves
<1> QED BY <1>1, <1>2, <1>3, <1>4, <1>5, <1>6, <1>7, ClientCases

(* No entry of nathole.Controller outlives the xtcp proxy that made it,     *)
(* though ListenClient and CloseClient do not look whose entry it is.       *)
THEOREM NoOrphanClientCorrect == Spec => []NoOrphanClient
<1>1. Init => RegistryInv /\ NoOrphanClient
  BY NilAssumption DEF Init, RegistryInv, RegistryAgrees, DelOwns, NoOrphanClient, Serves
<1>2. TypeOK /\ RegistryInv /\ [Next]_vars => RegistryInv'
  BY RegistryStep
<1>3. TypeOK /\ RegistryInv /\ NoOrphanClient /\ [Next]_vars => NoOrphanClient'
  BY ClientStep
<1> QED BY <1>1, <1>2, <1>3, TypeCorrect, PTL DEF Spec

-----------------------------------------------------------------------------
(* A control between its Add and its Done, and one that has to wait.        *)
Live(c) == phase[c] \in {"waiting", "working", "closing", "stuck"}
Blocked(c) == phase[c] = "waiting" /\ oldCtl[c] # Nil /\ Live(oldCtl[c])

(* The controls of a run id form a queue in the order of their logins, with *)
(* ctlsByRunID at its tail.  Nobody waits for the tail, nobody waits for    *)
(* the same control as another, so only one control of a run id is not      *)
(* blocked, and when the tail has ended so have all.                        *)
EntryKnown ==
    \A r \in RunID : ctlsByRunID[r] # Nil =>
        phase[ctlsByRunID[r]] # "none" /\ runOf[ctlsByRunID[r]] = r
OldSameRun ==
    \A c \in Control : oldCtl[c] # Nil => runOf[oldCtl[c]] = runOf[c]
OldDistinct ==
    \A c, d \in Control : oldCtl[c] # Nil /\ oldCtl[c] = oldCtl[d] => c = d
TailUnwaited ==
    \A r \in RunID, d \in Control : ctlsByRunID[r] # Nil => oldCtl[d] # ctlsByRunID[r]
OneUnblocked ==
    \A c, d \in Control :
        /\ Live(c) /\ ~Blocked(c)
        /\ Live(d) /\ ~Blocked(d)
        /\ runOf[c] = runOf[d]
        => c = d
TailLast ==
    \A c \in Control : Live(c) /\ ~Blocked(c) =>
        ctlsByRunID[runOf[c]] # Nil /\ Live(ctlsByRunID[runOf[c]])

SessionInv ==
    /\ EntryKnown
    /\ OldSameRun
    /\ OldDistinct
    /\ TailUnwaited
    /\ OneUnblocked
    /\ TailLast
    /\ CurrentSessionFound

(* A login queues up behind the tail and becomes the tail.                   *)
LEMMA SessionLogin ==
    ASSUME TypeOK, SessionInv, NEW c \in Control, NEW r \in RunID, Login(c, r)
    PROVE  SessionInv'
<1> DEFINE old == ctlsByRunID[r]
<1> USE NilAssumption
<1>1. /\ phase[c] = "none"
      /\ \A d \in Control : oldCtl[d] # c
      /\ ctlsByRunID'[r] = c
      /\ \A q \in RunID \ {r} : ctlsByRunID'[q] = ctlsByRunID[q]
      /\ phase'[c] = "waiting" /\ runOf'[c] = r /\ oldCtl'[c] = old
      /\ \A d \in Control \ {c} : /\ phase'[d] = phase[d]
                                  /\ runOf'[d] = runOf[d]
                                  /\ oldCtl'[d] = oldCtl[d]
                                  /\ stopping'[d] <=> (d = old \/ stopping[d])
  BY DEF Login, TypeOK
<1>2. \A q \in RunID : ctlsByRunID[q] # c /\ ctlsByRunID[q] \in Control \cup {Nil}
  BY <1>1 DEF SessionInv, EntryKnown, TypeOK
<1>3. \A d \in Control : oldCtl[d] \in Control \cup {Nil}
  BY DEF TypeOK
<1>4. \A d \in Control \ {c} : runOf[d] \in RunID \/ ~Live(d)
  BY DEF TypeOK, Live
<1>5. EntryKnown'
  BY <1>1, <1>2 DEF SessionInv, EntryKnown
<1>6. OldSameRun'
  BY <1>1, <1>2, <1>3 DEF SessionInv, OldSameRun, EntryKnown
<1>7. OldDistinct'
  BY <1>1, <1>2 DEF SessionInv, OldDistinct, TailUnwaited
<1>8. TailUnwaited'
  BY <1>1, <1>2 DEF SessionInv, TailUnwaited, EntryKnown
<1>9. \A d \in Control \ {c} : (Live(d)' <=> Live(d)) /\ (Blocked(d)' <=> Blocked(d))
  BY <1>1, <1>3 DEF Live, Blocked
<1>10. Live(c)' /\ (Blocked(c)' <=> (old # Nil /\ Live(old)))
  BY <1>1, <1>2 DEF Live, Blocked
<1>11. OneUnblocked'
  BY <1>1, <1>2, <1>9, <1>10 DEF SessionInv, OneUnblocked, TailLast
<1>12. TailLast'
  BY <1>1, <1>2, <1>4, <1>9, <1>10 DEF SessionInv, TailLast
<1>13. CurrentSessionFound'
  <2> SUFFICES ASSUME NEW d \in Control, phase'[d] \in {"waiting", "working"}, ~stopping'[d]
               PROVE  ctlsByRunID'[runOf'[d]] = d
    BY DEF CurrentSessionFound
  <2>1. CASE d = c
    BY <1>1, <2>1
  <2>2. CASE d # c
    <3>1. ctlsByRunID[runOf[d]] = d /\ runOf[d] \in RunID /\ d # old
      BY <1>1, <1>4, <2>2 DEF SessionInv, CurrentSessionFound, Live
    <3> QED BY <1>1, <2>2, <3>1
  <2> QED BY <2>1, <2>2
<1> QED
  BY <1>5, <1>6, <1>7, <1>8, <1>11, <1>12, <1>13 DEF SessionInv

(* A step that neither ends nor blocks nor unblocks a control keeps TailLast. *)
LEMMA TailStays ==
    ASSUME TypeOK, SessionInv,
           ctlsByRunID' = ctlsByRunID, runOf' = runOf,
           \A d \in Control : (Live(d)' <=> Live(d)) /\ (Blocked(d)' <=> Blocked(d))
    PROVE  TailLast'
<1> SUFFICES ASSUME NEW d \in Control, Live(d), ~Blocked(d)
             PROVE  /\ ctlsByRunID[runOf[d]] # Nil
                    /\ phase'[ctlsByRunID[runOf[d]]] \in {"waiting", "working", "closing", "stuck"}
  BY DEF TailLast, Live
<1>1. runOf[d] \in RunID
  BY DEF TypeOK, Live
<1>2. PICK e \in Control : ctlsByRunID[runOf[d]] = e /\ Live(e)
  BY <1>1 DEF SessionInv, TailLast, TypeOK
<1>3. Live(e)'
  BY <1>2
<1> QED BY <1>2, <1>3, NilAssumption DEF Live

(* The head of the queue starts.                                             *)
LEMMA SessionStart ==
    ASSUME TypeOK, SessionInv, NEW c \in Control, Start(c)
    PROVE  SessionInv'
<1> USE NilAssumption
<1>1. /\ phase[c] = "waiting" /\ phase'[c] = "working" /\ oldCtl'[c] = Nil
      /\ \A d \in Control \ {c} : phase'[d] = phase[d] /\ oldCtl'[d] = oldCtl[d]
      /\ ctlsByRunID' = ctlsByRunID /\ runOf' = runOf /\ stopping' = stopping
      /\ ~Blocked(c)
  BY DEF Start, TypeOK, Blocked, Live
<1>2. \A d \in Control : (Live(d)' <=> Live(d)) /\ (Blocked(d)' <=> Blocked(d))
  <2>1. \A d \in Control : Live(d)' <=> Live(d)
    BY <1>1 DEF Live
  <2> QED BY <1>1, <2>1 DEF Blocked, TypeOK
<1>3. EntryKnown'
  BY <1>1 DEF SessionInv, EntryKnown, TypeOK
<1>4. OldSameRun' /\ OldDistinct' /\ TailUnwaited'
  <2>1. OldSameRun'
    BY <1>1 DEF SessionInv, OldSameRun
  <2>2. OldDistinct'
    BY <1>1 DEF SessionInv, OldDistinct
  <2>3. TailUnwaited'
    BY <1>1 DEF SessionInv, TailUnwaited, TypeOK
  <2> QED BY <2>1, <2>2, <2>3
<1>5. OneUnblocked'
  BY <1>1, <1>2 DEF SessionInv, OneUnblocked
<1>6. TailLast'
  BY <1>1, <1>2, TailStays
<1>7. CurrentSessionFound'
  BY <1>1 DEF SessionInv, CurrentSessionFound
<1> QED BY <1>3, <1>4, <1>5, <1>6, <1>7 DEF SessionInv

(* The head of the queue ends; the next one is not blocked any more.         *)
LEMMA SessionDone ==
    ASSUME TypeOK, SessionInv, NEW c \in Control, StoperDone(c)
    PROVE  SessionInv'
<1> USE NilAssumption
<1>1. /\ phase[c] = "closing" /\ phase'[c] = "exited"
      /\ \A d \in Control \ {c} : phase'[d] = phase[d]
      /\ ctlsByRunID' = ctlsByRunID /\ runOf' = runOf /\ oldCtl' = oldCtl
      /\ stopping' = stopping
  BY DEF StoperDone, TypeOK
<1>2. Live(c) /\ ~Blocked(c) /\ ~Live(c)'
  BY <1>1 DEF Live, Blocked
<1>3. \A d \in Control \ {c} : Live(d)' <=> Live(d)
  BY <1>1 DEF Live
<1>4. \A d \in Control : Live(d)' /\ ~Blocked(d)' =>
        Live(d) /\ (~Blocked(d) \/ oldCtl[d] = c)
  BY <1>1, <1>2, <1>3 DEF Blocked, TypeOK
<1>5. EntryKnown' /\ OldSameRun' /\ OldDistinct' /\ TailUnwaited'
  BY <1>1 DEF SessionInv, EntryKnown, OldSameRun, OldDistinct, TailUnwaited, TypeOK
<1>6. \A d \in Control : Live(d)' /\ ~Blocked(d)' /\ runOf[d] = runOf[c]
        => oldCtl[d] = c
  BY <1>2, <1>3, <1>4 DEF SessionInv, OneUnblocked
<1>7. \A d \in Control : oldCtl[d] = c => runOf[d] = runOf[c]
  BY DEF SessionInv, OldSameRun
<1>8. OneUnblocked'
  BY <1>1, <1>2, <1>4, <1>6, <1>7 DEF SessionInv, OneUnblocked, OldDistinct
<1>9. TailLast'
  <2> SUFFICES ASSUME NEW d \in Control, Live(d)', ~Blocked(d)'
               PROVE  /\ ctlsByRunID[runOf[d]] # Nil
                      /\ phase'[ctlsByRunID[runOf[d]]] \in {"waiting", "working", "closing", "stuck"}
    BY <1>1 DEF TailLast, Live
  <2>1. runOf[d] \in RunID
    BY <1>4 DEF TypeOK, Live
  <2>2. PICK e \in Control : ctlsByRunID[runOf[d]] = e /\ Live(e)
    BY <1>2, <1>4, <1>7, <2>1 DEF SessionInv, TailLast, TypeOK
  <2>3. e # c
    BY <1>6, <2>1, <2>2 DEF SessionInv, TailUnwaited, EntryKnown
  <2>4. Live(e)'
    BY <1>3, <2>2, <2>3
  <2> QED BY <2>2, <2>4 DEF Live
<1>10. CurrentSessionFound'
  BY <1>1 DEF SessionInv, CurrentSessionFound
<1> QED BY <1>5, <1>8, <1>9, <1>10 DEF SessionInv

(* The Del of an ended control changes nothing for the others.               *)
LEMMA SessionDel ==
    ASSUME TypeOK, SessionInv, NEW c \in Control, DelControl(c)
    PROVE  SessionInv'
<1> USE NilAssumption
<1>1. /\ phase[c] = "exited" /\ phase'[c] = "none"
      /\ \A d \in Control \ {c} : phase'[d] = phase[d]
      /\ runOf' = runOf /\ oldCtl' = oldCtl /\ stopping' = stopping
      /\ runOf[c] \in RunID
      /\ \A q \in RunID : \/ ctlsByRunID'[q] = ctlsByRunID[q]
                          \/ ctlsByRunID[q] = c /\ ctlsByRunID'[q] = Nil
      /\ ctlsByRunID'[runOf[c]] # c
  BY DEF DelControl, TypeOK
<1>2. \A d \in Control : (Live(d)' <=> Live(d)) /\ (Blocked(d)' <=> Blocked(d))
  <2>1. \A d \in Control : Live(d)' <=> Live(d)
    BY <1>1 DEF Live
  <2> QED BY <1>1, <2>1 DEF Blocked, TypeOK
<1>3. \A q \in RunID : ctlsByRunID'[q] # c
  BY <1>1 DEF SessionInv, EntryKnown
<1>4. EntryKnown' /\ OldSameRun' /\ OldDistinct' /\ TailUnwaited'
  BY <1>1, <1>3 DEF SessionInv, EntryKnown, OldSameRun, OldDistinct, TailUnwaited, TypeOK
<1>5. OneUnblocked'
  BY <1>1, <1>2 DEF SessionInv, OneUnblocked
<1>6. TailLast'
  <2> SUFFICES ASSUME NEW d \in Control, Live(d), ~Blocked(d)
               PROVE  /\ ctlsByRunID'[runOf[d]] # Nil
                      /\ phase'[ctlsByRunID'[runOf[d]]] \in {"waiting", "working", "closing", "stuck"}
    BY <1>1, <1>2 DEF TailLast, Live
  <2>1. runOf[d] \in RunID
    BY DEF TypeOK, Live
  <2>2. PICK e \in Control : ctlsByRunID[runOf[d]] = e /\ Live(e)
    BY <2>1 DEF SessionInv, TailLast, TypeOK
  <2>3. e # c
    BY <1>1, <2>2 DEF Live
  <2>4. ctlsByRunID'[runOf[d]] = e /\ Live(e)'
    BY <1>1, <1>2, <2>1, <2>2, <2>3
  <2> QED BY <2>4 DEF Live
<1>7. CurrentSessionFound'
  <2> SUFFICES ASSUME NEW d \in Control, phase'[d] \in {"waiting", "working"}, ~stopping'[d]
               PROVE  ctlsByRunID'[runOf'[d]] = d
    BY DEF CurrentSessionFound
  <2>1. d # c /\ phase[d] \in {"waiting", "working"} /\ runOf[d] \in RunID
    BY <1>1 DEF TypeOK
  <2>2. ctlsByRunID[runOf[d]] = d
    BY <1>1, <2>1 DEF SessionInv, CurrentSessionFound
  <2> QED BY <1>1, <2>1, <2>2
<1> QED BY <1>4, <1>5, <1>6, <1>7 DEF SessionInv

(* Every step keeps the queue of sessions.                                   *)
LEMMA SessionStep ==
    ASSUME TypeOK, SessionInv, [Next]_vars
    PROVE  SessionInv'
<1>1. ASSUME NEW c \in Control, Disconnect(c) PROVE SessionInv'
  BY <1>1
  DEF Disconnect, TypeOK, SessionInv, EntryKnown, OldSameRun, OldDistinct,
      TailUnwaited, OneUnblocked, TailLast, CurrentSessionFound, Live, Blocked
<1>2. ASSUME NEW c \in Control,
             \/ StoperBegin(c) \/ StoperBlocked(c)
             \/ \E n \in Name : CloseProxyPanics(c, n) \/ StoperPanics(c, n)
      PROVE  SessionInv'
  <2> USE NilAssumption
  <2>1. /\ phase[c] \in {"working", "closing"} /\ phase'[c] \in {"closing", "stuck"}
        /\ \A d \in Control \ {c} : phase'[d] = phase[d] /\ stopping'[d] = stopping[d]
        /\ ctlsByRunID' = ctlsByRunID /\ runOf' = runOf /\ oldCtl' = oldCtl
    BY <1>2 DEF StoperBegin, StoperBlocked, CloseProxyPanics, StoperPanics, Ready, TypeOK
  <2>2. \A d \in Control : Live(d)' <=> Live(d)
    BY <2>1 DEF Live
  <2>3. \A d \in Control : Blocked(d)' <=> Blocked(d)
    BY <2>1, <2>2 DEF Blocked, TypeOK
  <2>4. EntryKnown' /\ OldSameRun' /\ OldDistinct' /\ TailUnwaited'
    BY <2>1 DEF SessionInv, EntryKnown, OldSameRun, OldDistinct, TailUnwaited, TypeOK
  <2>5. OneUnblocked' /\ CurrentSessionFound'
    BY <2>1, <2>2, <2>3 DEF SessionInv, OneUnblocked, CurrentSessionFound
  <2>6. TailLast'
    BY <2>1, <2>2, <2>3, TailStays
  <2> QED BY <2>4, <2>5, <2>6 DEF SessionInv
<1>3. CASE UNCHANGED session
  BY <1>3
  DEF session, SessionInv, EntryKnown, OldSameRun, OldDistinct, TailUnwaited,
      OneUnblocked, TailLast, CurrentSessionFound, Live, Blocked
<1>4. \/ \E c \in Control, r \in RunID : Login(c, r)
      \/ \E c \in Control : \/ Start(c) \/ Disconnect(c) \/ StoperDone(c) \/ DelControl(c)
      \/ \E c \in Control : StoperBegin(c) \/ StoperBlocked(c)
      \/ \E c \in Control, n \in Name : CloseProxyPanics(c, n) \/ StoperPanics(c, n)
      \/ UNCHANGED session
  BY DEF Next, RegisterRun, RegisterAdd, RegisterAddFails, RegisterUndo, CloseProxy,
         PxyDel, StoperClose, session, vars
<1> QED
  BY <1>1, <1>2, <1>3, <1>4, SessionLogin, SessionStart, SessionDone, SessionDel

(* At most one session per run id is started, and the current one can be    *)
(* found, however many logins with the same run id overtake one another.    *)
THEOREM SessionsCorrect == Spec => [](OneSessionPerRunID /\ CurrentSessionFound)
<1>1. Init => SessionInv
  BY DEF Init, SessionInv, EntryKnown, OldSameRun, OldDistinct, TailUnwaited,
         OneUnblocked, TailLast, CurrentSessionFound, Live, Blocked
<1>2. TypeOK /\ SessionInv /\ [Next]_vars => SessionInv'
  BY SessionStep
<1>3. SessionInv => OneSessionPerRunID /\ CurrentSessionFound
  BY DEF SessionInv, OneUnblocked, OneSessionPerRunID, Live, Blocked
<1> QED BY <1>1, <1>2, <1>3, TypeCorrect, PTL DEF Spec

(* A control that nobody told to stop is found by its run id (Add and Del   *)
(* of ControlManager), whatever logins replace one another.                 *)
THEOREM CurrentSessionCorrect == Spec => []CurrentSessionFound
  BY SessionsCorrect, PTL

-----------------------------------------------------------------------------
(* The tcp proxies of a control that are not closed, and whether one more   *)
(* is being registered.                                                     *)
TcpNames(c) == {n \in Name : Serves(c, n, "tcp")}
TcpJob(c) == IF job[c] # Nil /\ job[c].op # "del" /\ job[c].type = "tcp" THEN 1 ELSE 0

(* The account of one control: exact while it works, empty whenever it is   *)
(* not between Start and the end of stoper.  The names in use are finitely  *)
(* many, which no assumption on Name has to say.                            *)
Account(c) ==
    /\ phase[c] = "working" =>
         /\ IsFiniteSet(TcpNames(c))
         /\ portsUsedNum[c] <= MaxPorts
         /\ portsUsedNum[c] = Cardinality(TcpNames(c)) + TcpJob(c)
    /\ phase[c] \in {"none", "waiting", "exited"} =>
         portsUsedNum[c] = 0 /\ \A n \in Name : proxies[c][n] = Nil

(* The account of a control depends on nothing else.                        *)
LEMMA AccountFrame ==
    ASSUME NEW c \in Control, Account(c), phase'[c] = phase[c],
           portsUsedNum'[c] = portsUsedNum[c], proxies'[c] = proxies[c], job'[c] = job[c]
    PROVE  Account(c)'
  BY DEF Account, TcpNames, TcpJob, Serves

(* A control with no proxy and no call under way.                           *)
LEMMA NoTcpNames ==
    ASSUME NEW c \in Control, \A n \in Name : proxies[c][n] = Nil
    PROVE  TcpNames(c) = {}
  BY NilAssumption DEF TcpNames, Serves

(* The steps of one control keep its account.                               *)
LEMMA AccountStep ==
    ASSUME TypeOK, RegistryInv, MaxPorts > 0, NEW c \in Control, Account(c),
           \/ \E n \in Name, t \in Type : RegisterRun(c, n, t)
           \/ RegisterAdd(c) \/ RegisterAddFails(c) \/ RegisterUndo(c) \/ PxyDel(c)
           \/ \E n \in Name : CloseProxy(c, n) \/ StoperClose(c, n)
    PROVE  Account(c)'
<1> USE MaxPortsAssumption
<1>0. ASSUME IsFiniteSet(TcpNames(c)) PROVE Cardinality(TcpNames(c)) \in Nat
  BY <1>0, FS_CardinalityType
<1>1. ASSUME NEW n \in Name, NEW t \in Type, RegisterRun(c, n, t) PROVE Account(c)'
  <2> DEFINE j == [op |-> "run", name |-> n, type |-> t]
  <2>1. j \in Job /\ j # Nil
    BY NilAssumption DEF Job
  <2>2. /\ phase[c] = "working" /\ phase' = phase /\ proxies' = proxies
        /\ job[c] = Nil /\ job'[c] = j
        /\ portsUsedNum'[c] = portsUsedNum[c] + UsedPortsNum(t)
        /\ portsUsedNum[c] + UsedPortsNum(t) <= MaxPorts
    BY <1>1 DEF RegisterRun, Ready, Charge, session, TypeOK
  <2>3. TcpNames(c)' = TcpNames(c)
    BY <2>1, <2>2 DEF TcpNames, Serves
  <2>4. TcpJob(c) = 0 /\ TcpJob(c)' = UsedPortsNum(t)
    BY <2>1, <2>2 DEF TcpJob, UsedPortsNum
  <2>5. UsedPortsNum(t) \in {0, 1}
    BY DEF UsedPortsNum
  <2> QED BY <1>0, <2>2, <2>3, <2>4, <2>5 DEF Account
<1>2. CASE RegisterAdd(c)
  <2> DEFINE n == job[c].name
  <2>1. n \in Name /\ job[c].type \in Type /\ job[c].type # Nil
    BY <1>2, JobType, NilAssumption, TypeAssumption DEF RegisterAdd
  <2>2. /\ job[c] # Nil /\ job[c].op = "run" /\ phase[c] = "working" /\ phase' = phase
        /\ portsUsedNum' = portsUsedNum /\ job'[c] = Nil
        /\ proxies'[c] = [proxies[c] EXCEPT ![n] = job[c].type]
    BY <1>2, <2>1 DEF RegisterAdd, session, TypeOK
  <2>3. proxies[c][n] = Nil
    BY <1>2, <2>1, NilAssumption DEF RegisterAdd, RegistryInv, RegistryAgrees, TypeOK
  <2>4. n \notin TcpNames(c)
    BY <2>3, NilAssumption DEF TcpNames, Serves
  <2>5. TcpJob(c)' = 0
    BY <2>2 DEF TcpJob
  <2>6. CASE job[c].type = "tcp"
    <3>1. TcpNames(c)' = TcpNames(c) \cup {n}
      BY <2>1, <2>2, <2>6 DEF TcpNames, Serves, TypeOK
    <3>2. TcpJob(c) = 1
      BY <2>2, <2>6 DEF TcpJob
    <3>3. /\ IsFiniteSet(TcpNames(c) \cup {n})
          /\ Cardinality(TcpNames(c) \cup {n}) = Cardinality(TcpNames(c)) + 1
      BY <2>2, <2>4, FS_AddElement DEF Account
    <3> QED BY <1>0, <2>2, <2>5, <3>1, <3>2, <3>3 DEF Account
  <2>7. CASE job[c].type # "tcp"
    <3>1. TcpNames(c)' = TcpNames(c)
      BY <2>1, <2>2, <2>3, <2>7, NilAssumption DEF TcpNames, Serves, TypeOK
    <3>2. TcpJob(c) = 0
      BY <2>2, <2>7 DEF TcpJob
    <3> QED BY <2>2, <2>5, <3>1, <3>2 DEF Account
  <2> QED BY <2>6, <2>7
<1>3. CASE RegisterAddFails(c)
  <2> DEFINE j == [op |-> "undo", name |-> job[c].name, type |-> job[c].type]
  <2>1. j \in Job /\ j # Nil
    BY <1>3, JobType, NilAssumption DEF RegisterAddFails, Job
  <2>2. /\ job[c] # Nil /\ job[c].op = "run" /\ phase[c] = "working" /\ phase' = phase
        /\ portsUsedNum' = portsUsedNum /\ job'[c] = j /\ proxies' = proxies
    BY <1>3 DEF RegisterAddFails, session, TypeOK
  <2>3. TcpNames(c)' = TcpNames(c)
    BY <2>1, <2>2 DEF TcpNames, Serves
  <2>4. TcpJob(c)' = TcpJob(c)
    BY <2>1, <2>2 DEF TcpJob
  <2> QED BY <2>2, <2>3, <2>4 DEF Account
<1>4. CASE RegisterUndo(c)
  <2>1. job[c].type \in Type
    BY <1>4, JobType DEF RegisterUndo
  <2>2. /\ job[c] # Nil /\ job[c].op = "undo" /\ phase[c] = "working" /\ phase' = phase
        /\ portsUsedNum'[c] = portsUsedNum[c] - UsedPortsNum(job[c].type)
        /\ job'[c] = Nil /\ proxies' = proxies
    BY <1>4 DEF RegisterUndo, session, TypeOK, Charge
  <2>3. TcpNames(c)' = TcpNames(c)
    BY <2>2 DEF TcpNames, Serves
  <2>4. TcpJob(c)' = 0 /\ TcpJob(c) = UsedPortsNum(job[c].type)
    BY <2>2 DEF TcpJob, UsedPortsNum
  <2>5. UsedPortsNum(job[c].type) \in {0, 1}
    BY DEF UsedPortsNum
  <2> QED BY <1>0, <2>2, <2>3, <2>4, <2>5 DEF Account
<1>5. CASE PxyDel(c)
  <2> DEFINE n == job[c].name
  <2>1. n \in Name
    BY <1>5, JobType DEF PxyDel
  <2>2. /\ job[c] # Nil /\ job[c].op = "del" /\ phase[c] \in {"working", "closing"}
        /\ phase' = phase /\ portsUsedNum' = portsUsedNum /\ job'[c] = Nil
        /\ proxies'[c] = [proxies[c] EXCEPT ![n] = Nil]
    BY <1>5, <2>1 DEF PxyDel, session, TypeOK
  <2>3. TcpNames(c)' = TcpNames(c)
    BY <2>1, <2>2, NilAssumption DEF TcpNames, Serves, TypeOK
  <2>4. TcpJob(c)' = TcpJob(c)
    BY <2>2 DEF TcpJob
  <2> QED BY <2>2, <2>3, <2>4 DEF Account
<1>6. ASSUME NEW n \in Name, CloseProxy(c, n) PROVE Account(c)'
  <2> DEFINE t == proxies[c][n]  j == [op |-> "del", name |-> n, type |-> t]
  <2>1. t \in Type /\ j # Nil
    BY <1>6, NilAssumption DEF CloseProxy, TypeOK, Job
  <2>2. /\ phase[c] = "working" /\ phase' = phase /\ proxies' = proxies
        /\ job[c] = Nil /\ job'[c] = j
        /\ portsUsedNum'[c] = portsUsedNum[c] - UsedPortsNum(t)
    BY <1>6 DEF CloseProxy, Ready, session, TypeOK, Charge
  <2>3. TcpNames(c)' = TcpNames(c) \ {n} /\ (n \in TcpNames(c) <=> t = "tcp")
    BY <2>1, <2>2 DEF TcpNames, Serves
  <2>4. TcpJob(c)' = 0 /\ TcpJob(c) = 0
    BY <2>1, <2>2 DEF TcpJob
  <2>5. /\ IsFiniteSet(TcpNames(c) \ {n})
        /\ Cardinality(TcpNames(c) \ {n}) = Cardinality(TcpNames(c)) - UsedPortsNum(t)
    BY <1>0, <2>2, <2>3, FS_RemoveElement DEF Account, UsedPortsNum
  <2>6. UsedPortsNum(t) \in {0, 1}
    BY DEF UsedPortsNum
  <2> QED BY <1>0, <2>2, <2>3, <2>4, <2>5, <2>6 DEF Account
<1>7. ASSUME NEW n \in Name, StoperClose(c, n) PROVE Account(c)'
  BY <1>7 DEF StoperClose, Account, session
<1> QED BY <1>1, <1>2, <1>3, <1>4, <1>5, <1>6, <1>7

(* The steps that start and end a control.                                  *)
LEMMA AccountLife ==
    ASSUME TypeOK, MaxPorts > 0, NEW c \in Control, Account(c),
           \/ \E r \in RunID : Login(c, r)
           \/ Start(c) \/ Disconnect(c) \/ StoperBegin(c) \/ StoperBlocked(c)
           \/ \E n \in Name : CloseProxyPanics(c, n) \/ StoperPanics(c, n)
           \/ StoperDone(c) \/ DelControl(c)
    PROVE  Account(c)'
<1>1. CASE Start(c)
  <2>1. /\ phase[c] = "waiting" /\ phase'[c] = "working" /\ proxies' = proxies
        /\ portsUsedNum' = portsUsedNum /\ job' = job /\ job[c] = Nil
    BY <1>1 DEF Start, TypeOK
  <2>2. TcpNames(c)' = {} /\ TcpJob(c)' = 0 /\ portsUsedNum'[c] = 0
    BY <2>1, NoTcpNames DEF Account, TcpNames, Serves, TcpJob
  <2> QED BY <2>1, <2>2, FS_EmptySet, MaxPortsAssumption DEF Account
<1>2. CASE \E r \in RunID : Login(c, r)
  BY <1>2 DEF Login, Account, TypeOK
<1>3. CASE Disconnect(c)
  BY <1>3, AccountFrame DEF Disconnect
<1>4. CASE StoperBegin(c) \/ StoperBlocked(c) \/ StoperDone(c) \/ DelControl(c)
  BY <1>4 DEF StoperBegin, StoperBlocked, StoperDone, DelControl, Account, TypeOK
<1>5. ASSUME NEW n \in Name, CloseProxyPanics(c, n) \/ StoperPanics(c, n) PROVE Account(c)'
  BY <1>5 DEF CloseProxyPanics, StoperPanics, Account, TypeOK
<1> QED BY <1>1, <1>2, <1>3, <1>4, <1>5

(* portsUsedNum never drifts: through refused names, undone registrations,  *)
(* closes and reused sessions it stays the number of ports the control has, *)
(* and never exceeds max_ports_per_client.                                  *)
THEOREM PortsCountedCorrect == Spec => []PortsCounted
<1> DEFINE PortsInv == MaxPorts > 0 => \A c \in Control : Account(c)
<1>1. Init => PortsInv
  <2> SUFFICES ASSUME Init, NEW c \in Control PROVE Account(c)
    OBVIOUS
  <2> QED BY DEF Init, Account
<1>2. TypeOK /\ RegistryInv /\ PortsInv /\ [Next]_vars => PortsInv'
  <2> SUFFICES ASSUME TypeOK, RegistryInv, PortsInv, [Next]_vars, MaxPorts > 0,
                      NEW d \in Control
               PROVE  Account(d)'
    OBVIOUS
  <2>1. CASE UNCHANGED vars
    BY <2>1, AccountFrame DEF vars
  <2>2. ASSUME NEW c \in Control, c # d,
               \/ \E n \in Name, t \in Type : RegisterRun(c, n, t)
               \/ RegisterAdd(c) \/ RegisterAddFails(c) \/ RegisterUndo(c) \/ PxyDel(c)
               \/ \E n \in Name : CloseProxy(c, n) \/ StoperClose(c, n)
        PROVE  Account(d)'
    <3>1. /\ phase'[d] = phase[d] /\ portsUsedNum'[d] = portsUsedNum[d]
          /\ proxies'[d] = proxies[d] /\ job'[d] = job[d]
      BY <2>2 DEF RegisterRun, RegisterAdd, RegisterAddFails, RegisterUndo, PxyDel, CloseProxy,
                  StoperClose, session, TypeOK
    <3> QED BY <3>1, AccountFrame
  <2>3. ASSUME NEW c \in Control, c # d,
               \/ \E r \in RunID : Login(c, r)
               \/ Start(c) \/ Disconnect(c) \/ StoperBegin(c) \/ StoperBlocked(c)
               \/ \E n \in Name : CloseProxyPanics(c, n) \/ StoperPanics(c, n)
               \/ StoperDone(c) \/ DelControl(c)
        PROVE  Account(d)'
    <3>1. /\ phase'[d] = phase[d] /\ portsUsedNum'[d] = portsUsedNum[d]
          /\ proxies'[d] = proxies[d] /\ job'[d] = job[d]
      BY <2>3 DEF Login, Start, Disconnect, StoperBegin, StoperBlocked, CloseProxyPanics,
                  StoperPanics, StoperDone, DelControl, TypeOK
    <3> QED BY <3>1, AccountFrame
  <2> QED BY <2>1, <2>2, <2>3, AccountStep, AccountLife DEF Next
<1>3. PortsInv => PortsCounted
  BY DEF Account, TcpNames, TcpJob, PortsCounted
<1>4. Init => RegistryInv
  BY NilAssumption DEF Init, RegistryInv, RegistryAgrees, DelOwns
<1>5. TypeOK /\ RegistryInv /\ [Next]_vars => RegistryInv'
  BY RegistryStep
<1> QED BY <1>1, <1>2, <1>3, <1>4, <1>5, TypeCorrect, PTL DEF Spec
=============================================================================
