----------------------- MODULE ControlSession_proofs -----------------------
(***************************************************************************)
(* Safety of one client session of frps, for any number of user and work   *)
(* connections, any capacity of the channels and any pool count.           *)
(***************************************************************************)
EXTENDS ControlSession, TLAPS

(* The parts of TypeOK that belong together.                                *)
ChansType ==
    /\ sent \in 0 .. MaxMsgs
    /\ readCh \in Seq(Msg) /\ Len(readCh) <= ReadCap
    /\ sendCh \in Seq({"Resp", "ReqWorkConn"}) /\ Len(sendCh) <= SendCap
    /\ readClosed \in BOOLEAN /\ sendClosed \in BOOLEAN

ProcsType ==
    /\ starter \in 0 .. PoolCount \cup {Nil}
    /\ writer \in {"start", "run", "done"}
    /\ reader \in {"off", "read", "done"} \cup Msg
    /\ manager \in {"off", "select", "reply", "last", "done"}
    /\ stoper \in StoperStage
    /\ stopping \in BOOLEAN

ConnsType ==
    /\ pool \in Seq(WorkConn) /\ Len(pool) <= PoolCap
    /\ poolClosed \in BOOLEAN
    /\ reqs \in Nat
    /\ conn \in [WorkConn -> ConnStage]

UsersType ==
    /\ user \in [User -> UserStage]
    /\ held \in [User -> WorkConn \cup {Nil}]
    /\ tries \in [User -> 0 .. PoolCount]

LEMMA Caps ==
    /\ ReadCap \in Nat /\ SendCap \in Nat /\ PoolCap \in Nat
    /\ PoolCount \in Nat /\ MaxMsgs \in Nat
  BY CapAssumption

(* ctl.sendCh <- m keeps the channel within its capacity.                   *)
LEMMA SendType ==
    ASSUME ChansType, NEW m \in {"Resp", "ReqWorkConn"}, Send(m)
    PROVE  sendCh' \in Seq({"Resp", "ReqWorkConn"}) /\ Len(sendCh') <= SendCap
  BY Caps DEF ChansType, Send

(* Receiving from a channel.                                                *)
LEMMA TailType ==
    ASSUME NEW S, NEW s \in Seq(S), NEW n \in Nat, Len(s) <= n, s # <<>>
    PROVE  /\ Tail(s) \in Seq(S) /\ Len(Tail(s)) <= n
           /\ Head(s) \in S /\ Head(s) = s[1] /\ Len(s) \in Nat \ {0}
           /\ Len(Tail(s)) = Len(s) - 1
           /\ \A i \in 1 .. Len(s) - 1 : Tail(s)[i] = s[i + 1]
  OBVIOUS

LEMMA GotoType ==
    ASSUME UsersType, NEW u \in User, NEW s \in UserStage,
           (Goto(u, s) /\ UNCHANGED tries) \/ Answer(u, s), UNCHANGED held
    PROVE  UsersType'
  BY Caps DEF UsersType, Goto, Answer
-----------------------------------------------------------------------------
LEMMA ChansFrame == ChansType /\ UNCHANGED <<sent, chans>> => ChansType'
  BY DEF ChansType, chans

LEMMA ProcsFrame == ProcsType /\ UNCHANGED procs => ProcsType'
  BY DEF ProcsType, procs

LEMMA ConnsFrame == ConnsType /\ UNCHANGED conns => ConnsType'
  BY DEF ConnsType, conns

LEMMA UsersFrame == UsersType /\ UNCHANGED users => UsersType'
  BY DEF UsersType, users

(* The steps of the goroutines of the control.                              *)
LEMMA ControlType ==
    ASSUME ChansType, ProcsType, ConnsType, UsersType,
           \/ Starter \/ Writer \/ WriterInitFails \/ (\E m \in Msg : ReaderRead(m)) \/ ReaderPut \/ ReaderEnd
           \/ Manager \/ HeartbeatTimeout \/ Replaced
    PROVE  ChansType' /\ ProcsType' /\ ConnsType' /\ UsersType'
<1> USE Caps, ChansFrame, ConnsFrame, UsersFrame, ProcsFrame
<1>1. CASE StartPool
  <2>1. UNCHANGED <<sent, readCh, readClosed, sendClosed, conns, users>>
    BY <1>1 DEF StartPool
  <2>2. ChansType'
    BY <1>1, <2>1, SendType DEF StartPool, ChansType
  <2>3. ProcsType'
    BY <1>1 DEF StartPool, ProcsType
  <2> QED BY <2>1, <2>2, <2>3
<1>2. CASE StartRest
  <2>1. ProcsType'
    BY <1>2 DEF StartRest, ProcsType, StoperStage
  <2> QED BY <1>2, <2>1 DEF StartRest
<1>3. CASE WriterSend
  <2>1. ChansType'
    BY <1>3, TailType DEF WriterSend, ChansType
  <2>2. ConnsType'
    BY <1>3 DEF WriterSend, ConnsType
  <2>3. ProcsType'
    BY <1>3 DEF WriterSend, ProcsType
  <2> QED BY <1>3, <2>1, <2>2, <2>3 DEF WriterSend
<1>4. CASE WriterEnd
  <2>1. ChansType'
    BY <1>4, TailType DEF WriterEnd, ChansType
  <2>2. ProcsType'
    BY <1>4 DEF WriterEnd, ProcsType
  <2> QED BY <1>4, <2>1, <2>2 DEF WriterEnd
<1>5. CASE \E m \in Msg : ReaderRead(m)
  <2> PICK m \in Msg : ReaderRead(m)
    BY <1>5
  <2>1. ChansType'
    BY DEF ReaderRead, ChansType, chans
  <2>2. ProcsType'
    BY DEF ReaderRead, ProcsType
  <2> QED BY <2>1, <2>2 DEF ReaderRead
<1>6. CASE ReaderPut
  <2>1. ChansType'
    BY <1>6 DEF ReaderPut, ChansType
  <2>2. ProcsType'
    BY <1>6 DEF ReaderPut, ProcsType
  <2> QED BY <1>6, <2>1, <2>2 DEF ReaderPut
<1>7. CASE WriterInitFails \/ ReaderEnd \/ HeartbeatTimeout \/ Replaced
  <2>1. ProcsType'
    BY <1>7 DEF WriterInitFails, ReaderEnd, HeartbeatTimeout, Replaced, ProcsType
  <2> QED BY <1>7, <2>1 DEF WriterInitFails, ReaderEnd, HeartbeatTimeout, Replaced
<1>8. CASE ManagerTake
  <2>1. ChansType'
    BY <1>8, TailType DEF ManagerTake, ChansType
  <2>2. manager' \in {"reply", "last", "select"}
    BY <1>8 DEF ManagerTake
  <2>3. ProcsType'
    BY <1>8, <2>2 DEF ManagerTake, ProcsType
  <2> QED BY <1>8, <2>1, <2>3 DEF ManagerTake
<1>9. CASE ManagerReply \/ ManagerEnd
  <2>1. ChansType'
    BY <1>9, SendType DEF ManagerReply, ManagerEnd, ChansType
  <2>2. ProcsType'
    BY <1>9 DEF ManagerReply, ManagerEnd, ProcsType
  <2> QED BY <1>9, <2>1, <2>2 DEF ManagerReply, ManagerEnd
<1> QED
  BY <1>1, <1>2, <1>3, <1>4, <1>5, <1>6, <1>7, <1>8, <1>9 DEF Starter, Writer, Manager

LEMMA StoperType ==
    ASSUME ChansType, ProcsType, ConnsType, UsersType, Stoper
    PROVE  ChansType' /\ ProcsType' /\ ConnsType' /\ UsersType'
<1> USE Caps, ChansFrame, ConnsFrame, UsersFrame, ProcsFrame
<1>1. CASE StoperCloseConn \/ StoperDone \/ DelControl
  <2>1. ProcsType'
    BY <1>1 DEF StoperCloseConn, StoperDone, DelControl, ProcsType, StoperStage
  <2> QED BY <1>1, <2>1 DEF StoperCloseConn, StoperDone, DelControl
<1>2. CASE StoperCloseReadCh \/ StoperCloseSendCh
  <2>1. ChansType' /\ ProcsType'
    BY <1>2 DEF StoperCloseReadCh, StoperCloseSendCh, ChansType, ProcsType, StoperStage
  <2> QED BY <1>2, <2>1 DEF StoperCloseReadCh, StoperCloseSendCh
<1>3. CASE StoperClosePool
  <2>1. ConnsType' /\ ProcsType'
    BY <1>3 DEF StoperClosePool, ConnsType, ProcsType, StoperStage
  <2> QED BY <1>3, <2>1 DEF StoperClosePool
<1>4. CASE StoperDrain
  <2>1. ConnsType'
    BY <1>4, TailType DEF StoperDrain, ConnsType, ConnStage
  <2> QED BY <1>4, <2>1 DEF StoperDrain
<1> QED BY <1>1, <1>2, <1>3, <1>4 DEF Stoper

LEMMA WorkConnType ==
    ASSUME ChansType, ProcsType, ConnsType, UsersType,
           \/ RequestUnanswered
           \/ \E w \in WorkConn : WorkConnArrives(w) \/ WorkConnInvalid(w) \/ RegisterWorkConn(w)
    PROVE  ChansType' /\ ProcsType' /\ ConnsType' /\ UsersType'
<1> USE Caps, ChansFrame, UsersFrame, ProcsFrame
<1>1. CASE RequestUnanswered
  <2>1. ConnsType'
    BY <1>1 DEF RequestUnanswered, ConnsType
  <2> QED BY <1>1, <2>1 DEF RequestUnanswered
<1>2. ASSUME NEW w \in WorkConn, WorkConnArrives(w) \/ WorkConnInvalid(w)
      PROVE  ChansType' /\ ProcsType' /\ ConnsType' /\ UsersType'
  <2>1. ConnsType'
    BY <1>2 DEF WorkConnArrives, WorkConnInvalid, ConnsType, ConnStage
  <2> QED BY <1>2, <2>1 DEF WorkConnArrives, WorkConnInvalid
<1>3. ASSUME NEW w \in WorkConn, RegisterWorkConn(w)
      PROVE  ChansType' /\ ProcsType' /\ ConnsType' /\ UsersType'
  <2>1. ConnsType'
    BY <1>3 DEF RegisterWorkConn, ConnsType, ConnStage
  <2> QED BY <1>3, <2>1 DEF RegisterWorkConn
<1> QED BY <1>1, <1>2, <1>3

LEMMA HandlerType ==
    ASSUME ChansType, ProcsType, ConnsType, UsersType, NEW u \in User,
           UserArrives(u) \/ Handler(u)
    PROVE  ChansType' /\ ProcsType' /\ ConnsType' /\ UsersType'
<1> USE Caps, ChansFrame, ConnsFrame, ProcsFrame
<1>1. CASE UserArrives(u) \/ GetClosed(u) \/ GetEmpty(u) \/ GetTimeout(u) \/ WriteStart(u)
  <2>1. UsersType'
    BY <1>1, GotoType
    DEF UserArrives, GetClosed, GetEmpty, GetTimeout, WriteStart, UserStage
  <2> QED BY <1>1, <2>1 DEF UserArrives, GetClosed, GetEmpty, GetTimeout, WriteStart
<1>2. CASE GetRequest(u) \/ GetReplace(u)
  <2>1. UsersType'
    BY <1>2, GotoType DEF GetRequest, GetReplace, UserStage
  <2>2. ChansType'
    BY <1>2, SendType DEF GetRequest, GetReplace, ChansType
  <2> QED BY <1>2, <2>1, <2>2 DEF GetRequest, GetReplace
<1>3. CASE GetTake(u)
  <2>1. ConnsType'
    BY <1>3, TailType DEF GetTake, ConnsType, ConnStage
  <2>2. held' \in [User -> WorkConn \cup {Nil}] /\ user' \in [User -> UserStage]
    BY <1>3, TailType DEF GetTake, Goto, ConnsType, UsersType, UserStage
  <2>3. UsersType'
    BY <1>3, <2>2 DEF GetTake, UsersType
  <2> QED BY <1>3, <2>1, <2>3 DEF GetTake
<1>4. CASE WriteStartFails(u)
  <2>1. ConnsType'
    BY <1>4 DEF WriteStartFails, ConnsType, ConnStage
  <2>2. UsersType'
    <3>1. CASE tries[u] < PoolCount
      BY <1>4, <3>1 DEF WriteStartFails, Goto, UsersType, UserStage
    <3>2. CASE ~(tries[u] < PoolCount)
      BY <1>4, <3>2, GotoType DEF WriteStartFails, UserStage
    <3> QED BY <3>1, <3>2
  <2> QED BY <1>4, <2>1, <2>2 DEF WriteStartFails
<1> QED BY <1>1, <1>2, <1>3, <1>4 DEF Handler

(* The channels stay within their capacities, the goroutines in their       *)
(* stages, and GetWorkConnFromPool within its rounds.                       *)
THEOREM TypeCorrect == Spec => []TypeOK
<1>1. Init => TypeOK
  <2> SUFFICES ASSUME Init PROVE ChansType /\ ProcsType /\ ConnsType /\ UsersType
    BY DEF TypeOK, ChansType, ProcsType, ConnsType, UsersType
  <2>1. ChansType
    <3>1. sent = 0 /\ readCh = <<>> /\ sendCh = <<>> /\ ~readClosed /\ ~sendClosed
      BY DEF Init
    <3>2. readClosed \in BOOLEAN /\ sendClosed \in BOOLEAN
      BY DEF Init
    <3> QED BY <3>1, <3>2, Caps DEF ChansType
  <2>2. ProcsType
    <3>1. /\ starter = PoolCount /\ writer = "start" /\ reader = "off" /\ manager = "off"
          /\ stoper = "off"
      BY DEF Init
    <3>2. stopping \in BOOLEAN
      BY DEF Init
    <3> QED BY <3>1, <3>2, Caps DEF ProcsType, StoperStage
  <2>3. ConnsType
    <3>1. pool = <<>> /\ reqs = 0 /\ conn = [w \in WorkConn |-> "none"]
      BY DEF Init
    <3>2. poolClosed \in BOOLEAN
      BY DEF Init
    <3> QED BY <3>1, <3>2, Caps DEF ConnsType, ConnStage
  <2>4. UsersType
    BY Caps DEF Init, UsersType, UserStage
  <2> QED BY <2>1, <2>2, <2>3, <2>4
<1>2. TypeOK /\ [Next]_vars => TypeOK'
  <2> SUFFICES ASSUME ChansType, ProcsType, ConnsType, UsersType, [Next]_vars
               PROVE  ChansType' /\ ProcsType' /\ ConnsType' /\ UsersType'
    BY DEF TypeOK, ChansType, ProcsType, ConnsType, UsersType
  <2>1. CASE UNCHANGED vars
    BY <2>1, ChansFrame, ProcsFrame, ConnsFrame, UsersFrame
    DEF vars, chans, procs, conns, users
  <2> QED BY <2>1, ControlType, StoperType, WorkConnType, HandlerType DEF Next
<1> QED BY <1>1, <1>2, PTL DEF Spec
-----------------------------------------------------------------------------
(* Start, which wakes reader and manager, comes before stoper; stoper       *)
(* closes a channel only after the goroutine that sends on it has ended.    *)
ClosedInv ==
    /\ starter # Nil => stoper = "off"
    /\ stoper = "off" => ~readClosed /\ ~sendClosed
    /\ readClosed => reader = "done"
    /\ sendClosed => manager = "done"

LEMMA ClosedStep == ClosedInv /\ [Next]_vars => ClosedInv'
<1> SUFFICES ASSUME ClosedInv, [Next]_vars PROVE ClosedInv'
  OBVIOUS
<1> USE DEF ClosedInv
<1>1. CASE StartPool
  BY <1>1 DEF StartPool
<1>2. CASE StartRest
  BY <1>2 DEF StartRest, chans
<1>3. CASE Writer \/ WriterInitFails
  BY <1>3 DEF Writer, WriterSend, WriterEnd, WriterInitFails, chans
<1>4. ASSUME NEW m \in Msg, ReaderRead(m) PROVE ClosedInv'
  BY <1>4 DEF ReaderRead, chans
<1>5. CASE ReaderPut
  BY <1>5 DEF ReaderPut
<1>6. CASE ReaderEnd \/ HeartbeatTimeout \/ Replaced
  BY <1>6 DEF ReaderEnd, HeartbeatTimeout, Replaced, chans
<1>7. CASE Manager
  BY <1>7 DEF Manager, ManagerTake, ManagerReply, ManagerEnd
<1>8. CASE StoperCloseReadCh \/ StoperCloseSendCh
  BY <1>8 DEF StoperCloseReadCh, StoperCloseSendCh
<1>9. CASE StoperCloseConn \/ StoperClosePool \/ StoperDone \/ DelControl
  BY <1>9 DEF StoperCloseConn, StoperClosePool, StoperDone, DelControl, chans
<1>10. CASE UNCHANGED <<starter, reader, manager, stoper, readClosed, sendClosed>>
  BY <1>10
<1>11. CASE StoperDrain
  BY <1>11, <1>10 DEF StoperDrain, procs, chans
<1>12. ASSUME NEW w \in WorkConn, WorkConnArrives(w) \/ WorkConnInvalid(w) \/ RegisterWorkConn(w)
       PROVE  ClosedInv'
  BY <1>12, <1>10 DEF WorkConnArrives, WorkConnInvalid, RegisterWorkConn, procs, chans
<1>13. CASE RequestUnanswered
  BY <1>13, <1>10 DEF RequestUnanswered, procs, chans
<1>14. ASSUME NEW u \in User, UserArrives(u) \/ Handler(u) PROVE ClosedInv'
  BY <1>14, <1>10
  DEF UserArrives, Handler, GetTake, GetClosed, GetEmpty, GetRequest, GetTimeout, GetReplace,
      WriteStart, WriteStartFails, procs, chans
<1>15. CASE UNCHANGED vars
  BY <1>15, <1>10 DEF vars
<1> QED
  BY <1>1, <1>2, <1>3, <1>4, <1>5, <1>6, <1>7, <1>8, <1>9, <1>11, <1>12, <1>13, <1>14, <1>15
  DEF Next, Starter, Stoper

(* Neither the reader nor the manager ever sends on a closed channel: their *)
(* panics would not be recovered into an error path.                        *)
THEOREM NoSendOnClosedCorrect == Spec => []NoSendOnClosed
<1>1. Init => ClosedInv
  BY DEF Init, ClosedInv
<1>2. ClosedInv => NoSendOnClosed
  BY MsgAssumption DEF ClosedInv, NoSendOnClosed
<1> QED BY <1>1, <1>2, ClosedStep, PTL DEF Spec

-----------------------------------------------------------------------------
(* The pool has each of its connections once, and knows of no others.       *)
PoolInv ==
    /\ \A i, j \in 1 .. Len(pool) : i # j => pool[i] # pool[j]
    /\ \A i \in 1 .. Len(pool) : conn[pool[i]] = "pooled"
    /\ \A w \in WorkConn : conn[w] = "pooled" => \E i \in 1 .. Len(pool) : pool[i] = w

(* What a handler took is out of the pool, and nobody else took it.         *)
HeldInv ==
    /\ \A u \in User : held[u] # Nil => conn[held[u]] \in {"taken", "closed"}
    /\ \A u, v \in User : u # v /\ held[u] # Nil => held[u] # held[v]
    /\ \A u \in User : user[u] \in {"replace", "write"} =>
          held[u] \in WorkConn /\ conn[held[u]] = "taken"

(* The pool is closed before it is drained, and empty before Done.          *)
DrainInv ==
    /\ stoper \in {"drain", "done", "gone"} => poolClosed
    /\ stoper \in {"done", "gone"} => pool = <<>>

ConnInv == PoolInv /\ HeldInv /\ DrainInv

(* A connection that is neither in the pool nor with a handler moves on.    *)
LEMMA ConnMoves ==
    ASSUME TypeOK, ConnInv, NEW w \in WorkConn, conn[w] \in {"none", "found"},
           NEW s \in ConnStage \ {"pooled"}, conn' = [conn EXCEPT ![w] = s],
           UNCHANGED <<pool, user, held>>
    PROVE  PoolInv' /\ HeldInv'
<1>1. \A v \in WorkConn \ {w} : conn'[v] = conn[v]
  BY DEF TypeOK
<1>2. \A i \in 1 .. Len(pool) : pool[i] \in WorkConn \ {w}
  BY DEF ConnInv, PoolInv, TypeOK
<1>3. \A u \in User : held[u] # Nil => held[u] \in WorkConn \ {w}
  BY DEF ConnInv, HeldInv, TypeOK
<1>4. PoolInv'
  BY <1>1, <1>2 DEF ConnInv, PoolInv, TypeOK
<1>5. HeldInv'
  BY <1>1, <1>3, NilAssumption DEF ConnInv, HeldInv
<1> QED BY <1>4, <1>5

(* The first connection leaves the pool, for a handler or for stoper.       *)
LEMMA PoolLeaves ==
    ASSUME TypeOK, ConnInv, pool # <<>>, NEW s \in ConnStage \ {"pooled"},
           conn' = [conn EXCEPT ![Head(pool)] = s], pool' = Tail(pool)
    PROVE  /\ PoolInv'
           /\ Head(pool) \in WorkConn /\ conn[Head(pool)] = "pooled"
           /\ conn'[Head(pool)] = s
           /\ \A v \in WorkConn \ {Head(pool)} : conn'[v] = conn[v]
           /\ \A u \in User : held[u] # Nil => held[u] # Head(pool)
<1> DEFINE w == Head(pool)
<1>1. /\ Tail(pool) \in Seq(WorkConn) /\ w \in WorkConn /\ w = pool[1]
      /\ Len(pool) \in Nat \ {0} /\ Len(Tail(pool)) = Len(pool) - 1
      /\ \A i \in 1 .. Len(pool) - 1 : Tail(pool)[i] = pool[i + 1]
  BY TailType, Caps DEF TypeOK
<1>2. conn[w] = "pooled" /\ conn'[w] = s /\ \A v \in WorkConn \ {w} : conn'[v] = conn[v]
  BY <1>1 DEF ConnInv, PoolInv, TypeOK
<1>3. \A i \in 1 .. Len(pool) - 1 :
        i + 1 \in 1 .. Len(pool) /\ pool[i + 1] \in WorkConn \ {w} /\ pool'[i] = pool[i + 1]
  BY <1>1 DEF ConnInv, PoolInv, TypeOK
<1>4. PoolInv'
  <2>1. \A i, j \in 1 .. Len(pool') : i # j => pool'[i] # pool'[j]
    BY <1>1, <1>3 DEF ConnInv, PoolInv
  <2>2. \A i \in 1 .. Len(pool') : conn'[pool'[i]] = "pooled"
    BY <1>1, <1>2, <1>3 DEF ConnInv, PoolInv
  <2>3. ASSUME NEW v \in WorkConn, conn'[v] = "pooled"
        PROVE  \E i \in 1 .. Len(pool') : pool'[i] = v
    <3>1. v # w /\ conn[v] = "pooled"
      BY <1>2, <2>3
    <3>2. PICK k \in 1 .. Len(pool) : pool[k] = v
      BY <3>1 DEF ConnInv, PoolInv
    <3>3. k - 1 \in 1 .. Len(pool') /\ pool'[k - 1] = v
      BY <1>1, <1>3, <3>1, <3>2
    <3> QED BY <3>3
  <2> QED BY <2>1, <2>2, <2>3 DEF PoolInv
<1>5. \A u \in User : held[u] # Nil => held[u] # w
  BY <1>2 DEF ConnInv, HeldInv
<1> QED BY <1>1, <1>2, <1>4, <1>5
(* Steps that leave the pool, the connections and what handlers hold alone. *)
LEMMA ConnFrame ==
    ASSUME ConnInv, UNCHANGED <<pool, conn, held>>,
           DrainInv',
           \A u \in User : user'[u] \in {"replace", "write"} => user[u] \in {"replace", "write"}
    PROVE  ConnInv'
<1>1. PoolInv'
  BY DEF ConnInv, PoolInv
<1>2. HeldInv'
  BY DEF ConnInv, HeldInv
<1> QED BY <1>1, <1>2 DEF ConnInv

(* Control.RegisterWorkConn puts a connection that is nowhere else into the *)
(* pool, or gives it up.                                                    *)
LEMMA RegisterConn ==
    ASSUME TypeOK, ConnInv, NEW w \in WorkConn, RegisterWorkConn(w)
    PROVE  ConnInv'
<1> DEFINE room == ~poolClosed /\ Len(pool) < PoolCap
<1>1. /\ conn[w] = "found" /\ UNCHANGED <<procs, poolClosed, users>>
      /\ pool' = IF room THEN Append(pool, w) ELSE pool
      /\ conn' = [conn EXCEPT ![w] = IF room THEN "pooled"
                                     ELSE IF poolClosed THEN "lost" ELSE "closed"]
  BY DEF RegisterWorkConn
<1>2. UNCHANGED <<stoper, user, held>>
  BY <1>1 DEF procs, users
<1>3. CASE ~room
  <2>1. PoolInv' /\ HeldInv'
    BY <1>1, <1>2, <1>3, ConnMoves DEF ConnStage
  <2>2. DrainInv'
    BY <1>1, <1>2, <1>3 DEF ConnInv, DrainInv
  <2> QED BY <2>1, <2>2 DEF ConnInv
<1>4. CASE room
  <2>1. /\ pool' = Append(pool, w) /\ Len(pool) \in Nat /\ Len(pool') = Len(pool) + 1
        /\ pool'[Len(pool) + 1] = w /\ \A i \in 1 .. Len(pool) : pool'[i] = pool[i]
    BY <1>1, <1>4 DEF TypeOK
  <2>2. conn'[w] = "pooled" /\ \A v \in WorkConn \ {w} : conn'[v] = conn[v]
    BY <1>1, <1>4 DEF TypeOK
  <2>3. \A i \in 1 .. Len(pool) : pool[i] \in WorkConn \ {w} /\ conn[pool[i]] = "pooled"
    BY <1>1 DEF ConnInv, PoolInv, TypeOK
  <2>4. PoolInv'
    <3>1. \A i, j \in 1 .. Len(pool') : i # j => pool'[i] # pool'[j]
      BY <2>1, <2>3 DEF ConnInv, PoolInv
    <3>2. \A i \in 1 .. Len(pool') : conn'[pool'[i]] = "pooled"
      BY <2>1, <2>2, <2>3
    <3>3. \A v \in WorkConn : conn'[v] = "pooled" => \E i \in 1 .. Len(pool') : pool'[i] = v
      BY <2>1, <2>2 DEF ConnInv, PoolInv
    <3> QED BY <3>1, <3>2, <3>3 DEF PoolInv
  <2>5. \A u \in User : held[u] # Nil => held[u] \in WorkConn \ {w}
    BY <1>1 DEF ConnInv, HeldInv, TypeOK
  <2>6. HeldInv'
    BY <1>2, <2>2, <2>5, NilAssumption DEF ConnInv, HeldInv
  <2>7. DrainInv'
    BY <1>1, <1>2, <1>4 DEF ConnInv, DrainInv
  <2> QED BY <2>4, <2>6, <2>7 DEF ConnInv
<1> QED BY <1>3, <1>4

(* A handler takes the first connection of the pool.                        *)
LEMMA TakeConn ==
    ASSUME TypeOK, ConnInv, NEW u \in User, GetTake(u)
    PROVE  ConnInv'
<1> DEFINE w == Head(pool)
<1>1. /\ pool # <<>> /\ pool' = Tail(pool) /\ conn' = [conn EXCEPT ![w] = "taken"]
      /\ held' = [held EXCEPT ![u] = w] /\ user' = [user EXCEPT ![u] = "replace"]
      /\ UNCHANGED <<stoper, poolClosed>>
  BY DEF GetTake, Goto, procs
<1>2. /\ PoolInv' /\ w \in WorkConn /\ conn'[w] = "taken"
      /\ \A v \in WorkConn \ {w} : conn'[v] = conn[v]
      /\ \A v \in User : held[v] # Nil => held[v] # w
  BY <1>1, PoolLeaves DEF ConnStage
<1>3. /\ held'[u] = w /\ user'[u] = "replace"
      /\ \A v \in User \ {u} : held'[v] = held[v] /\ user'[v] = user[v]
      /\ \A v \in User : held[v] # Nil => held[v] \in WorkConn \ {w}
  BY <1>1, <1>2 DEF TypeOK
<1>4. HeldInv'
  <2>1. \A v \in User : held'[v] # Nil => conn'[held'[v]] \in {"taken", "closed"}
    BY <1>2, <1>3 DEF ConnInv, HeldInv
  <2>2. \A v, x \in User : v # x /\ held'[v] # Nil => held'[v] # held'[x]
    BY <1>2, <1>3, NilAssumption DEF ConnInv, HeldInv
  <2>3. \A v \in User : user'[v] \in {"replace", "write"} =>
          held'[v] \in WorkConn /\ conn'[held'[v]] = "taken"
    BY <1>2, <1>3, NilAssumption DEF ConnInv, HeldInv
  <2> QED BY <2>1, <2>2, <2>3 DEF HeldInv
<1>5. DrainInv'
  BY <1>1 DEF ConnInv, DrainInv
<1> QED BY <1>2, <1>4, <1>5 DEF ConnInv

(* A handler closes the connection it holds, which is not in the pool.      *)
LEMMA FailedConn ==
    ASSUME TypeOK, ConnInv, NEW u \in User, WriteStartFails(u)
    PROVE  ConnInv'
<1> DEFINE w == held[u]
<1>1. /\ user[u] = "write" /\ conn' = [conn EXCEPT ![w] = "closed"]
      /\ UNCHANGED <<stoper, pool, poolClosed>>
  BY DEF WriteStartFails, procs
<1>2. /\ user'[u] \in {"get", "ok"} /\ held'[u] \in {w, Nil}
      /\ \A v \in User \ {u} : user'[v] = user[v] /\ held'[v] = held[v]
  BY DEF WriteStartFails, Answer, Goto, TypeOK
<1>3. w \in WorkConn /\ conn[w] = "taken" /\ w # Nil
  BY <1>1, NilAssumption DEF ConnInv, HeldInv
<1>4. conn'[w] = "closed" /\ \A v \in WorkConn \ {w} : conn'[v] = conn[v]
  BY <1>1, <1>3 DEF TypeOK
<1>5. \A i \in 1 .. Len(pool) : pool[i] \in WorkConn \ {w}
  BY <1>3 DEF ConnInv, PoolInv, TypeOK
<1>6. PoolInv'
  BY <1>1, <1>4, <1>5 DEF ConnInv, PoolInv
<1>7. \A v \in User : held[v] \in WorkConn \cup {Nil} /\ (v # u => held[v] # w)
  BY <1>3 DEF ConnInv, HeldInv, TypeOK
<1>8. HeldInv'
  <2>1. \A v \in User : held'[v] # Nil => conn'[held'[v]] \in {"taken", "closed"}
    BY <1>2, <1>4, <1>7 DEF ConnInv, HeldInv
  <2>2. \A v, x \in User : v # x /\ held'[v] # Nil => held'[v] # held'[x]
    BY <1>2, <1>7 DEF ConnInv, HeldInv
  <2>3. \A v \in User : user'[v] \in {"replace", "write"} =>
          held'[v] \in WorkConn /\ conn'[held'[v]] = "taken"
    BY <1>2, <1>4, <1>7 DEF ConnInv, HeldInv
  <2> QED BY <2>1, <2>2, <2>3 DEF HeldInv
<1>9. DrainInv'
  BY <1>1 DEF ConnInv, DrainInv
<1> QED BY <1>6, <1>8, <1>9 DEF ConnInv

LEMMA ConnStep == TypeOK /\ ConnInv /\ [Next]_vars => ConnInv'
<1> SUFFICES ASSUME TypeOK, ConnInv, [Next]_vars PROVE ConnInv'
  OBVIOUS
<1>1. ASSUME UNCHANGED <<stoper, pool, poolClosed, conn, held>>,
             \A u \in User : user'[u] \in {"replace", "write"} => user[u] \in {"replace", "write"}
      PROVE  ConnInv'
  <2>1. DrainInv'
    BY <1>1 DEF ConnInv, DrainInv
  <2> QED BY <1>1, <2>1, ConnFrame
<1>2. CASE StartRest
  <2>1. DrainInv'
    BY <1>2 DEF StartRest, DrainInv
  <2> QED BY <1>2, <2>1, ConnFrame DEF StartRest, conns, users
<1>3. CASE StartPool
  BY <1>1, <1>3 DEF StartPool, conns, users
<1>4. CASE Writer \/ WriterInitFails
  BY <1>1, <1>4 DEF Writer, WriterSend, WriterEnd, WriterInitFails, conns, users
<1>5. CASE (\E m \in Msg : ReaderRead(m)) \/ ReaderPut \/ ReaderEnd
  BY <1>1, <1>5 DEF ReaderRead, ReaderPut, ReaderEnd, conns, users
<1>6. CASE Manager \/ HeartbeatTimeout \/ Replaced
  BY <1>1, <1>6
  DEF Manager, ManagerTake, ManagerReply, ManagerEnd, HeartbeatTimeout, Replaced, conns, users
<1>7. CASE StoperCloseConn \/ StoperCloseReadCh \/ StoperCloseSendCh \/ StoperClosePool
  <2>1. DrainInv'
    BY <1>7
    DEF StoperCloseConn, StoperCloseReadCh, StoperCloseSendCh, StoperClosePool, DrainInv
  <2> QED BY <1>7, <2>1, ConnFrame
    DEF StoperCloseConn, StoperCloseReadCh, StoperCloseSendCh, StoperClosePool, conns, users
<1>8. CASE StoperDrain
  <2>1. /\ pool # <<>> /\ pool' = Tail(pool) /\ conn' = [conn EXCEPT ![Head(pool)] = "closed"]
        /\ stoper = "drain" /\ UNCHANGED <<stoper, poolClosed, held, user>>
    BY <1>8 DEF StoperDrain, procs, users
  <2>2. /\ PoolInv' /\ \A v \in WorkConn \ {Head(pool)} : conn'[v] = conn[v]
        /\ \A v \in User : held[v] # Nil => held[v] # Head(pool)
    BY <2>1, PoolLeaves DEF ConnStage
  <2>3. \A v \in User : held[v] # Nil => conn'[held[v]] = conn[held[v]]
    BY <2>2 DEF TypeOK
  <2>4. HeldInv'
    BY <2>1, <2>3, NilAssumption DEF ConnInv, HeldInv
  <2>5. DrainInv'
    BY <2>1 DEF ConnInv, DrainInv
  <2> QED BY <2>2, <2>4, <2>5 DEF ConnInv
<1>9. CASE StoperDone \/ DelControl
  <2>1. DrainInv'
    BY <1>9 DEF StoperDone, DelControl, ConnInv, DrainInv, conns
  <2> QED BY <1>9, <2>1, ConnFrame DEF StoperDone, DelControl, conns, users
<1>10. ASSUME NEW w \in WorkConn, WorkConnArrives(w) \/ WorkConnInvalid(w) PROVE ConnInv'
  <2>1. /\ conn[w] \in {"none", "found"} /\ UNCHANGED <<stoper, pool, poolClosed, user, held>>
        /\ \E s \in ConnStage \ {"pooled"} : conn' = [conn EXCEPT ![w] = s]
    BY <1>10 DEF WorkConnArrives, WorkConnInvalid, procs, users, ConnStage
  <2>2. PoolInv' /\ HeldInv'
    BY <2>1, ConnMoves
  <2>3. DrainInv'
    BY <2>1 DEF ConnInv, DrainInv
  <2> QED BY <2>2, <2>3 DEF ConnInv
<1>11. CASE RequestUnanswered
  BY <1>1, <1>11 DEF RequestUnanswered, procs, users
<1>12. ASSUME NEW u \in User,
              \/ UserArrives(u) \/ GetClosed(u) \/ GetEmpty(u) \/ GetRequest(u)
              \/ GetTimeout(u) \/ GetReplace(u) \/ WriteStart(u)
       PROVE  ConnInv'
  <2>1. /\ UNCHANGED <<stoper, pool, poolClosed, conn, held>>
        /\ \/ user' = [user EXCEPT ![u] = "write"] /\ user[u] = "replace"
           \/ \E s \in {"get", "failed", "request", "wait", "ok"} : user' = [user EXCEPT ![u] = s]
    BY <1>12 DEF UserArrives, GetClosed, GetEmpty, GetRequest, GetTimeout, GetReplace,
                 WriteStart, Answer, Goto, procs, conns
  <2>2. \A v \in User : user'[v] \in {"replace", "write"} => user[v] \in {"replace", "write"}
    BY <2>1 DEF TypeOK
  <2> QED BY <1>1, <2>1, <2>2
<1>13. CASE UNCHANGED vars
  BY <1>1, <1>13 DEF vars
<1> QED
  BY <1>2, <1>3, <1>4, <1>5, <1>6, <1>7, <1>8, <1>9, <1>10, <1>11, <1>12, <1>13,
     RegisterConn, TakeConn, FailedConn
  DEF Next, Starter, Stoper, Handler

LEMMA ConnInit == Init => ConnInv
<1> SUFFICES ASSUME Init PROVE ConnInv
  OBVIOUS
<1>1. pool = <<>> /\ stoper = "off" /\ conn = [w \in WorkConn |-> "none"]
  BY DEF Init
<1>2. user = [u \in User |-> "idle"] /\ held = [u \in User |-> Nil]
  BY DEF Init
<1>3. PoolInv
  BY <1>1 DEF PoolInv
<1>4. HeldInv
  BY <1>2 DEF HeldInv
<1>5. DrainInv
  BY <1>1 DEF DrainInv
<1> QED BY <1>3, <1>4, <1>5 DEF ConnInv

(* When the control reports its end, no work connection is left in its      *)
(* pool: RegisterWorkConn adds none once workConnCh is closed, and stoper   *)
(* ranges over it to the end.                                               *)
THEOREM PoolEmptyCorrect == Spec => []PoolEmptyAtEnd
<1>1. ConnInv => PoolEmptyAtEnd
  BY DEF ConnInv, PoolInv, DrainInv, PoolEmptyAtEnd
<1> QED BY <1>1, ConnInit, ConnStep, TypeCorrect, PTL DEF Spec

(* Whatever handlers, failed writes and the drain of stoper do to the pool, *)
(* a work connection serves one user and is open while its handler uses it. *)
THEOREM ConnExclusiveCorrect == Spec => []ConnExclusive
<1>1. ConnInv => ConnExclusive
  BY DEF ConnInv, HeldInv, ConnExclusive
<1> QED BY <1>1, ConnInit, ConnStep, TypeCorrect, PTL DEF Spec
=============================================================================
