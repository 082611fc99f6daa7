------------------------ MODULE ProxyWrapper_proofs ------------------------
(***************************************************************************)
(* What frps publishes is what frpc wants, for any number of reloads, any  *)
(* capacity of the channels and any threshold of the health check.  The    *)
(* inductive invariant is TypeOK and CloseFollows.                         *)
(***************************************************************************)
EXTENDS ProxyWrapper, TLAPS

(* A message put at the end of the queue follows everything in it.          *)
LEMMA SendFacts ==
    ASSUME TypeOK, NEW t \in {"NewProxy", "CloseProxy"}, NEW w \in Wrapper, Send(t, w)
    PROVE  /\ toServer' \in Seq(Message)
           /\ Len(toServer) \in Nat
           /\ Len(toServer') = Len(toServer) + 1
           /\ Len(toServer') <= ChanCap
           /\ \A i \in 1 .. Len(toServer) : toServer'[i] = toServer[i]
           /\ toServer'[Len(toServer')] = [type |-> t, from |-> w]
  BY BoundAssumption DEF TypeOK, Send, Message

(* Taking the first message moves the others one place forward.             *)
LEMMA TakeFacts ==
    ASSUME TypeOK, toServer # <<>>, toServer' = Tail(toServer)
    PROVE  /\ toServer' \in Seq(Message)
           /\ Len(toServer) \in Nat /\ Len(toServer) > 0
           /\ Len(toServer') = Len(toServer) - 1
           /\ Len(toServer') <= ChanCap
           /\ \A i \in 1 .. Len(toServer') : toServer'[i] = toServer[i + 1]
           /\ Head(toServer) = toServer[1]
           /\ Head(toServer) \in Message
  BY BoundAssumption DEF TypeOK

(* Every message in the queue has a Wrapper as its sender.                  *)
LEMMA SenderFacts ==
    ASSUME TypeOK
    PROVE  \A i \in 1 .. Len(toServer) : toServer[i].from \in Wrapper
<1>1. \A i \in 1 .. Len(toServer) : toServer[i] \in Message
  BY DEF TypeOK
<1> QED BY <1>1 DEF Message

(* The disjuncts of Next, one by one, for the case splits below.            *)
LEMMA NextCases ==
    ASSUME Next
    PROVE  \/ \E w \in Wrapper : phase[w] = "none" /\ Reload(w)
           \/ Reload(Nil)
           \/ \E w \in Wrapper : WorkerStart(w)
           \/ \E w \in Wrapper : WorkerWithdraw(w)
           \/ \E w \in Wrapper : \/ WorkerLoad(w) \/ WorkerIdle(w)
                                 \/ WorkerWake(w) \/ WorkerReturn(w)
           \/ \E w \in Wrapper : CheckSucceeds(w) \/ CheckFails(w)
           \/ StartProxy
           \/ SetRunningStatus
           \/ RunFails
           \/ \E a \in Answer : ServerNewProxy(a)
           \/ ServerCloseProxy
  BY DEF Next, Worker, Server

(* TypeOK is inductive on its own.                                          *)
LEMMA TypeStep == TypeOK /\ [Next]_vars => TypeOK'
<1> SUFFICES ASSUME TypeOK, [Next]_vars PROVE TypeOK'
  OBVIOUS
<1> USE WrapperAssumption, FlagAssumption, BoundAssumption
<1>1. CASE UNCHANGED vars
  BY <1>1 DEF TypeOK, vars, monitor
<1>2. ASSUME NEW w \in Wrapper \cup {Nil}, w \in Wrapper => phase[w] = "none", Reload(w)
      PROVE  TypeOK'
  <2>1. toServer' \in Seq(Message) /\ Len(toServer') <= ChanCap
    <3>1. CASE cur = Nil
      BY <1>2, <3>1 DEF Reload, TypeOK
    <3>2. CASE cur # Nil
      <4>1. cur \in Wrapper /\ Send("CloseProxy", cur)
        BY <1>2, <3>2 DEF Reload, TypeOK
      <4> QED BY <4>1, SendFacts
    <3> QED BY <3>1, <3>2
  <2>2. phase' \in [Wrapper -> Phase]
    BY <1>2 DEF Reload, TypeOK, Phase
  <2>3. worker' \in [Wrapper -> WorkerStage]
    BY <1>2 DEF Reload, TypeOK, WorkerStage
  <2>4. \A x \in Wrapper : x = cur' <=> phase'[x] \notin {"none", "closed"}
    BY <1>2 DEF Reload, TypeOK
  <2> QED BY <1>2, <2>1, <2>2, <2>3, <2>4 DEF Reload, TypeOK, monitor
<1>3. ASSUME NEW w \in Wrapper, WorkerStart(w) PROVE TypeOK'
  <2>1. toServer' \in Seq(Message) /\ Len(toServer') <= ChanCap
    BY <1>3, SendFacts DEF WorkerStart
  <2> QED BY <1>3, <2>1 DEF WorkerStart, TypeOK, monitor, Phase, WorkerStage
<1>4. ASSUME NEW w \in Wrapper, WorkerWithdraw(w) PROVE TypeOK'
  <2>1. toServer' \in Seq(Message) /\ Len(toServer') <= ChanCap
    BY <1>4, SendFacts DEF WorkerWithdraw
  <2> QED BY <1>4, <2>1 DEF WorkerWithdraw, TypeOK, monitor, Phase, WorkerStage
<1>5. ASSUME NEW w \in Wrapper,
             WorkerLoad(w) \/ WorkerIdle(w) \/ WorkerWake(w) \/ WorkerReturn(w)
      PROVE  TypeOK'
  BY <1>5 DEF WorkerLoad, WorkerIdle, WorkerWake, WorkerReturn, TypeOK, monitor, WorkerStage
<1>6. ASSUME NEW w \in Wrapper, CheckSucceeds(w) \/ CheckFails(w) PROVE TypeOK'
  <2>1. CASE CheckSucceeds(w)
    BY <2>1 DEF CheckSucceeds, TypeOK
  <2>2. CASE CheckFails(w)
    <3>1. \A n \in 0 .. MaxFailed : Count(n) \in 0 .. MaxFailed
      BY DEF Count
    <3>2. /\ failedTimes' \in [Wrapper -> 0 .. MaxFailed]
      BY <2>2, <3>1 DEF CheckFails, TypeOK
    <3>3. statusOK' \in [Wrapper -> BOOLEAN] /\ healthy' \in [Wrapper -> BOOLEAN]
      BY <2>2 DEF CheckFails, TypeOK
    <3> QED BY <2>2, <3>2, <3>3 DEF CheckFails, TypeOK
  <2> QED BY <1>6, <2>1, <2>2
<1>7. CASE StartProxy
  BY <1>7 DEF StartProxy, TypeOK, monitor
<1>8. CASE SetRunningStatus
  BY <1>8 DEF SetRunningStatus, TypeOK, monitor, Phase
<1>9. CASE RunFails
  <2>1. handler.pw \in Wrapper
    BY <1>9 DEF RunFails, TypeOK
  <2>2. toServer' \in Seq(Message) /\ Len(toServer') <= ChanCap
    BY <1>9, <2>1, SendFacts DEF RunFails
  <2> QED BY <1>9, <2>1, <2>2 DEF RunFails, TypeOK, monitor, Phase
<1>10. ASSUME NEW a \in Answer, ServerNewProxy(a) PROVE TypeOK'
  <2>1. /\ toServer' \in Seq(Message) /\ Len(toServer') <= ChanCap
        /\ Head(toServer) \in Message
    BY <1>10, TakeFacts DEF ServerNewProxy
  <2>2. registered' \in Wrapper \cup {Nil}
    BY <1>10, <2>1 DEF ServerNewProxy, TypeOK, Message
  <2>3. toClient' \in Seq(Answer) /\ Len(toClient') <= ChanCap
    BY <1>10 DEF ServerNewProxy, TypeOK
  <2> QED BY <1>10, <2>1, <2>2, <2>3 DEF ServerNewProxy, TypeOK, monitor
<1>11. CASE ServerCloseProxy
  <2>1. toServer' \in Seq(Message) /\ Len(toServer') <= ChanCap
    BY <1>11, TakeFacts DEF ServerCloseProxy
  <2> QED BY <1>11, <2>1 DEF ServerCloseProxy, TypeOK, monitor
<1> QED
  BY <1>1, <1>2, <1>3, <1>4, <1>5, <1>6, <1>7, <1>8, <1>9, <1>10, <1>11,
     NextCases, WrapperAssumption

(* Init has the right types.                                                *)
LEMMA TypeInit == Init => TypeOK
  BY WrapperAssumption, FlagAssumption, BoundAssumption
     DEF Init, TypeOK, Phase, WorkerStage, Message, Answer

(* The types of the client's and the server's state, and that exactly the   *)
(* Wrapper in pm.proxies is neither unused nor stopped.                     *)
THEOREM TypeCorrect == Spec => []TypeOK
  BY TypeInit, TypeStep, PTL DEF Spec

-----------------------------------------------------------------------------
(* A step that adds a CloseProxy keeps CloseFollows whatever it does to     *)
(* what is wanted, because the new message is behind everything else.       *)
LEMMA AppendClose ==
    ASSUME TypeOK, CloseFollows, NEW w \in Wrapper, Send("CloseProxy", w),
           UNCHANGED registered
    PROVE  CloseFollows'
<1>1. /\ Len(toServer) \in Nat
      /\ Len(toServer') = Len(toServer) + 1
      /\ \A i \in 1 .. Len(toServer) : toServer'[i] = toServer[i]
      /\ toServer'[Len(toServer')].type = "CloseProxy"
  <2>1. "CloseProxy" \in {"NewProxy", "CloseProxy"}
    OBVIOUS
  <2>2. toServer'[Len(toServer')] = [type |-> "CloseProxy", from |-> w]
    BY <2>1, SendFacts
  <2> QED BY <2>1, <2>2, SendFacts
<1>2. ASSUME NEW i \in 1 .. Len(toServer'), toServer'[i].type = "NewProxy"
      PROVE  \E j \in i + 1 .. Len(toServer') : toServer'[j].type = "CloseProxy"
  <2>1. i # Len(toServer')
    BY <1>1, <1>2
  <2>2. Len(toServer') \in i + 1 .. Len(toServer')
    BY <1>1, <2>1
  <2> QED BY <1>1, <2>2
<1>3. \E j \in 1 .. Len(toServer') : toServer'[j].type = "CloseProxy"
  <2>1. Len(toServer') \in 1 .. Len(toServer')
    BY <1>1
  <2> QED BY <1>1, <2>1
<1> QED BY <1>2, <1>3 DEF CloseFollows

(* A step that leaves the messages and the registration alone and makes     *)
(* nothing unwanted keeps CloseFollows.                                     *)
LEMMA KeepFollows ==
    ASSUME TypeOK, CloseFollows, UNCHANGED <<toServer, registered>>,
           \A w \in Wrapper : Unwanted(w)' => Unwanted(w)
    PROVE  CloseFollows'
<1>1. \A i \in 1 .. Len(toServer) : toServer[i].from \in Wrapper
  BY SenderFacts
<1>2. registered # Nil => registered \in Wrapper
  BY DEF TypeOK
<1> QED BY <1>1, <1>2 DEF CloseFollows, Unwanted

(* Every step keeps CloseFollows.                                           *)
LEMMA FollowsStep == TypeOK /\ CloseFollows /\ [Next]_vars => CloseFollows'
<1> SUFFICES ASSUME TypeOK, CloseFollows, [Next]_vars PROVE CloseFollows'
  OBVIOUS
<1>1. CASE UNCHANGED vars
  BY <1>1, KeepFollows DEF vars, Unwanted
<1>2. ASSUME NEW w \in Wrapper \cup {Nil}, w \in Wrapper => phase[w] = "none", Reload(w)
      PROVE  CloseFollows'
  <2>1. CASE cur = Nil
    <3>1. UNCHANGED <<toServer, registered>>
      BY <1>2, <2>1 DEF Reload
    <3>2. \A x \in Wrapper : Unwanted(x)
      BY <2>1, WrapperAssumption DEF Unwanted
    <3> QED BY <3>1, <3>2, KeepFollows
  <2>2. CASE cur # Nil
    <3>1. cur \in Wrapper /\ Send("CloseProxy", cur) /\ UNCHANGED registered
      BY <1>2, <2>2 DEF Reload, TypeOK
    <3> QED BY <3>1, AppendClose
  <2> QED BY <2>1, <2>2
<1>3. ASSUME NEW w \in Wrapper, WorkerStart(w) PROVE CloseFollows'
  <2>1. /\ w = cur /\ w \in Wrapper
        /\ cur' = cur /\ registered' = registered
        /\ phase' = [phase EXCEPT ![w] = "wait start"]
        /\ Send("NewProxy", w)
    BY <1>3 DEF WorkerStart, TypeOK
  <2>2. /\ Len(toServer) \in Nat
        /\ Len(toServer') = Len(toServer) + 1
        /\ \A i \in 1 .. Len(toServer) : toServer'[i] = toServer[i]
        /\ toServer'[Len(toServer')] = [type |-> "NewProxy", from |-> w]
    BY <2>1, SendFacts
  <2>3. ~Unwanted(w)' /\ \A x \in Wrapper : Unwanted(x)' => Unwanted(x)
    BY <2>1 DEF Unwanted, TypeOK
  <2>4. (registered # Nil /\ Unwanted(registered) =>
           \E j \in 1 .. Len(toServer) : toServer[j].type = "CloseProxy")'
    <3> SUFFICES ASSUME registered # Nil, Unwanted(registered)'
                 PROVE  \E j \in 1 .. Len(toServer') : toServer'[j].type = "CloseProxy"
      BY <2>1
    <3>1. Unwanted(registered)
      BY <2>1, <2>3 DEF TypeOK, Unwanted
    <3>2. PICK j \in 1 .. Len(toServer) : toServer[j].type = "CloseProxy"
      BY <3>1 DEF CloseFollows
    <3> QED BY <2>2, <3>2
  <2>5. ASSUME NEW i \in 1 .. Len(toServer'), toServer'[i].type = "NewProxy",
               Unwanted(toServer[i].from)'
        PROVE  \E j \in i + 1 .. Len(toServer') : toServer'[j].type = "CloseProxy"
    <3>1. i \in 1 .. Len(toServer)
      <4>1. i # Len(toServer')
        <5> SUFFICES ASSUME i = Len(toServer') PROVE FALSE
          OBVIOUS
        <5>1. toServer'[i].from = w
          BY <2>2
        <5> QED BY <2>3, <2>5, <5>1 DEF Unwanted
      <4> QED BY <2>2, <4>1
    <3>2. toServer[i] = toServer'[i] /\ toServer[i].from \in Wrapper
      BY <2>2, <3>1, SenderFacts
    <3>3. Unwanted(toServer[i].from)
      BY <2>3, <2>5, <3>2 DEF Unwanted
    <3>4. PICK j \in i + 1 .. Len(toServer) : toServer[j].type = "CloseProxy"
      BY <2>5, <3>1, <3>2, <3>3 DEF CloseFollows
    <3> QED BY <2>2, <3>1, <3>4
  <2> QED BY <2>4, <2>5 DEF CloseFollows
<1>4. ASSUME NEW w \in Wrapper, WorkerWithdraw(w) PROVE CloseFollows'
  BY <1>4, AppendClose DEF WorkerWithdraw
<1>5. ASSUME NEW w \in Wrapper,
             WorkerLoad(w) \/ WorkerIdle(w) \/ WorkerWake(w) \/ WorkerReturn(w)
      PROVE  CloseFollows'
  BY <1>5, KeepFollows DEF WorkerLoad, WorkerIdle, WorkerWake, WorkerReturn, Unwanted
<1>6. ASSUME NEW w \in Wrapper, CheckSucceeds(w) \/ CheckFails(w) PROVE CloseFollows'
  BY <1>6, KeepFollows DEF CheckSucceeds, CheckFails, Unwanted
<1>7. CASE StartProxy
  BY <1>7, KeepFollows DEF StartProxy, Unwanted
<1>8. CASE SetRunningStatus
  <2>1. \A w \in Wrapper : Unwanted(w)' => Unwanted(w)
    BY <1>8 DEF SetRunningStatus, Unwanted, TypeOK
  <2> QED BY <1>8, <2>1, KeepFollows DEF SetRunningStatus
<1>9. CASE RunFails
  <2>1. handler.pw \in Wrapper
    BY <1>9 DEF RunFails, TypeOK
  <2> QED BY <1>9, <2>1, AppendClose DEF RunFails
<1>10. ASSUME NEW a \in Answer, ServerNewProxy(a) PROVE CloseFollows'
  <2>1. /\ Len(toServer) \in Nat /\ Len(toServer) > 0
        /\ Len(toServer') = Len(toServer) - 1
        /\ \A i \in 1 .. Len(toServer') : toServer'[i] = toServer[i + 1]
        /\ toServer[1].type = "NewProxy"
        /\ registered' \in {toServer[1].from, registered}
        /\ cur' = cur /\ phase' = phase
    BY <1>10, TakeFacts DEF ServerNewProxy
  <2>2. ASSUME registered' # Nil, Unwanted(registered)'
        PROVE  \E j \in 1 .. Len(toServer') : toServer'[j].type = "CloseProxy"
    <3>1. PICK j \in 2 .. Len(toServer) : toServer[j].type = "CloseProxy"
      <4>1. CASE registered' = registered
        <5>1. PICK j \in 1 .. Len(toServer) : toServer[j].type = "CloseProxy"
          BY <2>1, <2>2, <4>1 DEF CloseFollows, Unwanted
        <5>2. j # 1
          BY <2>1, <5>1
        <5> QED BY <2>1, <5>1, <5>2
      <4>2. CASE registered' = toServer[1].from
        <5>1. Unwanted(toServer[1].from)
          BY <2>1, <2>2, <4>2 DEF Unwanted
        <5>2. 1 \in 1 .. Len(toServer)
          BY <2>1
        <5> QED BY <2>1, <5>1, <5>2 DEF CloseFollows
      <4> QED BY <2>1, <4>1, <4>2
    <3>2. j - 1 \in 1 .. Len(toServer') /\ toServer'[j - 1] = toServer[j]
      BY <2>1, <3>1
    <3> QED BY <3>1, <3>2
  <2>3. ASSUME NEW i \in 1 .. Len(toServer'), toServer'[i].type = "NewProxy",
               Unwanted(toServer[i].from)'
        PROVE  \E j \in i + 1 .. Len(toServer') : toServer'[j].type = "CloseProxy"
    <3>1. i + 1 \in 1 .. Len(toServer) /\ toServer'[i] = toServer[i + 1]
      BY <2>1
    <3>2. Unwanted(toServer[i + 1].from)
      BY <2>1, <2>3, <3>1 DEF Unwanted
    <3>3. PICK j \in (i + 1) + 1 .. Len(toServer) : toServer[j].type = "CloseProxy"
      BY <2>3, <3>1, <3>2 DEF CloseFollows
    <3>4. j - 1 \in i + 1 .. Len(toServer') /\ toServer'[j - 1] = toServer[j]
      BY <2>1, <3>3
    <3> QED BY <3>3, <3>4
  <2> QED BY <2>2, <2>3 DEF CloseFollows
<1>11. CASE ServerCloseProxy
  <2>1. /\ Len(toServer) \in Nat /\ Len(toServer) > 0
        /\ Len(toServer') = Len(toServer) - 1
        /\ \A i \in 1 .. Len(toServer') : toServer'[i] = toServer[i + 1]
        /\ registered' = Nil
        /\ cur' = cur /\ phase' = phase
    BY <1>11, TakeFacts DEF ServerCloseProxy
  <2>2. ASSUME NEW i \in 1 .. Len(toServer'), toServer'[i].type = "NewProxy",
               Unwanted(toServer[i].from)'
        PROVE  \E j \in i + 1 .. Len(toServer') : toServer'[j].type = "CloseProxy"
    <3>1. i + 1 \in 1 .. Len(toServer) /\ toServer'[i] = toServer[i + 1]
      BY <2>1
    <3>2. Unwanted(toServer[i + 1].from)
      BY <2>1, <2>2, <3>1 DEF Unwanted
    <3>3. PICK j \in (i + 1) + 1 .. Len(toServer) : toServer[j].type = "CloseProxy"
      BY <2>2, <3>1, <3>2 DEF CloseFollows
    <3>4. j - 1 \in i + 1 .. Len(toServer') /\ toServer'[j - 1] = toServer[j]
      BY <2>1, <3>3
    <3> QED BY <3>3, <3>4
  <2> QED BY <2>1, <2>2 DEF CloseFollows
<1> QED
  BY <1>1, <1>2, <1>3, <1>4, <1>5, <1>6, <1>7, <1>8, <1>9, <1>10, <1>11,
     NextCases, WrapperAssumption

(* Whatever reload, health check, resend and answer come in between, when   *)
(* all messages have reached frps it publishes nothing that frpc has        *)
(* replaced, removed or withdrawn.                                          *)
THEOREM NoStaleProxyCorrect == Spec => []NoStaleProxy
<1>1. Init => TypeOK /\ CloseFollows
  <2>1. Init => CloseFollows
    BY DEF Init, CloseFollows
  <2> QED BY <2>1, TypeInit
<1>2. TypeOK /\ CloseFollows /\ [Next]_vars => TypeOK' /\ CloseFollows'
  BY TypeStep, FollowsStep
<1>3. CloseFollows => NoStaleProxy
  BY DEF CloseFollows, NoStaleProxy
<1> QED BY <1>1, <1>2, <1>3, PTL DEF Spec

-----------------------------------------------------------------------------
(* No step takes a Wrapper out of the phase closed.                         *)
THEOREM StopIsFinalCorrect == Spec => StopIsFinal
<1>1. ASSUME TypeOK, [Next]_vars
      PROVE  [\A w \in Wrapper : phase[w] = "closed" => phase'[w] = "closed"]_vars
  <2> SUFFICES ASSUME NEW x \in Wrapper, phase[x] = "closed" PROVE phase'[x] = "closed"
    OBVIOUS
  <2>1. CASE UNCHANGED vars
    BY <2>1 DEF vars
  <2>2. ASSUME NEW w \in Wrapper \cup {Nil}, w \in Wrapper => phase[w] = "none", Reload(w)
        PROVE  phase'[x] = "closed"
    <3>1. x # w
      BY <2>2, WrapperAssumption
    <3> QED BY <2>2, <3>1 DEF Reload
  <2>3. ASSUME NEW w \in Wrapper, WorkerStart(w) \/ WorkerWithdraw(w)
        PROVE  phase'[x] = "closed"
    BY <1>1, <2>3 DEF WorkerStart, WorkerWithdraw, TypeOK
  <2>4. CASE SetRunningStatus \/ RunFails
    BY <1>1, <2>4 DEF SetRunningStatus, RunFails, TypeOK
  <2>5. CASE UNCHANGED phase
    BY <2>5
  <2>6. ASSUME NEW w \in Wrapper,
               \/ WorkerLoad(w) \/ WorkerIdle(w) \/ WorkerWake(w) \/ WorkerReturn(w)
               \/ CheckSucceeds(w) \/ CheckFails(w)
        PROVE  UNCHANGED phase
    BY <2>6 DEF WorkerLoad, WorkerIdle, WorkerWake, WorkerReturn, CheckSucceeds, CheckFails
  <2>7. ASSUME StartProxy \/ ServerCloseProxy \/ \E a \in Answer : ServerNewProxy(a)
        PROVE  UNCHANGED phase
    BY <2>7 DEF StartProxy, ServerCloseProxy, ServerNewProxy
  <2> QED BY <1>1, <2>1, <2>2, <2>3, <2>4, <2>5, <2>6, <2>7, NextCases,
            WrapperAssumption
<1> QED BY <1>1, TypeInit, TypeStep, PTL DEF Spec, StopIsFinal
=============================================================================
