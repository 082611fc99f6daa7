---------------------------- MODULE ProxyWrapper ----------------------------
(***************************************************************************)
(* How frpc keeps one proxy name registered with frps: proxy.Wrapper       *)
(* (client/proxy/proxy_wrapper.go) with its goroutine checkWorker, the     *)
(* health Monitor (client/health/health.go), proxy.Manager.Reload and      *)
(* StartProxy (client/proxy/proxy_manager.go), the control connection, and *)
(* the manager goroutine of frps that answers it (server/control.go).      *)
(*                                                                         *)
(* Reload makes a new Wrapper whenever the configuration of the name       *)
(* changes, so a Wrapper stands for its configuration as well.             *)
(***************************************************************************)
EXTENDS Naturals, Sequences

CONSTANTS
    Wrapper,      \* the Wrapper objects Reload makes for the name
    HealthCheck,  \* those with health_check_type set
    MaxFailed,    \* monitor.maxFailedTimes
    SlowServer,   \* an answer may take longer than waitResponseTimeout
    Plugin,       \* those that use a plugin, whose creation in Run may fail
    ChanCap,      \* messages that fit on the way (make(chan msg.Message, 100))
    Nil

ASSUME WrapperAssumption == Nil \notin Wrapper
ASSUME FlagAssumption ==
    HealthCheck \subseteq Wrapper /\ Plugin \subseteq Wrapper /\ SlowServer \in BOOLEAN
ASSUME BoundAssumption == MaxFailed \in Nat \ {0} /\ ChanCap \in Nat \ {0}

VARIABLES
    cur,          \* pm.proxies[name]
    phase,        \* pw.Phase, "none" before NewWrapper
    healthy,      \* pw.health = 0
    worker,       \* where checkWorker is
    statusOK, failedTimes,   \* of the Wrapper's monitor
    handler,      \* the Wrapper and answer StartProxy is about to apply
    toServer,     \* sendCh, the control connection and readCh of frps
    toClient,     \* the way back
    registered    \* ctl.proxies[name] of frps: whose NewProxy it came from

monitor == <<healthy, statusOK, failedTimes>>
vars == <<cur, phase, worker, monitor, handler, toServer, toClient, registered>>

Phase == {"none", "new", "wait start", "start error", "running", "check failed", "closed"}

(* "healthy" and "failed": pw.health has been read and pw.mu not yet taken. *)
WorkerStage == {"none", "load", "healthy", "failed", "select", "done"}

Message == [type : {"NewProxy", "CloseProxy"}, from : Wrapper]
Answer == {"ok", "error"}

TypeOK ==
    /\ cur \in Wrapper \cup {Nil}
    /\ phase \in [Wrapper -> Phase]
    /\ worker \in [Wrapper -> WorkerStage]
    /\ healthy \in [Wrapper -> BOOLEAN]
    /\ statusOK \in [Wrapper -> BOOLEAN]
    /\ failedTimes \in [Wrapper -> 0 .. MaxFailed]
    /\ handler \in [pw : Wrapper, answer : Answer] \cup {Nil}
    /\ toServer \in Seq(Message) /\ Len(toServer) <= ChanCap
    /\ toClient \in Seq(Answer) /\ Len(toClient) <= ChanCap
    /\ registered \in Wrapper \cup {Nil}
    /\ \A w \in Wrapper : w = cur <=> phase[w] \notin {"none", "closed"}

Init ==
    /\ cur = Nil
    /\ phase = [w \in Wrapper |-> "none"]
    /\ worker = [w \in Wrapper |-> "none"]
    /\ healthy = [w \in Wrapper |-> w \notin HealthCheck]
    /\ statusOK = [w \in Wrapper |-> FALSE]
    /\ failedTimes = [w \in Wrapper |-> 0]
    /\ handler = Nil
    /\ toServer = <<>> /\ toClient = <<>>
    /\ registered = Nil

-----------------------------------------------------------------------------
(* HandleEvent: pm.sendCh <- m, which blocks while the channel is full.     *)
Send(type, w) ==
    /\ Len(toServer) < ChanCap
    /\ toServer' = Append(toServer, [type |-> type, from |-> w])

(* Mutant of Reload: Stop sends no CloseProxy.                            *)
ReloadNoClose(new) ==
    /\ new # cur
    /\ UNCHANGED toServer
    /\ phase' = [w \in Wrapper |-> CASE w = cur -> "closed"
                                     [] w = new -> "new"
                                     [] OTHER -> phase[w]]
    /\ worker' = [w \in Wrapper |-> IF w = new THEN "load" ELSE worker[w]]
    /\ cur' = new
    /\ UNCHANGED <<monitor, handler, toClient, registered>>

(* Reload, under pm.mu: the Wrapper whose configuration changed or is gone  *)
(* is stopped (phase closed, CloseProxy sent), then the new one is made and *)
(* its checkWorker started.  new = Nil: the name is gone from the           *)
(* configuration, or pm.Close.                                              *)
Reload(new) ==
    /\ new # cur
    /\ IF cur = Nil THEN UNCHANGED toServer ELSE Send("CloseProxy", cur)
    /\ phase' = [w \in Wrapper |-> CASE w = cur -> "closed"
                                     [] w = new -> "new"
                                     [] OTHER -> phase[w]]
    /\ worker' = [w \in Wrapper |-> IF w = new THEN "load" ELSE worker[w]]
    /\ cur' = new
    /\ UNCHANGED <<monitor, handler, toClient, registered>>

-----------------------------------------------------------------------------
(* checkWorker reads pw.health, an atomic, before it takes pw.mu.           *)
WorkerLoad(w) ==
    /\ worker[w] = "load"
    /\ worker' = [worker EXCEPT ![w] = IF healthy[w] THEN "healthy" ELSE "failed"]
    /\ UNCHANGED <<cur, phase, monitor, handler, toServer, toClient, registered>>

(* Mutant of WorkerStart: every phase but running starts.                 *)
WorkerStartClosed(w) ==
    /\ worker[w] = "healthy"
    /\ phase[w] # "running"
    /\ Send("NewProxy", w)
    /\ phase' = [phase EXCEPT ![w] = "wait start"]
    /\ worker' = [worker EXCEPT ![w] = "select"]
    /\ UNCHANGED <<cur, monitor, handler, toClient, registered>>

WorkerStart(w) ==
    /\ worker[w] = "healthy"
    /\ \/ phase[w] \in {"new", "check failed", "start error"}
       \/ phase[w] = "wait start" /\ SlowServer
    /\ Send("NewProxy", w)
    /\ phase' = [phase EXCEPT ![w] = "wait start"]
    /\ worker' = [worker EXCEPT ![w] = "select"]
    /\ UNCHANGED <<cur, monitor, handler, toClient, registered>>

(* Mutant of WorkerWithdraw: only in wait start.                          *)
WorkerWithdrawWaiting(w) ==
    /\ worker[w] = "failed"
    /\ phase[w] = "wait start"
    /\ Send("CloseProxy", w)
    /\ phase' = [phase EXCEPT ![w] = "check failed"]
    /\ worker' = [worker EXCEPT ![w] = "select"]
    /\ UNCHANGED <<cur, monitor, handler, toClient, registered>>

WorkerWithdraw(w) ==
    /\ worker[w] = "failed"
    /\ phase[w] \in {"running", "wait start"}
    /\ Send("CloseProxy", w)
    /\ phase' = [phase EXCEPT ![w] = "check failed"]
    /\ worker' = [worker EXCEPT ![w] = "select"]
    /\ UNCHANGED <<cur, monitor, handler, toClient, registered>>

(* Nothing to do; in wait start and start error until the timeout is over.  *)
WorkerIdle(w) ==
    /\ \/ worker[w] = "healthy" /\ phase[w] \notin {"new", "check failed"}
       \/ worker[w] = "failed" /\ phase[w] \notin {"running", "wait start"}
    /\ worker' = [worker EXCEPT ![w] = "select"]
    /\ UNCHANGED <<cur, phase, monitor, handler, toServer, toClient, registered>>

(* The timer of statusCheckInterval, or a health notification, which is     *)
(* lost when checkWorker is not in its select.                              *)
WorkerWake(w) ==
    /\ worker[w] = "select"
    /\ worker' = [worker EXCEPT ![w] = "load"]
    /\ UNCHANGED <<cur, phase, monitor, handler, toServer, toClient, registered>>

(* Mutant of WorkerReturn: closeCh is seen by a healthy proxy only.       *)
WorkerReturnHealthy(w) ==
    /\ worker[w] = "select"
    /\ phase[w] = "closed"
    /\ healthy[w]
    /\ worker' = [worker EXCEPT ![w] = "done"]
    /\ UNCHANGED <<cur, phase, monitor, handler, toServer, toClient, registered>>

(* closeCh is closed by Stop.                                               *)
WorkerReturn(w) ==
    /\ worker[w] = "select"
    /\ phase[w] = "closed"
    /\ worker' = [worker EXCEPT ![w] = "done"]
    /\ UNCHANGED <<cur, phase, monitor, handler, toServer, toClient, registered>>

-----------------------------------------------------------------------------
(* Monitor.checkWorker: one check.  A callback that races with Stop writes  *)
(* the health of a closed Wrapper only, and its notification is recovered   *)
(* from the closed channel.                                                 *)
Checked(w) == w \in HealthCheck /\ w = cur

CheckSucceeds(w) ==
    /\ Checked(w)
    /\ statusOK' = [statusOK EXCEPT ![w] = TRUE]
    /\ healthy' = [healthy EXCEPT ![w] = TRUE]
    /\ UNCHANGED <<cur, phase, worker, failedTimes, handler, toServer, toClient, registered>>

(* failedTimes is never reset.  Only failedTimes >= maxFailedTimes is asked, *)
(* so it is counted up to MaxFailed.                                         *)
Count(n) == IF n < MaxFailed THEN n + 1 ELSE n

CheckFails(w) ==
    /\ Checked(w)
    /\ failedTimes' = [failedTimes EXCEPT ![w] = Count(@)]
    /\ IF failedTimes'[w] = MaxFailed
       THEN /\ statusOK' = [statusOK EXCEPT ![w] = FALSE]
            /\ healthy' = [healthy EXCEPT ![w] = FALSE]
       ELSE UNCHANGED <<statusOK, healthy>>
    /\ UNCHANGED <<cur, phase, worker, handler, toServer, toClient, registered>>

-----------------------------------------------------------------------------
(* msgHandler takes a NewProxyResp; StartProxy looks up the name under      *)
(* pm.mu and lets go of the lock.                                           *)
StartProxy ==
    /\ handler = Nil
    /\ toClient # <<>>
    /\ handler' = IF cur = Nil THEN Nil ELSE [pw |-> cur, answer |-> Head(toClient)]
    /\ toClient' = Tail(toClient)
    /\ UNCHANGED <<cur, phase, worker, monitor, toServer, registered>>

(* SetRunningStatus on that Wrapper.  The answer does not say which         *)
(* NewProxy it belongs to: any answer is taken in phase wait start.         *)
SetRunningStatus ==
    /\ handler # Nil
    /\ phase' = IF phase[handler.pw] # "wait start" THEN phase
                ELSE [phase EXCEPT ![handler.pw] =
                        IF handler.answer = "ok" THEN "running" ELSE "start error"]
    /\ handler' = Nil
    /\ UNCHANGED <<cur, worker, monitor, toServer, toClient, registered>>

(* SetRunningStatus when pxy.Run fails: the registration is given back.     *)
RunFails ==
    /\ handler # Nil
    /\ handler.pw \in Plugin
    /\ handler.answer = "ok"
    /\ phase[handler.pw] = "wait start"
    /\ Send("CloseProxy", handler.pw)
    /\ phase' = [phase EXCEPT ![handler.pw] = "start error"]
    /\ handler' = Nil
    /\ UNCHANGED <<cur, worker, monitor, toClient, registered>>

-----------------------------------------------------------------------------
(* frps answers every NewProxy.  It registers the proxy if this control has *)
(* none of that name and nothing else stands in the way (the name or port   *)
(* of another client, the quota, a server plugin).                          *)
ServerNewProxy(answer) ==
    /\ toServer # <<>>
    /\ Head(toServer).type = "NewProxy"
    /\ Len(toClient) < ChanCap
    /\ answer = "ok" => registered = Nil
    /\ registered' = IF answer = "ok" THEN Head(toServer).from ELSE registered
    /\ toServer' = Tail(toServer)
    /\ toClient' = Append(toClient, answer)
    /\ UNCHANGED <<cur, phase, worker, monitor, handler>>

ServerCloseProxy ==
    /\ toServer # <<>>
    /\ Head(toServer).type = "CloseProxy"
    /\ toServer' = Tail(toServer)
    /\ registered' = Nil
    /\ UNCHANGED <<cur, phase, worker, monitor, handler, toClient>>

-----------------------------------------------------------------------------
Worker(w) ==
    \/ WorkerLoad(w)
    \/ WorkerStart(w)
    \/ WorkerWithdraw(w)
    \/ WorkerIdle(w)
    \/ WorkerWake(w)

Server ==
    \/ \E answer \in Answer : ServerNewProxy(answer)
    \/ ServerCloseProxy

Next ==
    \/ \E w \in Wrapper : phase[w] = "none" /\ Reload(w)
    \/ Reload(Nil)
    \/ \E w \in Wrapper : \/ Worker(w)
                          \/ WorkerReturn(w)
                          \/ CheckSucceeds(w)
                          \/ CheckFails(w)
    \/ StartProxy
    \/ SetRunningStatus
    \/ RunFails
    \/ Server

Spec == Init /\ [][Next]_vars

(* The goroutines of both ends run and the connection stays up; a select    *)
(* with several ready channels picks each of them in the end.  Neither      *)
(* reloads nor the outcome of a health check are assumed.                   *)
Fairness ==
    /\ \A w \in Wrapper : WF_vars(Worker(w)) /\ SF_vars(WorkerReturn(w))
    /\ WF_vars(StartProxy)
    /\ WF_vars(SetRunningStatus \/ RunFails)
    /\ WF_vars(Server)

FairSpec == Spec /\ Fairness

-----------------------------------------------------------------------------
(* The client does not want the registration of w: Reload has replaced or   *)
(* removed it, or its health check has failed.                              *)
Unwanted(w) == w # cur \/ phase[w] = "check failed"

(* When every message has reached frps, frps publishes no configuration     *)
(* that a reload has replaced or a failed health check has withdrawn,       *)
(* however the resends of checkWorker and the reload interleaved.           *)
NoStaleProxy ==
    toServer = <<>> /\ registered # Nil => ~Unwanted(registered)

(* Why: an unwanted registration, or a request for one, has a CloseProxy    *)
(* behind it on the same connection.                                        *)
CloseFollows ==
    /\ registered # Nil /\ Unwanted(registered) =>
          \E j \in 1 .. Len(toServer) : toServer[j].type = "CloseProxy"
    /\ \A i \in 1 .. Len(toServer) :
          toServer[i].type = "NewProxy" /\ Unwanted(toServer[i].from) =>
             \E j \in i + 1 .. Len(toServer) : toServer[j].type = "CloseProxy"

(* Stop is final: neither the answer StartProxy was about to apply nor a    *)
(* checkWorker that had already read pw.health revives a stopped Wrapper.   *)
StopIsFinal ==
    [][\A w \in Wrapper : phase[w] = "closed" => phase'[w] = "closed"]_vars

(* A proxy that is gone from the configuration is gone from frps in the end. *)
RemovedUnpublished == cur = Nil ~> (registered = Nil \/ cur # Nil)

(* checkWorker of a stopped Wrapper returns.                                *)
WorkerEnds == \A w \in Wrapper : phase[w] = "closed" ~> worker[w] = "done"

(* While its health checks keep failing, a proxy is in the end neither      *)
(* running nor waiting to, though checkWorker may miss the notification.    *)
UnhealthyStops ==
    \A w \in Wrapper : []<>healthy[w] \/ <>[](phase[w] \notin {"running", "wait start"})
=============================================================================
