--------------------------- MODULE ProxyRegistry ---------------------------
(***************************************************************************)
(* Client sessions and proxy names in frps: ControlManager and             *)
(* Service.RegisterControl (a login may replace the session with the same  *)
(* run id), Control.RegisterProxy, Control.CloseProxy and Control.stoper,  *)
(* proxy.Manager, and the two tables keyed by proxy name that proxies      *)
(* enter in Run and leave in Close: visitor.Manager (stcp, sudp) and       *)
(* nathole.Controller (xtcp).                                              *)
(*                                                                         *)
(* The manager goroutine of a control handles one message at a time and    *)
(* its stoper touches the proxies only after the manager has ended, so a   *)
(* control takes one step at a time.  Different controls interleave at     *)
(* every access to a shared table.                                         *)
(***************************************************************************)
EXTENDS Integers, FiniteSets

CONSTANTS
    Control,     \* control objects; an object is reused once nobody refers to it
    RunID, Name,
    Type,        \* the proxy types in use
    MaxPorts,    \* max_ports_per_client, 0 for no limit
    Nil

(* "run": Run succeeded, pxyManager.Add is next; "undo": Add failed, the    *)
(* deferred Close is next; "del": Close is done, pxyManager.Del is next.    *)
Job == [op : {"run", "undo", "del"}, name : Name, type : Type]

ASSUME TypeAssumption == Type \subseteq {"tcp", "stcp", "xtcp"}
ASSUME MaxPortsAssumption == MaxPorts \in Nat
ASSUME NilAssumption ==
    Nil \notin Control \cup RunID \cup {"tcp", "stcp", "xtcp"} \cup Job

VARIABLES
    ctlsByRunID,   \* ControlManager.ctlsByRunID
    phase,         \* how far a control is in its life
    runOf,         \* loginMsg.RunID of a control
    oldCtl,        \* the control whose end RegisterControl waits for
    stopping,      \* allShutdown has been started
    proxies,       \* ctl.proxies: the type of the proxy under a name
    portsUsedNum,  \* ctl.portsUsedNum
    job,           \* the RegisterProxy or Close under way
    pxys,          \* proxy.Manager.pxys: the control whose proxy has a name
    visitorListeners,  \* visitor.Manager.visitorListeners, by owner
    clientCfgs     \* nathole.Controller.clientCfgs, by owner

tables == <<pxys, visitorListeners, clientCfgs>>
session == <<ctlsByRunID, phase, runOf, oldCtl, stopping>>
vars == <<ctlsByRunID, phase, runOf, oldCtl, stopping, proxies, portsUsedNum,
          job, pxys, visitorListeners, clientCfgs>>

(* "waiting": added, RegisterControl waits for the replaced control;        *)
(* "working": started; "closing": stoper is past managerShutdown.WaitDone;  *)
(* "stuck": stoper will never call allShutdown.Done; "exited": it has, the  *)
(* goroutine that calls ControlManager.Del is to come.                      *)
Phase == {"none", "waiting", "working", "closing", "stuck", "exited"}

TypeOK ==
    /\ ctlsByRunID \in [RunID -> Control \cup {Nil}]
    /\ phase \in [Control -> Phase]
    /\ runOf \in [Control -> RunID \cup {Nil}]
    /\ oldCtl \in [Control -> Control \cup {Nil}]
    /\ stopping \in [Control -> BOOLEAN]
    /\ proxies \in [Control -> [Name -> Type \cup {Nil}]]
    /\ portsUsedNum \in [Control -> Int]
    /\ job \in [Control -> Job \cup {Nil}]
    /\ pxys \in [Name -> Control \cup {Nil}]
    /\ visitorListeners \in [Name -> Control \cup {Nil}]
    /\ clientCfgs \in [Name -> Control \cup {Nil}]
    /\ \A c \in Control :
         /\ phase[c] # "none" => runOf[c] \in RunID
         /\ oldCtl[c] # Nil => phase[c] = "waiting"
         /\ job[c] # Nil =>
              \/ phase[c] = "working"
              \/ phase[c] = "closing" /\ job[c].op = "del"

Init ==
    /\ ctlsByRunID = [r \in RunID |-> Nil]
    /\ phase = [c \in Control |-> "none"]
    /\ runOf = [c \in Control |-> Nil]
    /\ oldCtl = [c \in Control |-> Nil]
    /\ stopping = [c \in Control |-> FALSE]
    /\ proxies = [c \in Control |-> [n \in Name |-> Nil]]
    /\ portsUsedNum = [c \in Control |-> 0]
    /\ job = [c \in Control |-> Nil]
    /\ pxys = [n \in Name |-> Nil]
    /\ visitorListeners = [n \in Name |-> Nil]
    /\ clientCfgs = [n \in Name |-> Nil]

-----------------------------------------------------------------------------
(* Mutant of Login: the old control is not told to stop.                  *)
LoginNotReplacing(c, r) ==
    /\ phase[c] = "none"
    /\ \A d \in Control : oldCtl[d] # c
    /\ ctlsByRunID' = [ctlsByRunID EXCEPT ![r] = c]
    /\ phase' = [phase EXCEPT ![c] = "waiting"]
    /\ runOf' = [runOf EXCEPT ![c] = r]
    /\ oldCtl' = [oldCtl EXCEPT ![c] = ctlsByRunID[r]]
    /\ stopping' = [stopping EXCEPT ![c] = FALSE]
    /\ UNCHANGED <<proxies, portsUsedNum, job, tables>>

(* RegisterControl up to the wait: ControlManager.Add stores the new control *)
(* under its run id and tells the old one to stop (Control.Replaced).        *)
Login(c, r) ==
    /\ phase[c] = "none"
    /\ \A d \in Control : oldCtl[d] # c
    /\ ctlsByRunID' = [ctlsByRunID EXCEPT ![r] = c]
    /\ phase' = [phase EXCEPT ![c] = "waiting"]
    /\ runOf' = [runOf EXCEPT ![c] = r]
    /\ oldCtl' = [oldCtl EXCEPT ![c] = ctlsByRunID[r]]
    /\ stopping' = [d \in Control |->
                      \/ d = ctlsByRunID[r]
                      \/ d # c /\ stopping[d]]
    /\ UNCHANGED <<proxies, portsUsedNum, job, tables>>

(* Mutant of Start: no wait for the old control.                          *)
StartAtOnce(c) ==
    /\ phase[c] = "waiting"
    /\ phase' = [phase EXCEPT ![c] = "working"]
    /\ oldCtl' = [oldCtl EXCEPT ![c] = Nil]
    /\ UNCHANGED <<ctlsByRunID, runOf, stopping, proxies, portsUsedNum, job, tables>>

(* The rest of RegisterControl: oldCtl.allShutdown.WaitDone, ctl.Start.     *)
Start(c) ==
    /\ phase[c] = "waiting"
    /\ oldCtl[c] # Nil => phase[oldCtl[c]] \in {"exited", "none"}
    /\ phase' = [phase EXCEPT ![c] = "working"]
    /\ oldCtl' = [oldCtl EXCEPT ![c] = Nil]
    /\ UNCHANGED <<ctlsByRunID, runOf, stopping, proxies, portsUsedNum, job, tables>>

(* The client disconnects, its heartbeat is late or a Ping is invalid: the  *)
(* reader, the writer or the manager starts allShutdown.                    *)
Disconnect(c) ==
    /\ phase[c] = "working"
    /\ ~stopping[c]
    /\ stopping' = [stopping EXCEPT ![c] = TRUE]
    /\ UNCHANGED <<ctlsByRunID, phase, runOf, oldCtl, proxies, portsUsedNum, job, tables>>

-----------------------------------------------------------------------------
(* Proxy.GetUsedPortsNum, by proxy type.                                    *)
UsedPortsNum(t) == IF t = "tcp" THEN 1 ELSE 0

(* The charge is kept only when max_ports_per_client is set.                *)
Charge(t) == IF MaxPorts > 0 THEN UsedPortsNum(t) ELSE 0

(* Mutant of RunOK: visitor.Listen does not refuse a name it has.         *)
RunOverwrites(c, n, t) ==
    /\ visitorListeners' = IF t = "stcp" THEN [visitorListeners EXCEPT ![n] = c]
                                         ELSE visitorListeners
    /\ clientCfgs' = IF t = "xtcp" THEN [clientCfgs EXCEPT ![n] = c] ELSE clientCfgs

(* Run of a proxy, as far as the tables keyed by name go: visitor.Listen    *)
(* refuses a name it has, ListenClient overwrites it.  The port or route a  *)
(* proxy of another type needs is not in this module.                       *)
RunOK(c, n, t) ==
    /\ t = "stcp" => visitorListeners[n] = Nil
    /\ visitorListeners' = IF t = "stcp" THEN [visitorListeners EXCEPT ![n] = c]
                                         ELSE visitorListeners
    /\ clientCfgs' = IF t = "xtcp" THEN [clientCfgs EXCEPT ![n] = c] ELSE clientCfgs

(* Mutant of ClosePxy: CloseClient is not called.                         *)
ClosePxyKeepsClient(n, t) ==
    /\ visitorListeners' = IF t = "stcp" THEN [visitorListeners EXCEPT ![n] = Nil]
                                         ELSE visitorListeners
    /\ UNCHANGED clientCfgs

(* Close of a proxy on the same tables: the entry is removed by name.       *)
ClosePxy(n, t) ==
    /\ visitorListeners' = IF t = "stcp" THEN [visitorListeners EXCEPT ![n] = Nil]
                                         ELSE visitorListeners
    /\ clientCfgs' = IF t = "xtcp" THEN [clientCfgs EXCEPT ![n] = Nil] ELSE clientCfgs

(* The manager of c, or its stoper, is not inside a call.                   *)
Ready(c) == phase[c] = "working" /\ job[c] = Nil

(* Mutant of RegisterRun: the limit ignores the new proxy.                *)
RegisterRunLateLimit(c, n, t) ==
    /\ Ready(c)
    /\ MaxPorts > 0 => portsUsedNum[c] <= MaxPorts
    /\ RunOK(c, n, t)
    /\ portsUsedNum' = [portsUsedNum EXCEPT ![c] = @ + Charge(t)]
    /\ job' = [job EXCEPT ![c] = [op |-> "run", name |-> n, type |-> t]]
    /\ UNCHANGED <<session, proxies, pxys>>

(* RegisterProxy up to the end of Run: the limit, the charge, Run.  Errors  *)
(* here undo the charge and change nothing.                                 *)
RegisterRun(c, n, t) ==
    /\ Ready(c)
    /\ MaxPorts > 0 => portsUsedNum[c] + UsedPortsNum(t) <= MaxPorts
    /\ RunOK(c, n, t)
    /\ portsUsedNum' = [portsUsedNum EXCEPT ![c] = @ + Charge(t)]
    /\ job' = [job EXCEPT ![c] = [op |-> "run", name |-> n, type |-> t]]
    /\ UNCHANGED <<session, proxies, pxys>>

(* Mutant of RegisterAdd: Add does not refuse a name in use.              *)
RegisterAddOverwrites(c) ==
    /\ job[c] # Nil
    /\ job[c].op = "run"
    /\ pxys' = [pxys EXCEPT ![job[c].name] = c]
    /\ proxies' = [proxies EXCEPT ![c][job[c].name] = job[c].type]
    /\ job' = [job EXCEPT ![c] = Nil]
    /\ UNCHANGED <<session, portsUsedNum, visitorListeners, clientCfgs>>

(* proxy.Manager.Add succeeds and the control records the proxy.            *)
RegisterAdd(c) ==
    /\ job[c] # Nil
    /\ job[c].op = "run"
    /\ pxys[job[c].name] = Nil
    /\ pxys' = [pxys EXCEPT ![job[c].name] = c]
    /\ proxies' = [proxies EXCEPT ![c][job[c].name] = job[c].type]
    /\ job' = [job EXCEPT ![c] = Nil]
    /\ UNCHANGED <<session, portsUsedNum, visitorListeners, clientCfgs>>

(* proxy.Manager.Add answers that the name is in use.                       *)
RegisterAddFails(c) ==
    /\ job[c] # Nil
    /\ job[c].op = "run"
    /\ pxys[job[c].name] # Nil
    /\ job' = [job EXCEPT ![c] = [op |-> "undo", name |-> job[c].name, type |-> job[c].type]]
    /\ UNCHANGED <<session, proxies, portsUsedNum, tables>>

(* Mutant of RegisterUndo: the proxy is not closed.                       *)
RegisterUndoNoClose(c) ==
    /\ job[c] # Nil
    /\ job[c].op = "undo"
    /\ portsUsedNum' = [portsUsedNum EXCEPT ![c] = @ - Charge(job[c].type)]
    /\ job' = [job EXCEPT ![c] = Nil]
    /\ UNCHANGED <<session, proxies, tables>>

(* The deferred calls of a failed RegisterProxy: pxy.Close, then the charge. *)
RegisterUndo(c) ==
    /\ job[c] # Nil
    /\ job[c].op = "undo"
    /\ ClosePxy(job[c].name, job[c].type)
    /\ portsUsedNum' = [portsUsedNum EXCEPT ![c] = @ - Charge(job[c].type)]
    /\ job' = [job EXCEPT ![c] = Nil]
    /\ UNCHANGED <<session, proxies, pxys>>

(* CloseProxy up to pxyManager.Del, for a name the control has.             *)
CloseProxy(c, n) ==
    /\ Ready(c)
    /\ proxies[c][n] # Nil
    /\ ClosePxy(n, proxies[c][n])
    /\ portsUsedNum' = [portsUsedNum EXCEPT ![c] = @ - Charge(proxies[c][n])]
    /\ job' = [job EXCEPT ![c] = [op |-> "del", name |-> n, type |-> proxies[c][n]]]
    /\ UNCHANGED <<session, proxies, pxys>>

(* pxyManager.Del by name, in CloseProxy and in stoper.  CloseProxy removes *)
(* the proxy from ctl.proxies; stoper goes on to the next one, and what is  *)
(* left in proxies here is what it still has to visit.                      *)
PxyDel(c) ==
    /\ job[c] # Nil
    /\ job[c].op = "del"
    /\ pxys' = [pxys EXCEPT ![job[c].name] = Nil]
    /\ proxies' = [proxies EXCEPT ![c][job[c].name] = Nil]
    /\ job' = [job EXCEPT ![c] = Nil]
    /\ UNCHANGED <<session, portsUsedNum, visitorListeners, clientCfgs>>

-----------------------------------------------------------------------------
(* stoper: the reader and then the manager have ended.  Until then the      *)
(* manager works off what readCh still holds, even after allShutdown.Start. *)
StoperBegin(c) ==
    /\ Ready(c)
    /\ stopping[c]
    /\ phase' = [phase EXCEPT ![c] = "closing"]
    /\ UNCHANGED <<ctlsByRunID, runOf, oldCtl, stopping, proxies, portsUsedNum, job, tables>>

(* stoper waits for ever: for the reader, which is in ctl.readCh <- m with   *)
(* the channel full after the manager left on a late heartbeat, or for the  *)
(* manager, which is in ctl.sendCh <- resp with the channel full after the  *)
(* writer left on a write error.                                            *)
StoperBlocked(c) ==
    /\ Ready(c)
    /\ stopping[c]
    /\ phase' = [phase EXCEPT ![c] = "stuck"]
    /\ UNCHANGED <<ctlsByRunID, runOf, oldCtl, stopping, proxies, portsUsedNum, job, tables>>

(* Close of a tcp proxy panics (TCPGroup.CloseListener closes acceptCh a     *)
(* second time): the manager recovers and ends with ctl.mu locked, where    *)
(* stoper waits.  The proxy stays where it is.                              *)
CloseProxyPanics(c, n) ==
    /\ Ready(c)
    /\ proxies[c][n] = "tcp"
    /\ portsUsedNum' = [portsUsedNum EXCEPT ![c] = @ - Charge("tcp")]
    /\ phase' = [phase EXCEPT ![c] = "stuck"]
    /\ stopping' = [stopping EXCEPT ![c] = TRUE]
    /\ UNCHANGED <<ctlsByRunID, runOf, oldCtl, proxies, job, tables>>

(* The same panic in stoper, which recovers without allShutdown.Done: this  *)
(* proxy and those still to be visited stay registered.                     *)
StoperPanics(c, n) ==
    /\ phase[c] = "closing"
    /\ job[c] = Nil
    /\ proxies[c][n] = "tcp"
    /\ phase' = [phase EXCEPT ![c] = "stuck"]
    /\ UNCHANGED <<ctlsByRunID, runOf, oldCtl, stopping, proxies, portsUsedNum, job, tables>>

StoperClose(c, n) ==
    /\ phase[c] = "closing"
    /\ job[c] = Nil
    /\ proxies[c][n] # Nil
    /\ ClosePxy(n, proxies[c][n])
    /\ job' = [job EXCEPT ![c] = [op |-> "del", name |-> n, type |-> proxies[c][n]]]
    /\ UNCHANGED <<session, proxies, portsUsedNum, pxys>>

(* allShutdown.Done, once every proxy is closed.  The counter of the dead   *)
(* object is reset for the object that will take its place in the model.    *)
StoperDone(c) ==
    /\ phase[c] = "closing"
    /\ job[c] = Nil
    /\ \A n \in Name : proxies[c][n] = Nil
    /\ phase' = [phase EXCEPT ![c] = "exited"]
    /\ portsUsedNum' = [portsUsedNum EXCEPT ![c] = 0]
    /\ UNCHANGED <<ctlsByRunID, runOf, oldCtl, stopping, proxies, job, tables>>

(* Mutant of DelControl: Del does not compare the control.                *)
DelAnyControl(c) ==
    /\ phase[c] = "exited"
    /\ ctlsByRunID' = [ctlsByRunID EXCEPT ![runOf[c]] = Nil]
    /\ phase' = [phase EXCEPT ![c] = "none"]
    /\ UNCHANGED <<runOf, oldCtl, stopping, proxies, portsUsedNum, job, tables>>

(* The goroutine of RegisterControl after WaitClosed: ControlManager.Del    *)
(* removes the entry only if it is still this control.                      *)
DelControl(c) ==
    /\ phase[c] = "exited"
    /\ ctlsByRunID' = IF ctlsByRunID[runOf[c]] = c
                      THEN [ctlsByRunID EXCEPT ![runOf[c]] = Nil]
                      ELSE ctlsByRunID
    /\ phase' = [phase EXCEPT ![c] = "none"]
    /\ UNCHANGED <<runOf, oldCtl, stopping, proxies, portsUsedNum, job, tables>>

Next ==
    \E c \in Control :
        \/ \E r \in RunID : Login(c, r)
        \/ Start(c)
        \/ Disconnect(c)
        \/ \E n \in Name, t \in Type : RegisterRun(c, n, t)
        \/ RegisterAdd(c)
        \/ RegisterAddFails(c)
        \/ RegisterUndo(c)
        \/ \E n \in Name : CloseProxy(c, n)
        \/ PxyDel(c)
        \/ \E n \in Name : CloseProxyPanics(c, n)
        \/ StoperBegin(c)
        \/ StoperBlocked(c)
        \/ \E n \in Name : StoperClose(c, n)
        \/ \E n \in Name : StoperPanics(c, n)
        \/ StoperDone(c)
        \/ DelControl(c)

Spec == Init /\ [][Next]_vars

(* Goroutines run.  A session that is told to stop gets past stoper's waits  *)
(* or is stuck in them: after conn.Close the manager has a finite readCh    *)
(* left to work off, so it cannot put off both forever (the strong          *)
(* fairness).  Which of the two happens is not up to fairness.              *)
Fairness ==
    \A c \in Control :
        /\ WF_vars(Start(c))
        /\ WF_vars(RegisterAdd(c) \/ RegisterAddFails(c) \/ RegisterUndo(c) \/ PxyDel(c))
        /\ SF_vars(StoperBegin(c) \/ StoperBlocked(c))
        /\ WF_vars((\E n \in Name : StoperClose(c, n)) \/ StoperDone(c))
        /\ WF_vars(DelControl(c))

FairSpec == Spec /\ Fairness

-----------------------------------------------------------------------------
(* A proxy a control has is the one proxy.Manager has under that name, so   *)
(* the Del by name of CloseProxy and stoper never removes the proxy of      *)
(* another client, and an entry of proxy.Manager is always some control's,  *)
(* so no name stays in use for ever.                                        *)
RegistryAgrees ==
    \A c \in Control, n \in Name : proxies[c][n] # Nil <=> pxys[n] = c

(* A control has the name and its Close has not begun.                      *)
Serves(c, n, t) ==
    /\ proxies[c][n] = t
    /\ job[c] # Nil => ~(job[c].op = "del" /\ job[c].name = n)

(* A registered stcp or sudp proxy has its visitor listener as long as it   *)
(* is registered, whatever other clients try under the same name.           *)
VisitorServed ==
    \A c \in Control, n \in Name : Serves(c, n, "stcp") => visitorListeners[n] = c

(* A visitor listener belongs to a proxy that is registered or about to be: *)
(* a failed registration and the end of a session leave none behind.        *)
NoOrphanListener ==
    \A c \in Control, n \in Name : visitorListeners[n] = c =>
        \/ Serves(c, n, "stcp")
        \/ /\ job[c] # Nil
           /\ job[c].op \in {"run", "undo"}
           /\ job[c].name = n
           /\ job[c].type = "stcp"

(* The same of the xtcp clients of nathole.Controller, whose ListenClient   *)
(* overwrites the entry of another client and whose CloseClient removes it. *)
NoOrphanClient ==
    \A c \in Control, n \in Name : clientCfgs[n] = c =>
        \/ Serves(c, n, "xtcp")
        \/ /\ job[c] # Nil
           /\ job[c].op \in {"run", "undo"}
           /\ job[c].name = n
           /\ job[c].type = "xtcp"

(* portsUsedNum of a started control is the number of its proxies that use  *)
(* a port and are not closed, with the one being registered; it respects    *)
(* max_ports_per_client.                                                    *)
PortsCounted ==
    MaxPorts > 0 =>
        \A c \in Control : phase[c] = "working" =>
            /\ portsUsedNum[c] <= MaxPorts
            /\ portsUsedNum[c] =
                 Cardinality({n \in Name : Serves(c, n, "tcp")}) +
                 (IF job[c] # Nil /\ job[c].op # "del" /\ job[c].type = "tcp"
                  THEN 1 ELSE 0)

(* Two started sessions never have the same run id: the new control starts  *)
(* only when the old one has closed all its proxies, so a session that is   *)
(* stuck with proxies it did not close keeps every later one out.           *)
OneSessionPerRunID ==
    \A c, d \in Control :
        /\ phase[c] \in {"working", "closing", "stuck"}
        /\ phase[d] \in {"working", "closing", "stuck"}
        /\ runOf[c] = runOf[d]
        => c = d

(* A session that nobody told to stop can be found by its run id, so work   *)
(* connections reach it: the late Del of a replaced control spares it.      *)
CurrentSessionFound ==
    \A c \in Control :
        phase[c] \in {"waiting", "working"} /\ ~stopping[c] =>
            ctlsByRunID[runOf[c]] = c

(* Every login gets its turn, through any chain of replaced controls, also   *)
(* those that never started: only a session with its run id that is stuck   *)
(* in its end keeps it waiting.                                             *)
LoginStarts ==
    \A c \in Control :
        phase[c] = "waiting" ~>
            \/ phase[c] = "working"
            \/ \E d \in Control : phase[d] = "stuck" /\ runOf[d] = runOf[c]

(* The names a control has, for the refinement of NameLease.                *)
Names(c) == {n \in Name : proxies[c][n] # Nil}

Leases == INSTANCE NameLease
            WITH Session <- Control, leased <- [c \in Control |-> Names(c)]

(* The proxies maps of all controls implement the exclusive lease of names. *)
LeaseSpec == Leases!Spec
=============================================================================
