--------------------------- MODULE ControlSession ---------------------------
(***************************************************************************)
(* One client session of frps from the inside (server/control.go): Start,  *)
(* the goroutines writer, reader, manager and stoper, the bounded channels *)
(* readCh and sendCh between them, and the pool of work connections        *)
(* workConnCh that Service.RegisterWorkConn fills and that the handlers of *)
(* user connections empty (BaseProxy.GetWorkConnFromPool, GetWorkConn).    *)
(*                                                                         *)
(* A blocked channel operation is a guard.  A send on a closed channel     *)
(* panics; the senders that recover take their error path.                 *)
(***************************************************************************)
EXTENDS Naturals, Sequences, FiniteSets

CONSTANTS
    User,        \* user connections waiting for a work connection
    WorkConn,    \* work connections the client may open
    Msg,         \* the kinds of messages the client sends
    MaxMsgs,     \* bound: messages the client sends in a session
    PoolCount,   \* ctl.poolCount
    ReadCap, SendCap, PoolCap,   \* make(chan ..., cap) in NewControl
    HeartbeatOn, \* heartbeat_timeout > 0 and no TCPMux
    Nil

ASSUME MsgAssumption == Msg \subseteq {"NewProxy", "CloseProxy", "Ping", "InvalidPing"}
ASSUME CapAssumption == /\ ReadCap \in Nat \ {0}
                        /\ SendCap \in Nat \ {0}
                        /\ PoolCap \in Nat \ {0}
                        /\ PoolCount \in Nat /\ MaxMsgs \in Nat
ASSUME HeartbeatAssumption == HeartbeatOn \in BOOLEAN
ASSUME NilAssumption == Nil \notin WorkConn \cup Msg

VARIABLES
    sent,        \* messages the client has sent
    readCh, readClosed,
    sendCh, sendClosed,
    reqs,        \* ReqWorkConn messages the client has received and may answer
    starter,     \* ReqWorkConn messages Start has still to send, then Nil
    writer,      \* "start", "run" (it has taken a message) or "done"
    reader,      \* "read", the message it puts into readCh, or "done"
    manager,     \* "select", "reply", "last" (reply and return) or "done"
    stoper,      \* the wait stoper is in, then "done", then "gone" after Del
    stopping,    \* allShutdown.Start was called
    pool, poolClosed,   \* workConnCh
    conn,        \* where a work connection is
    user,        \* how far the handler of a user connection is
    held,        \* the work connection it took
    tries        \* rounds of GetWorkConnFromPool it has done

chans == <<readCh, readClosed, sendCh, sendClosed>>
procs == <<starter, writer, reader, manager, stoper, stopping>>
conns == <<pool, poolClosed, conn, reqs>>
users == <<user, held, tries>>
vars == <<sent, readCh, readClosed, sendCh, sendClosed, reqs, starter, writer,
          reader, manager, stoper, stopping, pool, poolClosed, conn, user, held, tries>>

StoperStage == {"off", "start", "reader", "manager", "writer", "drain", "done", "gone"}
UserStage == {"idle", "get", "request", "wait", "replace", "write", "ok", "failed"}

(* "found": RegisterWorkConn has looked up the control; "lost": the send    *)
(* panicked and nobody has the connection.                                  *)
ConnStage == {"none", "found", "pooled", "taken", "closed", "lost"}

TypeOK ==
    /\ sent \in 0 .. MaxMsgs
    /\ readCh \in Seq(Msg) /\ Len(readCh) <= ReadCap
    /\ sendCh \in Seq({"Resp", "ReqWorkConn"}) /\ Len(sendCh) <= SendCap
    /\ pool \in Seq(WorkConn) /\ Len(pool) <= PoolCap
    /\ readClosed \in BOOLEAN /\ sendClosed \in BOOLEAN /\ poolClosed \in BOOLEAN
    /\ reqs \in Nat
    /\ starter \in 0 .. PoolCount \cup {Nil}
    /\ writer \in {"start", "run", "done"}
    /\ reader \in {"off", "read", "done"} \cup Msg
    /\ manager \in {"off", "select", "reply", "last", "done"}
    /\ stoper \in StoperStage
    /\ stopping \in BOOLEAN
    /\ conn \in [WorkConn -> ConnStage]
    /\ user \in [User -> UserStage]
    /\ held \in [User -> WorkConn \cup {Nil}]
    /\ tries \in [User -> 0 .. PoolCount]

(* ctl.Start has sent LoginResp and started the writer.                     *)
Init ==
    /\ sent = 0 /\ reqs = 0
    /\ readCh = <<>> /\ sendCh = <<>> /\ pool = <<>>
    /\ readClosed = FALSE /\ sendClosed = FALSE /\ poolClosed = FALSE
    /\ starter = PoolCount
    /\ writer = "start" /\ reader = "off" /\ manager = "off" /\ stoper = "off"
    /\ stopping = FALSE
    /\ conn = [w \in WorkConn |-> "none"]
    /\ user = [u \in User |-> "idle"]
    /\ held = [u \in User |-> Nil]
    /\ tries = [u \in User |-> 0]

-----------------------------------------------------------------------------
(* conn is closed by stoper, its first step after WaitStart.                *)
ConnOpen == stoper \in {"off", "start"}

(* ctl.sendCh <- m, blocking while the channel is full.                     *)
Send(m) == ~sendClosed /\ Len(sendCh) < SendCap /\ sendCh' = Append(sendCh, m)

StartPool ==
    /\ starter # Nil /\ starter > 0
    /\ Send("ReqWorkConn")
    /\ starter' = starter - 1
    /\ UNCHANGED <<sent, readCh, readClosed, sendClosed, writer, reader, manager,
                   stoper, stopping, conns, users>>

StartRest ==
    /\ starter # Nil /\ starter = 0
    /\ starter' = Nil
    /\ manager' = "select" /\ reader' = "read" /\ stoper' = "start"
    /\ UNCHANGED <<sent, chans, writer, stopping, conns, users>>

(* The work connections the client has still to open: the bound of reqs, as *)
(* more requests than that make no difference.                              *)
Unopened == Cardinality({w \in WorkConn : conn[w] = "none"})

(* writer: the next message goes to the client.                             *)
WriterSend ==
    /\ writer \in {"start", "run"}
    /\ ConnOpen
    /\ sendCh # <<>>
    /\ sendCh' = Tail(sendCh)
    /\ writer' = "run"
    /\ reqs' = IF Head(sendCh) = "ReqWorkConn" /\ reqs < Unopened THEN reqs + 1 ELSE reqs
    /\ UNCHANGED <<sent, readCh, readClosed, sendClosed, starter, reader, manager, stoper,
                   stopping, pool, poolClosed, conn, users>>

(* writer: crypto.NewWriter fails, no message is taken.                     *)
WriterInitFails ==
    /\ writer = "start"
    /\ writer' = "done"
    /\ stopping' = TRUE
    /\ UNCHANGED <<sent, chans, starter, reader, manager, stoper, conns, users>>

(* writer: WriteMsg fails, or sendCh is closed and empty.  The deferred     *)
(* calls mark the writer done and start the shutdown of the control.        *)
WriterEnd ==
    /\ writer \in {"start", "run"}
    /\ IF sendCh # <<>> THEN sendCh' = Tail(sendCh)
                        ELSE sendClosed /\ UNCHANGED sendCh
    /\ writer' = "done"
    /\ stopping' = TRUE
    /\ UNCHANGED <<sent, readCh, readClosed, sendClosed, starter, reader, manager,
                   stoper, conns, users>>

ReaderRead(m) ==
    /\ reader = "read"
    /\ ConnOpen
    /\ sent < MaxMsgs
    /\ sent' = sent + 1
    /\ reader' = m
    /\ UNCHANGED <<chans, starter, writer, manager, stoper, stopping, conns, users>>

ReaderPut ==
    /\ reader \in Msg
    /\ ~readClosed
    /\ Len(readCh) < ReadCap
    /\ readCh' = Append(readCh, reader)
    /\ reader' = "read"
    /\ UNCHANGED <<sent, readClosed, sendCh, sendClosed, starter, writer, manager,
                   stoper, stopping, conns, users>>

(* reader: EOF or a read error, also after stoper has closed conn.          *)
ReaderEnd ==
    /\ reader = "read"
    /\ reader' = "done"
    /\ stopping' = TRUE
    /\ UNCHANGED <<sent, chans, starter, writer, manager, stoper, conns, users>>

-----------------------------------------------------------------------------
(* manager: one message of readCh.  NewProxy and Ping are answered;         *)
(* RegisterProxy and CloseProxy are in ProxyRegistry.                       *)
ManagerTake ==
    /\ manager = "select"
    /\ readCh # <<>>
    /\ readCh' = Tail(readCh)
    /\ manager' = CASE Head(readCh) \in {"NewProxy", "Ping"} -> "reply"
                    [] Head(readCh) = "InvalidPing" -> "last"
                    [] OTHER -> "select"
    /\ UNCHANGED <<sent, readClosed, sendCh, sendClosed, starter, writer, reader,
                   stoper, stopping, conns, users>>

ManagerReply ==
    /\ manager = "reply"
    /\ Send("Resp")
    /\ manager' = "select"
    /\ UNCHANGED <<sent, readCh, readClosed, sendClosed, starter, writer, reader,
                   stoper, stopping, conns, users>>

(* manager returns: after the Pong with the error, or because readCh is     *)
(* closed and empty.                                                        *)
ManagerEnd ==
    /\ \/ manager = "last" /\ Send("Resp")
       \/ manager = "select" /\ readClosed /\ readCh = <<>> /\ UNCHANGED sendCh
    /\ manager' = "done"
    /\ stopping' = TRUE
    /\ UNCHANGED <<sent, readCh, readClosed, sendClosed, starter, writer, reader,
                   stoper, conns, users>>

(* manager returns at a tick of heartbeatCh: no Ping for heartbeat_timeout. *)
HeartbeatTimeout ==
    /\ HeartbeatOn
    /\ manager = "select"
    /\ manager' = "done"
    /\ stopping' = TRUE
    /\ UNCHANGED <<sent, chans, starter, writer, reader, stoper, conns, users>>

(* Control.Replaced: a new login with the same run id.                      *)
Replaced ==
    /\ ~stopping
    /\ stopping' = TRUE
    /\ UNCHANGED <<sent, chans, starter, writer, reader, manager, stoper, conns, users>>

-----------------------------------------------------------------------------
StoperCloseConn ==
    /\ stoper = "start" /\ stopping
    /\ stoper' = "reader"
    /\ UNCHANGED <<sent, chans, starter, writer, reader, manager, stopping, conns, users>>

(* Mutant of StoperCloseReadCh: no wait for the reader.                   *)
StoperCloseReadChEarly ==
    /\ stoper = "reader"
    /\ readClosed' = TRUE
    /\ stoper' = "manager"
    /\ UNCHANGED <<sent, readCh, sendCh, sendClosed, starter, writer, reader,
                   manager, stopping, conns, users>>

StoperCloseReadCh ==
    /\ stoper = "reader" /\ reader = "done"
    /\ readClosed' = TRUE
    /\ stoper' = "manager"
    /\ UNCHANGED <<sent, readCh, sendCh, sendClosed, starter, writer, reader,
                   manager, stopping, conns, users>>

(* Mutant of StoperCloseSendCh: sendCh is not closed.                     *)
StoperCloseSendChNever ==
    /\ stoper = "manager" /\ manager = "done"
    /\ stoper' = "writer"
    /\ UNCHANGED <<sent, readCh, readClosed, sendCh, sendClosed, starter, writer, reader,
                   manager, stopping, conns, users>>

StoperCloseSendCh ==
    /\ stoper = "manager" /\ manager = "done"
    /\ sendClosed' = TRUE
    /\ stoper' = "writer"
    /\ UNCHANGED <<sent, readCh, readClosed, sendCh, starter, writer, reader,
                   manager, stopping, conns, users>>

(* Mutant of StoperClosePool: workConnCh is not closed.                   *)
StoperOpenPool ==
    /\ stoper = "writer" /\ writer = "done"
    /\ stoper' = "drain"
    /\ UNCHANGED <<sent, chans, starter, writer, reader, manager, stopping, conns, users>>

StoperClosePool ==
    /\ stoper = "writer" /\ writer = "done"
    /\ poolClosed' = TRUE
    /\ stoper' = "drain"
    /\ UNCHANGED <<sent, chans, starter, writer, reader, manager, stopping, pool,
                   conn, reqs, users>>

(* One round of the range over the closed workConnCh, which users still     *)
(* waiting in GetWorkConn may also receive from.                            *)
StoperDrain ==
    /\ stoper = "drain"
    /\ pool # <<>>
    /\ pool' = Tail(pool)
    /\ conn' = [conn EXCEPT ![Head(pool)] = "closed"]
    /\ UNCHANGED <<sent, chans, procs, poolClosed, reqs, users>>

(* The proxies are closed (ProxyRegistry) and allShutdown is done.          *)
StoperDone ==
    /\ stoper = "drain"
    /\ pool = <<>>
    /\ stoper' = "done"
    /\ UNCHANGED <<sent, chans, starter, writer, reader, manager, stopping, conns, users>>

(* The goroutine of RegisterControl: WaitClosed, ControlManager.Del.        *)
DelControl ==
    /\ stoper = "done"
    /\ stoper' = "gone"
    /\ UNCHANGED <<sent, chans, starter, writer, reader, manager, stopping, conns, users>>

-----------------------------------------------------------------------------
(* The client answers a ReqWorkConn with a new work connection, and         *)
(* Service.RegisterWorkConn looks up the control by its run id.             *)
WorkConnArrives(w) ==
    /\ conn[w] = "none"
    /\ reqs > 0
    /\ reqs' = reqs - 1
    /\ conn' = [conn EXCEPT ![w] = IF stoper = "gone" THEN "closed" ELSE "found"]
    /\ UNCHANGED <<sent, chans, procs, pool, poolClosed, users>>

(* The client cannot connect, or the request is lost with its connection.   *)
RequestUnanswered ==
    /\ reqs > 0
    /\ reqs' = reqs - 1
    /\ UNCHANGED <<sent, chans, procs, pool, poolClosed, conn, users>>

(* A plugin or the verifier refuses the connection: handleConnection closes it. *)
WorkConnInvalid(w) ==
    /\ conn[w] = "found"
    /\ conn' = [conn EXCEPT ![w] = "closed"]
    /\ UNCHANGED <<sent, chans, procs, pool, poolClosed, reqs, users>>

(* Control.RegisterWorkConn: into the pool if it has room, else an error    *)
(* and the connection is closed.  On a closed channel the send panics, the  *)
(* deferred recover returns no error and nobody closes the connection.      *)
RegisterWorkConn(w) ==
    /\ conn[w] = "found"
    /\ LET room == ~poolClosed /\ Len(pool) < PoolCap
       IN  /\ pool' = IF room THEN Append(pool, w) ELSE pool
           /\ conn' = [conn EXCEPT ![w] = IF room THEN "pooled"
                                          ELSE IF poolClosed THEN "lost" ELSE "closed"]
    /\ UNCHANGED <<sent, chans, procs, poolClosed, reqs, users>>

-----------------------------------------------------------------------------
Goto(u, s) == user' = [user EXCEPT ![u] = s]

(* The handler has an answer; its loop variable is gone.                    *)
Answer(u, s) == Goto(u, s) /\ tries' = [tries EXCEPT ![u] = 0]

UserArrives(u) ==
    /\ user[u] = "idle"
    /\ starter = Nil
    /\ stoper \notin {"done", "gone"}
    /\ Goto(u, "get")
    /\ UNCHANGED <<sent, chans, procs, conns, held, tries>>

(* GetWorkConn receives from workConnCh, at once or after its request.      *)
GetTake(u) ==
    /\ user[u] \in {"get", "wait"}
    /\ pool # <<>>
    /\ held' = [held EXCEPT ![u] = Head(pool)]
    /\ conn' = [conn EXCEPT ![Head(pool)] = "taken"]
    /\ pool' = Tail(pool)
    /\ Goto(u, "replace")
    /\ UNCHANGED <<sent, chans, procs, poolClosed, reqs, tries>>

(* workConnCh is closed and empty: ErrCtlClosed.                            *)
GetClosed(u) ==
    /\ user[u] \in {"get", "wait"}
    /\ poolClosed /\ pool = <<>>
    /\ Answer(u, "failed")
    /\ UNCHANGED <<sent, chans, procs, conns, held>>

GetEmpty(u) ==
    /\ user[u] = "get"
    /\ ~poolClosed /\ pool = <<>>
    /\ Goto(u, "request")
    /\ UNCHANGED <<sent, chans, procs, conns, held, tries>>

GetRequest(u) ==
    /\ user[u] = "request"
    /\ \/ Send("ReqWorkConn") /\ Goto(u, "wait") /\ UNCHANGED tries
       \/ sendClosed /\ Answer(u, "failed") /\ UNCHANGED sendCh
    /\ UNCHANGED <<sent, readCh, readClosed, sendClosed, procs, conns, held>>

(* Mutant of GetTimeout: only the end of the control ends the wait.       *)
GetNoTimeout(u) ==
    /\ user[u] = "wait"
    /\ stopping
    /\ Answer(u, "failed")
    /\ UNCHANGED <<sent, chans, procs, conns, held>>

(* user_conn_timeout.                                                       *)
GetTimeout(u) ==
    /\ user[u] = "wait"
    /\ Answer(u, "failed")
    /\ UNCHANGED <<sent, chans, procs, conns, held>>

(* "When we get a work connection from pool, replace it with a new one."    *)
GetReplace(u) ==
    /\ user[u] = "replace"
    /\ \/ Send("ReqWorkConn")
       \/ sendClosed /\ UNCHANGED sendCh
    /\ Goto(u, "write")
    /\ UNCHANGED <<sent, readCh, readClosed, sendClosed, procs, conns, held, tries>>

(* GetWorkConnFromPool sends StartWorkConn over the connection it took.     *)
WriteStart(u) ==
    /\ user[u] = "write"
    /\ Answer(u, "ok")
    /\ UNCHANGED <<sent, chans, procs, conns, held>>

(* Mutant of WriteStartFails: the connection goes back to the pool.         *)
WriteStartFailsPooled(u) ==
    /\ user[u] = "write"
    /\ pool' = IF ~poolClosed /\ Len(pool) < PoolCap THEN Append(pool, held[u]) ELSE pool
    /\ conn' = [conn EXCEPT ![held[u]] = IF pool' # pool THEN "pooled" ELSE "closed"]
    /\ IF tries[u] < PoolCount
       THEN /\ Goto(u, "get")
            /\ tries' = [tries EXCEPT ![u] = @ + 1]
            /\ held' = [held EXCEPT ![u] = Nil]
       ELSE Answer(u, "ok") /\ UNCHANGED held
    /\ UNCHANGED <<sent, chans, procs, poolClosed, reqs>>

(* The write fails: the connection is closed and the next round begins.     *)
(* The error is a variable of the loop body, so after PoolCount + 1 rounds  *)
(* the function returns the closed connection and no error.                 *)
WriteStartFails(u) ==
    /\ user[u] = "write"
    /\ conn' = [conn EXCEPT ![held[u]] = "closed"]
    /\ IF tries[u] < PoolCount
       THEN /\ Goto(u, "get")
            /\ tries' = [tries EXCEPT ![u] = @ + 1]
            /\ held' = [held EXCEPT ![u] = Nil]
       ELSE Answer(u, "ok") /\ UNCHANGED held
    /\ UNCHANGED <<sent, chans, procs, pool, poolClosed, reqs>>

-----------------------------------------------------------------------------
Starter == StartPool \/ StartRest
Writer == WriterSend \/ WriterEnd
Manager == ManagerTake \/ ManagerReply \/ ManagerEnd
Stoper ==
    \/ StoperCloseConn
    \/ StoperCloseReadCh
    \/ StoperCloseSendCh
    \/ StoperClosePool
    \/ StoperDrain
    \/ StoperDone
    \/ DelControl
Handler(u) ==
    \/ GetTake(u)
    \/ GetClosed(u)
    \/ GetEmpty(u)
    \/ GetRequest(u)
    \/ GetTimeout(u)
    \/ GetReplace(u)
    \/ WriteStart(u)
    \/ WriteStartFails(u)

Next ==
    \/ Starter
    \/ Writer
    \/ WriterInitFails
    \/ \E m \in Msg : ReaderRead(m)
    \/ ReaderPut
    \/ ReaderEnd
    \/ Manager
    \/ HeartbeatTimeout
    \/ Replaced
    \/ Stoper
    \/ \E w \in WorkConn : \/ WorkConnArrives(w)
                           \/ WorkConnInvalid(w)
                           \/ RegisterWorkConn(w)
    \/ RequestUnanswered
    \/ \E u \in User : UserArrives(u) \/ Handler(u)

Spec == Init /\ [][Next]_vars

(* Goroutines that can run do run, a read on a closed connection returns,   *)
(* and GetWorkConn has a timer.  Nothing is assumed of the client.          *)
Fairness ==
    /\ WF_vars(Starter)
    /\ WF_vars(Writer)
    /\ WF_vars(ReaderPut)
    /\ WF_vars(ReaderEnd /\ ~ConnOpen)
    /\ WF_vars(Manager)
    /\ WF_vars(Stoper)
    /\ \A w \in WorkConn : WF_vars(RegisterWorkConn(w))
    /\ \A u \in User : WF_vars(Handler(u))

FairSpec == Spec /\ Fairness

-----------------------------------------------------------------------------
(* The reader and the manager, which do not recover into an error path,     *)
(* never meet a channel that stoper has closed: stoper closes readCh after  *)
(* the reader has ended and sendCh after the manager has.                   *)
NoSendOnClosed ==
    /\ reader \in Msg => ~readClosed
    /\ manager \in {"reply", "last"} => ~sendClosed

(* When the control reports its end, no work connection is left in its pool *)
(* for ever: what RegisterWorkConn put there is taken or closed.            *)
PoolEmptyAtEnd ==
    stoper \in {"done", "gone"} => \A w \in WorkConn : conn[w] # "pooled"

(* A work connection is given to one user only, and nobody closes it under  *)
(* a handler that is about to use it: the receives of several handlers, the *)
(* rounds after failed writes and the range of stoper over the closed       *)
(* workConnCh share the pool.                                               *)
ConnExclusive ==
    /\ \A u, v \in User : u # v /\ held[u] # Nil => held[u] # held[v]
    /\ \A u \in User : user[u] \in {"replace", "write"} =>
          held[u] \in WorkConn /\ conn[held[u]] = "taken"

(* Once the shutdown of a control has started, it ends, so that the next    *)
(* login with the same run id can start.                                    *)
ShutdownEnds == stopping ~> stoper = "gone"

(* Every handler of a user connection gets an answer.                       *)
UserAnswered == \A u \in User : user[u] = "get" ~> user[u] \in {"ok", "failed"}
=============================================================================
