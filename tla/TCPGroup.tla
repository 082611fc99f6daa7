------------------------------ MODULE TCPGroup ------------------------------
(***************************************************************************)
(* The TCP load balancing groups of frps (server/group/tcp.go): proxies of *)
(* one group share a port, and each user connection goes to one of them.   *)
(* The controller's lock guards the map, a group's own lock its members;   *)
(* Listen gives up the first before it takes the second.  The port manager *)
(* has a lock of its own: between Acquire and net.Listen, and between the  *)
(* close of the listener and Release, other groups may ask it for ports.   *)
(***************************************************************************)
EXTENDS Naturals

CONSTANTS
    Proxy,      \* tcp proxies with a group
    Group,      \* names of groups
    Key,        \* group keys
    Port,       \* ports of the port manager, numbers above 0
    Conf,       \* what each proxy asks for
    Name,       \* names of proxies
    nameOf,     \* proxies of one name: its runs in several sessions or confs
    Object,     \* bound: TCPGroup objects alive at one time
    Nil

ASSUME GroupAssumption ==
    /\ Port \subseteq Nat \ {0}
    /\ Conf \in [Proxy -> [group : Group, key : Key, port : Port \cup {0}]]
    /\ nameOf \in [Proxy -> Name]
    /\ Nil \notin Object \cup Port \cup Proxy

VARIABLES
    groups,     \* TCPGroupCtl.groups
    mu,         \* of each TCPGroup: the proxy that keeps its lock over a call
    lns,        \* its members
    param,      \* group, key and port, those of its first member
    realPort,   \* the port Acquire has returned for it
    chOpen,     \* acceptCh, which is closed once and stays so
    worker,     \* accepts from tcpLn, or sends what it has accepted
    pc, at,     \* where the Listen or Close of a proxy is, and its group
    loop,       \* proxies whose accept loop runs
    used,       \* Manager.usedPorts of the port manager
    reserved,   \* Manager.reservedPorts: the port each name had last
    bound,      \* ports a listener of a group is bound to
    leaked,     \* history: ports whose release has been skipped
    twice,      \* history: ports handed out while a group had them
    late        \* history: a proxy has joined a group after it was removed

object == <<mu, lns, param, realPort, chOpen, worker>>
ports == <<used, reserved, bound, leaked, twice>>
vars == <<groups, object, pc, at, loop, ports, late>>

(* The group has a port: it listens, or is about to, or has just stopped.   *)
Holds(o) == lns[o] # {} \/ mu[o] # Nil

TypeOK ==
    /\ groups \in [Group -> Object \cup {Nil}]
    /\ mu \in [Object -> Proxy \cup {Nil}]
    /\ lns \in [Object -> SUBSET Proxy]
    /\ param \in [Object -> [group : Group, key : Key, port : Port \cup {0}] \cup {Nil}]
    /\ realPort \in [Object -> Port \cup {Nil}]
    /\ chOpen \in [Object -> BOOLEAN]
    /\ worker \in [Object -> {"none", "accept", "send"}]
    /\ pc \in [Proxy -> {"idle", "found", "acquired", "member", "closing", "releasing"}]
    /\ at \in [Proxy -> Object \cup {Nil}]
    /\ loop \subseteq Proxy
    /\ reserved \in [Name -> Port \cup {Nil}]
    /\ used \subseteq Port /\ bound \subseteq Port
    /\ leaked \subseteq Port /\ twice \subseteq Port
    /\ late \in BOOLEAN
    /\ \A x \in Proxy : at[x] = Nil <=> pc[x] = "idle"
    /\ \A o \in Object : \A x \in lns[o] : at[x] = o /\ pc[x] \in {"member", "closing"}
    /\ \A x \in loop : pc[x] \in {"member", "closing"}
    /\ \A x \in Proxy : pc[x] \in {"acquired", "releasing"} => mu[at[x]] = x
    /\ \A o \in Object : mu[o] # Nil => /\ at[mu[o]] = o /\ lns[o] = {}
                                        /\ pc[mu[o]] \in {"acquired", "releasing"}
    /\ \A o \in Object : Holds(o) => realPort[o] \in Port

Init ==
    /\ groups = [g \in Group |-> Nil]
    /\ mu = [o \in Object |-> Nil]
    /\ lns = [o \in Object |-> {}]
    /\ param = [o \in Object |-> Nil]
    /\ realPort = [o \in Object |-> Nil]
    /\ chOpen = [o \in Object |-> TRUE]
    /\ worker = [o \in Object |-> "none"]
    /\ pc = [x \in Proxy |-> "idle"]
    /\ at = [x \in Proxy |-> Nil]
    /\ reserved = [n \in Name |-> Nil]
    /\ loop = {} /\ used = {} /\ bound = {} /\ leaked = {} /\ twice = {}
    /\ late = FALSE

InMap(o) == \E g \in Group : groups[g] = o

(* No one refers to o: its place can hold the next object.                  *)
Garbage(o) == ~InMap(o) /\ \A x \in Proxy : at[x] # o

-----------------------------------------------------------------------------
NewTCPGroup(o) ==
    /\ mu' = [mu EXCEPT ![o] = Nil]
    /\ lns' = [lns EXCEPT ![o] = {}]
    /\ param' = [param EXCEPT ![o] = Nil]
    /\ realPort' = [realPort EXCEPT ![o] = Nil]
    /\ chOpen' = [chOpen EXCEPT ![o] = TRUE]
    /\ worker' = [worker EXCEPT ![o] = "none"]

(* TCPGroupCtl.Listen, under the controller's lock.                         *)
Lookup(x) ==
    /\ pc[x] = "idle"
    /\ pc' = [pc EXCEPT ![x] = "found"]
    /\ \/ /\ groups[Conf[x].group] # Nil
          /\ at' = [at EXCEPT ![x] = groups[Conf[x].group]]
          /\ UNCHANGED <<groups, object>>
       \/ /\ groups[Conf[x].group] = Nil
          /\ \E o \in Object :
                /\ Garbage(o)
                /\ at' = [at EXCEPT ![x] = o]
                /\ groups' = [groups EXCEPT ![Conf[x].group] = o]
                /\ NewTCPGroup(o)
    /\ UNCHANGED <<loop, ports, late>>

GiveUp(x) ==
    /\ pc' = [pc EXCEPT ![x] = "idle"]
    /\ at' = [at EXCEPT ![x] = Nil]

(* Ports Manager.Acquire may return: the one asked for, or for 0 any free   *)
(* one, if nothing is bound to it; for 0 first the one reserved under the   *)
(* name, and that also if it is in use.  (A reservation that has expired    *)
(* counts as a port another process is bound to.)                           *)
Acquirable(x) ==
    {p \in Port \ bound :
        \/ p \notin used /\ Conf[x].port \in {0, p}
        \/ Conf[x].port = 0 /\ reserved[nameOf[x]] = p}

(* TCPGroup.Listen of the first member calls Acquire, under the group's     *)
(* lock, ...                                                                *)
AcquirePort(x) ==
    /\ pc[x] = "found"
    /\ lns[at[x]] = {} /\ mu[at[x]] = Nil
    /\ \E p \in Acquirable(x) :
          /\ used' = used \cup {p}
          /\ reserved' = [reserved EXCEPT ![nameOf[x]] = p]
          /\ realPort' = [realPort EXCEPT ![at[x]] = p]
          /\ leaked' = leaked \ {p}
          /\ twice' = twice \cup {q \in {p} : \E o \in Object : Holds(o) /\ realPort[o] = q}
    /\ mu' = [mu EXCEPT ![at[x]] = x]
    /\ pc' = [pc EXCEPT ![x] = "acquired"]
    /\ UNCHANGED <<groups, lns, param, chOpen, worker, at, loop, bound, late>>

(* ... which may fail although a port is free: another process may be bound *)
(* to it, and for 0 only five are tried.                                    *)
AcquireFails(x) ==
    /\ pc[x] = "found"
    /\ lns[at[x]] = {} /\ mu[at[x]] = Nil
    /\ GiveUp(x)
    /\ UNCHANGED <<groups, object, loop, ports, late>>

(* net.Listen on the port asked for, not the one acquired: for 0 the system *)
(* chooses.  acceptCh is made only if it is nil, which it is not, even in a *)
(* group whose last member has closed it.                                   *)
ListenFirst(x) ==
    /\ pc[x] = "acquired"
    /\ Conf[x].port \notin bound
    /\ bound' = bound \cup ({Conf[x].port} \ {0})
    /\ mu' = [mu EXCEPT ![at[x]] = Nil]
    /\ lns' = [lns EXCEPT ![at[x]] = {x}]
    /\ param' = [param EXCEPT ![at[x]] = Conf[x]]
    /\ worker' = [worker EXCEPT ![at[x]] = "accept"]
    /\ pc' = [pc EXCEPT ![x] = "member"]
    /\ loop' = loop \cup {x}
    /\ late' = (late \/ groups[Conf[x].group] # at[x])
    /\ UNCHANGED <<groups, realPort, at, chOpen, used, reserved, leaked, twice>>

(* net.Listen fails: the port stays acquired, the empty group in the map.   *)
ListenFails(x) ==
    /\ pc[x] = "acquired"
    /\ leaked' = leaked \cup {realPort[at[x]]}
    /\ mu' = [mu EXCEPT ![at[x]] = Nil]
    /\ GiveUp(x)
    /\ UNCHANGED <<groups, lns, param, realPort, chOpen, worker, loop,
                   used, reserved, bound, twice, late>>

(* Group, port and key of a further proxy must be those of the first.       *)
Agrees(x, o) == Conf[x] = param[o]

(* TCPGroup.Listen of a further member.                                     *)
ListenNext(x) ==
    /\ pc[x] = "found"
    /\ lns[at[x]] # {}
    /\ Agrees(x, at[x])
    /\ lns' = [lns EXCEPT ![at[x]] = @ \cup {x}]
    /\ pc' = [pc EXCEPT ![x] = "member"]
    /\ loop' = loop \cup {x}
    /\ late' = (late \/ groups[Conf[x].group] # at[x])
    /\ UNCHANGED <<groups, mu, param, realPort, chOpen, worker, at, ports>>

(* ErrGroupParamsInvalid, ErrGroupDifferentPort, ErrGroupAuthFailed.        *)
ListenRefused(x) ==
    /\ pc[x] = "found"
    /\ lns[at[x]] # {}
    /\ ~Agrees(x, at[x])
    /\ GiveUp(x)
    /\ UNCHANGED <<groups, object, loop, ports, late>>

-----------------------------------------------------------------------------
(* TCPGroup.worker: Accept on the real listener.                            *)
WorkerAccept(o) ==
    /\ worker[o] = "accept"
    /\ worker' = [worker EXCEPT ![o] = "send"]
    /\ UNCHANGED <<groups, mu, lns, param, realPort, chOpen, pc, at, loop, ports, late>>

(* The connection is sent to the accept loop of some member, which may have *)
(* closed its closeCh already: select chooses among what is ready.          *)
AcceptConn(x) ==
    /\ x \in loop
    /\ worker[at[x]] = "send" /\ chOpen[at[x]]
    /\ worker' = [worker EXCEPT ![at[x]] = "accept"]
    /\ UNCHANGED <<groups, mu, lns, param, realPort, chOpen, pc, at, loop, ports, late>>

(* The channel is closed: PanicToError, and the worker returns.             *)
WorkerPanics(o) ==
    /\ worker[o] = "send" /\ ~chOpen[o]
    /\ worker' = [worker EXCEPT ![o] = "none"]
    /\ UNCHANGED <<groups, mu, lns, param, realPort, chOpen, pc, at, loop, ports, late>>

(* TCPGroupListener.Accept fails: closeCh or acceptCh is closed.            *)
AcceptEnds(x) ==
    /\ x \in loop
    /\ pc[x] = "closing" \/ ~chOpen[at[x]]
    /\ loop' = loop \ {x}
    /\ UNCHANGED <<groups, object, pc, at, ports, late>>

-----------------------------------------------------------------------------
(* TCPGroupListener.Close closes closeCh ...                                *)
Close(x) ==
    /\ pc[x] = "member"
    /\ pc' = [pc EXCEPT ![x] = "closing"]
    /\ UNCHANGED <<groups, object, at, loop, ports, late>>

(* ... and takes the listener out of a group that has others.               *)
CloseListener(x) ==
    /\ pc[x] = "closing"
    /\ lns[at[x]] # {x}
    /\ lns' = [lns EXCEPT ![at[x]] = @ \ {x}]
    /\ GiveUp(x)
    /\ loop' = loop \ {x}
    /\ UNCHANGED <<groups, mu, param, realPort, chOpen, worker, ports, late>>

(* Mutant of CloseLast: the channel stays open.                             *)
CloseLastChOpen(x) ==
    /\ pc[x] = "closing"
    /\ lns[at[x]] = {x} /\ chOpen[at[x]]
    /\ mu' = [mu EXCEPT ![at[x]] = x]
    /\ lns' = [lns EXCEPT ![at[x]] = {}]
    /\ UNCHANGED <<chOpen, worker>>
    /\ bound' = bound \ {param[at[x]].port}
    /\ pc' = [pc EXCEPT ![x] = "releasing"]
    /\ loop' = loop \ {x}
    /\ UNCHANGED <<groups, param, realPort, at, used, reserved, leaked, twice, late>>

(* CloseListener of the last member: channel and listener are closed, which *)
(* ends the worker; ...                                                     *)
CloseLast(x) ==
    /\ pc[x] = "closing"
    /\ lns[at[x]] = {x} /\ chOpen[at[x]]
    /\ mu' = [mu EXCEPT ![at[x]] = x]
    /\ lns' = [lns EXCEPT ![at[x]] = {}]
    /\ chOpen' = [chOpen EXCEPT ![at[x]] = FALSE]
    /\ worker' = [worker EXCEPT ![at[x]] = "none"]
    /\ bound' = bound \ {param[at[x]].port}
    /\ pc' = [pc EXCEPT ![x] = "releasing"]
    /\ loop' = loop \ {x}
    /\ UNCHANGED <<groups, param, realPort, at, used, reserved, leaked, twice, late>>

(* Mutant of CloseReleases: the group stays in the map.                     *)
CloseKeepsGroup(x) ==
    /\ pc[x] = "releasing"
    /\ used' = used \ {realPort[at[x]]}
    /\ UNCHANGED groups
    /\ mu' = [mu EXCEPT ![at[x]] = Nil]
    /\ GiveUp(x)
    /\ UNCHANGED <<lns, param, realPort, chOpen, worker, loop,
                   reserved, bound, leaked, twice, late>>

(* Mutant of CloseReleases: the port is not released.                       *)
CloseNoRelease(x) ==
    /\ pc[x] = "releasing"
    /\ UNCHANGED used
    /\ groups' = [groups EXCEPT ![param[at[x]].group] = Nil]
    /\ mu' = [mu EXCEPT ![at[x]] = Nil]
    /\ GiveUp(x)
    /\ UNCHANGED <<lns, param, realPort, chOpen, worker, loop,
                   reserved, bound, leaked, twice, late>>

(* ... the port is released, whoever uses it, and the map forgets the group *)
(* of that name, whichever object it holds.                                 *)
CloseReleases(x) ==
    /\ pc[x] = "releasing"
    /\ used' = used \ {realPort[at[x]]}
    /\ groups' = [groups EXCEPT ![param[at[x]].group] = Nil]
    /\ mu' = [mu EXCEPT ![at[x]] = Nil]
    /\ GiveUp(x)
    /\ UNCHANGED <<lns, param, realPort, chOpen, worker, loop,
                   reserved, bound, leaked, twice, late>>

(* A channel that was closed already: close panics before the listener is   *)
(* closed and the port released, and the goroutine of the control recovers. *)
CloseLastPanics(x) ==
    /\ pc[x] = "closing"
    /\ lns[at[x]] = {x} /\ ~chOpen[at[x]]
    /\ lns' = [lns EXCEPT ![at[x]] = {}]
    /\ leaked' = leaked \cup {realPort[at[x]]}
    /\ GiveUp(x)
    /\ loop' = loop \ {x}
    /\ UNCHANGED <<groups, mu, param, realPort, chOpen, worker, used, reserved, bound, twice, late>>

-----------------------------------------------------------------------------
CloseLn(x) == CloseListener(x) \/ CloseLast(x) \/ CloseReleases(x) \/ CloseLastPanics(x)

Next ==
    \/ \E x \in Proxy :
          \/ Lookup(x) \/ AcquirePort(x) \/ AcquireFails(x)
          \/ ListenFirst(x) \/ ListenFails(x)
          \/ ListenNext(x) \/ ListenRefused(x)
          \/ AcceptConn(x) \/ AcceptEnds(x) \/ Close(x) \/ CloseLn(x)
    \/ \E o \in Object : WorkerAccept(o) \/ WorkerPanics(o)

Spec == Init /\ [][Next]_vars

Deliver(o) == \E x \in Proxy : at[x] = o /\ AcceptConn(x)

(* Goroutines that can go on do: a closing proxy waits for nothing but the  *)
(* group's lock.  A sender waits in the queue of its channel, so that a     *)
(* loop which comes to receive finds it, however often members change.      *)
Fairness ==
    /\ \A x \in Proxy : WF_vars(CloseLn(x)) /\ WF_vars(AcceptEnds(x))
    /\ \A o \in Object : SF_vars(Deliver(o)) /\ WF_vars(WorkerPanics(o))

FairSpec == Spec /\ Fairness

-----------------------------------------------------------------------------
Live(o) == lns[o] # {}

(* Whatever the interleaving of Listen and CloseListener, a port is in use  *)
(* just as long as one group has it or its release has been skipped (after  *)
(* net.Listen failed or close panicked), and no two groups have it.  This   *)
(* is so until Acquire hands it out, to a proxy that asks for any port, as  *)
(* the one reserved under its name while a group still has it: as groups    *)
(* that ask for any port are not bound to the one they acquire, the probe   *)
(* of Acquire takes theirs for unused.                                      *)
PortsAccounted ==
    \A p \in Port \ twice :
        LET holders == {o \in Object : Holds(o) /\ realPort[o] = p}
        IN  /\ p \in used <=> p \in leaked \/ holders # {}
            /\ p \in leaked => holders = {}
            /\ \A o, q \in holders : o = q

(* The members of a group have all asked for its name and port with its     *)
(* key, also when the group was emptied and refilled while a proxy waited   *)
(* to join.                                                                 *)
MembersAgree ==
    \A o \in Object : \A x, y \in lns[o] : Conf[x] = Conf[y]

(* Unless a proxy has joined a group that was removed after it had found    *)
(* it, a group with members is the one the map has under its name, and its  *)
(* channel is open: its members get the group's connections.                *)
MembersReachable ==
    ~late => \A o \in Object : Live(o) => groups[param[o].group] = o /\ chOpen[o]

(* A connection the worker has accepted does not hang in the group: a       *)
(* member takes it, or the group is closed and the worker ends, even if     *)
(* members leave between Accept and send.                                   *)
SentConnTaken ==
    \A o \in Object : worker[o] = "send" ~> worker[o] # "send"
=============================================================================
