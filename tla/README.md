# frp in TLA+

A verification project for frp 0.43.0: the server `frps`, which owns public
ports, names and routes, and the client `frpc`, which registers local services
with it. The modules model the code under `src/`, TLC checks them on small
instances, and TLAPS proves the most important invariants for every value of
the constants.

## The system

A client logs in over a control connection (`client/service.go`,
`server/service.go`). The server keeps one `Control` per login, with four
goroutines. The client sends `NewProxy` for every configured proxy; the server
takes a port, a route or a visitor listener for it and answers
`NewProxyResp`. When a user connects to a proxy, the server takes a *work
connection* of that client from a pool, asks for another one (`ReqWorkConn`)
and copies bytes between the two. Both programs serve a small web application:
the dashboard of `frps` (`web/frps`), which shows proxies, counters and traffic,
and the admin page of `frpc` (`web/frpc`), which shows, uploads and reloads the
configuration.

### Components, their state and what makes them correct

| Component | State | Operations | Correct when |
|---|---|---|---|
| Port manager (`server/ports`) | `freePorts`, `usedPorts`, `reservedPorts` | `Acquire`, `Release`, cleaner | a port has one holder; none is lost; reservations end |
| TCP and UDP proxies (`server/proxy`) | port, listener, closed flag | `Run`, `Close` | what `Run` takes, one `Close` or error path gives back |
| Sessions (`server/service.go`, `ControlManager`) | `ctlsByRunID` | `RegisterControl`, `Add`, `Del`, `Replaced` | one started session per run id; a login always starts |
| Registry (`proxy.Manager`, `RegisterProxy`, `CloseProxy`, `stoper`) | `pxys`, `ctl.proxies`, `portsUsedNum` | register, close, end of session | a name has one owner; quota counts; nothing is left behind |
| Name tables (`server/visitor`, `pkg/nathole`) | listeners, xtcp clients by name | `Listen`, `CloseListener`, `ListenClient`, `CloseClient` | the entry belongs to the registered proxy |
| Control goroutines (`server/control.go`) | `readCh`, `sendCh`, `workConnCh` | writer, reader, manager, stoper | no send on a closed channel; a stop always ends |
| Work connection pool | `workConnCh` | `RegisterWorkConn`, `GetWorkConn`, `GetWorkConnFromPool` | no connection is lost; every user is answered with a usable one |
| Client wrapper (`client/proxy`) | phase, health, messages | `checkWorker`, `SetRunningStatus`, `Reload`, `Stop` | client and server agree on what is published |
| Health monitor (`client/health`) | `statusOK`, `failedTimes` | checks, callbacks | notices a failing service, and its recovery |
| Groups (`server/group`) | members, shared listener | `Listen`, `CloseListener` | members share one port, the last one frees it |
| Virtual hosts (`pkg/util/vhost`, `pkg/util/tcpmux`) | route table, muxer listeners | `Add`, `Del`, `Get`, `handle` | the longest matching route, no leftovers |
| Client session (`client/control.go`, `client/service.go`) | control, configuration | login, reconnect, reload | one live control, with the latest configuration |
| Metrics (`pkg/metrics/mem`, `pkg/util/metric`) | counters by type, statistics by name, counts by day | `NewProxy`, `CloseProxy`, `clearUselessInfo`, `Inc`, `rotate` | counters follow the registry; a count belongs to its day |
| Dashboard (`server/dashboard_api.go`, `web/frps`) | mounted page, requests in flight, rows, charts | handlers, `fetchData`, drawing | a page shows what belongs to it, whatever answer comes late |
| Admin API and page (`client/admin_api.go`, `web/frpc`) | configuration file, running configuration, text area, uploads | get, put, reload, status, `uploadConfig` | the token stays in the file; what runs is what the file says; the user learns the outcome |
| Client visitors, NAT hole sessions, plugins, UDP forwarding | see `PROJECT.json` | | |

Components interact through shared tables under their own mutexes (the port
manager, `proxy.Manager`, the visitor manager and `nathole.Controller` are
shared by all sessions), through channels inside a session, and through the
control connection, which keeps messages in order but says nothing about when
they arrive.

### What is hard

Every entry is in `PROJECT.json` under `hazards` with its line.

- *Two steps where one was meant.* `Acquire` then `net.Listen`; `Close` of a
  listener then `Release`; `Run` then `pxyManager.Add`, undone by name; looking
  up a control then sending on its pool; looking up a group then joining it.
- *Ends that race.* `stoper` closes channels while goroutines send on them;
  a new login waits for the old session; UDP proxies close twice; a reload
  stops a wrapper that an answer is about to change.
- *Answers out of turn.* `NewProxyResp` carries a name and no request id, so an
  answer can meet a later request.
- *Full channels.* `readCh` and `sendCh` of the server hold ten messages, and
  goroutines block on them after their counterpart has gone.
- *Errors lost.* A shadowed `err`, a recovered panic without a result, a status
  code that nobody looks at.
- *Late answers in the browser.* A request outlives the page that sent it; an
  older answer comes after a newer one; midnight passes between answer and
  drawing.
- *Files without locks.* Two uploads read, empty and write the configuration
  file, and a reload reads it at any moment.

## Plan

1. **Server core**: `PortManager`, `ProxyRegistry` (with the abstract
   `NameLease`), `ControlSession`. Done.
2. **Registration from the client's side**: `ProxyWrapper`. Done.
3. **The web applications and what they show**: `Dashboard`, `TrafficHistory`,
   `AdminConfig`. Done.
4. **Groups**: `TCPGroup`. Done for TCP; the HTTP and tcpmux groups follow the
   same pattern, without a port of their own.
5. **Virtual hosts**: the route table as operators checked against a
   longest-prefix reference, and the muxer; `Run` of an HTTP proxy with several
   domains and locations, undone on an error.
6. **Client session**: goroutines of the client control, reconnect with
   back-off, reload racing with reconnect, visitors.
7. **Visitors and NAT holes**: `NewConn` and `CustomListener`, sessions with
   their notification and timeout; the plugin chain; UDP forwarding.
8. **Proofs**: every invariant, action property and refinement that a run
   checks is a theorem. Next: lemmas about the values the models compute
   (`Rotate`, `Bars`, `Rendered`) and a refinement for groups, where members
   share one port.

## Modules

`Nil` stands for a missing map entry. Each mutex-protected section is one
action; a blocking channel operation is a guard. Operators marked *Mutant of*
are deliberate mistakes used to show that a property can fail; no specification
uses them.

### PortManager

`ports.Manager` with the TCP and UDP proxies that use it. A proxy goes
`idle`, `acquired`, `listening`, `closing` and, for UDP, `reclose`: Go's
`UDPProxy.Close` runs a second time from the goroutine of `ForwardUserConn`.
`AcquireReserved`, `AcquireRandom`, `AcquireSpecified` are the three successful
branches of `Acquire`, `AcquireFails` its errors. `isPortAvailable` is false
while a proxy of frps listens on the port; a process outside frps may hold it
too, so `AcquireRandom` may pass over a reservation and `ListenFails` is always
possible. A `PortCtx` is a heap object shared by two maps; the model keeps the
name in `usedPorts` and the rest in `reservedPorts`, and `Release` marks the
latter only if it is that object. Groups are in `TCPGroup`. `PortLeaseSpec` is
`NameLease` once more, with proxies for sessions and ports for names: from
`Acquire` to `Release` the port is leased.

### NameLease and ProxyRegistry

`ProxyRegistry` has all sessions at once. A control goes `none`, `waiting`
(added, `RegisterControl` waits for the replaced one), `working`, `closing`
(stoper is past the end of the manager) and `exited`, or it ends up `stuck`:
`StoperBlocked` is a stoper that waits for ever for a reader blocked on a full
`readCh` or a manager blocked on a full `sendCh` (`ControlSession` has the
channels), `CloseProxyPanics` a manager that leaves `ctl.mu` locked when
`pxy.Close` panics, `StoperPanics` the same panic in stoper, which never comes
to `allShutdown.Done`. The panic is that of `TCPGroup.CloseLastPanics`. In the
deferred `Close` of a refused registration it changes no more than
`RegisterUndo` and the end of the manager (`Disconnect`) do: `ctl.mu` is free
and the charge is given back by the other deferred function. Inside a control one
goroutine at a time touches the proxies, so `job` holds the call under way;
different controls interleave between `Run`, `Add`, the deferred `Close` and
`Del`. `tcp` stands for the types with a port, `stcp` for those with a visitor
listener (stcp, sudp), `xtcp` for those in `nathole.Controller`. Ports
themselves are in `PortManager`, so a failing `Run` is a registration that does
not happen. `NameLease` is the promise: a name belongs to one session at a
time, and only that one gives it back; the `proxies` maps implement it.

### ControlSession

One control from inside: `Start` (which fills `sendCh` with `ReqWorkConn`
before the other goroutines run), writer, reader, manager, stoper step by step,
the pool and the handlers of user connections. `ReaderEnd`, `WriterEnd`,
`WriterInitFails` (the encrypting writer cannot be made) and `HeartbeatTimeout`
may happen at any time. `reqs` counts the requests for work connections the
client has read, up to the connections it can still open in the model
(`Unopened`), so nothing is lost by the bound. A send on a closed channel
panics; the senders that recover (`RegisterWorkConn`, `GetWorkConn`) take their error path.

### ProxyWrapper

One proxy name from the client's side. Reload makes a new `Wrapper` whenever
the configuration changes, so a wrapper stands for its configuration; several
of them share the name and the control connection. `checkWorker` reads the
health, then takes the lock: two actions. `SetRunningStatus` is apart from the
lookup in `StartProxy`. The server answers each `NewProxy`: `ok` only if it has
no proxy of that name for this client, `error` always possibly. The timers of
20 and 30 seconds are nondeterministic; `SlowServer` says whether an answer may
take longer than 20 seconds. `failedTimes` is counted up to the threshold,
since the code asks only whether it is reached. Not modelled: the end of the
session (see `ControlSession`) and `InWorkConn`, which reads the phase only.

### TCPGroup

`server/group/tcp.go` with the part of the port manager it uses: `used`,
`reserved`, and `bound`, the ports a listener of a group is bound to. A proxy
goes `idle`, `found` (it has the object that `TCPGroupCtl.Listen` took out of
the map and waits for the group's lock), `acquired` (it is between `Acquire`
and `net.Listen`, with the lock, `mu`), `member`, `closing` and `releasing`
(the listener is closed, `Release` is still to come). The port manager has a
lock of its own, so other groups come in between. `Acquirable` has all branches
of `Acquire`: the port asked for, any free port, and for port 0 first the one
reserved under the name of the proxy, which only has to probe as free. It may
fail whatever is free. A reservation that has expired behaves like one whose
probe fails and needs no state. `ListenFirst` binds the port asked for, not
`realPort`, as the code does, so a group that asked for 0 leaves its own port
probing as free: `twice` records the ports handed out while a group has them.
`loop` has the proxies whose accept loop still runs. Groups are heap objects,
`Object`, because a proxy can hold one that is no longer in the map; an object
nobody refers to is reused. `acceptCh` of a group is made once and never again,
so a proxy that joins after the last member has left gets a closed channel and
its own `Close` panics into the recover of the manager (`CloseLastPanics`).
`late` records that this has happened and `leaked` the ports that were never
released; they and `twice` are history only. `worker` is the goroutine that
accepts connections and sends them to a member.

### Dashboard

The path of a number from the registry to the screen. On the server: sessions
register and close proxies (`ProxyRegistry` has the detail) and tell the
metrics in a step of their own (`job`). The handler of a list page takes the
names of a type from the statistics (`GetProxiesByType`) and then asks the
registry for one after the other (`GetProxyStats`), so a row can have the conf
of a proxy of another type, or be left out when the conf cannot be converted.
`moved` is history: the name has been registered as another type while the
handler was between the two, or its owner had not reported it to the metrics
when it was listed. In the browser: the mounted page, requests in flight
and what the component shows. `own` says whether the component that asked is
still mounted; one that is gone changes only itself, except that charts are
drawn by element id. `BaseProxy` to `SudpProxy` are the row classes of
`utils/proxy.js` as the fields they set and read, `ProxiesTcp` to `ProxiesSudp`
the list pages as the type they ask for, their class and the fields their
template shows, `GetConfByType`, `ProxyStatsInfo` and `ServerInfoResp` the JSON
tags of the answers. Traffic numbers, time stamps and layout are left out.

### TrafficHistory

`StandardDateCounter` of one proxy and the bar chart of `Traffic.vue`. Time is a
date and the hour at which it began; `DayHours` says how long a day may be.
Zones that skip a date, or shift by less than an hour, are not modelled.
`short` is the last date that began less than 24 hours after the one before,
the day after a clock was put forward. `traffic` is what was really counted on
each day. An answer remembers day and truth of its moment; the chart takes its dates from the day it is drawn.

### AdminConfig

The admin page of frpc and the handlers of `client/admin_api.go`. A text is its
`[common]` row, its token row and the sections below; `Render` is the template
engine, `Valid` what `ParseClientConfig` accepts. An upload goes through the
box, the PUT and the reload; `srv` is its request in frpc, which goes on when
the connection to the browser fails. The PUT is cut where it reads, empties and
writes the file, the reload between parsing and applying. `overlap`,
`tokenless` and `settled` are history: two handlers in the middle of their work
at once; an upload without a `[common]` row, or one that could not be written;
a reload done and no upload begun since.

## Runs

Passing runs, with the bounds and why they suffice:

| Run | Instance | Shows |
|---|---|---|
| `ports_fixed` | TCP, 3 proxies, 2 names, 2 allowed ports, a third one asked for | a fixed port has one holder, an open reservation is in use, so the cleaner can forget every name in the end, and ports are leased as `NameLease` says: two proxies can fight for a port while a third one has the other |
| `ports_any` | UDP, closed twice, ports 0 and 1 asked for | no port leaks, in spite of failing listeners and random ports |
| `registry_safety` | 3 controls, 2 run ids, 2 names, 3 types, quota 1 | registry, visitor listeners, sessions, quota and the refinement of `NameLease`; three controls allow a replaced, a waiting and a foreign session at once, two names fill the quota and exceed it |
| `registry_live` | 3 controls, 2 run ids, 1 name | every login starts, even when it is itself replaced, unless a session of its run id is stuck; the second run id shows that a stuck client stops no other |
| `session` | 2 users, 2 work connections, a pool of 1, one message, room in `readCh` and `sendCh` | no send on a closed channel by goroutines without an error path, the pool is empty at the end, two users who wait at once never get the same work connection and none is closed under its handler, a stop ends, users are answered |
| `wrapper` | 2 configurations, the first with health checks, the second with a plugin, 2 messages on the way, resends | what frps has is wanted, once the messages have arrived; a stopped wrapper stays stopped; removal reaches frps, goroutines end, an unhealthy proxy stops running |
| `group` | 4 proxies, 2 group names, 1 port, 2 objects: two proxies agree, two ask for any port, one in each group | ports, reachable members and delivery; the second object is the one a late member still holds or the other group; with one port the groups compete for it and a reserved one is handed out twice |
| `dashboard` | 2 sessions, 1 name, types tcp, http and tcpmux (which no page lists), 2 requests in flight, all 7 pages, https disabled | counters, statistics, rows, ports, charts and the names of fields; two sessions suffice for a report that comes after the name has changed hands, two requests for answers out of order |
| `traffic` | 3 reserved days, days 0 to 4 of 23, 24 or 25 hours, 2 requests | counts and bars of the dates after the last short day and its successor belong to their day, also after more idle days than are reserved |
| `admin` | 2 uploads, 1 refresh in flight, a plain, a templated and a broken text | token, running configuration and messages; two uploads overlap in every way |

All type invariants are proved, and so are `Partition`, `CloseFollows` and
`MembersAgree`. The runs repeat only the type invariants of `Dashboard` and
`AdminConfig`, which relate page, requests and what is shown.

`group` with two ports and without liveness has 2.8 million states and passes as
well. In its instance all keys are equal: a refused key goes the way of a
refused port, and `MembersAgree` is proved for both.

Safety runs use symmetry over model values; runs with fairness do not.
Deadlock is checked except in `ControlSession` and `ProxyWrapper`, where a
session or a client without proxies comes to rest, and in `ProxyRegistry`,
where all sessions can wait behind stuck ones: that stop is real.
In `registry_safety`, `NoOrphanClient` is about the xtcp clients of
`nathole.Controller`.

Runs that TLC must refute, each with an entry under `findings`:

| Run | What happens |
|---|---|
| `session_deadlock` | reader blocked on a full `readCh`, stoper waits for it |
| `admin_success` | the page says Success after an upload or a reload that frpc refused |

`session` and `session_deadlock` differ in the capacity of `readCh` against what
the client sends (`MaxMsgs`): the capacity of ten in the code is a bound that a
busy client can exceed.

Variations of these instances show more of what the code does. They are not
kept as runs of their own:

- `ports_any` refutes `HeldExclusively`: `UDPProxy.Close` releases outside of its
  `isClosed` guard and runs twice (`udp.go:243`), so the second close can free
  the port that another proxy has acquired in between.
- A second client that registers an xtcp proxy under a name in use overwrites
  the entry in `nathole.Controller`, is refused by `proxy.Manager.Add`, and its
  deferred `Close` removes the entry: the first proxy stays registered and
  visitors are told that it does not exist (`nathole.go:59`).
- When `StartWorkConn` cannot be written in any round, `GetWorkConnFromPool`
  returns the closed connection without an error, since `err :=` in the loop
  hides the variable that is tested at the end (`proxy.go:129`).
- After a reload the new wrapper takes the answer to the `NewProxy` of the old
  one and runs although its own is refused (`proxy_wrapper.go:106`).
- `group` without `~late` refutes `MembersReachable`: between lookup and join
  the last member leaves, and the late member listens on a closed channel in a
  group that no one finds; when it closes, its port is leaked (`tcp.go:49`).
- A group that asks for port 0 listens on `port` and not on `realPort`
  (`tcp.go:104`), so the port that is reported and released is not the one that
  is open; nor does it probe as used. `group` with `PortsAccounted` over all
  ports is refuted by a proxy of the same name that is handed the reserved port
  for a second group (`ports.go:89`), whose end then frees it for a third.
- `traffic` without `short` refutes `CounterExact`: after a day of 23 hours
  `rotate` rounds down to 0 days (`date_counter.go:116`), the traffic of two
  days is one number, and all dates before are off by one.
- `dashboard` without `row.moved` refutes `RowsBelong`: a row of the tcp page with
  the conf of an http proxy (`dashboard_api.go:203`).
- `admin` without `~overlap` refutes `TokenKept`: one PUT reads the file the
  other has just emptied and finds no token to keep (`admin_api.go:285`).
- `dashboard` without `pie.own` refutes `CountsAgree`: an Overview that is gone
  draws its chart into the next one (`Overview.vue:133`).
- A late `CloseProxy` of the metrics marks the statistics of the proxy that took
  over the name as closed, and `clearUselessInfo` drops them a week later while
  that proxy is online (`mem/server.go:119`).
- `ports_fixed` with `RequestPorts = {0}` refutes `HeldExclusively`: a
  reservation is handed out again while its port is still held, because
  `Acquire` asks `isPortAvailable` and not `freePorts` (`ports.go:89`).
- `session` with `SendCap = 1` refutes `ShutdownEnds`: the writer has ended at a
  failed write, `ReqWorkConn` fills `sendCh`, and the manager blocks on its
  answer.
- `RegisterWorkConn` on the closed pool leaves a connection in stage `lost`: the
  recovered panic returns no error and the caller does not close it.
- An answer of `error` to an earlier `NewProxy` puts a wrapper into
  `start error` while frps registers the later one; a proxy whose checks fail
  for good afterwards stays registered, since `checkWorker` withdraws in
  `running` and `wait start` only.
- `failedTimes` is never reset by a successful check (`health.go:121`), though
  `conf/frpc_full.ini:162` speaks of continuous failures.

## Fairness

- Goroutines that can take a step do so (weak fairness per goroutine).
- In `ProxyRegistry`, `StoperBegin` or `StoperBlocked` comes in the end (strong
  fairness of their disjunction): after `conn.Close` the manager has only what
  is left in `readCh`, so it cannot put off both for ever. Which of them comes
  is open. Nothing leaves `stuck`.
- `ReaderEnd` is fair only once the connection is closed; nothing is assumed of
  the client, the network, heartbeats, reloads or the outcome of checks.
- `GetWorkConn` has a timer, `checkWorker` polls every three seconds.
- `WorkerReturn` is strongly fair: a Go `select` with several ready channels
  picks at random, so a closed `closeCh` is picked in the end.

- In `TCPGroup` closing goroutines and accept loops go on (weak fairness), and
  `Deliver` is strongly fair: a Go sender waits in the queue of its channel, so
  the next member that receives gets its connection, however often members
  change in between. Nothing is assumed of lookups, joins and user connections.
- In `AdminConfig` handlers run and answers are delivered unless the connection
  fails. Nothing is assumed of the user or of `fetchData`.

## Proofs

`PortManager_proofs` (assumptions: ports are positive numbers, `Nil` is no
name). `TypeCorrect` is inductive by itself. `PartitionCorrect` and
`NoLeakCorrect` need the types only: `Take` and `Release` are handled once, as
lemmas, and each action cites them. `FixedPortsExclusive` assumes that nobody
asks for a random port and that the manager is the TCP one; both are needed, as
the variations of `ports_any` and `ports_fixed` above show. Its invariant adds
`Partition` (a free port has no entry, hence no holder) and that no proxy is in
`reclose`. `FixedPortsLeased` follows from it under the same assumptions: only
`AcquireSpecified`, `ListenFails` and `CloseRelease` move a port, and each is a
step of `NameLease`. `FixedPortsReserved` needs fixed ports only and holds for
UDP, too: `TakeReservation` uses that a port which was free had no open
reservation, `ReleaseReservation` that `Release`, whoever calls it, closes the
reservation of the name that `usedPorts` has for the port.

`ProxyRegistry_proofs`. `RegistryAgrees` becomes inductive with `DelOwns`: a
control between `Close` and `Del` still has the proxy it deletes, so the `Del`
by name hits its own entry. `Refinement` maps each control to its set of names;
only `RegisterAdd` and `PxyDel` change it. `VisitorsCorrect` adds `JobListens`:
a registration under way owns the listener it made. `NoOrphanClient` is inductive
given the types and `RegistryAgrees`. `SessionsCorrect` rests on
`SessionInv`: the controls of a run id form a queue with `ctlsByRunID` at its
tail, no two wait for the same one and nobody waits for the tail, so at most
one of them is not blocked. `PortsCounted` becomes inductive as an `Account` of
every control: exact while it works, and zero with no proxies whenever it is
not between `Start` and the end of `stoper`, so that a reused control starts
from nothing. The account carries the finiteness of the names in use, which
`Cardinality` needs, so nothing is assumed of the set of names.

`ControlSession_proofs` (any number of users and work connections, any
capacities). The types say that no channel exceeds its capacity and that a
handler which has not ended has a round of `GetWorkConnFromPool` left.
`NoSendOnClosed` follows from `ClosedInv`: `stoper` closes a channel only after
the goroutine that sends on it has ended, and does not begin before `Start` is
over. `ConnExclusive` and `PoolEmptyAtEnd` rest on three parts: `PoolInv` (the
pool has each of its connections once, and exactly those in stage `pooled`),
`HeldInv` (what a handler took is out of the pool and nobody else's) and
`DrainInv` (the pool is closed before it is drained and empty before `Done`).
Every step moves one connection, and each kind of move has its lemma:
`ConnMoves`, `RegisterConn`, `PoolLeaves`, `TakeConn`, `FailedConn`.

`ProxyWrapper_proofs`. `NoStaleProxy` speaks of the moment when all messages
have arrived; its inductive form `CloseFollows` says that everything unwanted,
registered or still requested, has a `CloseProxy` behind it in the queue. The
lemmas `AppendClose` and `KeepFollows` cover the client's steps; the server's
steps shift the queue by one. `StopIsFinalCorrect` is an action property that
follows from the types: only the wrapper in `pm.proxies` is alive.

`TCPGroup_proofs`. The types come with the life cycle of a member: it refers to
the object it is in, an object without references has no members, which is what
allows it to be reused, and the lock of a group is kept by at most one proxy
between `Acquire` and `Listen` or between close and `Release`. `PortsAccounted`
adds that a group that holds a port has a real one; it excepts no interleaving,
only the ports that `Acquire` has handed out while a group had them.
`MembersAgree` follows from "every member's configuration
is `param` of its group". `MembersReachable` adds that an object in the map
which was never used has an open channel, and that without a late join a group
with a closed channel is out of the map.

`Dashboard_proofs`. `RowContracts` settles the names of fields page by page, so
`ContractHolds` needs only that the mounted page is a route. `RowsBelong` and
`RowsHavePort` rest on `RequestOK`: what a request in flight has to be for its
answer to be shown (asked by the mounted component if it is its own, rows of
its page's type, the port known once the proxies are asked for). `RowsBelong`
adds `ListInv`: a name a handler has listed and not yet looked up is registered
as the type of the list, or not at all, or `moved`; it needs `StatsOfOwner` for
the moment of listing. `StatsOfOwner`
adds that a session which has still to report a proxy owns the name with that
type. `CountsExact` is inductive with the finiteness of the three sets it
counts: each call moves one name or one session in or out of one of them. That
no counter is negative (`CountsNatural`, for `TypeCorrect`) is a counting
argument of its own: sessions with a report to come have names of their own
that are online, an injection. `CountsAgree` needs that a request carries what
its handler sends (`CarryInv`) and that text and chart of the Overview change
in one step.

`TrafficHistory_proofs`. The types hold whatever the length of the days. The
other two theorems assume that no day has more than 25 hours and that at most
24 days are kept (the code keeps 7); a day may be as short as it likes.
`CounterExact` becomes inductive with the counts as seen from the day of the
last update (`UpTo`), the hours since then being at most 25 times the days, and
at least 24 times the days since the update or since a later short day.
`WholeDays` is the arithmetic of `rotate`: the extra hours of fewer than 24 days
do not add up to a day, and after more days than are kept the counts are
cleared anyway. After a short day the counts move by too few days, but at least
by those since, which clears the dates the property speaks of.
`ChartRight` adds that an answer agrees with the truth it
carries.

`AdminConfig_proofs`. `TokenSealed` adds the texts under way: answers carry no
token, uploads past the read none but the file's. `TokenKept` and
`ReloadInForce` add what a request has read or parsed: while no two handlers
overlap, it still agrees with the file.

The types of `AdminConfig` add that a reload past its parse has something to
apply, so that `running` is always a configuration that parsed.

Only model-checked: the liveness properties (`LoginStarts`, `ShutdownEnds`,
`UserAnswered`, `RemovedUnpublished`, `WorkerEnds`, `UnhealthyStops`,
`SentConnTaken`, `UploadReported`), since fairness and `ENABLED` are out of the
prover's reach. Every other property of a passing run is a theorem for every
value of the constants, within the assumptions named above.

## Not modelled

HTTP and tcpmux groups, virtual hosts, the client session, visitors beyond
their table, NAT hole sessions, server plugins and UDP forwarding are in the
plan. Of the metrics, the counters of clients and connections and the
prometheus exporter are left out; of the dashboard, the pie of the total traffic
and all formatting. Configuration parsing, authentication, encoding and
encryption, client plugins, commands and the web build stay out: they are pure
I/O, cryptography or presentation, and where their outcome matters (an invalid
ping, a refused login) it is a nondeterministic choice.
