----------------------------- MODULE Dashboard -----------------------------
(***************************************************************************)
(* The dashboard of frps, from the registry of proxies to the table a      *)
(* browser shows: proxy.Manager and the statistics of                      *)
(* pkg/metrics/mem/server.go, the handlers of server/dashboard_api.go, and *)
(* the single page application of web/frps.                                *)
(*                                                                         *)
(* Each entry into the registry is followed by a call of the metrics, in a *)
(* step of its own; the handlers look at both tables one after the other;  *)
(* the answers reach the page that asked, or what is left of it.           *)
(***************************************************************************)
EXTENDS Integers, FiniteSets, Functions

CONSTANTS
    Session,     \* controls of frps, each doing one thing at a time
    Name,        \* proxy names
    Type,        \* the proxy types that clients register
    Visited,     \* the routes the user opens
    Req,         \* bound: as many requests of the browser are in flight at a time
    VhostPort,   \* vhost_http_port and vhost_https_port, 0 when disabled
    Nil

VARIABLES
    pxys,        \* pxyManager.pxys: type and owner
    job,         \* the call of the metrics a session has still to make
    stats,       \* info.ProxyStatistics: type, and which time stamp is later
    moved,       \* history: requests and names they list, registered since as
                 \* another type or not reported to the metrics when listed
    typeCount,   \* info.ProxyTypeCounts, 0 for a type without a counter
    page,        \* the route whose component is mounted
    reqs,        \* requests in flight; own: the component that asked is mounted
    rows,        \* this.proxies of the mounted list page
    port,        \* this.vhost_http_port or this.vhost_https_port, Nil for ""
    counts,      \* this.proxy_counts of the mounted Overview, Nil for ""
    pie          \* the chart in the element 'proxies', and whose answer it shows

tables == <<pxys, job, stats, typeCount>>
server == <<tables, moved>>
view == <<rows, port, counts, pie>>
vars == <<server, page, reqs, view>>

-----------------------------------------------------------------------------
(* The row objects of the tables (utils/proxy.js): the fields a constructor *)
(* sets, with or without a conf, and what it reads of the statistics and of *)
(* the conf in the answer.                                                  *)
BaseProxy(sets, conf) ==
    [sets |-> sets \cup {"name", "encryption", "compression", "conns", "traffic_in",
                         "traffic_out", "last_start_time", "last_close_time", "status"},
     stats |-> {"name", "conf", "cur_conns", "today_traffic_in", "today_traffic_out",
                "last_start_time", "last_close_time", "status"},
     conf |-> conf \cup {"use_encryption", "use_compression"}]

TcpProxy == BaseProxy({"type", "addr", "port"}, {"remote_port"})
UdpProxy == BaseProxy({"type", "addr", "port"}, {"remote_port"})
HttpProxy ==
    BaseProxy({"type", "port", "custom_domains", "host_header_rewrite", "locations", "subdomain"},
              {"custom_domains", "host_header_rewrite", "locations", "subdomain"})

(* Mutant of HttpsProxy: the subdomain is forgotten.                      *)
HttpsProxyNoSubdomain == BaseProxy({"type", "port", "custom_domains"}, {"custom_domains"})

HttpsProxy ==
    BaseProxy({"type", "port", "custom_domains", "subdomain"}, {"custom_domains", "subdomain"})
StcpProxy == BaseProxy({"type"}, {})
SudpProxy == BaseProxy({"type"}, {})

(* What the handlers put into an answer: the names of ProxyStatsInfo, and   *)
(* those of the conf.  getConfByType has no case for sudp, so its conf is   *)
(* that of the registered proxy, name by name.                              *)
ProxyStatsInfo == {"name", "conf", "today_traffic_in", "today_traffic_out", "cur_conns",
                   "last_start_time", "last_close_time", "status"}
BaseOutConf == {"name", "type", "use_encryption", "use_compression", "group", "group_key",
                "proxy_protocol_version", "bandwidth_limit", "metas"}
GetConfByType ==
    [tcp |-> BaseOutConf \cup {"remote_port"},
     tcpmux |-> BaseOutConf \cup {"custom_domains", "subdomain", "multiplexer"},
     udp |-> BaseOutConf \cup {"remote_port"},
     http |-> BaseOutConf \cup {"custom_domains", "subdomain", "locations",
                                "host_header_rewrite"},
     https |-> BaseOutConf \cup {"custom_domains", "subdomain"},
     stcp |-> BaseOutConf,
     xtcp |-> BaseOutConf,
     sudp |-> BaseOutConf \cup {"role", "sk"}]

(* What every list page shows of a row: its columns and its expanded form.  *)
Columns == {"name", "type", "encryption", "compression", "last_start_time",
            "last_close_time", "conns", "traffic_in", "traffic_out", "status"}

(* The list pages: the type asked for, whether the port is asked for first, *)
(* the class of the rows and the fields the template shows.                 *)
ProxiesTcp == [type |-> "tcp", vhost |-> FALSE, row |-> TcpProxy,
               shows |-> Columns \cup {"addr", "port"}]
ProxiesUdp == [type |-> "udp", vhost |-> FALSE, row |-> UdpProxy,
               shows |-> Columns \cup {"addr", "port"}]
ProxiesHttp == [type |-> "http", vhost |-> TRUE, row |-> HttpProxy,
                shows |-> Columns \cup {"port", "custom_domains", "subdomain", "locations",
                                        "host_header_rewrite"}]
ProxiesHttps == [type |-> "https", vhost |-> TRUE, row |-> HttpsProxy,
                 shows |-> Columns \cup {"port", "custom_domains", "subdomain"}]
ProxiesStcp == [type |-> "stcp", vhost |-> FALSE, row |-> StcpProxy, shows |-> Columns]
ProxiesSudp == [type |-> "sudp", vhost |-> FALSE, row |-> SudpProxy, shows |-> Columns]

(* router/index.js, without the Overview at '/'.                            *)
Routes == [ProxiesTcp |-> ProxiesTcp, ProxiesUdp |-> ProxiesUdp,
           ProxiesHttp |-> ProxiesHttp, ProxiesHttps |-> ProxiesHttps,
           ProxiesStcp |-> ProxiesStcp, ProxiesSudp |-> ProxiesSudp]

(* The Overview: what its form shows, and what fetchData takes from the     *)
(* answer of APIServerInfo, whose names follow.                             *)
OverviewForm == {"version", "bind_port", "bind_udp_port", "vhost_http_port", "vhost_https_port",
                 "subdomain_host", "max_pool_count", "max_ports_per_client",
                 "heart_beat_timeout", "client_counts", "cur_conns", "proxy_counts"}
OverviewReads == (OverviewForm \ {"proxy_counts"})
                   \cup {"proxy_type_count", "total_traffic_in", "total_traffic_out"}
ServerInfoResp == {"version", "bind_port", "bind_udp_port", "vhost_http_port",
                   "vhost_https_port", "kcp_bind_port", "subdomain_host", "max_pool_count",
                   "max_ports_per_client", "heart_beat_timeout", "total_traffic_in",
                   "total_traffic_out", "cur_conns", "client_counts", "proxy_type_count"}

Job == [op : {"NewProxy", "CloseProxy"}, name : Name, type : Type]
Registered == [type : Type, owner : Session]
Statistics == [type : Type, last : {"started", "closed"}]

ASSUME DashboardAssumption ==
    /\ "Overview" \in Visited
    /\ Visited \ {"Overview"} \subseteq DOMAIN Routes
    /\ Req # {}
    /\ VhostPort \in [{"http", "https"} -> Nat]
    /\ Nil \notin Nat /\ Nil \notin Job /\ Nil \notin Registered

(* Overview.vue adds up, and DrawProxyChart draws, these types.             *)
Counted == {"tcp", "udp", "http", "https", "stcp", "sudp", "xtcp"}

(* The number under a type, nothing if it is null.                          *)
Num(count, t) == IF t \in DOMAIN count THEN count[t] ELSE 0

Total(count) == Num(count, "tcp") + Num(count, "udp") + Num(count, "http") + Num(count, "https")
                  + Num(count, "stcp") + Num(count, "sudp") + Num(count, "xtcp")

(* Mutant of ProxyCounts: one type is forgotten.                         *)
ProxyCountsNoTcp(count) == Total(count) - Num(count, "tcp")

(* this.proxy_counts of an answer.  A type that is null, because no proxy   *)
(* had it yet, adds nothing, like one that is 0.                            *)
ProxyCounts(count) == Total(count)

(* DrawProxyChart: one slice for each type that is neither null nor 0.      *)
Slices(count) ==
    Restrict(count, {t \in Counted \cap DOMAIN count : count[t] # 0})

-----------------------------------------------------------------------------
(* A row: online when GetByName found a proxy, whose conf it then has.      *)
Row == [name : Name, conf : Type \cup {Nil}, port : Nat \cup {Nil}, moved : BOOLEAN]

TypeOK ==
    /\ pxys \in [Name -> Registered \cup {Nil}]
    /\ job \in [Session -> Job \cup {Nil}]
    /\ stats \in [Name -> Statistics \cup {Nil}]
    /\ typeCount \in [Type -> Nat]
    /\ moved \subseteq Req \X Name
    /\ page \in Visited
    /\ DOMAIN reqs = Req
    /\ \A q \in Req : reqs[q] # Nil =>
          /\ reqs[q].page \in Visited
          /\ reqs[q].own => reqs[q].page = page
          /\ reqs[q].page = "Overview" => reqs[q].api = "serverinfo"
    /\ rows \subseteq Row
    /\ port \in Nat \cup {Nil}
    /\ counts \in Nat \cup {Nil}
    /\ page # "Overview" => counts = Nil /\ pie = Nil
    /\ page = "Overview" => rows = {} /\ port = Nil

(* created() of a component calls fetchData, which asks for serverinfo on   *)
(* the Overview and the vhost pages, for the proxies on the others.         *)
FirstApi(p) ==
    IF p = "Overview" THEN "serverinfo"
    ELSE IF Routes[p].vhost THEN "serverinfo" ELSE "proxies"

Sent(p, own, api) == [page |-> p, own |-> own, api |-> api, at |-> "sent", data |-> Nil]

Init ==
    /\ pxys = [n \in Name |-> Nil]
    /\ job = [s \in Session |-> Nil]
    /\ stats = [n \in Name |-> Nil]
    /\ typeCount = [t \in Type |-> 0]
    /\ moved = {}
    /\ page = "Overview"
    /\ \E first \in Req :
          reqs = [q \in Req |-> IF q = first THEN Sent("Overview", TRUE, "serverinfo") ELSE Nil]
    /\ rows = {} /\ port = Nil /\ counts = Nil /\ pie = Nil

-----------------------------------------------------------------------------
(* The session has still to report the proxy it has registered.             *)
Reports(s, n) == job[s] # Nil /\ job[s].op = "NewProxy" /\ job[s].name = n

(* The request has listed names it has not looked up in the registry yet.   *)
Listed(q) == reqs[q] # Nil /\ reqs[q].at = "listed"

(* A session registers and closes proxies; ProxyRegistry has the detail.    *)
Register(s, n, t) ==
    /\ job[s] = Nil
    /\ pxys[n] = Nil
    /\ pxys' = [pxys EXCEPT ![n] = [type |-> t, owner |-> s]]
    /\ job' = [job EXCEPT ![s] = [op |-> "NewProxy", name |-> n, type |-> t]]
    /\ moved' = moved \cup {<<q, n>> : q \in {r \in Req : /\ Listed(r) /\ n \in reqs[r].data.todo
                                                        /\ Routes[reqs[r].page].type # t}}
    /\ UNCHANGED <<stats, typeCount, page, reqs, view>>

Unregister(s, n) ==
    /\ job[s] = Nil
    /\ pxys[n] # Nil
    /\ pxys[n].owner = s
    /\ pxys' = [pxys EXCEPT ![n] = Nil]
    /\ job' = [job EXCEPT ![s] = [op |-> "CloseProxy", name |-> n, type |-> pxys[n].type]]
    /\ UNCHANGED <<stats, typeCount, moved, page, reqs, view>>

(* Mutant of NewProxy: an entry of any type is kept.                      *)
NewProxyKeepsType(s) ==
    /\ job[s] # Nil
    /\ job[s].op = "NewProxy"
    /\ LET n == job[s].name
           t == job[s].type
       IN  /\ typeCount' = [typeCount EXCEPT ![t] = @ + 1]
           /\ stats' = [stats EXCEPT ![n] = IF @ = Nil THEN [type |-> t, last |-> "started"]
                                            ELSE [type |-> @.type, last |-> "started"]]
    /\ job' = [job EXCEPT ![s] = Nil]
    /\ UNCHANGED <<pxys, moved, page, reqs, view>>

(* serverMetrics.NewProxy: the counter of the type; the entry of the name   *)
(* is kept if it has that type, replaced otherwise; LastStartTime is now.   *)
NewProxy(s) ==
    /\ job[s] # Nil
    /\ job[s].op = "NewProxy"
    /\ LET t == job[s].type
       IN  /\ typeCount' = [typeCount EXCEPT ![t] = @ + 1]
           /\ stats' = [stats EXCEPT ![job[s].name] = [type |-> t, last |-> "started"]]
    /\ job' = [job EXCEPT ![s] = Nil]
    /\ UNCHANGED <<pxys, moved, page, reqs, view>>

(* Mutant of CloseProxy: only the type that the entry has is counted.     *)
CloseProxyOfEntry(s) ==
    /\ job[s] # Nil
    /\ job[s].op = "CloseProxy"
    /\ LET n == job[s].name
           t == job[s].type
       IN  /\ typeCount' = IF stats[n] # Nil /\ stats[n].type = t
                           THEN [typeCount EXCEPT ![t] = @ - 1] ELSE typeCount
           /\ stats' = IF stats[n] = Nil THEN stats
                       ELSE [stats EXCEPT ![n] = [type |-> @.type, last |-> "closed"]]
    /\ job' = [job EXCEPT ![s] = Nil]
    /\ UNCHANGED <<pxys, moved, page, reqs, view>>

(* serverMetrics.CloseProxy: LastCloseTime is set in whatever entry the     *)
(* name has by now.                                                         *)
CloseProxy(s) ==
    /\ job[s] # Nil
    /\ job[s].op = "CloseProxy"
    /\ LET n == job[s].name
           t == job[s].type
       IN  /\ typeCount' = [typeCount EXCEPT ![t] = @ - 1]
           /\ stats' = IF stats[n] = Nil THEN stats
                       ELSE [stats EXCEPT ![n] = [type |-> @.type, last |-> "closed"]]
    /\ job' = [job EXCEPT ![s] = Nil]
    /\ UNCHANGED <<pxys, moved, page, reqs, view>>

(* clearUselessInfo: the entries that were closed, and not started again,   *)
(* more than seven days ago are dropped.                                    *)
ClearUselessInfo(old) ==
    /\ old # {}
    /\ \A n \in old : stats[n] # Nil /\ stats[n].last = "closed"
    /\ stats' = [n \in Name |-> IF n \in old THEN Nil ELSE stats[n]]
    /\ UNCHANGED <<pxys, job, typeCount, moved, page, reqs, view>>

-----------------------------------------------------------------------------
(* APIServerInfo, with GetServer.  The vhost pages use the port only.       *)
APIServerInfo(q) ==
    /\ reqs[q] # Nil
    /\ reqs[q].api = "serverinfo" /\ reqs[q].at = "sent"
    /\ reqs' = [reqs EXCEPT ![q] = [page |-> @.page, own |-> @.own, api |-> @.api,
                                    at |-> "answered",
                                    data |-> IF @.page = "Overview" THEN typeCount ELSE Nil]]
    /\ UNCHANGED <<server, page, view>>

(* APIProxyByType: GetProxiesByType takes the names under m.mu ...          *)
GetProxiesByType(q) ==
    /\ reqs[q] # Nil
    /\ reqs[q].api = "proxies" /\ reqs[q].at = "sent"
    /\ LET t == Routes[reqs[q].page].type
           names == {n \in Name : stats[n] # Nil /\ stats[n].type = t}
       IN  /\ reqs' = [reqs EXCEPT ![q] = [page |-> @.page, own |-> @.own, api |-> @.api,
                                           at |-> "listed",
                                           data |-> [todo |-> names, rows |-> {}]]]
           /\ moved' = moved \cup
                 {<<q, n>> : n \in {m \in names : pxys[m] # Nil /\ Reports(pxys[m].owner, m)}}
    /\ UNCHANGED <<tables, page, view>>

(* ... and GetByName asks for one after the other whether it is online.     *)
(* The row has the conf of what is registered now; it is left out if the    *)
(* conf cannot be converted.                                                *)
GetProxyStats(q, n) ==
    /\ Listed(q)
    /\ n \in reqs[q].data.todo
    /\ LET row == [name |-> n, conf |-> IF pxys[n] = Nil THEN Nil ELSE pxys[n].type,
                   port |-> Nil, moved |-> <<q, n>> \in moved]
       IN  \E more \in {{row}} \cup {{} : c \in {row.conf} \ {Nil}} :
              reqs' = [reqs EXCEPT ![q] = [page |-> @.page, own |-> @.own, api |-> @.api,
                                           at |-> "listed",
                                           data |-> [todo |-> @.data.todo \ {n},
                                                     rows |-> @.data.rows \cup more]]]
    /\ moved' = moved \ {<<q, n>>}
    /\ UNCHANGED <<tables, page, view>>

(* The answer is written when all of them have been asked for.              *)
ProxyStatsDone(q) ==
    /\ Listed(q)
    /\ reqs[q].data.todo = {}
    /\ reqs' = [reqs EXCEPT ![q] = [page |-> @.page, own |-> @.own, api |-> @.api,
                                    at |-> "answered", data |-> @.data.rows]]
    /\ UNCHANGED <<server, page, view>>

-----------------------------------------------------------------------------
(* Mutant of Select: the requests of the old component go to the new one.  *)
SelectKeepsOwn(p, slot) ==
    /\ p # page
    /\ reqs[slot] = Nil
    /\ page' = p
    /\ reqs' = [reqs EXCEPT ![slot] = Sent(p, TRUE, FirstApi(p))]
    /\ rows' = {} /\ port' = Nil /\ counts' = Nil /\ pie' = Nil
    /\ UNCHANGED server

(* A menu item: the mounted component is destroyed, its watcher of $route   *)
(* with it, and that of the new route is created, with empty data.          *)
Select(p, slot) ==
    /\ p # page
    /\ reqs[slot] = Nil
    /\ page' = p
    /\ reqs' = [q \in Req |->
                 IF q = slot THEN Sent(p, TRUE, FirstApi(p))
                 ELSE IF reqs[q] = Nil THEN Nil
                 ELSE [page |-> reqs[q].page, own |-> FALSE, api |-> reqs[q].api,
                       at |-> reqs[q].at, data |-> reqs[q].data]]
    /\ rows' = {} /\ port' = Nil /\ counts' = Nil /\ pie' = Nil
    /\ UNCHANGED server

(* $route changes on the same route: fetchData of the mounted component.    *)
RouteWatch(slot) ==
    /\ reqs[slot] = Nil
    /\ reqs' = [reqs EXCEPT ![slot] = Sent(page, TRUE, FirstApi(page))]
    /\ UNCHANGED <<server, page, view>>

Answered(q, api) == reqs[q] # Nil /\ reqs[q].api = api /\ reqs[q].at = "answered"

(* Overview.fetchData: the text belongs to the component that asked, the    *)
(* chart to whatever element has the id 'proxies' now; without one, echarts *)
(* throws and the handler of the error does too, since main.js installs no  *)
(* $message.                                                                *)
ShowOverview(q) ==
    /\ Answered(q, "serverinfo")
    /\ reqs[q].page = "Overview"
    /\ counts' = IF reqs[q].own THEN ProxyCounts(reqs[q].data) ELSE counts
    /\ pie' = IF page # "Overview" THEN pie
              ELSE [own |-> reqs[q].own, slices |-> Slices(reqs[q].data)]
    /\ reqs' = [reqs EXCEPT ![q] = Nil]
    /\ UNCHANGED <<server, page, rows, port>>

(* Mutant of ShowPort: the rows are asked for before the port is known.   *)
ShowPortLate(q) ==
    /\ Answered(q, "serverinfo")
    /\ reqs[q].page # "Overview"
    /\ LET p == VhostPort[Routes[reqs[q].page].type]
       IN  /\ UNCHANGED port
           /\ reqs' = [reqs EXCEPT ![q] = IF p = 0 THEN Nil
                                          ELSE Sent(@.page, @.own, "proxies")]
    /\ UNCHANGED <<server, page, rows, counts, pie>>

(* The first answer of the vhost pages: the port is remembered, and the     *)
(* proxies are asked for unless it is 0.                                    *)
ShowPort(q) ==
    /\ Answered(q, "serverinfo")
    /\ reqs[q].page # "Overview"
    /\ LET p == VhostPort[Routes[reqs[q].page].type]
       IN  /\ port' = IF reqs[q].own THEN p ELSE port
           /\ reqs' = [reqs EXCEPT ![q] = IF p = 0 THEN Nil
                                          ELSE Sent(@.page, @.own, "proxies")]
    /\ UNCHANGED <<server, page, rows, counts, pie>>

WithPort(row, p) == [name |-> row.name, conf |-> row.conf, port |-> p, moved |-> row.moved]

(* Mutant of ShowRows: the rows go to the page that is mounted now.       *)
ShowRowsAnywhere(q) ==
    /\ Answered(q, "proxies")
    /\ page # "Overview"
    /\ rows' = {WithPort(row, port) : row \in reqs[q].data}
    /\ reqs' = [reqs EXCEPT ![q] = Nil]
    /\ UNCHANGED <<server, page, port, counts, pie>>

(* The list: this.proxies is replaced by the rows of the answer, with       *)
(* this.vhost_port as it is now, in the component that asked.               *)
ShowRows(q) ==
    /\ Answered(q, "proxies")
    /\ rows' = IF reqs[q].own THEN {WithPort(row, port) : row \in reqs[q].data} ELSE rows
    /\ reqs' = [reqs EXCEPT ![q] = Nil]
    /\ UNCHANGED <<server, page, port, counts, pie>>

(* The request fails: the list pages have no catch, that of the Overview    *)
(* throws.  The page stays as it is.                                        *)
FetchFails(q) ==
    /\ reqs[q] # Nil
    /\ reqs' = [reqs EXCEPT ![q] = Nil]
    /\ moved' = {m \in moved : m[1] # q}
    /\ UNCHANGED <<tables, page, view>>

-----------------------------------------------------------------------------
Metrics(s) == NewProxy(s) \/ CloseProxy(s)

Handler(q) ==
    \/ APIServerInfo(q) \/ GetProxiesByType(q) \/ ProxyStatsDone(q)
    \/ \E n \in Name : GetProxyStats(q, n)

Show(q) == ShowOverview(q) \/ ShowPort(q) \/ ShowRows(q)

Next ==
    \/ \E s \in Session, n \in Name : Unregister(s, n) \/ \E t \in Type : Register(s, n, t)
    \/ \E s \in Session : Metrics(s)
    \/ \E old \in SUBSET Name : ClearUselessInfo(old)
    \/ \E q \in Req : Handler(q) \/ Show(q) \/ FetchFails(q)
    \/ \E slot \in Req : RouteWatch(slot) \/ \E p \in Visited : Select(p, slot)

Spec == Init /\ [][Next]_vars

-----------------------------------------------------------------------------
Pending(op, t) == {s \in Session : job[s] # Nil /\ job[s].op = op /\ job[s].type = t}
Online(t) == {n \in Name : pxys[n] # Nil /\ pxys[n].type = t}

(* The counter of a type (NewProxy and CloseProxy of the metrics) is the    *)
(* number of its registered proxies, but for the calls still to come,       *)
(* whatever types a name had before and whenever old entries are cleared.   *)
CountsExact ==
    \A t \in Type :
        typeCount[t] = Cardinality(Online(t)) - Cardinality(Pending("NewProxy", t))
                                              + Cardinality(Pending("CloseProxy", t))

(* The statistics of a registered proxy are of its own type once its        *)
(* session has reported it, though sessions hand the name around, so that   *)
(* it is listed under no other type.                                        *)
StatsOfOwner ==
    \A n \in Name : pxys[n] # Nil /\ stats[n] # Nil =>
        stats[n].type = pxys[n].type \/ Reports(pxys[n].owner, n)

(* A row of a list page shows the conf of a proxy of the page's type,       *)
(* whichever answers arrive late and wherever the user has gone.  The       *)
(* exception is a name that changed hands while the handler was between the *)
(* statistics and the registry: registered as another type since it was     *)
(* listed, or registered before that and not reported to the metrics yet.   *)
RowsBelong == \A row \in rows : row.conf \in {Nil, Routes[page].type} \/ row.moved

(* The templates, the row classes of utils/proxy.js and the answers of      *)
(* server/dashboard_api.go agree on their names: the mounted page shows no  *)
(* field that its rows lack, and reads nothing the handler does not send.   *)
ContractHolds ==
    IF page = "Overview" THEN OverviewReads \subseteq ServerInfoResp
    ELSE /\ Routes[page].shows \subseteq Routes[page].row.sets
         /\ Routes[page].row.stats \subseteq ProxyStatsInfo
         /\ Routes[page].row.conf \subseteq GetConfByType[Routes[page].type]

(* A row of a vhost page always has the port, which another answer brings.  *)
RowsHavePort ==
    page # "Overview" /\ rows # {} /\ Routes[page].vhost =>
        \A row \in rows : row.port = VhostPort[Routes[page].type]

(* The number of proxies in the text of the Overview is the sum of the      *)
(* slices of its chart, unless the chart was drawn by the answer to an      *)
(* Overview that is gone.                                                   *)
CountsAgree ==
    pie # Nil /\ pie.own => DOMAIN pie.slices \subseteq Counted /\ counts = Total(pie.slices)
=============================================================================
