-------------------------- MODULE Dashboard_proofs --------------------------
(***************************************************************************)
(* What the dashboard of frps shows belongs where it is shown, for any     *)
(* number of sessions, names and requests, any routes that are visited and *)
(* any order of answers.                                                   *)
(***************************************************************************)
EXTENDS Dashboard, FiniteSetTheorems, TLAPS

ListPage == {"ProxiesTcp", "ProxiesUdp", "ProxiesHttp", "ProxiesHttps", "ProxiesStcp", "ProxiesSudp"}

LEMMA RouteFacts ==
    /\ Routes["ProxiesTcp"] = ProxiesTcp
    /\ Routes["ProxiesUdp"] = ProxiesUdp
    /\ Routes["ProxiesHttp"] = ProxiesHttp
    /\ Routes["ProxiesHttps"] = ProxiesHttps
    /\ Routes["ProxiesStcp"] = ProxiesStcp
    /\ Routes["ProxiesSudp"] = ProxiesSudp
    /\ DOMAIN Routes = ListPage
  BY DEF Routes, ListPage

(* For a list page: the names in its template, its rows and the answer.     *)
Contract(p) ==
    /\ Routes[p].shows \subseteq Routes[p].row.sets
    /\ Routes[p].row.stats \subseteq ProxyStatsInfo
    /\ Routes[p].row.conf \subseteq GetConfByType[Routes[p].type]

LEMMA RowContracts == \A p \in ListPage : Contract(p)
<1> USE DEF Contract, BaseProxy, Columns, ProxyStatsInfo, GetConfByType, BaseOutConf
<1>1. Contract("ProxiesTcp")
  BY RouteFacts DEF ProxiesTcp, TcpProxy
<1>2. Contract("ProxiesUdp")
  BY RouteFacts DEF ProxiesUdp, UdpProxy
<1>3. Contract("ProxiesHttp")
  BY RouteFacts DEF ProxiesHttp, HttpProxy
<1>4. Contract("ProxiesHttps")
  BY RouteFacts DEF ProxiesHttps, HttpsProxy
<1>5. Contract("ProxiesStcp")
  BY RouteFacts DEF ProxiesStcp, StcpProxy
<1>6. Contract("ProxiesSudp")
  BY RouteFacts DEF ProxiesSudp, SudpProxy
<1> HIDE DEF Contract
<1> QED BY <1>1, <1>2, <1>3, <1>4, <1>5, <1>6 DEF ListPage

LEMMA OverviewContract == OverviewReads \subseteq ServerInfoResp
  BY DEF OverviewReads, OverviewForm, ServerInfoResp

-----------------------------------------------------------------------------
(* A row that the page p may show.                                          *)
Fits(row, p) == row.conf \in {Nil, Routes[p].type} \/ row.moved

(* What a request in flight has to be for its answer to be shown: asked by  *)
(* the mounted component if it is its own, for the proxies only by a list   *)
(* page, and with rows that fit that page.                                  *)
RequestOKAt(r, pg, pt) ==
    /\ r.page \in Visited
    /\ r.own => r.page = pg
    /\ r.api = "proxies" => r.page # "Overview"
    /\ r.api = "proxies" /\ r.at = "answered" => \A row \in r.data : Fits(row, r.page)
    /\ r.at = "listed" => r.api = "proxies" /\ \A row \in r.data.rows : Fits(row, r.page)
    /\ r.own /\ r.api = "proxies" /\ Routes[r.page].vhost => pt = VhostPort[Routes[r.page].type]

RequestOK(r) == RequestOKAt(r, page, port)

PageInv ==
    /\ page \in Visited
    /\ page = "Overview" => rows = {}
    /\ \A row \in rows : Fits(row, page)
    /\ page # "Overview" /\ Routes[page].vhost =>
          \A row \in rows : row.port = VhostPort[Routes[page].type]

ReqsInv ==
    /\ reqs = [q \in Req |-> reqs[q]]
    /\ \A q \in Req : reqs[q] # Nil => RequestOK(reqs[q])

(* A name that is still to be looked up is registered with the type it was  *)
(* listed under, or moved says that it need not be.                         *)
Settled(q, n) == pxys[n] = Nil \/ pxys[n].type = Routes[reqs[q].page].type \/ <<q, n>> \in moved

ListInv ==
    \A q \in Req : Listed(q) =>
        \A n \in reqs[q].data.todo : n \in Name /\ Settled(q, n)

LEMMA VisitedFacts ==
    /\ "Overview" \in Visited
    /\ \A p \in Visited : p = "Overview" \/ p \in ListPage
  BY DashboardAssumption, RouteFacts

(* The steps of the server that the page does not see.                      *)
ServerStep ==
    \/ \E s \in Session, n \in Name : Unregister(s, n) \/ \E t \in Type : Register(s, n, t)
    \/ \E s \in Session : NewProxy(s) \/ CloseProxy(s)
    \/ \E old \in SUBSET Name : ClearUselessInfo(old)

LEMMA NextCases ==
    ASSUME Next
    PROVE  \/ ServerStep
           \/ \E q \in Req : APIServerInfo(q)
           \/ \E q \in Req : GetProxiesByType(q)
           \/ \E q \in Req, n \in Name : GetProxyStats(q, n)
           \/ \E q \in Req : ProxyStatsDone(q)
           \/ \E q \in Req : ShowOverview(q)
           \/ \E q \in Req : ShowPort(q)
           \/ \E q \in Req : ShowRows(q)
           \/ \E q \in Req : FetchFails(q)
           \/ \E q \in Req : RouteWatch(q)
           \/ \E q \in Req, p \in Visited : Select(p, q)
  BY DEF Next, ServerStep, Metrics, Handler, Show

LEMMA ServerStepFacts == ServerStep => UNCHANGED <<page, reqs, rows, port>>
  BY DEF ServerStep, Unregister, Register, NewProxy, CloseProxy, ClearUselessInfo, view

(* A step of one request that leaves the mounted page and its port alone.   *)
LEMMA OneRequest ==
    ASSUME ReqsInv, NEW q \in Req, NEW r,
           reqs' = [reqs EXCEPT ![q] = r], UNCHANGED <<page, port>>,
           r # Nil => RequestOK(r)
    PROVE  ReqsInv'
<1>1. \A x : RequestOK(x) => RequestOK(x)'
  BY DEF RequestOKAt, RequestOK, Fits
<1> QED BY <1>1 DEF ReqsInv

LEMMA PageStep == PageInv /\ ReqsInv /\ ListInv /\ [Next]_vars => PageInv' /\ ReqsInv'
<1> SUFFICES ASSUME PageInv, ReqsInv, ListInv, [Next]_vars PROVE PageInv' /\ ReqsInv'
  OBVIOUS
<1>1. ASSUME UNCHANGED <<page, rows>> PROVE PageInv'
  BY <1>1 DEF PageInv, Fits
<1>2. ASSUME UNCHANGED <<page, reqs, port>> PROVE ReqsInv'
  BY <1>2 DEF ReqsInv, RequestOKAt, RequestOK, Fits
<1>3. CASE UNCHANGED vars \/ ServerStep
  BY <1>1, <1>2, <1>3, ServerStepFacts DEF vars, view
<1>4. ASSUME NEW q \in Req, reqs[q] # Nil PROVE RequestOK(reqs[q])
  BY <1>4 DEF ReqsInv
<1>5. ASSUME NEW q \in Req, APIServerInfo(q) PROVE PageInv' /\ ReqsInv'
  <2> DEFINE r == [page |-> reqs[q].page, own |-> reqs[q].own, api |-> reqs[q].api,
                   at |-> "answered",
                   data |-> IF reqs[q].page = "Overview" THEN typeCount ELSE Nil]
  <2>1. reqs' = [reqs EXCEPT ![q] = r] /\ UNCHANGED <<page, rows, port>>
    BY <1>5 DEF APIServerInfo, view
  <2>2. RequestOK(r)
    BY <1>4, <1>5 DEF APIServerInfo, RequestOKAt, RequestOK
  <2> HIDE DEF r
  <2> QED BY <1>1, <2>1, <2>2, OneRequest
<1>6. ASSUME NEW q \in Req, GetProxiesByType(q) PROVE PageInv' /\ ReqsInv'
  <2>1. PICK names :
           /\ reqs' = [reqs EXCEPT ![q] = [page |-> reqs[q].page, own |-> reqs[q].own,
                                           api |-> reqs[q].api, at |-> "listed",
                                           data |-> [todo |-> names, rows |-> {}]]]
           /\ UNCHANGED <<page, rows, port>>
    BY <1>6 DEF GetProxiesByType, view
  <2> DEFINE r == [page |-> reqs[q].page, own |-> reqs[q].own, api |-> reqs[q].api,
                   at |-> "listed", data |-> [todo |-> names, rows |-> {}]]
  <2>2. RequestOK(r)
    BY <1>4, <1>6 DEF GetProxiesByType, RequestOKAt, RequestOK
  <2> HIDE DEF r
  <2> QED BY <1>1, <2>1, <2>2, OneRequest DEF r
<1>7. ASSUME NEW q \in Req, NEW n \in Name, GetProxyStats(q, n) PROVE PageInv' /\ ReqsInv'
  <2> DEFINE row == [name |-> n, conf |-> IF pxys[n] = Nil THEN Nil ELSE pxys[n].type,
                     port |-> Nil, moved |-> <<q, n>> \in moved]
  <2>1. PICK more : /\ more \subseteq {row}
                    /\ reqs' = [reqs EXCEPT ![q] =
                                   [page |-> reqs[q].page, own |-> reqs[q].own,
                                    api |-> reqs[q].api, at |-> "listed",
                                    data |-> [todo |-> reqs[q].data.todo \ {n},
                                              rows |-> reqs[q].data.rows \cup more]]]
                    /\ UNCHANGED <<page, rows, port>>
    BY <1>7 DEF GetProxyStats, view
  <2>2. reqs[q] # Nil /\ reqs[q].at = "listed" /\ Settled(q, n)
    BY <1>7 DEF GetProxyStats, Listed, ListInv
  <2>3. Fits(row, reqs[q].page)
    BY <2>2 DEF Settled, Fits
  <2> HIDE DEF row
  <2> DEFINE r == [page |-> reqs[q].page, own |-> reqs[q].own, api |-> reqs[q].api, at |-> "listed",
                   data |-> [todo |-> reqs[q].data.todo \ {n}, rows |-> reqs[q].data.rows \cup more]]
  <2>4. RequestOK(r)
    BY <1>4, <2>1, <2>2, <2>3 DEF RequestOKAt, RequestOK
  <2> HIDE DEF r
  <2> QED BY <1>1, <2>1, <2>4, OneRequest DEF r
<1>13. ASSUME NEW q \in Req, ProxyStatsDone(q) PROVE PageInv' /\ ReqsInv'
  <2> DEFINE r == [page |-> reqs[q].page, own |-> reqs[q].own, api |-> reqs[q].api,
                   at |-> "answered", data |-> reqs[q].data.rows]
  <2>1. reqs' = [reqs EXCEPT ![q] = r] /\ UNCHANGED <<page, rows, port>>
    BY <1>13 DEF ProxyStatsDone, view
  <2>2. RequestOK(r)
    BY <1>4, <1>13 DEF ProxyStatsDone, Listed, RequestOKAt, RequestOK
  <2> HIDE DEF r
  <2> QED BY <1>1, <2>1, <2>2, OneRequest
<1>8. ASSUME NEW q \in Req, ShowOverview(q) \/ FetchFails(q) PROVE PageInv' /\ ReqsInv'
  <2>1. reqs' = [reqs EXCEPT ![q] = Nil] /\ UNCHANGED <<page, rows, port>>
    BY <1>8 DEF ShowOverview, FetchFails, view
  <2> QED BY <1>1, <2>1, OneRequest
<1>9. ASSUME NEW q \in Req, ShowPort(q) PROVE PageInv' /\ ReqsInv'
  <2> DEFINE p == VhostPort[Routes[reqs[q].page].type]
             r == IF p = 0 THEN Nil ELSE Sent(reqs[q].page, reqs[q].own, "proxies")
  <2>1. /\ reqs' = [reqs EXCEPT ![q] = r]
        /\ port' = IF reqs[q].own THEN p ELSE port
        /\ UNCHANGED <<page, rows>>
        /\ reqs[q] # Nil /\ reqs[q].page # "Overview"
    BY <1>9 DEF ShowPort, Answered
  <2>2. RequestOK(reqs[q])
    BY <1>4, <2>1
  <2>3. r # Nil => RequestOKAt(r, page', port')
    BY <2>1, <2>2 DEF RequestOKAt, RequestOK, Sent
  <2>4. \A x : RequestOK(x) => RequestOKAt(x, page', port')
    BY <2>1, <2>2 DEF RequestOKAt, RequestOK
  <2> HIDE DEF r
  <2>5. ReqsInv'
    BY <2>1, <2>3, <2>4 DEF ReqsInv, RequestOK
  <2> QED BY <1>1, <2>1, <2>5
<1>10. ASSUME NEW q \in Req, ShowRows(q) PROVE PageInv' /\ ReqsInv'
  <2>1. /\ reqs' = [reqs EXCEPT ![q] = Nil] /\ UNCHANGED <<page, port>>
        /\ rows' = IF reqs[q].own THEN {WithPort(row, port) : row \in reqs[q].data} ELSE rows
        /\ reqs[q] # Nil /\ reqs[q].api = "proxies" /\ reqs[q].at = "answered"
    BY <1>10 DEF ShowRows, Answered
  <2>2. RequestOK(reqs[q])
    BY <1>4, <2>1
  <2>3. CASE ~reqs[q].own
    BY <1>1, <2>1, <2>3, OneRequest
  <2>4. CASE reqs[q].own
    <3>1. page = reqs[q].page /\ page # "Overview" /\ page \in Visited
      BY <2>1, <2>2, <2>4 DEF RequestOKAt, RequestOK
    <3>2. \A row \in rows' : Fits(row, page) /\ row.port = port
      BY <2>1, <2>2, <2>4, <3>1 DEF RequestOKAt, RequestOK, WithPort, Fits
    <3>3. Routes[page].vhost => port = VhostPort[Routes[page].type]
      BY <2>1, <2>2, <2>4, <3>1 DEF RequestOKAt, RequestOK
    <3>4. PageInv'
      BY <2>1, <3>1, <3>2, <3>3 DEF PageInv, Fits
    <3> QED BY <2>1, <3>4, OneRequest
  <2> QED BY <2>3, <2>4
<1>11. ASSUME NEW q \in Req, RouteWatch(q) PROVE PageInv' /\ ReqsInv'
  <2> DEFINE r == Sent(page, TRUE, FirstApi(page))
  <2>1. reqs' = [reqs EXCEPT ![q] = r] /\ UNCHANGED <<page, rows, port>>
    BY <1>11 DEF RouteWatch, view
  <2>2. RequestOK(r)
    BY DEF RequestOKAt, RequestOK, Sent, FirstApi, PageInv
  <2> HIDE DEF r
  <2> QED BY <1>1, <2>1, <2>2, OneRequest
<1>12. ASSUME NEW slot \in Req, NEW p \in Visited, Select(p, slot) PROVE PageInv' /\ ReqsInv'
  <2>1. PageInv'
    BY <1>12 DEF Select, PageInv
  <2>2. RequestOKAt(Sent(p, TRUE, FirstApi(p)), page', port')
    BY <1>12 DEF Select, RequestOKAt, RequestOK, Sent, FirstApi
  <2>3. ASSUME NEW q \in Req \ {slot}, reqs'[q] # Nil PROVE RequestOKAt(reqs'[q], page', port')
    <3>1. /\ reqs[q] # Nil
          /\ reqs'[q] = [page |-> reqs[q].page, own |-> FALSE, api |-> reqs[q].api,
                         at |-> reqs[q].at, data |-> reqs[q].data]
      BY <1>12, <2>3 DEF Select
    <3> QED BY <1>4, <3>1 DEF RequestOKAt, RequestOK
  <2>4. reqs'[slot] = Sent(p, TRUE, FirstApi(p)) /\ reqs' = [q \in Req |-> reqs'[q]]
    BY <1>12 DEF Select
  <2>5. ReqsInv'
    BY <2>2, <2>3, <2>4 DEF ReqsInv, RequestOK
  <2> QED BY <2>1, <2>5
<1> QED BY <1>3, <1>5, <1>6, <1>7, <1>8, <1>9, <1>10, <1>11, <1>12, <1>13, NextCases

LEMMA PageInit == Init => PageInv /\ ReqsInv
  BY VisitedFacts DEF Init, PageInv, ReqsInv, RequestOK, RequestOKAt, Sent

-----------------------------------------------------------------------------
(* The statistics.  A session that has still to report a proxy to the       *)
(* metrics owns the name, with the type it will report.                     *)
StatsInv ==
    /\ pxys = [n \in Name |-> pxys[n]]
    /\ job = [s \in Session |-> job[s]]
    /\ stats = [n \in Name |-> stats[n]]
    /\ \A s \in Session : job[s] # Nil => job[s].name \in Name
    /\ \A n \in Name : pxys[n] # Nil => pxys[n].owner \in Session
    /\ \A s \in Session, n \in Name : Reports(s, n) =>
          pxys[n] # Nil /\ pxys[n].owner = s /\ pxys[n].type = job[s].type
    /\ \A n \in Name : pxys[n] # Nil /\ stats[n] # Nil =>
          stats[n].type = pxys[n].type \/ Reports(pxys[n].owner, n)

LEMMA StatsInit == Init => StatsInv
  BY DEF Init, StatsInv, Reports

LEMMA StatsStep == StatsInv /\ [Next]_vars => StatsInv'
<1> SUFFICES ASSUME StatsInv, [Next]_vars PROVE StatsInv'
  OBVIOUS
<1> USE DEF Reports, StatsInv
<1>1. CASE UNCHANGED tables
  BY <1>1 DEF tables
<1>2. ASSUME NEW s \in Session, NEW n \in Name, NEW t \in Type, Register(s, n, t)
      PROVE  StatsInv'
  <2>1. [op |-> "NewProxy", name |-> n, type |-> t] # Nil /\ [type |-> t, owner |-> s] # Nil
    BY DashboardAssumption DEF Job, Registered
  <2> QED BY <1>2, <2>1 DEF Register
<1>3. ASSUME NEW s \in Session, NEW n \in Name, Unregister(s, n) PROVE StatsInv'
  BY <1>3 DEF Unregister
<1>4. ASSUME NEW s \in Session, NewProxy(s) PROVE StatsInv'
  BY <1>4 DEF NewProxy
<1>5. ASSUME NEW s \in Session, CloseProxy(s) PROVE StatsInv'
  BY <1>5 DEF CloseProxy
<1>6. ASSUME NEW old \in SUBSET Name, ClearUselessInfo(old) PROVE StatsInv'
  BY <1>6 DEF ClearUselessInfo
<1>7. UNCHANGED tables \/ ServerStep
  BY NextCases DEF vars, server, tables, APIServerInfo, GetProxiesByType, GetProxyStats, ProxyStatsDone,
     ShowOverview, ShowPort, ShowRows, FetchFails, RouteWatch, Select
<1> QED BY <1>1, <1>2, <1>3, <1>4, <1>5, <1>6, <1>7 DEF ServerStep

(* What is listed under a type has it, because its statistics do: unless    *)
(* the owner has not reported it, or it is registered anew before GetByName *)
(* asks for it.                                                             *)
LEMMA ListStep ==
    ASSUME StatsInv, ReqsInv, ListInv, [Next]_vars
    PROVE  ListInv'
<1> USE DEF ListInv, Listed, Settled
<1>1. reqs = [q \in Req |-> reqs[q]]
  BY DEF ReqsInv
<1>2. ASSUME UNCHANGED <<pxys, reqs, moved>> PROVE ListInv'
  BY <1>2
<1>3. ASSUME UNCHANGED pxys, NEW q \in Req, NEW r, reqs' = [reqs EXCEPT ![q] = r],
             r # Nil => r.at # "listed",
             \A p \in Req \ {q}, n \in Name : <<p, n>> \in moved => <<p, n>> \in moved'
      PROVE  ListInv'
  BY <1>1, <1>3
<1>4. CASE UNCHANGED vars
  BY <1>2, <1>4 DEF vars, server, tables
<1>5. ASSUME NEW s \in Session, NEW n \in Name, NEW t \in Type, Register(s, n, t) PROVE ListInv'
  <2>1. /\ reqs' = reqs
        /\ pxys' = [pxys EXCEPT ![n] = [type |-> t, owner |-> s]]
        /\ moved' = moved \cup {<<q, n>> : q \in {r \in Req : /\ Listed(r) /\ n \in reqs[r].data.todo
                                                            /\ Routes[reqs[r].page].type # t}}
    BY <1>5 DEF Register
  <2> SUFFICES ASSUME NEW q \in Req, Listed(q), NEW m \in reqs[q].data.todo
               PROVE  m \in Name /\ (\/ pxys'[m] = Nil
                                     \/ pxys'[m].type = Routes[reqs[q].page].type
                                     \/ <<q, m>> \in moved')
    BY <2>1
  <2>2. m \in Name /\ Settled(q, m) /\ pxys = [k \in Name |-> pxys[k]]
    BY DEF StatsInv
  <2>3. CASE m # n
    BY <2>1, <2>2, <2>3
  <2>4. CASE m = n
    <3>1. pxys'[m].type = t
      BY <2>1, <2>2, <2>4
    <3> QED BY <2>1, <2>2, <2>4, <3>1
  <2> QED BY <2>3, <2>4
<1>6. ASSUME NEW s \in Session, NEW n \in Name, Unregister(s, n) PROVE ListInv'
  BY <1>6 DEF Unregister, StatsInv
<1>7. ASSUME NEW s \in Session, NewProxy(s) \/ CloseProxy(s) PROVE ListInv'
  BY <1>2, <1>7 DEF NewProxy, CloseProxy
<1>8. ASSUME NEW old \in SUBSET Name, ClearUselessInfo(old) PROVE ListInv'
  BY <1>2, <1>8 DEF ClearUselessInfo
<1>9. ASSUME NEW q \in Req, GetProxiesByType(q) PROVE ListInv'
  <2>1. PICK t : t = Routes[reqs[q].page].type
    OBVIOUS
  <2>2. PICK names : names = {n \in Name : stats[n] # Nil /\ stats[n].type = t}
    OBVIOUS
  <2>3. /\ reqs' = [reqs EXCEPT ![q] = [page |-> reqs[q].page, own |-> reqs[q].own,
                                        api |-> reqs[q].api, at |-> "listed",
                                        data |-> [todo |-> names, rows |-> {}]]]
        /\ moved' = moved \cup
               {<<q, n>> : n \in {m \in names : pxys[m] # Nil /\ Reports(pxys[m].owner, m)}}
        /\ pxys' = pxys
    BY <1>9, <2>1, <2>2 DEF GetProxiesByType, tables
  <2>4. \A n \in names : /\ n \in Name
                         /\ \/ pxys[n] = Nil \/ pxys[n].type = t
                            \/ pxys[n] # Nil /\ Reports(pxys[n].owner, n)
    BY <2>2 DEF StatsInv
  <2>5. \A n \in names : pxys[n] = Nil \/ pxys[n].type = t \/ <<q, n>> \in moved'
    BY <2>3, <2>4
  <2> QED BY <1>1, <2>1, <2>3, <2>4, <2>5
<1>10. ASSUME NEW q \in Req, NEW n \in Name, GetProxyStats(q, n) PROVE ListInv'
  <2>1. PICK all : /\ reqs' = [reqs EXCEPT ![q] =
                                   [page |-> reqs[q].page, own |-> reqs[q].own,
                                    api |-> reqs[q].api, at |-> "listed",
                                    data |-> [todo |-> reqs[q].data.todo \ {n}, rows |-> all]]]
                   /\ moved' = moved \ {<<q, n>>} /\ pxys' = pxys
    BY <1>10 DEF GetProxyStats, tables
  <2> QED BY <1>1, <1>10, <2>1 DEF GetProxyStats
<1>11. ASSUME NEW q \in Req, APIServerInfo(q) PROVE ListInv'
  BY <1>3, <1>11 DEF APIServerInfo, server, tables
<1>12. ASSUME NEW q \in Req, ProxyStatsDone(q) PROVE ListInv'
  BY <1>3, <1>12 DEF ProxyStatsDone, server, tables
<1>13. ASSUME NEW q \in Req, ShowOverview(q) \/ ShowRows(q) \/ FetchFails(q) PROVE ListInv'
  BY <1>3, <1>13 DEF ShowOverview, ShowRows, FetchFails, server, tables
<1>14. ASSUME NEW q \in Req, ShowPort(q) PROVE ListInv'
  BY <1>3, <1>14 DEF ShowPort, Sent, server, tables
<1>15. ASSUME NEW q \in Req, RouteWatch(q) PROVE ListInv'
  BY <1>3, <1>15 DEF RouteWatch, Sent, server, tables
<1>16. ASSUME NEW slot \in Req, NEW p \in Visited, Select(p, slot) PROVE ListInv'
  <2>1. pxys' = pxys /\ moved' = moved
    BY <1>16 DEF Select, server, tables
  <2>2. \A q \in Req : Listed(q)' => /\ Listed(q) /\ reqs'[q].data = reqs[q].data
                                     /\ reqs'[q].page = reqs[q].page
    BY <1>16 DEF Select, Sent
  <2> QED BY <2>1, <2>2
<1> QED BY <1>4, <1>5, <1>6, <1>7, <1>8, <1>9, <1>10, <1>11, <1>12, <1>13, <1>14, <1>15, <1>16,
           NextCases DEF ServerStep

(* The history names requests and names.                                    *)
LEMMA MovedStep ==
    ASSUME moved \subseteq Req \X Name, [Next]_vars
    PROVE  moved' \subseteq Req \X Name
<1>1. CASE moved' \subseteq moved
  BY <1>1
<1>2. ASSUME NEW s \in Session, NEW n \in Name, NEW t \in Type, Register(s, n, t)
      PROVE  moved' \subseteq Req \X Name
  BY <1>2 DEF Register
<1>3. ASSUME NEW q \in Req, GetProxiesByType(q) PROVE moved' \subseteq Req \X Name
  BY <1>3 DEF GetProxiesByType
<1>4. \/ moved' \subseteq moved
      \/ \E s \in Session, n \in Name, t \in Type : Register(s, n, t)
      \/ \E q \in Req : GetProxiesByType(q)
  <2> USE DEF server, tables
  <2>1. CASE UNCHANGED vars
    BY <2>1 DEF vars
  <2>2. CASE ServerStep
    BY <2>2 DEF ServerStep, Unregister, NewProxy, CloseProxy, ClearUselessInfo
  <2> QED BY <2>1, <2>2, NextCases DEF APIServerInfo, GetProxyStats, ProxyStatsDone,
             ShowOverview, ShowPort, ShowRows, FetchFails, RouteWatch, Select
<1> QED BY <1>1, <1>2, <1>3, <1>4

LEMMA ListInit == Init => ListInv
  BY DEF Init, ListInv, Listed, Sent

LEMMA PageInvariant == Spec => [](StatsInv /\ PageInv /\ ReqsInv /\ ListInv)
<1>1. StatsInv /\ PageInv /\ ReqsInv /\ ListInv /\ [Next]_vars => ListInv'
  BY ListStep
<1> QED BY <1>1, PageInit, PageStep, StatsInit, StatsStep, ListInit, PTL DEF Spec

(* A list page shows no proxy of another type, except one that changed      *)
(* hands between the two tables APIProxyByType looks at: ShowRows hands the *)
(* rows to the component that asked, and the statistics it was listed by    *)
(* have the type of the proxy that is registered.                           *)
THEOREM RowsBelongCorrect == Spec => []RowsBelong
<1>1. PageInv => RowsBelong
  BY DEF PageInv, RowsBelong, Fits
<1> QED BY <1>1, PageInvariant, PTL

(* Each row of the http and the https page has the port that the first      *)
(* answer of fetchData (ShowPort) brought, in whatever order answers come.  *)
THEOREM RowsHavePortCorrect == Spec => []RowsHavePort
<1>1. PageInv => RowsHavePort
  BY DEF PageInv, RowsHavePort
<1> QED BY <1>1, PageInvariant, PTL

(* Whatever page of web/frps is open, its template shows only fields that   *)
(* its rows have, and reads only what server/dashboard_api.go sends.        *)
THEOREM ContractHoldsCorrect == Spec => []ContractHolds
<1>1. PageInv => ContractHolds
  BY VisitedFacts, RowContracts, OverviewContract DEF PageInv, ContractHolds, Contract
<1> QED BY <1>1, PageInvariant, PTL

(* The statistics of a name (serverMetrics.NewProxy) have the type of the   *)
(* proxy registered under it, once the session that owns it has reported    *)
(* it, for any number of sessions that hand names and types around.         *)
THEOREM StatsOfOwnerCorrect == Spec => []StatsOfOwner
<1>1. StatsInv => StatsOfOwner
  BY DEF StatsInv, StatsOfOwner, Reports
<1> QED BY <1>1, StatsInit, StatsStep, PTL DEF Spec

-----------------------------------------------------------------------------
(* The counters.  What is registered and what is still to be reported are   *)
(* finite, so the counter of a type is a difference of cardinalities.       *)
ServerType ==
    /\ pxys \in [Name -> Registered \cup {Nil}]
    /\ job \in [Session -> Job \cup {Nil}]
    /\ stats \in [Name -> Statistics \cup {Nil}]
    /\ typeCount \in [Type -> Int]

Exact(t) ==
    /\ IsFiniteSet(Online(t))
    /\ IsFiniteSet(Pending("NewProxy", t))
    /\ IsFiniteSet(Pending("CloseProxy", t))
    /\ typeCount[t] = Cardinality(Online(t)) - Cardinality(Pending("NewProxy", t))
                                             + Cardinality(Pending("CloseProxy", t))

CountInv == ServerType /\ \A t \in Type : Exact(t)

LEMMA CountInit == Init => CountInv
<1> SUFFICES ASSUME Init PROVE CountInv
  OBVIOUS
<1>1. ServerType
  BY DEF Init, ServerType
<1>2. ASSUME NEW t \in Type PROVE Exact(t)
  <2>1. Online(t) = {} /\ Pending("NewProxy", t) = {} /\ Pending("CloseProxy", t) = {}
    BY DEF Init, Online, Pending
  <2>2. typeCount[t] = 0
    BY DEF Init
  <2> QED BY <2>1, <2>2, FS_EmptySet DEF Exact
<1> QED BY <1>1, <1>2 DEF CountInv

LEMMA ExactType ==
    ASSUME NEW t \in Type, Exact(t)
    PROVE  /\ Cardinality(Online(t)) \in Nat
           /\ Cardinality(Pending("NewProxy", t)) \in Nat
           /\ Cardinality(Pending("CloseProxy", t)) \in Nat
  BY FS_CardinalityType DEF Exact

LEMMA ExactFrame ==
    ASSUME NEW t \in Type, Exact(t), typeCount'[t] = typeCount[t], Online(t)' = Online(t),
           Pending("NewProxy", t)' = Pending("NewProxy", t),
           Pending("CloseProxy", t)' = Pending("CloseProxy", t)
    PROVE  Exact(t)'
  BY DEF Exact

(* A step that moves the three cardinalities and the counter alike.          *)
LEMMA ExactMoves ==
    ASSUME NEW t \in Type, Exact(t), NEW a \in Int, NEW b \in Int, NEW c \in Int,
           IsFiniteSet(Online(t)'), Cardinality(Online(t)') = Cardinality(Online(t)) + a,
           IsFiniteSet(Pending("NewProxy", t)'),
           Cardinality(Pending("NewProxy", t)') = Cardinality(Pending("NewProxy", t)) + b,
           IsFiniteSet(Pending("CloseProxy", t)'),
           Cardinality(Pending("CloseProxy", t)') = Cardinality(Pending("CloseProxy", t)) + c,
           typeCount'[t] = typeCount[t] + (a - b + c)
    PROVE  Exact(t)'
<1>1. /\ Cardinality(Online(t)) \in Nat /\ Cardinality(Pending("NewProxy", t)) \in Nat
      /\ Cardinality(Pending("CloseProxy", t)) \in Nat
  BY ExactType
<1>2. typeCount'[t] = Cardinality(Online(t)') - Cardinality(Pending("NewProxy", t)')
                                              + Cardinality(Pending("CloseProxy", t)')
  <2>1. typeCount[t] = Cardinality(Online(t)) - Cardinality(Pending("NewProxy", t))
                                              + Cardinality(Pending("CloseProxy", t))
    BY DEF Exact
  <2> QED BY <1>1, <2>1
<1> QED BY <1>2 DEF Exact

LEMMA CountStep == CountInv /\ [Next]_vars => CountInv'
<1> SUFFICES ASSUME CountInv, [Next]_vars PROVE CountInv'
  OBVIOUS
<1>0. /\ ServerType /\ \A t \in Type : Exact(t)
      /\ Nil \notin Job /\ Nil \notin Registered
  BY DashboardAssumption DEF CountInv
<1>1. CASE UNCHANGED tables
  BY <1>0, <1>1, ExactFrame DEF tables, CountInv, ServerType, Online, Pending
<1>2. ASSUME NEW s \in Session, NEW n \in Name, NEW t \in Type, Register(s, n, t)
      PROVE  CountInv'
  <2> DEFINE j == [op |-> "NewProxy", name |-> n, type |-> t]  r == [type |-> t, owner |-> s]
  <2>1. j \in Job /\ j # Nil /\ r \in Registered /\ r # Nil
    BY <1>0 DEF Job, Registered
  <2>2. /\ job[s] = Nil /\ pxys[n] = Nil /\ UNCHANGED <<stats, typeCount>>
        /\ pxys' = [pxys EXCEPT ![n] = r] /\ job' = [job EXCEPT ![s] = j]
    BY <1>2 DEF Register
  <2>3. ServerType'
    BY <1>0, <2>1, <2>2 DEF ServerType
  <2>4. Exact(t)'
    <3>1. Online(t)' = Online(t) \cup {n} /\ n \notin Online(t)
      BY <1>0, <2>1, <2>2 DEF ServerType, Online
    <3>2. /\ Pending("NewProxy", t)' = Pending("NewProxy", t) \cup {s}
          /\ s \notin Pending("NewProxy", t)
          /\ Pending("CloseProxy", t)' = Pending("CloseProxy", t)
      BY <1>0, <2>1, <2>2 DEF ServerType, Pending
    <3>3. /\ IsFiniteSet(Online(t) \cup {n})
          /\ Cardinality(Online(t) \cup {n}) = Cardinality(Online(t)) + 1
      BY <1>0, <3>1, FS_AddElement DEF Exact
    <3>4. /\ IsFiniteSet(Pending("NewProxy", t) \cup {s})
          /\ Cardinality(Pending("NewProxy", t) \cup {s}) = Cardinality(Pending("NewProxy", t)) + 1
      BY <1>0, <3>2, FS_AddElement DEF Exact
    <3>5. /\ Cardinality(Online(t)) \in Nat /\ Cardinality(Pending("NewProxy", t)) \in Nat
          /\ Cardinality(Pending("CloseProxy", t)) \in Nat /\ typeCount[t] \in Int
      BY <1>0, ExactType DEF ServerType
    <3>6. IsFiniteSet(Online(t)') /\ Cardinality(Online(t)') = Cardinality(Online(t)) + 1
      BY <3>1, <3>3
    <3>7. IsFiniteSet(Pending("NewProxy", t)') /\ Cardinality(Pending("NewProxy", t)') = Cardinality(Pending("NewProxy", t)) + 1
      BY <3>2, <3>4
    <3>8. IsFiniteSet(Pending("CloseProxy", t)') /\ Cardinality(Pending("CloseProxy", t)') = Cardinality(Pending("CloseProxy", t)) + 0
      BY <1>0, <3>2, <3>5 DEF Exact
    <3>9. typeCount'[t] = typeCount[t] + (1 - 1 + 0)
      BY <2>2, <3>5
    <3> QED BY <1>0, <3>6, <3>7, <3>8, <3>9, ExactMoves
  <2>5. ASSUME NEW v \in Type \ {t} PROVE Exact(v)'
    <3>1. /\ Online(v)' = Online(v) /\ Pending("NewProxy", v)' = Pending("NewProxy", v)
          /\ Pending("CloseProxy", v)' = Pending("CloseProxy", v)
      BY <1>0, <2>1, <2>2 DEF ServerType, Online, Pending
    <3> QED BY <1>0, <2>2, <3>1, ExactFrame
  <2> QED BY <2>3, <2>4, <2>5 DEF CountInv
<1>3. ASSUME NEW s \in Session, NEW n \in Name, Unregister(s, n) PROVE CountInv'
  <2>0. PICK t \in Type : t = pxys[n].type
    BY <1>0, <1>3 DEF Unregister, ServerType, Registered
  <2> DEFINE j == [op |-> "CloseProxy", name |-> n, type |-> t]
  <2>1. j \in Job /\ j # Nil
    BY <1>0 DEF Job
  <2>2. /\ job[s] = Nil /\ pxys[n] # Nil /\ UNCHANGED <<stats, typeCount>>
        /\ pxys' = [pxys EXCEPT ![n] = Nil] /\ job' = [job EXCEPT ![s] = j]
    BY <1>3, <2>0 DEF Unregister
  <2>3. ServerType'
    BY <1>0, <2>1, <2>2 DEF ServerType
  <2>4. Exact(t)'
    <3>1. Online(t)' = Online(t) \ {n} /\ n \in Online(t)
      BY <1>0, <2>0, <2>2 DEF ServerType, Online
    <3>2. /\ Pending("CloseProxy", t)' = Pending("CloseProxy", t) \cup {s}
          /\ s \notin Pending("CloseProxy", t)
          /\ Pending("NewProxy", t)' = Pending("NewProxy", t)
      BY <1>0, <2>1, <2>2 DEF ServerType, Pending
    <3>3. /\ IsFiniteSet(Online(t) \ {n})
          /\ Cardinality(Online(t) \ {n}) = Cardinality(Online(t)) - 1
      BY <1>0, <2>1, <3>1, FS_RemoveElement DEF Exact
    <3>4. /\ IsFiniteSet(Pending("CloseProxy", t) \cup {s})
          /\ Cardinality(Pending("CloseProxy", t) \cup {s})
               = Cardinality(Pending("CloseProxy", t)) + 1
      BY <1>0, <2>1, <3>2, FS_AddElement DEF Exact
    <3>5. /\ Cardinality(Online(t)) \in Nat /\ Cardinality(Pending("NewProxy", t)) \in Nat
          /\ Cardinality(Pending("CloseProxy", t)) \in Nat /\ typeCount[t] \in Int
      BY <1>0, ExactType DEF ServerType
    <3>6. IsFiniteSet(Online(t)') /\ Cardinality(Online(t)') = Cardinality(Online(t)) + (-1)
      BY <3>1, <3>3, <3>5
    <3>7. IsFiniteSet(Pending("NewProxy", t)') /\ Cardinality(Pending("NewProxy", t)') = Cardinality(Pending("NewProxy", t)) + 0
      BY <1>0, <3>2, <3>5 DEF Exact
    <3>8. IsFiniteSet(Pending("CloseProxy", t)') /\ Cardinality(Pending("CloseProxy", t)') = Cardinality(Pending("CloseProxy", t)) + 1
      BY <3>2, <3>4
    <3>9. typeCount'[t] = typeCount[t] + ((-1) - 0 + 1)
      BY <2>2, <3>5
    <3> QED BY <1>0, <3>6, <3>7, <3>8, <3>9, ExactMoves
  <2>5. ASSUME NEW v \in Type \ {t} PROVE Exact(v)'
    <3>1. /\ Online(v)' = Online(v) /\ Pending("NewProxy", v)' = Pending("NewProxy", v)
          /\ Pending("CloseProxy", v)' = Pending("CloseProxy", v)
      BY <1>0, <2>0, <2>1, <2>2 DEF ServerType, Online, Pending
    <3> QED BY <1>0, <2>2, <3>1, ExactFrame
  <2> QED BY <2>3, <2>4, <2>5 DEF CountInv
<1>4. ASSUME NEW s \in Session, NewProxy(s) \/ CloseProxy(s) PROVE CountInv'
  <2>0. PICK t \in Type, op \in {"NewProxy", "CloseProxy"} : t = job[s].type /\ op = job[s].op
    BY <1>0, <1>4 DEF NewProxy, CloseProxy, ServerType, Job
  <2> DEFINE d == IF op = "NewProxy" THEN 1 ELSE 0 - 1
  <2>1. /\ job[s] # Nil /\ pxys' = pxys
        /\ typeCount' = [typeCount EXCEPT ![t] = @ + d] /\ job' = [job EXCEPT ![s] = Nil]
    BY <1>0, <1>4, <2>0 DEF NewProxy, CloseProxy, ServerType
  <2>2. job[s].name \in Name /\ d \in Int
    BY <1>0, <2>1 DEF ServerType, Job
  <2>3. ServerType'
    <3>1. stats' \in [Name -> Statistics \cup {Nil}]
      <4>1. [type |-> t, last |-> "started"] \in Statistics
        BY DEF Statistics
      <4>2. \A x \in Statistics : [type |-> x.type, last |-> "closed"] \in Statistics
        BY DEF Statistics
      <4> QED BY <1>0, <1>4, <2>0, <2>2, <4>1, <4>2 DEF NewProxy, CloseProxy, ServerType
    <3> HIDE DEF d
    <3> QED BY <1>0, <2>1, <2>2, <3>1 DEF ServerType
  <2>4. Exact(t)'
    <3>1. Online(t)' = Online(t) /\ typeCount'[t] = typeCount[t] + d
      BY <1>0, <2>1 DEF ServerType, Online
    <3>2. /\ Pending(op, t)' = Pending(op, t) \ {s} /\ s \in Pending(op, t)
          /\ \A o \in {"NewProxy", "CloseProxy"} \ {op} : Pending(o, t)' = Pending(o, t)
      BY <1>0, <2>0, <2>1 DEF ServerType, Pending
    <3>3. /\ IsFiniteSet(Pending(op, t) \ {s})
          /\ Cardinality(Pending(op, t) \ {s}) = Cardinality(Pending(op, t)) - 1
      BY <1>0, <3>2, FS_RemoveElement DEF Exact
    <3>4. /\ Cardinality(Online(t)) \in Nat /\ Cardinality(Pending("NewProxy", t)) \in Nat
          /\ Cardinality(Pending("CloseProxy", t)) \in Nat /\ typeCount[t] \in Int
      BY <1>0, ExactType DEF ServerType
    <3>5. CASE op = "NewProxy"
      <4>1. /\ Pending("NewProxy", t)' = Pending("NewProxy", t) \ {s}
            /\ Pending("CloseProxy", t)' = Pending("CloseProxy", t) /\ d = 1
        BY <3>2, <3>5
      <4>2. IsFiniteSet(Online(t)') /\ Cardinality(Online(t)') = Cardinality(Online(t)) + 0
        BY <1>0, <3>1, <3>4 DEF Exact
      <4>3. IsFiniteSet(Pending("NewProxy", t)') /\ Cardinality(Pending("NewProxy", t)') = Cardinality(Pending("NewProxy", t)) + (-1)
        BY <3>3, <3>4, <3>5, <4>1
      <4>4. IsFiniteSet(Pending("CloseProxy", t)') /\ Cardinality(Pending("CloseProxy", t)') = Cardinality(Pending("CloseProxy", t)) + 0
        BY <1>0, <3>4, <4>1 DEF Exact
      <4>5. typeCount'[t] = typeCount[t] + (0 - (-1) + 0)
        BY <3>1, <3>4, <4>1
      <4> HIDE DEF d
      <4>6. Exact(t) /\ 0 \in Int /\ -1 \in Int
        BY <1>0
      <4> QED BY <4>2, <4>3, <4>4, <4>5, <4>6, ExactMoves
    <3>6. CASE op = "CloseProxy"
      <4>1. /\ Pending("CloseProxy", t)' = Pending("CloseProxy", t) \ {s}
            /\ Pending("NewProxy", t)' = Pending("NewProxy", t) /\ d = 0 - 1
        BY <3>2, <3>6
      <4>2. IsFiniteSet(Online(t)') /\ Cardinality(Online(t)') = Cardinality(Online(t)) + 0
        BY <1>0, <3>1, <3>4 DEF Exact
      <4>3. IsFiniteSet(Pending("NewProxy", t)') /\ Cardinality(Pending("NewProxy", t)') = Cardinality(Pending("NewProxy", t)) + 0
        BY <1>0, <3>4, <4>1 DEF Exact
      <4>4. IsFiniteSet(Pending("CloseProxy", t)') /\ Cardinality(Pending("CloseProxy", t)') = Cardinality(Pending("CloseProxy", t)) + (-1)
        BY <3>3, <3>4, <3>6, <4>1
      <4>5. typeCount'[t] = typeCount[t] + (0 - 0 + (-1))
        BY <3>1, <3>4, <4>1
      <4> HIDE DEF d
      <4>6. Exact(t) /\ 0 \in Int /\ -1 \in Int
        BY <1>0
      <4> QED BY <4>2, <4>3, <4>4, <4>5, <4>6, ExactMoves
    <3> QED BY <3>5, <3>6
  <2>5. ASSUME NEW v \in Type \ {t} PROVE Exact(v)'
    <3>1. /\ Online(v)' = Online(v) /\ Pending("NewProxy", v)' = Pending("NewProxy", v)
          /\ Pending("CloseProxy", v)' = Pending("CloseProxy", v)
          /\ typeCount'[v] = typeCount[v]
      BY <1>0, <2>0, <2>1 DEF ServerType, Online, Pending
    <3> QED BY <1>0, <3>1, ExactFrame
  <2> QED BY <2>3, <2>4, <2>5 DEF CountInv
<1>5. ASSUME NEW old \in SUBSET Name, ClearUselessInfo(old) PROVE CountInv'
  <2>1. ServerType'
    BY <1>0, <1>5 DEF ClearUselessInfo, ServerType
  <2>2. ASSUME NEW t \in Type PROVE Exact(t)'
    BY <1>0, <1>5, ExactFrame DEF ClearUselessInfo, Online, Pending
  <2> QED BY <2>1, <2>2 DEF CountInv
<1>6. UNCHANGED tables \/ ServerStep
  BY NextCases DEF vars, server, tables, APIServerInfo, GetProxiesByType, GetProxyStats, ProxyStatsDone,
     ShowOverview, ShowPort, ShowRows, FetchFails, RouteWatch, Select
<1> QED BY <1>1, <1>2, <1>3, <1>4, <1>5, <1>6 DEF ServerStep

(* The counters of the metrics are exact but for the calls still to come,   *)
(* for any number of sessions and names: NewProxy and CloseProxy count the  *)
(* type of the call, not that of the entry, so cleared entries lose nothing. *)
THEOREM CountsExactCorrect == Spec => []CountsExact
<1>1. CountInv => CountsExact
  BY DEF CountInv, Exact, CountsExact
<1> QED BY <1>1, CountInit, CountStep, PTL DEF Spec

(* No counter is negative: a session that has still to report a proxy has   *)
(* that proxy online, and no two sessions report the same one.              *)
LEMMA CountsNatural ==
    ASSUME CountInv, StatsInv
    PROVE  typeCount \in [Type -> Nat]
<1>1. ASSUME NEW t \in Type PROVE typeCount[t] \in Nat
  <2> DEFINE P == Pending("NewProxy", t)  f == [s \in P |-> job[s].name]
  <2>1. Exact(t) /\ ServerType
    BY DEF CountInv
  <2>2. \A s \in P : /\ s \in Session /\ job[s].name \in Name
                     /\ pxys[job[s].name] # Nil /\ pxys[job[s].name].owner = s
                     /\ pxys[job[s].name].type = t
    BY DEF Pending, StatsInv, Reports
  <2>3. f \in [P -> Online(t)]
    BY <2>2 DEF Online
  <2>4. \A s, r \in P : s # r => f[s] # f[r]
    BY <2>2
  <2>5. f \in Injection(P, Online(t))
    BY <2>3, <2>4 DEF Injection, IsInjective
  <2>6. Cardinality(P) <= Cardinality(Online(t))
    BY <2>1, <2>5, FS_Injection DEF Exact
  <2> HIDE DEF P
  <2> QED BY <2>1, <2>6, ExactType DEF Exact, P
<1> QED BY <1>1 DEF CountInv, ServerType

-----------------------------------------------------------------------------
(* The pages.  What a request in flight carries at each of its stages.      *)
Carries(r) ==
    /\ r.api \in {"serverinfo", "proxies"}
    /\ r.api = "serverinfo" /\ r.page # "Overview" => Routes[r.page].vhost
    /\ r.at = "listed" => r.api = "proxies" /\ r.data.rows \subseteq Row
    /\ r.at = "answered" /\ r.api = "proxies" => r.data \subseteq Row
    /\ r.at = "answered" /\ r.api = "serverinfo" /\ r.page = "Overview" =>
          r.data \in [Type -> Nat]

CarryInv == \A q \in Req : reqs[q] # Nil => Carries(reqs[q])

ViewInv ==
    /\ rows \subseteq Row
    /\ port \in Nat \cup {Nil}
    /\ counts \in Nat \cup {Nil}
    /\ page # "Overview" => counts = Nil /\ pie = Nil
    /\ page = "Overview" => rows = {} /\ port = Nil
    /\ CountsAgree

LEMMA VhostFacts ==
    \A p \in Visited : p # "Overview" /\ Routes[p].vhost => VhostPort[Routes[p].type] \in Nat
<1>1. \A p \in ListPage : Routes[p].vhost => Routes[p].type \in {"http", "https"}
  BY RouteFacts
  DEF ListPage, ProxiesTcp, ProxiesUdp, ProxiesHttp, ProxiesHttps, ProxiesStcp, ProxiesSudp
<1>2. VhostPort \in [{"http", "https"} -> Nat]
  BY DashboardAssumption
<1> QED BY <1>1, <1>2, VisitedFacts

(* The slices of the chart are the types that add to the number.            *)
LEMMA TotalSlices ==
    ASSUME NEW count \in [Type -> Nat]
    PROVE  /\ Total(count) \in Nat
           /\ Total(Slices(count)) = Total(count)
           /\ DOMAIN Slices(count) \subseteq Counted
<1>1. \A t : Num(count, t) \in Nat
  BY DEF Num
<1>2. DOMAIN Slices(count) = {t \in Counted \cap DOMAIN count : count[t] # 0}
  BY DEF Slices, Restrict
<1>3. ASSUME NEW t \in Counted PROVE Num(Slices(count), t) = Num(count, t)
  <2>1. CASE t \in DOMAIN Slices(count)
    BY <1>2, <2>1 DEF Num, Slices, Restrict
  <2>2. CASE t \notin DOMAIN Slices(count)
    BY <1>2, <2>2 DEF Num
  <2> QED BY <2>1, <2>2
<1>4. Total(count) \in Nat
  BY <1>1 DEF Total
<1>5. /\ Num(Slices(count), "tcp") = Num(count, "tcp")
      /\ Num(Slices(count), "udp") = Num(count, "udp")
      /\ Num(Slices(count), "http") = Num(count, "http")
      /\ Num(Slices(count), "https") = Num(count, "https")
      /\ Num(Slices(count), "stcp") = Num(count, "stcp")
      /\ Num(Slices(count), "sudp") = Num(count, "sudp")
      /\ Num(Slices(count), "xtcp") = Num(count, "xtcp")
  BY <1>3 DEF Counted
<1>6. Total(Slices(count)) = Total(count)
  BY <1>5 DEF Total
<1> QED BY <1>2, <1>4, <1>6

(* A step of one request.                                                    *)
LEMMA OneCarries ==
    ASSUME ReqsInv, CarryInv, NEW q \in Req, NEW r, reqs' = [reqs EXCEPT ![q] = r],
           r # Nil => Carries(r)
    PROVE  CarryInv'
  BY DEF ReqsInv, CarryInv

LEMMA ViewFrame ==
    ASSUME ViewInv, UNCHANGED <<page, rows, port, counts, pie>>
    PROVE  ViewInv'
  BY DEF ViewInv, CountsAgree

LEMMA ServerStepView == ServerStep => UNCHANGED <<page, reqs, rows, port, counts, pie>>
  BY DEF ServerStep, Unregister, Register, NewProxy, CloseProxy, ClearUselessInfo, view

LEMMA ViewStep ==
    ASSUME CountInv, StatsInv, PageInv, ReqsInv, CarryInv, ViewInv, [Next]_vars
    PROVE  CarryInv' /\ ViewInv'
<1>1. ASSUME UNCHANGED reqs PROVE CarryInv'
  BY <1>1 DEF CarryInv
<1>2. CASE UNCHANGED vars \/ ServerStep
  BY <1>1, <1>2, ServerStepView, ViewFrame DEF vars, view
<1>3. ASSUME NEW q \in Req, reqs[q] # Nil PROVE Carries(reqs[q]) /\ RequestOK(reqs[q])
  BY <1>3 DEF CarryInv, ReqsInv
<1>4. ASSUME NEW q \in Req, APIServerInfo(q) PROVE CarryInv' /\ ViewInv'
  <2> DEFINE r == [page |-> reqs[q].page, own |-> reqs[q].own, api |-> reqs[q].api,
                   at |-> "answered",
                   data |-> IF reqs[q].page = "Overview" THEN typeCount ELSE Nil]
  <2>1. /\ reqs' = [reqs EXCEPT ![q] = r] /\ UNCHANGED <<page, rows, port, counts, pie>>
        /\ reqs[q] # Nil /\ reqs[q].api = "serverinfo"
    BY <1>4 DEF APIServerInfo, view
  <2>2. Carries(r)
    BY <1>3, <2>1, CountsNatural DEF Carries
  <2> HIDE DEF r
  <2> QED BY <2>1, <2>2, OneCarries, ViewFrame
<1>5. ASSUME NEW q \in Req, GetProxiesByType(q) PROVE CarryInv' /\ ViewInv'
  <2>1. PICK names :
           /\ reqs' = [reqs EXCEPT ![q] = [page |-> reqs[q].page, own |-> reqs[q].own,
                                           api |-> reqs[q].api, at |-> "listed",
                                           data |-> [todo |-> names, rows |-> {}]]]
           /\ UNCHANGED <<page, rows, port, counts, pie>>
           /\ reqs[q] # Nil /\ reqs[q].api = "proxies"
    BY <1>5 DEF GetProxiesByType, view
  <2> DEFINE r == [page |-> reqs[q].page, own |-> reqs[q].own, api |-> reqs[q].api,
                   at |-> "listed", data |-> [todo |-> names, rows |-> {}]]
  <2>3. Carries(r)
    BY <1>3, <2>1 DEF Carries
  <2> HIDE DEF r
  <2> QED BY <2>1, <2>3, OneCarries, ViewFrame DEF r
<1>6. ASSUME NEW q \in Req, NEW n \in Name, GetProxyStats(q, n) PROVE CarryInv' /\ ViewInv'
  <2> DEFINE row == [name |-> n, conf |-> IF pxys[n] = Nil THEN Nil ELSE pxys[n].type,
                     port |-> Nil, moved |-> <<q, n>> \in moved]
  <2>1. PICK more : /\ more \subseteq {row}
                    /\ reqs' = [reqs EXCEPT ![q] =
                                   [page |-> reqs[q].page, own |-> reqs[q].own,
                                    api |-> reqs[q].api, at |-> "listed",
                                    data |-> [todo |-> reqs[q].data.todo \ {n},
                                              rows |-> reqs[q].data.rows \cup more]]]
                    /\ UNCHANGED <<page, rows, port, counts, pie>>
    BY <1>6 DEF GetProxyStats, view
  <2>2. reqs[q] # Nil /\ reqs[q].at = "listed"
    BY <1>6 DEF GetProxyStats, Listed
  <2>3. row \in Row
    <3>1. (IF pxys[n] = Nil THEN Nil ELSE pxys[n].type) \in Type \cup {Nil}
      BY DEF CountInv, ServerType, Registered
    <3>2. (<<q, n>> \in moved) \in BOOLEAN
      OBVIOUS
    <3> QED BY <3>1, <3>2 DEF Row
  <2> HIDE DEF row
  <2> DEFINE r == [page |-> reqs[q].page, own |-> reqs[q].own, api |-> reqs[q].api, at |-> "listed",
                   data |-> [todo |-> reqs[q].data.todo \ {n}, rows |-> reqs[q].data.rows \cup more]]
  <2>4. Carries(r)
    BY <1>3, <2>1, <2>2, <2>3 DEF Carries
  <2> HIDE DEF r
  <2> QED BY <2>1, <2>4, OneCarries, ViewFrame DEF r
<1>13. ASSUME NEW q \in Req, ProxyStatsDone(q) PROVE CarryInv' /\ ViewInv'
  <2> DEFINE r == [page |-> reqs[q].page, own |-> reqs[q].own, api |-> reqs[q].api,
                   at |-> "answered", data |-> reqs[q].data.rows]
  <2>1. /\ reqs' = [reqs EXCEPT ![q] = r] /\ UNCHANGED <<page, rows, port, counts, pie>>
        /\ reqs[q] # Nil /\ reqs[q].at = "listed"
    BY <1>13 DEF ProxyStatsDone, Listed, view
  <2>2. Carries(r)
    BY <1>3, <2>1 DEF Carries
  <2> HIDE DEF r
  <2> QED BY <2>1, <2>2, OneCarries, ViewFrame
<1>7. ASSUME NEW q \in Req, FetchFails(q) PROVE CarryInv' /\ ViewInv'
  BY <1>7, OneCarries, ViewFrame DEF FetchFails, view
<1>8. ASSUME NEW q \in Req, ShowOverview(q) PROVE CarryInv' /\ ViewInv'
  <2> DEFINE c == reqs[q].data
  <2>1. /\ reqs' = [reqs EXCEPT ![q] = Nil] /\ UNCHANGED <<page, rows, port>>
        /\ reqs[q] # Nil /\ reqs[q].api = "serverinfo" /\ reqs[q].at = "answered"
        /\ reqs[q].page = "Overview"
        /\ counts' = IF reqs[q].own THEN Total(c) ELSE counts
        /\ pie' = IF page # "Overview" THEN pie
                  ELSE [own |-> reqs[q].own, slices |-> Slices(c)]
    BY <1>8 DEF ShowOverview, Answered, ProxyCounts
  <2>2. c \in [Type -> Nat] /\ (reqs[q].own => page = "Overview")
    BY <1>3, <2>1 DEF Carries, RequestOK, RequestOKAt
  <2>3. /\ Total(c) \in Nat /\ Total(Slices(c)) = Total(c) /\ DOMAIN Slices(c) \subseteq Counted
    BY <2>2, TotalSlices
  <2>4. counts' \in Nat \cup {Nil} /\ (page # "Overview" => counts' = Nil /\ pie' = Nil)
    BY <2>1, <2>2, <2>3 DEF ViewInv
  <2>5. CountsAgree'
    <3>1. CASE page # "Overview"
      BY <2>4, <3>1, <2>1 DEF CountsAgree
    <3>2. CASE page = "Overview"
      <4>1. pie'.own = reqs[q].own /\ pie'.slices = Slices(c)
        BY <2>1, <3>2
      <4>2. reqs[q].own => counts' = Total(c)
        BY <2>1
      <4> HIDE DEF c
      <4> QED BY <2>3, <4>1, <4>2 DEF CountsAgree
    <3> QED BY <3>1, <3>2
  <2>6. ViewInv'
    BY <2>1, <2>4, <2>5 DEF ViewInv
  <2> QED BY <2>1, <2>6, OneCarries
<1>9. ASSUME NEW q \in Req, ShowPort(q) PROVE CarryInv' /\ ViewInv'
  <2> DEFINE p == VhostPort[Routes[reqs[q].page].type]
             r == IF p = 0 THEN Nil ELSE Sent(reqs[q].page, reqs[q].own, "proxies")
  <2>1. /\ reqs' = [reqs EXCEPT ![q] = r] /\ UNCHANGED <<page, rows, counts, pie>>
        /\ port' = IF reqs[q].own THEN p ELSE port
        /\ reqs[q] # Nil /\ reqs[q].api = "serverinfo" /\ reqs[q].page # "Overview"
    BY <1>9 DEF ShowPort, Answered
  <2>2. p \in Nat /\ (reqs[q].own => page # "Overview")
    BY <1>3, <2>1, VhostFacts DEF Carries, RequestOK, RequestOKAt
  <2>3. r # Nil => Carries(r)
    BY <2>1 DEF Carries, Sent
  <2> HIDE DEF r, p
  <2>4. ViewInv'
    BY <2>1, <2>2 DEF ViewInv, CountsAgree
  <2> QED BY <2>1, <2>3, <2>4, OneCarries
<1>10. ASSUME NEW q \in Req, ShowRows(q) PROVE CarryInv' /\ ViewInv'
  <2>1. /\ reqs' = [reqs EXCEPT ![q] = Nil] /\ UNCHANGED <<page, port, counts, pie>>
        /\ rows' = IF reqs[q].own THEN {WithPort(row, port) : row \in reqs[q].data} ELSE rows
        /\ reqs[q] # Nil /\ reqs[q].api = "proxies" /\ reqs[q].at = "answered"
    BY <1>10 DEF ShowRows, Answered
  <2>2. reqs[q].data \subseteq Row /\ (reqs[q].own => page # "Overview")
    BY <1>3, <2>1 DEF Carries, RequestOK, RequestOKAt
  <2>3. port \in Nat \cup {Nil}
    BY DEF ViewInv
  <2>4. \A row \in Row : WithPort(row, port) \in Row
    BY <2>3 DEF WithPort, Row
  <2>5. rows' \subseteq Row /\ (page = "Overview" => rows' = {})
    BY <2>1, <2>2, <2>4 DEF ViewInv
  <2>6. ViewInv'
    BY <2>1, <2>5 DEF ViewInv, CountsAgree
  <2> QED BY <2>1, <2>6, OneCarries
<1>11. ASSUME NEW q \in Req, RouteWatch(q) PROVE CarryInv' /\ ViewInv'
  <2> DEFINE r == Sent(page, TRUE, FirstApi(page))
  <2>1. reqs' = [reqs EXCEPT ![q] = r] /\ UNCHANGED <<page, rows, port, counts, pie>>
    BY <1>11 DEF RouteWatch, view
  <2>2. Carries(r)
    BY DEF Carries, Sent, FirstApi
  <2> HIDE DEF r
  <2> QED BY <2>1, <2>2, OneCarries, ViewFrame
<1>12. ASSUME NEW slot \in Req, NEW p \in Visited, Select(p, slot) PROVE CarryInv' /\ ViewInv'
  <2>1. ViewInv'
    BY <1>12 DEF Select, ViewInv, CountsAgree
  <2>2. Carries(Sent(p, TRUE, FirstApi(p)))
    BY DEF Carries, Sent, FirstApi
  <2>3. reqs'[slot] = Sent(p, TRUE, FirstApi(p))
    BY <1>12 DEF Select
  <2>4. ASSUME NEW q \in Req \ {slot}, reqs'[q] # Nil PROVE Carries(reqs'[q])
    <3>1. /\ reqs[q] # Nil
          /\ reqs'[q] = [page |-> reqs[q].page, own |-> FALSE, api |-> reqs[q].api,
                         at |-> reqs[q].at, data |-> reqs[q].data]
      BY <1>12, <2>4 DEF Select
    <3> QED BY <1>3, <3>1 DEF Carries
  <2>5. CarryInv'
    BY <2>2, <2>3, <2>4 DEF CarryInv
  <2> QED BY <2>1, <2>5
<1> QED BY <1>2, <1>4, <1>5, <1>6, <1>7, <1>8, <1>9, <1>10, <1>11, <1>12, <1>13, NextCases

LEMMA ViewInit == Init => CarryInv /\ ViewInv
<1> SUFFICES ASSUME Init PROVE CarryInv /\ ViewInv
  OBVIOUS
<1>1. CarryInv
  BY DEF Init, CarryInv, Carries, Sent
<1>2. ViewInv
  BY DEF Init, ViewInv, CountsAgree
<1> QED BY <1>1, <1>2

AllInv ==
    /\ CountInv /\ StatsInv /\ PageInv /\ ReqsInv /\ ListInv /\ CarryInv /\ ViewInv
    /\ moved \subseteq Req \X Name

LEMMA ViewInvariant == Spec => []AllInv
<1>1. Init => AllInv
  BY CountInit, StatsInit, PageInit, ListInit, ViewInit DEF AllInv, Init
<1>2. AllInv /\ [Next]_vars => AllInv'
  BY CountStep, StatsStep, PageStep, ListStep, ViewStep, MovedStep DEF AllInv
<1> QED BY <1>1, <1>2, PTL DEF Spec

(* The number of proxies in the text of the Overview and its chart come     *)
(* from one answer, and fetchData and DrawProxyChart count the same types.  *)
THEOREM CountsAgreeCorrect == Spec => []CountsAgree
<1>1. AllInv => CountsAgree
  BY DEF AllInv, ViewInv
<1> QED BY <1>1, ViewInvariant, PTL

(* Types of the server and of the pages: no counter is ever negative, a     *)
(* request belongs to the page that is mounted or to none, and a list page  *)
(* has no chart and the Overview no rows.                                   *)
THEOREM TypeCorrect == Spec => []TypeOK
<1>1. AllInv => TypeOK
  <2> SUFFICES ASSUME CountInv, StatsInv, PageInv, ReqsInv, CarryInv, ViewInv,
                      moved \subseteq Req \X Name
               PROVE  TypeOK
    BY DEF AllInv
  <2>1. /\ pxys \in [Name -> Registered \cup {Nil}]
        /\ job \in [Session -> Job \cup {Nil}]
        /\ stats \in [Name -> Statistics \cup {Nil}]
        /\ typeCount \in [Type -> Nat]
    BY CountsNatural DEF CountInv, ServerType
  <2>2. page \in Visited /\ DOMAIN reqs = Req
    BY DEF PageInv, ReqsInv
  <2>3. \A q \in Req : reqs[q] # Nil =>
          /\ reqs[q].page \in Visited
          /\ reqs[q].own => reqs[q].page = page
          /\ reqs[q].page = "Overview" => reqs[q].api = "serverinfo"
    BY DEF ReqsInv, RequestOK, RequestOKAt, CarryInv, Carries
  <2> QED BY <2>1, <2>2, <2>3 DEF TypeOK, ViewInv
<1> QED BY <1>1, ViewInvariant, PTL
=============================================================================
