------------------------- MODULE AdminConfig_proofs -------------------------
(***************************************************************************)
(* What happens to the token and to the configuration in force, for any    *)
(* number of uploads and requests, any files and any template engine.      *)
(***************************************************************************)
EXTENDS AdminConfig, TLAPS

(* The shapes the argument needs.                                           *)
Shapes ==
    /\ srv \in [Upload -> Stage]
    /\ content \in [Upload -> Text]
    /\ file \in Text
    /\ parsed = [u \in Upload |-> parsed[u]]

(* The token of the file is in no text of the page, ...                     *)
PageSealed ==
    /\ textarea \in Text /\ textarea.token # "secret"
    /\ fetches = [f \in Fetch |-> fetches[f]]
    /\ \A f \in Fetch : fetches[f] # Nil =>
          fetches[f].text \in Text /\ fetches[f].text.token # "secret"

(* ... and a token of the page in none that is about to be written.         *)
FileSealed ==
    /\ \A u \in Upload : srv[u] \in {"read", "truncated"} => content[u].token # "typed"
    /\ file.token # "typed"

(* Without overlap, what is about to be written has the token behind its    *)
(* [common] row, because the file had it when it was read.                  *)
KeptInv ==
    ~overlap /\ ~tokenless =>
        /\ (\A u \in Upload : srv[u] # "truncated") => file.token = "secret"
        /\ \A u \in Upload : srv[u] \in {"read", "truncated"} /\ content[u].common
                                => content[u].token = "secret"

(* Without overlap, the file does not change between its parse and its      *)
(* application, nor after that without the end of settled.                  *)
ForceInv ==
    ~overlap =>
        /\ settled => running = Rendered(file.body)
        /\ \A u \in Upload : srv[u] = "parsed" => parsed[u] = Rendered(file.body)
        /\ \A u \in Upload : srv[u] \in {"read", "truncated"} => ~settled

(* An upload that is not confirmed has sent nothing.                        *)
UiInv ==
    /\ ui \in [Upload -> {"idle", "dialog", "put", "reload", "done"}]
    /\ \A u \in Upload : ui[u] \in {"idle", "dialog"} => srv[u] = "idle"

FrpcInv == Shapes /\ FileSealed /\ KeptInv /\ ForceInv

(* The steps that leave frpc, and the requests in it, alone.                *)
Browse ==
    \/ \E f \in Fetch : \/ \E p \in Routes : Select(p, f)
                        \/ FetchData(f) \/ ApiGetConfig(f) \/ ApiStatus(f)
                        \/ ShowConfig(f) \/ ShowStatus(f) \/ FetchFails(f)
    \/ \E t \in UserText : Edit(t)
Dialog(u) == UploadConfig(u) \/ Cancel(u) \/ ReloadAnswered(u)

(* The disjuncts of Next, grouped by what they change.                      *)
LEMMA NextCases ==
    ASSUME Next
    PROVE  \/ Browse
           \/ \E u \in Upload : Dialog(u)
           \/ \E u \in Upload : Confirm(u)
           \/ \E u \in Upload : PutAnswered(u)
           \/ \E u \in Upload : ConnFails(u)
           \/ \E u \in Upload : PutRead(u)
           \/ \E u \in Upload : PutReadFails(u)
           \/ \E u \in Upload : PutTruncate(u)
           \/ \E u \in Upload : PutWrite(u)
           \/ \E u \in Upload : PutWriteFails(u)
           \/ \E u \in Upload : ReloadParse(u)
           \/ \E u \in Upload : ReloadFails(u)
           \/ \E u \in Upload : ReloadConf(u)
  BY DEF Next, Browse, Dialog, Deliver, Handler

LEMMA TextFacts ==
    /\ Empty \in Text /\ Empty.token = "none"
    /\ ErrorText \in Text /\ ErrorText.token = "none"
    /\ \A t \in UserText : t \in Text /\ t.token # "secret"
  BY AdminAssumption DEF Empty, ErrorText, Text, Body

LEMMA RenderedFacts == \A b \in Body : Rendered(b) \in Body
  BY AdminAssumption DEF Rendered, Body

(* What a file without its token looks like to the page.                    *)
LEMMA ReplyFacts ==
    ASSUME Shapes
    PROVE  LET t == IF Rendered(file.body) = "error" THEN ErrorText
                    ELSE [common |-> file.common, token |-> "none", body |-> Rendered(file.body)]
           IN  t \in Text /\ t.token = "none"
<1>1. file.common \in BOOLEAN /\ file.body \in Body
  BY DEF Shapes, Text
<1>2. Rendered(file.body) \in Body
  BY <1>1, RenderedFacts
<1> QED BY <1>1, <1>2, TextFacts DEF Text

(* No answer and no edit brings the token into the page.                    *)
LEMMA BrowseStep ==
    ASSUME Shapes, PageSealed, Browse
    PROVE  PageSealed' /\ UNCHANGED <<upload, frpc>>
<1>1. UNCHANGED <<upload, frpc>>
  BY DEF Browse, Select, FetchData, ApiGetConfig, ApiStatus, Reply, ShowConfig, ShowStatus,
         FetchFails, Edit
<1>2. Sent.text \in Text /\ Sent.text.token # "secret"
  BY TextFacts DEF Sent
<1>3. ASSUME NEW f \in Fetch, NEW p, Select(p, f) PROVE PageSealed'
  BY <1>2, <1>3, TextFacts DEF Select, PageSealed
<1>4. ASSUME NEW f \in Fetch, FetchData(f) PROVE PageSealed'
  BY <1>2, <1>4 DEF FetchData, PageSealed
<1>5. ASSUME NEW f \in Fetch, NEW p, NEW t \in Text, NEW st, t.token # "secret", Reply(f, p, t, st)
      PROVE  PageSealed'
  BY <1>5 DEF Reply, PageSealed
<1>6. ASSUME NEW f \in Fetch, ApiGetConfig(f) PROVE PageSealed'
  BY <1>5, <1>6, ReplyFacts DEF ApiGetConfig
<1>7. ASSUME NEW f \in Fetch, ApiStatus(f) PROVE PageSealed'
  BY <1>5, <1>7, TextFacts DEF ApiStatus
<1>8. ASSUME NEW f \in Fetch, ShowConfig(f) PROVE PageSealed'
  BY <1>8 DEF ShowConfig, PageSealed
<1>9. ASSUME NEW f \in Fetch, ShowStatus(f) \/ FetchFails(f) PROVE PageSealed'
  BY <1>9 DEF ShowStatus, FetchFails, PageSealed
<1>10. ASSUME NEW t \in UserText, Edit(t) PROVE PageSealed'
  BY <1>10, TextFacts DEF Edit, PageSealed
<1> QED BY <1>1, <1>3, <1>4, <1>6, <1>7, <1>8, <1>9, <1>10 DEF Browse

-----------------------------------------------------------------------------
(* A step outside the handlers' critical parts disturbs none of this.       *)
LEMMA CalmStep ==
    ASSUME FrpcInv, UNCHANGED frpc,
           srv' \in [Upload -> Stage], content' \in [Upload -> Text],
           \A v \in Upload : srv'[v] \in Busy => srv[v] = srv'[v] /\ content'[v] = content[v],
           \A v \in Upload : srv[v] \in Busy => srv[v] = srv'[v]
    PROVE  FrpcInv'
<1> USE DEF FrpcInv, frpc, Busy
<1>1. Shapes'
  BY DEF Shapes
<1>2. FileSealed'
  BY DEF FileSealed, Shapes
<1>3. KeptInv'
  BY DEF KeptInv, Shapes
<1>4. ForceInv'
  BY DEF ForceInv, Shapes, Rendered
<1> QED BY <1>1, <1>2, <1>3, <1>4

LEMMA BrowserStep ==
    ASSUME FrpcInv, PageSealed, UiInv, NEW u \in Upload,
           Dialog(u) \/ Confirm(u) \/ PutAnswered(u) \/ ConnFails(u)
    PROVE  FrpcInv' /\ PageSealed' /\ UiInv'
<1>1. PageSealed'
  BY DEF PageSealed, Dialog, UploadConfig, Cancel, ReloadAnswered, Confirm, PutAnswered,
         ConnFails, browser
<1>2. UNCHANGED frpc
  BY DEF Dialog, UploadConfig, Cancel, ReloadAnswered, Confirm, PutAnswered, ConnFails
<1>3. ASSUME Dialog(u) PROVE FrpcInv' /\ UiInv'
  <2>1. UNCHANGED <<srv, content>>
    BY <1>3 DEF Dialog, UploadConfig, Cancel, ReloadAnswered
  <2>2. FrpcInv'
    BY <1>2, <2>1, CalmStep DEF FrpcInv, Shapes
  <2>3. UiInv'
    BY <1>3 DEF UiInv, Dialog, UploadConfig, Cancel, ReloadAnswered, Tell
  <2> QED BY <2>2, <2>3
<1>4. ASSUME Confirm(u) PROVE FrpcInv' /\ UiInv'
  <2>1. textarea \in Text /\ srv[u] = "idle"
    BY <1>4 DEF PageSealed, UiInv, Confirm
  <2>2. UiInv'
    BY <1>4, <2>1 DEF UiInv, Confirm, Tell, FrpcInv, Shapes
  <2>4. CASE UNCHANGED <<srv, content>>
    BY <1>2, <2>2, <2>4, CalmStep DEF FrpcInv, Shapes
  <2>3. CASE /\ srv' = [srv EXCEPT ![u] = "put"]
             /\ content' = [content EXCEPT ![u] = textarea]
    <3>1. srv' \in [Upload -> Stage] /\ content' \in [Upload -> Text]
      BY <2>1, <2>3 DEF FrpcInv, Shapes, Stage
    <3>2. \A v \in Upload : srv'[v] \in Busy \/ srv[v] \in Busy =>
                             srv[v] = srv'[v] /\ content'[v] = content[v]
      BY <2>1, <2>3 DEF FrpcInv, Shapes, Busy
    <3> QED BY <1>2, <2>2, <3>1, <3>2, CalmStep
  <2> QED BY <1>4, <2>3, <2>4 DEF Confirm
<1>5. ASSUME PutAnswered(u) \/ ConnFails(u) PROVE FrpcInv' /\ UiInv'
  <2>1. /\ UNCHANGED content
        /\ \/ srv' = srv
           \/ srv[u] = "putDone" /\ srv' = [srv EXCEPT ![u] = "reload"]
           \/ srv[u] \in {"put", "reload"} /\ srv' = [srv EXCEPT ![u] = "lost"]
    BY <1>5 DEF PutAnswered, ConnFails, FrpcInv, Shapes
  <2>2. srv' \in [Upload -> Stage]
    BY <2>1 DEF FrpcInv, Shapes, Stage
  <2>3. \A v \in Upload : srv'[v] \in Busy \/ srv[v] \in Busy => srv[v] = srv'[v]
    BY <2>1 DEF FrpcInv, Shapes, Busy
  <2>4. FrpcInv'
    BY <1>2, <2>1, <2>2, <2>3, CalmStep DEF FrpcInv, Shapes
  <2>5. UiInv'
    BY <1>5, <2>1 DEF UiInv, PutAnswered, ConnFails, Tell, FrpcInv, Shapes
  <2> QED BY <2>4, <2>5
<1> QED BY <1>1, <1>3, <1>4, <1>5

-----------------------------------------------------------------------------
(* What every step of a handler has in common.                              *)
LEMMA HandlerFacts ==
    ASSUME FrpcInv, UiInv, NEW u \in Upload, Handler(u)
    PROVE  /\ UNCHANGED <<browser, ui, message>>
           /\ ~overlap' => ~overlap /\ \A v \in Upload \ {u} : srv[v] \notin Busy
           /\ ~tokenless' => ~tokenless
           /\ srv' \in [Upload -> Stage] /\ srv[u] # "idle" /\ srv'[u] # "idle"
           /\ \A v \in Upload \ {u} : srv'[v] = srv[v]
<1> USE DEF Handler, PutRead, PutReadFails, PutTruncate, PutWrite, PutWriteFails,
            ReloadParse, ReloadFails, ReloadConf
<1>1. UNCHANGED <<browser, ui, message>>
  OBVIOUS
<1>2. Observe(u)
  OBVIOUS
<1>6. ~tokenless' => ~tokenless
  <2>1. CASE PutWrite(u)
    BY <2>1
  <2>2. CASE PutWriteFails(u)
    BY <2>2
  <2>3. CASE UNCHANGED tokenless
    BY <2>3
  <2> QED BY <2>1, <2>2, <2>3
<1>3. /\ srv[u] # "idle"
      /\ \E t \in Stage \ {"idle"} : srv' = [srv EXCEPT ![u] = t]
  BY DEF Stage
<1> HIDE DEF Handler, PutRead, PutReadFails, PutTruncate, PutWrite, PutWriteFails,
             ReloadParse, ReloadFails, ReloadConf
<1>4. /\ srv' \in [Upload -> Stage] /\ srv'[u] # "idle"
      /\ \A v \in Upload \ {u} : srv'[v] = srv[v]
  BY <1>3 DEF FrpcInv, Shapes
<1>5. ~overlap' => ~overlap /\ \A v \in Upload \ {u} : srv[v] \notin Busy
  BY <1>2 DEF Observe
<1> QED BY <1>1, <1>3, <1>4, <1>5, <1>6

(* The steps of the PUT.  A write puts back the token that was read, if     *)
(* nothing overlapped and the text has a [common] row.                      *)
LEMMA PutStep ==
    ASSUME FrpcInv, UiInv, NEW u \in Upload, Handler(u),
           \/ PutRead(u) \/ PutReadFails(u) \/ PutTruncate(u)
           \/ PutWrite(u) \/ PutWriteFails(u)
    PROVE  FrpcInv'
<1> USE HandlerFacts DEF Busy
<1>1. ASSUME PutRead(u) PROVE FrpcInv'
  <2> DEFINE t == [common |-> content[u].common, body |-> content[u].body,
                   token |-> IF content[u].common THEN file.token ELSE "none"]
  <2>1. t \in Text /\ t.token # "typed" /\ t.common = content[u].common
        /\ (t.common => t.token = file.token)
    BY DEF FrpcInv, Shapes, FileSealed, Text
  <2>2. content'[u] = t /\ \A v \in Upload \ {u} : content'[v] = content[v]
    BY <1>1 DEF PutRead, FrpcInv, Shapes
  <2>3. content' \in [Upload -> Text]
    BY <1>1, <2>1 DEF PutRead, FrpcInv, Shapes
  <2>4. srv[u] = "put" /\ srv'[u] = "read" /\ settled' = FALSE
        /\ UNCHANGED <<file, running, parsed, tokenless>>
    BY <1>1 DEF PutRead, FrpcInv, Shapes
  <2> HIDE DEF t
  <2>5. Shapes'
    BY <2>3, <2>4 DEF FrpcInv, Shapes
  <2>6. FileSealed'
    BY <2>1, <2>2, <2>4 DEF FrpcInv, FileSealed
  <2>7. KeptInv'
    BY <2>1, <2>2, <2>4 DEF FrpcInv, KeptInv
  <2>8. ForceInv'
    BY <2>4 DEF FrpcInv, ForceInv, Rendered
  <2> QED BY <2>5, <2>6, <2>7, <2>8 DEF FrpcInv
<1>2. ASSUME PutReadFails(u) PROVE FrpcInv'
  <2>1. content' \in [Upload -> Text] /\ \A v \in Upload \ {u} : content'[v] = content[v]
    BY <1>2, TextFacts DEF PutReadFails, FrpcInv, Shapes
  <2>2. srv[u] = "put" /\ srv'[u] = "putDone" /\ settled' = FALSE
        /\ UNCHANGED <<file, running, parsed, tokenless>>
    BY <1>2 DEF PutReadFails, FrpcInv, Shapes
  <2>3. Shapes'
    BY <2>1, <2>2 DEF FrpcInv, Shapes
  <2>4. FileSealed' /\ KeptInv'
    BY <2>1, <2>2 DEF FrpcInv, FileSealed, KeptInv
  <2>5. ForceInv'
    BY <2>2 DEF FrpcInv, ForceInv, Rendered
  <2> QED BY <2>3, <2>4, <2>5 DEF FrpcInv
<1>3. ASSUME PutTruncate(u) PROVE FrpcInv'
  <2>1. srv[u] = "read" /\ srv'[u] = "truncated" /\ file' = Empty
        /\ UNCHANGED <<content, running, parsed, tokenless, settled>>
    BY <1>3 DEF PutTruncate, FrpcInv, Shapes
  <2>2. Shapes'
    BY <2>1, TextFacts DEF FrpcInv, Shapes
  <2>3. FileSealed' /\ KeptInv'
    BY <2>1, TextFacts DEF FrpcInv, FileSealed, KeptInv
  <2>4. ForceInv'
    BY <2>1 DEF FrpcInv, ForceInv
  <2> QED BY <2>2, <2>3, <2>4 DEF FrpcInv
<1>4. ASSUME PutWrite(u) PROVE FrpcInv'
  <2>1. content' \in [Upload -> Text] /\ \A v \in Upload \ {u} : content'[v] = content[v]
    BY <1>4, TextFacts DEF PutWrite, FrpcInv, Shapes
  <2>2. srv[u] = "truncated" /\ srv'[u] = "putDone"
        /\ UNCHANGED <<running, parsed, settled>>
    BY <1>4 DEF PutWrite, FrpcInv, Shapes
  <2>3. file' \in Text /\ file'.token = content[u].token
    BY <1>4 DEF PutWrite, FrpcInv, Shapes, Text, Body
  <2>4. ~tokenless' => content[u].common
    BY <1>4 DEF PutWrite
  <2>5. Shapes'
    BY <2>1, <2>2, <2>3 DEF FrpcInv, Shapes
  <2>6. FileSealed'
    BY <2>1, <2>2, <2>3 DEF FrpcInv, FileSealed
  <2>7. KeptInv'
    BY <2>1, <2>2, <2>3, <2>4 DEF FrpcInv, KeptInv
  <2>8. ForceInv'
    BY <2>2 DEF FrpcInv, ForceInv
  <2> QED BY <2>5, <2>6, <2>7, <2>8 DEF FrpcInv
<1>5. ASSUME PutWriteFails(u) PROVE FrpcInv'
  <2>1. content' \in [Upload -> Text] /\ \A v \in Upload \ {u} : content'[v] = content[v]
    BY <1>5, TextFacts DEF PutWriteFails, FrpcInv, Shapes
  <2>2. srv[u] = "truncated" /\ srv'[u] = "putDone" /\ tokenless'
        /\ UNCHANGED <<file, running, parsed, settled>>
    BY <1>5 DEF PutWriteFails, FrpcInv, Shapes
  <2>3. Shapes'
    BY <2>1, <2>2 DEF FrpcInv, Shapes
  <2>4. FileSealed' /\ KeptInv'
    BY <2>1, <2>2 DEF FrpcInv, FileSealed, KeptInv
  <2>5. ForceInv'
    BY <2>2 DEF FrpcInv, ForceInv, Rendered
  <2> QED BY <2>3, <2>4, <2>5 DEF FrpcInv
<1> QED BY <1>1, <1>2, <1>3, <1>4, <1>5

(* The steps of the reload leave the file alone.                            *)
LEMMA ReloadStep ==
    ASSUME FrpcInv, UiInv, NEW u \in Upload, Handler(u),
           ReloadParse(u) \/ ReloadFails(u) \/ ReloadConf(u)
    PROVE  FrpcInv'
<1> USE HandlerFacts DEF Busy
<1>1. UNCHANGED <<content, file, tokenless>>
  BY DEF ReloadParse, ReloadFails, ReloadConf
<1>2. srv[u] \in {"reload", "parsed"} /\ srv'[u] \in {"parsed", "reloadDone"}
  BY DEF ReloadParse, ReloadFails, ReloadConf, FrpcInv, Shapes
<1>3. FileSealed' /\ KeptInv'
  BY <1>1, <1>2 DEF FrpcInv, FileSealed, KeptInv
<1>4. Shapes'
  BY <1>1 DEF FrpcInv, Shapes, ReloadParse, ReloadFails, ReloadConf
<1>5. ForceInv'
  <2>1. CASE ReloadParse(u)
    <3>1. srv'[u] = "parsed" /\ srv[u] = "reload" /\ parsed'[u] = Rendered(file.body)
          /\ UNCHANGED <<running, settled>>
          /\ \A v \in Upload \ {u} : parsed'[v] = parsed[v]
      BY <2>1 DEF ReloadParse, FrpcInv, Shapes
    <3> QED BY <1>1, <3>1 DEF FrpcInv, ForceInv, Rendered
  <2>2. CASE ReloadFails(u)
    <3>1. srv'[u] = "reloadDone" /\ UNCHANGED <<running, parsed, settled>>
      BY <2>2 DEF ReloadFails, FrpcInv, Shapes
    <3> QED BY <1>1, <3>1 DEF FrpcInv, ForceInv, Rendered
  <2>3. CASE ReloadConf(u)
    <3>1. srv'[u] = "reloadDone" /\ srv[u] = "parsed" /\ running' = parsed[u]
          /\ \A v \in Upload \ {u} : parsed'[v] = parsed[v]
      BY <2>3 DEF ReloadConf, FrpcInv, Shapes
    <3> QED BY <1>1, <3>1 DEF FrpcInv, ForceInv, Rendered
  <2> QED BY <2>1, <2>2, <2>3
<1> QED BY <1>3, <1>4, <1>5 DEF FrpcInv

-----------------------------------------------------------------------------
AdminInv == FrpcInv /\ PageSealed /\ UiInv

LEMMA AdminInit == Init => AdminInv
<1> SUFFICES ASSUME Init PROVE Shapes /\ FileSealed /\ KeptInv /\ ForceInv /\ PageSealed /\ UiInv
  BY DEF AdminInv, FrpcInv
<1>1. file \in Text /\ file.token = "secret"
  BY AdminAssumption DEF Init, Text, Body
<1>2. Shapes
  BY <1>1, TextFacts DEF Init, Shapes, Stage
<1>3. FileSealed /\ KeptInv /\ ForceInv /\ UiInv
  BY <1>1 DEF Init, FileSealed, KeptInv, ForceInv, UiInv
<1>4. PageSealed
  <2>1. Sent.text \in Text /\ Sent.text.token # "secret"
    BY TextFacts DEF Sent
  <2> QED BY <2>1, TextFacts DEF Init, PageSealed
<1> QED BY <1>2, <1>3, <1>4

LEMMA AdminStep == AdminInv /\ [Next]_vars => AdminInv'
<1> SUFFICES ASSUME FrpcInv, PageSealed, UiInv, [Next]_vars PROVE FrpcInv' /\ PageSealed' /\ UiInv'
  BY DEF AdminInv
<1>1. ASSUME UNCHANGED <<upload, frpc>> PROVE FrpcInv' /\ UiInv'
  <2>1. FrpcInv'
    BY <1>1, CalmStep DEF FrpcInv, Shapes, upload
  <2>2. UiInv'
    BY <1>1 DEF UiInv, upload
  <2> QED BY <2>1, <2>2
<1>2. CASE UNCHANGED vars
  BY <1>1, <1>2 DEF vars, PageSealed, browser
<1>3. CASE Browse
  BY <1>1, <1>3, BrowseStep DEF FrpcInv
<1>4. ASSUME NEW u \in Upload, Handler(u) PROVE FrpcInv' /\ PageSealed' /\ UiInv'
  <2>1. FrpcInv'
    BY <1>4, PutStep, ReloadStep DEF Handler
  <2>2. PageSealed'
    BY <1>4, HandlerFacts DEF PageSealed, browser
  <2>3. UiInv'
    BY <1>4, HandlerFacts DEF UiInv
  <2> QED BY <2>1, <2>2, <2>3
<1>5. ASSUME NEW u \in Upload, Dialog(u) \/ Confirm(u) \/ PutAnswered(u) \/ ConnFails(u)
      PROVE  FrpcInv' /\ PageSealed' /\ UiInv'
  BY <1>5, BrowserStep
<1> QED BY <1>2, <1>3, <1>4, <1>5, NextCases DEF Handler

LEMMA AdminInvariant == Spec => []AdminInv
  BY AdminInit, AdminStep, PTL DEF Spec

-----------------------------------------------------------------------------
(* What a reload applies is what it has parsed: never nothing.              *)
TypeInv == TypeOK /\ \A u \in Upload : srv[u] = "parsed" => parsed[u] # Nil

LEMMA NilFacts ==
    /\ Nil \notin Valid \cup {"mixed"}
    /\ Valid \cup {"mixed"} \subseteq Body
    /\ Render[Start] \in Valid
  BY AdminAssumption DEF Body

LEMMA TypeInit == Init => TypeInv
<1> SUFFICES ASSUME Init PROVE TypeInv
  OBVIOUS
<1> USE DEF Init
<1>1. page \in Routes
  BY DEF Routes
<1>2. textarea \in Text /\ content \in [Upload -> Text]
  BY TextFacts
<1>3. Sent \in [at : {"sent", "answered"}, text : Text, status : Body \cup {Nil}]
  BY TextFacts DEF Sent
<1>4. fetches \in [Fetch -> [at : {"sent", "answered"}, text : Text, status : Body \cup {Nil}] \cup {Nil}]
  BY <1>3
<1>5. file \in Text
  BY AdminAssumption DEF Text, Body
<1>6. running \in Valid \cup {"mixed"}
  BY NilFacts
<1>7. overlap \in BOOLEAN /\ tokenless \in BOOLEAN /\ settled \in BOOLEAN
  OBVIOUS
<1>8. ui \in [Upload -> {"idle", "dialog", "put", "reload", "done"}] /\ srv \in [Upload -> Stage]
  BY DEF Stage
<1>9. \A u \in Upload : srv[u] # "parsed"
  OBVIOUS
<1>10. /\ status \in Body \cup {Nil}
       /\ message \in [Upload -> {Nil, "Canceled", "Empty", "Success", "Reload error", "Put failed"}]
       /\ putCode \in [Upload -> {Nil, 200, 400, 500}]
       /\ reloadCode \in [Upload -> {Nil, 200, 400}]
       /\ parsed \in [Upload -> Valid \cup {"mixed", Nil}]
  OBVIOUS
<1> HIDE DEF Init
<1> QED BY <1>1, <1>2, <1>4, <1>5, <1>6, <1>7, <1>8, <1>9, <1>10 DEF TypeInv, TypeOK

(* The page.                                                                *)
LEMMA TypeBrowse ==
    ASSUME TypeInv, Browse
    PROVE  TypeInv'
<1> DEFINE Fetched == [at : {"sent", "answered"}, text : Text, status : Body \cup {Nil}]
           PageType == /\ page \in Routes /\ textarea \in Text /\ status \in Body \cup {Nil}
                       /\ fetches \in [Fetch -> Fetched \cup {Nil}]
<1>1. PageType /\ file \in Text /\ running \in Body
  BY NilFacts DEF TypeInv, TypeOK
<1>2. UNCHANGED <<upload, frpc>>
  BY DEF Browse, Select, FetchData, ApiGetConfig, ApiStatus, Reply, ShowConfig, ShowStatus,
         FetchFails, Edit
<1>3. Sent \in Fetched
  BY TextFacts DEF Sent
<1>4. ASSUME NEW f \in Fetch, NEW p \in Routes, Select(p, f) PROVE PageType'
  BY <1>1, <1>3, <1>4, TextFacts DEF Select
<1>5. ASSUME NEW f \in Fetch, FetchData(f) PROVE PageType'
  BY <1>1, <1>3, <1>5 DEF FetchData
<1>6. ASSUME NEW f \in Fetch, NEW p, NEW t \in Text, NEW st \in Body \cup {Nil}, Reply(f, p, t, st)
      PROVE  PageType'
  BY <1>1, <1>6 DEF Reply
<1>7. ASSUME NEW f \in Fetch, ApiGetConfig(f) PROVE PageType'
  <2>1. file.common \in BOOLEAN /\ Rendered(file.body) \in Body
    BY <1>1, RenderedFacts DEF Text
  <2>2. (IF Rendered(file.body) = "error" THEN ErrorText
         ELSE [common |-> file.common, token |-> "none", body |-> Rendered(file.body)]) \in Text
    BY <2>1, TextFacts DEF Text
  <2> QED BY <1>6, <1>7, <2>2 DEF ApiGetConfig
<1>8. ASSUME NEW f \in Fetch, ApiStatus(f) PROVE PageType'
  BY <1>1, <1>6, <1>8, TextFacts DEF ApiStatus
<1>9. ASSUME NEW f \in Fetch, ShowConfig(f) \/ ShowStatus(f) \/ FetchFails(f) PROVE PageType'
  BY <1>1, <1>9 DEF ShowConfig, ShowStatus, FetchFails
<1>10. ASSUME NEW t \in UserText, Edit(t) PROVE PageType'
  BY <1>1, <1>10, TextFacts DEF Edit
<1>11. PageType'
  BY <1>4, <1>5, <1>7, <1>8, <1>9, <1>10 DEF Browse
<1> QED BY <1>2, <1>11 DEF TypeInv, TypeOK, upload, frpc

(* The upload in the browser.                                               *)
LEMMA TypeDialog ==
    ASSUME TypeInv, NEW u \in Upload,
           Dialog(u) \/ Confirm(u) \/ PutAnswered(u) \/ ConnFails(u)
    PROVE  TypeInv'
<1> DEFINE Messages == {Nil, "Canceled", "Empty", "Success", "Reload error", "Put failed"}
<1>1. UNCHANGED <<browser, frpc, putCode, reloadCode>>
  BY DEF Dialog, UploadConfig, Cancel, ReloadAnswered, Confirm, PutAnswered, ConnFails
<1>2. /\ ui \in [Upload -> {"idle", "dialog", "put", "reload", "done"}]
      /\ message \in [Upload -> Messages]
      /\ srv \in [Upload -> Stage] /\ content \in [Upload -> Text] /\ textarea \in Text
  BY DEF TypeInv, TypeOK
<1>3. \E x \in {"dialog", "put", "reload", "done"} : ui' = [ui EXCEPT ![u] = x]
  BY DEF Dialog, UploadConfig, Cancel, ReloadAnswered, Confirm, PutAnswered, ConnFails, Tell
<1>4. message' = message \/ \E x \in Messages : message' = [message EXCEPT ![u] = x]
  BY DEF Dialog, UploadConfig, Cancel, ReloadAnswered, Confirm, PutAnswered, ConnFails, Tell
<1>5. srv' = srv \/ \E x \in {"put", "reload", "lost"} : srv' = [srv EXCEPT ![u] = x]
  BY <1>2 DEF Dialog, UploadConfig, Cancel, ReloadAnswered, Confirm, PutAnswered, ConnFails, Tell
<1>6. content' = content \/ content' = [content EXCEPT ![u] = textarea]
  BY DEF Dialog, UploadConfig, Cancel, ReloadAnswered, Confirm, PutAnswered, ConnFails
<1>7. ui' \in [Upload -> {"idle", "dialog", "put", "reload", "done"}] /\ message' \in [Upload -> Messages]
  BY <1>2, <1>3, <1>4
<1>8. srv' \in [Upload -> Stage] /\ \A v \in Upload : srv'[v] = "parsed" => srv[v] = "parsed"
  BY <1>2, <1>5 DEF Stage
<1>9. content' \in [Upload -> Text]
  BY <1>2, <1>6
<1> QED BY <1>1, <1>7, <1>8, <1>9 DEF TypeInv, TypeOK, browser, frpc

(* The handlers.                                                            *)
LEMMA TypeHandler ==
    ASSUME TypeInv, NEW u \in Upload, Handler(u)
    PROVE  TypeInv'
<1> USE DEF Handler, PutRead, PutReadFails, PutTruncate, PutWrite, PutWriteFails,
            ReloadParse, ReloadFails, ReloadConf
<1>1. UNCHANGED <<browser, ui, message>>
  OBVIOUS
<1>2. overlap' \in BOOLEAN
  BY DEF Observe, TypeInv, TypeOK
<1>3. tokenless' \in BOOLEAN
  <2>1. CASE UNCHANGED tokenless
    BY <2>1 DEF TypeInv, TypeOK
  <2>2. CASE PutWrite(u)
    BY <2>2 DEF TypeInv, TypeOK
  <2>3. CASE PutWriteFails(u)
    BY <2>3
  <2> QED BY <2>1, <2>2, <2>3
<1>4. settled' \in BOOLEAN
  <2>1. CASE UNCHANGED settled
    BY <2>1 DEF TypeInv, TypeOK
  <2>2. CASE PutRead(u) \/ PutReadFails(u) \/ ReloadConf(u)
    BY <2>2
  <2> QED BY <2>1, <2>2
<1>5. \E x \in Stage : srv' = [srv EXCEPT ![u] = x] /\ (x = "parsed" => ReloadParse(u))
  BY DEF Stage
<1>6. putCode' = putCode \/ \E x \in {200, 400, 500} : putCode' = [putCode EXCEPT ![u] = x]
  OBVIOUS
<1>7. reloadCode' = reloadCode \/ \E x \in {200, 400} : reloadCode' = [reloadCode EXCEPT ![u] = x]
  OBVIOUS
<1>8. \/ content' = content
      \/ content' = [content EXCEPT ![u] = Empty]
      \/ content' = [content EXCEPT ![u] = [common |-> content[u].common, body |-> content[u].body,
                        token |-> IF content[u].common THEN file.token ELSE "none"]]
  BY DEF TypeInv, TypeOK
<1>9. \/ file' \in {file, Empty, content[u]}
      \/ file' = [common |-> content[u].common, token |-> content[u].token, body |-> "mixed"]
  OBVIOUS
<1>10. \/ UNCHANGED <<running, parsed>> /\ ~ReloadParse(u)
       \/ srv[u] = "parsed" /\ running' = parsed[u] /\ parsed' = [parsed EXCEPT ![u] = Nil] /\ ~ReloadParse(u)
       \/ /\ Rendered(file.body) \in Valid \cup {"mixed"}
          /\ running' = running /\ parsed' = [parsed EXCEPT ![u] = Rendered(file.body)]
  OBVIOUS
<1> HIDE DEF Handler, PutRead, PutReadFails, PutTruncate, PutWrite, PutWriteFails,
             ReloadParse, ReloadFails, ReloadConf
<1> DEFINE Result == Valid \cup {"mixed", Nil}
<1>11. /\ content \in [Upload -> Text] /\ file \in Text /\ srv \in [Upload -> Stage]
       /\ putCode \in [Upload -> {Nil, 200, 400, 500}]
       /\ reloadCode \in [Upload -> {Nil, 200, 400}]
  BY DEF TypeInv, TypeOK
<1>12. /\ running \in Valid \cup {"mixed"} /\ parsed \in [Upload -> Result]
       /\ \A v \in Upload : srv[v] = "parsed" => parsed[v] # Nil
  BY DEF TypeInv, TypeOK
<1>13. \A t \in Text : /\ t.common \in BOOLEAN /\ t.body \in Body
                       /\ t.token \in {"none", "typed", "secret"}
  BY DEF Text
<1>14. /\ content[u] \in Text /\ file \in Text /\ content \in [Upload -> Text]
       /\ content[u].common \in BOOLEAN /\ content[u].body \in Body
       /\ content[u].token \in {"none", "typed", "secret"} /\ file.token \in {"none", "typed", "secret"}
  BY <1>11, <1>13
<1>15. content' \in [Upload -> Text]
  <2>1. [common |-> content[u].common, body |-> content[u].body,
         token |-> IF content[u].common THEN file.token ELSE "none"] \in Text
    BY <1>14 DEF Text
  <2> QED BY <1>8, <1>14, <2>1, TextFacts
<1>16. file' \in Text
  <2>1. [common |-> content[u].common, token |-> content[u].token, body |-> "mixed"] \in Text
    BY <1>14 DEF Text, Body
  <2> QED BY <1>9, <1>14, <2>1, TextFacts
<1>17. srv' \in [Upload -> Stage] /\ putCode' \in [Upload -> {Nil, 200, 400, 500}]
       /\ reloadCode' \in [Upload -> {Nil, 200, 400}]
  <2>1. srv' \in [Upload -> Stage]
    BY <1>5, <1>11
  <2>2. putCode' \in [Upload -> {Nil, 200, 400, 500}]
    BY <1>6, <1>11
  <2>3. reloadCode' \in [Upload -> {Nil, 200, 400}]
    BY <1>7, <1>11
  <2> QED BY <2>1, <2>2, <2>3
<1>18. running' \in Valid \cup {"mixed"} /\ parsed' \in [Upload -> Result]
  BY <1>10, <1>12, NilFacts
<1>19. \A v \in Upload : srv'[v] = "parsed" => parsed'[v] # Nil
  <2> SUFFICES ASSUME NEW v \in Upload, srv'[v] = "parsed" PROVE parsed'[v] # Nil
    OBVIOUS
  <2>1. CASE v = u
    BY <1>5, <1>10, <1>11, <1>12, <2>1, NilFacts
  <2>2. CASE v # u
    <3>1. srv'[v] = srv[v]
      BY <1>5, <1>11, <2>2
    <3>2. parsed'[v] = parsed[v]
      BY <1>10, <1>12, <2>2
    <3> QED BY <1>12, <3>1, <3>2
  <2> QED BY <2>1, <2>2
<1> QED BY <1>1, <1>2, <1>3, <1>4, <1>15, <1>16, <1>17, <1>18, <1>19 DEF TypeInv, TypeOK, browser

(* Page, uploads and frpc keep their types; what runs is always something   *)
(* that parsed, whatever was uploaded and however requests were lost.       *)
THEOREM TypeCorrect == Spec => []TypeOK
<1>1. TypeInv /\ [Next]_vars => TypeInv'
  <2> SUFFICES ASSUME TypeInv, [Next]_vars PROVE TypeInv'
    OBVIOUS
  <2>1. CASE UNCHANGED vars
    BY <2>1 DEF vars, browser, upload, frpc, TypeInv, TypeOK
  <2> QED BY <2>1, NextCases, TypeBrowse, TypeDialog, TypeHandler DEF Handler
<1>2. TypeInv => TypeOK
  BY DEF TypeInv
<1> QED BY <1>1, <1>2, TypeInit, PTL DEF Spec

-----------------------------------------------------------------------------
(* The page never gets the token of the file, and the file never one that   *)
(* the user typed into the page.                                            *)
THEOREM TokenSealedCorrect == Spec => []TokenSealed
<1>1. AdminInv => TokenSealed
  BY DEF AdminInv, FrpcInv, PageSealed, FileSealed, TokenSealed
<1> QED BY <1>1, AdminInvariant, PTL

(* Uploads whose handlers do not overlap keep the token of the file, if     *)
(* each has a [common] row and is written.                                  *)
THEOREM TokenKeptCorrect == Spec => []TokenKept
<1>1. AdminInv => TokenKept
  BY DEF AdminInv, FrpcInv, KeptInv, TokenKept
<1> QED BY <1>1, AdminInvariant, PTL

(* Without overlap, what a reload has put in force is what the file says,   *)
(* until the next upload.                                                   *)
THEOREM ReloadInForceCorrect == Spec => []ReloadInForce
<1>1. AdminInv => ReloadInForce
  BY DEF AdminInv, FrpcInv, ForceInv, ReloadInForce
<1> QED BY <1>1, AdminInvariant, PTL
=============================================================================
