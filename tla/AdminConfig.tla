---------------------------- MODULE AdminConfig ----------------------------
(***************************************************************************)
(* The admin page of frpc: Configure.vue shows the configuration file,     *)
(* uploads a new one and reloads it; Overview.vue shows what runs.  The    *)
(* handlers are those of client/admin_api.go.  Requests of the page        *)
(* interleave with one another, and with handlers whose answer got lost.   *)
(***************************************************************************)
EXTENDS Naturals

CONSTANTS
    Upload,     \* bound: clicks on Upload
    Fetch,      \* bound: requests of fetchData in flight
    Sections,   \* what may stand below [common]
    Render,     \* what the template engine makes of it, or "error"
    Valid,      \* rendered sections that parse
    Start,      \* what the file says when frpc is started
    UserText,   \* what the user may type into the text area
    Nil

(* A file or a text: whether it has a [common] row, its token row, the rest. *)
Body == Sections \cup Valid \cup {"empty", "error", "mixed"}
Text == [common : BOOLEAN, token : {"none", "typed", "secret"}, body : Body]

ASSUME AdminAssumption ==
    /\ Sections \cap {"empty", "error", "mixed"} = {}
    /\ Valid \subseteq Sections
    /\ Render \in [Sections -> Sections \cup {"error"}]
    /\ Start \in Sections /\ Render[Start] \in Valid
    /\ \A t \in UserText : t \in Text /\ t.token # "secret"
    /\ Nil \notin Body

VARIABLES
    page,       \* the mounted component
    textarea,   \* of Configure
    status,     \* of Overview: the configuration whose proxies are listed
    fetches,    \* requests of the mounted component's fetchData
    ui,         \* an upload in the browser
    message,    \* what $message has told the user of it
    srv,        \* its request in frpc
    content,    \* what is uploaded, and then written
    putCode, reloadCode,   \* the status codes of the answers
    file,       \* the configuration file
    running,    \* the configuration in force
    parsed,     \* what a reload has parsed and not yet applied
    overlap,    \* two handlers of uploads have run at the same time
    tokenless,  \* an upload had no [common] row, or could not be written
    settled     \* a reload has ended and no upload has begun since

browser == <<page, textarea, status, fetches>>
upload == <<ui, message, srv, content, putCode, reloadCode>>
frpc == <<file, running, parsed, overlap, tokenless, settled>>
vars == <<browser, upload, frpc>>

(* router/index.js: "/" and "/configure".                                   *)
Routes == {"Overview", "Configure"}

Empty == [common |-> FALSE, token |-> "none", body |-> "empty"]
ErrorText == [common |-> FALSE, token |-> "none", body |-> "error"]

(* Where the request of an upload is, first the PUT and then the reload.    *)
Stage == {"idle", "put", "read", "truncated", "putDone",
          "reload", "parsed", "reloadDone", "lost"}

TypeOK ==
    /\ page \in Routes
    /\ textarea \in Text
    /\ status \in Body \cup {Nil}
    /\ fetches \in [Fetch -> [at : {"sent", "answered"}, text : Text,
                              status : Body \cup {Nil}] \cup {Nil}]
    /\ ui \in [Upload -> {"idle", "dialog", "put", "reload", "done"}]
    /\ message \in [Upload -> {Nil, "Canceled", "Empty", "Success", "Reload error", "Put failed"}]
    /\ srv \in [Upload -> Stage]
    /\ content \in [Upload -> Text]
    /\ putCode \in [Upload -> {Nil, 200, 400, 500}]
    /\ reloadCode \in [Upload -> {Nil, 200, 400}]
    /\ file \in Text
    /\ running \in Valid \cup {"mixed"}
    /\ parsed \in [Upload -> Valid \cup {"mixed", Nil}]
    /\ overlap \in BOOLEAN
    /\ tokenless \in BOOLEAN
    /\ settled \in BOOLEAN

(* GetRenderedConfFromFile.                                                 *)
Rendered(b) == IF b \in Sections THEN Render[b] ELSE b

Sent == [at |-> "sent", text |-> Empty, status |-> Nil]

(* frpc runs what it was started with; the file has a token.                *)
Init ==
    /\ page = "Overview"
    /\ textarea = Empty
    /\ status = Nil
    /\ \E first \in Fetch : fetches = [f \in Fetch |-> IF f = first THEN Sent ELSE Nil]
    /\ ui = [u \in Upload |-> "idle"]
    /\ message = [u \in Upload |-> Nil]
    /\ srv = [u \in Upload |-> "idle"]
    /\ content = [u \in Upload |-> Empty]
    /\ putCode = [u \in Upload |-> Nil]
    /\ reloadCode = [u \in Upload |-> Nil]
    /\ file = [common |-> TRUE, token |-> "secret", body |-> Start]
    /\ running = Render[Start]
    /\ parsed = [u \in Upload |-> Nil]
    /\ overlap = FALSE
    /\ tokenless = FALSE
    /\ settled = FALSE

-----------------------------------------------------------------------------
(* The box of $confirm is modal.                                            *)
DialogOpen == \E u \in Upload : ui[u] = "dialog"

(* A menu item: the other component is created, with empty data, and asks.  *)
(* Answers to the one that is gone change nothing any more.                 *)
Select(p, f) ==
    /\ ~DialogOpen
    /\ p # page
    /\ page' = p
    /\ textarea' = Empty
    /\ status' = Nil
    /\ fetches' = [g \in Fetch |-> IF g = f THEN Sent ELSE Nil]
    /\ UNCHANGED <<upload, frpc>>

(* The button Refresh, or $route changing on the same page.                 *)
FetchData(f) ==
    /\ ~DialogOpen
    /\ fetches[f] = Nil
    /\ fetches' = [fetches EXCEPT ![f] = Sent]
    /\ UNCHANGED <<page, textarea, status, upload, frpc>>

(* The text area is bound by v-model.                                       *)
Edit(t) ==
    /\ ~DialogOpen
    /\ page = "Configure"
    /\ textarea' = t
    /\ UNCHANGED <<page, status, fetches, upload, frpc>>

Reply(f, p, text, st) ==
    /\ page = p
    /\ fetches[f] = Sent
    /\ fetches' = [fetches EXCEPT ![f] = [at |-> "answered", text |-> text, status |-> st]]
    /\ UNCHANGED <<page, textarea, status, upload, frpc>>

(* Mutant of ApiGetConfig: the token rows are not dropped.                  *)
ApiGetConfigWithToken(f) ==
    Reply(f, "Configure", [file EXCEPT !.body = Rendered(file.body)], Nil)

(* apiGetConfig: the rendered file without token rows, or the text of the   *)
(* error with status 400.                                                   *)
ApiGetConfig(f) ==
    Reply(f, "Configure",
          IF Rendered(file.body) = "error" THEN ErrorText
          ELSE [common |-> file.common, token |-> "none", body |-> Rendered(file.body)],
          Nil)

(* apiStatus: the proxies that run, in one list for each type but tcpmux.   *)
ApiStatus(f) == Reply(f, "Overview", Empty, running)

(* fetchData of Configure puts the answer, whatever its status code, into   *)
(* the text area, over what the user has typed since.                       *)
ShowConfig(f) ==
    /\ fetches[f] # Nil
    /\ page = "Configure" /\ fetches[f].at = "answered"
    /\ textarea' = fetches[f].text
    /\ fetches' = [fetches EXCEPT ![f] = Nil]
    /\ UNCHANGED <<page, status, upload, frpc>>

(* fetchData of Overview fills its table.                                   *)
ShowStatus(f) ==
    /\ fetches[f] # Nil
    /\ page = "Overview" /\ fetches[f].at = "answered"
    /\ status' = fetches[f].status
    /\ fetches' = [fetches EXCEPT ![f] = Nil]
    /\ UNCHANGED <<page, textarea, upload, frpc>>

(* The request fails; a message says so.                                    *)
FetchFails(f) ==
    /\ fetches[f] # Nil
    /\ fetches' = [fetches EXCEPT ![f] = Nil]
    /\ UNCHANGED <<page, textarea, status, upload, frpc>>

-----------------------------------------------------------------------------
(* uploadConfig: the button opens the box.                                  *)
UploadConfig(u) ==
    /\ ~DialogOpen
    /\ page = "Configure"
    /\ ui[u] = "idle"
    /\ ui' = [ui EXCEPT ![u] = "dialog"]
    /\ UNCHANGED <<browser, message, srv, content, putCode, reloadCode, frpc>>

Tell(u, text) ==
    /\ ui' = [ui EXCEPT ![u] = "done"]
    /\ message' = [message EXCEPT ![u] = text]

Cancel(u) ==
    /\ ui[u] = "dialog"
    /\ Tell(u, "Canceled")
    /\ UNCHANGED <<browser, srv, content, putCode, reloadCode, frpc>>

(* The text is the one in the text area now, which a late answer of         *)
(* fetchData may have changed under the box.                                *)
Confirm(u) ==
    /\ ui[u] = "dialog"
    /\ IF textarea = Empty
       THEN Tell(u, "Empty") /\ UNCHANGED <<srv, content>>
       ELSE /\ ui' = [ui EXCEPT ![u] = "put"]
            /\ srv' = [srv EXCEPT ![u] = "put"]
            /\ content' = [content EXCEPT ![u] = textarea]
            /\ UNCHANGED message
    /\ UNCHANGED <<browser, putCode, reloadCode, frpc>>

(* Mutant of PutAnswered: only an answer with status 200 is handled.      *)
PutAnsweredOK(u) ==
    /\ ui[u] = "put"
    /\ srv[u] = "putDone"
    /\ putCode[u] = 200
    /\ ui' = [ui EXCEPT ![u] = "reload"]
    /\ srv' = [srv EXCEPT ![u] = "reload"]
    /\ UNCHANGED <<browser, message, content, putCode, reloadCode, frpc>>

(* fetch resolves whatever the status code: the reload follows.             *)
PutAnswered(u) ==
    /\ ui[u] = "put"
    /\ srv[u] = "putDone"
    /\ ui' = [ui EXCEPT ![u] = "reload"]
    /\ srv' = [srv EXCEPT ![u] = "reload"]
    /\ UNCHANGED <<browser, message, content, putCode, reloadCode, frpc>>

(* And again.                                                               *)
ReloadAnswered(u) ==
    /\ ui[u] = "reload"
    /\ srv[u] = "reloadDone"
    /\ Tell(u, "Success")
    /\ UNCHANGED <<browser, srv, content, putCode, reloadCode, frpc>>

(* The connection fails: the request is lost, or its answer is, and then    *)
(* the handler goes on.                                                     *)
ConnFails(u) ==
    /\ ui[u] \in {"put", "reload"}
    /\ Tell(u, IF ui[u] = "put" THEN "Put failed" ELSE "Reload error")
    /\ srv' \in {srv, [srv EXCEPT ![u] = IF @ \in {"put", "reload"} THEN "lost" ELSE @]}
    /\ UNCHANGED <<browser, content, putCode, reloadCode, frpc>>

-----------------------------------------------------------------------------
(* Each step of a handler notes whether another one is in the middle.       *)
Busy == {"read", "truncated", "parsed"}
Observe(u) == overlap' = (overlap \/ \E v \in Upload \ {u} : srv[v] \in Busy)

(* Mutant of PutRead: the row of the file is not put back.                  *)
PutReadNoToken(u) ==
    /\ srv[u] = "put"
    /\ Observe(u)
    /\ srv' = [srv EXCEPT ![u] = "read"]
    /\ content' = [content EXCEPT ![u].token = "none"]
    /\ settled' = FALSE
    /\ UNCHANGED <<browser, ui, message, putCode, reloadCode, file, running, parsed, tokenless>>

(* apiPutConfig reads the token row of the file, drops those of the body,   *)
(* and puts it behind the [common] row of the body.                         *)
PutRead(u) ==
    /\ srv[u] = "put"
    /\ Observe(u)
    /\ srv' = [srv EXCEPT ![u] = "read"]
    /\ content' = [content EXCEPT ![u] =
                     [common |-> @.common, body |-> @.body,
                      token |-> IF @.common THEN file.token ELSE "none"]]
    /\ settled' = FALSE
    /\ UNCHANGED <<browser, ui, message, putCode, reloadCode, file, running, parsed, tokenless>>

(* The file cannot be read: status 400.                                     *)
PutReadFails(u) ==
    /\ srv[u] = "put"
    /\ Observe(u)
    /\ srv' = [srv EXCEPT ![u] = "putDone"]
    /\ putCode' = [putCode EXCEPT ![u] = 400]
    /\ content' = [content EXCEPT ![u] = Empty]
    /\ settled' = FALSE
    /\ UNCHANGED <<browser, ui, message, reloadCode, file, running, parsed, tokenless>>

(* os.WriteFile empties the file ...                                        *)
PutTruncate(u) ==
    /\ srv[u] = "read"
    /\ Observe(u)
    /\ srv' = [srv EXCEPT ![u] = "truncated"]
    /\ file' = Empty
    /\ UNCHANGED <<browser, ui, message, content, putCode, reloadCode, running, parsed, tokenless, settled>>

(* ... and writes from its beginning: what another handler has written in   *)
(* between is overwritten, but for its end if it was longer.                *)
PutWrite(u) ==
    /\ srv[u] = "truncated"
    /\ Observe(u)
    /\ srv' = [srv EXCEPT ![u] = "putDone"]
    /\ putCode' = [putCode EXCEPT ![u] = 200]
    /\ \/ file' = content[u]
       \/ file # Empty /\ file' = [common |-> content[u].common, token |-> content[u].token,
                                   body |-> "mixed"]
    /\ content' = [content EXCEPT ![u] = Empty]
    /\ tokenless' = (tokenless \/ ~content[u].common)
    /\ UNCHANGED <<browser, ui, message, reloadCode, running, parsed, settled>>

(* The disk is full: status 500, and the file stays empty.                  *)
PutWriteFails(u) ==
    /\ srv[u] = "truncated"
    /\ Observe(u)
    /\ srv' = [srv EXCEPT ![u] = "putDone"]
    /\ putCode' = [putCode EXCEPT ![u] = 500]
    /\ content' = [content EXCEPT ![u] = Empty]
    /\ tokenless' = TRUE
    /\ UNCHANGED <<browser, ui, message, reloadCode, file, running, parsed, settled>>

(* Mutant of ReloadParse: [common] is not asked for.                      *)
ReloadParseAnything(u) ==
    /\ srv[u] = "reload"
    /\ Observe(u)
    /\ srv' = [srv EXCEPT ![u] = "parsed"]
    /\ parsed' = [parsed EXCEPT ![u] = Rendered(file.body)]
    /\ UNCHANGED <<browser, ui, message, content, putCode, reloadCode, file, running, tokenless, settled>>

(* apiReload: ParseClientConfig wants a [common] section and proxies that   *)
(* parse.  Two files run into one may or may not parse.                     *)
ReloadParse(u) ==
    /\ srv[u] = "reload"
    /\ Observe(u)
    /\ file.common /\ Rendered(file.body) \in Valid \cup {"mixed"}
    /\ srv' = [srv EXCEPT ![u] = "parsed"]
    /\ parsed' = [parsed EXCEPT ![u] = Rendered(file.body)]
    /\ UNCHANGED <<browser, ui, message, content, putCode, reloadCode, file, running, tokenless, settled>>

ReloadFails(u) ==
    /\ srv[u] = "reload"
    /\ Observe(u)
    /\ ~(file.common /\ Rendered(file.body) \in Valid)
    /\ srv' = [srv EXCEPT ![u] = "reloadDone"]
    /\ reloadCode' = [reloadCode EXCEPT ![u] = 400]
    /\ UNCHANGED <<browser, ui, message, content, putCode, file, running, parsed, tokenless, settled>>

(* Mutant of ReloadConf: the configuration is dropped.                    *)
ReloadConfNothing(u) ==
    /\ srv[u] = "parsed"
    /\ Observe(u)
    /\ srv' = [srv EXCEPT ![u] = "reloadDone"]
    /\ reloadCode' = [reloadCode EXCEPT ![u] = 200]
    /\ UNCHANGED running
    /\ parsed' = [parsed EXCEPT ![u] = Nil]
    /\ settled' = TRUE
    /\ UNCHANGED <<browser, ui, message, content, putCode, file, tokenless>>

(* Service.ReloadConf, which never fails.                                   *)
ReloadConf(u) ==
    /\ srv[u] = "parsed"
    /\ Observe(u)
    /\ srv' = [srv EXCEPT ![u] = "reloadDone"]
    /\ reloadCode' = [reloadCode EXCEPT ![u] = 200]
    /\ running' = parsed[u]
    /\ parsed' = [parsed EXCEPT ![u] = Nil]
    /\ settled' = TRUE
    /\ UNCHANGED <<browser, ui, message, content, putCode, file, tokenless>>

-----------------------------------------------------------------------------
Handler(u) ==
    \/ PutRead(u) \/ PutReadFails(u)
    \/ PutTruncate(u) \/ PutWrite(u) \/ PutWriteFails(u)
    \/ ReloadParse(u) \/ ReloadFails(u) \/ ReloadConf(u)

Deliver(u) == PutAnswered(u) \/ ReloadAnswered(u)

Next ==
    \/ \E f \in Fetch : \/ \E p \in Routes : Select(p, f)
                        \/ FetchData(f) \/ ApiGetConfig(f) \/ ApiStatus(f)
                        \/ ShowConfig(f) \/ ShowStatus(f) \/ FetchFails(f)
    \/ \E t \in UserText : Edit(t)
    \/ \E u \in Upload : \/ UploadConfig(u) \/ Cancel(u) \/ Confirm(u)
                         \/ Deliver(u) \/ ConnFails(u) \/ Handler(u)

Spec == Init /\ [][Next]_vars

(* The handlers run, and an answer reaches the browser in the end unless    *)
(* the connection fails.  Nothing is assumed of the user.                   *)
Fairness == \A u \in Upload : WF_vars(Handler(u)) /\ WF_vars(Deliver(u))

FairSpec == Spec /\ Fairness

-----------------------------------------------------------------------------
(* The token is sealed in the file: apiGetConfig never shows it, and        *)
(* apiPutConfig never takes one from the page, even if the user types one.  *)
TokenSealed == textarea.token # "secret" /\ file.token # "typed"

(* The token survives uploads as long as their handlers do not overlap,     *)
(* each text has a [common] row to put it behind, and no write has failed.  *)
TokenKept ==
    ~overlap /\ ~tokenless /\ (\A u \in Upload : srv[u] # "truncated")
        => file.token = "secret"

(* What a reload has put in force is what the file says, until the next     *)
(* upload begins, unless handlers overlapped: apiReload parses the file and  *)
(* applies it later, and the page sends the reload after any answer.        *)
ReloadInForce == settled /\ ~overlap => running = Rendered(file.body)

(* Every confirmed upload ends with a message to the user.                  *)
UploadReported == \A u \in Upload : ui[u] \in {"put", "reload"} ~> message[u] # Nil

(* The message Success means that the file was written and reloaded.        *)
SuccessMeansReloaded ==
    \A u \in Upload : message[u] = "Success" => putCode[u] = 200 /\ reloadCode[u] = 200
=============================================================================
