---------------------------- MODULE Diagnostics ----------------------------
(***************************************************************************)
(* What the client shows of its documents' problems, and the quick fixes   *)
(* it is offered.  Client and server talk over two FIFO channels; the      *)
(* server handles one message to its end before it reads the next, and     *)
(* runs ShellCheck within that time, while the client goes on editing and  *)
(* ShellCheck may be installed, removed or broken.                         *)
(*                                                                         *)
(* The client follows the protocol: it changes, saves and closes only what *)
(* it has open, and saves the text it has sent.                            *)
(***************************************************************************)
EXTENDS Naturals, Sequences

CONSTANTS
    Uri,
    Text,          \* contents of a buffer
    Broken,        \* those with a syntax error
    Settings,      \* ShellCheck settings: path and arguments
    Default,       \* those the server starts with
    Off,           \* those with an empty path
    None,
    MaxMessages,   \* bound: messages the client sends
    MaxFailures    \* bound: changes of the ShellCheck installation

ASSUME ValuesAssumption ==
    Broken \subseteq Text /\ None \notin Text /\ {Default, Off} \subseteq Settings
ASSUME BoundAssumption == MaxMessages \in Nat /\ MaxFailures \in Nat

VARIABLES
    buffer,      \* client: text and version of its open documents
    configured,  \* client: the settings it has sent last
    asked,       \* client: the code action request that is not answered
    shown,       \* client: the diagnostics it shows, with their version
    toServer, toClient,
    sent,        \* number of messages the client has sent
    docs,        \* DocumentStore.docs
    settings,    \* bashServer.settings; the runner exists unless they are Off
    disabled,    \* shellCheckRunner.disabled
    codeActions, \* bashServer.codeActions: the fixes of a lint result, or None
    work,        \* the documents the current handler has yet to diagnose
    tool,        \* ShellCheck on this machine
    failures,    \* changes of tool, up to MaxFailures
    healthy      \* history: tool was ok ever since the server was configured

client == <<buffer, configured, asked, shown, sent>>
server == <<docs, settings, disabled, codeActions, work>>
machine == <<tool, failures>>
vars == <<client, toServer, toClient, server, machine, healthy>>

-----------------------------------------------------------------------------
(* Diagnostics are named by what they are computed from.  A lint result     *)
(* stands for ShellCheck's comments and for the fixes they carry.           *)
Clean == [kind |-> "clean"]
ParseError(t) == [kind |-> "parse", text |-> t]
Lint(t, s) == [kind |-> "lint", text |-> t, settings |-> s]

Document == [text : Text, version : Nat]
ASSUME NoneAssumption == None \notin Document \cup [uri : Uri, text : Text]
                                     \cup [kind : {"lint"}, text : Text, settings : Settings]

IsOpen(u) == docs[u] # None

(* No handler is at work and there is a message to handle. *)
Receives(type) == work = {} /\ toServer # <<>> /\ Head(toServer).type = type
Consume == toServer' = Tail(toServer)

Publish(u, version, diags) ==
    toClient' = Append(toClient, [type |-> "diagnostics", uri |-> u,
                                  version |-> version, diags |-> diags])

SetCodeActions(u, fixes) == codeActions' = [codeActions EXCEPT ![u] = fixes]

-----------------------------------------------------------------------------
(* The server *)

(* didOpen and didChange with their full text: stored, then diagnosed. *)
HandleText ==
    /\ Receives("text")
    /\ Consume
    /\ LET m == Head(toServer) IN
       /\ docs' = [docs EXCEPT ![m.uri] = [text |-> m.text, version |-> m.version]]
       /\ work' = {m.uri}
    /\ UNCHANGED <<client, toClient, settings, disabled, codeActions, machine, healthy>>

(* Mutant: a save without text empties the document. *)
HandleSave_NoText ==
    /\ Receives("save")
    /\ Consume
    /\ LET m == Head(toServer) IN docs' = [docs EXCEPT ![m.uri].text = m.text]
    /\ UNCHANGED <<client, toClient, settings, disabled, codeActions, work, machine, healthy>>

(* didSave: the text, if there is one, is stored; nothing is published. *)
HandleSave ==
    /\ Receives("save")
    /\ Consume
    /\ LET m == Head(toServer) IN
       docs' = IF m.text = None THEN docs ELSE [docs EXCEPT ![m.uri].text = m.text]
    /\ UNCHANGED <<client, toClient, settings, disabled, codeActions, work, machine, healthy>>

(* Mutant: the quick fixes of a closed document are kept. *)
HandleClose_KeepsActions ==
    /\ Receives("close")
    /\ Consume
    /\ LET u == Head(toServer).uri IN
       /\ docs' = [docs EXCEPT ![u] = None]
       /\ Publish(u, 0, Clean)
    /\ UNCHANGED <<client, settings, disabled, codeActions, work, machine, healthy>>

(* didClose: document, quick fixes and the client's diagnostics go. *)
HandleClose ==
    /\ Receives("close")
    /\ Consume
    /\ LET u == Head(toServer).uri IN
       /\ docs' = [docs EXCEPT ![u] = None]
       /\ SetCodeActions(u, None)
       /\ Publish(u, 0, Clean)
    /\ UNCHANGED <<client, settings, disabled, work, machine, healthy>>

(* Mutant: the open documents are not linted again. *)
HandleDidChangeConfiguration_NoRelint ==
    /\ Receives("configuration")
    /\ Consume
    /\ settings' = Head(toServer).settings /\ disabled' = FALSE
    /\ healthy' = (tool = "ok")
    /\ UNCHANGED <<client, toClient, docs, codeActions, work, machine>>

(* Mutant: the runner is kept, and with it its flag. *)
HandleDidChangeConfiguration_KeepsRunner ==
    /\ Receives("configuration")
    /\ Consume
    /\ settings' = Head(toServer).settings
    /\ work' = {u \in Uri : IsOpen(u)}
    /\ healthy' = (tool = "ok")
    /\ UNCHANGED <<client, toClient, docs, disabled, codeActions, machine>>

(* didChangeConfiguration: a new runner, and all open documents again. *)
HandleDidChangeConfiguration ==
    /\ Receives("configuration")
    /\ Consume
    /\ settings' = Head(toServer).settings /\ disabled' = FALSE
    /\ work' = {u \in Uri : IsOpen(u)}
    /\ healthy' = (tool = "ok")
    /\ UNCHANGED <<client, toClient, docs, codeActions, machine>>

(* codeAction: the stored fixes, unless the client wants none of their kind. *)
HandleCodeAction ==
    /\ Receives("codeAction")
    /\ Consume
    /\ LET u == Head(toServer).uri IN
       \E fixes \in {codeActions[u], None} :
          toClient' = Append(toClient, [type |-> "fixes", uri |-> u, fixes |-> fixes])
    /\ UNCHANGED <<client, server, machine, healthy>>

(* Mutant: an early return leaves the old fixes. *)
SkipLint_KeepsActions(u) ==
    /\ docs[u].text \in Broken \/ settings = Off
    /\ Publish(u, docs[u].version,
               IF docs[u].text \in Broken THEN ParseError(docs[u].text) ELSE Clean)
    /\ UNCHANGED <<disabled, codeActions>>

(* A document with a syntax error is not given to ShellCheck, nor any when   *)
(* it is switched off.                                                      *)
SkipLint(u) ==
    /\ docs[u].text \in Broken \/ settings = Off
    /\ SetCodeActions(u, None)
    /\ Publish(u, docs[u].version,
               IF docs[u].text \in Broken THEN ParseError(docs[u].text) ELSE Clean)
    /\ UNCHANGED disabled

(* Mutant: a ShellCheck that fails is waited for. *)
LintFails_Waits(u) ==
    /\ docs[u].text \notin Broken /\ settings # Off
    /\ disabled \/ tool = "missing"
    /\ disabled' = TRUE
    /\ SetCodeActions(u, None)
    /\ Publish(u, docs[u].version, Clean)

(* ShellCheck was not found before, is not found now, or fails. *)
LintFails(u) ==
    /\ docs[u].text \notin Broken /\ settings # Off
    /\ disabled \/ tool # "ok"
    /\ disabled' = (disabled \/ tool = "missing")
    /\ SetCodeActions(u, None)
    /\ Publish(u, docs[u].version, Clean)

LintSucceeds(u) ==
    /\ docs[u].text \notin Broken /\ settings # Off
    /\ ~disabled /\ tool = "ok"
    /\ SetCodeActions(u, Lint(docs[u].text, settings))
    /\ Publish(u, docs[u].version, Lint(docs[u].text, settings))
    /\ UNCHANGED disabled

(* documentDiagnostics and publishDiagnostics, in any order of documents. *)
Diagnose(u) ==
    /\ u \in work
    /\ SkipLint(u) \/ LintFails(u) \/ LintSucceeds(u)
    /\ work' = work \ {u}
    /\ UNCHANGED <<client, toServer, docs, settings, machine, healthy>>

-----------------------------------------------------------------------------
(* The client *)

SendMessage(m) ==
    /\ sent < MaxMessages
    /\ sent' = sent + 1
    /\ toServer' = Append(toServer, m)
    /\ UNCHANGED <<toClient, shown, server, machine, healthy>>

(* Opens a document or types in one. *)
Edit(u, t) ==
    LET version == IF buffer[u] = None THEN 1 ELSE buffer[u].version + 1 IN
    /\ buffer' = [buffer EXCEPT ![u] = [text |-> t, version |-> version]]
    /\ SendMessage([type |-> "text", uri |-> u, text |-> t, version |-> version])
    /\ UNCHANGED <<configured, asked>>

Save(u) ==
    /\ buffer[u] # None
    /\ \E t \in {buffer[u].text, None} : SendMessage([type |-> "save", uri |-> u, text |-> t])
    /\ UNCHANGED <<buffer, configured, asked>>

Close(u) ==
    /\ buffer[u] # None
    /\ buffer' = [buffer EXCEPT ![u] = None]
    /\ SendMessage([type |-> "close", uri |-> u])
    /\ UNCHANGED <<configured, asked>>

Configure(s) ==
    /\ configured' = s
    /\ SendMessage([type |-> "configuration", settings |-> s])
    /\ UNCHANGED <<buffer, asked>>

(* Asks for the quick fixes of a document and remembers its text. *)
AskForFixes(u) ==
    /\ asked = None /\ buffer[u] # None
    /\ asked' = [uri |-> u, text |-> buffer[u].text]
    /\ SendMessage([type |-> "codeAction", uri |-> u])
    /\ UNCHANGED <<buffer, configured>>

Receive ==
    /\ toClient # <<>>
    /\ toClient' = Tail(toClient)
    /\ LET m == Head(toClient) IN
       IF m.type = "diagnostics"
       THEN /\ shown' = [shown EXCEPT ![m.uri] = [version |-> m.version, diags |-> m.diags]]
            /\ UNCHANGED asked
       ELSE asked' = None /\ UNCHANGED shown
    /\ UNCHANGED <<buffer, configured, sent, toServer, server, machine, healthy>>

(* ShellCheck is installed, removed, or cannot run any more. *)
ToolChanges(state) ==
    /\ failures < MaxFailures /\ tool # state
    /\ tool' = state /\ failures' = failures + 1
    /\ healthy' = FALSE
    /\ UNCHANGED <<client, toServer, toClient, server>>

-----------------------------------------------------------------------------
Init ==
    /\ buffer = [u \in Uri |-> None]
    /\ settings = Default /\ configured = Default
    /\ asked = None
    /\ shown = [u \in Uri |-> [version |-> 0, diags |-> Clean]]
    /\ toServer = <<>> /\ toClient = <<>> /\ sent = 0
    /\ docs = [u \in Uri |-> None]
    /\ disabled = FALSE
    /\ codeActions = [u \in Uri |-> None]
    /\ work = {}
    /\ tool \in {"ok", "missing", "failing"} /\ failures = 0
    /\ healthy = (tool = "ok")

Server ==
    \/ HandleText \/ HandleSave \/ HandleClose
    \/ HandleDidChangeConfiguration \/ HandleCodeAction
    \/ \E u \in Uri : Diagnose(u)

Client ==
    \/ \E u \in Uri :
          (\E t \in Text : Edit(u, t)) \/ Save(u) \/ Close(u) \/ AskForFixes(u)
    \/ \E s \in Settings : Configure(s)

Next ==
    \/ Server \/ Client \/ Receive
    \/ \E state \in {"ok", "missing", "failing"} : ToolChanges(state)

Spec == Init /\ [][Next]_vars

(* The server runs, ShellCheck ends, and the client reads what it is sent. *)
FairSpec == Spec /\ WF_vars(Server) /\ WF_vars(Receive)

-----------------------------------------------------------------------------
(* Properties *)

Fixes == [kind : {"lint"}, text : Text, settings : Settings]
Diags == {Clean} \cup {ParseError(t) : t \in Broken} \cup Fixes

Request ==
    [type : {"text"}, uri : Uri, text : Text, version : Nat]
    \cup [type : {"save"}, uri : Uri, text : Text \cup {None}]
    \cup [type : {"close", "codeAction"}, uri : Uri]
    \cup [type : {"configuration"}, settings : Settings]

Answer ==
    [type : {"diagnostics"}, uri : Uri, version : Nat, diags : Diags]
    \cup [type : {"fixes"}, uri : Uri, fixes : Fixes \cup {None}]

(* Every variable has its type. *)
TypeOK ==
    /\ buffer \in [Uri -> Document \cup {None}] /\ docs \in [Uri -> Document \cup {None}]
    /\ configured \in Settings /\ settings \in Settings
    /\ asked \in [uri : Uri, text : Text] \cup {None}
    /\ shown \in [Uri -> [version : Nat, diags : Diags]]
    /\ codeActions \in [Uri -> Fixes \cup {None}]
    /\ disabled \in BOOLEAN /\ healthy \in BOOLEAN
    /\ work \subseteq {u \in Uri : IsOpen(u)}
    /\ tool \in {"ok", "missing", "failing"}
    /\ sent \in 0 .. MaxMessages /\ failures \in 0 .. MaxFailures
    /\ toServer \in Seq(Request) /\ toClient \in Seq(Answer)

(* The edits of a quick fix are computed from the very text the client had   *)
(* when it asked for them (they would corrupt any other), however much it   *)
(* has typed since and whatever was still in the channels.                  *)
QuickFixFits ==
    \A i \in DOMAIN toClient :
        toClient[i].type = "fixes" /\ toClient[i].fixes # None =>
            toClient[i].uri = asked.uri /\ toClient[i].fixes.text = asked.text

(* A message that changes a document's text, and the text after it. *)
ChangesText(m, u) == m.type \in {"text", "close"} /\ m.uri = u
TextOf(m) == IF m.type = "text" THEN m.text ELSE None

(* The inductive invariant behind it.  After the first k messages of queue    *)
(* q have been handled the server has t as the text of u, if it has d now.  *)
Told(q, k, u, t, d) ==
    \/ d = t /\ \A j \in 1 .. k : ~ChangesText(q[j], u)
    \/ \E i \in 1 .. k : /\ ChangesText(q[i], u) /\ TextOf(q[i]) = t
                       /\ \A j \in i + 1 .. k : ~ChangesText(q[j], u)

TextIn(store, u) == IF store[u] = None THEN None ELSE store[u].text

(* The server catches up with every buffer; when it comes to a save it has   *)
(* the saved text already, and when it comes to a request for fixes the     *)
(* text the client had when it asked.                                       *)
CatchesUp ==
    /\ \A u \in Uri : Told(toServer, Len(toServer), u, TextIn(buffer, u), TextIn(docs, u))
    /\ \A k \in DOMAIN toServer : LET m == toServer[k] IN
        /\ m.type = "save" /\ m.text # None =>
                Told(toServer, k, m.uri, m.text, TextIn(docs, m.uri))
        /\ m.type = "codeAction" =>
                asked # None /\ asked.uri = m.uri
                /\ Told(toServer, k, m.uri, asked.text, TextIn(docs, m.uri))

(* One request for fixes is under way at most. *)
OneRequest ==
    /\ \A i, k \in DOMAIN toServer :
        toServer[i].type = "codeAction" /\ toServer[k].type = "codeAction" => i = k
    /\ \A i, k \in DOMAIN toClient :
        toClient[i].type = "fixes" /\ toClient[k].type = "fixes" => i = k
    /\ \A i \in DOMAIN toServer, k \in DOMAIN toClient :
        ~(toServer[i].type = "codeAction" /\ toClient[k].type = "fixes")
    /\ \A k \in DOMAIN toClient : toClient[k].type = "fixes" => asked # None

(* The fixes of a document that is not being diagnosed are of its text. *)
FixesOfText ==
    \A u \in Uri \ work : codeActions[u] # None => codeActions[u].text = TextIn(docs, u)

IInv == TypeOK /\ CatchesUp /\ OneRequest /\ FixesOfText /\ QuickFixFits

Quiescent == toServer = <<>> /\ toClient = <<>> /\ work = {}

(* When nothing is under way the client shows, for each document, problems   *)
(* of its current version and under the settings it has sent last: a syntax *)
(* error if there is one, and nothing for a document it has closed.         *)
ShownIsBuffer ==
    Quiescent => \A u \in Uri :
        IF buffer[u] = None THEN shown[u].diags = Clean
        ELSE /\ shown[u].version = buffer[u].version
             /\ shown[u].diags \in
                    IF buffer[u].text \in Broken THEN {ParseError(buffer[u].text)}
                    ELSE {Clean, Lint(buffer[u].text, configured)}

(* The quick fixes on offer are those of the problems that are shown. *)
FixesAreShown ==
    Quiescent => \A u \in Uri :
        codeActions[u] = IF shown[u].diags.kind = "lint" THEN shown[u].diags ELSE None

(* A configuration heals: if ShellCheck has worked since the last one, every *)
(* valid open document shows its problems, whatever had been missing before. *)
HealthyMeansLinted ==
    Quiescent /\ healthy /\ configured # Off => \A u \in Uri :
        buffer[u] # None /\ buffer[u].text \notin Broken =>
            shown[u].diags = Lint(buffer[u].text, configured)

(* Once the client stops (MaxMessages) all is handled and shown. *)
QuietEventually == <>[]Quiescent

=============================================================================
