----------------------------- MODULE Lifecycle -----------------------------
(***************************************************************************)
(* The life of one server process: server.Run in the main goroutine, the   *)
(* connection's read loop (jsonrpc2 conn.run) which calls the handler, and *)
(* the background goroutines that "initialized" starts.  A client sends    *)
(* messages and may close its end; a signal may cancel Run's context.      *)
(*                                                                         *)
(* The model follows what decides how Run returns: two contexts, the       *)
(* stream's Close, the exit channel, the connection's error and done       *)
(* channel, and the order in which they are set.                           *)
(***************************************************************************)
EXTENDS Naturals, Sequences

CONSTANTS
    Requests,      \* kinds of messages the client sends
    CloseUnblocks, \* does closing stdin end a read that is blocked in it?
    MaxMessages    \* bound: messages the client sends

ASSUME MessageAssumption ==
    Requests \subseteq {"initialize", "initializeNonFile", "initialized", "request",
                        "notification", "openNonFile", "shutdown", "exit"}
ASSUME CloseAssumption == CloseUnblocks \in BOOLEAN
ASSUME MaxMessagesAssumption == MaxMessages \in Nat

VARIABLES
    inbox,     \* sent by the client and not yet taken by the read loop
    sent,      \* number of messages sent
    eof,       \* the client has closed its end
    owes,      \* the client has yet to answer registerCapability
    sigterm,   \* the context given to Run is cancelled
    cancelled, \* runCtx is cancelled by its cancel function
    closed,    \* the stream is closed
    reader,    \* the read loop: where it is
    msg,       \* the message its handler works on
    connErr,   \* conn.err: none, or which concrete type it holds
    shutdown, abnormalExit, exit, dynamicWatchedFiles,  \* as in bashServer
    scan, registration,  \* the background goroutines
    main,      \* Run: where it is
    result,    \* what Run returns
    crashed    \* a goroutine panicked: the process is gone

client == <<inbox, sent, eof, owes>>
server == <<shutdown, abnormalExit, exit, dynamicWatchedFiles>>
background == <<scan, registration>>
run == <<main, result>>
vars == <<client, sigterm, cancelled, closed, reader, msg, connErr, server, background,
          run, crashed>>

-----------------------------------------------------------------------------
(* runCtx is done when Run's context is, or once cancel was called. *)
RunCtxDone == sigterm \/ cancelled

(* fail stores the error in an atomic.Value, which panics when it already   *)
(* holds an error of another concrete type, and then closes the stream.     *)
Fail(e) ==
    IF connErr \in {"none", e}
    THEN connErr' = e /\ closed' = TRUE /\ UNCHANGED crashed
    ELSE crashed' = TRUE /\ UNCHANGED <<connErr, closed>>

IsCall(m) == m \in {"initialize", "initializeNonFile", "request", "shutdown"}

(* A reply is only written for a call, and not on a done context or a       *)
(* closed stream.                                                           *)
ReplyFails == IsCall(msg) /\ (RunCtxDone \/ closed)

(* The handler returns what its reply returned; an error fails the          *)
(* connection, but the loop goes on.                                        *)
ReplyAndReturn ==
    /\ reader' = "read" /\ msg' = "none"
    /\ IF ReplyFails THEN Fail("wrapped") ELSE UNCHANGED <<connErr, closed, crashed>>

-----------------------------------------------------------------------------
(* The read loop *)

(* Mutant: what is buffered is served without a look at the context. *)
ReadBegins_BufferFirst ==
    /\ reader = "read" /\ ~crashed
    /\ \/ RunCtxDone /\ inbox = <<>> /\ reader' = "done" /\ Fail("ctx")
       \/ (~RunCtxDone \/ inbox # <<>>) /\ reader' = "blocked" /\ UNCHANGED <<connErr, closed, crashed>>
    /\ UNCHANGED <<client, sigterm, cancelled, msg, server, background, run>>

(* stream.Read begins with a look at the context; its error is not wrapped. *)
ReadBegins ==
    /\ reader = "read" /\ ~crashed
    /\ \/ RunCtxDone /\ reader' = "done" /\ Fail("ctx")
       \/ ~RunCtxDone /\ reader' = "blocked" /\ UNCHANGED <<connErr, closed, crashed>>
    /\ UNCHANGED <<client, sigterm, cancelled, msg, server, background, run>>

(* Mutant: a response is taken for a request. *)
ReadMessage_NoResponse ==
    /\ reader = "blocked" /\ inbox # <<>> /\ ~crashed
    /\ inbox' = Tail(inbox)
    /\ reader' = "handle" /\ msg' = Head(inbox)
    /\ UNCHANGED <<sent, eof, owes, sigterm, cancelled, closed, connErr, server, background, run, crashed>>

(* The next message is complete.  A response wakes up the goroutine that    *)
(* waits for it; anything else goes to the handler.                         *)
ReadMessage ==
    /\ reader = "blocked" /\ inbox # <<>> /\ ~crashed
    /\ inbox' = Tail(inbox)
    /\ IF Head(inbox) = "response"
       THEN /\ registration' = IF registration = "waiting" THEN "done" ELSE registration
            /\ reader' = "read" /\ UNCHANGED msg
       ELSE reader' = "handle" /\ msg' = Head(inbox) /\ UNCHANGED registration
    /\ UNCHANGED <<sent, eof, owes, sigterm, cancelled, closed, connErr, server, scan, run, crashed>>

(* End of file, or the stream is closed under a blocked read.               *)
ReadFails ==
    /\ reader = "blocked" /\ ~crashed
    /\ \/ eof /\ inbox = <<>>
       \/ closed /\ (CloseUnblocks \/ inbox # <<>>)
    /\ reader' = "done" /\ Fail("wrapped")
    /\ UNCHANGED <<client, sigterm, cancelled, msg, server, background, run>>

-----------------------------------------------------------------------------
(* The handler *)

Handling(m) == reader = "handle" /\ msg = m /\ ~crashed

(* After shutdown everything but exit is refused. *)
HandleRefused ==
    /\ reader = "handle" /\ shutdown /\ msg # "exit" /\ ~crashed
    /\ ReplyAndReturn
    /\ UNCHANGED <<client, sigterm, cancelled, server, background, run>>

HandleInitialize ==
    /\ Handling("initialize") /\ ~shutdown
    /\ dynamicWatchedFiles' \in BOOLEAN
    /\ ReplyAndReturn
    /\ UNCHANGED <<client, sigterm, cancelled, shutdown, abnormalExit, exit, background, run>>

(* A root, or a document that is opened (untitled:), whose URI is no file    *)
(* URI: URI.Filename panics in extractWorkspaceRoots and in reparse.        *)
HandleNonFile ==
    /\ Handling(msg) /\ msg \in {"initializeNonFile", "openNonFile"} /\ ~shutdown
    /\ crashed' = TRUE
    /\ UNCHANGED <<client, sigterm, cancelled, closed, reader, msg, connErr, server,
                   background, run>>

(* Mutant: the registration runs in the handler, which waits for the answer. *)
HandleInitialized_Sync ==
    /\ Handling("initialized") /\ ~shutdown
    /\ reader' = IF dynamicWatchedFiles THEN "awaits registration" ELSE "read"
    /\ msg' = "none"
    /\ scan' = "running"
    /\ registration' = IF dynamicWatchedFiles THEN "calling" ELSE registration
    /\ UNCHANGED <<client, sigterm, cancelled, closed, connErr, server, run, crashed>>

(* Mutant: not refused after shutdown. *)
HandleInitialized_Always ==
    /\ Handling("initialized")
    /\ ReplyAndReturn
    /\ scan' = "running"
    /\ registration' = IF dynamicWatchedFiles THEN "calling" ELSE registration
    /\ UNCHANGED <<client, sigterm, cancelled, server, run>>

(* initialized starts the scan and, if the client wants it, the registration *)
(* of the file watcher, each in a goroutine of its own.                     *)
HandleInitialized ==
    /\ Handling("initialized") /\ ~shutdown
    /\ ReplyAndReturn
    /\ scan' = "running"
    /\ registration' = IF dynamicWatchedFiles THEN "calling" ELSE registration
    /\ UNCHANGED <<client, sigterm, cancelled, server, run>>

(* All other calls and notifications: what they change is not modelled here. *)
HandleOther ==
    /\ (Handling("request") \/ Handling("notification")) /\ ~shutdown
    /\ ReplyAndReturn
    /\ UNCHANGED <<client, sigterm, cancelled, server, background, run>>

(* shutdown only counts once its reply is written. *)
HandleShutdown ==
    /\ Handling("shutdown") /\ ~shutdown
    /\ ReplyAndReturn
    /\ shutdown' = ~ReplyFails
    /\ UNCHANGED <<client, sigterm, cancelled, abnormalExit, exit, dynamicWatchedFiles,
                   background, run>>

(* exit: how it came is stored first; signalExit then closes the exit       *)
(* channel, cancels runCtx and closes the stream, in this order.            *)
HandleExit ==
    /\ Handling("exit")
    /\ abnormalExit' = ~shutdown
    /\ reader' = "signal"
    /\ UNCHANGED <<client, sigterm, cancelled, closed, msg, connErr, shutdown, exit,
                   dynamicWatchedFiles, background, run, crashed>>

SignalExit ==
    /\ reader = "signal" /\ ~crashed
    /\ exit' = TRUE
    /\ reader' = "cancel"
    /\ UNCHANGED <<client, sigterm, cancelled, closed, msg, connErr, shutdown, abnormalExit,
                   dynamicWatchedFiles, background, run, crashed>>

(* Mutant: runCtx is not cancelled. *)
SignalCancel_Forgotten ==
    /\ reader = "cancel" /\ ~crashed
    /\ reader' = "close"
    /\ UNCHANGED <<client, sigterm, cancelled, closed, msg, connErr, server, background, run, crashed>>

SignalCancel ==
    /\ reader = "cancel" /\ ~crashed
    /\ cancelled' = TRUE
    /\ reader' = "close"
    /\ UNCHANGED <<client, sigterm, closed, msg, connErr, server, background, run, crashed>>

SignalClose ==
    /\ reader = "close" /\ ~crashed
    /\ closed' = TRUE
    /\ reader' = "read" /\ msg' = "none"
    /\ UNCHANGED <<client, sigterm, cancelled, connErr, server, background, run, crashed>>

-----------------------------------------------------------------------------
(* Background goroutines *)

(* The walk ends by itself, or early because runCtx is done. *)
ScanEnds ==
    /\ scan = "running" /\ ~crashed
    /\ scan' = "done"
    /\ UNCHANGED <<client, sigterm, cancelled, closed, reader, msg, connErr, server,
                   registration, run, crashed>>

(* registerFileWatchers writes a call, and waits for its answer ... *)
RegisterCall ==
    /\ registration = "calling" /\ ~crashed
    /\ IF RunCtxDone \/ closed
       THEN registration' = "done" /\ UNCHANGED owes
       ELSE registration' = "waiting" /\ owes' = TRUE
    /\ UNCHANGED <<inbox, sent, eof, sigterm, cancelled, closed, reader, msg, connErr, server,
                   scan, run, crashed>>

(* ... or for runCtx. *)
RegisterGivesUp ==
    /\ registration = "waiting" /\ RunCtxDone /\ ~crashed
    /\ registration' = "done"
    /\ UNCHANGED <<client, sigterm, cancelled, closed, reader, msg, connErr, server,
                   scan, run, crashed>>

-----------------------------------------------------------------------------
(* Run *)

ExitResult == IF abnormalExit THEN "abnormal" ELSE "ok"

RunReturns(r) == main' = "cancel" /\ result' = r

(* Mutant: the error of the connection counts even after an exit. *)
Select_ErrorFirst ==
    /\ main = "select" /\ ~crashed
    /\ \/ sigterm /\ RunReturns("ctx")
       \/ exit /\ RunReturns(ExitResult)
       \/ reader = "done" /\ RunReturns(IF connErr # "none" THEN "connErr" ELSE "ok")
    /\ UNCHANGED <<client, sigterm, cancelled, closed, reader, msg, connErr, server,
                   background, crashed>>

(* The select of Run takes any case that is ready; when the connection is   *)
(* done, an exit that was handled before counts and not the error.          *)
Select ==
    /\ main = "select" /\ ~crashed
    /\ \/ sigterm /\ RunReturns("ctx")
       \/ exit /\ RunReturns(ExitResult)
       \/ /\ reader = "done"
          /\ RunReturns(IF exit THEN ExitResult
                        ELSE IF connErr # "none" THEN "connErr" ELSE "ok")
    /\ UNCHANGED <<client, sigterm, cancelled, closed, reader, msg, connErr, server,
                   background, crashed>>

(* Mutant: runCtx is not cancelled. *)
DeferredCancel_Forgotten ==
    /\ main = "cancel" /\ ~crashed
    /\ main' = "close"
    /\ UNCHANGED <<client, sigterm, cancelled, closed, reader, msg, connErr, server, background,
                   result, crashed>>

(* The deferred function: cancel, close, wait for the read loop and then    *)
(* for the background goroutines.                                           *)
DeferredCancel ==
    /\ main = "cancel" /\ ~crashed
    /\ cancelled' = TRUE /\ main' = "close"
    /\ UNCHANGED <<client, sigterm, closed, reader, msg, connErr, server, background,
                   result, crashed>>

DeferredClose ==
    /\ main = "close" /\ ~crashed
    /\ closed' = TRUE /\ main' = "connection"
    /\ UNCHANGED <<client, sigterm, cancelled, reader, msg, connErr, server, background,
                   result, crashed>>

(* Mutant: Run does not wait for the read loop. *)
AwaitConnection_Skipped ==
    /\ main = "connection" /\ ~crashed
    /\ main' = "background"
    /\ UNCHANGED <<client, sigterm, cancelled, closed, reader, msg, connErr, server,
                   background, result, crashed>>

AwaitConnection ==
    /\ main = "connection" /\ reader = "done" /\ ~crashed
    /\ main' = "background"
    /\ UNCHANGED <<client, sigterm, cancelled, closed, reader, msg, connErr, server,
                   background, result, crashed>>

AwaitBackground ==
    /\ main = "background" /\ ~crashed
    /\ scan # "running" /\ registration \notin {"calling", "waiting"}
    /\ main' = "returned"
    /\ UNCHANGED <<client, sigterm, cancelled, closed, reader, msg, connErr, server,
                   background, result, crashed>>

-----------------------------------------------------------------------------
(* The client and the signal *)

(* A client says initialized once; a message may be in flight when the       *)
(* process ends.                                                            *)
Send(m) ==
    /\ ~eof /\ sent < MaxMessages
    /\ m = "initialized" =>
         /\ scan = "idle" /\ msg # m
         /\ \A i \in DOMAIN inbox : inbox[i] # m
    /\ inbox' = Append(inbox, m) /\ sent' = sent + 1
    /\ UNCHANGED <<eof, owes, sigterm, cancelled, closed, reader, msg, connErr, server,
                   background, run, crashed>>

Answer ==
    /\ owes /\ ~eof
    /\ inbox' = Append(inbox, "response") /\ owes' = FALSE
    /\ UNCHANGED <<sent, eof, sigterm, cancelled, closed, reader, msg, connErr, server,
                   background, run, crashed>>

Disconnect ==
    /\ ~eof
    /\ eof' = TRUE
    /\ UNCHANGED <<inbox, sent, owes, sigterm, cancelled, closed, reader, msg, connErr, server,
                   background, run, crashed>>

Terminate ==
    /\ ~sigterm
    /\ sigterm' = TRUE
    /\ UNCHANGED <<client, cancelled, closed, reader, msg, connErr, server, background, run,
                   crashed>>

-----------------------------------------------------------------------------
Init ==
    /\ inbox = <<>> /\ sent = 0 /\ eof = FALSE /\ owes = FALSE
    /\ sigterm = FALSE /\ cancelled = FALSE /\ closed = FALSE
    /\ reader = "read" /\ msg = "none" /\ connErr = "none"
    /\ shutdown = FALSE /\ abnormalExit = FALSE /\ exit = FALSE
    /\ dynamicWatchedFiles = FALSE
    /\ scan = "idle" /\ registration = "idle"
    /\ main = "select" /\ result = "none" /\ crashed = FALSE

Handle ==
    \/ HandleRefused
    \/ HandleInitialize \/ HandleNonFile \/ HandleInitialized
    \/ HandleOther \/ HandleShutdown
    \/ HandleExit \/ SignalExit \/ SignalCancel \/ SignalClose

Reader == ReadBegins \/ ReadMessage \/ ReadFails \/ Handle
Registration == RegisterCall \/ RegisterGivesUp
Main == Select \/ DeferredCancel \/ DeferredClose \/ AwaitConnection \/ AwaitBackground
Client == (\E m \in Requests : Send(m)) \/ Answer \/ Disconnect

Next == Reader \/ ScanEnds \/ Registration \/ Main \/ Client \/ Terminate

(* Goroutines that can run do run; nothing makes the client send, answer or *)
(* disconnect, nor the signal arrive.                                       *)
Spec == Init /\ [][Next]_vars

FairSpec == Spec /\ WF_vars(Reader) /\ WF_vars(ScanEnds) /\ WF_vars(Registration) /\ WF_vars(Main)

-----------------------------------------------------------------------------
(* Properties *)

(* Every variable has its type. *)
TypeOK ==
    /\ inbox \in Seq(Requests \cup {"response"}) /\ sent \in 0 .. MaxMessages
    /\ eof \in BOOLEAN /\ owes \in BOOLEAN
    /\ sigterm \in BOOLEAN /\ cancelled \in BOOLEAN /\ closed \in BOOLEAN
    /\ reader \in {"read", "blocked", "handle", "signal", "cancel", "close", "done"}
    /\ msg \in Requests \cup {"none"}
    /\ connErr \in {"none", "wrapped", "ctx"}
    /\ shutdown \in BOOLEAN /\ abnormalExit \in BOOLEAN /\ exit \in BOOLEAN
    /\ dynamicWatchedFiles \in BOOLEAN
    /\ scan \in {"idle", "running", "done"}
    /\ registration \in {"idle", "calling", "waiting", "done"}
    /\ main \in {"select", "cancel", "close", "connection", "background", "returned"}
    /\ result \in {"none", "ok", "abnormal", "connErr", "ctx"}
    /\ crashed \in BOOLEAN

(* Run reports what the client did: nil only for an exit after an accepted   *)
(* shutdown, ErrExitWithoutShutdown only for one without, and when no signal *)
(* interferes an exit is never reported as the connection error that its    *)
(* own closing of the stream provokes.                                      *)
ExitStatus ==
    /\ result = "ok" => exit /\ shutdown
    /\ result = "abnormal" => exit /\ ~shutdown
    /\ result = "connErr" => ~exit
    /\ result = "ctx" => sigterm

(* When Run returns none of its goroutines is left, and none comes later: the *)
(* WaitGroup is only waited for when nothing can be added to it any more.   *)
NoOrphans ==
    /\ main \in {"background", "returned"} => reader = "done"
    /\ main = "returned" => scan # "running" /\ registration \notin {"calling", "waiting"}

(* A panic of the read loop on its second error takes a signal: a client    *)
(* that sends file URIs cannot bring it about, however it shuts down, exits *)
(* or disconnects.  (A URI of another scheme does, although the comment of  *)
(* extractWorkspaceRoots, initialize.go:143, says such roots are skipped.)  *)
OnlySignalsCrash == crashed => sigterm \/ msg \in {"initializeNonFile", "openNonFile"}

(* The inductive invariant: where the read loop is when an exit has been     *)
(* handled, and that without a signal runCtx is done and the stream closed  *)
(* only when the loop handles no message any more.                          *)
ExitHandled ==
    /\ reader \in {"handle", "signal", "cancel", "close"} => msg \in Requests
    /\ reader \in {"signal", "cancel", "close"} \/ exit => abnormalExit = ~shutdown
    /\ reader \in {"signal", "cancel", "close"} => msg = "exit"
    /\ reader \in {"cancel", "close"} => exit
    /\ exit => reader \in {"cancel", "close", "read", "done"}
    /\ exit /\ reader \in {"close", "read"} => cancelled
    /\ msg \in {"initializeNonFile", "openNonFile"} => reader = "handle"

Calm ==
    /\ main # "select" /\ ~sigterm => exit \/ reader = "done"
    /\ main \notin {"select", "cancel"} => cancelled
    /\ cancelled /\ ~sigterm => exit \/ reader = "done"
    /\ closed /\ ~sigterm => cancelled \/ reader = "done"
    /\ connErr # "none" /\ ~sigterm => reader = "done"
    /\ reader = "done" => connErr # "none" \/ crashed

RunResult ==
    /\ main = "select" <=> result = "none"
    /\ result = "ok" => exit /\ ~abnormalExit
    /\ result = "abnormal" => exit /\ abnormalExit
    /\ result = "connErr" => reader = "done" /\ ~exit

IInv ==
    /\ TypeOK
    /\ ExitHandled /\ Calm /\ RunResult
    /\ ExitStatus /\ NoOrphans /\ OnlySignalsCrash

(* After an accepted shutdown no message but exit has an effect: no new      *)
(* background work, no change to what initialize decided.                   *)
ShutdownFreezes ==
    [][shutdown => /\ shutdown'
                   /\ dynamicWatchedFiles' = dynamicWatchedFiles
                   /\ scan = "idle" => scan' = "idle"
                   /\ registration = "idle" => registration' = "idle"]_vars

(* Once exit is handled Run returns, even with a read that closing stdin     *)
(* would not end, and with a client that never answers.                     *)
ExitReturns == exit ~> main = "returned"

(* Once the client has gone Run returns; a client that leaves between its    *)
(* registration request and its answer does not keep it.                    *)
DisconnectReturns == eof ~> (main = "returned" \/ crashed)

(* The answer to registerCapability reaches the goroutine that waits for it: *)
(* the read loop is never itself waiting for the answer it would deliver.   *)
RegistrationEnds ==
    (registration = "waiting" /\ \E i \in DOMAIN inbox : inbox[i] = "response")
        ~> (registration = "done" \/ crashed)

(* What the comment of Run says: it returns when its context is cancelled.  *)
SignalReturns == sigterm ~> main = "returned"

=============================================================================
