-------------------------- MODULE LifecycleProofs --------------------------
(***************************************************************************)
(* Proofs about Lifecycle: what Run returns, what it leaves behind, what   *)
(* can crash it, and why it comes to an end, for any set of message kinds  *)
(* and any number of them.                                                 *)
(***************************************************************************)
EXTENDS Lifecycle, Integers, TLAPS

(* The variables a failure of the connection changes keep their types.      *)
LEMMA FailType ==
    ASSUME TypeOK, NEW e \in {"wrapped", "ctx"}, Fail(e)
    PROVE  connErr' \in {"none", "wrapped", "ctx"} /\ closed' \in BOOLEAN /\ crashed' \in BOOLEAN
  <1>1. CASE connErr \in {"none", e}
    BY <1>1 DEF Fail, TypeOK
  <1>2. CASE connErr \notin {"none", e}
    BY <1>2 DEF Fail, TypeOK
  <1> QED
    BY <1>1, <1>2

LEMMA ReplyType ==
    ASSUME TypeOK, ReplyAndReturn
    PROVE  /\ reader' = "read" /\ msg' = "none"
           /\ connErr' \in {"none", "wrapped", "ctx"} /\ closed' \in BOOLEAN /\ crashed' \in BOOLEAN
  <1>1. CASE Fail("wrapped")
    BY <1>1, FailType DEF ReplyAndReturn
  <1>2. CASE UNCHANGED <<connErr, closed, crashed>>
    BY <1>2 DEF ReplyAndReturn, TypeOK
  <1> QED
    BY <1>1, <1>2 DEF ReplyAndReturn

(* The invariant holds when the process starts ...                          *)
LEMMA InitIInv == Init => IInv
  <1> SUFFICES ASSUME Init PROVE IInv
    OBVIOUS
  <1> USE DEF Init
  <1>1. TypeOK
    <2>1. <<>> \in Seq(Requests \cup {"response"}) /\ 0 \in 0 .. MaxMessages
      BY MaxMessagesAssumption
    <2> QED
      BY <2>1 DEF TypeOK
  <1>2. ExitHandled /\ Calm /\ RunResult
    BY DEF ExitHandled, Calm, RunResult
  <1>3. ExitStatus /\ NoOrphans /\ OnlySignalsCrash
    BY DEF ExitStatus, NoOrphans, OnlySignalsCrash
  <1> QED
    BY <1>1, <1>2, <1>3 DEF IInv

(* ... and each action preserves it: (1) types, (2) the state of the read   *)
(* loop and of Run, (3) the properties.                                     *)
LEMMA ReadBeginsIInv ==
    ASSUME IInv, ReadBegins
    PROVE  IInv'
  <1> USE DEF IInv, ReadBegins, client, server, background, run
  <1>1. TypeOK'
    <2>1. /\ connErr' \in {"none", "wrapped", "ctx"} /\ closed' \in BOOLEAN /\ crashed' \in BOOLEAN
          /\ reader' \in {"blocked", "done"}
      <3>1. CASE Fail("ctx") /\ reader' = "done"
        BY <3>1, FailType
      <3>2. CASE reader' = "blocked" /\ UNCHANGED <<connErr, closed, crashed>>
        BY <3>2 DEF TypeOK
      <3> QED
        BY <3>1, <3>2
    <2> QED
      BY <2>1 DEF TypeOK
  <1>2. ExitHandled' /\ Calm' /\ RunResult'
    BY DEF TypeOK, ExitHandled, Calm, RunResult, RunCtxDone, Fail
  <1>3. ExitStatus' /\ NoOrphans' /\ OnlySignalsCrash'
    BY DEF TypeOK, ExitHandled, Calm, RunResult, ExitStatus, NoOrphans, OnlySignalsCrash, RunCtxDone, Fail
  <1> QED
    BY <1>1, <1>2, <1>3

LEMMA ReadMessageIInv ==
    ASSUME IInv, ReadMessage
    PROVE  IInv'
  <1> USE DEF IInv, ReadMessage, client, server, background, run
  <1>1. TypeOK'
    BY DEF TypeOK
  <1>2. ExitHandled' /\ Calm' /\ RunResult'
    BY DEF TypeOK, ExitHandled, Calm, RunResult, RunCtxDone
  <1>3. ExitStatus' /\ NoOrphans' /\ OnlySignalsCrash'
    BY DEF TypeOK, ExitHandled, Calm, RunResult, ExitStatus, NoOrphans, OnlySignalsCrash, RunCtxDone
  <1> QED
    BY <1>1, <1>2, <1>3

LEMMA ReadFailsIInv ==
    ASSUME IInv, ReadFails
    PROVE  IInv'
  <1> USE DEF IInv, ReadFails, client, server, background, run
  <1>1. TypeOK'
    <2>1. connErr' \in {"none", "wrapped", "ctx"} /\ closed' \in BOOLEAN /\ crashed' \in BOOLEAN
      BY FailType
    <2> QED
      BY <2>1 DEF TypeOK
  <1>2. ExitHandled' /\ Calm' /\ RunResult'
    BY DEF TypeOK, ExitHandled, Calm, RunResult, RunCtxDone, Fail
  <1>3. ExitStatus' /\ NoOrphans' /\ OnlySignalsCrash'
    BY DEF TypeOK, ExitHandled, Calm, RunResult, ExitStatus, NoOrphans, OnlySignalsCrash, RunCtxDone, Fail
  <1> QED
    BY <1>1, <1>2, <1>3

LEMMA HandleRefusedIInv ==
    ASSUME IInv, HandleRefused
    PROVE  IInv'
  <1> USE DEF IInv, HandleRefused, client, server, background, run
  <1>1. TypeOK'
    <2>1. TypeOK
      OBVIOUS
    <2> QED
      BY <2>1, ReplyType DEF TypeOK
  <1>2. ExitHandled' /\ Calm' /\ RunResult'
    BY DEF TypeOK, ExitHandled, Calm, RunResult, RunCtxDone, ReplyAndReturn, ReplyFails, Fail
  <1>3. ExitStatus' /\ NoOrphans' /\ OnlySignalsCrash'
    BY DEF TypeOK, ExitHandled, Calm, RunResult, ExitStatus, NoOrphans, OnlySignalsCrash, RunCtxDone, ReplyAndReturn, ReplyFails, Fail
  <1> QED
    BY <1>1, <1>2, <1>3

LEMMA HandleInitializeIInv ==
    ASSUME IInv, HandleInitialize
    PROVE  IInv'
  <1> USE DEF IInv, HandleInitialize, Handling, client, server, background, run
  <1>1. TypeOK'
    <2>1. TypeOK
      OBVIOUS
    <2> QED
      BY <2>1, ReplyType DEF TypeOK
  <1>2. ExitHandled' /\ Calm' /\ RunResult'
    BY DEF TypeOK, ExitHandled, Calm, RunResult, RunCtxDone, ReplyAndReturn, ReplyFails, Fail
  <1>3. ExitStatus' /\ NoOrphans' /\ OnlySignalsCrash'
    BY DEF TypeOK, ExitHandled, Calm, RunResult, ExitStatus, NoOrphans, OnlySignalsCrash, RunCtxDone, ReplyAndReturn, ReplyFails, Fail
  <1> QED
    BY <1>1, <1>2, <1>3

LEMMA HandleNonFileIInv ==
    ASSUME IInv, HandleNonFile
    PROVE  IInv'
  <1> USE DEF IInv, HandleNonFile, Handling, client, server, background, run
  <1>1. TypeOK'
    BY DEF TypeOK
  <1>2. ExitHandled' /\ Calm' /\ RunResult'
    BY DEF TypeOK, ExitHandled, Calm, RunResult, RunCtxDone
  <1>3. ExitStatus' /\ NoOrphans' /\ OnlySignalsCrash'
    BY DEF TypeOK, ExitHandled, Calm, RunResult, ExitStatus, NoOrphans, OnlySignalsCrash, RunCtxDone
  <1> QED
    BY <1>1, <1>2, <1>3

LEMMA HandleInitializedIInv ==
    ASSUME IInv, HandleInitialized
    PROVE  IInv'
  <1> USE DEF IInv, HandleInitialized, Handling, client, server, background, run
  <1>1. TypeOK'
    <2>1. TypeOK
      OBVIOUS
    <2> QED
      BY <2>1, ReplyType DEF TypeOK
  <1>2. ExitHandled' /\ Calm' /\ RunResult'
    BY DEF TypeOK, ExitHandled, Calm, RunResult, RunCtxDone, ReplyAndReturn, ReplyFails, Fail
  <1>3. ExitStatus' /\ NoOrphans' /\ OnlySignalsCrash'
    BY DEF TypeOK, ExitHandled, Calm, RunResult, ExitStatus, NoOrphans, OnlySignalsCrash, RunCtxDone, ReplyAndReturn, ReplyFails, Fail
  <1> QED
    BY <1>1, <1>2, <1>3

LEMMA HandleOtherIInv ==
    ASSUME IInv, HandleOther
    PROVE  IInv'
  <1> USE DEF IInv, HandleOther, Handling, client, server, background, run
  <1>1. TypeOK'
    <2>1. TypeOK
      OBVIOUS
    <2> QED
      BY <2>1, ReplyType DEF TypeOK
  <1>2. ExitHandled' /\ Calm' /\ RunResult'
    BY DEF TypeOK, ExitHandled, Calm, RunResult, RunCtxDone, ReplyAndReturn, ReplyFails, Fail
  <1>3. ExitStatus' /\ NoOrphans' /\ OnlySignalsCrash'
    BY DEF TypeOK, ExitHandled, Calm, RunResult, ExitStatus, NoOrphans, OnlySignalsCrash, RunCtxDone, ReplyAndReturn, ReplyFails, Fail
  <1> QED
    BY <1>1, <1>2, <1>3

LEMMA HandleShutdownIInv ==
    ASSUME IInv, HandleShutdown
    PROVE  IInv'
  <1> USE DEF IInv, HandleShutdown, Handling, client, server, background, run
  <1>1. TypeOK'
    <2>1. TypeOK /\ shutdown' \in BOOLEAN
      OBVIOUS
    <2> QED
      BY <2>1, ReplyType DEF TypeOK
  <1>2. ExitHandled' /\ Calm' /\ RunResult'
    BY DEF TypeOK, ExitHandled, Calm, RunResult, RunCtxDone, ReplyAndReturn, ReplyFails, Fail
  <1>3. ExitStatus' /\ NoOrphans' /\ OnlySignalsCrash'
    BY DEF TypeOK, ExitHandled, Calm, RunResult, ExitStatus, NoOrphans, OnlySignalsCrash, RunCtxDone, ReplyAndReturn, ReplyFails, Fail
  <1> QED
    BY <1>1, <1>2, <1>3

LEMMA HandleExitIInv ==
    ASSUME IInv, HandleExit
    PROVE  IInv'
  <1> USE DEF IInv, HandleExit, Handling, client, server, background, run
  <1>1. TypeOK'
    BY DEF TypeOK
  <1>2. ExitHandled' /\ Calm' /\ RunResult'
    BY DEF TypeOK, ExitHandled, Calm, RunResult, RunCtxDone
  <1>3. ExitStatus' /\ NoOrphans' /\ OnlySignalsCrash'
    BY DEF TypeOK, ExitHandled, Calm, RunResult, ExitStatus, NoOrphans, OnlySignalsCrash, RunCtxDone
  <1> QED
    BY <1>1, <1>2, <1>3

LEMMA SignalExitIInv ==
    ASSUME IInv, SignalExit
    PROVE  IInv'
  <1> USE DEF IInv, SignalExit, client, server, background, run
  <1>1. TypeOK'
    BY DEF TypeOK
  <1>2. ExitHandled' /\ Calm' /\ RunResult'
    BY DEF TypeOK, ExitHandled, Calm, RunResult, RunCtxDone
  <1>3. ExitStatus' /\ NoOrphans' /\ OnlySignalsCrash'
    BY DEF TypeOK, ExitHandled, Calm, RunResult, ExitStatus, NoOrphans, OnlySignalsCrash, RunCtxDone
  <1> QED
    BY <1>1, <1>2, <1>3

LEMMA SignalCancelIInv ==
    ASSUME IInv, SignalCancel
    PROVE  IInv'
  <1> USE DEF IInv, SignalCancel, client, server, background, run
  <1>1. TypeOK'
    BY DEF TypeOK
  <1>2. ExitHandled' /\ Calm' /\ RunResult'
    BY DEF TypeOK, ExitHandled, Calm, RunResult, RunCtxDone
  <1>3. ExitStatus' /\ NoOrphans' /\ OnlySignalsCrash'
    BY DEF TypeOK, ExitHandled, Calm, RunResult, ExitStatus, NoOrphans, OnlySignalsCrash, RunCtxDone
  <1> QED
    BY <1>1, <1>2, <1>3

LEMMA SignalCloseIInv ==
    ASSUME IInv, SignalClose
    PROVE  IInv'
  <1> USE DEF IInv, SignalClose, client, server, background, run
  <1>1. TypeOK'
    BY DEF TypeOK
  <1>2. ExitHandled' /\ Calm' /\ RunResult'
    BY DEF TypeOK, ExitHandled, Calm, RunResult, RunCtxDone
  <1>3. ExitStatus' /\ NoOrphans' /\ OnlySignalsCrash'
    BY DEF TypeOK, ExitHandled, Calm, RunResult, ExitStatus, NoOrphans, OnlySignalsCrash, RunCtxDone
  <1> QED
    BY <1>1, <1>2, <1>3

LEMMA ScanEndsIInv ==
    ASSUME IInv, ScanEnds
    PROVE  IInv'
  <1> USE DEF IInv, ScanEnds, client, server, background, run
  <1>1. TypeOK'
    BY DEF TypeOK
  <1>2. ExitHandled' /\ Calm' /\ RunResult'
    BY DEF TypeOK, ExitHandled, Calm, RunResult, RunCtxDone
  <1>3. ExitStatus' /\ NoOrphans' /\ OnlySignalsCrash'
    BY DEF TypeOK, ExitHandled, Calm, RunResult, ExitStatus, NoOrphans, OnlySignalsCrash, RunCtxDone
  <1> QED
    BY <1>1, <1>2, <1>3

LEMMA RegisterCallIInv ==
    ASSUME IInv, RegisterCall
    PROVE  IInv'
  <1> USE DEF IInv, RegisterCall, client, server, background, run
  <1>1. TypeOK'
    <2>1. CASE RunCtxDone \/ closed
      BY <2>1 DEF TypeOK
    <2>2. CASE ~(RunCtxDone \/ closed)
      BY <2>2 DEF TypeOK
    <2> QED
      BY <2>1, <2>2
  <1>2. ExitHandled' /\ Calm' /\ RunResult'
    BY DEF TypeOK, ExitHandled, Calm, RunResult, RunCtxDone
  <1>3. ExitStatus' /\ NoOrphans' /\ OnlySignalsCrash'
    BY DEF TypeOK, ExitHandled, Calm, RunResult, ExitStatus, NoOrphans, OnlySignalsCrash, RunCtxDone
  <1> QED
    BY <1>1, <1>2, <1>3

LEMMA RegisterGivesUpIInv ==
    ASSUME IInv, RegisterGivesUp
    PROVE  IInv'
  <1> USE DEF IInv, RegisterGivesUp, client, server, background, run
  <1>1. TypeOK'
    BY DEF TypeOK
  <1>2. ExitHandled' /\ Calm' /\ RunResult'
    BY DEF TypeOK, ExitHandled, Calm, RunResult, RunCtxDone
  <1>3. ExitStatus' /\ NoOrphans' /\ OnlySignalsCrash'
    BY DEF TypeOK, ExitHandled, Calm, RunResult, ExitStatus, NoOrphans, OnlySignalsCrash, RunCtxDone
  <1> QED
    BY <1>1, <1>2, <1>3

LEMMA SelectIInv ==
    ASSUME IInv, Select
    PROVE  IInv'
  <1> USE DEF IInv, Select, RunReturns, ExitResult, client, server, background, run
  <1>1. TypeOK'
    BY DEF TypeOK
  <1>2. ExitHandled' /\ Calm' /\ RunResult'
    BY DEF TypeOK, ExitHandled, Calm, RunResult, RunCtxDone
  <1>3. ExitStatus' /\ NoOrphans' /\ OnlySignalsCrash'
    BY DEF TypeOK, ExitHandled, Calm, RunResult, ExitStatus, NoOrphans, OnlySignalsCrash, RunCtxDone
  <1> QED
    BY <1>1, <1>2, <1>3

LEMMA DeferredCancelIInv ==
    ASSUME IInv, DeferredCancel
    PROVE  IInv'
  <1> USE DEF IInv, DeferredCancel, client, server, background, run
  <1>1. TypeOK'
    BY DEF TypeOK
  <1>2. ExitHandled' /\ Calm' /\ RunResult'
    BY DEF TypeOK, ExitHandled, Calm, RunResult, RunCtxDone
  <1>3. ExitStatus' /\ NoOrphans' /\ OnlySignalsCrash'
    BY DEF TypeOK, ExitHandled, Calm, RunResult, ExitStatus, NoOrphans, OnlySignalsCrash, RunCtxDone
  <1> QED
    BY <1>1, <1>2, <1>3

LEMMA DeferredCloseIInv ==
    ASSUME IInv, DeferredClose
    PROVE  IInv'
  <1> USE DEF IInv, DeferredClose, client, server, background, run
  <1>1. TypeOK'
    BY DEF TypeOK
  <1>2. ExitHandled' /\ Calm' /\ RunResult'
    BY DEF TypeOK, ExitHandled, Calm, RunResult, RunCtxDone
  <1>3. ExitStatus' /\ NoOrphans' /\ OnlySignalsCrash'
    BY DEF TypeOK, ExitHandled, Calm, RunResult, ExitStatus, NoOrphans, OnlySignalsCrash, RunCtxDone
  <1> QED
    BY <1>1, <1>2, <1>3

LEMMA AwaitConnectionIInv ==
    ASSUME IInv, AwaitConnection
    PROVE  IInv'
  <1> USE DEF IInv, AwaitConnection, client, server, background, run
  <1>1. TypeOK'
    BY DEF TypeOK
  <1>2. ExitHandled' /\ Calm' /\ RunResult'
    BY DEF TypeOK, ExitHandled, Calm, RunResult, RunCtxDone
  <1>3. ExitStatus' /\ NoOrphans' /\ OnlySignalsCrash'
    BY DEF TypeOK, ExitHandled, Calm, RunResult, ExitStatus, NoOrphans, OnlySignalsCrash, RunCtxDone
  <1> QED
    BY <1>1, <1>2, <1>3

LEMMA AwaitBackgroundIInv ==
    ASSUME IInv, AwaitBackground
    PROVE  IInv'
  <1> USE DEF IInv, AwaitBackground, client, server, background, run
  <1>1. TypeOK'
    BY DEF TypeOK
  <1>2. ExitHandled' /\ Calm' /\ RunResult'
    BY DEF TypeOK, ExitHandled, Calm, RunResult, RunCtxDone
  <1>3. ExitStatus' /\ NoOrphans' /\ OnlySignalsCrash'
    BY DEF TypeOK, ExitHandled, Calm, RunResult, ExitStatus, NoOrphans, OnlySignalsCrash, RunCtxDone
  <1> QED
    BY <1>1, <1>2, <1>3

LEMMA AnswerIInv ==
    ASSUME IInv, Answer
    PROVE  IInv'
  <1> USE DEF IInv, Answer, client, server, background, run
  <1>1. TypeOK'
    <2>1. inbox \in Seq(Requests \cup {"response"})
      BY DEF TypeOK
    <2>2. inbox' \in Seq(Requests \cup {"response"})
      BY <2>1
    <2>3. owes' \in BOOLEAN
      OBVIOUS
    <2> QED
      BY <2>2, <2>3 DEF TypeOK
  <1>2. ExitHandled' /\ Calm' /\ RunResult'
    BY DEF TypeOK, ExitHandled, Calm, RunResult, RunCtxDone
  <1>3. ExitStatus' /\ NoOrphans' /\ OnlySignalsCrash'
    BY DEF TypeOK, ExitHandled, Calm, RunResult, ExitStatus, NoOrphans, OnlySignalsCrash, RunCtxDone
  <1> QED
    BY <1>1, <1>2, <1>3

LEMMA DisconnectIInv ==
    ASSUME IInv, Disconnect
    PROVE  IInv'
  <1> USE DEF IInv, Disconnect, client, server, background, run
  <1>1. TypeOK'
    BY DEF TypeOK
  <1>2. ExitHandled' /\ Calm' /\ RunResult'
    BY DEF TypeOK, ExitHandled, Calm, RunResult, RunCtxDone
  <1>3. ExitStatus' /\ NoOrphans' /\ OnlySignalsCrash'
    BY DEF TypeOK, ExitHandled, Calm, RunResult, ExitStatus, NoOrphans, OnlySignalsCrash, RunCtxDone
  <1> QED
    BY <1>1, <1>2, <1>3

LEMMA TerminateIInv ==
    ASSUME IInv, Terminate
    PROVE  IInv'
  <1> USE DEF IInv, Terminate, client, server, background, run
  <1>1. TypeOK'
    BY DEF TypeOK
  <1>2. ExitHandled' /\ Calm' /\ RunResult'
    BY DEF TypeOK, ExitHandled, Calm, RunResult, RunCtxDone
  <1>3. ExitStatus' /\ NoOrphans' /\ OnlySignalsCrash'
    BY DEF TypeOK, ExitHandled, Calm, RunResult, ExitStatus, NoOrphans, OnlySignalsCrash, RunCtxDone
  <1> QED
    BY <1>1, <1>2, <1>3

LEMMA SendIInv ==
    ASSUME IInv, NEW m \in Requests, Send(m)
    PROVE  IInv'
  <1> USE DEF IInv, Send, client, server, background, run
  <1>1. TypeOK'
    <2>1. inbox \in Seq(Requests \cup {"response"})
      BY DEF TypeOK
    <2>2. inbox' \in Seq(Requests \cup {"response"})
      BY <2>1
    <2>3. sent' \in 0 .. MaxMessages
      BY MaxMessagesAssumption DEF TypeOK
    <2> QED
      BY <2>2, <2>3 DEF TypeOK
  <1>2. ExitHandled' /\ Calm' /\ RunResult'
    BY DEF TypeOK, ExitHandled, Calm, RunResult, RunCtxDone
  <1>3. ExitStatus' /\ NoOrphans' /\ OnlySignalsCrash'
    BY DEF TypeOK, ExitHandled, Calm, RunResult, ExitStatus, NoOrphans, OnlySignalsCrash, RunCtxDone
  <1> QED
    BY <1>1, <1>2, <1>3

LEMMA StutterIInv ==
    ASSUME IInv, UNCHANGED vars
    PROVE  IInv'
  <1> USE DEF IInv, vars, client, server, background, run
  <1>1. TypeOK'
    BY DEF TypeOK
  <1>2. ExitHandled' /\ Calm' /\ RunResult'
    BY DEF TypeOK, ExitHandled, Calm, RunResult, RunCtxDone
  <1>3. ExitStatus' /\ NoOrphans' /\ OnlySignalsCrash'
    BY DEF TypeOK, ExitHandled, Calm, RunResult, ExitStatus, NoOrphans, OnlySignalsCrash, RunCtxDone
  <1> QED
    BY <1>1, <1>2, <1>3

(* Every step preserves the invariant. *)
LEMMA NextIInv ==
    ASSUME IInv, [Next]_vars
    PROVE  IInv'
  <1>1. CASE Reader
    BY <1>1, ReadBeginsIInv, ReadMessageIInv, ReadFailsIInv, HandleRefusedIInv,
       HandleInitializeIInv, HandleNonFileIInv, HandleInitializedIInv,
       HandleOtherIInv, HandleShutdownIInv, HandleExitIInv,
       SignalExitIInv, SignalCancelIInv, SignalCloseIInv DEF Reader, Handle
  <1>2. CASE ScanEnds \/ Registration
    BY <1>2, ScanEndsIInv, RegisterCallIInv, RegisterGivesUpIInv DEF Registration
  <1>3. CASE Main
    BY <1>3, SelectIInv, DeferredCancelIInv, DeferredCloseIInv, AwaitConnectionIInv,
       AwaitBackgroundIInv DEF Main
  <1>4. CASE Client \/ Terminate
    BY <1>4, SendIInv, AnswerIInv, DisconnectIInv, TerminateIInv DEF Client
  <1> QED
    BY <1>1, <1>2, <1>3, <1>4, StutterIInv DEF Next

(* In every reachable state the read loop, the exit it has handled and what *)
(* Run has selected fit together.                                           *)
THEOREM Invariance == Spec => []IInv
  BY InitIInv, NextIInv, PTL DEF Spec

(* Every variable keeps its type. *)
THEOREM TypeCorrect == Spec => []TypeOK
  <1>1. IInv => TypeOK
    BY DEF IInv
  <1> QED
    BY <1>1, Invariance, PTL

(* nil is returned after shutdown and exit only, ErrExitWithoutShutdown      *)
(* after an exit alone only, and an exit is not reported as an error of the  *)
(* connection, for any sequence of messages and any timing of the signal.   *)
THEOREM ExitStatusCorrect == Spec => []ExitStatus
  <1>1. IInv => ExitStatus
    BY DEF IInv
  <1> QED
    BY <1>1, Invariance, PTL

(* Run leaves no goroutine behind. *)
THEOREM NothingLeftBehind == Spec => []NoOrphans
  <1>1. IInv => NoOrphans
    BY DEF IInv
  <1> QED
    BY <1>1, Invariance, PTL

(* Without a signal and with file roots the read loop does not panic.       *)
THEOREM CrashNeedsSignal == Spec => []OnlySignalsCrash
  <1>1. IInv => OnlySignalsCrash
    BY DEF IInv
  <1> QED
    BY <1>1, Invariance, PTL

(* shutdown is final: after it nothing but exit has an effect. *)
THEOREM ShutdownIsFinal == Spec => ShutdownFreezes
  <1>1. ASSUME [Next]_vars
        PROVE  [shutdown => /\ shutdown'
                            /\ dynamicWatchedFiles' = dynamicWatchedFiles
                            /\ scan = "idle" => scan' = "idle"
                            /\ registration = "idle" => registration' = "idle"]_vars
    <2> USE <1>1 DEF client, server, background, run
    <2>1. CASE ReadBegins \/ ReadMessage \/ ReadFails
      BY <2>1 DEF ReadBegins, ReadMessage, ReadFails
    <2>2. CASE Handle
      BY <2>2 DEF Handle, HandleRefused, HandleInitialize, HandleNonFile,
                  HandleInitialized, HandleOther, HandleShutdown, HandleExit,
                  SignalExit, SignalCancel, SignalClose
    <2>3. CASE ScanEnds \/ Registration
      BY <2>3 DEF ScanEnds, Registration, RegisterCall, RegisterGivesUp
    <2>4. CASE Main
      BY <2>4 DEF Main, Select, DeferredCancel, DeferredClose, AwaitConnection, AwaitBackground
    <2>5. CASE Client \/ Terminate
      BY <2>5 DEF Client, Send, Answer, Disconnect, Terminate
    <2> QED
      BY <2>1, <2>2, <2>3, <2>4, <2>5 DEF Next, Reader
  <1> QED
    BY <1>1, PTL DEF Spec, ShutdownFreezes

-----------------------------------------------------------------------------
(* Why Run returns: what ExitReturns, DisconnectReturns and RegistrationEnds *)
(* rest on, but for fairness.  Every step of a goroutine brings the process *)
(* closer to its end, only what the client sends takes it further away, and *)
(* nothing but an empty stdin keeps all goroutines waiting.                 *)

Process == Reader \/ ScanEnds \/ Registration \/ Main

(* The steps each goroutine has before it at most, if nothing comes in.     *)
ReaderLeft == [handle |-> 6, signal |-> 5, cancel |-> 4, close |-> 3,
               read |-> 2, blocked |-> 1, done |-> 0]
MainLeft == [select |-> 5, cancel |-> 4, close |-> 3, connection |-> 2,
             background |-> 1, returned |-> 0]
ScanLeft == [idle |-> 0, running |-> 1, done |-> 0]
RegistrationLeft == [idle |-> 0, calling |-> 2, waiting |-> 1, done |-> 0]

Ranks == ReaderLeft[reader] + MainLeft[main] + ScanLeft[scan] + RegistrationLeft[registration]

ToGo == Ranks + (IF crashed THEN 0 ELSE 1)

(* A message costs six steps more: to read it, to handle it, and the        *)
(* goroutines it may start.                                                 *)
StepsLeft == 6 * Len(inbox) + ToGo

(* The guards of the goroutines' actions.                                   *)
ReaderReady ==
    \/ reader \in {"read", "signal", "cancel", "close"}
    \/ reader = "blocked" /\ (inbox # <<>> \/ eof \/ (closed /\ CloseUnblocks))
    \/ reader = "handle" /\ (msg = "exit" \/ shutdown \/ msg \in
           {"initialize", "initializeNonFile", "initialized", "request",
            "notification", "openNonFile", "shutdown"})
BackgroundReady ==
    \/ scan = "running" \/ registration = "calling"
    \/ registration = "waiting" /\ RunCtxDone
MainReady ==
    \/ main = "select" /\ (sigterm \/ exit \/ reader = "done")
    \/ main \in {"cancel", "close"}
    \/ main = "connection" /\ reader = "done"
    \/ main = "background" /\ scan # "running" /\ registration \notin {"calling", "waiting"}

LEMMA LeftTypes ==
    ASSUME TypeOK
    PROVE  /\ ReaderLeft[reader] \in Nat /\ MainLeft[main] \in Nat
           /\ ScanLeft[scan] \in Nat /\ RegistrationLeft[registration] \in Nat
           /\ Len(inbox) \in Nat /\ Ranks \in Nat
  <1>1. /\ ReaderLeft[reader] \in Nat /\ MainLeft[main] \in Nat
        /\ ScanLeft[scan] \in Nat /\ RegistrationLeft[registration] \in Nat
    BY DEF TypeOK, ReaderLeft, MainLeft, ScanLeft, RegistrationLeft
  <1>2. Len(inbox) \in Nat
    BY DEF TypeOK
  <1>3. Ranks \in Nat
    BY <1>1 DEF Ranks
  <1> QED
    BY <1>1, <1>2, <1>3

LEMMA LeftTypesNext ==
    ASSUME TypeOK'
    PROVE  /\ ReaderLeft[reader'] \in Nat /\ MainLeft[main'] \in Nat
           /\ ScanLeft[scan'] \in Nat /\ RegistrationLeft[registration'] \in Nat
           /\ Len(inbox') \in Nat /\ Ranks' \in Nat
  <1>1. /\ ReaderLeft[reader'] \in Nat /\ MainLeft[main'] \in Nat
        /\ ScanLeft[scan'] \in Nat /\ RegistrationLeft[registration'] \in Nat
    BY DEF TypeOK, ReaderLeft, MainLeft, ScanLeft, RegistrationLeft
  <1>2. Len(inbox') \in Nat
    BY DEF TypeOK
  <1>3. Ranks' \in Nat
    BY <1>1 DEF Ranks
  <1> QED
    BY <1>1, <1>2, <1>3

LEMMA StepsLeftType ==
    ASSUME TypeOK
    PROVE  ToGo \in Nat /\ StepsLeft \in Nat
  <1>1. ToGo \in Nat
    BY LeftTypes DEF ToGo
  <1>2. 6 * Len(inbox) \in Nat
    <2> DEFINE n == Len(inbox)
    <2>1. n \in Nat
      BY LeftTypes
    <2> HIDE DEF n
    <2>2. 6 * n \in Nat
      BY ONLY <2>1
    <2> QED
      BY <2>2 DEF n
  <1> QED
    BY <1>1, <1>2 DEF StepsLeft

LEMMA StepsLeftTypeNext ==
    ASSUME TypeOK'
    PROVE  ToGo' \in Nat /\ StepsLeft' \in Nat
  <1>1. ToGo' \in Nat
    BY LeftTypesNext DEF ToGo
  <1>2. 6 * Len(inbox') \in Nat
    <2> DEFINE n == Len(inbox')
    <2>1. n \in Nat
      BY LeftTypesNext
    <2> HIDE DEF n
    <2>2. 6 * n \in Nat
      BY ONLY <2>1
    <2> QED
      BY <2>2 DEF n
  <1> QED
    BY <1>1, <1>2 DEF StepsLeft

(* A lower sum of ranks is a shorter way to the end.                        *)
LEMMA RanksDecide ==
    ASSUME TypeOK, TypeOK', crashed => crashed', inbox' = inbox
    PROVE  /\ Ranks' < Ranks => ToGo' < ToGo /\ StepsLeft' < StepsLeft
           /\ Ranks' <= Ranks => ToGo' <= ToGo /\ StepsLeft' <= StepsLeft
  <1> DEFINE n == Len(inbox)
             r == Ranks
             q == Ranks'
             a == IF crashed THEN 0 ELSE 1
             e == IF crashed' THEN 0 ELSE 1
  <1>1. n \in Nat /\ r \in Nat /\ q \in Nat
    BY LeftTypes, LeftTypesNext
  <1>2. a \in Nat /\ e \in Nat /\ e <= a
    OBVIOUS
  <1>3. ToGo = r + a /\ ToGo' = q + e /\ StepsLeft = 6 * n + (r + a) /\ StepsLeft' = 6 * n + (q + e)
    BY Zenon DEF ToGo, StepsLeft
  <1>4. 6 * n \in Nat
    BY <1>1
  <1> HIDE DEF n, r, q, a, e
  <1>5. /\ q < r => q + e < r + a /\ 6 * n + (q + e) < 6 * n + (r + a)
        /\ q <= r => q + e <= r + a /\ 6 * n + (q + e) <= 6 * n + (r + a)
    BY ONLY <1>1, <1>2, <1>4
  <1> QED
    BY <1>3, <1>5 DEF q, r

(* Reading a message: one less in the inbox, and at most five steps more.   *)
LEMMA ReadMessageShorter ==
    ASSUME IInv, TypeOK', ReadMessage
    PROVE  StepsLeft' < StepsLeft
  <1> DEFINE n == Len(inbox)
             r == Ranks
             q == Ranks'
             a == IF crashed THEN 0 ELSE 1
  <1>1. n \in Nat /\ r \in Nat /\ q \in Nat /\ a \in Nat
    BY LeftTypes, LeftTypesNext DEF IInv
  <1>2. Len(inbox') = n - 1 /\ crashed' = crashed
    BY DEF IInv, TypeOK, ReadMessage
  <1>3. q <= r + 5
    <2>0. ReaderLeft[reader] = 1 /\ ReaderLeft[reader'] \in {2, 6}
      BY DEF ReadMessage, ReaderLeft
    <2>1. /\ MainLeft[main] \in Nat /\ ScanLeft[scan] \in Nat
          /\ RegistrationLeft[registration] \in Nat /\ RegistrationLeft[registration'] \in Nat
      BY LeftTypes, LeftTypesNext DEF IInv
    <2>2. RegistrationLeft[registration'] <= RegistrationLeft[registration]
      <3>1. \/ registration' = registration
            \/ registration = "waiting" /\ registration' = "done"
        BY DEF ReadMessage
      <3> QED
        BY <2>1, <3>1 DEF RegistrationLeft
    <2>3. main' = main /\ scan' = scan
      BY DEF ReadMessage, run
    <2> QED
      BY <2>0, <2>1, <2>2, <2>3 DEF Ranks
  <1>4. StepsLeft = 6 * n + (r + a) /\ StepsLeft' = 6 * (n - 1) + (q + a)
    BY <1>2, Zenon DEF ToGo, StepsLeft
  <1> HIDE DEF n, r, q, a
  <1>5. 6 * (n - 1) + (q + a) < 6 * n + (r + a)
    BY ONLY <1>1, <1>3
  <1> QED
    BY <1>4, <1>5

(* The process ends at a panic.                                             *)
LEMMA PanicShorter ==
    ASSUME IInv, TypeOK', HandleNonFile
    PROVE  StepsLeft' < StepsLeft /\ ToGo' < ToGo
  <1> DEFINE n == Len(inbox)
             r == Ranks
  <1>1. n \in Nat /\ r \in Nat
    BY LeftTypes DEF IInv
  <1>2. n' = n /\ r' = r
    BY DEF HandleNonFile, client, background, run, Ranks
  <1>3. /\ StepsLeft = 6 * n + (r + 1) /\ StepsLeft' = 6 * n' + (r' + 0)
        /\ ToGo = r + 1 /\ ToGo' = r' + 0
    BY DEF HandleNonFile, Handling, ToGo, StepsLeft
  <1> HIDE DEF n, r
  <1> QED
    BY ONLY <1>1, <1>2, <1>3

(* All other steps take a goroutine one place further; the handler pays for *)
(* the goroutines that initialized starts.                                  *)
LEMMA ReaderShorter ==
    ASSUME IInv, TypeOK', ReadBegins \/ ReadFails \/ HandleRefused \/ HandleInitialize \/ HandleOther
                          \/ HandleShutdown \/ HandleExit \/ SignalExit \/ SignalCancel \/ SignalClose
    PROVE  StepsLeft' < StepsLeft /\ ToGo' < ToGo
  <1> USE DEF client, server, background, run
  <1>1. /\ TypeOK /\ MainLeft[main] \in Nat /\ ScanLeft[scan] \in Nat
        /\ RegistrationLeft[registration] \in Nat
    BY LeftTypes DEF IInv
  <1>2. main' = main /\ scan' = scan /\ registration' = registration /\ inbox' = inbox
    BY DEF ReadBegins, ReadFails, HandleRefused, HandleInitialize, HandleOther, HandleShutdown,
           HandleExit, SignalExit, SignalCancel, SignalClose
  <1>3. crashed => crashed'
    BY DEF ReadBegins, ReadFails, HandleRefused, HandleInitialize, HandleOther, HandleShutdown,
           HandleExit, SignalExit, SignalCancel, SignalClose, Handling
  <1>4. \/ reader = "read" /\ reader' \in {"done", "blocked"}
        \/ reader = "blocked" /\ reader' = "done"
        \/ reader = "handle" /\ reader' \in {"read", "signal"}
        \/ reader = "signal" /\ reader' = "cancel"
        \/ reader = "cancel" /\ reader' = "close"
        \/ reader = "close" /\ reader' = "read"
    BY DEF ReadBegins, ReadFails, HandleRefused, HandleInitialize, HandleOther, HandleShutdown,
           HandleExit, SignalExit, SignalCancel, SignalClose, Handling, ReplyAndReturn
  <1>5. ReaderLeft[reader] \in Nat /\ ReaderLeft[reader'] \in Nat /\ ReaderLeft[reader'] < ReaderLeft[reader]
    BY <1>4 DEF ReaderLeft
  <1>6. Ranks' < Ranks
    BY <1>1, <1>2, <1>5 DEF Ranks
  <1> QED
    BY <1>1, <1>2, <1>3, <1>6, RanksDecide

LEMMA InitializedShorter ==
    ASSUME IInv, TypeOK', HandleInitialized
    PROVE  StepsLeft' < StepsLeft /\ ToGo' < ToGo
  <1> USE DEF client, server, background, run
  <1>1. /\ TypeOK /\ MainLeft[main] \in Nat /\ ScanLeft[scan] \in Nat
        /\ RegistrationLeft[registration] \in Nat
    BY LeftTypes DEF IInv
  <1>2. main' = main /\ inbox' = inbox /\ (crashed => crashed')
    BY DEF HandleInitialized, Handling
  <1>3. ReaderLeft[reader] = 6 /\ ReaderLeft[reader'] = 2 /\ ScanLeft[scan'] = 1
    BY DEF HandleInitialized, Handling, ReplyAndReturn, ReaderLeft, ScanLeft
  <1>4. /\ RegistrationLeft[registration'] <= RegistrationLeft[registration] + 2
        /\ RegistrationLeft[registration'] \in Nat
    <2>1. registration' = registration \/ registration' = "calling"
      BY DEF HandleInitialized
    <2>2. RegistrationLeft["calling"] = 2
      BY DEF RegistrationLeft
    <2> QED
      BY <1>1, <2>1, <2>2
  <1>5. Ranks' < Ranks
    BY <1>1, <1>2, <1>3, <1>4 DEF Ranks
  <1> QED
    BY <1>1, <1>2, <1>5, RanksDecide

LEMMA BackgroundShorter ==
    ASSUME IInv, TypeOK', ScanEnds \/ RegisterCall \/ RegisterGivesUp
    PROVE  StepsLeft' < StepsLeft /\ ToGo' < ToGo
  <1> USE DEF client, server, background, run
  <1>1. /\ TypeOK /\ MainLeft[main] \in Nat /\ ReaderLeft[reader] \in Nat
        /\ ScanLeft[scan] \in Nat /\ RegistrationLeft[registration] \in Nat
    BY LeftTypes DEF IInv
  <1>2. main' = main /\ reader' = reader /\ inbox' = inbox /\ crashed' = crashed
    BY DEF ScanEnds, RegisterCall, RegisterGivesUp
  <1>3. \/ /\ scan = "running" /\ scan' = "done" /\ registration' = registration
        \/ /\ scan' = scan
           /\ \/ registration = "calling" /\ registration' \in {"waiting", "done"}
              \/ registration = "waiting" /\ registration' = "done"
    BY DEF ScanEnds, RegisterCall, RegisterGivesUp
  <1>4. \/ /\ ScanLeft[scan] = 1 /\ ScanLeft[scan'] = 0
           /\ RegistrationLeft[registration'] = RegistrationLeft[registration]
        \/ /\ ScanLeft[scan'] = ScanLeft[scan]
           /\ RegistrationLeft[registration'] \in Nat
           /\ RegistrationLeft[registration'] < RegistrationLeft[registration]
    BY <1>3 DEF ScanLeft, RegistrationLeft
  <1>5. Ranks' < Ranks
    BY <1>1, <1>2, <1>4 DEF Ranks
  <1> QED
    BY <1>1, <1>2, <1>5, RanksDecide

LEMMA MainShorter ==
    ASSUME IInv, TypeOK', Main
    PROVE  StepsLeft' < StepsLeft /\ ToGo' < ToGo
  <1> USE DEF client, server, background, run
  <1>1. /\ TypeOK /\ ReaderLeft[reader] \in Nat /\ ScanLeft[scan] \in Nat
        /\ RegistrationLeft[registration] \in Nat
    BY LeftTypes DEF IInv
  <1>2. /\ reader' = reader /\ scan' = scan /\ registration' = registration
        /\ inbox' = inbox /\ crashed' = crashed
    BY DEF Main, Select, DeferredCancel, DeferredClose, AwaitConnection, AwaitBackground
  <1>3. \/ main = "select" /\ main' = "cancel"
        \/ main = "cancel" /\ main' = "close"
        \/ main = "close" /\ main' = "connection"
        \/ main = "connection" /\ main' = "background"
        \/ main = "background" /\ main' = "returned"
    BY DEF Main, Select, RunReturns, DeferredCancel, DeferredClose, AwaitConnection, AwaitBackground
  <1>4. MainLeft[main] \in Nat /\ MainLeft[main'] \in Nat /\ MainLeft[main'] < MainLeft[main]
    BY <1>3 DEF MainLeft
  <1>5. Ranks' < Ranks
    BY <1>1, <1>2, <1>4 DEF Ranks
  <1> QED
    BY <1>1, <1>2, <1>5, RanksDecide

(* Every step of a goroutine.                                               *)
LEMMA ProcessShorter ==
    ASSUME IInv, TypeOK', Process
    PROVE  StepsLeft' < StepsLeft /\ (ReadMessage \/ ToGo' < ToGo)
  BY ReadMessageShorter, PanicShorter, ReaderShorter, InitializedShorter, BackgroundShorter, MainShorter
     DEF Process, Reader, Handle, Registration

(* Of the client's steps and the signal only those that send take the        *)
(* process further from its end, and none of its goroutines.                *)
LEMMA OthersKeep ==
    ASSUME IInv, TypeOK', Client \/ Terminate \/ UNCHANGED vars
    PROVE  ToGo' = ToGo /\ (eof => eof' /\ StepsLeft' = StepsLeft)
  <1> USE DEF client, server, background, run
  <1>1. UNCHANGED <<reader, main, scan, registration, crashed>> /\ (eof => eof' /\ inbox' = inbox)
    BY DEF Client, Send, Answer, Disconnect, Terminate, vars, IInv, TypeOK
  <1>2. ToGo' = ToGo
    BY <1>1 DEF ToGo, Ranks
  <1> QED
    BY <1>1, <1>2 DEF StepsLeft

(* The work of the process is bounded by what it is sent: every step of a    *)
(* goroutine leaves fewer to do, and once the client has closed its end      *)
(* nothing adds to them (DisconnectReturns).                                *)
THEOREM WorkIsBounded ==
    Spec => [][/\ Process => StepsLeft' \in 0 .. StepsLeft - 1
               /\ eof => eof' /\ StepsLeft' <= StepsLeft]_vars
  <1>1. ASSUME IInv, IInv', [Next]_vars
        PROVE  [/\ Process => StepsLeft' \in 0 .. StepsLeft - 1
                /\ eof => eof' /\ StepsLeft' <= StepsLeft]_vars
    <2>1. TypeOK'
      BY <1>1 DEF IInv
    <2>2. Process => StepsLeft' < StepsLeft /\ eof' = eof
      <3>1. Process => eof' = eof
        BY DEF Process, Reader, ReadBegins, ReadMessage, ReadFails, Handle, HandleRefused,
               HandleInitialize, HandleNonFile, HandleInitialized, HandleOther, HandleShutdown,
               HandleExit, SignalExit, SignalCancel, SignalClose, ScanEnds, Registration, RegisterCall,
               RegisterGivesUp, Main, Select, DeferredCancel, DeferredClose, AwaitConnection,
               AwaitBackground, client
      <3> QED
        BY <1>1, <2>1, <3>1, ProcessShorter
    <2>3. Client \/ Terminate \/ UNCHANGED vars => (eof => eof' /\ StepsLeft' = StepsLeft)
      BY <1>1, <2>1, OthersKeep
    <2>4. Process \/ Client \/ Terminate \/ UNCHANGED vars
      BY <1>1 DEF Next, Process
    <2>5. StepsLeft \in Nat /\ StepsLeft' \in Nat
      BY <1>1, <2>1, StepsLeftType, StepsLeftTypeNext DEF IInv
    <2> QED
      BY <2>2, <2>3, <2>4, <2>5
  <1> QED
    BY <1>1, Invariance, PTL DEF Spec

(* Once exit is handled the way to the return of Run gets shorter with every *)
(* step of a goroutine, and nothing the client or a signal does lengthens    *)
(* it: what is still in the inbox is not read (ExitReturns).                *)
THEOREM ExitShortens ==
    Spec => [][exit => /\ exit' /\ ToGo' <= ToGo
                       /\ Process => ToGo' \in 0 .. ToGo - 1]_vars
  <1>1. ASSUME IInv, IInv', [Next]_vars
        PROVE  [exit => /\ exit' /\ ToGo' <= ToGo
                        /\ Process => ToGo' \in 0 .. ToGo - 1]_vars
    <2> SUFFICES ASSUME exit
                 PROVE  exit' /\ ToGo' <= ToGo /\ (Process => ToGo' \in 0 .. ToGo - 1)
      OBVIOUS
    <2>1. TypeOK' /\ ToGo \in Nat /\ ToGo' \in Nat
      BY <1>1, StepsLeftType, StepsLeftTypeNext DEF IInv
    <2>2. exit'
      BY <1>1 DEF Next, Process, Reader, ReadBegins, ReadMessage, ReadFails, Handle, HandleRefused,
                  HandleInitialize, HandleNonFile, HandleInitialized, HandleOther, HandleShutdown,
                  HandleExit, SignalExit, SignalCancel, SignalClose, ScanEnds, Registration, RegisterCall,
                  RegisterGivesUp, Main, Select, DeferredCancel, DeferredClose, AwaitConnection,
                  AwaitBackground, Client, Send, Answer, Disconnect, Terminate, vars, server
    <2>3. ~ReadMessage
      BY <1>1 DEF IInv, ExitHandled, ReadMessage
    <2>4. Process => ToGo' < ToGo
      BY <1>1, <2>1, <2>3, ProcessShorter
    <2>5. Client \/ Terminate \/ UNCHANGED vars => ToGo' = ToGo
      BY <1>1, <2>1, OthersKeep
    <2>6. Process \/ Client \/ Terminate \/ UNCHANGED vars
      BY <1>1 DEF Next, Process
    <2> QED
      BY <2>1, <2>2, <2>4, <2>5, <2>6
  <1> QED
    BY <1>1, Invariance, PTL DEF Spec

(* And while Run has not returned some goroutine can take a step, unless the *)
(* read loop is in a read of stdin for which there is nothing and no exit    *)
(* was handled: no two goroutines wait for each other, whether the client    *)
(* answers or not (RegistrationEnds; a signal alone does not end the read).  *)
THEOREM OnlyStdinBlocks ==
    Spec => [](\/ crashed \/ main = "returned"
               \/ ReaderReady \/ BackgroundReady \/ MainReady
               \/ reader = "blocked" /\ inbox = <<>> /\ ~eof /\ ~exit)
  <1> DEFINE Ready == \/ crashed \/ main = "returned"
                      \/ ReaderReady \/ BackgroundReady \/ MainReady
                      \/ reader = "blocked" /\ inbox = <<>> /\ ~eof /\ ~exit
  <1>1. ASSUME IInv PROVE Ready
    <2> USE <1>1 DEF IInv
    <2>1. CASE reader = "handle"
      <3>1. msg \in Requests
        BY <2>1 DEF ExitHandled
      <3>2. ReaderReady
        BY <2>1, <3>1, MessageAssumption DEF ReaderReady
      <3> QED
        BY <3>2
    <2>2. CASE reader \in {"read", "signal", "cancel", "close"}
      BY <2>2 DEF ReaderReady
    <2>3. CASE reader = "blocked"
      BY <2>3 DEF ReaderReady, ExitHandled
    <2>4. CASE reader = "done"
      <3>1. CASE main \in {"select", "cancel", "close", "connection", "returned"}
        BY <2>4, <3>1 DEF MainReady
      <3>2. CASE main = "background"
        <4>1. RunCtxDone
          BY <3>2 DEF Calm, RunCtxDone
        <4> QED
          BY <3>2, <4>1 DEF MainReady, BackgroundReady
      <3> QED
        BY <3>1, <3>2 DEF TypeOK
    <2> QED
      BY <2>1, <2>2, <2>3, <2>4 DEF TypeOK
  <1>2. IInv => Ready
    BY <1>1
  <1> QED
    BY <1>2, Invariance, PTL

(* What keeps a second error from the connection after an exit: it has none  *)
(* while the loop is reading or handling, for it looks at the context before *)
(* each read.                                                               *)
NoErrorYet ==
    /\ closed \/ connErr # "none" => RunCtxDone \/ reader = "done"
    /\ reader \in {"blocked", "handle", "signal", "cancel", "close"} => connErr = "none"
    /\ exit /\ reader # "done" => connErr = "none"
    /\ exit => ~crashed

LEMMA NoErrorYetKept ==
    ASSUME IInv, NoErrorYet, [Next]_vars
    PROVE  NoErrorYet'
  <1> USE DEF NoErrorYet, RunCtxDone, client, server, background, run
  <1>1. CASE ReadBegins
    BY <1>1 DEF ReadBegins, Fail, IInv, ExitHandled
  <1>2. CASE ReadMessage
    BY <1>2 DEF ReadMessage, IInv, ExitHandled
  <1>3. CASE ReadFails
    BY <1>3 DEF ReadFails, Fail, IInv, ExitHandled
  <1>4. CASE HandleRefused \/ HandleInitialize \/ HandleInitialized \/ HandleOther \/ HandleShutdown
    <2>1. /\ reader = "handle" /\ reader' = "read"
          /\ IF ReplyFails THEN Fail("wrapped") ELSE UNCHANGED <<connErr, closed, crashed>>
          /\ UNCHANGED <<sigterm, cancelled, exit>>
      BY <1>4 DEF HandleRefused, HandleInitialize, HandleInitialized, HandleOther, HandleShutdown,
                  Handling, ReplyAndReturn
    <2> QED
      BY <2>1 DEF ReplyFails, Fail, IInv, ExitHandled
  <1>5. CASE HandleNonFile
    BY <1>5 DEF HandleNonFile, Handling, IInv, ExitHandled
  <1>6. CASE HandleExit \/ SignalExit \/ SignalCancel \/ SignalClose
    BY <1>6 DEF HandleExit, SignalExit, SignalCancel, SignalClose, Handling, IInv, ExitHandled
  <1>7. CASE ScanEnds \/ Registration
    BY <1>7 DEF ScanEnds, Registration, RegisterCall, RegisterGivesUp
  <1>8. CASE Main
    BY <1>8 DEF Main, Select, DeferredCancel, DeferredClose, AwaitConnection, AwaitBackground, IInv, Calm
  <1>9. CASE Client \/ Terminate
    BY <1>9 DEF Client, Send, Answer, Disconnect, Terminate
  <1>10. CASE UNCHANGED vars
    BY <1>10 DEF vars
  <1> QED
    BY <1>1, <1>2, <1>3, <1>4, <1>5, <1>6, <1>7, <1>8, <1>9, <1>10 DEF Next, Reader, Handle

(* After exit is handled the process does not panic any more, whenever the   *)
(* signal comes.                                                            *)
THEOREM ExitNeverCrashes == Spec => [](exit => ~crashed)
  <1>1. Init => NoErrorYet
    BY DEF Init, NoErrorYet
  <1>2. IInv /\ NoErrorYet /\ [Next]_vars => NoErrorYet'
    BY NoErrorYetKept
  <1>3. NoErrorYet => (exit => ~crashed)
    BY DEF NoErrorYet
  <1> QED
    BY <1>1, <1>2, <1>3, Invariance, PTL DEF Spec

=============================================================================
