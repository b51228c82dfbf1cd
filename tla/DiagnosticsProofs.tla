------------------------- MODULE DiagnosticsProofs -------------------------
(***************************************************************************)
(* Proofs about Diagnostics, for any number of documents, messages and     *)
(* changes of the machine: the quick fixes a client gets are for the text  *)
(* it had when it asked, what it shows when all is handled is what         *)
(* ShellCheck says of its documents with its settings, and all gets        *)
(* handled.                                                                *)
(***************************************************************************)
EXTENDS Diagnostics, FiniteSetTheorems, TLAPS

-----------------------------------------------------------------------------
(* What Told says when a message enters or leaves the queue. *)

LEMMA ToldAppend ==
    ASSUME NEW S, NEW q \in Seq(S), NEW m \in S, NEW u, NEW t, NEW d,
           NEW k \in 0 .. Len(q), Told(q, k, u, t, d)
    PROVE  Told(Append(q, m), k, u, t, d)
  <1>1. \A i \in 1 .. k : Append(q, m)[i] = q[i]
    OBVIOUS
  <1>2. CASE d = t /\ \A j \in 1 .. k : ~ChangesText(q[j], u)
    BY <1>1, <1>2 DEF Told
  <1>3. CASE \E i \in 1 .. k : /\ ChangesText(q[i], u) /\ TextOf(q[i]) = t
                               /\ \A j \in i + 1 .. k : ~ChangesText(q[j], u)
    BY <1>1, <1>3 DEF Told
  <1> QED
    BY <1>2, <1>3 DEF Told

(* A message that does not change u's text leaves it as it is ... *)
LEMMA ToldUnchanged ==
    ASSUME NEW S, NEW q \in Seq(S), NEW m \in S, NEW u, NEW t, NEW d,
           Told(q, Len(q), u, t, d), ~ChangesText(m, u)
    PROVE  Told(Append(q, m), Len(q) + 1, u, t, d)
  <1>1. /\ \A i \in 1 .. Len(q) : Append(q, m)[i] = q[i]
        /\ Append(q, m)[Len(q) + 1] = m
    OBVIOUS
  <1>2. CASE d = t /\ \A j \in 1 .. Len(q) : ~ChangesText(q[j], u)
    BY <1>1, <1>2 DEF Told
  <1>3. CASE \E i \in 1 .. Len(q) : /\ ChangesText(q[i], u) /\ TextOf(q[i]) = t
                                    /\ \A j \in i + 1 .. Len(q) : ~ChangesText(q[j], u)
    <2>1. PICK i \in 1 .. Len(q) : /\ ChangesText(q[i], u) /\ TextOf(q[i]) = t
                                   /\ \A j \in i + 1 .. Len(q) : ~ChangesText(q[j], u)
      BY <1>3
    <2>2. i \in 1 .. Len(q) + 1 /\ \A j \in i + 1 .. Len(q) + 1 : ~ChangesText(Append(q, m)[j], u)
      BY <1>1, <2>1
    <2> QED
      BY <1>1, <2>1, <2>2 DEF Told
  <1> QED
    BY <1>2, <1>3 DEF Told

(* ... and one that does is the last word. *)
LEMMA ToldChanged ==
    ASSUME NEW S, NEW q \in Seq(S), NEW m \in S, NEW u, NEW d, ChangesText(m, u)
    PROVE  Told(Append(q, m), Len(q) + 1, u, TextOf(m), d)
  <1>1. Append(q, m)[Len(q) + 1] = m /\ Len(q) \in Nat
    OBVIOUS
  <1> QED
    BY <1>1 DEF Told

(* Handling the first message brings the server one message further. *)
LEMMA ToldTail ==
    ASSUME NEW S, NEW q \in Seq(S), q # <<>>, NEW u, NEW t, NEW d,
           NEW k \in 1 .. Len(q), Told(q, k, u, t, d)
    PROVE  Told(Tail(q), k - 1, u, t, IF ChangesText(Head(q), u) THEN TextOf(Head(q)) ELSE d)
  <1> DEFINE e == IF ChangesText(Head(q), u) THEN TextOf(Head(q)) ELSE d
  <1>1. /\ \A i \in 1 .. k - 1 : Tail(q)[i] = q[i + 1]
        /\ Head(q) = q[1] /\ k \in Nat /\ k >= 1
    OBVIOUS
  <1>2. CASE d = t /\ \A j \in 1 .. k : ~ChangesText(q[j], u)
    <2>1. e = t
      BY <1>1, <1>2
    <2>2. \A j \in 1 .. k - 1 : ~ChangesText(Tail(q)[j], u)
      BY <1>1, <1>2
    <2> QED
      BY <2>1, <2>2 DEF Told
  <1>3. CASE \E i \in 1 .. k : /\ ChangesText(q[i], u) /\ TextOf(q[i]) = t
                               /\ \A j \in i + 1 .. k : ~ChangesText(q[j], u)
    <2>1. PICK i \in 1 .. k : /\ ChangesText(q[i], u) /\ TextOf(q[i]) = t
                              /\ \A j \in i + 1 .. k : ~ChangesText(q[j], u)
      BY <1>3
    <2>2. \A j \in i .. k - 1 : ~ChangesText(Tail(q)[j], u)
      <3>1. TAKE j \in i .. k - 1
      <3>2. j \in 1 .. k - 1 /\ j + 1 \in i + 1 .. k
        BY <1>1
      <3> QED
        BY <1>1, <2>1, <3>2
    <2>3. CASE i = 1
      <3>1. e = t
        BY <1>1, <2>1, <2>3
      <3>2. \A j \in 1 .. k - 1 : ~ChangesText(Tail(q)[j], u)
        BY <2>2, <2>3
      <3> QED
        BY <3>1, <3>2 DEF Told
    <2>4. CASE i # 1
      <3>1. i - 1 \in 1 .. k - 1 /\ (i - 1) + 1 = i /\ Tail(q)[i - 1] = q[i]
        BY <1>1, <2>4
      <3>2. ChangesText(Tail(q)[i - 1], u) /\ TextOf(Tail(q)[i - 1]) = t
        BY <2>1, <3>1
      <3>3. \A j \in (i - 1) + 1 .. k - 1 : ~ChangesText(Tail(q)[j], u)
        BY <2>2, <3>1
      <3> QED
        BY <3>1, <3>2, <3>3 DEF Told
    <2> QED
      BY <2>3, <2>4
  <1> QED
    BY <1>2, <1>3 DEF Told


-----------------------------------------------------------------------------
(* Types of the messages. *)

LEMMA RequestTypes ==
    ASSUME NEW m \in Request
    PROVE  /\ m.type \in {"text", "save", "close", "codeAction", "configuration"}
           /\ m.type # "configuration" => m.uri \in Uri
           /\ m.type = "text" => m.text \in Text /\ m.version \in Nat
           /\ m.type = "save" => m.text \in Text \cup {None}
           /\ m.type = "configuration" => m.settings \in Settings
  BY DEF Request

LEMMA AnswerTypes ==
    ASSUME NEW m \in Answer
    PROVE  /\ m.type \in {"diagnostics", "fixes"} /\ m.uri \in Uri
           /\ m.type = "diagnostics" => m.version \in Nat /\ m.diags \in Diags
           /\ m.type = "fixes" => m.fixes \in Fixes \cup {None}
  BY DEF Answer

(* What is sent, and what the head and the rest of a queue are. *)
LEMMA SeqTypes ==
    ASSUME NEW S, NEW q \in Seq(S), NEW m \in S
    PROVE  /\ Append(q, m) \in Seq(S) /\ Len(Append(q, m)) = Len(q) + 1
           /\ \A i \in 1 .. Len(q) : Append(q, m)[i] = q[i]
           /\ Append(q, m)[Len(q) + 1] = m
           /\ q # <<>> => /\ Head(q) \in S /\ Head(q) = q[1] /\ Tail(q) \in Seq(S)
                          /\ Len(q) \in Nat /\ Len(q) >= 1 /\ Len(Tail(q)) = Len(q) - 1
                          /\ \A i \in 1 .. Len(q) - 1 : Tail(q)[i] = q[i + 1]
  OBVIOUS

-----------------------------------------------------------------------------
(* The two ways in which the server's queue changes. *)

(* The client sends a message, which says what it has done to its buffer. *)
LEMMA SendCatchesUp ==
    ASSUME IInv, NEW m \in Request,
           toServer' = Append(toServer, m), UNCHANGED docs,
           \A u \in Uri : TextIn(buffer', u) =
               IF ChangesText(m, u) THEN TextOf(m) ELSE TextIn(buffer, u),
           asked' = asked \/ asked = None,
           m.type = "save" => m.text \in {None, TextIn(buffer, m.uri)},
           m.type = "codeAction" =>
               asked' # None /\ asked'.uri = m.uri /\ asked'.text = TextIn(buffer, m.uri)
    PROVE  CatchesUp'
  <1> DEFINE q == toServer
             n == Len(toServer)
  <1>1. q \in Seq(Request) /\ n \in Nat
    BY DEF IInv, TypeOK
  <1>2. /\ toServer' = Append(q, m) /\ Len(toServer') = n + 1
        /\ DOMAIN toServer = 1 .. n /\ DOMAIN toServer' = 1 .. n + 1
        /\ \A i \in 1 .. n : toServer'[i] = q[i] /\ q[i] \in Request
        /\ toServer'[n + 1] = m
    BY <1>1, SeqTypes
  <1>3. \A u : TextIn(docs', u) = TextIn(docs, u)
    BY DEF TextIn
  <1>4. \A u \in Uri : Told(q, n, u, TextIn(buffer, u), TextIn(docs, u))
    BY DEF IInv, CatchesUp
  <1>5. ASSUME NEW u \in Uri
        PROVE  Told(toServer', n + 1, u, TextIn(buffer', u), TextIn(docs', u))
    <2>1. CASE ChangesText(m, u)
      BY <1>1, <1>2, <1>3, <2>1, ToldChanged
    <2>2. CASE ~ChangesText(m, u)
      BY <1>1, <1>2, <1>3, <1>4, <2>2, ToldUnchanged
    <2> QED
      BY <2>1, <2>2
  <1>6. ASSUME NEW k \in 1 .. n + 1, toServer'[k].type = "save", toServer'[k].text # None
        PROVE  Told(toServer', k, toServer'[k].uri, toServer'[k].text, TextIn(docs', toServer'[k].uri))
    <2>1. CASE k \in 1 .. n
      <3>1. Told(q, k, q[k].uri, q[k].text, TextIn(docs, q[k].uri))
        BY <1>2, <1>6, <2>1 DEF IInv, CatchesUp
      <3> QED
        BY <1>1, <1>2, <1>3, <2>1, <3>1, ToldAppend
    <2>2. CASE k = n + 1
      <3>1. m.uri \in Uri /\ ~ChangesText(m, m.uri)
        BY <1>2, <1>6, <2>2, RequestTypes DEF ChangesText
      <3>2. m.text = TextIn(buffer, m.uri)
        BY <1>2, <1>6, <2>2
      <3> QED
        BY <1>1, <1>2, <1>3, <1>4, <2>2, <3>1, <3>2, ToldUnchanged
    <2> QED
      BY <1>1, <2>1, <2>2
  <1>7. ASSUME NEW k \in 1 .. n + 1, toServer'[k].type = "codeAction"
        PROVE  /\ asked' # None /\ asked'.uri = toServer'[k].uri
               /\ Told(toServer', k, toServer'[k].uri, asked'.text, TextIn(docs', toServer'[k].uri))
    <2>1. CASE k \in 1 .. n
      <3>1. /\ asked # None /\ asked.uri = q[k].uri
            /\ Told(q, k, q[k].uri, asked.text, TextIn(docs, q[k].uri))
        BY <1>2, <1>7, <2>1 DEF IInv, CatchesUp
      <3> QED
        BY <1>1, <1>2, <1>3, <2>1, <3>1, ToldAppend
    <2>2. CASE k = n + 1
      <3>1. m.uri \in Uri /\ ~ChangesText(m, m.uri)
        BY <1>2, <1>7, <2>2, RequestTypes DEF ChangesText
      <3>2. asked' # None /\ asked'.uri = m.uri /\ asked'.text = TextIn(buffer, m.uri)
        BY <1>2, <1>7, <2>2
      <3> QED
        BY <1>1, <1>2, <1>3, <1>4, <2>2, <3>1, <3>2, ToldUnchanged
    <2> QED
      BY <1>1, <2>1, <2>2
  <1> QED
    BY <1>2, <1>5, <1>6, <1>7 DEF CatchesUp

(* The server handles the first message, which says what becomes of docs. *)
LEMMA HandleCatchesUp ==
    ASSUME IInv, toServer # <<>>, toServer' = Tail(toServer), UNCHANGED <<buffer, asked>>,
           \A u \in Uri : TextIn(docs', u) =
               IF ChangesText(Head(toServer), u) THEN TextOf(Head(toServer)) ELSE TextIn(docs, u)
    PROVE  CatchesUp'
  <1> DEFINE q == toServer
             n == Len(toServer)
  <1>1. /\ q \in Seq(Request) /\ n \in Nat /\ n >= 1
        /\ Len(toServer') = n - 1
        /\ DOMAIN toServer = 1 .. n /\ DOMAIN toServer' = 1 .. n - 1
        /\ \A i \in 1 .. n - 1 : toServer'[i] = q[i + 1] /\ i + 1 \in 1 .. n /\ q[i + 1] \in Request
    BY DEF IInv, TypeOK
  <1>2. ASSUME NEW u \in Uri, NEW t, NEW k \in 1 .. n, Told(q, k, u, t, TextIn(docs, u))
        PROVE  Told(toServer', k - 1, u, t, TextIn(docs', u))
    BY <1>1, <1>2, ToldTail
  <1>3. ASSUME NEW u \in Uri
        PROVE  Told(toServer', n - 1, u, TextIn(buffer', u), TextIn(docs', u))
    <2>1. Told(q, n, u, TextIn(buffer, u), TextIn(docs, u)) /\ n \in 1 .. n
      BY <1>1 DEF IInv, CatchesUp
    <2>2. TextIn(buffer', u) = TextIn(buffer, u)
      BY DEF TextIn
    <2> QED
      BY <1>2, <2>1, <2>2
  <1>4. ASSUME NEW k \in 1 .. n - 1, toServer'[k].type = "save", toServer'[k].text # None
        PROVE  Told(toServer', k, toServer'[k].uri, toServer'[k].text, TextIn(docs', toServer'[k].uri))
    <2>1. /\ Told(q, k + 1, q[k + 1].uri, q[k + 1].text, TextIn(docs, q[k + 1].uri))
          /\ q[k + 1].uri \in Uri /\ (k + 1) - 1 = k
      BY <1>1, <1>4, RequestTypes DEF IInv, CatchesUp
    <2> QED
      BY <1>1, <1>2, <2>1
  <1>5. ASSUME NEW k \in 1 .. n - 1, toServer'[k].type = "codeAction"
        PROVE  /\ asked' # None /\ asked'.uri = toServer'[k].uri
               /\ Told(toServer', k, toServer'[k].uri, asked'.text, TextIn(docs', toServer'[k].uri))
    <2>1. /\ asked # None /\ asked.uri = q[k + 1].uri
          /\ Told(q, k + 1, q[k + 1].uri, asked.text, TextIn(docs, q[k + 1].uri))
          /\ q[k + 1].uri \in Uri /\ (k + 1) - 1 = k
      BY <1>1, <1>5, RequestTypes DEF IInv, CatchesUp
    <2> QED
      BY <1>1, <1>2, <2>1
  <1> QED
    BY <1>1, <1>3, <1>4, <1>5 DEF CatchesUp

(* At most one request for fixes: a second one is not sent ...             *)
LEMMA SendOneRequest ==
    ASSUME IInv, NEW m \in Request, toServer' = Append(toServer, m), UNCHANGED toClient,
           asked' = asked \/ asked = None,
           m.type = "codeAction" => asked = None
    PROVE  OneRequest' /\ QuickFixFits'
  <1> DEFINE n == Len(toServer)
  <1>1. /\ toServer \in Seq(Request) /\ n \in Nat /\ toClient \in Seq(Answer)
        /\ DOMAIN toServer = 1 .. n /\ DOMAIN toServer' = 1 .. n + 1
        /\ \A i \in 1 .. n : toServer'[i] = toServer[i]
        /\ toServer'[n + 1] = m
    BY DEF IInv, TypeOK
  <1>2. asked = None => /\ \A k \in DOMAIN toServer : toServer[k].type # "codeAction"
                        /\ \A k \in DOMAIN toClient : toClient[k].type # "fixes"
    BY DEF IInv, CatchesUp, OneRequest
  <1>3. CASE asked = None
    <2>1. \A k \in 1 .. n + 1 : toServer'[k].type = "codeAction" => k = n + 1
      BY <1>1, <1>2, <1>3
    <2> QED
      BY <1>1, <1>2, <1>3, <2>1 DEF OneRequest, QuickFixFits
  <1>4. CASE asked # None
    <2>1. asked' = asked /\ m.type # "codeAction"
      BY <1>4
    <2>2. \A k \in 1 .. n + 1 : toServer'[k].type = "codeAction" =>
              k \in 1 .. n /\ toServer[k].type = "codeAction"
      BY <1>1, <2>1
    <2> QED
      BY <1>1, <2>1, <2>2 DEF IInv, OneRequest, QuickFixFits
  <1> QED
    BY <1>3, <1>4

(* ... and handling any other message, or publishing, adds none.            *)
LEMMA HandleOneRequest ==
    ASSUME IInv, toServer' = toServer \/ (toServer # <<>> /\ toServer' = Tail(toServer)),
           NEW m \in Answer, m.type = "diagnostics",
           toClient' = toClient \/ toClient' = Append(toClient, m),
           UNCHANGED asked
    PROVE  OneRequest' /\ QuickFixFits'
  <1>1. toServer \in Seq(Request) /\ toClient \in Seq(Answer)
    BY DEF IInv, TypeOK
  <1>2. \E s \in {0, 1} : \A i \in DOMAIN toServer' :
            i + s \in DOMAIN toServer /\ toServer'[i] = toServer[i + s] /\ i \in Nat
    <2>1. CASE toServer' = toServer
      <3>1. \A i \in DOMAIN toServer' :
                i + 0 \in DOMAIN toServer /\ toServer'[i] = toServer[i + 0] /\ i \in Nat
        BY <1>1, <2>1
      <3> QED
        BY <3>1
    <2>2. CASE toServer # <<>> /\ toServer' = Tail(toServer)
      <3>1. \A i \in DOMAIN toServer' :
                i + 1 \in DOMAIN toServer /\ toServer'[i] = toServer[i + 1] /\ i \in Nat
        BY <1>1, <2>2
      <3> QED
        BY <3>1
    <2> QED
      BY <2>1, <2>2
  <1>3. \A i \in DOMAIN toClient' : toClient'[i].type = "fixes" =>
            i \in DOMAIN toClient /\ toClient'[i] = toClient[i]
    BY <1>1
  <1>4. PICK s \in {0, 1} : \A i \in DOMAIN toServer' :
            i + s \in DOMAIN toServer /\ toServer'[i] = toServer[i + s] /\ i \in Nat
    BY <1>2
  <1>5. \A i, k \in DOMAIN toServer' :
            toServer'[i].type = "codeAction" /\ toServer'[k].type = "codeAction" => i = k
    <2>1. TAKE i, k \in DOMAIN toServer'
    <2>2. HAVE toServer'[i].type = "codeAction" /\ toServer'[k].type = "codeAction"
    <2>3. i + s = k + s
      BY <1>4, <2>1, <2>2 DEF IInv, OneRequest
    <2> QED
      BY <1>4, <2>1, <2>3
  <1> QED
    BY <1>3, <1>4, <1>5 DEF IInv, OneRequest, QuickFixFits

-----------------------------------------------------------------------------
(* The invariant holds at the start ...                                    *)
LEMMA InitIInv == Init => IInv
  <1> SUFFICES ASSUME Init PROVE IInv
    OBVIOUS
  <1> USE DEF Init
  <1>1. TypeOK
    <2>1. toServer \in Seq(Request) /\ toClient \in Seq(Answer)
      OBVIOUS
    <2>2. sent \in 0 .. MaxMessages /\ failures \in 0 .. MaxFailures
      BY BoundAssumption
    <2>3. /\ configured \in Settings /\ settings \in Settings
          /\ shown \in [Uri -> [version : Nat, diags : Diags]]
      BY ValuesAssumption DEF Diags
    <2> QED
      BY <2>1, <2>2, <2>3 DEF TypeOK, IsOpen
  <1>2. CatchesUp
    BY DEF CatchesUp, Told, TextIn
  <1>3. OneRequest /\ FixesOfText /\ QuickFixFits
    BY DEF OneRequest, FixesOfText, QuickFixFits
  <1> QED
    BY <1>1, <1>2, <1>3 DEF IInv

(* ... and each action preserves it: the client's first.                   *)
LEMMA EditIInv ==
    ASSUME IInv, NEW u \in Uri, NEW t \in Text, Edit(u, t)
    PROVE  IInv'
  <1> USE DEF Edit, SendMessage, client, server, machine
  <1> DEFINE v == IF buffer[u] = None THEN 1 ELSE buffer[u].version + 1
             m == [type |-> "text", uri |-> u, text |-> t, version |-> v]
  <1>1. v \in Nat /\ m \in Request /\ [text |-> t, version |-> v] \in Document
    BY DEF IInv, TypeOK, Document, Request
  <1>2. /\ buffer \in [Uri -> Document \cup {None}]
        /\ buffer' = [buffer EXCEPT ![u] = [text |-> t, version |-> v]]
        /\ toServer' = Append(toServer, m) /\ UNCHANGED <<docs, asked, toClient, codeActions, work>>
    BY DEF IInv, TypeOK
  <1>3. TypeOK'
    BY <1>1, <1>2, BoundAssumption DEF IInv, TypeOK, IsOpen
  <1>4. \A w \in Uri : TextIn(buffer', w) = IF ChangesText(m, w) THEN TextOf(m) ELSE TextIn(buffer, w)
    BY <1>1, <1>2, NoneAssumption DEF TextIn, ChangesText, TextOf
  <1>5. CatchesUp'
    BY <1>1, <1>2, <1>4, SendCatchesUp
  <1>6. OneRequest' /\ QuickFixFits'
    BY <1>1, <1>2, SendOneRequest
  <1>7. FixesOfText'
    BY <1>2 DEF IInv, FixesOfText, TextIn
  <1> QED
    BY <1>3, <1>5, <1>6, <1>7 DEF IInv

LEMMA SaveIInv ==
    ASSUME IInv, NEW u \in Uri, Save(u)
    PROVE  IInv'
  <1> USE DEF Save, SendMessage, client, server, machine
  <1>1. PICK t \in {buffer[u].text, None} : toServer' = Append(toServer, [type |-> "save", uri |-> u, text |-> t])
    OBVIOUS
  <1> DEFINE m == [type |-> "save", uri |-> u, text |-> t]
  <1>2. m \in Request /\ m.text \in {None, TextIn(buffer, u)}
    BY <1>1 DEF IInv, TypeOK, Document, Request, TextIn
  <1>3. UNCHANGED <<buffer, docs, asked, toClient, codeActions, work>>
    OBVIOUS
  <1>4. TypeOK'
    BY <1>1, <1>2, BoundAssumption DEF IInv, TypeOK, IsOpen
  <1>5. CatchesUp'
    <2>1. \A w \in Uri : TextIn(buffer', w) = TextIn(buffer, w) /\ ~ChangesText(m, w)
      BY <1>3 DEF TextIn, ChangesText
    <2> QED
      BY <1>1, <1>2, <1>3, <2>1, SendCatchesUp
  <1>6. OneRequest' /\ QuickFixFits'
    BY <1>1, <1>2, <1>3, SendOneRequest
  <1>7. FixesOfText'
    BY <1>3 DEF IInv, FixesOfText, TextIn
  <1> QED
    BY <1>4, <1>5, <1>6, <1>7 DEF IInv

LEMMA CloseIInv ==
    ASSUME IInv, NEW u \in Uri, Close(u)
    PROVE  IInv'
  <1> USE DEF Close, SendMessage, client, server, machine
  <1> DEFINE m == [type |-> "close", uri |-> u]
  <1>1. m \in Request
    BY DEF Request
  <1>2. /\ buffer \in [Uri -> Document \cup {None}] /\ buffer' = [buffer EXCEPT ![u] = None]
        /\ toServer' = Append(toServer, m) /\ UNCHANGED <<docs, asked, toClient, codeActions, work>>
    BY DEF IInv, TypeOK
  <1>3. TypeOK'
    BY <1>1, <1>2, BoundAssumption DEF IInv, TypeOK, IsOpen
  <1>4. \A w \in Uri : TextIn(buffer', w) = IF ChangesText(m, w) THEN TextOf(m) ELSE TextIn(buffer, w)
    BY <1>1, <1>2 DEF TextIn, ChangesText, TextOf
  <1>5. CatchesUp'
    BY <1>1, <1>2, <1>4, SendCatchesUp
  <1>6. OneRequest' /\ QuickFixFits'
    BY <1>1, <1>2, SendOneRequest
  <1>7. FixesOfText'
    BY <1>2 DEF IInv, FixesOfText, TextIn
  <1> QED
    BY <1>3, <1>5, <1>6, <1>7 DEF IInv

LEMMA ConfigureIInv ==
    ASSUME IInv, NEW s \in Settings, Configure(s)
    PROVE  IInv'
  <1> USE DEF Configure, SendMessage, client, server, machine
  <1> DEFINE m == [type |-> "configuration", settings |-> s]
  <1>1. m \in Request
    BY DEF Request
  <1>2. toServer' = Append(toServer, m) /\ UNCHANGED <<buffer, docs, asked, toClient, codeActions, work>>
    OBVIOUS
  <1>3. TypeOK'
    BY <1>1, <1>2, BoundAssumption DEF IInv, TypeOK, IsOpen
  <1>4. \A w \in Uri : TextIn(buffer', w) = TextIn(buffer, w) /\ ~ChangesText(m, w)
    BY <1>2 DEF TextIn, ChangesText
  <1>5. CatchesUp'
    BY <1>1, <1>2, <1>4, SendCatchesUp
  <1>6. OneRequest' /\ QuickFixFits'
    BY <1>1, <1>2, SendOneRequest
  <1>7. FixesOfText'
    BY <1>2 DEF IInv, FixesOfText, TextIn
  <1> QED
    BY <1>3, <1>5, <1>6, <1>7 DEF IInv

LEMMA AskForFixesIInv ==
    ASSUME IInv, NEW u \in Uri, AskForFixes(u)
    PROVE  IInv'
  <1> USE DEF AskForFixes, SendMessage, client, server, machine
  <1> DEFINE m == [type |-> "codeAction", uri |-> u]
  <1>1. m \in Request
    BY DEF Request
  <1>2. /\ toServer' = Append(toServer, m) /\ UNCHANGED <<buffer, docs, toClient, codeActions, work>>
        /\ asked = None /\ asked' = [uri |-> u, text |-> buffer[u].text]
    OBVIOUS
  <1>3. asked' \in [uri : Uri, text : Text] /\ asked'.text = TextIn(buffer, u) /\ asked'.uri = u
    BY <1>2 DEF IInv, TypeOK, Document, TextIn
  <1>4. TypeOK'
    BY <1>1, <1>2, <1>3, BoundAssumption DEF IInv, TypeOK, IsOpen
  <1>5. \A w \in Uri : TextIn(buffer', w) = TextIn(buffer, w) /\ ~ChangesText(m, w)
    BY <1>2 DEF TextIn, ChangesText
  <1>6. CatchesUp'
    BY <1>1, <1>2, <1>3, <1>5, NoneAssumption, SendCatchesUp
  <1>7. OneRequest' /\ QuickFixFits'
    BY <1>1, <1>2, SendOneRequest
  <1>8. FixesOfText'
    BY <1>2 DEF IInv, FixesOfText, TextIn
  <1> QED
    BY <1>4, <1>6, <1>7, <1>8 DEF IInv

-----------------------------------------------------------------------------
(* The server's.  The head of its queue is what it handles.                *)
LEMMA HeadTypes ==
    ASSUME IInv, toServer # <<>>
    PROVE  /\ Head(toServer) \in Request /\ Head(toServer) = toServer[1]
           /\ 1 \in DOMAIN toServer /\ Tail(toServer) \in Seq(Request)
           /\ \A i \in DOMAIN Tail(toServer) :
                  i + 1 \in DOMAIN toServer /\ i + 1 # 1 /\ Tail(toServer)[i] = toServer[i + 1]
  <1>1. toServer \in Seq(Request)
    BY DEF IInv, TypeOK
  <1> QED
    BY <1>1

LEMMA HandleTextIInv ==
    ASSUME IInv, HandleText
    PROVE  IInv'
  <1> USE DEF HandleText, Receives, Consume, client, server, machine
  <1> DEFINE m == Head(toServer)
             d == [type |-> "diagnostics", uri |-> m.uri, version |-> 0, diags |-> Clean]
  <1>1. /\ toServer # <<>> /\ m.type = "text" /\ work = {} /\ work' = {m.uri}
        /\ toServer' = Tail(toServer) /\ UNCHANGED <<buffer, asked, toClient, codeActions>>
        /\ docs \in [Uri -> Document \cup {None}]
        /\ docs' = [docs EXCEPT ![m.uri] = [text |-> m.text, version |-> m.version]]
    BY DEF IInv, TypeOK
  <1>2. /\ m \in Request /\ Tail(toServer) \in Seq(Request)
        /\ m.uri \in Uri /\ [text |-> m.text, version |-> m.version] \in Document
    BY <1>1, HeadTypes, RequestTypes DEF Document
  <1>3. TypeOK'
    <2>1. docs' \in [Uri -> Document \cup {None}] /\ work' \subseteq {u \in Uri : IsOpen(u)'}
      BY <1>1, <1>2, NoneAssumption DEF IsOpen
    <2> QED
      BY <1>1, <1>2, <2>1 DEF IInv, TypeOK
  <1>4. \A w \in Uri : TextIn(docs', w) = IF ChangesText(m, w) THEN TextOf(m) ELSE TextIn(docs, w)
    BY <1>1, <1>2, NoneAssumption DEF TextIn, ChangesText, TextOf
  <1>5. CatchesUp'
    BY <1>1, <1>4, HandleCatchesUp
  <1>6. OneRequest' /\ QuickFixFits'
    <2>1. d \in Answer /\ d.type = "diagnostics"
      BY <1>2 DEF Answer, Diags
    <2> QED
      BY <1>1, <2>1, HandleOneRequest
  <1>7. FixesOfText'
    BY <1>1, <1>4 DEF IInv, FixesOfText, ChangesText
  <1> QED
    BY <1>3, <1>5, <1>6, <1>7 DEF IInv

(* A save brings a text the server has already. *)
LEMMA SaveChangesNothing ==
    ASSUME IInv, HandleSave
    PROVE  UNCHANGED docs
  <1> USE DEF HandleSave, Receives, Consume
  <1> DEFINE m == Head(toServer)
  <1>1. /\ toServer # <<>> /\ m.type = "save"
        /\ docs \in [Uri -> Document \cup {None}]
        /\ docs' = IF m.text = None THEN docs ELSE [docs EXCEPT ![m.uri].text = m.text]
    BY DEF IInv, TypeOK
  <1>2. m = toServer[1] /\ 1 \in DOMAIN toServer /\ m.uri \in Uri
    BY <1>1, HeadTypes, RequestTypes
  <1>3. CASE m.text = None
    BY <1>1, <1>3
  <1>4. CASE m.text # None
    <2>1. Told(toServer, 1, m.uri, m.text, TextIn(docs, m.uri))
      BY <1>1, <1>2, <1>4 DEF IInv, CatchesUp
    <2>2. ~ChangesText(toServer[1], m.uri)
      BY <1>1, <1>2 DEF ChangesText
    <2>3. TextIn(docs, m.uri) = m.text
      BY <2>1, <2>2 DEF Told
    <2>4. docs[m.uri] \in Document /\ docs[m.uri].text = m.text
      BY <1>1, <1>2, <1>4, <2>3 DEF TextIn
    <2>5. [docs[m.uri] EXCEPT !.text = m.text] = docs[m.uri]
      BY <2>4 DEF Document
    <2> QED
      BY <1>1, <1>2, <1>4, <2>5
  <1> QED
    BY <1>3, <1>4

LEMMA HandleSaveIInv ==
    ASSUME IInv, HandleSave
    PROVE  IInv'
  <1> USE DEF HandleSave, Receives, Consume, client, server, machine
  <1> DEFINE m == Head(toServer)
             d == [type |-> "diagnostics", uri |-> m.uri, version |-> 0, diags |-> Clean]
  <1>1. /\ toServer # <<>> /\ m.type = "save"
        /\ toServer' = Tail(toServer) /\ UNCHANGED <<buffer, asked, toClient, codeActions, work>>
    BY DEF IInv, TypeOK
  <1>2. /\ m \in Request /\ Tail(toServer) \in Seq(Request) /\ m.uri \in Uri
    BY <1>1, HeadTypes, RequestTypes
  <1>3. UNCHANGED docs
    BY SaveChangesNothing
  <1>4. TypeOK'
    BY <1>1, <1>2, <1>3 DEF IInv, TypeOK, IsOpen
  <1>5. CatchesUp'
    <2>1. \A w \in Uri : TextIn(docs', w) = TextIn(docs, w) /\ ~ChangesText(m, w)
      BY <1>1, <1>3 DEF TextIn, ChangesText
    <2> QED
      BY <1>1, <2>1, HandleCatchesUp
  <1>6. OneRequest' /\ QuickFixFits'
    <2>1. d \in Answer /\ d.type = "diagnostics"
      BY <1>2 DEF Answer, Diags
    <2> QED
      BY <1>1, <2>1, HandleOneRequest
  <1>7. FixesOfText'
    BY <1>1, <1>3 DEF IInv, FixesOfText, TextIn
  <1> QED
    BY <1>4, <1>5, <1>6, <1>7 DEF IInv

LEMMA HandleCloseIInv ==
    ASSUME IInv, HandleClose
    PROVE  IInv'
  <1> USE DEF HandleClose, Receives, Consume, Publish, SetCodeActions, client, server, machine
  <1> DEFINE m == Head(toServer)
             d == [type |-> "diagnostics", uri |-> m.uri, version |-> 0, diags |-> Clean]
  <1>1. /\ toServer # <<>> /\ m.type = "close" /\ work = {} /\ UNCHANGED work
        /\ toServer' = Tail(toServer) /\ toClient' = Append(toClient, d) /\ UNCHANGED <<buffer, asked>>
        /\ docs \in [Uri -> Document \cup {None}] /\ codeActions \in [Uri -> Fixes \cup {None}]
        /\ docs' = [docs EXCEPT ![m.uri] = None]
        /\ codeActions' = [codeActions EXCEPT ![m.uri] = None]
    BY DEF IInv, TypeOK
  <1>2. m \in Request /\ Tail(toServer) \in Seq(Request) /\ m.uri \in Uri
    BY <1>1, HeadTypes, RequestTypes
  <1>3. d \in Answer /\ d.type = "diagnostics"
    BY <1>2 DEF Answer, Diags
  <1>4. TypeOK'
    BY <1>1, <1>2, <1>3 DEF IInv, TypeOK, IsOpen
  <1>5. \A w \in Uri : TextIn(docs', w) = IF ChangesText(m, w) THEN TextOf(m) ELSE TextIn(docs, w)
    BY <1>1, <1>2 DEF TextIn, ChangesText, TextOf
  <1>6. CatchesUp'
    BY <1>1, <1>5, HandleCatchesUp
  <1>7. OneRequest' /\ QuickFixFits'
    BY <1>1, <1>3, HandleOneRequest
  <1>8. FixesOfText'
    BY <1>1, <1>2, <1>5 DEF IInv, FixesOfText, ChangesText
  <1> QED
    BY <1>4, <1>6, <1>7, <1>8 DEF IInv

LEMMA HandleDidChangeConfigurationIInv ==
    ASSUME IInv, HandleDidChangeConfiguration
    PROVE  IInv'
  <1> USE DEF HandleDidChangeConfiguration, Receives, Consume, client, server, machine
  <1> DEFINE m == Head(toServer)
  <1>1. /\ toServer # <<>> /\ m.type = "configuration" /\ work = {}
        /\ work' = {u \in Uri : IsOpen(u)} /\ settings' = m.settings
        /\ toServer' = Tail(toServer) /\ UNCHANGED <<buffer, asked, docs, toClient, codeActions>>
    OBVIOUS
  <1>2. m \in Request /\ Tail(toServer) \in Seq(Request) /\ m.settings \in Settings
    BY <1>1, HeadTypes, RequestTypes
  <1>3. TypeOK'
    BY <1>1, <1>2 DEF IInv, TypeOK, IsOpen
  <1>4. \A w \in Uri : TextIn(docs', w) = TextIn(docs, w) /\ ~ChangesText(m, w)
    BY <1>1 DEF TextIn, ChangesText
  <1>5. CatchesUp'
    BY <1>1, <1>4, HandleCatchesUp
  <1>6. OneRequest' /\ QuickFixFits'
    <2>1. CASE Uri = {}
      <3>1. Answer = {}
        BY <2>1 DEF Answer
      <3>2. toClient = <<>>
        BY <3>1 DEF IInv, TypeOK
      <3>3. \A k \in DOMAIN Tail(toServer) : Tail(toServer)[k].type # "codeAction"
        BY <1>1, <2>1, HeadTypes, RequestTypes
      <3> QED
        BY <1>1, <3>2, <3>3 DEF OneRequest, QuickFixFits
    <2>2. CASE Uri # {}
      <3>1. PICK u \in Uri : TRUE
        BY <2>2
      <3>2. [type |-> "diagnostics", uri |-> u, version |-> 0, diags |-> Clean] \in Answer
        BY <3>1 DEF Answer, Diags
      <3> QED
        BY <1>1, <3>2, HandleOneRequest
    <2> QED
      BY <2>1, <2>2
  <1>7. FixesOfText'
    BY <1>1, <1>4 DEF IInv, FixesOfText
  <1> QED
    BY <1>3, <1>5, <1>6, <1>7 DEF IInv

(* The reply: the server has caught up with the text of the request. *)
LEMMA HandleCodeActionIInv ==
    ASSUME IInv, HandleCodeAction
    PROVE  IInv'
  <1> USE DEF HandleCodeAction, Receives, Consume, client, server, machine
  <1> DEFINE m == Head(toServer)
             n == Len(toClient)
  <1>1. /\ toServer # <<>> /\ m.type = "codeAction" /\ work = {}
        /\ toServer' = Tail(toServer)
        /\ UNCHANGED <<buffer, asked, docs, codeActions, work>>
    OBVIOUS
  <1>2. PICK fixes \in {codeActions[m.uri], None} :
            toClient' = Append(toClient, [type |-> "fixes", uri |-> m.uri, fixes |-> fixes])
    OBVIOUS
  <1>3. /\ m \in Request /\ Tail(toServer) \in Seq(Request) /\ m.uri \in Uri
        /\ m = toServer[1] /\ 1 \in DOMAIN toServer
    BY <1>1, HeadTypes, RequestTypes
  <1> DEFINE f == [type |-> "fixes", uri |-> m.uri, fixes |-> fixes]
  <1>4. f \in Answer
    BY <1>2, <1>3 DEF IInv, TypeOK, Answer
  <1>5. TypeOK'
    BY <1>1, <1>2, <1>3, <1>4 DEF IInv, TypeOK, IsOpen
  <1>6. CatchesUp'
    <2>1. \A w \in Uri : TextIn(docs', w) = TextIn(docs, w) /\ ~ChangesText(m, w)
      BY <1>1 DEF TextIn, ChangesText
    <2> QED
      BY <1>1, <2>1, HandleCatchesUp
  <1>7. asked # None /\ asked.uri = m.uri /\ (fixes # None => fixes.text = asked.text)
    <2>1. asked # None /\ asked.uri = m.uri /\ Told(toServer, 1, m.uri, asked.text, TextIn(docs, m.uri))
      BY <1>1, <1>3 DEF IInv, CatchesUp
    <2>2. ~ChangesText(toServer[1], m.uri)
      BY <1>1, <1>3 DEF ChangesText
    <2>3. TextIn(docs, m.uri) = asked.text
      BY <2>1, <2>2 DEF Told
    <2>4. fixes # None => fixes.text = TextIn(docs, m.uri)
      BY <1>1, <1>2, <1>3 DEF IInv, FixesOfText
    <2> QED
      BY <2>1, <2>3, <2>4
  <1>8. /\ n \in Nat /\ DOMAIN toClient = 1 .. n /\ DOMAIN toClient' = 1 .. n + 1
        /\ \A i \in 1 .. n : toClient'[i] = toClient[i]
        /\ toClient'[n + 1] = f
    BY <1>2, <1>4 DEF IInv, TypeOK
  <1>9. \A i \in 1 .. n : toClient[i].type # "fixes"
    BY <1>1, <1>3, <1>8 DEF IInv, OneRequest
  <1>10. \A i \in DOMAIN toServer' : toServer'[i].type # "codeAction"
    BY <1>1, <1>3, HeadTypes DEF IInv, OneRequest
  <1>11. \A i \in DOMAIN toClient' : toClient'[i].type = "fixes" => i = n + 1
    BY <1>8, <1>9
  <1>12. OneRequest' /\ QuickFixFits'
    BY <1>1, <1>7, <1>8, <1>10, <1>11 DEF OneRequest, QuickFixFits
  <1>13. FixesOfText'
    BY <1>1 DEF IInv, FixesOfText, TextIn
  <1> QED
    BY <1>5, <1>6, <1>12, <1>13 DEF IInv

(* Nothing of what CatchesUp speaks of changes while a document is diagnosed *)
(* or the client's machine changes.                                         *)
LEMMA CatchesUpUnchanged ==
    ASSUME IInv, UNCHANGED <<buffer, asked, toServer, docs>>
    PROVE  CatchesUp'
  BY DEF IInv, CatchesUp, Told, TextIn, ChangesText, TextOf

LEMMA DiagnoseIInv ==
    ASSUME IInv, NEW u \in Uri, Diagnose(u)
    PROVE  IInv'
  <1> USE DEF client, server, machine
  <1>1. /\ u \in work /\ work' = work \ {u}
        /\ UNCHANGED <<buffer, asked, toServer, docs, settings>>
        /\ docs[u] \in Document /\ docs[u] # None /\ settings \in Settings
        /\ codeActions \in [Uri -> Fixes \cup {None}]
    BY DEF Diagnose, IInv, TypeOK, IsOpen
  <1>2. /\ docs[u].text \in Text /\ docs[u].version \in Nat
        /\ TextIn(docs, u) = docs[u].text
    BY <1>1 DEF Document, TextIn
  <1>3. PICK fixes \in {None, Lint(docs[u].text, settings)},
             diags \in Diags :
             /\ codeActions' = [codeActions EXCEPT ![u] = fixes]
             /\ toClient' = Append(toClient, [type |-> "diagnostics", uri |-> u,
                                              version |-> docs[u].version, diags |-> diags])
    <2>1. /\ Clean \in Diags /\ Lint(docs[u].text, settings) \in Diags
          /\ docs[u].text \in Broken => ParseError(docs[u].text) \in Diags
      BY <1>1, <1>2 DEF Diags, Fixes, Lint
    <2>2. CASE SkipLint(u)
      BY <2>1, <2>2 DEF SkipLint, SetCodeActions, Publish
    <2>3. CASE LintFails(u)
      BY <2>1, <2>3 DEF LintFails, SetCodeActions, Publish
    <2>4. CASE LintSucceeds(u)
      BY <2>1, <2>4 DEF LintSucceeds, SetCodeActions, Publish
    <2> QED
      BY <2>2, <2>3, <2>4 DEF Diagnose
  <1> DEFINE d == [type |-> "diagnostics", uri |-> u, version |-> docs[u].version, diags |-> diags]
  <1>4. d \in Answer /\ d.type = "diagnostics"
    BY <1>2, <1>3 DEF Answer
  <1>5. fixes \in Fixes \cup {None} /\ (fixes # None => fixes.text = docs[u].text)
    BY <1>1, <1>2, <1>3 DEF Fixes, Lint
  <1>6. disabled' \in BOOLEAN
    BY DEF Diagnose, SkipLint, LintFails, LintSucceeds, IInv, TypeOK
  <1>7. UNCHANGED <<configured, shown, sent, tool, failures, healthy>>
    BY DEF Diagnose
  <1>8. TypeOK'
    BY <1>1, <1>3, <1>4, <1>5, <1>6, <1>7 DEF IInv, TypeOK, IsOpen
  <1>9. CatchesUp'
    BY <1>1, CatchesUpUnchanged
  <1>10. OneRequest' /\ QuickFixFits'
    BY <1>1, <1>3, <1>4, HandleOneRequest
  <1>11. FixesOfText'
    <2>1. ASSUME NEW w \in Uri \ work', codeActions'[w] # None
          PROVE  codeActions'[w].text = TextIn(docs', w)
      <3>1. CASE w = u
        BY <1>1, <1>2, <1>3, <1>5, <2>1, <3>1
      <3>2. CASE w # u
        BY <1>1, <1>3, <2>1, <3>2 DEF IInv, FixesOfText
      <3> QED
        BY <3>1, <3>2
    <2> QED
      BY <2>1 DEF FixesOfText
  <1> QED
    BY <1>8, <1>9, <1>10, <1>11 DEF IInv

-----------------------------------------------------------------------------
(* The client reads an answer; the fixes it asked for end its request.      *)
LEMMA ReceiveIInv ==
    ASSUME IInv, Receive
    PROVE  IInv'
  <1> USE DEF Receive, client, server, machine
  <1> DEFINE m == Head(toClient)
             n == Len(toClient)
  <1>1. /\ toClient # <<>> /\ toClient' = Tail(toClient)
        /\ UNCHANGED <<buffer, toServer, docs, codeActions, work>>
    OBVIOUS
  <1>2. /\ m \in Answer /\ m = toClient[1] /\ 1 \in DOMAIN toClient
        /\ Tail(toClient) \in Seq(Answer)
        /\ \A i \in DOMAIN Tail(toClient) :
               i + 1 \in DOMAIN toClient /\ i + 1 # 1 /\ i \in Nat /\ Tail(toClient)[i] = toClient[i + 1]
    <2>1. toClient \in Seq(Answer)
      BY DEF IInv, TypeOK
    <2> QED
      BY <1>1, <2>1
  <1>3. m.type \in {"diagnostics", "fixes"} /\ m.uri \in Uri
    BY <1>2, AnswerTypes
  <1>4. TypeOK'
    <2>1. CASE m.type = "diagnostics"
      <3>1. [version |-> m.version, diags |-> m.diags] \in [version : Nat, diags : Diags]
        BY <1>2, <2>1, AnswerTypes
      <3> QED
        BY <1>1, <1>2, <1>3, <2>1, <3>1 DEF IInv, TypeOK, IsOpen
    <2>2. CASE m.type = "fixes"
      BY <1>1, <1>2, <2>2 DEF IInv, TypeOK, IsOpen
    <2> QED
      BY <1>3, <2>1, <2>2
  <1>5. FixesOfText'
    BY <1>1 DEF IInv, FixesOfText, TextIn
  <1>6. \A i, k \in DOMAIN toClient' :
            toClient'[i].type = "fixes" /\ toClient'[k].type = "fixes" => i = k
    <2>1. TAKE i, k \in DOMAIN toClient'
    <2>2. HAVE toClient'[i].type = "fixes" /\ toClient'[k].type = "fixes"
    <2>3. i + 1 = k + 1
      BY <1>1, <1>2, <2>1, <2>2 DEF IInv, OneRequest
    <2> QED
      BY <1>1, <1>2, <2>1, <2>3
  <1>7. CatchesUp' /\ OneRequest' /\ QuickFixFits'
    <2>1. CASE m.type = "diagnostics"
      <3>1. UNCHANGED asked
        BY <2>1
      <3>2. CatchesUp'
        BY <1>1, <3>1, CatchesUpUnchanged
      <3>3. OneRequest' /\ QuickFixFits'
        BY <1>1, <1>2, <1>6, <3>1 DEF IInv, OneRequest, QuickFixFits
      <3> QED
        BY <3>2, <3>3
    <2>2. CASE m.type = "fixes"
      <3>1. \A i \in DOMAIN toServer : toServer[i].type # "codeAction"
        BY <1>2, <2>2 DEF IInv, OneRequest
      <3>2. \A i \in DOMAIN toClient' : toClient'[i].type # "fixes"
        <4>1. \A i, k \in DOMAIN toClient :
                  toClient[i].type = "fixes" /\ toClient[k].type = "fixes" => i = k
          BY DEF IInv, OneRequest
        <4>2. ASSUME NEW i \in DOMAIN toClient'
              PROVE  /\ i + 1 \in DOMAIN toClient /\ i + 1 # 1
                     /\ toClient'[i] = toClient[i + 1]
          BY <1>1, <1>2
        <4>3. 1 \in DOMAIN toClient /\ toClient[1].type = "fixes"
          BY <1>2, <2>2
        <4> QED
          BY <4>1, <4>2, <4>3, Zenon
      <3>3. CatchesUp'
        <4>1. CatchesUp
          BY DEF IInv
        <4> QED
          BY <1>1, <3>1, <4>1 DEF CatchesUp, Told, TextIn
      <3>4. OneRequest' /\ QuickFixFits'
        BY <1>1, <3>1, <3>2 DEF OneRequest, QuickFixFits
      <3> QED
        BY <3>3, <3>4
    <2> QED
      BY <1>3, <2>1, <2>2
  <1> QED
    BY <1>4, <1>5, <1>7 DEF IInv

(* Steps in which only the installation of ShellCheck changes, or nothing. *)
LEMMA MachineIInv ==
    ASSUME IInv, UNCHANGED <<client, toServer, toClient, server>>,
           tool' \in {"ok", "missing", "failing"}, failures' \in 0 .. MaxFailures,
           healthy' \in BOOLEAN
    PROVE  IInv'
  <1> USE DEF client, server
  <1>1. CatchesUp'
    BY CatchesUpUnchanged
  <1>2. TypeOK'
    BY DEF IInv, TypeOK, IsOpen
  <1>3. OneRequest' /\ FixesOfText' /\ QuickFixFits'
    BY DEF IInv, OneRequest, FixesOfText, QuickFixFits, TextIn
  <1> QED
    BY <1>1, <1>2, <1>3 DEF IInv

(* Every step preserves the invariant. *)
LEMMA NextIInv ==
    ASSUME IInv, [Next]_vars
    PROVE  IInv'
  <1>1. CASE Server
    BY <1>1, HandleTextIInv, HandleSaveIInv, HandleCloseIInv, HandleDidChangeConfigurationIInv,
       HandleCodeActionIInv, DiagnoseIInv DEF Server
  <1>2. CASE Client
    BY <1>2, EditIInv, SaveIInv, CloseIInv, AskForFixesIInv, ConfigureIInv DEF Client
  <1>3. CASE Receive
    BY <1>3, ReceiveIInv
  <1>4. ASSUME NEW state \in {"ok", "missing", "failing"}, ToolChanges(state)
        PROVE  IInv'
    <2>1. failures' \in 0 .. MaxFailures
      BY <1>4, BoundAssumption DEF ToolChanges, IInv, TypeOK
    <2> QED
      BY <1>4, <2>1, MachineIInv DEF ToolChanges
  <1>5. CASE UNCHANGED vars
    BY <1>5, MachineIInv DEF vars, machine, IInv, TypeOK
  <1> QED
    BY <1>1, <1>2, <1>3, <1>4, <1>5 DEF Next

-----------------------------------------------------------------------------
(* The inductive invariant: the server, having handled its queue so far, is  *)
(* where the client was, and its fixes are of the text it has.              *)
THEOREM Invariance == Spec => []IInv
  <1>1. IInv /\ [Next]_vars => IInv'
    BY NextIInv
  <1> QED
    BY <1>1, InitIInv, PTL DEF Spec

(* Every variable has its type.                                            *)
THEOREM TypeCorrect == Spec => []TypeOK
  <1>1. IInv => TypeOK
    BY DEF IInv
  <1> QED
    BY <1>1, Invariance, PTL

(* The fixes a code action request is answered with are edits of the text    *)
(* the client had when it asked.                                            *)
THEOREM FixesFitText == Spec => []QuickFixFits
  <1>1. IInv => QuickFixFits
    BY DEF IInv
  <1> QED
    BY <1>1, Invariance, PTL

-----------------------------------------------------------------------------
(* A channel read as a register.  s[i] is what message i leaves in it: {x}  *)
(* for the value x, {} for what was there.  After n messages v is there, if *)
(* d is there now.                                                         *)
Leaves(s, n, d, v) ==
    \/ d = v /\ \A j \in 1 .. n : s[j] = {}
    \/ \E i \in 1 .. n : s[i] = {v} /\ \A j \in i + 1 .. n : s[j] = {}

LEMMA LeavesMore ==
    ASSUME NEW n \in Nat, NEW s, NEW r, NEW d, NEW v, Leaves(s, n, d, v),
           \A i \in 1 .. n : r[i] = s[i], r[n + 1] = {}
    PROVE  Leaves(r, n + 1, d, v)
  <1>1. CASE d = v /\ \A j \in 1 .. n : s[j] = {}
    <2>1. \A j \in 1 .. n + 1 : r[j] = {}
      BY <1>1
    <2> QED
      BY <1>1, <2>1 DEF Leaves
  <1>2. CASE \E i \in 1 .. n : s[i] = {v} /\ \A j \in i + 1 .. n : s[j] = {}
    <2>1. PICK i \in 1 .. n : s[i] = {v} /\ \A j \in i + 1 .. n : s[j] = {}
      BY <1>2
    <2>2. i \in 1 .. n + 1 /\ r[i] = {v} /\ \A j \in i + 1 .. n + 1 : r[j] = {}
      BY <2>1
    <2> QED
      BY <2>2 DEF Leaves
  <1> QED
    BY <1>1, <1>2 DEF Leaves

LEMMA LeavesLast ==
    ASSUME NEW n \in Nat, NEW r, NEW d, NEW v, r[n + 1] = {v}
    PROVE  Leaves(r, n + 1, d, v)
  <1>1. n + 1 \in 1 .. n + 1 /\ \A j \in (n + 1) + 1 .. n + 1 : r[j] = {}
    OBVIOUS
  <1> QED
    BY <1>1 DEF Leaves

LEMMA LeavesTail ==
    ASSUME NEW n \in Nat, n > 0, NEW s, NEW r, NEW d, NEW e, NEW v, Leaves(s, n, d, v),
           \A i \in 1 .. n - 1 : r[i] = s[i + 1],
           (s[1] = {} /\ e = d) \/ s[1] = {e}
    PROVE  Leaves(r, n - 1, e, v)
  <1>1. CASE d = v /\ \A j \in 1 .. n : s[j] = {}
    <2>1. s[1] = {} /\ \A j \in 1 .. n - 1 : r[j] = {}
      BY <1>1
    <2> QED
      BY <1>1, <2>1 DEF Leaves
  <1>2. CASE \E i \in 1 .. n : s[i] = {v} /\ \A j \in i + 1 .. n : s[j] = {}
    <2>1. PICK i \in 1 .. n : s[i] = {v} /\ \A j \in i + 1 .. n : s[j] = {}
      BY <1>2
    <2>2. \A j \in i .. n - 1 : r[j] = {}
      <3>1. TAKE j \in i .. n - 1
      <3>2. j \in 1 .. n - 1 /\ j + 1 \in i + 1 .. n
        OBVIOUS
      <3> QED
        BY <2>1, <3>2
    <2>3. CASE i = 1
      BY <2>1, <2>2, <2>3 DEF Leaves
    <2>4. CASE i # 1
      <3>1. i - 1 \in 1 .. n - 1 /\ (i - 1) + 1 = i
        BY <2>4
      <3>2. r[i - 1] = {v} /\ \A j \in (i - 1) + 1 .. n - 1 : r[j] = {}
        BY <2>1, <2>2, <3>1
      <3> QED
        BY <3>1, <3>2 DEF Leaves
    <2> QED
      BY <2>3, <2>4
  <1> QED
    BY <1>1, <1>2 DEF Leaves

(* Nothing is left to come. *)
LEMMA LeavesNow ==
    ASSUME NEW s, NEW d, NEW v, Leaves(s, 0, d, v)
    PROVE  d = v
  BY DEF Leaves

-----------------------------------------------------------------------------
(* What the messages leave. *)
DocOf(m, u) ==
    IF m.type = "text" /\ m.uri = u THEN {[text |-> m.text, version |-> m.version]}
    ELSE IF m.type = "close" /\ m.uri = u THEN {None} ELSE {}
SettingsOf(m) == IF m.type = "configuration" THEN {m.settings} ELSE {}
ShownOf(m, u) ==
    IF m.type = "diagnostics" /\ m.uri = u THEN {[version |-> m.version, diags |-> m.diags]} ELSE {}

DocsTold(u) == [i \in DOMAIN toServer |-> DocOf(toServer[i], u)]
SettingsTold == [i \in DOMAIN toServer |-> SettingsOf(toServer[i])]
ShownTold(u) == [i \in DOMAIN toClient |-> ShownOf(toClient[i], u)]

(* The server will have the client's documents, versions included, and its  *)
(* settings.                                                               *)
Arrives ==
    /\ \A u \in Uri : Leaves(DocsTold(u), Len(toServer), docs[u], buffer[u])
    /\ Leaves(SettingsTold, Len(toServer), settings, configured)

(* What the client will show of u is right for what the server has now. *)
Right(u, v) ==
    /\ codeActions[u] = IF v.diags.kind = "lint" THEN v.diags ELSE None
    /\ docs[u] = None => v.diags = Clean
    /\ docs[u] # None =>
        /\ v.version = docs[u].version
        /\ docs[u].text \in Broken => v.diags = ParseError(docs[u].text)
        /\ docs[u].text \notin Broken =>
             /\ v.diags \in {Clean, Lint(docs[u].text, settings)}
             /\ healthy /\ settings # Off => v.diags = Lint(docs[u].text, settings)

WillShow == \A u \in Uri \ work : \E v : Leaves(ShownTold(u), Len(toClient), shown[u], v) /\ Right(u, v)

(* A ShellCheck that has worked since the last configuration is used. *)
Used == healthy => tool = "ok" /\ ~disabled

SInv == Arrives /\ WillShow /\ Used

-----------------------------------------------------------------------------
(* The server's queue: a message is sent that says what the client did ... *)
LEMMA SendArrives ==
    ASSUME IInv, Arrives, NEW m \in Request,
           toServer' = Append(toServer, m), UNCHANGED <<docs, settings>>,
           \A u \in Uri : \/ DocOf(m, u) = {} /\ buffer'[u] = buffer[u]
                         \/ DocOf(m, u) = {buffer'[u]},
           \/ SettingsOf(m) = {} /\ configured' = configured
           \/ SettingsOf(m) = {configured'}
    PROVE  Arrives'
  <1> DEFINE n == Len(toServer)
  <1>1. /\ n \in Nat /\ Len(toServer') = n + 1
        /\ DOMAIN toServer = 1 .. n /\ DOMAIN toServer' = 1 .. n + 1
        /\ \A i \in 1 .. n : toServer'[i] = toServer[i]
        /\ toServer'[n + 1] = m /\ n + 1 \in 1 .. n + 1
        /\ 1 .. n \subseteq 1 .. n + 1
    BY SeqTypes DEF IInv, TypeOK
  <1>2. ASSUME NEW u \in Uri
        PROVE  Leaves(DocsTold(u)', n + 1, docs'[u], buffer'[u])
    <2>1. /\ \A i \in 1 .. n : DocsTold(u)'[i] = DocsTold(u)[i]
          /\ DocsTold(u)'[n + 1] = DocOf(m, u)
      BY <1>1 DEF DocsTold
    <2>2. Leaves(DocsTold(u), n, docs[u], buffer[u])
      BY DEF Arrives
    <2> HIDE DEF n
    <2>3. CASE DocOf(m, u) = {} /\ buffer'[u] = buffer[u]
      BY <1>1, <2>1, <2>2, <2>3, LeavesMore
    <2>4. CASE DocOf(m, u) = {buffer'[u]}
      BY <1>1, <2>1, <2>4, LeavesLast
    <2> QED
      BY <2>3, <2>4
  <1>3. Leaves(SettingsTold', n + 1, settings', configured')
    <2>1. /\ \A i \in 1 .. n : SettingsTold'[i] = SettingsTold[i]
          /\ SettingsTold'[n + 1] = SettingsOf(m)
      BY <1>1 DEF SettingsTold
    <2>2. Leaves(SettingsTold, n, settings, configured)
      BY DEF Arrives
    <2> HIDE DEF n
    <2>3. CASE SettingsOf(m) = {} /\ configured' = configured
      BY <1>1, <2>1, <2>2, <2>3, LeavesMore
    <2>4. CASE SettingsOf(m) = {configured'}
      BY <1>1, <2>1, <2>4, LeavesLast
    <2> QED
      BY <2>3, <2>4
  <1> QED
    BY <1>1, <1>2, <1>3 DEF Arrives

(* ... and the first one is handled, which says what the server does.      *)
LEMMA HandleArrives ==
    ASSUME IInv, Arrives, toServer # <<>>, toServer' = Tail(toServer),
           UNCHANGED <<buffer, configured>>,
           \A u \in Uri : \/ DocOf(Head(toServer), u) = {} /\ docs'[u] = docs[u]
                         \/ DocOf(Head(toServer), u) = {docs'[u]},
           \/ SettingsOf(Head(toServer)) = {} /\ settings' = settings
           \/ SettingsOf(Head(toServer)) = {settings'}
    PROVE  Arrives'
  <1> DEFINE n == Len(toServer)
             m == Head(toServer)
  <1>1. /\ n \in Nat /\ n > 0 /\ Len(toServer') = n - 1
        /\ DOMAIN toServer = 1 .. n /\ DOMAIN toServer' = 1 .. n - 1
        /\ \A i \in 1 .. n - 1 : i + 1 \in 1 .. n /\ toServer'[i] = toServer[i + 1]
        /\ m = toServer[1] /\ 1 \in 1 .. n
    <2>1. toServer \in Seq(Request)
      BY DEF IInv, TypeOK
    <2> QED
      BY <2>1
  <1>2. ASSUME NEW u \in Uri
        PROVE  Leaves(DocsTold(u)', n - 1, docs'[u], buffer'[u])
    <2>1. /\ \A i \in 1 .. n - 1 : DocsTold(u)'[i] = DocsTold(u)[i + 1]
          /\ DocsTold(u)[1] = DocOf(m, u)
      BY <1>1 DEF DocsTold
    <2>2. Leaves(DocsTold(u), n, docs[u], buffer'[u])
      BY DEF Arrives
    <2> HIDE DEF n, m
    <2>3. (DocsTold(u)[1] = {} /\ docs'[u] = docs[u]) \/ DocsTold(u)[1] = {docs'[u]}
      BY <2>1 DEF m
    <2> QED
      BY <1>1, <2>1, <2>2, <2>3, LeavesTail
  <1>3. Leaves(SettingsTold', n - 1, settings', configured')
    <2>1. /\ \A i \in 1 .. n - 1 : SettingsTold'[i] = SettingsTold[i + 1]
          /\ SettingsTold[1] = SettingsOf(m)
      BY <1>1 DEF SettingsTold
    <2>2. Leaves(SettingsTold, n, settings, configured')
      BY DEF Arrives
    <2> HIDE DEF n, m
    <2>3. (SettingsTold[1] = {} /\ settings' = settings) \/ SettingsTold[1] = {settings'}
      BY <2>1 DEF m
    <2> QED
      BY <1>1, <2>1, <2>2, <2>3, LeavesTail
  <1> QED
    BY <1>1, <1>2, <1>3 DEF Arrives

LEMMA ArrivesUnchanged ==
    ASSUME Arrives, UNCHANGED <<toServer, docs, settings, buffer, configured>>
    PROVE  Arrives'
  BY DEF Arrives, DocsTold, SettingsTold

-----------------------------------------------------------------------------
(* The client's queue.  Nothing is published for u, or nothing that the     *)
(* client has read says anything about it.                                 *)
LEMMA ShownUnchanged ==
    ASSUME UNCHANGED <<toClient, shown>>, NEW u, NEW v,
           Leaves(ShownTold(u), Len(toClient), shown[u], v)
    PROVE  Leaves(ShownTold(u)', Len(toClient'), shown'[u], v)
  BY DEF ShownTold

LEMMA ShownAppend ==
    ASSUME IInv, NEW m \in Answer, toClient' = Append(toClient, m), UNCHANGED shown, NEW u, NEW v,
           \/ ShownOf(m, u) = {} /\ Leaves(ShownTold(u), Len(toClient), shown[u], v)
           \/ ShownOf(m, u) = {v}
    PROVE  Leaves(ShownTold(u)', Len(toClient'), shown'[u], v)
  <1> DEFINE n == Len(toClient)
  <1>1. /\ n \in Nat /\ Len(toClient') = n + 1
        /\ DOMAIN toClient = 1 .. n /\ DOMAIN toClient' = 1 .. n + 1
        /\ \A i \in 1 .. n : toClient'[i] = toClient[i]
        /\ toClient'[n + 1] = m /\ n + 1 \in 1 .. n + 1
        /\ 1 .. n \subseteq 1 .. n + 1
    BY SeqTypes DEF IInv, TypeOK
  <1>2. /\ \A i \in 1 .. n : ShownTold(u)'[i] = ShownTold(u)[i]
        /\ ShownTold(u)'[n + 1] = ShownOf(m, u)
    BY <1>1 DEF ShownTold
  <1> HIDE DEF n
  <1>3. CASE ShownOf(m, u) = {} /\ Leaves(ShownTold(u), n, shown[u], v)
    BY <1>1, <1>2, <1>3, LeavesMore
  <1>4. CASE ShownOf(m, u) = {v}
    BY <1>1, <1>2, <1>4, LeavesLast
  <1> QED
    BY <1>3, <1>4 DEF n

LEMMA ShownTail ==
    ASSUME IInv, toClient # <<>>, toClient' = Tail(toClient), NEW u, NEW v,
           Leaves(ShownTold(u), Len(toClient), shown[u], v),
           \/ ShownOf(Head(toClient), u) = {} /\ shown'[u] = shown[u]
           \/ ShownOf(Head(toClient), u) = {shown'[u]}
    PROVE  Leaves(ShownTold(u)', Len(toClient'), shown'[u], v)
  <1> DEFINE n == Len(toClient)
             m == Head(toClient)
  <1>1. /\ n \in Nat /\ n > 0 /\ Len(toClient') = n - 1
        /\ DOMAIN toClient = 1 .. n /\ DOMAIN toClient' = 1 .. n - 1
        /\ \A i \in 1 .. n - 1 : i + 1 \in 1 .. n /\ toClient'[i] = toClient[i + 1]
        /\ m = toClient[1] /\ 1 \in 1 .. n
    <2>1. toClient \in Seq(Answer)
      BY DEF IInv, TypeOK
    <2> QED
      BY <2>1
  <1>2. /\ \A i \in 1 .. n - 1 : ShownTold(u)'[i] = ShownTold(u)[i + 1]
        /\ ShownTold(u)[1] = ShownOf(m, u)
    BY <1>1 DEF ShownTold
  <1> HIDE DEF n, m
  <1>3. (ShownTold(u)[1] = {} /\ shown'[u] = shown[u]) \/ ShownTold(u)[1] = {shown'[u]}
    BY <1>2 DEF m
  <1>4. Leaves(ShownTold(u), n, shown[u], v)
    BY DEF n
  <1> QED
    BY <1>1, <1>2, <1>3, <1>4, LeavesTail

-----------------------------------------------------------------------------
(* It holds at the start ...                                               *)
LEMMA InitSInv == Init => SInv
  <1> SUFFICES ASSUME Init PROVE SInv
    OBVIOUS
  <1>1. Arrives
    BY DEF Init, Arrives, Leaves
  <1>2. Used
    BY DEF Init, Used
  <1>3. ASSUME NEW u \in Uri
        PROVE  Leaves(ShownTold(u), Len(toClient), shown[u], shown[u]) /\ Right(u, shown[u])
    BY DEF Init, Leaves, Right, Clean
  <1> QED
    BY <1>1, <1>2, <1>3 DEF SInv, WillShow

(* ... and after each step of the client, which only tells the server, ... *)
LEMMA WillShowUnchanged ==
    ASSUME WillShow, Used, UNCHANGED <<toClient, shown, server, tool, healthy>>
    PROVE  WillShow' /\ Used'
  <1> USE DEF server
  <1>1. ASSUME NEW u \in Uri \ work'
        PROVE  \E v : Leaves(ShownTold(u)', Len(toClient'), shown'[u], v) /\ Right(u, v)'
    <2>1. PICK v : Leaves(ShownTold(u), Len(toClient), shown[u], v) /\ Right(u, v)
      BY <1>1 DEF WillShow
    <2>2. Leaves(ShownTold(u)', Len(toClient'), shown'[u], v)
      BY <2>1, ShownUnchanged
    <2>3. Right(u, v)'
      BY <2>1 DEF Right
    <2> QED
      BY <2>2, <2>3
  <1> QED
    BY <1>1 DEF WillShow, Used

LEMMA ClientSInv ==
    ASSUME IInv, SInv, Client
    PROVE  SInv'
  <1> USE DEF SInv, SendMessage, client, server, machine
  <1>1. UNCHANGED <<toClient, shown, server, tool, healthy>>
    BY DEF Client, Edit, Save, Close, AskForFixes, Configure
  <1>2. WillShow' /\ Used'
    BY <1>1, WillShowUnchanged
  <1>3. buffer \in [Uri -> Document \cup {None}]
    BY DEF IInv, TypeOK
  <1>4. ASSUME NEW u \in Uri, NEW t \in Text, Edit(u, t)
        PROVE  Arrives'
    <2> DEFINE n == IF buffer[u] = None THEN 1 ELSE buffer[u].version + 1
               m == [type |-> "text", uri |-> u, text |-> t, version |-> n]
    <2>1. n \in Nat /\ m \in Request
      BY <1>3 DEF Document, Request
    <2>2. /\ toServer' = Append(toServer, m) /\ UNCHANGED <<docs, settings, configured>>
          /\ buffer' = [buffer EXCEPT ![u] = [text |-> t, version |-> n]]
      BY <1>4 DEF Edit
    <2>3. SettingsOf(m) = {} /\ \A w \in Uri :
              (DocOf(m, w) = {} /\ buffer'[w] = buffer[w]) \/ DocOf(m, w) = {buffer'[w]}
      BY <1>3, <2>2 DEF DocOf, SettingsOf
    <2> QED
      BY <2>1, <2>2, <2>3, SendArrives
  <1>5. ASSUME NEW u \in Uri, Save(u)
        PROVE  Arrives'
    <2>1. PICK t \in {buffer[u].text, None} :
              toServer' = Append(toServer, [type |-> "save", uri |-> u, text |-> t])
      BY <1>5 DEF Save
    <2> DEFINE m == [type |-> "save", uri |-> u, text |-> t]
    <2>2. m \in Request
      BY <1>3, <1>5, <2>1 DEF Save, Document, Request
    <2>3. UNCHANGED <<docs, settings, configured, buffer>>
      BY <1>5 DEF Save
    <2>4. SettingsOf(m) = {} /\ \A w \in Uri : DocOf(m, w) = {}
      BY DEF DocOf, SettingsOf
    <2> QED
      BY <2>1, <2>2, <2>3, <2>4, SendArrives
  <1>6. ASSUME NEW u \in Uri, Close(u)
        PROVE  Arrives'
    <2> DEFINE m == [type |-> "close", uri |-> u]
    <2>1. m \in Request
      BY DEF Request
    <2>2. /\ toServer' = Append(toServer, m) /\ UNCHANGED <<docs, settings, configured>>
          /\ buffer' = [buffer EXCEPT ![u] = None]
      BY <1>6 DEF Close
    <2>3. SettingsOf(m) = {} /\ \A w \in Uri :
              (DocOf(m, w) = {} /\ buffer'[w] = buffer[w]) \/ DocOf(m, w) = {buffer'[w]}
      BY <1>3, <2>2 DEF DocOf, SettingsOf
    <2> QED
      BY <2>1, <2>2, <2>3, SendArrives
  <1>7. ASSUME NEW u \in Uri, AskForFixes(u)
        PROVE  Arrives'
    <2> DEFINE m == [type |-> "codeAction", uri |-> u]
    <2>1. m \in Request
      BY DEF Request
    <2>2. toServer' = Append(toServer, m) /\ UNCHANGED <<docs, settings, configured, buffer>>
      BY <1>7 DEF AskForFixes
    <2>3. SettingsOf(m) = {} /\ \A w \in Uri : DocOf(m, w) = {}
      BY DEF DocOf, SettingsOf
    <2> QED
      BY <2>1, <2>2, <2>3, SendArrives
  <1>8. ASSUME NEW s \in Settings, Configure(s)
        PROVE  Arrives'
    <2> DEFINE m == [type |-> "configuration", settings |-> s]
    <2>1. m \in Request
      BY DEF Request
    <2>2. toServer' = Append(toServer, m) /\ UNCHANGED <<docs, settings, buffer>> /\ configured' = s
      BY <1>8 DEF Configure
    <2>3. SettingsOf(m) = {configured'} /\ \A w \in Uri : DocOf(m, w) = {}
      BY <2>2 DEF DocOf, SettingsOf
    <2> QED
      BY <2>1, <2>2, <2>3, SendArrives
  <1> QED
    BY <1>2, <1>4, <1>5, <1>6, <1>7, <1>8 DEF Client

(* ... each message the server takes, ...                                  *)
LEMMA HandleTextSInv ==
    ASSUME IInv, SInv, HandleText
    PROVE  SInv'
  <1> USE DEF HandleText, Receives, Consume, client, server, machine
  <1> DEFINE m == Head(toServer)
  <1>1. /\ toServer # <<>> /\ m.type = "text" /\ m.uri \in Uri
        /\ toServer' = Tail(toServer) /\ work = {} /\ work' = {m.uri}
        /\ docs' = [docs EXCEPT ![m.uri] = [text |-> m.text, version |-> m.version]]
        /\ docs \in [Uri -> Document \cup {None}]
        /\ UNCHANGED <<buffer, configured, settings, toClient, shown, codeActions, disabled, tool, healthy>>
    BY HeadTypes, RequestTypes DEF IInv, TypeOK
  <1>2. Arrives'
    <2>1. SettingsOf(m) = {} /\ \A w \in Uri :
              (DocOf(m, w) = {} /\ docs'[w] = docs[w]) \/ DocOf(m, w) = {docs'[w]}
      BY <1>1 DEF DocOf, SettingsOf
    <2> QED
      BY <1>1, <2>1, HandleArrives DEF SInv
  <1>3. ASSUME NEW u \in Uri \ work'
        PROVE  \E v : Leaves(ShownTold(u)', Len(toClient'), shown'[u], v) /\ Right(u, v)'
    <2>1. PICK v : Leaves(ShownTold(u), Len(toClient), shown[u], v) /\ Right(u, v)
      BY <1>1 DEF SInv, WillShow
    <2>2. Leaves(ShownTold(u)', Len(toClient'), shown'[u], v)
      BY <1>1, <2>1, ShownUnchanged
    <2>3. Right(u, v)'
      BY <1>1, <1>3, <2>1 DEF Right
    <2> QED
      BY <2>2, <2>3
  <1> QED
    BY <1>1, <1>2, <1>3 DEF SInv, WillShow, Used

LEMMA HandleSaveSInv ==
    ASSUME IInv, SInv, HandleSave
    PROVE  SInv'
  <1> USE DEF HandleSave, Receives, Consume, client, server, machine
  <1> DEFINE m == Head(toServer)
  <1>1. /\ toServer # <<>> /\ m.type = "save" /\ toServer' = Tail(toServer)
        /\ UNCHANGED <<docs, buffer, configured, toClient, shown, server, tool, healthy>>
    BY SaveChangesNothing
  <1>2. SettingsOf(m) = {} /\ \A w \in Uri : DocOf(m, w) = {}
    BY <1>1 DEF DocOf, SettingsOf
  <1>3. Arrives'
    BY <1>1, <1>2, HandleArrives DEF SInv
  <1> QED
    BY <1>1, <1>3, WillShowUnchanged DEF SInv

LEMMA HandleCloseSInv ==
    ASSUME IInv, SInv, HandleClose
    PROVE  SInv'
  <1> USE DEF HandleClose, Receives, Consume, Publish, SetCodeActions, client, server, machine
  <1> DEFINE m == Head(toServer)
             d == [type |-> "diagnostics", uri |-> m.uri, version |-> 0, diags |-> Clean]
             x == [version |-> 0, diags |-> Clean]
  <1>1. /\ toServer # <<>> /\ m.type = "close" /\ m.uri \in Uri
        /\ toServer' = Tail(toServer) /\ toClient' = Append(toClient, d)
        /\ docs' = [docs EXCEPT ![m.uri] = None] /\ codeActions' = [codeActions EXCEPT ![m.uri] = None]
        /\ docs \in [Uri -> Document \cup {None}] /\ codeActions \in [Uri -> Fixes \cup {None}]
        /\ UNCHANGED <<buffer, configured, settings, shown, disabled, work, tool, healthy>>
    BY HeadTypes, RequestTypes DEF IInv, TypeOK
  <1>2. d \in Answer
    BY <1>1 DEF Answer, Diags
  <1>3. Arrives'
    <2>1. SettingsOf(m) = {} /\ \A w \in Uri :
              (DocOf(m, w) = {} /\ docs'[w] = docs[w]) \/ DocOf(m, w) = {docs'[w]}
      BY <1>1 DEF DocOf, SettingsOf
    <2> QED
      BY <1>1, <2>1, HandleArrives DEF SInv
  <1>4. ASSUME NEW u \in Uri \ work'
        PROVE  \E v : Leaves(ShownTold(u)', Len(toClient'), shown'[u], v) /\ Right(u, v)'
    <2>1. CASE u = m.uri
      <3>1. ShownOf(d, u) = {x}
        BY <2>1 DEF ShownOf
      <3>2. Leaves(ShownTold(u)', Len(toClient'), shown'[u], x)
        BY <1>1, <1>2, <3>1, ShownAppend
      <3>3. Right(u, x)'
        BY <1>1, <2>1 DEF Right, Clean
      <3> QED
        BY <3>2, <3>3
    <2>2. CASE u # m.uri
      <3>1. PICK v : Leaves(ShownTold(u), Len(toClient), shown[u], v) /\ Right(u, v)
        BY <1>1, <1>4 DEF SInv, WillShow
      <3>2. ShownOf(d, u) = {}
        BY <2>2 DEF ShownOf
      <3>3. Leaves(ShownTold(u)', Len(toClient'), shown'[u], v)
        BY <1>1, <1>2, <3>1, <3>2, ShownAppend
      <3>4. Right(u, v)'
        BY <1>1, <2>2, <3>1 DEF Right
      <3> QED
        BY <3>3, <3>4
    <2> QED
      BY <2>1, <2>2
  <1> QED
    BY <1>1, <1>3, <1>4 DEF SInv, WillShow, Used

(* All open documents are to be diagnosed again: what was right for the old  *)
(* settings matters no more.                                               *)
LEMMA HandleDidChangeConfigurationSInv ==
    ASSUME IInv, SInv, HandleDidChangeConfiguration
    PROVE  SInv'
  <1> USE DEF HandleDidChangeConfiguration, Receives, Consume, client, server, machine
  <1> DEFINE m == Head(toServer)
  <1>1. /\ toServer # <<>> /\ m.type = "configuration" /\ toServer' = Tail(toServer)
        /\ work = {} /\ work' = {u \in Uri : docs[u] # None}
        /\ settings' = m.settings /\ disabled' = FALSE /\ healthy' = (tool = "ok")
        /\ UNCHANGED <<buffer, configured, docs, toClient, shown, codeActions, tool>>
    BY DEF IsOpen
  <1>2. Arrives'
    <2>1. SettingsOf(m) = {settings'} /\ \A w \in Uri : DocOf(m, w) = {}
      BY <1>1 DEF DocOf, SettingsOf
    <2> QED
      BY <1>1, <2>1, HandleArrives DEF SInv
  <1>3. ASSUME NEW u \in Uri \ work'
        PROVE  \E v : Leaves(ShownTold(u)', Len(toClient'), shown'[u], v) /\ Right(u, v)'
    <2>1. PICK v : Leaves(ShownTold(u), Len(toClient), shown[u], v) /\ Right(u, v)
      BY <1>1 DEF SInv, WillShow
    <2>2. Leaves(ShownTold(u)', Len(toClient'), shown'[u], v)
      BY <1>1, <2>1, ShownUnchanged
    <2>3. docs[u] = None
      BY <1>1, <1>3
    <2>4. Right(u, v)'
      BY <1>1, <2>1, <2>3 DEF Right
    <2> QED
      BY <2>2, <2>4
  <1>4. Used'
    BY <1>1 DEF Used
  <1> QED
    BY <1>2, <1>3, <1>4 DEF SInv, WillShow

LEMMA HandleCodeActionSInv ==
    ASSUME IInv, SInv, HandleCodeAction
    PROVE  SInv'
  <1> USE DEF HandleCodeAction, Receives, Consume, client, server, machine
  <1> DEFINE m == Head(toServer)
  <1>1. /\ toServer # <<>> /\ m.type = "codeAction" /\ m.uri \in Uri /\ toServer' = Tail(toServer)
        /\ UNCHANGED <<docs, buffer, configured, settings, shown, codeActions, disabled, work, tool, healthy>>
    BY HeadTypes, RequestTypes
  <1>2. PICK fixes \in {codeActions[m.uri], None} :
            toClient' = Append(toClient, [type |-> "fixes", uri |-> m.uri, fixes |-> fixes])
    OBVIOUS
  <1> DEFINE f == [type |-> "fixes", uri |-> m.uri, fixes |-> fixes]
  <1>3. f \in Answer
    BY <1>1, <1>2 DEF IInv, TypeOK, Answer
  <1>4. Arrives'
    <2>1. SettingsOf(m) = {} /\ \A w \in Uri : DocOf(m, w) = {}
      BY <1>1 DEF DocOf, SettingsOf
    <2> QED
      BY <1>1, <2>1, HandleArrives DEF SInv
  <1>5. ASSUME NEW u \in Uri \ work'
        PROVE  \E v : Leaves(ShownTold(u)', Len(toClient'), shown'[u], v) /\ Right(u, v)'
    <2>1. PICK v : Leaves(ShownTold(u), Len(toClient), shown[u], v) /\ Right(u, v)
      BY <1>1, <1>5 DEF SInv, WillShow
    <2>2. ShownOf(f, u) = {}
      BY DEF ShownOf
    <2>3. Leaves(ShownTold(u)', Len(toClient'), shown'[u], v)
      BY <1>1, <1>2, <1>3, <2>1, <2>2, ShownAppend
    <2>4. Right(u, v)'
      BY <1>1, <2>1 DEF Right
    <2> QED
      BY <2>3, <2>4
  <1> QED
    BY <1>1, <1>4, <1>5 DEF SInv, WillShow, Used

(* ... each document it diagnoses, ...                                     *)
LEMMA DiagnoseSInv ==
    ASSUME IInv, SInv, NEW u \in Uri, Diagnose(u)
    PROVE  SInv'
  <1> USE DEF client, server, machine
  <1>1. /\ u \in work /\ work' = work \ {u}
        /\ UNCHANGED <<buffer, configured, toServer, docs, settings, shown, tool, healthy>>
        /\ docs[u] \in Document /\ docs[u] # None /\ docs[u].text \in Text /\ docs[u].version \in Nat
        /\ codeActions \in [Uri -> Fixes \cup {None}] /\ settings \in Settings
    BY DEF Diagnose, IInv, TypeOK, IsOpen, Document
  <1> DEFINE old == docs[u].text
             found == Lint(old, settings)
             d(diags) == [type |-> "diagnostics", uri |-> u, version |-> docs[u].version, diags |-> diags]
  <1>2. PICK diags \in Diags :
             /\ codeActions' = [codeActions EXCEPT ![u] = IF diags.kind = "lint" THEN diags ELSE None]
             /\ toClient' = Append(toClient, d(diags))
             /\ old \in Broken => diags = ParseError(old)
             /\ old \notin Broken => diags \in {Clean, found}
             /\ old \notin Broken /\ healthy /\ settings # Off => diags = found
    <2>1. /\ Clean \in Diags /\ Clean.kind = "clean"
          /\ found \in Diags /\ found.kind = "lint"
          /\ old \in Broken => ParseError(old) \in Diags /\ ParseError(old).kind = "parse"
      BY <1>1 DEF Diags, Fixes, Lint, Clean, ParseError
    <2>2. CASE SkipLint(u)
      <3>1. CASE old \in Broken
        BY <2>1, <2>2, <3>1 DEF SkipLint, SetCodeActions, Publish
      <3>2. CASE old \notin Broken
        BY <2>1, <2>2, <3>2 DEF SkipLint, SetCodeActions, Publish
      <3> QED
        BY <3>1, <3>2
    <2>3. CASE LintFails(u)
      BY <2>1, <2>3 DEF LintFails, SetCodeActions, Publish, SInv, Used
    <2>4. CASE LintSucceeds(u)
      BY <2>1, <2>4 DEF LintSucceeds, SetCodeActions, Publish
    <2> QED
      BY <2>2, <2>3, <2>4 DEF Diagnose
  <1>3. d(diags) \in Answer
    BY <1>1, <1>2 DEF Answer
  <1> PICK x : x = [version |-> docs[u].version, diags |-> diags]
    OBVIOUS
  <1>4. Arrives'
    BY <1>1, ArrivesUnchanged DEF SInv
  <1>5. Used'
    BY <1>1 DEF SInv, Used, Diagnose, SkipLint, LintFails, LintSucceeds
  <1>6. ASSUME NEW w \in Uri \ work'
        PROVE  \E v : Leaves(ShownTold(w)', Len(toClient'), shown'[w], v) /\ Right(w, v)'
    <2>1. CASE w = u
      <3>1. ShownOf(d(diags), w) = {x}
        BY <2>1 DEF ShownOf
      <3>2. Leaves(ShownTold(w)', Len(toClient'), shown'[w], x)
        BY <1>1, <1>2, <1>3, <3>1, ShownAppend
      <3>3. Right(w, x)'
        BY <1>1, <1>2, <2>1 DEF Right
      <3> QED
        BY <3>2, <3>3
    <2>2. CASE w # u
      <3>1. PICK v : Leaves(ShownTold(w), Len(toClient), shown[w], v) /\ Right(w, v)
        BY <1>1, <1>6, <2>2 DEF SInv, WillShow
      <3>2. ShownOf(d(diags), w) = {}
        BY <2>2 DEF ShownOf
      <3>3. Leaves(ShownTold(w)', Len(toClient'), shown'[w], v)
        BY <1>1, <1>2, <1>3, <3>1, <3>2, ShownAppend
      <3>4. Right(w, v)'
        BY <1>1, <1>2, <2>2, <3>1 DEF Right
      <3> QED
        BY <3>3, <3>4
    <2> QED
      BY <2>1, <2>2
  <1> QED
    BY <1>4, <1>5, <1>6 DEF SInv, WillShow

(* ... each answer the client reads ...                                    *)
LEMMA ReceiveSInv ==
    ASSUME IInv, SInv, Receive
    PROVE  SInv'
  <1> USE DEF Receive, client, server, machine
  <1> DEFINE m == Head(toClient)
  <1>1. /\ toClient # <<>> /\ toClient' = Tail(toClient) /\ m \in Answer
        /\ UNCHANGED <<docs, buffer, configured, settings, toServer, codeActions, disabled, work, tool, healthy>>
        /\ shown \in [Uri -> [version : Nat, diags : Diags]]
    BY DEF IInv, TypeOK
  <1>2. m.type \in {"diagnostics", "fixes"} /\ m.uri \in Uri
    BY <1>1, AnswerTypes
  <1>3. Arrives'
    BY <1>1, ArrivesUnchanged DEF SInv
  <1>4. ASSUME NEW u \in Uri \ work'
        PROVE  \E v : Leaves(ShownTold(u)', Len(toClient'), shown'[u], v) /\ Right(u, v)'
    <2>1. PICK v : Leaves(ShownTold(u), Len(toClient), shown[u], v) /\ Right(u, v)
      BY <1>1, <1>4 DEF SInv, WillShow
    <2>2. (ShownOf(m, u) = {} /\ shown'[u] = shown[u]) \/ ShownOf(m, u) = {shown'[u]}
      BY <1>1, <1>2, <1>4 DEF ShownOf
    <2>3. Leaves(ShownTold(u)', Len(toClient'), shown'[u], v)
      BY <1>1, <2>1, <2>2, ShownTail
    <2>4. Right(u, v)'
      BY <1>1, <2>1 DEF Right
    <2> QED
      BY <2>3, <2>4
  <1> QED
    BY <1>1, <1>3, <1>4 DEF SInv, WillShow, Used

(* ... and each change of the ShellCheck installation, which asks for less. *)
LEMMA ToolChangesSInv ==
    ASSUME SInv, NEW state, ToolChanges(state)
    PROVE  SInv'
  <1> USE DEF ToolChanges, client, server
  <1>1. healthy' = FALSE /\ UNCHANGED <<client, server, toServer, toClient>>
    OBVIOUS
  <1>2. Arrives'
    BY <1>1, ArrivesUnchanged DEF SInv
  <1>3. ASSUME NEW u \in Uri \ work'
        PROVE  \E v : Leaves(ShownTold(u)', Len(toClient'), shown'[u], v) /\ Right(u, v)'
    <2>1. PICK v : Leaves(ShownTold(u), Len(toClient), shown[u], v) /\ Right(u, v)
      BY <1>1, <1>3 DEF SInv, WillShow
    <2>2. Leaves(ShownTold(u)', Len(toClient'), shown'[u], v)
      BY <1>1, <2>1, ShownUnchanged
    <2>3. Right(u, v)'
      BY <1>1, <2>1 DEF Right
    <2> QED
      BY <2>2, <2>3
  <1> QED
    BY <1>1, <1>2, <1>3 DEF SInv, WillShow, Used

LEMMA NextSInv ==
    ASSUME IInv, SInv, [Next]_vars
    PROVE  SInv'
  <1>1. CASE Server
    BY <1>1, HandleTextSInv, HandleSaveSInv, HandleCloseSInv, HandleDidChangeConfigurationSInv,
       HandleCodeActionSInv, DiagnoseSInv DEF Server
  <1>2. CASE Client
    BY <1>2, ClientSInv
  <1>3. CASE Receive
    BY <1>3, ReceiveSInv
  <1>4. ASSUME NEW state \in {"ok", "missing", "failing"}, ToolChanges(state)
        PROVE  SInv'
    BY <1>4, ToolChangesSInv
  <1>5. CASE UNCHANGED vars
    BY <1>5, ArrivesUnchanged, WillShowUnchanged DEF vars, client, machine, server, SInv
  <1> QED
    BY <1>1, <1>2, <1>3, <1>4, <1>5 DEF Next

-----------------------------------------------------------------------------
(* The inductive invariant: whatever is still in the channels, what the     *)
(* client will show when it has read all of it is right for the documents  *)
(* the server has, and those will be the client's.                         *)
THEOREM ShownInvariance == Spec => [](IInv /\ SInv)
  <1>1. Init => IInv /\ SInv
    BY InitIInv, InitSInv
  <1>2. IInv /\ SInv /\ [Next]_vars => (IInv /\ SInv)'
    BY NextIInv, NextSInv
  <1> QED
    BY <1>1, <1>2, PTL DEF Spec

(* When nothing is under way, the last step of all of them.                 *)
LEMMA AtRest ==
    ASSUME SInv, Quiescent, NEW u \in Uri
    PROVE  docs[u] = buffer[u] /\ settings = configured /\ Right(u, shown[u])
  <1>1. Len(toServer) = 0 /\ Len(toClient) = 0 /\ work = {}
    BY DEF Quiescent
  <1>2. docs[u] = buffer[u] /\ settings = configured
    BY <1>1, LeavesNow DEF SInv, Arrives
  <1>3. PICK v : Leaves(ShownTold(u), 0, shown[u], v) /\ Right(u, v)
    BY <1>1 DEF SInv, WillShow
  <1> QED
    BY <1>2, <1>3, LeavesNow

(* When all is handled the client shows the problems of its own texts.      *)
THEOREM BuffersAreShown == Spec => []ShownIsBuffer
  <1>1. SInv => ShownIsBuffer
    <2> SUFFICES ASSUME SInv, Quiescent, NEW u \in Uri
                 PROVE  IF buffer[u] = None THEN shown[u].diags = Clean
                        ELSE /\ shown[u].version = buffer[u].version
                             /\ shown[u].diags \in
                                    IF buffer[u].text \in Broken THEN {ParseError(buffer[u].text)}
                                    ELSE {Clean, Lint(buffer[u].text, configured)}
      BY DEF ShownIsBuffer
    <2> QED
      BY AtRest DEF Right
  <1> QED
    BY <1>1, ShownInvariance, PTL

(* The quick fixes on offer are those of the problems that are shown.       *)
THEOREM OfferedFixesAreShown == Spec => []FixesAreShown
  <1>1. SInv => FixesAreShown
    BY AtRest DEF FixesAreShown, Right
  <1> QED
    BY <1>1, ShownInvariance, PTL

(* A configuration heals a runner that was disabled.                        *)
THEOREM ConfigurationHeals == Spec => []HealthyMeansLinted
  <1>1. SInv => HealthyMeansLinted
    BY AtRest DEF HealthyMeansLinted, Right
  <1> QED
    BY <1>1, ShownInvariance, PTL
-----------------------------------------------------------------------------
(* Why all gets handled: what QuietEventually rests on, but for fairness.    *)
(* In order of weight: the messages the server has not read, the documents  *)
(* its handler has not diagnosed, and the answers the client has not read.  *)

GetsQuieter ==
    \/ Len(toServer') \in 0 .. Len(toServer) - 1
    \/ toServer' = toServer /\ Cardinality(work') \in 0 .. Cardinality(work) - 1
    \/ UNCHANGED <<toServer, work>> /\ Len(toClient') \in 0 .. Len(toClient) - 1

LEMMA TailIsShorter ==
    ASSUME NEW S, NEW q \in Seq(S), q # <<>>
    PROVE  Len(Tail(q)) \in 0 .. Len(q) - 1
  <1>1. Len(q) \in Nat /\ Len(q) > 0 /\ Len(Tail(q)) = Len(q) - 1
    OBVIOUS
  <1> QED
    BY <1>1

LEMMA HandlerQuiets ==
    ASSUME IInv,
           \/ HandleText \/ HandleSave \/ HandleClose
           \/ HandleDidChangeConfiguration \/ HandleCodeAction
    PROVE  GetsQuieter
  <1>1. toServer # <<>> /\ toServer' = Tail(toServer)
    BY DEF HandleText, HandleSave, HandleClose, HandleDidChangeConfiguration, HandleCodeAction,
           Receives, Consume
  <1>2. toServer \in Seq(Request)
    BY DEF IInv, TypeOK
  <1> QED
    BY <1>1, <1>2, TailIsShorter DEF GetsQuieter

(* Each open document is diagnosed once by a handler, in whatever order.     *)
LEMMA DiagnoseQuiets ==
    ASSUME IsFiniteSet(Uri), IInv, NEW u \in Uri, Diagnose(u)
    PROVE  GetsQuieter
  <1> DEFINE n == Cardinality(work)
             k == Cardinality(work \ {u})
  <1>1. u \in work /\ work' = work \ {u} /\ toServer' = toServer
    BY DEF Diagnose
  <1>2. work \in SUBSET Uri
    BY DEF IInv, TypeOK
  <1>3. IsFiniteSet(work)
    BY <1>2, FS_Subset
  <1>4. IsFiniteSet(work \ {u}) /\ k = n - 1
    BY <1>1, <1>3, FS_RemoveElement
  <1>5. n \in Nat /\ k \in Nat
    BY <1>3, <1>4, FS_CardinalityType, Zenon
  <1> HIDE DEF n, k
  <1>6. k \in 0 .. n - 1
    BY ONLY <1>4, <1>5
  <1>7. Cardinality(work') \in 0 .. Cardinality(work) - 1
    BY <1>1, <1>6 DEF n, k
  <1> QED
    BY <1>1, <1>7, Zenon DEF GetsQuieter

LEMMA ReceiveQuiets ==
    ASSUME IInv, Receive
    PROVE  GetsQuieter
  <1>1. toClient # <<>> /\ toClient' = Tail(toClient) /\ UNCHANGED <<toServer, work>>
    BY DEF Receive, server
  <1>2. toClient \in Seq(Answer)
    BY DEF IInv, TypeOK
  <1> QED
    BY <1>1, <1>2, TailIsShorter DEF GetsQuieter

(* A message that has been handled and a document that has been diagnosed    *)
(* stay so: every step of the server, and of the client when it reads, gets *)
(* them closer to rest, only a new message of the client's sets them back,  *)
(* and no change of the ShellCheck installation does.                       *)
THEOREM MessagesGetHandled ==
    ASSUME IsFiniteSet(Uri)
    PROVE  Spec => [][/\ Server \/ Receive => GetsQuieter
                      /\ ~(Server \/ Receive) /\ sent' = sent =>
                             UNCHANGED <<toServer, work, toClient>>]_vars
  <1>1. ASSUME IInv, [Next]_vars
        PROVE  [/\ Server \/ Receive => GetsQuieter
                /\ ~(Server \/ Receive) /\ sent' = sent =>
                       UNCHANGED <<toServer, work, toClient>>]_vars
    <2>1. Server => GetsQuieter
      BY <1>1, HandlerQuiets, DiagnoseQuiets DEF Server
    <2>2. Receive => GetsQuieter
      BY <1>1, ReceiveQuiets
    <2>3. Client => sent' # sent
      <3>1. sent \in Nat
        BY <1>1, BoundAssumption DEF IInv, TypeOK
      <3>2. Client => sent' = sent + 1
        BY DEF Client, Edit, Save, Close, AskForFixes, Configure, SendMessage
      <3> QED
        BY <3>1, <3>2
    <2>4. ASSUME NEW state \in {"ok", "missing", "failing"}, ToolChanges(state)
          PROVE  UNCHANGED <<toServer, work, toClient>>
      BY <2>4 DEF ToolChanges, server
    <2>5. UNCHANGED vars => UNCHANGED <<toServer, work, toClient>>
      BY DEF vars, server
    <2>6. ~(Server \/ Receive) /\ sent' = sent => UNCHANGED <<toServer, work, toClient>>
      BY <1>1, <2>3, <2>4, <2>5 DEF Next
    <2> QED
      BY <2>1, <2>2, <2>6
  <1> QED
    BY <1>1, Invariance, PTL DEF Spec

=============================================================================
