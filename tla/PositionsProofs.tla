-------------------------- MODULE PositionsProofs --------------------------
(***************************************************************************)
(* Proofs about Positions, for every text, every length of it and every    *)
(* limit of the parser.  The characters of the client and the bytes of the *)
(* server are two views of one text; the first lemmas relate them (offsets *)
(* of characters, lines, columns), the next ones say of every conversion   *)
(* what it makes of a place between two characters, and the last ones      *)
(* bring this together for the answers.                                    *)
(***************************************************************************)
EXTENDS Positions, Recursion

(* The bytes of characters of the classes of Encode.                        *)
ByteClass == {"id", "dash", "$", "{", "sp", "nl", "cr", "l2", "l3", "l4", "c"}

(* The characters that end a line.                                          *)
Ends == {"nl", "crnl"}

(* A character of one byte.                                                 *)
LEMMA OneByte ==
    ASSUME NEW x, NEW y \in ByteClass, Encode[x] = <<y>>, y \notin {"l2", "l3", "l4", "c", "cr"},
           y = "nl" <=> x = "nl", x \notin {"crnl", "four"}
    PROVE  /\ Encode[x] \in Seq(ByteClass) /\ Len(Encode[x]) \in 1..4
           /\ Encode[x][1] # "c"
           /\ \A i \in 1..Len(Encode[x]) : Encode[x][i] = "nl" <=> x \in Ends /\ i = Len(Encode[x])
           /\ \A i \in 1..Len(Encode[x]) : IsWordChar(Encode[x][i]) => Len(Encode[x]) = 1
           /\ \A i \in 1..Len(Encode[x]) : Encode[x][i] = "cr" => x \in Ends /\ i = 1
           /\ x \notin Ends => /\ RuneInfo(Encode[x][1]).size = Len(Encode[x])
                               /\ RuneInfo(Encode[x][1]).u16 = IF x = "four" THEN 2 ELSE 1
                               /\ \A i \in 2..Len(Encode[x]) : Encode[x][i] = "c"
  <1>1. RuneInfo(y) = [size |-> 1, u16 |-> 1]
    BY DEF RuneInfo
  <1>2. Len(Encode[x]) = 1 /\ Encode[x][1] = y
    OBVIOUS
  <1>3. Encode[x] \in Seq(ByteClass)
    OBVIOUS
  <1> QED
    BY <1>1, <1>2, <1>3 DEF Ends

(* Every class of characters: one to four bytes, the first of which begins  *)
(* a code point; a newline is the last byte of a line end and of nothing    *)
(* else, a "\r" the first of one; a byte of a word stands alone; and the    *)
(* lead byte of what is no line end tells its size and its width.           *)
LEMMA EncodeFacts ==
    ASSUME NEW x \in DOMAIN Encode
    PROVE  /\ Encode[x] \in Seq(ByteClass) /\ Len(Encode[x]) \in 1..4
           /\ Encode[x][1] # "c"
           /\ \A i \in 1..Len(Encode[x]) : Encode[x][i] = "nl" <=> x \in Ends /\ i = Len(Encode[x])
           /\ \A i \in 1..Len(Encode[x]) : IsWordChar(Encode[x][i]) => Len(Encode[x]) = 1
           /\ \A i \in 1..Len(Encode[x]) : Encode[x][i] = "cr" => x \in Ends /\ i = 1
           /\ x \notin Ends => /\ RuneInfo(Encode[x][1]).size = Len(Encode[x])
                               /\ RuneInfo(Encode[x][1]).u16 = IF x = "four" THEN 2 ELSE 1
                               /\ \A i \in 2..Len(Encode[x]) : Encode[x][i] = "c"
  <1>1. x \in {"id", "dash", "dollar", "brace", "sp", "nl", "crnl", "two", "three", "four"}
    BY DEF Encode
  <1>2. CASE x \in {"id", "dash", "dollar", "brace", "sp", "nl"}
    <2>1. CASE x = "id"
      <3>1. Encode[x] = <<"id">>
        BY <2>1 DEF Encode
      <3>2. "id" \in ByteClass /\ "id" \notin {"l2", "l3", "l4", "c", "cr"}
        BY DEF ByteClass
      <3>3. ("id" = "nl" <=> x = "nl") /\ x \notin {"crnl", "four"}
        BY <2>1
      <3> QED
        BY ONLY <3>1, <3>2, <3>3, OneByte
    <2>2. CASE x = "dash"
      <3>1. Encode[x] = <<"dash">>
        BY <2>2 DEF Encode
      <3>2. "dash" \in ByteClass /\ "dash" \notin {"l2", "l3", "l4", "c", "cr"}
        BY DEF ByteClass
      <3>3. ("dash" = "nl" <=> x = "nl") /\ x \notin {"crnl", "four"}
        BY <2>2
      <3> QED
        BY ONLY <3>1, <3>2, <3>3, OneByte
    <2>3. CASE x = "dollar"
      <3>1. Encode[x] = <<"$">>
        BY <2>3 DEF Encode
      <3>2. "$" \in ByteClass /\ "$" \notin {"l2", "l3", "l4", "c", "cr"}
        BY DEF ByteClass
      <3>3. ("$" = "nl" <=> x = "nl") /\ x \notin {"crnl", "four"}
        BY <2>3
      <3> QED
        BY ONLY <3>1, <3>2, <3>3, OneByte
    <2>4. CASE x = "brace"
      <3>1. Encode[x] = <<"{">>
        BY <2>4 DEF Encode
      <3>2. "{" \in ByteClass /\ "{" \notin {"l2", "l3", "l4", "c", "cr"}
        BY DEF ByteClass
      <3>3. ("{" = "nl" <=> x = "nl") /\ x \notin {"crnl", "four"}
        BY <2>4
      <3> QED
        BY ONLY <3>1, <3>2, <3>3, OneByte
    <2>5. CASE x = "sp"
      <3>1. Encode[x] = <<"sp">>
        BY <2>5 DEF Encode
      <3>2. "sp" \in ByteClass /\ "sp" \notin {"l2", "l3", "l4", "c", "cr"}
        BY DEF ByteClass
      <3>3. ("sp" = "nl" <=> x = "nl") /\ x \notin {"crnl", "four"}
        BY <2>5
      <3> QED
        BY ONLY <3>1, <3>2, <3>3, OneByte
    <2>6. CASE x = "nl"
      <3>1. Encode[x] = <<"nl">>
        BY <2>6 DEF Encode
      <3>2. "nl" \in ByteClass /\ "nl" \notin {"l2", "l3", "l4", "c", "cr"}
        BY DEF ByteClass
      <3>3. ("nl" = "nl" <=> x = "nl") /\ x \notin {"crnl", "four"}
        BY <2>6
      <3> QED
        BY ONLY <3>1, <3>2, <3>3, OneByte
    <2> QED
      BY <1>2, <2>1, <2>2, <2>3, <2>4, <2>5, <2>6
  <1>3. CASE x = "crnl"
    <2>1. Encode[x] = <<"cr", "nl">>
      BY <1>3 DEF Encode
    <2> QED
      BY <1>3, <2>1 DEF Ends, ByteClass, IsWordChar
  <1>4. CASE x = "two"
    <2>1. Encode[x] = <<"l2", "c">>
      BY <1>4 DEF Encode
    <2>2. RuneInfo("l2") = [size |-> 2, u16 |-> 1]
      BY DEF RuneInfo
    <2> QED
      BY <1>4, <2>1, <2>2 DEF Ends, ByteClass, IsWordChar
  <1>5. CASE x = "three"
    <2>1. Encode[x] = <<"l3", "c", "c">>
      BY <1>5 DEF Encode
    <2>2. RuneInfo("l3") = [size |-> 3, u16 |-> 1]
      BY DEF RuneInfo
    <2> QED
      BY <1>5, <2>1, <2>2 DEF Ends, ByteClass, IsWordChar
  <1>6. CASE x = "four"
    <2>1. Encode[x] = <<"l4", "c", "c", "c">>
      BY <1>6 DEF Encode
    <2>2. RuneInfo("l4") = [size |-> 4, u16 |-> 2]
      BY DEF RuneInfo
    <2> QED
      BY <1>6, <2>1, <2>2 DEF Ends, ByteClass, IsWordChar
  <1> QED
    BY <1>1, <1>2, <1>3, <1>4, <1>5, <1>6

(* These facts one by one.                                                  *)
LEMMA EncodeLength ==
    ASSUME NEW x \in DOMAIN Encode
    PROVE  Encode[x] \in Seq(ByteClass) /\ Len(Encode[x]) \in 1..4
  BY EncodeFacts

LEMMA EncodeNewline ==
    ASSUME NEW x \in DOMAIN Encode, NEW i \in 1..Len(Encode[x])
    PROVE  Encode[x][i] = "nl" <=> x \in Ends /\ i = Len(Encode[x])
  BY EncodeFacts

LEMMA EncodeWord ==
    ASSUME NEW x \in DOMAIN Encode, NEW i \in 1..Len(Encode[x]), IsWordChar(Encode[x][i])
    PROVE  Len(Encode[x]) = 1
  BY EncodeFacts

(* A "\r" begins a line end.                                                *)
LEMMA EncodeReturn ==
    ASSUME NEW x \in DOMAIN Encode, NEW i \in 1..Len(Encode[x]), Encode[x][i] = "cr"
    PROVE  x \in Ends /\ i = 1
  BY EncodeFacts

(* Flattening a sequence of sequences, one at a time: there is a function   *)
(* that gives the bytes of the first i of them.                             *)
LEMMA Flattening ==
    ASSUME NEW B, NEW seqs \in Seq(Seq(B)), Len(seqs) # 0
    PROVE  \E f \in [1..Len(seqs) -> Seq(B)] :
              /\ FlattenSeq(seqs) = f[Len(seqs)]
              /\ \A i \in 1..Len(seqs) : f[i] = IF i = 1 THEN seqs[i] ELSE f[i - 1] \o seqs[i]
  <1> DEFINE X == 1..Len(seqs)
             S == Seq(B)
             comb == [p \in X \X S |-> p[2] \o seqs[p[1]]]
             next == [i \in X |-> i - 1]
             size == [i \in X |-> i]
             flatten[i \in X] == IF i = 1 THEN seqs[i] ELSE flatten[i - 1] \o seqs[i]
  <1>1. size \in [X -> Nat]
    OBVIOUS
  <1>2. \A i \in X : seqs[i] \in S
    OBVIOUS
  <1>3. \A i \in X \ {1} : next[i] \in X /\ size[next[i]] < size[i]
    OBVIOUS
  <1>4. \A i \in X \ {1}, s \in S : comb[<<i, s>>] \in S
    BY <1>2
  <1>5. PICK f \in [X -> S] : \A i \in X : f[i] = Step({1}, seqs, next, comb, f, i)
    <2>1. Descends(X, S, {1}, seqs, next, comb, size)
      <3> HIDE DEF X, S, comb, next, size, flatten
      <3> QED
        BY <1>1, <1>2, <1>3, <1>4 DEF Descends
    <2> HIDE DEF X, S, comb, next, size, flatten
    <2> QED
      BY <2>1, RecursionExists
  <1>6. \A i \in X : f[i] = IF i = 1 THEN seqs[i] ELSE f[i - 1] \o seqs[i]
    <2>1. ASSUME NEW i \in X \ {1} PROVE next[i] = i - 1 /\ f[i - 1] \in S /\ i - 1 \in X
      <3>1. Len(seqs) \in Nat
        OBVIOUS
      <3> HIDE DEF S, flatten
      <3>2. i - 1 \in X /\ next[i] = i - 1
        BY <3>1
      <3> QED
        BY <3>2
    <2> QED
      BY <1>5, <2>1 DEF Step
  <1>7. f = [i \in X |-> IF i = 1 THEN seqs[i] ELSE f[i - 1] \o seqs[i]]
    BY <1>6
  <1>8. flatten = [i \in X |-> IF i = 1 THEN seqs[i] ELSE flatten[i - 1] \o seqs[i]]
    BY <1>7
  <1>9. FlattenSeq(seqs) = flatten[Len(seqs)]
    BY DEF FlattenSeq
  <1>10. flatten \in [X -> S]
    <2> DEFINE P == {i \in X : flatten[i] \in S}
    <2>1. \A i \in X : flatten[i] = IF i = 1 THEN seqs[i] ELSE flatten[i - 1] \o seqs[i]
      BY <1>8
    <2> HIDE DEF flatten
    <2>2. 1 \in P
      BY <1>2, <2>1
    <2>3. ASSUME NEW i \in 1..(Len(seqs) - 1), i \in P PROVE i + 1 \in P
      <3>1. i + 1 \in X /\ i + 1 # 1 /\ (i + 1) - 1 = i
        OBVIOUS
      <3>2. flatten[i + 1] = flatten[i] \o seqs[i + 1]
        BY <2>1, <3>1
      <3>3. flatten[i] \in Seq(B) /\ seqs[i + 1] \in Seq(B)
        BY <1>2, <2>3, <3>1
      <3>4. flatten[i + 1] \in Seq(B)
        BY <3>2, <3>3
      <3> QED
        BY <3>1, <3>4
    <2>4. 1..Len(seqs) \subseteq P
      <3>1. Len(seqs) \in Int
        OBVIOUS
      <3> HIDE DEF P
      <3>2. Upward(1, Len(seqs), P)
        BY <2>2, <2>3 DEF Upward
      <3> QED
        BY <3>1, <3>2, UpwardInduction
    <2> QED
      BY <1>8, <2>4
  <1> HIDE DEF flatten
  <1> QED
    BY <1>8, <1>9, <1>10
-----------------------------------------------------------------------------
(* The texts a client can have.                                             *)
Texts == Seq(DOMAIN Encode)

(* The bytes of the first k characters, one character at a time.            *)
LEMMA BytesStepwise ==
    ASSUME NEW c \in Texts, Len(c) # 0
    PROVE  \E f \in [1..Len(c) -> Seq(ByteClass)] :
             \A k \in 1..Len(c) :
                /\ f[k] = Bytes(SubSeq(c, 1, k))
                /\ f[k] = IF k = 1 THEN Encode[c[k]] ELSE f[k - 1] \o Encode[c[k]]
  <1> DEFINE n == Len(c)
             Pieces(t) == [i \in DOMAIN t |-> Encode[t[i]]]
  <1>1. ASSUME NEW t \in Texts PROVE Pieces(t) \in Seq(Seq(ByteClass)) /\ Len(Pieces(t)) = Len(t)
                                     /\ Bytes(t) = FlattenSeq(Pieces(t))
    <2>1. \A i \in 1..Len(t) : Encode[t[i]] \in Seq(ByteClass)
      <3>1. \A i \in 1..Len(t) : t[i] \in DOMAIN Encode
        BY DEF Texts
      <3> QED
        BY <3>1, EncodeFacts
    <2>2. DOMAIN t = 1..Len(t) /\ Len(t) \in Nat
      BY DEF Texts
    <2>3. Pieces(t) \in [1..Len(t) -> Seq(ByteClass)]
      BY <2>1, <2>2
    <2>4. Pieces(t) \in Seq(Seq(ByteClass)) /\ Len(Pieces(t)) = Len(t)
      <3> HIDE DEF Pieces
      <3> QED
        BY <2>2, <2>3
    <2> QED
      BY <2>4 DEF Bytes
  <1>2. ASSUME NEW t \in Texts, Len(t) # 0
        PROVE  \E f \in [1..Len(t) -> Seq(ByteClass)] :
                  /\ Bytes(t) = f[Len(t)]
                  /\ \A i \in 1..Len(t) : f[i] = IF i = 1 THEN Encode[t[i]] ELSE f[i - 1] \o Encode[t[i]]
    <2> DEFINE p == Pieces(t)
    <2>1. \A i \in 1..Len(t) : p[i] = Encode[t[i]]
      BY DEF Texts
    <2>2. PICK f \in [1..Len(p) -> Seq(ByteClass)] :
              /\ FlattenSeq(p) = f[Len(p)]
              /\ \A i \in 1..Len(p) : f[i] = IF i = 1 THEN p[i] ELSE f[i - 1] \o p[i]
      <3> HIDE DEF p
      <3>1. p \in Seq(Seq(ByteClass)) /\ Len(p) # 0
        BY <1>1, <1>2 DEF p
      <3> QED
        BY <3>1, Flattening
    <2> HIDE DEF p
    <2>3. Len(p) = Len(t) /\ Bytes(t) = FlattenSeq(p)
      BY <1>1 DEF p
    <2>4. f \in [1..Len(t) -> Seq(ByteClass)] /\ Bytes(t) = f[Len(t)]
      BY <2>2, <2>3
    <2>5. ASSUME NEW i \in 1..Len(t)
          PROVE  f[i] = IF i = 1 THEN Encode[t[i]] ELSE f[i - 1] \o Encode[t[i]]
      <3>1. i \in 1..Len(p)
        BY <2>3
      <3>2. f[i] = IF i = 1 THEN p[i] ELSE f[i - 1] \o p[i]
        BY <2>2, <3>1, Zenon
      <3>3. p[i] = Encode[t[i]]
        BY <2>1, Zenon
      <3> QED
        BY <3>2, <3>3, Zenon
    <2> QED
      BY <2>4, <2>5, Zenon
  <1> HIDE DEF Pieces
  <1>3. PICK f \in [1..n -> Seq(ByteClass)] :
            \A i \in 1..n : f[i] = IF i = 1 THEN Encode[c[i]] ELSE f[i - 1] \o Encode[c[i]]
    BY <1>2
  <1>4. ASSUME NEW k \in 1..n PROVE f[k] = Bytes(SubSeq(c, 1, k))
    <2> DEFINE t == SubSeq(c, 1, k)
    <2>1. t \in Texts /\ Len(t) = k /\ \A i \in 1..k : t[i] = c[i]
      BY DEF Texts
    <2> HIDE DEF t
    <2>2. PICK g \in [1..k -> Seq(ByteClass)] :
              /\ Bytes(t) = g[k]
              /\ \A i \in 1..k : g[i] = IF i = 1 THEN Encode[t[i]] ELSE g[i - 1] \o Encode[t[i]]
      <3>1. Len(t) # 0
        BY <2>1
      <3> QED
        BY <1>2, <2>1, <3>1
    <2> DEFINE P == {i \in 1..k : g[i] = f[i]}
    <2>3. Upward(1, k, P)
      <3>1. 1 \in 1..k /\ 1 \in 1..n
        BY DEF Texts
      <3>2. 1 \in P
        <4>1. g[1] = IF 1 = 1 THEN Encode[t[1]] ELSE g[1 - 1] \o Encode[t[1]]
          BY <2>2, <3>1, Zenon
        <4>2. f[1] = IF 1 = 1 THEN Encode[c[1]] ELSE f[1 - 1] \o Encode[c[1]]
          BY <1>3, <3>1, Zenon
        <4>3. t[1] = c[1]
          BY <2>1, <3>1, Zenon
        <4>4. g[1] = f[1]
          BY ONLY <4>1, <4>2, <4>3
        <4> QED
          BY <3>1, <4>4, Zenon
      <3>3. ASSUME NEW i \in 1..(k - 1), i \in P PROVE i + 1 \in P
        <4>1. i + 1 \in 1..k /\ i + 1 \in 1..n /\ i + 1 # 1 /\ (i + 1) - 1 = i
          BY DEF Texts
        <4>2. g[i + 1] = IF i + 1 = 1 THEN Encode[t[i + 1]] ELSE g[(i + 1) - 1] \o Encode[t[i + 1]]
          BY <2>2, <4>1, Zenon
        <4>3. f[i + 1] = IF i + 1 = 1 THEN Encode[c[i + 1]] ELSE f[(i + 1) - 1] \o Encode[c[i + 1]]
          BY <1>3, <4>1, Zenon
        <4>4. t[i + 1] = c[i + 1]
          BY <2>1, <4>1, Zenon
        <4>5. g[i] = f[i]
          BY <3>3, Zenon
        <4>6. g[i + 1] = f[i + 1]
          BY <4>1, <4>2, <4>3, <4>4, <4>5, Zenon
        <4> QED
          BY <4>1, <4>6, Zenon
      <3> HIDE DEF P
      <3> QED
        BY <3>2, <3>3 DEF Upward
    <2>4. k \in 1..k /\ k \in Int /\ 1 \in Int
      OBVIOUS
    <2>5. k \in P
      <3> HIDE DEF P
      <3> QED
        BY <2>3, <2>4, UpwardInduction
    <2> QED
      BY <2>2, <2>5 DEF t
  <1> QED
    BY <1>3, <1>4

(* The byte offsets of the places between the characters of a text, and the *)
(* bytes between two of them.                                               *)
LEMMA BytesFacts ==
    ASSUME NEW c \in Texts
    PROVE  /\ Bytes(c) \in Seq(ByteClass)
           /\ ByteOffset(c, 0) = 0 /\ ByteOffset(c, Len(c)) = Len(Bytes(c))
           /\ \A k \in 0..Len(c) : ByteOffset(c, k) \in Nat
           /\ \A k \in 1..Len(c) :
                 /\ ByteOffset(c, k) = ByteOffset(c, k - 1) + Len(Encode[c[k]])
                 /\ \A i \in 1..Len(Encode[c[k]]) :
                       Bytes(c)[ByteOffset(c, k - 1) + i] = Encode[c[k]][i]
  <1> DEFINE n == Len(c)
  <1>1. n \in Nat /\ c = SubSeq(c, 1, n) /\ SubSeq(c, 1, 0) = <<>>
    BY DEF Texts
  <1>2. Bytes(<<>>) = <<>>
    <2> DEFINE e == [i \in DOMAIN <<>> |-> Encode[<<>>[i]]]
    <2>1. e = <<>> /\ Len(e) = 0
      OBVIOUS
    <2>2. Bytes(<<>>) = FlattenSeq(e)
      BY DEF Bytes
    <2> HIDE DEF e
    <2> QED
      BY <2>1, <2>2 DEF FlattenSeq
  <1>3. ByteOffset(c, 0) = 0 /\ ByteOffset(c, n) = Len(Bytes(c))
    <2>1. ByteOffset(c, 0) = Len(<<>>) /\ ByteOffset(c, n) = Len(Bytes(c))
      BY <1>1, <1>2 DEF ByteOffset
    <2> QED
      BY <2>1
  <1>4. CASE n = 0
    <2>1. Bytes(c) = <<>>
      BY <1>1, <1>2, <1>4
    <2> QED
      BY <1>3, <1>4, <2>1
  <1>5. CASE n # 0
    <2>1. PICK f \in [1..n -> Seq(ByteClass)] :
             \A k \in 1..n :
                /\ f[k] = Bytes(SubSeq(c, 1, k))
                /\ f[k] = IF k = 1 THEN Encode[c[k]] ELSE f[k - 1] \o Encode[c[k]]
      BY <1>5, BytesStepwise
    <2>2. ASSUME NEW k \in 1..n
          PROVE  f[k] \in Seq(ByteClass) /\ ByteOffset(c, k) = Len(f[k]) /\ Len(f[k]) \in Nat
      <3>1. f[k] = Bytes(SubSeq(c, 1, k))
        BY <2>1
      <3>2. f[k] \in Seq(ByteClass)
        OBVIOUS
      <3> QED
        BY <3>1, <3>2 DEF ByteOffset
    <2>3. Bytes(c) = f[n] /\ n \in 1..n
      <3>1. n \in 1..n
        BY <1>1, <1>5
      <3>2. f[n] = Bytes(SubSeq(c, 1, n))
        BY <2>1, <3>1
      <3> QED
        BY <1>1, <3>1, <3>2, Zenon
    <2>4. \A k \in 1..n : Encode[c[k]] \in Seq(ByteClass) /\ Len(Encode[c[k]]) \in Nat
      <3>1. \A k \in 1..n : c[k] \in DOMAIN Encode
        BY DEF Texts
      <3> QED
        BY <3>1, EncodeFacts
    (* One character more adds its bytes at the end.                        *)
    <2>5. ASSUME NEW k \in 1..n
          PROVE  /\ ByteOffset(c, k) = ByteOffset(c, k - 1) + Len(Encode[c[k]])
                 /\ \A i \in 1..Len(Encode[c[k]]) : f[k][ByteOffset(c, k - 1) + i] = Encode[c[k]][i]
                 /\ k > 1 => \A i \in 1..Len(f[k - 1]) : f[k][i] = f[k - 1][i]
      <3>1. CASE k = 1
        <4>1. f[k] = Encode[c[k]]
          BY <2>1, <3>1, Zenon
        <4>2. k - 1 = 0
          BY <3>1
        <4> QED
          BY <1>3, <2>2, <2>4, <3>1, <4>1, <4>2
      <3>2. CASE k # 1
        <4> DEFINE p == f[k - 1]
                   e == Encode[c[k]]
        <4>1. k - 1 \in 1..n /\ k \in 1..n
          BY <3>2
        <4>2. f[k] = p \o e /\ p \in Seq(ByteClass) /\ e \in Seq(ByteClass)
          BY <2>1, <2>2, <2>4, <3>2, <4>1
        <4>3. ByteOffset(c, k - 1) = Len(p) /\ ByteOffset(c, k) = Len(f[k])
          BY <2>2, <4>1
        <4> HIDE DEF p, e
        <4>4. /\ Len(f[k]) = Len(p) + Len(e)
              /\ \A i \in 1..Len(e) : f[k][Len(p) + i] = e[i]
              /\ \A i \in 1..Len(p) : f[k][i] = p[i]
          BY <4>2
        <4> QED
          BY <4>3, <4>4 DEF p, e
      <3> QED
        BY <3>1, <3>2
    (* The whole text continues each of its beginnings.                     *)
    <2> DEFINE P == {k \in 1..n : \A i \in 1..Len(f[k]) : f[n][i] = f[k][i]}
    <2>6. Downward(1, n, P)
      <3>1. n \in P
        BY <2>3
      <3>2. ASSUME NEW k \in 1..(n - 1), k + 1 \in P PROVE k \in P
        <4>1. k + 1 \in 1..n /\ (k + 1) - 1 = k /\ k + 1 > 1 /\ k \in 1..n
          BY <1>1
        <4>2. \A i \in 1..Len(f[k]) : f[k + 1][i] = f[k][i]
          BY <2>5, <4>1
        <4>3. Len(f[k]) <= Len(f[k + 1]) /\ Len(f[k]) \in Nat /\ Len(f[k + 1]) \in Nat
          <5>1. ByteOffset(c, k + 1) = ByteOffset(c, k) + Len(Encode[c[k + 1]])
            BY <2>5, <4>1
          <5> QED
            BY <2>2, <2>4, <4>1, <5>1
        <4>4. \A i \in 1..Len(f[k + 1]) : f[n][i] = f[k + 1][i]
          BY <3>2
        <4> QED
          BY <4>1, <4>2, <4>3, <4>4
      <3> HIDE DEF P
      <3> QED
        BY <3>1, <3>2 DEF Downward
    <2>7. 1..n \subseteq P
      <3> HIDE DEF P
      <3> QED
        BY <1>1, <2>6, DownwardInduction
    <2>8. ASSUME NEW k \in 1..n, NEW i \in 1..Len(Encode[c[k]])
          PROVE  Bytes(c)[ByteOffset(c, k - 1) + i] = Encode[c[k]][i]
      <3>1. ByteOffset(c, k - 1) \in Nat
        BY <1>3, <2>2
      <3>2. ByteOffset(c, k - 1) + i \in 1..Len(f[k])
        BY <2>2, <2>4, <2>5, <3>1
      <3>3. \A h \in 1..Len(f[k]) : f[n][h] = f[k][h]
        BY <2>7
      <3>4. f[n][ByteOffset(c, k - 1) + i] = f[k][ByteOffset(c, k - 1) + i]
        BY <3>2, <3>3, Zenon
      <3>5. f[k][ByteOffset(c, k - 1) + i] = Encode[c[k]][i]
        BY <2>5, Zenon
      <3> QED
        BY <2>3, <3>4, <3>5, Zenon
    <2>9. \A k \in 0..n : ByteOffset(c, k) \in Nat
      BY <1>3, <2>2
    <2> QED
      BY <1>3, <2>2, <2>3, <2>5, <2>8, <2>9
  <1> QED
    BY <1>4, <1>5
-----------------------------------------------------------------------------
(* A bounded set of natural numbers has a greatest element, ...             *)
LEMMA GreatestNat ==
    ASSUME NEW b \in Nat, NEW S, S \subseteq 0..b, S # {}
    PROVE  \E m \in S : \A n \in S : n <= m
  <1> DEFINE T == {b - n : n \in S}
  <1>1. T \subseteq Nat /\ T # {}
    <2>1. ASSUME NEW n \in S PROVE b - n \in Nat
      OBVIOUS
    <2> QED
      BY <2>1
  <1>2. PICK m \in T : \A n \in T : m <= n
    <2> HIDE DEF T
    <2> QED
      BY <1>1, LeastNat
  <1>3. PICK s \in S : m = b - s
    BY <1>2
  <1>4. ASSUME NEW n \in S PROVE n <= s
    <2>1. b - n \in T /\ n \in Nat /\ s \in Nat
      BY <1>4
    <2>2. b - s <= b - n
      BY <1>2, <1>3, <2>1
    <2> QED
      BY <2>1, <2>2
  <1> QED
    BY <1>4

(* ... which is its Max, as its least one is its Min.                       *)
LEMMA MaxIs ==
    ASSUME NEW S, S \subseteq Nat, NEW m \in S, \A n \in S : n <= m
    PROVE  Max(S) = m
  <1> DEFINE T == {x \in S : \A y \in S : x >= y}
  <1>1. Max(S) = CHOOSE x \in S : \A y \in S : x >= y
    BY DEF Max
  <1>2. m \in S /\ \A y \in S : m >= y
    OBVIOUS
  <1>3. ASSUME NEW z \in S, \A y \in S : z >= y PROVE z = m
    <2>1. z \in Nat /\ m \in Nat /\ z <= m /\ z >= m
      BY <1>3
    <2> QED
      BY <2>1
  <1> QED
    BY <1>1, <1>2, <1>3

(* A least element of a set is its Min.                                     *)
LEMMA MinIs ==
    ASSUME NEW S, S \subseteq Nat, NEW m \in S, \A n \in S : m <= n
    PROVE  Min(S) = m
  <1> DEFINE T == {x \in S : \A y \in S : x <= y}
  <1>1. Min(S) = CHOOSE x \in S : \A y \in S : x <= y
    BY DEF Min
  <1>2. m \in S /\ \A y \in S : m <= y
    OBVIOUS
  <1>3. ASSUME NEW z \in S, \A y \in S : z <= y PROVE z = m
    <2>1. z \in Nat /\ m \in Nat /\ m <= z /\ z <= m
      BY <1>3
    <2> QED
      BY <2>1
  <1> QED
    BY <1>1, <1>2, <1>3

(* Every character has a byte at least.                                     *)
LEMMA OffsetsIncrease ==
    ASSUME NEW c \in Texts, NEW j \in 0..Len(c), NEW k \in 0..Len(c)
    PROVE  /\ j < k => ByteOffset(c, j) + (k - j) <= ByteOffset(c, k)
           /\ ByteOffset(c, k) \in 0..Len(Bytes(c))
           /\ ByteOffset(c, j) <= ByteOffset(c, k) <=> j <= k
           /\ ByteOffset(c, j) = ByteOffset(c, k) <=> j = k
  <1> DEFINE n == Len(c)
  <1>1. n \in Nat
    BY DEF Texts
  <1>2. \A i \in 0..n : ByteOffset(c, i) \in Nat
    BY BytesFacts
  <1>3. ASSUME NEW i \in 1..n PROVE ByteOffset(c, i - 1) < ByteOffset(c, i)
    <2>1. c[i] \in DOMAIN Encode
      BY DEF Texts
    <2>2. Len(Encode[c[i]]) \in 1..4
      BY <2>1, EncodeFacts
    <2>3. ByteOffset(c, i) = ByteOffset(c, i - 1) + Len(Encode[c[i]])
      BY BytesFacts
    <2>4. ByteOffset(c, i - 1) \in Nat /\ ByteOffset(c, i) \in Nat
      BY <1>1, <1>2
    <2> DEFINE w == Len(Encode[c[i]])
    <2> HIDE DEF w
    <2>5. ByteOffset(c, i) = ByteOffset(c, i - 1) + w
      BY <2>3 DEF w
    <2>6. w \in 1..4
      BY <2>2 DEF w
    <2>7. w >= 1 /\ w \in Nat
      BY <2>6
    <2> QED
      BY <2>4, <2>5, <2>7
  <1>4. ASSUME NEW a \in 0..n, NEW z \in 0..n, a <= z
        PROVE  ByteOffset(c, a) + (z - a) <= ByteOffset(c, z)
    <2> DEFINE P == {m \in a..n : ByteOffset(c, a) + (m - a) <= ByteOffset(c, m)}
    <2>1. a \in P
      BY <1>1, <1>2
    <2>2. ASSUME NEW m \in a..(n - 1), m \in P PROVE m + 1 \in P
      <3>1. m + 1 \in 1..n /\ m \in 0..n /\ (m + 1) - 1 = m /\ m + 1 \in a..n
        BY <1>1
      <3>2. ByteOffset(c, m) < ByteOffset(c, m + 1)
        BY <1>3, <3>1
      <3>3. ByteOffset(c, a) + (m - a) <= ByteOffset(c, m)
        BY <2>2
      <3> DEFINE x == ByteOffset(c, a)
                 y == ByteOffset(c, m)
                 w == ByteOffset(c, m + 1)
      <3>4. x \in Nat /\ y \in Nat /\ w \in Nat /\ m \in Int /\ a \in Int
        BY <1>1, <1>2, <3>1
      <3> HIDE DEF x, y, w
      <3>5. x + (m - a) <= y /\ y < w
        BY <3>2, <3>3 DEF x, y, w
      <3>6. x + ((m + 1) - a) <= w
        BY ONLY <3>4, <3>5
      <3> QED
        BY <3>1, <3>6 DEF x, w
    <2> HIDE DEF P
    <2>3. Upward(a, n, P)
      BY <2>1, <2>2 DEF Upward
    <2>4. a..n \subseteq P /\ z \in a..n
      BY <1>1, <1>4, <2>3, UpwardInduction
    <2> QED
      BY <2>4 DEF P
  <1>5. \A a, z \in 0..n : a <= z => ByteOffset(c, a) + (z - a) <= ByteOffset(c, z)
    BY <1>4
  <1>6. ByteOffset(c, k) <= Len(Bytes(c))
    <2>1. k \in 0..n /\ n \in 0..n /\ k <= n
      BY <1>1
    <2>2. ByteOffset(c, k) + (n - k) <= ByteOffset(c, n)
      BY <1>5, <2>1
    <2>3. ByteOffset(c, n) = Len(Bytes(c))
      BY BytesFacts
    <2> QED
      BY <1>1, <1>2, <2>1, <2>2, <2>3
  <1>7. ByteOffset(c, k) \in 0..Len(Bytes(c))
    <2>1. Bytes(c) \in Seq(ByteClass)
      BY BytesFacts
    <2>2. Len(Bytes(c)) \in Nat
      BY <2>1
    <2> QED
      BY <1>2, <1>6, <2>2
  <1> QED
    BY <1>1, <1>2, <1>5, <1>7

(* Every byte belongs to a character.                                       *)
LEMMA ByteOfCharacter ==
    ASSUME NEW c \in Texts, NEW o \in 1..Len(Bytes(c))
    PROVE  \E k \in 1..Len(c) :
              /\ c[k] \in DOMAIN Encode
              /\ ByteOffset(c, k - 1) < o /\ o <= ByteOffset(c, k)
              /\ o - ByteOffset(c, k - 1) \in 1..Len(Encode[c[k]])
              /\ Bytes(c)[o] = Encode[c[k]][o - ByteOffset(c, k - 1)]
  <1> DEFINE n == Len(c)
             S == {k \in 0..n : o <= ByteOffset(c, k)}
  <1>1. n \in Nat /\ \A i \in 0..n : ByteOffset(c, i) \in Nat
    BY BytesFacts DEF Texts
  <1>2. ByteOffset(c, n) = Len(Bytes(c)) /\ ByteOffset(c, 0) = 0
    BY BytesFacts
  <1>3. n \in S /\ S \subseteq Nat
    BY <1>1, <1>2
  <1>4. PICK k \in S : \A j \in S : k <= j
    <2> HIDE DEF S
    <2> QED
      BY <1>3, LeastNat
  <1>5. k # 0
    BY <1>2, <1>4
  <1>6. k \in 1..n /\ k - 1 \in 0..n /\ k - 1 \notin S
    BY <1>1, <1>4, <1>5
  <1>7. ByteOffset(c, k - 1) < o /\ o <= ByteOffset(c, k)
    BY <1>1, <1>6
  <1>8. c[k] \in DOMAIN Encode
    BY <1>6 DEF Texts
  <1>9. Len(Encode[c[k]]) \in Nat
    BY <1>8, EncodeFacts
  <1> HIDE DEF S
  <1>10. /\ ByteOffset(c, k) = ByteOffset(c, k - 1) + Len(Encode[c[k]])
         /\ \A i \in 1..Len(Encode[c[k]]) : Bytes(c)[ByteOffset(c, k - 1) + i] = Encode[c[k]][i]
    BY <1>6, BytesFacts
  <1>11. /\ o - ByteOffset(c, k - 1) \in 1..Len(Encode[c[k]])
         /\ ByteOffset(c, k - 1) + (o - ByteOffset(c, k - 1)) = o
    <2> DEFINE x == ByteOffset(c, k - 1)
               y == ByteOffset(c, k)
               w == Len(Encode[c[k]])
    <2>1. x \in Nat /\ y \in Nat /\ o \in Int
      BY <1>1, <1>6
    <2> HIDE DEF x, y, w
    <2>2. y = x + w /\ x < o /\ o <= y /\ w \in Nat
      BY <1>7, <1>9, <1>10 DEF x, y, w
    <2>3. o - x \in 1..w /\ x + (o - x) = o
      BY ONLY <2>1, <2>2
    <2> QED
      BY <2>3 DEF x, w
  <1>12. Bytes(c)[o] = Encode[c[k]][o - ByteOffset(c, k - 1)]
    BY <1>10, <1>11
  <1> QED
    BY <1>6, <1>7, <1>8, <1>11, <1>12

(* A word of the bytes begins and ends between two characters, as do the    *)
(* text itself and what a client means by a place.                          *)
LEMMA WordBoundary ==
    ASSUME NEW c \in Texts, NEW o \in 0..Len(Bytes(c)),
           \/ o = 0 \/ o = Len(Bytes(c))
           \/ o > 0 /\ IsWordChar(Bytes(c)[o])
           \/ o < Len(Bytes(c)) /\ IsWordChar(Bytes(c)[o + 1])
    PROVE  \E k \in 0..Len(c) : o = ByteOffset(c, k)
  <1> DEFINE b == Bytes(c)
  <1>1. b \in Seq(ByteClass) /\ Len(c) \in Nat
    BY BytesFacts DEF Texts
  <1>2. Len(b) \in Nat /\ ByteOffset(c, 0) = 0 /\ ByteOffset(c, Len(c)) = Len(b)
        /\ \A k \in 0..Len(c) : ByteOffset(c, k) \in Nat
    BY <1>1, BytesFacts
  (* A byte of a word is the only one of its character.                     *)
  <1>3. ASSUME NEW p \in 1..Len(b), IsWordChar(b[p])
        PROVE  \E k \in 1..Len(c) : p = ByteOffset(c, k) /\ p - 1 = ByteOffset(c, k - 1)
    <2> DEFINE At(k) == p - ByteOffset(c, k - 1)
    <2>1. PICK k \in 1..Len(c) :
              /\ c[k] \in DOMAIN Encode
              /\ ByteOffset(c, k - 1) < p /\ p <= ByteOffset(c, k)
              /\ p - ByteOffset(c, k - 1) \in 1..Len(Encode[c[k]])
              /\ b[p] = Encode[c[k]][p - ByteOffset(c, k - 1)]
      BY ByteOfCharacter
    <2>2. Len(Encode[c[k]]) = 1
      <3>1. At(k) \in 1..Len(Encode[c[k]]) /\ IsWordChar(Encode[c[k]][At(k)]) /\ c[k] \in DOMAIN Encode
        BY <1>3, <2>1
      <3> HIDE DEF At
      <3> QED
        BY <3>1, EncodeWord
    <2>3. ByteOffset(c, k) = ByteOffset(c, k - 1) + Len(Encode[c[k]])
      BY BytesFacts
    <2>4. ByteOffset(c, k - 1) \in Nat /\ ByteOffset(c, k) \in Nat
      BY <1>1, <1>2
    <2>5. p = ByteOffset(c, k) /\ p - 1 = ByteOffset(c, k - 1)
      <3> DEFINE x == ByteOffset(c, k - 1)
                 y == ByteOffset(c, k)
                 w == Len(Encode[c[k]])
                 n == Len(b)
      <3>1. x < p /\ p <= y /\ w = 1 /\ y = x + w /\ x \in Nat /\ y \in Nat
        BY <2>1, <2>2, <2>3, <2>4, Zenon
      <3>2. p \in 1..n /\ n \in Nat
        BY <1>2, <1>3, Zenon
      <3> HIDE DEF x, y, w, n
      <3>3. p = y /\ p - 1 = x
        BY ONLY <3>1, <3>2
      <3> QED
        BY <3>3, Zenon DEF x, y
    <2> QED
      BY <2>5
  <1>4. CASE o = 0 \/ o = Len(b)
    BY <1>1, <1>2, <1>4
  <1>5. CASE o > 0 /\ IsWordChar(b[o])
    <2>1. o \in 1..Len(b)
      BY <1>2, <1>5
    <2>2. PICK k \in 1..Len(c) : o = ByteOffset(c, k)
      BY <1>3, <1>5, <2>1
    <2> QED
      BY <1>1, <2>2
  <1>6. CASE o < Len(b) /\ IsWordChar(b[o + 1])
    <2>1. o + 1 \in 1..Len(b) /\ (o + 1) - 1 = o
      BY <1>2, <1>6
    <2>2. PICK k \in 1..Len(c) : o = ByteOffset(c, k - 1)
      BY <1>3, <1>6, <2>1
    <2>3. k - 1 \in 0..Len(c)
      BY <1>1
    <2> QED
      BY <2>2, <2>3
  <1> QED
    BY <1>4, <1>5, <1>6
-----------------------------------------------------------------------------
(* The newlines before an offset are counted in natural numbers.            *)
LEMMA NewlinesFinite ==
    ASSUME NEW src, NEW off \in Nat
    PROVE  Newlines(src, off) \in Nat /\ IsFiniteSet({i \in 1..off : src[i] = "nl"})
  <1> DEFINE S == {i \in 1..off : src[i] = "nl"}
  <1>1. IsFiniteSet(1..off)
    BY FS_Interval
  <1>2. IsFiniteSet(S)
    BY <1>1, FS_Subset
  <1> QED
    BY <1>2, FS_CardinalityType DEF Newlines

(* The line of an offset is a natural number.                               *)
LEMMA NewlinesNat ==
    ASSUME NEW src, NEW off \in Nat
    PROVE  Newlines(src, off) \in Nat
  BY NewlinesFinite

(* The lines of offsets are counted upwards: one more at each newline.      *)
LEMMA NewlinesBetween ==
    ASSUME NEW src, NEW o \in Nat, NEW p \in Nat, o <= p
    PROVE  /\ Newlines(src, o) <= Newlines(src, p)
           /\ Newlines(src, o) = Newlines(src, p) <=> \A i \in (o + 1)..p : src[i] # "nl"
  <1> DEFINE S(q) == {i \in 1..q : src[i] = "nl"}
  <1>1. IsFiniteSet(S(o)) /\ IsFiniteSet(S(p)) /\ Newlines(src, o) \in Nat /\ Newlines(src, p) \in Nat
    BY NewlinesFinite
  <1>2. S(o) \subseteq S(p)
    OBVIOUS
  <1>3. Newlines(src, o) = Cardinality(S(o)) /\ Newlines(src, p) = Cardinality(S(p))
    BY DEF Newlines
  <1>4. S(o) = S(p) <=> \A i \in (o + 1)..p : src[i] # "nl"
    OBVIOUS
  <1> HIDE DEF S
  <1>5. Cardinality(S(o)) <= Cardinality(S(p)) /\ (Cardinality(S(o)) = Cardinality(S(p)) => S(o) = S(p))
    BY <1>1, <1>2, FS_Subset
  <1> QED
    BY <1>3, <1>4, <1>5

(* Where the line of an offset begins: at the last newline before it.       *)
LEMMA LineStartIs ==
    ASSUME NEW B, NEW src \in Seq(B), NEW off \in 0..Len(src), NEW s \in 0..off,
           s = 0 \/ src[s] = "nl", \A i \in (s + 1)..off : src[i] # "nl"
    PROVE  LineStart(src, Newlines(src, off)) = s
  <1> DEFINE starts == {o \in 0..Len(src) : Newlines(src, o) = Newlines(src, off)}
  <1>1. s \in Nat /\ off \in Nat /\ s <= off /\ Len(src) \in Nat /\ off <= Len(src)
    OBVIOUS
  <1>2. s \in starts
    <2>1. Newlines(src, s) = Newlines(src, off)
      BY <1>1, NewlinesBetween
    <2> QED
      BY <1>1, <2>1
  <1>3. ASSUME NEW o \in starts PROVE s <= o
    <2> SUFFICES ASSUME o < s PROVE FALSE
      BY <1>1
    <2>1. o \in Nat /\ o <= s /\ s \in (o + 1)..s /\ src[s] = "nl"
      BY <1>1
    <2>2. Newlines(src, o) # Newlines(src, s)
      BY <1>1, <2>1, NewlinesBetween
    <2> QED
      BY <1>2, <2>2
  <1>4. LineStart(src, Newlines(src, off)) = CHOOSE x \in starts : \A o \in starts : x <= o
    BY <1>2 DEF LineStart
  <1>5. \A x \in starts : x \in Nat
    BY <1>1
  <1> HIDE DEF starts
  <1>6. ASSUME NEW x \in starts, \A o \in starts : x <= o PROVE x = s
    <2>1. x <= s /\ s <= x /\ x \in Nat /\ s \in Nat
      BY <1>2, <1>3, <1>5, <1>6
    <2> QED
      BY <2>1
  <1> QED
    BY <1>2, <1>3, <1>4, <1>6

(* Between the beginning of the line of an offset and the offset there is   *)
(* no newline.                                                              *)
LEMMA LineStartFacts ==
    ASSUME NEW B, NEW src \in Seq(B), NEW off \in 0..Len(src)
    PROVE  LET s == LineStart(src, Newlines(src, off))
           IN  /\ s \in 0..off /\ (s = 0 \/ src[s] = "nl")
               /\ \A i \in (s + 1)..off : src[i] # "nl"
  <1> DEFINE S == {s \in 0..off : \A i \in (s + 1)..off : src[i] # "nl"}
  <1>1. off \in S /\ S \subseteq Nat
    OBVIOUS
  <1>2. PICK s \in S : \A t \in S : s <= t
    <2> HIDE DEF S
    <2> QED
      BY <1>1, LeastNat
  <1>3. s \in 0..off /\ \A i \in (s + 1)..off : src[i] # "nl"
    OBVIOUS
  <1>4. s = 0 \/ src[s] = "nl"
    <2> SUFFICES ASSUME s # 0, src[s] # "nl" PROVE FALSE
      OBVIOUS
    <2>1. s - 1 \in 0..off /\ \A i \in ((s - 1) + 1)..off : i = s \/ i \in (s + 1)..off
      BY <1>3
    <2>2. s - 1 \in S
      BY <1>3, <2>1
    <2>3. s <= s - 1 /\ s \in Nat
      BY <1>2, <1>3, <2>2
    <2> QED
      BY <2>3
  <1>5. LineStart(src, Newlines(src, off)) = s
    BY <1>3, <1>4, LineStartIs
  <1> QED
    BY <1>3, <1>4, <1>5

(* The line of an offset begins at it or before.                            *)
LEMMA LineStartBefore ==
    ASSUME NEW B, NEW src \in Seq(B), NEW off \in 0..Len(src)
    PROVE  LineStart(src, Newlines(src, off)) \in 0..off
  BY LineStartFacts
-----------------------------------------------------------------------------
(* The client's lines: how many line ends come before a place, and the      *)
(* place after the last of them.                                            *)
EndsBefore(c, k) == {i \in 1..k : c[i] \in Ends}

(* The place a line of the client begins at.                                *)
From(c, k) == IF EndsBefore(c, k) = {} THEN 0 ELSE Max(EndsBefore(c, k))

(* The line ends before a place are counted in natural numbers.             *)
LEMMA EndsFinite ==
    ASSUME NEW c, NEW k \in Nat
    PROVE  IsFiniteSet(EndsBefore(c, k)) /\ Cardinality(EndsBefore(c, k)) \in Nat
  <1>1. IsFiniteSet(1..k)
    BY FS_Interval
  <1>2. IsFiniteSet(EndsBefore(c, k))
    BY <1>1, FS_Subset DEF EndsBefore
  <1> QED
    BY <1>2, FS_CardinalityType

(* The lines of places are counted upwards: one more after each line end.   *)
LEMMA EndsBetween ==
    ASSUME NEW c, NEW j \in Nat, NEW k \in Nat, j <= k
    PROVE  /\ Cardinality(EndsBefore(c, j)) <= Cardinality(EndsBefore(c, k))
           /\ Cardinality(EndsBefore(c, j)) = Cardinality(EndsBefore(c, k))
                <=> \A i \in (j + 1)..k : c[i] \notin Ends
  <1>1. IsFiniteSet(EndsBefore(c, j)) /\ IsFiniteSet(EndsBefore(c, k))
        /\ Cardinality(EndsBefore(c, j)) \in Nat /\ Cardinality(EndsBefore(c, k)) \in Nat
    BY EndsFinite
  <1>2. EndsBefore(c, j) \subseteq EndsBefore(c, k)
    BY DEF EndsBefore
  <1>3. EndsBefore(c, j) = EndsBefore(c, k) <=> \A i \in (j + 1)..k : c[i] \notin Ends
    BY DEF EndsBefore
  <1>5. /\ Cardinality(EndsBefore(c, j)) <= Cardinality(EndsBefore(c, k))
        /\ Cardinality(EndsBefore(c, j)) = Cardinality(EndsBefore(c, k)) => EndsBefore(c, j) = EndsBefore(c, k)
    BY <1>1, <1>2, FS_Subset
  <1> QED
    BY <1>3, <1>5

(* Where the line of a place begins: after the last line end before it.     *)
LEMMA FromIs ==
    ASSUME NEW c, NEW k \in Nat, NEW s \in 0..k, s = 0 \/ c[s] \in Ends,
           \A i \in (s + 1)..k : c[i] \notin Ends
    PROVE  From(c, k) = s
  <1> DEFINE S == EndsBefore(c, k)
  <1>1. S \subseteq Nat /\ \A i \in S : i \in 1..k /\ i <= s
    BY DEF EndsBefore
  <1>2. CASE s = 0
    <2>1. S = {}
      <3>1. ASSUME NEW i \in S PROVE FALSE
        <4>1. i \in 1..k /\ i <= s
          BY <1>1
        <4> QED
          BY <1>2, <4>1
      <3> QED
        BY <3>1
    <2> QED
      BY <1>2, <2>1 DEF From
  <1>3. CASE s # 0
    <2>1. s \in S
      BY <1>3 DEF EndsBefore
    <2> HIDE DEF S
    <2>2. Max(S) = s
      BY <1>1, <2>1, MaxIs
    <2> QED
      BY <2>1, <2>2 DEF From, S
  <1> QED
    BY <1>2, <1>3

(* Between the beginning of the line of a place and the place there is no   *)
(* line end.                                                                *)
LEMMA FromFacts ==
    ASSUME NEW c, NEW k \in Nat
    PROVE  /\ From(c, k) \in 0..k /\ (From(c, k) = 0 \/ c[From(c, k)] \in Ends)
           /\ \A i \in (From(c, k) + 1)..k : c[i] \notin Ends
  <1> DEFINE S == EndsBefore(c, k)
  <1>1. S \subseteq 1..k /\ S \subseteq 0..k /\ S \subseteq Nat
    BY DEF EndsBefore
  <1>2. CASE S = {}
    <2>1. From(c, k) = 0
      BY <1>2 DEF From
    <2> QED
      BY <1>2, <2>1 DEF EndsBefore
  <1>3. CASE S # {}
    <2> HIDE DEF S
    <2>1. PICK m \in S : \A n \in S : n <= m
      BY <1>1, <1>3, GreatestNat
    <2>2. Max(S) = m
      BY <1>1, <2>1, MaxIs
    <2>3. From(c, k) = m
      BY <1>3, <2>2 DEF From, S
    <2>4. m \in 1..k /\ c[m] \in Ends
      BY <2>1 DEF S, EndsBefore
    <2>5. ASSUME NEW i \in (m + 1)..k PROVE c[i] \notin Ends
      <3>1. i \in 1..k /\ ~(i <= m)
        BY <2>4
      <3> QED
        BY <2>1, <3>1 DEF S, EndsBefore
    <2> QED
      BY <2>3, <2>4, <2>5
  <1> QED
    BY <1>2, <1>3
-----------------------------------------------------------------------------
(* The characters of a line have no newline among their bytes, a line end   *)
(* has one as its last byte.                                                *)
LEMMA NoNewlineWithin ==
    ASSUME NEW c \in Texts, NEW j \in 0..Len(c), NEW k \in 0..Len(c),
           \A i \in (j + 1)..k : c[i] \notin Ends
    PROVE  \A p \in (ByteOffset(c, j) + 1)..ByteOffset(c, k) : Bytes(c)[p] # "nl"
  <1> TAKE p \in (ByteOffset(c, j) + 1)..ByteOffset(c, k)
  <1>1. ByteOffset(c, k) \in 0..Len(Bytes(c)) /\ ByteOffset(c, j) \in 0..Len(Bytes(c)) /\ Len(Bytes(c)) \in Nat
        /\ Len(c) \in Nat
    BY OffsetsIncrease, BytesFacts DEF Texts
  <1>2. p \in 1..Len(Bytes(c))
    BY <1>1
  <1>3. PICK m \in 1..Len(c) :
              /\ c[m] \in DOMAIN Encode
              /\ ByteOffset(c, m - 1) < p /\ p <= ByteOffset(c, m)
              /\ p - ByteOffset(c, m - 1) \in 1..Len(Encode[c[m]])
              /\ Bytes(c)[p] = Encode[c[m]][p - ByteOffset(c, m - 1)]
    BY <1>2, ByteOfCharacter
  <1>4. m \in 0..Len(c) /\ m - 1 \in 0..Len(c)
    BY <1>1
  <1>5. ByteOffset(c, m) \in Nat /\ ByteOffset(c, m - 1) \in Nat
    BY <1>4, BytesFacts
  <1>6. ~(ByteOffset(c, m) <= ByteOffset(c, j)) /\ ~(ByteOffset(c, k) <= ByteOffset(c, m - 1))
    <2> DEFINE w == ByteOffset(c, m - 1)
               x == ByteOffset(c, m)
               y == ByteOffset(c, j)
               z == ByteOffset(c, k)
               n == Len(Bytes(c))
    <2>1. p \in (y + 1)..z /\ w < p /\ p <= x
      BY <1>3, Zenon
    <2>2. y \in 0..n /\ z \in 0..n /\ n \in Nat /\ x \in Nat /\ w \in Nat
      BY <1>1, <1>5, Zenon
    <2> HIDE DEF w, x, y, z, n
    <2>3. ~(x <= y) /\ ~(z <= w)
      BY ONLY <2>1, <2>2
    <2> QED
      BY <2>3 DEF w, x, y, z
  <1>7. ~(m <= j) /\ ~(k <= m - 1)
    BY <1>4, <1>6, OffsetsIncrease
  <1>8. m \in (j + 1)..k
    BY <1>1, <1>7
  <1> DEFINE i == p - ByteOffset(c, m - 1)
  <1>9. i \in 1..Len(Encode[c[m]]) /\ Bytes(c)[p] = Encode[c[m]][i] /\ c[m] \in DOMAIN Encode
    BY <1>3
  <1>10. c[m] \notin Ends
    BY <1>8
  <1> HIDE DEF i
  <1> QED
    BY <1>9, <1>10, EncodeNewline

(* A line end has a newline for its last byte, and no other.                *)
LEMMA NewlineOfEnd ==
    ASSUME NEW c \in Texts, NEW k \in 1..Len(c), c[k] \in Ends
    PROVE  /\ Bytes(c)[ByteOffset(c, k)] = "nl"
           /\ \A p \in (ByteOffset(c, k - 1) + 1)..(ByteOffset(c, k) - 1) : Bytes(c)[p] # "nl"
  <1> DEFINE e == Encode[c[k]]
             w == Len(e)
  <1>1. c[k] \in DOMAIN Encode
    BY DEF Texts
  <1>2. w \in 1..4 /\ \A i \in 1..w : e[i] = "nl" <=> i = w
    BY <1>1, EncodeFacts
  <1>3. ByteOffset(c, k) = ByteOffset(c, k - 1) + w /\ \A i \in 1..w : Bytes(c)[ByteOffset(c, k - 1) + i] = e[i]
    BY BytesFacts
  <1>4. ByteOffset(c, k - 1) \in Nat
    <2>1. k - 1 \in 0..Len(c)
      BY DEF Texts
    <2> QED
      BY <2>1, BytesFacts
  <1> HIDE DEF w, e
  <1>5. Bytes(c)[ByteOffset(c, k)] = "nl"
    BY <1>2, <1>3
  <1>6. ASSUME NEW p \in (ByteOffset(c, k - 1) + 1)..(ByteOffset(c, k) - 1) PROVE Bytes(c)[p] # "nl"
    <2> DEFINE i == p - ByteOffset(c, k - 1)
    <2>1. i \in 1..w /\ i # w /\ ByteOffset(c, k - 1) + i = p
      BY <1>2, <1>3, <1>4
    <2> HIDE DEF i
    <2> QED
      BY <1>2, <1>3, <2>1
  <1> QED
    BY <1>5, <1>6

(* The server and the client count the same lines ...                       *)
LEMMA LinesMatch ==
    ASSUME NEW c \in Texts
    PROVE  \A k \in 0..Len(c) : Newlines(Bytes(c), ByteOffset(c, k)) = Cardinality(EndsBefore(c, k))
  <1> DEFINE n == Len(c)
             b == Bytes(c)
             P == {k \in 0..n : Newlines(b, ByteOffset(c, k)) = Cardinality(EndsBefore(c, k))}
  <1>1. n \in Nat /\ \A k \in 0..n : ByteOffset(c, k) \in Nat
    BY BytesFacts DEF Texts
  <1>2. 0 \in P
    <2>1. ByteOffset(c, 0) = 0
      BY BytesFacts
    <2>2. {i \in 1..0 : b[i] = "nl"} = {} /\ EndsBefore(c, 0) = {}
      BY DEF EndsBefore
    <2> QED
      BY <1>1, <2>1, <2>2 DEF Newlines
  <1>3. ASSUME NEW k \in 0..(n - 1), k \in P PROVE k + 1 \in P
    <2> DEFINE o == ByteOffset(c, k)
               p == ByteOffset(c, k + 1)
    <2>1. k \in 0..n /\ k + 1 \in 1..n /\ k + 1 \in 0..n /\ (k + 1) - 1 = k /\ k \in Nat /\ k + 1 \in Nat
          /\ k <= k + 1
      BY <1>1
    <2>2. o \in Nat /\ p \in Nat /\ o < p
      <3>1. ~(p <= o)
        BY <2>1, OffsetsIncrease
      <3> QED
        BY <1>1, <2>1, <3>1
    <2>3. Newlines(b, o) = Cardinality(EndsBefore(c, k))
      BY <1>3
    <2>4. CASE c[k + 1] \notin Ends
      <3>1. \A i \in (k + 1)..(k + 1) : c[i] \notin Ends
        BY <2>4
      <3>2. \A q \in (o + 1)..p : b[q] # "nl"
        BY <2>1, <3>1, NoNewlineWithin
      <3> HIDE DEF o, p, b, n
      <3>3. Newlines(b, o) = Newlines(b, p)
        BY <2>2, <3>2, NewlinesBetween
      <3>4. Cardinality(EndsBefore(c, k)) = Cardinality(EndsBefore(c, k + 1))
        BY <2>1, <3>1, EndsBetween
      <3> QED
        BY <2>1, <2>3, <3>3, <3>4 DEF o, p, b, n
    <2>5. CASE c[k + 1] \in Ends
      <3>1. b[p] = "nl" /\ \A q \in (o + 1)..(p - 1) : b[q] # "nl"
        BY <2>1, <2>5, NewlineOfEnd
      <3> HIDE DEF o, p, b, n
      <3> DEFINE S(q) == {i \in 1..q : b[i] = "nl"}
      <3>2. S(p) = S(o) \cup {p} /\ p \notin S(o)
        BY <2>2, <3>1
      <3>3. IsFiniteSet(S(o)) /\ Newlines(b, o) = Cardinality(S(o)) /\ Newlines(b, p) = Cardinality(S(p))
        BY <2>2, NewlinesFinite DEF Newlines
      <3>4. Newlines(b, p) = Newlines(b, o) + 1
        <4> HIDE DEF S
        <4> QED
          BY <3>2, <3>3, FS_AddElement
      <3>5. EndsBefore(c, k + 1) = EndsBefore(c, k) \cup {k + 1} /\ k + 1 \notin EndsBefore(c, k)
        BY <2>1, <2>5 DEF EndsBefore
      <3>6. Cardinality(EndsBefore(c, k + 1)) = Cardinality(EndsBefore(c, k)) + 1
        BY <2>1, <3>5, EndsFinite, FS_AddElement
      <3> QED
        BY <2>1, <2>3, <3>4, <3>6 DEF o, p, b, n
    <2> QED
      BY <2>4, <2>5
  <1> HIDE DEF P
  <1>4. Upward(0, n, P)
    BY <1>2, <1>3 DEF Upward
  <1>5. 0..n \subseteq P
    BY <1>1, <1>4, UpwardInduction
  <1> QED
    BY <1>5 DEF P

(* ... that begin at the same places.                                       *)
LEMMA LineStartsMatch ==
    ASSUME NEW c \in Texts, NEW k \in 0..Len(c)
    PROVE  LineStart(Bytes(c), Cardinality(EndsBefore(c, k))) = ByteOffset(c, From(c, k))
  <1> DEFINE b == Bytes(c)
             f == From(c, k)
             o == ByteOffset(c, k)
             s == ByteOffset(c, f)
  <1>1. k \in Nat /\ Len(c) \in Nat
    BY DEF Texts
  <1>2. f \in 0..k /\ (f = 0 \/ c[f] \in Ends) /\ \A i \in (f + 1)..k : c[i] \notin Ends
    BY <1>1, FromFacts
  <1>3. f \in 0..Len(c) /\ f <= k
    BY <1>1, <1>2
  <1>4. o \in 0..Len(b) /\ s \in 0..o
    <2>1. s <= o /\ s \in 0..Len(b) /\ o \in 0..Len(b)
      BY <1>3, OffsetsIncrease
    <2>2. Len(b) \in Nat
      BY BytesFacts
    <2> QED
      BY <2>1, <2>2
  <1>5. s = 0 \/ b[s] = "nl"
    <2>1. CASE f = 0
      BY <2>1, BytesFacts
    <2>2. CASE f # 0
      <3>1. f \in 1..Len(c) /\ c[f] \in Ends
        BY <1>2, <1>3, <2>2
      <3> QED
        BY <3>1, NewlineOfEnd
    <2> QED
      BY <2>1, <2>2
  <1>6. \A p \in (s + 1)..o : b[p] # "nl"
    BY <1>2, <1>3, NoNewlineWithin
  <1>7. b \in Seq(ByteClass) /\ Newlines(b, o) = Cardinality(EndsBefore(c, k))
    BY BytesFacts, LinesMatch
  <1> HIDE DEF b, f, o, s
  <1>8. LineStart(b, Newlines(b, o)) = s
    BY <1>4, <1>5, <1>6, <1>7, LineStartIs
  <1> QED
    BY <1>7, <1>8 DEF b, f, o, s
-----------------------------------------------------------------------------
(* The column of a place, as the sum of the widths since its line began.    *)
LineSum(chars, from) ==
    LET sum[i \in from..Len(chars)] == IF i = from THEN 0 ELSE Width(chars[i]) + sum[i - 1]
    IN  sum

(* The width of a character: its bytes in UTF-8, one or two units in        *)
(* UTF-16, none for a line end.                                             *)
LEMMA WidthFacts ==
    ASSUME NEW x \in DOMAIN Encode
    PROVE  /\ Width(x) \in Nat
           /\ x \notin Ends => Width(x) > 0
           /\ x \notin Ends /\ encoding = "utf-8" => Width(x) = Len(Encode[x])
           /\ x \notin Ends /\ encoding # "utf-8" => Width(x) = IF x = "four" THEN 2 ELSE 1
  <1>1. Len(Encode[x]) \in 1..4
    BY EncodeLength
  <1> DEFINE w == Len(Encode[x])
  <1> HIDE DEF w
  <1>2. Width(x) = IF x \in Ends THEN 0 ELSE IF encoding = "utf-8" THEN w
                   ELSE IF x = "four" THEN 2 ELSE 1
    BY DEF Width, Ends, w
  <1>3. w \in Nat /\ w > 0
    BY <1>1 DEF w
  <1> QED
    BY <1>2, <1>3 DEF w

(* The sums are natural numbers: each adds the width of one character to    *)
(* the one before.                                                          *)
LEMMA LineSumFacts ==
    ASSUME NEW c \in Texts, NEW from \in 0..Len(c)
    PROVE  /\ LineSum(c, from) \in [from..Len(c) -> Nat]
           /\ LineSum(c, from)[from] = 0
           /\ \A i \in (from + 1)..Len(c) : LineSum(c, from)[i] = Width(c[i]) + LineSum(c, from)[i - 1]
  <1> DEFINE n == Len(c)
             X == from..n
             next == [i \in X |-> i - 1]
             size == [i \in X |-> i]
             base == [i \in X |-> 0]
             comb == [p \in X \X Nat |-> Width(c[p[1]]) + p[2]]
             sum[i \in X] == IF i = from THEN 0 ELSE Width(c[i]) + sum[i - 1]
  <1>1. n \in Nat /\ from \in X /\ X \subseteq Nat
    BY DEF Texts
  <1>2. ASSUME NEW i \in X \ {from}
        PROVE  Width(c[i]) \in Nat /\ i - 1 \in X /\ i - 1 < i /\ i \in X
    <2>1. i \in 1..n /\ i - 1 \in X
      BY <1>1
    <2>2. c[i] \in DOMAIN Encode
      BY <2>1 DEF Texts
    <2> QED
      BY <2>1, <2>2, WidthFacts
  <1>3. Descends(X, Nat, {from}, base, next, comb, size)
    <2>1. size \in [X -> Nat]
      BY <1>1
    <2>2. \A i \in X \ {from} : next[i] \in X /\ size[next[i]] < size[i]
      <3> HIDE DEF X
      <3> QED
        BY <1>2
    <2>3. ASSUME NEW i \in X \ {from}, NEW s \in Nat PROVE comb[<<i, s>>] \in Nat
      <3>1. <<i, s>> \in X \X Nat
        OBVIOUS
      <3>2. comb[<<i, s>>] = Width(c[i]) + s
        BY <3>1
      <3> HIDE DEF comb
      <3> QED
        BY <1>2, <3>2
    <2>4. \A i \in X : base[i] \in Nat
      OBVIOUS
    <2> HIDE DEF X, size, next, base, comb, sum
    <2> QED
      BY <2>1, <2>2, <2>3, <2>4 DEF Descends
  <1>4. PICK f \in [X -> Nat] : \A i \in X : f[i] = Step({from}, base, next, comb, f, i)
    <2> HIDE DEF X, size, next, base, comb, sum
    <2> QED
      BY <1>3, RecursionExists
  <1>5. ASSUME NEW i \in X PROVE f[i] = IF i = from THEN 0 ELSE Width(c[i]) + f[i - 1]
    <2>1. CASE i = from
      BY <1>4, <2>1 DEF Step
    <2>2. CASE i # from
      <3>1. next[i] = i - 1 /\ f[i - 1] \in Nat
        BY <1>2, <2>2
      <3>2. comb[<<i, f[i - 1]>>] = Width(c[i]) + f[i - 1]
        BY <3>1
      <3>3. f[i] = comb[<<i, f[next[i]]>>]
        <4> HIDE DEF X, next, base, comb, sum
        <4> QED
          BY <1>4, <2>2 DEF Step
      <3> QED
        BY <2>2, <3>1, <3>2, <3>3
    <2> QED
      BY <2>1, <2>2
  <1>6. f = [i \in X |-> IF i = from THEN 0 ELSE Width(c[i]) + f[i - 1]]
    BY <1>5
  <1>7. sum = [i \in X |-> IF i = from THEN 0 ELSE Width(c[i]) + sum[i - 1]]
    BY <1>6
  <1>8. LineSum(c, from) = sum
    BY DEF LineSum
  <1>9. sum[from] = 0
    BY <1>1, <1>7
  <1>10. \A i \in X \ {from} : sum[i] = Width(c[i]) + sum[i - 1]
    BY <1>7
  <1>11. DOMAIN sum = X
    BY <1>7
  <1> DEFINE P == {i \in X : sum[i] \in Nat}
  <1>12. X \subseteq P
    <2>1. from \in P
      BY <1>1, <1>9
    <2>2. ASSUME NEW i \in from..(n - 1), i \in P PROVE i + 1 \in P
      <3>1. i + 1 \in X \ {from} /\ (i + 1) - 1 = i
        BY <1>1
      <3> HIDE DEF sum, X
      <3>2. sum[i + 1] = Width(c[i + 1]) + sum[i]
        BY <1>10, <3>1
      <3> QED
        BY <1>2, <2>2, <3>1, <3>2
    <2> HIDE DEF P, sum
    <2>3. Upward(from, n, P)
      BY <2>1, <2>2 DEF Upward
    <2> QED
      BY <1>1, <2>3, UpwardInduction
  <1>13. sum \in [X -> Nat]
    <2>1. sum = [i \in X |-> sum[i]]
      BY <1>7
    <2> HIDE DEF sum, X
    <2> QED
      BY <1>12, <2>1
  <1>14. \A i \in (from + 1)..n : i \in X \ {from}
    BY <1>1
  <1> HIDE DEF sum
  <1> QED
    BY <1>8, <1>9, <1>10, <1>13, <1>14
-----------------------------------------------------------------------------
(* The position of a place, by the line ends before it.                     *)
LEMMA ClientPositionIs ==
    ASSUME NEW c, NEW k
    PROVE  /\ ClientPosition(c, k) = Position(Cardinality(EndsBefore(c, k)), LineSum(c, From(c, k))[k])
           /\ ClientPosition(c, k).line = Cardinality(EndsBefore(c, k))
           /\ ClientPosition(c, k).character = LineSum(c, From(c, k))[k]
  <1>1. ClientPosition(c, k) = Position(Cardinality(EndsBefore(c, k)), LineSum(c, From(c, k))[k])
    BY DEF ClientPosition, From, EndsBefore, LineSum, Ends
  <1> QED
    BY <1>1 DEF Position

(* Within a line every character widens the column; in UTF-8 by its bytes.  *)
LEMMA LineSumIncreases ==
    ASSUME NEW c \in Texts, NEW from \in 0..Len(c), NEW j \in from..Len(c), NEW k \in j..Len(c),
           \A i \in (from + 1)..k : c[i] \notin Ends
    PROVE  LET L == LineSum(c, from)
           IN  /\ L[j] \in Nat /\ L[k] \in Nat /\ L[j] + (k - j) <= L[k]
               /\ encoding = "utf-8" => L[k] - L[j] = ByteOffset(c, k) - ByteOffset(c, j)
  <1> DEFINE n == Len(c)
             L == LineSum(c, from)
             P == {m \in j..k : /\ L[j] + (m - j) <= L[m]
                                /\ encoding = "utf-8" => L[m] - L[j] = ByteOffset(c, m) - ByteOffset(c, j)}
  <1>1. n \in Nat /\ from \in Nat /\ j \in Nat /\ k \in Nat /\ from <= j /\ j <= k /\ k <= n
    BY DEF Texts
  <1>2. ASSUME NEW i \in from..n PROVE L[i] \in Nat /\ ByteOffset(c, i) \in Nat
    <2>1. i \in 0..n
      BY <1>1
    <2>2. L \in [from..n -> Nat]
      BY LineSumFacts
    <2> HIDE DEF L
    <2> QED
      BY <2>1, <2>2, BytesFacts
  <1>3. j \in P
    BY <1>1, <1>2
  <1>4. ASSUME NEW m \in j..(k - 1), m \in P PROVE m + 1 \in P
    <2>1. m + 1 \in (from + 1)..n /\ m + 1 \in (from + 1)..k /\ m + 1 \in 1..n /\ (m + 1) - 1 = m
          /\ m \in from..n /\ m + 1 \in from..n /\ m + 1 \in j..k
      BY <1>1
    <2>2. c[m + 1] \in DOMAIN Encode /\ c[m + 1] \notin Ends
      BY <2>1 DEF Texts
    <2> DEFINE w == Width(c[m + 1])
               l == Len(Encode[c[m + 1]])
               x == L[j]
               y == L[m]
               z == L[m + 1]
    <2>3. w \in Nat /\ w > 0 /\ (encoding = "utf-8" => w = l)
      BY <2>2, WidthFacts
    <2>4. z = w + y
      BY <2>1, LineSumFacts
    <2>5. ByteOffset(c, m + 1) = ByteOffset(c, m) + l
      BY <2>1, BytesFacts
    <2>6. x + (m - j) <= y /\ (encoding = "utf-8" => y - x = ByteOffset(c, m) - ByteOffset(c, j))
      BY <1>4
    <2>7. x \in Nat /\ y \in Nat /\ ByteOffset(c, m) \in Nat /\ ByteOffset(c, j) \in Nat
          /\ m \in Nat
      BY <1>1, <1>2, <2>1
    <2> HIDE DEF w, l, x, y, z
    <2>8. x + ((m + 1) - j) <= z
      BY <1>1, <2>3, <2>4, <2>6, <2>7
    <2>9. ASSUME encoding = "utf-8" PROVE z - x = ByteOffset(c, m + 1) - ByteOffset(c, j)
      <3> DEFINE u == ByteOffset(c, j)
                 v == ByteOffset(c, m)
                 o == ByteOffset(c, m + 1)
      <3>1. o = v + w /\ y - x = v - u /\ u \in Nat /\ v \in Nat
        BY <2>3, <2>5, <2>6, <2>7, <2>9
      <3> HIDE DEF u, v, o
      <3>2. z - x = o - u
        BY <2>3, <2>4, <2>7, <3>1
      <3> QED
        BY <3>2 DEF u, o
    <2> HIDE DEF L
    <2> QED
      BY <2>1, <2>8, <2>9 DEF x, z
  <1> HIDE DEF P
  <1>5. Upward(j, k, P)
    BY <1>3, <1>4 DEF Upward
  <1>6. k \in P
    BY <1>1, <1>5, UpwardInduction
  <1> QED
    BY <1>1, <1>2, <1>6 DEF P
-----------------------------------------------------------------------------
(* UTF16Len.                                                                *)

(* What the lead byte tells is one to four bytes and one or two units, two  *)
(* only with four.                                                          *)
LEMMA RuneFacts ==
    ASSUME NEW b
    PROVE  /\ RuneInfo(b).size \in 1..4 /\ RuneInfo(b).u16 \in 1..2
           /\ RuneInfo(b).u16 = 2 => RuneInfo(b).size = 4
  <1>1. CASE b = "l2"
    <2>1. RuneInfo(b) = [size |-> 2, u16 |-> 1]
      BY <1>1 DEF RuneInfo
    <2> QED
      BY <2>1
  <1>2. CASE b = "l3"
    <2>1. RuneInfo(b) = [size |-> 3, u16 |-> 1]
      BY <1>2 DEF RuneInfo
    <2> QED
      BY <2>1
  <1>3. CASE b = "l4"
    <2>1. RuneInfo(b) = [size |-> 4, u16 |-> 2]
      BY <1>3 DEF RuneInfo
    <2> QED
      BY <2>1
  <1>4. CASE b \notin {"l2", "l3", "l4"}
    <2>1. RuneInfo(b) = [size |-> 1, u16 |-> 1]
      BY <1>4 DEF RuneInfo
    <2> QED
      BY <2>1
  <1> QED
    BY <1>1, <1>2, <1>3, <1>4

(* UTF16Len goes through the bytes from rune to rune.                       *)
LEMMA UTF16Facts ==
    ASSUME NEW B, NEW s \in Seq(B)
    PROVE  \E f \in [Nat -> Nat] :
              /\ UTF16Len(s) = f[0]
              /\ \A i \in Nat : f[i] = IF i < Len(s)
                                       THEN RuneInfo(s[i + 1]).u16 + f[i + RuneInfo(s[i + 1]).size] ELSE 0
  <1> DEFINE n == Len(s)
             sz(i) == RuneInfo(s[i + 1]).size
             un(i) == RuneInfo(s[i + 1]).u16
             X == Nat
             stop == {i \in X : ~(i < n)}
             next == [i \in Nat |-> i + sz(i)]
             size == [i \in Nat |-> IF i < n THEN n - i ELSE 0]
             base == [i \in Nat |-> 0]
             comb == [p \in Nat \X Nat |-> un(p[1]) + p[2]]
             from[i \in Nat] == IF i < Len(s) THEN RuneInfo(s[i + 1]).u16 + from[i + RuneInfo(s[i + 1]).size] ELSE 0
  <1>1. n \in Nat
    OBVIOUS
  <1>2. ASSUME NEW i \in Nat
        PROVE  sz(i) \in Nat /\ sz(i) >= 1 /\ un(i) \in Nat
    <2>1. sz(i) \in 1..4 /\ un(i) \in 1..2
      BY RuneFacts
    <2> HIDE DEF sz, un
    <2> QED
      BY <2>1
  <1> HIDE DEF sz, un
  <1>3. Descends(X, Nat, stop, base, next, comb, size)
    <2>1. size \in [X -> Nat]
      BY <1>1
    <2>2. ASSUME NEW i \in X \ stop PROVE next[i] \in X /\ size[next[i]] < size[i]
      <3>1. i \in Nat /\ i < n /\ sz(i) \in Nat /\ sz(i) >= 1
        BY <1>2
      <3>2. next[i] = i + sz(i) /\ next[i] \in Nat
        BY <3>1
      <3> HIDE DEF next, from
      <3> QED
        BY <1>1, <3>1, <3>2
    <2>3. ASSUME NEW i \in X \ stop, NEW v \in Nat PROVE comb[<<i, v>>] \in Nat
      <3>1. i \in Nat /\ un(i) \in Nat
        BY <1>2
      <3>2. comb[<<i, v>>] = un(i) + v
        BY <3>1
      <3> HIDE DEF comb
      <3> QED
        BY <3>1, <3>2
    <2>4. \A i \in X : base[i] \in Nat
      OBVIOUS
    <2> HIDE DEF X, stop, next, size, base, comb, from
    <2> QED
      BY <2>1, <2>2, <2>3, <2>4 DEF Descends
  <1>4. PICK f \in [X -> Nat] : \A i \in X : f[i] = Step(stop, base, next, comb, f, i)
    <2> HIDE DEF X, stop, next, size, base, comb, from
    <2> QED
      BY <1>3, RecursionExists
  <1>5. ASSUME NEW i \in Nat
        PROVE  f[i] = IF i < n THEN un(i) + f[i + sz(i)] ELSE 0
    <2>1. CASE ~(i < n)
      <3>1. i \in stop /\ base[i] = 0
        BY <2>1
      <3> HIDE DEF stop, base
      <3> QED
        BY <1>4, <2>1, <3>1 DEF Step
    <2>2. CASE i < n
      <3>0. sz(i) \in Nat /\ sz(i) >= 1
        BY <1>2
      <3>1. i \notin stop /\ next[i] = i + sz(i)
        BY <2>2
      <3>4. next[i] \in Nat
        <4> DEFINE z == sz(i)
        <4>1. z \in Nat
          BY <3>0
        <4> HIDE DEF z
        <4>2. i + z \in Nat
          BY <4>1
        <4> QED
          BY <3>1, <4>2 DEF z
      <3> HIDE DEF stop, next
      <3>2. f[next[i]] \in Nat
        BY <3>4
      <3>3. comb[<<i, f[next[i]]>>] = un(i) + f[next[i]]
        BY <3>2
      <3> HIDE DEF comb
      <3> QED
        BY <1>4, <2>2, <3>1, <3>3 DEF Step
    <2> QED
      BY <2>1, <2>2
  <1>6. f = [i \in Nat |-> IF i < Len(s) THEN RuneInfo(s[i + 1]).u16 + f[i + RuneInfo(s[i + 1]).size] ELSE 0]
    BY <1>5 DEF sz, un
  <1>7. from = [i \in Nat |-> IF i < Len(s) THEN RuneInfo(s[i + 1]).u16 + from[i + RuneInfo(s[i + 1]).size] ELSE 0]
    BY <1>6
  <1>8. UTF16Len(s) = from[0]
    BY DEF UTF16Len
  <1>9. \A i \in Nat : from[i] = IF i < n THEN un(i) + from[i + sz(i)] ELSE 0
    BY <1>7 DEF sz, un
  <1>10. DOMAIN from = Nat /\ from = [i \in Nat |-> from[i]]
    BY <1>7
  <1> HIDE DEF from
  (* Its values are natural numbers: downwards from the end of s.           *)
  <1> DEFINE P == {i \in 0..n : \A j \in Nat : i <= j => from[j] \in Nat}
  <1>11. Downward(0, n, P)
    <2>1. n \in P
      <3>1. \A j \in Nat : n <= j => from[j] = 0
        <4>1. \A j \in Nat : n <= j => ~(j < n)
          BY ONLY <1>1
        <4> QED
          BY <1>9, <4>1, Zenon
      <3>2. n \in 0..n
        BY ONLY <1>1
      <3> QED
        BY <3>1, <3>2
    <2>2. ASSUME NEW i \in 0..(n - 1), i + 1 \in P PROVE i \in P
      <3> DEFINE z == sz(i)
                 u == un(i)
      <3>1. i \in Nat /\ i < n /\ i \in 0..n
        <4>1. n \in Nat /\ i \in 0..(n - 1)
          BY <1>1, <2>2, Zenon
        <4> HIDE DEF n, P
        <4> QED
          BY ONLY <4>1
      <3>2. z \in Nat /\ z >= 1 /\ u \in Nat
        BY <1>2, <3>1
      <3>3. from[i] = u + from[i + z]
        BY <1>9, <3>1
      <3>4. \A j \in Nat : i + 1 <= j => from[j] \in Nat
        BY <2>2
      <3> HIDE DEF z, u, P
      <3>5. i + z \in Nat /\ i + 1 <= i + z
        BY ONLY <3>1, <3>2
      <3>6. from[i] \in Nat
        <4> DEFINE v == from[i + z]
        <4>1. v \in Nat
          BY <3>4, <3>5
        <4> HIDE DEF v
        <4>2. u + v \in Nat
          BY <3>2, <4>1
        <4> QED
          BY <3>3, <4>2 DEF v
      <3>7. \A j \in Nat : i <= j => j = i \/ i + 1 <= j
        BY ONLY <3>1
      <3>8. \A j \in Nat : i <= j => from[j] \in Nat
        BY ONLY <3>4, <3>6, <3>7
      <3> QED
        BY <3>1, <3>8 DEF P
    <2> HIDE DEF P
    <2> QED
      BY <2>1, <2>2 DEF Downward
  <1>12. 0 \in P
    <2>1. 0..n \subseteq P /\ 0 \in 0..n
      <3> HIDE DEF P
      <3> QED
        BY <1>1, <1>11, DownwardInduction
    <2> QED
      BY <2>1
  <1>13. from \in [Nat -> Nat]
    <2>1. \A j \in Nat : from[j] \in Nat
      BY <1>12
    <2> QED
      BY <1>10, <2>1
  <1> QED
    BY <1>8, <1>9, <1>13 DEF sz, un
-----------------------------------------------------------------------------
(* A text is no longer in UTF-16 units than in bytes, but for a character   *)
(* that is cut off at its end; and no shorter than what it begins with.     *)
LEMMA UTF16LenBounds ==
    ASSUME NEW B, NEW s \in Seq(B)
    PROVE  UTF16Len(s) \in Nat /\ UTF16Len(s) <= Len(s) + 1
  <1> DEFINE n == Len(s)
             sz(i) == RuneInfo(s[i + 1]).size
             un(i) == RuneInfo(s[i + 1]).u16
  <1>1. PICK f : /\ f \in [Nat -> Nat]
              /\ UTF16Len(s) = f[0]
              /\ \A i \in Nat : f[i] = IF i < n THEN un(i) + f[i + sz(i)] ELSE 0
    BY UTF16Facts
  <1>2. n \in Nat
    OBVIOUS
  <1>3. ASSUME NEW i \in Nat PROVE sz(i) \in 1..4 /\ un(i) \in 1..2 /\ (un(i) = 2 => sz(i) = 4)
    BY RuneFacts
  <1> HIDE DEF sz, un
  <1>9. \A i \in Nat : f[i] \in Nat
    BY <1>1
  <1> DEFINE P == {i \in 0..n : \A j \in i..n : f[j] <= (n - j) + 1}
  <1>4. n \in P
    <2>1. f[n] = 0
      BY <1>1, <1>2
    <2> QED
      BY <1>2, <2>1
  <1>5. ASSUME NEW i \in 0..(n - 1), i + 1 \in P PROVE i \in P
    <2> DEFINE z == sz(i)
               u == un(i)
               v == f[i + z]
               w == f[i]
    <2>1. i \in Nat /\ i < n /\ i \in 0..n
      BY <1>2
    <2>2. z \in 1..4 /\ u \in 1..2 /\ (u = 2 => z = 4)
      BY <1>3, <2>1
    <2>3. w = u + v
      BY <1>1, <2>1
    <2>4. i + z \in Nat
      <3> HIDE DEF z
      <3> QED
        BY <2>1, <2>2
    <2>5. v \in Nat
      <3> HIDE DEF z
      <3> QED
        BY <1>9, <2>4
    <2>6. \A j \in (i + 1)..n : f[j] <= (n - j) + 1
      BY <1>5
    <2>7. i + z <= n => v <= (n - (i + z)) + 1
      <3> HIDE DEF z, P
      <3>1. i + z <= n => i + z \in (i + 1)..n
        BY <2>1, <2>2, <1>2
      <3> QED
        BY <2>6, <3>1
    <2>8. i + z > n => v = 0
      <3> HIDE DEF P
      <3>1. i + z > n => ~(i + z < n)
        BY <2>4, <1>2
      <3>2. f[i + z] = IF i + z < n THEN un(i + z) + f[i + z + sz(i + z)] ELSE 0
        BY <1>1, <2>4
      <3> QED
        BY <3>1, <3>2
    <2> HIDE DEF z, u, v, P, n
    <2>9. u + v <= (n - i) + 1
      BY ONLY <1>2, <2>1, <2>2, <2>4, <2>5, <2>7, <2>8
    <2>10. w <= (n - i) + 1
      BY <2>3, <2>9
    <2>11. \A j \in i..n : j = i \/ j \in (i + 1)..n
      BY ONLY <2>1, <1>2
    <2> QED
      BY <2>1, <2>6, <2>10, <2>11 DEF P
  <1> HIDE DEF P
  <1>6. Downward(0, n, P)
    BY <1>4, <1>5 DEF Downward
  <1>7. 0 \in P
    <2>1. 0..n \subseteq P
      BY <1>2, <1>6, DownwardInduction
    <2> QED
      BY <1>2, <2>1
  <1>8. f[0] \in Nat /\ f[0] <= n + 1
    <2>1. 0 \in 0..n /\ (n - 0) + 1 = n + 1
      BY <1>2
    <2> QED
      BY <1>7, <1>9, <2>1 DEF P
  <1> QED
    BY <1>1, <1>8

(* One sequence begins with the other.                                      *)
Begins(s, t) == Len(s) <= Len(t) /\ \A i \in 1..Len(s) : s[i] = t[i]

(* More bytes give at least as many units, even when the shorter stretch    *)
(* ends within a character.                                                 *)
LEMMA UTF16LenMonotone ==
    ASSUME NEW B, NEW s \in Seq(B), NEW t \in Seq(B), Begins(s, t)
    PROVE  UTF16Len(s) <= UTF16Len(t)
  <1> DEFINE n == Len(s)
             sz(i) == RuneInfo(s[i + 1]).size
             un(i) == RuneInfo(s[i + 1]).u16
             tz(i) == RuneInfo(t[i + 1]).size
             tn(i) == RuneInfo(t[i + 1]).u16
  <1>3. n \in Nat /\ Len(t) \in Nat /\ n <= Len(t)
    BY DEF Begins
  <1>4. ASSUME NEW i \in Nat PROVE sz(i) \in Nat /\ sz(i) >= 1 /\ un(i) \in Nat
    <2>1. sz(i) \in 1..4 /\ un(i) \in 1..2
      BY RuneFacts
    <2> DEFINE z == sz(i)
               u == un(i)
    <2> HIDE DEF z, u
    <2>2. z \in 1..4 /\ u \in 1..2
      BY <2>1 DEF z, u
    <2>3. z \in Nat /\ z >= 1 /\ u \in Nat
      BY <2>2
    <2> QED
      BY <2>3 DEF z, u
  <1>5. ASSUME NEW i \in Nat, i < n PROVE sz(i) = tz(i) /\ un(i) = tn(i)
    <2>1. i + 1 \in 1..n
      BY <1>3, <1>5
    <2>2. s[i + 1] = t[i + 1]
      BY <2>1 DEF Begins
    <2> QED
      BY <2>2
  <1>1. PICK f : /\ f \in [Nat -> Nat]
              /\ UTF16Len(s) = f[0]
              /\ \A i \in Nat : f[i] = IF i < n THEN un(i) + f[i + sz(i)] ELSE 0
    BY UTF16Facts
  <1>2. PICK g : /\ g \in [Nat -> Nat]
              /\ UTF16Len(t) = g[0]
              /\ \A i \in Nat : g[i] = IF i < Len(t) THEN tn(i) + g[i + tz(i)] ELSE 0
    BY UTF16Facts
  <1> HIDE DEF sz, un, tz, tn
  <1>11. \A i \in Nat : f[i] \in Nat /\ g[i] \in Nat
    BY <1>1, <1>2
  <1> DEFINE P == {i \in 0..n : \A j \in Nat : i <= j => f[j] <= g[j]}
  <1>6. n \in P
    <2>1. ASSUME NEW j \in Nat, n <= j PROVE f[j] <= g[j]
      <3>1. f[j] = 0 /\ g[j] \in Nat
        BY <1>1, <1>3, <1>11, <2>1
      <3> QED
        BY <3>1
    <2> QED
      BY <1>3, <2>1
  <1>7. ASSUME NEW i \in 0..(n - 1), i + 1 \in P PROVE i \in P
    <2> DEFINE z == sz(i)
               u == un(i)
               v == f[i + z]
               w == g[i + z]
    <2>1. i \in Nat /\ i < n /\ i \in 0..n /\ i < Len(t)
      <3> DEFINE q == Len(t)
      <3>1. n \in Nat /\ q \in Nat /\ n <= q
        BY <1>3
      <3> HIDE DEF n, q, P
      <3>2. i \in Nat /\ i < n /\ i \in 0..n /\ i < q
        BY <3>1
      <3> QED
        BY <3>2 DEF q
    <2>2. z \in Nat /\ z >= 1 /\ u \in Nat /\ z = tz(i) /\ u = tn(i)
      BY <1>4, <1>5, <2>1
    <2>3. f[i] = u + v
      BY <1>1, <2>1
    <2>4. g[i] = u + w
      BY <1>2, <2>1, <2>2
    <2>5. i + z \in Nat /\ i + 1 <= i + z
      <3>1. i \in Nat /\ z \in Nat /\ z >= 1
        BY <2>1, <2>2
      <3> HIDE DEF z, P, n
      <3> QED
        BY ONLY <3>1
    <2>6. \A j \in Nat : i + 1 <= j => f[j] <= g[j]
      BY <1>7
    <2> HIDE DEF P
    <2>7. v <= w /\ v \in Nat /\ w \in Nat
      BY <1>11, <2>5, <2>6
    <2> HIDE DEF v, w, u, z
    <2>8. u + v <= u + w
      BY <2>2, <2>7
    <2>9. f[i] <= g[i]
      BY <2>3, <2>4, <2>8
    <2>10. \A j \in Nat : i <= j => j = i \/ i + 1 <= j
      BY ONLY <2>1
    <2> QED
      BY <2>1, <2>6, <2>9, <2>10 DEF P
  <1> HIDE DEF P
  <1>8. Downward(0, n, P)
    BY <1>6, <1>7 DEF Downward
  <1>9. 0 \in P
    <2>1. 0..n \subseteq P
      BY <1>3, <1>8, DownwardInduction
    <2> QED
      BY <1>3, <2>1
  <1>10. f[0] <= g[0]
    BY <1>9 DEF P
  <1> QED
    BY <1>1, <1>2, <1>10

(* A stretch of a text.                                                     *)
LEMMA Stretch ==
    ASSUME NEW B, NEW b \in Seq(B), NEW x \in Nat, NEW y \in Nat, x <= y, y <= Len(b)
    PROVE  /\ SubSeq(b, x + 1, y) \in Seq(B) /\ Len(SubSeq(b, x + 1, y)) = y - x
           /\ \A i \in 1..(y - x) : SubSeq(b, x + 1, y)[i] = b[x + i]
  <1>1. x + 1 \in 1..(Len(b) + 1) /\ y \in x..Len(b)
    OBVIOUS
  <1>2. ASSUME NEW i \in 1..(y - x) PROVE SubSeq(b, x + 1, y)[i] = b[x + i]
    <2>1. SubSeq(b, x + 1, y)[i] = b[((x + 1) + i) - 1] /\ ((x + 1) + i) - 1 = x + i
      BY <1>1
    <2> QED
      BY <2>1
  <1> QED
    BY <1>1, <1>2

(* The UTF-16 length of whole characters of a line is the sum of their      *)
(* widths, and one more with the "\r" behind them.                          *)
LEMMA UTF16OfCharacters ==
    ASSUME NEW c \in Texts, NEW from \in 0..Len(c), NEW k \in from..Len(c), encoding # "utf-8",
           \A i \in (from + 1)..k : c[i] \notin Ends,
           NEW d \in {0, 1}, d = 1 => ByteOffset(c, k) < Len(Bytes(c)) /\ Bytes(c)[ByteOffset(c, k) + 1] = "cr"
    PROVE  UTF16Len(SubSeq(Bytes(c), ByteOffset(c, from) + 1, ByteOffset(c, k) + d)) = LineSum(c, from)[k] + d
  <1> DEFINE b == Bytes(c)
             O(i) == ByteOffset(c, i)
             L(i) == LineSum(c, from)[i]
             s == SubSeq(b, O(from) + 1, O(k) + d)
             n == Len(s)
             sz(i) == RuneInfo(s[i + 1]).size
             un(i) == RuneInfo(s[i + 1]).u16
  <1>1. Len(c) \in Nat /\ from \in Nat /\ k \in Nat /\ from <= k /\ k <= Len(c)
    BY DEF Texts
  <1>2. b \in Seq(ByteClass)
    BY BytesFacts
  <1>3. ASSUME NEW m \in from..k
        PROVE  O(m) \in Nat /\ O(from) <= O(m) /\ O(m) <= O(k) /\ O(k) <= Len(b) /\ L(m) \in Nat
               /\ m \in 0..Len(c)
    <2>1. m \in 0..Len(c) /\ from <= m /\ m <= k /\ from \in 0..Len(c) /\ k \in 0..Len(c)
      BY <1>1
    <2>2. O(m) \in Nat /\ O(from) <= O(m) /\ O(m) <= O(k)
      BY <2>1, OffsetsIncrease, BytesFacts
    <2>3. O(k) \in 0..Len(b)
      BY <2>1, OffsetsIncrease
    <2>4. LineSum(c, from) \in [from..Len(c) -> Nat] /\ m \in from..Len(c)
      BY <1>1, LineSumFacts
    <2>5. O(k) <= Len(b)
      BY <1>2, <2>3
    <2> QED
      BY <2>1, <2>2, <2>4, <2>5
  <1>4. from \in from..k /\ k \in from..k
    BY <1>1
  <1>5. /\ s \in Seq(ByteClass) /\ n = (O(k) + d) - O(from)
        /\ \A i \in 1..n : s[i] = b[O(from) + i]
    <2> DEFINE x == O(from)
               z == O(k)
               y == z + d
    <2>0. x \in Nat /\ z \in Nat /\ x <= z /\ z <= Len(b) /\ (d = 1 => z < Len(b))
      BY <1>3, <1>4
    <2>1. x \in Nat /\ y \in Nat /\ x <= y /\ y <= Len(b)
      <3> DEFINE l == Len(b)
      <3>1. l \in Nat
        BY <1>2
      <3> HIDE DEF l, x, z
      <3>2. z + d \in Nat /\ x <= z + d /\ z + d <= l
        BY <2>0, <3>1 DEF l
      <3> QED
        BY <2>0, <3>2 DEF l
    <2> HIDE DEF b, x, y
    <2>2. /\ SubSeq(b, x + 1, y) \in Seq(ByteClass) /\ Len(SubSeq(b, x + 1, y)) = y - x
          /\ \A i \in 1..(y - x) : SubSeq(b, x + 1, y)[i] = b[x + i]
      BY <1>2, <2>1, Stretch
    <2> QED
      BY <2>2 DEF x, y, z
  <1>7. ASSUME NEW m \in from..(k - 1)
        PROVE  /\ m \in from..k /\ m + 1 \in from..k
               /\ O(m) < O(k)
               /\ O(m) + sz(O(m) - O(from)) = O(m + 1)
               /\ L(m + 1) = un(O(m) - O(from)) + L(m)
    <2> DEFINE r == Len(c)
    <2>0. r \in Nat /\ from \in Nat /\ k \in Nat /\ from <= k /\ k <= r
      BY <1>1
    <2> HIDE DEF r
    <2>1a. m + 1 \in 1..r /\ (m + 1) - 1 = m /\ m \in from..k /\ m + 1 \in from..k
           /\ m + 1 \in (from + 1)..k /\ m + 1 \in (from + 1)..r /\ m \in 0..r /\ k \in 0..r /\ ~(k <= m)
      BY ONLY <2>0, m \in from..(k - 1)
    <2> USE DEF r
    <2>1. m + 1 \in 1..Len(c) /\ (m + 1) - 1 = m /\ m \in from..k /\ m + 1 \in from..k
          /\ m + 1 \in (from + 1)..k /\ m + 1 \in (from + 1)..Len(c) /\ m \in 0..Len(c) /\ k \in 0..Len(c) /\ ~(k <= m)
      BY ONLY <2>1a DEF r
    <2>2. c[m + 1] \in DOMAIN Encode /\ c[m + 1] \notin Ends
      <3>1. c[m + 1] \notin Ends
        BY <2>1
      <3>2. c[m + 1] \in DOMAIN Encode
        BY <2>1 DEF Texts
      <3> QED
        BY <3>1, <3>2
    <2> DEFINE e == Encode[c[m + 1]]
    <2>3. /\ Len(e) \in 1..4
          /\ RuneInfo(e[1]).size = Len(e)
          /\ RuneInfo(e[1]).u16 = Width(c[m + 1])
      <3>1. RuneInfo(e[1]).u16 = IF c[m + 1] = "four" THEN 2 ELSE 1
        BY <2>2, EncodeFacts
      <3>2. Width(c[m + 1]) = IF c[m + 1] = "four" THEN 2 ELSE 1
        BY <2>2, WidthFacts
      <3>3. Len(e) \in 1..4 /\ RuneInfo(e[1]).size = Len(e)
        BY <2>2, EncodeFacts
      <3> QED
        BY <3>1, <3>2, <3>3
    <2>4. O(m + 1) = O(m) + Len(e) /\ b[O(m) + 1] = e[1]
      <3> DEFINE w == Len(e)
      <3>0. w \in 1..4
        BY <2>3
      <3>1. 1 \in 1..w
        <4> HIDE DEF w
        <4> QED
          BY <3>0
      <3> QED
        BY <2>1, <3>1, BytesFacts
    <2>5. O(m) < O(k)
      <3>1. ~(O(k) <= O(m))
        BY <2>1, OffsetsIncrease
      <3> QED
        BY <1>3, <1>4, <2>1, <3>1
    <2>6. s[(O(m) - O(from)) + 1] = e[1]
      <3> DEFINE x == O(from)
                 y == O(m)
                 z == O(k)
      <3>1. x \in Nat /\ y \in Nat /\ z \in Nat /\ x <= y /\ y < z
        BY <1>3, <1>4, <2>1, <2>5
      <3> HIDE DEF x, y, z
      <3>2. (y - x) + 1 \in 1..((z + d) - x) /\ x + ((y - x) + 1) = y + 1
        BY <3>1
      <3> HIDE DEF s, b
      <3> QED
        BY <1>5, <2>4, <3>2 DEF x, y, z
    <2>7. L(m + 1) = Width(c[m + 1]) + L(m)
      BY <2>1, LineSumFacts
    <2> HIDE DEF s, e, b, L, O
    <2> QED
      BY <2>1, <2>3, <2>4, <2>5, <2>6, <2>7
  <1>6. PICK f : /\ f \in [Nat -> Nat]
              /\ UTF16Len(s) = f[0]
              /\ \A i \in Nat : f[i] = IF i < n THEN un(i) + f[i + sz(i)] ELSE 0
    <2> HIDE DEF s
    <2>1. s \in Seq(ByteClass)
      BY <1>5
    <2>2. \E g \in [Nat -> Nat] :
              /\ UTF16Len(s) = g[0]
              /\ \A i \in Nat : g[i] = IF i < n THEN un(i) + g[i + sz(i)] ELSE 0
      BY <2>1, UTF16Facts
    <2> QED
      BY <2>2
  <1> DEFINE P == {m \in from..k : f[O(m) - O(from)] + L(m) = L(k) + d}
  <1> HIDE DEF s, b, O, L, sz, un
  <1>8. k \in P
    <2> DEFINE x == O(from)
               z == O(k)
               i == z - x
    <2>1. x \in Nat /\ z \in Nat /\ x <= z
      BY <1>3, <1>4
    <2>2. n = (z + d) - x
      BY <1>5
    <2> HIDE DEF x, z, n
    <2>3. i \in Nat /\ n = i + d
      BY <2>1, <2>2
    <2>4. f[i] = d
      <3>1. CASE d = 0
        <4>1. ~(i < n)
          BY <2>3, <3>1
        <4> QED
          BY <1>6, <2>3, <3>1, <4>1
      <3>2. CASE d = 1
        <4>1. i + 1 \in 1..n /\ x + (i + 1) = z + 1
          BY <2>1, <2>3, <3>2
        <4>2. s[i + 1] = "cr"
          <5>1. s[i + 1] = b[O(from) + (i + 1)]
            BY <1>5, <4>1 DEF n
          <5>2. b[O(k) + 1] = "cr"
            BY <3>2 DEF b, O
          <5> QED
            BY <4>1, <5>1, <5>2 DEF x, z
        <4>3. sz(i) = 1 /\ un(i) = 1
          <5>1. RuneInfo("cr") = [size |-> 1, u16 |-> 1]
            BY DEF RuneInfo
          <5> QED
            BY <4>2, <5>1 DEF sz, un
        <4>4. i < n /\ i + 1 \in Nat /\ ~(i + 1 < n)
          BY <2>3, <3>2
        <4>5. f[i] = 1 + f[i + 1] /\ f[i + 1] = 0
          BY <1>6, <2>3, <4>3, <4>4
        <4> QED
          BY <3>2, <4>5
      <3> QED
        BY <3>1, <3>2
    <2>5. d + L(k) = L(k) + d
      <3>1. L(k) \in Nat
        BY <1>3, <1>4
      <3> QED
        BY <3>1
    <2> QED
      BY <1>4, <2>4, <2>5 DEF x, z
  <1>9. ASSUME NEW m \in from..(k - 1), m + 1 \in P PROVE m \in P
    <2> DEFINE x == O(from)
               y == O(m)
               z == O(k)
               i == y - x
               w == sz(i)
               u == un(i)
               o == O(m + 1)
               l == L(m)
               r == L(m + 1)
    <2>1. x \in Nat /\ y \in Nat /\ z \in Nat /\ x <= y /\ l \in Nat
      BY <1>3, <1>4, <1>7
    <2>2. y < z /\ y + w = o /\ r = u + l /\ m \in from..k
      BY <1>7
    <2>3. n = (z + d) - x
      BY <1>5
    <2>4. f[o - x] + r = L(k) + d
      BY <1>9
    <2>5. o \in Nat /\ x <= o
      BY <1>3, <1>7
    <2> HIDE DEF x, y, z, o, l, r, P, n
    <2>6. i \in Nat /\ i < n
      BY <2>1, <2>2, <2>3
    <2>7. f[i] = u + f[i + w]
      BY <1>6, <2>6
    <2>8. w \in 1..4 /\ u \in 1..2
      BY RuneFacts DEF sz, un
    <2> HIDE DEF u, w
    <2>9. i + w = o - x
      BY <2>1, <2>2, <2>5, <2>8
    <2>10. o - x \in Nat
      BY <2>5, <2>1
    <2> DEFINE v == f[o - x]
    <2>11. v \in Nat
      BY <1>6, <2>10
    <2>12. f[i] = u + v /\ v + r = L(k) + d
      BY <2>4, <2>7, <2>9
    <2> HIDE DEF v, i
    <2>13. (u + v) + l = v + r
      BY <2>1, <2>2, <2>8, <2>11
    <2> QED
      BY <2>2, <2>12, <2>13 DEF P, i, x, y, l
  <1> HIDE DEF P
  <1>10. Downward(from, k, P)
    BY <1>1, <1>8, <1>9 DEF Downward
  <1>11. from \in P
    <2>1. from..k \subseteq P
      BY <1>1, <1>10, DownwardInduction
    <2> QED
      BY <1>4, <2>1
  <1>12. f[O(from) - O(from)] + L(from) = L(k) + d
    BY <1>11 DEF P
  <1>13. L(from) = 0 /\ O(from) - O(from) = 0 /\ f[0] \in Nat
    <2>1. O(from) \in Nat
      BY <1>3, <1>4
    <2>2. L(from) = 0
      BY LineSumFacts DEF L
    <2> QED
      BY <1>6, <2>1, <2>2
  <1>14. f[0] = L(k) + d
    <2> DEFINE v == f[0]
               w == L(from)
    <2>1. v \in Nat /\ w = 0 /\ v + w = L(k) + d
      BY <1>12, <1>13
    <2> HIDE DEF v, w
    <2>2. v + w = v
      BY <2>1
    <2> QED
      BY <2>1, <2>2 DEF v
  <1> QED
    BY <1>6, <1>14 DEF s, b, O, L
-----------------------------------------------------------------------------
(* The length of a line up to a place is the client's column of it, and one *)
(* more with a "\r" behind the place, ...                                   *)
LEMMA UnitsOfStretch ==
    ASSUME NEW c \in Texts, NEW k \in 0..Len(c),
           NEW d \in {0, 1}, d = 1 => ByteOffset(c, k) < Len(Bytes(c)) /\ Bytes(c)[ByteOffset(c, k) + 1] = "cr"
    PROVE  Units(SubSeq(Bytes(c), ByteOffset(c, From(c, k)) + 1, ByteOffset(c, k) + d))
             = LineSum(c, From(c, k))[k] + d
  <1> DEFINE f == From(c, k)
             b == Bytes(c)
             x == ByteOffset(c, f)
             y == ByteOffset(c, k)
             v == LineSum(c, f)[k]
  <1>1. k \in Nat /\ Len(c) \in Nat
    BY DEF Texts
  <1>2. f \in 0..k /\ \A i \in (f + 1)..k : c[i] \notin Ends
    BY <1>1, FromFacts
  <1> HIDE DEF f
  <1>3. f \in 0..Len(c) /\ k \in f..Len(c) /\ f \in f..Len(c) /\ f <= k
    BY <1>1, <1>2
  <1>4. CASE encoding = "utf-8"
    <2>1. x \in Nat /\ y \in Nat /\ x <= y /\ y \in 0..Len(b) /\ b \in Seq(ByteClass)
      BY <1>3, OffsetsIncrease, BytesFacts
    <2>2. d = 1 => y < Len(b)
      OBVIOUS
    <2>3. Len(SubSeq(b, x + 1, y + d)) = (y + d) - x
      <3> DEFINE l == Len(b)
      <3>1. l \in Nat
        BY <2>1
      <3> HIDE DEF b, x, y
      <3>2. y + d \in Nat /\ x <= y + d /\ y + d <= l
        <4> HIDE DEF l
        <4> QED
          BY <2>1, <2>2, <3>1 DEF l
      <3> QED
        BY <2>1, <3>2, Stretch
    <2>4. v - LineSum(c, f)[f] = y - x /\ v \in Nat
      BY <1>2, <1>3, <1>4, LineSumIncreases
    <2>5. LineSum(c, f)[f] = 0
      BY <1>3, LineSumFacts
    <2> HIDE DEF v
    <2>6. v - 0 = y - x /\ v \in Nat
      BY <2>4, <2>5
    <2>7. v + d = (y + d) - x
      <3> HIDE DEF x, y
      <3> QED
        BY <2>1, <2>6
    <2> QED
      BY <1>4, <2>3, <2>7 DEF Units, v, f
  <1>5. CASE encoding # "utf-8"
    <2>1. UTF16Len(SubSeq(b, x + 1, y + d)) = v + d
      BY <1>2, <1>3, <1>5, UTF16OfCharacters
    <2> QED
      BY <1>5, <2>1 DEF Units, f
  <1> QED
    BY <1>4, <1>5

(* In particular, up to the place.                                          *)
LEMMA UnitsOfCharacters ==
    ASSUME NEW c \in Texts, NEW k \in 0..Len(c)
    PROVE  Units(SubSeq(Bytes(c), ByteOffset(c, From(c, k)) + 1, ByteOffset(c, k))) = LineSum(c, From(c, k))[k]
  <1>1. ByteOffset(c, k) \in Nat
    BY BytesFacts
  <1>2. LineSum(c, From(c, k))[k] \in Nat
    <2>1. k \in Nat /\ Len(c) \in Nat
      BY DEF Texts
    <2>2. From(c, k) \in 0..k
      BY <2>1, FromFacts
    <2>3. From(c, k) \in 0..Len(c) /\ k \in From(c, k)..Len(c)
      BY <2>1, <2>2
    <2> QED
      BY <2>3, LineSumFacts
  <1>3. ByteOffset(c, k) + 0 = ByteOffset(c, k) /\ LineSum(c, From(c, k))[k] + 0 = LineSum(c, From(c, k))[k]
    BY <1>1, <1>2
  <1>4. Units(SubSeq(Bytes(c), ByteOffset(c, From(c, k)) + 1, ByteOffset(c, k) + 0))
          = LineSum(c, From(c, k))[k] + 0
    BY UnitsOfStretch
  <1> QED
    BY <1>3, <1>4

(* ... so the server sends for the offset of a place what the client means  *)
(* by it.                                                                   *)
THEOREM PosForOffsetIs ==
    ASSUME NEW c \in Texts, NEW k \in 0..Len(c)
    PROVE  PosForOffset(Bytes(c), ByteOffset(c, k)) = ClientPosition(c, k)
  <1> DEFINE b == Bytes(c)
             o == ByteOffset(c, k)
             line == Cardinality(EndsBefore(c, k))
  <1>1. o \in 0..Len(b) /\ Newlines(b, o) = line
    BY OffsetsIncrease, LinesMatch
  <1>2. LineStart(b, line) = ByteOffset(c, From(c, k))
    BY LineStartsMatch
  <1>3. ~(o < 0) /\ ~(o > Len(b))
    BY <1>1
  <1>4. PosForOffset(b, o) = Position(line, Units(SubSeq(b, LineStart(b, line) + 1, o)))
    <2> HIDE DEF b, o, line
    <2> QED
      BY <1>1, <1>3 DEF PosForOffset
  <1>5. Units(SubSeq(b, LineStart(b, line) + 1, o)) = LineSum(c, From(c, k))[k]
    BY <1>2, UnitsOfCharacters
  <1> HIDE DEF b, o, line
  <1> QED
    BY <1>4, <1>5, ClientPositionIs DEF b, o, line

(* The columns of the places of a line are in the order of the places.      *)
LEMMA ColumnsIncrease ==
    ASSUME NEW c \in Texts, NEW j \in 0..Len(c), NEW k \in 0..Len(c),
           Cardinality(EndsBefore(c, j)) = Cardinality(EndsBefore(c, k)), j <= k
    PROVE  /\ From(c, j) = From(c, k)
           /\ ClientPosition(c, j).character \in Nat /\ ClientPosition(c, k).character \in Nat
           /\ ClientPosition(c, j).character + (k - j) <= ClientPosition(c, k).character
  <1> DEFINE f == From(c, j)
  <1>1. j \in Nat /\ k \in Nat /\ Len(c) \in Nat /\ j <= k /\ k <= Len(c)
    BY DEF Texts
  <1>2. f \in 0..j /\ (f = 0 \/ c[f] \in Ends) /\ \A i \in (f + 1)..j : c[i] \notin Ends
    BY <1>1, FromFacts
  <1>3. \A i \in (j + 1)..k : c[i] \notin Ends
    BY <1>1, EndsBetween
  <1> HIDE DEF f
  <1>4. f \in 0..k /\ f \in 0..Len(c) /\ j \in f..Len(c) /\ k \in j..Len(c)
    BY <1>1, <1>2
  <1>5. \A i \in (f + 1)..k : c[i] \notin Ends
    <2>1. \A i \in (f + 1)..k : i \in (f + 1)..j \/ i \in (j + 1)..k
      BY <1>1, <1>4
    <2> QED
      BY <1>2, <1>3, <2>1
  <1>6. From(c, k) = f
    BY <1>1, <1>2, <1>4, <1>5, FromIs
  <1>7. /\ LineSum(c, f)[j] \in Nat /\ LineSum(c, f)[k] \in Nat
        /\ LineSum(c, f)[j] + (k - j) <= LineSum(c, f)[k]
    BY <1>4, <1>5, LineSumIncreases
  <1>8. ClientPosition(c, j).character = LineSum(c, f)[j] /\ ClientPosition(c, k).character = LineSum(c, f)[k]
    BY <1>6, ClientPositionIs DEF f
  <1> QED
    BY <1>6, <1>7, <1>8 DEF f

(* A line has a place where it begins.                                      *)
LEMMA LineBegins ==
    ASSUME NEW c \in Texts, NEW line \in Nat, line <= Cardinality(EndsBefore(c, Len(c)))
    PROVE  \E k \in 0..Len(c) : ClientPosition(c, k).line = line /\ ClientPosition(c, k).character = 0
  <1> DEFINE n == Len(c)
             C(k) == Cardinality(EndsBefore(c, k))
             S == {k \in 0..n : line <= C(k)}
  <1>1. n \in Nat
    BY DEF Texts
  <1>2. n \in S /\ S \subseteq Nat
    BY <1>1
  <1>3. PICK k \in S : \A j \in S : k <= j
    <2> HIDE DEF S
    <2> QED
      BY <1>2, LeastNat
  <1>4. k \in 0..n /\ line <= C(k) /\ k \in Nat
    BY <1>1, <1>3
  <1>5. C(k) = line /\ From(c, k) = k
    <2>1. CASE k = 0
      <3>1. EndsBefore(c, k) = {}
        BY <2>1 DEF EndsBefore
      <3>2. C(k) = 0
        BY <3>1, FS_EmptySet
      <3>3. From(c, k) = 0
        BY <3>1 DEF From
      <3> QED
        BY <1>4, <2>1, <3>2, <3>3
    <2>2. CASE k # 0
      <3>1. k - 1 \in 0..n /\ k - 1 \in Nat /\ (k - 1) + 1 = k /\ k - 1 <= k /\ ~(k <= k - 1)
        BY <1>1, <1>4, <2>2
      <3>2. ~(line <= C(k - 1))
        <4> HIDE DEF C
        <4>1. k - 1 \notin S
          BY <1>3, <3>1
        <4> QED
          BY <3>1, <4>1
      <3>3. C(k - 1) \in Nat /\ C(k) \in Nat /\ IsFiniteSet(EndsBefore(c, k - 1))
        BY <1>4, <3>1, EndsFinite
      <3>4. c[k] \in Ends
        <4> SUFFICES ASSUME c[k] \notin Ends PROVE FALSE
          OBVIOUS
        <4>1. EndsBefore(c, k - 1) = EndsBefore(c, k)
          <5>1. \A i \in 1..k : i = k \/ i \in 1..(k - 1)
            BY <3>1
          <5>2. \A i \in 1..(k - 1) : i \in 1..k
            BY <3>1
          <5> QED
            BY <5>1, <5>2 DEF EndsBefore
        <4> QED
          BY <1>4, <3>2, <4>1
      <3>5. EndsBefore(c, k) = EndsBefore(c, k - 1) \cup {k} /\ k \notin EndsBefore(c, k - 1)
        <4>1. \A i \in 1..k : i = k \/ i \in 1..(k - 1)
          BY <3>1
        <4>2. k \in 1..k /\ k \notin 1..(k - 1) /\ \A i \in 1..(k - 1) : i \in 1..k
          BY <1>4, <2>2
        <4> QED
          BY <3>4, <4>1, <4>2 DEF EndsBefore
      <3>6. C(k) = C(k - 1) + 1
        BY <3>3, <3>5, FS_AddElement
      <3>7. From(c, k) = k
        <4>1. k \in 0..k /\ \A i \in (k + 1)..k : c[i] \notin Ends
          BY <1>4
        <4> QED
          BY <1>4, <3>4, <4>1, FromIs
      <3> DEFINE x == C(k)
                 y == C(k - 1)
      <3>8. x = y + 1 /\ ~(line <= y) /\ line <= x /\ x \in Nat /\ y \in Nat
        BY <1>4, <3>2, <3>3, <3>6
      <3> HIDE DEF x, y
      <3>9. x = line
        BY <3>8
      <3> QED
        BY <3>7, <3>9 DEF x
    <2> QED
      BY <2>1, <2>2
  <1>6. LineSum(c, k)[k] = 0
    BY <1>4, LineSumFacts
  <1>7. ClientPosition(c, k).line = line /\ ClientPosition(c, k).character = 0
    BY <1>5, <1>6, ClientPositionIs
  <1> QED
    BY <1>4, <1>7

(* A position as the protocol has it.                                       *)
Places == [line : Nat, character : Nat]

(* What a client means by a position it was sent or makes up.               *)
LEMMA ClientPlaceFacts ==
    ASSUME NEW c \in Texts, NEW pos \in Places
    PROVE  ClientPlace(c, pos) \in 0..Len(c)
  <1> DEFINE n == Len(c)
             last == ClientPosition(c, n).line
             line == IF pos.line > last THEN last ELSE pos.line
             here == {k \in 0..n : ClientPosition(c, k).line = line}
             fits == {k \in here : ClientPosition(c, k).character <= pos.character}
  <1>1. n \in Nat /\ pos.line \in Nat /\ pos.character \in Nat
    BY DEF Texts, Places
  <1>2. last = Cardinality(EndsBefore(c, n)) /\ last \in Nat
    BY <1>1, ClientPositionIs, EndsFinite
  <1>3. CASE pos.line > last
    <2>1. ClientPlace(c, pos) = n
      BY <1>3 DEF ClientPlace
    <2> QED
      BY <1>1, <2>1
  <1>4. CASE ~(pos.line > last)
    <2>1. ClientPlace(c, pos) = Max(fits)
      BY <1>4 DEF ClientPlace
    <2>2. PICK k \in 0..n : ClientPosition(c, k).line = pos.line /\ ClientPosition(c, k).character = 0
      <3>1. pos.line <= Cardinality(EndsBefore(c, n))
        BY <1>1, <1>2, <1>4
      <3> QED
        BY <1>1, <3>1, LineBegins
    <2>3. k \in fits /\ fits \subseteq 0..n /\ fits \subseteq Nat
      BY <1>1, <1>4, <2>2
    <2> HIDE DEF fits
    <2>4. PICK m \in fits : \A j \in fits : j <= m
      BY <1>1, <2>3, GreatestNat
    <2>5. Max(fits) = m
      BY <2>3, <2>4, MaxIs
    <2> QED
      BY <2>1, <2>3, <2>5
  <1> QED
    BY <1>3, <1>4

(* A position on a line, at a place or past the end of the line after it.   *)
Means(c, pos, k) ==
    /\ ClientPosition(c, k).line = pos.line
    /\ ClientPosition(c, k).character <= pos.character
    /\ \/ ClientPosition(c, k).character = pos.character
       \/ k = Len(c) \/ c[k + 1] \in Ends

(* A position that means a place is taken for that place and no other.      *)
LEMMA ClientPlaceIs ==
    ASSUME NEW c \in Texts, NEW pos \in Places, NEW k \in 0..Len(c), Means(c, pos, k)
    PROVE  ClientPlace(c, pos) = k
  <1> DEFINE n == Len(c)
             C(j) == Cardinality(EndsBefore(c, j))
             col(j) == ClientPosition(c, j).character
             last == ClientPosition(c, n).line
             line == IF pos.line > last THEN last ELSE pos.line
             here == {j \in 0..n : ClientPosition(c, j).line = line}
             fits == {j \in here : ClientPosition(c, j).character <= pos.character}
  <1>1. n \in Nat /\ pos.line \in Nat /\ pos.character \in Nat /\ k \in Nat /\ k <= n /\ n \in 0..n
    BY DEF Texts, Places
  <1>2. last = C(n) /\ pos.line = C(k) /\ C(k) <= C(n) /\ C(k) \in Nat /\ C(n) \in Nat
    BY <1>1, ClientPositionIs, EndsFinite, EndsBetween DEF Means
  <1>3. ~(pos.line > last) /\ line = pos.line
    <2> DEFINE x == C(k)
               y == C(n)
    <2> HIDE DEF x, y
    <2>1. last = y /\ pos.line = x /\ x <= y /\ x \in Nat /\ y \in Nat
      BY <1>2 DEF x, y
    <2>2. ~(x > y)
      BY <2>1
    <2> QED
      BY <2>1, <2>2
  <1>4. ClientPlace(c, pos) = Max(fits)
    BY <1>3 DEF ClientPlace
  <1>5. k \in fits
    BY <1>3 DEF Means
  <1>6. ASSUME NEW j \in fits PROVE j <= k
    <2> SUFFICES ASSUME ~(j <= k) PROVE FALSE
      OBVIOUS
    <2>1. j \in 0..n /\ k <= j /\ k < j /\ j \in Nat /\ k + 1 \in 0..n /\ k + 1 \in 1..n /\ k + 1 <= j /\ k + 1 \in Nat
      BY <1>1
    <2>2. C(j) = C(k)
      BY <1>2, <1>3, ClientPositionIs
    <2>3. col(k) + (j - k) <= col(j) /\ col(k) \in Nat /\ col(j) \in Nat
      BY <2>1, <2>2, ColumnsIncrease
    <2>4. col(j) <= pos.character
      OBVIOUS
    <2>5. col(k) # pos.character
      <3> DEFINE x == col(k)
                 y == col(j)
                 z == pos.character
      <3> HIDE DEF x, y, z
      <3>1. x + (j - k) <= y /\ x \in Nat /\ y \in Nat /\ y <= z /\ z \in Nat
        BY <1>1, <2>3, <2>4 DEF x, y, z
      <3>2. x # z
        BY ONLY <3>1, <2>1, <1>1
      <3> QED
        BY <3>2 DEF x, z
    <2>6. c[k + 1] \in Ends
      <3>1. k # n
        BY <1>1, <2>1
      <3> QED
        BY <2>5, <3>1 DEF Means
    <2>7. c[k + 1] \notin Ends
      <3>1. \A i \in (k + 1)..j : c[i] \notin Ends
        BY <1>1, <2>1, <2>2, EndsBetween
      <3>2. k + 1 \in (k + 1)..j
        BY <2>1
      <3> QED
        BY <3>1, <3>2
    <2> QED
      BY <2>6, <2>7
  <1>7. fits \subseteq Nat
    BY <1>1
  <1> HIDE DEF fits
  <1> QED
    BY <1>4, <1>5, <1>6, <1>7, MaxIs

(* The client takes the position of a place for that place.                 *)
LEMMA PlacesExact ==
    ASSUME NEW c \in Texts, NEW k \in 0..Len(c)
    PROVE  /\ ClientPosition(c, k) \in Places
           /\ ClientPlace(c, ClientPosition(c, k)) = k
           /\ InText(c, ClientPosition(c, k))
  <1> DEFINE p == ClientPosition(c, k)
  <1>1. k \in Nat /\ k <= k
    BY DEF Texts
  <1>2. p = Position(Cardinality(EndsBefore(c, k)), LineSum(c, From(c, k))[k])
    BY ClientPositionIs
  <1>3. Cardinality(EndsBefore(c, k)) \in Nat
    BY <1>1, EndsFinite
  <1>4. p.character \in Nat
    BY <1>1, ColumnsIncrease
  <1>5. p.line = Cardinality(EndsBefore(c, k)) /\ p.character = LineSum(c, From(c, k))[k]
    BY ClientPositionIs
  <1>6. p \in Places
    <2>1. Position(Cardinality(EndsBefore(c, k)), LineSum(c, From(c, k))[k]) \in Places
      BY <1>3, <1>4, <1>5 DEF Position, Places
    <2> QED
      BY <1>2, <2>1
  <1>7. Means(c, p, k)
    BY <1>4 DEF Means
  <1>8. ClientPlace(c, p) = k
    BY <1>6, <1>7, ClientPlaceIs
  <1> QED
    BY <1>6, <1>8 DEF InText
-----------------------------------------------------------------------------
(* The walk of OffsetForPosition along a line, and what a step of it does.  *)
Walk(src, pos) ==
    LET walk[at \in Nat \X Nat] ==
            IF at[1] < Len(src) /\ at[2] < pos.character /\ src[at[1] + 1] # "nl"
            THEN walk[<<at[1] + RuneInfo(src[at[1] + 1]).size, at[2] + RuneInfo(src[at[1] + 1]).u16>>]
            ELSE at[1]
    IN  walk

(* Every step of the walk goes on by a rune, within the line and the        *)
(* column.                                                                  *)
LEMMA WalkFacts ==
    ASSUME NEW B, NEW src \in Seq(B), NEW pos \in Places
    PROVE  \A o \in Nat, u \in Nat :
           /\ Walk(src, pos)[<<o, u>>] \in Nat
           /\ Walk(src, pos)[<<o, u>>] =
                 IF o < Len(src) /\ u < pos.character /\ src[o + 1] # "nl"
                 THEN Walk(src, pos)[<<o + RuneInfo(src[o + 1]).size, u + RuneInfo(src[o + 1]).u16>>]
                 ELSE o
  <1> DEFINE n == Len(src)
             sz(i) == RuneInfo(src[i + 1]).size
             un(i) == RuneInfo(src[i + 1]).u16
             go(o, u) == o < Len(src) /\ u < pos.character /\ src[o + 1] # "nl"
             X == Nat \X Nat
             stop == {at \in X : ~go(at[1], at[2])}
             next == [at \in X |-> <<at[1] + sz(at[1]), at[2] + un(at[1])>>]
             size == [at \in X |-> IF at[1] < n THEN n - at[1] ELSE 0]
             base == [at \in X |-> at[1]]
             comb == [p \in X \X Nat |-> p[2]]
  <1>1. n \in Nat
    OBVIOUS
  <1>2. ASSUME NEW i \in Nat
        PROVE  sz(i) \in Nat /\ sz(i) >= 1 /\ un(i) \in Nat
    <2>1. sz(i) \in 1..4 /\ un(i) \in 1..2
      BY RuneFacts
    <2> HIDE DEF sz, un
    <2> QED
      BY <2>1
  <1> HIDE DEF sz, un
  <1>3. ASSUME NEW at \in X
        PROVE  next[at] \in X /\ next[at] = <<at[1] + sz(at[1]), at[2] + un(at[1])>>
    <2> DEFINE o == at[1]
               u == at[2]
               z == sz(at[1])
               w == un(at[1])
    <2>1. o \in Nat /\ u \in Nat
      OBVIOUS
    <2>2. z \in Nat /\ w \in Nat
      BY <1>2, <2>1
    <2>3. next[at] = <<o + z, u + w>>
      OBVIOUS
    <2> HIDE DEF o, u, z, w, next
    <2>4. o + z \in Nat /\ u + w \in Nat
      BY <2>1, <2>2
    <2> QED
      BY <2>3, <2>4 DEF o, u, z, w
  <1>4. Descends(X, Nat, stop, base, next, comb, size)
    <2>1. size \in [X -> Nat]
      BY <1>1
    <2>2. ASSUME NEW at \in X \ stop PROVE next[at] \in X /\ size[next[at]] < size[at]
      <3> DEFINE o == at[1]
                 z == sz(at[1])
                 q == next[at][1]
      <3>1. o \in Nat /\ o < n
        OBVIOUS
      <3>2. z \in Nat /\ z >= 1
        BY <1>2, <3>1
      <3>3. next[at] \in X /\ q = o + z
        BY <1>3
      <3>4. size[at] = n - o /\ size[next[at]] = IF q < n THEN n - q ELSE 0
        <4> HIDE DEF next
        <4> QED
          BY <3>1, <3>3
      <3> HIDE DEF next, size, o, z, q, n
      <3>5. (IF q < n THEN n - q ELSE 0) < n - o
        BY <1>1, <3>1, <3>2, <3>3
      <3> QED
        BY <3>3, <3>4, <3>5
    <2>3. ASSUME NEW at \in X \ stop, NEW v \in Nat PROVE comb[<<at, v>>] \in Nat
      OBVIOUS
    <2>4. \A at \in X : base[at] \in Nat
      OBVIOUS
    <2> HIDE DEF X, stop, next, size, base, comb
    <2> QED
      BY <2>1, <2>2, <2>3, <2>4 DEF Descends
  <1>5. PICK f \in [X -> Nat] : \A at \in X : f[at] = Step(stop, base, next, comb, f, at)
    <2> HIDE DEF X, stop, next, size, base, comb
    <2> QED
      BY <1>4, RecursionExists
  <1>6. ASSUME NEW at \in X
        PROVE  f[at] = IF go(at[1], at[2]) THEN f[<<at[1] + sz(at[1]), at[2] + un(at[1])>>] ELSE at[1]
    <2>1. CASE ~go(at[1], at[2])
      <3>1. at \in stop /\ base[at] = at[1]
        BY <2>1
      <3> HIDE DEF stop, base, go
      <3> QED
        BY <1>5, <2>1, <3>1 DEF Step
    <2>2. CASE go(at[1], at[2])
      <3>1. at \notin stop
        BY <2>2
      <3>2. next[at] \in X /\ next[at] = <<at[1] + sz(at[1]), at[2] + un(at[1])>>
        BY <1>3
      <3> HIDE DEF stop, next, go
      <3>3. comb[<<at, f[next[at]]>>] = f[next[at]]
        BY <3>2
      <3> HIDE DEF comb
      <3> QED
        BY <1>5, <2>2, <3>1, <3>2, <3>3 DEF Step
    <2> QED
      BY <2>1, <2>2
  <1>7. f = [at \in Nat \X Nat |->
               IF at[1] < Len(src) /\ at[2] < pos.character /\ src[at[1] + 1] # "nl"
               THEN f[<<at[1] + RuneInfo(src[at[1] + 1]).size, at[2] + RuneInfo(src[at[1] + 1]).u16>>]
               ELSE at[1]]
    BY <1>6 DEF sz, un
  <1> DEFINE walk[at \in Nat \X Nat] ==
               IF at[1] < Len(src) /\ at[2] < pos.character /\ src[at[1] + 1] # "nl"
               THEN walk[<<at[1] + RuneInfo(src[at[1] + 1]).size, at[2] + RuneInfo(src[at[1] + 1]).u16>>]
               ELSE at[1]
  <1>8. walk = [at \in Nat \X Nat |->
               IF at[1] < Len(src) /\ at[2] < pos.character /\ src[at[1] + 1] # "nl"
               THEN walk[<<at[1] + RuneInfo(src[at[1] + 1]).size, at[2] + RuneInfo(src[at[1] + 1]).u16>>]
               ELSE at[1]]
    BY <1>7
  <1>9. Walk(src, pos) = walk
    BY DEF Walk
  <1> HIDE DEF walk
  <1>10. ASSUME NEW o \in Nat, NEW u \in Nat
         PROVE walk[<<o, u>>] = IF o < Len(src) /\ u < pos.character /\ src[o + 1] # "nl"
                 THEN walk[<<o + RuneInfo(src[o + 1]).size, u + RuneInfo(src[o + 1]).u16>>]
                 ELSE o
    <2>1. <<o, u>> \in Nat \X Nat /\ <<o, u>>[1] = o /\ <<o, u>>[2] = u
      OBVIOUS
    <2> QED
      BY <1>8, <2>1
  <1> DEFINE P == {at \in X : walk[at] \in Nat}
  <1>11. ASSUME NEW at \in X, \A y \in X : size[y] < size[at] => y \in P
         PROVE  at \in P
    <2>1. CASE ~go(at[1], at[2])
      <3>1. walk[at] = at[1]
        BY <1>8, <2>1
      <3> QED
        BY <3>1
    <2>2. CASE go(at[1], at[2])
      <3>1. walk[at] = walk[next[at]]
        BY <1>3, <1>8, <2>2 DEF sz, un
      <3>2. next[at] \in X /\ size[next[at]] < size[at]
        <4>1. at \in X \ stop
          BY <2>2
        <4> HIDE DEF X, stop, next, size, base, comb
        <4> QED
          BY <1>4, <4>1 DEF Descends
      <3>3. next[at] \in P
        <4> HIDE DEF P, next, size, X
        <4> QED
          BY <1>11, <3>2
      <3> HIDE DEF next
      <3> QED
        BY <3>1, <3>3
    <2> QED
      BY <2>1, <2>2
  <1>12. X \subseteq P
    <2>1. size \in [X -> Nat]
      BY <1>4 DEF Descends
    <2> HIDE DEF P, X, size
    <2> QED
      BY <1>11, <2>1, DescentInduction
  <1>13. ASSUME NEW o \in Nat, NEW u \in Nat PROVE walk[<<o, u>>] \in Nat
    <2>1. <<o, u>> \in X
      OBVIOUS
    <2> HIDE DEF X
    <2> QED
      BY <1>12, <2>1
  <1> QED
    BY <1>9, <1>10, <1>13

(* The lead byte of a character tells how far the next one is and how wide  *)
(* it is.                                                                   *)
LEMMA CharacterStep ==
    ASSUME NEW c \in Texts, NEW m \in 0..(Len(c) - 1), c[m + 1] \notin Ends
    PROVE  /\ ByteOffset(c, m) + RuneInfo(Bytes(c)[ByteOffset(c, m) + 1]).size = ByteOffset(c, m + 1)
           /\ encoding # "utf-8" => RuneInfo(Bytes(c)[ByteOffset(c, m) + 1]).u16 = Width(c[m + 1])
  <1> DEFINE e == Encode[c[m + 1]]
             w == Len(e)
  <1>1. m + 1 \in 1..Len(c) /\ (m + 1) - 1 = m
    BY DEF Texts
  <1>2. c[m + 1] \in DOMAIN Encode
    BY <1>1 DEF Texts
  <1>3. w \in 1..4 /\ RuneInfo(e[1]).size = w /\ RuneInfo(e[1]).u16 = IF c[m + 1] = "four" THEN 2 ELSE 1
    BY <1>2, EncodeFacts
  <1>4. 1 \in 1..w
    <2> HIDE DEF w
    <2> QED
      BY <1>3
  <1>5. ByteOffset(c, m + 1) = ByteOffset(c, m) + w /\ Bytes(c)[ByteOffset(c, m) + 1] = e[1]
    <2>1. PICK i \in 1..Len(c) : i = m + 1 /\ i - 1 = m
      BY <1>1
    <2>2. ByteOffset(c, i) = ByteOffset(c, i - 1) + w /\ Bytes(c)[ByteOffset(c, i - 1) + 1] = e[1]
      BY <2>1, <1>4, BytesFacts
    <2> QED
      BY <2>1, <2>2
  <1>6. encoding # "utf-8" => Width(c[m + 1]) = IF c[m + 1] = "four" THEN 2 ELSE 1
    BY <1>2, WidthFacts
  <1> HIDE DEF w, e
  <1> QED
    BY <1>3, <1>5, <1>6
-----------------------------------------------------------------------------
(* A position the server reads as the client means it: at a place of the    *)
(* line, or, in UTF-16, past the end of a line that ends without "\r".      *)
ReadsAs(c, pos, k) ==
    /\ ClientPosition(c, k).line = pos.line
    /\ \/ ClientPosition(c, k).character = pos.character
       \/ /\ encoding # "utf-8"
          /\ ClientPosition(c, k).character <= pos.character
          /\ k = Len(c) \/ c[k + 1] = "nl"

(* The walk from the beginning of a line to a place of it stops there.      *)
LEMMA WalkIs ==
    ASSUME NEW c \in Texts, NEW pos \in Places, NEW k \in 0..Len(c), ReadsAs(c, pos, k),
           encoding # "utf-8"
    PROVE  Walk(Bytes(c), pos)[<<ByteOffset(c, From(c, k)), 0>>] = ByteOffset(c, k)
  <1> DEFINE b == Bytes(c)
             n == Len(c)
             from == From(c, k)
             O(i) == ByteOffset(c, i)
             L(i) == LineSum(c, from)[i]
             u == pos.character
             W(o, v) == Walk(b, pos)[<<o, v>>]
             sz(o) == RuneInfo(b[o + 1]).size
             un(o) == RuneInfo(b[o + 1]).u16
  <1>1. n \in Nat /\ k \in Nat /\ k <= n /\ u \in Nat
    BY DEF Texts, Places
  <1>2. from \in 0..k /\ \A i \in (from + 1)..k : c[i] \notin Ends
    BY <1>1, FromFacts
  <1> HIDE DEF from
  <1>3. from \in 0..n /\ from \in Nat /\ from <= k
    BY <1>1, <1>2
  <1>4. ASSUME NEW o \in Nat, NEW v \in Nat
        PROVE  W(o, v) = IF o < Len(b) /\ v < u /\ b[o + 1] # "nl" THEN W(o + sz(o), v + un(o)) ELSE o
    <2>1. b \in Seq(ByteClass)
      BY BytesFacts
    <2> HIDE DEF b
    <2> QED
      BY <2>1, WalkFacts
  <1>5. ASSUME NEW m \in from..k PROVE O(m) \in 0..Len(b) /\ L(m) \in Nat /\ m \in 0..n /\ m \in Nat
    <2>1. m \in 0..n /\ m \in from..n /\ m \in Nat
      BY <1>1, <1>3
    <2>2. O(m) \in 0..Len(b)
      BY <2>1, OffsetsIncrease
    <2>3. LineSum(c, from) \in [from..n -> Nat]
      BY <1>3, LineSumFacts
    <2> QED
      BY <2>1, <2>2, <2>3
  <1>6. Len(b) \in Nat
    BY BytesFacts
  <1>7. L(k) = ClientPosition(c, k).character
    BY ClientPositionIs DEF from
  <1> DEFINE P == {m \in from..k : W(O(m), L(m)) = O(k)}
  <1>8. k \in P
    <2>1. k \in from..k
      BY <1>1, <1>3
    <2>2. O(k) \in Nat /\ L(k) \in Nat
      BY <1>5, <1>6, <2>1
    <2>3. ~(O(k) < Len(b) /\ L(k) < u /\ b[O(k) + 1] # "nl")
      <3>1. CASE L(k) = u
        <4> DEFINE l == L(k)
        <4> HIDE DEF l, u
        <4>1. l = u /\ l \in Nat
          BY <2>2, <3>1 DEF l
        <4>2. ~(l < u)
          BY <4>1
        <4> QED
          BY <4>2 DEF l
      <3>2. CASE k = n
        <4>1. O(k) = Len(b)
          BY <3>2, BytesFacts
        <4>2. ~(O(k) < Len(b))
          BY <1>6, <4>1
        <4> QED
          BY <4>2
      <3>3. CASE k # n /\ c[k + 1] = "nl"
        <4>1. k + 1 \in 1..n /\ (k + 1) - 1 = k
          BY <1>1, <3>3
        <4>2. Encode["nl"] = <<"nl">>
          BY DEF Encode
        <4>3. Len(<<"nl">>) = 1 /\ <<"nl">>[1] = "nl"
          OBVIOUS
        <4> DEFINE e == Encode[c[k + 1]]
        <4>4. Len(e) = 1 /\ e[1] = "nl"
          BY <3>3, <4>2, <4>3
        <4>5. 1 \in 1..Len(e)
          <5> HIDE DEF e
          <5> QED
            BY <4>4
        <4> HIDE DEF e
        <4>6. b[O(k) + 1] = e[1]
          <5>1. \A i \in 1..Len(e) : b[ByteOffset(c, (k + 1) - 1) + i] = e[i]
            BY <4>1, BytesFacts, Zenon DEF e
          <5>2. b[ByteOffset(c, (k + 1) - 1) + 1] = e[1]
            BY <4>5, <5>1, Zenon
          <5> QED
            BY <4>1, <5>2, Zenon
        <4> QED
          BY <4>4, <4>6
      <3> QED
        BY <1>7, <3>1, <3>2, <3>3 DEF ReadsAs
    <2> HIDE DEF W, O, L, b, u
    <2>4. W(O(k), L(k)) = O(k)
      BY <1>4, <2>2, <2>3
    <2> QED
      BY <2>1, <2>4
  <1>9. ASSUME NEW m \in from..(k - 1), m + 1 \in P PROVE m \in P
    <2>1. m \in from..k /\ m + 1 \in from..k /\ m \in 0..(n - 1) /\ m \in 0..n /\ k \in 0..n
          /\ m + 1 \in (from + 1)..k /\ m + 1 \in (from + 1)..n /\ (m + 1) - 1 = m /\ ~(k <= m) /\ m < k
          /\ m \in from..n /\ k \in m..n /\ m + 1 \in 1..n /\ m \in Nat
      BY <1>1, <1>3
    <2>2. c[m + 1] \notin Ends /\ c[m + 1] \in DOMAIN Encode
      <3>1. c[m + 1] \in DOMAIN Encode
        BY <2>1 DEF Texts
      <3> QED
        BY <1>2, <2>1, <3>1
    <2> DEFINE x == O(m)
               y == O(k)
               l == L(m)
               r == L(k)
               z == sz(O(m))
               w == un(O(m))
    <2>3. x \in Nat /\ y \in Nat /\ y <= Len(b) /\ l \in Nat /\ r \in Nat
      <3>1. k \in from..k
        BY <1>1, <1>3
      <3>2. O(m) \in 0..Len(b) /\ O(k) \in 0..Len(b) /\ L(m) \in Nat /\ L(k) \in Nat
        BY <1>5, <2>1, <3>1
      <3> HIDE DEF O, b
      <3> QED
        BY <1>6, <3>2
    <2>4. x < y
      <3>1. ~(O(k) <= O(m))
        BY <2>1, OffsetsIncrease
      <3> HIDE DEF O
      <3> QED
        BY <2>3, <3>1
    <2>5. l + (k - m) <= r
      BY <1>2, <1>3, <2>1, LineSumIncreases
    <2>6. r <= u
      <3>1. r = u \/ r <= u
        BY <1>7 DEF ReadsAs
      <3> HIDE DEF r, u
      <3> QED
        BY <1>1, <2>3, <3>1
    <2>7. b[x + 1] # "nl"
      <3>1. k \in 0..n /\ \A i \in (from + 1)..k : c[i] \notin Ends
        BY <1>2, <2>1
      <3>2. \A p \in (O(from) + 1)..O(k) : b[p] # "nl"
        BY <1>3, <3>1, NoNewlineWithin
      <3>3. O(from) \in Nat /\ O(from) <= x
        <4>1. from <= m
          BY <1>3, <2>1
        <4> QED
          BY <1>3, <2>1, <4>1, OffsetsIncrease, BytesFacts
      <3> DEFINE f == O(from)
      <3> HIDE DEF f, x, y, b
      <3>4. x + 1 \in (f + 1)..y
        BY <2>3, <2>4, <3>3 DEF f
      <3> QED
        BY <3>2, <3>4 DEF f, y
    <2>8. x + z = O(m + 1) /\ w = Width(c[m + 1])
      BY <2>1, <2>2, CharacterStep
    <2>9. L(m + 1) = Width(c[m + 1]) + l /\ Width(c[m + 1]) \in Nat
      BY <1>3, <2>1, <2>2, LineSumFacts, WidthFacts
    <2>10. l + w = L(m + 1)
      <3> DEFINE v == Width(c[m + 1])
      <3> HIDE DEF v, w, l
      <3>1. L(m + 1) = v + l /\ w = v /\ v \in Nat
        BY <2>8, <2>9 DEF v
      <3> QED
        BY <2>3, <3>1
    <2>11. W(O(m + 1), L(m + 1)) = y
      BY <1>9
    <2>12. x < Len(b) /\ l < u
      <3> HIDE DEF x, y, l, r, u, b
      <3> QED
        BY <1>1, <1>6, <2>1, <2>3, <2>4, <2>5, <2>6
    <2>13. W(x, l) = W(x + z, l + w)
      <3> HIDE DEF W, b, u, O, L
      <3> QED
        BY <1>4, <2>3, <2>7, <2>12 DEF x, l
    <2>14. W(x, l) = y
      <3> HIDE DEF W, L, O, w, z
      <3> QED
        BY <2>8, <2>10, <2>11, <2>13
    <2> HIDE DEF W, O, L
    <2> QED
      BY <2>1, <2>14
  <1> HIDE DEF P
  <1>10. Downward(from, k, P)
    BY <1>1, <1>3, <1>8, <1>9 DEF Downward
  <1>11. from \in P
    <2>1. from..k \subseteq P /\ from \in from..k
      BY <1>1, <1>3, <1>10, DownwardInduction
    <2> QED
      BY <2>1
  <1>12. L(from) = 0
    BY <1>3, LineSumFacts
  <1> QED
    BY <1>11, <1>12 DEF P, from

(* The server reads a position as the client means it.                      *)
THEOREM OffsetForIs ==
    ASSUME NEW c \in Texts, NEW pos \in Places, NEW k \in 0..Len(c), ReadsAs(c, pos, k)
    PROVE  OffsetFor(Bytes(c), pos) = ByteOffset(c, k)
  <1> DEFINE b == Bytes(c)
             from == From(c, k)
             start == LineStart(b, pos.line)
             x == ByteOffset(c, from)
             y == ByteOffset(c, k)
             r == LineSum(c, from)[k]
  <1>1. k \in Nat /\ Len(c) \in Nat /\ k <= Len(c)
    BY DEF Texts
  <1>2. from \in 0..k /\ \A i \in (from + 1)..k : c[i] \notin Ends
    BY <1>1, FromFacts
  <1>3. pos.line = Cardinality(EndsBefore(c, k))
    BY ClientPositionIs DEF ReadsAs
  <1>4. start = x
    BY <1>3, LineStartsMatch
  <1>5. from \in 0..Len(c) /\ from \in from..Len(c) /\ k \in from..Len(c)
    BY <1>1, <1>2
  <1>6. x \in Nat /\ y \in 0..Len(b) /\ Len(b) \in Nat
    BY <1>5, OffsetsIncrease, BytesFacts
  <1>7. ~(start < 0)
    <2> HIDE DEF x, start
    <2> QED
      BY <1>4, <1>6
  <1>8. CASE encoding = "utf-8"
    <2>1. pos.character = r
      BY <1>8, ClientPositionIs DEF ReadsAs
    <2>2. r - LineSum(c, from)[from] = y - x /\ r \in Nat
      BY <1>2, <1>5, <1>8, LineSumIncreases
    <2>3. LineSum(c, from)[from] = 0
      BY <1>5, LineSumFacts
    <2> HIDE DEF x, y, r, start, b
    <2>4. x + r = y /\ ~(y > Len(b))
      BY <1>6, <2>2, <2>3
    <2>5. LineStart(b, pos.line) + pos.character = y
      BY <1>4, <2>1, <2>4 DEF start
    <2> QED
      BY <1>7, <1>8, <2>4, <2>5 DEF OffsetFor, OffsetForPositionBytes, start, y, b
  <1>9. CASE encoding # "utf-8"
    <2>1. Walk(b, pos)[<<x, 0>>] = y
      BY <1>9, WalkIs
    <2>2. OffsetFor(b, pos) = Walk(b, pos)[<<start, 0>>]
      <3>1. OffsetFor(b, pos) = OffsetForPosition(b, pos)
        BY <1>9 DEF OffsetFor
      <3>2. OffsetForPosition(b, pos) = IF start < 0 THEN -1 ELSE Walk(b, pos)[<<start, 0>>]
        BY DEF OffsetForPosition, Walk
      <3> HIDE DEF start
      <3> QED
        BY <1>7, <3>1, <3>2
    <2> QED
      BY <1>4, <2>1, <2>2
  <1> QED
    BY <1>8, <1>9
-----------------------------------------------------------------------------
(* What NodePos says of an offset.                                          *)
LEMMA NodePosFits ==
    ASSUME NEW B, NEW src \in Seq(B), NEW off \in 0..Len(src)
    PROVE  /\ NodePos(src, off).offset = off
           /\ NodePos(src, off).line \in {0, Newlines(src, off) + 1}
           /\ NodePos(src, off).col \in {0, off - LineStart(src, Newlines(src, off)) + 1}
  <1> DEFINE line == Newlines(src, off)
             L == LineStart(src, line)
  <1>1. line \in Nat
    BY NewlinesNat
  <1>2. L \in 0..off
    BY LineStartBefore
  <1> HIDE DEF line
  <1>3. (line + 1) - 1 = line
    BY <1>1
  <1> USE DEF line
  <1>4. NodePos(src, off) = [offset |-> off, line |-> IF line + 1 > LineMax THEN 0 ELSE line + 1,
                             col |-> IF off - L + 1 > ColMax THEN 0 ELSE off - L + 1]
    BY <1>3 DEF NodePos
  <1> QED
    BY <1>4

(* prepareRename finds a range by scanning the text (posForOffset), rename  *)
(* and the other queries by the syntax tree (posToLSP): of every offset     *)
(* whose line and column the parser can hold, in every text and in both     *)
(* encodings, they send the same position.                                  *)
THEOREM ScanAndTreeAgree ==
    ASSUME NEW B, NEW src \in Seq(B), NEW off \in 0..Len(src), Holds(src, off)
    PROVE  PosForOffset(src, off) = PosToLSP(src, NodePos(src, off))
  <1> DEFINE line == Newlines(src, off)
             L == LineStart(src, line)
             p == NodePos(src, off)
  <1>1. line \in Nat /\ L \in 0..off /\ off \in Nat /\ Len(src) \in Nat
    BY NewlinesNat, LineStartBefore
  <1>2. p.offset = off /\ p.line = line + 1 /\ p.col = off - L + 1
    BY <1>1, NodePosFits DEF Holds
  <1>3. PosForOffset(src, off) = Position(line, Units(SubSeq(src, L + 1, off)))
    <2>1. ~(off < 0) /\ ~(off > Len(src))
      BY <1>1
    <2> QED
      BY <2>1 DEF PosForOffset
  <1> HIDE DEF p, L, line
  <1>4. p.line > 0 /\ p.col > 0 /\ p.line - 1 = line /\ p.col - 1 = off - L /\ p.offset - (off - L) = L
    BY <1>1, <1>2
  <1>5. CASE encoding = "utf-8"
    <2>1. Len(SubSeq(src, L + 1, off)) = off - L
      BY <1>1
    <2>2. Units(SubSeq(src, L + 1, off)) = off - L
      BY <1>5, <2>1 DEF Units
    <2>3. PosToLSP(src, p) = Position(line, off - L)
      BY <1>4, <1>5 DEF PosToLSP
    <2> QED
      BY <1>3, <2>2, <2>3 DEF p
  <1>6. CASE encoding # "utf-8"
    <2>1. ~(L < 0) /\ ~(p.offset > Len(src)) /\ L \in 0..p.offset /\ p.offset <= Len(src)
      BY <1>1, <1>2
    <2>2. PosToLSP(src, p) = Position(line, UTF16Len(SubSeq(src, L + 1, off)))
      BY <1>2, <1>4, <1>6, <2>1 DEF PosToLSP
    <2> QED
      BY <1>3, <1>6, <2>2 DEF p, Units
  <1> QED
    BY <1>5, <1>6

(* A position of the tree of one text is never looked up out of the bounds  *)
(* of another: posToLSP slices the text of today only where it has bytes,   *)
(* however the file has changed since it was indexed and whatever the       *)
(* parser could not hold.                                                   *)
THEOREM StalePositionsInBounds ==
    ASSUME NEW B, NEW seen \in Seq(B), NEW now \in Seq(B), NEW off \in 0..Len(seen)
    PROVE  PosToLSP(now, NodePos(seen, off)) # Panic
  <1> DEFINE p == NodePos(seen, off)
             line == IF p.line > 0 THEN p.line - 1 ELSE p.line
             col == IF p.col > 0 THEN p.col - 1 ELSE p.col
             start == p.offset - col
  <1>1. off \in Nat /\ Newlines(seen, off) \in Nat /\ LineStart(seen, Newlines(seen, off)) \in 0..off
    BY NewlinesNat, LineStartBefore
  <1>2. p.offset = off /\ line \in Nat /\ col \in 0..off
    BY <1>1, NodePosFits
  <1>3. start \in 0..p.offset /\ Len(now) \in Nat
    BY <1>2
  <1> HIDE DEF p
  <1>4. \/ PosToLSP(now, p) = Position(line, col)
        \/ PosToLSP(now, p) = Position(line, UTF16Len(SubSeq(now, start + 1, p.offset)))
    <2>1. CASE encoding = "utf-8" \/ start < 0 \/ p.offset > Len(now)
      BY <2>1 DEF PosToLSP
    <2>2. CASE ~(encoding = "utf-8" \/ start < 0 \/ p.offset > Len(now))
      <3>1. start \in 0..p.offset /\ p.offset <= Len(now)
        BY <1>2, <1>3, <2>2
      <3> QED
        BY <2>2, <3>1 DEF PosToLSP
    <2> QED
      BY <2>1, <2>2
  <1>5. ASSUME NEW c PROVE Position(line, c) # Panic
    <2>1. Position(line, c).line = line /\ Panic.line = -1
      BY DEF Position, Panic
    <2> QED
      BY <1>2, <2>1
  <1> QED
    BY <1>4, <1>5 DEF p

-----------------------------------------------------------------------------
(* The positions the server sends are positions.                            *)
LEMMA UnitsNat ==
    ASSUME NEW B, NEW s \in Seq(B)
    PROVE  Units(s) \in Nat
  <1>1. UTF16Len(s) \in Nat /\ Len(s) \in Nat
    BY UTF16LenBounds
  <1> QED
    BY <1>1 DEF Units

(* posForOffset gives a position for every offset, in the text or not.      *)
LEMMA PosForOffsetType ==
    ASSUME NEW B, NEW src \in Seq(B), NEW at \in Int
    PROVE  PosForOffset(src, at) \in Places
  <1> DEFINE off == IF at < 0 THEN 0 ELSE IF at > Len(src) THEN Len(src) ELSE at
             line == Newlines(src, off)
             L == LineStart(src, line)
  <1>1. off \in 0..Len(src) /\ off \in Nat /\ Len(src) \in Nat /\ off <= Len(src)
    OBVIOUS
  <1>2. PosForOffset(src, at) = Position(line, Units(SubSeq(src, L + 1, off)))
    BY DEF PosForOffset
  <1> HIDE DEF off
  <1>3. line \in Nat /\ L \in 0..off
    BY <1>1, NewlinesNat, LineStartBefore
  <1> HIDE DEF line, L
  <1>4. L \in Nat /\ L <= off
    BY <1>1, <1>3
  <1>5. SubSeq(src, L + 1, off) \in Seq(B)
    BY <1>1, <1>4, Stretch
  <1>6. Units(SubSeq(src, L + 1, off)) \in Nat
    BY <1>5, UnitsNat
  <1> QED
    BY <1>2, <1>3, <1>6 DEF Position, Places

(* posToLSP gives one for a position of the tree of any text.               *)
LEMMA PosToLSPType ==
    ASSUME NEW B, NEW seen \in Seq(B), NEW now \in Seq(B), NEW off \in 0..Len(seen)
    PROVE  PosToLSP(now, NodePos(seen, off)) \in Places
  <1> DEFINE p == NodePos(seen, off)
             line == IF p.line > 0 THEN p.line - 1 ELSE p.line
             col == IF p.col > 0 THEN p.col - 1 ELSE p.col
             start == p.offset - col
  <1>1. off \in Nat /\ Newlines(seen, off) \in Nat /\ LineStart(seen, Newlines(seen, off)) \in 0..off
    BY NewlinesNat, LineStartBefore
  <1>2. p.offset = off /\ line \in Nat /\ col \in 0..off
    BY <1>1, NodePosFits
  <1>3. start \in 0..p.offset /\ Len(now) \in Nat /\ col \in Nat /\ start \in Nat /\ p.offset \in Nat
    BY <1>1, <1>2
  <1> HIDE DEF p
  <1>4. CASE encoding = "utf-8" \/ start < 0 \/ p.offset > Len(now)
    <2>1. PosToLSP(now, p) = Position(line, col)
      BY <1>4 DEF PosToLSP
    <2> QED
      BY <1>2, <1>3, <2>1 DEF Position, Places, p
  <1>5. CASE ~(encoding = "utf-8" \/ start < 0 \/ p.offset > Len(now))
    <2>1. start <= p.offset /\ p.offset <= Len(now)
      BY <1>2, <1>3, <1>5
    <2>2. PosToLSP(now, p) = Position(line, UTF16Len(SubSeq(now, start + 1, p.offset)))
      BY <1>5, <2>1 DEF PosToLSP
    <2> HIDE DEF start, line
    <2>3. SubSeq(now, start + 1, p.offset) \in Seq(B)
      BY <1>3, <2>1, Stretch
    <2>4. UTF16Len(SubSeq(now, start + 1, p.offset)) \in Nat
      BY <2>3, UTF16LenBounds
    <2> QED
      BY <1>2, <2>2, <2>4 DEF Position, Places, p
  <1> QED
    BY <1>4, <1>5

(* A line that the text does not have begins at -1.                         *)
LEMMA LineStartType ==
    ASSUME NEW B, NEW src \in Seq(B), NEW line \in Nat
    PROVE  LineStart(src, line) = -1 \/ LineStart(src, line) \in Nat
  <1> DEFINE starts == {off \in 0..Len(src) : Newlines(src, off) = line}
             start == LineStart(src, line)
  <1>1. CASE starts = {}
    BY <1>1 DEF LineStart
  <1>2. CASE starts # {}
    <2>1. starts \subseteq Nat
      OBVIOUS
    <2>2. start = CHOOSE s \in starts : \A off \in starts : s <= off
      BY <1>2 DEF LineStart
    <2> HIDE DEF starts
    <2>3. \E s \in starts : \A off \in starts : s <= off
      BY <1>2, <2>1, LeastNat
    <2>4. start \in starts
      BY <2>2, <2>3
    <2> QED
      BY <2>1, <2>4
  <1> QED
    BY <1>1, <1>2

(* An offset after code points lies on its line.                            *)
LEMMA CodePointOffsetType ==
    ASSUME NEW B, NEW src \in Seq(B), NEW line \in Nat, NEW points \in Nat
    PROVE  \/ CodePointOffset(src, line, points) = -1
           \/ /\ LineStart(src, line) \in Nat
              /\ CodePointOffset(src, line, points) \in LineStart(src, line)..Len(src)
  <1> DEFINE start == LineStart(src, line)
             fits  == {off \in start..Len(src) :
                    /\ Newlines(src, off) = line
                    /\ off = Len(src) \/ src[off + 1] # "c"
                    /\ Cardinality({i \in (start + 1)..off : src[i] # "c"}) = points}
  <1>0. CodePointOffset(src, line, points) = IF start < 0 \/ fits = {} THEN -1 ELSE Min(fits)
    BY DEF CodePointOffset
  <1>1. start = -1 \/ start \in Nat
    BY LineStartType
  <1> SUFFICES ASSUME ~(start < 0), fits # {} PROVE Min(fits) \in start..Len(src) /\ start \in Nat
    BY <1>0
  <1>2. start \in Nat
    BY <1>1
  <1>3. fits \subseteq start..Len(src)
    OBVIOUS
  <1> HIDE DEF start, fits
  <1>4. fits \subseteq Nat
    BY <1>2, <1>3
  <1>5. PICK m \in fits : \A n \in fits : m <= n
    BY <1>4, LeastNat
  <1>6. Min(fits) = m
    BY <1>4, <1>5, MinIs
  <1> QED
    BY <1>2, <1>3, <1>6

(* A place ShellCheck names gives a position, in the text or not.           *)
LEMMA ShellCheckPositionType ==
    ASSUME NEW B, NEW src \in Seq(B), NEW line \in Nat, NEW column \in Nat
    PROVE  ShellCheckPosition(src, line, column) \in Places
  <1> DEFINE l == IF line <= 0 THEN 0 ELSE line - 1
             c == IF column <= 0 THEN 0 ELSE column - 1
             off == CodePointOffset(src, l, c)
             L == LineStart(src, l)
             u == IF off < 0 THEN c ELSE Units(SubSeq(src, L + 1, off))
  <1>1. l \in Nat /\ c \in Nat
    OBVIOUS
  <1>2. ShellCheckPosition(src, line, column) = Position(l, u)
    BY DEF ShellCheckPosition
  <1> HIDE DEF l, c
  <1>3. off = -1 \/ (L \in Nat /\ off \in L..Len(src))
    BY <1>1, CodePointOffsetType
  <1> HIDE DEF off, L
  <1>4. u \in Nat
    <2>1. CASE off = -1
      BY <1>1, <2>1
    <2>2. CASE L \in Nat /\ off \in L..Len(src)
      <3>1. L \in Nat /\ off \in Nat /\ L <= off /\ off <= Len(src)
        BY <2>2
      <3>2. SubSeq(src, L + 1, off) \in Seq(B)
        BY <3>1, Stretch
      <3>3. Units(SubSeq(src, L + 1, off)) \in Nat
        BY <3>2, UnitsNat
      <3> QED
        BY <3>1, <3>3
    <2> QED
      BY <1>3, <2>1, <2>2
  <1> HIDE DEF u
  <1> QED
    BY <1>1, <1>2, <1>4 DEF Position, Places

(* An offset for a position is a number, -1 if there is none.               *)
LEMMA OffsetForType ==
    ASSUME NEW B, NEW src \in Seq(B), NEW pos \in Places
    PROVE  OffsetFor(src, pos) \in Int
  <1> DEFINE start == LineStart(src, pos.line)
  <1>1. pos.line \in Nat /\ pos.character \in Nat
    BY DEF Places
  <1>2. start = -1 \/ start \in Nat
    BY <1>1, LineStartType
  <1>3. OffsetForPositionBytes(src, pos) \in Int
    <2> DEFINE off == start + pos.character
    <2>1. off \in Int
      <3> HIDE DEF start
      <3> QED
        BY <1>1, <1>2
    <2>2. OffsetForPositionBytes(src, pos) = IF start < 0 \/ off > Len(src) THEN -1 ELSE off
      BY DEF OffsetForPositionBytes
    <2> HIDE DEF off
    <2> QED
      BY <2>1, <2>2
  <1>4. OffsetForPosition(src, pos) \in Int
    <2>1. OffsetForPosition(src, pos) = IF start < 0 THEN -1 ELSE Walk(src, pos)[<<start, 0>>]
      BY DEF OffsetForPosition, Walk
    <2> HIDE DEF start
    <2>2. start \in Nat => Walk(src, pos)[<<start, 0>>] \in Nat
      BY WalkFacts
    <2> DEFINE w == Walk(src, pos)[<<start, 0>>]
    <2> HIDE DEF w
    <2>3. OffsetForPosition(src, pos) = (IF start < 0 THEN -1 ELSE w) /\ (start \in Nat => w \in Nat)
      BY <2>1, <2>2 DEF w
    <2> QED
      BY <1>2, <2>3
  <1> QED
    BY <1>3, <1>4 DEF OffsetFor
-----------------------------------------------------------------------------
(* Code points are counted by the bytes that begin them.                    *)
LeadBytes(b, x, o) == Cardinality({i \in (x + 1)..o : b[i] # "c"})

(* Code points are counted in natural numbers.                              *)
LEMMA LeadBytesFinite ==
    ASSUME NEW b, NEW x \in Nat, NEW o \in Nat
    PROVE  LeadBytes(b, x, o) \in Nat /\ IsFiniteSet({i \in (x + 1)..o : b[i] # "c"})
  <1> DEFINE S == {i \in (x + 1)..o : b[i] # "c"}
  <1>1. IsFiniteSet((x + 1)..o)
    <2>1. x + 1 \in Int /\ o \in Int
      OBVIOUS
    <2> QED
      BY <2>1, FS_Interval
  <1>2. IsFiniteSet(S)
    BY <1>1, FS_Subset
  <1> QED
    BY <1>2, FS_CardinalityType DEF LeadBytes

(* Where the count stays the same there are only continuation bytes.        *)
LEMMA LeadBytesBetween ==
    ASSUME NEW b, NEW x \in Nat, NEW o \in Nat, NEW p \in Nat, x <= o, o <= p,
           LeadBytes(b, x, o) = LeadBytes(b, x, p)
    PROVE  \A i \in (o + 1)..p : b[i] = "c"
  <1> DEFINE S(q) == {i \in (x + 1)..q : b[i] # "c"}
  <1>1. IsFiniteSet(S(o)) /\ IsFiniteSet(S(p))
    BY LeadBytesFinite
  <1>2. S(o) \subseteq S(p)
    OBVIOUS
  <1>3. Cardinality(S(o)) = Cardinality(S(p))
    BY DEF LeadBytes
  <1>4. S(o) = S(p)
    <2> HIDE DEF S
    <2> QED
      BY <1>1, <1>2, <1>3, FS_Subset
  <1> QED
    BY <1>4

(* So many characters of a line, so many code points.                       *)
LEMMA LeadBytesOfCharacters ==
    ASSUME NEW c \in Texts, NEW from \in 0..Len(c), NEW k \in from..Len(c),
           \A i \in (from + 1)..k : c[i] \notin Ends
    PROVE  LeadBytes(Bytes(c), ByteOffset(c, from), ByteOffset(c, k)) = k - from
  <1> DEFINE b == Bytes(c)
             O(i) == ByteOffset(c, i)
             x == O(from)
             S(o) == {i \in (x + 1)..o : b[i] # "c"}
             P == {m \in from..k : LeadBytes(b, x, O(m)) = m - from}
  <1>1. Len(c) \in Nat /\ from \in Nat /\ k \in Nat /\ from <= k /\ k <= Len(c)
    BY DEF Texts
  <1>2. x \in Nat /\ \A m \in 0..Len(c) : O(m) \in Nat
    BY BytesFacts
  <1>3. from \in P
    <2>1. S(x) = {}
      <3> HIDE DEF x
      <3> QED
        BY <1>2
    <2>2. LeadBytes(b, x, x) = 0
      BY <2>1, FS_EmptySet DEF LeadBytes
    <2>3. from \in from..k /\ from - from = 0
      BY <1>1
    <2> QED
      BY <2>2, <2>3
  <1>4. ASSUME NEW m \in from..(k - 1), m \in P PROVE m + 1 \in P
    <2>1. m + 1 \in 1..Len(c) /\ (m + 1) - 1 = m /\ m \in 0..Len(c) /\ m + 1 \in from..k /\ m \in Nat
          /\ m + 1 \in (from + 1)..k /\ from <= m /\ m <= m + 1 /\ (m - from) + 1 = (m + 1) - from
      BY <1>1
    <2>2. c[m + 1] \notin Ends /\ c[m + 1] \in DOMAIN Encode
      <3>1. c[m + 1] \in DOMAIN Encode
        BY <2>1 DEF Texts
      <3> QED
        BY <2>1, <3>1
    <2> DEFINE e == Encode[c[m + 1]]
               w == Len(e)
               y == O(m)
               z == O(m + 1)
    <2>3. w \in 1..4 /\ e[1] # "c" /\ \A i \in 2..w : e[i] = "c"
      BY <2>2, EncodeFacts
    <2>4. z = y + w /\ \A i \in 1..w : b[y + i] = e[i]
      BY <2>1, BytesFacts
    <2>5. y \in Nat /\ x <= y
      BY <1>2, <2>1, OffsetsIncrease
    <2> HIDE DEF w, x, y, z, e, b
    <2>6. S(z) = S(y) \cup {y + 1} /\ y + 1 \notin S(y)
      <3>1. ASSUME NEW i \in (x + 1)..z PROVE i \in (x + 1)..y \/ i = y + 1 \/ (i - y \in 2..w /\ y + (i - y) = i)
        BY <1>2, <2>3, <2>4, <2>5
      <3>2. \A i \in (x + 1)..y : i \in (x + 1)..z
        BY <1>2, <2>3, <2>4, <2>5
      <3>3. y + 1 \in (x + 1)..z /\ y + 1 \notin (x + 1)..y
        BY <1>2, <2>3, <2>4, <2>5
      <3>4. b[y + 1] # "c"
        <4>1. 1 \in 1..w
          BY <2>3
        <4> QED
          BY <2>3, <2>4, <4>1
      <3>5. ASSUME NEW i, i - y \in 2..w, y + (i - y) = i PROVE b[i] = "c"
        <4>1. i - y \in 1..w
          <5> DEFINE d == i - y
          <5> HIDE DEF d
          <5>1. d \in 2..w
            BY <3>5 DEF d
          <5>2. d \in 1..w
            BY <2>3, <5>1
          <5> QED
            BY <5>2 DEF d
        <4>2. b[y + (i - y)] = e[i - y]
          BY <2>4, <4>1
        <4> QED
          BY <2>3, <3>5, <4>2
      <3>6. ASSUME NEW i \in S(z) PROVE i \in S(y) \cup {y + 1}
        BY <3>1, <3>5
      <3>7. ASSUME NEW i \in S(y) \cup {y + 1} PROVE i \in S(z)
        BY <3>2, <3>3, <3>4
      <3>8. y + 1 \notin S(y)
        BY <3>3
      <3> HIDE DEF S
      <3> QED
        BY <3>6, <3>7, <3>8
    <2>7. IsFiniteSet(S(y)) /\ LeadBytes(b, x, y) \in Nat
      BY <1>2, <2>5, LeadBytesFinite
    <2>8. Cardinality(S(z)) = Cardinality(S(y)) + 1
      <3> HIDE DEF S
      <3> QED
        BY <2>6, <2>7, FS_AddElement
    <2>9. LeadBytes(b, x, z) = LeadBytes(b, x, y) + 1
      BY <2>8 DEF LeadBytes
    <2>10. LeadBytes(b, x, y) = m - from
      BY <1>4 DEF y
    <2>11. LeadBytes(b, x, z) = (m + 1) - from
      BY <2>1, <2>9, <2>10
    <2> QED
      BY <2>1, <2>11 DEF z
  <1> HIDE DEF P
  <1>5. Upward(from, k, P)
    BY <1>1, <1>3, <1>4 DEF Upward
  <1>6. k \in P
    <2>1. from..k \subseteq P /\ k \in from..k
      BY <1>1, <1>5, UpwardInduction
    <2> QED
      BY <2>1
  <1> QED
    BY <1>6 DEF P

(* ShellCheck's column leads to the place it is of.                         *)
THEOREM CodePointOffsetIs ==
    ASSUME NEW c \in Texts, NEW j \in 0..Len(c)
    PROVE  CodePointOffset(Bytes(c), Cardinality(EndsBefore(c, j)), j - From(c, j)) = ByteOffset(c, j)
  <1> DEFINE b == Bytes(c)
             f == From(c, j)
             line == Cardinality(EndsBefore(c, j))
             x == ByteOffset(c, f)
             y == ByteOffset(c, j)
             start == LineStart(b, line)
             fits  == {off \in start..Len(b) :
                    /\ Newlines(b, off) = line
                    /\ off = Len(b) \/ b[off + 1] # "c"
                    /\ LeadBytes(b, start, off) = j - f}
  <1>1. Len(c) \in Nat /\ j \in Nat /\ j <= Len(c)
    BY DEF Texts
  <1>2. f \in 0..j /\ \A i \in (f + 1)..j : c[i] \notin Ends
    BY <1>1, FromFacts
  <1>3. f \in 0..Len(c) /\ j \in f..Len(c) /\ f <= j
    BY <1>1, <1>2
  <1>4. start = x
    BY LineStartsMatch
  <1>5. x \in Nat /\ y \in Nat /\ x <= y /\ y <= Len(b) /\ Len(b) \in Nat
    <2>1. y \in 0..Len(b) /\ x \in Nat /\ y \in Nat /\ x <= y /\ Len(b) \in Nat
      BY <1>3, OffsetsIncrease, BytesFacts
    <2> HIDE DEF x, y, b
    <2> QED
      BY <2>1
  <1>6. Newlines(b, y) = line
    BY LinesMatch
  <1>7. LeadBytes(b, x, y) = j - f
    BY <1>2, <1>3, LeadBytesOfCharacters
  <1>8. y = Len(b) \/ b[y + 1] # "c"
    <2>1. CASE j = Len(c)
      BY <2>1, BytesFacts
    <2>2. CASE j # Len(c)
      <3>1. j + 1 \in 1..Len(c) /\ (j + 1) - 1 = j
        BY <1>1, <2>2
      <3> DEFINE e == Encode[c[j + 1]]
                 w == Len(e)
      <3>2. c[j + 1] \in DOMAIN Encode
        BY <3>1 DEF Texts
      <3>3. w \in 1..4 /\ e[1] # "c"
        BY <3>2, EncodeFacts
      <3>4. 1 \in 1..w
        <4> HIDE DEF w
        <4> QED
          BY <3>3
      <3>5. b[y + 1] = e[1]
        <4>1. \A i \in 1..w : b[ByteOffset(c, (j + 1) - 1) + i] = e[i]
          BY <3>1, BytesFacts, Zenon
        <4>2. b[ByteOffset(c, (j + 1) - 1) + 1] = e[1]
          BY <3>4, <4>1, Zenon
        <4> QED
          BY <3>1, <4>2, Zenon
      <3> QED
        BY <3>3, <3>5
    <2> QED
      BY <2>1, <2>2
  <1>9. CodePointOffset(b, line, j - f) = IF start < 0 \/ fits = {} THEN -1 ELSE Min(fits)
    BY DEF CodePointOffset, LeadBytes
  <1> HIDE DEF start, b, line, f, x, y
  <1>10. y \in fits
    BY <1>4, <1>5, <1>6, <1>7, <1>8
  <1>11. fits \subseteq Nat
    BY <1>4, <1>5
  <1>12. ASSUME NEW o \in fits PROVE y <= o
    <2>1. o \in x..Len(b) /\ LeadBytes(b, x, o) = j - f /\ (o = Len(b) \/ b[o + 1] # "c")
      BY <1>4
    <2>2. o \in Nat /\ x <= o
      BY <1>5, <2>1
    <2> SUFFICES ASSUME o < y PROVE FALSE
      BY <1>5, <2>2
    <2>3. o <= y /\ o + 1 \in (o + 1)..y /\ o # Len(b)
      BY <1>5, <2>2
    <2>4. \A i \in (o + 1)..y : b[i] = "c"
      BY <1>5, <1>7, <2>1, <2>2, <2>3, LeadBytesBetween
    <2> QED
      BY <2>1, <2>3, <2>4
  <1>13. Min(fits) = y
    <2> HIDE DEF fits
    <2> QED
      BY <1>10, <1>11, <1>12, MinIs
  <1>14. ~(start < 0) /\ fits # {}
    <2>1. ~(start < 0)
      BY <1>4, <1>5
    <2> QED
      BY <1>10, <2>1
  <1>15. CodePointOffset(b, line, j - f) = y
    <2> HIDE DEF fits
    <2> QED
      BY <1>9, <1>13, <1>14
  <1> QED
    BY <1>15 DEF b, line, f, y

(* The position of ShellCheck's place is the one the client has for it.     *)
LEMMA ShellCheckPositionIs ==
    ASSUME NEW c \in Texts, NEW j \in 0..Len(c)
    PROVE  ShellCheckPosition(Bytes(c), Cardinality(EndsBefore(c, j)) + 1, 1 + (j - From(c, j)))
             = ClientPosition(c, j)
  <1> DEFINE b == Bytes(c)
             f == From(c, j)
             line == Cardinality(EndsBefore(c, j))
             x == ByteOffset(c, f)
             y == ByteOffset(c, j)
             d == j - f
             off == CodePointOffset(b, line, d)
  <1>1. j \in Nat
    BY DEF Texts
  <1>2. line \in Nat /\ f \in 0..j
    BY <1>1, EndsFinite, FromFacts
  <1>3. d \in Nat
    <2> HIDE DEF f
    <2> QED
      BY <1>1, <1>2
  <1>4. off = y
    BY CodePointOffsetIs
  <1>5. y \in Nat
    BY BytesFacts
  <1>6. LineStart(b, line) = x
    BY LineStartsMatch
  <1>7. Units(SubSeq(b, x + 1, y)) = LineSum(c, f)[j]
    BY UnitsOfCharacters
  <1>8. ClientPosition(c, j) = Position(line, LineSum(c, f)[j])
    BY ClientPositionIs
  <1> HIDE DEF b, f, line, x, y, d
  <1>9. ~(line + 1 <= 0) /\ ~(1 + d <= 0) /\ (line + 1) - 1 = line /\ (1 + d) - 1 = d
    BY <1>2, <1>3
  <1>10. ShellCheckPosition(b, line + 1, 1 + d)
           = Position(line, IF off < 0 THEN d ELSE Units(SubSeq(b, LineStart(b, line) + 1, off)))
    BY <1>9 DEF ShellCheckPosition
  <1>11. ~(off < 0)
    BY <1>4, <1>5
  <1>12. ShellCheckPosition(b, line + 1, 1 + d) = ClientPosition(c, j)
    <2> HIDE DEF off
    <2> QED
      BY <1>4, <1>6, <1>7, <1>8, <1>10, <1>11
  <1> QED
    BY <1>12 DEF b, f, line, d
-----------------------------------------------------------------------------
(* The bytes of a word that end at an offset begin at one.                  *)
LEMMA WordStart ==
    ASSUME NEW B, NEW src \in Seq(B), NEW off \in 0..Len(src)
    PROVE  LET s == Min({t \in 0..off : \A i \in (t + 1)..off : IsWordChar(src[i])})
           IN  /\ s \in 0..off /\ \A i \in (s + 1)..off : IsWordChar(src[i])
               /\ s = 0 \/ ~IsWordChar(src[s])
  <1> DEFINE S == {t \in 0..off : \A i \in (t + 1)..off : IsWordChar(src[i])}
  <1>1. off \in Nat /\ off \in S /\ S \subseteq Nat
    OBVIOUS
  <1>2. PICK s \in S : \A t \in S : s <= t
    <2> HIDE DEF S
    <2> QED
      BY <1>1, LeastNat
  <1>3. Min(S) = s
    <2> HIDE DEF S
    <2> QED
      BY <1>1, <1>2, MinIs
  <1>4. s \in 0..off /\ \A i \in (s + 1)..off : IsWordChar(src[i])
    OBVIOUS
  <1>5. s = 0 \/ ~IsWordChar(src[s])
    <2> SUFFICES ASSUME s # 0, IsWordChar(src[s]) PROVE FALSE
      OBVIOUS
    <2>1. s - 1 \in 0..off /\ \A i \in ((s - 1) + 1)..off : i = s \/ i \in (s + 1)..off
      BY <1>4
    <2>2. s - 1 \in S
      BY <1>4, <2>1
    <2>3. s <= s - 1 /\ s \in Nat
      BY <1>2, <1>4, <2>2
    <2> QED
      BY <2>3
  <1> HIDE DEF S
  <1>6. /\ Min(S) \in 0..off /\ \A i \in (Min(S) + 1)..off : IsWordChar(src[i])
        /\ Min(S) = 0 \/ ~IsWordChar(src[Min(S)])
    BY <1>3, <1>4, <1>5
  <1> QED
    BY <1>6 DEF S

(* A span of word bytes, with one at least.                                 *)
IsSpan(src, word) ==
    /\ word = [start |-> word.start, end |-> word.end]
    /\ word.start \in Nat /\ word.end \in Nat /\ word.start < word.end /\ word.end <= Len(src)
    /\ \A i \in (word.start + 1)..word.end : IsWordChar(src[i])

(* A word found around an offset has the offset in it and word bytes only.  *)
LEMMA WordAtOffsetIs ==
    ASSUME NEW B, NEW src \in Seq(B), NEW off,
           WordAtOffset(src, off).start < WordAtOffset(src, off).end
    PROVE  /\ IsSpan(src, WordAtOffset(src, off))
           /\ off \in WordAtOffset(src, off).start..(WordAtOffset(src, off).end - 1)
  <1> DEFINE w == WordAtOffset(src, off)
             S == {s \in 0..off : \A i \in (s + 1)..off : IsWordChar(src[i])}
             E == {e \in off..Len(src) : \A i \in (off + 1)..e : IsWordChar(src[i])}
  <1>1. off \in 0..(Len(src) - 1) /\ IsWordChar(src[off + 1])
    <2> SUFFICES ASSUME off \notin 0..(Len(src) - 1) \/ ~IsWordChar(src[off + 1]) PROVE FALSE
      OBVIOUS
    <2>1. w = [start |-> 0, end |-> 0]
      BY DEF WordAtOffset
    <2> QED
      BY <2>1
  <1>2. Len(src) \in Nat /\ off \in Nat /\ off + 1 <= Len(src) /\ off \in 0..Len(src)
    BY <1>1
  <1>3. w = [start |-> Min(S), end |-> Max(E)]
    BY <1>1 DEF WordAtOffset
  <1>4. Min(S) \in 0..off /\ \A i \in (Min(S) + 1)..off : IsWordChar(src[i])
    BY <1>2, WordStart
  <1>5. off + 1 \in E /\ E \subseteq 0..Len(src) /\ E \subseteq Nat
    <2>1. off + 1 \in off..Len(src) /\ \A i \in (off + 1)..(off + 1) : i = off + 1
      BY <1>2
    <2> QED
      BY <1>1, <1>2, <2>1
  <1>6. PICK e \in E : \A n \in E : n <= e
    <2> HIDE DEF E
    <2> QED
      BY <1>2, <1>5, GreatestNat
  <1>7. Max(E) = e
    <2> HIDE DEF E
    <2> QED
      BY <1>5, <1>6, MaxIs
  <1>8. e \in off..Len(src) /\ (\A i \in (off + 1)..e : IsWordChar(src[i])) /\ off + 1 <= e
    BY <1>5, <1>6
  <1> DEFINE s == Min(S)
  <1>9. w = [start |-> s, end |-> e]
    BY <1>3, <1>7
  <1>10. s \in 0..off /\ \A i \in (s + 1)..off : IsWordChar(src[i])
    BY <1>4
  <1> HIDE DEF S, E, s, w
  <1>11. \A i \in (s + 1)..e : i \in (s + 1)..off \/ i \in (off + 1)..e
    BY <1>2, <1>8, <1>10
  <1>12. w.start = s /\ w.end = e
    BY <1>9
  <1>13. s \in Nat /\ e \in Nat /\ s < e /\ e <= Len(src) /\ off \in s..(e - 1)
    BY <1>2, <1>8, <1>10
  <1>14. \A i \in (s + 1)..e : IsWordChar(src[i])
    BY <1>8, <1>10, <1>11
  <1>15. IsSpan(src, w) /\ off \in w.start..(w.end - 1)
    BY <1>9, <1>12, <1>13, <1>14 DEF IsSpan
  <1> QED
    BY <1>15 DEF w

(* So has a name.                                                           *)
LEMMA NamesAre ==
    ASSUME NEW B, NEW src \in Seq(B), NEW name \in Names(src)
    PROVE  IsSpan(src, name)
  <1>1. /\ name \in [start : 0..Len(src), end : 1..Len(src)] /\ name.start < name.end
        /\ \A i \in (name.start + 1)..name.end : IsWordChar(src[i])
    BY DEF Names
  <1>2. name = [start |-> name.start, end |-> name.end] /\ name.start \in 0..Len(src) /\ name.end \in 1..Len(src)
    BY <1>1
  <1>3. name.start \in Nat /\ name.end \in Nat /\ name.end <= Len(src)
    BY <1>2
  <1> QED
    BY <1>1, <1>2, <1>3 DEF IsSpan

(* It lies on one line ...                                                  *)
LEMMA SpanOnLine ==
    ASSUME NEW B, NEW src \in Seq(B), NEW word, IsSpan(src, word)
    PROVE  /\ word.start \in 0..Len(src) /\ word.end \in 0..Len(src)
           /\ Newlines(src, word.start) = Newlines(src, word.end)
  <1> DEFINE s == word.start
             e == word.end
  <1>1. s \in Nat /\ e \in Nat /\ s < e /\ e <= Len(src) /\ \A i \in (s + 1)..e : IsWordChar(src[i])
    BY DEF IsSpan
  <1>2. \A i \in (s + 1)..e : src[i] # "nl"
    BY <1>1 DEF IsWordChar
  <1> HIDE DEF s, e
  <1>3. s <= e /\ s \in 0..Len(src) /\ e \in 0..Len(src)
    BY <1>1
  <1>4. Newlines(src, s) = Newlines(src, e)
    BY <1>1, <1>2, <1>3, NewlinesBetween
  <1> QED
    BY <1>3, <1>4 DEF s, e

(* ... and so does its end as the parser has it, one past it before a "\r". *)
LEMMA ParsedEndIs ==
    ASSUME NEW B, NEW src \in Seq(B), NEW off \in 0..Len(src)
    PROVE  /\ ParsedEnd(src, off) \in 0..Len(src) /\ off <= ParsedEnd(src, off)
           /\ Newlines(src, ParsedEnd(src, off)) = Newlines(src, off)
           /\ \/ ParsedEnd(src, off) = off
              \/ ParsedEnd(src, off) = off + 1 /\ off < Len(src) /\ src[off + 1] = "cr"
  <1>1. off \in Nat /\ Len(src) \in Nat /\ off <= off
    OBVIOUS
  <1>2. CASE off + 1 < Len(src) /\ src[off + 1] = "cr" /\ src[off + 2] = "nl"
    <2>1. ParsedEnd(src, off) = off + 1
      BY <1>2 DEF ParsedEnd
    <2>2. off + 1 \in 0..Len(src) /\ off <= off + 1 /\ off < Len(src) /\ off + 1 \in Nat
      BY <1>1, <1>2
    <2>3. \A i \in (off + 1)..(off + 1) : src[i] # "nl"
      <3>1. \A i \in (off + 1)..(off + 1) : i = off + 1
        BY <1>1
      <3> QED
        BY <1>2, <3>1
    <2>4. Newlines(src, off + 1) = Newlines(src, off)
      BY <1>1, <2>2, <2>3, NewlinesBetween
    <2> QED
      BY <1>2, <2>1, <2>2, <2>4
  <1>3. CASE ~(off + 1 < Len(src) /\ src[off + 1] = "cr" /\ src[off + 2] = "nl")
    <2>1. ParsedEnd(src, off) = off
      BY <1>3 DEF ParsedEnd
    <2> QED
      BY <1>1, <2>1
  <1> QED
    BY <1>2, <1>3

(* It goes from one place of the text to another.                           *)
LEMMA SpanOfText ==
    ASSUME NEW c \in Texts, NEW word, IsSpan(Bytes(c), word)
    PROVE  \E j \in 0..Len(c), k \in 0..Len(c) : word = [start |-> ByteOffset(c, j), end |-> ByteOffset(c, k)]
  <1> DEFINE b == Bytes(c)
             s == word.start
             e == word.end
  <1>0. word = [start |-> s, end |-> e]
    BY DEF IsSpan
  <1>1. s \in Nat /\ e \in Nat /\ s < e /\ e <= Len(b) /\ \A i \in (s + 1)..e : IsWordChar(b[i])
    BY DEF IsSpan
  <1>2. Len(b) \in Nat
    BY BytesFacts
  <1> HIDE DEF s, e
  <1>3. s \in 0..Len(b) /\ e \in 0..Len(b) /\ s < Len(b) /\ e > 0 /\ s + 1 \in (s + 1)..e /\ e \in (s + 1)..e
    <2> HIDE DEF b
    <2> QED
      BY <1>1, <1>2
  <1>4. IsWordChar(b[s + 1]) /\ IsWordChar(b[e])
    BY <1>1, <1>3
  <1>5. PICK j \in 0..Len(c) : s = ByteOffset(c, j)
    BY <1>3, <1>4, WordBoundary
  <1>6. PICK k \in 0..Len(c) : e = ByteOffset(c, k)
    BY <1>3, <1>4, WordBoundary
  <1> QED
    BY <1>0, <1>5, <1>6

(* A range of positions of places is the one between the places.            *)
LEMMA RangeExact ==
    ASSUME NEW c \in Texts, NEW j \in 0..Len(c), NEW k \in 0..Len(c), NEW r,
           r.start = ClientPosition(c, j), r.end = ClientPosition(c, k)
    PROVE  Exact(c, r) /\ ClientSpan(c, r) = [start |-> ByteOffset(c, j), end |-> ByteOffset(c, k)]
  BY PlacesExact DEF Exact, ClientSpan

(* The position of a name's end as the parser has it: before a "\r" one     *)
(* unit past the end of the line, which the client takes for that end.      *)
LEMMA ParsedEndPosition ==
    ASSUME NEW c \in Texts, NEW k \in 0..Len(c)
    PROVE  LET o == ByteOffset(c, k)
               e == ParsedEnd(Bytes(c), o)
               p == PosForOffset(Bytes(c), e)
           IN  /\ p = [ClientPosition(c, k) EXCEPT !.character = @ + (e - o)]
               /\ ClientPlace(c, p) = k
  <1> DEFINE b == Bytes(c)
             o == ByteOffset(c, k)
             e == ParsedEnd(b, o)
             d == e - o
             q == ClientPosition(c, k)
             line == Cardinality(EndsBefore(c, k))
             col == LineSum(c, From(c, k))[k]
             p == Position(line, col + d)
  <1>1. b \in Seq(ByteClass) /\ o \in 0..Len(b) /\ Len(b) \in Nat /\ o \in Nat /\ k \in Nat /\ Len(c) \in Nat
    BY BytesFacts, OffsetsIncrease DEF Texts
  <1>2. /\ e \in 0..Len(b) /\ o <= e /\ Newlines(b, e) = Newlines(b, o)
        /\ e = o \/ (e = o + 1 /\ o < Len(b) /\ b[o + 1] = "cr")
    <2> HIDE DEF b, o
    <2> QED
      BY <1>1, ParsedEndIs
  <1>3. /\ d \in {0, 1} /\ e = o + d /\ ~(e < 0) /\ ~(e > Len(b))
        /\ d = 1 => o < Len(b) /\ b[o + 1] = "cr"
    <2> HIDE DEF b, o, e
    <2> QED
      BY <1>1, <1>2
  <1>4. Newlines(b, e) = line /\ LineStart(b, line) = ByteOffset(c, From(c, k))
    BY <1>2, LinesMatch, LineStartsMatch
  <1>5. PosForOffset(b, e) = Position(line, Units(SubSeq(b, LineStart(b, line) + 1, e)))
    <2> HIDE DEF b, e, line
    <2> QED
      BY <1>3, <1>4 DEF PosForOffset
  <1>6. Units(SubSeq(b, LineStart(b, line) + 1, e)) = col + d
    <2>1. d \in {0, 1} /\ (d = 1 => ByteOffset(c, k) < Len(Bytes(c)) /\ Bytes(c)[ByteOffset(c, k) + 1] = "cr")
      BY <1>3
    <2> HIDE DEF d
    <2>2. Units(SubSeq(Bytes(c), ByteOffset(c, From(c, k)) + 1, ByteOffset(c, k) + d))
            = LineSum(c, From(c, k))[k] + d
      BY <2>1, UnitsOfStretch
    <2> QED
      BY <1>3, <1>4, <2>2
  <1>7. PosForOffset(b, e) = p
    BY <1>5, <1>6
  <1>8. q = Position(line, col) /\ q \in Places /\ q.line = line /\ q.character = col
    BY ClientPositionIs, PlacesExact
  <1>9. line \in Nat /\ col \in Nat
    BY <1>8 DEF Places
  <1>10. p.line = line /\ p.character = col + d
    BY DEF Position
  <1>11. p \in Places
    <2> HIDE DEF line, col, d
    <2>1. col + d \in Nat
      BY <1>3, <1>9
    <2> QED
      BY <1>9, <2>1 DEF Position, Places
  <1>12. d = 1 => c[k + 1] \in Ends
    <2> SUFFICES ASSUME d = 1 PROVE c[k + 1] \in Ends
      OBVIOUS
    <2>1. o + 1 \in 1..Len(b) /\ b[o + 1] = "cr"
      <3> HIDE DEF b, o, e
      <3> QED
        BY <1>1, <1>3
    <2>2. PICK j \in 1..Len(c) :
              /\ c[j] \in DOMAIN Encode
              /\ (o + 1) - ByteOffset(c, j - 1) \in 1..Len(Encode[c[j]])
              /\ b[o + 1] = Encode[c[j]][(o + 1) - ByteOffset(c, j - 1)]
      BY <2>1, ByteOfCharacter
    <2>3. c[j] \in Ends /\ (o + 1) - ByteOffset(c, j - 1) = 1
      BY <2>1, <2>2, EncodeReturn
    <2>4. j - 1 \in 0..Len(c) /\ (j - 1) + 1 = j
      BY <1>1
    <2>5. ByteOffset(c, j - 1) = o
      <3>1. ByteOffset(c, j - 1) \in Nat
        BY <2>4, BytesFacts
      <3> HIDE DEF o
      <3> QED
        BY <1>1, <2>3, <3>1
    <2>6. j - 1 = k
      BY <2>4, <2>5, OffsetsIncrease
    <2> QED
      BY <2>3, <2>4, <2>6
  <1>13. Means(c, p, k)
    <2>1. CASE d = 0
      <3> HIDE DEF line, col, d
      <3>1. col + d = col /\ col <= col
        BY <1>9, <2>1
      <3> QED
        BY <1>8, <1>10, <3>1 DEF Means
    <2>2. CASE d = 1
      <3>1. c[k + 1] \in Ends
        BY <1>12, <2>2
      <3> HIDE DEF line, col, d
      <3>2. col <= col + d
        BY <1>9, <2>2
      <3> QED
        BY <1>8, <1>10, <3>1, <3>2 DEF Means
    <2> QED
      BY <1>3, <2>1, <2>2
  <1>14. ClientPlace(c, p) = k
    BY <1>11, <1>13, ClientPlaceIs
  <1>15. p = [q EXCEPT !.character = @ + d]
    <2> HIDE DEF line, col, d
    <2> QED
      BY <1>8 DEF Position
  <1> QED
    BY <1>7, <1>14, <1>15

(* The prefix of a completion.                                              *)
LEMMA CompletionStartIs ==
    ASSUME NEW B, NEW src \in Seq(B), NEW off \in 0..Len(src)
    PROVE  LET s == CompletionStart(src, off)
           IN  /\ s \in 0..off /\ \A i \in (s + 1)..off : IsWordChar(src[i])
               /\ s = 0 \/ ~IsWordChar(src[s])
  <1>1. ~(off > Len(src))
    OBVIOUS
  <1>2. CompletionStart(src, off) = Min({t \in 0..off : \A i \in (t + 1)..off : IsWordChar(src[i])})
    BY <1>1 DEF CompletionStart
  <1> QED
    BY <1>2, WordStart
-----------------------------------------------------------------------------
(* Both ends of a name that the parser could hold give columns of one       *)
(* line, in order, whatever the text they are counted in.                   *)
LEMMA StaleOrdered ==
    ASSUME NEW B, NEW seen \in Seq(B), NEW now \in Seq(B), NEW word, IsSpan(seen, word),
           Holds(seen, word.start), Holds(seen, ParsedEnd(seen, word.end))
    PROVE  LET r == RangeToLSP(seen, now, word)
           IN  r \in Ranges /\ ~Before(r.end, r.start)
  <1> DEFINE s == word.start
             e == ParsedEnd(seen, word.end)
             p == NodePos(seen, s)
             q == NodePos(seen, e)
             line == Newlines(seen, s)
             L == LineStart(seen, line)
             u == PosToLSP(now, p)
             v == PosToLSP(now, q)
  <1>0. /\ s \in 0..Len(seen) /\ word.end \in 0..Len(seen) /\ Newlines(seen, word.end) = line
        /\ s \in Nat /\ word.end \in Nat /\ s < word.end
    BY SpanOnLine DEF IsSpan
  <1>2. s \in 0..Len(seen) /\ e \in 0..Len(seen) /\ Newlines(seen, e) = line /\ word.end <= e
    BY <1>0, ParsedEndIs
  <1>1. s \in Nat /\ e \in Nat /\ s < e /\ e <= Len(seen)
    <2> DEFINE x == word.end
    <2> HIDE DEF s, e, x
    <2>1. s \in Nat /\ x \in Nat /\ s < x /\ e \in 0..Len(seen) /\ x <= e /\ Len(seen) \in Nat
      BY <1>0, <1>2 DEF x
    <2> QED
      BY ONLY <2>1
  <1>3. line \in Nat /\ L \in 0..s
    BY <1>1, <1>2, NewlinesNat, LineStartBefore
  <1>4. p.offset = s /\ p.line = line + 1 /\ p.col = s - L + 1
    <2>1. p.offset = s /\ p.line \in {0, line + 1} /\ p.col \in {0, s - L + 1} /\ p.line > 0 /\ p.col > 0
      BY <1>2, NodePosFits DEF Holds
    <2> HIDE DEF p, line, L
    <2> QED
      BY <2>1
  <1>5. q.offset = e /\ q.line = line + 1 /\ q.col = e - L + 1
    <2>1. q.offset = e /\ q.line \in {0, line + 1} /\ q.col \in {0, e - L + 1} /\ q.line > 0 /\ q.col > 0
      BY <1>2, NodePosFits DEF Holds
    <2> HIDE DEF q, line, L
    <2> QED
      BY <2>1
  <1>6. u \in Places /\ v \in Places
    BY <1>2, PosToLSPType
  <1>7. RangeToLSP(seen, now, word) = [start |-> u, end |-> v]
    BY DEF RangeToLSP
  <1> HIDE DEF line, L, p, q, s, e
  <1>8. L \in Nat /\ L <= s /\ Len(now) \in Nat
    BY <1>1, <1>3
  (* What posToLSP makes of either end.                                     *)
  <1>9. ASSUME NEW x, NEW o \in Nat, L <= o, x.offset = o, x.line = line + 1, x.col = o - L + 1
        PROVE  PosToLSP(now, x) = Position(line, IF encoding = "utf-8" \/ o > Len(now) THEN o - L
                                                 ELSE UTF16Len(SubSeq(now, L + 1, o)))
    <2>1. x.line > 0 /\ x.col > 0 /\ x.line - 1 = line /\ x.col - 1 = o - L /\ x.offset - (o - L) = L
      BY <1>3, <1>8, <1>9
    <2>2. ~(L < 0) /\ L <= x.offset
      BY <1>8, <1>9
    <2>3. CASE encoding = "utf-8" \/ o > Len(now)
      <3>1. PosToLSP(now, x) = Position(line, o - L)
        BY <1>9, <2>1, <2>3 DEF PosToLSP
      <3> QED
        BY <2>3, <3>1
    <2>4. CASE ~(encoding = "utf-8" \/ o > Len(now))
      <3>1. x.offset <= Len(now) /\ ~(x.offset > Len(now)) /\ encoding # "utf-8"
        BY <1>8, <1>9, <2>4
      <3>2. PosToLSP(now, x) = Position(line, UTF16Len(SubSeq(now, L + 1, o)))
        BY <1>9, <2>1, <2>2, <3>1 DEF PosToLSP
      <3> QED
        BY <2>4, <3>2
    <2> QED
      BY <2>3, <2>4
  <1> DEFINE cu == IF encoding = "utf-8" \/ s > Len(now) THEN s - L ELSE UTF16Len(SubSeq(now, L + 1, s))
             cv == IF encoding = "utf-8" \/ e > Len(now) THEN e - L ELSE UTF16Len(SubSeq(now, L + 1, e))
  <1>10. u = Position(line, cu) /\ v = Position(line, cv)
    <2>1. L <= e
      BY <1>1, <1>8
    <2> QED
      BY <1>1, <1>4, <1>5, <1>8, <1>9, <2>1
  <1>11. cu <= cv /\ cu \in Int /\ cv \in Int
    <2>1. CASE encoding = "utf-8" \/ s > Len(now)
      <3>1. cu = s - L /\ cv = e - L
        BY <1>1, <1>8, <2>1
      <3> HIDE DEF cu, cv
      <3> QED
        BY <1>1, <1>8, <3>1
    <2>2. CASE ~(encoding = "utf-8" \/ s > Len(now)) /\ e > Len(now)
      <3> DEFINE t == SubSeq(now, L + 1, s)
                 m == UTF16Len(t)
      <3>1. t \in Seq(B) /\ Len(t) = s - L
        <4>1. s <= Len(now)
          BY <1>1, <1>8, <2>2
        <4> QED
          BY <1>1, <1>8, <4>1, Stretch
      <3>2. m \in Nat /\ m <= (s - L) + 1
        <4> HIDE DEF t
        <4> QED
          BY <3>1, UTF16LenBounds
      <3>3. cu = m /\ cv = e - L
        BY <2>2
      <3> HIDE DEF m, cu, cv
      <3> QED
        BY <1>1, <1>8, <3>2, <3>3
    <2>3. CASE ~(encoding = "utf-8" \/ s > Len(now)) /\ ~(e > Len(now))
      <3> DEFINE t == SubSeq(now, L + 1, s)
                 w == SubSeq(now, L + 1, e)
      <3>0. s <= Len(now) /\ e <= Len(now) /\ L <= e
        BY <1>1, <1>8, <2>3
      <3>1. t \in Seq(B) /\ Len(t) = s - L /\ \A i \in 1..(s - L) : t[i] = now[L + i]
        BY <1>1, <1>8, <3>0, Stretch
      <3>2. w \in Seq(B) /\ Len(w) = e - L /\ \A i \in 1..(e - L) : w[i] = now[L + i]
        BY <1>1, <1>8, <3>0, Stretch
      <3>3. cu = UTF16Len(t) /\ cv = UTF16Len(w)
        BY <2>3
      <3> HIDE DEF t, w, cu, cv
      <3>4. s - L <= e - L /\ \A i \in 1..(s - L) : i \in 1..(e - L)
        BY <1>1, <1>8
      <3>5. Begins(t, w)
        BY <3>1, <3>2, <3>4 DEF Begins
      <3>6. UTF16Len(t) <= UTF16Len(w)
        BY <3>1, <3>2, <3>5, UTF16LenMonotone
      <3>7. UTF16Len(t) \in Nat /\ UTF16Len(w) \in Nat
        BY <3>1, <3>2, UTF16LenBounds
      <3> QED
        BY <3>3, <3>6, <3>7
    <2> QED
      BY <2>1, <2>2, <2>3
  <1> HIDE DEF cu, cv, u, v
  <1>12. u.line = line /\ u.character = cu /\ v.line = line /\ v.character = cv
    BY <1>10 DEF Position
  <1>13. ~Before(v, u)
    <2>1. ~(line < line) /\ ~(cv < cu)
      BY <1>3, <1>11
    <2> QED
      BY <1>12, <2>1 DEF Before
  <1>14. [start |-> u, end |-> v] \in Ranges
    BY <1>6 DEF Ranges, Places
  <1>15. [start |-> u, end |-> v].start = u /\ [start |-> u, end |-> v].end = v
    OBVIOUS
  <1> QED
    BY <1>7, <1>13, <1>14, <1>15
-----------------------------------------------------------------------------
(* The answers of the handlers, by what they are about.                     *)
CompletionOf(c, pos) ==
    LET src == Bytes(c)
        off == OffsetFor(src, pos)
        start == CompletionStart(src, off)
    IN  [kind |-> "completion", pos |-> pos, off |-> off, varsOnly |-> VariablesOnly(src, start),
         prefix |-> SubSeq(src, start + 1, off),
         edit |-> [start |-> PosForOffset(src, start), end |-> pos]]

(* The answer of prepareRename.                                             *)
PrepareOf(c, pos) ==
    LET src == Bytes(c)
        off == OffsetFor(src, pos)
        word == WordAtOffset(src, off)
    IN  [kind |-> "prepareRename", pos |-> pos, off |-> off, word |-> word,
         edit |-> [start |-> PosForOffset(src, word.start), end |-> PosForOffset(src, word.end)]]

(* The answer for a name of the text itself ...                             *)
NameOf(c, name) ==
    [kind |-> "name", word |-> name, edit |-> RangeToLSP(Bytes(c), Bytes(c), name)]

(* ... and of a text that has lost bytes.                                   *)
StaleOf(c, name, from, to) ==
    [kind |-> "stale", word |-> name, edit |-> RangeToLSP(Bytes(c), SubSeq(Bytes(c), from, to), name)]

(* The answer for a comment of ShellCheck.                                  *)
CommentOf(c, line, column, endLine, endColumn) ==
    [kind |-> "shellcheck", from |-> Position(line, column), to |-> Position(endLine, endColumn),
     edit |-> ShellCheckSourceRange(Bytes(c), line, column, endLine, endColumn)]

(* The answer on its way is one the text of now gives: the text changes     *)
(* only when there is none.                                                 *)
Answered ==
    \/ answer = NoAnswer
    \/ \E pos \in Cursors(text) :
          OffsetFor(Bytes(text), pos) >= 0 /\ answer = CompletionOf(text, pos)
    \/ \E pos \in Cursors(text) :
          /\ IsIdentifier(Bytes(text), WordAtOffset(Bytes(text), OffsetFor(Bytes(text), pos)))
          /\ answer = PrepareOf(text, pos)
    \/ \E name \in Names(Bytes(text)) : answer = NameOf(text, name)
    \/ \E name \in Names(Bytes(text)), from \in 1..Len(Bytes(text)), to \in 1..Len(Bytes(text)) :
          answer = StaleOf(text, name, from, to)
    \/ \E line \in 0..(Newlines(Bytes(text), Len(Bytes(text))) + 1),
          column \in 0..(Len(text) + 1), endColumn \in 0..(Len(text) + 1) :
          \E endLine \in {0, line, line + 1} : answer = CommentOf(text, line, column, endLine, endColumn)

(* The inductive invariant.                                                 *)
Inv ==
    /\ encoding \in {"", "utf-8", "utf-16"}
    /\ text \in Seq(Chars) /\ Len(text) <= MaxLen
    /\ encoding = "" => text = <<>> /\ answer = NoAnswer
    /\ Answered

(* What the conversions give depends on the encoding alone ...              *)
LEMMA EncodingKept ==
    ASSUME encoding' = encoding
    PROVE  /\ \A src, pos : OffsetFor(src, pos)' = OffsetFor(src, pos)
           /\ \A src, at : PosForOffset(src, at)' = PosForOffset(src, at)
           /\ \A src, now, name : RangeToLSP(src, now, name)' = RangeToLSP(src, now, name)
           /\ \A src, l, x, m, y : ShellCheckSourceRange(src, l, x, m, y)' = ShellCheckSourceRange(src, l, x, m, y)
  <1>1. \A src, pos : OffsetFor(src, pos)' = OffsetFor(src, pos)
    BY DEF OffsetFor
  <1>2. \A src, at : PosForOffset(src, at)' = PosForOffset(src, at)
    BY DEF PosForOffset, Units
  <1>3. \A src, now, name : RangeToLSP(src, now, name)' = RangeToLSP(src, now, name)
    BY DEF RangeToLSP, PosToLSP
  <1>4. \A src, l, x, m, y : ShellCheckSourceRange(src, l, x, m, y)' = ShellCheckSourceRange(src, l, x, m, y)
    BY DEF ShellCheckSourceRange, ShellCheckPosition, Units
  <1> QED
    BY <1>1, <1>2, <1>3, <1>4

(* ... and so do the answers ...                                            *)
LEMMA AnswersKept ==
    ASSUME encoding' = encoding
    PROVE  /\ \A c, pos : CompletionOf(c, pos)' = CompletionOf(c, pos)
           /\ \A c, pos : PrepareOf(c, pos)' = PrepareOf(c, pos)
           /\ \A c, u : NameOf(c, u)' = NameOf(c, u)
           /\ \A c, u, from, to : StaleOf(c, u, from, to)' = StaleOf(c, u, from, to)
           /\ \A c, l, x, m, y : CommentOf(c, l, x, m, y)' = CommentOf(c, l, x, m, y)
  BY EncodingKept DEF CompletionOf, PrepareOf, NameOf, StaleOf, CommentOf

(* ... and where the client may put its cursor.                             *)
LEMMA CursorsKept ==
    ASSUME encoding' = encoding
    PROVE  \A c : Cursors(c)' = Cursors(c)
  BY DEF Cursors, ClientPosition, Width, Units

(* It holds at first, ...                                                   *)
LEMMA InvInit == Init => Inv
  <1> SUFFICES ASSUME Init PROVE Inv
    OBVIOUS
  <1>1. <<>> \in Seq(Chars) /\ Len(<<>>) = 0 /\ 0 <= MaxLen
    BY BoundsAssumption
  <1> QED
    BY <1>1 DEF Init, Inv, Answered

(* An action that answers leaves encoding and text as they are.             *)
LEMMA InvAsk ==
    ASSUME Inv, Ask, Answered'
    PROVE  Inv'
  BY DEF Inv, Ask

(* A text with one more character.                                          *)
LEMMA Appending ==
    ASSUME NEW S, NEW s \in Seq(S), NEW x \in S
    PROVE  Append(s, x) \in Seq(S) /\ Len(Append(s, x)) = Len(s) + 1 /\ Len(s) \in Nat
  OBVIOUS

(* ... and every step keeps it.                                             *)
LEMMA InvNext == Inv /\ [Next]_vars => Inv'
  <1> SUFFICES ASSUME Inv, [Next]_vars PROVE Inv'
    OBVIOUS
  <1>1. CASE UNCHANGED vars
    <2>1. encoding' = encoding /\ text' = text /\ answer' = answer
      BY <1>1 DEF vars
    <2>2. Answered'
      <3>1. Answered
        BY DEF Inv
      <3> QED
        BY <2>1, <3>1, EncodingKept, AnswersKept, CursorsKept DEF Answered
    <2> QED
      BY <2>1, <2>2 DEF Inv
  <1>2. ASSUME NEW offers \in SUBSET {"utf-8", "utf-16", "utf-32"}, Initialize(offers) PROVE Inv'
    <2>1. answer = NoAnswer /\ UNCHANGED <<text, answer>> /\ encoding' \in {"utf-8", "utf-16"}
      BY <1>2 DEF Inv, Initialize, PickPositionEncoding
    <2>2. Answered'
      BY <2>1 DEF Answered
    <2> QED
      BY <2>1, <2>2 DEF Inv
  <1>3. ASSUME NEW c \in Chars, DidChange(c) PROVE Inv'
    <2>1. /\ text' = Append(text, c) /\ answer' = NoAnswer /\ encoding' = encoding
          /\ encoding # "" /\ Len(text) < MaxLen /\ text \in Seq(Chars) /\ MaxLen \in Nat
      BY <1>3, BoundsAssumption DEF Inv, DidChange
    <2>2. text' \in Seq(Chars) /\ Len(text') <= MaxLen
      <3>1. text' \in Seq(Chars) /\ Len(text') = Len(text) + 1 /\ Len(text) \in Nat
        BY <2>1, Appending
      <3> DEFINE n == Len(text)
      <3> HIDE DEF n
      <3>2. n \in Nat /\ n < MaxLen /\ MaxLen \in Nat
        BY <2>1, <3>1 DEF n
      <3>3. n + 1 <= MaxLen
        BY ONLY <3>2
      <3> QED
        BY <3>1, <3>3 DEF n
    <2>3. Answered'
      BY <2>1 DEF Answered
    <2> QED
      BY <2>1, <2>2, <2>3 DEF Inv
  <1>4. ASSUME NEW pos \in Cursors(text), Completion(pos) PROVE Inv'
    <2>1. /\ Ask /\ OffsetFor(Bytes(text), pos) >= 0 /\ answer' = CompletionOf(text, pos)
          /\ encoding' = encoding /\ text' = text
      BY <1>4 DEF Completion, CompletionOf, Ask
    <2>2. Answered'
      BY <2>1, EncodingKept, AnswersKept, CursorsKept DEF Answered
    <2> QED
      BY <2>1, <2>2, InvAsk
  <1>5. ASSUME NEW pos \in Cursors(text), PrepareRename(pos) PROVE Inv'
    <2>1. /\ Ask /\ answer' = PrepareOf(text, pos)
          /\ IsIdentifier(Bytes(text), WordAtOffset(Bytes(text), OffsetFor(Bytes(text), pos)))
          /\ encoding' = encoding /\ text' = text
      BY <1>5 DEF PrepareRename, PrepareOf, Ask
    <2>2. Answered'
      BY <2>1, EncodingKept, AnswersKept, CursorsKept DEF Answered
    <2> QED
      BY <2>1, <2>2, InvAsk
  <1>6. ASSUME NEW name \in Names(Bytes(text)), Locate(name) PROVE Inv'
    <2>1. Ask /\ answer' = NameOf(text, name) /\ encoding' = encoding /\ text' = text
      BY <1>6 DEF Locate, NameOf, Ask
    <2>2. Answered'
      BY <2>1, AnswersKept DEF Answered
    <2> QED
      BY <2>1, <2>2, InvAsk
  <1>7. ASSUME NEW name \in Names(Bytes(text)),
               NEW from \in 1..Len(Bytes(text)), NEW to \in 1..Len(Bytes(text)), LocateStale(name, from, to)
        PROVE  Inv'
    <2>1. Ask /\ answer' = StaleOf(text, name, from, to) /\ encoding' = encoding /\ text' = text
      BY <1>7 DEF LocateStale, StaleOf, Ask
    <2>2. Answered'
      BY <2>1, AnswersKept DEF Answered
    <2> QED
      BY <2>1, <2>2, InvAsk
  <1>8. ASSUME NEW line \in 0..(Newlines(Bytes(text), Len(Bytes(text))) + 1),
               NEW column \in 0..(Len(text) + 1), NEW endColumn \in 0..(Len(text) + 1),
               NEW endLine \in {0, line, line + 1}, ShellCheck(line, column, endLine, endColumn)
        PROVE  Inv'
    <2>1. /\ Ask /\ answer' = CommentOf(text, line, column, endLine, endColumn)
          /\ encoding' = encoding /\ text' = text
      BY <1>8 DEF ShellCheck, CommentOf, Ask
    <2>2. Answered'
      BY <2>1, AnswersKept DEF Answered
    <2> QED
      BY <2>1, <2>2, InvAsk
  <1>9. CASE Receive
    <2>1. answer' = NoAnswer /\ UNCHANGED <<encoding, text>>
      BY <1>9 DEF Receive
    <2>2. Answered'
      BY <2>1 DEF Answered
    <2> QED
      BY <2>1, <2>2 DEF Inv
  <1> QED
    BY <1>1, <1>2, <1>3, <1>4, <1>5, <1>6, <1>7, <1>8, <1>9 DEF Next

(* An answer on its way to the client was made for the text and with the    *)
(* encoding of now: the encoding is negotiated once, before there is a      *)
(* text, and a client that types on drops the answer. All that is said of   *)
(* answers below rests on this invariant.                                   *)
THEOREM AnswersOfThisText == Spec => []Inv
  BY InvInit, InvNext, PTL DEF Spec
-----------------------------------------------------------------------------
(* The client types characters of the classes of Encode.                    *)
LEMMA TextsOfInv == Inv => text \in Texts
  <1>1. Chars \subseteq DOMAIN Encode
    BY CharsAssumption
  <1>2. Seq(Chars) \subseteq Seq(DOMAIN Encode)
    <2> DEFINE S == DOMAIN Encode
    <2> HIDE DEF S
    <2>1. Chars \subseteq S
      BY <1>1 DEF S
    <2>2. ASSUME NEW c \in Seq(Chars) PROVE c \in Seq(S)
      <3>1. Len(c) \in Nat /\ c = [i \in 1..Len(c) |-> c[i]] /\ \A i \in 1..Len(c) : c[i] \in S
        BY <2>1
      <3> QED
        BY <3>1
    <2> QED
      BY <2>2 DEF S
  <1> QED
    BY <1>2 DEF Inv, Texts

(* A cursor is a position.                                                  *)
LEMMA CursorsArePlaces ==
    ASSUME NEW c \in Texts, NEW pos \in Cursors(c)
    PROVE  pos \in Places
  <1>1. PICK l \in 0..(ClientPosition(c, Len(c)).line + 1), x \in 0..(Units(Bytes(c)) + 2) : pos = Position(l, x)
    BY DEF Cursors
  <1>2. l \in Nat /\ x \in Nat
    <2>1. ClientPosition(c, Len(c)).line \in Nat
      <3>1. Len(c) \in Nat
        BY DEF Texts
      <3> QED
        BY <3>1, ClientPositionIs, EndsFinite
    <2>2. Units(Bytes(c)) \in Nat
      BY BytesFacts, UnitsNat
    <2> QED
      BY <2>1, <2>2
  <1> QED
    BY <1>1, <1>2 DEF Position, Places

(* What the handlers answer for a text.                                     *)
LEMMA CompletionIs ==
    ASSUME NEW c \in Texts, NEW pos \in Places, NEW k \in 0..Len(c), ReadsAs(c, pos, k)
    PROVE  LET a == CompletionOf(c, pos)
               s == CompletionStart(Bytes(c), ByteOffset(c, k))
           IN  \E j \in 0..Len(c) :
                 /\ s = ByteOffset(c, j) /\ a.edit.start = ClientPosition(c, j) /\ a.edit.end = pos
                 /\ a.off = ByteOffset(c, k)
                 /\ a.prefix = SubSeq(Bytes(c), s + 1, ByteOffset(c, k))
                 /\ j <= k /\ \A i \in (s + 1)..ByteOffset(c, k) : IsWordChar(Bytes(c)[i])
                 /\ s = 0 \/ ~IsWordChar(Bytes(c)[s])
  <1> DEFINE b == Bytes(c)
             o == ByteOffset(c, k)
             s == CompletionStart(b, o)
             a == CompletionOf(c, pos)
  <1>1. OffsetFor(b, pos) = o
    BY OffsetForIs
  <1>2. /\ a.off = o /\ a.prefix = SubSeq(b, s + 1, o)
        /\ a.edit.start = PosForOffset(b, s) /\ a.edit.end = pos
    BY <1>1 DEF CompletionOf
  <1>3. b \in Seq(ByteClass) /\ o \in 0..Len(b) /\ Len(b) \in Nat
    BY BytesFacts, OffsetsIncrease
  <1>4. s \in 0..o /\ (\A i \in (s + 1)..o : IsWordChar(b[i])) /\ (s = 0 \/ ~IsWordChar(b[s]))
    <2> HIDE DEF b, o
    <2> QED
      BY <1>3, CompletionStartIs
  <1>5. \E j \in 0..Len(c) : s = ByteOffset(c, j)
    <2>1. CASE s = o
      BY <2>1
    <2>2. CASE s # o
      <3> HIDE DEF s, o
      <3>1. s \in 0..Len(b) /\ s < Len(b) /\ s + 1 \in (s + 1)..o
        <4> HIDE DEF b
        <4> QED
          BY <1>3, <1>4, <2>2
      <3>2. IsWordChar(b[s + 1])
        BY <1>4, <3>1
      <3> QED
        BY <3>1, <3>2, WordBoundary
    <2> QED
      BY <2>1, <2>2
  <1>6. PICK j \in 0..Len(c) : s = ByteOffset(c, j)
    BY <1>5
  <1>7. PosForOffset(b, s) = ClientPosition(c, j)
    BY <1>6, PosForOffsetIs
  <1>8. j <= k
    <2>1. s <= o
      <3> HIDE DEF s, o
      <3> QED
        BY <1>3, <1>4
    <2> QED
      BY <1>6, <2>1, OffsetsIncrease
  <1> HIDE DEF a, s, o, b
  <1>9. \E i \in 0..Len(c) :
                 /\ s = ByteOffset(c, i) /\ a.edit.start = ClientPosition(c, i) /\ a.edit.end = pos
                 /\ a.off = o
                 /\ a.prefix = SubSeq(b, s + 1, o)
                 /\ i <= k /\ \A m \in (s + 1)..o : IsWordChar(b[m])
                 /\ s = 0 \/ ~IsWordChar(b[s])
    BY <1>2, <1>4, <1>6, <1>7, <1>8
  <1> QED
    BY <1>9 DEF a, s, o, b

(* The range of a word found by scanning is the word.                       *)
LEMMA PrepareIs ==
    ASSUME NEW c \in Texts, NEW word, IsSpan(Bytes(c), word), NEW r,
           r.start = PosForOffset(Bytes(c), word.start), r.end = PosForOffset(Bytes(c), word.end)
    PROVE  Exact(c, r) /\ ClientSpan(c, r) = word
  <1>1. PICK j \in 0..Len(c), k \in 0..Len(c) : word = [start |-> ByteOffset(c, j), end |-> ByteOffset(c, k)]
    BY SpanOfText
  <1>2. r.start = ClientPosition(c, j) /\ r.end = ClientPosition(c, k)
    BY <1>1, PosForOffsetIs
  <1> QED
    BY <1>1, <1>2, RangeExact

(* The range of a name that the parser could hold is the same but for its   *)
(* end before a "\r", and to the client it is the name.                     *)
LEMMA NameIs ==
    ASSUME NEW c \in Texts, NEW word, IsSpan(Bytes(c), word),
           Holds(Bytes(c), word.start), Holds(Bytes(c), ParsedEnd(Bytes(c), word.end))
    PROVE  LET b == Bytes(c)
               after == ParsedEnd(b, word.end)
               found == [start |-> PosForOffset(b, word.start), end |-> PosForOffset(b, word.end)]
               r == RangeToLSP(b, b, word)
           IN  /\ r = [found EXCEPT !.end.character = @ + (after - word.end)]
               /\ ClientSpan(c, r) = word /\ InText(c, r.start)
               /\ after = word.end => InText(c, r.end)
  <1> DEFINE b == Bytes(c)
             after == ParsedEnd(b, word.end)
             d == after - word.end
             u == PosForOffset(b, word.start)
             v == PosForOffset(b, word.end)
             w == PosForOffset(b, after)
             r == RangeToLSP(b, b, word)
  <1>1. b \in Seq(ByteClass)
    BY BytesFacts
  <1>2. word.start \in 0..Len(b) /\ word.end \in 0..Len(b) /\ word.end \in Nat /\ after \in 0..Len(b)
    <2> HIDE DEF b
    <2>1. word.start \in 0..Len(b) /\ word.end \in 0..Len(b)
      BY <1>1, SpanOnLine DEF b
    <2> QED
      BY <1>1, <2>1, ParsedEndIs
  <1>3. r = [start |-> u, end |-> w]
    <2>1. u = PosToLSP(b, NodePos(b, word.start)) /\ w = PosToLSP(b, NodePos(b, after))
      BY <1>1, <1>2, ScanAndTreeAgree
    <2> QED
      BY <2>1 DEF RangeToLSP
  <1>4. PICK j \in 0..Len(c), k \in 0..Len(c) : word = [start |-> ByteOffset(c, j), end |-> ByteOffset(c, k)]
    BY SpanOfText
  <1>5. u = ClientPosition(c, j) /\ v = ClientPosition(c, k)
    BY <1>4, PosForOffsetIs
  <1>6. w = [ClientPosition(c, k) EXCEPT !.character = @ + d] /\ ClientPlace(c, w) = k
    BY <1>4, ParsedEndPosition
  <1>7. ClientPlace(c, u) = j /\ InText(c, u) /\ ClientPlace(c, v) = k /\ InText(c, v)
    BY <1>5, PlacesExact
  <1>8. after = word.end => w = v
    OBVIOUS
  <1>9. ClientSpan(c, r) = word
    BY <1>3, <1>4, <1>6, <1>7 DEF ClientSpan
  <1> HIDE DEF u, v, w, d, r
  <1>10. r = [[start |-> u, end |-> v] EXCEPT !.end.character = @ + d]
    <2>1. w = [v EXCEPT !.character = @ + d]
      BY <1>5, <1>6
    <2> QED
      BY <1>3, <2>1
  <1>11. r.start = u /\ r.end = w
    BY <1>3
  <1> QED
    BY <1>7, <1>8, <1>9, <1>10, <1>11 DEF u, v, d, r

(* A comment of ShellCheck is never reversed, wherever it is.               *)
LEMMA CommentOrdered ==
    ASSUME NEW B, NEW src \in Seq(B), NEW line \in Nat, NEW column \in Nat, NEW endLine \in Nat, NEW endColumn \in Nat
    PROVE  LET r == ShellCheckSourceRange(src, line, column, endLine, endColumn)
           IN  /\ r.start \in Places /\ ~Before(r.end, r.start)
  <1> DEFINE start == ShellCheckPosition(src, line, column)
             end == ShellCheckPosition(src, IF endLine <= 0 THEN line ELSE endLine,
                                            IF endColumn <= 0 THEN column + 1 ELSE endColumn)
  <1>1. start \in Places
    BY ShellCheckPositionType
  <1>2. ShellCheckSourceRange(src, line, column, endLine, endColumn)
          = [start |-> start, end |-> IF Before(end, start) THEN start ELSE end]
    BY DEF ShellCheckSourceRange
  <1> HIDE DEF start, end
  <1>3. ~Before(start, start)
    BY <1>1 DEF Before, Places
  <1> QED
    BY <1>1, <1>2, <1>3

(* The positions of places are in the order of the places.                  *)
LEMMA PlacesOrdered ==
    ASSUME NEW c \in Texts, NEW j \in 0..Len(c), NEW k \in 0..Len(c), j <= k
    PROVE  ~Before(ClientPosition(c, k), ClientPosition(c, j))
  <1> DEFINE p == ClientPosition(c, j)
             q == ClientPosition(c, k)
             x == Cardinality(EndsBefore(c, j))
             y == Cardinality(EndsBefore(c, k))
  <1>1. j \in Nat /\ k \in Nat
    BY DEF Texts
  <1>2. x <= y /\ x \in Nat /\ y \in Nat /\ p.line = x /\ q.line = y
    BY <1>1, EndsFinite, EndsBetween, ClientPositionIs
  <1>3. ASSUME x = y PROVE p.character <= q.character /\ p.character \in Nat /\ q.character \in Nat
    <2>1. p.character \in Nat /\ q.character \in Nat /\ p.character + (k - j) <= q.character
      BY <1>3, ColumnsIncrease
    <2> HIDE DEF p, q
    <2> QED
      BY <1>1, <2>1
  <1> HIDE DEF p, q, x, y
  <1>4. ~Before(q, p)
    BY <1>2, <1>3 DEF Before
  <1> QED
    BY <1>4 DEF p, q

(* A comment from one place to a later one is shown from the one to the     *)
(* other.                                                                   *)
LEMMA CommentIs ==
    ASSUME NEW c \in Texts, NEW j \in 0..Len(c), NEW k \in 0..Len(c), j <= k,
           NEW line \in Nat, NEW column \in Nat, NEW endLine \in Nat, NEW endColumn \in Nat,
           line = Cardinality(EndsBefore(c, j)) + 1, column = 1 + (j - From(c, j)),
           endLine = Cardinality(EndsBefore(c, k)) + 1, endColumn = 1 + (k - From(c, k))
    PROVE  LET r == ShellCheckSourceRange(Bytes(c), line, column, endLine, endColumn)
           IN  r.start = ClientPosition(c, j) /\ r.end = ClientPosition(c, k)
  <1>1. j \in Nat /\ k \in Nat
    BY DEF Texts
  <1>2. Cardinality(EndsBefore(c, k)) \in Nat /\ From(c, k) \in 0..k
    BY <1>1, EndsFinite, FromFacts
  <1>3. ~(endLine <= 0) /\ ~(endColumn <= 0)
    <2> DEFINE x == Cardinality(EndsBefore(c, k))
               f == From(c, k)
    <2> HIDE DEF x, f
    <2>1. endLine = x + 1 /\ endColumn = 1 + (k - f) /\ x \in Nat /\ f \in 0..k
      BY <1>2 DEF x, f
    <2> QED
      BY <1>1, <2>1
  <1>4. /\ ShellCheckPosition(Bytes(c), line, column) = ClientPosition(c, j)
        /\ ShellCheckPosition(Bytes(c), endLine, endColumn) = ClientPosition(c, k)
    BY ShellCheckPositionIs
  <1>5. ~Before(ClientPosition(c, k), ClientPosition(c, j))
    BY PlacesOrdered
  <1> QED
    BY <1>3, <1>4, <1>5 DEF ShellCheckSourceRange

(* ShellCheck's place k: its line and how many characters come before it.   *)
LEMMA CodePointPositionIs ==
    ASSUME NEW k \in 0..Len(text), text \in Texts
    PROVE  CodePointPosition(k) = Position(Cardinality(EndsBefore(text, k)) + 1, 1 + (k - From(text, k)))
  <1> DEFINE C(i) == Cardinality(EndsBefore(text, i))
             f == From(text, k)
             S == {i \in 1..k : ClientPosition(text, i).line = C(k) /\ text[i] \notin Ends}
  <1>1. k \in Nat
    BY DEF Texts
  <1>2. f \in 0..k /\ (f = 0 \/ text[f] \in Ends) /\ \A i \in (f + 1)..k : text[i] \notin Ends
    BY <1>1, FromFacts
  <1>3. CodePointPosition(k) = Position(C(k) + 1, 1 + Cardinality(S))
    <2>1. ClientPosition(text, k).line = C(k)
      BY ClientPositionIs
    <2>2. CodePointPosition(k) = Position(ClientPosition(text, k).line + 1, 1 + Cardinality(
             {i \in 1..k : ClientPosition(text, i).line = ClientPosition(text, k).line /\ text[i] \notin Ends}))
      BY DEF CodePointPosition, Ends
    <2> HIDE DEF C
    <2> QED
      BY <2>1, <2>2
  <1>4. S = (f + 1)..k
    <2> HIDE DEF f
    <2>1. ASSUME NEW i \in (f + 1)..k PROVE i \in S
      <3>1. i \in Nat /\ i <= k /\ i \in 1..k /\ \A m \in (i + 1)..k : m \in (f + 1)..k
        BY <1>1, <1>2
      <3>2. C(i) = C(k)
        BY <1>1, <1>2, <3>1, EndsBetween
      <3>3. ClientPosition(text, i).line = C(i)
        BY ClientPositionIs
      <3> QED
        BY <1>2, <3>1, <3>2, <3>3
    <2>2. ASSUME NEW i \in S PROVE i \in (f + 1)..k
      <3>1. i \in 1..k /\ C(i) = C(k) /\ text[i] \notin Ends
        BY ClientPositionIs
      <3>2. i \in Nat /\ i <= k
        BY <1>1, <3>1
      <3>3. \A m \in (i + 1)..k : text[m] \notin Ends
        BY <1>1, <3>1, <3>2, EndsBetween
      <3>4. f # i /\ f \notin (i + 1)..k
        <4>1. CASE f = 0
          BY <3>2, <3>1, <4>1
        <4>2. CASE f # 0
          BY <1>2, <3>1, <3>3, <4>2
        <4> QED
          BY <4>1, <4>2
      <3> HIDE DEF S
      <3> QED
        BY <1>1, <1>2, <3>1, <3>2, <3>4
    <2> HIDE DEF S
    <2> QED
      BY <2>1, <2>2
  <1>5. Cardinality((f + 1)..k) = k - f
    <2> HIDE DEF f
    <2>1. f + 1 \in Int /\ k \in Int
      BY <1>1, <1>2
    <2>2. Cardinality((f + 1)..k) = IF f + 1 > k THEN 0 ELSE k - (f + 1) + 1
      BY <2>1, FS_Interval
    <2>3. (IF f + 1 > k THEN 0 ELSE k - (f + 1) + 1) = k - f
      BY <1>1, <1>2
    <2> QED
      BY <2>2, <2>3
  <1> QED
    BY <1>3, <1>4, <1>5
-----------------------------------------------------------------------------
(* Which answer it is can be told by its kind.                              *)
LEMMA AnswerKinds ==
    ASSUME Inv
    PROVE  /\ answer.kind = "completion" =>
                 \E pos \in Cursors(text) :
                    OffsetFor(Bytes(text), pos) >= 0 /\ answer = CompletionOf(text, pos)
           /\ answer.kind = "prepareRename" =>
                 \E pos \in Cursors(text) :
                    /\ IsIdentifier(Bytes(text), WordAtOffset(Bytes(text), OffsetFor(Bytes(text), pos)))
                    /\ answer = PrepareOf(text, pos)
           /\ answer.kind = "name" =>
                 \E name \in Names(Bytes(text)) : answer = NameOf(text, name)
           /\ answer.kind = "stale" =>
                 \E name \in Names(Bytes(text)), from \in 1..Len(Bytes(text)), to \in 1..Len(Bytes(text)) :
                    answer = StaleOf(text, name, from, to)
           /\ answer.kind = "shellcheck" =>
                 \E line \in Nat, column \in Nat, endLine \in Nat, endColumn \in Nat :
                    answer = CommentOf(text, line, column, endLine, endColumn)
  <1>1. NoAnswer.kind = "none"
    BY DEF NoAnswer
  <1>2. \A pos : CompletionOf(text, pos).kind = "completion"
    BY DEF CompletionOf
  <1>3. \A pos : PrepareOf(text, pos).kind = "prepareRename"
    BY DEF PrepareOf
  <1>4. \A name : NameOf(text, name).kind = "name"
    BY DEF NameOf
  <1>5. \A name, from, to : StaleOf(text, name, from, to).kind = "stale"
    BY DEF StaleOf
  <1>6. \A l, x, m, y : CommentOf(text, l, x, m, y).kind = "shellcheck"
    BY DEF CommentOf
  <1>7. Answered
    BY DEF Inv
  <1>8. ASSUME NEW line \in 0..(Newlines(Bytes(text), Len(Bytes(text))) + 1),
               NEW column \in 0..(Len(text) + 1), NEW endColumn \in 0..(Len(text) + 1),
               NEW endLine \in {0, line, line + 1}
        PROVE  line \in Nat /\ column \in Nat /\ endLine \in Nat /\ endColumn \in Nat
    OBVIOUS
  <1> QED
    BY <1>1, <1>2, <1>3, <1>4, <1>5, <1>6, <1>7, <1>8 DEF Answered

(* A part of the bytes of a text, as a file that has lost bytes has them.   *)
LEMMA LostBytes ==
    ASSUME NEW B, NEW src \in Seq(B), NEW from \in 1..Len(src), NEW to \in 1..Len(src)
    PROVE  SubSeq(src, from, to) \in Seq(B)
  OBVIOUS

(* Every answer begins at a position with natural numbers.                  *)
LEMMA AnswerTyped ==
    ASSUME Inv, answer # NoAnswer
    PROVE  answer.edit.start \in Places
  <1> DEFINE b == Bytes(text)
  <1>1. text \in Texts
    BY TextsOfInv
  <1>2. b \in Seq(ByteClass) /\ Len(b) \in Nat
    BY <1>1, BytesFacts
  <1>3. ASSUME NEW pos \in Cursors(text), OffsetFor(b, pos) >= 0, answer = CompletionOf(text, pos)
        PROVE  answer.edit.start \in Places
    <2> DEFINE off == OffsetFor(b, pos)
               s == CompletionStart(b, off)
    <2>1. answer.edit.start = PosForOffset(b, s)
      BY <1>3 DEF CompletionOf
    <2>2. s \in Int
      <3> DEFINE o == IF off > Len(b) THEN Len(b) ELSE off
      <3>1. s = Min({t \in 0..o : \A i \in (t + 1)..o : IsWordChar(b[i])})
        BY DEF CompletionStart
      <3>2. o \in 0..Len(b)
        <4>1. off \in Int
          BY <1>1, <1>2, OffsetForType, CursorsArePlaces
        <4> HIDE DEF off, b
        <4> QED
          BY <1>2, <1>3, <4>1 DEF off
      <3> HIDE DEF s, o, b
      <3>3. s \in 0..o
        BY <1>2, <3>1, <3>2, WordStart
      <3> QED
        BY <3>3
    <2> HIDE DEF b, s
    <2> QED
      BY <1>2, <2>1, <2>2, PosForOffsetType
  <1>4. ASSUME NEW pos \in Cursors(text), answer = PrepareOf(text, pos),
               IsIdentifier(b, WordAtOffset(b, OffsetFor(b, pos)))
        PROVE  answer.edit.start \in Places
    <2> DEFINE off == OffsetFor(b, pos)
               word == WordAtOffset(b, off)
    <2>1. answer.edit.start = PosForOffset(b, word.start)
      BY <1>4 DEF PrepareOf
    <2>2. word.start < word.end
      BY <1>4 DEF IsIdentifier
    <2>3. word.start \in Nat
      BY <1>2, <2>2, WordAtOffsetIs DEF IsSpan
    <2> HIDE DEF b, word
    <2> QED
      BY <1>2, <2>1, <2>3, PosForOffsetType
  <1>5. ASSUME NEW name \in Names(b), NEW now \in Seq(ByteClass),
               answer.edit = RangeToLSP(b, now, name)
        PROVE  answer.edit.start \in Places
    <2>1. IsSpan(b, name)
      BY <1>2, NamesAre
    <2>2. name.start \in 0..Len(b)
      BY <1>2, <2>1, SpanOnLine
    <2>3. answer.edit.start = PosToLSP(now, NodePos(b, name.start))
      BY <1>5 DEF RangeToLSP
    <2> HIDE DEF b
    <2> QED
      BY <1>2, <2>2, <2>3, PosToLSPType
  <1>6. ASSUME NEW name \in Names(b), answer = NameOf(text, name)
        PROVE  answer.edit.start \in Places
    <2>1. answer.edit = RangeToLSP(b, b, name)
      BY <1>6 DEF NameOf
    <2> HIDE DEF b
    <2> QED
      BY <1>2, <1>5, <2>1
  <1>7. ASSUME NEW name \in Names(b), NEW from \in 1..Len(b), NEW to \in 1..Len(b),
               answer = StaleOf(text, name, from, to)
        PROVE  answer.edit.start \in Places
    <2>1. answer.edit = RangeToLSP(b, SubSeq(b, from, to), name)
      BY <1>7 DEF StaleOf
    <2> HIDE DEF b
    <2>2. SubSeq(b, from, to) \in Seq(ByteClass)
      BY <1>2, LostBytes
    <2> QED
      BY <1>5, <2>1, <2>2
  <1>8. ASSUME NEW line \in Nat, NEW column \in Nat, NEW endLine \in Nat, NEW endColumn \in Nat,
               answer = CommentOf(text, line, column, endLine, endColumn)
        PROVE  answer.edit.start \in Places
    <2>1. answer.edit = ShellCheckSourceRange(b, line, column, endLine, endColumn)
      BY <1>8 DEF CommentOf
    <2> HIDE DEF b
    <2> QED
      BY <1>2, <2>1, CommentOrdered
  <1>9. ASSUME NEW line \in 0..(Newlines(b, Len(b)) + 1),
               NEW column \in 0..(Len(text) + 1), NEW endColumn \in 0..(Len(text) + 1),
               NEW endLine \in {0, line, line + 1}
        PROVE  line \in Nat /\ column \in Nat /\ endLine \in Nat /\ endColumn \in Nat
    OBVIOUS
  <1>10. Answered
    BY DEF Inv
  <1> QED
    BY <1>3, <1>4, <1>6, <1>7, <1>8, <1>9, <1>10 DEF Answered

(* The state has its types: only utf-8 and utf-16 are ever negotiated, and  *)
(* every answer has a range that begins at a position.                      *)
THEOREM TypeCorrect == Spec => []TypeOK
  <1>1. Places \subseteq [line : Int, character : Int]
    BY DEF Places
  <1>2. Inv => TypeOK
    BY <1>1, AnswerTyped DEF Inv, TypeOK
  <1> QED
    BY <1>2, AnswersOfThisText, PTL
-----------------------------------------------------------------------------
(* What a prepareRename answer on its way says.                             *)
LEMMA PrepareAnswer ==
    ASSUME Inv, answer.kind = "prepareRename"
    PROVE  /\ IsSpan(Bytes(text), answer.word)
           /\ answer.off \in answer.word.start..(answer.word.end - 1)
           /\ answer.edit = [start |-> PosForOffset(Bytes(text), answer.word.start),
                             end |-> PosForOffset(Bytes(text), answer.word.end)]
  <1> DEFINE b == Bytes(text)
  <1>1. b \in Seq(ByteClass)
    BY TextsOfInv, BytesFacts
  <1>2. PICK pos \in Cursors(text) :
              /\ IsIdentifier(b, WordAtOffset(b, OffsetFor(b, pos)))
              /\ answer = PrepareOf(text, pos)
    BY AnswerKinds
  <1> DEFINE off == OffsetFor(b, pos)
             word == WordAtOffset(b, off)
  <1>3. /\ answer.off = off /\ answer.word = word
        /\ answer.edit = [start |-> PosForOffset(b, word.start), end |-> PosForOffset(b, word.end)]
    BY <1>2 DEF PrepareOf
  <1>4. word.start < word.end
    BY <1>2 DEF IsIdentifier
  <1> HIDE DEF b, off
  <1>5. IsSpan(b, word) /\ off \in word.start..(word.end - 1)
    BY <1>1, <1>4, WordAtOffsetIs
  <1> HIDE DEF word
  <1> QED
    BY <1>3, <1>5 DEF b

(* What the answer for a name says.                                         *)
LEMMA NameAnswer ==
    ASSUME Inv, answer.kind = "name"
    PROVE  /\ IsSpan(Bytes(text), answer.word)
           /\ answer.edit = RangeToLSP(Bytes(text), Bytes(text), answer.word)
  <1> DEFINE b == Bytes(text)
  <1>1. b \in Seq(ByteClass)
    BY TextsOfInv, BytesFacts
  <1>2. PICK name \in Names(b) : answer = NameOf(text, name)
    BY AnswerKinds
  <1>3. answer.word = name /\ answer.edit = RangeToLSP(b, b, name)
    BY <1>2 DEF NameOf
  <1>4. IsSpan(b, name)
    BY <1>1, <1>2, NamesAre
  <1> QED
    BY <1>3, <1>4

(* prepareRename (a scan of the text) and rename (the syntax tree) begin    *)
(* and end at the same positions for the word under the cursor, but that    *)
(* rename ends one unit further on before a "\r\n"; and to the client they  *)
(* mark the same range. So it is in every text and both encodings, wherever *)
(* the parser holds the line and columns.                                   *)
THEOREM PreparedIsRenamed == Spec => []PrepareMatchesRename
  <1> DEFINE b == Bytes(text)
             after == ParsedEnd(b, answer.word.end)
             tree == RangeToLSP(b, b, answer.word)
  <1>1. ASSUME Inv, answer.kind = "prepareRename", Holds(b, answer.word.start), Holds(b, after)
        PROVE  /\ tree = [answer.edit EXCEPT !.end.character = @ + (after - answer.word.end)]
               /\ ClientSpan(text, tree) = ClientSpan(text, answer.edit)
    <2>1. text \in Texts
      BY <1>1, TextsOfInv
    <2>2. /\ IsSpan(b, answer.word)
          /\ answer.edit = [start |-> PosForOffset(b, answer.word.start), end |-> PosForOffset(b, answer.word.end)]
      BY <1>1, PrepareAnswer
    <2>3. /\ tree = [[start |-> PosForOffset(b, answer.word.start), end |-> PosForOffset(b, answer.word.end)]
                        EXCEPT !.end.character = @ + (after - answer.word.end)]
          /\ ClientSpan(text, tree) = answer.word
      BY <1>1, <2>1, <2>2, NameIs
    <2>4. /\ answer.edit.start = PosForOffset(b, answer.word.start)
          /\ answer.edit.end = PosForOffset(b, answer.word.end)
      BY <2>2
    <2>5. ClientSpan(text, answer.edit) = answer.word
      BY <2>1, <2>2, <2>4, PrepareIs
    <2> QED
      BY <2>2, <2>3, <2>5
  <1>2. Inv => PrepareMatchesRename
    BY <1>1, PrepareAnswer DEF PrepareMatchesRename
  <1> QED
    BY <1>2, AnswersOfThisText, PTL

(* An edit of rename, and the range prepareRename marks, cover the          *)
(* identifier and nothing else when the client reads them: whatever         *)
(* characters and line ends come before it, in both encodings (wherever the *)
(* parser holds the line and columns). Both ends lie on the text, but for   *)
(* an edit's end before a "\r\n", which is past the end of the line.        *)
THEOREM EditsExact == Spec => []EditsCoverNames
  <1> DEFINE b == Bytes(text)
  <1>1. ASSUME Inv, answer.kind = "prepareRename"
        PROVE  /\ InText(text, answer.edit.start) /\ InText(text, answer.edit.end)
               /\ ClientSpan(text, answer.edit) = answer.word
    <2>1. text \in Texts
      BY <1>1, TextsOfInv
    <2>2. /\ answer.edit.start = PosForOffset(b, answer.word.start)
          /\ answer.edit.end = PosForOffset(b, answer.word.end)
          /\ IsSpan(b, answer.word)
      BY <1>1, PrepareAnswer
    <2> QED
      BY <2>1, <2>2, PrepareIs DEF Exact
  <1>2. ASSUME Inv, answer.kind = "name", Holds(b, answer.word.start), Holds(b, ParsedEnd(b, answer.word.end))
        PROVE  /\ InText(text, answer.edit.start) /\ ClientSpan(text, answer.edit) = answer.word
               /\ InText(text, answer.edit.end) \/ EndsInLineEnd(answer.word)
    <2>1. text \in Texts
      BY <1>2, TextsOfInv
    <2>2. IsSpan(b, answer.word) /\ answer.edit = RangeToLSP(b, b, answer.word)
      BY <1>2, NameAnswer
    <2> DEFINE r == RangeToLSP(b, b, answer.word)
    <2>3. /\ ClientSpan(text, r) = answer.word /\ InText(text, r.start)
          /\ ParsedEnd(b, answer.word.end) = answer.word.end => InText(text, r.end)
      <3> DEFINE word == answer.word
      <3>1. IsSpan(b, word) /\ Holds(b, word.start) /\ Holds(b, ParsedEnd(b, word.end))
        BY <1>2, <2>2
      <3> HIDE DEF word
      <3>2. /\ ClientSpan(text, RangeToLSP(b, b, word)) = word /\ InText(text, RangeToLSP(b, b, word).start)
            /\ ParsedEnd(b, word.end) = word.end => InText(text, RangeToLSP(b, b, word).end)
        BY <2>1, <3>1, NameIs
      <3> QED
        BY <3>2 DEF word
    <2> QED
      BY <2>2, <2>3 DEF EndsInLineEnd
  <1>3. Inv => EditsCoverNames
    BY <1>1, <1>2 DEF EditsCoverNames
  <1> QED
    BY <1>3, AnswersOfThisText, PTL

(* A name located in a file that has lost bytes since it was indexed gives  *)
(* a range the client can read: natural numbers, end not before start.      *)
THEOREM StaleRangesInOrder == Spec => []StaleRangesOrdered
  <1> DEFINE b == Bytes(text)
  <1>1. ASSUME Inv, answer.kind = "stale", Holds(b, answer.word.start), Holds(b, ParsedEnd(b, answer.word.end))
        PROVE  answer.edit \in Ranges /\ ~Before(answer.edit.end, answer.edit.start)
    <2>1. b \in Seq(ByteClass)
      BY <1>1, TextsOfInv, BytesFacts
    <2>2. PICK name \in Names(b), from \in 1..Len(b), to \in 1..Len(b) :
             answer = StaleOf(text, name, from, to)
      BY <1>1, AnswerKinds
    <2> DEFINE now == SubSeq(b, from, to)
    <2>3. answer.word = name /\ answer.edit = RangeToLSP(b, now, name)
      BY <2>2 DEF StaleOf
    <2>4. Holds(b, name.start) /\ Holds(b, ParsedEnd(b, name.end))
      BY <1>1, <2>3
    <2> HIDE DEF b
    <2>5. now \in Seq(ByteClass) /\ IsSpan(b, name)
      BY <2>1, LostBytes, NamesAre
    <2> HIDE DEF now
    <2> QED
      BY <2>1, <2>3, <2>4, <2>5, StaleOrdered
  <1>2. Inv => StaleRangesOrdered
    BY <1>1 DEF StaleRangesOrdered
  <1> QED
    BY <1>2, AnswersOfThisText, PTL

(* A comment of ShellCheck between two places of the text is shown exactly  *)
(* there, and no comment is shown reversed.                                 *)
THEOREM CommentsShown == Spec => []ShellCheckFits
  <1>1. ASSUME Inv, answer.kind = "shellcheck"
        PROVE  /\ ~Before(answer.edit.end, answer.edit.start)
               /\ \A j, k \in 0..Len(text) :
                    j <= k /\ answer.from = CodePointPosition(j) /\ answer.to = CodePointPosition(k) =>
                      /\ Exact(text, answer.edit)
                      /\ ClientSpan(text, answer.edit) = [start |-> ByteOffset(text, j), end |-> ByteOffset(text, k)]
    <2> DEFINE b == Bytes(text)
    <2>1. text \in Texts /\ b \in Seq(ByteClass)
      BY <1>1, TextsOfInv, BytesFacts
    <2>2. PICK line \in Nat, column \in Nat, endLine \in Nat, endColumn \in Nat :
             answer = CommentOf(text, line, column, endLine, endColumn)
      BY <1>1, AnswerKinds
    <2>3. /\ answer.from = Position(line, column) /\ answer.to = Position(endLine, endColumn)
          /\ answer.edit = ShellCheckSourceRange(b, line, column, endLine, endColumn)
      BY <2>2 DEF CommentOf
    <2> HIDE DEF b
    <2>4. ~Before(answer.edit.end, answer.edit.start)
      BY <2>1, <2>3, CommentOrdered
    <2>5. ASSUME NEW j \in 0..Len(text), NEW k \in 0..Len(text), j <= k,
                 answer.from = CodePointPosition(j), answer.to = CodePointPosition(k)
          PROVE  /\ Exact(text, answer.edit)
                 /\ ClientSpan(text, answer.edit) = [start |-> ByteOffset(text, j), end |-> ByteOffset(text, k)]
      <3>1. /\ Position(line, column)
                 = Position(Cardinality(EndsBefore(text, j)) + 1, 1 + (j - From(text, j)))
            /\ Position(endLine, endColumn)
                 = Position(Cardinality(EndsBefore(text, k)) + 1, 1 + (k - From(text, k)))
        BY <2>1, <2>3, <2>5, CodePointPositionIs
      <3>2. /\ line = Cardinality(EndsBefore(text, j)) + 1 /\ column = 1 + (j - From(text, j))
            /\ endLine = Cardinality(EndsBefore(text, k)) + 1 /\ endColumn = 1 + (k - From(text, k))
        BY <3>1 DEF Position
      <3> DEFINE r == ShellCheckSourceRange(Bytes(text), line, column, endLine, endColumn)
      <3>0. text \in Texts /\ j <= k
        BY <2>1, <2>5, Zenon
      <3>a. r.start = ClientPosition(text, j) /\ r.end = ClientPosition(text, k)
        BY ONLY <3>0, <3>2, CommentIs, j \in 0..Len(text), k \in 0..Len(text),
           line \in Nat, column \in Nat, endLine \in Nat, endColumn \in Nat
      <3>b. answer.edit = r
        BY <2>3, Zenon DEF b
      <3> HIDE DEF r
      <3>3. answer.edit.start = ClientPosition(text, j) /\ answer.edit.end = ClientPosition(text, k)
        BY <3>a, <3>b, Zenon
      <3> QED
        BY <2>1, <3>3, RangeExact
    <2> QED
      BY <2>4, <2>5
  <1>2. Inv => ShellCheckFits
    BY <1>1 DEF ShellCheckFits
  <1> QED
    BY <1>2, AnswersOfThisText, PTL

(* The cursors CompletionReplacesPrefix is about are read as they are meant. *)
LEMMA CursorIsRead ==
    ASSUME text \in Texts, NEW pos \in Places,
           InText(text, pos) \/ (encoding = "utf-16" /\ UnixLines /\ PastEnd(pos))
    PROVE  ClientPlace(text, pos) \in 0..Len(text) /\ ReadsAs(text, pos, ClientPlace(text, pos))
  <1> DEFINE k == ClientPlace(text, pos)
  <1>1. k \in 0..Len(text) /\ Len(text) \in Nat
    BY ClientPlaceFacts DEF Texts
  <1> HIDE DEF k
  <1>2. CASE InText(text, pos)
    BY <1>1, <1>2 DEF InText, ReadsAs, k
  <1>3. CASE encoding = "utf-16" /\ UnixLines /\ PastEnd(pos)
    <2>1. /\ ClientPosition(text, k).line = pos.line
          /\ ClientPosition(text, k).character < pos.character
          /\ k = Len(text) \/ text[k + 1] \in {"nl", "crnl"}
      BY <1>3 DEF PastEnd, k
    <2>2. k # Len(text) => k + 1 \in DOMAIN text
      <3>1. k # Len(text) => k + 1 \in 1..Len(text)
        BY <1>1
      <3> QED
        BY <3>1 DEF Texts
    <2>3. k = Len(text) \/ text[k + 1] = "nl"
      BY <1>3, <2>1, <2>2 DEF UnixLines
    <2>4. ClientPosition(text, k).character <= pos.character
      <3> DEFINE x == ClientPosition(text, k).character
                 y == pos.character
      <3>1. x \in Nat /\ y \in Nat
        <4>1. k <= k
          BY <1>1
        <4> QED
          BY <1>1, <4>1, ColumnsIncrease DEF Places
      <3> HIDE DEF x, y
      <3>2. x < y
        BY <2>1 DEF x, y
      <3>3. x <= y
        BY <3>1, <3>2
      <3> QED
        BY <3>3 DEF x, y
    <2> QED
      BY <1>1, <1>3, <2>1, <2>3, <2>4 DEF ReadsAs, k
  <1> QED
    BY <1>2, <1>3

(* Accepting a completion replaces the prefix it was filtered by, all of it *)
(* and nothing else, in every text and both encodings, for every cursor in  *)
(* the text, and in UTF-16 also for one past the end of a line without      *)
(* "\r".                                                                    *)
THEOREM CompletionsExact == Spec => []CompletionReplacesPrefix
  <1>1. ASSUME Inv, answer.kind = "completion",
               InText(text, answer.pos) \/ (encoding = "utf-16" /\ UnixLines /\ PastEnd(answer.pos))
        PROVE  LET src == Bytes(text)
                   span == ClientSpan(text, answer.edit)
               IN  /\ InText(text, answer.edit.start)
                   /\ SubSeq(src, span.start + 1, span.end) = answer.prefix
                   /\ \A i \in DOMAIN answer.prefix : IsWordChar(answer.prefix[i])
                   /\ span.start > 0 => ~IsWordChar(src[span.start])
    <2> DEFINE b == Bytes(text)
    <2>1. text \in Texts /\ b \in Seq(ByteClass)
      BY <1>1, TextsOfInv, BytesFacts
    <2>2. PICK pos \in Cursors(text) : answer = CompletionOf(text, pos)
      BY <1>1, AnswerKinds
    <2>3. pos \in Places /\ answer.pos = pos
      BY <2>1, <2>2, CursorsArePlaces DEF CompletionOf
    <2> DEFINE k == ClientPlace(text, pos)
               o == ByteOffset(text, k)
               s == CompletionStart(b, o)
    <2>4. k \in 0..Len(text) /\ ReadsAs(text, pos, k)
      BY <1>1, <2>1, <2>3, CursorIsRead
    <2>5. PICK j \in 0..Len(text) :
                 /\ s = ByteOffset(text, j) /\ answer.edit.start = ClientPosition(text, j) /\ answer.edit.end = pos
                 /\ answer.prefix = SubSeq(b, s + 1, o)
                 /\ j <= k /\ \A i \in (s + 1)..o : IsWordChar(b[i])
                 /\ s = 0 \/ ~IsWordChar(b[s])
      <3> HIDE DEF k
      <3> QED
        BY <2>1, <2>2, <2>3, <2>4, CompletionIs
    <2>6. ClientSpan(text, answer.edit) = [start |-> s, end |-> o]
      BY <2>1, <2>5, PlacesExact DEF ClientSpan
    <2>7. InText(text, answer.edit.start)
      BY <2>1, <2>5, PlacesExact
    <2>8. s \in Nat /\ o \in Nat /\ s <= o /\ o <= Len(b)
      <3> HIDE DEF k
      <3>1. s \in Nat /\ o \in 0..Len(b) /\ s <= o /\ Len(b) \in Nat
        BY <2>1, <2>4, <2>5, OffsetsIncrease, BytesFacts
      <3> HIDE DEF s, o, b
      <3> QED
        BY <3>1
    <2> HIDE DEF b, s, o, k
    <2>9. /\ answer.prefix \in Seq(ByteClass) /\ Len(answer.prefix) = o - s
          /\ \A i \in 1..(o - s) : answer.prefix[i] = b[s + i]
      <3>1. answer.prefix = SubSeq(b, s + 1, o)
        BY <2>5
      <3>2. b \in Seq(ByteClass)
        BY <2>1
      <3>3. /\ SubSeq(b, s + 1, o) \in Seq(ByteClass) /\ Len(SubSeq(b, s + 1, o)) = o - s
            /\ \A i \in 1..(o - s) : SubSeq(b, s + 1, o)[i] = b[s + i]
        BY <2>8, <3>2, Stretch
      <3> QED
        BY <3>1, <3>3, Zenon
    <2>10. ASSUME NEW i \in DOMAIN answer.prefix PROVE IsWordChar(answer.prefix[i])
      <3>1. i \in 1..(o - s)
        BY <2>9
      <3>2. s + i \in (s + 1)..o
        BY <2>8, <3>1
      <3> QED
        BY <2>5, <2>9, <3>1, <3>2
    <2>11. s > 0 => ~IsWordChar(b[s])
      BY <2>5, <2>8
    <2> DEFINE span == ClientSpan(text, answer.edit)
    <2>12. span.start = s /\ span.end = o
      BY <2>6
    <2> HIDE DEF span
    <2>13. SubSeq(b, span.start + 1, span.end) = answer.prefix
      BY <2>5, <2>12
    <2>14. span.start > 0 => ~IsWordChar(b[span.start])
      BY <2>11, <2>12
    <2>15. \A i \in DOMAIN answer.prefix : IsWordChar(answer.prefix[i])
      BY <2>10
    <2> QED
      BY <2>7, <2>13, <2>14, <2>15 DEF b, span
  <1>2. Inv => CompletionReplacesPrefix
    BY <1>1 DEF CompletionReplacesPrefix
  <1> QED
    BY <1>2, AnswersOfThisText, PTL
=============================================================================
