------------------------- MODULE SourceGraphProofs -------------------------
(***************************************************************************)
(* Proofs about SourceGraph: what the search finds, for every index, every *)
(* set of source commands and any change of the disk during the search,    *)
(* and that it ends.                                                       *)
(***************************************************************************)
EXTENDS SourceGraph, FiniteSetTheorems, TLAPS

(* A sequence over a set is one over a larger set. *)
LEMMA SeqMonotone ==
    ASSUME NEW S, NEW T, S \subseteq T, NEW q \in Seq(S)
    PROVE  q \in Seq(T)
  OBVIOUS

(* A file that finds its library is found by it (the comment of              *)
(* ReachableUsages: "a sourced file can find callers in scripts that source  *)
(* it").                                                                     *)
THEOREM ComponentSymmetric ==
    ASSUME NEW u \in entries, NEW d, NEW v \in Component(u, d),
           commands \subseteq entries \X Uri
    PROVE  u \in Component(v, d)
  <1> SUFFICES ASSUME NEW S \in SUBSET entries, v \in S, Closed(S, d), u \notin S
               PROVE  FALSE
    BY DEF Component
  <1>1. Closed(entries \ S, d)
    BY DEF Closed, Links
  <1>2. u \in entries \ S /\ v \notin entries \ S
    OBVIOUS
  <1> QED
    BY <1>1, <1>2 DEF Component

(* The invariant holds when the search starts, and each step preserves it. *)
LEMMA InitIInv == Init => IInv
  <1> SUFFICES ASSUME Init PROVE IInv
    OBVIOUS
  <1> USE FromAssumption, MaxChangesAssumption, NoneAssumption DEF Init
  <1>1. <<From>> \in Seq({From})
    OBVIOUS
  <1>2. TypeOK
    BY <1>1 DEF TypeOK
  <1>3. From \in Component(From, ever)
    BY DEF Component
  <1>4. SearchInv
    BY <1>3 DEF SearchInv
  <1>5. ExploredOnce
    BY DEF ExploredOnce
  <1> QED
    BY <1>2, <1>4, <1>5 DEF IInv

LEMMA DequeueIInv ==
    ASSUME IInv, Dequeue
    PROVE  IInv'
  <1> USE NoneAssumption DEF Dequeue, graph, disk
  <1>a. /\ queue \in Seq(seen) /\ queue # <<>>
        /\ Head(queue) \in seen /\ Tail(queue) \in Seq(seen)
        /\ Head(queue) = queue[1]
        /\ Len(Tail(queue)) = Len(queue) - 1
        /\ \A i \in 1 .. Len(queue) - 1 : Tail(queue)[i] = queue[i + 1]
    <2>1. queue \in Seq(seen) /\ queue # <<>>
      BY DEF IInv, TypeOK
    <2> QED
      BY <2>1
  <1>1. TypeOK'
    BY <1>a DEF IInv, TypeOK, Touching
  <1>2. ExploredOnce'
    <2>1. cur' = queue[1] /\ queue' = Tail(queue)
      BY <1>a
    <2>2. /\ DOMAIN queue = 1 .. Len(queue) /\ DOMAIN queue' = 1 .. Len(queue) - 1
          /\ Len(queue) \in Nat /\ 1 \in DOMAIN queue
      BY <1>a, <2>1
    <2>3. ASSUME NEW i \in DOMAIN queue'
          PROVE  i + 1 \in DOMAIN queue /\ queue'[i] = queue[i + 1] /\ i \in Nat /\ i + 1 # 1
      BY <1>a, <2>1, <2>2
    <2>4. \A i, j \in DOMAIN queue : queue[i] = queue[j] => i = j
      BY DEF IInv, ExploredOnce
    <2>5. \A i \in DOMAIN queue' : queue'[i] \notin explored'
      <3>1. \A i \in DOMAIN queue : queue[i] \notin explored
        BY DEF IInv, ExploredOnce
      <3>2. explored' = explored \cup {queue[1]}
        BY <2>1
      <3> QED
        BY <2>1, <2>2, <2>3, <2>4, <3>1, <3>2
    <2>6. ASSUME NEW i \in DOMAIN queue', NEW j \in DOMAIN queue', queue'[i] = queue'[j]
          PROVE  i = j
      <3>1. i + 1 = j + 1 /\ i \in Nat /\ j \in Nat
        BY <2>3, <2>4, <2>6, Zenon
      <3> QED
        BY ONLY <3>1
    <2> QED
      BY <2>5, <2>6 DEF ExploredOnce
  <1>3. Component(From, ever)' = Component(From, ever) /\ Links(always)' = Links(always)
    BY DEF Component, Closed, Links
  <1>4. ASSUME NEW u \in seen'
        PROVE  \/ \E i \in DOMAIN queue' : queue'[i] = u
               \/ u = cur' /\ Explored(u, seen \cup out)'
               \/ \A c \in Links(always)' : (c[1] = u => c[2] \in seen') /\ (c[2] = u => c[1] \in seen')
    <2>1. CASE u = Head(queue)
      BY <1>3, <2>1 DEF Explored, Touching, Links
    <2>2. ASSUME NEW i \in DOMAIN queue, queue[i] = u, u # Head(queue)
          PROVE  \E j \in DOMAIN queue' : queue'[j] = u
      <3>1. i \in 1 .. Len(queue) /\ i # 1
        BY <1>a, <2>2
      <3>2. i - 1 \in 1 .. Len(queue) - 1 /\ Tail(queue)[i - 1] = u
        BY <1>a, <2>2, <3>1
      <3>3. DOMAIN Tail(queue) = 1 .. Len(queue) - 1
        BY <1>a
      <3> QED
        BY <3>2, <3>3
    <2>3. CASE \A c \in Links(always) : (c[1] = u => c[2] \in seen) /\ (c[2] = u => c[1] \in seen)
      BY <1>3, <2>3
    <2>4. u # cur
      BY DEF IInv, TypeOK
    <2> QED
      BY <2>1, <2>2, <2>3, <2>4 DEF IInv, SearchInv
  <1>5. SearchInv'
    <2>1. cur' # None /\ unasked' \subseteq Touching(cur)'
      <3>1. cur' # None
        BY <1>a DEF IInv, TypeOK
      <3>2. unasked' \subseteq Touching(cur)'
        BY DEF Touching
      <3> QED
        BY <3>1, <3>2
    <2>2. From \in seen' /\ seen' \cup out' \subseteq Component(From, ever)
      BY DEF IInv, SearchInv
    <2> QED
      BY <1>3, <1>4, <2>1, <2>2 DEF SearchInv
  <1> QED
    BY <1>1, <1>2, <1>5 DEF IInv

LEMMA StatIInv ==
    ASSUME IInv, NEW c \in unasked, Stat(c)
    PROVE  IInv'
  <1> USE NoneAssumption DEF Stat, graph, disk
  <1>1. TypeOK'
    BY DEF IInv, TypeOK, Neighbour
  <1>2. ExploredOnce'
    BY DEF IInv, ExploredOnce
  <1>3. SearchInv'
    BY DEF IInv, TypeOK, SearchInv, Touching, Explored, Links, Component, Closed, Neighbour
  <1> QED
    BY <1>1, <1>2, <1>3 DEF IInv

LEMMA EnqueueIInv ==
    ASSUME IInv, NEW u \in out, Enqueue(u)
    PROVE  IInv'
  <1> USE NoneAssumption DEF Enqueue, graph, disk
  <1>a. queue' \in Seq(seen')
    <2>1. queue \in Seq(seen) /\ seen \subseteq seen'
      BY DEF IInv, TypeOK
    <2>2. queue \in Seq(seen')
      BY <2>1, SeqMonotone
    <2>3. u \in seen'
      OBVIOUS
    <2> QED
      BY <2>2, <2>3
  <1>1. TypeOK'
    BY <1>a DEF IInv, TypeOK
  <1>2. ExploredOnce'
    <2>1. queue \in Seq(seen) /\ explored \subseteq seen /\ explored' = explored
      BY DEF IInv, TypeOK
    <2>2. /\ \A i, j \in DOMAIN queue : queue[i] = queue[j] => i = j
          /\ \A i \in DOMAIN queue : queue[i] \notin explored
      BY DEF IInv, ExploredOnce
    <2>3. CASE u \in seen
      BY <2>1, <2>2, <2>3 DEF ExploredOnce
    <2>4. CASE u \notin seen
      <3>1. /\ DOMAIN queue = 1..Len(queue) /\ Len(queue) \in Nat
            /\ \A i \in DOMAIN queue : queue[i] \in seen
        BY <2>1
      <3>2. queue' = Append(queue, u) /\ u \notin explored
        BY <2>1, <2>4
      <3>3. /\ DOMAIN queue' = 1..(Len(queue) + 1) /\ queue'[Len(queue) + 1] = u
            /\ \A i \in DOMAIN queue : queue'[i] = queue[i]
        <4> DEFINE q == queue
        <4>1. q \in Seq(seen)
          BY <2>1
        <4> HIDE DEF q
        <4>2. /\ DOMAIN Append(q, u) = 1..(Len(q) + 1) /\ Append(q, u)[Len(q) + 1] = u
              /\ \A i \in DOMAIN q : Append(q, u)[i] = q[i]
          BY ONLY <4>1
        <4> QED
          BY <3>2, <4>2, Zenon DEF q
      <3>4. ASSUME NEW i \in DOMAIN queue'
            PROVE  i \in DOMAIN queue \/ i = Len(queue) + 1
        BY <3>1, <3>3
      <3>5. \A i \in DOMAIN queue' : queue'[i] \notin explored'
        BY <2>1, <2>2, <3>2, <3>3, <3>4
      <3>6. ASSUME NEW i \in DOMAIN queue', NEW j \in DOMAIN queue', queue'[i] = queue'[j]
            PROVE  i = j
        <4>1. CASE i \in DOMAIN queue /\ j \in DOMAIN queue
          BY <2>2, <3>3, <3>6, <4>1
        <4>2. CASE i = Len(queue) + 1 /\ j = Len(queue) + 1
          BY <4>2
        <4>3. CASE i \in DOMAIN queue /\ j = Len(queue) + 1
          BY <2>4, <3>1, <3>3, <3>6, <4>3
        <4>4. CASE i = Len(queue) + 1 /\ j \in DOMAIN queue
          BY <2>4, <3>1, <3>3, <3>6, <4>4
        <4> QED
          BY <3>4, <4>1, <4>2, <4>3, <4>4
      <3> QED
        BY <3>5, <3>6 DEF ExploredOnce
    <2> QED
      BY <2>3, <2>4
  <1>3. Component(From, ever)' = Component(From, ever) /\ Links(always)' = Links(always)
    BY DEF Component, Closed, Links
  <1>4. \A i \in DOMAIN queue : i \in DOMAIN queue' /\ queue'[i] = queue[i]
    BY DEF IInv, TypeOK
  <1>5. u \in seen \/ \E i \in DOMAIN queue' : queue'[i] = u
    <2>1. CASE u \notin seen
      <3>1. queue \in Seq(seen) /\ queue' = Append(queue, u)
        BY <2>1 DEF IInv, TypeOK
      <3>2. Len(queue) + 1 \in DOMAIN queue' /\ queue'[Len(queue) + 1] = u
        BY <3>1
      <3> QED
        BY <3>2
    <2> QED
      BY <2>1
  <1>6. seen' \cup out' = seen \cup out /\ seen \subseteq seen' /\ seen' = seen \cup {u}
    OBVIOUS
  <1>7. ASSUME NEW v \in seen'
        PROVE  \/ \E i \in DOMAIN queue' : queue'[i] = v
               \/ v = cur' /\ Explored(v, seen \cup out)'
               \/ \A c \in Links(always)' : (c[1] = v => c[2] \in seen') /\ (c[2] = v => c[1] \in seen')
    <2>1. CASE v \in seen
      <3>1. CASE \E i \in DOMAIN queue : queue[i] = v
        BY <1>4, <3>1
      <3>2. CASE v = cur /\ Explored(v, seen \cup out)
        BY <1>3, <1>6, <3>2 DEF Explored
      <3>3. CASE \A c \in Links(always) : (c[1] = v => c[2] \in seen) /\ (c[2] = v => c[1] \in seen)
        BY <1>3, <1>6, <3>3
      <3> QED
        BY <2>1, <3>1, <3>2, <3>3 DEF IInv, SearchInv
    <2>2. CASE v \notin seen
      BY <1>5, <1>6, <2>2
    <2> QED
      BY <2>1, <2>2
  <1>8. SearchInv'
    <2>1. From \in seen' /\ seen' \cup out' \subseteq Component(From, ever)'
      BY <1>3, <1>6 DEF IInv, SearchInv
    <2>2. unasked' = {}
      OBVIOUS
    <2> QED
      BY <1>7, <2>1, <2>2 DEF SearchInv
  <1> QED
    BY <1>1, <1>2, <1>8 DEF IInv

LEMMA FinishIInv ==
    ASSUME IInv, Finish
    PROVE  IInv'
  <1> USE NoneAssumption DEF Finish, graph, disk
  <1>1. TypeOK'
    BY DEF IInv, TypeOK
  <1>2. ExploredOnce'
    BY DEF IInv, TypeOK, ExploredOnce
  <1>3. SearchInv'
    BY DEF IInv, TypeOK, SearchInv, Touching, Explored, Links, Component, Closed
  <1> QED
    BY <1>1, <1>2, <1>3 DEF IInv

LEMMA DiskChangeIInv ==
    ASSUME IInv, NEW u \in Uri, DiskChange(u)
    PROVE  IInv'
  <1> USE MaxChangesAssumption DEF DiskChange, graph, search
  <1>1. TypeOK'
    BY DEF IInv, TypeOK
  <1>2. ExploredOnce'
    BY DEF IInv, ExploredOnce
  <1>3. SearchInv'
    BY DEF IInv, TypeOK, SearchInv, Touching, Explored, Links, Component, Closed
  <1> QED
    BY <1>1, <1>2, <1>3 DEF IInv

LEMMA NextIInv ==
    ASSUME IInv, [Next]_vars
    PROVE  IInv'
  <1>1. CASE UNCHANGED vars
    BY <1>1 DEF vars, graph, search, disk, IInv, TypeOK, SearchInv, ExploredOnce,
                Touching, Explored, Links, Component, Closed
  <1> QED
    BY <1>1, DequeueIInv, StatIInv, EnqueueIInv, FinishIInv, DiskChangeIInv DEF Next, Search

(* In every reachable state each file that was found is queued, being       *)
(* explored, or has all its steadily linked neighbours found.               *)
THEOREM Invariance == Spec => []IInv
  BY InitIInv, NextIInv, PTL DEF Spec

(* The variables keep their types; only indexed files are ever found. *)
THEOREM TypeCorrect == Spec => []TypeOK
  <1>1. IInv => TypeOK
    BY DEF IInv
  <1> QED
    BY <1>1, Invariance, PTL

(* The search never leaves the component, for any index and any disk.      *)
THEOREM NothingUnrelated == Spec => []UnrelatedExcluded
  <1>1. IInv => UnrelatedExcluded
    BY DEF IInv, SearchInv, UnrelatedExcluded
  <1> QED
    BY <1>1, Invariance, PTL

(* A file whose turn has come is not queued again, nor is one queued twice: *)
(* each gets one turn at most, for any set of source commands.              *)
THEOREM NoSecondTurn == Spec => []ExploredOnce
  <1>1. IInv => ExploredOnce
    BY DEF IInv
  <1> QED
    BY <1>1, Invariance, PTL

(* When the queue is empty the search has all of the component that did not *)
(* depend on a file that came or went: what was seen is closed under links. *)
THEOREM NothingMissed == Spec => []ComponentFound
  <1>1. IInv => ComponentFound
    <2> SUFFICES ASSUME IInv, Done
                 PROVE  Component(From, always) \subseteq seen
      BY DEF ComponentFound
    <2>1. DOMAIN queue = {}
      BY DEF Done
    <2>2. \A u \in seen : u # cur
      BY NoneAssumption DEF IInv, TypeOK, Done
    <2>3. Closed(seen, always)
      BY <2>1, <2>2 DEF IInv, SearchInv, Closed
    <2> QED
      BY <2>3 DEF IInv, SearchInv, TypeOK, Component
  <1> QED
    BY <1>1, Invariance, PTL

-----------------------------------------------------------------------------
(* Why the search ends: what Terminates rests on, but for fairness.  In      *)
(* order of weight: the files still to be taken from the queue or to be     *)
(* found, the commands still to be looked at, the neighbours still to be    *)
(* queued, and the file whose turn it is.                                   *)

FilesLeft == Cardinality(entries \ seen) + Len(queue)

GetsShorter ==
    \/ FilesLeft' \in 0 .. FilesLeft - 1
    \/ /\ FilesLeft' = FilesLeft
       /\ Cardinality(unasked') \in 0 .. Cardinality(unasked) - 1
    \/ /\ FilesLeft' = FilesLeft /\ unasked' = unasked
       /\ Cardinality(out') \in 0 .. Cardinality(out) - 1
    \/ /\ FilesLeft' = FilesLeft /\ unasked' = unasked /\ out' = out
       /\ cur # None /\ cur' = None

(* A finite index makes all these sets finite.                              *)
LEMMA Finite ==
    ASSUME IsFiniteSet(Uri), IInv
    PROVE  IsFiniteSet(entries) /\ IsFiniteSet(entries \ seen) /\ IsFiniteSet(unasked) /\ IsFiniteSet(out)
  <1>1. /\ entries \in SUBSET Uri /\ commands \in SUBSET (entries \X Uri)
        /\ unasked \in SUBSET commands /\ out \in SUBSET entries
    BY DEF IInv, TypeOK
  <1>2. IsFiniteSet(entries)
    BY <1>1, FS_Subset
  <1>3. IsFiniteSet(entries \X Uri)
    BY <1>2, FS_Product
  <1>4. unasked \in SUBSET (entries \X Uri) /\ entries \ seen \in SUBSET entries
    BY <1>1
  <1>5. IsFiniteSet(unasked)
    BY <1>3, <1>4, FS_Subset
  <1>6. IsFiniteSet(entries \ seen)
    BY <1>2, <1>4, FS_Subset
  <1>7. IsFiniteSet(out)
    BY <1>1, <1>2, FS_Subset
  <1> QED
    BY <1>2, <1>5, <1>6, <1>7

LEMMA DequeueShortens ==
    ASSUME IsFiniteSet(Uri), IInv, Dequeue
    PROVE  FilesLeft' \in 0 .. FilesLeft - 1
  <1> DEFINE n == Cardinality(entries \ seen)
             l == Len(queue)
  <1>1. n \in Nat
    BY Finite, FS_CardinalityType
  <1>2. queue \in Seq(seen) /\ queue # <<>> /\ queue' = Tail(queue) /\ entries' = entries /\ seen' = seen
    BY DEF IInv, TypeOK, Dequeue, graph
  <1>3. l \in Nat /\ l > 0 /\ Len(queue') = l - 1
    BY <1>2
  <1>4. FilesLeft = n + l /\ FilesLeft' = n + (l - 1)
    BY <1>2, <1>3, Zenon DEF FilesLeft
  <1> HIDE DEF n, l
  <1>5. n + (l - 1) \in 0 .. (n + l) - 1
    BY ONLY <1>1, <1>3
  <1> QED
    BY <1>4, <1>5, Zenon

LEMMA StatShortens ==
    ASSUME IsFiniteSet(Uri), IInv, NEW c \in unasked, Stat(c)
    PROVE  FilesLeft' = FilesLeft /\ Cardinality(unasked') \in 0 .. Cardinality(unasked) - 1
  <1> DEFINE n == Cardinality(unasked)
  <1>1. IsFiniteSet(unasked)
    BY Finite
  <1>2. IsFiniteSet(unasked \ {c}) /\ Cardinality(unasked \ {c}) = n - 1
    BY <1>1, FS_RemoveElement
  <1>3. n \in Nat /\ Cardinality(unasked \ {c}) \in Nat
    BY <1>1, <1>2, FS_CardinalityType, Zenon
  <1>4. unasked' = unasked \ {c} /\ FilesLeft' = FilesLeft
    BY DEF Stat, graph, FilesLeft
  <1> HIDE DEF n
  <1>5. Cardinality(unasked \ {c}) \in 0 .. n - 1
    BY <1>2, <1>3
  <1> QED
    BY <1>4, <1>5 DEF n

LEMMA EnqueueShortens ==
    ASSUME IsFiniteSet(Uri), IInv, NEW u \in out, Enqueue(u)
    PROVE  /\ FilesLeft' = FilesLeft /\ unasked' = unasked
           /\ Cardinality(out') \in 0 .. Cardinality(out) - 1
  <1>1. IsFiniteSet(out) /\ IsFiniteSet(entries \ seen)
    BY Finite
  <1>2. Cardinality(out') \in 0 .. Cardinality(out) - 1
    <2> DEFINE n == Cardinality(out)
    <2>1. IsFiniteSet(out \ {u}) /\ Cardinality(out \ {u}) = n - 1
      BY <1>1, FS_RemoveElement
    <2>2. n \in Nat /\ Cardinality(out \ {u}) \in Nat
      BY <1>1, <2>1, FS_CardinalityType, Zenon
    <2>3. out' = out \ {u}
      BY DEF Enqueue
    <2> HIDE DEF n
    <2>4. Cardinality(out \ {u}) \in 0 .. n - 1
      BY <2>1, <2>2
    <2> QED
      BY <2>3, <2>4 DEF n
  <1>3. FilesLeft' = FilesLeft
    <2>1. CASE u \in seen
      BY <2>1 DEF Enqueue, graph, FilesLeft
    <2>2. CASE u \notin seen
      <3> DEFINE n == Cardinality(entries \ seen)
                 l == Len(queue)
      <3>1. u \in entries \ seen /\ queue \in Seq(seen)
        BY <2>2 DEF IInv, TypeOK
      <3>2. entries' \ seen' = (entries \ seen) \ {u} /\ queue' = Append(queue, u)
        BY <2>2 DEF Enqueue, graph
      <3>3. n \in Nat /\ Cardinality((entries \ seen) \ {u}) = n - 1
        BY <1>1, <3>1, FS_RemoveElement, FS_CardinalityType
      <3>4. l \in Nat /\ Len(Append(queue, u)) = l + 1
        BY <3>1
      <3>5. FilesLeft = n + l /\ FilesLeft' = (n - 1) + (l + 1)
        BY <3>2, <3>3, <3>4, Zenon DEF FilesLeft
      <3> HIDE DEF n, l
      <3>6. (n - 1) + (l + 1) = n + l
        BY ONLY <3>3, <3>4
      <3> QED
        BY <3>5, <3>6, Zenon
    <2> QED
      BY <2>1, <2>2
  <1> QED
    BY <1>2, <1>3 DEF Enqueue

(* Each step of the search gets it closer to its end, and a change of the    *)
(* disk sets it back by nothing, however the files source each other: no     *)
(* cycle of source commands keeps a query going.                            *)
THEOREM SearchGetsShorter ==
    ASSUME IsFiniteSet(Uri)
    PROVE  Spec => [][/\ Search => GetsShorter
                      /\ ~Search => UNCHANGED <<graph, search>>]_vars
  <1>1. ASSUME IInv, [Next]_vars
        PROVE  [/\ Search => GetsShorter
                /\ ~Search => UNCHANGED <<graph, search>>]_vars
    <2>1. Search => GetsShorter
      <3>1. CASE Dequeue
        BY <1>1, <3>1, DequeueShortens DEF GetsShorter
      <3>2. ASSUME NEW c \in unasked, Stat(c) PROVE GetsShorter
        BY <1>1, <3>2, StatShortens DEF GetsShorter
      <3>3. ASSUME NEW u \in out, Enqueue(u) PROVE GetsShorter
        BY <1>1, <3>3, EnqueueShortens DEF GetsShorter
      <3>4. CASE Finish
        BY <1>1, <3>4 DEF GetsShorter, Finish, FilesLeft, graph, IInv, TypeOK
      <3> QED
        BY <3>1, <3>2, <3>3, <3>4 DEF Search
    <2>2. ~Search => UNCHANGED <<graph, search>>
      BY <1>1 DEF Next, DiskChange, vars
    <2> QED
      BY <2>1, <2>2
  <1> QED
    BY <1>1, Invariance, PTL DEF Spec

=============================================================================
