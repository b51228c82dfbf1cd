--------------------------- MODULE QueriesProofs ---------------------------
(***************************************************************************)
(* The answers of Queries, proved for any number of files, texts and names.*)
(***************************************************************************)
EXTENDS Queries, FiniteSetTheorems, WellFoundedInduction, TLAPS

-----------------------------------------------------------------------------
(* Components of an undirected graph, as the least closed sets.            *)

ClosedUnder(L, S) == \A l \in L : l[1] \in S <=> l[2] \in S

Least(L, u) == {v \in Uri : \A S \in SUBSET Uri : u \in S /\ ClosedUnder(L, S) => v \in S}

LEMMA ReachableIsLeast == \A u : ReachableURIs(u) = Least(Links, u)
BY DEF ReachableURIs, Least, ClosedUnder

LEMMA RelatedIsLeast == \A u : Related(u) = Least(TextLinks, u)
BY DEF Related, Least, ClosedUnder

LEMMA LeastClosed ==
    ASSUME NEW u \in Uri, NEW L \in SUBSET (Uri \X Uri)
    PROVE  u \in Least(L, u) /\ Least(L, u) \subseteq Uri /\ ClosedUnder(L, Least(L, u))
BY DEF Least, ClosedUnder

LEMMA LeastInside ==
    ASSUME NEW u, NEW L, NEW S \in SUBSET Uri, u \in S, ClosedUnder(L, S)
    PROVE  Least(L, u) \subseteq S
BY DEF Least

(* Reachability is an equivalence: every member has the same component.    *)
LEMMA LeastSymmetric ==
    ASSUME NEW u \in Uri, NEW L \in SUBSET (Uri \X Uri), NEW v \in Least(L, u)
    PROVE  Least(L, v) = Least(L, u)
<1>1. v \in Uri
  BY DEF Least
<1>2. \A x \in Uri, y \in Uri : y \in Least(L, x) => Least(L, y) \subseteq Least(L, x)
  BY LeastClosed, LeastInside
<1>3. u \in Least(L, v)
  <2> SUFFICES ASSUME u \notin Least(L, v) PROVE FALSE
    OBVIOUS
  <2> DEFINE S == Uri \ Least(L, v)
  <2>1. u \in S /\ S \in SUBSET Uri
    OBVIOUS
  <2>2. ClosedUnder(L, S)
    <3>1. ClosedUnder(L, Least(L, v))
      BY <1>1, LeastClosed
    <3> QED
      BY <3>1 DEF ClosedUnder
  <2>3. v \in S
    BY <2>1, <2>2, LeastInside
  <2> QED
    BY <1>1, <2>3, LeastClosed
<1> QED
  BY <1>1, <1>2, <1>3

-----------------------------------------------------------------------------
(* Trees and texts.                                                        *)

LEMMA ParseText == \A t : Parse(t).text = t
BY DEF Parse

LEMMA NodesShape ==
    ASSUME TypeOK, NEW u \in Entries
    PROVE  /\ index[u].text \in Text
           /\ DOMAIN Nodes(u) = 1..Parsed[index[u].text]
           /\ 1..Parsed[index[u].text] \subseteq DOMAIN Tokens[index[u].text]
           /\ \A i \in DOMAIN Nodes(u) : Nodes(u)[i] = Tokens[index[u].text][i]
<1>1. PICK t \in Text : index[u] = Parse(t)
  BY DEF TypeOK, Entries, Trees
<1>2. index[u].text = t
  BY <1>1, ParseText
<1>3. 1..Parsed[t] \subseteq DOMAIN Tokens[t]
  BY TokensAssumption
<1> QED
  BY <1>2, <1>3 DEF Nodes

LEMMA LinksShape == TypeOK => Links \in SUBSET (Uri \X Uri)
BY DEF Links, Entries

LEMMA TextLinksShape == TypeOK => TextLinks \in SUBSET (Uri \X Uri)
<1> SUFFICES ASSUME TypeOK, NEW u \in Uri, NEW v \in SourcedURIs(AllTokens(u)) PROVE v \in Uri
  BY DEF TextLinks
<1>1. PICK i \in DOMAIN AllTokens(u) : AllTokens(u)[i].is = "source" /\ v = AllTokens(u)[i].target
  BY DEF SourcedURIs
<1>2. TextOf(u) \in Text /\ AllTokens(u) = Tokens[TextOf(u)]
  <2>1. TextOf(u) \in Text \cup {None}
    BY DEF TypeOK, TextOf
  <2>2. TextOf(u) # None
    BY <1>1 DEF AllTokens
  <2> QED
    BY <2>1, <2>2 DEF AllTokens
<1> QED
  BY <1>1, <1>2, TokensAssumption

(* The tree of a file that is not stale is made of its text's tokens.      *)
LEMMA FreshNodes ==
    ASSUME TypeOK, NEW u \in Entries, ~Stale(u)
    PROVE  /\ TextOf(u) \in Text /\ AllTokens(u) = Tokens[TextOf(u)]
           /\ DOMAIN Nodes(u) \subseteq DOMAIN AllTokens(u)
           /\ \A i \in DOMAIN Nodes(u) : Nodes(u)[i] = AllTokens(u)[i]
           /\ ~Broken(u) => DOMAIN Nodes(u) = DOMAIN AllTokens(u)
<1>1. index[u] # None /\ u \in Uri
  BY DEF Entries
<1>2. TextOf(u) # None /\ index[u] = Parse(TextOf(u))
  BY <1>1 DEF Stale
<1>3. TextOf(u) \in Text
  BY <1>1, <1>2 DEF TypeOK, TextOf
<1>4. index[u].text = TextOf(u)
  BY <1>2, ParseText
<1>5. AllTokens(u) = Tokens[TextOf(u)]
  BY <1>2 DEF AllTokens
<1>6. ~Broken(u) => 1..Parsed[TextOf(u)] = DOMAIN Tokens[TextOf(u)]
  BY <1>2, <1>3, TokensAssumption DEF Broken
<1> QED
  BY <1>3, <1>4, <1>5, <1>6, NodesShape

-----------------------------------------------------------------------------
(* The inductive invariant: an open file is indexed as its buffer stands,  *)
(* and an answer that is not sent yet is about the index as it is.         *)
OpenIndexed == \A u \in Uri : IsOpen(u) => index[u] = Parse(buffer[u])

EditCurrent == edit.is = "edit" => edit.at = ReachableUsages(edit.from, edit.old)

IInv == TypeOK /\ OpenIndexed /\ EditCurrent

LEMMA HitsShape ==
    ASSUME TypeOK, NEW u \in Uri, NEW name
    PROVE  ReachableUsages(u, name) \subseteq Uri \X (Nat \ {0})
<1> SUFFICES ASSUME NEW v \in Entries, NEW i \in FindUsages(Nodes(v), name)
             PROVE  v \in Uri /\ i \in Nat \ {0}
  BY DEF ReachableUsages
<1>1. i \in DOMAIN Nodes(v)
  BY DEF FindUsages
<1>2. Parsed[index[v].text] \in Nat
  BY NodesShape, TokensAssumption
<1> QED
  BY <1>1, <1>2, NodesShape DEF Entries

(* What the index contract changes.                                        *)
LEMMA ContractStep ==
    ASSUME TypeOK, OpenIndexed, Files!Next
    PROVE  /\ disk' \in [Uri -> Text \cup {None}] /\ buffer' \in [Uri -> Text \cup {None}]
           /\ index' \in [Uri -> Trees \cup {None}]
           /\ OpenIndexed'
<1>1. ASSUME NEW u \in Uri, NEW t \in Text, Files!Edit(u, t)
      PROVE  /\ disk' \in [Uri -> Text \cup {None}] /\ buffer' \in [Uri -> Text \cup {None}]
             /\ index' \in [Uri -> Trees \cup {None}]
             /\ OpenIndexed'
  <2>1. Parse(t) \in Trees
    BY DEF Trees
  <2> QED
    BY <1>1, <2>1 DEF Files!Edit, TypeOK, OpenIndexed, IsOpen
<1>2. ASSUME NEW u \in Uri, Files!Close(u) \/ Files!Drop(u) \/ Files!Sync(u)
      PROVE  /\ disk' \in [Uri -> Text \cup {None}] /\ buffer' \in [Uri -> Text \cup {None}]
             /\ index' \in [Uri -> Trees \cup {None}]
             /\ OpenIndexed'
  <2>1. CASE Files!Close(u)
    BY <2>1 DEF Files!Close, TypeOK, OpenIndexed, IsOpen
  <2>2. CASE Files!Drop(u)
    BY <2>2 DEF Files!Drop, TypeOK, OpenIndexed, IsOpen
  <2>3. CASE Files!Sync(u)
    <3>1. Parse(disk[u]) \in Trees
      BY <2>3 DEF Files!Sync, Trees, TypeOK
    <3> QED
      BY <2>3, <3>1 DEF Files!Sync, TypeOK, OpenIndexed, IsOpen
  <2> QED
    BY <1>2, <2>1, <2>2, <2>3
<1>3. ASSUME NEW u \in Uri, NEW t \in Text \cup {None}, Files!DiskWrite(u, t)
      PROVE  /\ disk' \in [Uri -> Text \cup {None}] /\ buffer' \in [Uri -> Text \cup {None}]
             /\ index' \in [Uri -> Trees \cup {None}]
             /\ OpenIndexed'
  BY <1>3 DEF Files!DiskWrite, TypeOK, OpenIndexed, IsOpen
<1> QED
  BY <1>1, <1>2, <1>3 DEF Files!Next

LEMMA InvInit == Init => IInv
BY DEF Init, Files!Init, IInv, TypeOK, OpenIndexed, EditCurrent, IsOpen, NoEdit

LEMMA InvNext == IInv /\ [Next]_vars => IInv'
<1> SUFFICES ASSUME IInv, [Next]_vars PROVE IInv'
  OBVIOUS
<1>1. ASSUME NEW u \in Uri, NEW new \in NewNames, NEW i, Rename(u, i, new) PROVE IInv'
  <2>1. OpenIndexed' /\ UNCHANGED <<disk, buffer, index>>
    BY <1>1 DEF Rename, IInv, OpenIndexed, IsOpen
  <2>2. ReachableUsages(u, Word(u, i)) \subseteq Uri \X (Nat \ {0})
    BY HitsShape DEF IInv
  <2>3. \A v, w : ReachableUsages(v, w)' = ReachableUsages(v, w)
    BY <2>1 DEF ReachableUsages, ReachableURIs, Links, SourcedURIs, Entries, Nodes, FindUsages
  <2>4. CASE new \notin Identifiers
    BY <1>1, <2>1, <2>4 DEF Rename, IInv, TypeOK, EditCurrent
  <2>5. CASE new \in Identifiers /\ ~HasDeclaration(ReachableUsages(u, Word(u, i)))
    BY <1>1, <2>1, <2>5 DEF Rename, IInv, TypeOK, EditCurrent
  <2>6. CASE new \in Identifiers /\ HasDeclaration(ReachableUsages(u, Word(u, i)))
    <3>1. edit' = [is |-> "edit", from |-> u, old |-> Word(u, i), new |-> new,
                   at |-> ReachableUsages(u, Word(u, i))]
      BY <1>1, <2>6 DEF Rename
    <3>2. EditCurrent'
      BY <2>3, <3>1 DEF EditCurrent
    <3>3. TypeOK'
      BY <1>1, <2>1, <2>2, <2>6, <3>1 DEF Rename, IInv, TypeOK, IsOpen
    <3> QED
      BY <2>1, <3>2, <3>3 DEF IInv
  <2> QED
    BY <2>4, <2>5, <2>6
<1>2. CASE Reply
  BY <1>2 DEF Reply, IInv, TypeOK, OpenIndexed, EditCurrent, IsOpen, NoEdit
<1>3. CASE Change
  BY <1>3, ContractStep DEF Change, IInv, TypeOK, EditCurrent, NoEdit
<1>4. CASE UNCHANGED vars
  <2>1. UNCHANGED <<disk, buffer, index, edit>>
    BY <1>4 DEF vars
  <2>2. \A v, w : ReachableUsages(v, w)' = ReachableUsages(v, w)
    BY <2>1 DEF ReachableUsages, ReachableURIs, Links, SourcedURIs, Entries, Nodes, FindUsages
  <2>3. TypeOK' /\ OpenIndexed'
    BY <2>1 DEF IInv, TypeOK, OpenIndexed, IsOpen
  <2>4. EditCurrent'
    BY <2>1, <2>2 DEF IInv, EditCurrent
  <2> QED
    BY <2>3, <2>4 DEF IInv
<1> QED
  BY <1>1, <1>2, <1>3, <1>4 DEF Next

(* In every reachable state the open documents are indexed with their own   *)
(* text and the last answer is what it was computed from (handlers of      *)
(* server.go, which store and index before they answer).                   *)
THEOREM Invariance == Spec => []IInv
BY InvInit, InvNext, PTL DEF Spec

(* Every variable has its type, and no rename answers with an invalid name. *)
THEOREM TypeCorrect == Spec => []TypeOK
BY Invariance, PTL DEF IInv

-----------------------------------------------------------------------------
(* Renames.                                                                *)

LEMMA HitMeaning ==
    ASSUME TypeOK, NEW u \in Uri, NEW name, NEW v \in Uri, NEW i
    PROVE  <<v, i>> \in ReachableUsages(u, name) <=>
             v \in ReachableURIs(u) /\ v \in Entries /\ i \in FindUsages(Nodes(v), name)
BY DEF ReachableUsages

(* A related file is reached if all related files are up to date and whole. *)
LEMMA RelatedReached ==
    ASSUME TypeOK, NEW u \in Uri, \A v \in Related(u) : ~Stale(v) /\ ~Broken(v)
    PROVE  Related(u) \subseteq ReachableURIs(u)
<1> DEFINE R == Least(TextLinks, u)
           S == R \cap Least(Links, u)
<1>1. R = Related(u) /\ ReachableURIs(u) = Least(Links, u)
  BY RelatedIsLeast, ReachableIsLeast
<1>2. u \in R /\ R \subseteq Uri /\ ClosedUnder(TextLinks, R)
  BY LeastClosed, TextLinksShape
<1>3. u \in Least(Links, u) /\ Least(Links, u) \subseteq Uri /\ ClosedUnder(Links, Least(Links, u))
  BY LeastClosed, LinksShape
<1>4. ASSUME NEW l \in TextLinks, l[1] \in R PROVE l \in Links
  <2>1. PICK a \in Uri : l \in {a} \X SourcedURIs(AllTokens(a))
    BY DEF TextLinks
  <2>2. l[1] = a /\ l[2] \in SourcedURIs(AllTokens(a)) /\ l = <<a, l[2]>> /\ a \in R
    BY <2>1, <1>4
  <2>3. PICK i \in DOMAIN AllTokens(a) : AllTokens(a)[i].is = "source" /\ AllTokens(a)[i].target = l[2]
    BY <2>2 DEF SourcedURIs
  <2>4. TextOf(a) # None
    BY <2>3 DEF AllTokens
  <2>5. ~Stale(a) /\ ~Broken(a)
    BY <1>1, <2>2
  <2>6. a \in Entries
    <3>1. index[a] = Parse(TextOf(a))
      BY <2>4, <2>5 DEF Stale
    <3>2. TextOf(a) \in Text
      BY <2>4 DEF TypeOK, TextOf
    <3> QED
      BY <3>1, <3>2, NoneAssumption DEF Entries, Trees
  <2>7. Nodes(a)[i] = AllTokens(a)[i] /\ i \in DOMAIN Nodes(a)
    BY <2>3, <2>5, <2>6, FreshNodes
  <2>8. l[2] \in SourcedURIs(Nodes(a))
    BY <2>2, <2>3, <2>7 DEF SourcedURIs
  <2>9. l[2] \in R /\ l[2] \in Uri /\ disk[l[2]] # None
    BY <1>2, <1>4, <2>2 DEF ClosedUnder, SourcedURIs
  <2>10. l[2] \in Entries
    <3>1. TextOf(l[2]) \in Text
      BY <2>9 DEF TypeOK, TextOf, IsOpen
    <3>2. ~Stale(l[2])
      BY <1>1, <2>9
    <3>3. index[l[2]] = Parse(TextOf(l[2]))
      BY <3>1, <3>2, NoneAssumption DEF Stale
    <3> QED
      BY <2>9, <3>1, <3>3, NoneAssumption DEF Entries, Trees
  <2> QED
    BY <2>2, <2>6, <2>8, <2>10 DEF Links
<1>5. ClosedUnder(TextLinks, S)
  BY <1>2, <1>3, <1>4 DEF ClosedUnder
<1> HIDE DEF R
<1>6. u \in S /\ S \in SUBSET Uri
  BY <1>2, <1>3
<1>7. Least(TextLinks, u) \subseteq S
  BY <1>5, <1>6, LeastInside
<1> QED
  BY <1>1, <1>7 DEF R

(* Nothing else is reached if all that is reached is up to date.           *)
LEMMA ReachedRelated ==
    ASSUME TypeOK, NEW u \in Uri, \A v \in ReachableURIs(u) : ~Stale(v)
    PROVE  ReachableURIs(u) \subseteq Related(u)
<1> DEFINE R == Least(Links, u)
           S == R \cap Least(TextLinks, u)
<1>1. R = ReachableURIs(u) /\ Related(u) = Least(TextLinks, u)
  BY RelatedIsLeast, ReachableIsLeast
<1>2. u \in R /\ R \subseteq Uri /\ ClosedUnder(Links, R)
  BY LeastClosed, LinksShape
<1>3. u \in Least(TextLinks, u) /\ ClosedUnder(TextLinks, Least(TextLinks, u))
  BY LeastClosed, TextLinksShape
<1>4. ASSUME NEW l \in Links, l[1] \in R PROVE l \in TextLinks
  <2>1. PICK a \in Entries : l \in {a} \X (SourcedURIs(Nodes(a)) \cap Entries)
    BY DEF Links
  <2>2. l[1] = a /\ l[2] \in SourcedURIs(Nodes(a)) /\ l = <<a, l[2]>> /\ a \in R /\ a \in Uri
    BY <2>1, <1>4 DEF Entries
  <2>3. PICK i \in DOMAIN Nodes(a) : Nodes(a)[i].is = "source" /\ Nodes(a)[i].target = l[2]
    BY <2>2 DEF SourcedURIs
  <2>4. ~Stale(a)
    BY <1>1, <2>2
  <2>5. Nodes(a)[i] = AllTokens(a)[i] /\ i \in DOMAIN AllTokens(a)
    BY <2>1, <2>3, <2>4, FreshNodes
  <2>6. l[2] \in SourcedURIs(AllTokens(a))
    BY <2>2, <2>3, <2>5 DEF SourcedURIs
  <2> QED
    BY <2>2, <2>6 DEF TextLinks
<1>5. ClosedUnder(Links, S)
  BY <1>2, <1>3, <1>4 DEF ClosedUnder
<1> HIDE DEF R
<1>6. u \in S /\ S \in SUBSET Uri
  BY <1>2, <1>3
<1>7. Least(Links, u) \subseteq S
  BY <1>5, <1>6, LeastInside
<1> QED
  BY <1>1, <1>7 DEF R

LEMMA Explained == IInv => RenameExplained
<1> SUFFICES ASSUME IInv, edit.is = "edit" PROVE RenameExplained
  BY DEF RenameExplained
<1> DEFINE u == edit.from
           together == Related(u)
<1>0. TypeOK /\ u \in Uri /\ edit.at = ReachableUsages(u, edit.old)
  BY DEF IInv, TypeOK, EditCurrent
<1>1. \A h \in edit.at : Occurs(h[1], h[2], edit.old) \/ Stale(h[1])
  <2> SUFFICES ASSUME NEW h \in edit.at, ~Stale(h[1]) PROVE Occurs(h[1], h[2], edit.old)
    OBVIOUS
  <2>1. h \in Uri \X (Nat \ {0})
    BY <1>0, HitsShape
  <2>2. h = <<h[1], h[2]>> /\ h[1] \in Uri
    BY <2>1
  <2>3. h[1] \in Entries /\ h[2] \in FindUsages(Nodes(h[1]), edit.old)
    BY <1>0, <2>2, HitMeaning
  <2> QED
    BY <1>0, <2>3, FreshNodes DEF Occurs, FindUsages
<1>2. ASSUME NEW v \in together, NEW i \in DOMAIN AllTokens(v), Occurs(v, i, edit.old),
             \A w \in together : ~Stale(w) /\ ~Broken(w)
      PROVE  <<v, i>> \in edit.at
  <2>1. v \in ReachableURIs(u) /\ v \in Uri
    BY <1>0, <1>2, RelatedReached DEF Related
  <2>2. TextOf(v) # None
    BY DEF AllTokens
  <2>3. v \in Entries
    <3>1. index[v] = Parse(TextOf(v))
      BY <1>2, <2>2 DEF Stale
    <3>2. TextOf(v) \in Text
      BY <1>0, <2>1, <2>2 DEF TypeOK, TextOf
    <3> QED
      BY <2>1, <3>1, <3>2, NoneAssumption DEF Entries, Trees
  <2>4. i \in FindUsages(Nodes(v), edit.old)
    BY <1>0, <1>2, <2>3, FreshNodes DEF Occurs, FindUsages
  <2> QED
    BY <1>0, <2>1, <2>3, <2>4, HitMeaning
<1>3. ASSUME NEW h \in edit.at, \A v \in ReachableURIs(u) : ~Stale(v)
      PROVE  h[1] \in together
  <2>1. h \in Uri \X (Nat \ {0})
    BY <1>0, HitsShape
  <2>2. h = <<h[1], h[2]>> /\ h[1] \in Uri
    BY <2>1
  <2>3. h[1] \in ReachableURIs(u)
    BY <1>0, <2>2, HitMeaning
  <2> QED
    BY <1>0, <1>3, <2>3, ReachedRelated
<1> HIDE DEF together
<1>4. \A v \in together : \A i \in DOMAIN AllTokens(v) : Occurs(v, i, edit.old) =>
        <<v, i>> \in edit.at \/ \E w \in together : Stale(w) \/ Broken(w)
  BY <1>2
<1>5. \A h \in edit.at : h[1] \in together \/ \E v \in ReachableURIs(u) : Stale(v)
  BY <1>3
<1> QED
  BY <1>1, <1>4, <1>5 DEF RenameExplained, together

(* A rename leaves nothing behind and damages nothing, but for the files    *)
(* that are broken or have changed since they were indexed (rename).        *)
THEOREM RenameCorrect == Spec => []RenameExplained
BY Invariance, Explained, PTL

-----------------------------------------------------------------------------
(* The first of some hits.                                                 *)

(* Some numbers have a least one, since 0..n shrinks only finitely often.  *)
LEMMA LeastExists ==
    ASSUME NEW S \in SUBSET Nat, S # {}
    PROVE  \E s \in S : \A t \in S : s <= t
<1> DEFINE T == {0..n : n \in S}
<1>1. T \subseteq FiniteSubsetsOf(Nat)
  <2>1. SUFFICES ASSUME NEW n \in S PROVE 0..n \in FiniteSubsetsOf(Nat)
    OBVIOUS
  <2>2. IsFiniteSet(0..n)
    BY FS_Interval
  <2> QED BY <2>2 DEF FiniteSubsetsOf
<1>0. T # {}
  OBVIOUS
<1>5. IsWellFoundedOn(StrictSubsetOrdering(Nat), FiniteSubsetsOf(Nat))
  BY FS_StrictSubsetOrderingWellFounded
<1>2. PICK x \in T : \A y \in T : ~(<<y, x>> \in StrictSubsetOrdering(Nat))
  <2> HIDE DEF T
  <2> QED BY <1>0, <1>1, <1>5, WFMin
<1>3. PICK s \in S : x = 0..s
  OBVIOUS
<1>4. ASSUME NEW t \in S, t < s PROVE FALSE
  <2>1. 0..t \in T
    OBVIOUS
  <2>2. 0..t \in SUBSET Nat /\ 0..s \in SUBSET Nat /\ 0..t \subseteq 0..s
    BY <1>4
  <2>3. s \in 0..s /\ s \notin 0..t
    BY <1>4
  <2>4. <<0..t, x>> \in StrictSubsetOrdering(Nat)
    BY <2>2, <2>3, <1>3, Zenon DEF StrictSubsetOrdering
  <2> QED BY <2>1, <2>4, <1>2
<1> QED BY <1>4

LEMMA FirstHitExists ==
    ASSUME NEW hits \in SUBSET (Uri \X Nat), hits # {}
    PROVE  FirstHit(hits) \in hits
<1> DEFINE A == {h[1] : h \in hits}
<1>1. A \in SUBSET Nat /\ A # {}
  BY UriAssumption
<1>2. PICK m \in A : \A a \in A : m <= a
  BY <1>1, LeastExists
<1> DEFINE B == {h[2] : h \in {g \in hits : g[1] = m}}
<1>3. B \in SUBSET Nat /\ B # {}
  BY <1>2
<1>4. PICK n \in B : \A b \in B : n <= b
  BY <1>3, LeastExists
<1>5. PICK h \in hits : h[1] = m /\ h[2] = n
  BY <1>4
<1>6. \A g \in hits : Before(h, g)
  <2> SUFFICES ASSUME NEW g \in hits PROVE Before(h, g)
    OBVIOUS
  <2>1. g[1] \in A /\ m <= g[1] /\ m \in Nat /\ g[1] \in Nat
    BY <1>1, <1>2
  <2>2. CASE g[1] = m
    <3>1. g[2] \in B /\ n <= g[2]
      BY <1>4, <2>2
    <3> QED
      BY <1>5, <2>2, <3>1 DEF Before
  <2>3. CASE g[1] # m
    BY <1>5, <2>1, <2>3 DEF Before
  <2> QED
    BY <2>2, <2>3
<1> QED
  BY <1>5, <1>6 DEF FirstHit

-----------------------------------------------------------------------------
(* Look-ups.                                                               *)

LEMMA DeclarationMeaning ==
    ASSUME TypeOK, NEW A \in SUBSET Uri
    PROVE  /\ DeclarationHits(A) \subseteq Uri \X Nat
           /\ \A v \in Uri : \A i : <<v, i>> \in DeclarationHits(A) <=>
                v \in A /\ v \in Entries /\ i \in FindDeclarations(Nodes(v))
<1>1. \A v \in Entries : v \in Uri /\ FindDeclarations(Nodes(v)) \subseteq Nat
  <2> SUFFICES ASSUME NEW v \in Entries, NEW i \in DOMAIN Nodes(v) PROVE v \in Uri /\ i \in Nat
    BY DEF FindDeclarations, Entries
  <2>1. Parsed[index[v].text] \in Nat
    BY NodesShape, TokensAssumption
  <2> QED
    BY <2>1, NodesShape DEF Entries
<1> QED
  BY <1>1 DEF DeclarationHits

LEMMA ReachedFiles ==
    ASSUME TypeOK, NEW u \in Uri
    PROVE  u \in ReachableURIs(u) /\ ReachableURIs(u) \in SUBSET Uri
BY ReachableIsLeast, LeastClosed, LinksShape

(* Both walks agree: a declaration with the name is a use that writes it.   *)
LEMMA DeclaredIsWritten ==
    ASSUME TypeOK, NEW u \in Uri, NEW word
    PROVE  /\ {h \in ReachableDeclarations(u) : NameAt(h) = word}
                = {h \in ReachableUsages(u, word) : IsWrite(h)}
           /\ ReachableDeclarations(u) \subseteq Uri \X Nat
<1>1. ReachableURIs(u) \in SUBSET Uri
  BY ReachedFiles
<1>2. ReachableDeclarations(u) \subseteq Uri \X Nat
  BY <1>1, DeclarationMeaning DEF ReachableDeclarations
<1>3. ASSUME NEW v \in Uri, NEW i
      PROVE  (<<v, i>> \in ReachableDeclarations(u) /\ NameAt(<<v, i>>) = word)
               <=> (<<v, i>> \in ReachableUsages(u, word) /\ IsWrite(<<v, i>>))
  <2>1. <<v, i>> \in ReachableDeclarations(u) <=>
          v \in ReachableURIs(u) /\ v \in Entries /\ i \in FindDeclarations(Nodes(v))
    BY <1>1, DeclarationMeaning DEF ReachableDeclarations
  <2>2. <<v, i>> \in ReachableUsages(u, word) <=>
          v \in ReachableURIs(u) /\ v \in Entries /\ i \in FindUsages(Nodes(v), word)
    BY HitMeaning
  <2> QED
    BY <2>1, <2>2 DEF NameAt, IsWrite, FindDeclarations, FindUsages
<1>4. ReachableUsages(u, word) \subseteq Uri \X (Nat \ {0})
  BY HitsShape
<1> QED
  BY <1>2, <1>3, <1>4

LEMMA OpenEntry ==
    ASSUME IInv, NEW u \in Uri, IsOpen(u)
    PROVE  u \in Entries
<1>1. buffer[u] \in Text /\ index[u] = Parse(buffer[u])
  BY DEF IInv, TypeOK, OpenIndexed, IsOpen
<1> QED
  BY <1>1, NoneAssumption DEF Entries, Trees

(* A definition, when there is one, is the first of the declarations here   *)
(* or else elsewhere.                                                      *)
LEMMA DefinitionFound ==
    ASSUME IInv, NEW u \in Uri, IsOpen(u), NEW i, ~SourceDefinition(u, i)
    PROVE  LET found == Definition(u, i)
               named == {h \in ReachableDeclarations(u) : NameAt(h) = Word(u, i)}
           IN  /\ named = {} => found = None
               /\ named # {} => found \in named
               /\ (\E h \in named : h[1] = u) => found[1] = u
<1> DEFINE word == Word(u, i)
           named == {h \in ReachableDeclarations(u) : NameAt(h) = word}
           own == {h \in DeclarationHits({u}) : NameAt(h) = word}
           others == {h \in named : h[1] # u}
<1>0. TypeOK /\ u \in ReachableURIs(u) /\ ReachableURIs(u) \in SUBSET Uri
  BY ReachedFiles DEF IInv
<1>1. own = {h \in named : h[1] = u}
  <2>1. DeclarationHits({u}) \subseteq Uri \X Nat /\ ReachableDeclarations(u) \subseteq Uri \X Nat
    BY <1>0, DeclarationMeaning DEF ReachableDeclarations
  <2>2. \A v \in Uri : \A j : <<v, j>> \in DeclarationHits({u}) <=>
          <<v, j>> \in ReachableDeclarations(u) /\ v = u
    <3>1. \A v \in Uri : \A j : <<v, j>> \in DeclarationHits({u}) <=>
            v \in {u} /\ v \in Entries /\ j \in FindDeclarations(Nodes(v))
      BY <1>0, DeclarationMeaning
    <3>2. \A v \in Uri : \A j : <<v, j>> \in ReachableDeclarations(u) <=>
            v \in ReachableURIs(u) /\ v \in Entries /\ j \in FindDeclarations(Nodes(v))
      BY <1>0, DeclarationMeaning DEF ReachableDeclarations
    <3> QED
      BY <1>0, <3>1, <3>2
  <2>3. \A h \in Uri \X Nat : h \in DeclarationHits({u}) <=> h \in ReachableDeclarations(u) /\ h[1] = u
    BY <2>2
  <2> QED
    BY <2>1, <2>3
<1>2. named \in SUBSET (Uri \X Nat)
  BY <1>0, DeclaredIsWritten
<1>3. Definition(u, i) = CASE own # {} -> FirstHit(own)
                           [] own = {} /\ others # {} -> FirstHit(others)
                           [] OTHER -> None
  BY DEF Definition
<1> HIDE DEF named, own, others
<1>4. CASE own # {}
  <2>1. FirstHit(own) \in own
    BY <1>1, <1>2, <1>4, FirstHitExists
  <2> QED
    BY <1>1, <1>3, <1>4, <2>1 DEF named
<1>5. CASE own = {} /\ others # {}
  <2>1. FirstHit(others) \in others
    BY <1>2, <1>5, FirstHitExists DEF others
  <2> QED
    BY <1>1, <1>3, <1>5, <2>1 DEF named, others
<1>6. CASE own = {} /\ others = {}
  <2>1. named = {}
    BY <1>1, <1>6 DEF others
  <2>2. Definition(u, i) = None
    BY <1>3, <1>6
  <2> QED
    BY <2>1, <2>2 DEF named
<1> QED
  BY <1>4, <1>5, <1>6

(* A name declared in the tree of an open document is among the            *)
(* declarations that are reached.                                          *)
LEMMA OwnDeclaration ==
    ASSUME IInv, NEW u \in Uri, IsOpen(u), NEW i \in DOMAIN Nodes(u), Nodes(u)[i].is \in Declaring
    PROVE  <<u, i>> \in ReachableDeclarations(u) /\ NameAt(<<u, i>>) = Nodes(u)[i].name
<1>1. u \in Entries /\ TypeOK
  BY OpenEntry DEF IInv
<1>2. u \in ReachableURIs(u) /\ ReachableURIs(u) \in SUBSET Uri
  BY <1>1, ReachedFiles
<1>3. i \in FindDeclarations(Nodes(u))
  BY DEF FindDeclarations
<1> QED
  BY <1>1, <1>2, <1>3, DeclarationMeaning DEF ReachableDeclarations, NameAt

LEMMA HoverFound ==
    ASSUME IInv, NEW u \in Uri, IsOpen(u), NEW word, word \notin Reserved \cup Builtins
    PROVE  LET named == {h \in ReachableDeclarations(u) : NameAt(h) = word}
           IN  Hover(u, word) \in IF named = {} THEN {None} ELSE named
<1> DEFINE named == {h \in ReachableDeclarations(u) : NameAt(h) = word}
           local == FindLocalFunction(u, word)
<1>1. local \subseteq named
  <2> SUFFICES ASSUME NEW i \in DOMAIN Nodes(u), Nodes(u)[i].is = "function", Nodes(u)[i].name = word
               PROVE  <<u, i>> \in named
    BY DEF FindLocalFunction, LocalFunctions
  <2> QED
    BY OwnDeclaration DEF Declaring
<1>2. named \in SUBSET (Uri \X Nat)
  BY DeclaredIsWritten DEF IInv
<1>3. FindWorkspaceDeclaration(u, word) = named
  BY DEF FindWorkspaceDeclaration
<1>4. Hover(u, word) = CASE local # {} -> FirstHit(local)
                         [] local = {} /\ named # {} -> FirstHit(named)
                         [] OTHER -> None
  BY <1>3 DEF Hover
<1> HIDE DEF named, local
<1>5. CASE local # {}
  <2>1. FirstHit(local) \in local
    BY <1>1, <1>2, <1>5, FirstHitExists
  <2> QED
    BY <1>1, <1>4, <1>5, <2>1 DEF named
<1>6. CASE local = {} /\ named # {}
  <2>1. FirstHit(named) \in named
    BY <1>2, <1>6, FirstHitExists
  <2> QED
    BY <1>4, <1>6, <2>1 DEF named
<1>7. CASE local = {} /\ named = {}
  BY <1>4, <1>7 DEF named
<1> QED
  BY <1>5, <1>6, <1>7

(* What completion calls a variable or a function is one of the document.  *)
LEMMA CompletionFrom ==
    ASSUME NEW u, NEW varsOnly, NEW label, NEW kind, <<label, kind>> \in Completion(u, varsOnly)
    PROVE  label \in CompletionCandidates(u, kind)
BY DEF Completion

LEMMA CompletionLocal ==
    ASSUME NEW u, NEW word,
           <<word, "variable">> \in Completion(u, TRUE) \/ <<word, "function">> \in Completion(u, FALSE)
    PROVE  \E i \in DOMAIN Nodes(u) : Nodes(u)[i].is \in Declaring /\ Nodes(u)[i].name = word
<1>1. word \in CompletionCandidates(u, "variable") \/ word \in CompletionCandidates(u, "function")
  BY CompletionFrom
<1>2. CompletionCandidates(u, "variable") = {Nodes(u)[i].name : i \in LocalVariables(u)}
  BY DEF CompletionCandidates
<1>3. CompletionCandidates(u, "function") = {Nodes(u)[i].name : i \in LocalFunctions(u)}
  BY DEF CompletionCandidates
<1> QED
  BY <1>1, <1>2, <1>3 DEF LocalVariables, LocalFunctions, Declaring

LEMMA Agreement == IInv => LookupsAgree
<1> SUFFICES ASSUME IInv, edit = NoEdit, NEW u \in Uri, IsOpen(u), NEW i \in Places(u)
             PROVE  LET word == Word(u, i)
                        uses == References(u, word, TRUE)
                        found == Definition(u, i)
                    IN  /\ SourceDefinition(u, i) \/ (found # None <=> HasDeclaration(uses))
                        /\ found # None /\ ~SourceDefinition(u, i) =>
                              found \in uses \cap WorkspaceSymbols({word}) /\ IsWrite(found)
                        /\ word \notin Reserved \cup Builtins =>
                              Hover(u, word) \in (IF HasDeclaration(uses) THEN uses ELSE {None})
                        /\ {u} \X Highlight(u, word) = {h \in uses : h[1] = u}
                        /\ \A v \in ReachableURIs(u) : IsOpen(v) => References(v, word, TRUE) = uses
                        /\ <<word, "variable">> \in Completion(u, TRUE)
                              \/ <<word, "function">> \in Completion(u, FALSE) =>
                              SourceDefinition(u, i) \/ found[1] = u
                        /\ DocumentSymbols(u) \subseteq AllDeclarations
  BY DEF LookupsAgree
<1> DEFINE word == Word(u, i)
           uses == References(u, word, TRUE)
           found == Definition(u, i)
           named == {h \in ReachableDeclarations(u) : NameAt(h) = word}
<1>0. TypeOK /\ u \in Entries /\ u \in ReachableURIs(u) /\ ReachableURIs(u) \in SUBSET Uri
  BY OpenEntry, ReachedFiles DEF IInv
<1>1. uses = ReachableUsages(u, word)
  BY DEF References
<1>2. named = {h \in uses : IsWrite(h)} /\ named \in SUBSET (Uri \X Nat)
  BY <1>0, <1>1, DeclaredIsWritten
<1>3. HasDeclaration(uses) <=> named # {}
  BY <1>2 DEF HasDeclaration
<1>4. ~SourceDefinition(u, i) =>
        /\ named = {} => found = None
        /\ named # {} => found \in named
        /\ (\E h \in named : h[1] = u) => found[1] = u
  BY DefinitionFound
<1>5. None \notin named
  BY <1>2, NoneAssumption
<1>6. named \subseteq WorkspaceSymbols({word})
  <2>1. ReachableDeclarations(u) \subseteq AllDeclarations
    BY <1>0 DEF ReachableDeclarations, AllDeclarations, DeclarationHits
  <2> QED
    BY <2>1 DEF WorkspaceSymbols
<1>7. word \notin Reserved \cup Builtins =>
        Hover(u, word) \in (IF HasDeclaration(uses) THEN uses ELSE {None})
  BY <1>2, <1>3, HoverFound
<1>8. {u} \X Highlight(u, word) = {h \in uses : h[1] = u}
  <2>1. \A v \in Uri : \A j : <<v, j>> \in uses <=>
          v \in ReachableURIs(u) /\ v \in Entries /\ j \in FindUsages(Nodes(v), word)
    <3>1. \A v \in Uri : \A j : <<v, j>> \in ReachableUsages(u, word) <=>
            v \in ReachableURIs(u) /\ v \in Entries /\ j \in FindUsages(Nodes(v), word)
      <4> HIDE DEF word
      <4> QED
        BY <1>0, HitMeaning
    <3> QED
      BY <1>1, <3>1
  <2>2. uses \subseteq Uri \X (Nat \ {0})
    BY <1>0, <1>1, HitsShape
  <2>3. \A j : <<u, j>> \in uses <=> j \in Highlight(u, word)
    BY <1>0, <2>1 DEF Highlight
  <2> HIDE DEF uses
  <2> QED
    BY <2>2, <2>3
<1>9. \A v \in ReachableURIs(u) : References(v, word, TRUE) = uses
  <2> SUFFICES ASSUME NEW v \in ReachableURIs(u) PROVE ReachableURIs(v) = ReachableURIs(u)
    BY DEF References, ReachableUsages
  <2> QED
    BY <1>0, ReachableIsLeast, LeastSymmetric, LinksShape
<1>10. ASSUME ~SourceDefinition(u, i),
              <<word, "variable">> \in Completion(u, TRUE) \/ <<word, "function">> \in Completion(u, FALSE)
       PROVE  found[1] = u
  <2>1. PICK j \in DOMAIN Nodes(u) : Nodes(u)[j].is \in Declaring /\ Nodes(u)[j].name = word
    BY <1>10, CompletionLocal
  <2>2. <<u, j>> \in named
    BY <2>1, OwnDeclaration
  <2>3. \E h \in named : h[1] = u
    BY <2>2
  <2> QED
    BY <1>4, <1>10, <2>3
<1>11. DocumentSymbols(u) \subseteq AllDeclarations
  <2> SUFFICES ASSUME NEW j \in LocalFunctions(u) PROVE <<u, j>> \in AllDeclarations
    BY DEF DocumentSymbols
  <2>1. j \in FindDeclarations(Nodes(u))
    BY DEF LocalFunctions, FindDeclarations, Declaring
  <2> QED
    BY <1>0, <2>1, DeclarationMeaning DEF AllDeclarations
<1> HIDE DEF word, uses, found, named
<1>12. SourceDefinition(u, i) \/ (found # None <=> HasDeclaration(uses))
  BY <1>3, <1>4, <1>5
<1>13. found # None /\ ~SourceDefinition(u, i) => found \in uses \cap WorkspaceSymbols({word}) /\ IsWrite(found)
  BY <1>2, <1>4, <1>6
<1> QED
  BY <1>7, <1>8, <1>9, <1>10, <1>11, <1>12, <1>13 DEF word, uses, found

(* Definition, hover, references, highlights, rename, symbols and           *)
(* completion agree on what a word refers to, in whichever document of the  *)
(* component one asks.                                                     *)
THEOREM AnswersAgree == Spec => []LookupsAgree
BY Invariance, Agreement, PTL
=============================================================================
