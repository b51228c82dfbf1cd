------------------------------ MODULE Queries ------------------------------
(***************************************************************************)
(* What the server answers to a query about the word under the cursor, and *)
(* the edits of a rename, while buffers, disk and index change in every    *)
(* way the index contract allows (IndexContract, which Workspace is shown  *)
(* to implement).                                                          *)
(*                                                                         *)
(* A text is a sequence of tokens, the places a name can stand; a tree is  *)
(* as many of them as the parser got to before an error.  A token has the  *)
(* name the parser reads and the word WordAtOffset reads there, which runs *)
(* on over "." and "-": in $v.txt the name is v and the word v.txt.        *)
(***************************************************************************)
EXTENDS Integers, Sequences, FiniteSets

CONSTANTS
    Uri,         \* the files, numbered in the order of their URIs
    Text,        \* the texts a file may have
    Tokens,      \* Tokens[t]: the tokens of text t
    Parsed,      \* Parsed[t]: how many of them precede the first syntax error
    Identifiers, \* the words isValidIdentifier accepts
    Reserved, Builtins, Executables, Snippets, \* what hover and completion know
    NewNames,    \* the names a client asks to rename to
    None

ASSUME UriAssumption == Uri \subseteq Nat /\ IsFiniteSet(Uri)

Declaring == {"function", "nested", "assign"}
Reading == {"call", "expand"}
Kinds == Declaring \cup Reading \cup {"other", "source"}

(* A source command also has a target. *)
ASSUME TokensAssumption ==
    \A t \in Text :
        /\ Len(Tokens[t]) \in Nat /\ Parsed[t] \in 0..Len(Tokens[t])
        /\ DOMAIN Tokens[t] = 1..Len(Tokens[t])
        /\ \A i \in DOMAIN Tokens[t] :
              Tokens[t][i].is \in Kinds /\ (Tokens[t][i].is = "source" => Tokens[t][i].target \in Uri)

VARIABLES
    disk, buffer, index, \* of IndexContract
    edit                 \* the answer to textDocument/rename, until it is sent

vars == <<disk, buffer, index, edit>>

(* Parse never returns a nil file: after an error the tree so far. *)
Parse(t) == [text |-> t, partial |-> Parsed[t] < Len(Tokens[t])]

Trees == {Parse(t) : t \in Text}

(* None is told apart from texts, trees, hits and words. *)
ASSUME NoneAssumption ==
    None \notin Text /\ None \notin Trees /\ None \notin Uri \X Nat /\ None \notin Reserved \cup Builtins

Files == INSTANCE IndexContract WITH File <- Uri, PathOf <- [u \in Uri |-> u]

IsOpen(u) == buffer[u] # None
Entries == {u \in Uri : index[u] # None}

(* The nodes of u's tree that stand for tokens. *)
Nodes(u) == LET t == index[u].text IN [i \in 1..Parsed[t] |-> Tokens[t][i]]
-----------------------------------------------------------------------------
(* analyser: the places of a tree *)

FindDeclarations(nodes) == {i \in DOMAIN nodes : nodes[i].is \in Declaring}

(* Mutant: expansions are not looked at. *)
FindUsages_Calls(nodes, name) ==
    {i \in DOMAIN nodes : nodes[i].is \in Declaring \cup {"call"} /\ nodes[i].name = name}

FindUsages(nodes, name) ==
    {i \in DOMAIN nodes : nodes[i].is \in Declaring \cup Reading /\ nodes[i].name = name}

(* The literal source commands whose target is on the disk ...             *)
SourcedURIs(nodes) ==
    {v \in {nodes[i].target : i \in {i \in DOMAIN nodes : nodes[i].is = "source"}} : disk[v] # None}

(* ... and indexed. *)
Links == UNION {{u} \X (SourcedURIs(Nodes(u)) \cap Entries) : u \in Entries}

(* Mutant: callers are not reached. *)
ReachableURIs_OneWay(u) ==
    LET links  == Links
        closed == {S \in SUBSET Uri : u \in S /\ \A l \in links : l[1] \in S => l[2] \in S}
    IN  {v \in Uri : \A S \in closed : v \in S}

(* The least set with u that no link leaves in either direction, which is   *)
(* what SourceGraph shows the search to find on a disk that stays.         *)
ReachableURIs(u) ==
    LET links  == Links
        closed == {S \in SUBSET Uri : u \in S /\ \A l \in links : l[1] \in S <=> l[2] \in S}
    IN  {v \in Uri : \A S \in closed : v \in S}

(* Hits are pairs of a file and a place. *)
DeclarationHits(allowed) ==
    UNION {{v} \X FindDeclarations(Nodes(v)) : v \in allowed \cap Entries}
ReachableDeclarations(u) == DeclarationHits(ReachableURIs(u))
AllDeclarations == DeclarationHits(Uri)

IsWrite(h) == Nodes(h[1])[h[2]].is \in Declaring
NameAt(h) == Nodes(h[1])[h[2]].name

ReachableUsages(u, name) ==
    UNION {{v} \X FindUsages(Nodes(v), name) : v \in ReachableURIs(u) \cap Entries}

HasDeclaration(hits) == \E h \in hits : IsWrite(h)

(* sortedDeclarationHits: by file, then by offset. *)
Before(g, h) == g[1] < h[1] \/ (g[1] = h[1] /\ g[2] <= h[2])
FirstHit(hits) == CHOOSE h \in hits : \A g \in hits : Before(h, g)
-----------------------------------------------------------------------------
(* The answers about the word at place i of the open document u.           *)

Word(u, i) == Tokens[buffer[u]][i].word
Places(u) == DOMAIN Tokens[buffer[u]]

References(u, word, includeDecl) ==
    {h \in ReachableUsages(u, word) : includeDecl \/ ~IsWrite(h)}

Highlight(u, word) == FindUsages(Nodes(u), word)

(* A source command leads to its file, which need not be indexed ...        *)
SourceDefinition(u, i) ==
    /\ i \in DOMAIN Nodes(u) /\ Nodes(u)[i].is = "source" /\ disk[Nodes(u)[i].target] # None

(* ... a word to its first declaration here, or else to the first one in    *)
(* the other files that are reached.                                       *)
Definition(u, i) ==
    LET named  == {h \in ReachableDeclarations(u) : NameAt(h) = Word(u, i)}
        own    == {h \in DeclarationHits({u}) : NameAt(h) = Word(u, i)}
        others == {h \in named : h[1] # u}
    IN  CASE SourceDefinition(u, i) -> <<Nodes(u)[i].target, 0>>
          [] ~SourceDefinition(u, i) /\ own # {} -> FirstHit(own)
          [] ~SourceDefinition(u, i) /\ own = {} /\ others # {} -> FirstHit(others)
          [] OTHER -> None

(* Functions at the top level only. *)
LocalFunctions(u) == {i \in DOMAIN Nodes(u) : Nodes(u)[i].is = "function"}
LocalVariables(u) == {i \in DOMAIN Nodes(u) : Nodes(u)[i].is = "assign"}

FindLocalFunction(u, word) == {<<u, i>> : i \in {i \in LocalFunctions(u) : Nodes(u)[i].name = word}}
FindWorkspaceDeclaration(u, word) == {h \in ReachableDeclarations(u) : NameAt(h) = word}

Hover(u, word) ==
    LET local  == FindLocalFunction(u, word)
        others == FindWorkspaceDeclaration(u, word)
    IN  CASE word \in Reserved \cup Builtins -> word
          [] word \notin Reserved \cup Builtins /\ local # {} -> FirstHit(local)
          [] word \notin Reserved \cup Builtins /\ local = {} /\ others # {} -> FirstHit(others)
          [] OTHER -> None

DocumentSymbols(u) == {<<u, i>> : i \in LocalFunctions(u)}

(* The names a query matches are given by the set of them. *)
WorkspaceSymbols(matching) == {h \in AllDeclarations : NameAt(h) \in matching}

(* Each label once, as the first kind that has it; after "$" variables only. *)
CompletionKinds(varsOnly) ==
    IF varsOnly THEN <<"variable">>
    ELSE <<"variable", "function", "bash builtin", "PATH executable", "bash reserved word", "bash snippet">>

CompletionCandidates(u, kind) ==
    CASE kind = "variable"           -> {Nodes(u)[i].name : i \in LocalVariables(u)}
      [] kind = "function"           -> {Nodes(u)[i].name : i \in LocalFunctions(u)}
      [] kind = "bash builtin"       -> Builtins
      [] kind = "PATH executable"    -> Executables \ Builtins
      [] kind = "bash reserved word" -> Reserved
      [] kind = "bash snippet"       -> Snippets

Completion(u, varsOnly) ==
    LET kinds == CompletionKinds(varsOnly)
        new(k) == CompletionCandidates(u, kinds[k])
                    \ UNION {CompletionCandidates(u, kinds[j]) : j \in 1..(k - 1)}
    IN  UNION {new(k) \X {kinds[k]} : k \in DOMAIN kinds}

PrepareRename(u, word) ==
    word \in Identifiers /\ word # "_" /\ HasDeclaration(ReachableUsages(u, word))
-----------------------------------------------------------------------------
NoEdit == [is |-> "none"]

(* Mutant: the new name is not checked. *)
Rename_AnyName(u, i, new) ==
    /\ IsOpen(u) /\ edit = NoEdit
    /\ LET hits == ReachableUsages(u, Word(u, i))
       IN  edit' = IF ~HasDeclaration(hits) THEN [is |-> "empty"]
                   ELSE [is |-> "edit", from |-> u, old |-> Word(u, i), new |-> new, at |-> hits]
    /\ UNCHANGED <<disk, buffer, index>>

(* Every usage that is reached is edited, if one of them is a declaration.  *)
Rename(u, i, new) ==
    /\ IsOpen(u) /\ edit = NoEdit
    /\ LET hits == ReachableUsages(u, Word(u, i))
       IN  edit' = CASE new \notin Identifiers -> [is |-> "invalid"]
                     [] new \in Identifiers /\ ~HasDeclaration(hits) -> [is |-> "empty"]
                     [] OTHER -> [is |-> "edit", from |-> u, old |-> Word(u, i), new |-> new, at |-> hits]
    /\ UNCHANGED <<disk, buffer, index>>

Init == Files!Init /\ edit = NoEdit

Reply == edit # NoEdit /\ edit' = NoEdit /\ UNCHANGED <<disk, buffer, index>>

(* Between two queries whatever the contract allows. *)
Change == Files!Next /\ edit = NoEdit /\ UNCHANGED edit

Next ==
    \/ \E u \in Uri, new \in NewNames : IsOpen(u) /\ \E i \in Places(u) : Rename(u, i, new)
    \/ Reply
    \/ Change

Spec == Init /\ [][Next]_vars
-----------------------------------------------------------------------------
(* Properties *)

(* Type invariant: what is edited gets a valid name.                        *)
TypeOK ==
    /\ disk \in [Uri -> Text \cup {None}] /\ buffer \in [Uri -> Text \cup {None}]
    /\ index \in [Uri -> Trees \cup {None}]
    /\ edit.is \in {"none", "invalid", "empty", "edit"}
    /\ edit.is = "edit" =>
         /\ edit.from \in Uri /\ IsOpen(edit.from) /\ edit.new \in Identifiers
         /\ edit.at \subseteq Uri \X (Nat \ {0})

(* What the user sees: the buffer of an open file, the disk for others.     *)
TextOf(u) == IF IsOpen(u) THEN buffer[u] ELSE disk[u]
AllTokens(u) == IF TextOf(u) = None THEN <<>> ELSE Tokens[TextOf(u)]

Stale(u) == index[u] # IF TextOf(u) = None THEN None ELSE Parse(TextOf(u))
Broken(u) == TextOf(u) # None /\ Parsed[TextOf(u)] < Len(Tokens[TextOf(u)])

Occurs(u, i, name) ==
    i \in DOMAIN AllTokens(u) /\ AllTokens(u)[i].is \in Declaring \cup Reading /\ AllTokens(u)[i].name = name

(* The files that belong together by what their texts say now.              *)
TextLinks == UNION {{u} \X SourcedURIs(AllTokens(u)) : u \in Uri}

Related(u) ==
    LET links  == TextLinks
        closed == {S \in SUBSET Uri : u \in S /\ \A l \in links : l[1] \in S <=> l[2] \in S}
    IN  {v \in Uri : \A S \in closed : v \in S}

(* The edits of a rename against the texts as they are, not as indexed:     *)
(*  - an edit replaces an occurrence of the old name, unless the file has   *)
(*    changed on the disk since it was indexed;                             *)
(*  - no occurrence in a related file is left behind, unless it stands      *)
(*    after a syntax error or a related file is out of date or broken;      *)
(*  - unrelated files keep their names, unless a file that is reached is    *)
(*    out of date.                                                          *)
RenameExplained ==
    edit.is = "edit" =>
        LET together == Related(edit.from) IN
        /\ \A h \in edit.at : Occurs(h[1], h[2], edit.old) \/ Stale(h[1])
        /\ \A u \in together : \A i \in DOMAIN AllTokens(u) : Occurs(u, i, edit.old) =>
              <<u, i>> \in edit.at \/ \E v \in together : Stale(v) \/ Broken(v)
        /\ \A h \in edit.at : h[1] \in together \/ \E v \in ReachableURIs(edit.from) : Stale(v)

(* The answers about one word, each from a walk of its own, fit together:   *)
(* definition, hover and rename find a declaration or none of them does,    *)
(* what they find is among the references, the highlights are the           *)
(* references in the document, every document that is reached gives the     *)
(* same references, and what completion offers as local is declared here.   *)
LookupsAgree ==
    edit = NoEdit => \A u \in Uri : IsOpen(u) => \A i \in Places(u) :
        LET word == Word(u, i)
            uses == References(u, word, TRUE)
            found == Definition(u, i)
        IN  /\ SourceDefinition(u, i) \/ (found # None <=> HasDeclaration(uses))
            /\ found # None /\ ~SourceDefinition(u, i) =>
                  found \in uses \cap WorkspaceSymbols({word}) /\ IsWrite(found)
            /\ word \notin Reserved \cup Builtins =>
                  Hover(u, word) \in (IF HasDeclaration(uses) THEN uses ELSE {None})
            /\ {u} \X Highlight(u, word) = {h \in uses : h[1] = u}
            /\ \A v \in ReachableURIs(u) : IsOpen(v) => References(v, word, TRUE) = uses
            /\ <<word, "variable">> \in Completion(u, TRUE) \/ <<word, "function">> \in Completion(u, FALSE) =>
                  SourceDefinition(u, i) \/ found[1] = u
            /\ DocumentSymbols(u) \subseteq AllDeclarations
=============================================================================
