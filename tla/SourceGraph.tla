---------------------------- MODULE SourceGraph ----------------------------
(***************************************************************************)
(* reachableURIs of the analyser: which files a query about one document   *)
(* looks at.  Files are linked by their literal "source f" and ". f"       *)
(* commands, in both directions, as far as f is a file on the disk at the  *)
(* moment sourcedURIs asks os.Stat.  The index is locked during the search, *)
(* the disk is not: it is asked again for every command, and may have      *)
(* changed.                                                                *)
(***************************************************************************)
EXTENDS Naturals, Sequences, FiniteSets

CONSTANTS
    Uri,
    From,        \* the document the query is about
    MaxChanges   \* bound: changes of the disk during the search

ASSUME FromAssumption == From \in Uri
ASSUME MaxChangesAssumption == MaxChanges \in Nat

VARIABLES
    entries,     \* the indexed files; locked, so constant
    commands,    \* <<a, b>>: indexed file a has a literal source command naming b
    onDisk,      \* the paths that are regular files now
    seen, queue, \* as in reachableURIs
    cur,         \* the file whose neighbours are sought, or none
    unasked,     \* the commands sourceNeighbours has yet to look at
    out,         \* the neighbours it has found
    explored,    \* history: the files whose turn has come
    always, ever, \* history: the paths that were files all the time, at some time
    changes      \* number of changes, up to MaxChanges

graph == <<entries, commands>>
search == <<seen, queue, cur, unasked, out, explored>>
disk == <<onDisk, always, ever, changes>>
vars == <<graph, search, disk>>

None == "none"
ASSUME NoneAssumption == None \notin Uri

(* Mutant: callers are not looked for. *)
Touching_OneWay(u) == {c \in commands : c[1] = u}

(* The commands sourceNeighbours(u) looks at: those of u itself and those   *)
(* of all other files, of which only the ones naming u make a difference.   *)
Touching(u) == {c \in commands : c[1] = u \/ c[2] = u}

(* Mutant: the target need not be indexed. *)
Neighbour_Unindexed(c, u) == IF c[1] = u THEN {c[2]} ELSE {c[1]}

(* What a command adds to the neighbours of u if its target is on the disk:  *)
(* of u itself the target, when that is indexed; of another file that file. *)
Neighbour(c, u) == IF c[1] = u THEN {c[2]} \cap entries ELSE {c[1]}

(* The query's document is open, therefore indexed.                         *)
Init ==
    /\ entries \in {E \in SUBSET Uri : From \in E}
    /\ commands \in SUBSET (entries \X Uri)
    /\ onDisk \in SUBSET Uri
    /\ seen = {From} /\ queue = <<From>>
    /\ cur = None /\ unasked = {} /\ out = {} /\ explored = {}
    /\ always = onDisk /\ ever = onDisk /\ changes = 0

(* Mutant: the file stays in the queue. *)
Dequeue_Peek ==
    /\ cur = None /\ queue # <<>>
    /\ cur' = Head(queue)
    /\ unasked' = Touching(cur') /\ out' = {}
    /\ explored' = explored \cup {cur'}
    /\ UNCHANGED <<graph, seen, queue, disk>>

(* Takes the next file from the queue. *)
Dequeue ==
    /\ cur = None /\ queue # <<>>
    /\ cur' = Head(queue) /\ queue' = Tail(queue)
    /\ unasked' = Touching(cur') /\ out' = {}
    /\ explored' = explored \cup {cur'}
    /\ UNCHANGED <<graph, seen, disk>>

(* Mutant: the target need not be on the disk. *)
Stat_Skipped(c) ==
    /\ c \in unasked
    /\ unasked' = unasked \ {c}
    /\ out' = out \cup Neighbour(c, cur)
    /\ UNCHANGED <<graph, seen, queue, cur, explored, disk>>

(* sourcedURIs: a command counts if its target is a file now. *)
Stat(c) ==
    /\ c \in unasked
    /\ unasked' = unasked \ {c}
    /\ out' = IF c[2] \in onDisk THEN out \cup Neighbour(c, cur) ELSE out
    /\ UNCHANGED <<graph, seen, queue, cur, explored, disk>>

(* Mutant: only what waits in the queue or has its turn counts as seen. *)
Enqueue_Waiting(u) ==
    /\ cur # None /\ unasked = {} /\ u \in out
    /\ out' = out \ {u}
    /\ queue' = IF u = cur \/ \E i \in DOMAIN queue : queue[i] = u THEN queue ELSE Append(queue, u)
    /\ seen' = seen \cup {u}
    /\ UNCHANGED <<graph, cur, unasked, explored, disk>>

(* One neighbour after the other, in any order: marked and queued unless    *)
(* seen before.                                                             *)
Enqueue(u) ==
    /\ cur # None /\ unasked = {} /\ u \in out
    /\ out' = out \ {u}
    /\ IF u \in seen
       THEN UNCHANGED <<seen, queue>>
       ELSE seen' = seen \cup {u} /\ queue' = Append(queue, u)
    /\ UNCHANGED <<graph, cur, unasked, explored, disk>>

Finish ==
    /\ cur # None /\ unasked = {} /\ out = {}
    /\ cur' = None
    /\ UNCHANGED <<graph, seen, queue, unasked, out, explored, disk>>

(* A path becomes a file, or ceases to be one. *)
DiskChange(u) ==
    /\ changes < MaxChanges
    /\ changes' = changes + 1
    /\ onDisk' = IF u \in onDisk THEN onDisk \ {u} ELSE onDisk \cup {u}
    /\ always' = always \cap onDisk' /\ ever' = ever \cup onDisk'
    /\ UNCHANGED <<graph, search>>

Search ==
    \/ Dequeue
    \/ \E c \in unasked : Stat(c)
    \/ \E u \in out : Enqueue(u)
    \/ Finish

Next == Search \/ \E u \in Uri : DiskChange(u)

Spec == Init /\ [][Next]_vars

(* The search runs in the handler's goroutine and waits for nobody. *)
FairSpec == Spec /\ WF_vars(Search)

Done == cur = None /\ queue = <<>>

-----------------------------------------------------------------------------
(* Properties *)

(* Every variable has its type; what is queued is marked. *)
TypeOK ==
    /\ entries \in SUBSET Uri /\ From \in entries
    /\ commands \in SUBSET (entries \X Uri)
    /\ onDisk \in SUBSET Uri /\ always \in SUBSET Uri /\ ever \in SUBSET Uri
    /\ always \subseteq onDisk /\ onDisk \subseteq ever
    /\ seen \in SUBSET entries /\ queue \in Seq(seen)
    /\ explored \in SUBSET seen /\ cur \in explored \cup {None}
    /\ unasked \in SUBSET commands /\ out \in SUBSET entries
    /\ changes \in 0 .. MaxChanges

(* The links when the paths in d are files. *)
Links(d) == {c \in commands : c[2] \in d /\ c[2] \in entries}

(* S is not left by any link, in either direction. *)
Closed(S, d) == \A c \in Links(d) : c[1] \in S <=> c[2] \in S

(* What the comment of ReachableUsages calls the undirected component of u. *)
Component(u, d) ==
    {v \in entries : \A S \in SUBSET entries : u \in S /\ Closed(S, d) => v \in S}

(* Unrelated scripts are excluded: the search never leaves the component    *)
(* that the files on the disk at any time during the search span.           *)
UnrelatedExcluded == seen \subseteq Component(From, ever)

(* Nothing is missed: in the end all of the component is found that is      *)
(* linked by files that were there all the time, whatever came and went.    *)
ComponentFound == Done => Component(From, always) \subseteq seen

(* A file gets at most one turn, however many commands and cycles lead to   *)
(* it: it is not in the queue twice, and not again once its turn has come.  *)
ExploredOnce ==
    /\ \A i, j \in DOMAIN queue : queue[i] = queue[j] => i = j
    /\ \A i \in DOMAIN queue : queue[i] \notin explored

(* The inductive invariant: out and seen stay in the component, and a file   *)
(* that is seen is queued, being explored, or has all its neighbours seen.  *)
Explored(u, found) ==
    \A c \in Links(always) :
        /\ c[1] = u => c[2] \in found \/ c \in unasked
        /\ c[2] = u => c[1] \in found \/ c \in unasked

SearchInv ==
    /\ From \in seen
    /\ cur = None => unasked = {} /\ out = {}
    /\ unasked \subseteq Touching(cur)
    /\ seen \cup out \subseteq Component(From, ever)
    /\ \A u \in seen : \/ \E i \in DOMAIN queue : queue[i] = u
                       \/ u = cur /\ Explored(u, seen \cup out)
                       \/ \A c \in Links(always) : (c[1] = u => c[2] \in seen)
                                                /\ (c[2] = u => c[1] \in seen)

IInv == TypeOK /\ SearchInv /\ ExploredOnce

(* The search ends, although cycles of source commands are legal. *)
Terminates == <>Done

=============================================================================
