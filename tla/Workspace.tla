----------------------------- MODULE Workspace -----------------------------
(***************************************************************************)
(* The workspace of the server: the open documents (DocumentStore), the    *)
(* index of parsed files (analyser.Index) and the three things that keep   *)
(* the index in step with the disk                                         *)
(*                                                                         *)
(*  - the handler: the connection's read loop, which runs the handlers of  *)
(*    didOpen, didChange, didSave, didClose, didChangeWatchedFiles and of  *)
(*    the queries one after the other;                                     *)
(*  - the scanner: the goroutine started by "initialized", which walks the *)
(*    workspace roots once;                                                *)
(*  - the client's file watcher, registered by another goroutine, which    *)
(*    turns writes to the disk into events the handler gets later.         *)
(*                                                                         *)
(* Handler and scanner exclude each other with workspaceMu (mu), but the   *)
(* disk changes under both.  Each system call and each lock operation is a *)
(* step of its own.                                                        *)
(***************************************************************************)
EXTENDS Naturals, Sequences

CONSTANTS
    File,         \* the paths
    Uri,          \* the document URIs
    PathOf,       \* uri.URI.Filename: the path a URI names
    ServerUri,    \* uri.File: how the server spells the URI of a path
    ClientUri,    \* how the client spells it
    Text,         \* contents a file or a buffer can have
    Shebang,      \* the texts whose first line is a shell's shebang
    Broken,       \* the texts with a syntax error
    ShellExt,     \* paths with an extension of shellExts
    NoExt,        \* paths without an extension
    Dir, DirOf,   \* directories, and the one each path is in
    RootDirs,     \* the directories inside a workspace root
    SkippedDirs,  \* those the walk skips: .git, node_modules, vendor...
    None,         \* no file, no buffer, no index entry
    MaxWrites     \* bound: how often the environment writes to the disk

ASSUME UriAssumption ==
    /\ PathOf \in [Uri -> File]
    /\ ServerUri \in [File -> Uri]
    /\ ClientUri \in [File -> Uri]
    /\ \A f \in File : PathOf[ServerUri[f]] = f /\ PathOf[ClientUri[f]] = f

ASSUME TextAssumption == None \notin Text /\ Shebang \subseteq Text /\ Broken \subseteq Text

ASSUME DirAssumption ==
    /\ ShellExt \subseteq File /\ NoExt \subseteq File \ ShellExt
    /\ DirOf \in [File -> Dir]
    /\ RootDirs \subseteq Dir /\ SkippedDirs \subseteq Dir

ASSUME BoundAssumption == MaxWrites \in Nat

(* A syntax tree is told apart by the text it was parsed from; partial says *)
(* that the parser reported an error and recovered with half a tree.        *)
Tree == [text : Text, partial : BOOLEAN]

ASSUME NoneAssumption == None \notin Tree /\ None \notin File /\ None \notin Uri

VARIABLES
    disk,        \* contents of each path, None when there is no file
    docs,        \* DocumentStore.docs: text of each open document
    index,       \* Index.entries: tree of each indexed URI
    scanEnabled, \* settings.WorkspaceScanEnabled
    mu,          \* workspaceMu: who holds it
    hpc, huri, htree,      \* the handler: where it is, its URI, its tree
    scan, dirs, todo,      \* the walk: phase, unlisted directories, unvisited files
    spc, sfile, stree,     \* the scanner in indexWorkspacePath
    watching,    \* the client has registered the file watcher
    events,      \* watched-file events the handler has not handled yet
    writes,      \* number of disk writes, up to MaxWrites
    missed       \* history: paths written while nobody watched, not read since

handlerVars == <<hpc, huri, htree>>
walkVars    == <<scan, dirs, todo>>
visitVars   == <<spc, sfile, stree>>
scannerVars == <<walkVars, visitVars>>
envVars     == <<disk, watching, writes, scanEnabled>>
vars == <<envVars, docs, index, mu, handlerVars, scannerVars, events, missed>>

-----------------------------------------------------------------------------
(* Helpers *)

(* Parse never returns a nil file: after an error the tree so far. *)
Parse(t) == [text |-> t, partial |-> t \in Broken]

AddOrReplace(u, tree) == index' = [index EXCEPT ![u] = tree]

Remove(u) == index' = [index EXCEPT ![u] = None]

IsOpen(u) == docs[u] # None

(* An extension decides without opening the file; without extension the   *)
(* shebang does, which needs the file to be there.                        *)
IsShellPath(f) == f \in ShellExt \/ (f \in NoExt /\ disk[f] \in Shebang)

(* workspaceFilePath: is the path inside a workspace root? *)
InWorkspace(f) == DirOf[f] \in RootDirs

Acquire(who) == mu = "free" /\ mu' = who
Release == mu' = "free"

HandlerIdle == hpc' = "idle" /\ huri' = None /\ htree' = None
HandlerAt(pc, u, tree) == hpc' = pc /\ huri' = u /\ htree' = tree

NextVisit == spc' = "next" /\ sfile' = None /\ stree' = None
ScannerAt(pc, f, tree) == spc' = pc /\ sfile' = f /\ stree' = tree

-----------------------------------------------------------------------------
(* The handler: documents *)

(* What didOpen, didChange and didSave share: under the lock, store and     *)
(* parse the text.  The index write, IndexWrite, comes before the unlock.   *)
StoreDocument(u, t) ==
    /\ hpc = "idle"
    /\ Acquire("handler")
    /\ docs' = [docs EXCEPT ![u] = t]
    /\ HandlerAt("index", u, Parse(t))
    /\ UNCHANGED <<envVars, index, scannerVars, events, missed>>

(* didOpen: also of a document that is open already. *)
OpenDocument(u, t) == StoreDocument(u, t)

(* didChange: only an open document is updated. *)
UpdateDocument(u, t) == IsOpen(u) /\ StoreDocument(u, t)

(* didSave: the text is optional; without it the same tree is indexed again. *)
SaveDocument(u, t) == IsOpen(u) /\ StoreDocument(u, IF t = None THEN docs[u] ELSE t)

(* didClose of an open document: the document goes first, then the handler *)
(* looks at the disk, all under one lock.                                  *)
CloseDocument(u) ==
    /\ hpc = "idle" /\ IsOpen(u)
    /\ Acquire("handler")
    /\ docs' = [docs EXCEPT ![u] = None]
    /\ HandlerAt("sync", u, None)
    /\ UNCHANGED <<envVars, index, scannerVars, events, missed>>

(* Mutant: the workspace roots are not consulted. *)
CheckShellPath_NoRoots ==
    /\ hpc = "sync"
    /\ IF IsShellPath(PathOf[huri])
       THEN HandlerAt("read", huri, None) /\ UNCHANGED <<index, mu, missed>>
       ELSE Remove(huri) /\ Release /\ HandlerIdle /\ missed' = missed \ {PathOf[huri]}
    /\ UNCHANGED <<envVars, docs, scannerVars, events>>

(* closeDocument and refreshWorkspaceFile: a path outside the workspace, or *)
(* one that is not a shell script now, is not indexed.                     *)
CheckShellPath ==
    /\ hpc = "sync"
    /\ LET f == PathOf[huri] IN
       IF InWorkspace(f) /\ IsShellPath(f)
       THEN /\ HandlerAt("read", huri, None)
            /\ UNCHANGED <<index, mu, missed>>
       ELSE /\ Remove(huri) /\ Release /\ HandlerIdle
            /\ missed' = missed \ {f}
    /\ UNCHANGED <<envVars, docs, scannerVars, events>>

(* Mutant: the error of the read is ignored. *)
ReadWorkspaceFile_NoError ==
    /\ hpc = "read"
    /\ missed' = missed \ {PathOf[huri]}
    /\ HandlerAt("index", huri, Parse(disk[PathOf[huri]]))
    /\ UNCHANGED <<envVars, docs, index, mu, scannerVars, events>>

(* ... otherwise the file is read, which fails when it has gone since.     *)
ReadWorkspaceFile ==
    /\ hpc = "read"
    /\ LET f == PathOf[huri] IN
       /\ missed' = missed \ {f}
       /\ IF disk[f] = None
          THEN Remove(huri) /\ Release /\ HandlerIdle
          ELSE HandlerAt("index", huri, Parse(disk[f])) /\ UNCHANGED <<index, mu>>
    /\ UNCHANGED <<envVars, docs, scannerVars, events>>

IndexWrite ==
    /\ hpc = "index"
    /\ AddOrReplace(huri, htree)
    /\ Release /\ HandlerIdle
    /\ UNCHANGED <<envVars, docs, scannerVars, events, missed>>

-----------------------------------------------------------------------------
(* The handler: watched files *)

(* The event of a file that is open is consumed and ignored. *)
IgnoreOpenFile(u) ==
    /\ IsOpen(u)
    /\ UNCHANGED <<envVars, docs, index, mu, handlerVars, scannerVars, missed>>

(* Mutant: a file that is indexed already is not read again. *)
RefreshWorkspaceFile_Once(u) ==
    /\ ~IsOpen(u)
    /\ IF index[u] = None
       THEN mu' = "handler" /\ HandlerAt("sync", u, None)
       ELSE UNCHANGED <<mu, handlerVars>>
    /\ UNCHANGED <<envVars, docs, index, scannerVars, missed>>

(* Created or changed: look at the disk again, as didClose does. *)
RefreshWorkspaceFile(u) ==
    /\ ~IsOpen(u)
    /\ mu' = "handler"
    /\ HandlerAt("sync", u, None)
    /\ UNCHANGED <<envVars, docs, index, scannerVars, missed>>

(* Mutant: only files the scan would visit are dropped. *)
RemoveWorkspaceFile_Scanned(u) ==
    /\ ~IsOpen(u)
    /\ IF InWorkspace(PathOf[u]) /\ DirOf[PathOf[u]] \notin SkippedDirs
       THEN Remove(u) ELSE UNCHANGED index
    /\ UNCHANGED <<envVars, docs, mu, handlerVars, scannerVars, missed>>

(* Deleted: a path inside the workspace is dropped, without a look at the disk. *)
RemoveWorkspaceFile(u) ==
    /\ ~IsOpen(u)
    /\ IF InWorkspace(PathOf[u]) THEN Remove(u) ELSE UNCHANGED index
    /\ UNCHANGED <<envVars, docs, mu, handlerVars, scannerVars, missed>>

(* didChangeWatchedFiles: one change after the other, each under the lock. *)
HandleDidChangeWatchedFiles ==
    /\ hpc = "idle" /\ mu = "free" /\ events # <<>>
    /\ events' = Tail(events)
    /\ LET change == Head(events) IN
       \/ IgnoreOpenFile(change.uri)
       \/ change.type = "changed" /\ RefreshWorkspaceFile(change.uri)
       \/ change.type = "deleted" /\ RemoveWorkspaceFile(change.uri)

-----------------------------------------------------------------------------
(* The handler: queries *)

(* references, rename and the other queries read the index without          *)
(* workspaceMu.  One hit stands for all: the indexed file v is taken from   *)
(* the index under Index.mu ...                                            *)
ReachableUsages(v) ==
    /\ hpc = "idle" /\ index[v] # None
    /\ HandlerAt("query", v, index[v])
    /\ UNCHANGED <<envVars, docs, index, mu, scannerVars, events, missed>>

(* Mutant: the text always comes from the disk. *)
TextForURI_DiskFirst(u) == disk[PathOf[u]]

(* ... and the text its positions are converted with is looked up later,   *)
(* without any lock: None stands for the empty text of a file not there.   *)
TextForURI(u) == IF IsOpen(u) THEN docs[u] ELSE disk[PathOf[u]]

Reply ==
    /\ hpc = "query"
    /\ HandlerIdle
    /\ UNCHANGED <<envVars, docs, index, mu, scannerVars, events, missed>>

-----------------------------------------------------------------------------
(* The scanner *)

(* scanWorkspaces reads the setting once, when the goroutine runs. *)
ScanStart ==
    /\ scan = "new"
    /\ IF scanEnabled
       THEN scan' = "walk" /\ dirs' = RootDirs
       ELSE scan' = "disabled" /\ UNCHANGED dirs
    /\ UNCHANGED <<envVars, docs, index, mu, handlerVars, todo, visitVars, events, missed>>

(* WalkDir reads the names in a directory once, when it gets there; the    *)
(* files of its parents may still be unvisited.  Some directories it skips. *)
ScanList(d) ==
    /\ scan = "walk" /\ spc = "next" /\ d \in dirs
    /\ dirs' = dirs \ {d}
    /\ todo' = IF d \in SkippedDirs THEN todo
               ELSE todo \cup {f \in File : DirOf[f] = d /\ disk[f] # None}
    /\ UNCHANGED <<envVars, docs, index, mu, handlerVars, scan, visitVars, events, missed>>

(* The walk asks IsShellPath before it calls visit, without the lock. *)
ScanCheck(f) ==
    /\ scan = "walk" /\ spc = "next" /\ f \in todo
    /\ todo' = todo \ {f}
    /\ IF IsShellPath(f) THEN ScannerAt("visit", f, None) ELSE UNCHANGED visitVars
    /\ UNCHANGED <<envVars, docs, index, mu, handlerVars, scan, dirs, events, missed>>

(* Mutant: an open document is not left alone. *)
ScanVisit_Open ==
    /\ spc = "visit"
    /\ Acquire("scanner") /\ ScannerAt("read", sfile, None)
    /\ UNCHANGED <<envVars, docs, index, handlerVars, walkVars, events, missed>>

(* indexWorkspacePath: under the lock, leave an open document alone ... *)
ScanVisit ==
    /\ spc = "visit"
    /\ IF IsOpen(ServerUri[sfile])
       THEN mu = "free" /\ UNCHANGED mu /\ NextVisit
       ELSE Acquire("scanner") /\ ScannerAt("read", sfile, None)
    /\ UNCHANGED <<envVars, docs, index, handlerVars, walkVars, events, missed>>

(* Mutant: the lock covers the read, not the index write. *)
ScanRead_Unlocks ==
    /\ spc = "read"
    /\ Release
    /\ IF disk[sfile] = None
       THEN NextVisit /\ UNCHANGED missed
       ELSE ScannerAt("index", sfile, Parse(disk[sfile])) /\ missed' = missed \ {sfile}
    /\ UNCHANGED <<envVars, docs, index, handlerVars, walkVars, events>>

(* Mutant: the early return does not unlock. *)
ScanRead_KeepsLock ==
    /\ spc = "read"
    /\ UNCHANGED mu
    /\ IF disk[sfile] = None
       THEN NextVisit /\ UNCHANGED missed
       ELSE ScannerAt("index", sfile, Parse(disk[sfile])) /\ missed' = missed \ {sfile}
    /\ UNCHANGED <<envVars, docs, index, handlerVars, walkVars, events>>

(* ... read the file; if that fails what is indexed stays ... *)
ScanRead ==
    /\ spc = "read"
    /\ IF disk[sfile] = None
       THEN Release /\ NextVisit /\ UNCHANGED missed
       ELSE /\ ScannerAt("index", sfile, Parse(disk[sfile]))
            /\ missed' = missed \ {sfile} /\ UNCHANGED mu
    /\ UNCHANGED <<envVars, docs, index, handlerVars, walkVars, events>>

(* ... and index its tree. *)
ScanIndex ==
    /\ spc = "index"
    /\ AddOrReplace(ServerUri[sfile], stree)
    /\ Release /\ NextVisit
    /\ UNCHANGED <<envVars, docs, handlerVars, walkVars, events, missed>>

ScanDone ==
    /\ scan = "walk" /\ spc = "next" /\ dirs = {} /\ todo = {}
    /\ scan' = "done"
    /\ UNCHANGED <<envVars, docs, index, mu, handlerVars, dirs, todo, visitVars, events, missed>>

-----------------------------------------------------------------------------
(* The client and the machine *)

(* registerFileWatchers: from the client's answer on, it reports changes.  *)
RegisterFileWatchers ==
    /\ ~watching
    /\ watching' = TRUE
    /\ UNCHANGED <<disk, writes, scanEnabled, docs, index, mu, handlerVars, scannerVars,
                   events, missed>>

(* didChangeConfiguration takes no workspaceMu, and starts no new scan. *)
HandleDidChangeConfiguration ==
    /\ hpc = "idle"
    /\ scanEnabled' = ~scanEnabled
    /\ UNCHANGED <<disk, writes, watching, docs, index, mu, handlerVars, scannerVars,
                   events, missed>>

(* Any program writes, creates or deletes a file; the client's watcher sees *)
(* it, or nobody does and the path is missed.                              *)
WriteFile(f, t) ==
    /\ writes < MaxWrites
    /\ writes' = writes + 1
    /\ disk[f] # t
    /\ disk' = [disk EXCEPT ![f] = t]
    /\ IF watching
       THEN /\ events' = Append(events, [uri |-> ClientUri[f],
                                         type |-> IF t = None THEN "deleted" ELSE "changed"])
            /\ UNCHANGED missed
       ELSE missed' = missed \cup {f} /\ UNCHANGED events
    /\ UNCHANGED <<watching, scanEnabled, docs, index, mu, handlerVars, scannerVars>>

-----------------------------------------------------------------------------
Init ==
    /\ disk \in [File -> Text \cup {None}]
    /\ docs = [u \in Uri |-> None]
    /\ index = [u \in Uri |-> None]
    /\ scanEnabled \in BOOLEAN
    /\ mu = "free"
    /\ hpc = "idle" /\ huri = None /\ htree = None
    /\ scan = "new" /\ dirs = {} /\ todo = {}
    /\ spc = "next" /\ sfile = None /\ stree = None
    /\ watching = FALSE
    /\ events = <<>>
    /\ writes = 0
    /\ missed = {}

(* What the handler is told to do by the client's messages. *)
Notify ==
    \/ \E f \in File, t \in Text :
          OpenDocument(ClientUri[f], t) \/ UpdateDocument(ClientUri[f], t)
    \/ \E f \in File, t \in Text \cup {None} : SaveDocument(ClientUri[f], t)
    \/ \E f \in File : CloseDocument(ClientUri[f])
    \/ \E u \in Uri : ReachableUsages(u)
    \/ HandleDidChangeConfiguration

(* What it goes on to do once it has begun. *)
HandlerStep == CheckShellPath \/ ReadWorkspaceFile \/ IndexWrite \/ Reply

Walk ==
    \/ ScanStart
    \/ \E d \in Dir : ScanList(d)
    \/ \E f \in File : ScanCheck(f)
    \/ ScanDone

Visit == ScanVisit \/ ScanRead \/ ScanIndex

Environment ==
    \/ RegisterFileWatchers
    \/ \E f \in File, t \in Text \cup {None} : WriteFile(f, t)

Next ==
    \/ Notify \/ HandleDidChangeWatchedFiles \/ HandlerStep
    \/ Walk \/ Visit
    \/ Environment

Spec == Init /\ [][Next]_vars

(* Goroutines are scheduled.  workspaceMu is starvation free, so a goroutine *)
(* that waits for it gets it (strong fairness), and the connection delivers  *)
(* in order, so an event is handled before the messages that come after it.  *)
(* Nothing is assumed of what the client sends or of who writes the disk.    *)
Fairness ==
    /\ WF_vars(HandlerStep)
    /\ SF_vars(HandleDidChangeWatchedFiles)
    /\ WF_vars(Walk)
    /\ WF_vars(ScanRead \/ ScanIndex)
    /\ SF_vars(ScanVisit)

FairSpec == Spec /\ Fairness

-----------------------------------------------------------------------------
(* Properties *)

Change == [uri : {ClientUri[f] : f \in File}, type : {"changed", "deleted"}]

(* Every variable has its type; a tree is only indexed as a whole. *)
TypeOK ==
    /\ disk \in [File -> Text \cup {None}]
    /\ docs \in [Uri -> Text \cup {None}]
    /\ index \in [Uri -> Tree \cup {None}]
    /\ scanEnabled \in BOOLEAN /\ watching \in BOOLEAN
    /\ mu \in {"free", "handler", "scanner"}
    /\ hpc \in {"idle", "sync", "read", "index", "query"}
    /\ huri \in Uri \cup {None} /\ htree \in Tree \cup {None}
    /\ scan \in {"new", "walk", "done", "disabled"}
    /\ dirs \in SUBSET Dir /\ todo \in SUBSET File /\ missed \in SUBSET File
    /\ spc \in {"next", "visit", "read", "index"}
    /\ sfile \in File \cup {None} /\ stree \in Tree \cup {None}
    /\ events \in Seq(Change)
    /\ writes \in 0 .. MaxWrites

(* While a document is open the index holds the tree of its buffer: neither *)
(* the scanner nor a watched event puts the disk's text in its place.       *)
OpenBufferIndexed ==
    \A u \in Uri :
        IsOpen(u) /\ ~(hpc = "index" /\ huri = u) => index[u] = Parse(docs[u])

(* A closed document outside the workspace roots does not stay in the index *)
(* (didClose and the watched events look the path up in the roots).         *)
OutsideRootsForgotten ==
    \A u \in Uri :
        /\ ~InWorkspace(PathOf[u]) /\ ~IsOpen(u)
        /\ ~(hpc = "sync" /\ huri = u)
        => index[u] = None

(* A hit in an open document is converted with the text its tree was parsed *)
(* from (the comment of textForURI: "their text matches the indexed AST"),   *)
(* although the query holds no lock between the two look-ups.               *)
OpenHitMatchesText ==
    hpc = "query" /\ IsOpen(huri) => htree = Parse(TextForURI(huri))

(* The inductive invariant.  The lock is held exactly in the critical       *)
(* sections; what a section knows of its document when it has the lock      *)
(* stays true until it writes the index.                                    *)
LockDiscipline ==
    /\ mu = "handler" <=> hpc \in {"sync", "read", "index"}
    /\ mu = "scanner" <=> spc \in {"read", "index"}

HandlerSection ==
    /\ hpc \in {"sync", "read", "index", "query"} => huri \in Uri
    /\ hpc \in {"index", "query"} => htree \in Tree
    /\ hpc \in {"sync", "read"} => ~IsOpen(huri)
    /\ hpc = "read" => InWorkspace(PathOf[huri])
    /\ hpc = "index" => IF IsOpen(huri) THEN htree = Parse(docs[huri])
                                        ELSE InWorkspace(PathOf[huri])

ScannerSection ==
    /\ dirs \subseteq RootDirs
    /\ \A f \in todo : InWorkspace(f)
    /\ spc # "next" => sfile \in File /\ InWorkspace(sfile)
    /\ spc \in {"read", "index"} => ~IsOpen(ServerUri[sfile])
    /\ spc = "index" => stree \in Tree

(* Lock and critical sections as above, and the three properties they keep. *)
IInv ==
    /\ TypeOK
    /\ LockDiscipline /\ HandlerSection /\ ScannerSection
    /\ OpenBufferIndexed /\ OutsideRootsForgotten /\ OpenHitMatchesText

Settled == hpc = "idle" /\ events = <<>> /\ scan \in {"done", "disabled"}

(* The index of a closed document u agrees with the disk: it holds no other *)
(* text, and if the walk had to find a shell script there, it is there.     *)
AgreesWithDisk(u) ==
    LET f == PathOf[u] IN
    /\ index[u] # None => disk[f] # None /\ index[u] = Parse(disk[f])
    /\ (/\ scan = "done" /\ DirOf[f] \in RootDirs \ SkippedDirs
        /\ disk[f] # None /\ IsShellPath(f)) => index[u] = Parse(disk[f])

(* However scan, edits, closes, watched events and writes to the disk were  *)
(* interleaved: once the scan is over and all events are handled, the index *)
(* agrees with the disk on every closed document, but for the paths that    *)
(* changed while no watcher was registered and were not read again since.   *)
Converged ==
    Settled => \A f \in File \ missed : ~IsOpen(ServerUri[f]) => AgreesWithDisk(ServerUri[f])

(* A hit in a closed document may be converted with a text it was not parsed *)
(* from (the disk is read again), but only while the change is on its way:  *)
(* its event is not handled yet, the scanner is indexing the file or has     *)
(* done so since the hit was taken, or the change was missed.               *)
StaleHitExplained ==
    hpc = "query" /\ ~IsOpen(huri) /\ htree.text # TextForURI(huri) =>
        LET f == PathOf[huri] IN
        \/ f \in missed
        \/ sfile = f /\ spc = "index"
        \/ index[huri] # htree
        \/ \E i \in DOMAIN events : events[i].uri = huri

(* The operations under workspaceMu are atomic: to a query each looks like  *)
(* one step of IndexContract, taken when the file was read.                 *)
VisibleIndex ==
    [u \in Uri |->
        IF hpc \in {"sync", "read"} /\ huri = u THEN None
        ELSE IF hpc = "index" /\ huri = u THEN htree
        ELSE IF spc = "index" /\ ServerUri[sfile] = u THEN stree
        ELSE index[u]]

Contract == INSTANCE IndexContract WITH buffer <- docs, index <- VisibleIndex

(* Every behaviour of the server is one the index contract allows. *)
ImplementsContract == Contract!Spec

(* Writes to the disk stop (MaxWrites); then, whatever the client goes on    *)
(* sending, the scan ends and every event has been handled, for good.       *)
SettlesEventually == <>[](scan \in {"done", "disabled"} /\ events = <<>>)

(* What a test claims (TestWatchedFileRemovesExtensionlessScriptAfterShebang- *)
(* Removal): a file without extension leaves the index with its shebang.    *)
NonShellNotIndexed ==
    Settled => \A f \in File \ missed :
        ~IsOpen(ServerUri[f]) /\ ~IsShellPath(f) => index[ServerUri[f]] = None

=============================================================================
