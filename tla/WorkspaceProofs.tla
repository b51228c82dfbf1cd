-------------------------- MODULE WorkspaceProofs --------------------------
(***************************************************************************)
(* Proofs about Workspace: the invariant of its critical sections, what    *)
(* follows from it, that it implements IndexContract, that the index       *)
(* follows the disk, and that scanner and handler come to an end.          *)
(***************************************************************************)
EXTENDS Workspace, FiniteSetTheorems, TLAPS

(* A text parses to a tree, also when it has a syntax error. *)
LEMMA ParseTree ==
    ASSUME NEW t \in Text
    PROVE  Parse(t) \in Tree /\ Parse(t) # None
  <1> DEFINE p == t \in Broken
  <1>1. p \in BOOLEAN
    OBVIOUS
  <1>2. Parse(t) = [text |-> t, partial |-> p]
    BY DEF Parse
  <1> HIDE DEF p
  <1>3. [text |-> t, partial |-> p] \in Tree
    BY <1>1 DEF Tree
  <1> QED
    BY <1>2, <1>3, NoneAssumption

(* The invariant holds of a server that has just started ...              *)
LEMMA InitIInv == Init => IInv
  <1> SUFFICES ASSUME Init PROVE IInv
    OBVIOUS
  <1> USE DEF Init
  <1>1. TypeOK
    <2>1. <<>> \in Seq(Change)
      OBVIOUS
    <2>2. /\ docs \in [Uri -> Text \cup {None}]
          /\ index \in [Uri -> Tree \cup {None}]
      OBVIOUS
    <2>3. writes \in 0 .. MaxWrites
      BY BoundAssumption
    <2> QED
      BY <2>1, <2>2, <2>3 DEF TypeOK
  <1>2. LockDiscipline /\ HandlerSection /\ ScannerSection
    BY DEF LockDiscipline, HandlerSection, ScannerSection
  <1>3. OpenBufferIndexed /\ OutsideRootsForgotten /\ OpenHitMatchesText
    BY DEF OpenBufferIndexed, OutsideRootsForgotten, OpenHitMatchesText, IsOpen
  <1> QED
    BY <1>1, <1>2, <1>3 DEF IInv

-----------------------------------------------------------------------------
(* ... and each action preserves it.  Every proof has one step for the      *)
(* types and the lock (1), one for the two critical sections (2) and one    *)
(* for the three properties they keep (3).                                  *)

LEMMA StoreDocumentIInv ==
    ASSUME IInv, NEW u \in Uri, NEW t \in Text, StoreDocument(u, t)
    PROVE  IInv'
  <1> USE UriAssumption, TextAssumption, DirAssumption, NoneAssumption DEF IInv
  <1>a. Parse(t) \in Tree
    BY ParseTree
  <1>1. TypeOK'
    BY <1>a DEF TypeOK, StoreDocument, Acquire, HandlerAt, envVars, scannerVars, walkVars, visitVars
  <1>2. LockDiscipline' /\ HandlerSection' /\ ScannerSection'
    BY <1>a DEF TypeOK, LockDiscipline, HandlerSection, ScannerSection, IsOpen, InWorkspace, StoreDocument, Acquire, HandlerAt, envVars, scannerVars, walkVars, visitVars
  <1>3. OpenBufferIndexed' /\ OutsideRootsForgotten' /\ OpenHitMatchesText'
    BY <1>a DEF TypeOK, LockDiscipline, HandlerSection, ScannerSection, OpenBufferIndexed,
       OutsideRootsForgotten, OpenHitMatchesText, IsOpen, InWorkspace, TextForURI, StoreDocument, Acquire, HandlerAt, envVars, scannerVars, walkVars, visitVars
  <1> QED
    BY <1>1, <1>2, <1>3

LEMMA CloseDocumentIInv ==
    ASSUME IInv, NEW u \in Uri, CloseDocument(u)
    PROVE  IInv'
  <1> USE UriAssumption, TextAssumption, DirAssumption, NoneAssumption DEF IInv
  <1>1. TypeOK'
    BY DEF TypeOK, CloseDocument, Acquire, HandlerAt, envVars, scannerVars, walkVars, visitVars
  <1>2. LockDiscipline' /\ HandlerSection' /\ ScannerSection'
    BY DEF TypeOK, LockDiscipline, HandlerSection, ScannerSection, IsOpen, InWorkspace, CloseDocument, Acquire, HandlerAt, envVars, scannerVars, walkVars, visitVars
  <1>3. OpenBufferIndexed' /\ OutsideRootsForgotten' /\ OpenHitMatchesText'
    BY DEF TypeOK, LockDiscipline, HandlerSection, ScannerSection, OpenBufferIndexed,
       OutsideRootsForgotten, OpenHitMatchesText, IsOpen, InWorkspace, TextForURI, CloseDocument, Acquire, HandlerAt, envVars, scannerVars, walkVars, visitVars
  <1> QED
    BY <1>1, <1>2, <1>3

LEMMA CheckShellPathIInv ==
    ASSUME IInv, CheckShellPath
    PROVE  IInv'
  <1> USE UriAssumption, TextAssumption, DirAssumption, NoneAssumption DEF IInv
  <1>1. TypeOK'
    BY DEF TypeOK, CheckShellPath, Remove, Release, HandlerIdle, HandlerAt, envVars, scannerVars, walkVars, visitVars
  <1>2. LockDiscipline' /\ HandlerSection' /\ ScannerSection'
    BY DEF TypeOK, LockDiscipline, HandlerSection, ScannerSection, IsOpen, InWorkspace, CheckShellPath, Remove, Release, HandlerIdle, HandlerAt, envVars, scannerVars, walkVars, visitVars
  <1>3. OpenBufferIndexed' /\ OutsideRootsForgotten' /\ OpenHitMatchesText'
    BY DEF TypeOK, LockDiscipline, HandlerSection, ScannerSection, OpenBufferIndexed,
       OutsideRootsForgotten, OpenHitMatchesText, IsOpen, InWorkspace, TextForURI, CheckShellPath, Remove, Release, HandlerIdle, HandlerAt, envVars, scannerVars, walkVars, visitVars
  <1> QED
    BY <1>1, <1>2, <1>3

LEMMA ReadWorkspaceFileIInv ==
    ASSUME IInv, ReadWorkspaceFile
    PROVE  IInv'
  <1> USE UriAssumption, TextAssumption, DirAssumption, NoneAssumption DEF IInv
  <1>a. disk[PathOf[huri]] # None => Parse(disk[PathOf[huri]]) \in Tree
    BY ParseTree DEF TypeOK, HandlerSection, ReadWorkspaceFile
  <1>1. TypeOK'
    BY <1>a DEF TypeOK, ReadWorkspaceFile, Remove, Release, HandlerIdle, HandlerAt, envVars, scannerVars, walkVars, visitVars
  <1>2. LockDiscipline' /\ HandlerSection' /\ ScannerSection'
    BY <1>a DEF TypeOK, LockDiscipline, HandlerSection, ScannerSection, IsOpen, InWorkspace, ReadWorkspaceFile, Remove, Release, HandlerIdle, HandlerAt, envVars, scannerVars, walkVars, visitVars
  <1>3. OpenBufferIndexed' /\ OutsideRootsForgotten' /\ OpenHitMatchesText'
    BY <1>a DEF TypeOK, LockDiscipline, HandlerSection, ScannerSection, OpenBufferIndexed,
       OutsideRootsForgotten, OpenHitMatchesText, IsOpen, InWorkspace, TextForURI, ReadWorkspaceFile, Remove, Release, HandlerIdle, HandlerAt, envVars, scannerVars, walkVars, visitVars
  <1> QED
    BY <1>1, <1>2, <1>3

LEMMA IndexWriteIInv ==
    ASSUME IInv, IndexWrite
    PROVE  IInv'
  <1> USE UriAssumption, TextAssumption, DirAssumption, NoneAssumption DEF IInv
  <1>1. TypeOK'
    BY DEF TypeOK, IndexWrite, AddOrReplace, Release, HandlerIdle, envVars, scannerVars, walkVars, visitVars
  <1>2. LockDiscipline' /\ HandlerSection' /\ ScannerSection'
    BY DEF TypeOK, LockDiscipline, HandlerSection, ScannerSection, IsOpen, InWorkspace, IndexWrite, AddOrReplace, Release, HandlerIdle, envVars, scannerVars, walkVars, visitVars
  <1>3. OpenBufferIndexed' /\ OutsideRootsForgotten' /\ OpenHitMatchesText'
    BY DEF TypeOK, LockDiscipline, HandlerSection, ScannerSection, OpenBufferIndexed,
       OutsideRootsForgotten, OpenHitMatchesText, IsOpen, InWorkspace, TextForURI, IndexWrite, AddOrReplace, Release, HandlerIdle, envVars, scannerVars, walkVars, visitVars
  <1> QED
    BY <1>1, <1>2, <1>3

LEMMA HandleDidChangeWatchedFilesIInv ==
    ASSUME IInv, HandleDidChangeWatchedFiles
    PROVE  IInv'
  <1> USE UriAssumption, TextAssumption, DirAssumption, NoneAssumption DEF IInv
  <1> DEFINE u == Head(events).uri
  <1>1. u \in Uri /\ Tail(events) \in Seq(Change)
    <2>1. events \in Seq(Change) /\ events # <<>>
      BY DEF TypeOK, HandleDidChangeWatchedFiles
    <2>2. Head(events) \in Change /\ Tail(events) \in Seq(Change)
      BY <2>1
    <2> QED
      BY <2>2 DEF Change
  <1>2. hpc = "idle" /\ mu = "free" /\ events' = Tail(events)
    BY DEF HandleDidChangeWatchedFiles
  <1>3. IgnoreOpenFile(u) \/ RefreshWorkspaceFile(u) \/ RemoveWorkspaceFile(u)
    BY DEF HandleDidChangeWatchedFiles
  <1> HIDE DEF u
  <1>4. CASE IgnoreOpenFile(u)
    <2>1. TypeOK'
      BY <1>1, <1>2, <1>4 DEF TypeOK, IgnoreOpenFile, envVars, handlerVars, scannerVars, walkVars, visitVars
    <2>2. LockDiscipline' /\ HandlerSection' /\ ScannerSection'
      BY <1>1, <1>2, <1>4 DEF TypeOK, LockDiscipline, HandlerSection, ScannerSection, IsOpen, InWorkspace,
         IgnoreOpenFile, envVars, handlerVars, scannerVars, walkVars, visitVars
    <2>3. OpenBufferIndexed' /\ OutsideRootsForgotten' /\ OpenHitMatchesText'
      BY <1>1, <1>2, <1>4 DEF TypeOK, LockDiscipline, HandlerSection, ScannerSection, OpenBufferIndexed,
         OutsideRootsForgotten, OpenHitMatchesText, IsOpen, InWorkspace, TextForURI,
         IgnoreOpenFile, envVars, handlerVars, scannerVars, walkVars, visitVars
    <2> QED
      BY <2>1, <2>2, <2>3
  <1>5. CASE RefreshWorkspaceFile(u)
    <2>1. TypeOK'
      BY <1>1, <1>2, <1>5 DEF TypeOK, RefreshWorkspaceFile, HandlerAt, envVars, scannerVars, walkVars, visitVars
    <2>2. LockDiscipline' /\ HandlerSection' /\ ScannerSection'
      BY <1>1, <1>2, <1>5 DEF TypeOK, LockDiscipline, HandlerSection, ScannerSection, IsOpen, InWorkspace,
         RefreshWorkspaceFile, HandlerAt, envVars, scannerVars, walkVars, visitVars
    <2>3. OpenBufferIndexed' /\ OutsideRootsForgotten' /\ OpenHitMatchesText'
      BY <1>1, <1>2, <1>5 DEF TypeOK, LockDiscipline, HandlerSection, ScannerSection, OpenBufferIndexed,
         OutsideRootsForgotten, OpenHitMatchesText, IsOpen, InWorkspace, TextForURI,
         RefreshWorkspaceFile, HandlerAt, envVars, scannerVars, walkVars, visitVars
    <2> QED
      BY <2>1, <2>2, <2>3
  <1>6. CASE RemoveWorkspaceFile(u)
    <2>1. TypeOK'
      <3>1. index' \in [Uri -> Tree \cup {None}]
        <4>1. index \in [Uri -> Tree \cup {None}]
          BY DEF TypeOK
        <4>2. index' = [index EXCEPT ![u] = None] \/ index' = index
          BY <1>6 DEF RemoveWorkspaceFile, Remove
        <4> QED
          BY ONLY <4>1, <4>2, <1>1
      <3> QED
        BY <1>1, <1>2, <1>6, <3>1 DEF TypeOK, RemoveWorkspaceFile, envVars, handlerVars, scannerVars, walkVars, visitVars
    <2>2. LockDiscipline' /\ HandlerSection' /\ ScannerSection'
      BY <1>1, <1>2, <1>6 DEF TypeOK, LockDiscipline, HandlerSection, ScannerSection, IsOpen, InWorkspace,
         RemoveWorkspaceFile, Remove, envVars, handlerVars, scannerVars, walkVars, visitVars
    <2>3. OpenBufferIndexed' /\ OutsideRootsForgotten' /\ OpenHitMatchesText'
      BY <1>1, <1>2, <1>6 DEF TypeOK, LockDiscipline, HandlerSection, ScannerSection, OpenBufferIndexed,
         OutsideRootsForgotten, OpenHitMatchesText, IsOpen, InWorkspace, TextForURI,
         RemoveWorkspaceFile, Remove, envVars, handlerVars, scannerVars, walkVars, visitVars
    <2> QED
      BY <2>1, <2>2, <2>3
  <1> QED
    BY <1>3, <1>4, <1>5, <1>6

LEMMA ReachableUsagesIInv ==
    ASSUME IInv, NEW u \in Uri, ReachableUsages(u)
    PROVE  IInv'
  <1> USE UriAssumption, TextAssumption, DirAssumption, NoneAssumption DEF IInv
  <1>1. TypeOK'
    BY DEF TypeOK, ReachableUsages, HandlerAt, envVars, scannerVars, walkVars, visitVars
  <1>2. LockDiscipline' /\ HandlerSection' /\ ScannerSection'
    BY DEF TypeOK, LockDiscipline, HandlerSection, ScannerSection, IsOpen, InWorkspace, ReachableUsages, HandlerAt, envVars, scannerVars, walkVars, visitVars
  <1>3. OpenBufferIndexed' /\ OutsideRootsForgotten' /\ OpenHitMatchesText'
    BY DEF TypeOK, LockDiscipline, HandlerSection, ScannerSection, OpenBufferIndexed,
       OutsideRootsForgotten, OpenHitMatchesText, IsOpen, InWorkspace, TextForURI, ReachableUsages, HandlerAt, envVars, scannerVars, walkVars, visitVars
  <1> QED
    BY <1>1, <1>2, <1>3

LEMMA ReplyIInv ==
    ASSUME IInv, Reply
    PROVE  IInv'
  <1> USE UriAssumption, TextAssumption, DirAssumption, NoneAssumption DEF IInv
  <1>1. TypeOK'
    BY DEF TypeOK, Reply, HandlerIdle, envVars, scannerVars, walkVars, visitVars
  <1>2. LockDiscipline' /\ HandlerSection' /\ ScannerSection'
    BY DEF TypeOK, LockDiscipline, HandlerSection, ScannerSection, IsOpen, InWorkspace, Reply, HandlerIdle, envVars, scannerVars, walkVars, visitVars
  <1>3. OpenBufferIndexed' /\ OutsideRootsForgotten' /\ OpenHitMatchesText'
    BY DEF TypeOK, LockDiscipline, HandlerSection, ScannerSection, OpenBufferIndexed,
       OutsideRootsForgotten, OpenHitMatchesText, IsOpen, InWorkspace, TextForURI, Reply, HandlerIdle, envVars, scannerVars, walkVars, visitVars
  <1> QED
    BY <1>1, <1>2, <1>3

LEMMA ScanStartIInv ==
    ASSUME IInv, ScanStart
    PROVE  IInv'
  <1> USE UriAssumption, TextAssumption, DirAssumption, NoneAssumption DEF IInv
  <1>1. TypeOK'
    BY DEF TypeOK, ScanStart, envVars, handlerVars, visitVars
  <1>2. LockDiscipline' /\ HandlerSection' /\ ScannerSection'
    BY DEF TypeOK, LockDiscipline, HandlerSection, ScannerSection, IsOpen, InWorkspace, ScanStart, envVars, handlerVars, visitVars
  <1>3. OpenBufferIndexed' /\ OutsideRootsForgotten' /\ OpenHitMatchesText'
    BY DEF TypeOK, LockDiscipline, HandlerSection, ScannerSection, OpenBufferIndexed,
       OutsideRootsForgotten, OpenHitMatchesText, IsOpen, InWorkspace, TextForURI, ScanStart, envVars, handlerVars, visitVars
  <1> QED
    BY <1>1, <1>2, <1>3

LEMMA ScanListIInv ==
    ASSUME IInv, NEW d \in Dir, ScanList(d)
    PROVE  IInv'
  <1> USE UriAssumption, TextAssumption, DirAssumption, NoneAssumption DEF IInv
  <1>1. TypeOK'
    BY DEF TypeOK, ScanList, envVars, handlerVars, visitVars
  <1>2. LockDiscipline' /\ HandlerSection' /\ ScannerSection'
    BY DEF TypeOK, LockDiscipline, HandlerSection, ScannerSection, IsOpen, InWorkspace, ScanList, envVars, handlerVars, visitVars
  <1>3. OpenBufferIndexed' /\ OutsideRootsForgotten' /\ OpenHitMatchesText'
    BY DEF TypeOK, LockDiscipline, HandlerSection, ScannerSection, OpenBufferIndexed,
       OutsideRootsForgotten, OpenHitMatchesText, IsOpen, InWorkspace, TextForURI, ScanList, envVars, handlerVars, visitVars
  <1> QED
    BY <1>1, <1>2, <1>3

LEMMA ScanCheckIInv ==
    ASSUME IInv, NEW f \in File, ScanCheck(f)
    PROVE  IInv'
  <1> USE UriAssumption, TextAssumption, DirAssumption, NoneAssumption DEF IInv
  <1>1. TypeOK'
    BY DEF TypeOK, ScanCheck, ScannerAt, envVars, handlerVars, visitVars
  <1>2. LockDiscipline' /\ HandlerSection' /\ ScannerSection'
    BY DEF TypeOK, LockDiscipline, HandlerSection, ScannerSection, IsOpen, InWorkspace, ScanCheck, ScannerAt, envVars, handlerVars, visitVars
  <1>3. OpenBufferIndexed' /\ OutsideRootsForgotten' /\ OpenHitMatchesText'
    BY DEF TypeOK, LockDiscipline, HandlerSection, ScannerSection, OpenBufferIndexed,
       OutsideRootsForgotten, OpenHitMatchesText, IsOpen, InWorkspace, TextForURI, ScanCheck, ScannerAt, envVars, handlerVars, visitVars
  <1> QED
    BY <1>1, <1>2, <1>3

LEMMA ScanVisitIInv ==
    ASSUME IInv, ScanVisit
    PROVE  IInv'
  <1> USE UriAssumption, TextAssumption, DirAssumption, NoneAssumption DEF IInv
  <1>1. TypeOK'
    BY DEF TypeOK, ScanVisit, Acquire, NextVisit, ScannerAt, envVars, handlerVars, walkVars
  <1>2. LockDiscipline' /\ HandlerSection' /\ ScannerSection'
    BY DEF TypeOK, LockDiscipline, HandlerSection, ScannerSection, IsOpen, InWorkspace, ScanVisit, Acquire, NextVisit, ScannerAt, envVars, handlerVars, walkVars
  <1>3. OpenBufferIndexed' /\ OutsideRootsForgotten' /\ OpenHitMatchesText'
    BY DEF TypeOK, LockDiscipline, HandlerSection, ScannerSection, OpenBufferIndexed,
       OutsideRootsForgotten, OpenHitMatchesText, IsOpen, InWorkspace, TextForURI, ScanVisit, Acquire, NextVisit, ScannerAt, envVars, handlerVars, walkVars
  <1> QED
    BY <1>1, <1>2, <1>3

LEMMA ScanReadIInv ==
    ASSUME IInv, ScanRead
    PROVE  IInv'
  <1> USE UriAssumption, TextAssumption, DirAssumption, NoneAssumption DEF IInv
  <1>a. disk[sfile] # None => Parse(disk[sfile]) \in Tree
    BY ParseTree DEF TypeOK, ScannerSection, ScanRead
  <1>1. TypeOK'
    BY <1>a DEF TypeOK, ScanRead, Release, NextVisit, ScannerAt, envVars, handlerVars, walkVars
  <1>2. LockDiscipline' /\ HandlerSection' /\ ScannerSection'
    BY <1>a DEF TypeOK, LockDiscipline, HandlerSection, ScannerSection, IsOpen, InWorkspace, ScanRead, Release, NextVisit, ScannerAt, envVars, handlerVars, walkVars
  <1>3. OpenBufferIndexed' /\ OutsideRootsForgotten' /\ OpenHitMatchesText'
    BY <1>a DEF TypeOK, LockDiscipline, HandlerSection, ScannerSection, OpenBufferIndexed,
       OutsideRootsForgotten, OpenHitMatchesText, IsOpen, InWorkspace, TextForURI, ScanRead, Release, NextVisit, ScannerAt, envVars, handlerVars, walkVars
  <1> QED
    BY <1>1, <1>2, <1>3

LEMMA ScanIndexIInv ==
    ASSUME IInv, ScanIndex
    PROVE  IInv'
  <1> USE UriAssumption, TextAssumption, DirAssumption, NoneAssumption DEF IInv
  <1>1. TypeOK'
    BY DEF TypeOK, ScanIndex, AddOrReplace, Release, NextVisit, envVars, handlerVars, walkVars
  <1>2. LockDiscipline' /\ HandlerSection' /\ ScannerSection'
    BY DEF TypeOK, LockDiscipline, HandlerSection, ScannerSection, IsOpen, InWorkspace, ScanIndex, AddOrReplace, Release, NextVisit, envVars, handlerVars, walkVars
  <1>3. OpenBufferIndexed' /\ OutsideRootsForgotten' /\ OpenHitMatchesText'
    BY DEF TypeOK, LockDiscipline, HandlerSection, ScannerSection, OpenBufferIndexed,
       OutsideRootsForgotten, OpenHitMatchesText, IsOpen, InWorkspace, TextForURI, ScanIndex, AddOrReplace, Release, NextVisit, envVars, handlerVars, walkVars
  <1> QED
    BY <1>1, <1>2, <1>3

LEMMA ScanDoneIInv ==
    ASSUME IInv, ScanDone
    PROVE  IInv'
  <1> USE UriAssumption, TextAssumption, DirAssumption, NoneAssumption DEF IInv
  <1>1. TypeOK'
    BY DEF TypeOK, ScanDone, envVars, handlerVars, visitVars
  <1>2. LockDiscipline' /\ HandlerSection' /\ ScannerSection'
    BY DEF TypeOK, LockDiscipline, HandlerSection, ScannerSection, IsOpen, InWorkspace, ScanDone, envVars, handlerVars, visitVars
  <1>3. OpenBufferIndexed' /\ OutsideRootsForgotten' /\ OpenHitMatchesText'
    BY DEF TypeOK, LockDiscipline, HandlerSection, ScannerSection, OpenBufferIndexed,
       OutsideRootsForgotten, OpenHitMatchesText, IsOpen, InWorkspace, TextForURI, ScanDone, envVars, handlerVars, visitVars
  <1> QED
    BY <1>1, <1>2, <1>3

LEMMA RegisterFileWatchersIInv ==
    ASSUME IInv, RegisterFileWatchers
    PROVE  IInv'
  <1> USE UriAssumption, TextAssumption, DirAssumption, NoneAssumption DEF IInv
  <1>1. TypeOK'
    BY DEF TypeOK, RegisterFileWatchers, handlerVars, scannerVars, walkVars, visitVars
  <1>2. LockDiscipline' /\ HandlerSection' /\ ScannerSection'
    BY DEF TypeOK, LockDiscipline, HandlerSection, ScannerSection, IsOpen, InWorkspace, RegisterFileWatchers, handlerVars, scannerVars, walkVars, visitVars
  <1>3. OpenBufferIndexed' /\ OutsideRootsForgotten' /\ OpenHitMatchesText'
    BY DEF TypeOK, LockDiscipline, HandlerSection, ScannerSection, OpenBufferIndexed,
       OutsideRootsForgotten, OpenHitMatchesText, IsOpen, InWorkspace, TextForURI, RegisterFileWatchers, handlerVars, scannerVars, walkVars, visitVars
  <1> QED
    BY <1>1, <1>2, <1>3

LEMMA HandleDidChangeConfigurationIInv ==
    ASSUME IInv, HandleDidChangeConfiguration
    PROVE  IInv'
  <1> USE UriAssumption, TextAssumption, DirAssumption, NoneAssumption DEF IInv
  <1>1. TypeOK'
    BY DEF TypeOK, HandleDidChangeConfiguration, handlerVars, scannerVars, walkVars, visitVars
  <1>2. LockDiscipline' /\ HandlerSection' /\ ScannerSection'
    BY DEF TypeOK, LockDiscipline, HandlerSection, ScannerSection, IsOpen, InWorkspace, HandleDidChangeConfiguration, handlerVars, scannerVars, walkVars, visitVars
  <1>3. OpenBufferIndexed' /\ OutsideRootsForgotten' /\ OpenHitMatchesText'
    BY DEF TypeOK, LockDiscipline, HandlerSection, ScannerSection, OpenBufferIndexed,
       OutsideRootsForgotten, OpenHitMatchesText, IsOpen, InWorkspace, TextForURI, HandleDidChangeConfiguration, handlerVars, scannerVars, walkVars, visitVars
  <1> QED
    BY <1>1, <1>2, <1>3

LEMMA WriteFileIInv ==
    ASSUME IInv, NEW f \in File, NEW t \in Text \cup {None}, WriteFile(f, t)
    PROVE  IInv'
  <1> USE UriAssumption, TextAssumption, DirAssumption, NoneAssumption DEF IInv
  <1>a. /\ events' \in Seq(Change)
        /\ writes' \in 0 .. MaxWrites
    <2> DEFINE change == [uri |-> ClientUri[f],
                          type |-> IF t = None THEN "deleted" ELSE "changed"]
    <2>1. change \in Change
      <3>1. ClientUri[f] \in {ClientUri[g] : g \in File}
        OBVIOUS
      <3>2. (IF t = None THEN "deleted" ELSE "changed") \in {"changed", "deleted"}
        OBVIOUS
      <3> QED
        BY <3>1, <3>2 DEF Change
    <2>2. events' \in Seq(Change)
      <3>1. events' = Append(events, change) \/ events' = events
        BY DEF WriteFile
      <3>2. events \in Seq(Change)
        BY DEF TypeOK
      <3> HIDE DEF change
      <3> QED
        BY <2>1, <3>1, <3>2
    <2>3. writes' \in 0 .. MaxWrites
      BY BoundAssumption DEF TypeOK, WriteFile
    <2> QED
      BY <2>2, <2>3
  <1>1. TypeOK'
    BY <1>a DEF TypeOK, WriteFile, handlerVars, scannerVars, walkVars, visitVars
  <1>2. LockDiscipline' /\ HandlerSection' /\ ScannerSection'
    BY <1>a DEF TypeOK, LockDiscipline, HandlerSection, ScannerSection, IsOpen, InWorkspace, WriteFile, handlerVars, scannerVars, walkVars, visitVars
  <1>3. OpenBufferIndexed' /\ OutsideRootsForgotten' /\ OpenHitMatchesText'
    BY <1>a DEF TypeOK, LockDiscipline, HandlerSection, ScannerSection, OpenBufferIndexed,
       OutsideRootsForgotten, OpenHitMatchesText, IsOpen, InWorkspace, TextForURI, WriteFile, handlerVars, scannerVars, walkVars, visitVars
  <1> QED
    BY <1>1, <1>2, <1>3

LEMMA StutterIInv ==
    ASSUME IInv, UNCHANGED vars
    PROVE  IInv'
  <1> USE UriAssumption, TextAssumption, DirAssumption, NoneAssumption DEF IInv
  <1>1. TypeOK'
    BY DEF TypeOK, vars, envVars, handlerVars, scannerVars, walkVars, visitVars
  <1>2. LockDiscipline' /\ HandlerSection' /\ ScannerSection'
    BY DEF TypeOK, LockDiscipline, HandlerSection, ScannerSection, IsOpen, InWorkspace, vars, envVars, handlerVars, scannerVars, walkVars, visitVars
  <1>3. OpenBufferIndexed' /\ OutsideRootsForgotten' /\ OpenHitMatchesText'
    BY DEF TypeOK, LockDiscipline, HandlerSection, ScannerSection, OpenBufferIndexed,
       OutsideRootsForgotten, OpenHitMatchesText, IsOpen, InWorkspace, TextForURI, vars, envVars, handlerVars, scannerVars, walkVars, visitVars
  <1> QED
    BY <1>1, <1>2, <1>3

-----------------------------------------------------------------------------
(* Every step, also one that changes nothing, preserves the invariant. *)
LEMMA NextIInv ==
    ASSUME IInv, [Next]_vars
    PROVE  IInv'
  <1> USE UriAssumption
  <1>1. CASE Notify
    <2>1. CASE \E f \in File, t \in Text :
                  OpenDocument(ClientUri[f], t) \/ UpdateDocument(ClientUri[f], t)
      BY <2>1, StoreDocumentIInv DEF OpenDocument, UpdateDocument
    <2>2. ASSUME NEW f \in File, NEW t \in Text \cup {None}, SaveDocument(ClientUri[f], t)
          PROVE  IInv'
      <3>1. (IF t = None THEN docs[ClientUri[f]] ELSE t) \in Text
        BY <2>2 DEF SaveDocument, IsOpen, IInv, TypeOK
      <3> QED
        BY <2>2, <3>1, StoreDocumentIInv DEF SaveDocument
    <2>3. ASSUME NEW f \in File, CloseDocument(ClientUri[f])
          PROVE  IInv'
      BY <2>3, CloseDocumentIInv
    <2> QED
      BY <1>1, <2>1, <2>2, <2>3, ReachableUsagesIInv, HandleDidChangeConfigurationIInv
         DEF Notify
  <1>2. CASE HandleDidChangeWatchedFiles
    BY <1>2, HandleDidChangeWatchedFilesIInv
  <1>3. CASE HandlerStep
    BY <1>3, CheckShellPathIInv, ReadWorkspaceFileIInv, IndexWriteIInv, ReplyIInv
       DEF HandlerStep
  <1>4. CASE Walk
    BY <1>4, ScanStartIInv, ScanListIInv, ScanCheckIInv, ScanDoneIInv DEF Walk
  <1>5. CASE Visit
    BY <1>5, ScanVisitIInv, ScanReadIInv, ScanIndexIInv DEF Visit
  <1>6. CASE Environment
    BY <1>6, RegisterFileWatchersIInv, WriteFileIInv DEF Environment
  <1>7. CASE UNCHANGED vars
    BY <1>7, StutterIInv
  <1> QED
    BY <1>1, <1>2, <1>3, <1>4, <1>5, <1>6, <1>7 DEF Next

(* In every reachable state the lock is held exactly in the critical        *)
(* sections, and what they know of their document is true.                  *)
THEOREM Invariance == Spec => []IInv
  BY InitIInv, NextIInv, PTL DEF Spec

(* Every variable keeps its type, whatever the files, texts and roots are. *)
THEOREM TypeCorrect == Spec => []TypeOK
  <1>1. IInv => TypeOK
    BY DEF IInv
  <1> QED
    BY <1>1, Invariance, PTL

(* No interleaving of the scan, the watched events and the disk puts another *)
(* tree in the place of an open buffer's.                                   *)
THEOREM OpenBuffersStayIndexed == Spec => []OpenBufferIndexed
  <1>1. IInv => OpenBufferIndexed
    BY DEF IInv
  <1> QED
    BY <1>1, Invariance, PTL

(* A closed document outside the workspace roots is not in the index. *)
THEOREM OutsidersAreForgotten == Spec => []OutsideRootsForgotten
  <1>1. IInv => OutsideRootsForgotten
    BY DEF IInv
  <1> QED
    BY <1>1, Invariance, PTL

(* A query's two unlocked look-ups agree on an open document. *)
THEOREM OpenHitsMatchText == Spec => []OpenHitMatchesText
  <1>1. IInv => OpenHitMatchesText
    BY DEF IInv
  <1> QED
    BY <1>1, Invariance, PTL

-----------------------------------------------------------------------------
(* Workspace implements IndexContract: each action is one step of the       *)
(* contract on (disk, docs, VisibleIndex), or leaves the three unchanged.   *)

LEMMA InitContract == Init => Contract!Init
  BY DEF Init, Contract!Init, VisibleIndex

LEMMA StoreDocumentContract ==
    ASSUME IInv, NEW u \in Uri, NEW t \in Text, StoreDocument(u, t)
    PROVE  Contract!Edit(u, t)
  BY DEF Contract!Edit, VisibleIndex, IInv, TypeOK, LockDiscipline,
         StoreDocument, Acquire, HandlerAt, envVars, scannerVars, visitVars

LEMMA CloseDocumentContract ==
    ASSUME IInv, NEW u \in Uri, CloseDocument(u)
    PROVE  Contract!Close(u)
  BY DEF Contract!Close, VisibleIndex, IInv, TypeOK, LockDiscipline, IsOpen,
         CloseDocument, Acquire, HandlerAt, envVars, scannerVars, visitVars

LEMMA CheckShellPathContract ==
    ASSUME IInv, CheckShellPath
    PROVE  UNCHANGED Contract!vars
  BY DEF Contract!vars, VisibleIndex, IInv, TypeOK, LockDiscipline, HandlerSection,
         CheckShellPath, Remove, Release, HandlerIdle, HandlerAt, envVars, scannerVars, visitVars

LEMMA ReadWorkspaceFileContract ==
    ASSUME IInv, ReadWorkspaceFile
    PROVE  Contract!Sync(huri) \/ UNCHANGED Contract!vars
  BY DEF Contract!Sync, Contract!vars, VisibleIndex, IInv, TypeOK, LockDiscipline, HandlerSection,
         IsOpen, ReadWorkspaceFile, Remove, Release, HandlerIdle, HandlerAt,
         envVars, scannerVars, visitVars

LEMMA IndexWriteContract ==
    ASSUME IInv, IndexWrite
    PROVE  UNCHANGED Contract!vars
  BY DEF Contract!vars, VisibleIndex, IInv, TypeOK, LockDiscipline, HandlerSection,
         IndexWrite, AddOrReplace, Release, HandlerIdle, envVars, scannerVars, visitVars

LEMMA HandleDidChangeWatchedFilesContract ==
    ASSUME IInv, HandleDidChangeWatchedFiles
    PROVE  Contract!Drop(Head(events).uri) \/ UNCHANGED Contract!vars
  BY DEF Contract!Drop, Contract!vars, VisibleIndex, IInv, TypeOK, LockDiscipline, IsOpen,
         HandleDidChangeWatchedFiles, IgnoreOpenFile, RefreshWorkspaceFile,
         RemoveWorkspaceFile, Remove, HandlerAt, envVars, handlerVars, scannerVars, visitVars

LEMMA ScanReadContract ==
    ASSUME IInv, ScanRead
    PROVE  Contract!Sync(ServerUri[sfile]) \/ UNCHANGED Contract!vars
  BY UriAssumption
     DEF Contract!Sync, Contract!vars, VisibleIndex, IInv, TypeOK, LockDiscipline, ScannerSection,
         IsOpen, ScanRead, Release, NextVisit, ScannerAt, envVars, handlerVars

LEMMA ScanIndexContract ==
    ASSUME IInv, ScanIndex
    PROVE  UNCHANGED Contract!vars
  BY UriAssumption
     DEF Contract!vars, VisibleIndex, IInv, TypeOK, LockDiscipline, ScannerSection,
         ScanIndex, AddOrReplace, Release, NextVisit, envVars, handlerVars

(* The other steps of the handler, the scanner and the environment. *)
LEMMA OtherStepContract ==
    ASSUME IInv,
           \/ \E u \in Uri : ReachableUsages(u)
           \/ Reply \/ HandleDidChangeConfiguration \/ RegisterFileWatchers
           \/ Walk \/ ScanVisit \/ UNCHANGED vars
    PROVE  UNCHANGED Contract!vars
  <1> USE DEF Contract!vars, VisibleIndex, IInv, TypeOK, LockDiscipline, envVars
  <1>1. CASE (\E u \in Uri : ReachableUsages(u)) \/ Reply
    BY <1>1 DEF ReachableUsages, Reply, HandlerAt, HandlerIdle, scannerVars, visitVars
  <1>2. CASE HandleDidChangeConfiguration \/ RegisterFileWatchers \/ UNCHANGED vars
    BY <1>2 DEF HandleDidChangeConfiguration, RegisterFileWatchers, vars,
                handlerVars, scannerVars, visitVars
  <1>3. CASE ScanStart \/ (\E d \in Dir : ScanList(d)) \/ ScanDone
    BY <1>3 DEF ScanStart, ScanList, ScanDone, handlerVars, visitVars
  <1>4. CASE \E f \in File : ScanCheck(f)
    BY <1>4 DEF ScanCheck, ScannerAt, handlerVars, visitVars
  <1>5. CASE ScanVisit
    BY <1>5 DEF ScanVisit, Acquire, NextVisit, ScannerAt, handlerVars
  <1> QED
    BY <1>1, <1>2, <1>3, <1>4, <1>5 DEF Walk

LEMMA WriteFileContract ==
    ASSUME IInv, NEW f \in File, NEW t \in Text \cup {None}, WriteFile(f, t)
    PROVE  Contract!DiskWrite(f, t)
  BY DEF Contract!DiskWrite, VisibleIndex, WriteFile, handlerVars, scannerVars, visitVars

LEMMA NextContract ==
    ASSUME IInv, [Next]_vars
    PROVE  [Contract!Next]_(Contract!vars)
  <1> USE UriAssumption
  <1> USE DEF Contract!Next
  <1>1. CASE Notify
    <2>1. CASE \E f \in File, t \in Text :
                  OpenDocument(ClientUri[f], t) \/ UpdateDocument(ClientUri[f], t)
      BY <2>1, StoreDocumentContract DEF OpenDocument, UpdateDocument
    <2>2. ASSUME NEW f \in File, NEW t \in Text \cup {None}, SaveDocument(ClientUri[f], t)
          PROVE  Contract!Next
      <3>1. (IF t = None THEN docs[ClientUri[f]] ELSE t) \in Text
        BY <2>2 DEF SaveDocument, IsOpen, IInv, TypeOK
      <3> QED
        BY <2>2, <3>1, StoreDocumentContract DEF SaveDocument
    <2>3. ASSUME NEW f \in File, CloseDocument(ClientUri[f])
          PROVE  Contract!Next
      BY <2>3, CloseDocumentContract
    <2> QED
      BY <1>1, <2>1, <2>2, <2>3, OtherStepContract DEF Notify
  <1>2. CASE HandleDidChangeWatchedFiles
    <2>1. Head(events).uri \in Uri
      <3>1. events \in Seq(Change) /\ events # <<>>
        BY <1>2 DEF IInv, TypeOK, HandleDidChangeWatchedFiles
      <3>2. Head(events) \in Change
        BY <3>1
      <3> QED
        BY <3>2 DEF Change
    <2> QED
      BY <1>2, <2>1, HandleDidChangeWatchedFilesContract
  <1>3. CASE HandlerStep
    <2>1. CASE ReadWorkspaceFile
      <3>1. huri \in Uri
        BY <2>1 DEF IInv, HandlerSection, ReadWorkspaceFile
      <3> QED
        BY <2>1, <3>1, ReadWorkspaceFileContract
    <2> QED
      BY <1>3, <2>1, CheckShellPathContract, IndexWriteContract, OtherStepContract
         DEF HandlerStep
  <1>4. CASE Walk \/ UNCHANGED vars
    BY <1>4, OtherStepContract
  <1>5. CASE Visit
    <2>1. CASE ScanRead
      <3>1. ServerUri[sfile] \in Uri
        BY <2>1 DEF IInv, ScannerSection, ScanRead
      <3> QED
        BY <2>1, <3>1, ScanReadContract
    <2> QED
      BY <1>5, <2>1, ScanIndexContract, OtherStepContract DEF Visit
  <1>6. CASE Environment
    BY <1>6, WriteFileContract, OtherStepContract DEF Environment
  <1> QED
    BY <1>1, <1>2, <1>3, <1>4, <1>5, <1>6 DEF Next

(* The locked read-then-write sequences of the handler and of the scanner   *)
(* are atomic steps of IndexContract, for any set of files and texts.       *)
THEOREM Refinement == Spec => ImplementsContract
  BY InitContract, NextContract, Invariance, PTL DEF Spec, ImplementsContract, Contract!Spec

-----------------------------------------------------------------------------
(* The index follows the disk.  What is said of the files that are not open *)
(* rests on the reports that are on their way.                              *)

(* The client and the server spell the URI of a path alike: it has one.     *)
OneSpelling == \A u \in Uri : ServerUri[PathOf[u]] = u /\ ClientUri[PathOf[u]] = u

Pending(u) == \E i \in DOMAIN events : events[i].uri = u

(* A tree of u is that of its file, or a report will have it read again.    *)
Fresh(u, tree) ==
    \/ PathOf[u] \in missed
    \/ Pending(u)
    \/ disk[PathOf[u]] # None /\ tree = Parse(disk[PathOf[u]])

(* What a critical section has read is fresh ...                            *)
SectionsRead ==
    /\ hpc = "index" /\ ~IsOpen(huri) => Fresh(huri, htree)
    /\ spc = "index" => Fresh(ServerUri[sfile], stree)
    /\ spc # "next" => scan = "walk"

InSection(u) == hpc \in {"sync", "read", "index"} /\ huri = u

(* ... and what is indexed of a closed file, unless a section is about to   *)
(* write it.                                                                *)
ClosedAreFresh ==
    \A u \in Uri :
        /\ ~IsOpen(u) /\ index[u] # None
        /\ ~InSection(u) /\ ~(spc = "index" /\ ServerUri[sfile] = u)
        => Fresh(u, index[u])

(* The deletion of a file that is there again is not the last that is       *)
(* reported of it.                                                          *)
ReportsInOrder ==
    /\ events # <<>> => watching
    /\ \A i \in DOMAIN events :
         events[i].type = "deleted" /\ disk[PathOf[events[i].uri]] # None =>
            \E j \in DOMAIN events : i < j /\ events[j].uri = events[i].uri

ToVisit(f) ==
    \/ scan = "new"
    \/ scan = "walk" /\ (DirOf[f] \in dirs \/ f \in todo \/ (spc # "next" /\ sfile = f))

Walked(f) == DirOf[f] \in RootDirs \ SkippedDirs /\ disk[f] # None /\ IsShellPath(f)

(* A script of the workspace that is not indexed will be.                   *)
ScriptsAreFound ==
    \A u \in Uri :
        /\ ~IsOpen(u) /\ index[u] = None
        /\ Walked(PathOf[u]) /\ PathOf[u] \notin missed
        => scan = "disabled" \/ ToVisit(PathOf[u]) \/ Pending(u) \/ InSection(u)

CInv == SectionsRead /\ ClosedAreFresh /\ ReportsInOrder /\ ScriptsAreFound

(* Nothing is indexed or reported at the start ...                          *)
LEMMA InitCInv == Init => CInv
  <1> SUFFICES ASSUME Init PROVE CInv
    OBVIOUS
  <1>1. \A u \in Uri : index[u] = None
    BY DEF Init
  <1>2. DOMAIN events = {}
    BY DEF Init
  <1> QED
    BY <1>1, <1>2 DEF Init, CInv, SectionsRead, ClosedAreFresh, ReportsInOrder, ScriptsAreFound, ToVisit

(* When nothing is reported and nothing written the reports stay as they    *)
(* are.                                                                     *)
LEMMA ReportsUnchanged ==
    ASSUME CInv, UNCHANGED <<events, disk, watching>>
    PROVE  ReportsInOrder' /\ \A u \in Uri : Pending(u)' <=> Pending(u)
  BY DEF CInv, ReportsInOrder, Pending

(* ... and each step keeps what is not up to date explained.                *)
LEMMA StoreDocumentCInv ==
    ASSUME OneSpelling, IInv, CInv, NEW u \in Uri, NEW t \in Text, StoreDocument(u, t)
    PROVE  CInv'
  <1> USE UriAssumption, TextAssumption, DirAssumption, NoneAssumption
      DEF OneSpelling, IInv, CInv, TypeOK, LockDiscipline, HandlerSection, ScannerSection, IsOpen,
          envVars, handlerVars, scannerVars, walkVars, visitVars
  <1>1. ReportsInOrder' /\ \A v \in Uri : Pending(v)' <=> Pending(v)
    BY ReportsUnchanged DEF StoreDocument, Acquire, HandlerAt
  <1>2. SectionsRead'
    BY <1>1 DEF SectionsRead, Fresh, StoreDocument, Acquire, HandlerAt
  <1>3. ClosedAreFresh'
    BY <1>1 DEF ClosedAreFresh, SectionsRead, Fresh, InSection, StoreDocument, Acquire, HandlerAt
  <1>4. ScriptsAreFound'
    BY <1>1 DEF ScriptsAreFound, SectionsRead, ToVisit, Walked, IsShellPath, InSection, StoreDocument, Acquire, HandlerAt
  <1> QED
    BY <1>1, <1>2, <1>3, <1>4

LEMMA CloseDocumentCInv ==
    ASSUME OneSpelling, IInv, CInv, NEW u \in Uri, CloseDocument(u)
    PROVE  CInv'
  <1> USE UriAssumption, TextAssumption, DirAssumption, NoneAssumption
      DEF OneSpelling, IInv, CInv, TypeOK, LockDiscipline, HandlerSection, ScannerSection, IsOpen,
          envVars, handlerVars, scannerVars, walkVars, visitVars
  <1>1. ReportsInOrder' /\ \A v \in Uri : Pending(v)' <=> Pending(v)
    BY ReportsUnchanged DEF CloseDocument, Acquire, HandlerAt
  <1>2. SectionsRead'
    BY <1>1 DEF SectionsRead, Fresh, CloseDocument, Acquire, HandlerAt
  <1>3. ClosedAreFresh'
    BY <1>1 DEF ClosedAreFresh, SectionsRead, Fresh, InSection, CloseDocument, Acquire, HandlerAt
  <1>4. ScriptsAreFound'
    BY <1>1 DEF ScriptsAreFound, SectionsRead, ToVisit, Walked, IsShellPath, InSection, CloseDocument, Acquire, HandlerAt
  <1> QED
    BY <1>1, <1>2, <1>3, <1>4

LEMMA CheckShellPathCInv ==
    ASSUME OneSpelling, IInv, CInv, CheckShellPath
    PROVE  CInv'
  <1> USE UriAssumption, TextAssumption, DirAssumption, NoneAssumption
      DEF OneSpelling, IInv, CInv, TypeOK, LockDiscipline, HandlerSection, ScannerSection, IsOpen,
          envVars, handlerVars, scannerVars, walkVars, visitVars
  <1>1. ReportsInOrder' /\ \A v \in Uri : Pending(v)' <=> Pending(v)
    BY ReportsUnchanged DEF CheckShellPath, Remove, Release, HandlerIdle, HandlerAt, InWorkspace
  <1>2. SectionsRead'
    BY <1>1 DEF SectionsRead, Fresh, CheckShellPath, Remove, Release, HandlerIdle, HandlerAt, InWorkspace
  <1>3. ClosedAreFresh'
    BY <1>1 DEF ClosedAreFresh, SectionsRead, Fresh, InSection, CheckShellPath, Remove, Release, HandlerIdle, HandlerAt, InWorkspace
  <1>4. ScriptsAreFound'
    BY <1>1 DEF ScriptsAreFound, SectionsRead, ToVisit, Walked, IsShellPath, InSection, CheckShellPath, Remove, Release, HandlerIdle, HandlerAt, InWorkspace
  <1> QED
    BY <1>1, <1>2, <1>3, <1>4

LEMMA ReadWorkspaceFileCInv ==
    ASSUME OneSpelling, IInv, CInv, ReadWorkspaceFile
    PROVE  CInv'
  <1> USE UriAssumption, TextAssumption, DirAssumption, NoneAssumption
      DEF OneSpelling, IInv, CInv, TypeOK, LockDiscipline, HandlerSection, ScannerSection, IsOpen,
          envVars, handlerVars, scannerVars, walkVars, visitVars
  <1>1. ReportsInOrder' /\ \A v \in Uri : Pending(v)' <=> Pending(v)
    BY ReportsUnchanged DEF ReadWorkspaceFile, Remove, Release, HandlerIdle, HandlerAt
  <1>2. SectionsRead'
    BY <1>1 DEF SectionsRead, Fresh, ReadWorkspaceFile, Remove, Release, HandlerIdle, HandlerAt
  <1>3. ClosedAreFresh'
    BY <1>1 DEF ClosedAreFresh, SectionsRead, Fresh, InSection, ReadWorkspaceFile, Remove, Release, HandlerIdle, HandlerAt
  <1>4. ScriptsAreFound'
    BY <1>1 DEF ScriptsAreFound, SectionsRead, ToVisit, Walked, IsShellPath, InSection, ReadWorkspaceFile, Remove, Release, HandlerIdle, HandlerAt
  <1> QED
    BY <1>1, <1>2, <1>3, <1>4

LEMMA IndexWriteCInv ==
    ASSUME OneSpelling, IInv, CInv, IndexWrite
    PROVE  CInv'
  <1> USE UriAssumption, TextAssumption, DirAssumption, NoneAssumption
      DEF OneSpelling, IInv, CInv, TypeOK, LockDiscipline, HandlerSection, ScannerSection, IsOpen,
          envVars, handlerVars, scannerVars, walkVars, visitVars
  <1>1. ReportsInOrder' /\ \A v \in Uri : Pending(v)' <=> Pending(v)
    BY ReportsUnchanged DEF IndexWrite, AddOrReplace, Release, HandlerIdle
  <1>2. SectionsRead'
    BY <1>1 DEF SectionsRead, Fresh, IndexWrite, AddOrReplace, Release, HandlerIdle
  <1>3. ClosedAreFresh'
    BY <1>1 DEF ClosedAreFresh, SectionsRead, Fresh, InSection, IndexWrite, AddOrReplace, Release, HandlerIdle
  <1>4. ScriptsAreFound'
    BY <1>1 DEF ScriptsAreFound, SectionsRead, ToVisit, Walked, IsShellPath, InSection, IndexWrite, AddOrReplace, Release, HandlerIdle
  <1> QED
    BY <1>1, <1>2, <1>3, <1>4

LEMMA ReachableUsagesCInv ==
    ASSUME OneSpelling, IInv, CInv, NEW u \in Uri, ReachableUsages(u)
    PROVE  CInv'
  <1> USE UriAssumption, TextAssumption, DirAssumption, NoneAssumption
      DEF OneSpelling, IInv, CInv, TypeOK, LockDiscipline, HandlerSection, ScannerSection, IsOpen,
          envVars, handlerVars, scannerVars, walkVars, visitVars
  <1>1. ReportsInOrder' /\ \A v \in Uri : Pending(v)' <=> Pending(v)
    BY ReportsUnchanged DEF ReachableUsages, HandlerAt
  <1>2. SectionsRead'
    BY <1>1 DEF SectionsRead, Fresh, ReachableUsages, HandlerAt
  <1>3. ClosedAreFresh'
    BY <1>1 DEF ClosedAreFresh, SectionsRead, Fresh, InSection, ReachableUsages, HandlerAt
  <1>4. ScriptsAreFound'
    BY <1>1 DEF ScriptsAreFound, SectionsRead, ToVisit, Walked, IsShellPath, InSection, ReachableUsages, HandlerAt
  <1> QED
    BY <1>1, <1>2, <1>3, <1>4

LEMMA ReplyCInv ==
    ASSUME OneSpelling, IInv, CInv, Reply
    PROVE  CInv'
  <1> USE UriAssumption, TextAssumption, DirAssumption, NoneAssumption
      DEF OneSpelling, IInv, CInv, TypeOK, LockDiscipline, HandlerSection, ScannerSection, IsOpen,
          envVars, handlerVars, scannerVars, walkVars, visitVars
  <1>1. ReportsInOrder' /\ \A v \in Uri : Pending(v)' <=> Pending(v)
    BY ReportsUnchanged DEF Reply, HandlerIdle
  <1>2. SectionsRead'
    BY <1>1 DEF SectionsRead, Fresh, Reply, HandlerIdle
  <1>3. ClosedAreFresh'
    BY <1>1 DEF ClosedAreFresh, SectionsRead, Fresh, InSection, Reply, HandlerIdle
  <1>4. ScriptsAreFound'
    BY <1>1 DEF ScriptsAreFound, SectionsRead, ToVisit, Walked, IsShellPath, InSection, Reply, HandlerIdle
  <1> QED
    BY <1>1, <1>2, <1>3, <1>4

LEMMA HandleDidChangeConfigurationCInv ==
    ASSUME OneSpelling, IInv, CInv, HandleDidChangeConfiguration
    PROVE  CInv'
  <1> USE UriAssumption, TextAssumption, DirAssumption, NoneAssumption
      DEF OneSpelling, IInv, CInv, TypeOK, LockDiscipline, HandlerSection, ScannerSection, IsOpen,
          envVars, handlerVars, scannerVars, walkVars, visitVars
  <1>1. ReportsInOrder' /\ \A v \in Uri : Pending(v)' <=> Pending(v)
    BY ReportsUnchanged DEF HandleDidChangeConfiguration
  <1>2. SectionsRead'
    BY <1>1 DEF SectionsRead, Fresh, HandleDidChangeConfiguration
  <1>3. ClosedAreFresh'
    BY <1>1 DEF ClosedAreFresh, SectionsRead, Fresh, InSection, HandleDidChangeConfiguration
  <1>4. ScriptsAreFound'
    BY <1>1 DEF ScriptsAreFound, SectionsRead, ToVisit, Walked, IsShellPath, InSection, HandleDidChangeConfiguration
  <1> QED
    BY <1>1, <1>2, <1>3, <1>4

LEMMA ScanStartCInv ==
    ASSUME OneSpelling, IInv, CInv, ScanStart
    PROVE  CInv'
  <1> USE UriAssumption, TextAssumption, DirAssumption, NoneAssumption
      DEF OneSpelling, IInv, CInv, TypeOK, LockDiscipline, HandlerSection, ScannerSection, IsOpen,
          envVars, handlerVars, scannerVars, walkVars, visitVars
  <1>1. ReportsInOrder' /\ \A v \in Uri : Pending(v)' <=> Pending(v)
    BY ReportsUnchanged DEF ScanStart
  <1>2. SectionsRead'
    BY <1>1 DEF SectionsRead, Fresh, ScanStart
  <1>3. ClosedAreFresh'
    BY <1>1 DEF ClosedAreFresh, SectionsRead, Fresh, InSection, ScanStart
  <1>4. ScriptsAreFound'
    BY <1>1 DEF ScriptsAreFound, SectionsRead, ToVisit, Walked, IsShellPath, InSection, ScanStart
  <1> QED
    BY <1>1, <1>2, <1>3, <1>4

LEMMA ScanListCInv ==
    ASSUME OneSpelling, IInv, CInv, NEW d \in Dir, ScanList(d)
    PROVE  CInv'
  <1> USE UriAssumption, TextAssumption, DirAssumption, NoneAssumption
      DEF OneSpelling, IInv, CInv, TypeOK, LockDiscipline, HandlerSection, ScannerSection, IsOpen,
          envVars, handlerVars, scannerVars, walkVars, visitVars
  <1>1. ReportsInOrder' /\ \A v \in Uri : Pending(v)' <=> Pending(v)
    BY ReportsUnchanged DEF ScanList
  <1>2. SectionsRead'
    BY <1>1 DEF SectionsRead, Fresh, ScanList
  <1>3. ClosedAreFresh'
    BY <1>1 DEF ClosedAreFresh, SectionsRead, Fresh, InSection, ScanList
  <1>4. ScriptsAreFound'
    BY <1>1 DEF ScriptsAreFound, SectionsRead, ToVisit, Walked, IsShellPath, InSection, ScanList
  <1> QED
    BY <1>1, <1>2, <1>3, <1>4

LEMMA ScanCheckCInv ==
    ASSUME OneSpelling, IInv, CInv, NEW f \in File, ScanCheck(f)
    PROVE  CInv'
  <1> USE UriAssumption, TextAssumption, DirAssumption, NoneAssumption
      DEF OneSpelling, IInv, CInv, TypeOK, LockDiscipline, HandlerSection, ScannerSection, IsOpen,
          envVars, handlerVars, scannerVars, walkVars, visitVars
  <1>1. ReportsInOrder' /\ \A v \in Uri : Pending(v)' <=> Pending(v)
    BY ReportsUnchanged DEF ScanCheck, ScannerAt
  <1>2. SectionsRead'
    BY <1>1 DEF SectionsRead, Fresh, ScanCheck, ScannerAt
  <1>3. ClosedAreFresh'
    BY <1>1 DEF ClosedAreFresh, SectionsRead, Fresh, InSection, ScanCheck, ScannerAt
  <1>4. ScriptsAreFound'
    BY <1>1 DEF ScriptsAreFound, SectionsRead, ToVisit, Walked, IsShellPath, InSection, ScanCheck, ScannerAt
  <1> QED
    BY <1>1, <1>2, <1>3, <1>4

LEMMA ScanVisitCInv ==
    ASSUME OneSpelling, IInv, CInv, ScanVisit
    PROVE  CInv'
  <1> USE UriAssumption, TextAssumption, DirAssumption, NoneAssumption
      DEF OneSpelling, IInv, CInv, TypeOK, LockDiscipline, HandlerSection, ScannerSection, IsOpen,
          envVars, handlerVars, scannerVars, walkVars, visitVars
  <1>1. ReportsInOrder' /\ \A v \in Uri : Pending(v)' <=> Pending(v)
    BY ReportsUnchanged DEF ScanVisit, Acquire, NextVisit, ScannerAt
  <1>2. SectionsRead'
    BY <1>1 DEF SectionsRead, Fresh, ScanVisit, Acquire, NextVisit, ScannerAt
  <1>3. ClosedAreFresh'
    BY <1>1 DEF ClosedAreFresh, SectionsRead, Fresh, InSection, ScanVisit, Acquire, NextVisit, ScannerAt
  <1>4. ScriptsAreFound'
    BY <1>1 DEF ScriptsAreFound, SectionsRead, ToVisit, Walked, IsShellPath, InSection, ScanVisit, Acquire, NextVisit, ScannerAt
  <1> QED
    BY <1>1, <1>2, <1>3, <1>4

LEMMA ScanReadCInv ==
    ASSUME OneSpelling, IInv, CInv, ScanRead
    PROVE  CInv'
  <1> USE UriAssumption, TextAssumption, DirAssumption, NoneAssumption
      DEF OneSpelling, IInv, CInv, TypeOK, LockDiscipline, HandlerSection, ScannerSection, IsOpen,
          envVars, handlerVars, scannerVars, walkVars, visitVars
  <1>1. ReportsInOrder' /\ \A v \in Uri : Pending(v)' <=> Pending(v)
    BY ReportsUnchanged DEF ScanRead, Release, NextVisit, ScannerAt
  <1>2. SectionsRead'
    BY <1>1 DEF SectionsRead, Fresh, ScanRead, Release, NextVisit, ScannerAt
  <1>3. ClosedAreFresh'
    BY <1>1 DEF ClosedAreFresh, SectionsRead, Fresh, InSection, ScanRead, Release, NextVisit, ScannerAt
  <1>4. ScriptsAreFound'
    BY <1>1 DEF ScriptsAreFound, SectionsRead, ToVisit, Walked, IsShellPath, InSection, ScanRead, Release, NextVisit, ScannerAt
  <1> QED
    BY <1>1, <1>2, <1>3, <1>4

LEMMA ScanIndexCInv ==
    ASSUME OneSpelling, IInv, CInv, ScanIndex
    PROVE  CInv'
  <1> USE UriAssumption, TextAssumption, DirAssumption, NoneAssumption
      DEF OneSpelling, IInv, CInv, TypeOK, LockDiscipline, HandlerSection, ScannerSection, IsOpen,
          envVars, handlerVars, scannerVars, walkVars, visitVars
  <1>1. ReportsInOrder' /\ \A v \in Uri : Pending(v)' <=> Pending(v)
    BY ReportsUnchanged DEF ScanIndex, AddOrReplace, Release, NextVisit
  <1>2. SectionsRead'
    BY <1>1 DEF SectionsRead, Fresh, ScanIndex, AddOrReplace, Release, NextVisit
  <1>3. ClosedAreFresh'
    BY <1>1 DEF ClosedAreFresh, SectionsRead, Fresh, InSection, ScanIndex, AddOrReplace, Release, NextVisit
  <1>4. ScriptsAreFound'
    BY <1>1 DEF ScriptsAreFound, SectionsRead, ToVisit, Walked, IsShellPath, InSection, ScanIndex, AddOrReplace, Release, NextVisit
  <1> QED
    BY <1>1, <1>2, <1>3, <1>4

LEMMA ScanDoneCInv ==
    ASSUME OneSpelling, IInv, CInv, ScanDone
    PROVE  CInv'
  <1> USE UriAssumption, TextAssumption, DirAssumption, NoneAssumption
      DEF OneSpelling, IInv, CInv, TypeOK, LockDiscipline, HandlerSection, ScannerSection, IsOpen,
          envVars, handlerVars, scannerVars, walkVars, visitVars
  <1>1. ReportsInOrder' /\ \A v \in Uri : Pending(v)' <=> Pending(v)
    BY ReportsUnchanged DEF ScanDone
  <1>2. SectionsRead'
    BY <1>1 DEF SectionsRead, Fresh, ScanDone
  <1>3. ClosedAreFresh'
    BY <1>1 DEF ClosedAreFresh, SectionsRead, Fresh, InSection, ScanDone
  <1>4. ScriptsAreFound'
    BY <1>1 DEF ScriptsAreFound, SectionsRead, ToVisit, Walked, IsShellPath, InSection, ScanDone
  <1> QED
    BY <1>1, <1>2, <1>3, <1>4

(* A report is taken from the queue: it was about some u, and if it was the *)
(* deletion of a file that is there again, another about u follows.         *)
LEMMA TailReports ==
    ASSUME IInv, CInv, events # <<>>, events' = Tail(events), UNCHANGED <<disk, watching>>
    PROVE  /\ ReportsInOrder'
           /\ Head(events) \in Change
           /\ \A u \in Uri : Pending(u) => Pending(u)' \/ u = Head(events).uri
           /\ \A u \in Uri : Pending(u)' => Pending(u)
           /\ \A u \in Uri : u = Head(events).uri /\ Head(events).type = "deleted" /\ disk[PathOf[u]] # None
                 => Pending(u)'
  <1>1. events \in Seq(Change)
    BY DEF IInv, TypeOK
  <1>2. /\ Head(events) = events[1] /\ Head(events) \in Change
        /\ DOMAIN events' = 1 .. Len(events) - 1 /\ Len(events) \in Nat \ {0}
        /\ \A i \in DOMAIN events' : events'[i] = events[i + 1]
    BY <1>1
  <1>3. \A i \in DOMAIN events : i # 1 => i - 1 \in DOMAIN events' /\ events'[i - 1] = events[i]
    BY <1>1, <1>2
  <1>4. \A i \in DOMAIN events' : i + 1 \in DOMAIN events
    BY <1>1, <1>2
  <1>5. ReportsInOrder'
    <2>1. watching'
      BY DEF CInv, ReportsInOrder
    <2>2. ASSUME NEW i \in DOMAIN events', events'[i].type = "deleted", disk[PathOf[events'[i].uri]] # None
          PROVE  \E j \in DOMAIN events' : i < j /\ events'[j].uri = events'[i].uri
      <3>1. PICK j \in DOMAIN events : i + 1 < j /\ events[j].uri = events[i + 1].uri
        BY <1>2, <1>4, <2>2 DEF CInv, ReportsInOrder
      <3>2. j - 1 \in DOMAIN events' /\ events'[j - 1].uri = events'[i].uri /\ i < j - 1
        BY <1>1, <1>2, <1>3, <3>1
      <3> QED
        BY <3>2
    <2> QED
      BY <2>1, <2>2 DEF ReportsInOrder
  <1>6. \A u \in Uri : Pending(u) => Pending(u)' \/ u = Head(events).uri
    BY <1>2, <1>3 DEF Pending
  <1>7. \A u \in Uri : Pending(u)' => Pending(u)
    BY <1>2, <1>4 DEF Pending
  <1>8. ASSUME NEW u \in Uri, u = Head(events).uri, Head(events).type = "deleted", disk[PathOf[u]] # None
        PROVE  Pending(u)'
    <2>1. PICK j \in DOMAIN events : 1 < j /\ events[j].uri = u
      <3>1. 1 \in DOMAIN events
        BY <1>1, <1>2
      <3> QED
        BY <1>2, <1>8, <3>1 DEF CInv, ReportsInOrder
    <2>2. j - 1 \in DOMAIN events' /\ events'[j - 1].uri = u
      BY <1>1, <1>3, <2>1
    <2> QED
      BY <2>2 DEF Pending
  <1> QED
    BY <1>2, <1>5, <1>6, <1>7, <1>8

LEMMA HandleDidChangeWatchedFilesCInv ==
    ASSUME OneSpelling, IInv, CInv, HandleDidChangeWatchedFiles
    PROVE  CInv'
  <1> USE UriAssumption, TextAssumption, DirAssumption, NoneAssumption
      DEF OneSpelling, IInv, CInv, TypeOK, LockDiscipline, IsOpen, envVars, handlerVars, scannerVars, walkVars, visitVars
  <1> DEFINE change == Head(events)
  <1>1. /\ ReportsInOrder' /\ change \in Change
        /\ \A u \in Uri : Pending(u) => Pending(u)' \/ u = change.uri
        /\ \A u \in Uri : u = change.uri /\ change.type = "deleted" /\ disk[PathOf[u]] # None
              => Pending(u)'
    <2>1. UNCHANGED <<disk, watching>> /\ events # <<>> /\ events' = Tail(events)
      BY DEF HandleDidChangeWatchedFiles, IgnoreOpenFile, RefreshWorkspaceFile, RemoveWorkspaceFile
    <2> QED
      BY <2>1, TailReports
  <1>2. change.uri \in Uri
    BY <1>1 DEF Change
  <1>3. hpc = "idle" /\ mu = "free" /\ spc \notin {"read", "index"}
    BY DEF HandleDidChangeWatchedFiles
  <1>4. \/ IgnoreOpenFile(change.uri)
        \/ RefreshWorkspaceFile(change.uri)
        \/ change.type = "deleted" /\ RemoveWorkspaceFile(change.uri)
    BY DEF HandleDidChangeWatchedFiles
  <1> HIDE DEF change
  <1>5. SectionsRead'
    BY <1>3, <1>4 DEF SectionsRead, Fresh, IgnoreOpenFile, RefreshWorkspaceFile, RemoveWorkspaceFile, HandlerAt
  <1>6. ClosedAreFresh'
    <2>1. ~InWorkspace(PathOf[change.uri]) /\ ~IsOpen(change.uri) => index[change.uri] = None
      BY <1>2, <1>3 DEF OutsideRootsForgotten
    <2> QED
      BY <1>1, <1>2, <1>3, <1>4, <2>1 DEF ClosedAreFresh, Fresh, InSection,
         IgnoreOpenFile, RefreshWorkspaceFile, RemoveWorkspaceFile, Remove, HandlerAt
  <1>7. ScriptsAreFound'
    BY <1>1, <1>2, <1>3, <1>4 DEF ScriptsAreFound, ToVisit, Walked, IsShellPath, InSection,
       IgnoreOpenFile, RefreshWorkspaceFile, RemoveWorkspaceFile, Remove, HandlerAt
  <1> QED
    BY <1>1, <1>5, <1>6, <1>7

(* The queue is empty until the watcher is registered.                      *)
LEMMA RegisterFileWatchersCInv ==
    ASSUME IInv, CInv, RegisterFileWatchers
    PROVE  CInv'
  <1> USE DEF CInv, IsOpen, handlerVars, scannerVars, walkVars, visitVars, RegisterFileWatchers
  <1>1. \A u \in Uri : Pending(u)' <=> Pending(u)
    BY DEF Pending
  <1>2. ReportsInOrder'
    BY DEF ReportsInOrder
  <1>3. SectionsRead' /\ ClosedAreFresh'
    BY <1>1, UriAssumption DEF SectionsRead, ClosedAreFresh, Fresh, InSection, IInv, TypeOK, HandlerSection, ScannerSection
  <1>4. ScriptsAreFound'
    BY <1>1 DEF ScriptsAreFound, ToVisit, Walked, IsShellPath, InSection
  <1> QED
    BY <1>2, <1>3, <1>4

(* A file changes: this is reported, or the file is missed.                 *)
LEMMA WriteFileCInv ==
    ASSUME OneSpelling, IInv, CInv, NEW f \in File, NEW t \in Text \cup {None}, WriteFile(f, t)
    PROVE  CInv'
  <1> USE UriAssumption, TextAssumption, DirAssumption, NoneAssumption
      DEF OneSpelling, IInv, CInv, TypeOK, IsOpen, handlerVars, scannerVars, walkVars, visitVars
  <1> DEFINE change == [uri |-> ClientUri[f], type |-> IF t = None THEN "deleted" ELSE "changed"]
  <1>1. disk' = [disk EXCEPT ![f] = t] /\ watching' = watching
    BY DEF WriteFile
  <1>2. CASE watching
    <2>1. events' = Append(events, change) /\ missed' = missed /\ events \in Seq(Change)
      BY <1>2 DEF WriteFile
    <2> DEFINE n == Len(events) + 1
    <2>2. /\ DOMAIN events' = DOMAIN events \cup {n} /\ n \notin DOMAIN events
          /\ events'[n] = change /\ \A i \in DOMAIN events : events'[i] = events[i] /\ i < n
      <3> HIDE DEF change
      <3> QED
        BY <2>1
    <2>3. change.uri = ClientUri[f] /\ (change.type = "deleted" <=> t = None)
      OBVIOUS
    <2> HIDE DEF change, n
    <2>4. \A u \in Uri : Pending(u)' <=> Pending(u) \/ u = ClientUri[f]
      BY <2>2, <2>3 DEF Pending
    <2>5. ReportsInOrder'
      <3>1. ASSUME NEW i \in DOMAIN events', events'[i].type = "deleted", disk'[PathOf[events'[i].uri]] # None
            PROVE  \E j \in DOMAIN events' : i < j /\ events'[j].uri = events'[i].uri
        <4>1. i # n
          BY <1>1, <2>2, <2>3, <3>1
        <4>2. i \in DOMAIN events /\ events'[i] = events[i] /\ i < n /\ events[i].uri \in Uri
          <5>1. events[i] \in Change
            BY <2>1, <2>2, <4>1
          <5> QED
            BY <2>2, <4>1, <5>1 DEF Change
        <4>3. CASE events[i].uri = ClientUri[f]
          BY <2>2, <2>3, <4>2, <4>3
        <4>4. CASE events[i].uri # ClientUri[f]
          <5>1. PathOf[events[i].uri] # f
            BY <4>2, <4>4
          <5> QED
            BY <1>1, <2>2, <3>1, <4>2, <5>1 DEF ReportsInOrder
        <4> QED
          BY <4>3, <4>4
      <3> QED
        BY <1>1, <1>2, <3>1 DEF ReportsInOrder
    <2>6. SectionsRead' /\ ClosedAreFresh'
      <3>1. UNCHANGED <<docs, index, handlerVars, scannerVars>>
        BY DEF WriteFile
      <3>2. SectionsRead'
        BY <1>1, <2>1, <2>4, <3>1 DEF SectionsRead, Fresh, HandlerSection, ScannerSection
      <3>3. ClosedAreFresh'
        BY <1>1, <2>1, <2>4, <3>1 DEF ClosedAreFresh, Fresh, InSection
      <3> QED
        BY <3>2, <3>3
    <2>7. ScriptsAreFound'
      BY <1>1, <2>1, <2>4 DEF ScriptsAreFound, ToVisit, Walked, IsShellPath, InSection, WriteFile
    <2> QED
      BY <2>5, <2>6, <2>7
  <1>3. CASE ~watching
    <2>1. events' = events /\ missed' = missed \cup {f}
      BY <1>3 DEF WriteFile
    <2>2. \A u \in Uri : Pending(u)' <=> Pending(u)
      BY <2>1 DEF Pending
    <2>3. ReportsInOrder'
      BY <1>1, <1>3, <2>1 DEF ReportsInOrder
    <2>4. SectionsRead' /\ ClosedAreFresh'
      <3>1. UNCHANGED <<docs, index, handlerVars, scannerVars>>
        BY DEF WriteFile
      <3>2. SectionsRead'
        BY <1>1, <2>1, <2>2, <3>1 DEF SectionsRead, Fresh, HandlerSection, ScannerSection
      <3>3. ClosedAreFresh'
        BY <1>1, <2>1, <2>2, <3>1 DEF ClosedAreFresh, Fresh, InSection
      <3> QED
        BY <3>2, <3>3
    <2>5. ScriptsAreFound'
      BY <1>1, <2>1, <2>2 DEF ScriptsAreFound, ToVisit, Walked, IsShellPath, InSection, WriteFile
    <2> QED
      BY <2>3, <2>4, <2>5
  <1> QED
    BY <1>2, <1>3

LEMMA NextCInv ==
    ASSUME OneSpelling, IInv, CInv, [Next]_vars
    PROVE  CInv'
  <1> USE UriAssumption
  <1>1. CASE Notify
    <2>1. CASE \E f \in File, t \in Text :
                  OpenDocument(ClientUri[f], t) \/ UpdateDocument(ClientUri[f], t)
      BY <2>1, StoreDocumentCInv DEF OpenDocument, UpdateDocument
    <2>2. ASSUME NEW f \in File, NEW t \in Text \cup {None}, SaveDocument(ClientUri[f], t)
          PROVE  CInv'
      <3>1. (IF t = None THEN docs[ClientUri[f]] ELSE t) \in Text
        BY <2>2 DEF SaveDocument, IsOpen, IInv, TypeOK
      <3> QED
        BY <2>2, <3>1, StoreDocumentCInv DEF SaveDocument
    <2>3. ASSUME NEW f \in File, CloseDocument(ClientUri[f])
          PROVE  CInv'
      BY <2>3, CloseDocumentCInv
    <2> QED
      BY <1>1, <2>1, <2>2, <2>3, ReachableUsagesCInv, HandleDidChangeConfigurationCInv
         DEF Notify
  <1>2. CASE HandleDidChangeWatchedFiles
    BY <1>2, HandleDidChangeWatchedFilesCInv
  <1>3. CASE HandlerStep
    BY <1>3, CheckShellPathCInv, ReadWorkspaceFileCInv, IndexWriteCInv, ReplyCInv
       DEF HandlerStep
  <1>4. CASE Walk
    BY <1>4, ScanStartCInv, ScanListCInv, ScanCheckCInv, ScanDoneCInv DEF Walk
  <1>5. CASE Visit
    BY <1>5, ScanVisitCInv, ScanReadCInv, ScanIndexCInv DEF Visit
  <1>6. CASE Environment
    BY <1>6, RegisterFileWatchersCInv, WriteFileCInv DEF Environment
  <1>7. CASE UNCHANGED vars
    BY <1>7 DEF vars, envVars, handlerVars, scannerVars, walkVars, visitVars, CInv, SectionsRead,
       ClosedAreFresh, ReportsInOrder, ScriptsAreFound, Fresh, Pending, InSection, ToVisit, Walked, IsShellPath, IsOpen
  <1> QED
    BY <1>1, <1>2, <1>3, <1>4, <1>5, <1>6, <1>7 DEF Next

(* Whatever is not up to date in the index has a reason: a report on its    *)
(* way, a change nobody watched, or a section at work on the file.          *)
THEOREM StaleHasReason ==
    ASSUME OneSpelling
    PROVE  Spec => [](IInv /\ CInv)
  <1>1. Spec => []IInv
    BY Invariance
  <1>2. IInv /\ CInv /\ [Next]_vars => CInv'
    BY NextCInv
  <1> QED
    BY <1>1, <1>2, InitCInv, PTL DEF Spec

(* Once the scan is over and all reports are handled, the index agrees with *)
(* the disk on every closed document that was not missed.                   *)
THEOREM Convergence ==
    ASSUME OneSpelling
    PROVE  Spec => []Converged
  <1>1. IInv /\ CInv => Converged
    <2> SUFFICES ASSUME IInv, CInv, Settled, NEW f \in File \ missed, ~IsOpen(ServerUri[f])
                 PROVE  AgreesWithDisk(ServerUri[f])
      BY DEF Converged
    <2>1. /\ ServerUri[f] \in Uri /\ PathOf[ServerUri[f]] = f
          /\ ~Pending(ServerUri[f]) /\ ~InSection(ServerUri[f])
      BY UriAssumption DEF Settled, Pending, InSection
    <2>2. spc = "next"
      BY DEF CInv, SectionsRead, Settled, IInv, TypeOK
    <2>3. index[ServerUri[f]] # None => disk[f] # None /\ index[ServerUri[f]] = Parse(disk[f])
      BY <2>1, <2>2 DEF CInv, ClosedAreFresh, Fresh
    <2>4. scan = "done" /\ Walked(f) => index[ServerUri[f]] # None
      BY <2>1 DEF CInv, ScriptsAreFound, ToVisit
    <2> QED
      BY <2>1, <2>3, <2>4 DEF AgreesWithDisk, Walked
  <1> QED
    BY <1>1, StaleHasReason, PTL

(* A hit in a closed file is converted with another text only while a       *)
(* change of the file is on its way to the index.                           *)
THEOREM StaleHitsExplained ==
    ASSUME OneSpelling
    PROVE  Spec => []StaleHitExplained
  <1>1. IInv /\ CInv => StaleHitExplained
    <2> SUFFICES ASSUME IInv, CInv, hpc = "query", ~IsOpen(huri), htree.text # TextForURI(huri),
                        PathOf[huri] \notin missed, ~(sfile = PathOf[huri] /\ spc = "index"),
                        index[huri] = htree, ~Pending(huri)
                 PROVE  FALSE
      BY DEF StaleHitExplained, Pending
    <2>1. huri \in Uri /\ htree # None /\ ~InSection(huri)
      BY NoneAssumption DEF IInv, HandlerSection, InSection
    <2>2. ~(spc = "index" /\ ServerUri[sfile] = huri)
      BY <2>1, UriAssumption DEF IInv, ScannerSection
    <2>3. htree = Parse(disk[PathOf[huri]])
      BY <2>1, <2>2 DEF CInv, ClosedAreFresh, Fresh
    <2> QED
      BY <2>3 DEF Parse, TextForURI
  <1> QED
    BY <1>1, StaleHasReason, PTL

-----------------------------------------------------------------------------
(* Why the scan ends and the events are handled: what SettlesEventually      *)
(* rests on, but for fairness.  In order of weight: the phases of the walk  *)
(* that are left, the directories to list, the files to check, and what is  *)
(* left of the visit of one file.                                          *)

PhasesLeft == CASE scan = "new" -> 2 [] scan = "walk" -> 1 [] OTHER -> 0
VisitLeft == CASE spc = "visit" -> 3 [] spc = "read" -> 2 [] spc = "index" -> 1 [] OTHER -> 0
HandlerLeft == CASE hpc = "sync" -> 3 [] hpc = "read" -> 2 [] hpc \in {"index", "query"} -> 1
                 [] OTHER -> 0

ScanGetsShorter ==
    \/ PhasesLeft' \in 0 .. PhasesLeft - 1
    \/ scan' = scan /\ Cardinality(dirs') \in 0 .. Cardinality(dirs) - 1
    \/ scan' = scan /\ dirs' = dirs /\ Cardinality(todo') \in 0 .. Cardinality(todo) - 1
    \/ UNCHANGED walkVars /\ VisitLeft' \in 0 .. VisitLeft - 1

(* Taking one element out of a finite set leaves a smaller one. *)
LEMMA OneLess ==
    ASSUME NEW S, IsFiniteSet(S), NEW x \in S
    PROVE  Cardinality(S \ {x}) \in 0 .. Cardinality(S) - 1
  <1> DEFINE n == Cardinality(S)
             k == Cardinality(S \ {x})
  <1>1. IsFiniteSet(S \ {x}) /\ k = n - 1
    BY FS_RemoveElement
  <1>2. n \in Nat /\ k \in Nat
    BY <1>1, FS_CardinalityType, Zenon
  <1> HIDE DEF n, k
  <1>3. k \in 0 .. n - 1
    BY ONLY <1>1, <1>2
  <1> QED
    BY <1>3 DEF n, k

LEMMA WalkShortens ==
    ASSUME IsFiniteSet(Dir), IsFiniteSet(File), IInv, Walk
    PROVE  ScanGetsShorter
  <1>0. dirs \in SUBSET Dir /\ todo \in SUBSET File
    BY DEF IInv, TypeOK
  <1>1. CASE ScanStart \/ ScanDone
    BY <1>1 DEF ScanStart, ScanDone, PhasesLeft, ScanGetsShorter
  <1>2. ASSUME NEW d \in Dir, ScanList(d)
        PROVE  ScanGetsShorter
    <2>1. IsFiniteSet(dirs) /\ d \in dirs /\ dirs' = dirs \ {d} /\ scan' = scan
      BY <1>0, <1>2, FS_Subset DEF ScanList
    <2>2. Cardinality(dirs \ {d}) \in 0 .. Cardinality(dirs) - 1
      BY <2>1, OneLess
    <2> QED
      BY <2>1, <2>2, Zenon DEF ScanGetsShorter
  <1>3. ASSUME NEW f \in File, ScanCheck(f)
        PROVE  ScanGetsShorter
    <2>1. IsFiniteSet(todo) /\ f \in todo /\ todo' = todo \ {f} /\ scan' = scan /\ dirs' = dirs
      BY <1>0, <1>3, FS_Subset DEF ScanCheck
    <2>2. Cardinality(todo \ {f}) \in 0 .. Cardinality(todo) - 1
      BY <2>1, OneLess
    <2> QED
      BY <2>1, <2>2, Zenon DEF ScanGetsShorter
  <1> QED
    BY <1>1, <1>2, <1>3 DEF Walk

LEMMA VisitShortens ==
    ASSUME Visit
    PROVE  ScanGetsShorter
  <1>1. UNCHANGED walkVars
    BY DEF Visit, ScanVisit, ScanRead, ScanIndex
  <1>2. VisitLeft' \in 0 .. VisitLeft - 1
    BY DEF Visit, ScanVisit, ScanRead, ScanIndex, NextVisit, ScannerAt, VisitLeft
  <1> QED
    BY <1>1, <1>2 DEF ScanGetsShorter

(* What the other steps leave to the scanner, and to the handler at work.    *)
LEMMA OthersKeepScanner ==
    ASSUME [Next]_vars, ~Walk, ~Visit
    PROVE  UNCHANGED scannerVars
  <1>1. CASE Notify
    BY <1>1 DEF Notify, OpenDocument, UpdateDocument, SaveDocument, StoreDocument, CloseDocument,
                ReachableUsages, HandleDidChangeConfiguration
  <1>2. CASE HandleDidChangeWatchedFiles
    BY <1>2 DEF HandleDidChangeWatchedFiles, IgnoreOpenFile, RefreshWorkspaceFile,
                RemoveWorkspaceFile
  <1>3. CASE HandlerStep
    BY <1>3 DEF HandlerStep, CheckShellPath, ReadWorkspaceFile, IndexWrite, Reply
  <1>4. CASE Environment
    BY <1>4 DEF Environment, RegisterFileWatchers, WriteFile
  <1>5. CASE UNCHANGED vars
    BY <1>5 DEF vars
  <1> QED
    BY <1>1, <1>2, <1>3, <1>4, <1>5 DEF Next

LEMMA OthersKeepHandler ==
    ASSUME [Next]_vars, ~HandlerStep, hpc # "idle"
    PROVE  UNCHANGED handlerVars
  <1>1. ~Notify /\ ~HandleDidChangeWatchedFiles
    BY DEF Notify, OpenDocument, UpdateDocument, SaveDocument, StoreDocument, CloseDocument,
           ReachableUsages, HandleDidChangeConfiguration, HandleDidChangeWatchedFiles
  <1>2. CASE Walk
    BY <1>2 DEF Walk, ScanStart, ScanList, ScanCheck, ScanDone
  <1>3. CASE Visit
    BY <1>3 DEF Visit, ScanVisit, ScanRead, ScanIndex
  <1>4. CASE Environment
    BY <1>4 DEF Environment, RegisterFileWatchers, WriteFile
  <1>5. CASE UNCHANGED vars
    BY <1>5 DEF vars
  <1> QED
    BY <1>1, <1>2, <1>3, <1>4, <1>5 DEF Next

(* How the queue of events changes. *)
LEMMA EventsSteps ==
    ASSUME IInv, [Next]_vars
    PROVE  /\ HandleDidChangeWatchedFiles => Len(events') = Len(events) - 1
           /\ events' = events \/ HandleDidChangeWatchedFiles \/ writes' = writes + 1
  <1>0. events \in Seq(Change)
    BY DEF IInv, TypeOK
  <1>1. Notify => events' = events
    BY DEF Notify, OpenDocument, UpdateDocument, SaveDocument, StoreDocument, CloseDocument,
                ReachableUsages, HandleDidChangeConfiguration
  <1>2. HandleDidChangeWatchedFiles => Len(events') = Len(events) - 1
    BY <1>0 DEF HandleDidChangeWatchedFiles
  <1>3. HandlerStep => events' = events
    BY DEF HandlerStep, CheckShellPath, ReadWorkspaceFile, IndexWrite, Reply
  <1>4. Walk => events' = events
    BY DEF Walk, ScanStart, ScanList, ScanCheck, ScanDone
  <1>5. Visit => events' = events
    BY DEF Visit, ScanVisit, ScanRead, ScanIndex
  <1>6. Environment => events' = events \/ writes' = writes + 1
    BY DEF Environment, RegisterFileWatchers, WriteFile
  <1>7. UNCHANGED vars => events' = events
    BY DEF vars
  <1>8. events' = events \/ HandleDidChangeWatchedFiles \/ writes' = writes + 1
    BY <1>1, <1>3, <1>4, <1>5, <1>6, <1>7 DEF Next
  <1> QED
    BY <1>2, <1>8

(* Each step of the scanner gets it closer to its end, and nobody sets it    *)
(* back: neither an edit nor a write to the disk, however they come.        *)
THEOREM ScanEnds ==
    ASSUME IsFiniteSet(Dir), IsFiniteSet(File)
    PROVE  Spec => [][/\ Walk \/ Visit => ScanGetsShorter
                      /\ ~(Walk \/ Visit) => UNCHANGED scannerVars]_vars
  <1>1. ASSUME IInv, [Next]_vars
        PROVE  [/\ Walk \/ Visit => ScanGetsShorter
                /\ ~(Walk \/ Visit) => UNCHANGED scannerVars]_vars
    BY <1>1, WalkShortens, VisitShortens, OthersKeepScanner
  <1> QED
    BY <1>1, Invariance, PTL DEF Spec

(* A handler at work is only moved by its own steps, each of which is closer *)
(* to its end; an event that has been taken from the queue is gone, and new *)
(* ones come only from writes to the disk.                                  *)
THEOREM EventsGetHandled ==
    Spec => [][/\ HandlerStep => HandlerLeft' \in 0 .. HandlerLeft - 1
               /\ hpc # "idle" /\ ~HandlerStep => UNCHANGED handlerVars
               /\ HandleDidChangeWatchedFiles => Len(events') = Len(events) - 1
               /\ events' = events \/ HandleDidChangeWatchedFiles \/ writes' = writes + 1]_vars
  <1>1. ASSUME HandlerStep
        PROVE  HandlerLeft' \in 0 .. HandlerLeft - 1
    BY <1>1 DEF HandlerStep, CheckShellPath, ReadWorkspaceFile, IndexWrite, Reply,
                HandlerIdle, HandlerAt, HandlerLeft
  <1>2. ASSUME IInv, [Next]_vars
        PROVE  [/\ HandlerStep => HandlerLeft' \in 0 .. HandlerLeft - 1
                /\ hpc # "idle" /\ ~HandlerStep => UNCHANGED handlerVars
                /\ HandleDidChangeWatchedFiles => Len(events') = Len(events) - 1
                /\ events' = events \/ HandleDidChangeWatchedFiles \/ writes' = writes + 1]_vars
    BY <1>1, <1>2, OthersKeepHandler, EventsSteps, Zenon
  <1> QED
    BY <1>2, Invariance, PTL DEF Spec

(* Where a goroutine's guards hold, with the lock it asks for.              *)
HandlerReady ==
    \/ hpc \in {"sync", "read", "index", "query"}
    \/ /\ hpc = "idle" /\ mu = "free" /\ events # <<>>
       /\ IsOpen(Head(events).uri) \/ Head(events).type \in {"changed", "deleted"}

ScannerReady ==
    \/ scan = "new"
    \/ spc \in {"read", "index"}
    \/ spc = "visit" /\ mu = "free"
    \/ /\ scan = "walk" /\ spc = "next"
       /\ dirs \cap Dir # {} \/ todo \cap File # {} \/ dirs \cup todo = {}

(* Handler and scanner never wait for each other, nor for a lock that an     *)
(* early return has kept: as long as there is work, one of them can go on.  *)
THEOREM NobodyIsStuck ==
    Spec => [](\/ HandlerReady \/ ScannerReady
               \/ hpc = "idle" /\ events = <<>> /\ scan \in {"done", "disabled"})
  <1>1. ASSUME IInv, ~HandlerReady, ~ScannerReady
        PROVE  hpc = "idle" /\ events = <<>> /\ scan \in {"done", "disabled"}
    <2>1. hpc = "idle" /\ spc \in {"next", "visit"}
      BY <1>1 DEF IInv, TypeOK, HandlerReady, ScannerReady
    <2>2. mu = "free"
      BY <1>1, <2>1 DEF IInv, TypeOK, LockDiscipline
    <2>3. events = <<>>
      <3>1. events # <<>> => Head(events) \in Change
        BY <1>1 DEF IInv, TypeOK
      <3> QED
        BY <1>1, <2>1, <2>2, <3>1 DEF HandlerReady, Change
    <2>4. spc = "next"
      BY <1>1, <2>1, <2>2 DEF ScannerReady
    <2>5. dirs \subseteq Dir /\ todo \subseteq File
      BY <1>1 DEF IInv, TypeOK
    <2>6. scan \in {"done", "disabled"}
      BY <1>1, <2>4, <2>5 DEF IInv, TypeOK, ScannerReady
    <2> QED
      BY <2>1, <2>3, <2>6
  <1> QED
    BY <1>1, Invariance, PTL

=============================================================================
