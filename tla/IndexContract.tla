--------------------------- MODULE IndexContract ---------------------------
(***************************************************************************)
(* What the declaration index promises to a query, without locks, program  *)
(* counters or goroutines: every operation on a file is one atomic step.   *)
(*                                                                         *)
(*  - an open buffer is indexed as of its last edit, at once;              *)
(*  - closing a buffer takes its text out of the index at once;            *)
(*  - a closed file is either not indexed, or indexed with what the disk   *)
(*    held at the moment of its last synchronisation.                      *)
(*                                                                         *)
(* Workspace implements it (Workspace!Contract), where a synchronisation   *)
(* takes several steps under workspaceMu.                                  *)
(***************************************************************************)
CONSTANTS File, Uri, Text, None, PathOf, Parse(_)

VARIABLES disk, buffer, index

vars == <<disk, buffer, index>>

(* Nothing is open and nothing is indexed when the server starts. *)
Init ==
    /\ disk \in [File -> Text \cup {None}]
    /\ buffer = [u \in Uri |-> None]
    /\ index = [u \in Uri |-> None]

(* didOpen, didChange and didSave: buffer and index move together. *)
Edit(u, t) ==
    /\ buffer' = [buffer EXCEPT ![u] = t]
    /\ index' = [index EXCEPT ![u] = Parse(t)]
    /\ UNCHANGED disk

(* didClose: the buffer's text leaves the index with the buffer. *)
Close(u) ==
    /\ buffer[u] # None
    /\ buffer' = [buffer EXCEPT ![u] = None]
    /\ index' = [index EXCEPT ![u] = None]
    /\ UNCHANGED disk

(* A closed file may be dropped from the index at any time. *)
Drop(u) ==
    /\ buffer[u] = None
    /\ index' = [index EXCEPT ![u] = None]
    /\ UNCHANGED <<disk, buffer>>

(* The disk is only ever read into the entry of a file that is not open.   *)
Sync(u) ==
    /\ buffer[u] = None
    /\ disk[PathOf[u]] # None
    /\ index' = [index EXCEPT ![u] = Parse(disk[PathOf[u]])]
    /\ UNCHANGED <<disk, buffer>>

(* Anything else on the machine may write or delete (None) a file. *)
DiskWrite(f, t) ==
    /\ disk' = [disk EXCEPT ![f] = t]
    /\ UNCHANGED <<buffer, index>>

Next ==
    \/ \E u \in Uri, t \in Text : Edit(u, t)
    \/ \E u \in Uri : Close(u) \/ Drop(u) \/ Sync(u)
    \/ \E f \in File, t \in Text \cup {None} : DiskWrite(f, t)

Spec == Init /\ [][Next]_vars

=============================================================================
