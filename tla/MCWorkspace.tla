---------------------------- MODULE MCWorkspace ----------------------------
(***************************************************************************)
(* Small workspaces for TLC.  "script" has no extension, so its shebang    *)
(* decides; "lib.sh" has one.  A file is spelled by its own name as a URI. *)
(***************************************************************************)
EXTENDS Workspace

CONSTANTS script, lib, plain, sh, none

(* One directory for each case of InWorkspace and of the walk. *)
MCDir == {"root", "node_modules", "elsewhere"}
MCRootDirs == {"root", "node_modules"}
MCSkippedDirs == {"node_modules"}

LibSkipped == [f \in {script, lib} |-> IF f = lib THEN "node_modules" ELSE "root"]
ScriptElsewhere == [f \in {script, lib} |-> IF f = script THEN "elsewhere" ELSE "root"]
OnlyScript == [f \in {script} |-> "root"]

Same == [f \in File |-> f]

(* The behaviours in which the disk only changes once the watcher is         *)
(* registered, so that the server is told of every change.                   *)
WatchedSpec == Init /\ [][Next /\ (disk' # disk => watching)]_vars

=============================================================================
