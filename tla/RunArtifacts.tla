---------------------------- MODULE RunArtifacts ----------------------------
(***************************************************************************)
(* write_verification_run and list_verification_runs                       *)
(* (workspace/run_artifacts.py): a run is written to a staging directory   *)
(* and renamed.  The process may be killed between any two steps, and the  *)
(* machine may lose its power: then what was not fsynced may be lost.      *)
(*                                                                         *)
(* A directory is "none", "empty", or holds a run.json that is "partial"   *)
(* or "whole".  The directory of runs also holds an earlier run.           *)
(***************************************************************************)
VARIABLES
  staging,      \* the staging directory of the writer
  final,        \* the directory under the identity of the run
  synced,       \* what is on the disk for sure: the file, its entry, the name
  writer,       \* where the writer is
  reported      \* whether write_verification_run has returned
artifactVars == <<staging, final, synced, writer, reported>>

ArtifactInit ==
  staging = "none" /\ final = "none" /\ synced = {} /\ writer = "idle" /\ reported = FALSE

(* The identity is not taken yet, and its name begins with no dot.          *)
MakeStaging ==
  /\ writer = "idle" /\ final = "none"
  /\ staging' = "empty" /\ writer' = "create"
  /\ UNCHANGED <<final, synced, reported>>

CreateFile ==
  /\ writer = "create"
  /\ staging' = "partial" /\ writer' = "write"
  /\ UNCHANGED <<final, synced, reported>>

(* Mutant of WriteFile: the content is not flushed to the disk.             *)
WriteFileUnsynced ==
  /\ writer = "write"
  /\ staging' = "whole" /\ writer' = "reload"
  /\ UNCHANGED <<final, synced, reported>>

WriteFile ==
  /\ writer = "write"
  /\ staging' = "whole" /\ synced' = synced \cup {"file"} /\ writer' = "reload"
  /\ UNCHANGED <<final, reported>>

(* The staged file is read again; then the staging directory is fsynced.    *)
ReloadStaged ==
  /\ writer = "reload" /\ staging = "whole"
  /\ synced' = synced \cup {"entry"} /\ writer' = "rename"
  /\ UNCHANGED <<staging, final, reported>>

Rename ==
  /\ writer = "rename" /\ final = "none"
  /\ final' = staging /\ staging' = "none" /\ writer' = "sync_runs"
  /\ UNCHANGED <<synced, reported>>

SyncRuns ==
  /\ writer = "sync_runs"
  /\ synced' = synced \cup {"name"} /\ writer' = "verify"
  /\ UNCHANGED <<staging, final, reported>>

VerifyPublished ==
  /\ writer = "verify" /\ final = "whole"
  /\ reported' = TRUE /\ writer' = "written"
  /\ UNCHANGED <<staging, final, synced>>

(* A step that fails removes the staging directory; what was renamed stays. *)
WriteFails ==
  /\ writer \in {"idle", "create", "write", "reload", "rename", "sync_runs", "verify"}
  /\ staging' = "none" /\ writer' = "failed"
  /\ UNCHANGED <<final, synced, reported>>

Killed ==
  /\ writer \notin {"failed", "down"}
  /\ writer' = "down"
  /\ UNCHANGED <<staging, final, synced, reported>>

(* What a directory may hold when the machine is up again.                  *)
AfterPowerLoss(content) ==
  IF content = "none" THEN {"none"}
  ELSE {content} \cup (IF "file" \notin synced THEN {"empty", "partial"} ELSE {})
                 \cup (IF "entry" \notin synced THEN {"none", "empty"} ELSE {})

(* A rename that is not on the disk may be undone.                          *)
PowerLoss ==
  /\ writer \notin {"failed", "down"}
  /\ writer' = "down"
  /\ \E c \in AfterPowerLoss(IF final = "none" THEN staging ELSE final) :
       \/ final # "none" /\ final' = c /\ staging' = "none"
       \/ (final = "none" \/ "name" \notin synced) /\ staging' = c /\ final' = "none"
  /\ UNCHANGED <<synced, reported>>

WriteStep ==
  \/ MakeStaging \/ CreateFile \/ WriteFile \/ ReloadStaged \/ Rename \/ SyncRuns \/ VerifyPublished
  \/ WriteFails \/ Killed \/ PowerLoss
-----------------------------------------------------------------------------
(* list_verification_runs, in any process: hidden names are staging         *)
(* directories; one directory that is not a whole run fails the list.       *)
ListVerificationRuns ==
  IF final \notin {"none", "whole"} THEN {"error"}
  ELSE {"earlier"} \cup (IF final = "whole" THEN {"this"} ELSE {})

(* Whatever the writer was doing when its process or the machine went down, *)
(* the history can be listed; and a run whose path was returned is in it,   *)
(* also after a loss of power.                                              *)
HistoryStaysReadable ==
  /\ "earlier" \in ListVerificationRuns
  /\ reported => "this" \in ListVerificationRuns
=============================================================================
