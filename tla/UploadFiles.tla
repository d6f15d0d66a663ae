---------------------------- MODULE UploadFiles ----------------------------
(***************************************************************************)
(* The files under DATA_DIR that a task owns (src/app/audio.py): the       *)
(* scratch file .upload_<uuid> its POST body is written to, and its        *)
(* directory tmp/<task_id>/ with upload<suffix> in it.  Everything here    *)
(* survives the process.  audio.wav, which prepare_wav puts beside the     *)
(* upload, is always made again and is not kept.                           *)
(***************************************************************************)
EXTENDS TaskIds

VARIABLES tmp,        \* tmp/<task_id>: absent, without an upload, with its upload
          scratch     \* the tasks whose request still has its scratch file

fileVars == <<tmp, scratch>>

TmpState == {"none", "dir", "upload"}

UploadFilesTypeOK ==
  /\ tmp \in [Tasks -> TmpState]
  /\ scratch \subseteq Tasks

UploadFilesInit ==
  /\ tmp = [t \in Tasks |-> "none"]
  /\ scratch = {}

UploadExists(t) == tmp[t] = "upload"

\* mkdir(parents=True, exist_ok=True): leaves what is already there.
WithTmpDir(t) == IF tmp[t] = "none" THEN "dir" ELSE tmp[t]

create_tmp(t) ==
  /\ tmp' = [tmp EXCEPT ![t] = WithTmpDir(t)]
  /\ UNCHANGED scratch

\* src.replace(dest): the caller finds the scratch file still there.
place_upload(t) ==
  /\ tmp' = [tmp EXCEPT ![t] = "upload"]
  /\ scratch' = scratch \ {t}

cleanup_tmp(t) ==
  /\ tmp' = [tmp EXCEPT ![t] = "none"]
  /\ UNCHANGED scratch

\* Faulty variant: the walk over tmp/ looks for uploads and skips a directory without one.
CleanupUploadsOnly(keep) ==
  tmp' = [t \in Tasks |-> IF t \in keep \/ tmp[t] = "dir" THEN tmp[t] ELSE "none"]

\* What purge leaves of the directories: those of keep_ids.
cleanup_tmp_except(keep) == tmp' = [t \in Tasks |-> IF t \in keep THEN tmp[t] ELSE "none"]

\* The glob .upload_* has no exceptions.
cleanup_upload_scratch == scratch' = {}
============================================================================
