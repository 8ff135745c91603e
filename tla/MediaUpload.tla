---------------------------- MODULE MediaUpload -----------------------------
(***************************************************************************)
(* The upload of a capture: the request is checked once, the body streams  *)
(* into a temporary file that is published by a rename, and then the media *)
(* row is committed, or the file removed.                                  *)
(*                                                                         *)
(* Source: backend/app/api/routes/media.py, backend/app/media/storage.py.  *)
(***************************************************************************)
CONSTANT Captures       \* the camera.capture commands: the device uploads each once

VARIABLES
  upload,       \* where each command's request is
  file,         \* its file under the media root
  media,        \* its media row is committed
  ambiguous,    \* history: its commit reported a failure and had succeeded
  stranded      \* history: the backend stopped during its request, or could not undo it

storage == <<upload, file, media, ambiguous, stranded>>

UploadTypeOK ==
  /\ upload \in [Captures -> {"none", "requested", "streaming", "saved", "created", "refused"}]
  /\ file \in [Captures -> {"none", "temporary", "published"}]
  /\ media \in [Captures -> BOOLEAN]
  /\ ambiguous \subseteq Captures /\ stranded \subseteq Captures

UploadInit ==
  /\ upload = [c \in Captures |-> "none"]
  /\ file = [c \in Captures |-> "none"]
  /\ media = [c \in Captures |-> FALSE]
  /\ ambiguous = {} /\ stranded = {}

UploadMoves(c, from, to) == upload[c] = from /\ upload' = [upload EXCEPT ![c] = to]
Stored(c, what) == file' = [file EXCEPT ![c] = what]

\* The device posts the image.
Requested(c) ==
  /\ UploadMoves(c, "none", "requested")
  /\ UNCHANGED <<file, media, ambiguous, stranded>>

\* upload_device_media up to the body: the command and the token of its device.
Admitted(c, allowed) ==
  IF allowed
  THEN UploadMoves(c, "requested", "streaming") /\ Stored(c, "temporary")
         /\ UNCHANGED <<media, ambiguous, stranded>>
  ELSE UploadMoves(c, "requested", "refused") /\ UNCHANGED <<file, media, ambiguous, stranded>>

\* save_jpeg: the whole body, flushed and renamed.
Published(c) ==
  /\ UploadMoves(c, "streaming", "saved")
  /\ Stored(c, "published")
  /\ UNCHANGED <<media, ambiguous, stranded>>

\* Too large, no JPEG, or the client went away.
StreamFails(c) ==
  /\ UploadMoves(c, "streaming", "refused")
  /\ Stored(c, "none")
  /\ UNCHANGED <<media, ambiguous, stranded>>

\* The event and the media row.
Committed(c) ==
  /\ UploadMoves(c, "saved", "created")
  /\ media' = [media EXCEPT ![c] = TRUE]
  /\ UNCHANGED <<file, ambiguous, stranded>>

BugDiscards(c) == UNCHANGED file
Discards(c) == Stored(c, "none")

\* The commit fails or is cancelled, perhaps after the database had taken it.  The
\* rollback comes before the file: when it fails or is cancelled, or the removal of the
\* file fails, the file stays.
CommitFails(c) ==
  /\ UploadMoves(c, "saved", "refused")
  /\ \/ Discards(c) /\ UNCHANGED stranded
     \/ stranded' = stranded \cup {c} /\ UNCHANGED file
  /\ \/ UNCHANGED <<media, ambiguous>>
     \/ media' = [media EXCEPT ![c] = TRUE] /\ ambiguous' = ambiguous \cup {c}

InProgress == {c \in Captures : upload[c] \in {"requested", "streaming", "saved"}}

\* The backend stops: requests end where they are, a commit may have been taken.
BackendStops ==
  /\ stranded' = stranded \cup InProgress
  /\ upload' = [c \in Captures |-> IF c \in InProgress THEN "refused" ELSE upload[c]]
  /\ \E taken \in SUBSET {c \in Captures : upload[c] = "saved"} :
       media' = [c \in Captures |-> media[c] \/ c \in taken]
  /\ UNCHANGED <<file, ambiguous>>

-----------------------------------------------------------------------------
\* A media row has its file, even across a stop of the backend, unless the commit
\* that reported a failure had succeeded; and no file is left without a row but by a
\* request that the backend did not live to finish or whose rollback failed too.
FileMatchesRow ==
  \A c \in Captures :
    /\ media[c] /\ c \notin ambiguous => file[c] = "published"
    /\ c \notin InProgress \cup stranded /\ ~media[c] => file[c] = "none"
=============================================================================
