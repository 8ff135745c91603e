--------------------------- MODULE CameraCapture ----------------------------
(***************************************************************************)
(* A capture from end to end: the request and the replies travel on the    *)
(* device's WebSocket, the image on an HTTP request of its own, which may  *)
(* overtake the acknowledgement.  It composes the DeviceSimulator with the *)
(* MediaUpload of the backend.                                             *)
(*                                                                         *)
(* Source: the command tasks of portero_simulator/client.py, and the       *)
(* replies in backend/app/websocket/device.py.  The dispatcher, expiry and *)
(* trail of a command are CommandLifecycle's.                              *)
(***************************************************************************)
EXTENDS DeviceSimulator, MediaUpload, Sequences

CONSTANTS
  MaxFaults     \* bound: stops of the backend, lost connections and deadlines

ASSUME SomeAreCaptures == Captures \subseteq Commands
ASSUME FaultBound == MaxFaults \in Nat

VARIABLES
  status,       \* the backend's status of each command
  sentOn,       \* the connection each command was written to, 0 before
  uplink,       \* replies the device wrote and the backend has not read
  outcome,      \* what the result of each command says
  faults        \* those so far

backend == <<status, sentOn, uplink, faults>>
vars == <<simulator, storage, backend, outcome>>

Replies == [command : Commands, says : {"accepted", "rejected", "completed", "failed"}]

TypeOK ==
  /\ SimulatorTypeOK /\ UploadTypeOK
  /\ status \in [Commands -> {"idle", "SENT", "ACKNOWLEDGED", "COMPLETED", "ENDED"}]
  /\ sentOn \in [Commands -> 0..MaxConnections]
  /\ uplink \in Seq(Replies)
  /\ outcome \in [Commands -> {"none", "completed", "failed"}]
  /\ faults \in 0..MaxFaults

Init ==
  /\ SimulatorInit /\ UploadInit
  /\ status = [c \in Commands |-> "idle"] /\ uplink = <<>>
  /\ sentOn = [c \in Commands |-> 0]
  /\ outcome = [c \in Commands |-> "none"] /\ faults = 0

-----------------------------------------------------------------------------
(* The device *)

\* What a frame says to the backend; other frames only carry a number.
Says(s) ==
  IF s = "main"
  THEN IF phase # "answering" THEN <<>>
       ELSE <<[command |-> received,
               says |-> IF task[received] = "accepting" THEN "accepted" ELSE "rejected"]>>
  ELSE IF s = "heartbeat" \/ task[s] = "reporting" THEN <<>>
  ELSE <<[command |-> s, says |-> outcome[s]]>>

WritesFrame(s) ==
  /\ Writes(s)
  /\ uplink' = uplink \o Says(s)
  /\ UNCHANGED <<storage, status, sentOn, faults, outcome>>

\* A cancelled frame that went out all the same is read like any other.
CancelsTask(s) ==
  /\ CancelTask(s)
  /\ uplink' = IF last' # last THEN uplink \o Says(s) ELSE uplink
  /\ UNCHANGED <<storage, status, sentOn, faults, outcome>>

SimulatorMoves ==
  /\ \/ Handshake \/ MainFails \/ Beat \/ Refreshes \/ Answers \/ Left
     \/ Answered \/ LeavesToRefresh \/ ReceiveEnds \/ Tick
     \/ \E s \in Senders : Locks(s) \/ WriteFails(s)
     \/ \E c \in Commands : Resulted(c) \/ TaskDies(c) \/ (c \notin Captures /\ Reports(c))
  /\ UNCHANGED <<storage, backend, outcome>>

\* A request is lost with the connection it was written to.
TakesRequest(c) ==
  /\ sentOn[c] = connections /\ Receives(c)
  /\ UNCHANGED <<storage, backend, outcome>>

\* A new connection replaces the last one, and what of it was not read.
Connects ==
  /\ Connect
  /\ uplink' = <<>>
  /\ UNCHANGED <<storage, status, sentOn, faults, outcome>>

\* The result of a command.
Results(c, what) ==
  /\ SendsNext(c, "resulting")
  /\ outcome' = [outcome EXCEPT ![c] = what]
  /\ UNCHANGED <<storage, backend>>

\* The snapshot of the device is out: the result follows it.
StatusReported(c) ==
  /\ Working(c, "reporting") /\ place[c] = "sent"
  /\ Results(c, "completed")

\* The token expired before or while the image was loaded, or the image is no JPEG.
CaptureFails(c) ==
  /\ Working(c, "running") /\ c \in Captures
  /\ Results(c, "failed")

\* The token is checked once more before the upload begins.
UploadBegins(c) ==
  /\ Working(c, "running") /\ c \in Captures /\ clock # "expired"
  /\ task' = [task EXCEPT ![c] = "uploading"]
  /\ UNCHANGED <<phase, connections, link, clock, due, received, owed, left, frames>>
  /\ Requested(c)
  /\ UNCHANGED <<backend, outcome>>

BugSucceeded(c) == upload[c] \in {"saved", "created"}
\* Only a 201 answer makes a completed result.
Succeeded(c) == upload[c] = "created"

\* The answer of the upload, or the deadline of the client.
UploadEnds(c) ==
  /\ Working(c, "uploading")
  /\ \/ Succeeded(c) /\ Results(c, "completed")
     \/ Results(c, "failed")

-----------------------------------------------------------------------------
(* The backend *)

\* The connection's upload session, compared with the token of the request.
TokenMatches(c) == link = "up" /\ clock # "expired" /\ sentOn[c] = connections

\* The request is checked when it arrives: the acknowledgement may still be unread.
UploadArrives(c) ==
  /\ Admitted(c, status[c] \in {"ACKNOWLEDGED", "COMPLETED"} /\ TokenMatches(c))
  /\ UNCHANGED <<simulator, backend, outcome>>

UploadMovesOn(c) ==
  /\ Published(c) \/ StreamFails(c) \/ Committed(c) \/ CommitFails(c)
  /\ UNCHANGED <<simulator, backend, outcome>>

\* A command is committed as SENT and written to the device's connection.
CommandSent(c) ==
  /\ status[c] = "idle" /\ link = "up" /\ phase \in {"serving", "answering"}
  /\ status' = [status EXCEPT ![c] = "SENT"]
  /\ sentOn' = [sentOn EXCEPT ![c] = connections]
  /\ UNCHANGED <<simulator, storage, uplink, faults, outcome>>

\* acknowledge_command and complete_command: a reply out of order closes the socket.
NextStatus(c, says) ==
  CASE says = "accepted" /\ status[c] = "SENT" -> "ACKNOWLEDGED"
    [] says = "rejected" /\ status[c] = "SENT" -> "ENDED"
    [] says = "completed" /\ status[c] = "ACKNOWLEDGED" -> "COMPLETED"
    [] says = "failed" /\ status[c] = "ACKNOWLEDGED" -> "ENDED"
    [] OTHER -> "out of order"

BackendReads ==
  /\ uplink # <<>>
  /\ LET reply == Head(uplink)
         next == NextStatus(reply.command, reply.says)
     IN IF next = "out of order"
        THEN link' = "down" /\ uplink' = <<>> /\ UNCHANGED status
        ELSE /\ status' = [status EXCEPT ![reply.command] = next]
             /\ uplink' = Tail(uplink) /\ UNCHANGED link
  /\ UNCHANGED <<phase, connections, clock, due, received, task, owed, left, frames>>
  /\ UNCHANGED <<storage, sentOn, faults, outcome>>

Fault == faults < MaxFaults /\ faults' = faults + 1

\* The command's deadline passes, or its connection ends.
CommandEnds(c) ==
  /\ status[c] \in {"SENT", "ACKNOWLEDGED"}
  /\ Fault
  /\ status' = [status EXCEPT ![c] = "ENDED"]
  /\ UNCHANGED <<simulator, storage, sentOn, uplink, outcome>>

\* The backend may still read what the device wrote before.
ConnectionDrops ==
  /\ Fault /\ LinkDrops
  /\ UNCHANGED <<storage, status, sentOn, uplink, outcome>>

\* The process stops: its connections end with it.
Restart ==
  /\ Fault
  /\ BackendStops
  /\ link' = "down" /\ uplink' = <<>>
  /\ UNCHANGED <<phase, connections, clock, due, received, task, owed, left, frames>>
  /\ UNCHANGED <<status, sentOn, outcome>>

\* Bound: the device makes no further connection.
Stopped == phase = "waiting" /\ connections = MaxConnections /\ UNCHANGED vars

Next ==
  \/ SimulatorMoves \/ Connects
  \/ \E s \in Senders : WritesFrame(s) \/ CancelsTask(s)
  \/ \E c \in Commands : TakesRequest(c) \/ StatusReported(c) \/ CommandSent(c) \/ CommandEnds(c)
  \/ \E c \in Captures :
       CaptureFails(c) \/ UploadBegins(c) \/ UploadEnds(c) \/ UploadArrives(c) \/ UploadMovesOn(c)
  \/ BackendReads \/ ConnectionDrops \/ Restart \/ Stopped

Spec == Init /\ [][Next]_vars

-----------------------------------------------------------------------------
\* A capture the panel sees as COMPLETED has its media row and its image, although
\* the result and the image came on two channels that do not wait for each other.
CompletedHasMedia ==
  \A c \in Captures :
    status[c] = "COMPLETED" => media[c] /\ file[c] = "published"
=============================================================================
