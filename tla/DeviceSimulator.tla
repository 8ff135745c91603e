-------------------------- MODULE DeviceSimulator ---------------------------
(***************************************************************************)
(* The command-line device: one boot across its reconnections.  On each    *)
(* connection a main loop, a heartbeat and one task per accepted command   *)
(* share one send lock and one sequence, and the main loop leaves before   *)
(* the upload token expires, once the accepted commands have drained.      *)
(*                                                                         *)
(* Source: tools/device_simulator/src/portero_simulator/client.py.  What a *)
(* capture uploads, and the backend, are CameraCapture's.                  *)
(***************************************************************************)
EXTENDS Naturals

CONSTANTS
  Commands,         \* requests of the backend, each sent once
  MaxConnections,   \* bound: connections of the boot
  MaxBeats          \* bound: heartbeats of the boot

ASSUME CommandsAreNoOthers == Commands \cap {"main", "heartbeat", "none"} = {}
ASSUME SimulatorBounds == MaxConnections \in Nat /\ MaxBeats \in Nat

VARIABLES
  phase,        \* where run_forever is
  connections,  \* connections so far
  link,         \* the connection, as the backend sees it
  clock,        \* of this connection: "fresh", reauthentication "due", token "expired"
  due,          \* reauthentication_due
  received,     \* the request the receive task holds, "none" if it holds none
  task,         \* where each command is
  owed,         \* history: requests taken from this connection whose answer, a rejection
                \* or the result, the socket has not taken
  left,         \* history: why the device leaves this connection
  seq,          \* _seq
  place,        \* where each sender's frame is
  number,       \* and its number, 0 before it has one and after it was written
  last,         \* number of the last frame the socket took
  beats         \* heartbeats so far

looping == <<phase, connections, link, clock, due, received, task, owed, left>>
frames == <<seq, place, number, last, beats>>
simulator == <<looping, frames>>

Senders == Commands \cup {"main", "heartbeat"}

SimulatorTypeOK ==
  /\ phase \in {"waiting", "hello", "auth", "status", "serving", "answering", "leaving"}
  /\ connections \in 0..MaxConnections
  /\ link \in {"up", "down"}
  /\ clock \in {"fresh", "due", "expired"} /\ due \in BOOLEAN
  /\ received \in Commands \cup {"none"}
  /\ task \in [Commands -> {"none", "asked", "accepting", "rejecting", "running",
                            "reporting", "uploading", "resulting", "ended"}]
  /\ owed \subseteq Commands
  /\ left \in {"none", "refresh", "ended"}
  /\ seq \in Nat /\ last \in Nat /\ beats \in 0..MaxBeats
  /\ place \in [Senders -> {"idle", "queued", "writing", "sent", "failed"}]
  /\ number \in [Senders -> Nat]
  /\ \A s, t \in Senders : place[s] = "writing" /\ place[t] = "writing" => s = t

SimulatorInit ==
  /\ phase = "waiting" /\ connections = 0 /\ link = "down"
  /\ clock = "fresh" /\ due = FALSE
  /\ received = "none" /\ task = [c \in Commands |-> "none"] /\ owed = {} /\ left = "none"
  /\ seq = 0 /\ last = 0 /\ beats = 0
  /\ place = [s \in Senders |-> "idle"] /\ number = [s \in Senders |-> 0]

-----------------------------------------------------------------------------
(* _send and _frame *)

BugNumberedAt(moment) == moment = "queued"
\* The frame is numbered with the lock held, so that numbers go out in order.
NumberedAt(moment) == moment = "writing"

Place(s, to) ==
  /\ place' = [place EXCEPT ![s] = to]
  /\ seq' = IF NumberedAt(to) THEN seq + 1 ELSE seq
  /\ number' = [number EXCEPT ![s] = IF NumberedAt(to) THEN seq'
                                      ELSE IF to \in {"queued", "writing"} THEN @ ELSE 0]

Send(s) == Place(s, "queued")

Writing == {s \in Senders : place[s] = "writing"}
LockFree == Writing = {}

Locks(s) ==
  /\ place[s] = "queued" /\ LockFree
  /\ Place(s, "writing")
  /\ UNCHANGED <<looping, last, beats>>

\* The socket takes the frame, or the connection is gone.
Writes(s) ==
  /\ place[s] = "writing" /\ link = "up"
  /\ Place(s, "sent")
  /\ last' = number[s]
  /\ UNCHANGED <<looping, beats>>

WriteFails(s) ==
  /\ place[s] = "writing" /\ link = "down"
  /\ Place(s, "failed")
  /\ UNCHANGED <<looping, last, beats>>

-----------------------------------------------------------------------------
(* run_forever, run_once and run_connection *)

Connect ==
  /\ phase = "waiting" /\ connections < MaxConnections
  /\ phase' = "hello" /\ connections' = connections + 1
  /\ link' = "up"
  /\ Send("main")
  /\ UNCHANGED <<clock, due, received, task, owed, left, last, beats>>

\* hello, challenge, auth.response, auth.ok, status: each frame and then its answer.
Handshake ==
  /\ place["main"] = "sent"
  /\ \/ /\ phase = "hello" /\ phase' = "auth" /\ Send("main") /\ UNCHANGED beats
     \/ /\ phase = "auth" /\ phase' = "status" /\ Send("main") /\ UNCHANGED beats
     \/ /\ phase = "status" /\ phase' = "serving" /\ Place("main", "idle") /\ UNCHANGED beats
  /\ UNCHANGED <<connections, link, clock, due, received, task, owed, left, last>>

Leave(why) == phase' = "leaving" /\ left' = why

\* A send of the main loop failed, or the socket ended before the answer.
MainFails ==
  /\ phase \in {"hello", "auth", "status", "answering"}
  /\ place["main"] = "failed" \/ (phase # "answering" /\ place["main"] = "sent" /\ link = "down")
  /\ Leave("ended")
  /\ Place("main", "idle")
  /\ UNCHANGED <<connections, link, clock, due, received, task, owed, last, beats>>

\* The heartbeat and the command tasks are cancelled and joined before the connection
\* is left; a frame cancelled inside the socket's send may have gone out.
CancelTask(s) ==
  /\ phase = "leaving" /\ place[s] # "idle"
  /\ Place(s, "idle")
  /\ last' \in {last} \cup (IF place[s] = "writing" /\ link = "up" THEN {number[s]} ELSE {})
  /\ UNCHANGED <<looping, beats>>

\* Nothing of the connection outlives it, the token and the refresh timer neither.
Left ==
  /\ phase = "leaving" /\ \A s \in Senders : place[s] = "idle"
  /\ phase' = "waiting" /\ link' = "down" /\ received' = "none"
  /\ clock' = "fresh" /\ due' = FALSE /\ owed' = {} /\ left' = "none"
  /\ task' = [c \in Commands |-> IF task[c] \in {"none", "ended"} THEN task[c] ELSE "ended"]
  /\ UNCHANGED <<connections, frames>>

-----------------------------------------------------------------------------
(* _heartbeat_loop *)

\* It ends, unnoticed until the connection is left, when a send of it fails.
Beat ==
  /\ phase \in {"serving", "answering"} /\ beats < MaxBeats
  /\ place["heartbeat"] \in {"idle", "sent"}
  /\ Send("heartbeat") /\ beats' = beats + 1
  /\ UNCHANGED <<looping, last>>

-----------------------------------------------------------------------------
(* _serve_commands *)

ServeStep ==
  /\ phase = "serving"
  /\ UNCHANGED <<connections, link, clock>>

\* The receive task takes the next request from the socket.
Receives(c) ==
  /\ phase \in {"serving", "answering"} /\ link = "up"
  /\ received = "none" /\ task[c] = "none"
  /\ received' = c
  /\ task' = [task EXCEPT ![c] = "asked"]
  /\ owed' = owed \cup {c}
  /\ UNCHANGED <<phase, connections, link, clock, due, left, frames>>

Refreshes ==
  /\ ServeStep /\ ~due /\ clock # "fresh"
  /\ due' = TRUE
  /\ UNCHANGED <<phase, received, task, owed, left, frames>>

\* _handle_command: rejected when the command is unknown, or its token cannot serve.
Answers ==
  /\ ServeStep /\ received # "none"
  /\ phase' = "answering"
  /\ \/ /\ ~due /\ clock # "expired"
        /\ task' = [task EXCEPT ![received] = "accepting"]
     \/ task' = [task EXCEPT ![received] = "rejecting"]
  /\ Send("main")
  /\ UNCHANGED <<due, received, owed, left, last, beats>>

\* Once the acknowledgement is out the accepted command has a task of its own.
Answered ==
  /\ phase = "answering" /\ place["main"] = "sent"
  /\ phase' = "serving" /\ received' = "none"
  /\ LET accepted == task[received] = "accepting" IN
       /\ task' = [task EXCEPT ![received] = IF accepted THEN "running" ELSE "ended"]
       /\ owed' = IF accepted THEN owed ELSE owed \ {received}
  /\ Place("main", "idle")
  /\ UNCHANGED <<connections, link, clock, due, left, last, beats>>

Executing == {c \in Commands : task[c] \in {"running", "reporting", "uploading", "resulting"}}

BugDrained == received = "none"
\* Nothing accepted is running, and the receive holds no request.
Drained == received = "none" /\ Executing = {}

LeavesToRefresh ==
  /\ ServeStep /\ due /\ Drained
  /\ Leave("refresh")
  /\ UNCHANGED <<due, received, task, owed, frames>>

\* The socket ends, cleanly or not.
ReceiveEnds ==
  /\ ServeStep /\ link = "down" /\ received = "none"
  /\ Leave("ended")
  /\ UNCHANGED <<due, received, task, owed, frames>>

-----------------------------------------------------------------------------
(* _execute_command *)

Working(c, from) == phase \in {"serving", "answering"} /\ task[c] = from

\* The next frame of a command's task.
SendsNext(c, to) ==
  /\ Send(c)
  /\ task' = [task EXCEPT ![c] = to]
  /\ UNCHANGED <<phase, connections, link, clock, due, received, owed, left, last, beats>>

\* device.status.request: the snapshot comes before the result.
Reports(c) == Working(c, "running") /\ SendsNext(c, "reporting")

EndsTask(c) ==
  /\ phase \in {"serving", "answering"}
  /\ task' = [task EXCEPT ![c] = "ended"]
  /\ Place(c, "idle")
  /\ UNCHANGED <<phase, connections, link, clock, due, received, left, last, beats>>

Resulted(c) ==
  /\ task[c] = "resulting" /\ place[c] = "sent"
  /\ EndsTask(c)
  /\ owed' = owed \ {c}

\* A send of the task fails: the task dies, and nobody answers the request.
TaskDies(c) ==
  /\ task[c] \in {"reporting", "resulting"} /\ place[c] = "failed"
  /\ EndsTask(c)
  /\ UNCHANGED owed

-----------------------------------------------------------------------------
(* Time and the network *)

Tick ==
  /\ phase \in {"serving", "answering"} /\ clock # "expired"
  /\ clock' = IF clock = "fresh" THEN "due" ELSE "expired"
  /\ UNCHANGED <<phase, connections, link, due, received, task, owed, left, frames>>

LinkDrops ==
  /\ link = "up" /\ link' = "down"
  /\ UNCHANGED <<phase, connections, clock, due, received, task, owed, left, frames>>

-----------------------------------------------------------------------------
(* Properties *)

\* The frames of a boot reach the socket in the order of their numbers, whichever
\* tasks wrote them and however often they were cancelled: the backend closes a
\* connection whose sequence does not grow.
FrameOrder == [][last' # last => last' > last]_frames

\* A planned reauthentication gives up no connection that still works while a request
\* taken from it is unanswered: the socket took a rejection or the result of each.  Of a
\* connection that is already lost the answers may be lost too: a task whose send failed
\* is only logged, and the device leaves all the same.
RefreshOwesNothing == left = "refresh" /\ link = "up" => owed = {}
=============================================================================
