---------------------- MODULE CameraCapture_proofs ----------------------
(***************************************************************************)
(* The safety properties of a capture from end to end, proved for any      *)
(* commands and captures and any number of connections, heartbeats and     *)
(* faults.                                                                 *)
(***************************************************************************)
EXTENDS CameraCapture, SequenceTheorems, TLAPS

USE CommandsAreNoOthers, SimulatorBounds, SomeAreCaptures, FaultBound
USE DEF looping, frames, simulator, storage, backend, Senders

\* What a step of the device alone leaves unchanged.
Rest == UNCHANGED <<storage, backend, outcome>>

-----------------------------------------------------------------------------
(* The inductive invariant *)

\* The frame being written is the latest that the socket does not have.
FrameInv ==
  /\ last <= seq
  /\ \A s \in Senders : place[s] = "writing" => last < number[s] /\ number[s] <= seq

\* A frame fails only on a connection that is gone, and none outlives it.
LinkInv ==
  /\ \A s \in Senders : place[s] = "failed" => link = "down"
  /\ phase = "waiting" => \A s \in Senders : place[s] = "idle"

\* A connection that works owes an answer only to what it executes and to the request it
\* holds.
LoopInv ==
  /\ phase = "answering" => received # "none"
  /\ received # "none" =>
       task[received] \in IF phase = "serving" THEN {"asked"} ELSE {"asked", "accepting", "rejecting"}
  /\ phase \in {"waiting", "hello", "auth", "status"} => received = "none"
  /\ phase \in {"waiting", "hello", "auth", "status"} => owed = {}
  /\ phase \in {"serving", "answering"} /\ link = "up" => owed \subseteq Executing \cup {received}
  /\ left = "refresh" => phase = "leaving"
  /\ RefreshOwesNothing

\* The file and the row of a capture follow its request.
FileInv ==
  /\ \A c \in Captures :
       /\ upload[c] \in {"none", "requested"} => file[c] = "none" /\ ~media[c]
       /\ upload[c] = "streaming" => ~media[c]
       /\ upload[c] = "saved" => file[c] = "published" /\ ~media[c]
       /\ upload[c] = "created" => file[c] = "published" /\ media[c]
  /\ FileMatchesRow

\* A reply that the backend may believe.
Truthful == {r \in Replies :
  r.says = "completed" /\ r.command \in Captures => upload[r.command] = "created"}

\* A capture is completed only for an upload that was created, in the task that says
\* so, on the way to the backend, and in its status.
Claims ==
  /\ \A c \in Commands : place[c] # "idle" /\ task[c] # "reporting" => outcome[c] # "none"
  /\ \A c \in Captures : task[c] # "reporting"
  /\ \A c \in Captures : outcome[c] = "completed" => upload[c] = "created"
  /\ \A c \in Captures : status[c] = "COMPLETED" => upload[c] = "created"

ReplyInv == Claims /\ uplink \in Seq(Truthful)

IInv == TypeOK /\ FrameInv /\ LinkInv /\ LoopInv /\ FileInv /\ ReplyInv

-----------------------------------------------------------------------------
(* Frames *)

\* Whoever places a frame, the types of the frames are kept.
LEMMA PlaceType ==
  ASSUME SimulatorTypeOK, NEW s \in Senders, NEW to \in {"idle", "queued", "writing", "sent", "failed"},
         Place(s, to)
  PROVE  /\ place' \in [Senders -> {"idle", "queued", "writing", "sent", "failed"}]
         /\ number' \in [Senders -> Nat]
         /\ seq' \in Nat
  BY DEF SimulatorTypeOK, Place, NumberedAt

\* A frame that was written has a number and a successor a later one.
LEMMA FrameStep == TypeOK /\ FrameInv /\ [Next]_vars => FrameInv'
<1>. SUFFICES ASSUME TypeOK, FrameInv, [Next]_vars PROVE FrameInv'
  OBVIOUS
<1>. USE DEF TypeOK, SimulatorTypeOK, FrameInv, Rest, Place, Send, NumberedAt, ServeStep, EndsTask, SendsNext
<1>1. CASE Handshake /\ Rest
  BY <1>1 DEF Handshake
<1>2. CASE MainFails /\ Rest
  BY <1>2 DEF MainFails, Leave
<1>3. CASE Beat /\ Rest
  BY <1>3 DEF Beat
<1>4. CASE Refreshes /\ Rest
  BY <1>4 DEF Refreshes
<1>5. CASE Answers /\ Rest
  BY <1>5 DEF Answers
<1>6. CASE Left /\ Rest
  BY <1>6 DEF Left
<1>7. CASE Answered /\ Rest
  BY <1>7 DEF Answered
<1>8. CASE LeavesToRefresh /\ Rest
  BY <1>8 DEF LeavesToRefresh, Leave, Drained
<1>9. CASE ReceiveEnds /\ Rest
  BY <1>9 DEF ReceiveEnds, Leave
<1>10. CASE Tick /\ Rest
  BY <1>10 DEF Tick
<1>11. ASSUME NEW s \in Senders, Locks(s), Rest PROVE FrameInv'
  BY <1>11 DEF Locks
<1>12. ASSUME NEW s \in Senders, WriteFails(s), Rest PROVE FrameInv'
  BY <1>12 DEF WriteFails
<1>13. ASSUME NEW c \in Commands, Resulted(c), Rest PROVE FrameInv'
  BY <1>13 DEF Resulted
<1>14. ASSUME NEW c \in Commands, TaskDies(c), Rest PROVE FrameInv'
  BY <1>14 DEF TaskDies
<1>15. ASSUME NEW c \in Commands \ Captures, Reports(c), Rest PROVE FrameInv'
  BY <1>15 DEF Reports, Working
<1>16. CASE Connects
  BY <1>16 DEF Connects, Connect
<1>17. ASSUME NEW s \in Senders, WritesFrame(s) PROVE FrameInv'
  BY <1>17 DEF WritesFrame, Writes
<1>18. ASSUME NEW s \in Senders, CancelsTask(s) PROVE FrameInv'
  BY <1>18 DEF CancelsTask, CancelTask
<1>19. ASSUME NEW c \in Commands, TakesRequest(c) PROVE FrameInv'
  BY <1>19 DEF TakesRequest, Receives
<1>20. ASSUME NEW c \in Commands, StatusReported(c) PROVE FrameInv'
  BY <1>20 DEF StatusReported, Working, Results
<1>21. ASSUME NEW c \in Commands, CommandSent(c) PROVE FrameInv'
  BY <1>21 DEF CommandSent
<1>22. ASSUME NEW c \in Commands, CommandEnds(c) PROVE FrameInv'
  BY <1>22 DEF CommandEnds, Fault
<1>23. ASSUME NEW c \in Captures, CaptureFails(c) PROVE FrameInv'
  BY <1>23 DEF CaptureFails, Working, Results
<1>24. ASSUME NEW c \in Captures, UploadBegins(c) PROVE FrameInv'
  BY <1>24 DEF UploadBegins, Working, Requested
<1>25. ASSUME NEW c \in Captures, UploadEnds(c) PROVE FrameInv'
  BY <1>25 DEF UploadEnds, Working, Results
<1>26. ASSUME NEW c \in Captures, UploadArrives(c) PROVE FrameInv'
  BY <1>26 DEF UploadArrives, Admitted
<1>27. ASSUME NEW c \in Captures, UploadMovesOn(c) PROVE FrameInv'
  BY <1>27 DEF UploadMovesOn, Published, StreamFails, Committed, CommitFails, Discards
<1>28. CASE BackendReads
  BY <1>28 DEF BackendReads
<1>29. CASE ConnectionDrops
  BY <1>29 DEF ConnectionDrops, Fault, LinkDrops
<1>30. CASE Restart
  BY <1>30 DEF Restart, Fault, BackendStops
<1>31. CASE UNCHANGED vars
  BY <1>31 DEF vars
<1>. QED
  BY <1>1, <1>2, <1>3, <1>4, <1>5, <1>6, <1>7, <1>8, <1>9, <1>10, <1>11, <1>12, <1>13,
     <1>14, <1>15, <1>16, <1>17, <1>18, <1>19, <1>20, <1>21, <1>22, <1>23, <1>24,
     <1>25, <1>26, <1>27, <1>28, <1>29, <1>30, <1>31
  DEF Next, SimulatorMoves, Stopped, Rest

\* A connection that is up has refused no frame.
LEMMA LinkStep == TypeOK /\ LinkInv /\ [Next]_vars => LinkInv'
<1>. SUFFICES ASSUME TypeOK, LinkInv, [Next]_vars PROVE LinkInv'
  OBVIOUS
<1>. USE DEF TypeOK, SimulatorTypeOK, LinkInv, Rest, Place, Send, ServeStep, EndsTask, SendsNext
<1>1. CASE Handshake /\ Rest
  BY <1>1 DEF Handshake
<1>2. CASE MainFails /\ Rest
  BY <1>2 DEF MainFails, Leave
<1>3. CASE Beat /\ Rest
  BY <1>3 DEF Beat
<1>4. CASE Refreshes /\ Rest
  BY <1>4 DEF Refreshes
<1>5. CASE Answers /\ Rest
  BY <1>5 DEF Answers
<1>6. CASE Left /\ Rest
  BY <1>6 DEF Left
<1>7. CASE Answered /\ Rest
  BY <1>7 DEF Answered
<1>8. CASE LeavesToRefresh /\ Rest
  BY <1>8 DEF LeavesToRefresh, Leave, Drained
<1>9. CASE ReceiveEnds /\ Rest
  BY <1>9 DEF ReceiveEnds, Leave
<1>10. CASE Tick /\ Rest
  BY <1>10 DEF Tick
<1>11. ASSUME NEW s \in Senders, Locks(s), Rest PROVE LinkInv'
  BY <1>11 DEF Locks
<1>12. ASSUME NEW s \in Senders, WriteFails(s), Rest PROVE LinkInv'
  BY <1>12 DEF WriteFails
<1>13. ASSUME NEW c \in Commands, Resulted(c), Rest PROVE LinkInv'
  BY <1>13 DEF Resulted
<1>14. ASSUME NEW c \in Commands, TaskDies(c), Rest PROVE LinkInv'
  BY <1>14 DEF TaskDies
<1>15. ASSUME NEW c \in Commands \ Captures, Reports(c), Rest PROVE LinkInv'
  BY <1>15 DEF Reports, Working
<1>16. CASE Connects
  BY <1>16 DEF Connects, Connect
<1>17. ASSUME NEW s \in Senders, WritesFrame(s) PROVE LinkInv'
  BY <1>17 DEF WritesFrame, Writes
<1>18. ASSUME NEW s \in Senders, CancelsTask(s) PROVE LinkInv'
  BY <1>18 DEF CancelsTask, CancelTask
<1>19. ASSUME NEW c \in Commands, TakesRequest(c) PROVE LinkInv'
  BY <1>19 DEF TakesRequest, Receives
<1>20. ASSUME NEW c \in Commands, StatusReported(c) PROVE LinkInv'
  BY <1>20 DEF StatusReported, Working, Results
<1>21. ASSUME NEW c \in Commands, CommandSent(c) PROVE LinkInv'
  BY <1>21 DEF CommandSent
<1>22. ASSUME NEW c \in Commands, CommandEnds(c) PROVE LinkInv'
  BY <1>22 DEF CommandEnds, Fault
<1>23. ASSUME NEW c \in Captures, CaptureFails(c) PROVE LinkInv'
  BY <1>23 DEF CaptureFails, Working, Results
<1>24. ASSUME NEW c \in Captures, UploadBegins(c) PROVE LinkInv'
  BY <1>24 DEF UploadBegins, Working, Requested
<1>25. ASSUME NEW c \in Captures, UploadEnds(c) PROVE LinkInv'
  BY <1>25 DEF UploadEnds, Working, Results
<1>26. ASSUME NEW c \in Captures, UploadArrives(c) PROVE LinkInv'
  BY <1>26 DEF UploadArrives, Admitted
<1>27. ASSUME NEW c \in Captures, UploadMovesOn(c) PROVE LinkInv'
  BY <1>27 DEF UploadMovesOn, Published, StreamFails, Committed, CommitFails, Discards
<1>28. CASE BackendReads
  BY <1>28 DEF BackendReads
<1>29. CASE ConnectionDrops
  BY <1>29 DEF ConnectionDrops, Fault, LinkDrops
<1>30. CASE Restart
  BY <1>30 DEF Restart, Fault, BackendStops
<1>31. CASE UNCHANGED vars
  BY <1>31 DEF vars
<1>. QED
  BY <1>1, <1>2, <1>3, <1>4, <1>5, <1>6, <1>7, <1>8, <1>9, <1>10, <1>11, <1>12, <1>13,
     <1>14, <1>15, <1>16, <1>17, <1>18, <1>19, <1>20, <1>21, <1>22, <1>23, <1>24,
     <1>25, <1>26, <1>27, <1>28, <1>29, <1>30, <1>31
  DEF Next, SimulatorMoves, Stopped, Rest

\* A connection that works and is left to reauthenticate has answered all it took.
LEMMA LoopStep == TypeOK /\ LinkInv /\ LoopInv /\ [Next]_vars => LoopInv'
<1>. SUFFICES ASSUME TypeOK, LinkInv, LoopInv, [Next]_vars PROVE LoopInv'
  OBVIOUS
<1>. USE DEF TypeOK, SimulatorTypeOK, LoopInv, RefreshOwesNothing, Executing, Rest, ServeStep,
             EndsTask, SendsNext
<1>1. CASE Handshake /\ Rest
  BY <1>1 DEF Handshake
<1>2. CASE MainFails /\ Rest
  BY <1>2 DEF MainFails, Leave
<1>3. CASE Beat /\ Rest
  BY <1>3 DEF Beat
<1>4. CASE Refreshes /\ Rest
  BY <1>4 DEF Refreshes
<1>5. CASE Answers /\ Rest
  BY <1>5 DEF Answers
<1>6. CASE Left /\ Rest
  BY <1>6 DEF Left
<1>7. CASE Answered /\ Rest
  BY <1>7 DEF Answered
<1>8. CASE LeavesToRefresh /\ Rest
  BY <1>8 DEF LeavesToRefresh, Leave, Drained
<1>9. CASE ReceiveEnds /\ Rest
  BY <1>9 DEF ReceiveEnds, Leave
<1>10. CASE Tick /\ Rest
  BY <1>10 DEF Tick
<1>11. ASSUME NEW s \in Senders, Locks(s), Rest PROVE LoopInv'
  BY <1>11 DEF Locks
<1>12. ASSUME NEW s \in Senders, WriteFails(s), Rest PROVE LoopInv'
  BY <1>12 DEF WriteFails
<1>13. ASSUME NEW c \in Commands, Resulted(c), Rest PROVE LoopInv'
  BY <1>13 DEF Resulted
<1>14. ASSUME NEW c \in Commands, TaskDies(c), Rest PROVE LoopInv'
  <2>1. c \in Senders /\ link = "down"
    BY <1>14 DEF TaskDies, LinkInv
  <2>. QED
    BY <1>14, <2>1 DEF TaskDies
<1>15. ASSUME NEW c \in Commands \ Captures, Reports(c), Rest PROVE LoopInv'
  BY <1>15 DEF Reports, Working
<1>16. CASE Connects
  BY <1>16 DEF Connects, Connect
<1>17. ASSUME NEW s \in Senders, WritesFrame(s) PROVE LoopInv'
  BY <1>17 DEF WritesFrame, Writes
<1>18. ASSUME NEW s \in Senders, CancelsTask(s) PROVE LoopInv'
  BY <1>18 DEF CancelsTask, CancelTask
<1>19. ASSUME NEW c \in Commands, TakesRequest(c) PROVE LoopInv'
  BY <1>19 DEF TakesRequest, Receives
<1>20. ASSUME NEW c \in Commands, StatusReported(c) PROVE LoopInv'
  BY <1>20 DEF StatusReported, Working, Results
<1>21. ASSUME NEW c \in Commands, CommandSent(c) PROVE LoopInv'
  BY <1>21 DEF CommandSent
<1>22. ASSUME NEW c \in Commands, CommandEnds(c) PROVE LoopInv'
  BY <1>22 DEF CommandEnds, Fault
<1>23. ASSUME NEW c \in Captures, CaptureFails(c) PROVE LoopInv'
  BY <1>23 DEF CaptureFails, Working, Results
<1>24. ASSUME NEW c \in Captures, UploadBegins(c) PROVE LoopInv'
  BY <1>24 DEF UploadBegins, Working, Requested
<1>25. ASSUME NEW c \in Captures, UploadEnds(c) PROVE LoopInv'
  <2>1. Working(c, "uploading") /\ SendsNext(c, "resulting")
    BY <1>25 DEF UploadEnds, Results
  <2>. QED
    BY <2>1 DEF Working
<1>26. ASSUME NEW c \in Captures, UploadArrives(c) PROVE LoopInv'
  BY <1>26 DEF UploadArrives, Admitted
<1>27. ASSUME NEW c \in Captures, UploadMovesOn(c) PROVE LoopInv'
  BY <1>27 DEF UploadMovesOn, Published, StreamFails, Committed, CommitFails, Discards
<1>28. CASE BackendReads
  BY <1>28 DEF BackendReads
<1>29. CASE ConnectionDrops
  BY <1>29 DEF ConnectionDrops, Fault, LinkDrops
<1>30. CASE Restart
  BY <1>30 DEF Restart, Fault, BackendStops
<1>31. CASE UNCHANGED vars
  BY <1>31 DEF vars
<1>. QED
  BY <1>1, <1>2, <1>3, <1>4, <1>5, <1>6, <1>7, <1>8, <1>9, <1>10, <1>11, <1>12, <1>13,
     <1>14, <1>15, <1>16, <1>17, <1>18, <1>19, <1>20, <1>21, <1>22, <1>23, <1>24,
     <1>25, <1>26, <1>27, <1>28, <1>29, <1>30, <1>31
  DEF Next, SimulatorMoves, Stopped, Rest

\* A file is published before its row is committed, and removed when it is not.
LEMMA FileStep == TypeOK /\ FileInv /\ [Next]_vars => FileInv'
<1>. SUFFICES ASSUME TypeOK, FileInv, [Next]_vars PROVE FileInv'
  OBVIOUS
<1>. USE DEF TypeOK, UploadTypeOK, FileInv, FileMatchesRow, InProgress, Rest, UploadMoves, Stored
<1>1. CASE Handshake /\ Rest
  BY <1>1 DEF Handshake
<1>2. CASE MainFails /\ Rest
  BY <1>2 DEF MainFails, Leave
<1>3. CASE Beat /\ Rest
  BY <1>3 DEF Beat
<1>4. CASE Refreshes /\ Rest
  BY <1>4 DEF Refreshes
<1>5. CASE Answers /\ Rest
  BY <1>5 DEF Answers
<1>6. CASE Left /\ Rest
  BY <1>6 DEF Left
<1>7. CASE Answered /\ Rest
  BY <1>7 DEF Answered
<1>8. CASE LeavesToRefresh /\ Rest
  BY <1>8 DEF LeavesToRefresh, Leave, Drained
<1>9. CASE ReceiveEnds /\ Rest
  BY <1>9 DEF ReceiveEnds, Leave
<1>10. CASE Tick /\ Rest
  BY <1>10 DEF Tick
<1>11. ASSUME NEW s \in Senders, Locks(s), Rest PROVE FileInv'
  BY <1>11 DEF Locks
<1>12. ASSUME NEW s \in Senders, WriteFails(s), Rest PROVE FileInv'
  BY <1>12 DEF WriteFails
<1>13. ASSUME NEW c \in Commands, Resulted(c), Rest PROVE FileInv'
  BY <1>13 DEF Resulted
<1>14. ASSUME NEW c \in Commands, TaskDies(c), Rest PROVE FileInv'
  BY <1>14 DEF TaskDies
<1>15. ASSUME NEW c \in Commands \ Captures, Reports(c), Rest PROVE FileInv'
  BY <1>15 DEF Reports, Working
<1>16. CASE Connects
  BY <1>16 DEF Connects, Connect
<1>17. ASSUME NEW s \in Senders, WritesFrame(s) PROVE FileInv'
  BY <1>17 DEF WritesFrame, Writes
<1>18. ASSUME NEW s \in Senders, CancelsTask(s) PROVE FileInv'
  BY <1>18 DEF CancelsTask, CancelTask
<1>19. ASSUME NEW c \in Commands, TakesRequest(c) PROVE FileInv'
  BY <1>19 DEF TakesRequest, Receives
<1>20. ASSUME NEW c \in Commands, StatusReported(c) PROVE FileInv'
  BY <1>20 DEF StatusReported, Working, Results
<1>21. ASSUME NEW c \in Commands, CommandSent(c) PROVE FileInv'
  BY <1>21 DEF CommandSent
<1>22. ASSUME NEW c \in Commands, CommandEnds(c) PROVE FileInv'
  BY <1>22 DEF CommandEnds, Fault
<1>23. ASSUME NEW c \in Captures, CaptureFails(c) PROVE FileInv'
  BY <1>23 DEF CaptureFails, Working, Results
<1>24. ASSUME NEW c \in Captures, UploadBegins(c) PROVE FileInv'
  BY <1>24 DEF UploadBegins, Working, Requested
<1>25. ASSUME NEW c \in Captures, UploadEnds(c) PROVE FileInv'
  BY <1>25 DEF UploadEnds, Working, Results
<1>26. ASSUME NEW c \in Captures, UploadArrives(c) PROVE FileInv'
  BY <1>26 DEF UploadArrives, Admitted
<1>27. ASSUME NEW c \in Captures, UploadMovesOn(c) PROVE FileInv'
  <2>. USE DEF UploadMovesOn
  <2>1. CASE Published(c)
    BY <1>27, <2>1 DEF Published
  <2>2. CASE StreamFails(c)
    BY <1>27, <2>2 DEF StreamFails
  <2>3. CASE Committed(c)
    BY <1>27, <2>3 DEF Committed
  <2>4. CASE CommitFails(c)
    BY <1>27, <2>4 DEF CommitFails, Discards
  <2>. QED
    BY <1>27, <2>1, <2>2, <2>3, <2>4
<1>28. CASE BackendReads
  BY <1>28 DEF BackendReads
<1>29. CASE ConnectionDrops
  BY <1>29 DEF ConnectionDrops, Fault, LinkDrops
<1>30. CASE Restart
  BY <1>30 DEF Restart, Fault, BackendStops
<1>31. CASE UNCHANGED vars
  BY <1>31 DEF vars
<1>. QED
  BY <1>1, <1>2, <1>3, <1>4, <1>5, <1>6, <1>7, <1>8, <1>9, <1>10, <1>11, <1>12, <1>13,
     <1>14, <1>15, <1>16, <1>17, <1>18, <1>19, <1>20, <1>21, <1>22, <1>23, <1>24,
     <1>25, <1>26, <1>27, <1>28, <1>29, <1>30, <1>31
  DEF Next, SimulatorMoves, Stopped, Rest

-----------------------------------------------------------------------------
(* Replies *)

\* An upload that was created stays created.
LEMMA CreatedStays ==
  TypeOK /\ [Next]_vars => \A b \in Captures : upload[b] = "created" => upload'[b] = "created"
<1>. SUFFICES ASSUME TypeOK, [Next]_vars, NEW b \in Captures, upload[b] = "created"
              PROVE upload'[b] = "created"
  OBVIOUS
<1>. USE DEF TypeOK, UploadTypeOK, UploadMoves, InProgress, Rest
<1>1. CASE Handshake /\ Rest
  BY <1>1 DEF Handshake
<1>2. CASE MainFails /\ Rest
  BY <1>2 DEF MainFails, Leave
<1>3. CASE Beat /\ Rest
  BY <1>3 DEF Beat
<1>4. CASE Refreshes /\ Rest
  BY <1>4 DEF Refreshes
<1>5. CASE Answers /\ Rest
  BY <1>5 DEF Answers
<1>6. CASE Left /\ Rest
  BY <1>6 DEF Left
<1>7. CASE Answered /\ Rest
  BY <1>7 DEF Answered
<1>8. CASE LeavesToRefresh /\ Rest
  BY <1>8 DEF LeavesToRefresh, Leave, Drained
<1>9. CASE ReceiveEnds /\ Rest
  BY <1>9 DEF ReceiveEnds, Leave
<1>10. CASE Tick /\ Rest
  BY <1>10 DEF Tick
<1>11. ASSUME NEW s \in Senders, Locks(s), Rest PROVE upload'[b] = "created"
  BY <1>11 DEF Locks
<1>12. ASSUME NEW s \in Senders, WriteFails(s), Rest PROVE upload'[b] = "created"
  BY <1>12 DEF WriteFails
<1>13. ASSUME NEW c \in Commands, Resulted(c), Rest PROVE upload'[b] = "created"
  BY <1>13 DEF Resulted
<1>14. ASSUME NEW c \in Commands, TaskDies(c), Rest PROVE upload'[b] = "created"
  BY <1>14 DEF TaskDies
<1>15. ASSUME NEW c \in Commands \ Captures, Reports(c), Rest PROVE upload'[b] = "created"
  BY <1>15 DEF Reports, Working
<1>16. CASE Connects
  BY <1>16 DEF Connects, Connect
<1>17. ASSUME NEW s \in Senders, WritesFrame(s) PROVE upload'[b] = "created"
  BY <1>17 DEF WritesFrame, Writes
<1>18. ASSUME NEW s \in Senders, CancelsTask(s) PROVE upload'[b] = "created"
  BY <1>18 DEF CancelsTask, CancelTask
<1>19. ASSUME NEW c \in Commands, TakesRequest(c) PROVE upload'[b] = "created"
  BY <1>19 DEF TakesRequest, Receives
<1>20. ASSUME NEW c \in Commands, StatusReported(c) PROVE upload'[b] = "created"
  BY <1>20 DEF StatusReported, Working, Results
<1>21. ASSUME NEW c \in Commands, CommandSent(c) PROVE upload'[b] = "created"
  BY <1>21 DEF CommandSent
<1>22. ASSUME NEW c \in Commands, CommandEnds(c) PROVE upload'[b] = "created"
  BY <1>22 DEF CommandEnds, Fault
<1>23. ASSUME NEW c \in Captures, CaptureFails(c) PROVE upload'[b] = "created"
  BY <1>23 DEF CaptureFails, Working, Results
<1>24. ASSUME NEW c \in Captures, UploadBegins(c) PROVE upload'[b] = "created"
  BY <1>24 DEF UploadBegins, Working, Requested
<1>25. ASSUME NEW c \in Captures, UploadEnds(c) PROVE upload'[b] = "created"
  BY <1>25 DEF UploadEnds, Working, Results
<1>26. ASSUME NEW c \in Captures, UploadArrives(c) PROVE upload'[b] = "created"
  BY <1>26 DEF UploadArrives, Admitted
<1>27. ASSUME NEW c \in Captures, UploadMovesOn(c) PROVE upload'[b] = "created"
  BY <1>27 DEF UploadMovesOn, Published, StreamFails, Committed, CommitFails, Discards
<1>28. CASE BackendReads
  BY <1>28 DEF BackendReads
<1>29. CASE ConnectionDrops
  BY <1>29 DEF ConnectionDrops, Fault, LinkDrops
<1>30. CASE Restart
  BY <1>30 DEF Restart, Fault, BackendStops
<1>31. CASE UNCHANGED vars
  BY <1>31 DEF vars
<1>. QED
  BY <1>1, <1>2, <1>3, <1>4, <1>5, <1>6, <1>7, <1>8, <1>9, <1>10, <1>11, <1>12, <1>13,
     <1>14, <1>15, <1>16, <1>17, <1>18, <1>19, <1>20, <1>21, <1>22, <1>23, <1>24,
     <1>25, <1>26, <1>27, <1>28, <1>29, <1>30, <1>31
  DEF Next, SimulatorMoves, Stopped, Rest

\* What a frame says is a reply, and one that may be believed.
LEMMA SaysTruth ==
  ASSUME TypeOK, LoopInv, ReplyInv, NEW s \in Senders, place[s] # "idle"
  PROVE  Says(s) \in Seq(Truthful)
<1>. USE DEF TypeOK, SimulatorTypeOK
<1>1. CASE s = "main" /\ phase = "answering"
  <2>. DEFINE r == [command |-> received,
                    says |-> IF task[received] = "accepting" THEN "accepted" ELSE "rejected"]
  <2>1. received \in Commands
    BY <1>1 DEF LoopInv
  <2>2. r \in Truthful
    BY <2>1 DEF Truthful, Replies
  <2>3. Says(s) = <<r>>
    BY <1>1 DEF Says
  <2>. QED
    BY <2>2, <2>3
<1>2. CASE \/ s = "main" /\ phase # "answering"
           \/ s = "heartbeat"
           \/ s \in Commands /\ task[s] = "reporting"
  <2>1. Says(s) = <<>>
    BY <1>2 DEF Says
  <2>. QED
    BY <2>1, EmptySeq
<1>3. CASE s \in Commands /\ task[s] # "reporting"
  <2>. DEFINE r == [command |-> s, says |-> outcome[s]]
  <2>1. outcome[s] \in {"completed", "failed"}
    BY <1>3 DEF ReplyInv, Claims
  <2>2. r \in Truthful
    BY <1>3, <2>1 DEF Truthful, Replies, ReplyInv, Claims
  <2>3. Says(s) = <<r>>
    BY <1>3 DEF Says
  <2>. QED
    BY <2>2, <2>3
<1>. QED
  BY <1>1, <1>2, <1>3

\* Replies on their way stay truthful, in whatever order the tasks write them.
LEMMA UplinkStep ==
  TypeOK /\ LoopInv /\ ReplyInv /\ [Next]_vars => uplink' \in Seq(Truthful)
<1>. SUFFICES ASSUME TypeOK, LoopInv, ReplyInv, [Next]_vars PROVE uplink' \in Seq(Truthful)
  OBVIOUS
<1>1. uplink \in Seq(Truthful)
  BY DEF ReplyInv
<1>2. CASE uplink' = uplink \/ uplink' = <<>>
  BY <1>1, <1>2, EmptySeq
<1>3. ASSUME NEW s \in Senders, WritesFrame(s) \/ CancelsTask(s)
      PROVE  uplink' \in Seq(Truthful)
  <2>1. CASE place[s] # "idle"
    <3>1. Says(s) \in Seq(Truthful)
      BY <2>1, SaysTruth
    <3>2. uplink \o Says(s) \in Seq(Truthful)
      BY <1>1, <3>1, ConcatProperties
    <3>. QED
      BY <1>1, <1>3, <3>2 DEF WritesFrame, CancelsTask
  <2>2. CASE place[s] = "idle"
    BY <1>3, <2>2 DEF WritesFrame, CancelsTask, Writes, CancelTask
  <2>. QED
    BY <2>1, <2>2
<1>4. CASE BackendReads
  <2>1. uplink # <<>> /\ uplink' \in {<<>>, Tail(uplink)}
    BY <1>4 DEF BackendReads
  <2>2. Tail(uplink) \in Seq(Truthful)
    BY <1>1, <2>1, HeadTailProperties
  <2>. QED
    BY <2>1, <2>2, EmptySeq
<1>5. CASE Connects \/ Restart
  BY <1>2, <1>5 DEF Connects, Restart
<1>6. CASE SimulatorMoves \/ ConnectionDrops \/ UNCHANGED vars
  BY <1>2, <1>6 DEF SimulatorMoves, ConnectionDrops, vars
<1>7. ASSUME NEW c \in Commands,
             TakesRequest(c) \/ StatusReported(c) \/ CommandSent(c) \/ CommandEnds(c)
      PROVE  uplink' \in Seq(Truthful)
  BY <1>2, <1>7 DEF TakesRequest, StatusReported, Results, CommandSent, CommandEnds
<1>8. ASSUME NEW c \in Captures,
             CaptureFails(c) \/ UploadBegins(c) \/ UploadEnds(c) \/ UploadArrives(c) \/ UploadMovesOn(c)
      PROVE  uplink' \in Seq(Truthful)
  BY <1>2, <1>8 DEF CaptureFails, Results, UploadBegins, UploadEnds, UploadArrives, UploadMovesOn
<1>. QED
  BY <1>3, <1>4, <1>5, <1>6, <1>7, <1>8 DEF Next, Stopped

\* A task says completed, and the status becomes COMPLETED, only after the upload was
\* created: the status from a reply that may be believed.
LEMMA ClaimsStep ==
  TypeOK /\ LoopInv /\ ReplyInv /\ [Next]_vars => Claims'
<1>. SUFFICES ASSUME TypeOK, LoopInv, ReplyInv, [Next]_vars PROVE Claims'
  OBVIOUS
<1>0. \A b \in Captures : upload[b] = "created" => upload'[b] = "created"
  BY CreatedStays
<1>. USE <1>0 DEF TypeOK, SimulatorTypeOK, ReplyInv, Claims, Rest, Place, Send, ServeStep, EndsTask, SendsNext
<1>1. CASE Handshake /\ Rest
  BY <1>1 DEF Handshake
<1>2. CASE MainFails /\ Rest
  BY <1>2 DEF MainFails, Leave
<1>3. CASE Beat /\ Rest
  BY <1>3 DEF Beat
<1>4. CASE Refreshes /\ Rest
  BY <1>4 DEF Refreshes
<1>5. CASE Answers /\ Rest
  <2>1. received \in Commands /\ task[received] = "asked"
    BY <1>5 DEF Answers, LoopInv
  <2>. QED
    BY <1>5, <2>1 DEF Answers
<1>6. CASE Left /\ Rest
  BY <1>6 DEF Left
<1>7. CASE Answered /\ Rest
  <2>1. received \in Commands /\ task[received] # "reporting"
    BY <1>7 DEF Answered, LoopInv
  <2>. QED
    BY <1>7, <2>1 DEF Answered
<1>8. CASE LeavesToRefresh /\ Rest
  BY <1>8 DEF LeavesToRefresh, Leave, Drained
<1>9. CASE ReceiveEnds /\ Rest
  BY <1>9 DEF ReceiveEnds, Leave
<1>10. CASE Tick /\ Rest
  BY <1>10 DEF Tick
<1>11. ASSUME NEW s \in Senders, Locks(s), Rest PROVE Claims'
  BY <1>11 DEF Locks
<1>12. ASSUME NEW s \in Senders, WriteFails(s), Rest PROVE Claims'
  BY <1>12 DEF WriteFails
<1>13. ASSUME NEW c \in Commands, Resulted(c), Rest PROVE Claims'
  BY <1>13 DEF Resulted
<1>14. ASSUME NEW c \in Commands, TaskDies(c), Rest PROVE Claims'
  BY <1>14 DEF TaskDies
<1>15. ASSUME NEW c \in Commands \ Captures, Reports(c), Rest PROVE Claims'
  BY <1>15 DEF Reports, Working
<1>16. CASE Connects
  BY <1>16 DEF Connects, Connect
<1>17. ASSUME NEW s \in Senders, WritesFrame(s) PROVE Claims'
  BY <1>17 DEF WritesFrame, Writes
<1>18. ASSUME NEW s \in Senders, CancelsTask(s) PROVE Claims'
  BY <1>18 DEF CancelsTask, CancelTask
<1>19. ASSUME NEW c \in Commands, TakesRequest(c) PROVE Claims'
  BY <1>19 DEF TakesRequest, Receives
<1>20. ASSUME NEW c \in Commands, StatusReported(c) PROVE Claims'
  BY <1>20 DEF StatusReported, Working, Results
<1>21. ASSUME NEW c \in Commands, CommandSent(c) PROVE Claims'
  BY <1>21 DEF CommandSent
<1>22. ASSUME NEW c \in Commands, CommandEnds(c) PROVE Claims'
  BY <1>22 DEF CommandEnds, Fault
<1>23. ASSUME NEW c \in Captures, CaptureFails(c) PROVE Claims'
  BY <1>23 DEF CaptureFails, Working, Results
<1>24. ASSUME NEW c \in Captures, UploadBegins(c) PROVE Claims'
  BY <1>24 DEF UploadBegins, Working, Requested
<1>25. ASSUME NEW c \in Captures, UploadEnds(c) PROVE Claims'
  <2>1. UNCHANGED <<upload, status>> /\ c \in Commands
    BY <1>25 DEF UploadEnds, Results
  <2>2. \/ upload[c] = "created" /\ outcome' = [outcome EXCEPT ![c] = "completed"]
        \/ outcome' = [outcome EXCEPT ![c] = "failed"]
    BY <1>25 DEF UploadEnds, Results, Succeeded
  <2>3. place' = [place EXCEPT ![c] = "queued"] /\ task' = [task EXCEPT ![c] = "resulting"]
    BY <1>25 DEF UploadEnds, Results
  <2>. QED
    BY <2>1, <2>2, <2>3
<1>26. ASSUME NEW c \in Captures, UploadArrives(c) PROVE Claims'
  BY <1>26 DEF UploadArrives, Admitted
<1>27. ASSUME NEW c \in Captures, UploadMovesOn(c) PROVE Claims'
  BY <1>27 DEF UploadMovesOn, Published, StreamFails, Committed, CommitFails, Discards
<1>28. CASE BackendReads
  <2>. DEFINE reply == Head(uplink)
              next == NextStatus(reply.command, reply.says)
  <2>1. reply \in Truthful
    BY <1>28, HeadTailProperties DEF BackendReads
  <2>2. next = "COMPLETED" => reply.says = "completed"
    BY DEF NextStatus
  <2>3. next = "COMPLETED" /\ reply.command \in Captures => upload[reply.command] = "created"
    BY <2>1, <2>2 DEF Truthful
  <2>4. reply.command \in Commands
    BY <2>1 DEF Truthful, Replies
  <2>5. status' = status \/ status' = [status EXCEPT ![reply.command] = next]
    BY <1>28 DEF BackendReads
  <2>6. UNCHANGED <<place, task, outcome, upload>>
    BY <1>28 DEF BackendReads
  <2>7. \A c \in Captures : status'[c] = "COMPLETED" => upload'[c] = "created"
    BY <2>3, <2>4, <2>5, <2>6
  <2>. QED
    BY <2>6, <2>7
<1>29. CASE ConnectionDrops
  BY <1>29 DEF ConnectionDrops, Fault, LinkDrops
<1>30. CASE Restart
  BY <1>30 DEF Restart, Fault, BackendStops
<1>31. CASE UNCHANGED vars
  BY <1>31 DEF vars
<1>. QED
  BY <1>1, <1>2, <1>3, <1>4, <1>5, <1>6, <1>7, <1>8, <1>9, <1>10, <1>11, <1>12, <1>13,
     <1>14, <1>15, <1>16, <1>17, <1>18, <1>19, <1>20, <1>21, <1>22, <1>23, <1>24,
     <1>25, <1>26, <1>27, <1>28, <1>29, <1>30, <1>31
  DEF Next, SimulatorMoves, Stopped, Rest

\* Replies that could be believed before the step can be believed after it.
LEMMA ReplyStep ==
  TypeOK /\ LoopInv /\ ReplyInv /\ [Next]_vars => ReplyInv'
<1>. SUFFICES ASSUME TypeOK, LoopInv, ReplyInv, [Next]_vars PROVE ReplyInv'
  OBVIOUS
<1>1. uplink' \in Seq(Truthful')
  <2>1. Truthful \subseteq Truthful'
    BY CreatedStays DEF Truthful, Replies
  <2>. QED
    BY <2>1, UplinkStep, SeqMonotonic
<1>2. Claims'
  BY ClaimsStep
<1>. QED
  BY <1>1, <1>2 DEF ReplyInv

-----------------------------------------------------------------------------
(* The inductive invariant is one *)

\* Only one sender writes at a time, whoever takes or leaves the lock.
LEMMA SimulatorTypeStep ==
  TypeOK /\ LoopInv /\ [Next]_vars => SimulatorTypeOK'
<1>. SUFFICES ASSUME TypeOK, LoopInv, [Next]_vars PROVE SimulatorTypeOK'
  OBVIOUS
<1>. USE DEF TypeOK, SimulatorTypeOK, LoopInv, Rest, Place, Send, NumberedAt, ServeStep, Executing,
             EndsTask, SendsNext
<1>1. CASE Handshake /\ Rest
  BY <1>1 DEF Handshake
<1>2. CASE MainFails /\ Rest
  BY <1>2 DEF MainFails, Leave
<1>3. CASE Beat /\ Rest
  BY <1>3 DEF Beat
<1>4. CASE Refreshes /\ Rest
  BY <1>4 DEF Refreshes
<1>5. CASE Answers /\ Rest
  <2>1. received \in Commands
    BY <1>5 DEF Answers
  <2>2. task' \in [Commands -> {"none", "asked", "accepting", "rejecting", "running",
                                "reporting", "uploading", "resulting", "ended"}]
    <3>1. \/ task' = [task EXCEPT ![received] = "accepting"]
          \/ task' = [task EXCEPT ![received] = "rejecting"]
      BY <1>5 DEF Answers
    <3>. QED
      BY <2>1, <3>1
  <2>3. Place("main", "queued")
    BY <1>5 DEF Answers
  <2>4. /\ phase' = "answering"
        /\ UNCHANGED <<connections, link, clock, due, received, owed, left, last, beats>>
    BY <1>5 DEF Answers
  <2>. QED
    BY <2>2, <2>3, <2>4
<1>6. CASE Left /\ Rest
  BY <1>6 DEF Left
<1>7. CASE Answered /\ Rest
  BY <1>7 DEF Answered
<1>8. CASE LeavesToRefresh /\ Rest
  BY <1>8 DEF LeavesToRefresh, Leave, Drained
<1>9. CASE ReceiveEnds /\ Rest
  BY <1>9 DEF ReceiveEnds, Leave
<1>10. CASE Tick /\ Rest
  BY <1>10 DEF Tick
<1>11. ASSUME NEW s \in Senders, Locks(s), Rest PROVE SimulatorTypeOK'
  <2>1. /\ \A t \in Senders : place[t] # "writing"
        /\ Place(s, "writing") /\ UNCHANGED <<looping, last, beats>>
    BY <1>11 DEF Locks, LockFree, Writing
  <2>. QED
    BY <2>1
<1>12. ASSUME NEW s \in Senders, WriteFails(s), Rest PROVE SimulatorTypeOK'
  BY <1>12 DEF WriteFails
<1>13. ASSUME NEW c \in Commands, Resulted(c), Rest PROVE SimulatorTypeOK'
  BY <1>13 DEF Resulted
<1>14. ASSUME NEW c \in Commands, TaskDies(c), Rest PROVE SimulatorTypeOK'
  BY <1>14 DEF TaskDies
<1>15. ASSUME NEW c \in Commands \ Captures, Reports(c), Rest PROVE SimulatorTypeOK'
  BY <1>15 DEF Reports, Working
<1>16. CASE Connects
  <2>1. Place("main", "queued")
    BY <1>16 DEF Connects, Connect
  <2>2. /\ connections' \in 0..MaxConnections
        /\ phase' = "hello" /\ link' = "up"
        /\ UNCHANGED <<clock, due, received, task, owed, left, last, beats>>
    BY <1>16 DEF Connects, Connect
  <2>. QED
    BY <2>1, <2>2
<1>17. ASSUME NEW s \in Senders, WritesFrame(s) PROVE SimulatorTypeOK'
  BY <1>17 DEF WritesFrame, Writes
<1>18. ASSUME NEW s \in Senders, CancelsTask(s) PROVE SimulatorTypeOK'
  BY <1>18 DEF CancelsTask, CancelTask
<1>19. ASSUME NEW c \in Commands, TakesRequest(c) PROVE SimulatorTypeOK'
  BY <1>19 DEF TakesRequest, Receives
<1>20. ASSUME NEW c \in Commands, StatusReported(c) PROVE SimulatorTypeOK'
  <2>1. Working(c, "reporting") /\ SendsNext(c, "resulting")
    BY <1>20 DEF StatusReported, Results
  <2>. QED
    BY <2>1 DEF Working
<1>21. ASSUME NEW c \in Commands, CommandSent(c) PROVE SimulatorTypeOK'
  BY <1>21 DEF CommandSent
<1>22. ASSUME NEW c \in Commands, CommandEnds(c) PROVE SimulatorTypeOK'
  BY <1>22 DEF CommandEnds, Fault
<1>23. ASSUME NEW c \in Captures, CaptureFails(c) PROVE SimulatorTypeOK'
  BY <1>23 DEF CaptureFails, Working, Results
<1>24. ASSUME NEW c \in Captures, UploadBegins(c) PROVE SimulatorTypeOK'
  BY <1>24 DEF UploadBegins, Working, Requested
<1>25. ASSUME NEW c \in Captures, UploadEnds(c) PROVE SimulatorTypeOK'
  <2>1. Working(c, "uploading") /\ SendsNext(c, "resulting")
    BY <1>25 DEF UploadEnds, Results
  <2>. QED
    BY <2>1 DEF Working
<1>26. ASSUME NEW c \in Captures, UploadArrives(c) PROVE SimulatorTypeOK'
  BY <1>26 DEF UploadArrives, Admitted
<1>27. ASSUME NEW c \in Captures, UploadMovesOn(c) PROVE SimulatorTypeOK'
  BY <1>27 DEF UploadMovesOn, Published, StreamFails, Committed, CommitFails, Discards
<1>28. CASE BackendReads
  <2>1. link' \in {"up", "down"}
    BY <1>28 DEF BackendReads
  <2>2. UNCHANGED <<phase, connections, clock, due, received, task, owed, left, frames>>
    BY <1>28 DEF BackendReads
  <2>. QED
    BY <2>1, <2>2
<1>29. CASE ConnectionDrops
  BY <1>29 DEF ConnectionDrops, Fault, LinkDrops
<1>30. CASE Restart
  BY <1>30 DEF Restart, Fault, BackendStops
<1>31. CASE UNCHANGED vars
  BY <1>31 DEF vars
<1>. QED
  BY <1>1, <1>2, <1>3, <1>4, <1>5, <1>6, <1>7, <1>8, <1>9, <1>10, <1>11, <1>12, <1>13,
     <1>14, <1>15, <1>16, <1>17, <1>18, <1>19, <1>20, <1>21, <1>22, <1>23, <1>24,
     <1>25, <1>26, <1>27, <1>28, <1>29, <1>30, <1>31
  DEF Next, SimulatorMoves, Stopped, Rest

LEMMA UploadTypeStep == TypeOK /\ [Next]_vars => UploadTypeOK'
<1>. SUFFICES ASSUME TypeOK, [Next]_vars PROVE UploadTypeOK'
  OBVIOUS
<1>. USE DEF TypeOK, UploadTypeOK, UploadMoves, Stored, InProgress, Rest
<1>1. CASE Handshake /\ Rest
  BY <1>1 DEF Handshake
<1>2. CASE MainFails /\ Rest
  BY <1>2 DEF MainFails, Leave
<1>3. CASE Beat /\ Rest
  BY <1>3 DEF Beat
<1>4. CASE Refreshes /\ Rest
  BY <1>4 DEF Refreshes
<1>5. CASE Answers /\ Rest
  BY <1>5 DEF Answers
<1>6. CASE Left /\ Rest
  BY <1>6 DEF Left
<1>7. CASE Answered /\ Rest
  BY <1>7 DEF Answered
<1>8. CASE LeavesToRefresh /\ Rest
  BY <1>8 DEF LeavesToRefresh, Leave, Drained
<1>9. CASE ReceiveEnds /\ Rest
  BY <1>9 DEF ReceiveEnds, Leave
<1>10. CASE Tick /\ Rest
  BY <1>10 DEF Tick
<1>11. ASSUME NEW s \in Senders, Locks(s), Rest PROVE UploadTypeOK'
  BY <1>11 DEF Locks
<1>12. ASSUME NEW s \in Senders, WriteFails(s), Rest PROVE UploadTypeOK'
  BY <1>12 DEF WriteFails
<1>13. ASSUME NEW c \in Commands, Resulted(c), Rest PROVE UploadTypeOK'
  BY <1>13 DEF Resulted
<1>14. ASSUME NEW c \in Commands, TaskDies(c), Rest PROVE UploadTypeOK'
  BY <1>14 DEF TaskDies
<1>15. ASSUME NEW c \in Commands \ Captures, Reports(c), Rest PROVE UploadTypeOK'
  BY <1>15 DEF Reports, Working
<1>16. CASE Connects
  BY <1>16 DEF Connects, Connect
<1>17. ASSUME NEW s \in Senders, WritesFrame(s) PROVE UploadTypeOK'
  BY <1>17 DEF WritesFrame, Writes
<1>18. ASSUME NEW s \in Senders, CancelsTask(s) PROVE UploadTypeOK'
  BY <1>18 DEF CancelsTask, CancelTask
<1>19. ASSUME NEW c \in Commands, TakesRequest(c) PROVE UploadTypeOK'
  BY <1>19 DEF TakesRequest, Receives
<1>20. ASSUME NEW c \in Commands, StatusReported(c) PROVE UploadTypeOK'
  BY <1>20 DEF StatusReported, Working, Results
<1>21. ASSUME NEW c \in Commands, CommandSent(c) PROVE UploadTypeOK'
  BY <1>21 DEF CommandSent
<1>22. ASSUME NEW c \in Commands, CommandEnds(c) PROVE UploadTypeOK'
  BY <1>22 DEF CommandEnds, Fault
<1>23. ASSUME NEW c \in Captures, CaptureFails(c) PROVE UploadTypeOK'
  BY <1>23 DEF CaptureFails, Working, Results
<1>24. ASSUME NEW c \in Captures, UploadBegins(c) PROVE UploadTypeOK'
  BY <1>24 DEF UploadBegins, Working, Requested
<1>25. ASSUME NEW c \in Captures, UploadEnds(c) PROVE UploadTypeOK'
  BY <1>25 DEF UploadEnds, Working, Results
<1>26. ASSUME NEW c \in Captures, UploadArrives(c) PROVE UploadTypeOK'
  BY <1>26 DEF UploadArrives, Admitted
<1>27. ASSUME NEW c \in Captures, UploadMovesOn(c) PROVE UploadTypeOK'
  BY <1>27 DEF UploadMovesOn, Published, StreamFails, Committed, CommitFails, Discards
<1>28. CASE BackendReads
  BY <1>28 DEF BackendReads
<1>29. CASE ConnectionDrops
  BY <1>29 DEF ConnectionDrops, Fault, LinkDrops
<1>30. CASE Restart
  BY <1>30 DEF Restart, Fault, BackendStops
<1>31. CASE UNCHANGED vars
  BY <1>31 DEF vars
<1>. QED
  BY <1>1, <1>2, <1>3, <1>4, <1>5, <1>6, <1>7, <1>8, <1>9, <1>10, <1>11, <1>12, <1>13,
     <1>14, <1>15, <1>16, <1>17, <1>18, <1>19, <1>20, <1>21, <1>22, <1>23, <1>24,
     <1>25, <1>26, <1>27, <1>28, <1>29, <1>30, <1>31
  DEF Next, SimulatorMoves, Stopped, Rest

\* The backend's record of each command and what the device says of it.
BackendType ==
  /\ status \in [Commands -> {"idle", "SENT", "ACKNOWLEDGED", "COMPLETED", "ENDED"}]
  /\ sentOn \in [Commands -> 0..MaxConnections]
  /\ outcome \in [Commands -> {"none", "completed", "failed"}]
  /\ faults \in 0..MaxFaults

LEMMA BackendTypeStep == TypeOK /\ [Next]_vars => BackendType'
<1>. SUFFICES ASSUME TypeOK, [Next]_vars PROVE BackendType'
  OBVIOUS
<1>. USE DEF TypeOK, SimulatorTypeOK, BackendType, Rest
<1>1. CASE Handshake /\ Rest
  BY <1>1 DEF Handshake
<1>2. CASE MainFails /\ Rest
  BY <1>2 DEF MainFails, Leave
<1>3. CASE Beat /\ Rest
  BY <1>3 DEF Beat
<1>4. CASE Refreshes /\ Rest
  BY <1>4 DEF Refreshes
<1>5. CASE Answers /\ Rest
  BY <1>5 DEF Answers
<1>6. CASE Left /\ Rest
  BY <1>6 DEF Left
<1>7. CASE Answered /\ Rest
  BY <1>7 DEF Answered
<1>8. CASE LeavesToRefresh /\ Rest
  BY <1>8 DEF LeavesToRefresh, Leave, Drained
<1>9. CASE ReceiveEnds /\ Rest
  BY <1>9 DEF ReceiveEnds, Leave
<1>10. CASE Tick /\ Rest
  BY <1>10 DEF Tick
<1>11. ASSUME NEW s \in Senders, Locks(s), Rest PROVE BackendType'
  BY <1>11 DEF Locks
<1>12. ASSUME NEW s \in Senders, WriteFails(s), Rest PROVE BackendType'
  BY <1>12 DEF WriteFails
<1>13. ASSUME NEW c \in Commands, Resulted(c), Rest PROVE BackendType'
  BY <1>13 DEF Resulted
<1>14. ASSUME NEW c \in Commands, TaskDies(c), Rest PROVE BackendType'
  BY <1>14 DEF TaskDies
<1>15. ASSUME NEW c \in Commands \ Captures, Reports(c), Rest PROVE BackendType'
  BY <1>15 DEF Reports, Working
<1>16. CASE Connects
  BY <1>16 DEF Connects, Connect
<1>17. ASSUME NEW s \in Senders, WritesFrame(s) PROVE BackendType'
  BY <1>17 DEF WritesFrame, Writes
<1>18. ASSUME NEW s \in Senders, CancelsTask(s) PROVE BackendType'
  BY <1>18 DEF CancelsTask, CancelTask
<1>19. ASSUME NEW c \in Commands, TakesRequest(c) PROVE BackendType'
  BY <1>19 DEF TakesRequest, Receives
<1>20. ASSUME NEW c \in Commands, StatusReported(c) PROVE BackendType'
  BY <1>20 DEF StatusReported, Working, Results
<1>21. ASSUME NEW c \in Commands, CommandSent(c) PROVE BackendType'
  BY <1>21 DEF CommandSent
<1>22. ASSUME NEW c \in Commands, CommandEnds(c) PROVE BackendType'
  BY <1>22 DEF CommandEnds, Fault
<1>23. ASSUME NEW c \in Captures, CaptureFails(c) PROVE BackendType'
  BY <1>23 DEF CaptureFails, Working, Results
<1>24. ASSUME NEW c \in Captures, UploadBegins(c) PROVE BackendType'
  BY <1>24 DEF UploadBegins, Working, Requested
<1>25. ASSUME NEW c \in Captures, UploadEnds(c) PROVE BackendType'
  BY <1>25 DEF UploadEnds, Working, Results
<1>26. ASSUME NEW c \in Captures, UploadArrives(c) PROVE BackendType'
  BY <1>26 DEF UploadArrives, Admitted
<1>27. ASSUME NEW c \in Captures, UploadMovesOn(c) PROVE BackendType'
  BY <1>27 DEF UploadMovesOn, Published, StreamFails, Committed, CommitFails, Discards
<1>28. CASE BackendReads
  <2>. DEFINE reply == Head(uplink)
              next == NextStatus(reply.command, reply.says)
  <2>1. next \in {"ACKNOWLEDGED", "COMPLETED", "ENDED", "out of order"}
    BY DEF NextStatus
  <2>2. reply \in Replies
    BY <1>28, HeadTailProperties DEF BackendReads
  <2>3. \/ status' = status
        \/ next # "out of order" /\ status' = [status EXCEPT ![reply.command] = next]
    BY <1>28 DEF BackendReads
  <2>4. UNCHANGED <<sentOn, outcome, faults>>
    BY <1>28 DEF BackendReads
  <2>5. reply.command \in Commands
    BY <2>2 DEF Replies
  <2>6. status' \in [Commands -> {"idle", "SENT", "ACKNOWLEDGED", "COMPLETED", "ENDED"}]
    <3>. HIDE DEF next, reply
    <3>. QED
      BY <2>1, <2>3, <2>5
  <2>. QED
    BY <2>4, <2>6
<1>29. CASE ConnectionDrops
  BY <1>29 DEF ConnectionDrops, Fault, LinkDrops
<1>30. CASE Restart
  BY <1>30 DEF Restart, Fault, BackendStops
<1>31. CASE UNCHANGED vars
  BY <1>31 DEF vars
<1>. QED
  BY <1>1, <1>2, <1>3, <1>4, <1>5, <1>6, <1>7, <1>8, <1>9, <1>10, <1>11, <1>12, <1>13,
     <1>14, <1>15, <1>16, <1>17, <1>18, <1>19, <1>20, <1>21, <1>22, <1>23, <1>24,
     <1>25, <1>26, <1>27, <1>28, <1>29, <1>30, <1>31
  DEF Next, SimulatorMoves, Stopped, Rest

\* The values of the variables stay of their types.
LEMMA TypeStep ==
  TypeOK /\ LoopInv /\ ReplyInv /\ [Next]_vars => TypeOK'
<1>. SUFFICES ASSUME TypeOK, LoopInv, ReplyInv, [Next]_vars PROVE TypeOK'
  OBVIOUS
<1>1. uplink' \in Seq(Replies)
  <2>1. Truthful \subseteq Replies
    BY DEF Truthful
  <2>. QED
    BY <2>1, UplinkStep, SeqMonotonic
<1>2. SimulatorTypeOK' /\ UploadTypeOK'
  BY SimulatorTypeStep, UploadTypeStep
<1>3. BackendType'
  BY BackendTypeStep
<1>. QED
  BY <1>1, <1>2, <1>3 DEF TypeOK, BackendType

LEMMA Inductive == IInv /\ [Next]_vars => IInv'
  BY TypeStep, FrameStep, LinkStep, LoopStep, FileStep, ReplyStep DEF IInv

LEMMA Initially == Init => IInv
<1>. SUFFICES ASSUME Init PROVE IInv
  OBVIOUS
<1>. USE DEF Init, SimulatorInit, UploadInit
<1>1. TypeOK
  <2>1. SimulatorTypeOK
    <3>1. /\ place \in [Senders -> {"idle", "queued", "writing", "sent", "failed"}]
          /\ number \in [Senders -> Nat]
          /\ \A s \in Senders : place[s] # "writing"
      OBVIOUS
    <3>2. task \in [Commands -> {"none", "asked", "accepting", "rejecting", "running",
                                 "reporting", "uploading", "resulting", "ended"}]
      OBVIOUS
    <3>3. \A s, t \in Senders : place[s] = "writing" /\ place[t] = "writing" => s = t
      BY <3>1
    <3>4. /\ connections \in 0..MaxConnections /\ beats \in 0..MaxBeats
          /\ seq \in Nat /\ last \in Nat
      OBVIOUS
    <3>. QED
      BY <3>1, <3>2, <3>3, <3>4 DEF SimulatorTypeOK
  <2>2. UploadTypeOK
    BY DEF UploadTypeOK
  <2>3. uplink \in Seq(Replies)
    BY EmptySeq
  <2>. QED
    BY <2>1, <2>2, <2>3 DEF TypeOK
<1>2. FrameInv /\ LinkInv /\ LoopInv /\ FileInv
  BY DEF FrameInv, LinkInv, LoopInv, RefreshOwesNothing, FileInv, FileMatchesRow, InProgress
<1>3. uplink \in Seq(Truthful)
  BY EmptySeq
<1>. QED
  BY <1>1, <1>2, <1>3 DEF IInv, ReplyInv, Claims

-----------------------------------------------------------------------------
(* Theorems *)

\* The inductive invariant holds at every moment of every boot.
THEOREM Invariant == Spec => []IInv
  BY Initially, Inductive, PTL DEF Spec

\* The simulator, the upload and the replies keep their types: two tasks never write
\* to the socket at once.
THEOREM TypeCorrect == Spec => []TypeOK
<1>1. IInv => TypeOK
  BY DEF IInv
<1>. QED
  BY <1>1, Invariant, PTL

\* run_connection gives up a connection that works, for a planned reauthentication, only
\* when the socket took the answer to every request.
THEOREM RefreshIsClean == Spec => []RefreshOwesNothing
<1>1. IInv => RefreshOwesNothing
  BY DEF IInv, LoopInv
<1>. QED
  BY <1>1, Invariant, PTL

\* The file store and the media table agree across failed commits and stops of the
\* backend: a row without its file needs a commit whose outcome nobody was told, a file
\* without its row a request that was cut short or whose rollback failed.
THEOREM FilesMatch == Spec => []FileMatchesRow
<1>1. IInv => FileMatchesRow
  BY DEF IInv, FileInv
<1>. QED
  BY <1>1, Invariant, PTL

\* A capture that the panel shows as COMPLETED has its image.
THEOREM CompletedIsStored == Spec => []CompletedHasMedia
<1>1. IInv => CompletedHasMedia
  BY DEF IInv, FileInv, ReplyInv, Claims, CompletedHasMedia, TypeOK, UploadTypeOK
<1>. QED
  BY <1>1, Invariant, PTL

\* A step that puts a frame on the socket puts the one that was being written there.
LEMMA LastStep ==
  [Next]_vars => last' = last \/ \E t \in Senders : place[t] = "writing" /\ last' = number[t]
<1>. SUFFICES ASSUME [Next]_vars
              PROVE  last' = last \/ \E t \in Senders : place[t] = "writing" /\ last' = number[t]
  OBVIOUS
<1>. USE DEF Rest, ServeStep, EndsTask, SendsNext
<1>1. CASE Handshake /\ Rest
  BY <1>1 DEF Handshake
<1>2. CASE MainFails /\ Rest
  BY <1>2 DEF MainFails, Leave
<1>3. CASE Beat /\ Rest
  BY <1>3 DEF Beat
<1>4. CASE Refreshes /\ Rest
  BY <1>4 DEF Refreshes
<1>5. CASE Answers /\ Rest
  BY <1>5 DEF Answers
<1>6. CASE Left /\ Rest
  BY <1>6 DEF Left
<1>7. CASE Answered /\ Rest
  BY <1>7 DEF Answered
<1>8. CASE LeavesToRefresh /\ Rest
  BY <1>8 DEF LeavesToRefresh, Leave, Drained
<1>9. CASE ReceiveEnds /\ Rest
  BY <1>9 DEF ReceiveEnds, Leave
<1>10. CASE Tick /\ Rest
  BY <1>10 DEF Tick
<1>11. ASSUME NEW s \in Senders, Locks(s), Rest
      PROVE last' = last \/ \E t \in Senders : place[t] = "writing" /\ last' = number[t]
  BY <1>11 DEF Locks
<1>12. ASSUME NEW s \in Senders, WriteFails(s), Rest
      PROVE last' = last \/ \E t \in Senders : place[t] = "writing" /\ last' = number[t]
  BY <1>12 DEF WriteFails
<1>13. ASSUME NEW c \in Commands, Resulted(c), Rest
      PROVE last' = last \/ \E t \in Senders : place[t] = "writing" /\ last' = number[t]
  BY <1>13 DEF Resulted
<1>14. ASSUME NEW c \in Commands, TaskDies(c), Rest
      PROVE last' = last \/ \E t \in Senders : place[t] = "writing" /\ last' = number[t]
  BY <1>14 DEF TaskDies
<1>15. ASSUME NEW c \in Commands \ Captures, Reports(c), Rest
      PROVE last' = last \/ \E t \in Senders : place[t] = "writing" /\ last' = number[t]
  BY <1>15 DEF Reports, Working
<1>16. CASE Connects
  BY <1>16 DEF Connects, Connect
<1>17. ASSUME NEW s \in Senders, WritesFrame(s)
      PROVE last' = last \/ \E t \in Senders : place[t] = "writing" /\ last' = number[t]
  BY <1>17 DEF WritesFrame, Writes
<1>18. ASSUME NEW s \in Senders, CancelsTask(s)
      PROVE last' = last \/ \E t \in Senders : place[t] = "writing" /\ last' = number[t]
  BY <1>18 DEF CancelsTask, CancelTask
<1>19. ASSUME NEW c \in Commands, TakesRequest(c)
      PROVE last' = last \/ \E t \in Senders : place[t] = "writing" /\ last' = number[t]
  BY <1>19 DEF TakesRequest, Receives
<1>20. ASSUME NEW c \in Commands, StatusReported(c)
      PROVE last' = last \/ \E t \in Senders : place[t] = "writing" /\ last' = number[t]
  BY <1>20 DEF StatusReported, Working, Results
<1>21. ASSUME NEW c \in Commands, CommandSent(c)
      PROVE last' = last \/ \E t \in Senders : place[t] = "writing" /\ last' = number[t]
  BY <1>21 DEF CommandSent
<1>22. ASSUME NEW c \in Commands, CommandEnds(c)
      PROVE last' = last \/ \E t \in Senders : place[t] = "writing" /\ last' = number[t]
  BY <1>22 DEF CommandEnds, Fault
<1>23. ASSUME NEW c \in Captures, CaptureFails(c)
      PROVE last' = last \/ \E t \in Senders : place[t] = "writing" /\ last' = number[t]
  BY <1>23 DEF CaptureFails, Working, Results
<1>24. ASSUME NEW c \in Captures, UploadBegins(c)
      PROVE last' = last \/ \E t \in Senders : place[t] = "writing" /\ last' = number[t]
  BY <1>24 DEF UploadBegins, Working, Requested
<1>25. ASSUME NEW c \in Captures, UploadEnds(c)
      PROVE last' = last \/ \E t \in Senders : place[t] = "writing" /\ last' = number[t]
  BY <1>25 DEF UploadEnds, Working, Results
<1>26. ASSUME NEW c \in Captures, UploadArrives(c)
      PROVE last' = last \/ \E t \in Senders : place[t] = "writing" /\ last' = number[t]
  BY <1>26 DEF UploadArrives, Admitted
<1>27. ASSUME NEW c \in Captures, UploadMovesOn(c)
      PROVE last' = last \/ \E t \in Senders : place[t] = "writing" /\ last' = number[t]
  BY <1>27 DEF UploadMovesOn, Published, StreamFails, Committed, CommitFails, Discards
<1>28. CASE BackendReads
  BY <1>28 DEF BackendReads
<1>29. CASE ConnectionDrops
  BY <1>29 DEF ConnectionDrops, Fault, LinkDrops
<1>30. CASE Restart
  BY <1>30 DEF Restart, Fault, BackendStops
<1>31. CASE UNCHANGED vars
  BY <1>31 DEF vars
<1>. QED
  BY <1>1, <1>2, <1>3, <1>4, <1>5, <1>6, <1>7, <1>8, <1>9, <1>10, <1>11, <1>12, <1>13,
     <1>14, <1>15, <1>16, <1>17, <1>18, <1>19, <1>20, <1>21, <1>22, <1>23, <1>24,
     <1>25, <1>26, <1>27, <1>28, <1>29, <1>30, <1>31
  DEF Next, SimulatorMoves, Stopped, Rest

\* Frames reach the socket in the order of their numbers, for any number of commands:
\* a frame is numbered and written under one lock, and one cancelled is never written.
THEOREM FramesInOrder == Spec => FrameOrder
<1>1. TypeOK /\ FrameInv /\ [Next]_vars => [last' # last => last' > last]_frames
  <2>. SUFFICES ASSUME TypeOK, FrameInv, [Next]_vars, last' # last PROVE last' > last
    OBVIOUS
  <2>1. \E t \in Senders : place[t] = "writing" /\ last' = number[t]
    BY LastStep
  <2>. QED
    BY <2>1 DEF FrameInv, TypeOK, SimulatorTypeOK
<1>2. IInv => TypeOK /\ FrameInv
  BY DEF IInv
<1>. QED
  BY <1>1, <1>2, Invariant, PTL DEF Spec, FrameOrder
=============================================================================
