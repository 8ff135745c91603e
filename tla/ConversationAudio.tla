------------------------- MODULE ConversationAudio --------------------------
(***************************************************************************)
(* One started conversation and its audio: the five workers between the    *)
(* device and the realtime session, the barge-in that silences a response, *)
(* the overflow policy of both queues, and the finalizer that cancels the  *)
(* workers and closes the session.  It composes the device's SocketWriter  *)
(* with the provider's RealtimeSession.                                    *)
(*                                                                         *)
(* Source: backend/app/ai/conversation_coordinator.py, and the binary path *)
(* of backend/app/websocket/device.py.  Reservations, rows and the         *)
(* interleaving of several conversations are ConversationCoordinator's.    *)
(***************************************************************************)
EXTENDS SocketWriter, RealtimeSession

CONSTANTS
  InputCapacity, OutputCapacity   \* of the queues: 50 and 100 frames in the code

ASSUME QueueBounds == InputCapacity \in Nat \ {0} /\ OutputCapacity \in Nat \ {0}

VARIABLES
  reason,           \* stop_reason and error_code: "ended" has no code, "failure" any
                    \* code but AUDIO_OUTPUT_OVERFLOW
  finalizer,        \* where _finalize is
  told,             \* error_notified
  row,              \* the conversation row
  overflowCleared,  \* overflow_cleared
  clears,           \* history: clears the finalizer sent
  events,           \* where _provider_events is
  cancelled,        \* the interrupted response's cancel succeeded
  current,          \* number of the last response whose start was handled
  silenced,         \* history: the newest response a visitor spoke over
  sender,           \* where _output_sender is
  frame,            \* the responses heard in the frame it is sending
  output,           \* output_queue: the responses heard in each frame
  residual,         \* responses with samples in the unfinished frame
  active,           \* response_active
  pending,          \* playback_pending
  playback,         \* device: responses it may still be playing
  pump,             \* where _input_pump is
  input             \* length of input_queue

ending == <<reason, finalizer, told, row, overflowCleared, clears>>
speech == <<events, cancelled, current, silenced>>
sound == <<sender, frame, output, residual, active, pending, playback>>
hearing == <<pump, input>>
vars == <<writer, session, ending, speech, sound, hearing>>

AudioWriters == {"events", "sender", "finalizer", "handler"}
ASSUME WritersKnown == AudioWriters \subseteq Writers
Codes == {"failure", "output_overflow"}
Heard == 1..MaxResponses

TypeOK ==
  /\ WriterTypeOK /\ SessionTypeOK
  /\ reason \in {"none", "ended"} \cup Codes
  /\ finalizer \in {"off", "starting", "joining", "cancelling", "clearing", "closing",
                    "recording", "telling", "ending", "failed", "done"}
  /\ told \in BOOLEAN /\ row \in {"open", "closed"}
  /\ overflowCleared \in BOOLEAN /\ clears \in Nat
  /\ events \in {"next", "cancelling", "stopping", "clearing", "stating", "storing", "off"}
  /\ cancelled \in BOOLEAN
  /\ current \in 0..MaxResponses /\ silenced \in 0..MaxResponses
  /\ sender \in {"get", "sending", "draining", "off"}
  /\ frame \subseteq Heard /\ residual \subseteq Heard /\ playback \subseteq Heard
  /\ output \in Seq(SUBSET Heard) /\ Len(output) <= OutputCapacity
  /\ active \in BOOLEAN /\ pending \in BOOLEAN
  /\ pump \in {"get", "given", "off"}
  /\ input \in 0..InputCapacity

Init ==
  /\ WriterInit /\ SessionInit
  /\ reason = "none" /\ finalizer = "off" /\ told = FALSE /\ row = "open"
  /\ overflowCleared = FALSE /\ clears = 0
  /\ events = "off" /\ cancelled = TRUE /\ current = 0 /\ silenced = 0
  /\ sender = "off" /\ frame = {} /\ output = <<>> /\ residual = {}
  /\ active = FALSE /\ pending = FALSE /\ playback = {}
  /\ pump = "off" /\ input = 0

-----------------------------------------------------------------------------
Closing == reason # "none"
Started == stage = "open" /\ ~Closing

\* _fail: the first failure names the conversation's end and starts the finalizer.
Fail(code) ==
  /\ reason' = IF Closing THEN reason ELSE code
  /\ finalizer' = IF Closing THEN finalizer ELSE "starting"
  /\ UNCHANGED <<told, row, overflowCleared, clears>>

\* A worker that finds the lease retired reports the disconnection.
Lost == Fail("ended")

-----------------------------------------------------------------------------
(* Opening *)

\* The conversation opens its session; a stop during it waits for the answer.
Opening ==
  /\ Connect \/ Configure \/ OpenFails
  /\ UNCHANGED <<writer, ending, speech, sound, hearing>>

Refused ==
  /\ OpenCleaned \/ (stage = "refused" /\ UNCHANGED session)
  /\ finalizer = "off"
  /\ reason' = IF Closing THEN reason ELSE "failure"
  /\ finalizer' = "starting"
  /\ UNCHANGED <<writer, told, row, overflowCleared, clears, speech, sound, hearing>>

Opened ==
  /\ Confirm
  /\ IF Closing
     THEN /\ finalizer' = "starting"
          /\ UNCHANGED <<stream, events, sender, pump>>
     ELSE /\ stream' = "reading"
          /\ events' = "next" /\ sender' = "get" /\ pump' = "get"
          /\ UNCHANGED finalizer
  /\ UNCHANGED <<writer, reason, told, row, overflowCleared, clears>>
  /\ UNCHANGED <<cancelled, current, silenced>>
  /\ UNCHANGED <<frame, output, residual, active, pending, playback, input>>

-----------------------------------------------------------------------------
(* _provider_events *)

AtEvent == events = "next"
SessionUntouched == UNCHANGED <<stage, link, closed, cleanup, cancels, forgotten, provider>>

BugContinue == events' = "next" /\ Ask
\* The loop looks at closing, and at what this step made of it, before it asks for the
\* next event: the cancellation of the worker may be spent on a control message.
Continue ==
  IF reason' # "none"
  THEN events' = "off" /\ stream' = "idle"
  ELSE events' = "next" /\ Ask

\* _publish: a message to the device, or none if the conversation is closing or
\* its lease retired.
Publish ==
  IF Closing \/ Terminal
  THEN /\ events' = "off" /\ stream' = "idle"
       /\ Lost
       /\ UNCHANGED writer
  ELSE /\ events' = "stating" /\ stream' = "idle"
       /\ Submit("events")
       /\ UNCHANGED ending

\* What a visitor has spoken over, once its audio is gone on every side.
SpokenOver == silenced' = IF Closing \/ Terminal THEN silenced ELSE current

Interrupts == active \/ pending \/ sender = "sending" \/ output # <<>>

\* output_task.cancel(): a frame already given to the writer is joined, not cut.
StopSender ==
  /\ sender' = CASE sender = "sending" -> "draining" [] sender = "get" -> "off"
                 [] OTHER -> sender
  /\ UNCHANGED <<frame, writer>>

SpeechStarted ==
  /\ AtEvent /\ Yield("speech")
  /\ IF ~Interrupts
     THEN /\ Publish /\ SpokenOver
          /\ UNCHANGED <<cancelled, sender, frame>>
     ELSE /\ cancelled' = TRUE
          /\ stream' = "idle"
          /\ IF active
             THEN events' = "cancelling" /\ UNCHANGED <<sender, frame, writer>>
             ELSE events' = "stopping" /\ StopSender
          /\ UNCHANGED <<ending, silenced>>
  /\ UNCHANGED <<current, output, residual, active, pending, playback, hearing>>

\* _cancel_response: bounded, its failure is remembered until the output is clear.
CancelsResponse ==
  /\ events = "cancelling"
  /\ \/ CancelSent(current) /\ cancelled' = TRUE
     \/ CancelFails(current) /\ cancelled' = FALSE
  /\ events' = "stopping" /\ StopSender
  /\ UNCHANGED <<ending, current, silenced, output, residual, active, pending, playback, hearing>>

Emptied == output' = <<>> /\ residual' = {} /\ active' = FALSE /\ pending' = FALSE

\* After the clear: give up if the cancel failed, else a new sender and the state.
ResumesAfterClear ==
  IF Closing
  THEN /\ events' = "off"
       /\ UNCHANGED <<stream, ending, writer, sender, silenced>>
  ELSE IF ~cancelled
  THEN /\ events' = "off" /\ Fail("failure")
       /\ UNCHANGED <<stream, writer, sender, silenced>>
  ELSE /\ sender' = "get"
       /\ Publish /\ SpokenOver

\* _clear_output: the sender has ended; empty everything and clear the device.
ClearsOutput ==
  /\ events = "stopping" /\ sender = "off"
  /\ Emptied
  /\ IF Terminal
     THEN ResumesAfterClear
     ELSE /\ events' = "clearing" /\ Submit("events")
          /\ UNCHANGED <<stream, ending, sender, silenced>>
  /\ SessionUntouched
  /\ UNCHANGED <<cancelled, current, frame, playback, hearing>>

Cleared ==
  /\ events = "clearing" /\ Finished("events")
  /\ IF sending["events"] = "failed" /\ ~Closing
     THEN /\ events' = "off" /\ Fail("failure")
          /\ Sends("events", "idle") /\ UNCHANGED <<queue, cause>>
          /\ UNCHANGED <<stream, sender, silenced>>
     ELSE ResumesAfterClear
  /\ SessionUntouched
  /\ UNCHANGED <<cancelled, current, frame, output, residual, active, pending, playback>>
  /\ UNCHANGED hearing

Stated ==
  /\ events = "stating" /\ Finished("events")
  /\ Sends("events", "idle") /\ UNCHANGED <<queue, cause>>
  /\ IF sending["events"] = "failed" THEN Fail("failure") ELSE UNCHANGED ending
  /\ Continue
  /\ SessionUntouched
  /\ UNCHANGED <<cancelled, current, silenced, sound, hearing>>

SpeechStopped ==
  /\ AtEvent /\ Yield("silence")
  /\ Publish
  /\ UNCHANGED <<cancelled, current, silenced, sound, hearing>>

\* Never carry an unfinished sample from a preceding response.
ResponseStarted ==
  /\ AtEvent /\ Yield("started")
  /\ current' = Head(inbox).about
  /\ residual' = {} /\ active' = TRUE
  /\ Publish
  /\ UNCHANGED <<cancelled, silenced, sender, frame, output, pending, playback, hearing>>

BugAccepts == TRUE
\* Deltas of a cancelled response are still on their way.
Accepts == active

BugPacketizes ==
  LET heard == residual \cup {current} IN
  /\ residual' = heard
  /\ output' \in {output, Append(output, heard)}
  /\ UNCHANGED ending /\ Continue
\* _packetize: the delta leaves the frame unfinished, or fills it and may begin
\* another; a full queue ends the conversation.
Packetizes ==
  LET heard == residual \cup {current} IN
  \/ /\ residual' = heard
     /\ UNCHANGED <<ending, output>> /\ Continue
  \/ /\ Len(output) < OutputCapacity
     /\ output' = Append(output, heard)
     /\ residual' \in {{}, {current}}
     /\ UNCHANGED ending /\ Continue
  \/ /\ Len(output) = OutputCapacity
     /\ residual' = heard
     /\ Fail("output_overflow") /\ events' = "off" /\ stream' = "idle"
     /\ UNCHANGED output

AudioDelta ==
  /\ AtEvent /\ Yield("delta")
  /\ IF Accepts
     THEN Packetizes
     ELSE UNCHANGED <<ending, output, residual>> /\ Continue
  /\ UNCHANGED <<writer, cancelled, current, silenced>>
  /\ UNCHANGED <<sender, frame, active, pending, playback, hearing>>

\* The last frame may be short; a trailing half sample is dropped.
ResponseFinished ==
  /\ AtEvent /\ Yield("done")
  /\ IF ~active
     THEN UNCHANGED <<ending, writer, output, residual, active>> /\ Continue
     ELSE /\ residual' = {} /\ active' = FALSE
          /\ \/ Publish /\ UNCHANGED output
             \/ /\ residual # {} /\ Len(output) < OutputCapacity
                /\ output' = Append(output, residual)
                /\ Publish
             \/ /\ residual # {} /\ Len(output) = OutputCapacity
                /\ Fail("output_overflow") /\ events' = "off" /\ stream' = "idle"
                /\ UNCHANGED <<writer, output>>
  /\ UNCHANGED <<cancelled, current, silenced, sender, frame, pending, playback, hearing>>

TranscriptFinal ==
  /\ AtEvent /\ Yield("text")
  /\ events' = "storing" /\ stream' = "idle"
  /\ UNCHANGED <<writer, ending, cancelled, current, silenced, sound, hearing>>

\* append_final_transcript: stored and published, a duplicate, or a database error.
Transcribed ==
  /\ events = "storing"
  /\ \/ Publish
     \/ UNCHANGED <<ending, writer>> /\ Continue
     \/ Fail("failure") /\ events' = "off" /\ UNCHANGED <<stream, writer>>
  /\ SessionUntouched
  /\ UNCHANGED <<cancelled, current, silenced, sound, hearing>>

\* ProviderFailure after the session closed itself, or the end of the stream.
StreamEnds ==
  /\ AtEvent
  /\ stream = "over" \/ (stream = "failing" /\ cleanup = "done")
  /\ events' = "off" /\ stream' = "over"
  /\ Fail("failure")
  /\ SessionUntouched
  /\ UNCHANGED <<writer, cancelled, current, silenced, sound, hearing>>

-----------------------------------------------------------------------------
(* _output_sender *)

SenderTakes ==
  /\ sender = "get" /\ output # <<>>
  /\ output' = Tail(output)
  /\ IF Terminal
     THEN /\ sender' = "off" /\ Lost
          /\ UNCHANGED <<writer, frame, pending>>
     ELSE /\ sender' = "sending" /\ frame' = Head(output) /\ pending' = TRUE
          /\ Submit("sender")
          /\ UNCHANGED ending
  /\ UNCHANGED <<session, speech, residual, active, playback, hearing>>

SenderSent ==
  /\ sender \in {"sending", "draining"} /\ Finished("sender")
  /\ Sends("sender", "idle") /\ UNCHANGED <<queue, cause>>
  /\ frame' = {}
  /\ IF sender = "sending" /\ sending["sender"] = "failed"
     THEN sender' = "off" /\ Fail("failure")
     ELSE /\ sender' = IF sender = "draining" \/ Closing THEN "off" ELSE "get"
          /\ UNCHANGED ending
  /\ UNCHANGED <<session, speech, output, residual, active, pending, playback, hearing>>

-----------------------------------------------------------------------------
(* The device's binary frames and _input_pump *)

\* receive_audio and reject_audio: admitted; one too many, or invalid.  A frame of
\* an ended stream is answered with an error and changes nothing here.
DeviceFrame ==
  /\ ~Terminal /\ Started
  /\ \/ /\ input < InputCapacity
        /\ input' = input + 1
        /\ UNCHANGED ending
     \/ /\ Fail("failure")
        /\ UNCHANGED input
  /\ UNCHANGED <<writer, session, speech, sound, pump>>

PumpTakes ==
  /\ pump = "get" /\ input > 0
  /\ input' = input - 1
  /\ IF Terminal
     THEN pump' = "off" /\ Lost
     ELSE pump' = "given" /\ UNCHANGED ending
  /\ UNCHANGED <<writer, session, speech, sound>>

\* _send_owned_input: the child looks at the lease and at closing again.
PumpSends ==
  /\ pump = "given"
  /\ \/ /\ Closing \/ Terminal \/ ~closed
        /\ pump' = IF Closing THEN "off" ELSE "get"
        /\ UNCHANGED <<session, ending>>
     \/ /\ ~Closing /\ ~Terminal
        /\ pump' = "off" /\ Fail("failure")
        /\ Close \/ UNCHANGED <<closed, cleanup, cancels, forgotten>>
        /\ UNCHANGED <<stage, link, stream, provider>>
  /\ UNCHANGED <<writer, speech, sound, input>>

-----------------------------------------------------------------------------
(* Endings that the device, a timer or the registry cause *)

\* The device stops it or reports an overflow of its own output; a timer runs out, which
\* does not look at the lease.
Ends ==
  /\ Started
  /\ \/ ~Terminal /\ \E code \in {"ended", "output_overflow"} : Fail(code)
     \/ Fail("failure")
  /\ UNCHANGED <<writer, session, speech, sound, hearing>>

\* A stop, or the loss of the lease, while the session opens.
StoppedOpening ==
  /\ stage \in {"connecting", "configuring", "confirming", "cleaning"} /\ ~Closing
  /\ reason' = "ended"
  /\ UNCHANGED <<finalizer, told, row, overflowCleared, clears>>
  /\ UNCHANGED <<writer, session, speech, sound, hearing>>

\* The registry's disconnect callback, and a later one after a failed cleanup.
DisconnectNotified ==
  /\ Terminal
  /\ \/ stage = "open" /\ ~Closing /\ Lost
     \/ /\ finalizer = "failed" /\ finalizer' = "starting"
        /\ UNCHANGED <<reason, told, row, overflowCleared, clears>>
  /\ UNCHANGED <<writer, session, speech, sound, hearing>>

\* The socket's handler sends too: acknowledgements, errors, command controls.
\* Bound: it begins no message once the conversation is closing.
HandlerReplies ==
  /\ sending["handler"] \in {"idle", "ok", "failed"} /\ ~Closing
  /\ Submit("handler")
  /\ UNCHANGED <<session, ending, speech, sound, hearing>>

-----------------------------------------------------------------------------
(* _finalize *)

FinalizerMoves(from, to) == finalizer = from /\ finalizer' = to

\* Every worker is cancelled at once.  One that is inside a control message cuts it and
\* takes it for failed, one inside anext unwinds the stream, a frame is joined.
CancelWorkers ==
  /\ FinalizerMoves("starting", "joining")
  /\ events' = IF events \in {"next", "clearing", "stating"} THEN events ELSE "off"
  /\ sender' = CASE sender = "get" -> "off" [] sender = "sending" -> "draining"
                 [] OTHER -> sender
  /\ pump' = "off"
  /\ IF events \in {"clearing", "stating"}
     THEN Cut("events", "control_cut")
     ELSE UNCHANGED writer
  /\ IF events = "cancelling"
     THEN CancelFails(current)
     ELSE /\ IF events = "next" THEN ConsumerCancelled
             ELSE UNCHANGED <<stream, closed, cleanup, cancels, forgotten>>
          /\ UNCHANGED <<stage, link, provider>>
  /\ UNCHANGED <<reason, told, row, overflowCleared, clears, cancelled, current, silenced>>
  /\ UNCHANGED <<frame, output, residual, active, pending, playback, input>>

BugClearsOverflow == reason = "output_overflow"
ClearsOverflow == reason = "output_overflow" /\ ~overflowCleared

JoinWorkers ==
  /\ finalizer = "joining"
  /\ events = "off" \/ (events = "next" /\ stream = "over")
  /\ sender = "off"
  /\ events' = "off"
  /\ IF ClearsOverflow
     THEN /\ finalizer' = "cancelling" /\ overflowCleared' = TRUE
          /\ UNCHANGED <<input, output, residual, active, pending>>
     ELSE /\ finalizer' = "closing" /\ input' = 0 /\ Emptied
          /\ UNCHANGED overflowCleared
  /\ UNCHANGED <<writer, session, reason, told, row, clears, cancelled, current, silenced>>
  /\ UNCHANGED <<sender, frame, playback, pump>>

\* Even a failed cancel of the response allows the clear.
CancelsOverflow ==
  /\ finalizer = "cancelling"
  /\ \E id \in {MaxResponses + 1} : CancelSent(id) \/ CancelFails(id)
  /\ input' = 0 /\ Emptied
  /\ IF Terminal
     THEN finalizer' = "closing" /\ UNCHANGED <<writer, clears>>
     ELSE /\ finalizer' = "clearing" /\ clears' = clears + 1
          /\ Submit("finalizer")
  /\ UNCHANGED <<reason, told, row, overflowCleared, events, cancelled, current, silenced>>
  /\ UNCHANGED <<sender, frame, playback, pump>>

FinalizerSent(from, to) ==
  /\ FinalizerMoves(from, to)
  /\ Finished("finalizer")
  /\ Sends("finalizer", "idle") /\ UNCHANGED <<queue, cause>>
  /\ UNCHANGED <<reason, told, row, overflowCleared, clears>>
  /\ UNCHANGED <<session, speech, sound, hearing>>

ClearSent == FinalizerSent("clearing", "closing")

\* session.close(), joined; there is none if opening was refused.
CloseSession ==
  /\ finalizer = "closing"
  /\ \/ stage = "open" /\ cleanup = "none"
        /\ Close /\ UNCHANGED <<stage, link, stream, provider>>
        /\ UNCHANGED finalizer
     \/ stage = "open" /\ cleanup = "done" /\ finalizer' = "recording" /\ UNCHANGED session
     \/ stage = "refused" /\ finalizer' = "recording" /\ UNCHANGED session
  /\ UNCHANGED <<writer, reason, told, row, overflowCleared, clears, speech, sound, hearing>>

\* The row and its failure event, or a database error that keeps the reservation;
\* either way the device is told of the failure once.
Record ==
  /\ finalizer = "recording"
  /\ row' = "closed" \/ UNCHANGED row
  /\ IF reason \in Codes /\ ~told /\ ~Terminal
     THEN finalizer' = "telling" /\ told' = TRUE /\ Submit("finalizer")
     ELSE /\ finalizer' = IF row' = "closed" THEN "ending" ELSE "failed"
          /\ UNCHANGED <<told, writer>>
  /\ UNCHANGED <<session, reason, overflowCleared, clears, speech, sound, hearing>>

ErrorSent == FinalizerSent("telling", IF row = "closed" THEN "ending" ELSE "failed")

\* conversation.ended, only for a started conversation.
EndSubmitted ==
  /\ finalizer = "ending" /\ sending["finalizer"] = "idle"
  /\ IF stage = "open" /\ ~Terminal
     THEN Submit("finalizer") /\ UNCHANGED finalizer
     ELSE finalizer' = "done" /\ UNCHANGED writer
  /\ UNCHANGED <<session, reason, told, row, overflowCleared, clears, speech, sound, hearing>>

EndSent == FinalizerSent("ending", "done")

\* A start of the same device asks again for the cleanup that failed.
Reconciled ==
  /\ ~Terminal /\ FinalizerMoves("failed", "starting")
  /\ UNCHANGED <<reason, told, row, overflowCleared, clears>>
  /\ UNCHANGED <<writer, session, speech, sound, hearing>>

-----------------------------------------------------------------------------
(* The device, the provider and time *)

\* The socket takes a message: a frame is played, a clear empties the playback.
Delivered ==
  /\ \E w \in AudioWriters :
       /\ Write(w)
       /\ playback' =
            IF w = "sender" THEN playback \cup frame
            ELSE IF <<w, events>> = <<"events", "clearing">>
                 \/ <<w, finalizer>> = <<"finalizer", "clearing">> THEN {}
            ELSE playback
  /\ UNCHANGED <<session, ending, speech, sender, frame, output, residual, active, pending>>
  /\ UNCHANGED hearing

WriterMovesOn(w) == WriterStep(w) /\ UNCHANGED <<session, ending, speech, sound, hearing>>

WriterMoves ==
  \/ \E w \in AudioWriters : WriterMovesOn(w)
  \/ RetiredOutside /\ UNCHANGED <<session, ending, speech, sound, hearing>>

SessionCloses ==
  /\ CleanupJoins \/ CleanupEnds \/ ReadCancelled \/ Unwound
  /\ UNCHANGED <<writer, ending, speech, sound, hearing>>

SessionMoves ==
  /\ \/ Prune \/ IgnoreCancelError \/ FailureRead \/ BrokenRead \/ UncorrelatedRead
     \/ \E kind \in {"speech", "silence", "text", "started", "delta", "done", "failure"} :
          Emit(kind)
  /\ UNCHANGED <<writer, ending, speech, sound, hearing>>

\* The conversation is over and the device's socket is at rest.
Over == finalizer = "done" /\ UNCHANGED vars

EventsNext ==
  \/ SpeechStarted \/ CancelsResponse \/ ClearsOutput \/ Cleared \/ Stated \/ SpeechStopped
  \/ ResponseStarted \/ AudioDelta \/ ResponseFinished \/ TranscriptFinal \/ Transcribed
  \/ StreamEnds
WorkersNext == SenderTakes \/ SenderSent \/ DeviceFrame \/ PumpTakes \/ PumpSends
EndingNext == Ends \/ StoppedOpening \/ DisconnectNotified \/ HandlerReplies
FinalizerNext ==
  \/ CancelWorkers \/ JoinWorkers \/ CancelsOverflow \/ ClearSent \/ CloseSession
  \/ Record \/ ErrorSent \/ EndSubmitted \/ EndSent
  \/ Reconciled

Next ==
  \/ Opening \/ Refused \/ Opened
  \/ EventsNext \/ WorkersNext \/ EndingNext \/ FinalizerNext
  \/ Delivered \/ WriterMoves \/ SessionCloses \/ SessionMoves \/ Over

Spec == Init /\ [][Next]_vars

-----------------------------------------------------------------------------
(* Properties *)

\* Once a visitor has spoken over a response, no sample of it is anywhere: not in
\* the queue, in the unfinished frame, in the frame being sent or at the device,
\* whatever the provider still had on its way and however late the cancel was.
SilencedStaysSilent ==
  \A r \in 1..silenced :
    r \notin playback \cup frame \cup residual \cup UNION {output[i] : i \in DOMAIN output}

\* While the finalizer joins the workers none of them waits for more work, which might
\* never come: not even the one whose cancellation was spent on a control message.
CancelledWorkersEnd ==
  finalizer = "joining" => stream # "reading" /\ sender # "get" /\ pump = "off"

\* An overflow of the output clears the device exactly once, also when the cancel
\* fails, and when the finalizer has to be run again.
OverflowClearedOnce ==
  /\ clears <= 1
  /\ ( /\ reason = "output_overflow" /\ ~Terminal
       /\ finalizer \in {"closing", "recording", "telling", "ending", "done"} ) => clears = 1

\* However the conversation ended, and whoever asked the session to close, the end
\* leaves no worker, no queued audio and no connection to the provider.
EndLeavesNothing ==
  finalizer = "done" =>
    /\ ~link
    /\ events = "off" /\ sender = "off" /\ pump = "off"
    /\ input = 0 /\ output = <<>> /\ residual = {}

\* The provider's answer that there was nothing to cancel ends the conversation only
\* if the cancel it answers failed, expired or gave way to newer ones.
OnlyForgottenCancelsFail ==
  [][stream = "reading" /\ stream' = "failing" /\ inbox # inbox'
       /\ Head(inbox).kind = "cancel_error"
     => Head(inbox).about \in forgotten]_vars

\* docs/device-protocol-v1.md: an overflow closes only the conversation, never the
\* device's WebSocket.
OverflowKeepsSocket ==
  ~(cause = "control_cut" /\ reason = "output_overflow")
=============================================================================
