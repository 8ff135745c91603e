---------------------- MODULE ConversationAudio_proofs ----------------------
(***************************************************************************)
(* The safety properties of one conversation and its audio, proved for any *)
(* number of responses, events and remembered cancels and queues of any    *)
(* size.                                                                   *)
(***************************************************************************)
EXTENDS ConversationAudio, SequenceTheorems, TLAPS

USE WaiterBound, SessionBounds, QueueBounds, WritersKnown
USE DEF writer, provider, session, ending, speech, sound, hearing, AudioWriters, Codes, Heard

-----------------------------------------------------------------------------
(* The inductive invariant *)

\* The queue of the lock holds those who wait for it, each once.
QueueInv == \A i \in DOMAIN queue : sending[queue[i]] = "waiting"

\* A retired connection has no send in progress.
SocketInv == Terminal => Holders = {}

\* A task that is not waiting for a send of its own has none under way.
Resting == {"idle", "ok", "failed"}
SendInv ==
  /\ events \notin {"clearing", "stating"} => sending["events"] \in Resting
  /\ sender \notin {"sending", "draining"} => sending["sender"] \in Resting
  /\ finalizer \notin {"clearing", "telling", "ending"} => sending["finalizer"] \in Resting

\* Before the session is open no worker and no cleanup exists, and a session that was
\* closed or refused has no socket.
StageInv ==
  /\ stage # "open" => events = "off" /\ sender = "off" /\ pump = "off" /\ stream = "idle" /\ ~active
  /\ stage \notin {"open", "refused"} => cleanup = "none" /\ finalizer = "off"
  /\ stage \in {"connecting", "refused"} \/ cleanup = "done" => ~link
  /\ cleanup # "none" => closed
  /\ stream = "reading" => events = "next"
  /\ events = "clearing" => sender = "off"

\* The finalizer runs only for an ending, and once it has joined the workers none
\* comes back.
Joined == {"cancelling", "clearing", "closing", "recording", "telling", "ending", "failed", "done"}
Emptying == Joined \ {"cancelling"}

FinalizerInv ==
  /\ finalizer # "off" => Closing
  /\ finalizer = "joining" =>
       /\ stream # "reading" /\ sender \in {"off", "draining"} /\ pump = "off"
       /\ events \in {"off", "next", "clearing", "stating"}
  /\ finalizer \in Joined => events = "off" /\ sender = "off" /\ pump = "off"
  /\ finalizer \in Emptying => input = 0 /\ output = <<>> /\ residual = {}
  /\ finalizer \in {"recording", "telling", "ending", "done"} => ~link

\* One clear for one overflow, sent or lost with the connection.
OverflowInv ==
  /\ clears = 0 \/ (clears = 1 /\ overflowCleared)
  /\ overflowCleared => clears = 1 \/ Terminal \/ finalizer = "cancelling"
  /\ finalizer = "cancelling" => overflowCleared /\ clears = 0
  /\ finalizer \in {"clearing", "closing", "recording", "telling", "ending", "done"}
       /\ reason = "output_overflow" => overflowCleared
  /\ finalizer = "clearing" => overflowCleared

\* Responses start in order: those whose start is still on its way are newer than the
\* one being heard.
IsStart(e) == e.kind = "started"
StartsInv ==
  /\ current <= response
  /\ \A i \in DOMAIN inbox : IsStart(inbox[i]) =>
       /\ current < inbox[i].about /\ inbox[i].about <= response
       /\ \A j \in DOMAIN inbox : i < j /\ IsStart(inbox[j]) => inbox[i].about < inbox[j].about

Live == ~Closing /\ ~Terminal

\* Audio on its way to the ear belongs to a response no visitor has spoken over, and
\* while the conversation lives the flags say where there is none.
SoundInv ==
  /\ silenced <= current
  /\ active => silenced < current
  /\ \A r \in frame \cup residual \cup playback : silenced < r
  /\ \A i \in DOMAIN output : \A r \in output[i] : silenced < r
  /\ ~active => residual = {}
  /\ sender \in {"get", "off"} => frame = {}
  /\ events = "clearing" => ~active
  /\ Live =>
       /\ sender = "draining" => events = "stopping"
       /\ ~pending => frame = {}
       /\ ~pending => playback = {} \/ (events = "clearing" /\ sending["events"] \notin {"written", "ok"})
       /\ events = "clearing" => ~pending /\ output = <<>>

\* The answers to cancels: each id has one, and it is remembered until the answer comes,
\* or forgotten for a reason.
IsAnswer(e) == e.kind = "cancel_error"
Overflow == MaxResponses + 1
Known == forgotten \cup {cancels[k] : k \in DOMAIN cancels}
Cancellable == active /\ events \in {"next", "cancelling", "stating", "storing"}

\* What is true of such an answer.
Fits(e) ==
  /\ closed \/ e.about \in Known
  /\ IF e.about = Overflow
     THEN overflowCleared /\ finalizer # "cancelling"
     ELSE e.about <= current /\ (Cancellable => e.about < current)

CancelInv ==
  /\ events = "cancelling" => active
  /\ \A i, j \in DOMAIN inbox :
       IsAnswer(inbox[i]) /\ IsAnswer(inbox[j]) /\ inbox[i].about = inbox[j].about => i = j
  /\ \A i \in DOMAIN inbox : IsAnswer(inbox[i]) => Fits(inbox[i])

IInv ==
  /\ TypeOK /\ QueueInv /\ SocketInv /\ SendInv /\ StageInv /\ FinalizerInv /\ OverflowInv
  /\ StartsInv /\ SoundInv /\ CancelInv

-----------------------------------------------------------------------------
(* Sequences *)

\* A sequence without its element at i keeps the others in their order.
LEMMA RemoveAtProperties ==
  ASSUME NEW S, NEW s \in Seq(S), NEW i \in 1..Len(s)
  PROVE  /\ RemoveAt(s, i) \in Seq(S)
         /\ Len(RemoveAt(s, i)) = Len(s) - 1
         /\ \A j \in 1..Len(s) - 1 : RemoveAt(s, i)[j] = IF j < i THEN s[j] ELSE s[j + 1]
<1>. DEFINE before == SubSeq(s, 1, i - 1)
            after == SubSeq(s, i + 1, Len(s))
<1>0. Len(s) \in Nat /\ \A j \in 1..Len(s) : s[j] \in S
  BY ElementOfSeq, LenProperties
<1>1. /\ before \in Seq(S) /\ Len(before) = i - 1
      /\ \A j \in 1..i - 1 : before[j] = s[j]
  <2>1. \A j \in 1..i - 1 : s[j] \in S
    BY <1>0
  <2>2. /\ before \in Seq(S)
        /\ Len(before) = IF 1 <= i - 1 THEN (i - 1) - 1 + 1 ELSE 0
        /\ \A j \in 1..(i - 1) - 1 + 1 : before[j] = s[1 + j - 1]
    BY <1>0, <2>1, SubSeqProperties
  <2>. QED
    BY <1>0, <2>2
<1>2. /\ after \in Seq(S) /\ Len(after) = Len(s) - i
      /\ \A j \in 1..Len(s) - i : after[j] = s[i + j]
  <2>1. \A j \in i + 1..Len(s) : s[j] \in S
    BY <1>0
  <2>2. /\ after \in Seq(S)
        /\ Len(after) = IF i + 1 <= Len(s) THEN Len(s) - (i + 1) + 1 ELSE 0
        /\ \A j \in 1..Len(s) - (i + 1) + 1 : after[j] = s[(i + 1) + j - 1]
    BY <1>0, <2>1, SubSeqProperties
  <2>. QED
    BY <1>0, <2>2
<1>. HIDE DEF before, after
<1>3. /\ before \o after \in Seq(S)
      /\ Len(before \o after) = Len(before) + Len(after)
      /\ \A j \in 1..Len(before) + Len(after) :
           (before \o after)[j] = IF j <= Len(before) THEN before[j] ELSE after[j - Len(before)]
  BY <1>1, <1>2, ConcatProperties
<1>4. RemoveAt(s, i) = before \o after
  BY DEF RemoveAt, before, after
<1>5. Len(before) + Len(after) = Len(s) - 1
  BY <1>0, <1>1, <1>2
<1>6. ASSUME NEW j \in 1..Len(s) - 1
      PROVE  (before \o after)[j] = IF j < i THEN s[j] ELSE s[j + 1]
  <2>0. (before \o after)[j] = IF j <= i - 1 THEN before[j] ELSE after[j - (i - 1)]
    BY <1>1, <1>3, <1>5
  <2>1. CASE j < i
    BY <1>0, <1>1, <2>0, <2>1
  <2>2. CASE ~(j < i)
    <3>1. j - (i - 1) \in 1..Len(s) - i /\ i + (j - (i - 1)) = j + 1
      BY <1>0, <2>2
    <3>2. after[j - (i - 1)] = s[j + 1]
      BY <1>2, <3>1
    <3>. QED
      BY <1>0, <2>0, <2>2, <3>2
  <2>. QED
    BY <2>1, <2>2
<1>. QED
  BY <1>3, <1>4, <1>5, <1>6

-----------------------------------------------------------------------------
(* The writer *)

\* Whatever the conversation does to the writer is one of its operations; it cuts a
\* send only of a message, and only when it is closing.
WriterNext ==
  \/ UNCHANGED writer
  \/ \E w \in AudioWriters :
       \/ sending[w] \in Resting /\ Submit(w)
       \/ Write(w) \/ WriterStep(w)
       \/ Finished(w) /\ Sends(w, "idle") /\ UNCHANGED <<queue, cause>>
       \/ Closing /\ Cut(w, "control_cut")
  \/ RetiredOutside

LEMMA WriterMoved == FinalizerInv /\ SendInv /\ [Next]_vars => WriterNext
<1>. SUFFICES ASSUME FinalizerInv, SendInv, [Next]_vars PROVE WriterNext
  OBVIOUS
<1>. USE DEF WriterNext, FinalizerInv, SendInv, Resting, Publish, StopSender, ResumesAfterClear,
             AtEvent, Finished
<1>1. CASE Opening
  BY <1>1 DEF Opening
<1>2. CASE Refused
  BY <1>2 DEF Refused
<1>3. CASE Opened
  BY <1>3 DEF Opened, Confirm
<1>4. CASE SpeechStarted
  BY <1>4 DEF SpeechStarted, Interrupts
<1>5. CASE CancelsResponse
  BY <1>5 DEF CancelsResponse
<1>6. CASE ClearsOutput
  BY <1>6 DEF ClearsOutput
<1>7. CASE Cleared
  BY <1>7 DEF Cleared
<1>8. CASE Stated
  BY <1>8 DEF Stated
<1>9. CASE SpeechStopped
  BY <1>9 DEF SpeechStopped
<1>10. CASE ResponseStarted
  BY <1>10 DEF ResponseStarted
<1>11. CASE AudioDelta
  BY <1>11 DEF AudioDelta, Accepts, Packetizes
<1>12. CASE ResponseFinished
  BY <1>12 DEF ResponseFinished
<1>13. CASE TranscriptFinal
  BY <1>13 DEF TranscriptFinal
<1>14. CASE Transcribed
  BY <1>14 DEF Transcribed
<1>15. CASE StreamEnds
  BY <1>15 DEF StreamEnds
<1>16. CASE SenderTakes
  BY <1>16 DEF SenderTakes
<1>17. CASE SenderSent
  BY <1>17 DEF SenderSent
<1>18. CASE DeviceFrame
  BY <1>18 DEF DeviceFrame
<1>19. CASE PumpTakes
  BY <1>19 DEF PumpTakes
<1>20. CASE PumpSends
  BY <1>20 DEF PumpSends
<1>21. CASE Ends
  BY <1>21 DEF Ends
<1>22. CASE StoppedOpening
  BY <1>22 DEF StoppedOpening
<1>23. CASE DisconnectNotified
  BY <1>23 DEF DisconnectNotified
<1>24. CASE HandlerReplies
  BY <1>24 DEF HandlerReplies
<1>25. CASE CancelWorkers
  BY <1>25 DEF CancelWorkers, FinalizerMoves
<1>26. CASE JoinWorkers
  BY <1>26 DEF JoinWorkers, ClearsOverflow
<1>27. CASE CancelsOverflow
  BY <1>27 DEF CancelsOverflow
<1>28. CASE ClearSent
  BY <1>28 DEF ClearSent, FinalizerSent, FinalizerMoves
<1>29. CASE CloseSession
  BY <1>29 DEF CloseSession
<1>30. CASE Record
  BY <1>30 DEF Record
<1>31. CASE ErrorSent
  BY <1>31 DEF ErrorSent, FinalizerSent, FinalizerMoves
<1>32. CASE EndSubmitted
  BY <1>32 DEF EndSubmitted
<1>33. CASE EndSent
  BY <1>33 DEF EndSent, FinalizerSent, FinalizerMoves
<1>34. CASE Reconciled
  BY <1>34 DEF Reconciled, FinalizerMoves
<1>35. CASE Delivered
  BY <1>35 DEF Delivered
<1>36. CASE WriterMoves
  BY <1>36 DEF WriterMoves, WriterMovesOn
<1>37. CASE SessionCloses
  BY <1>37 DEF SessionCloses
<1>38. CASE SessionMoves
  BY <1>38 DEF SessionMoves
<1>39. CASE UNCHANGED vars
  BY <1>39 DEF vars
<1>. QED
  BY <1>1, <1>2, <1>3, <1>4, <1>5, <1>6, <1>7, <1>8, <1>9, <1>10, <1>11, <1>12, <1>13,
     <1>14, <1>15, <1>16, <1>17, <1>18, <1>19, <1>20, <1>21, <1>22, <1>23, <1>24,
     <1>25, <1>26, <1>27, <1>28, <1>29, <1>30, <1>31, <1>32, <1>33, <1>34, <1>35,
     <1>36, <1>37, <1>38, <1>39
  DEF Next, EventsNext, WorkersNext, EndingNext, FinalizerNext, Over

Places == {"idle", "new", "waiting", "writing", "written", "ok", "failed"}

\* A send that fails takes with it the one that holds the lock, and nothing else.
LEMMA Failing ==
  ASSUME WriterTypeOK, NEW w \in Writers, NEW why, FailsFor(w, why)
  PROVE  /\ sending' \in [Writers -> Places]
         /\ \A v \in Writers :
              sending'[v] = IF v = w \/ v \in Holders THEN "failed" ELSE sending[v]
         /\ Holders' = {}
<1>1. sending' = [v \in Writers |-> IF v = w \/ v \in Holders THEN "failed" ELSE sending[v]]
  BY DEF FailsFor, CutShort
<1>. QED
  BY <1>1 DEF WriterTypeOK, Places, Holders

\* A writer that gives up leaves the others in line.
LEMMA LeavingQueue ==
  ASSUME WriterTypeOK, QueueInv, NEW w \in Writers, LeavesQueue(w),
         \A v \in Writers \ {w} : sending[v] = "waiting" => sending'[v] = "waiting"
  PROVE  queue' \in Seq(Writers) /\ IsInjective(queue') /\ QueueInv'
<1>0. ASSUME NEW i \in 1..Len(queue)
      PROVE  /\ RemoveAt(queue, i) \in Seq(Writers)
             /\ Len(RemoveAt(queue, i)) = Len(queue) - 1
             /\ \A j \in 1..Len(queue) - 1 :
                  RemoveAt(queue, i)[j] = IF j < i THEN queue[j] ELSE queue[j + 1]
  <2>1. queue \in Seq(Writers)
    BY DEF WriterTypeOK
  <2>. QED
    BY <2>1, RemoveAtProperties
<1>. USE DEF WriterTypeOK, IsInjective, QueueInv
<1>1. CASE \E i \in DOMAIN queue : queue[i] = w
  <2>1. PICK i \in DOMAIN queue : queue[i] = w /\ queue' = RemoveAt(queue, i)
    BY <1>1 DEF LeavesQueue
  <2>. DEFINE was(j) == IF j < i THEN j ELSE j + 1
  <2>2. /\ DOMAIN queue = 1..Len(queue) /\ Len(queue) \in Nat /\ i \in 1..Len(queue)
        /\ queue \in Seq(Writers)
    BY LenProperties
  <2>3. /\ RemoveAt(queue, i) \in Seq(Writers) /\ Len(RemoveAt(queue, i)) = Len(queue) - 1
        /\ \A j \in 1..Len(queue) - 1 :
             RemoveAt(queue, i)[j] = IF j < i THEN queue[j] ELSE queue[j + 1]
    BY <1>0, <2>2
  <2>4. DOMAIN queue' = 1..Len(queue) - 1 /\ queue' \in Seq(Writers)
    BY <2>1, <2>3, LenProperties
  <2>5. \A j \in 1..Len(queue) - 1 : was(j) \in DOMAIN queue \ {i} /\ queue'[j] = queue[was(j)]
    BY <2>1, <2>2, <2>3
  <2>6. \A j, k \in 1..Len(queue) - 1 : was(j) = was(k) => j = k
    BY <2>2
  <2>7. \A k \in DOMAIN queue \ {i} : queue[k] \in Writers /\ queue[k] # w
    BY <2>1, ElementOfSeq, <2>2
  <2>. HIDE DEF was
  <2>a. IsInjective(queue')
    BY <2>4, <2>5, <2>6
  <2>8. QueueInv'
    BY <2>4, <2>5, <2>7
  <2>. QED
    BY <2>4, <2>a, <2>8
<1>2. CASE ~\E i \in DOMAIN queue : queue[i] = w
  <2>1. queue' = queue
    BY <1>2 DEF LeavesQueue
  <2>2. \A k \in DOMAIN queue : queue[k] \in Writers /\ queue[k] # w
    BY <1>2, ElementOfSeq, LenProperties
  <2>. QED
    BY <2>1, <2>2
<1>. QED
  BY <1>1, <1>2

\* Every child is in the line at most once, and only while it waits for the lock.
LEMMA WriterStays ==
  WriterTypeOK /\ QueueInv /\ WriterNext => WriterTypeOK' /\ QueueInv'
<1>. SUFFICES ASSUME WriterTypeOK, QueueInv, WriterNext PROVE WriterTypeOK' /\ QueueInv'
  OBVIOUS
<1>0. /\ queue \in Seq(Writers) /\ DOMAIN queue = 1..Len(queue) /\ Len(queue) \in Nat
      /\ \A k \in DOMAIN queue : queue[k] \in Writers
      /\ sending \in [Writers -> Places]
  BY ElementOfSeq, LenProperties DEF WriterTypeOK, Places
<1>. USE DEF WriterTypeOK, QueueInv, IsInjective
<1>1. CASE UNCHANGED writer
  BY <1>1
<1>2. ASSUME UNCHANGED queue, cause' \in Causes, sending' \in [Writers -> Places],
             \A v \in Writers : sending[v] = "waiting" => sending'[v] = "waiting"
      PROVE  WriterTypeOK' /\ QueueInv'
  <2>1. QueueInv'
    BY <1>0, <1>2
  <2>. QED
    BY <1>2, <2>1 DEF Places
<1>3. ASSUME NEW w \in AudioWriters, Enter(w)
      PROVE  WriterTypeOK' /\ QueueInv'
  <2>1. CASE UNCHANGED <<queue, cause>> /\ Sends(w, "failed")
    <3>1. /\ sending' \in [Writers -> Places]
          /\ \A v \in Writers : sending[v] = "waiting" => sending'[v] = "waiting"
      BY <1>0, <1>3, <2>1 DEF Enter, Sends, Places
    <3>. QED
      BY <1>2, <2>1, <3>1
  <2>2. CASE UNCHANGED queue /\ FailsFor(w, "other")
    <3>1. /\ sending' \in [Writers -> Places]
          /\ \A v \in Writers : sending[v] = "waiting" => sending'[v] = "waiting"
      BY <1>3, <2>2, Failing DEF Enter, Holders
    <3>2. cause' \in Causes
      BY <2>2 DEF FailsFor, RetireFor, Causes
    <3>. QED
      BY <1>2, <2>2, <3>1, <3>2
  <2>3. CASE queue' = Append(queue, w) /\ Sends(w, "waiting") /\ UNCHANGED cause
    <3>1. /\ queue' \in Seq(Writers) /\ DOMAIN queue' = 1..Len(queue) + 1
          /\ \A k \in DOMAIN queue : queue'[k] = queue[k]
          /\ queue'[Len(queue) + 1] = w
      BY <1>0, <2>3, AppendProperties, LenProperties
    <3>2. \A k \in DOMAIN queue : queue[k] # w
      BY <1>3 DEF Enter
    <3>3. IsInjective(queue')
      BY <1>0, <3>1, <3>2
    <3>4. \A k \in DOMAIN queue' : sending'[queue'[k]] = "waiting"
      BY <1>0, <2>3, <3>1, <3>2 DEF Sends
    <3>. QED
      BY <2>3, <3>1, <3>3, <3>4 DEF Sends
  <2>. QED
    BY <1>3, <2>1, <2>2, <2>3 DEF Enter
<1>4. ASSUME NEW w \in AudioWriters, Acquire(w)
      PROVE  WriterTypeOK' /\ QueueInv'
  <2>1. queue # <<>> /\ w = queue[1] /\ queue' = Tail(queue)
    BY <1>0, <1>4 DEF Acquire
  <2>2. /\ Tail(queue) \in Seq(Writers) /\ Len(Tail(queue)) = Len(queue) - 1
        /\ \A i \in 1..Len(Tail(queue)) : Tail(queue)[i] = queue[i + 1]
    BY <1>0, <2>1, HeadTailProperties
  <2>3. DOMAIN Tail(queue) = 1..Len(queue) - 1
    BY <2>2, LenProperties
  <2>4. IsInjective(Tail(queue))
    BY <1>0, <2>2, <2>3
  <2>5. \A i \in DOMAIN Tail(queue) :
          Tail(queue)[i] # w /\ Tail(queue)[i] \in Writers /\ sending[Tail(queue)[i]] = "waiting"
    BY <1>0, <2>1, <2>2, <2>3
  <2>6. /\ sending' \in [Writers -> Places] /\ cause' \in Causes
        /\ \A v \in Writers \ {w} : sending[v] = "waiting" => sending'[v] = "waiting"
    <3>1. CASE Sends(w, "writing") /\ UNCHANGED cause
      BY <1>0, <3>1 DEF Sends, Places
    <3>2. CASE FailsFor(w, "other")
      <4>1. cause' \in Causes
        BY <3>2 DEF FailsFor, RetireFor, Causes
      <4>. QED
        BY <3>2, <4>1, Failing DEF Holders
    <3>. QED
      BY <1>4, <3>1, <3>2 DEF Acquire
  <2>7. QueueInv'
    BY <2>1, <2>5, <2>6
  <2>. QED
    BY <2>1, <2>2, <2>4, <2>6, <2>7 DEF Places
<1>5. ASSUME NEW w \in AudioWriters, TimesOut(w) \/ Cut(w, "control_cut")
      PROVE  WriterTypeOK' /\ QueueInv'
  <2>1. /\ w \in Writers /\ LeavesQueue(w) /\ cause' \in Causes
        /\ \/ Sends(w, "failed")
           \/ \E why \in Causes : FailsFor(w, why)
    BY <1>5 DEF TimesOut, Cut, FailsFor, RetireFor, Causes
  <2>2. /\ sending' \in [Writers -> Places]
        /\ \A v \in Writers \ {w} : sending[v] = "waiting" => sending'[v] = "waiting"
    <3>1. CASE Sends(w, "failed")
      BY <1>0, <3>1 DEF Sends, Places
    <3>2. ASSUME NEW why \in Causes, FailsFor(w, why)
          PROVE  /\ sending' \in [Writers -> Places]
                 /\ \A v \in Writers \ {w} : sending[v] = "waiting" => sending'[v] = "waiting"
      BY <3>2, Failing DEF Holders
    <3>. QED
      BY <2>1, <3>1, <3>2
  <2>3. queue' \in Seq(Writers) /\ IsInjective(queue') /\ QueueInv'
    BY <2>1, <2>2, LeavingQueue
  <2>. QED
    BY <2>1, <2>2, <2>3 DEF Places
<1>6. ASSUME NEW w \in AudioWriters,
             \/ sending[w] \in Resting /\ Submit(w)
             \/ Write(w) \/ Completes(w)
             \/ Finished(w) /\ Sends(w, "idle") /\ UNCHANGED <<queue, cause>>
      PROVE  WriterTypeOK' /\ QueueInv'
  <2>1. sending[w] # "waiting" /\ UNCHANGED <<queue, cause>>
    BY <1>6 DEF Submit, Write, Completes, Finished, Resting
  <2>2. \E to \in {"idle", "new", "written", "ok"} : Sends(w, to)
    BY <1>6 DEF Submit, Write, Completes
  <2>3. /\ sending' \in [Writers -> Places]
        /\ \A v \in Writers : sending[v] = "waiting" => sending'[v] = "waiting"
    BY <1>0, <2>1, <2>2 DEF Sends, Places
  <2>. QED
    BY <1>2, <2>1, <2>3
<1>7. ASSUME NEW w \in AudioWriters, WriteFails(w)
      PROVE  WriterTypeOK' /\ QueueInv'
  <2>1. UNCHANGED queue /\ cause' \in Causes
    BY <1>7 DEF WriteFails, FailsFor, RetireFor, Causes
  <2>2. /\ sending' \in [Writers -> Places]
        /\ \A v \in Writers : sending[v] = "waiting" => sending'[v] = "waiting"
    BY <1>7, Failing DEF WriteFails, Holders
  <2>. QED
    BY <1>2, <2>1, <2>2
<1>8. CASE RetiredOutside
  <2>1. /\ sending' \in [Writers -> Places]
        /\ \A v \in Writers : sending[v] = "waiting" => sending'[v] = "waiting"
    BY <1>0, <1>8 DEF RetiredOutside, CutShort, Holders, Places
  <2>. QED
    BY <1>2, <1>8, <2>1 DEF RetiredOutside, RetireFor, Causes
<1>. QED
  BY <1>1, <1>3, <1>4, <1>5, <1>6, <1>7, <1>8 DEF WriterNext, WriterStep

\* A connection is retired together with the send that holds its lock, and no send gets
\* the lock afterwards.
LEMMA SocketStays ==
  WriterTypeOK /\ QueueInv /\ SocketInv /\ WriterNext => SocketInv'
<1>. SUFFICES ASSUME WriterTypeOK, QueueInv, SocketInv, WriterNext PROVE SocketInv'
  OBVIOUS
<1>0. sending \in [Writers -> Places]
  BY DEF WriterTypeOK, Places
<1>. USE DEF SocketInv, Terminal
<1>1. CASE UNCHANGED writer
  BY <1>1 DEF Holders
<1>2. CASE RetiredOutside
  BY <1>0, <1>2 DEF RetiredOutside, CutShort, Holders
<1>3. ASSUME NEW w \in Writers, NEW why, FailsFor(w, why) PROVE SocketInv'
  BY <1>3, Failing
<1>4. ASSUME NEW w \in Writers, UNCHANGED cause,
             NEW to \in Places \ {"writing", "written"}, Sends(w, to)
      PROVE  SocketInv'
  <2>1. \A v \in Writers : sending'[v] = IF v = w THEN to ELSE sending[v]
    BY <1>0, <1>4 DEF Sends
  <2>2. Holders' \subseteq Holders
    BY <1>4, <2>1 DEF Holders
  <2>. QED
    BY <1>4, <2>2
<1>5. ASSUME NEW w \in AudioWriters, Write(w) \/ Completes(w) PROVE SocketInv'
  <2>1. w \in Holders /\ UNCHANGED cause
    BY <1>5 DEF Write, Completes, Holders
  <2>. QED
    BY <2>1
<1>6. ASSUME NEW w \in AudioWriters, Enter(w) PROVE SocketInv'
  BY <1>3, <1>4, <1>6 DEF Enter, Places
<1>7. ASSUME NEW w \in AudioWriters, Acquire(w) PROVE SocketInv'
  <2>1. CASE ~Terminal /\ UNCHANGED cause
    BY <2>1
  <2>. QED
    BY <1>3, <1>7, <2>1 DEF Acquire, MayWrite
<1>8. ASSUME NEW w \in AudioWriters,
             WriteFails(w) \/ TimesOut(w) \/ Cut(w, "control_cut")
      PROVE  SocketInv'
  BY <1>3, <1>4, <1>8 DEF WriteFails, TimesOut, Cut, Places
<1>9. ASSUME NEW w \in AudioWriters,
             Submit(w) \/ (Sends(w, "idle") /\ UNCHANGED <<queue, cause>>)
      PROVE  SocketInv'
  BY <1>4, <1>9 DEF Submit, Places
<1>. QED
  BY <1>1, <1>2, <1>5, <1>6, <1>7, <1>8, <1>9 DEF WriterNext, WriterStep

\* Once retired, a connection stays retired for its first cause.
LEMMA CauseStays == WriterNext /\ Terminal => cause' = cause
  BY DEF WriterNext, WriterStep, Terminal, FailsFor, RetireFor, Submit, Write, Completes, Enter,
         Acquire, WriteFails, TimesOut, Cut, RetiredOutside

\* A task creates its next send only when the last one is over.
LEMMA SendStep ==
  TypeOK /\ QueueInv /\ SendInv /\ StageInv /\ FinalizerInv /\ [Next]_vars => SendInv'
<1>. SUFFICES ASSUME TypeOK, QueueInv, SendInv, StageInv, FinalizerInv, [Next]_vars PROVE SendInv'
  OBVIOUS
<1>0. sending \in [Writers -> Places]
  BY DEF TypeOK, WriterTypeOK, Places
<1>. USE <1>0 DEF SendInv, StageInv, FinalizerInv, Closing, Started, Resting, Publish, StopSender,
                  ResumesAfterClear, Submit, Sends, Finished,
                  Cut, Continue, Fail, Lost, AtEvent
<1>1. CASE Opening
  BY <1>1 DEF Opening
<1>2. CASE Refused
  BY <1>2 DEF Refused
<1>3. CASE Opened
  BY <1>3 DEF Opened, Confirm
<1>4. CASE SpeechStarted
  BY <1>4 DEF SpeechStarted, Interrupts
<1>5. CASE CancelsResponse
  BY <1>5 DEF CancelsResponse
<1>6. CASE ClearsOutput
  BY <1>6 DEF ClearsOutput
<1>7. CASE Cleared
  <2>1. CASE events' = "off" /\ Sends("events", "idle") /\ UNCHANGED sender
             /\ (finalizer' = finalizer \/ ~Closing)
    BY <1>7, <2>1
  <2>2. CASE events' = "off" /\ UNCHANGED <<writer, sender>> /\ (finalizer' = finalizer \/ ~Closing)
    BY <1>7, <2>2 DEF Cleared
  <2>3. CASE sender' = "get" /\ Publish /\ ~Closing
    BY <1>7, <2>3 DEF Cleared
  <2>. QED
    BY <1>7, <2>1, <2>2, <2>3 DEF Cleared
<1>8. CASE Stated
  BY <1>8 DEF Stated
<1>9. CASE SpeechStopped
  BY <1>9 DEF SpeechStopped
<1>10. CASE ResponseStarted
  BY <1>10 DEF ResponseStarted
<1>11. CASE AudioDelta
  BY <1>11 DEF AudioDelta, Accepts, Packetizes
<1>12. CASE ResponseFinished
  BY <1>12 DEF ResponseFinished
<1>13. CASE TranscriptFinal
  BY <1>13 DEF TranscriptFinal
<1>14. CASE Transcribed
  BY <1>14 DEF Transcribed
<1>15. CASE StreamEnds
  BY <1>15 DEF StreamEnds
<1>16. CASE SenderTakes
  BY <1>16 DEF SenderTakes
<1>17. CASE SenderSent
  BY <1>17 DEF SenderSent
<1>18. CASE DeviceFrame
  BY <1>18 DEF DeviceFrame
<1>19. CASE PumpTakes
  BY <1>19 DEF PumpTakes
<1>20. CASE PumpSends
  BY <1>20 DEF PumpSends
<1>21. CASE Ends
  BY <1>21 DEF Ends
<1>22. CASE StoppedOpening
  BY <1>22 DEF StoppedOpening
<1>23. CASE DisconnectNotified
  BY <1>23 DEF DisconnectNotified
<1>24. CASE HandlerReplies
  BY <1>24 DEF HandlerReplies
<1>25. CASE CancelWorkers
  <2>1. CASE events \in {"clearing", "stating"}
    <3>1. Cut("events", "control_cut") /\ events' = events /\ finalizer' = "joining"
          /\ finalizer = "starting" /\ "events" \in Writers
      BY <1>25, <2>1 DEF CancelWorkers, FinalizerMoves
    <3>2. \A x \in AudioWriters : sending[x] \in Resting => sending'[x] \in Resting
      <4>1. CASE Sends("events", "failed")
        BY <4>1
      <4>2. CASE FailsFor("events", "control_cut")
        BY <3>1, <4>2, Failing DEF TypeOK
      <4>. QED
        BY <3>1, <4>1, <4>2 DEF Cut
    <3>3. sender' \in {sender, "off", "draining"} /\ (sender' = "off" => sender \in {"get", "off"})
      BY <1>25 DEF CancelWorkers
    <3>. QED
      BY <1>25, <2>1, <3>1, <3>2, <3>3 DEF CancelWorkers
  <2>2. CASE events \notin {"clearing", "stating"}
    BY <1>25, <2>2 DEF CancelWorkers, FinalizerMoves
  <2>. QED
    BY <2>1, <2>2
<1>26. CASE JoinWorkers
  BY <1>26 DEF JoinWorkers, ClearsOverflow
<1>27. CASE CancelsOverflow
  BY <1>27 DEF CancelsOverflow
<1>28. CASE ClearSent
  BY <1>28 DEF ClearSent, FinalizerSent, FinalizerMoves
<1>29. CASE CloseSession
  BY <1>29 DEF CloseSession
<1>30. CASE Record
  BY <1>30 DEF Record
<1>31. CASE ErrorSent
  BY <1>31 DEF ErrorSent, FinalizerSent, FinalizerMoves
<1>32. CASE EndSubmitted
  BY <1>32 DEF EndSubmitted
<1>33. CASE EndSent
  BY <1>33 DEF EndSent, FinalizerSent, FinalizerMoves
<1>34. CASE Reconciled
  BY <1>34 DEF Reconciled, FinalizerMoves
<1>35. CASE Delivered
  BY <1>35 DEF Delivered, Write
<1>36. CASE WriterMoves
  <2>1. ASSUME NEW w \in AudioWriters, WriterStep(w)
        PROVE  \A x \in AudioWriters : sending[x] \in Resting => sending'[x] \in Resting
    <3>1. sending[w] \notin Resting
      BY <2>1, LenProperties
      DEF QueueInv, TypeOK, WriterTypeOK, WriterStep, Enter, Acquire, Completes, WriteFails, TimesOut,
          Waiters, Holders
    <3>2. CASE \E to \in Places : Sends(w, to)
      BY <3>1, <3>2
    <3>3. CASE FailsFor(w, "other")
      BY <3>3, Failing DEF TypeOK
    <3>. QED
      BY <2>1, <3>2, <3>3 DEF WriterStep, Enter, Acquire, Completes, WriteFails, TimesOut, Places
  <2>2. UNCHANGED <<events, sender, finalizer>>
    BY <1>36 DEF WriterMoves, WriterMovesOn
  <2>3. CASE RetiredOutside
    <3>1. \A x \in AudioWriters : sending[x] \in Resting => sending'[x] \in Resting
      BY <2>3 DEF RetiredOutside, CutShort
    <3>. QED
      BY <2>2, <3>1
  <2>. QED
    BY <1>36, <2>1, <2>2, <2>3 DEF WriterMoves, WriterMovesOn
<1>37. CASE SessionCloses
  BY <1>37 DEF SessionCloses
<1>38. CASE SessionMoves
  BY <1>38 DEF SessionMoves
<1>39. CASE UNCHANGED vars
  BY <1>39 DEF vars
<1>. QED
  BY <1>1, <1>2, <1>3, <1>4, <1>5, <1>6, <1>7, <1>8, <1>9, <1>10, <1>11, <1>12, <1>13,
     <1>14, <1>15, <1>16, <1>17, <1>18, <1>19, <1>20, <1>21, <1>22, <1>23, <1>24,
     <1>25, <1>26, <1>27, <1>28, <1>29, <1>30, <1>31, <1>32, <1>33, <1>34, <1>35,
     <1>36, <1>37, <1>38, <1>39
  DEF Next, EventsNext, WorkersNext, EndingNext, FinalizerNext, Over

-----------------------------------------------------------------------------
(* The ending *)

\* _fail and the finalizer keep the first reason.
LEMMA ReasonStays == StageInv /\ FinalizerInv /\ [Next]_vars /\ Closing => reason' = reason
<1>. SUFFICES ASSUME StageInv, FinalizerInv, [Next]_vars, Closing PROVE reason' = reason
  OBVIOUS
<1>. USE DEF StageInv, FinalizerInv, Closing, Fail, Lost, Publish, ResumesAfterClear, Started
<1>1. CASE Opening
  BY <1>1 DEF Opening
<1>2. CASE Refused
  BY <1>2 DEF Refused
<1>3. CASE Opened
  BY <1>3 DEF Opened, Confirm
<1>4. CASE SpeechStarted
  BY <1>4 DEF SpeechStarted, Interrupts
<1>5. CASE CancelsResponse
  BY <1>5 DEF CancelsResponse
<1>6. CASE ClearsOutput
  BY <1>6 DEF ClearsOutput
<1>7. CASE Cleared
  BY <1>7 DEF Cleared
<1>8. CASE Stated
  BY <1>8 DEF Stated
<1>9. CASE SpeechStopped
  BY <1>9 DEF SpeechStopped
<1>10. CASE ResponseStarted
  BY <1>10 DEF ResponseStarted
<1>11. CASE AudioDelta
  BY <1>11 DEF AudioDelta, Accepts, Packetizes
<1>12. CASE ResponseFinished
  BY <1>12 DEF ResponseFinished
<1>13. CASE TranscriptFinal
  BY <1>13 DEF TranscriptFinal
<1>14. CASE Transcribed
  BY <1>14 DEF Transcribed
<1>15. CASE StreamEnds
  BY <1>15 DEF StreamEnds
<1>16. CASE SenderTakes
  BY <1>16 DEF SenderTakes
<1>17. CASE SenderSent
  BY <1>17 DEF SenderSent
<1>18. CASE DeviceFrame
  BY <1>18 DEF DeviceFrame
<1>19. CASE PumpTakes
  BY <1>19 DEF PumpTakes
<1>20. CASE PumpSends
  BY <1>20 DEF PumpSends
<1>21. CASE Ends
  BY <1>21 DEF Ends
<1>22. CASE StoppedOpening
  BY <1>22 DEF StoppedOpening
<1>23. CASE DisconnectNotified
  BY <1>23 DEF DisconnectNotified
<1>24. CASE HandlerReplies
  BY <1>24 DEF HandlerReplies
<1>25. CASE CancelWorkers
  BY <1>25 DEF CancelWorkers, FinalizerMoves
<1>26. CASE JoinWorkers
  BY <1>26 DEF JoinWorkers, ClearsOverflow
<1>27. CASE CancelsOverflow
  BY <1>27 DEF CancelsOverflow
<1>28. CASE ClearSent
  BY <1>28 DEF ClearSent, FinalizerSent, FinalizerMoves
<1>29. CASE CloseSession
  BY <1>29 DEF CloseSession
<1>30. CASE Record
  BY <1>30 DEF Record
<1>31. CASE ErrorSent
  BY <1>31 DEF ErrorSent, FinalizerSent, FinalizerMoves
<1>32. CASE EndSubmitted
  BY <1>32 DEF EndSubmitted
<1>33. CASE EndSent
  BY <1>33 DEF EndSent, FinalizerSent, FinalizerMoves
<1>34. CASE Reconciled
  BY <1>34 DEF Reconciled, FinalizerMoves
<1>35. CASE Delivered
  BY <1>35 DEF Delivered
<1>36. CASE WriterMoves
  BY <1>36 DEF WriterMoves, WriterMovesOn
<1>37. CASE SessionCloses
  BY <1>37 DEF SessionCloses
<1>38. CASE SessionMoves
  BY <1>38 DEF SessionMoves
<1>39. CASE UNCHANGED vars
  BY <1>39 DEF vars
<1>. QED
  BY <1>1, <1>2, <1>3, <1>4, <1>5, <1>6, <1>7, <1>8, <1>9, <1>10, <1>11, <1>12, <1>13,
     <1>14, <1>15, <1>16, <1>17, <1>18, <1>19, <1>20, <1>21, <1>22, <1>23, <1>24,
     <1>25, <1>26, <1>27, <1>28, <1>29, <1>30, <1>31, <1>32, <1>33, <1>34, <1>35,
     <1>36, <1>37, <1>38, <1>39
  DEF Next, EventsNext, WorkersNext, EndingNext, FinalizerNext, Over

\* Nothing but an open session has workers to close it, and its one cleanup ends its socket.
LEMMA StageStep == TypeOK /\ StageInv /\ FinalizerInv /\ [Next]_vars => StageInv'
<1>. SUFFICES ASSUME TypeOK, StageInv, FinalizerInv, [Next]_vars PROVE StageInv'
  OBVIOUS
<1>. USE DEF TypeOK, SessionTypeOK, StageInv, FinalizerInv, Closing, Started, AtEvent, Yield, Reads,
             Continue, Ask, Publish, ResumesAfterClear, Fail, Lost, StopSender, Close, CancelSent,
             CancelFails, Obey, Answer, SessionUntouched, ConsumerCancelled, Taken, Emptied
<1>1. CASE Opening
  BY <1>1 DEF Opening, Connect, Configure, OpenFails, OpenStep, Cleans
<1>2. CASE Refused
  BY <1>2 DEF Refused, OpenCleaned, OpenStep
<1>3. CASE Opened
  BY <1>3 DEF Opened, Confirm
<1>4. CASE SpeechStarted
  BY <1>4 DEF SpeechStarted, Interrupts
<1>5. CASE CancelsResponse
  BY <1>5 DEF CancelsResponse
<1>6. CASE ClearsOutput
  BY <1>6 DEF ClearsOutput
<1>7. CASE Cleared
  BY <1>7 DEF Cleared
<1>8. CASE Stated
  BY <1>8 DEF Stated
<1>9. CASE SpeechStopped
  BY <1>9 DEF SpeechStopped
<1>10. CASE ResponseStarted
  BY <1>10 DEF ResponseStarted
<1>11. CASE AudioDelta
  BY <1>11 DEF AudioDelta, Accepts, Packetizes
<1>12. CASE ResponseFinished
  BY <1>12 DEF ResponseFinished
<1>13. CASE TranscriptFinal
  BY <1>13 DEF TranscriptFinal
<1>14. CASE Transcribed
  BY <1>14 DEF Transcribed
<1>15. CASE StreamEnds
  BY <1>15 DEF StreamEnds
<1>16. CASE SenderTakes
  BY <1>16 DEF SenderTakes
<1>17. CASE SenderSent
  BY <1>17 DEF SenderSent
<1>18. CASE DeviceFrame
  BY <1>18 DEF DeviceFrame
<1>19. CASE PumpTakes
  BY <1>19 DEF PumpTakes
<1>20. CASE PumpSends
  BY <1>20 DEF PumpSends
<1>21. CASE Ends
  BY <1>21 DEF Ends
<1>22. CASE StoppedOpening
  BY <1>22 DEF StoppedOpening
<1>23. CASE DisconnectNotified
  BY <1>23 DEF DisconnectNotified
<1>24. CASE HandlerReplies
  BY <1>24 DEF HandlerReplies
<1>25. CASE CancelWorkers
  BY <1>25 DEF CancelWorkers, FinalizerMoves
<1>26. CASE JoinWorkers
  BY <1>26 DEF JoinWorkers, ClearsOverflow
<1>27. CASE CancelsOverflow
  BY <1>27 DEF CancelsOverflow
<1>28. CASE ClearSent
  BY <1>28 DEF ClearSent, FinalizerSent, FinalizerMoves
<1>29. CASE CloseSession
  BY <1>29 DEF CloseSession
<1>30. CASE Record
  BY <1>30 DEF Record
<1>31. CASE ErrorSent
  BY <1>31 DEF ErrorSent, FinalizerSent, FinalizerMoves
<1>32. CASE EndSubmitted
  BY <1>32 DEF EndSubmitted
<1>33. CASE EndSent
  BY <1>33 DEF EndSent, FinalizerSent, FinalizerMoves
<1>34. CASE Reconciled
  BY <1>34 DEF Reconciled, FinalizerMoves
<1>35. CASE Delivered
  BY <1>35 DEF Delivered
<1>36. CASE WriterMoves
  BY <1>36 DEF WriterMoves, WriterMovesOn
<1>37. CASE SessionCloses
  BY <1>37 DEF SessionCloses, CleanupJoins, CleanupEnds, ReadCancelled, Unwound
<1>38. CASE SessionMoves
  BY <1>38 DEF SessionMoves, Prune, IgnoreCancelError, FailureRead, BrokenRead, UncorrelatedRead,
           ReadFails, Emit
<1>39. CASE UNCHANGED vars
  BY <1>39 DEF vars
<1>. QED
  BY <1>1, <1>2, <1>3, <1>4, <1>5, <1>6, <1>7, <1>8, <1>9, <1>10, <1>11, <1>12, <1>13,
     <1>14, <1>15, <1>16, <1>17, <1>18, <1>19, <1>20, <1>21, <1>22, <1>23, <1>24,
     <1>25, <1>26, <1>27, <1>28, <1>29, <1>30, <1>31, <1>32, <1>33, <1>34, <1>35,
     <1>36, <1>37, <1>38, <1>39
  DEF Next, EventsNext, WorkersNext, EndingNext, FinalizerNext, Over

\* The finalizer joins every worker before it goes on, and no worker starts again.
LEMMA FinalizerStep ==
  TypeOK /\ StageInv /\ FinalizerInv /\ [Next]_vars => FinalizerInv'
<1>. SUFFICES ASSUME TypeOK, StageInv, FinalizerInv, [Next]_vars PROVE FinalizerInv'
  OBVIOUS
<1>. USE DEF TypeOK, SessionTypeOK, StageInv, FinalizerInv, Joined, Emptying, Closing, Started, AtEvent,
             Yield, Reads, Continue, Ask, Publish, ResumesAfterClear, Fail, Lost, StopSender, Close,
             CancelSent, CancelFails, SessionUntouched, ConsumerCancelled, Emptied
<1>1. CASE Opening
  BY <1>1 DEF Opening, Connect, Configure, OpenFails, OpenStep, Cleans
<1>2. CASE Refused
  BY <1>2 DEF Refused, OpenCleaned, OpenStep
<1>3. CASE Opened
  BY <1>3 DEF Opened, Confirm
<1>4. CASE SpeechStarted
  BY <1>4 DEF SpeechStarted, Interrupts
<1>5. CASE CancelsResponse
  BY <1>5 DEF CancelsResponse
<1>6. CASE ClearsOutput
  BY <1>6 DEF ClearsOutput
<1>7. CASE Cleared
  BY <1>7 DEF Cleared
<1>8. CASE Stated
  BY <1>8 DEF Stated
<1>9. CASE SpeechStopped
  BY <1>9 DEF SpeechStopped
<1>10. CASE ResponseStarted
  BY <1>10 DEF ResponseStarted
<1>11. CASE AudioDelta
  BY <1>11 DEF AudioDelta, Accepts, Packetizes
<1>12. CASE ResponseFinished
  BY <1>12 DEF ResponseFinished
<1>13. CASE TranscriptFinal
  BY <1>13 DEF TranscriptFinal
<1>14. CASE Transcribed
  BY <1>14 DEF Transcribed
<1>15. CASE StreamEnds
  BY <1>15 DEF StreamEnds
<1>16. CASE SenderTakes
  BY <1>16 DEF SenderTakes
<1>17. CASE SenderSent
  BY <1>17 DEF SenderSent
<1>18. CASE DeviceFrame
  BY <1>18 DEF DeviceFrame
<1>19. CASE PumpTakes
  BY <1>19 DEF PumpTakes
<1>20. CASE PumpSends
  BY <1>20 DEF PumpSends
<1>21. CASE Ends
  BY <1>21 DEF Ends
<1>22. CASE StoppedOpening
  BY <1>22 DEF StoppedOpening
<1>23. CASE DisconnectNotified
  BY <1>23 DEF DisconnectNotified
<1>24. CASE HandlerReplies
  BY <1>24 DEF HandlerReplies
<1>25. CASE CancelWorkers
  BY <1>25 DEF CancelWorkers, FinalizerMoves
<1>26. CASE JoinWorkers
  BY <1>26 DEF JoinWorkers, ClearsOverflow
<1>27. CASE CancelsOverflow
  BY <1>27 DEF CancelsOverflow
<1>28. CASE ClearSent
  BY <1>28 DEF ClearSent, FinalizerSent, FinalizerMoves
<1>29. CASE CloseSession
  BY <1>29 DEF CloseSession
<1>30. CASE Record
  BY <1>30 DEF Record
<1>31. CASE ErrorSent
  BY <1>31 DEF ErrorSent, FinalizerSent, FinalizerMoves
<1>32. CASE EndSubmitted
  BY <1>32 DEF EndSubmitted
<1>33. CASE EndSent
  BY <1>33 DEF EndSent, FinalizerSent, FinalizerMoves
<1>34. CASE Reconciled
  BY <1>34 DEF Reconciled, FinalizerMoves
<1>35. CASE Delivered
  BY <1>35 DEF Delivered
<1>36. CASE WriterMoves
  <2>1. UNCHANGED <<session, ending, speech, sound, hearing>>
    BY <1>36 DEF WriterMoves, WriterMovesOn
  <2>. QED
    BY <2>1
<1>37. CASE SessionCloses
  BY <1>37 DEF SessionCloses, CleanupJoins, CleanupEnds, ReadCancelled, Unwound
<1>38. CASE SessionMoves
  BY <1>38 DEF SessionMoves, Prune, IgnoreCancelError, FailureRead, BrokenRead, UncorrelatedRead,
           ReadFails, Emit
<1>39. CASE UNCHANGED vars
  BY <1>39 DEF vars
<1>. QED
  BY <1>1, <1>2, <1>3, <1>4, <1>5, <1>6, <1>7, <1>8, <1>9, <1>10, <1>11, <1>12, <1>13,
     <1>14, <1>15, <1>16, <1>17, <1>18, <1>19, <1>20, <1>21, <1>22, <1>23, <1>24,
     <1>25, <1>26, <1>27, <1>28, <1>29, <1>30, <1>31, <1>32, <1>33, <1>34, <1>35,
     <1>36, <1>37, <1>38, <1>39
  DEF Next, EventsNext, WorkersNext, EndingNext, FinalizerNext, Over

\* The clear of an overflow is sent by the one finalizer that finds it not yet sent.
LEMMA OverflowStep ==
  TypeOK /\ FinalizerInv /\ SendInv /\ StageInv /\ OverflowInv /\ [Next]_vars => OverflowInv'
<1>. SUFFICES ASSUME TypeOK, FinalizerInv, SendInv, StageInv, OverflowInv, [Next]_vars
              PROVE  OverflowInv'
  OBVIOUS
<1>a. Terminal => Terminal'
  BY WriterMoved, CauseStays DEF Terminal
<1>b. Closing => reason' = reason
  BY ReasonStays
<1>. USE <1>a, <1>b DEF FinalizerInv, StageInv, OverflowInv, Closing, Fail, Lost, Publish, ResumesAfterClear
<1>1. CASE Opening
  BY <1>1 DEF Opening
<1>2. CASE Refused
  BY <1>2 DEF Refused
<1>3. CASE Opened
  BY <1>3 DEF Opened, Confirm
<1>4. CASE SpeechStarted
  BY <1>4 DEF SpeechStarted, Interrupts
<1>5. CASE CancelsResponse
  BY <1>5 DEF CancelsResponse
<1>6. CASE ClearsOutput
  BY <1>6 DEF ClearsOutput
<1>7. CASE Cleared
  BY <1>7 DEF Cleared
<1>8. CASE Stated
  BY <1>8 DEF Stated
<1>9. CASE SpeechStopped
  BY <1>9 DEF SpeechStopped
<1>10. CASE ResponseStarted
  BY <1>10 DEF ResponseStarted
<1>11. CASE AudioDelta
  BY <1>11 DEF AudioDelta, Accepts, Packetizes
<1>12. CASE ResponseFinished
  BY <1>12 DEF ResponseFinished
<1>13. CASE TranscriptFinal
  BY <1>13 DEF TranscriptFinal
<1>14. CASE Transcribed
  BY <1>14 DEF Transcribed
<1>15. CASE StreamEnds
  BY <1>15 DEF StreamEnds
<1>16. CASE SenderTakes
  BY <1>16 DEF SenderTakes
<1>17. CASE SenderSent
  BY <1>17 DEF SenderSent
<1>18. CASE DeviceFrame
  BY <1>18 DEF DeviceFrame
<1>19. CASE PumpTakes
  BY <1>19 DEF PumpTakes
<1>20. CASE PumpSends
  BY <1>20 DEF PumpSends
<1>21. CASE Ends
  BY <1>21 DEF Ends
<1>22. CASE StoppedOpening
  BY <1>22 DEF StoppedOpening
<1>23. CASE DisconnectNotified
  BY <1>23 DEF DisconnectNotified
<1>24. CASE HandlerReplies
  BY <1>24 DEF HandlerReplies
<1>25. CASE CancelWorkers
  BY <1>25 DEF CancelWorkers, FinalizerMoves
<1>26. CASE JoinWorkers
  BY <1>26 DEF JoinWorkers, ClearsOverflow
<1>27. CASE CancelsOverflow
  BY <1>27 DEF CancelsOverflow
<1>28. CASE ClearSent
  BY <1>28 DEF ClearSent, FinalizerSent, FinalizerMoves
<1>29. CASE CloseSession
  BY <1>29 DEF CloseSession
<1>30. CASE Record
  BY <1>30 DEF Record
<1>31. CASE ErrorSent
  BY <1>31 DEF ErrorSent, FinalizerSent, FinalizerMoves
<1>32. CASE EndSubmitted
  BY <1>32 DEF EndSubmitted
<1>33. CASE EndSent
  BY <1>33 DEF EndSent, FinalizerSent, FinalizerMoves
<1>34. CASE Reconciled
  BY <1>34 DEF Reconciled, FinalizerMoves
<1>35. CASE Delivered
  BY <1>35 DEF Delivered
<1>36. CASE WriterMoves
  BY <1>36 DEF WriterMoves, WriterMovesOn
<1>37. CASE SessionCloses
  BY <1>37 DEF SessionCloses
<1>38. CASE SessionMoves
  BY <1>38 DEF SessionMoves
<1>39. CASE UNCHANGED vars
  BY <1>39 DEF vars
<1>. QED
  BY <1>1, <1>2, <1>3, <1>4, <1>5, <1>6, <1>7, <1>8, <1>9, <1>10, <1>11, <1>12, <1>13,
     <1>14, <1>15, <1>16, <1>17, <1>18, <1>19, <1>20, <1>21, <1>22, <1>23, <1>24,
     <1>25, <1>26, <1>27, <1>28, <1>29, <1>30, <1>31, <1>32, <1>33, <1>34, <1>35,
     <1>36, <1>37, <1>38, <1>39
  DEF Next, EventsNext, WorkersNext, EndingNext, FinalizerNext, Over

-----------------------------------------------------------------------------
(* The events of the provider *)

\* What happens to the events on their way: they are lost with the session, the oldest is
\* read, which alone starts a response, an answer to a cancel that is under way joins them,
\* or another event, or the start of the next response.
InboxNext ==
  \/ UNCHANGED <<inbox, response, current>>
  \/ inbox' = <<>> /\ UNCHANGED <<response, current>>
  \/ /\ inbox # <<>> /\ inbox' = Tail(inbox) /\ UNCHANGED response
     /\ current' = IF IsStart(Head(inbox)) THEN Head(inbox).about ELSE current
  \/ \E e \in Events :
       /\ ~IsStart(e) /\ inbox' = Append(inbox, e) /\ UNCHANGED <<response, current>>
       /\ IsAnswer(e) =>
            \/ e.about = current /\ events = "cancelling" /\ events' \in {"stopping", "off"}
            \/ e.about = Overflow /\ finalizer = "cancelling" /\ finalizer' # "cancelling"
  \/ /\ response < MaxResponses /\ response' = response + 1 /\ UNCHANGED current
     /\ inbox' = Append(inbox, [kind |-> "started", about |-> response'])

\* The provider answers a cancel with the end of its response, or that there was none.
LEMMA Answered ==
  ASSUME TypeOK, NEW id \in CancelIds, Obey(id) \/ UNCHANGED provider
  PROVE  /\ UNCHANGED response
         /\ \/ UNCHANGED inbox
            \/ \E e \in Events : /\ inbox' = Append(inbox, e)
                                 /\ e.kind = "done" \/ (IsAnswer(e) /\ e.about = id)
<1>. DEFINE done == [kind |-> "done", about |-> response]
            none == [kind |-> "cancel_error", about |-> id]
<1>1. done \in Events /\ none \in Events
  BY DEF Events, TypeOK, SessionTypeOK
<1>2. \/ UNCHANGED <<inbox, response>>
      \/ UNCHANGED response /\ inbox' = Append(inbox, done)
      \/ UNCHANGED response /\ inbox' = Append(inbox, none)
  BY DEF Obey, Answer
<1>. QED
  BY <1>1, <1>2 DEF IsAnswer

LEMMA InboxMoved ==
  TypeOK /\ SoundInv /\ CancelInv /\ [Next]_vars => InboxNext
<1>. SUFFICES ASSUME TypeOK, SoundInv, CancelInv, [Next]_vars PROVE InboxNext
  OBVIOUS
<1>0. /\ MaxResponses \in Nat /\ Overflow \in CancelIds
      /\ events = "cancelling" => current \in CancelIds
  BY DEF Overflow, CancelIds, TypeOK, SoundInv, CancelInv
<1>. USE DEF InboxNext, AtEvent, Yield, Reads, Taken, Continue, Publish, ResumesAfterClear,
             SessionUntouched, IsStart
<1>1. CASE Opening
  BY <1>1 DEF Opening, Connect, Configure, OpenFails, OpenStep
<1>2. CASE Refused
  BY <1>2 DEF Refused, OpenCleaned, OpenStep
<1>3. CASE Opened
  BY <1>3 DEF Opened, Confirm
<1>4. CASE SpeechStarted
  BY <1>4 DEF SpeechStarted, Interrupts
<1>5. CASE CancelsResponse
  <2>1. /\ events = "cancelling" /\ events' = "stopping" /\ UNCHANGED current
        /\ Obey(current) \/ UNCHANGED provider
    BY <1>5 DEF CancelsResponse, CancelSent, CancelFails
  <2>2. /\ UNCHANGED response
        /\ \/ UNCHANGED inbox
           \/ \E e \in Events : /\ inbox' = Append(inbox, e)
                                /\ e.kind = "done" \/ (IsAnswer(e) /\ e.about = current)
    BY <1>0, <2>1, Answered
  <2>. QED
    BY <2>1, <2>2 DEF IsAnswer
<1>6. CASE ClearsOutput
  BY <1>6 DEF ClearsOutput
<1>7. CASE Cleared
  BY <1>7 DEF Cleared
<1>8. CASE Stated
  BY <1>8 DEF Stated
<1>9. CASE SpeechStopped
  BY <1>9 DEF SpeechStopped
<1>10. CASE ResponseStarted
  BY <1>10 DEF ResponseStarted
<1>11. CASE AudioDelta
  BY <1>11 DEF AudioDelta, Accepts, Packetizes
<1>12. CASE ResponseFinished
  BY <1>12 DEF ResponseFinished
<1>13. CASE TranscriptFinal
  BY <1>13 DEF TranscriptFinal
<1>14. CASE Transcribed
  BY <1>14 DEF Transcribed
<1>15. CASE StreamEnds
  BY <1>15 DEF StreamEnds
<1>16. CASE SenderTakes
  BY <1>16 DEF SenderTakes
<1>17. CASE SenderSent
  BY <1>17 DEF SenderSent
<1>18. CASE DeviceFrame
  BY <1>18 DEF DeviceFrame
<1>19. CASE PumpTakes
  BY <1>19 DEF PumpTakes
<1>20. CASE PumpSends
  BY <1>20 DEF PumpSends, Close
<1>21. CASE Ends
  BY <1>21 DEF Ends
<1>22. CASE StoppedOpening
  BY <1>22 DEF StoppedOpening
<1>23. CASE DisconnectNotified
  BY <1>23 DEF DisconnectNotified
<1>24. CASE HandlerReplies
  BY <1>24 DEF HandlerReplies
<1>25. CASE CancelWorkers
  <2>1. CASE events = "cancelling"
    <3>1. events' = "off" /\ UNCHANGED current /\ (Obey(current) \/ UNCHANGED provider)
      BY <1>25, <2>1 DEF CancelWorkers, CancelFails
    <3>2. /\ UNCHANGED response
          /\ \/ UNCHANGED inbox
             \/ \E e \in Events : /\ inbox' = Append(inbox, e)
                                  /\ e.kind = "done" \/ (IsAnswer(e) /\ e.about = current)
      BY <1>0, <2>1, <3>1, Answered
    <3>. QED
      BY <2>1, <3>1, <3>2 DEF IsAnswer
  <2>2. CASE events # "cancelling"
    BY <1>25, <2>2 DEF CancelWorkers
  <2>. QED
    BY <2>1, <2>2
<1>26. CASE JoinWorkers
  BY <1>26 DEF JoinWorkers, ClearsOverflow
<1>27. CASE CancelsOverflow
  <2>1. /\ finalizer = "cancelling" /\ finalizer' # "cancelling" /\ UNCHANGED current
        /\ Obey(Overflow) \/ UNCHANGED provider
    BY <1>27 DEF CancelsOverflow, CancelSent, CancelFails, Overflow
  <2>2. /\ UNCHANGED response
        /\ \/ UNCHANGED inbox
           \/ \E e \in Events : /\ inbox' = Append(inbox, e)
                                /\ e.kind = "done" \/ (IsAnswer(e) /\ e.about = Overflow)
    BY <1>0, <2>1, Answered
  <2>. QED
    BY <2>1, <2>2 DEF IsAnswer
<1>28. CASE ClearSent
  BY <1>28 DEF ClearSent, FinalizerSent, FinalizerMoves
<1>29. CASE CloseSession
  BY <1>29 DEF CloseSession, Close
<1>30. CASE Record
  BY <1>30 DEF Record
<1>31. CASE ErrorSent
  BY <1>31 DEF ErrorSent, FinalizerSent, FinalizerMoves
<1>32. CASE EndSubmitted
  BY <1>32 DEF EndSubmitted
<1>33. CASE EndSent
  BY <1>33 DEF EndSent, FinalizerSent, FinalizerMoves
<1>34. CASE Reconciled
  BY <1>34 DEF Reconciled, FinalizerMoves
<1>35. CASE Delivered
  BY <1>35 DEF Delivered
<1>36. CASE WriterMoves
  BY <1>36 DEF WriterMoves, WriterMovesOn
<1>37. CASE SessionCloses
  BY <1>37 DEF SessionCloses, CleanupJoins, CleanupEnds, ReadCancelled, Unwound
<1>38. CASE SessionMoves
  <2>0. UNCHANGED current
    BY <1>38 DEF SessionMoves
  <2>1. CASE Prune \/ BrokenRead
    BY <2>0, <2>1 DEF Prune, BrokenRead
  <2>2. CASE IgnoreCancelError \/ FailureRead \/ UncorrelatedRead
    BY <2>0, <2>2 DEF IgnoreCancelError, FailureRead, UncorrelatedRead
  <2>3. ASSUME NEW kind \in {"speech", "silence", "text", "delta", "done", "failure"}, Emit(kind)
        PROVE  InboxNext
    <3>. DEFINE e == [kind |-> kind, about |-> response]
    <3>1. inbox' = Append(inbox, e) /\ UNCHANGED response
      BY <2>3 DEF Emit, Answer
    <3>2. e \in Events
      BY DEF Events, TypeOK, SessionTypeOK
    <3>. QED
      BY <2>0, <3>1, <3>2 DEF IsAnswer
  <2>4. CASE Emit("started")
    BY <2>0, <2>4 DEF Emit, Answer
  <2>. QED
    BY <1>38, <2>1, <2>2, <2>3, <2>4 DEF SessionMoves
<1>39. CASE UNCHANGED vars
  BY <1>39 DEF vars
<1>. QED
  BY <1>1, <1>2, <1>3, <1>4, <1>5, <1>6, <1>7, <1>8, <1>9, <1>10, <1>11, <1>12, <1>13,
     <1>14, <1>15, <1>16, <1>17, <1>18, <1>19, <1>20, <1>21, <1>22, <1>23, <1>24,
     <1>25, <1>26, <1>27, <1>28, <1>29, <1>30, <1>31, <1>32, <1>33, <1>34, <1>35,
     <1>36, <1>37, <1>38, <1>39
  DEF Next, EventsNext, WorkersNext, EndingNext, FinalizerNext, Over

\* The starts stay in order, and ahead of the response being heard.
LEMMA StartsStep ==
  TypeOK /\ StartsInv /\ InboxNext => StartsInv'
<1>. SUFFICES ASSUME TypeOK, StartsInv, InboxNext PROVE StartsInv'
  OBVIOUS
<1>0. /\ inbox \in Seq(Events) /\ DOMAIN inbox = 1..Len(inbox) /\ Len(inbox) \in Nat
      /\ response \in Nat /\ current \in Nat
      /\ \A i \in DOMAIN inbox : inbox[i] \in Events
      /\ \A e \in Events : e.about \in Nat
  BY LenProperties, ElementOfSeq
  DEF TypeOK, SessionTypeOK, Responses, Events, CancelIds
<1>1. CASE UNCHANGED <<inbox, response, current>>
  BY <1>1 DEF StartsInv, IsStart
<1>2. CASE inbox' = <<>> /\ UNCHANGED <<response, current>>
  BY <1>2 DEF StartsInv
<1>3. CASE /\ inbox # <<>> /\ inbox' = Tail(inbox) /\ UNCHANGED response
           /\ current' = IF IsStart(Head(inbox)) THEN Head(inbox).about ELSE current
  <2>1. /\ DOMAIN inbox' = 1..Len(inbox) - 1 /\ 1 \in DOMAIN inbox /\ Head(inbox) = inbox[1]
        /\ \A i \in DOMAIN inbox' : inbox'[i] = inbox[i + 1] /\ i + 1 \in DOMAIN inbox
    BY <1>0, <1>3, HeadTailProperties, LenProperties
  <2>2. CASE IsStart(inbox[1])
    BY <1>0, <1>3, <2>1, <2>2 DEF StartsInv
  <2>3. CASE ~IsStart(inbox[1])
    BY <1>0, <1>3, <2>1, <2>3 DEF StartsInv
  <2>. QED
    BY <2>2, <2>3
<1>4. ASSUME NEW e \in Events, inbox' = Append(inbox, e), UNCHANGED current,
             \/ ~IsStart(e) /\ UNCHANGED response
             \/ IsStart(e) /\ e.about = response' /\ response' = response + 1
      PROVE  StartsInv'
  <2>1. /\ DOMAIN inbox' = 1..Len(inbox) + 1 /\ inbox'[Len(inbox) + 1] = e
        /\ \A i \in DOMAIN inbox : inbox'[i] = inbox[i]
    BY <1>0, <1>4, AppendProperties, LenProperties
  <2>. QED
    BY <1>0, <1>4, <2>1 DEF StartsInv
<1>5. CASE /\ response < MaxResponses /\ response' = response + 1 /\ UNCHANGED current
           /\ inbox' = Append(inbox, [kind |-> "started", about |-> response'])
  <2>1. [kind |-> "started", about |-> response'] \in Events
    BY <1>0, <1>5 DEF Events, Responses
  <2>. QED
    BY <1>4, <1>5, <2>1 DEF IsStart
<1>. QED
  BY <1>1, <1>2, <1>3, <1>4, <1>5 DEF InboxNext

-----------------------------------------------------------------------------
(* Silence *)

\* Everything heard in the frames of the queue is newer than what was spoken over.
LEMMA FramesStay ==
  ASSUME TypeOK, SoundInv, UNCHANGED silenced,
         \/ output' = output \/ output' = <<>> \/ (output # <<>> /\ output' = Tail(output))
         \/ \E heard \in SUBSET Heard :
              output' = Append(output, heard) /\ \A r \in heard : silenced < r
  PROVE  \A i \in DOMAIN output' : \A r \in output'[i] : silenced' < r
<1>0. /\ output \in Seq(SUBSET Heard) /\ DOMAIN output = 1..Len(output) /\ Len(output) \in Nat
      /\ \A i \in DOMAIN output : \A r \in output[i] : silenced < r
  BY LenProperties DEF TypeOK, SoundInv
<1>1. CASE output' = output \/ output' = <<>>
  BY <1>0, <1>1
<1>2. CASE output # <<>> /\ output' = Tail(output)
  <2>1. /\ Tail(output) \in Seq(SUBSET Heard) /\ Len(Tail(output)) = Len(output) - 1
        /\ \A i \in 1..Len(Tail(output)) : Tail(output)[i] = output[i + 1]
    BY <1>0, <1>2, HeadTailProperties
  <2>2. DOMAIN Tail(output) = 1..Len(output) - 1
    BY <2>1, LenProperties
  <2>3. \A i \in DOMAIN Tail(output) : Tail(output)[i] = output[i + 1] /\ i + 1 \in DOMAIN output
    BY <1>0, <2>1, <2>2
  <2>. QED
    BY <1>0, <1>2, <2>3
<1>3. ASSUME NEW heard \in SUBSET Heard,
             output' = Append(output, heard), \A r \in heard : silenced < r
      PROVE  \A i \in DOMAIN output' : \A r \in output'[i] : silenced' < r
  <2>. DEFINE longer == Append(output, heard)
  <2>1. /\ longer \in Seq(SUBSET Heard) /\ Len(longer) = Len(output) + 1
        /\ \A i \in 1..Len(output) : longer[i] = output[i]
        /\ longer[Len(output) + 1] = heard
    BY <1>0, AppendProperties
  <2>2. DOMAIN longer = 1..Len(output) + 1
    BY <2>1, LenProperties
  <2>. HIDE DEF longer
  <2>3. \A i \in DOMAIN longer : longer[i] = heard \/ (i \in DOMAIN output /\ longer[i] = output[i])
    BY <1>0, <2>1, <2>2
  <2>4. output' = longer
    BY <1>3 DEF longer
  <2>. QED
    BY <1>0, <1>3, <2>3, <2>4
<1>. QED
  BY <1>1, <1>2, <1>3

\* What the queue does in a step; a response that is spoken over leaves it empty.
OutputNext ==
  IF silenced' = silenced
  THEN \/ output' = output \/ output' = <<>> \/ (output # <<>> /\ output' = Tail(output))
       \/ \E heard \in SUBSET Heard :
            /\ Len(output) < OutputCapacity
            /\ output' = Append(output, heard) /\ \A r \in heard : silenced < r
  ELSE output' = <<>>

LEMMA OutputMoved ==
  TypeOK /\ SoundInv /\ [Next]_vars => OutputNext
<1>. SUFFICES ASSUME TypeOK, SoundInv, [Next]_vars PROVE OutputNext
  OBVIOUS
<1>0. /\ residual \subseteq Heard /\ \A r \in residual : silenced < r
      /\ active => current \in Heard /\ silenced < current
  BY DEF TypeOK, SoundInv
<1>. USE DEF OutputNext, AtEvent, Publish, SpokenOver, ResumesAfterClear, Emptied
<1>1. CASE Opening
  BY <1>1 DEF Opening
<1>2. CASE Refused
  BY <1>2 DEF Refused
<1>3. CASE Opened
  BY <1>3 DEF Opened, Confirm
<1>4. CASE SpeechStarted
  BY <1>4 DEF SpeechStarted, Interrupts
<1>5. CASE CancelsResponse
  BY <1>5 DEF CancelsResponse
<1>6. CASE ClearsOutput
  BY <1>6 DEF ClearsOutput
<1>7. CASE Cleared
  BY <1>7 DEF Cleared, SoundInv, Live, Finished, Closing
<1>8. CASE Stated
  BY <1>8 DEF Stated
<1>9. CASE SpeechStopped
  BY <1>9 DEF SpeechStopped
<1>10. CASE ResponseStarted
  BY <1>10 DEF ResponseStarted
<1>11. CASE AudioDelta
  <2>1. UNCHANGED silenced
    BY <1>11 DEF AudioDelta
  <2>2. CASE UNCHANGED output
    BY <2>1, <2>2
  <2>3. CASE active /\ Len(output) < OutputCapacity /\ output' = Append(output, residual \cup {current})
    <3>1. residual \cup {current} \in SUBSET Heard /\ \A r \in residual \cup {current} : silenced < r
      BY <1>0, <2>3
    <3>. QED
      BY <2>1, <2>3, <3>1
  <2>. QED
    BY <1>11, <2>2, <2>3 DEF AudioDelta, Accepts, Packetizes
<1>12. CASE ResponseFinished
  <2>1. /\ UNCHANGED silenced
        /\ output' = output \/ (Len(output) < OutputCapacity /\ output' = Append(output, residual))
    BY <1>12 DEF ResponseFinished
  <2>. QED
    BY <1>0, <2>1
<1>13. CASE TranscriptFinal
  BY <1>13 DEF TranscriptFinal
<1>14. CASE Transcribed
  BY <1>14 DEF Transcribed
<1>15. CASE StreamEnds
  BY <1>15 DEF StreamEnds
<1>16. CASE SenderTakes
  BY <1>16 DEF SenderTakes
<1>17. CASE SenderSent
  BY <1>17 DEF SenderSent
<1>18. CASE DeviceFrame
  BY <1>18 DEF DeviceFrame
<1>19. CASE PumpTakes
  BY <1>19 DEF PumpTakes
<1>20. CASE PumpSends
  BY <1>20 DEF PumpSends
<1>21. CASE Ends
  BY <1>21 DEF Ends
<1>22. CASE StoppedOpening
  BY <1>22 DEF StoppedOpening
<1>23. CASE DisconnectNotified
  BY <1>23 DEF DisconnectNotified
<1>24. CASE HandlerReplies
  BY <1>24 DEF HandlerReplies
<1>25. CASE CancelWorkers
  BY <1>25 DEF CancelWorkers, FinalizerMoves
<1>26. CASE JoinWorkers
  BY <1>26 DEF JoinWorkers, ClearsOverflow
<1>27. CASE CancelsOverflow
  BY <1>27 DEF CancelsOverflow
<1>28. CASE ClearSent
  BY <1>28 DEF ClearSent, FinalizerSent, FinalizerMoves
<1>29. CASE CloseSession
  BY <1>29 DEF CloseSession
<1>30. CASE Record
  BY <1>30 DEF Record
<1>31. CASE ErrorSent
  BY <1>31 DEF ErrorSent, FinalizerSent, FinalizerMoves
<1>32. CASE EndSubmitted
  BY <1>32 DEF EndSubmitted
<1>33. CASE EndSent
  BY <1>33 DEF EndSent, FinalizerSent, FinalizerMoves
<1>34. CASE Reconciled
  BY <1>34 DEF Reconciled, FinalizerMoves
<1>35. CASE Delivered
  BY <1>35 DEF Delivered
<1>36. CASE WriterMoves
  BY <1>36 DEF WriterMoves, WriterMovesOn
<1>37. CASE SessionCloses
  BY <1>37 DEF SessionCloses
<1>38. CASE SessionMoves
  BY <1>38 DEF SessionMoves
<1>39. CASE UNCHANGED vars
  BY <1>39 DEF vars
<1>. QED
  BY <1>1, <1>2, <1>3, <1>4, <1>5, <1>6, <1>7, <1>8, <1>9, <1>10, <1>11, <1>12, <1>13,
     <1>14, <1>15, <1>16, <1>17, <1>18, <1>19, <1>20, <1>21, <1>22, <1>23, <1>24,
     <1>25, <1>26, <1>27, <1>28, <1>29, <1>30, <1>31, <1>32, <1>33, <1>34, <1>35,
     <1>36, <1>37, <1>38, <1>39
  DEF Next, EventsNext, WorkersNext, EndingNext, FinalizerNext, Over

\* A response that was spoken over is heard nowhere any more.
LEMMA SoundStep ==
  TypeOK /\ StageInv /\ FinalizerInv /\ SendInv /\ StartsInv /\ SoundInv /\ [Next]_vars
    => SoundInv'
<1>. SUFFICES ASSUME TypeOK, StageInv, FinalizerInv, SendInv, StartsInv, SoundInv, [Next]_vars
              PROVE  SoundInv'
  OBVIOUS
<1>a. \A i \in DOMAIN output' : \A r \in output'[i] : silenced' < r
  BY FramesStay, OutputMoved DEF OutputNext
<1>b. Terminal => Terminal'
  BY WriterMoved, CauseStays DEF Terminal
<1>c. Closing => Closing'
  BY ReasonStays DEF Closing
<1>d. /\ current \in Nat /\ silenced \in Nat
      /\ sending \in [Writers -> Places]
  BY DEF TypeOK, WriterTypeOK, Places
<1>. USE <1>a, <1>b, <1>c, <1>d
     DEF SoundInv, Live, StageInv, FinalizerInv, AtEvent, Publish, SpokenOver, ResumesAfterClear, Emptied,
         Continue, Fail, Lost, StopSender, Submit, Sends, Finished
<1>1. CASE Opening
  BY <1>1 DEF Opening
<1>2. CASE Refused
  BY <1>2 DEF Refused
<1>3. CASE Opened
  BY <1>3 DEF Opened, Confirm
<1>4. CASE SpeechStarted
  BY <1>4 DEF SpeechStarted, Interrupts
<1>5. CASE CancelsResponse
  BY <1>5 DEF CancelsResponse
<1>6. CASE ClearsOutput
  BY <1>6 DEF ClearsOutput
<1>7. CASE Cleared
  <2>1. /\ events = "clearing" /\ sender = "off" /\ ~active /\ UNCHANGED <<current, frame, output>>
        /\ UNCHANGED <<residual, active, pending, playback>>
        /\ Live => sending["events"] \in {"ok", "failed"}
    BY <1>7 DEF Cleared
  <2>2. CASE events' = "off" /\ UNCHANGED <<sender, silenced>> /\ ~Live'
    BY <2>1, <2>2
  <2>3. CASE sender' = "get" /\ Publish /\ SpokenOver /\ ~Closing
    <3>1. events' \in {"stating", "off"}
      BY <2>3
    <3>2. CASE Terminal
      BY <2>1, <2>3, <3>1, <3>2
    <3>3. CASE ~Terminal
      BY <1>7, <2>1, <2>3, <3>1, <3>3 DEF Cleared
    <3>. QED
      BY <3>2, <3>3
  <2>. QED
    BY <1>7, <2>2, <2>3 DEF Cleared, Closing
<1>8. CASE Stated
  BY <1>8 DEF Stated
<1>9. CASE SpeechStopped
  BY <1>9 DEF SpeechStopped
<1>10. CASE ResponseStarted
  <2>1. inbox # <<>> /\ IsStart(Head(inbox)) /\ current' = Head(inbox).about
    BY <1>10 DEF ResponseStarted, Yield, Reads, IsStart
  <2>2. Head(inbox) = inbox[1] /\ 1 \in DOMAIN inbox /\ inbox[1] \in Events
    BY <2>1, LenProperties, ElementOfSeq DEF TypeOK, SessionTypeOK
  <2>3. current < current' /\ current' \in Nat
    BY <2>1, <2>2 DEF StartsInv, Events, Responses, CancelIds
  <2>4. /\ residual' = {} /\ events = "next" /\ events' \in {"stating", "off"}
        /\ UNCHANGED <<silenced, sender, frame, output, pending, playback>>
    BY <1>10 DEF ResponseStarted
  <2>. QED
    BY <2>3, <2>4
<1>11. CASE AudioDelta
  BY <1>11 DEF AudioDelta, Accepts, Packetizes
<1>12. CASE ResponseFinished
  BY <1>12 DEF ResponseFinished
<1>13. CASE TranscriptFinal
  BY <1>13 DEF TranscriptFinal
<1>14. CASE Transcribed
  BY <1>14 DEF Transcribed
<1>15. CASE StreamEnds
  BY <1>15 DEF StreamEnds
<1>16. CASE SenderTakes
  <2>1. Head(output) = output[1] /\ 1 \in DOMAIN output
    BY <1>16, LenProperties DEF SenderTakes, TypeOK
  <2>2. \A r \in Head(output) : silenced < r
    BY <2>1
  <2>3. sender = "get" /\ UNCHANGED <<events, silenced, current, residual, active, playback, sending["events"]>>
    BY <1>16 DEF SenderTakes
  <2>. QED
    BY <1>16, <2>2, <2>3 DEF SenderTakes
<1>17. CASE SenderSent
  BY <1>17 DEF SenderSent
<1>18. CASE DeviceFrame
  BY <1>18 DEF DeviceFrame
<1>19. CASE PumpTakes
  BY <1>19 DEF PumpTakes
<1>20. CASE PumpSends
  BY <1>20 DEF PumpSends
<1>21. CASE Ends
  BY <1>21 DEF Ends
<1>22. CASE StoppedOpening
  BY <1>22 DEF StoppedOpening
<1>23. CASE DisconnectNotified
  BY <1>23 DEF DisconnectNotified
<1>24. CASE HandlerReplies
  BY <1>24 DEF HandlerReplies
<1>25. CASE CancelWorkers
  BY <1>25 DEF CancelWorkers, FinalizerMoves
<1>26. CASE JoinWorkers
  BY <1>26 DEF JoinWorkers, ClearsOverflow
<1>27. CASE CancelsOverflow
  BY <1>27 DEF CancelsOverflow
<1>28. CASE ClearSent
  BY <1>28 DEF ClearSent, FinalizerSent, FinalizerMoves
<1>29. CASE CloseSession
  BY <1>29 DEF CloseSession
<1>30. CASE Record
  BY <1>30 DEF Record
<1>31. CASE ErrorSent
  BY <1>31 DEF ErrorSent, FinalizerSent, FinalizerMoves
<1>32. CASE EndSubmitted
  BY <1>32 DEF EndSubmitted
<1>33. CASE EndSent
  BY <1>33 DEF EndSent, FinalizerSent, FinalizerMoves
<1>34. CASE Reconciled
  BY <1>34 DEF Reconciled, FinalizerMoves
<1>35. CASE Delivered
  <2>1. PICK w \in AudioWriters :
          /\ Sends(w, "written")
          /\ playback' =
               IF w = "sender" THEN playback \cup frame
               ELSE IF <<w, events>> = <<"events", "clearing">>
                    \/ <<w, finalizer>> = <<"finalizer", "clearing">> THEN {}
               ELSE playback
    BY <1>35 DEF Delivered, Write
  <2>2. UNCHANGED <<ending, speech, sender, frame, output, residual, active, pending>>
    BY <1>35 DEF Delivered
  <2>3. playback' \in {playback \cup frame, {}, playback}
    BY <2>1
  <2>4. Live /\ ~pending => playback' \in {{}, playback}
    BY <2>1
  <2>5. Live /\ ~pending /\ sending'["events"] \in {"written", "ok"} /\ events = "clearing"
          => playback' = {}
    <3>1. CASE w = "events"
      BY <2>1, <3>1
    <3>2. CASE w # "events"
      BY <2>1, <2>4, <3>2
    <3>. QED
      BY <3>1, <3>2
  <2>. QED
    BY <2>2, <2>3, <2>4, <2>5
<1>36. CASE WriterMoves
  <2>1. sending'["events"] \in {"written", "ok"} => sending["events"] \in {"written", "ok"}
    <3>1. ASSUME NEW w \in AudioWriters, WriterStep(w)
          PROVE  sending'["events"] \in {"written", "ok"} => sending["events"] \in {"written", "ok"}
      <4>1. CASE FailsFor(w, "other")
        BY <4>1, Failing DEF TypeOK
      <4>. QED
        BY <3>1, <4>1 DEF WriterStep, Enter, Acquire, Completes, WriteFails, TimesOut
    <3>. QED
      BY <1>36, <3>1 DEF WriterMoves, WriterMovesOn, RetiredOutside, CutShort
  <2>2. UNCHANGED <<session, ending, speech, sound>>
    BY <1>36 DEF WriterMoves, WriterMovesOn
  <2>. QED
    BY <2>1, <2>2
<1>37. CASE SessionCloses
  BY <1>37 DEF SessionCloses
<1>38. CASE SessionMoves
  BY <1>38 DEF SessionMoves
<1>39. CASE UNCHANGED vars
  BY <1>39 DEF vars
<1>. QED
  BY <1>1, <1>2, <1>3, <1>4, <1>5, <1>6, <1>7, <1>8, <1>9, <1>10, <1>11, <1>12, <1>13,
     <1>14, <1>15, <1>16, <1>17, <1>18, <1>19, <1>20, <1>21, <1>22, <1>23, <1>24,
     <1>25, <1>26, <1>27, <1>28, <1>29, <1>30, <1>31, <1>32, <1>33, <1>34, <1>35,
     <1>36, <1>37, <1>38, <1>39
  DEF Next, EventsNext, WorkersNext, EndingNext, FinalizerNext, Over

-----------------------------------------------------------------------------
(* Cancels and their answers *)

\* The cancel of this id is sent, or given up, in this step.
Attempted(id) ==
  \/ id = current /\ events = "cancelling" /\ events' \in {"stopping", "off"}
  \/ id = Overflow /\ finalizer = "cancelling" /\ finalizer' # "cancelling"

\* What happens to the remembered cancels: an attempt is remembered or its failure
\* recorded, the oldest expires, an answer arrives, or the session closes.
CancelsNext ==
  /\ closed => closed'
  /\ \/ UNCHANGED <<cancels, forgotten>> /\ \A id \in CancelIds : ~Attempted(id)
     \/ closed' /\ cancels' \in {cancels, <<>>} /\ forgotten' = {}
     \/ \E id \in CancelIds :
          /\ \A other \in CancelIds : Attempted(other) => other = id
          /\ Remember(id) \/ (forgotten' = forgotten \cup {id} /\ UNCHANGED cancels)
     \/ /\ \A id \in CancelIds : ~Attempted(id)
        /\ cancels # <<>> /\ cancels' = Tail(cancels) /\ forgotten' = forgotten \cup {Head(cancels)}
     \/ /\ \A id \in CancelIds : ~Attempted(id)
        /\ inbox # <<>> /\ IsAnswer(Head(inbox)) /\ inbox' = Tail(inbox) /\ UNCHANGED forgotten
        /\ \E i \in DOMAIN cancels :
             cancels[i] = Head(inbox).about /\ cancels' = RemoveAt(cancels, i)

LEMMA CancelsMoved ==
  TypeOK /\ StageInv /\ FinalizerInv /\ SoundInv /\ CancelInv /\ [Next]_vars => CancelsNext
<1>. SUFFICES ASSUME TypeOK, StageInv, FinalizerInv, SoundInv, CancelInv, [Next]_vars
              PROVE  CancelsNext
  OBVIOUS
<1>0. /\ MaxResponses \in Nat /\ Overflow \in CancelIds
      /\ events = "cancelling" => current \in CancelIds
  BY DEF Overflow, CancelIds, TypeOK, SoundInv, CancelInv
<1>. USE DEF CancelsNext, Attempted, StageInv, FinalizerInv, Closing, Started, AtEvent, Yield, SessionUntouched,
             Continue, Publish, ResumesAfterClear, Fail, Lost, Close
<1>1. CASE Opening
  BY <1>1 DEF Opening, Connect, Configure, OpenFails, OpenStep
<1>2. CASE Refused
  BY <1>2 DEF Refused, OpenCleaned, OpenStep
<1>3. CASE Opened
  BY <1>3 DEF Opened, Confirm
<1>4. CASE SpeechStarted
  BY <1>4 DEF SpeechStarted, Interrupts
<1>5. CASE CancelsResponse
  <2>1. /\ events = "cancelling" /\ UNCHANGED finalizer /\ (closed => closed')
        /\ \/ Remember(current)
           \/ closed' /\ cancels' \in {cancels, <<>>} /\ forgotten' = {}
           \/ forgotten' = forgotten \cup {current} /\ UNCHANGED cancels
    BY <1>5 DEF CancelsResponse, CancelSent, CancelFails
  <2>2. \A other \in CancelIds : Attempted(other) => other = current
    BY <2>1
  <2>. QED
    BY <1>0, <2>1, <2>2
<1>6. CASE ClearsOutput
  BY <1>6 DEF ClearsOutput
<1>7. CASE Cleared
  BY <1>7 DEF Cleared
<1>8. CASE Stated
  BY <1>8 DEF Stated
<1>9. CASE SpeechStopped
  BY <1>9 DEF SpeechStopped
<1>10. CASE ResponseStarted
  BY <1>10 DEF ResponseStarted
<1>11. CASE AudioDelta
  BY <1>11 DEF AudioDelta, Accepts, Packetizes
<1>12. CASE ResponseFinished
  BY <1>12 DEF ResponseFinished
<1>13. CASE TranscriptFinal
  BY <1>13 DEF TranscriptFinal
<1>14. CASE Transcribed
  BY <1>14 DEF Transcribed
<1>15. CASE StreamEnds
  BY <1>15 DEF StreamEnds
<1>16. CASE SenderTakes
  BY <1>16 DEF SenderTakes
<1>17. CASE SenderSent
  BY <1>17 DEF SenderSent
<1>18. CASE DeviceFrame
  BY <1>18 DEF DeviceFrame
<1>19. CASE PumpTakes
  BY <1>19 DEF PumpTakes
<1>20. CASE PumpSends
  BY <1>20 DEF PumpSends
<1>21. CASE Ends
  BY <1>21 DEF Ends
<1>22. CASE StoppedOpening
  BY <1>22 DEF StoppedOpening
<1>23. CASE DisconnectNotified
  BY <1>23 DEF DisconnectNotified
<1>24. CASE HandlerReplies
  BY <1>24 DEF HandlerReplies
<1>25. CASE CancelWorkers
  <2>1. CASE events = "cancelling"
    <3>1. /\ finalizer = "starting" /\ (closed => closed')
          /\ \/ closed' /\ cancels' \in {cancels, <<>>} /\ forgotten' = {}
             \/ forgotten' = forgotten \cup {current} /\ UNCHANGED cancels
      BY <1>25, <2>1 DEF CancelWorkers, CancelFails, FinalizerMoves
    <3>2. \A other \in CancelIds : Attempted(other) => other = current
      BY <3>1
    <3>. QED
      BY <1>0, <2>1, <3>1, <3>2
  <2>2. CASE events # "cancelling"
    BY <1>25, <2>2 DEF CancelWorkers, ConsumerCancelled, FinalizerMoves
  <2>. QED
    BY <2>1, <2>2
<1>26. CASE JoinWorkers
  BY <1>26 DEF JoinWorkers, ClearsOverflow
<1>27. CASE CancelsOverflow
  <2>1. /\ finalizer = "cancelling" /\ UNCHANGED events /\ (closed => closed')
        /\ \/ Remember(Overflow)
           \/ closed' /\ cancels' \in {cancels, <<>>} /\ forgotten' = {}
           \/ forgotten' = forgotten \cup {Overflow} /\ UNCHANGED cancels
    BY <1>27 DEF CancelsOverflow, CancelSent, CancelFails, Overflow
  <2>2. \A other \in CancelIds : Attempted(other) => other = Overflow
    BY <2>1
  <2>. QED
    BY <1>0, <2>1, <2>2
<1>28. CASE ClearSent
  BY <1>28 DEF ClearSent, FinalizerSent, FinalizerMoves
<1>29. CASE CloseSession
  BY <1>29 DEF CloseSession
<1>30. CASE Record
  BY <1>30 DEF Record
<1>31. CASE ErrorSent
  BY <1>31 DEF ErrorSent, FinalizerSent, FinalizerMoves
<1>32. CASE EndSubmitted
  BY <1>32 DEF EndSubmitted
<1>33. CASE EndSent
  BY <1>33 DEF EndSent, FinalizerSent, FinalizerMoves
<1>34. CASE Reconciled
  BY <1>34 DEF Reconciled, FinalizerMoves
<1>35. CASE Delivered
  BY <1>35 DEF Delivered
<1>36. CASE WriterMoves
  BY <1>36 DEF WriterMoves, WriterMovesOn
<1>37. CASE SessionCloses
  BY <1>37 DEF SessionCloses, CleanupJoins, CleanupEnds, ReadCancelled, Unwound
<1>38. CASE SessionMoves
  <2>0. UNCHANGED <<events, finalizer>>
    BY <1>38 DEF SessionMoves
  <2>1. \A id \in CancelIds : ~Attempted(id)
    BY <2>0
  <2>3. CASE Prune
    BY <2>1, <2>3 DEF Prune
  <2>4. CASE IgnoreCancelError
    BY <2>1, <2>4 DEF IgnoreCancelError, Reads, Taken, IsAnswer
  <2>5. CASE FailureRead \/ BrokenRead \/ UncorrelatedRead
    BY <2>5 DEF FailureRead, BrokenRead, UncorrelatedRead, ReadFails
  <2>6. ASSUME NEW kind \in {"speech", "silence", "text", "started", "delta", "done", "failure"},
               Emit(kind)
        PROVE  CancelsNext
    BY <2>1, <2>6 DEF Emit
  <2>. QED
    BY <1>38, <2>3, <2>4, <2>5, <2>6 DEF SessionMoves
<1>39. CASE UNCHANGED vars
  BY <1>39 DEF vars
<1>. QED
  BY <1>1, <1>2, <1>3, <1>4, <1>5, <1>6, <1>7, <1>8, <1>9, <1>10, <1>11, <1>12, <1>13,
     <1>14, <1>15, <1>16, <1>17, <1>18, <1>19, <1>20, <1>21, <1>22, <1>23, <1>24,
     <1>25, <1>26, <1>27, <1>28, <1>29, <1>30, <1>31, <1>32, <1>33, <1>34, <1>35,
     <1>36, <1>37, <1>38, <1>39
  DEF Next, EventsNext, WorkersNext, EndingNext, FinalizerNext, Over

\* A cancel stays known until its answer is read, and an attempt makes it known.
LEMMA KnownStays ==
  ASSUME TypeOK, CancelsNext, ~closed'
  PROVE  /\ ~closed
         /\ \A id \in CancelIds : Attempted(id) => id \in Known'
         /\ \A id \in Known :
              \/ id \in Known'
              \/ /\ inbox # <<>> /\ IsAnswer(Head(inbox)) /\ inbox' = Tail(inbox)
                 /\ id = Head(inbox).about
<1>0. /\ cancels \in Seq(CancelIds) /\ DOMAIN cancels = 1..Len(cancels) /\ Len(cancels) \in Nat
      /\ Len(cancels) <= MaxPendingCancels /\ MaxPendingCancels \in Nat \ {0}
  BY LenProperties DEF TypeOK, SessionTypeOK
<1>1. CASE UNCHANGED <<cancels, forgotten>> /\ \A id \in CancelIds : ~Attempted(id)
  BY <1>1 DEF CancelsNext, Known
<1>2. ASSUME NEW id \in CancelIds, \A other \in CancelIds : Attempted(other) => other = id,
             forgotten' = forgotten \cup {id}, UNCHANGED cancels
      PROVE  Known \subseteq Known' /\ \A other \in CancelIds : Attempted(other) => other \in Known'
  BY <1>2 DEF Known
<1>3. ASSUME NEW id \in CancelIds, \A other \in CancelIds : Attempted(other) => other = id,
             Remember(id)
      PROVE  Known \subseteq Known' /\ \A other \in CancelIds : Attempted(other) => other \in Known'
  <2>. DEFINE all == Append(cancels, id)
  <2>1. /\ all \in Seq(CancelIds) /\ all # <<>> /\ Len(all) = Len(cancels) + 1
        /\ \A k \in 1..Len(cancels) : all[k] = cancels[k]
        /\ all[Len(cancels) + 1] = id
    BY <1>0, AppendProperties
  <2>2. DOMAIN all = 1..Len(cancels) + 1
    BY <2>1, LenProperties
  <2>3. /\ Tail(all) \in Seq(CancelIds) /\ Len(Tail(all)) = Len(cancels)
        /\ \A k \in 1..Len(Tail(all)) : Tail(all)[k] = all[k + 1]
        /\ Head(all) = all[1]
    BY <1>0, <2>1, HeadTailProperties
  <2>4. DOMAIN Tail(all) = 1..Len(cancels)
    BY <1>0, <2>3, LenProperties
  <2>5. \/ cancels' = Tail(all) /\ forgotten' = forgotten \cup {Head(all)}
        \/ cancels' = all /\ forgotten' = forgotten
    BY <1>3 DEF Remember
  <2>. HIDE DEF all
  <2>6. \A k \in DOMAIN all : all[k] \in Known'
    <3>1. CASE cancels' = all
      BY <3>1 DEF Known
    <3>2. CASE cancels' = Tail(all) /\ forgotten' = forgotten \cup {Head(all)}
      <4>. SUFFICES ASSUME NEW k \in DOMAIN all, k # 1 PROVE all[k] \in Known'
        BY <2>3, <3>2 DEF Known
      <4>1. k - 1 \in DOMAIN Tail(all) /\ Tail(all)[k - 1] = all[k]
        BY <1>0, <2>2, <2>3, <2>4
      <4>. QED
        BY <3>2, <4>1 DEF Known
    <3>. QED
      BY <2>5, <3>1, <3>2
  <2>7. forgotten \subseteq forgotten'
    BY <2>5
  <2>8. \A k \in DOMAIN cancels : k \in DOMAIN all /\ cancels[k] = all[k]
    BY <1>0, <2>1, <2>2
  <2>9. id \in Known'
    BY <1>0, <2>1, <2>2, <2>6
  <2>. QED
    BY <1>3, <2>6, <2>7, <2>8, <2>9 DEF Known
<1>4. CASE /\ \A id \in CancelIds : ~Attempted(id)
           /\ cancels # <<>> /\ cancels' = Tail(cancels) /\ forgotten' = forgotten \cup {Head(cancels)}
  <2>1. /\ Head(cancels) = cancels[1] /\ DOMAIN cancels' = 1..Len(cancels) - 1
        /\ \A k \in DOMAIN cancels' : cancels'[k] = cancels[k + 1]
    BY <1>0, <1>4, HeadTailProperties, LenProperties
  <2>2. \A k \in DOMAIN cancels : k = 1 \/ (k - 1 \in DOMAIN cancels' /\ cancels'[k - 1] = cancels[k])
    BY <1>0, <2>1
  <2>3. \A k \in DOMAIN cancels : cancels[k] \in Known'
    BY <1>4, <2>1, <2>2 DEF Known
  <2>. QED
    BY <1>4, <2>3 DEF Known, CancelsNext
<1>5. CASE /\ \A id \in CancelIds : ~Attempted(id)
           /\ inbox # <<>> /\ IsAnswer(Head(inbox)) /\ inbox' = Tail(inbox) /\ UNCHANGED forgotten
           /\ \E i \in DOMAIN cancels :
                cancels[i] = Head(inbox).about /\ cancels' = RemoveAt(cancels, i)
  <2>1. PICK i \in DOMAIN cancels : cancels[i] = Head(inbox).about /\ cancels' = RemoveAt(cancels, i)
    BY <1>5
  <2>2. /\ cancels' \in Seq(CancelIds) /\ Len(cancels') = Len(cancels) - 1
        /\ \A j \in 1..Len(cancels) - 1 : cancels'[j] = IF j < i THEN cancels[j] ELSE cancels[j + 1]
    BY <1>0, <2>1, RemoveAtProperties
  <2>3. DOMAIN cancels' = 1..Len(cancels) - 1
    BY <2>2, LenProperties
  <2>4. \A k \in DOMAIN cancels \ {i} : \E j \in DOMAIN cancels' : cancels'[j] = cancels[k]
    <3>. SUFFICES ASSUME NEW k \in DOMAIN cancels, k # i
                  PROVE  \E j \in DOMAIN cancels' : cancels'[j] = cancels[k]
      OBVIOUS
    <3>1. CASE k < i
      BY <1>0, <2>2, <2>3, <3>1
    <3>2. CASE k > i
      <4>1. k - 1 \in DOMAIN cancels' /\ cancels'[k - 1] = cancels[k]
        BY <1>0, <2>2, <2>3, <3>2
      <4>. QED
        BY <4>1
    <3>. QED
      BY <1>0, <3>1, <3>2
  <2>. QED
    BY <1>5, <2>1, <2>4 DEF Known, CancelsNext
<1>. QED
  BY <1>1, <1>2, <1>3, <1>4, <1>5 DEF CancelsNext

\* Who may cancel, and what: only the response that is being heard, once, and the clear
\* of an overflow once.
CancelRights ==
  /\ events' = "cancelling" => active'
  /\ Cancellable' =>
       \/ Cancellable /\ UNCHANGED current
       \/ inbox # <<>> /\ inbox' = Tail(inbox) /\ IsStart(Head(inbox)) /\ current' = Head(inbox).about
  /\ overflowCleared => overflowCleared' /\ (finalizer' = "cancelling" => finalizer = "cancelling")

LEMMA CancelRightsKept ==
  TypeOK /\ StageInv /\ FinalizerInv /\ SoundInv /\ CancelInv /\ [Next]_vars => CancelRights
<1>. SUFFICES ASSUME TypeOK, StageInv, FinalizerInv, SoundInv, CancelInv, [Next]_vars
              PROVE  CancelRights
  OBVIOUS
<1>. USE DEF CancelRights, Cancellable, IsStart, StageInv, FinalizerInv, SoundInv, Closing, AtEvent, Yield,
             Reads, Taken, Continue, Publish, ResumesAfterClear, Fail, Lost, Emptied
<1>0. events = "cancelling" => active
  BY DEF CancelInv
<1>. USE <1>0
<1>1. CASE Opening
  BY <1>1 DEF Opening
<1>2. CASE Refused
  BY <1>2 DEF Refused
<1>3. CASE Opened
  BY <1>3 DEF Opened, Confirm
<1>4. CASE SpeechStarted
  BY <1>4 DEF SpeechStarted, Interrupts
<1>5. CASE CancelsResponse
  BY <1>5 DEF CancelsResponse
<1>6. CASE ClearsOutput
  BY <1>6 DEF ClearsOutput
<1>7. CASE Cleared
  BY <1>7 DEF Cleared
<1>8. CASE Stated
  BY <1>8 DEF Stated
<1>9. CASE SpeechStopped
  BY <1>9 DEF SpeechStopped
<1>10. CASE ResponseStarted
  BY <1>10 DEF ResponseStarted
<1>11. CASE AudioDelta
  BY <1>11 DEF AudioDelta, Accepts, Packetizes
<1>12. CASE ResponseFinished
  BY <1>12 DEF ResponseFinished
<1>13. CASE TranscriptFinal
  BY <1>13 DEF TranscriptFinal
<1>14. CASE Transcribed
  BY <1>14 DEF Transcribed
<1>15. CASE StreamEnds
  BY <1>15 DEF StreamEnds
<1>16. CASE SenderTakes
  BY <1>16 DEF SenderTakes
<1>17. CASE SenderSent
  BY <1>17 DEF SenderSent
<1>18. CASE DeviceFrame
  BY <1>18 DEF DeviceFrame
<1>19. CASE PumpTakes
  BY <1>19 DEF PumpTakes
<1>20. CASE PumpSends
  BY <1>20 DEF PumpSends
<1>21. CASE Ends
  BY <1>21 DEF Ends
<1>22. CASE StoppedOpening
  BY <1>22 DEF StoppedOpening
<1>23. CASE DisconnectNotified
  BY <1>23 DEF DisconnectNotified
<1>24. CASE HandlerReplies
  BY <1>24 DEF HandlerReplies
<1>25. CASE CancelWorkers
  BY <1>25 DEF CancelWorkers, FinalizerMoves
<1>26. CASE JoinWorkers
  BY <1>26 DEF JoinWorkers, ClearsOverflow
<1>27. CASE CancelsOverflow
  <2>1. ~active' /\ finalizer = "cancelling" /\ finalizer' # "cancelling" /\ UNCHANGED <<events, overflowCleared>>
    BY <1>27 DEF CancelsOverflow
  <2>2. events = "off"
    BY <2>1 DEF Joined
  <2>. QED
    BY <2>1, <2>2
<1>28. CASE ClearSent
  BY <1>28 DEF ClearSent, FinalizerSent, FinalizerMoves
<1>29. CASE CloseSession
  BY <1>29 DEF CloseSession
<1>30. CASE Record
  BY <1>30 DEF Record
<1>31. CASE ErrorSent
  BY <1>31 DEF ErrorSent, FinalizerSent, FinalizerMoves
<1>32. CASE EndSubmitted
  BY <1>32 DEF EndSubmitted
<1>33. CASE EndSent
  BY <1>33 DEF EndSent, FinalizerSent, FinalizerMoves
<1>34. CASE Reconciled
  BY <1>34 DEF Reconciled, FinalizerMoves
<1>35. CASE Delivered
  BY <1>35 DEF Delivered
<1>36. CASE WriterMoves
  BY <1>36 DEF WriterMoves, WriterMovesOn
<1>37. CASE SessionCloses
  BY <1>37 DEF SessionCloses
<1>38. CASE SessionMoves
  BY <1>38 DEF SessionMoves
<1>39. CASE UNCHANGED vars
  BY <1>39 DEF vars
<1>. QED
  BY <1>1, <1>2, <1>3, <1>4, <1>5, <1>6, <1>7, <1>8, <1>9, <1>10, <1>11, <1>12, <1>13,
     <1>14, <1>15, <1>16, <1>17, <1>18, <1>19, <1>20, <1>21, <1>22, <1>23, <1>24,
     <1>25, <1>26, <1>27, <1>28, <1>29, <1>30, <1>31, <1>32, <1>33, <1>34, <1>35,
     <1>36, <1>37, <1>38, <1>39
  DEF Next, EventsNext, WorkersNext, EndingNext, FinalizerNext, Over

\* What holds of an answer on its way holds of it until it is read.
LEMMA FitsStays ==
  ASSUME TypeOK, StartsInv, InboxNext, CancelsNext, CancelRights,
         NEW e \in Events, IsAnswer(e), Fits(e),
         ~(inbox' = Tail(inbox) /\ inbox # <<>> /\ IsAnswer(Head(inbox)) /\ Head(inbox).about = e.about)
  PROVE  Fits(e)'
<1>0. current \in Nat /\ e.about \in Nat /\ e.about \in CancelIds
  BY DEF TypeOK, Events, CancelIds, IsAnswer
<1>1. closed' \/ e.about \in Known'
  BY KnownStays, <1>0 DEF Fits, CancelsNext
<1>2. ASSUME inbox # <<>>, IsStart(Head(inbox)) PROVE current < Head(inbox).about /\ Head(inbox).about \in Nat
  <2>1. Head(inbox) = inbox[1] /\ 1 \in DOMAIN inbox /\ inbox[1] \in Events
    BY <1>2, LenProperties, ElementOfSeq DEF TypeOK, SessionTypeOK
  <2>. QED
    BY <1>2, <2>1 DEF StartsInv, Events, Responses, CancelIds
<1>3. current <= current' /\ current' \in Nat
  BY <1>0, <1>2 DEF InboxNext
<1>4. Cancellable' => (Cancellable /\ current' = current) \/ current < current'
  BY <1>2 DEF CancelRights
<1>5. CASE e.about = Overflow
  BY <1>1, <1>5 DEF Fits, CancelRights, Overflow
<1>6. CASE e.about # Overflow
  <2>1. e.about <= current /\ (Cancellable => e.about < current)
    BY <1>6 DEF Fits
  <2>2. e.about <= current' /\ (Cancellable' => e.about < current')
    BY <1>0, <1>3, <1>4, <2>1
  <2>. QED
    BY <1>1, <1>6, <2>2 DEF Fits, Overflow
<1>. QED
  BY <1>5, <1>6

\* It holds of the answer to the cancel that is being sent, which is the only one of its id.
LEMMA NewFits ==
  ASSUME TypeOK, OverflowInv, CancelInv, CancelsNext, UNCHANGED current,
         NEW e \in Events, IsAnswer(e),
         \/ e.about = current /\ events = "cancelling" /\ events' \in {"stopping", "off"}
         \/ e.about = Overflow /\ finalizer = "cancelling" /\ finalizer' # "cancelling",
         overflowCleared => overflowCleared'
  PROVE  Fits(e)' /\ \A i \in DOMAIN inbox : IsAnswer(inbox[i]) => inbox[i].about # e.about
<1>0. /\ current \in Nat /\ MaxResponses \in Nat /\ current <= MaxResponses
      /\ e.about \in CancelIds
  BY DEF TypeOK, Events, CancelIds, IsAnswer
<1>1. closed' \/ e.about \in Known'
  BY KnownStays, <1>0 DEF Attempted
<1>2. CASE e.about = current /\ events = "cancelling" /\ events' \in {"stopping", "off"}
  <2>1. e.about # Overflow /\ ~Cancellable' /\ Cancellable
    BY <1>0, <1>2 DEF Overflow, Cancellable, CancelInv
  <2>2. Fits(e)'
    BY <1>0, <1>1, <1>2, <2>1 DEF Fits, Overflow
  <2>3. ASSUME NEW i \in DOMAIN inbox, IsAnswer(inbox[i]) PROVE inbox[i].about # e.about
    <3>1. Fits(inbox[i])
      BY <2>3 DEF CancelInv
    <3>. QED
      BY <1>0, <1>2, <2>1, <3>1 DEF Fits
  <2>. QED
    BY <2>2, <2>3
<1>3. CASE e.about = Overflow /\ finalizer = "cancelling" /\ finalizer' # "cancelling"
  <2>1. Fits(e)'
    BY <1>1, <1>3 DEF Fits, Overflow, OverflowInv
  <2>2. ASSUME NEW i \in DOMAIN inbox, IsAnswer(inbox[i]) PROVE inbox[i].about # e.about
    <3>1. Fits(inbox[i])
      BY <2>2 DEF CancelInv
    <3>. QED
      BY <1>3, <3>1 DEF Fits
  <2>. QED
    BY <2>1, <2>2
<1>. QED
  BY <1>2, <1>3

\* Each cancel has one answer, and the answers that are read are known ones, or to cancels
\* that were given up.
LEMMA CancelStep ==
  TypeOK /\ StageInv /\ FinalizerInv /\ OverflowInv /\ StartsInv /\ SoundInv /\ CancelInv
    /\ [Next]_vars => CancelInv'
<1>. SUFFICES ASSUME TypeOK, StageInv, FinalizerInv, OverflowInv, StartsInv, SoundInv, CancelInv,
                     [Next]_vars
              PROVE  CancelInv'
  OBVIOUS
<1>0. /\ inbox \in Seq(Events) /\ DOMAIN inbox = 1..Len(inbox) /\ Len(inbox) \in Nat
      /\ \A i \in DOMAIN inbox : inbox[i] \in Events
  BY LenProperties, ElementOfSeq DEF TypeOK, SessionTypeOK
<1>1. InboxNext /\ CancelsNext /\ CancelRights
  BY InboxMoved, CancelsMoved, CancelRightsKept
<1>2. events' = "cancelling" => active'
  BY <1>1 DEF CancelRights
<1>3. ASSUME NEW e \in Events, IsAnswer(e), NEW k \in DOMAIN inbox, inbox[k] = e,
             ~(inbox' = Tail(inbox) /\ inbox # <<>> /\ k = 1)
      PROVE  Fits(e)'
  <2>1. Fits(e)
    BY <1>3 DEF CancelInv
  <2>2. inbox # <<>> => Head(inbox) = inbox[1] /\ 1 \in DOMAIN inbox
    BY <1>0
  <2>3. ~(inbox' = Tail(inbox) /\ inbox # <<>> /\ IsAnswer(Head(inbox)) /\ Head(inbox).about = e.about)
    BY <1>3, <2>2 DEF CancelInv
  <2>. QED
    BY <1>1, <1>3, <2>1, <2>3, FitsStays
<1>4. CASE UNCHANGED inbox
  <2>1. ~(inbox' = Tail(inbox) /\ inbox # <<>>)
    <3>1. ASSUME inbox # <<>> PROVE Len(Tail(inbox)) # Len(inbox)
      <4>1. Len(Tail(inbox)) = Len(inbox) - 1 /\ Len(inbox) \in Nat
        BY <1>0, <3>1, HeadTailProperties
      <4>2. \A n \in Nat : n - 1 # n
        OBVIOUS
      <4>. QED
        BY <4>1, <4>2, Zenon
    <3>. QED
      BY <1>4, <3>1, Zenon
  <2>2. \A e \in Events : (\E k \in DOMAIN inbox : inbox[k] = e) /\ IsAnswer(e) => Fits(e)'
    BY <1>3, <2>1
  <2>. QED
    BY <1>0, <1>2, <1>4, <2>2 DEF CancelInv, Fits
<1>5. CASE inbox' = <<>>
  BY <1>2, <1>5 DEF CancelInv
<1>6. CASE inbox # <<>> /\ inbox' = Tail(inbox)
  <2>1. /\ DOMAIN inbox' = 1..Len(inbox) - 1
        /\ \A i \in DOMAIN inbox' : inbox'[i] = inbox[i + 1] /\ i + 1 \in DOMAIN inbox /\ i + 1 # 1
    BY <1>0, <1>6, HeadTailProperties, LenProperties
  <2>2. \A e \in Events : (\E k \in DOMAIN inbox : k # 1 /\ inbox[k] = e) /\ IsAnswer(e) => Fits(e)'
    BY <1>3
  <2>3. \A i \in DOMAIN inbox' : inbox'[i] \in Events /\ (IsAnswer(inbox'[i]) => Fits(inbox[i])')
    BY <1>0, <2>1, <2>2 DEF Fits
  <2>4. \A i, j \in DOMAIN inbox' :
          IsAnswer(inbox'[i]) /\ IsAnswer(inbox'[j]) /\ inbox'[i].about = inbox'[j].about => i = j
    BY <1>0, <2>1 DEF CancelInv
  <2>. QED
    BY <1>2, <2>3, <2>4 DEF CancelInv, IsAnswer
<1>7. ASSUME NEW new \in Events, inbox' = Append(inbox, new),
             IsAnswer(new) =>
               /\ \A e \in Events : e = new => Fits(e)'
               /\ \A i \in DOMAIN inbox : IsAnswer(inbox[i]) => inbox[i].about # new.about
      PROVE  CancelInv'
  <2>1. /\ DOMAIN inbox' = 1..Len(inbox) + 1 /\ inbox'[Len(inbox) + 1] = new
        /\ Len(inbox') = Len(inbox) + 1
        /\ \A i \in DOMAIN inbox : inbox'[i] = inbox[i]
    BY <1>0, <1>7, AppendProperties, LenProperties
  <2>2. ~(inbox' = Tail(inbox) /\ inbox # <<>>)
    <3>1. ASSUME inbox # <<>> PROVE Len(Tail(inbox)) # Len(inbox) + 1
      <4>1. Len(Tail(inbox)) = Len(inbox) - 1
        BY <1>0, <3>1, HeadTailProperties
      <4>. QED
        BY <1>0, <4>1
    <3>. QED
      BY <2>1, <3>1, Zenon
  <2>3. \A e \in Events : (\E k \in DOMAIN inbox : inbox[k] = e) /\ IsAnswer(e) => Fits(e)'
    BY <1>3, <2>2
  <2>4. \A i \in DOMAIN inbox' : IsAnswer(inbox'[i]) => Fits(inbox[i])'
    BY <1>0, <1>7, <2>1, <2>3 DEF Fits
  <2>5. \A i, j \in DOMAIN inbox' :
          IsAnswer(inbox'[i]) /\ IsAnswer(inbox'[j]) /\ inbox'[i].about = inbox'[j].about => i = j
    BY <1>0, <1>7, <2>1 DEF CancelInv
  <2>. QED
    BY <1>2, <2>4, <2>5 DEF CancelInv, IsAnswer
<1>8. ASSUME NEW e \in Events, inbox' = Append(inbox, e), UNCHANGED current,
             IsAnswer(e) =>
               \/ e.about = current /\ events = "cancelling" /\ events' \in {"stopping", "off"}
               \/ e.about = Overflow /\ finalizer = "cancelling" /\ finalizer' # "cancelling"
      PROVE  CancelInv'
  <2>1. IsAnswer(e) => Fits(e)' /\ \A i \in DOMAIN inbox : IsAnswer(inbox[i]) => inbox[i].about # e.about
    BY <1>1, <1>8, NewFits DEF CancelRights
  <2>. QED
    BY <1>7, <1>8, <2>1
<1>9. CASE /\ response < MaxResponses /\ response' = response + 1 /\ UNCHANGED current
           /\ inbox' = Append(inbox, [kind |-> "started", about |-> response'])
  <2>1. [kind |-> "started", about |-> response'] \in Events
    BY <1>9 DEF Events, Responses, TypeOK, SessionTypeOK
  <2>. QED
    BY <1>8, <1>9, <2>1 DEF IsAnswer
<1>. QED
  BY <1>1, <1>4, <1>5, <1>6, <1>8, <1>9 DEF InboxNext

-----------------------------------------------------------------------------
(* Types *)

LEMMA InboxTypes ==
  TypeOK /\ InboxNext =>
    inbox' \in Seq(Events) /\ response' \in Responses /\ current' \in 0..MaxResponses
<1>. SUFFICES ASSUME TypeOK, InboxNext
              PROVE  inbox' \in Seq(Events) /\ response' \in Responses /\ current' \in 0..MaxResponses
  OBVIOUS
<1>0. /\ inbox \in Seq(Events) /\ response \in Responses /\ current \in 0..MaxResponses
  BY DEF TypeOK, SessionTypeOK
<1>1. CASE inbox # <<>> /\ inbox' = Tail(inbox) /\ UNCHANGED response
           /\ current' = IF IsStart(Head(inbox)) THEN Head(inbox).about ELSE current
  <2>1. Tail(inbox) \in Seq(Events) /\ Head(inbox) \in Events
    BY <1>0, <1>1, HeadTailProperties
  <2>2. IsStart(Head(inbox)) => Head(inbox).about \in 0..MaxResponses
    BY <2>1 DEF Events, Responses, IsStart
  <2>. QED
    BY <1>0, <1>1, <2>1, <2>2
<1>2. ASSUME NEW e \in Events, inbox' = Append(inbox, e), UNCHANGED <<response, current>>
      PROVE  inbox' \in Seq(Events)
  BY <1>0, <1>2, AppendProperties
<1>3. CASE /\ response < MaxResponses /\ response' = response + 1 /\ UNCHANGED current
           /\ inbox' = Append(inbox, [kind |-> "started", about |-> response'])
  <2>1. response' \in Responses
    BY <1>0, <1>3 DEF Responses
  <2>2. [kind |-> "started", about |-> response'] \in Events
    BY <2>1 DEF Events
  <2>. QED
    BY <1>0, <1>3, <2>1, <2>2, AppendProperties
<1>4. CASE inbox' = <<>> /\ UNCHANGED <<response, current>>
  BY <1>0, <1>4, EmptySeq
<1>. QED
  BY <1>0, <1>1, <1>2, <1>3, <1>4 DEF InboxNext

\* The table of cancels never outgrows its bound.
LEMMA CancelsTypes ==
  TypeOK /\ CancelsNext =>
    cancels' \in Seq(CancelIds) /\ Len(cancels') <= MaxPendingCancels /\ forgotten' \subseteq CancelIds
<1>. DEFINE Goal == cancels' \in Seq(CancelIds) /\ Len(cancels') <= MaxPendingCancels
                    /\ forgotten' \subseteq CancelIds
<1>. SUFFICES ASSUME TypeOK, CancelsNext PROVE Goal
  OBVIOUS
<1>0. /\ cancels \in Seq(CancelIds) /\ DOMAIN cancels = 1..Len(cancels) /\ Len(cancels) \in Nat
      /\ Len(cancels) <= MaxPendingCancels /\ MaxPendingCancels \in Nat \ {0}
      /\ forgotten \subseteq CancelIds
  BY LenProperties DEF TypeOK, SessionTypeOK
<1>1. CASE cancels' = cancels /\ forgotten' \in {forgotten, {}}
  BY <1>0, <1>1
<1>6. CASE cancels' = <<>> /\ forgotten' = {}
  <2>1. cancels' \in Seq(CancelIds) /\ Len(cancels') = 0
    BY <1>6, EmptySeq
  <2>. QED
    BY <1>0, <1>6, <2>1
<1>2. ASSUME NEW id \in CancelIds, forgotten' = forgotten \cup {id}, UNCHANGED cancels
      PROVE  Goal
  BY <1>0, <1>2
<1>3. ASSUME NEW id \in CancelIds, Remember(id)
      PROVE  Goal
  <2>. DEFINE all == Append(cancels, id)
  <2>1. all \in Seq(CancelIds) /\ all # <<>> /\ Len(all) = Len(cancels) + 1
    BY <1>0, AppendProperties
  <2>2. Tail(all) \in Seq(CancelIds) /\ Len(Tail(all)) = Len(cancels) /\ Head(all) \in CancelIds
    BY <1>0, <2>1, HeadTailProperties
  <2>3. \/ cancels' = Tail(all) /\ forgotten' = forgotten \cup {Head(all)}
        \/ ~(Len(all) > MaxPendingCancels) /\ cancels' = all /\ forgotten' = forgotten
    BY <1>3 DEF Remember
  <2>. HIDE DEF all
  <2>. QED
    BY <1>0, <2>1, <2>2, <2>3
<1>4. CASE cancels # <<>> /\ cancels' = Tail(cancels) /\ forgotten' = forgotten \cup {Head(cancels)}
  <2>1. Tail(cancels) \in Seq(CancelIds) /\ Len(Tail(cancels)) = Len(cancels) - 1
        /\ Head(cancels) \in CancelIds
    BY <1>0, <1>4, HeadTailProperties
  <2>. QED
    BY <1>0, <1>4, <2>1
<1>5. ASSUME NEW i \in DOMAIN cancels, cancels' = RemoveAt(cancels, i), UNCHANGED forgotten
      PROVE  Goal
  <2>1. RemoveAt(cancels, i) \in Seq(CancelIds) /\ Len(RemoveAt(cancels, i)) = Len(cancels) - 1
    BY <1>0, RemoveAtProperties
  <2>. QED
    BY <1>0, <1>5, <2>1
<1>. QED
  BY <1>1, <1>2, <1>3, <1>4, <1>5, <1>6 DEF CancelsNext

LEMMA OutputTypes ==
  TypeOK /\ OutputNext => output' \in Seq(SUBSET Heard) /\ Len(output') <= OutputCapacity
<1>. SUFFICES ASSUME TypeOK, OutputNext
              PROVE  output' \in Seq(SUBSET Heard) /\ Len(output') <= OutputCapacity
  OBVIOUS
<1>0. output \in Seq(SUBSET Heard) /\ Len(output) \in Nat /\ Len(output) <= OutputCapacity
  BY LenProperties DEF TypeOK
<1>1. CASE output' = output
  BY <1>0, <1>1
<1>2. CASE output' = <<>>
  <2>1. <<>> \in Seq(SUBSET Heard) /\ Len(<<>>) = 0
    BY EmptySeq
  <2>. QED
    BY <1>2, <2>1
<1>3. CASE output # <<>> /\ output' = Tail(output)
  <2>1. Tail(output) \in Seq(SUBSET Heard) /\ Len(Tail(output)) = Len(output) - 1
    BY <1>0, <1>3, HeadTailProperties
  <2>. QED
    BY <1>0, <1>3, <2>1
<1>4. ASSUME NEW heard \in SUBSET Heard, Len(output) < OutputCapacity, output' = Append(output, heard)
      PROVE  output' \in Seq(SUBSET Heard) /\ Len(output') <= OutputCapacity
  <2>1. Append(output, heard) \in Seq(SUBSET Heard) /\ Len(Append(output, heard)) = Len(output) + 1
    BY <1>0, AppendProperties
  <2>. QED
    BY <1>0, <1>4, <2>1
<1>. QED
  BY <1>1, <1>2, <1>3, <1>4 DEF OutputNext

\* The parts of the type invariant that are not about sequences.
SessionType ==
  /\ stage \in {"connecting", "configuring", "confirming", "cleaning", "open", "refused"}
  /\ link \in BOOLEAN /\ closed \in BOOLEAN
  /\ cleanup \in {"none", "joining", "closing", "done"}
  /\ stream \in {"idle", "reading", "failing", "unwinding", "over"}
  /\ speaking \in BOOLEAN /\ emitted \in 0..MaxEvents

EndingType ==
  /\ reason \in {"none", "ended"} \cup Codes
  /\ finalizer \in {"off", "starting", "joining", "cancelling", "clearing", "closing",
                    "recording", "telling", "ending", "failed", "done"}
  /\ told \in BOOLEAN /\ row \in {"open", "closed"}
  /\ overflowCleared \in BOOLEAN /\ clears \in Nat

TasksType ==
  /\ events \in {"next", "cancelling", "stopping", "clearing", "stating", "storing", "off"}
  /\ cancelled \in BOOLEAN /\ silenced \in 0..MaxResponses
  /\ sender \in {"get", "sending", "draining", "off"}
  /\ frame \subseteq Heard /\ residual \subseteq Heard /\ playback \subseteq Heard
  /\ active \in BOOLEAN /\ pending \in BOOLEAN
  /\ pump \in {"get", "given", "off"}
  /\ input \in 0..InputCapacity

LEMMA SessionTypeStep == TypeOK /\ [Next]_vars => SessionType'
<1>. SUFFICES ASSUME TypeOK, [Next]_vars PROVE SessionType'
  OBVIOUS
<1>0. SessionType
  BY DEF TypeOK, SessionTypeOK, SessionType
<1>. USE <1>0 DEF SessionType, SessionUntouched, Continue, Ask, Publish, ResumesAfterClear, Yield, Taken,
                  Close, CancelSent, CancelFails, Obey
<1>1. CASE Opening
  BY <1>1 DEF Opening, Connect, Configure, OpenFails, OpenStep, Cleans
<1>2. CASE Refused
  BY <1>2 DEF Refused, OpenCleaned, OpenStep
<1>3. CASE Opened
  BY <1>3 DEF Opened, Confirm
<1>4. CASE SpeechStarted
  BY <1>4 DEF SpeechStarted, Interrupts
<1>5. CASE CancelsResponse
  BY <1>5 DEF CancelsResponse
<1>6. CASE ClearsOutput
  BY <1>6 DEF ClearsOutput
<1>7. CASE Cleared
  BY <1>7 DEF Cleared
<1>8. CASE Stated
  BY <1>8 DEF Stated
<1>9. CASE SpeechStopped
  BY <1>9 DEF SpeechStopped
<1>10. CASE ResponseStarted
  BY <1>10 DEF ResponseStarted
<1>11. CASE AudioDelta
  BY <1>11 DEF AudioDelta, Accepts, Packetizes
<1>12. CASE ResponseFinished
  BY <1>12 DEF ResponseFinished
<1>13. CASE TranscriptFinal
  BY <1>13 DEF TranscriptFinal
<1>14. CASE Transcribed
  BY <1>14 DEF Transcribed
<1>15. CASE StreamEnds
  BY <1>15 DEF StreamEnds
<1>16. CASE SenderTakes
  BY <1>16 DEF SenderTakes
<1>17. CASE SenderSent
  BY <1>17 DEF SenderSent
<1>18. CASE DeviceFrame
  BY <1>18 DEF DeviceFrame
<1>19. CASE PumpTakes
  BY <1>19 DEF PumpTakes
<1>20. CASE PumpSends
  BY <1>20 DEF PumpSends
<1>21. CASE Ends
  BY <1>21 DEF Ends
<1>22. CASE StoppedOpening
  BY <1>22 DEF StoppedOpening
<1>23. CASE DisconnectNotified
  BY <1>23 DEF DisconnectNotified
<1>24. CASE HandlerReplies
  BY <1>24 DEF HandlerReplies
<1>25. CASE CancelWorkers
  BY <1>25 DEF CancelWorkers, ConsumerCancelled
<1>26. CASE JoinWorkers
  BY <1>26 DEF JoinWorkers, ClearsOverflow
<1>27. CASE CancelsOverflow
  BY <1>27 DEF CancelsOverflow
<1>28. CASE ClearSent
  BY <1>28 DEF ClearSent, FinalizerSent, FinalizerMoves
<1>29. CASE CloseSession
  BY <1>29 DEF CloseSession
<1>30. CASE Record
  BY <1>30 DEF Record
<1>31. CASE ErrorSent
  BY <1>31 DEF ErrorSent, FinalizerSent, FinalizerMoves
<1>32. CASE EndSubmitted
  BY <1>32 DEF EndSubmitted
<1>33. CASE EndSent
  BY <1>33 DEF EndSent, FinalizerSent, FinalizerMoves
<1>34. CASE Reconciled
  BY <1>34 DEF Reconciled, FinalizerMoves
<1>35. CASE Delivered
  BY <1>35 DEF Delivered
<1>36. CASE WriterMoves
  BY <1>36 DEF WriterMoves, WriterMovesOn
<1>37. CASE SessionCloses
  BY <1>37 DEF SessionCloses, CleanupJoins, CleanupEnds, ReadCancelled, Unwound
<1>38. CASE SessionMoves
  <2>1. CASE Prune \/ IgnoreCancelError
    BY <2>1 DEF Prune, IgnoreCancelError
  <2>2. CASE FailureRead \/ BrokenRead \/ UncorrelatedRead
    BY <2>2 DEF FailureRead, BrokenRead, UncorrelatedRead, ReadFails
  <2>3. ASSUME NEW kind \in {"speech", "silence", "text", "started", "delta", "done", "failure"},
               Emit(kind)
        PROVE  SessionType'
    <3>1. UNCHANGED <<stage, link, closed, cleanup, stream>>
      BY <2>3 DEF Emit
    <3>2. emitted' \in 0..MaxEvents
      BY <2>3 DEF Emit
    <3>3. speaking' \in BOOLEAN
      BY <2>3 DEF Emit
    <3>. QED
      BY <3>1, <3>2, <3>3
  <2>. QED
    BY <1>38, <2>1, <2>2, <2>3 DEF SessionMoves
<1>39. CASE UNCHANGED vars
  BY <1>39 DEF vars
<1>. QED
  BY <1>1, <1>2, <1>3, <1>4, <1>5, <1>6, <1>7, <1>8, <1>9, <1>10, <1>11, <1>12, <1>13,
     <1>14, <1>15, <1>16, <1>17, <1>18, <1>19, <1>20, <1>21, <1>22, <1>23, <1>24,
     <1>25, <1>26, <1>27, <1>28, <1>29, <1>30, <1>31, <1>32, <1>33, <1>34, <1>35,
     <1>36, <1>37, <1>38, <1>39
  DEF Next, EventsNext, WorkersNext, EndingNext, FinalizerNext, Over

LEMMA EndingTypeStep == TypeOK /\ [Next]_vars => EndingType'
<1>. SUFFICES ASSUME TypeOK, [Next]_vars PROVE EndingType'
  OBVIOUS
<1>0. EndingType
  BY DEF TypeOK, EndingType
<1>. USE <1>0 DEF EndingType, Publish, ResumesAfterClear, Fail, Lost
<1>1. CASE Opening
  BY <1>1 DEF Opening
<1>2. CASE Refused
  BY <1>2 DEF Refused
<1>3. CASE Opened
  BY <1>3 DEF Opened, Confirm
<1>4. CASE SpeechStarted
  BY <1>4 DEF SpeechStarted, Interrupts
<1>5. CASE CancelsResponse
  BY <1>5 DEF CancelsResponse
<1>6. CASE ClearsOutput
  BY <1>6 DEF ClearsOutput
<1>7. CASE Cleared
  BY <1>7 DEF Cleared
<1>8. CASE Stated
  BY <1>8 DEF Stated
<1>9. CASE SpeechStopped
  BY <1>9 DEF SpeechStopped
<1>10. CASE ResponseStarted
  BY <1>10 DEF ResponseStarted
<1>11. CASE AudioDelta
  BY <1>11 DEF AudioDelta, Accepts, Packetizes
<1>12. CASE ResponseFinished
  BY <1>12 DEF ResponseFinished
<1>13. CASE TranscriptFinal
  BY <1>13 DEF TranscriptFinal
<1>14. CASE Transcribed
  BY <1>14 DEF Transcribed
<1>15. CASE StreamEnds
  BY <1>15 DEF StreamEnds
<1>16. CASE SenderTakes
  BY <1>16 DEF SenderTakes
<1>17. CASE SenderSent
  BY <1>17 DEF SenderSent
<1>18. CASE DeviceFrame
  BY <1>18 DEF DeviceFrame
<1>19. CASE PumpTakes
  BY <1>19 DEF PumpTakes
<1>20. CASE PumpSends
  BY <1>20 DEF PumpSends
<1>21. CASE Ends
  BY <1>21 DEF Ends
<1>22. CASE StoppedOpening
  BY <1>22 DEF StoppedOpening
<1>23. CASE DisconnectNotified
  BY <1>23 DEF DisconnectNotified
<1>24. CASE HandlerReplies
  BY <1>24 DEF HandlerReplies
<1>25. CASE CancelWorkers
  BY <1>25 DEF CancelWorkers, FinalizerMoves
<1>26. CASE JoinWorkers
  BY <1>26 DEF JoinWorkers, ClearsOverflow
<1>27. CASE CancelsOverflow
  BY <1>27 DEF CancelsOverflow
<1>28. CASE ClearSent
  BY <1>28 DEF ClearSent, FinalizerSent, FinalizerMoves
<1>29. CASE CloseSession
  BY <1>29 DEF CloseSession
<1>30. CASE Record
  BY <1>30 DEF Record
<1>31. CASE ErrorSent
  BY <1>31 DEF ErrorSent, FinalizerSent, FinalizerMoves
<1>32. CASE EndSubmitted
  BY <1>32 DEF EndSubmitted
<1>33. CASE EndSent
  BY <1>33 DEF EndSent, FinalizerSent, FinalizerMoves
<1>34. CASE Reconciled
  BY <1>34 DEF Reconciled, FinalizerMoves
<1>35. CASE Delivered
  BY <1>35 DEF Delivered
<1>36. CASE WriterMoves
  BY <1>36 DEF WriterMoves, WriterMovesOn
<1>37. CASE SessionCloses
  BY <1>37 DEF SessionCloses
<1>38. CASE SessionMoves
  BY <1>38 DEF SessionMoves
<1>39. CASE UNCHANGED vars
  BY <1>39 DEF vars
<1>. QED
  BY <1>1, <1>2, <1>3, <1>4, <1>5, <1>6, <1>7, <1>8, <1>9, <1>10, <1>11, <1>12, <1>13,
     <1>14, <1>15, <1>16, <1>17, <1>18, <1>19, <1>20, <1>21, <1>22, <1>23, <1>24,
     <1>25, <1>26, <1>27, <1>28, <1>29, <1>30, <1>31, <1>32, <1>33, <1>34, <1>35,
     <1>36, <1>37, <1>38, <1>39
  DEF Next, EventsNext, WorkersNext, EndingNext, FinalizerNext, Over

LEMMA TasksTypeStep == TypeOK /\ SoundInv /\ [Next]_vars => TasksType'
<1>. SUFFICES ASSUME TypeOK, SoundInv, [Next]_vars PROVE TasksType'
  OBVIOUS
<1>0. /\ TasksType /\ current \in 0..MaxResponses
      /\ active => current \in Heard
  BY DEF TypeOK, TasksType, SoundInv
<1>. USE <1>0 DEF TasksType, Continue, Publish, SpokenOver, ResumesAfterClear, StopSender, Emptied
<1>1. CASE Opening
  BY <1>1 DEF Opening
<1>2. CASE Refused
  BY <1>2 DEF Refused
<1>3. CASE Opened
  BY <1>3 DEF Opened, Confirm
<1>4. CASE SpeechStarted
  BY <1>4 DEF SpeechStarted, Interrupts
<1>5. CASE CancelsResponse
  BY <1>5 DEF CancelsResponse
<1>6. CASE ClearsOutput
  BY <1>6 DEF ClearsOutput
<1>7. CASE Cleared
  BY <1>7 DEF Cleared
<1>8. CASE Stated
  BY <1>8 DEF Stated
<1>9. CASE SpeechStopped
  BY <1>9 DEF SpeechStopped
<1>10. CASE ResponseStarted
  BY <1>10 DEF ResponseStarted
<1>11. CASE AudioDelta
  BY <1>11 DEF AudioDelta, Accepts, Packetizes
<1>12. CASE ResponseFinished
  BY <1>12 DEF ResponseFinished
<1>13. CASE TranscriptFinal
  BY <1>13 DEF TranscriptFinal
<1>14. CASE Transcribed
  BY <1>14 DEF Transcribed
<1>15. CASE StreamEnds
  BY <1>15 DEF StreamEnds
<1>16. CASE SenderTakes
  <2>1. Head(output) \in SUBSET Heard
    BY <1>16, HeadTailProperties DEF SenderTakes, TypeOK
  <2>2. frame' \in {frame, Head(output)}
    BY <1>16 DEF SenderTakes
  <2>3. frame' \subseteq Heard
    BY <2>1, <2>2
  <2>. QED
    BY <1>16, <2>3 DEF SenderTakes
<1>17. CASE SenderSent
  BY <1>17 DEF SenderSent
<1>18. CASE DeviceFrame
  BY <1>18 DEF DeviceFrame
<1>19. CASE PumpTakes
  BY <1>19 DEF PumpTakes
<1>20. CASE PumpSends
  BY <1>20 DEF PumpSends
<1>21. CASE Ends
  BY <1>21 DEF Ends
<1>22. CASE StoppedOpening
  BY <1>22 DEF StoppedOpening
<1>23. CASE DisconnectNotified
  BY <1>23 DEF DisconnectNotified
<1>24. CASE HandlerReplies
  BY <1>24 DEF HandlerReplies
<1>25. CASE CancelWorkers
  BY <1>25 DEF CancelWorkers, FinalizerMoves
<1>26. CASE JoinWorkers
  <2>1. UNCHANGED <<cancelled, silenced, sender, frame, playback, pump>>
    BY <1>26 DEF JoinWorkers, CancelsOverflow
  <2>2. events' = events \/ events' = "off"
    BY <1>26 DEF JoinWorkers, CancelsOverflow
  <2>3. input' = input \/ input' = 0
    BY <1>26 DEF JoinWorkers, CancelsOverflow
  <2>4. residual' = residual \/ residual' = {}
    BY <1>26 DEF JoinWorkers, CancelsOverflow
  <2>5. UNCHANGED active \/ active' = FALSE
    BY <1>26 DEF JoinWorkers, CancelsOverflow
  <2>6. UNCHANGED pending \/ pending' = FALSE
    BY <1>26 DEF JoinWorkers, CancelsOverflow
  <2>7. active' \in BOOLEAN /\ pending' \in BOOLEAN
    BY <2>5, <2>6, Zenon
  <2>8. input' \in 0..InputCapacity
    BY <2>3, QueueBounds
  <2>9. residual' \subseteq Heard
    BY <2>4
  <2>10. cancelled' \in BOOLEAN
    BY <2>1, Zenon
  <2>. QED
    BY <2>1, <2>2, <2>7, <2>8, <2>9, <2>10
<1>27. CASE CancelsOverflow
  <2>1. UNCHANGED <<cancelled, silenced, sender, frame, playback, pump>>
    BY <1>27 DEF JoinWorkers, CancelsOverflow
  <2>2. events' = events \/ events' = "off"
    BY <1>27 DEF JoinWorkers, CancelsOverflow
  <2>3. input' = input \/ input' = 0
    BY <1>27 DEF JoinWorkers, CancelsOverflow
  <2>4. residual' = residual \/ residual' = {}
    BY <1>27 DEF JoinWorkers, CancelsOverflow
  <2>5. UNCHANGED active \/ active' = FALSE
    BY <1>27 DEF JoinWorkers, CancelsOverflow
  <2>6. UNCHANGED pending \/ pending' = FALSE
    BY <1>27 DEF JoinWorkers, CancelsOverflow
  <2>7. active' \in BOOLEAN /\ pending' \in BOOLEAN
    BY <2>5, <2>6, Zenon
  <2>8. input' \in 0..InputCapacity
    BY <2>3, QueueBounds
  <2>9. residual' \subseteq Heard
    BY <2>4
  <2>10. cancelled' \in BOOLEAN
    BY <2>1, Zenon
  <2>. QED
    BY <2>1, <2>2, <2>7, <2>8, <2>9, <2>10
<1>28. CASE ClearSent
  BY <1>28 DEF ClearSent, FinalizerSent, FinalizerMoves
<1>29. CASE CloseSession
  BY <1>29 DEF CloseSession
<1>30. CASE Record
  BY <1>30 DEF Record
<1>31. CASE ErrorSent
  BY <1>31 DEF ErrorSent, FinalizerSent, FinalizerMoves
<1>32. CASE EndSubmitted
  BY <1>32 DEF EndSubmitted
<1>33. CASE EndSent
  BY <1>33 DEF EndSent, FinalizerSent, FinalizerMoves
<1>34. CASE Reconciled
  BY <1>34 DEF Reconciled, FinalizerMoves
<1>35. CASE Delivered
  <2>1. playback' \in {playback \cup frame, {}, playback}
    BY <1>35 DEF Delivered
  <2>. QED
    BY <1>35, <2>1 DEF Delivered
<1>36. CASE WriterMoves
  <2>1. UNCHANGED <<session, ending, speech, sound, hearing>>
    BY <1>36 DEF WriterMoves, WriterMovesOn
  <2>. QED
    BY <2>1
<1>37. CASE SessionCloses
  BY <1>37 DEF SessionCloses
<1>38. CASE SessionMoves
  BY <1>38 DEF SessionMoves
<1>39. CASE UNCHANGED vars
  BY <1>39 DEF vars
<1>. QED
  BY <1>1, <1>2, <1>3, <1>4, <1>5, <1>6, <1>7, <1>8, <1>9, <1>10, <1>11, <1>12, <1>13,
     <1>14, <1>15, <1>16, <1>17, <1>18, <1>19, <1>20, <1>21, <1>22, <1>23, <1>24,
     <1>25, <1>26, <1>27, <1>28, <1>29, <1>30, <1>31, <1>32, <1>33, <1>34, <1>35,
     <1>36, <1>37, <1>38, <1>39
  DEF Next, EventsNext, WorkersNext, EndingNext, FinalizerNext, Over

-----------------------------------------------------------------------------
(* The inductive invariant is one *)

LEMMA Inductive == IInv /\ [Next]_vars => IInv'
<1>. SUFFICES ASSUME IInv, [Next]_vars PROVE IInv'
  OBVIOUS
<1>. USE DEF IInv
<1>1. WriterTypeOK' /\ QueueInv' /\ SocketInv'
  <2>1. WriterTypeOK
    BY DEF TypeOK
  <2>. QED
    BY <2>1, WriterMoved, WriterStays, SocketStays
<1>2. TypeOK'
  <2>1. inbox' \in Seq(Events) /\ response' \in Responses /\ current' \in 0..MaxResponses
    BY InboxMoved, InboxTypes
  <2>2. cancels' \in Seq(CancelIds) /\ Len(cancels') <= MaxPendingCancels /\ forgotten' \subseteq CancelIds
    BY CancelsMoved, CancelsTypes
  <2>3. output' \in Seq(SUBSET Heard) /\ Len(output') <= OutputCapacity
    BY OutputMoved, OutputTypes
  <2>4. SessionType' /\ EndingType' /\ TasksType'
    BY SessionTypeStep, EndingTypeStep, TasksTypeStep
  <2>5. SessionTypeOK'
    BY <2>1, <2>2, <2>4 DEF SessionTypeOK, SessionType
  <2>. QED
    BY <1>1, <2>1, <2>3, <2>4, <2>5 DEF TypeOK, EndingType, TasksType
<1>3. SendInv' /\ StageInv' /\ FinalizerInv' /\ OverflowInv'
  BY SendStep, StageStep, FinalizerStep, OverflowStep
<1>4. StartsInv' /\ SoundInv' /\ CancelInv'
  BY InboxMoved, StartsStep, SoundStep, CancelStep
<1>. QED
  BY <1>1, <1>2, <1>3, <1>4

LEMMA Initially == Init => IInv
<1>. SUFFICES ASSUME Init PROVE IInv
  OBVIOUS
<1>. USE DEF Init, WriterInit, SessionInit
<1>0. /\ \A S : <<>> \in Seq(S)
      /\ DOMAIN <<>> = {} /\ Len(<<>>) = 0
  BY EmptySeq
<1>1. WriterTypeOK
  BY <1>0 DEF WriterTypeOK, IsInjective, Causes
<1>2. SessionTypeOK
  <2>1. cancels \in Seq(CancelIds) /\ inbox \in Seq(Events) /\ Len(cancels) <= MaxPendingCancels
    BY <1>0
  <2>2. response \in Responses /\ emitted \in 0..MaxEvents
    BY DEF Responses
  <2>. QED
    BY <2>1, <2>2 DEF SessionTypeOK
<1>3. TypeOK
  <2>1. output \in Seq(SUBSET Heard) /\ Len(output) <= OutputCapacity
    BY <1>0
  <2>2. current \in 0..MaxResponses /\ silenced \in 0..MaxResponses /\ input \in 0..InputCapacity
    OBVIOUS
  <2>. QED
    BY <1>1, <1>2, <2>1, <2>2 DEF TypeOK
<1>4. QueueInv /\ SocketInv /\ SendInv /\ StageInv /\ FinalizerInv /\ OverflowInv
  BY <1>0 DEF QueueInv, SocketInv, Terminal, SendInv, Resting, StageInv, FinalizerInv, Joined, Emptying, OverflowInv
<1>5. StartsInv /\ SoundInv /\ CancelInv
  BY <1>0 DEF StartsInv, SoundInv, CancelInv
<1>. QED
  BY <1>3, <1>4, <1>5 DEF IInv

-----------------------------------------------------------------------------
(* Theorems *)

\* The inductive invariant holds at every moment of every conversation.
THEOREM Invariant == Spec => []IInv
  BY Initially, Inductive, PTL DEF Spec

\* The tasks, the queues of bounded length and the table of cancels keep their types.
THEOREM TypeCorrect == Spec => []TypeOK
<1>1. IInv => TypeOK
  BY DEF IInv
<1>. QED
  BY <1>1, Invariant, PTL

\* _clear_output silences a response for good: no late delta, queued frame or slow cancel
\* brings a sample of it back.
THEOREM SilencedForGood == Spec => []SilencedStaysSilent
<1>1. IInv => SilencedStaysSilent
  <2>. SUFFICES ASSUME TypeOK, SoundInv, NEW r \in 1..silenced
                PROVE  r \notin playback \cup frame \cup residual
                                \cup UNION {output[i] : i \in DOMAIN output}
    BY DEF IInv, SilencedStaysSilent
  <2>1. silenced \in Nat /\ r \in Nat /\ ~(silenced < r)
    BY DEF TypeOK
  <2>. QED
    BY <2>1 DEF SoundInv
<1>. QED
  BY <1>1, Invariant, PTL

\* _finalize joins no worker that waits for more work: the loops look at the end of the
\* conversation again when a control message has consumed their cancellation.
THEOREM WorkersEnd == Spec => []CancelledWorkersEnd
<1>1. IInv => CancelledWorkersEnd
  BY DEF IInv, FinalizerInv, CancelledWorkersEnd
<1>. QED
  BY <1>1, Invariant, PTL

\* _finalize clears an overflow once, however often it has to be run.
THEOREM OneClear == Spec => []OverflowClearedOnce
<1>1. IInv => OverflowClearedOnce
  BY DEF IInv, OverflowInv, OverflowClearedOnce
<1>. QED
  BY <1>1, Invariant, PTL

\* _finalize and close end with every task joined and every queue and socket gone.
THEOREM NothingIsLeft == Spec => []EndLeavesNothing
<1>1. IInv => EndLeavesNothing
  BY DEF IInv, FinalizerInv, Joined, Emptying, EndLeavesNothing
<1>. QED
  BY <1>1, Invariant, PTL

\* The stream fails on the event it reads only where the code says so.
LEMMA FailingRead ==
  StageInv /\ [Next]_vars /\ stream = "reading" /\ stream' = "failing" /\ inbox # inbox'
    => FailureRead \/ UncorrelatedRead
<1>. SUFFICES ASSUME StageInv, [Next]_vars, stream = "reading", stream' = "failing", inbox # inbox'
              PROVE  FailureRead \/ UncorrelatedRead
  OBVIOUS
<1>. USE DEF StageInv, Continue, Ask, Publish, ResumesAfterClear, SessionUntouched, AtEvent
<1>1. CASE Opening
  BY <1>1 DEF Opening, Connect, Configure, OpenFails, OpenStep
<1>2. CASE Refused
  BY <1>2 DEF Refused, OpenCleaned, OpenStep
<1>3. CASE Opened
  BY <1>3 DEF Opened, Confirm
<1>4. CASE SpeechStarted
  BY <1>4 DEF SpeechStarted, Interrupts
<1>5. CASE CancelsResponse
  BY <1>5 DEF CancelsResponse, CancelSent, CancelFails
<1>6. CASE ClearsOutput
  BY <1>6 DEF ClearsOutput
<1>7. CASE Cleared
  BY <1>7 DEF Cleared
<1>8. CASE Stated
  BY <1>8 DEF Stated
<1>9. CASE SpeechStopped
  BY <1>9 DEF SpeechStopped
<1>10. CASE ResponseStarted
  BY <1>10 DEF ResponseStarted
<1>11. CASE AudioDelta
  BY <1>11 DEF AudioDelta, Accepts, Packetizes
<1>12. CASE ResponseFinished
  BY <1>12 DEF ResponseFinished
<1>13. CASE TranscriptFinal
  BY <1>13 DEF TranscriptFinal
<1>14. CASE Transcribed
  BY <1>14 DEF Transcribed
<1>15. CASE StreamEnds
  BY <1>15 DEF StreamEnds
<1>16. CASE SenderTakes
  BY <1>16 DEF SenderTakes
<1>17. CASE SenderSent
  BY <1>17 DEF SenderSent
<1>18. CASE DeviceFrame
  BY <1>18 DEF DeviceFrame
<1>19. CASE PumpTakes
  BY <1>19 DEF PumpTakes
<1>20. CASE PumpSends
  BY <1>20 DEF PumpSends
<1>21. CASE Ends
  BY <1>21 DEF Ends
<1>22. CASE StoppedOpening
  BY <1>22 DEF StoppedOpening
<1>23. CASE DisconnectNotified
  BY <1>23 DEF DisconnectNotified
<1>24. CASE HandlerReplies
  BY <1>24 DEF HandlerReplies
<1>25. CASE CancelWorkers
  BY <1>25 DEF CancelWorkers, CancelFails, ConsumerCancelled
<1>26. CASE JoinWorkers
  BY <1>26 DEF JoinWorkers, ClearsOverflow
<1>27. CASE CancelsOverflow
  BY <1>27 DEF CancelsOverflow, CancelSent, CancelFails
<1>28. CASE ClearSent
  BY <1>28 DEF ClearSent, FinalizerSent, FinalizerMoves
<1>29. CASE CloseSession
  BY <1>29 DEF CloseSession
<1>30. CASE Record
  BY <1>30 DEF Record
<1>31. CASE ErrorSent
  BY <1>31 DEF ErrorSent, FinalizerSent, FinalizerMoves
<1>32. CASE EndSubmitted
  BY <1>32 DEF EndSubmitted
<1>33. CASE EndSent
  BY <1>33 DEF EndSent, FinalizerSent, FinalizerMoves
<1>34. CASE Reconciled
  BY <1>34 DEF Reconciled, FinalizerMoves
<1>35. CASE Delivered
  BY <1>35 DEF Delivered
<1>36. CASE WriterMoves
  BY <1>36 DEF WriterMoves, WriterMovesOn
<1>37. CASE SessionCloses
  BY <1>37 DEF SessionCloses, CleanupJoins, CleanupEnds, ReadCancelled, Unwound
<1>38. CASE SessionMoves
  BY <1>38 DEF SessionMoves, Prune, IgnoreCancelError, BrokenRead, Emit
<1>39. CASE UNCHANGED vars
  BY <1>39 DEF vars
<1>. QED
  BY <1>1, <1>2, <1>3, <1>4, <1>5, <1>6, <1>7, <1>8, <1>9, <1>10, <1>11, <1>12, <1>13,
     <1>14, <1>15, <1>16, <1>17, <1>18, <1>19, <1>20, <1>21, <1>22, <1>23, <1>24,
     <1>25, <1>26, <1>27, <1>28, <1>29, <1>30, <1>31, <1>32, <1>33, <1>34, <1>35,
     <1>36, <1>37, <1>38, <1>39
  DEF Next, EventsNext, WorkersNext, EndingNext, FinalizerNext, Over

\* _recoverable_cancel_error never takes the late answer of a remembered cancel for a
\* failure of the session, for any number of cancels and any bound of the table.
THEOREM OnlyForgottenFail == Spec => OnlyForgottenCancelsFail
<1>0. ASSUME IInv, [Next]_vars, stream = "reading", stream' = "failing", inbox # inbox',
             Head(inbox).kind = "cancel_error"
      PROVE  Head(inbox).about \in forgotten
  <2>1. UncorrelatedRead
    BY <1>0, FailingRead DEF IInv, FailureRead, Reads
  <2>2. ~closed /\ inbox # <<>> /\ ~Recoverable(Head(inbox).about)
    BY <2>1 DEF UncorrelatedRead, ReadFails, Reads
  <2>3. Head(inbox) = inbox[1] /\ 1 \in DOMAIN inbox
    BY <1>0, <2>2, LenProperties DEF IInv, TypeOK, SessionTypeOK
  <2>4. Fits(inbox[1])
    BY <1>0, <2>3 DEF IInv, CancelInv, IsAnswer
  <2>5. Head(inbox).about \in Known
    BY <2>2, <2>3, <2>4 DEF Fits
  <2>. QED
    BY <2>2, <2>5 DEF Known, Recoverable
<1>1. IInv /\ [Next]_vars =>
        [stream = "reading" /\ stream' = "failing" /\ inbox # inbox'
           /\ Head(inbox).kind = "cancel_error"
         => Head(inbox).about \in forgotten]_vars
  BY <1>0, Zenon
<1>. QED
  BY <1>1, Invariant, PTL DEF Spec, OnlyForgottenCancelsFail

\* _send reads the ownership again once it has the lock, and retire() cancels the send
\* that holds it: nothing is written to a retired connection, by any number of writers.
THEOREM RetiredIsSilent == Spec => SilentAfterRetire
<1>0. ASSUME IInv, [Next]_vars, Terminal, NEW w \in Writers,
             sending'[w] \in {"written", "ok"}
      PROVE  sending'[w] = sending[w]
  <2>1. WriterNext /\ w \notin Holders
    BY <1>0, WriterMoved DEF IInv, SocketInv
  <2>2. sending \in [Writers -> Places] /\ WriterTypeOK
    BY <1>0 DEF IInv, TypeOK, WriterTypeOK, Places
  <2>3. ASSUME NEW x \in Writers, NEW why, FailsFor(x, why) PROVE sending'[w] = sending[w]
    BY <1>0, <2>2, <2>3, Failing
  <2>4. ASSUME NEW x \in Writers, NEW to \in Places \ {"written", "ok"}, Sends(x, to)
        PROVE  sending'[w] = sending[w]
    BY <1>0, <2>2, <2>4 DEF Sends
  <2>5. ASSUME NEW x \in AudioWriters, Write(x) \/ Completes(x) PROVE sending'[w] = sending[w]
    <3>1. x \in Holders
      BY <2>5 DEF Write, Completes, Holders
    <3>. QED
      BY <1>0, <3>1 DEF IInv, SocketInv
  <2>6. ASSUME NEW x \in AudioWriters, WriterStep(x) \/ Cut(x, "control_cut")
        PROVE  sending'[w] = sending[w]
    BY <2>3, <2>4, <2>5, <2>6 DEF WriterStep, Enter, Acquire, WriteFails, TimesOut, Cut, Places
  <2>7. CASE UNCHANGED writer \/ RetiredOutside
    BY <1>0, <2>7 DEF RetiredOutside
  <2>. QED
    BY <2>1, <2>4, <2>5, <2>6, <2>7 DEF WriterNext, Submit, Places
<1>1. IInv /\ [Next]_vars =>
        [Terminal => \A w \in Writers :
           sending'[w] \in {"written", "ok"} => sending'[w] = sending[w]]_writer
  BY <1>0, Zenon
<1>. QED
  BY <1>1, Invariant, PTL DEF Spec, SilentAfterRetire
=============================================================================
