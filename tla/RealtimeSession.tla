-------------------------- MODULE RealtimeSession ---------------------------
(***************************************************************************)
(* A session with the realtime provider: opening it under one deadline,    *)
(* the stream of its events, cancelled responses and the errors that       *)
(* answer them, and a close that any task may ask for and all of them join.*)
(*                                                                         *)
(* Source: backend/app/ai/openai_realtime.py.  The provider itself is      *)
(* external: it answers in order, one response at a time.                  *)
(***************************************************************************)
EXTENDS Naturals, Sequences, SequencesExt

CONSTANTS
  MaxPendingCancels,  \* _MAX_PENDING_CANCELS: 64 in the code
  MaxResponses,       \* bound: responses the provider starts
  MaxEvents,          \* bound: events it sends of its own
  Pipe                \* bound: events on their way

ASSUME SessionBounds ==
  /\ MaxPendingCancels \in Nat \ {0}
  /\ MaxResponses \in Nat /\ MaxEvents \in Nat /\ Pipe \in Nat

VARIABLES
  stage,        \* open_session
  link,         \* the socket to the provider exists
  closed,       \* _closed
  cleanup,      \* _close_task
  stream,       \* _event_stream; "idle" is before the first event or at a yield
  cancels,      \* _pending_cancels, oldest first
  forgotten,    \* history: cancels dropped before the provider answered them
  inbox,        \* events the provider sent and recv has not returned
  response,     \* provider: number of its last response
  speaking,     \* provider: that response is being generated
  emitted       \* provider: events sent so far

provider == <<inbox, response, speaking, emitted>>
session == <<stage, link, closed, cleanup, stream, cancels, forgotten, provider>>

Responses == 0..MaxResponses
CancelIds == 1..(MaxResponses + 1)
Events == [kind : {"speech", "silence", "text", "started", "delta", "done", "failure"},
           about : Responses]
          \cup [kind : {"cancel_error"}, about : CancelIds]

SessionTypeOK ==
  /\ stage \in {"connecting", "configuring", "confirming", "cleaning", "open", "refused"}
  /\ link \in BOOLEAN /\ closed \in BOOLEAN
  /\ cleanup \in {"none", "joining", "closing", "done"}
  /\ stream \in {"idle", "reading", "failing", "unwinding", "over"}
  /\ cancels \in Seq(CancelIds) /\ Len(cancels) <= MaxPendingCancels
  /\ forgotten \subseteq CancelIds
  /\ inbox \in Seq(Events)
  /\ response \in Responses /\ speaking \in BOOLEAN /\ emitted \in 0..MaxEvents

SessionInit ==
  /\ stage = "connecting" /\ link = FALSE
  /\ closed = FALSE /\ cleanup = "none" /\ stream = "idle"
  /\ cancels = <<>> /\ forgotten = {}
  /\ inbox = <<>> /\ response = 0 /\ speaking = FALSE /\ emitted = 0

-----------------------------------------------------------------------------
(* open_session *)

OpenStep(from, to) ==
  /\ stage = from
  /\ stage' = to
  /\ UNCHANGED <<closed, cleanup, stream, cancels, forgotten, provider>>

Connect == OpenStep("connecting", "configuring") /\ link' = TRUE
Configure == OpenStep("configuring", "confirming") /\ UNCHANGED link
\* session.updated; other events before it are skipped.
\* The caller may ask for the first event at once.
Confirm ==
  /\ stage = "confirming" /\ stage' = "open"
  /\ UNCHANGED <<link, closed, cleanup, cancels, forgotten, provider>>

BugCleans(from) == from = "confirming"
\* Only an attempt that connected has something to clean.
Cleans(from) == from # "connecting"

\* An error of the provider, the deadline, or a cancellation of the caller.
OpenFails ==
  /\ \E from \in {"connecting", "configuring", "confirming"} :
       OpenStep(from, IF Cleans(from) THEN "cleaning" ELSE "refused")
  /\ UNCHANGED link
OpenCleaned == OpenStep("cleaning", "refused") /\ link' = FALSE

-----------------------------------------------------------------------------
(* close *)

\* close(): the first caller starts the cleanup, all of them join it.  A closed
\* session reads no answers, so the history of its cancels ends too.
Close ==
  /\ closed' = TRUE /\ forgotten' = {}
  /\ cleanup' = IF cleanup = "none" THEN "joining" ELSE cleanup
  /\ cancels' = IF cleanup = "none" THEN <<>> ELSE cancels

\* _cleanup joins the pending receive, never the generator that consumes it: that
\* one may be awaiting this very cleanup.
JoinsRead == stream # "reading"

CleanupJoins ==
  /\ cleanup = "joining" /\ JoinsRead
  /\ cleanup' = "closing"
  /\ UNCHANGED <<stage, link, closed, stream, cancels, forgotten, provider>>

\* The close handshake, or abort and the end of the connection: what was on its way
\* is lost.
CleanupEnds ==
  /\ cleanup = "closing"
  /\ cleanup' = "done" /\ link' = FALSE /\ inbox' = <<>> /\ speaking' = FALSE
  /\ UNCHANGED <<stage, closed, stream, cancels, forgotten, response, emitted>>

-----------------------------------------------------------------------------
(* cancel_response *)

Answer(event) == inbox' = Append(inbox, event)

\* The oldest id gives way when the table is full.
Remember(id) ==
  LET all == Append(cancels, id) IN
    IF Len(all) > MaxPendingCancels
    THEN cancels' = Tail(all) /\ forgotten' = forgotten \cup {Head(all)}
    ELSE cancels' = all /\ forgotten' = forgotten

\* The provider has the cancel: the response ends, or there is none to cancel.
Obey(id) ==
  /\ IF speaking
     THEN Answer([kind |-> "done", about |-> response])
     ELSE Answer([kind |-> "cancel_error", about |-> id])
  /\ speaking' = FALSE
  /\ UNCHANGED <<response, emitted>>

CancelSent(id) ==
  /\ ~closed
  /\ Remember(id)
  /\ Obey(id)
  /\ UNCHANGED <<stage, link, closed, cleanup, stream>>

\* The send fails, and the session with it, or the caller gives it up: the id is
\* dropped although the provider may have got the cancel.
CancelFails(id) ==
  /\ \/ Close
     \/ /\ forgotten' = forgotten \cup {id}
        /\ UNCHANGED <<closed, cleanup, cancels>>
  /\ Obey(id) \/ UNCHANGED provider
  /\ UNCHANGED <<stage, link, stream>>

\* _prune_cancels: thirty seconds without an answer.
Prune ==
  /\ cancels # <<>>
  /\ cancels' = Tail(cancels)
  /\ forgotten' = forgotten \cup {Head(cancels)}
  /\ UNCHANGED <<stage, link, closed, cleanup, stream, provider>>

-----------------------------------------------------------------------------
(* _event_stream *)

\* anext after a yield: the loop ends if the session was closed meanwhile.
Ask == stream' = IF closed THEN "unwinding" ELSE "reading"

Reads(kind) == stream = "reading" /\ ~closed /\ inbox # <<>> /\ Head(inbox).kind = kind
Taken == inbox' = Tail(inbox) /\ UNCHANGED <<response, speaking, emitted>>

BugRecoverable(id) == FALSE
\* The error that answers one of our cancels, correlated by its id.
Recoverable(id) == \E i \in DOMAIN cancels : cancels[i] = id

\* The generator swallows it and reads on.
IgnoreCancelError ==
  /\ Reads("cancel_error") /\ Recoverable(Head(inbox).about)
  /\ Taken
  /\ \E i \in DOMAIN cancels :
       cancels[i] = Head(inbox).about /\ cancels' = RemoveAt(cancels, i)
  /\ UNCHANGED <<stage, link, closed, cleanup, stream, forgotten>>

\* An event that does not stop the stream.
Yield(kind) ==
  /\ Reads(kind)
  /\ Taken
  /\ UNCHANGED <<stage, link, closed, cleanup, cancels, forgotten>>

\* A failure event, an uncorrelated error or a broken socket: the session closes
\* itself before it yields ProviderFailure.
ReadFails ==
  /\ stream = "reading" /\ ~closed
  /\ stream' = "failing"
  /\ Close
  /\ UNCHANGED <<stage, link>>

FailureRead == ReadFails /\ Reads("failure") /\ Taken
BrokenRead == ReadFails /\ UNCHANGED provider
UncorrelatedRead ==
  ReadFails /\ Reads("cancel_error") /\ ~Recoverable(Head(inbox).about) /\ Taken

\* close() of another task cancels the receive.
ReadCancelled ==
  /\ stream = "reading" /\ closed
  /\ stream' = "unwinding"
  /\ UNCHANGED <<stage, link, closed, cleanup, cancels, forgotten, provider>>

\* The consumer is cancelled inside anext: the finally clause closes the session
\* and joins the cleanup.
ConsumerCancelled ==
  IF stream \in {"reading", "failing", "unwinding"}
  THEN stream' = "unwinding" /\ Close
  ELSE UNCHANGED <<stream, closed, cleanup, cancels, forgotten>>

Unwound ==
  /\ stream = "unwinding" /\ cleanup = "done"
  /\ stream' = "over"
  /\ UNCHANGED <<stage, link, closed, cleanup, cancels, forgotten, provider>>

-----------------------------------------------------------------------------
(* The provider *)

\* What it sends to a closed session is never read.
Emit(kind) ==
  /\ stage = "open" /\ ~closed /\ emitted < MaxEvents /\ Len(inbox) < Pipe
  /\ emitted' = emitted + 1
  /\ Answer([kind |-> kind, about |-> IF kind = "started" THEN response + 1 ELSE response])
  /\ \/ /\ kind \in {"speech", "silence", "text", "failure"}
        /\ UNCHANGED <<response, speaking>>
     \/ /\ kind = "started" /\ ~speaking /\ response < MaxResponses
        /\ response' = response + 1 /\ speaking' = TRUE
     \/ /\ kind = "delta" /\ speaking
        /\ UNCHANGED <<response, speaking>>
     \/ /\ kind = "done" /\ speaking
        /\ speaking' = FALSE /\ UNCHANGED response
  /\ UNCHANGED <<stage, link, closed, cleanup, stream, cancels, forgotten>>
=============================================================================
