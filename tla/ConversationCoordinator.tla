---------------------- MODULE ConversationCoordinator ----------------------
(***************************************************************************)
(* The life of the voice conversations of one device: the reservation, the *)
(* start attempt that opens a provider session and records a durable row,  *)
(* the workers, everything that may end the conversation, and the single   *)
(* finalizer that does.                                                    *)
(*                                                                         *)
(* Sources: ai/conversation_coordinator.py and services/conversations.py,  *)
(* with the message loop of websocket/device.py that calls them and the    *)
(* lifespan of main.py, all under backend/app.                             *)
(*                                                                         *)
(* The coordinator keeps one reservation per device and no operation but   *)
(* shutdown visits two, so the module describes one device.  The bodies    *)
(* under coordinator._lock are atomic; tasks interleave at the awaits on   *)
(* the provider, the database, the transport and one another.  Of the      *)
(* connection registry only the published lease is kept, as a number that  *)
(* grows with every claim; DeviceConnections models the rest.              *)
(***************************************************************************)
EXTENDS Naturals

CONSTANTS
  Attempts,     \* conversation.start messages
  Free,         \* "no reservation"
  Faults,       \* steps that may fail
  MaxLeases,    \* bound: connections the device makes
  MaxRestarts   \* bound: times the process dies

ASSUME FreeIsNoAttempt == Free \notin Attempts
ASSUME KnownFaults ==
  Faults \subseteq {"configure", "open", "insert", "commit", "send", "end", "settle"}
ASSUME Bounds == MaxLeases \in Nat /\ MaxRestarts \in Nat

\* Awaits of _initialize, in order; the reservation is held from the first one on.
Initializing == {"opening", "inserting", "committing", "announcing", "listening"}
\* Awaits of start before it reserves.
Preparing == {"reconciling", "awaiting", "configuring"}
Steps == {"idle", "refused", "ready", "lost"} \cup Preparing \cup Initializing
\* Awaits of _finalize while its task is not done.
Running == {"joining", "ending", "settling", "releasing", "notifying"}
Callers == {"init", "fail", "stop", "disconnect", "reconcile", "shutdown"}

VARIABLES
  active,       \* coordinator._active[device]
  owner,        \* active.ownership of each attempt, 0 before it asks
  pc,           \* the await a start attempt is in; "ready" is active.ready
  known,        \* active.conversation_id is set
  started,      \* active.started
  stop,         \* active.stop_reason
  outcome,      \* active.outcome
  code,         \* active.error_code is set
  workers,      \* active.workers is not empty
  callers,      \* tasks about to call _ensure_closed for an attempt
  closer,       \* the await active.close_task is in, "done" or "failed" after it
  ended,        \* attempts whose conversation.ended was sent
  session,      \* the provider's session
  rows,         \* the durable conversation row
  result,       \* its outcome: durable
  events,       \* conversation_failed events: durable
  lease,        \* the lease the registry publishes, 0 when there is none
  minted,       \* leases claimed so far
  notified,     \* retired leases whose disconnection was notified
  shutdown,     \* progress of ConversationCoordinator.shutdown
  restarts      \* times the process died

memory == <<owner, known, started, stop, outcome, code>>
durable == <<rows, result, events>>
registry == <<lease, minted, notified>>
vars == <<active, memory, pc, workers, callers, closer, ended, session, durable,
          registry, shutdown, restarts>>

TypeOK ==
  /\ active \in Attempts \cup {Free}
  /\ owner \in [Attempts -> 0..MaxLeases]
  /\ pc \in [Attempts -> Steps]
  /\ known \in [Attempts -> BOOLEAN]
  /\ started \in [Attempts -> BOOLEAN]
  /\ stop \in [Attempts -> {"none", "visitor_finished", "device_disconnected"}]
  /\ outcome \in [Attempts -> {"none", "REGISTERED", "ABANDONED", "FAILED"}]
  /\ code \in [Attempts -> BOOLEAN]
  /\ workers \in [Attempts -> BOOLEAN]
  /\ callers \in [Attempts -> SUBSET Callers]
  /\ closer \in [Attempts -> {"none", "done", "failed"} \cup Running]
  /\ ended \in SUBSET Attempts
  /\ session \in [Attempts -> {"none", "open", "closed"}]
  /\ rows \in [Attempts -> {"none", "open", "closed"}]
  /\ result \in [Attempts -> {"none", "REGISTERED", "ABANDONED", "FAILED"}]
  /\ events \in [Attempts -> Nat]
  /\ lease \in 0..MaxLeases
  /\ minted \in 0..MaxLeases
  /\ notified \in SUBSET (1..MaxLeases)
  /\ shutdown \in {"running", "first", "second", "clean", "failed"}
  /\ restarts \in 0..MaxRestarts

Init ==
  /\ active = Free
  /\ owner = [a \in Attempts |-> 0]
  /\ pc = [a \in Attempts |-> "idle"]
  /\ known = [a \in Attempts |-> FALSE]
  /\ started = [a \in Attempts |-> FALSE]
  /\ stop = [a \in Attempts |-> "none"]
  /\ outcome = [a \in Attempts |-> "none"]
  /\ code = [a \in Attempts |-> FALSE]
  /\ workers = [a \in Attempts |-> FALSE]
  /\ callers = [a \in Attempts |-> {}]
  /\ closer = [a \in Attempts |-> "none"]
  /\ ended = {}
  /\ session = [a \in Attempts |-> "none"]
  /\ rows = [a \in Attempts |-> "none"]
  /\ result = [a \in Attempts |-> "none"]
  /\ events = [a \in Attempts |-> 0]
  /\ lease = 0
  /\ minted = 0
  /\ notified = {}
  /\ shutdown = "running"
  /\ restarts = 0

-----------------------------------------------------------------------------
(* Helpers *)

Goto(a, step) == pc' = [pc EXCEPT ![a] = step]

\* registry.is_current for the lease an attempt was made with.
IsCurrent(a) == lease # 0 /\ owner[a] = lease

\* ActiveConversation.closing and owns.
Closing(a) == stop[a] # "none" \/ outcome[a] # "none"
BugOwns(a, l) == TRUE
Owns(a, l) == owner[a] = l

\* The reason an attempt already has prevails over a later one.
Mark(a, reason) == stop' = IF stop[a] = "none" THEN [stop EXCEPT ![a] = reason] ELSE stop

\* An attempt asks for its own end, or finds after an await that its lease is gone.
MustStop(a) == stop[a] # "none" \/ ~IsCurrent(a)
NoticeLoss(a) == IF IsCurrent(a) THEN UNCHANGED stop ELSE Mark(a, "device_disconnected")

\* The end of _initialize, with no await in it: ready is set, and the attempt
\* either goes to its finalizer or starts the workers.
BugFinish(a, failed, stopped) ==
  /\ Goto(a, "ready")
  /\ outcome' = IF failed THEN [outcome EXCEPT ![a] = "FAILED"] ELSE outcome
  /\ callers' = IF failed THEN [callers EXCEPT ![a] = @ \cup {"init"}] ELSE callers
  /\ workers' = IF failed THEN workers ELSE [workers EXCEPT ![a] = TRUE]

BugFinishQuietly(a, failed, stopped) ==
  /\ Goto(a, "ready")
  /\ outcome' = IF failed THEN [outcome EXCEPT ![a] = "FAILED"] ELSE outcome
  /\ UNCHANGED callers
  /\ workers' = IF failed \/ stopped THEN workers ELSE [workers EXCEPT ![a] = TRUE]

Finish(a, failed, stopped) ==
  /\ Goto(a, "ready")
  /\ outcome' = IF failed THEN [outcome EXCEPT ![a] = "FAILED"] ELSE outcome
  /\ IF failed \/ stopped
     THEN callers' = [callers EXCEPT ![a] = @ \cup {"init"}] /\ UNCHANGED workers
     ELSE workers' = [workers EXCEPT ![a] = TRUE] /\ UNCHANGED callers

Continue(a, step) == Goto(a, step) /\ UNCHANGED <<outcome, callers, workers>>

\* The objects of these attempts are gone.
Forget(dropped) ==
  /\ owner' = [a \in Attempts |-> IF a \in dropped THEN 0 ELSE owner[a]]
  /\ known' = [a \in Attempts |-> known[a] /\ a \notin dropped]
  /\ started' = [a \in Attempts |-> started[a] /\ a \notin dropped]
  /\ stop' = [a \in Attempts |-> IF a \in dropped THEN "none" ELSE stop[a]]
  /\ outcome' = [a \in Attempts |-> IF a \in dropped THEN "none" ELSE outcome[a]]
  /\ code' = [a \in Attempts |-> code[a] /\ a \notin dropped]

\* The requester is told conversation.error; no object was made.
Refuse(a) ==
  /\ Goto(a, "refused")
  /\ owner' = [owner EXCEPT ![a] = 0]

\* Every variable but those that Finish, Continue and Mark determine.
Elsewhere == <<active, owner, code, closer, ended, registry, shutdown, restarts>>

\* The handler of a socket is inside coordinator.start, which it awaits.
Starting(l) == \E a \in Attempts : owner[a] = l /\ pc[a] \in Preparing \cup Initializing

-----------------------------------------------------------------------------
(* start: from the device's request to the reservation *)

\* The lease is current when the handler calls start.  One handler, one start.
Request(a) ==
  /\ pc[a] = "idle"
  /\ lease # 0
  /\ ~Starting(lease)
  /\ owner' = [owner EXCEPT ![a] = lease]
  /\ Goto(a, "reconciling")
  /\ UNCHANGED <<active, known, started, stop, outcome, code, workers, callers, closer, ended,
                 session, durable, registry, shutdown, restarts>>

\* _reconcile_closing: a conversation that is closing is closed first, again if
\* its last finalizer failed.
Reconcile(a) ==
  /\ pc[a] = "reconciling"
  /\ IF active # Free /\ Closing(active)
     THEN /\ callers' = [callers EXCEPT ![active] = @ \cup {"reconcile"}]
          /\ Goto(a, "awaiting")
     ELSE Goto(a, "configuring") /\ UNCHANGED callers
  /\ UNCHANGED <<active, memory, workers, closer, ended, session, durable, registry, shutdown,
                 restarts>>

\* The joined finalizer ended: start goes on, or refuses if it failed.
Reconciled(a) ==
  /\ pc[a] = "awaiting"
  /\ \/ /\ active = Free
        /\ \A b \in Attempts : closer[b] # "notifying"
        /\ Goto(a, "configuring")
        /\ UNCHANGED owner
     \/ /\ active # Free
        /\ "reconcile" \notin callers[active]
        /\ closer[active] = "failed"
        /\ Refuse(a)
  /\ UNCHANGED <<active, known, started, stop, outcome, code, workers, callers, closer, ended,
                 session, durable, registry, shutdown, restarts>>

\* A missing, disabled or unreadable configuration refuses the start.
Unconfigured(a) ==
  /\ "configure" \in Faults
  /\ pc[a] = "configuring"
  /\ Refuse(a)
  /\ UNCHANGED <<active, known, started, stop, outcome, code, workers, callers, closer, ended,
                 session, durable, registry, shutdown, restarts>>

BugMayReserve(a) == active = Free /\ IsCurrent(a)

\* The checks that start repeats under the lock, after the awaits.
MayReserve(a) == shutdown = "running" /\ active = Free /\ IsCurrent(a)

Reserve(a) ==
  /\ pc[a] = "configuring"
  /\ IF MayReserve(a)
     THEN active' = a /\ Goto(a, "opening") /\ UNCHANGED owner
     ELSE Refuse(a) /\ UNCHANGED active
  /\ UNCHANGED <<known, started, stop, outcome, code, workers, callers, closer, ended, session, durable, registry, shutdown,
                 restarts>>

-----------------------------------------------------------------------------
(* _initialize: the provider session, the durable row, the announcement *)

Open(a) ==
  /\ pc[a] = "opening"
  /\ session' = [session EXCEPT ![a] = "open"]
  /\ NoticeLoss(a)
  /\ IF MustStop(a) THEN Finish(a, FALSE, TRUE) ELSE Continue(a, "inserting")
  /\ UNCHANGED <<known, started, durable, Elsewhere>>

OpenFails(a) ==
  /\ "open" \in Faults
  /\ pc[a] = "opening"
  /\ Finish(a, TRUE, stop[a] # "none")
  /\ UNCHANGED <<stop, known, started, session, durable, Elsewhere>>

\* The partial unique index: one open row per device, whoever left it open.
DeviceHasOpenRow == \E b \in Attempts : rows[b] = "open"

\* create_conversation flushes; conversation_id is kept before the commit.
Insert(a) ==
  /\ pc[a] = "inserting"
  /\ ~DeviceHasOpenRow
  /\ known' = [known EXCEPT ![a] = TRUE]
  /\ Continue(a, "committing")
  /\ UNCHANGED <<stop, started, session, durable, Elsewhere>>

InsertFails(a) ==
  /\ pc[a] = "inserting"
  /\ DeviceHasOpenRow \/ "insert" \in Faults
  /\ Finish(a, TRUE, stop[a] # "none")
  /\ UNCHANGED <<stop, known, started, session, durable, Elsewhere>>

Commit(a) ==
  /\ pc[a] = "committing"
  /\ rows' = [rows EXCEPT ![a] = "open"]
  /\ NoticeLoss(a)
  /\ IF MustStop(a) THEN Finish(a, FALSE, TRUE) ELSE Continue(a, "announcing")
  /\ UNCHANGED <<known, started, session, result, events, Elsewhere>>

\* The commit raises; whether it was applied is not known.
CommitFails(a) ==
  /\ "commit" \in Faults
  /\ pc[a] = "committing"
  /\ rows' \in {rows, [rows EXCEPT ![a] = "open"]}
  /\ Finish(a, TRUE, stop[a] # "none")
  /\ UNCHANGED <<stop, known, started, session, result, events, Elsewhere>>

\* conversation.started, then conversation.state unless the end was asked meanwhile.
Announce(a) ==
  /\ pc[a] = "announcing"
  /\ started' = [started EXCEPT ![a] = TRUE]
  /\ IF Closing(a) THEN Finish(a, FALSE, TRUE) ELSE Continue(a, "listening")
  /\ UNCHANGED <<stop, known, session, durable, Elsewhere>>

Listen(a) ==
  /\ pc[a] = "listening"
  /\ Finish(a, FALSE, stop[a] # "none")
  /\ UNCHANGED <<stop, known, started, session, durable, Elsewhere>>

\* The transport refuses the message or the send times out.
SendFails(a) ==
  /\ "send" \in Faults
  /\ pc[a] \in {"announcing", "listening"}
  /\ Finish(a, TRUE, stop[a] # "none")
  /\ UNCHANGED <<stop, known, started, session, durable, Elsewhere>>

-----------------------------------------------------------------------------
(* What ends a conversation *)

\* coordinator.stop: the visitor hangs up; the handler is not inside start.
Stop(a) ==
  /\ active = a
  /\ pc[a] = "ready"
  /\ IsCurrent(a)
  /\ ~Starting(lease)
  /\ "stop" \notin callers[a]
  /\ Mark(a, "visitor_finished")
  /\ callers' = [callers EXCEPT ![a] = @ \cup {"stop"}]
  /\ UNCHANGED <<active, owner, pc, known, started, outcome, code, workers, closer, ended,
                 session, durable, registry, shutdown, restarts>>

BugDisconnect(l) ==
  /\ l \in 1..minted
  /\ l # lease
  /\ l \notin notified
  /\ notified' = notified \cup {l}
  /\ IF active # Free /\ Owns(active, l) /\ pc[active] = "ready"
     THEN /\ Mark(active, "device_disconnected")
          /\ callers' = [callers EXCEPT ![active] = @ \cup {"disconnect"}]
     ELSE UNCHANGED <<stop, callers>>
  /\ UNCHANGED <<active, owner, pc, known, started, outcome, code, workers, closer, ended,
                 session, durable, lease, minted, shutdown, restarts>>

\* coordinator.disconnect: a retired lease is notified once, however late.
Disconnect(l) ==
  /\ l \in 1..minted
  /\ l # lease
  /\ l \notin notified
  /\ notified' = notified \cup {l}
  /\ IF active # Free /\ Owns(active, l)
     THEN /\ Mark(active, "device_disconnected")
          /\ callers' = [callers EXCEPT ![active] = @ \cup {"disconnect"}]
     ELSE UNCHANGED <<stop, callers>>
  /\ UNCHANGED <<active, owner, pc, known, started, outcome, code, workers, closer, ended,
                 session, durable, lease, minted, shutdown, restarts>>

\* _fail: a worker raises, a timer expires, or a queue overflows.  The guard is
\* repeated under the lock: a conversation that is closing keeps its cause.
MayFail(a) == active = a /\ ~Closing(a)

Fail(a) ==
  /\ pc[a] = "ready"
  /\ started[a]
  /\ MayFail(a)
  /\ code' = [code EXCEPT ![a] = TRUE]
  /\ outcome' = [outcome EXCEPT ![a] = "FAILED"]
  /\ stop' = [stop EXCEPT ![a] = "device_disconnected"]
  /\ callers' = [callers EXCEPT ![a] = @ \cup {"fail"}]
  /\ UNCHANGED <<active, owner, pc, known, started, workers, closer, ended, session, durable,
                 registry, shutdown, restarts>>

-----------------------------------------------------------------------------
(* _ensure_closed and the finalizer *)

\* Every caller joins the task that runs; after a failure, the next starts another.
EnsureClosed(a, caller) ==
  /\ caller \in callers[a]
  /\ pc[a] = "ready"
  /\ callers' = [callers EXCEPT ![a] = @ \ {caller}]
  /\ closer' = IF active = a /\ closer[a] \notin Running
               THEN [closer EXCEPT ![a] = "joining"] ELSE closer
  /\ UNCHANGED <<active, memory, pc, workers, ended, session, durable, registry, shutdown,
                 restarts>>

Advance(a, from, to) == closer[a] = from /\ closer' = [closer EXCEPT ![a] = to]

\* The workers are canceled and joined; the queues are drained.
JoinWorkers(a) ==
  /\ Advance(a, "joining", "ending")
  /\ workers' = [workers EXCEPT ![a] = FALSE]
  /\ UNCHANGED <<active, memory, pc, callers, ended, session, durable, registry, shutdown,
                 restarts>>

BugEndSession(a) ==
  /\ Advance(a, "ending", "settling")
  /\ session' = IF started[a] THEN [session EXCEPT ![a] = "closed"] ELSE session
  /\ outcome' = IF outcome[a] # "none" THEN outcome
                ELSE [outcome EXCEPT ![a] = "ABANDONED"]
  /\ UNCHANGED <<active, owner, known, started, stop, code, pc, workers, callers, ended,
                 durable, registry, shutdown, restarts>>

\* The provider session is closed once and the outcome decided once.
EndSession(a) ==
  /\ Advance(a, "ending", "settling")
  /\ session' = IF session[a] = "open" THEN [session EXCEPT ![a] = "closed"] ELSE session
  /\ outcome' = IF outcome[a] # "none" THEN outcome
                ELSE [outcome EXCEPT ![a] = IF stop[a] = "visitor_finished"
                                            THEN "REGISTERED" ELSE "ABANDONED"]
  /\ UNCHANGED <<active, owner, known, started, stop, code, pc, workers, callers, ended,
                 durable, registry, shutdown, restarts>>

EndSessionFails(a) ==
  /\ "end" \in Faults
  /\ session[a] = "open"
  /\ Advance(a, "ending", "failed")
  /\ UNCHANGED <<active, memory, pc, workers, callers, ended, session, durable, registry,
                 shutdown, restarts>>

\* The row is settled, with its failure event, in one transaction; a row that an
\* earlier attempt settled is left alone.
BugNeedsSettling(a) == known[a] /\ rows[a] # "none"
NeedsSettling(a) == known[a] /\ rows[a] = "open"

SettleRow(a) ==
  /\ rows' = [rows EXCEPT ![a] = "closed"]
  /\ result' = [result EXCEPT ![a] = outcome[a]]
  /\ events' = IF code[a] THEN [events EXCEPT ![a] = @ + 1] ELSE events

Settle(a) ==
  /\ Advance(a, "settling", "releasing")
  /\ IF NeedsSettling(a) THEN SettleRow(a) ELSE UNCHANGED durable
  /\ UNCHANGED <<active, memory, pc, workers, callers, ended, session, registry, shutdown,
                 restarts>>

BugSettleFails(a) ==
  /\ "settle" \in Faults
  /\ known[a]
  /\ Advance(a, "settling", "releasing")
  /\ UNCHANGED <<active, memory, pc, workers, callers, ended, session, durable, registry,
                 shutdown, restarts>>

\* The database raises, before the transaction or after it was applied.
SettleFails(a) ==
  /\ "settle" \in Faults
  /\ known[a]
  /\ Advance(a, "settling", "failed")
  /\ \/ UNCHANGED durable
     \/ NeedsSettling(a) /\ SettleRow(a)
  /\ UNCHANGED <<active, memory, pc, workers, callers, ended, session, registry, shutdown,
                 restarts>>

\* Calls of _ensure_closed still to come find the reservation gone and return.
Release(a) ==
  /\ Advance(a, "releasing", "notifying")
  /\ active' = IF active = a THEN Free ELSE active
  /\ callers' = [callers EXCEPT ![a] = {}]
  /\ UNCHANGED <<memory, pc, workers, ended, session, durable, registry, shutdown,
                 restarts>>

\* conversation.ended, when the device was told of the start and is still there.
\* Nothing uses the ActiveConversation of a released attempt after this.
NotifyEnded(a) ==
  /\ Advance(a, "notifying", "done")
  /\ ended' = IF started[a] /\ known[a] /\ IsCurrent(a) THEN ended \cup {a} ELSE ended
  /\ Forget({a})
  /\ UNCHANGED <<active, pc, workers, callers, session, durable, registry, shutdown, restarts>>

-----------------------------------------------------------------------------
(* shutdown, connections, and the death of the process *)

BugStopAll == UNCHANGED <<stop, callers>>

StopAll ==
  IF active = Free THEN UNCHANGED <<stop, callers>>
  ELSE /\ Mark(active, "device_disconnected")
       /\ callers' = [callers EXCEPT ![active] = @ \cup {"shutdown"}]

BeginShutdown ==
  /\ shutdown = "running"
  /\ shutdown' = "first"
  /\ StopAll
  /\ UNCHANGED <<active, owner, known, started, outcome, code, pc, workers, closer, ended,
                 session, durable, registry, restarts>>

\* What a round waits for: its own calls, and every task of the coordinator,
\* the start attempt that still has to close what it failed to open among them.
Joined == \A a \in Attempts :
  /\ callers[a] \cap {"init", "shutdown"} = {}
  /\ pc[a] \notin Initializing
  /\ closer[a] \notin Running
  /\ ~workers[a]

SecondRound ==
  /\ shutdown = "first"
  /\ Joined
  /\ active # Free
  /\ shutdown' = "second"
  /\ StopAll
  /\ UNCHANGED <<active, owner, known, started, outcome, code, pc, workers, closer, ended,
                 session, durable, registry, restarts>>

\* A reservation retained after two rounds is an explicit failure.
EndShutdown ==
  /\ Joined
  /\ \/ shutdown \in {"first", "second"} /\ active = Free /\ shutdown' = "clean"
     \/ shutdown = "second" /\ active # Free /\ shutdown' = "failed"
  /\ UNCHANGED <<active, memory, pc, workers, callers, closer, ended, session, durable,
                 registry, restarts>>

\* registry.claim and every way a lease is retired.
Connect ==
  /\ minted < MaxLeases
  /\ minted' = minted + 1
  /\ lease' = minted'
  /\ UNCHANGED <<active, memory, pc, workers, callers, closer, ended, session, durable,
                 notified, shutdown, restarts>>

Retire ==
  /\ lease # 0
  /\ lease' = 0
  /\ UNCHANGED <<active, memory, pc, workers, callers, closer, ended, session, durable,
                 minted, notified, shutdown, restarts>>

\* The process dies and starts again: what is in memory is gone.
Restart ==
  /\ restarts < MaxRestarts
  /\ restarts' = restarts + 1
  /\ active' = Free
  /\ pc' = [a \in Attempts |-> IF pc[a] \in {"idle", "refused"} THEN pc[a] ELSE "lost"]
  /\ Forget(Attempts)
  /\ workers' = [a \in Attempts |-> FALSE]
  /\ callers' = [a \in Attempts |-> {}]
  /\ closer' = [a \in Attempts |-> "none"]
  /\ session' = [a \in Attempts |-> IF session[a] = "open" THEN "closed" ELSE session[a]]
  /\ lease' = 0
  /\ notified' = 1..minted
  /\ shutdown' = "running"
  /\ UNCHANGED <<ended, durable, minted>>

\* The process has exited for good; a bound of the model, not a step of the code.
Exited ==
  /\ shutdown \in {"clean", "failed"}
  /\ restarts = MaxRestarts
  /\ UNCHANGED vars

-----------------------------------------------------------------------------
StartStep(a) ==
  \/ Reconcile(a) \/ Reconciled(a) \/ Unconfigured(a) \/ Reserve(a)
  \/ Open(a) \/ OpenFails(a) \/ Insert(a) \/ InsertFails(a) \/ Commit(a) \/ CommitFails(a)
  \/ Announce(a) \/ Listen(a) \/ SendFails(a)

CloseStep(a) ==
  \/ JoinWorkers(a) \/ EndSession(a) \/ EndSessionFails(a) \/ Settle(a) \/ SettleFails(a)
  \/ Release(a) \/ NotifyEnded(a)

Next ==
  \/ \E a \in Attempts :
       \/ Request(a) \/ StartStep(a) \/ Stop(a) \/ Fail(a) \/ CloseStep(a)
       \/ \E caller \in Callers : EnsureClosed(a, caller)
  \/ \E l \in 1..MaxLeases : Disconnect(l)
  \/ BeginShutdown \/ SecondRound \/ EndShutdown
  \/ Connect \/ Retire \/ Restart
  \/ Exited

Spec == Init /\ [][Next]_vars

\* Tasks and their awaits make progress, notifications are delivered; nothing is
\* assumed of the device, the visitor, an administrator or the process's fate.
\* A shutdown round joins the tasks there are when it looks: the ones that follow
\* do not delay it, so that it goes on if Joined holds again and again.
Fairness ==
  /\ \A a \in Attempts :
       /\ WF_vars(StartStep(a))
       /\ WF_vars(CloseStep(a))
       /\ \A caller \in Callers : WF_vars(EnsureClosed(a, caller))
  /\ \A l \in 1..MaxLeases : WF_vars(Disconnect(l))
  /\ SF_vars(SecondRound)
  /\ SF_vars(EndShutdown)

FairSpec == Spec /\ Fairness

-----------------------------------------------------------------------------
(* Safety *)

\* Unless the process died, an open provider session or an open durable row
\* belongs to the reservation: a failed cleanup never frees the device.
NothingLeaked == \A a \in Attempts :
  session[a] = "open" \/ (rows[a] = "open" /\ pc[a] # "lost") => active = a

\* Workers run only for the reserved conversation, with its session and its row
\* open, although every step that takes these away runs in another task.
WorkersFenced == \A a \in Attempts :
  workers[a] => active = a /\ session[a] = "open" /\ rows[a] = "open"

\* However many finalizers were needed and whatever commits were ambiguous, a
\* conversation that failed is recorded as failed with exactly one event, and
\* one that ended otherwise has none.
FailureRecordedOnce == \A a \in Attempts :
  rows[a] = "closed" =>
    /\ events[a] = 1 => result[a] = "FAILED"
    /\ events[a] <= 1
    /\ active = a => (code[a] <=> events[a] = 1)

\* The device is told that a conversation ended only when nothing of it is left.
EndedIsDurable == \A a \in ended :
  rows[a] = "closed" /\ session[a] = "closed" /\ active # a

\* A shutdown that returns leaves no reservation and nothing may take one.
ShutdownClean == shutdown = "clean" =>
  /\ active = Free
  /\ \A a \in Attempts : session[a] # "open" /\ pc[a] \notin Initializing

\* The notification of a retired lease never ends the conversation of a later
\* one: while the lease of a conversation is current, only its own failure or a
\* shutdown ends it as disconnected.
LateDisconnectHarmless == [][\A a \in Attempts :
  stop[a] = "none" /\ stop'[a] = "device_disconnected" =>
    owner[a] # lease \/ code'[a] \/ shutdown' # "running"]_vars

\* The coordinator implements the ledger of conversations.
Ledger == INSTANCE ConversationLedger WITH holder <- active
LedgerSpec == Ledger!Spec

-----------------------------------------------------------------------------
(* Liveness *)

\* Whatever asked for the end, a closing conversation is released, or its
\* finalizer failed and the reservation waits for a retry.
ClosingSettles == \A a \in Attempts :
  (active = a /\ Closing(a)) ~> (active # a \/ closer[a] = "failed")

\* A conversation does not outlive the lease it was started with.
RetiredLeaseReleased == \A a \in Attempts :
  (active = a /\ ~IsCurrent(a)) ~> (active # a \/ closer[a] = "failed")

\* shutdown returns or raises; it never waits for ever.
ShutdownEnds == (shutdown = "first") ~> (shutdown \in {"clean", "failed", "running"})

\* docs/architecture.md: after a restart of the backend "la conversacion se
\* cierra y no revive" (the conversation is closed and does not come back).
RestartClosesConversation == \A a \in Attempts :
  (pc[a] = "lost" /\ rows[a] = "open") ~> rows[a] = "closed"
=============================================================================
