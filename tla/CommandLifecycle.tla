-------------------------- MODULE CommandLifecycle --------------------------
(***************************************************************************)
(* The durable life of device commands: the HTTP request that records a    *)
(* command and sends it, the socket handlers that process the replies of   *)
(* the device, and the maintenance task that expires commands, all of them *)
(* competing for the lock of the command's row.                            *)
(*                                                                         *)
(* Sources: devices/commands.py, with its callers in api/routes/commands.py*)
(* and websocket/device.py and the maintenance loop of main.py, all under  *)
(* backend/app.                                                            *)
(*                                                                         *)
(* A process that dies is the death of each of its tasks, one after the    *)
(* other: an open transaction is rolled back and its row lock freed.       *)
(***************************************************************************)
EXTENDS Naturals, FiniteSets

CONSTANTS
  Commands,
  Handlers,     \* socket handlers; a replaced one may still process a reply
  Results,      \* payloads of command.result, told apart only by equality
  Faults,       \* tasks that may die: "dispatch", "reply", "expire"
  MaxReplies    \* bound: replies the device sends

ASSUME KnownFaults == Faults \subseteq {"dispatch", "reply", "expire"}
ASSUME ReplyBound == MaxReplies \in Nat
ASSUME HandlersAreNoTasks == Handlers \cap {"nobody", "dispatch", "expire"} = {}

Terminal == {"COMPLETED", "FAILED", "TIMEOUT"}
Statuses == {"PENDING", "SENT", "ACKNOWLEDGED"} \cup Terminal
Acks == {"accepted", "rejected"}
Holders == {"nobody", "dispatch", "expire"} \cup Handlers

VARIABLES
  row,          \* device_commands.status: durable
  result,       \* device_commands.result, "refusal" for a rejected ACK: durable
  trail,        \* statuses with an event and an audit entry: durable
  old,          \* sent_at is older than command_timeout_seconds
  lock,         \* holder of the row lock
  pc,           \* create_and_dispatch_command of each command
  tracked,      \* CommandDispatchTracker._active has the command
  delivered,    \* _CommandDispatchAttempt.delivered
  wire,         \* the device received the command
  step,         \* what each handler does with a reply
  about,        \* the command the reply is about
  reply,        \* the reply: an ACK status, or a RESULT status with its payload
  proven,       \* pending_delivery_proven
  expiring,     \* rows selected by the running expire_commands
  replies       \* replies sent so far

durable == <<row, result, trail>>
dispatch == <<pc, tracked, delivered>>
handling == <<step, about, reply, proven>>
vars == <<durable, old, lock, dispatch, wire, handling, expiring, replies>>

Replies == [status : Acks, payload : {"none"}]
           \cup [status : {"completed", "failed"}, payload : Results]
NoReply == [status |-> "none", payload |-> "none"]

TypeOK ==
  /\ row \in [Commands -> Statuses \cup {"absent"}]
  /\ result \in [Commands -> Results \cup {"none", "refusal"}]
  /\ trail \in [Commands -> SUBSET Statuses]
  /\ old \in [Commands -> BOOLEAN]
  /\ lock \in [Commands -> Holders]
  /\ pc \in [Commands -> {"idle", "sending", "locking", "deciding", "done", "lost"}]
  /\ tracked \in [Commands -> BOOLEAN]
  /\ delivered \in [Commands -> {"unknown", "yes", "no"}]
  /\ wire \in [Commands -> BOOLEAN]
  /\ step \in [Handlers -> {"idle", "resolving", "locking", "deciding"}]
  /\ about \in [Handlers -> Commands \cup {"none"}]
  /\ reply \in [Handlers -> Replies \cup {NoReply}]
  /\ proven \in [Handlers -> BOOLEAN]
  /\ expiring \in SUBSET Commands
  /\ replies \in 0..MaxReplies

Init ==
  /\ row = [k \in Commands |-> "absent"]
  /\ result = [k \in Commands |-> "none"]
  /\ trail = [k \in Commands |-> {}]
  /\ old = [k \in Commands |-> FALSE]
  /\ lock = [k \in Commands |-> "nobody"]
  /\ pc = [k \in Commands |-> "idle"]
  /\ tracked = [k \in Commands |-> FALSE]
  /\ delivered = [k \in Commands |-> "unknown"]
  /\ wire = [k \in Commands |-> FALSE]
  /\ step = [h \in Handlers |-> "idle"]
  /\ about = [h \in Handlers |-> "none"]
  /\ reply = [h \in Handlers |-> NoReply]
  /\ proven = [h \in Handlers |-> FALSE]
  /\ expiring = {}
  /\ replies = 0

-----------------------------------------------------------------------------
(* Helpers *)

\* _lock_command: SELECT ... FOR UPDATE; the commit or rollback frees the row.
Take(k, holder) == lock[k] = "nobody" /\ lock' = [lock EXCEPT ![k] = holder]
Free(k) == lock' = [lock EXCEPT ![k] = "nobody"]

\* transition_command and _record_transition for each edge of a path, one commit.
Move(k, path, target, payload) ==
  /\ row' = [row EXCEPT ![k] = target]
  /\ trail' = [trail EXCEPT ![k] = @ \cup path \cup {target}]
  /\ result' = [result EXCEPT ![k] = payload]

\* The attempt ends: an outcome it has stands, otherwise delivery is unconfirmed.
BugEndAttempt(k) ==
  /\ tracked' = [tracked EXCEPT ![k] = FALSE]
  /\ UNCHANGED delivered

EndAttempt(k) ==
  /\ tracked' = [tracked EXCEPT ![k] = FALSE]
  /\ delivered' = [delivered EXCEPT ![k] = IF @ = "unknown" THEN "no" ELSE @]

-----------------------------------------------------------------------------
(* create_and_dispatch_command *)

\* The pending intent is committed before anything is sent.
Create(k) ==
  /\ pc[k] = "idle"
  /\ Move(k, {}, "PENDING", "none")
  /\ tracked' = [tracked EXCEPT ![k] = TRUE]
  /\ pc' = [pc EXCEPT ![k] = "sending"]
  /\ UNCHANGED <<old, lock, delivered, wire, handling, expiring, replies>>

\* The frame reaches the device: before send_json returns, after it, even after
\* it raised, or never.
Deliver(k) ==
  /\ ~wire[k]
  /\ pc[k] # "idle"
  /\ wire' = [wire EXCEPT ![k] = TRUE]
  /\ UNCHANGED <<durable, old, lock, dispatch, handling, expiring, replies>>

\* send_json returns, or raises or finds no connection: FALSE.
SendReturns(k) ==
  /\ pc[k] = "sending"
  /\ \E outcome \in {"yes", "no"} : delivered' = [delivered EXCEPT ![k] = outcome]
  /\ pc' = [pc EXCEPT ![k] = "locking"]
  /\ UNCHANGED <<durable, old, lock, tracked, wire, handling, expiring, replies>>

DispatchLock(k) ==
  /\ pc[k] = "locking"
  /\ Take(k, "dispatch")
  /\ pc' = [pc EXCEPT ![k] = "deciding"]
  /\ UNCHANGED <<durable, old, tracked, delivered, wire, handling, expiring, replies>>

\* A reply may have moved the row meanwhile; the outcome then no longer owns it.
BugOutcomeOwns(k) == TRUE
BugOutcomeRace(k) == row[k] \notin Terminal
OutcomeOwns(k) == row[k] = "PENDING"

BugOutcome(k) == delivered[k]
Outcome(k) == IF delivered[k] = "yes" THEN "SENT" ELSE "FAILED"

DispatchCommit(k) ==
  /\ pc[k] = "deciding"
  /\ IF OutcomeOwns(k) THEN Move(k, {}, Outcome(k), "none") ELSE UNCHANGED durable
  /\ Free(k)
  /\ EndAttempt(k)
  /\ pc' = [pc EXCEPT ![k] = "done"]
  /\ UNCHANGED <<old, wire, handling, expiring, replies>>

\* The request is canceled, the database fails or the process dies.
DispatchDies(k) ==
  /\ "dispatch" \in Faults
  /\ pc[k] \in {"sending", "locking", "deciding"}
  /\ IF lock[k] = "dispatch" THEN Free(k) ELSE UNCHANGED lock
  /\ EndAttempt(k)
  /\ pc' = [pc EXCEPT ![k] = "lost"]
  /\ UNCHANGED <<durable, old, wire, handling, expiring, replies>>

-----------------------------------------------------------------------------
(* acknowledge_command and complete_command *)

\* An ACK looks for a dispatch in progress before it waits for anything.
BugAwaitsDelivery(k, r) == FALSE
AwaitsDelivery(k, r) == r.status \in Acks /\ tracked[k] /\ delivered[k] = "unknown"

Receive(h, k, r) ==
  /\ step[h] = "idle"
  /\ wire[k]
  /\ replies < MaxReplies
  /\ replies' = replies + 1
  /\ about' = [about EXCEPT ![h] = k]
  /\ reply' = [reply EXCEPT ![h] = r]
  /\ proven' = [proven EXCEPT ![h] = r.status \in Acks /\ tracked[k] /\ delivered[k] # "no"]
  /\ step' = [step EXCEPT ![h] = IF AwaitsDelivery(k, r) THEN "resolving" ELSE "locking"]
  /\ UNCHANGED <<durable, old, lock, dispatch, wire, expiring>>

\* pending_reply_proves_delivery: the wait ends when the attempt is resolved.
Resolve(h) ==
  /\ step[h] = "resolving"
  /\ delivered[about[h]] # "unknown"
  /\ proven' = [proven EXCEPT ![h] = delivered[about[h]] = "yes"]
  /\ step' = [step EXCEPT ![h] = "locking"]
  /\ UNCHANGED <<durable, old, lock, dispatch, wire, about, reply, expiring, replies>>

ReplyLock(h) ==
  /\ step[h] = "locking"
  /\ Take(about[h], h)
  /\ step' = [step EXCEPT ![h] = "deciding"]
  /\ UNCHANGED <<durable, old, dispatch, wire, about, reply, proven, expiring, replies>>

\* A proven delivery adds the edge to SENT that the dispatch has not committed yet.
ImpliedSent(h) == row[about[h]] = "PENDING" /\ proven[h]
AckStatus(h) == IF ImpliedSent(h) THEN "SENT" ELSE row[about[h]]
Implied(h) == IF ImpliedSent(h) THEN {"SENT"} ELSE {}

\* The handler is done with the reply.
Idle(h) ==
  /\ step' = [step EXCEPT ![h] = "idle"]
  /\ about' = [about EXCEPT ![h] = "none"]
  /\ reply' = [reply EXCEPT ![h] = NoReply]
  /\ proven' = [proven EXCEPT ![h] = FALSE]

\* What the reply does to the row.  A duplicate changes nothing; any other reply
\* is rolled back and the socket closed.
Apply(h, k, r) ==
  CASE r.status = "accepted" /\ AckStatus(h) = "SENT" ->
         Move(k, Implied(h), "ACKNOWLEDGED", "none")
    [] r.status = "rejected" /\ AckStatus(h) = "SENT" ->
         Move(k, Implied(h), "FAILED", "refusal")
    [] r.status = "completed" /\ row[k] = "ACKNOWLEDGED" ->
         Move(k, {}, "COMPLETED", r.payload)
    [] r.status = "failed" /\ row[k] = "ACKNOWLEDGED" ->
         Move(k, {}, "FAILED", r.payload)
    [] OTHER -> UNCHANGED durable

ReplyCommit(h) ==
  /\ step[h] = "deciding"
  /\ Apply(h, about[h], reply[h])
  /\ Free(about[h])
  /\ Idle(h)
  /\ UNCHANGED <<old, dispatch, wire, expiring, replies>>

\* The handler is canceled or the process dies.
ReplyDies(h) ==
  /\ "reply" \in Faults
  /\ step[h] # "idle"
  /\ IF step[h] = "deciding" THEN Free(about[h]) ELSE UNCHANGED lock
  /\ Idle(h)
  /\ UNCHANGED <<durable, old, dispatch, wire, expiring, replies>>

-----------------------------------------------------------------------------
(* expire_commands *)

\* Time passes: sent_at falls behind the cutoff.
Age(k) ==
  /\ row[k] \in {"SENT", "ACKNOWLEDGED"}
  /\ ~old[k]
  /\ old' = [old EXCEPT ![k] = TRUE]
  /\ UNCHANGED <<durable, lock, dispatch, wire, handling, expiring, replies>>

BugExpirable == {k \in Commands : row[k] = "SENT" /\ old[k] /\ lock[k] = "nobody"}

\* FOR UPDATE SKIP LOCKED: a row that a reply is about to move is left for later.
Expirable == {k \in Commands :
  row[k] \in {"SENT", "ACKNOWLEDGED"} /\ old[k] /\ lock[k] = "nobody"}

ExpireSelect ==
  /\ expiring = {}
  /\ Expirable # {}
  /\ expiring' = Expirable
  /\ lock' = [k \in Commands |-> IF k \in Expirable THEN "expire" ELSE lock[k]]
  /\ UNCHANGED <<durable, old, dispatch, wire, handling, replies>>

UnlockExpired == lock' = [k \in Commands |-> IF k \in expiring THEN "nobody" ELSE lock[k]]

ExpireCommit ==
  /\ expiring # {}
  /\ row' = [k \in Commands |-> IF k \in expiring THEN "TIMEOUT" ELSE row[k]]
  /\ trail' = [k \in Commands |-> IF k \in expiring THEN trail[k] \cup {"TIMEOUT"} ELSE trail[k]]
  /\ UnlockExpired
  /\ expiring' = {}
  /\ UNCHANGED <<result, old, dispatch, wire, handling, replies>>

ExpireDies ==
  /\ "expire" \in Faults
  /\ expiring # {}
  /\ UnlockExpired
  /\ expiring' = {}
  /\ UNCHANGED <<durable, old, dispatch, wire, handling, replies>>

-----------------------------------------------------------------------------
DispatchStep(k) ==
  SendReturns(k) \/ DispatchLock(k) \/ DispatchCommit(k) \/ DispatchDies(k)
ReplyStep(h) == Resolve(h) \/ ReplyLock(h) \/ ReplyCommit(h) \/ ReplyDies(h)
ExpireStep == ExpireSelect \/ ExpireCommit \/ ExpireDies

\* Nothing is left to do; a bound of the model, not a step of the code.
Quiescent ==
  /\ \A k \in Commands : row[k] \in Terminal \/ (row[k] = "PENDING" /\ pc[k] = "lost")
  /\ \A k \in Commands : pc[k] \in {"done", "lost"}
  /\ \A h \in Handlers : step[h] = "idle"
  /\ UNCHANGED vars

Next ==
  \/ \E k \in Commands : Create(k) \/ Deliver(k) \/ DispatchStep(k) \/ Age(k)
  \/ \E h \in Handlers : ReplyStep(h)
  \/ \E h \in Handlers, k \in Commands, r \in Replies : Receive(h, k, r)
  \/ ExpireStep
  \/ Quiescent

Spec == Init /\ [][Next]_vars

\* Tasks make progress, time passes and the maintenance loop keeps running.  The
\* device need not answer.  The row lock has a first-come queue: a task that
\* waits gets it although others take it in between.
Fairness ==
  /\ \A k \in Commands :
       /\ WF_vars(SendReturns(k))
       /\ SF_vars(DispatchLock(k))
       /\ WF_vars(DispatchCommit(k))
       /\ WF_vars(Age(k))
  /\ \A h \in Handlers :
       /\ WF_vars(Resolve(h))
       /\ SF_vars(ReplyLock(h))
       /\ WF_vars(ReplyCommit(h))
  /\ WF_vars(ExpireSelect)
  /\ SF_vars(ExpireCommit)

FairSpec == Spec /\ Fairness

-----------------------------------------------------------------------------
(* Properties *)

\* The audit trail of a command is one path of VALID_TRANSITIONS that ends in its
\* status, whichever task moved it, also when an ACK overtook the commit of SENT: a
\* late outcome of the dispatch never takes back what a reply recorded.
TrailIsPath == \A k \in Commands :
  /\ row[k] # "absent" => {"PENDING", row[k]} \subseteq trail[k]
  /\ trail[k] \cap {"ACKNOWLEDGED", "TIMEOUT"} # {} => "SENT" \in trail[k]
  /\ "COMPLETED" \in trail[k] => "ACKNOWLEDGED" \in trail[k]
  /\ "SENT" \in trail[k] => row[k] # "PENDING"
  /\ "ACKNOWLEDGED" \in trail[k] => row[k] \notin {"PENDING", "SENT"}
  /\ trail[k] \cap Terminal \subseteq {row[k]}

\* A reply never proves the delivery that the transport did not confirm: a
\* command is SENT only if send_json succeeded, even if the device answered first.
SentMeansDelivered == \A k \in Commands : "SENT" \in trail[k] => delivered[k] = "yes"

\* A terminal status, its result and its trail are final: not a late dispatch
\* outcome, a duplicate or conflicting reply nor the expiry changes them.
TerminalIsFinal == [][\A k \in Commands : row[k] \in Terminal =>
  /\ row'[k] = row[k]
  /\ result'[k] = result[k]
  /\ trail'[k] = trail[k]]_vars

\* A reply that waits for the dispatch is released, also when the dispatch dies.
WaitersReleased == \A h \in Handlers : step[h] = "resolving" ~> step[h] # "resolving"

\* A recorded command ends, unless its dispatch died before it recorded an outcome.
CommandsEnd == \A k \in Commands :
  row[k] # "absent" ~> row[k] \in Terminal \/ (row[k] = "PENDING" /\ pc[k] = "lost")
=============================================================================
