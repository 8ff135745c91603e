-------------------- MODULE CommandLifecycle_proofs --------------------
(***************************************************************************)
(* The safety properties of CommandLifecycle, proved for any commands,     *)
(* handlers and payloads, any set of faults and any number of replies.     *)
(***************************************************************************)
EXTENDS CommandLifecycle, TLAPS

USE KnownFaults, ReplyBound, HandlersAreNoTasks
USE DEF durable, dispatch, handling, Take, Free, EndAttempt, Idle

-----------------------------------------------------------------------------
(* The inductive invariant *)

\* A row is locked by the task whose step says so, and by no other; the rows an
\* expiry selected can still expire.
LockInv ==
  /\ \A k \in Commands : lock[k] = "dispatch" <=> pc[k] = "deciding"
  /\ \A k \in Commands, h \in Handlers : lock[k] = h <=> step[h] = "deciding" /\ about[h] = k
  /\ \A k \in Commands : lock[k] = "expire" <=> k \in expiring
  /\ \A k \in expiring : row[k] \in {"SENT", "ACKNOWLEDGED"}

\* A handler that is not idle has a command and a reply about it.
HandlingInv == \A h \in Handlers :
  step[h] # "idle" => about[h] \in Commands /\ reply[h] \in Replies

\* Before the send returns there is neither an outcome nor an edge that needs one;
\* a reply that no longer waits proves a delivery only after the send succeeded.
DeliveryInv ==
  /\ \A k \in Commands : pc[k] = "idle" => row[k] = "absent" /\ trail[k] = {}
  /\ \A k \in Commands : pc[k] \in {"idle", "sending"} => delivered[k] = "unknown"
  /\ \A h \in Handlers :
       step[h] \in {"locking", "deciding"} /\ proven[h] => delivered[about[h]] = "yes"
  /\ SentMeansDelivered

IInv == TypeOK /\ LockInv /\ HandlingInv /\ DeliveryInv /\ TrailIsPath

-----------------------------------------------------------------------------

\* What a reply may do to the row of its command: nothing, or one move along an
\* edge of VALID_TRANSITIONS, after the edge to SENT if that one is implied.
LEMMA ApplyMoves ==
  ASSUME NEW h \in Handlers, about[h] \in Commands, reply[h] \in Replies,
         Apply(h, about[h], reply[h])
  PROVE  \/ UNCHANGED durable
         \/ \E path \in {{}, {"SENT"}}, target \in {"ACKNOWLEDGED", "COMPLETED", "FAILED"},
              payload \in Results \cup {"none", "refusal"} :
              /\ Move(about[h], path, target, payload)
              /\ \/ path = {} /\ row[about[h]] \in {"SENT", "ACKNOWLEDGED"}
                 \/ path = {"SENT"} /\ row[about[h]] = "PENDING" /\ proven[h]
              /\ target = "COMPLETED" => row[about[h]] = "ACKNOWLEDGED"
<1>. DEFINE k == about[h]
            r == reply[h]
            Moved(path, target, payload) ==
              /\ Move(k, path, target, payload)
              /\ \/ path = {} /\ row[k] \in {"SENT", "ACKNOWLEDGED"}
                 \/ path = {"SENT"} /\ row[k] = "PENDING" /\ proven[h]
              /\ target = "COMPLETED" => row[k] = "ACKNOWLEDGED"
<1>1. CASE r.status = "accepted" /\ AckStatus(h) = "SENT"
  <2>1. Move(k, Implied(h), "ACKNOWLEDGED", "none")
    BY <1>1 DEF Apply
  <2>2. Moved(Implied(h), "ACKNOWLEDGED", "none") /\ Implied(h) \in {{}, {"SENT"}}
    BY <1>1, <2>1 DEF Implied, ImpliedSent, AckStatus
  <2>. QED
    BY <2>2
<1>2. CASE r.status = "rejected" /\ AckStatus(h) = "SENT"
  <2>1. Move(k, Implied(h), "FAILED", "refusal")
    BY <1>2 DEF Apply
  <2>2. Moved(Implied(h), "FAILED", "refusal") /\ Implied(h) \in {{}, {"SENT"}}
    BY <1>2, <2>1 DEF Implied, ImpliedSent, AckStatus
  <2>. QED
    BY <2>2
<1>3. CASE r.status = "completed" /\ row[k] = "ACKNOWLEDGED"
  <2>1. Moved({}, "COMPLETED", r.payload)
    BY <1>3 DEF Apply
  <2>2. r.payload \in Results
    BY <1>3 DEF Replies, Acks
  <2>. QED
    BY <2>1, <2>2
<1>4. CASE r.status = "failed" /\ row[k] = "ACKNOWLEDGED"
  <2>1. Moved({}, "FAILED", r.payload)
    BY <1>4 DEF Apply
  <2>2. r.payload \in Results
    BY <1>4 DEF Replies, Acks
  <2>. QED
    BY <2>1, <2>2
<1>5. CASE /\ ~(r.status = "accepted" /\ AckStatus(h) = "SENT")
           /\ ~(r.status = "rejected" /\ AckStatus(h) = "SENT")
           /\ ~(r.status = "completed" /\ row[k] = "ACKNOWLEDGED")
           /\ ~(r.status = "failed" /\ row[k] = "ACKNOWLEDGED")
  BY <1>5 DEF Apply
<1>. QED
  BY <1>1, <1>2, <1>3, <1>4, <1>5

\* No step of a dispatch, a reply or the expiry leaves the types.
LEMMA TypeStep == TypeOK /\ HandlingInv /\ [Next]_vars => TypeOK' /\ HandlingInv'
<1>. SUFFICES ASSUME TypeOK, HandlingInv, [Next]_vars PROVE TypeOK' /\ HandlingInv'
  OBVIOUS
<1>. DEFINE Goal == TypeOK' /\ HandlingInv'
<1>. USE DEF TypeOK, HandlingInv, Statuses, Terminal, Holders, Move
<1>1. ASSUME NEW k \in Commands, Create(k) PROVE Goal
  BY <1>1 DEF Create
<1>2. ASSUME NEW k \in Commands, Deliver(k) PROVE Goal
  BY <1>2 DEF Deliver
<1>3. ASSUME NEW k \in Commands, SendReturns(k) PROVE Goal
  BY <1>3 DEF SendReturns
<1>4. ASSUME NEW k \in Commands, DispatchLock(k) PROVE Goal
  BY <1>4 DEF DispatchLock
<1>5. ASSUME NEW k \in Commands, DispatchCommit(k) PROVE Goal
  BY <1>5 DEF DispatchCommit, Outcome
<1>6. ASSUME NEW k \in Commands, DispatchDies(k) PROVE Goal
  BY <1>6 DEF DispatchDies
<1>7. ASSUME NEW k \in Commands, Age(k) PROVE Goal
  BY <1>7 DEF Age
<1>8. ASSUME NEW h \in Handlers, Resolve(h) PROVE Goal
  BY <1>8 DEF Resolve
<1>9. ASSUME NEW h \in Handlers, ReplyLock(h) PROVE Goal
  BY <1>9 DEF ReplyLock
<1>10. ASSUME NEW h \in Handlers, ReplyCommit(h) PROVE Goal
  <2>1. about[h] \in Commands /\ reply[h] \in Replies
    BY <1>10 DEF ReplyCommit
  <2>2. /\ row' \in [Commands -> Statuses \cup {"absent"}]
        /\ trail' \in [Commands -> SUBSET Statuses]
        /\ result' \in [Commands -> Results \cup {"none", "refusal"}]
    <3>1. CASE UNCHANGED durable
      BY <3>1
    <3>2. CASE ~UNCHANGED durable
      <4>1. PICK path \in {{}, {"SENT"}}, target \in {"ACKNOWLEDGED", "COMPLETED", "FAILED"},
                 payload \in Results \cup {"none", "refusal"} :
                 Move(about[h], path, target, payload)
        BY <1>10, <2>1, <3>2, ApplyMoves DEF ReplyCommit
      <4>. QED
        BY <2>1, <4>1
    <3>. QED
      BY <3>1, <3>2
  <2>3. TypeOK'
    BY <1>10, <2>1, <2>2 DEF ReplyCommit
  <2>4. HandlingInv'
    BY <1>10, <2>1 DEF ReplyCommit
  <2>. QED
    BY <2>3, <2>4
<1>11. ASSUME NEW h \in Handlers, ReplyDies(h) PROVE Goal
  BY <1>11 DEF ReplyDies
<1>12. ASSUME NEW h \in Handlers, NEW k \in Commands, NEW r \in Replies, Receive(h, k, r)
      PROVE Goal
  BY <1>12 DEF Receive
<1>13. CASE ExpireSelect
  BY <1>13 DEF ExpireSelect, Expirable
<1>14. CASE ExpireCommit
  BY <1>14 DEF ExpireCommit, UnlockExpired
<1>15. CASE ExpireDies
  BY <1>15 DEF ExpireDies, UnlockExpired
<1>16. CASE UNCHANGED vars
  BY <1>16 DEF vars
<1>. QED
  BY <1>1, <1>2, <1>3, <1>4, <1>5, <1>6, <1>7, <1>8, <1>9, <1>10, <1>11, <1>12, <1>13, <1>14, <1>15, <1>16
  DEF Next, DispatchStep, ReplyStep, ExpireStep, Quiescent

\* A step that moves a row or takes its lock keeps the locks and the steps in
\* agreement.
LEMMA LockStep == TypeOK /\ HandlingInv /\ LockInv /\ DeliveryInv /\ [Next]_vars => LockInv'
<1>. SUFFICES ASSUME TypeOK, HandlingInv, LockInv, DeliveryInv, [Next]_vars PROVE LockInv'
  OBVIOUS
<1>. USE DEF TypeOK, HandlingInv, LockInv, Holders, Move
<1>1. ASSUME NEW k \in Commands, Create(k) PROVE LockInv'
  BY <1>1 DEF Create, DeliveryInv
<1>2. ASSUME NEW k \in Commands, Deliver(k) PROVE LockInv'
  BY <1>2 DEF Deliver
<1>3. ASSUME NEW k \in Commands, SendReturns(k) PROVE LockInv'
  BY <1>3 DEF SendReturns
<1>4. ASSUME NEW k \in Commands, DispatchLock(k) PROVE LockInv'
  BY <1>4 DEF DispatchLock
<1>5. ASSUME NEW k \in Commands, DispatchCommit(k) PROVE LockInv'
  BY <1>5 DEF DispatchCommit
<1>6. ASSUME NEW k \in Commands, DispatchDies(k) PROVE LockInv'
  BY <1>6 DEF DispatchDies
<1>7. ASSUME NEW k \in Commands, Age(k) PROVE LockInv'
  BY <1>7 DEF Age
<1>8. ASSUME NEW h \in Handlers, Resolve(h) PROVE LockInv'
  BY <1>8 DEF Resolve
<1>9. ASSUME NEW h \in Handlers, ReplyLock(h) PROVE LockInv'
  BY <1>9 DEF ReplyLock
<1>10. ASSUME NEW h \in Handlers, ReplyCommit(h) PROVE LockInv'
  <2>1. about[h] \in Commands /\ lock[about[h]] = h
    BY <1>10 DEF ReplyCommit
  <2>2. \A k \in Commands : k # about[h] => row'[k] = row[k]
    BY <1>10, <2>1, ApplyMoves DEF ReplyCommit
  <2>. QED
    BY <1>10, <2>1, <2>2 DEF ReplyCommit
<1>11. ASSUME NEW h \in Handlers, ReplyDies(h) PROVE LockInv'
  BY <1>11 DEF ReplyDies
<1>12. ASSUME NEW h \in Handlers, NEW k \in Commands, NEW r \in Replies, Receive(h, k, r)
      PROVE LockInv'
  BY <1>12 DEF Receive
<1>13. CASE ExpireSelect
  BY <1>13 DEF ExpireSelect, Expirable
<1>14. CASE ExpireCommit
  BY <1>14 DEF ExpireCommit, UnlockExpired
<1>15. CASE ExpireDies
  BY <1>15 DEF ExpireDies, UnlockExpired
<1>16. CASE UNCHANGED vars
  BY <1>16 DEF vars
<1>. QED
  BY <1>1, <1>2, <1>3, <1>4, <1>5, <1>6, <1>7, <1>8, <1>9, <1>10, <1>11, <1>12, <1>13, <1>14, <1>15, <1>16
  DEF Next, DispatchStep, ReplyStep, ExpireStep, Quiescent

\* The outcome of a send is known only once, and SENT is written only after it.
LEMMA DeliveryStep ==
  TypeOK /\ HandlingInv /\ LockInv /\ DeliveryInv /\ [Next]_vars => DeliveryInv'
<1>. SUFFICES ASSUME TypeOK, HandlingInv, LockInv, DeliveryInv, [Next]_vars PROVE DeliveryInv'
  OBVIOUS
<1>. USE DEF TypeOK, HandlingInv, DeliveryInv, SentMeansDelivered, Move
<1>1. ASSUME NEW k \in Commands, Create(k) PROVE DeliveryInv'
  BY <1>1 DEF Create
<1>2. ASSUME NEW k \in Commands, Deliver(k) PROVE DeliveryInv'
  BY <1>2 DEF Deliver
<1>3. ASSUME NEW k \in Commands, SendReturns(k) PROVE DeliveryInv'
  BY <1>3 DEF SendReturns
<1>4. ASSUME NEW k \in Commands, DispatchLock(k) PROVE DeliveryInv'
  BY <1>4 DEF DispatchLock
<1>5. ASSUME NEW k \in Commands, DispatchCommit(k) PROVE DeliveryInv'
  <2>1. "SENT" \in trail'[k] => delivered[k] = "yes"
    BY <1>5 DEF DispatchCommit, Outcome
  <2>2. \A j \in Commands : j # k => trail'[j] = trail[j] /\ row'[j] = row[j]
    BY <1>5 DEF DispatchCommit
  <2>3. \A j \in Commands : delivered[j] = "yes" => delivered'[j] = "yes"
    BY <1>5 DEF DispatchCommit
  <2>4. \A j \in Commands : j # k => pc'[j] = pc[j] /\ delivered'[j] = delivered[j]
    BY <1>5 DEF DispatchCommit
  <2>5. pc'[k] = "done"
    BY <1>5 DEF DispatchCommit
  <2>6. SentMeansDelivered'
    BY <2>1, <2>2, <2>3
  <2>. QED
    BY <1>5, <2>2, <2>3, <2>4, <2>5, <2>6 DEF DispatchCommit
<1>6. ASSUME NEW k \in Commands, DispatchDies(k) PROVE DeliveryInv'
  BY <1>6 DEF DispatchDies
<1>7. ASSUME NEW k \in Commands, Age(k) PROVE DeliveryInv'
  BY <1>7 DEF Age
<1>8. ASSUME NEW h \in Handlers, Resolve(h) PROVE DeliveryInv'
  <2>1. proven'[h] = (delivered[about[h]] = "yes")
    BY <1>8 DEF Resolve
  <2>2. \A g \in Handlers : g # h => proven'[g] = proven[g] /\ step'[g] = step[g]
    BY <1>8 DEF Resolve
  <2>. QED
    BY <1>8, <2>1, <2>2 DEF Resolve
<1>9. ASSUME NEW h \in Handlers, ReplyLock(h) PROVE DeliveryInv'
  BY <1>9 DEF ReplyLock
<1>10. ASSUME NEW h \in Handlers, ReplyCommit(h) PROVE DeliveryInv'
  <2>1. about[h] \in Commands /\ reply[h] \in Replies
    BY <1>10 DEF ReplyCommit
  <2>2. "SENT" \in trail'[about[h]] => delivered[about[h]] = "yes"
    BY <1>10, <2>1, ApplyMoves DEF ReplyCommit
  <2>3. \A k \in Commands : k # about[h] => trail'[k] = trail[k] /\ row'[k] = row[k]
    BY <1>10, <2>1, ApplyMoves DEF ReplyCommit
  <2>4. pc[about[h]] = "idle" => UNCHANGED durable
    BY <1>10, <2>1, ApplyMoves DEF ReplyCommit
  <2>. QED
    BY <1>10, <2>1, <2>2, <2>3, <2>4 DEF ReplyCommit
<1>11. ASSUME NEW h \in Handlers, ReplyDies(h) PROVE DeliveryInv'
  BY <1>11 DEF ReplyDies
<1>12. ASSUME NEW h \in Handlers, NEW k \in Commands, NEW r \in Replies, Receive(h, k, r)
      PROVE DeliveryInv'
  <2>1. proven'[h] /\ step'[h] = "locking" => delivered[k] = "yes"
    <3>1. proven'[h] = (r.status \in Acks /\ tracked[k] /\ delivered[k] # "no")
      BY <1>12 DEF Receive
    <3>2. AwaitsDelivery(k, r) => step'[h] = "resolving"
      BY <1>12 DEF Receive
    <3>3. proven'[h] => r.status \in Acks /\ tracked[k] /\ delivered[k] # "no"
      BY <3>1, Zenon
    <3>4. proven'[h] /\ step'[h] = "locking" => delivered[k] # "unknown"
      BY <3>2, <3>3 DEF AwaitsDelivery
    <3>5. delivered[k] \in {"unknown", "yes", "no"}
      OBVIOUS
    <3>. QED
      BY <3>3, <3>4, <3>5, Zenon
  <2>2. \A g \in Handlers : g # h =>
          proven'[g] = proven[g] /\ step'[g] = step[g] /\ about'[g] = about[g]
    BY <1>12 DEF Receive
  <2>3. about'[h] = k /\ step'[h] # "deciding"
    BY <1>12 DEF Receive
  <2>. QED
    BY <1>12, <2>1, <2>2, <2>3 DEF Receive
<1>13. CASE ExpireSelect
  BY <1>13 DEF ExpireSelect
<1>14. CASE ExpireCommit
  BY <1>14 DEF ExpireCommit, LockInv
<1>15. CASE ExpireDies
  BY <1>15 DEF ExpireDies
<1>16. CASE UNCHANGED vars
  BY <1>16 DEF vars
<1>. QED
  BY <1>1, <1>2, <1>3, <1>4, <1>5, <1>6, <1>7, <1>8, <1>9, <1>10, <1>11, <1>12, <1>13, <1>14, <1>15, <1>16
  DEF Next, DispatchStep, ReplyStep, ExpireStep, Quiescent

\* Every move of a row adds to its trail the status it moves to, and leaves a
\* status from which the path may go on.
LEMMA TrailStep ==
  TypeOK /\ HandlingInv /\ LockInv /\ DeliveryInv /\ TrailIsPath /\ [Next]_vars => TrailIsPath'
<1>. SUFFICES ASSUME TypeOK, HandlingInv, LockInv, DeliveryInv, TrailIsPath, [Next]_vars
              PROVE TrailIsPath'
  OBVIOUS
<1>. USE DEF TypeOK, HandlingInv, TrailIsPath, Statuses, Terminal, Move
<1>1. ASSUME NEW k \in Commands, Create(k) PROVE TrailIsPath'
  BY <1>1 DEF Create, DeliveryInv
<1>2. ASSUME NEW k \in Commands, Deliver(k) PROVE TrailIsPath'
  BY <1>2 DEF Deliver
<1>3. ASSUME NEW k \in Commands, SendReturns(k) PROVE TrailIsPath'
  BY <1>3 DEF SendReturns
<1>4. ASSUME NEW k \in Commands, DispatchLock(k) PROVE TrailIsPath'
  BY <1>4 DEF DispatchLock
<1>5. ASSUME NEW k \in Commands, DispatchCommit(k) PROVE TrailIsPath'
  BY <1>5 DEF DispatchCommit, OutcomeOwns, Outcome
<1>6. ASSUME NEW k \in Commands, DispatchDies(k) PROVE TrailIsPath'
  BY <1>6 DEF DispatchDies
<1>7. ASSUME NEW k \in Commands, Age(k) PROVE TrailIsPath'
  BY <1>7 DEF Age
<1>8. ASSUME NEW h \in Handlers, Resolve(h) PROVE TrailIsPath'
  BY <1>8 DEF Resolve
<1>9. ASSUME NEW h \in Handlers, ReplyLock(h) PROVE TrailIsPath'
  BY <1>9 DEF ReplyLock
<1>10. ASSUME NEW h \in Handlers, ReplyCommit(h) PROVE TrailIsPath'
  <2>1. about[h] \in Commands /\ reply[h] \in Replies
    BY <1>10 DEF ReplyCommit
  <2>2. CASE UNCHANGED durable
    BY <2>2
  <2>3. CASE ~UNCHANGED durable
    BY <1>10, <2>1, <2>3, ApplyMoves DEF ReplyCommit
  <2>. QED
    BY <2>2, <2>3
<1>11. ASSUME NEW h \in Handlers, ReplyDies(h) PROVE TrailIsPath'
  BY <1>11 DEF ReplyDies
<1>12. ASSUME NEW h \in Handlers, NEW k \in Commands, NEW r \in Replies, Receive(h, k, r)
      PROVE TrailIsPath'
  BY <1>12 DEF Receive
<1>13. CASE ExpireSelect
  BY <1>13 DEF ExpireSelect
<1>14. CASE ExpireCommit
  BY <1>14 DEF ExpireCommit, LockInv
<1>15. CASE ExpireDies
  BY <1>15 DEF ExpireDies
<1>16. CASE UNCHANGED vars
  BY <1>16 DEF vars
<1>. QED
  BY <1>1, <1>2, <1>3, <1>4, <1>5, <1>6, <1>7, <1>8, <1>9, <1>10, <1>11, <1>12, <1>13, <1>14, <1>15, <1>16
  DEF Next, DispatchStep, ReplyStep, ExpireStep, Quiescent

\* A step keeps the inductive invariant.
LEMMA Inductive == IInv /\ [Next]_vars => IInv'
  BY TypeStep, LockStep, DeliveryStep, TrailStep DEF IInv

\* A step that moves a row moves it away from a status that is not terminal.
LEMMA FinalStep ==
  ASSUME TypeOK, HandlingInv, LockInv, DeliveryInv, [Next]_vars
  PROVE  \A c \in Commands : row[c] \in Terminal =>
           row'[c] = row[c] /\ result'[c] = result[c] /\ trail'[c] = trail[c]
<1>. DEFINE Goal == \A c \in Commands : row[c] \in Terminal =>
                      row'[c] = row[c] /\ result'[c] = result[c] /\ trail'[c] = trail[c]
<1>. SUFFICES Goal
  OBVIOUS
<1>. USE DEF TypeOK, HandlingInv, Terminal, Move
<1>1. ASSUME NEW k \in Commands, Create(k) PROVE Goal
  BY <1>1 DEF Create, DeliveryInv
<1>2. ASSUME NEW k \in Commands, Deliver(k) PROVE Goal
  BY <1>2 DEF Deliver
<1>3. ASSUME NEW k \in Commands, SendReturns(k) PROVE Goal
  BY <1>3 DEF SendReturns
<1>4. ASSUME NEW k \in Commands, DispatchLock(k) PROVE Goal
  BY <1>4 DEF DispatchLock
<1>5. ASSUME NEW k \in Commands, DispatchCommit(k) PROVE Goal
  BY <1>5 DEF DispatchCommit, OutcomeOwns
<1>6. ASSUME NEW k \in Commands, DispatchDies(k) PROVE Goal
  BY <1>6 DEF DispatchDies
<1>7. ASSUME NEW k \in Commands, Age(k) PROVE Goal
  BY <1>7 DEF Age
<1>8. ASSUME NEW h \in Handlers, Resolve(h) PROVE Goal
  BY <1>8 DEF Resolve
<1>9. ASSUME NEW h \in Handlers, ReplyLock(h) PROVE Goal
  BY <1>9 DEF ReplyLock
<1>10. ASSUME NEW h \in Handlers, ReplyCommit(h) PROVE Goal
  <2>1. about[h] \in Commands /\ reply[h] \in Replies
    BY <1>10 DEF ReplyCommit
  <2>2. CASE UNCHANGED durable
    BY <2>2
  <2>3. CASE ~UNCHANGED durable
    BY <1>10, <2>1, <2>3, ApplyMoves DEF ReplyCommit
  <2>. QED
    BY <2>2, <2>3
<1>11. ASSUME NEW h \in Handlers, ReplyDies(h) PROVE Goal
  BY <1>11 DEF ReplyDies
<1>12. ASSUME NEW h \in Handlers, NEW k \in Commands, NEW r \in Replies, Receive(h, k, r)
      PROVE Goal
  BY <1>12 DEF Receive
<1>13. CASE ExpireSelect
  BY <1>13 DEF ExpireSelect
<1>14. CASE ExpireCommit
  BY <1>14 DEF ExpireCommit, LockInv
<1>15. CASE ExpireDies
  BY <1>15 DEF ExpireDies
<1>16. CASE UNCHANGED vars
  BY <1>16 DEF vars
<1>. QED
  BY <1>1, <1>2, <1>3, <1>4, <1>5, <1>6, <1>7, <1>8, <1>9, <1>10, <1>11, <1>12, <1>13, <1>14, <1>15, <1>16
  DEF Next, DispatchStep, ReplyStep, ExpireStep, Quiescent

-----------------------------------------------------------------------------

\* The inductive invariant holds in every reachable state.
THEOREM Invariant == Spec => []IInv
<1>1. Init => IInv
  BY DEF Init, IInv, TypeOK, LockInv, HandlingInv, DeliveryInv, SentMeansDelivered, TrailIsPath,
         Statuses, Terminal, Holders, NoReply
<1>. QED
  BY <1>1, Inductive, PTL DEF Spec

\* Type correctness, for every value of the constants.
THEOREM TypeCorrect == Spec => []TypeOK
  BY Invariant, PTL DEF IInv

\* Whatever tasks compete for its row, and whichever of them die, the audit trail
\* of a command is one path of the state machine that ends in its status.
THEOREM TrailStaysPath == Spec => []TrailIsPath
  BY Invariant, PTL DEF IInv

\* An edge to SENT is on record only for a command whose send succeeded, also when
\* it was a reply that recorded it.
THEOREM SentIsDelivered == Spec => []SentMeansDelivered
  BY Invariant, PTL DEF IInv, DeliveryInv

\* No step changes a command that reached a terminal status.
THEOREM TerminalStays == Spec => TerminalIsFinal
<1>1. IInv /\ [Next]_vars =>
        [\A k \in Commands : row[k] \in Terminal =>
           /\ row'[k] = row[k]
           /\ result'[k] = result[k]
           /\ trail'[k] = trail[k]]_vars
  BY FinalStep DEF IInv
<1>. QED
  BY <1>1, Invariant, PTL DEF Spec, TerminalIsFinal
=============================================================================
