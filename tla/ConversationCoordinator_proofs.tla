----------------- MODULE ConversationCoordinator_proofs -----------------
(***************************************************************************)
(* The safety properties of ConversationCoordinator and its refinement of  *)
(* ConversationLedger, proved for any number of attempts, leases and       *)
(* restarts and any set of faults.                                         *)
(***************************************************************************)
EXTENDS ConversationCoordinator, TLAPS

USE FreeIsNoAttempt, KnownFaults, Bounds
USE DEF memory, durable, registry, Elsewhere, Goto, Continue, Finish, Mark, IsCurrent, MustStop,
        NoticeLoss, Closing, Forget, Refuse, Advance, StopAll, Steps, Preparing, Initializing,
        Running

-----------------------------------------------------------------------------
(* The inductive invariant *)

\* What an attempt leaves no trace of before it has the reservation.
Blank(a) ==
  /\ session[a] = "none" /\ rows[a] = "none"
  /\ ~known[a] /\ ~started[a] /\ stop[a] = "none" /\ outcome[a] = "none" /\ ~code[a]
  /\ callers[a] = {} /\ closer[a] = "none"

\* An initialising attempt holds the reservation, and what it has made so far can
\* be read off its await.
InitializingInv(a) ==
  /\ active = a
  /\ closer[a] = "none" /\ outcome[a] = "none" /\ ~code[a]
  /\ session[a] = IF pc[a] = "opening" THEN "none" ELSE "open"
  /\ rows[a] = IF pc[a] \in {"announcing", "listening"} THEN "open" ELSE "none"
  /\ known[a] <=> pc[a] \in {"committing", "announcing", "listening"}
  /\ started[a] <=> pc[a] = "listening"

\* A reserved conversation: how far its finalizer has come says what is left of
\* it, a failed finalizer leaves all it may have left, and a settled row already
\* has the failure, if there was one, that no later step can add.
ReservedInv(a) ==
  /\ closer[a] \in {"none", "joining", "ending", "settling", "releasing", "failed"}
  /\ rows[a] = "open" => known[a]
  /\ rows[a] # "none" => session[a] # "none"
  /\ started[a] => rows[a] # "none"
  /\ closer[a] \in {"settling", "releasing"} => session[a] # "open" /\ outcome[a] # "none"
  /\ closer[a] = "releasing" => rows[a] # "open"
  /\ rows[a] = "closed" =>
       session[a] = "closed" /\ outcome[a] # "none" /\ (code[a] <=> events[a] = 1)
  /\ code[a] => outcome[a] = "FAILED"

\* A released conversation has nothing open and nobody about to close it.
ReleasedInv(a) ==
  /\ closer[a] \in {"notifying", "done"}
  /\ callers[a] = {}
  /\ session[a] # "open" /\ rows[a] # "open"
  /\ started[a] => session[a] = "closed" /\ rows[a] = "closed"

PhaseInv(a) ==
  /\ pc[a] \in {"idle", "refused"} \cup Preparing => active # a /\ Blank(a)
  /\ pc[a] \in Initializing => InitializingInv(a)
  /\ pc[a] = "ready" => IF active = a THEN ReservedInv(a) ELSE ReleasedInv(a)
  /\ pc[a] = "lost" => active # a /\ callers[a] = {} /\ closer[a] = "none" /\ session[a] # "open"

\* Workers run from the end of the start to the first step of a finalizer.
WorkersInv(a) == workers[a] =>
  /\ active = a /\ pc[a] = "ready" /\ closer[a] \in {"none", "joining"}
  /\ session[a] = "open" /\ rows[a] = "open"

\* The durable record: a failure is counted when the row is settled, once.
RecordInv(a) ==
  /\ rows[a] # "closed" => events[a] = 0
  /\ rows[a] = "closed" => events[a] \in {0, 1} /\ (events[a] = 1 => result[a] = "FAILED")
  /\ pc[a] = "committing" => ~DeviceHasOpenRow
  /\ a \in ended => /\ pc[a] \in {"ready", "lost"} /\ active # a
                    /\ rows[a] = "closed" /\ session[a] = "closed"

\* A start keeps the lease it was asked with; nothing is reserved after a shutdown.
LeaseInv ==
  /\ \A a \in Attempts : pc[a] \in Preparing \cup Initializing => owner[a] # 0
  /\ shutdown = "clean" => active = Free

IInv ==
  /\ TypeOK
  /\ \A a \in Attempts : PhaseInv(a) /\ WorkersInv(a) /\ RecordInv(a)
  /\ LeaseInv

-----------------------------------------------------------------------------

\* No step of a task, a message, the registry or the process leaves the types.
LEMMA TypeStep == TypeOK /\ [Next]_vars => TypeOK'
<1>. SUFFICES ASSUME TypeOK, [Next]_vars PROVE TypeOK'
  OBVIOUS
<1>. USE DEF TypeOK, Callers
<1>1. ASSUME NEW a \in Attempts, Request(a) PROVE TypeOK'
  BY <1>1 DEF Request
<1>2. ASSUME NEW a \in Attempts, Reconcile(a) PROVE TypeOK'
  BY <1>2 DEF Reconcile
<1>3. ASSUME NEW a \in Attempts, Reconciled(a) PROVE TypeOK'
  BY <1>3 DEF Reconciled
<1>4. ASSUME NEW a \in Attempts, Unconfigured(a) PROVE TypeOK'
  BY <1>4 DEF Unconfigured
<1>5. ASSUME NEW a \in Attempts, Reserve(a) PROVE TypeOK'
  BY <1>5 DEF Reserve
<1>6. ASSUME NEW a \in Attempts, Open(a) PROVE TypeOK'
  BY <1>6 DEF Open
<1>7. ASSUME NEW a \in Attempts, OpenFails(a) PROVE TypeOK'
  BY <1>7 DEF OpenFails
<1>8. ASSUME NEW a \in Attempts, Insert(a) PROVE TypeOK'
  BY <1>8 DEF Insert
<1>9. ASSUME NEW a \in Attempts, InsertFails(a) PROVE TypeOK'
  BY <1>9 DEF InsertFails
<1>10. ASSUME NEW a \in Attempts, Commit(a) PROVE TypeOK'
  BY <1>10 DEF Commit
<1>11. ASSUME NEW a \in Attempts, CommitFails(a) PROVE TypeOK'
  BY <1>11 DEF CommitFails
<1>12. ASSUME NEW a \in Attempts, Announce(a) PROVE TypeOK'
  BY <1>12 DEF Announce
<1>13. ASSUME NEW a \in Attempts, Listen(a) PROVE TypeOK'
  <2>1. pc' \in [Attempts -> Steps] /\ outcome' = outcome
    BY <1>13 DEF Listen
  <2>2. callers' \in [Attempts -> SUBSET Callers]
    BY <1>13 DEF Listen
  <2>3. workers' \in [Attempts -> BOOLEAN]
    BY <1>13 DEF Listen
  <2>. QED
    BY <1>13, <2>1, <2>2, <2>3 DEF Listen
<1>14. ASSUME NEW a \in Attempts, SendFails(a) PROVE TypeOK'
  BY <1>14 DEF SendFails
<1>15. ASSUME NEW a \in Attempts, Stop(a) PROVE TypeOK'
  BY <1>15 DEF Stop
<1>16. ASSUME NEW a \in Attempts, Fail(a) PROVE TypeOK'
  BY <1>16 DEF Fail
<1>17. ASSUME NEW a \in Attempts, JoinWorkers(a) PROVE TypeOK'
  BY <1>17 DEF JoinWorkers
<1>18. ASSUME NEW a \in Attempts, EndSession(a) PROVE TypeOK'
  BY <1>18 DEF EndSession
<1>19. ASSUME NEW a \in Attempts, EndSessionFails(a) PROVE TypeOK'
  BY <1>19 DEF EndSessionFails
<1>20. ASSUME NEW a \in Attempts, Settle(a) PROVE TypeOK'
  BY <1>20 DEF Settle, SettleRow
<1>21. ASSUME NEW a \in Attempts, SettleFails(a) PROVE TypeOK'
  BY <1>21 DEF SettleFails, SettleRow
<1>22. ASSUME NEW a \in Attempts, Release(a) PROVE TypeOK'
  BY <1>22 DEF Release
<1>23. ASSUME NEW a \in Attempts, NotifyEnded(a) PROVE TypeOK'
  BY <1>23 DEF NotifyEnded
<1>24. ASSUME NEW a \in Attempts, NEW caller \in Callers, EnsureClosed(a, caller) PROVE TypeOK'
  BY <1>24 DEF EnsureClosed
<1>25. ASSUME NEW l \in 1..MaxLeases, Disconnect(l) PROVE TypeOK'
  BY <1>25 DEF Disconnect
<1>26. CASE BeginShutdown
  BY <1>26 DEF BeginShutdown
<1>27. CASE SecondRound
  BY <1>27 DEF SecondRound
<1>28. CASE EndShutdown
  BY <1>28 DEF EndShutdown
<1>29. CASE Connect
  BY <1>29 DEF Connect
<1>30. CASE Retire
  BY <1>30 DEF Retire
<1>31. CASE Restart
  BY <1>31 DEF Restart
<1>32. CASE UNCHANGED vars
  BY <1>32 DEF vars
<1>. QED
  BY <1>1, <1>2, <1>3, <1>4, <1>5, <1>6, <1>7, <1>8, <1>9, <1>10, <1>11, <1>12, <1>13,
     <1>14, <1>15, <1>16, <1>17, <1>18, <1>19, <1>20, <1>21, <1>22, <1>23, <1>24,
     <1>25, <1>26, <1>27, <1>28, <1>29, <1>30, <1>31, <1>32
  DEF Next, StartStep, CloseStep, Exited

\* What one attempt does leaves the phase of every attempt in agreement with its
\* resources.
LEMMA PhaseStep == IInv /\ [Next]_vars => \A b \in Attempts : PhaseInv(b)'
<1>. SUFFICES ASSUME IInv, [Next]_vars, NEW b \in Attempts PROVE PhaseInv(b)'
  OBVIOUS
<1>. USE DEF IInv, TypeOK, PhaseInv, Blank, InitializingInv, ReservedInv, ReleasedInv
<1>1. ASSUME NEW a \in Attempts, Request(a) PROVE PhaseInv(b)'
  BY <1>1 DEF Request
<1>2. ASSUME NEW a \in Attempts, Reconcile(a) PROVE PhaseInv(b)'
  BY <1>2 DEF Reconcile
<1>3. ASSUME NEW a \in Attempts, Reconciled(a) PROVE PhaseInv(b)'
  BY <1>3 DEF Reconciled
<1>4. ASSUME NEW a \in Attempts, Unconfigured(a) PROVE PhaseInv(b)'
  BY <1>4 DEF Unconfigured
<1>5. ASSUME NEW a \in Attempts, Reserve(a) PROVE PhaseInv(b)'
  BY <1>5 DEF Reserve, MayReserve
<1>6. ASSUME NEW a \in Attempts, Open(a) PROVE PhaseInv(b)'
  BY <1>6 DEF Open
<1>7. ASSUME NEW a \in Attempts, OpenFails(a) PROVE PhaseInv(b)'
  BY <1>7 DEF OpenFails
<1>8. ASSUME NEW a \in Attempts, Insert(a) PROVE PhaseInv(b)'
  BY <1>8 DEF Insert
<1>9. ASSUME NEW a \in Attempts, InsertFails(a) PROVE PhaseInv(b)'
  BY <1>9 DEF InsertFails
<1>10. ASSUME NEW a \in Attempts, Commit(a) PROVE PhaseInv(b)'
  BY <1>10 DEF Commit
<1>11. ASSUME NEW a \in Attempts, CommitFails(a) PROVE PhaseInv(b)'
  BY <1>11 DEF CommitFails
<1>12. ASSUME NEW a \in Attempts, Announce(a) PROVE PhaseInv(b)'
  BY <1>12 DEF Announce
<1>13. ASSUME NEW a \in Attempts, Listen(a) PROVE PhaseInv(b)'
  BY <1>13 DEF Listen
<1>14. ASSUME NEW a \in Attempts, SendFails(a) PROVE PhaseInv(b)'
  BY <1>14 DEF SendFails
<1>15. ASSUME NEW a \in Attempts, Stop(a) PROVE PhaseInv(b)'
  BY <1>15 DEF Stop
<1>16. ASSUME NEW a \in Attempts, Fail(a) PROVE PhaseInv(b)'
  BY <1>16 DEF Fail, MayFail
<1>17. ASSUME NEW a \in Attempts, JoinWorkers(a) PROVE PhaseInv(b)'
  BY <1>17 DEF JoinWorkers
<1>18. ASSUME NEW a \in Attempts, EndSession(a) PROVE PhaseInv(b)'
  BY <1>18 DEF EndSession
<1>19. ASSUME NEW a \in Attempts, EndSessionFails(a) PROVE PhaseInv(b)'
  BY <1>19 DEF EndSessionFails
<1>20. ASSUME NEW a \in Attempts, Settle(a) PROVE PhaseInv(b)'
  <2>1. CASE ~NeedsSettling(a)
    BY <1>20, <2>1 DEF Settle, NeedsSettling
  <2>2. CASE NeedsSettling(a) /\ SettleRow(a)
    <3>1. /\ rows'[a] = "closed"
          /\ events'[a] = IF code[a] THEN 1 ELSE 0
      BY <2>2 DEF SettleRow, NeedsSettling, RecordInv
    <3>2. b # a => rows'[b] = rows[b] /\ events'[b] = events[b]
      BY <2>2 DEF SettleRow
    <3>3. pc[a] = "ready" /\ active = a
      BY <1>20, <2>2 DEF Settle, NeedsSettling
    <3>. QED
      BY <1>20, <2>2, <3>1, <3>2, <3>3 DEF Settle, NeedsSettling
  <2>. QED
    BY <1>20, <2>1, <2>2 DEF Settle
<1>21. ASSUME NEW a \in Attempts, SettleFails(a) PROVE PhaseInv(b)'
  <2>1. CASE ~NeedsSettling(a) \/ UNCHANGED durable
    BY <1>21, <2>1 DEF SettleFails, NeedsSettling
  <2>2. CASE NeedsSettling(a) /\ SettleRow(a)
    <3>1. /\ rows'[a] = "closed"
          /\ events'[a] = IF code[a] THEN 1 ELSE 0
      BY <2>2 DEF SettleRow, NeedsSettling, RecordInv
    <3>2. b # a => rows'[b] = rows[b] /\ events'[b] = events[b]
      BY <2>2 DEF SettleRow
    <3>3. pc[a] = "ready" /\ active = a
      BY <1>21, <2>2 DEF SettleFails, NeedsSettling
    <3>. QED
      BY <1>21, <2>2, <3>1, <3>2, <3>3 DEF SettleFails, NeedsSettling
  <2>. QED
    BY <1>21, <2>1, <2>2 DEF SettleFails
<1>22. ASSUME NEW a \in Attempts, Release(a) PROVE PhaseInv(b)'
  BY <1>22 DEF Release
<1>23. ASSUME NEW a \in Attempts, NotifyEnded(a) PROVE PhaseInv(b)'
  BY <1>23 DEF NotifyEnded
<1>24. ASSUME NEW a \in Attempts, NEW caller \in Callers, EnsureClosed(a, caller)
      PROVE PhaseInv(b)'
  BY <1>24 DEF EnsureClosed
<1>25. ASSUME NEW l \in 1..MaxLeases, Disconnect(l) PROVE PhaseInv(b)'
  BY <1>25 DEF Disconnect
<1>26. CASE BeginShutdown
  BY <1>26 DEF BeginShutdown
<1>27. CASE SecondRound
  BY <1>27 DEF SecondRound
<1>28. CASE EndShutdown
  BY <1>28 DEF EndShutdown
<1>29. CASE Connect
  BY <1>29 DEF Connect
<1>30. CASE Retire
  BY <1>30 DEF Retire
<1>31. CASE Restart
  BY <1>31 DEF Restart
<1>32. CASE UNCHANGED vars
  BY <1>32 DEF vars
<1>. QED
  BY <1>1, <1>2, <1>3, <1>4, <1>5, <1>6, <1>7, <1>8, <1>9, <1>10, <1>11, <1>12, <1>13,
     <1>14, <1>15, <1>16, <1>17, <1>18, <1>19, <1>20, <1>21, <1>22, <1>23, <1>24,
     <1>25, <1>26, <1>27, <1>28, <1>29, <1>30, <1>31, <1>32
  DEF Next, StartStep, CloseStep, Exited

\* Workers start with everything open, and stop before anything is closed.
LEMMA WorkersStep == IInv /\ [Next]_vars => \A b \in Attempts : WorkersInv(b)'
<1>. SUFFICES ASSUME IInv, [Next]_vars, NEW b \in Attempts PROVE WorkersInv(b)'
  OBVIOUS
<1>. USE DEF IInv, TypeOK, WorkersInv, PhaseInv, Blank, InitializingInv, ReservedInv, ReleasedInv
<1>1. ASSUME NEW a \in Attempts, Request(a) PROVE WorkersInv(b)'
  BY <1>1 DEF Request
<1>2. ASSUME NEW a \in Attempts, Reconcile(a) PROVE WorkersInv(b)'
  BY <1>2 DEF Reconcile
<1>3. ASSUME NEW a \in Attempts, Reconciled(a) PROVE WorkersInv(b)'
  BY <1>3 DEF Reconciled
<1>4. ASSUME NEW a \in Attempts, Unconfigured(a) PROVE WorkersInv(b)'
  BY <1>4 DEF Unconfigured
<1>5. ASSUME NEW a \in Attempts, Reserve(a) PROVE WorkersInv(b)'
  BY <1>5 DEF Reserve, MayReserve
<1>6. ASSUME NEW a \in Attempts, Open(a) PROVE WorkersInv(b)'
  BY <1>6 DEF Open
<1>7. ASSUME NEW a \in Attempts, OpenFails(a) PROVE WorkersInv(b)'
  BY <1>7 DEF OpenFails
<1>8. ASSUME NEW a \in Attempts, Insert(a) PROVE WorkersInv(b)'
  BY <1>8 DEF Insert
<1>9. ASSUME NEW a \in Attempts, InsertFails(a) PROVE WorkersInv(b)'
  BY <1>9 DEF InsertFails
<1>10. ASSUME NEW a \in Attempts, Commit(a) PROVE WorkersInv(b)'
  BY <1>10 DEF Commit
<1>11. ASSUME NEW a \in Attempts, CommitFails(a) PROVE WorkersInv(b)'
  BY <1>11 DEF CommitFails
<1>12. ASSUME NEW a \in Attempts, Announce(a) PROVE WorkersInv(b)'
  BY <1>12 DEF Announce
<1>13. ASSUME NEW a \in Attempts, Listen(a) PROVE WorkersInv(b)'
  BY <1>13 DEF Listen
<1>14. ASSUME NEW a \in Attempts, SendFails(a) PROVE WorkersInv(b)'
  BY <1>14 DEF SendFails
<1>15. ASSUME NEW a \in Attempts, Stop(a) PROVE WorkersInv(b)'
  BY <1>15 DEF Stop
<1>16. ASSUME NEW a \in Attempts, Fail(a) PROVE WorkersInv(b)'
  BY <1>16 DEF Fail
<1>17. ASSUME NEW a \in Attempts, JoinWorkers(a) PROVE WorkersInv(b)'
  BY <1>17 DEF JoinWorkers
<1>18. ASSUME NEW a \in Attempts, EndSession(a) PROVE WorkersInv(b)'
  BY <1>18 DEF EndSession
<1>19. ASSUME NEW a \in Attempts, EndSessionFails(a) PROVE WorkersInv(b)'
  BY <1>19 DEF EndSessionFails
<1>20. ASSUME NEW a \in Attempts, Settle(a) PROVE WorkersInv(b)'
  BY <1>20 DEF Settle, SettleRow
<1>21. ASSUME NEW a \in Attempts, SettleFails(a) PROVE WorkersInv(b)'
  BY <1>21 DEF SettleFails, SettleRow
<1>22. ASSUME NEW a \in Attempts, Release(a) PROVE WorkersInv(b)'
  BY <1>22 DEF Release
<1>23. ASSUME NEW a \in Attempts, NotifyEnded(a) PROVE WorkersInv(b)'
  BY <1>23 DEF NotifyEnded
<1>24. ASSUME NEW a \in Attempts, NEW caller \in Callers, EnsureClosed(a, caller)
      PROVE WorkersInv(b)'
  BY <1>24 DEF EnsureClosed
<1>25. ASSUME NEW l \in 1..MaxLeases, Disconnect(l) PROVE WorkersInv(b)'
  BY <1>25 DEF Disconnect
<1>26. CASE BeginShutdown
  BY <1>26 DEF BeginShutdown
<1>27. CASE SecondRound
  BY <1>27 DEF SecondRound
<1>28. CASE EndShutdown
  BY <1>28 DEF EndShutdown
<1>29. CASE Connect
  BY <1>29 DEF Connect
<1>30. CASE Retire
  BY <1>30 DEF Retire
<1>31. CASE Restart
  BY <1>31 DEF Restart
<1>32. CASE UNCHANGED vars
  BY <1>32 DEF vars
<1>. QED
  BY <1>1, <1>2, <1>3, <1>4, <1>5, <1>6, <1>7, <1>8, <1>9, <1>10, <1>11, <1>12, <1>13,
     <1>14, <1>15, <1>16, <1>17, <1>18, <1>19, <1>20, <1>21, <1>22, <1>23, <1>24,
     <1>25, <1>26, <1>27, <1>28, <1>29, <1>30, <1>31, <1>32
  DEF Next, StartStep, CloseStep, Exited

\* The record changes when a row is opened, which finds none open, and when it is
\* settled, which counts the failure.
LEMMA RecordStep == IInv /\ [Next]_vars => \A b \in Attempts : RecordInv(b)'
<1>. SUFFICES ASSUME IInv, [Next]_vars, NEW b \in Attempts PROVE RecordInv(b)'
  OBVIOUS
<1>. USE DEF IInv, TypeOK, RecordInv, DeviceHasOpenRow, PhaseInv, Blank, InitializingInv,
             ReservedInv, ReleasedInv
<1>1. ASSUME NEW a \in Attempts, Request(a) PROVE RecordInv(b)'
  BY <1>1 DEF Request
<1>2. ASSUME NEW a \in Attempts, Reconcile(a) PROVE RecordInv(b)'
  BY <1>2 DEF Reconcile
<1>3. ASSUME NEW a \in Attempts, Reconciled(a) PROVE RecordInv(b)'
  BY <1>3 DEF Reconciled
<1>4. ASSUME NEW a \in Attempts, Unconfigured(a) PROVE RecordInv(b)'
  BY <1>4 DEF Unconfigured
<1>5. ASSUME NEW a \in Attempts, Reserve(a) PROVE RecordInv(b)'
  BY <1>5 DEF Reserve
<1>6. ASSUME NEW a \in Attempts, Open(a) PROVE RecordInv(b)'
  BY <1>6 DEF Open
<1>7. ASSUME NEW a \in Attempts, OpenFails(a) PROVE RecordInv(b)'
  BY <1>7 DEF OpenFails
<1>8. ASSUME NEW a \in Attempts, Insert(a) PROVE RecordInv(b)'
  BY <1>8 DEF Insert
<1>9. ASSUME NEW a \in Attempts, InsertFails(a) PROVE RecordInv(b)'
  BY <1>9 DEF InsertFails
<1>10. ASSUME NEW a \in Attempts, Commit(a) PROVE RecordInv(b)'
  BY <1>10 DEF Commit
<1>11. ASSUME NEW a \in Attempts, CommitFails(a) PROVE RecordInv(b)'
  BY <1>11 DEF CommitFails
<1>12. ASSUME NEW a \in Attempts, Announce(a) PROVE RecordInv(b)'
  BY <1>12 DEF Announce
<1>13. ASSUME NEW a \in Attempts, Listen(a) PROVE RecordInv(b)'
  BY <1>13 DEF Listen
<1>14. ASSUME NEW a \in Attempts, SendFails(a) PROVE RecordInv(b)'
  BY <1>14 DEF SendFails
<1>15. ASSUME NEW a \in Attempts, Stop(a) PROVE RecordInv(b)'
  BY <1>15 DEF Stop
<1>16. ASSUME NEW a \in Attempts, Fail(a) PROVE RecordInv(b)'
  BY <1>16 DEF Fail
<1>17. ASSUME NEW a \in Attempts, JoinWorkers(a) PROVE RecordInv(b)'
  BY <1>17 DEF JoinWorkers
<1>18. ASSUME NEW a \in Attempts, EndSession(a) PROVE RecordInv(b)'
  BY <1>18 DEF EndSession
<1>19. ASSUME NEW a \in Attempts, EndSessionFails(a) PROVE RecordInv(b)'
  BY <1>19 DEF EndSessionFails
<1>20. ASSUME NEW a \in Attempts, Settle(a) PROVE RecordInv(b)'
  BY <1>20 DEF Settle, NeedsSettling, SettleRow
<1>21. ASSUME NEW a \in Attempts, SettleFails(a) PROVE RecordInv(b)'
  BY <1>21 DEF SettleFails, NeedsSettling, SettleRow
<1>22. ASSUME NEW a \in Attempts, Release(a) PROVE RecordInv(b)'
  BY <1>22 DEF Release
<1>23. ASSUME NEW a \in Attempts, NotifyEnded(a) PROVE RecordInv(b)'
  BY <1>23 DEF NotifyEnded
<1>24. ASSUME NEW a \in Attempts, NEW caller \in Callers, EnsureClosed(a, caller)
      PROVE RecordInv(b)'
  BY <1>24 DEF EnsureClosed
<1>25. ASSUME NEW l \in 1..MaxLeases, Disconnect(l) PROVE RecordInv(b)'
  BY <1>25 DEF Disconnect
<1>26. CASE BeginShutdown
  BY <1>26 DEF BeginShutdown
<1>27. CASE SecondRound
  BY <1>27 DEF SecondRound
<1>28. CASE EndShutdown
  BY <1>28 DEF EndShutdown
<1>29. CASE Connect
  BY <1>29 DEF Connect
<1>30. CASE Retire
  BY <1>30 DEF Retire
<1>31. CASE Restart
  BY <1>31 DEF Restart
<1>32. CASE UNCHANGED vars
  BY <1>32 DEF vars
<1>. QED
  BY <1>1, <1>2, <1>3, <1>4, <1>5, <1>6, <1>7, <1>8, <1>9, <1>10, <1>11, <1>12, <1>13,
     <1>14, <1>15, <1>16, <1>17, <1>18, <1>19, <1>20, <1>21, <1>22, <1>23, <1>24,
     <1>25, <1>26, <1>27, <1>28, <1>29, <1>30, <1>31, <1>32
  DEF Next, StartStep, CloseStep, Exited

\* No step lets a start lose its lease, or reserves after a clean shutdown.
LEMMA LeaseStep == IInv /\ [Next]_vars => LeaseInv'
<1>. SUFFICES ASSUME IInv, [Next]_vars PROVE LeaseInv'
  OBVIOUS
<1>. USE DEF IInv, TypeOK, LeaseInv
<1>1. ASSUME NEW a \in Attempts, Request(a) PROVE LeaseInv'
  BY <1>1 DEF Request
<1>2. ASSUME NEW a \in Attempts, Reconcile(a) PROVE LeaseInv'
  BY <1>2 DEF Reconcile
<1>3. ASSUME NEW a \in Attempts, Reconciled(a) PROVE LeaseInv'
  BY <1>3 DEF Reconciled
<1>4. ASSUME NEW a \in Attempts, Unconfigured(a) PROVE LeaseInv'
  BY <1>4 DEF Unconfigured
<1>5. ASSUME NEW a \in Attempts, Reserve(a) PROVE LeaseInv'
  BY <1>5 DEF Reserve, MayReserve
<1>6. ASSUME NEW a \in Attempts, Open(a) PROVE LeaseInv'
  BY <1>6 DEF Open
<1>7. ASSUME NEW a \in Attempts, OpenFails(a) PROVE LeaseInv'
  BY <1>7 DEF OpenFails
<1>8. ASSUME NEW a \in Attempts, Insert(a) PROVE LeaseInv'
  BY <1>8 DEF Insert
<1>9. ASSUME NEW a \in Attempts, InsertFails(a) PROVE LeaseInv'
  BY <1>9 DEF InsertFails
<1>10. ASSUME NEW a \in Attempts, Commit(a) PROVE LeaseInv'
  BY <1>10 DEF Commit
<1>11. ASSUME NEW a \in Attempts, CommitFails(a) PROVE LeaseInv'
  BY <1>11 DEF CommitFails
<1>12. ASSUME NEW a \in Attempts, Announce(a) PROVE LeaseInv'
  BY <1>12 DEF Announce
<1>13. ASSUME NEW a \in Attempts, Listen(a) PROVE LeaseInv'
  BY <1>13 DEF Listen
<1>14. ASSUME NEW a \in Attempts, SendFails(a) PROVE LeaseInv'
  BY <1>14 DEF SendFails
<1>15. ASSUME NEW a \in Attempts, Stop(a) PROVE LeaseInv'
  BY <1>15 DEF Stop
<1>16. ASSUME NEW a \in Attempts, Fail(a) PROVE LeaseInv'
  BY <1>16 DEF Fail
<1>17. ASSUME NEW a \in Attempts, JoinWorkers(a) PROVE LeaseInv'
  BY <1>17 DEF JoinWorkers
<1>18. ASSUME NEW a \in Attempts, EndSession(a) PROVE LeaseInv'
  BY <1>18 DEF EndSession
<1>19. ASSUME NEW a \in Attempts, EndSessionFails(a) PROVE LeaseInv'
  BY <1>19 DEF EndSessionFails
<1>20. ASSUME NEW a \in Attempts, Settle(a) PROVE LeaseInv'
  BY <1>20 DEF Settle
<1>21. ASSUME NEW a \in Attempts, SettleFails(a) PROVE LeaseInv'
  BY <1>21 DEF SettleFails
<1>22. ASSUME NEW a \in Attempts, Release(a) PROVE LeaseInv'
  BY <1>22 DEF Release
<1>23. ASSUME NEW a \in Attempts, NotifyEnded(a) PROVE LeaseInv'
  BY <1>23 DEF NotifyEnded, PhaseInv, Blank, InitializingInv
<1>24. ASSUME NEW a \in Attempts, NEW caller \in Callers, EnsureClosed(a, caller)
      PROVE LeaseInv'
  BY <1>24 DEF EnsureClosed
<1>25. ASSUME NEW l \in 1..MaxLeases, Disconnect(l) PROVE LeaseInv'
  BY <1>25 DEF Disconnect
<1>26. CASE BeginShutdown
  BY <1>26 DEF BeginShutdown
<1>27. CASE SecondRound
  BY <1>27 DEF SecondRound
<1>28. CASE EndShutdown
  BY <1>28 DEF EndShutdown
<1>29. CASE Connect
  BY <1>29 DEF Connect
<1>30. CASE Retire
  BY <1>30 DEF Retire
<1>31. CASE Restart
  BY <1>31 DEF Restart
<1>32. CASE UNCHANGED vars
  BY <1>32 DEF vars
<1>. QED
  BY <1>1, <1>2, <1>3, <1>4, <1>5, <1>6, <1>7, <1>8, <1>9, <1>10, <1>11, <1>12, <1>13,
     <1>14, <1>15, <1>16, <1>17, <1>18, <1>19, <1>20, <1>21, <1>22, <1>23, <1>24,
     <1>25, <1>26, <1>27, <1>28, <1>29, <1>30, <1>31, <1>32
  DEF Next, StartStep, CloseStep, Exited

\* A step keeps the inductive invariant.
LEMMA Inductive == IInv /\ [Next]_vars => IInv'
  BY TypeStep, PhaseStep, WorkersStep, RecordStep, LeaseStep DEF IInv

-----------------------------------------------------------------------------
(* Safety *)

\* The inductive invariant holds in every reachable state.
THEOREM Invariant == Spec => []IInv
<1>1. Init => IInv
  BY DEF Init, IInv, TypeOK, PhaseInv, Blank, WorkersInv, RecordInv, LeaseInv
<1>. QED
  BY <1>1, Inductive, PTL DEF Spec

\* Type correctness, for every value of the constants.
THEOREM TypeCorrect == Spec => []TypeOK
  BY Invariant, PTL DEF IInv

\* A provider session or a durable row is open only for the attempt that has the
\* reservation, whatever failed before; the death of the process aside.
THEOREM NeverLeaked == Spec => []NothingLeaked
<1>1. IInv => NothingLeaked
  BY DEF IInv, TypeOK, NothingLeaked, PhaseInv, Blank, InitializingInv, ReservedInv, ReleasedInv
<1>. QED
  BY <1>1, Invariant, PTL

\* No worker outlives the reservation, the session or the row of its conversation.
THEOREM WorkersStayFenced == Spec => []WorkersFenced
<1>1. IInv => WorkersFenced
  BY DEF IInv, WorkersFenced, WorkersInv
<1>. QED
  BY <1>1, Invariant, PTL

\* A settled row has the one event of its failure, or none, for ever so many
\* finalizers and ambiguous commits.
THEOREM FailureOnce == Spec => []FailureRecordedOnce
<1>1. IInv => FailureRecordedOnce
  BY DEF IInv, TypeOK, FailureRecordedOnce, RecordInv, PhaseInv, Blank, InitializingInv, ReservedInv
<1>. QED
  BY <1>1, Invariant, PTL

\* conversation.ended is sent only for a conversation that is settled, closed and
\* released.
THEOREM EndedStaysDurable == Spec => []EndedIsDurable
<1>1. IInv => EndedIsDurable
  BY DEF IInv, TypeOK, EndedIsDurable, RecordInv
<1>. QED
  BY <1>1, Invariant, PTL

\* A shutdown that returned leaves nothing reserved, open or about to open.
THEOREM ShutdownIsClean == Spec => []ShutdownClean
<1>1. IInv => ShutdownClean
  BY DEF IInv, TypeOK, ShutdownClean, LeaseInv, PhaseInv, Blank, InitializingInv, ReservedInv,
         ReleasedInv
<1>. QED
  BY <1>1, Invariant, PTL

\* The late notification of a retired lease does not end the conversation of the
\* current one.
THEOREM LateDisconnectIsHarmless == Spec => LateDisconnectHarmless
<1>1. ASSUME IInv, [Next]_vars, NEW b \in Attempts,
             stop[b] = "none", stop'[b] = "device_disconnected"
      PROVE  owner[b] # lease \/ code'[b] \/ shutdown' # "running"
  <2>. DEFINE Goal == owner[b] # lease \/ code'[b] \/ shutdown' # "running"
  <2>. USE DEF IInv, TypeOK, LeaseInv
  <2>1. ASSUME NEW a \in Attempts, Open(a) \/ Commit(a) PROVE Goal
    BY <1>1, <2>1 DEF Open, Commit
  <2>2. ASSUME NEW a \in Attempts, Fail(a) PROVE Goal
    BY <1>1, <2>2 DEF Fail
  <2>3. ASSUME NEW l \in 1..MaxLeases, Disconnect(l) PROVE Goal
    BY <1>1, <2>3 DEF Disconnect, Owns
  <2>4. CASE BeginShutdown \/ SecondRound
    BY <1>1, <2>4 DEF BeginShutdown, SecondRound
  <2>5. ASSUME NEW a \in Attempts, Stop(a) \/ NotifyEnded(a) PROVE Goal
    BY <1>1, <2>5 DEF Stop, NotifyEnded
  <2>6. CASE Restart
    BY <1>1, <2>6 DEF Restart
  <2>7. CASE UNCHANGED stop
    BY <1>1, <2>7
  <2>. QED
    BY <1>1, <2>1, <2>2, <2>3, <2>4, <2>5, <2>6, <2>7
    DEF Next, StartStep, CloseStep, Exited, vars, Request, Reconcile, Reconciled, Unconfigured,
        Reserve, OpenFails, Insert, InsertFails, CommitFails, Announce, Listen, SendFails,
        JoinWorkers, EndSession, EndSessionFails, Settle, SettleFails, Release, EnsureClosed,
        EndShutdown, Connect, Retire
<1>2. IInv /\ [Next]_vars =>
        [\A a \in Attempts : stop[a] = "none" /\ stop'[a] = "device_disconnected" =>
           owner[a] # lease \/ code'[a] \/ shutdown' # "running"]_vars
  BY <1>1
<1>. QED
  BY <1>2, Invariant, PTL DEF Spec, LateDisconnectHarmless

-----------------------------------------------------------------------------
(* Refinement *)

\* The transaction that settles a row is the ledger's: the session is closed, the
\* outcome is decided, and the count of events goes from none to one at most.
LEMMA SettlesOnce ==
  ASSUME IInv, NEW a \in Attempts, closer[a] = "settling", NeedsSettling(a), SettleRow(a),
         UNCHANGED <<active, session>>
  PROVE  Ledger!Settle(a)
<1>. USE DEF IInv, TypeOK
<1>1. active = a /\ pc[a] = "ready" /\ ReservedInv(a)
  BY DEF PhaseInv, Blank, InitializingInv, ReleasedInv, NeedsSettling
<1>2. session[a] = "closed" /\ rows[a] = "open"
  BY <1>1 DEF ReservedInv, NeedsSettling
<1>3. outcome[a] \in Ledger!Outcomes /\ (code[a] => outcome[a] = "FAILED")
  BY <1>1 DEF ReservedInv, Ledger!Outcomes
<1>4. events[a] = 0
  BY <1>2 DEF RecordInv
<1>5. \E o \in Ledger!Outcomes, n \in 0..1 :
        /\ n = 1 => o = "FAILED"
        /\ result' = [result EXCEPT ![a] = o]
        /\ events' = [events EXCEPT ![a] = n]
  <2>1. result' = [result EXCEPT ![a] = outcome[a]]
    BY DEF SettleRow
  <2>2. CASE code[a]
    <3>1. events' = [events EXCEPT ![a] = 1]
      BY <1>4, <2>2 DEF SettleRow
    <3>. outcome[a] = "FAILED" /\ outcome[a] \in Ledger!Outcomes /\ 1 \in 0..1
      BY <1>3, <2>2
    <3>. WITNESS outcome[a] \in Ledger!Outcomes, 1 \in 0..1
    <3>. QED
      BY <2>1, <3>1
  <2>3. CASE ~code[a]
    <3>1. events' = [events EXCEPT ![a] = 0]
      BY <1>4, <2>3 DEF SettleRow
    <3>. outcome[a] \in Ledger!Outcomes /\ 0 \in 0..1
      BY <1>3
    <3>. WITNESS outcome[a] \in Ledger!Outcomes, 0 \in 0..1
    <3>. QED
      BY <2>1, <3>1
  <2>. QED
    BY <2>2, <2>3
<1>. QED
  BY <1>1, <1>2, <1>5 DEF Ledger!Settle, SettleRow

\* A step of the coordinator is a step of the ledger or leaves it unchanged.
LEMMA LedgerStep == IInv /\ [Next]_vars => [Ledger!Next]_(Ledger!ledger)
<1>. DEFINE Same == UNCHANGED <<active, session, rows, result, events>>
            Goal == Ledger!Next \/ Same
<1>. SUFFICES ASSUME IInv, [Next]_vars PROVE Goal
  BY DEF Ledger!ledger
<1>. USE DEF IInv, TypeOK, PhaseInv
<1>1. ASSUME NEW a \in Attempts, Request(a) PROVE Goal
  BY <1>1 DEF Request
<1>2. ASSUME NEW a \in Attempts, Reconcile(a) PROVE Goal
  BY <1>2 DEF Reconcile
<1>3. ASSUME NEW a \in Attempts, Reconciled(a) PROVE Goal
  BY <1>3 DEF Reconciled
<1>4. ASSUME NEW a \in Attempts, Unconfigured(a) PROVE Goal
  BY <1>4 DEF Unconfigured
<1>5. ASSUME NEW a \in Attempts, Reserve(a) PROVE Goal
  <2>1. CASE MayReserve(a)
    <3>1. Ledger!Reserve(a)
      BY <1>5, <2>1 DEF Reserve, MayReserve, Ledger!Reserve, Blank
    <3>. QED
      BY <3>1 DEF Ledger!Next
  <2>2. CASE ~MayReserve(a)
    BY <1>5, <2>2 DEF Reserve
  <2>. QED
    BY <2>1, <2>2
<1>6. ASSUME NEW a \in Attempts, Open(a) PROVE Goal
  <2>1. Ledger!OpenSession(a)
    BY <1>6 DEF Open, Ledger!OpenSession, InitializingInv
  <2>. QED
    BY <2>1 DEF Ledger!Next
<1>7. ASSUME NEW a \in Attempts, OpenFails(a) PROVE Goal
  BY <1>7 DEF OpenFails
<1>8. ASSUME NEW a \in Attempts, Insert(a) PROVE Goal
  BY <1>8 DEF Insert
<1>9. ASSUME NEW a \in Attempts, InsertFails(a) PROVE Goal
  BY <1>9 DEF InsertFails
<1>10. ASSUME NEW a \in Attempts, Commit(a) PROVE Goal
  <2>1. Ledger!Record(a)
    BY <1>10 DEF Commit, Ledger!Record, InitializingInv, RecordInv, DeviceHasOpenRow
  <2>. QED
    BY <2>1 DEF Ledger!Next
<1>11. ASSUME NEW a \in Attempts, CommitFails(a) PROVE Goal
  <2>1. CASE rows' = rows
    BY <1>11, <2>1 DEF CommitFails
  <2>2. CASE rows' = [rows EXCEPT ![a] = "open"]
    <3>1. Ledger!Record(a)
      BY <1>11, <2>2 DEF CommitFails, Ledger!Record, InitializingInv, RecordInv, DeviceHasOpenRow
    <3>. QED
      BY <3>1 DEF Ledger!Next
  <2>. QED
    BY <1>11, <2>1, <2>2 DEF CommitFails
<1>12. ASSUME NEW a \in Attempts, Announce(a) PROVE Goal
  BY <1>12 DEF Announce
<1>13. ASSUME NEW a \in Attempts, Listen(a) PROVE Goal
  BY <1>13 DEF Listen
<1>14. ASSUME NEW a \in Attempts, SendFails(a) PROVE Goal
  BY <1>14 DEF SendFails
<1>15. ASSUME NEW a \in Attempts, Stop(a) PROVE Goal
  BY <1>15 DEF Stop
<1>16. ASSUME NEW a \in Attempts, Fail(a) PROVE Goal
  BY <1>16 DEF Fail
<1>17. ASSUME NEW a \in Attempts, JoinWorkers(a) PROVE Goal
  BY <1>17 DEF JoinWorkers
<1>18. ASSUME NEW a \in Attempts, EndSession(a) PROVE Goal
  <2>1. CASE session[a] = "open"
    <3>1. Ledger!EndSession(a)
      BY <1>18, <2>1 DEF EndSession, Ledger!EndSession, Blank, InitializingInv, ReleasedInv
    <3>. QED
      BY <3>1 DEF Ledger!Next
  <2>2. CASE session[a] # "open"
    BY <1>18, <2>2 DEF EndSession
  <2>. QED
    BY <2>1, <2>2
<1>19. ASSUME NEW a \in Attempts, EndSessionFails(a) PROVE Goal
  BY <1>19 DEF EndSessionFails
<1>20. ASSUME NEW a \in Attempts, Settle(a) PROVE Goal
  <2>1. CASE ~NeedsSettling(a)
    BY <1>20, <2>1 DEF Settle
  <2>2. CASE NeedsSettling(a)
    BY <1>20, <2>2, SettlesOnce DEF Settle, Ledger!Next
  <2>. QED
    BY <2>1, <2>2
<1>21. ASSUME NEW a \in Attempts, SettleFails(a) PROVE Goal
  <2>1. CASE UNCHANGED durable
    BY <1>21, <2>1 DEF SettleFails
  <2>2. CASE NeedsSettling(a) /\ SettleRow(a)
    BY <1>21, <2>2, SettlesOnce DEF SettleFails, Ledger!Next
  <2>. QED
    BY <1>21, <2>1, <2>2 DEF SettleFails
<1>22. ASSUME NEW a \in Attempts, Release(a) PROVE Goal
  <2>1. Ledger!Release(a)
    BY <1>22 DEF Release, Ledger!Release, Blank, InitializingInv, ReservedInv, ReleasedInv
  <2>. QED
    BY <2>1 DEF Ledger!Next
<1>23. ASSUME NEW a \in Attempts, NotifyEnded(a) PROVE Goal
  BY <1>23 DEF NotifyEnded
<1>24. ASSUME NEW a \in Attempts, NEW caller \in Callers, EnsureClosed(a, caller) PROVE Goal
  BY <1>24 DEF EnsureClosed
<1>25. ASSUME NEW l \in 1..MaxLeases, Disconnect(l) PROVE Goal
  BY <1>25 DEF Disconnect
<1>26. CASE BeginShutdown
  BY <1>26 DEF BeginShutdown
<1>27. CASE SecondRound
  BY <1>27 DEF SecondRound
<1>28. CASE EndShutdown
  BY <1>28 DEF EndShutdown
<1>29. CASE Connect
  BY <1>29 DEF Connect
<1>30. CASE Retire
  BY <1>30 DEF Retire
<1>31. CASE Restart
  <2>1. Ledger!Lose
    BY <1>31 DEF Restart, Ledger!Lose
  <2>. QED
    BY <2>1 DEF Ledger!Next
<1>32. CASE UNCHANGED vars
  BY <1>32 DEF vars
<1>. QED
  BY <1>1, <1>2, <1>3, <1>4, <1>5, <1>6, <1>7, <1>8, <1>9, <1>10, <1>11, <1>12, <1>13,
     <1>14, <1>15, <1>16, <1>17, <1>18, <1>19, <1>20, <1>21, <1>22, <1>23, <1>24,
     <1>25, <1>26, <1>27, <1>28, <1>29, <1>30, <1>31, <1>32
  DEF Next, StartStep, CloseStep, Exited

\* The coordinator implements the ledger: whatever its tasks interleave, crash and
\* retry, the device, its sessions and its rows only move as the ledger allows.
THEOREM ImplementsLedger == Spec => LedgerSpec
<1>1. Init => Ledger!Init
  BY DEF Init, Ledger!Init
<1>. QED
  BY <1>1, LedgerStep, Invariant, PTL DEF Spec, LedgerSpec, Ledger!Spec
=============================================================================
