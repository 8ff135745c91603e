-------------------- MODULE DeviceConnections_proofs --------------------
EXTENDS DeviceConnections, TLAPS

USE NoneIsNoSocket, RestartBound
USE DEF durable, registry, lease, At, Goto, Retire, Notify, IsCurrent, MayMarkOnline,
        CommitOnline, RollBack, Owns, NextGeneration, Steps, OwnedSteps, ReleaseSteps, HandshakeSteps

-----------------------------------------------------------------------------
(* The inductive invariant *)

\* Steps at which a handler holds each lock.
InLifecycle(s) == pc[s] \in {"marking", "marked", "offlining"}
HoldsRow(s) == pc[s] \in {"marked", "sending", "committing", "beaten"}

\* A lock has exactly the holder whose step says so, and a transaction that is
\* going to write ONLINE read a row that is not DISABLED.
LockInv ==
  /\ \A s \in Sockets : (lifecycle = s) <=> InLifecycle(s)
  /\ \A s \in Sockets : (row = s) <=> HoldsRow(s)
  /\ row # None => status # "DISABLED"
  /\ NoOfflineUnderOwner

\* A handshake keeps an epoch no later than the current one; once it verified a
\* credential, either that credential is active, or its revocation has yet to
\* raise the epoch, or has raised it past the one the handshake kept.
FenceInv ==
  /\ \A s \in Sockets : pc[s] \in {"verifying", "verified"} => epoch[s] <= authEpoch
  /\ \A s \in Sockets :
       pc[s] = "verified" => secret[s] = credential \/ HookPending \/ epoch[s] < authEpoch
  /\ LeaseFence

\* No trace of a handler that has not claimed yet.
Fresh(s) ==
  /\ ~terminal[s] /\ ~notified[s] /\ s \notin revoking /\ conns # s
  /\ \A t \in Sockets : replaced[t] # s

\* Retired for good.
Gone(s) == terminal[s] /\ conns # s

\* Leases outside the registry are retired; only leases outside it are known to a
\* successor, to a revocation task or to a release.
LeaseInv ==
  /\ \A s \in Sockets : pc[s] \in {"idle"} \cup HandshakeSteps => Fresh(s)
  /\ \A s \in Sockets : pc[s] \in OwnedSteps \cup {"releasing"} /\ conns # s => terminal[s]
  /\ \A s \in Sockets : pc[s] \in {"unregistered", "superseded"} => Gone(s)
  /\ \A s \in Sockets : conns = s => pc[s] \in OwnedSteps \cup {"releasing"}
  /\ \A s, t \in Sockets : replaced[t] = s => Gone(s)
  /\ \A s \in revoking : Gone(s)
  /\ OnlyRetiredNotified

\* Somebody answers for an ONLINE row, or for one about to become ONLINE.
Attended ==
  \/ conns # None
  \/ \E s \in Sockets : /\ pc[s] \in {"unregistered", "offlineWait", "offlining"}
                        /\ gen[s] = generation
  \/ unattended

OwnerInv ==
  /\ conns # None => gen[conns] = generation
  /\ status = "ONLINE" \/ row # None => Attended

-----------------------------------------------------------------------------

\* No step of a handler, a request or the maintenance loop leaves the types; the
\* only invariant here that needs no other one.
LEMMA TypeStep == TypeOK /\ [Next]_vars => TypeOK'
<1>. SUFFICES ASSUME TypeOK, [Next]_vars PROVE TypeOK'
  OBVIOUS

<1>. USE DEF TypeOK
<1>1. ASSUME NEW s \in Sockets, Hello(s) PROVE TypeOK'
  BY <1>1 DEF Hello
<1>2. ASSUME NEW s \in Sockets, AuthResponse(s) PROVE TypeOK'
  BY <1>2 DEF AuthResponse
<1>3. ASSUME NEW s \in Sockets, AbandonHandshake(s) PROVE TypeOK'
  BY <1>3 DEF AbandonHandshake
<1>4. ASSUME NEW s \in Sockets, VerifyChallenge(s) PROVE TypeOK'
  BY <1>4 DEF VerifyChallenge
<1>5. ASSUME NEW s \in Sockets, Claim(s) PROVE TypeOK'
  <2>1. /\ generation' \in Nat
        /\ gen' \in [Sockets -> Nat]
    BY <1>5 DEF Claim
  <2>2. terminal' \in [Sockets -> BOOLEAN]
    BY <1>5 DEF Claim
  <2>3. /\ replaced' \in [Sockets -> Sockets \cup {None}]
        /\ pc' \in [Sockets -> Steps]
    BY <1>5 DEF Claim
  <2>. QED
    BY <1>5, <2>1, <2>2, <2>3 DEF Claim
<1>6. ASSUME NEW s \in Sockets, ClaimRefused(s) PROVE TypeOK'
  BY <1>6 DEF ClaimRefused
<1>7. ASSUME NEW s \in Sockets, MarkOnlineLock(s) PROVE TypeOK'
  BY <1>7 DEF MarkOnlineLock
<1>8. ASSUME NEW s \in Sockets, MarkOnlineCommit(s) PROVE TypeOK'
  BY <1>8 DEF MarkOnlineCommit
<1>9. ASSUME NEW s \in Sockets, CloseReplaced(s) PROVE TypeOK'
  BY <1>9 DEF CloseReplaced
<1>10. ASSUME NEW s \in Sockets, CheckOwnership(s) PROVE TypeOK'
  BY <1>10 DEF CheckOwnership
<1>11. ASSUME NEW s \in Sockets, StageOnline(s) PROVE TypeOK'
  BY <1>11 DEF StageOnline
<1>12. ASSUME NEW s \in Sockets, SendAuthOk(s) PROVE TypeOK'
  BY <1>12 DEF SendAuthOk
<1>13. ASSUME NEW s \in Sockets, CommitAuth(s) PROVE TypeOK'
  BY <1>13 DEF CommitAuth
<1>14. ASSUME NEW s \in Sockets, ReceivePresence(s) PROVE TypeOK'
  BY <1>14 DEF ReceivePresence
<1>15. ASSUME NEW s \in Sockets, HeartbeatLock(s) PROVE TypeOK'
  BY <1>15 DEF HeartbeatLock
<1>16. ASSUME NEW s \in Sockets, HeartbeatCommit(s) PROVE TypeOK'
  BY <1>16 DEF HeartbeatCommit
<1>17. ASSUME NEW s \in Sockets, LoseLease(s) PROVE TypeOK'
  BY <1>17 DEF LoseLease
<1>18. ASSUME NEW s \in Sockets, EndLoop(s) PROVE TypeOK'
  BY <1>18 DEF EndLoop
<1>19. ASSUME NEW s \in Sockets, HandlerFails(s) PROVE TypeOK'
  BY <1>19 DEF HandlerFails
<1>20. ASSUME NEW s \in Sockets, ForeignSendFails(s) PROVE TypeOK'
  BY <1>20 DEF ForeignSendFails
<1>21. ASSUME NEW s \in Sockets, Unregister(s) PROVE TypeOK'
  BY <1>21 DEF Unregister
<1>22. ASSUME NEW s \in Sockets, NotifyRelease(s) PROVE TypeOK'
  BY <1>22 DEF NotifyRelease
<1>23. ASSUME NEW s \in Sockets, CanMarkOffline(s) PROVE TypeOK'
  BY <1>23 DEF CanMarkOffline
<1>24. ASSUME NEW s \in Sockets, MarkOffline(s) PROVE TypeOK'
  BY <1>24 DEF MarkOffline
<1>25. ASSUME NEW s \in Sockets, MarkOfflineFails(s) PROVE TypeOK'
  BY <1>25 DEF MarkOfflineFails
<1>26. ASSUME NEW s \in Sockets, FinishRevocation(s) PROVE TypeOK'
  BY <1>26 DEF FinishRevocation
<1>27. ASSUME NEW a \in Requests, Rotate(a) PROVE TypeOK'
  BY <1>27 DEF Rotate
<1>28. ASSUME NEW a \in Requests, Disable(a) PROVE TypeOK'
  BY <1>28 DEF Disable
<1>29. ASSUME NEW a \in Requests, Enable(a) PROVE TypeOK'
  BY <1>29 DEF Enable
<1>30. ASSUME NEW a \in Requests, RevokeAccess(a) PROVE TypeOK'
  BY <1>30 DEF RevokeAccess
<1>31. CASE Age
  BY <1>31 DEF Age
<1>32. CASE StaleMonitor
  BY <1>32 DEF StaleMonitor
<1>33. CASE CloseAll
  BY <1>33 DEF CloseAll
<1>34. CASE Restart
  BY <1>34 DEF Restart
<1>35. CASE UNCHANGED vars
  BY <1>35 DEF vars
<1>. QED
  BY <1>1, <1>2, <1>3, <1>4, <1>5, <1>6, <1>7, <1>8, <1>9, <1>10, <1>11, <1>12, <1>13,
     <1>14, <1>15, <1>16, <1>17, <1>18, <1>19, <1>20, <1>21, <1>22, <1>23, <1>24, <1>25,
     <1>26, <1>27, <1>28, <1>29, <1>30, <1>31, <1>32, <1>33, <1>34, <1>35
  DEF Next, HandlerStep, HandlerInput, AdminStep, Quiescent

\* The lifecycle lock and the row lock (presence.py, _locked_device) are held by
\* the handler whose step says so, and by no other.
LEMMA LockStep == TypeOK /\ LockInv /\ [Next]_vars => LockInv'
<1>. SUFFICES ASSUME TypeOK, LockInv, [Next]_vars PROVE LockInv'
  OBVIOUS
<1>. USE DEF TypeOK, LockInv, InLifecycle, HoldsRow, NoOfflineUnderOwner, RowFree, LifecycleFree
<1>1. ASSUME NEW s \in Sockets, Hello(s) PROVE LockInv'
  BY <1>1 DEF Hello
<1>2. ASSUME NEW s \in Sockets, AuthResponse(s) PROVE LockInv'
  BY <1>2 DEF AuthResponse
<1>3. ASSUME NEW s \in Sockets, AbandonHandshake(s) PROVE LockInv'
  BY <1>3 DEF AbandonHandshake
<1>4. ASSUME NEW s \in Sockets, VerifyChallenge(s) PROVE LockInv'
  BY <1>4 DEF VerifyChallenge
<1>5. ASSUME NEW s \in Sockets, Claim(s) PROVE LockInv'
  BY <1>5 DEF Claim
<1>6. ASSUME NEW s \in Sockets, ClaimRefused(s) PROVE LockInv'
  BY <1>6 DEF ClaimRefused
<1>7. ASSUME NEW s \in Sockets, MarkOnlineLock(s) PROVE LockInv'
  BY <1>7 DEF MarkOnlineLock
<1>8. ASSUME NEW s \in Sockets, MarkOnlineCommit(s) PROVE LockInv'
  BY <1>8 DEF MarkOnlineCommit
<1>9. ASSUME NEW s \in Sockets, CloseReplaced(s) PROVE LockInv'
  BY <1>9 DEF CloseReplaced
<1>10. ASSUME NEW s \in Sockets, CheckOwnership(s) PROVE LockInv'
  BY <1>10 DEF CheckOwnership
<1>11. ASSUME NEW s \in Sockets, StageOnline(s) PROVE LockInv'
  BY <1>11 DEF StageOnline
<1>12. ASSUME NEW s \in Sockets, SendAuthOk(s) PROVE LockInv'
  BY <1>12 DEF SendAuthOk
<1>13. ASSUME NEW s \in Sockets, CommitAuth(s) PROVE LockInv'
  BY <1>13 DEF CommitAuth
<1>14. ASSUME NEW s \in Sockets, ReceivePresence(s) PROVE LockInv'
  BY <1>14 DEF ReceivePresence
<1>15. ASSUME NEW s \in Sockets, HeartbeatLock(s) PROVE LockInv'
  BY <1>15 DEF HeartbeatLock
<1>16. ASSUME NEW s \in Sockets, HeartbeatCommit(s) PROVE LockInv'
  BY <1>16 DEF HeartbeatCommit
<1>17. ASSUME NEW s \in Sockets, LoseLease(s) PROVE LockInv'
  BY <1>17 DEF LoseLease
<1>18. ASSUME NEW s \in Sockets, EndLoop(s) PROVE LockInv'
  BY <1>18 DEF EndLoop
<1>19. ASSUME NEW s \in Sockets, HandlerFails(s) PROVE LockInv'
  BY <1>19 DEF HandlerFails
<1>20. ASSUME NEW s \in Sockets, ForeignSendFails(s) PROVE LockInv'
  BY <1>20 DEF ForeignSendFails
<1>21. ASSUME NEW s \in Sockets, Unregister(s) PROVE LockInv'
  BY <1>21 DEF Unregister
<1>22. ASSUME NEW s \in Sockets, NotifyRelease(s) PROVE LockInv'
  BY <1>22 DEF NotifyRelease
<1>23. ASSUME NEW s \in Sockets, CanMarkOffline(s) PROVE LockInv'
  BY <1>23 DEF CanMarkOffline
<1>24. ASSUME NEW s \in Sockets, MarkOffline(s) PROVE LockInv'
  BY <1>24 DEF MarkOffline
<1>25. ASSUME NEW s \in Sockets, MarkOfflineFails(s) PROVE LockInv'
  BY <1>25 DEF MarkOfflineFails
<1>26. ASSUME NEW s \in Sockets, FinishRevocation(s) PROVE LockInv'
  BY <1>26 DEF FinishRevocation
<1>27. ASSUME NEW a \in Requests, Rotate(a) PROVE LockInv'
  BY <1>27 DEF Rotate
<1>28. ASSUME NEW a \in Requests, Disable(a) PROVE LockInv'
  BY <1>28 DEF Disable
<1>29. ASSUME NEW a \in Requests, Enable(a) PROVE LockInv'
  BY <1>29 DEF Enable
<1>30. ASSUME NEW a \in Requests, RevokeAccess(a) PROVE LockInv'
  BY <1>30 DEF RevokeAccess
<1>31. CASE Age
  BY <1>31 DEF Age
<1>32. CASE StaleMonitor
  BY <1>32 DEF StaleMonitor
<1>33. CASE CloseAll
  BY <1>33 DEF CloseAll
<1>34. CASE Restart
  BY <1>34 DEF Restart
<1>35. CASE UNCHANGED vars
  BY <1>35 DEF vars
<1>. QED
  BY <1>1, <1>2, <1>3, <1>4, <1>5, <1>6, <1>7, <1>8, <1>9, <1>10, <1>11, <1>12, <1>13,
     <1>14, <1>15, <1>16, <1>17, <1>18, <1>19, <1>20, <1>21, <1>22, <1>23, <1>24, <1>25,
     <1>26, <1>27, <1>28, <1>29, <1>30, <1>31, <1>32, <1>33, <1>34, <1>35
  DEF Next, HandlerStep, HandlerInput, AdminStep, Quiescent

\* The fence of a claim is kept: the epoch a handler read at the challenge is
\* compared again when it claims (connections.py, claim), and a commit that
\* revokes access either comes before that or retires the lease after it.
LEMMA FenceStep == TypeOK /\ LeaseInv /\ FenceInv /\ [Next]_vars => FenceInv'
<1>. SUFFICES ASSUME TypeOK, LeaseInv, FenceInv, [Next]_vars PROVE FenceInv'
  OBVIOUS
<1>. USE DEF TypeOK, FenceInv, LeaseFence, HookPending, EpochIsCurrent
<1>1. ASSUME NEW s \in Sockets, Hello(s) PROVE FenceInv'
  BY <1>1 DEF Hello, LeaseInv, Fresh
<1>2. ASSUME NEW s \in Sockets, AuthResponse(s) PROVE FenceInv'
  BY <1>2 DEF AuthResponse
<1>3. ASSUME NEW s \in Sockets, AbandonHandshake(s) PROVE FenceInv'
  BY <1>3 DEF AbandonHandshake
<1>4. ASSUME NEW s \in Sockets, VerifyChallenge(s) PROVE FenceInv'
  BY <1>4 DEF VerifyChallenge
<1>5. ASSUME NEW s \in Sockets, Claim(s) PROVE FenceInv'
  BY <1>5 DEF Claim
<1>6. ASSUME NEW s \in Sockets, ClaimRefused(s) PROVE FenceInv'
  BY <1>6 DEF ClaimRefused
<1>7. ASSUME NEW s \in Sockets, MarkOnlineLock(s) PROVE FenceInv'
  BY <1>7 DEF MarkOnlineLock
<1>8. ASSUME NEW s \in Sockets, MarkOnlineCommit(s) PROVE FenceInv'
  BY <1>8 DEF MarkOnlineCommit
<1>9. ASSUME NEW s \in Sockets, CloseReplaced(s) PROVE FenceInv'
  BY <1>9 DEF CloseReplaced
<1>10. ASSUME NEW s \in Sockets, CheckOwnership(s) PROVE FenceInv'
  BY <1>10 DEF CheckOwnership
<1>11. ASSUME NEW s \in Sockets, StageOnline(s) PROVE FenceInv'
  BY <1>11 DEF StageOnline
<1>12. ASSUME NEW s \in Sockets, SendAuthOk(s) PROVE FenceInv'
  BY <1>12 DEF SendAuthOk
<1>13. ASSUME NEW s \in Sockets, CommitAuth(s) PROVE FenceInv'
  BY <1>13 DEF CommitAuth
<1>14. ASSUME NEW s \in Sockets, ReceivePresence(s) PROVE FenceInv'
  BY <1>14 DEF ReceivePresence
<1>15. ASSUME NEW s \in Sockets, HeartbeatLock(s) PROVE FenceInv'
  BY <1>15 DEF HeartbeatLock
<1>16. ASSUME NEW s \in Sockets, HeartbeatCommit(s) PROVE FenceInv'
  BY <1>16 DEF HeartbeatCommit
<1>17. ASSUME NEW s \in Sockets, LoseLease(s) PROVE FenceInv'
  BY <1>17 DEF LoseLease
<1>18. ASSUME NEW s \in Sockets, EndLoop(s) PROVE FenceInv'
  BY <1>18 DEF EndLoop
<1>19. ASSUME NEW s \in Sockets, HandlerFails(s) PROVE FenceInv'
  BY <1>19 DEF HandlerFails
<1>20. ASSUME NEW s \in Sockets, ForeignSendFails(s) PROVE FenceInv'
  BY <1>20 DEF ForeignSendFails
<1>21. ASSUME NEW s \in Sockets, Unregister(s) PROVE FenceInv'
  BY <1>21 DEF Unregister
<1>22. ASSUME NEW s \in Sockets, NotifyRelease(s) PROVE FenceInv'
  BY <1>22 DEF NotifyRelease
<1>23. ASSUME NEW s \in Sockets, CanMarkOffline(s) PROVE FenceInv'
  BY <1>23 DEF CanMarkOffline
<1>24. ASSUME NEW s \in Sockets, MarkOffline(s) PROVE FenceInv'
  BY <1>24 DEF MarkOffline
<1>25. ASSUME NEW s \in Sockets, MarkOfflineFails(s) PROVE FenceInv'
  BY <1>25 DEF MarkOfflineFails
<1>26. ASSUME NEW s \in Sockets, FinishRevocation(s) PROVE FenceInv'
  BY <1>26 DEF FinishRevocation
<1>27. ASSUME NEW a \in Requests, Rotate(a) PROVE FenceInv'
  BY <1>27 DEF Rotate
<1>28. ASSUME NEW a \in Requests, Disable(a) PROVE FenceInv'
  BY <1>28 DEF Disable
<1>29. ASSUME NEW a \in Requests, Enable(a) PROVE FenceInv'
  BY <1>29 DEF Enable
<1>30. ASSUME NEW a \in Requests, RevokeAccess(a) PROVE FenceInv'
  BY <1>30 DEF RevokeAccess
<1>31. CASE Age
  BY <1>31 DEF Age
<1>32. CASE StaleMonitor
  BY <1>32 DEF StaleMonitor
<1>33. CASE CloseAll
  BY <1>33 DEF CloseAll
<1>34. CASE Restart
  BY <1>34 DEF Restart
<1>35. CASE UNCHANGED vars
  BY <1>35 DEF vars
<1>. QED
  BY <1>1, <1>2, <1>3, <1>4, <1>5, <1>6, <1>7, <1>8, <1>9, <1>10, <1>11, <1>12, <1>13,
     <1>14, <1>15, <1>16, <1>17, <1>18, <1>19, <1>20, <1>21, <1>22, <1>23, <1>24, <1>25,
     <1>26, <1>27, <1>28, <1>29, <1>30, <1>31, <1>32, <1>33, <1>34, <1>35
  DEF Next, HandlerStep, HandlerInput, AdminStep, Quiescent

\* A lease leaves the registry only by being retired, and only retired leases are
\* handed to a successor, to a revocation task or to the coordinator.
LEMMA LeaseStep == TypeOK /\ LeaseInv /\ [Next]_vars => LeaseInv'
<1>. SUFFICES ASSUME TypeOK, LeaseInv, [Next]_vars PROVE LeaseInv'
  OBVIOUS
<1>. USE DEF TypeOK, LeaseInv, Fresh, Gone, OnlyRetiredNotified, ReleaseNotifies
<1>1. ASSUME NEW s \in Sockets, Hello(s) PROVE LeaseInv'
  BY <1>1 DEF Hello
<1>2. ASSUME NEW s \in Sockets, AuthResponse(s) PROVE LeaseInv'
  BY <1>2 DEF AuthResponse
<1>3. ASSUME NEW s \in Sockets, AbandonHandshake(s) PROVE LeaseInv'
  BY <1>3 DEF AbandonHandshake
<1>4. ASSUME NEW s \in Sockets, VerifyChallenge(s) PROVE LeaseInv'
  BY <1>4 DEF VerifyChallenge
<1>5. ASSUME NEW s \in Sockets, Claim(s) PROVE LeaseInv'
  <2>. USE <1>5 DEF Claim
  <2>1. Fresh(s) /\ pc[s] = "verified"
    OBVIOUS
  <2>2. \A t \in Sockets : terminal'[t] = (terminal[t] \/ t = conns)
    OBVIOUS
  <2>3. \A t \in Sockets : pc'[t] \in {"idle"} \cup HandshakeSteps => Fresh(t)'
    BY <2>1, <2>2
  <2>4. \A t \in Sockets : pc'[t] \in OwnedSteps \cup {"releasing"} /\ conns' # t => terminal'[t]
    <3>. SUFFICES ASSUME NEW t \in Sockets, pc'[t] \in OwnedSteps \cup {"releasing"}, t # s
                  PROVE terminal'[t]
      OBVIOUS
    <3>1. pc'[t] = pc[t]
      OBVIOUS
    <3>. QED
      BY <3>1, <2>2
  <2>5. \A t \in Sockets : pc'[t] \in {"unregistered", "superseded"} => Gone(t)'
    BY <2>1, <2>2
  <2>6. \A u, t \in Sockets : replaced'[t] = u => Gone(u)'
    <3>. SUFFICES ASSUME NEW u \in Sockets, NEW t \in Sockets, replaced'[t] = u
                  PROVE Gone(u)'
      OBVIOUS
    <3>1. CASE t = s
      <4>1. u = conns /\ u # s
        BY <2>1, <3>1
      <4>. QED
        BY <4>1, <2>2
    <3>2. CASE t # s
      <4>1. replaced[t] = u /\ u # s
        BY <2>1, <3>2
      <4>. QED
        BY <4>1, <2>2
    <3>. QED
      BY <3>1, <3>2
  <2>7. \A t \in revoking' : Gone(t)'
    BY <2>1, <2>2
  <2>8. \A t \in Sockets : notified'[t] => Gone(t)'
    BY <2>1, <2>2
  <2>. QED
    BY <2>1, <2>3, <2>4, <2>5, <2>6, <2>7, <2>8
<1>6. ASSUME NEW s \in Sockets, ClaimRefused(s) PROVE LeaseInv'
  BY <1>6 DEF ClaimRefused
<1>7. ASSUME NEW s \in Sockets, MarkOnlineLock(s) PROVE LeaseInv'
  BY <1>7 DEF MarkOnlineLock
<1>8. ASSUME NEW s \in Sockets, MarkOnlineCommit(s) PROVE LeaseInv'
  BY <1>8 DEF MarkOnlineCommit
<1>9. ASSUME NEW s \in Sockets, CloseReplaced(s) PROVE LeaseInv'
  BY <1>9 DEF CloseReplaced
<1>10. ASSUME NEW s \in Sockets, CheckOwnership(s) PROVE LeaseInv'
  BY <1>10 DEF CheckOwnership
<1>11. ASSUME NEW s \in Sockets, StageOnline(s) PROVE LeaseInv'
  BY <1>11 DEF StageOnline
<1>12. ASSUME NEW s \in Sockets, SendAuthOk(s) PROVE LeaseInv'
  BY <1>12 DEF SendAuthOk
<1>13. ASSUME NEW s \in Sockets, CommitAuth(s) PROVE LeaseInv'
  BY <1>13 DEF CommitAuth
<1>14. ASSUME NEW s \in Sockets, ReceivePresence(s) PROVE LeaseInv'
  BY <1>14 DEF ReceivePresence
<1>15. ASSUME NEW s \in Sockets, HeartbeatLock(s) PROVE LeaseInv'
  BY <1>15 DEF HeartbeatLock
<1>16. ASSUME NEW s \in Sockets, HeartbeatCommit(s) PROVE LeaseInv'
  BY <1>16 DEF HeartbeatCommit
<1>17. ASSUME NEW s \in Sockets, LoseLease(s) PROVE LeaseInv'
  BY <1>17 DEF LoseLease
<1>18. ASSUME NEW s \in Sockets, EndLoop(s) PROVE LeaseInv'
  BY <1>18 DEF EndLoop
<1>19. ASSUME NEW s \in Sockets, HandlerFails(s) PROVE LeaseInv'
  BY <1>19 DEF HandlerFails
<1>20. ASSUME NEW s \in Sockets, ForeignSendFails(s) PROVE LeaseInv'
  BY <1>20 DEF ForeignSendFails
<1>21. ASSUME NEW s \in Sockets, Unregister(s) PROVE LeaseInv'
  BY <1>21 DEF Unregister
<1>22. ASSUME NEW s \in Sockets, NotifyRelease(s) PROVE LeaseInv'
  BY <1>22 DEF NotifyRelease
<1>23. ASSUME NEW s \in Sockets, CanMarkOffline(s) PROVE LeaseInv'
  BY <1>23 DEF CanMarkOffline
<1>24. ASSUME NEW s \in Sockets, MarkOffline(s) PROVE LeaseInv'
  BY <1>24 DEF MarkOffline
<1>25. ASSUME NEW s \in Sockets, MarkOfflineFails(s) PROVE LeaseInv'
  BY <1>25 DEF MarkOfflineFails
<1>26. ASSUME NEW s \in Sockets, FinishRevocation(s) PROVE LeaseInv'
  BY <1>26 DEF FinishRevocation
<1>27. ASSUME NEW a \in Requests, Rotate(a) PROVE LeaseInv'
  BY <1>27 DEF Rotate
<1>28. ASSUME NEW a \in Requests, Disable(a) PROVE LeaseInv'
  BY <1>28 DEF Disable
<1>29. ASSUME NEW a \in Requests, Enable(a) PROVE LeaseInv'
  BY <1>29 DEF Enable
<1>30. ASSUME NEW a \in Requests, RevokeAccess(a) PROVE LeaseInv'
  <2>. USE <1>30 DEF RevokeAccess
  <2>1. \A t \in Sockets : terminal'[t] = (terminal[t] \/ t = conns)
    OBVIOUS
  <2>2. \A t \in Sockets : conns = t => Gone(t)'
    BY <2>1
  <2>3. \A t \in Sockets : Gone(t) => Gone(t)'
    BY <2>1
  <2>4. \A t \in Sockets : pc'[t] \in {"idle"} \cup HandshakeSteps => Fresh(t)'
    BY <2>1
  <2>5. \A t \in Sockets : pc'[t] \in OwnedSteps \cup {"releasing"} /\ conns' # t => terminal'[t]
    BY <2>1
  <2>6. \A t \in revoking' : Gone(t)'
    BY <2>2, <2>3
  <2>. QED
    BY <2>2, <2>3, <2>4, <2>5, <2>6
<1>31. CASE Age
  BY <1>31 DEF Age
<1>32. CASE StaleMonitor
  BY <1>32 DEF StaleMonitor
<1>33. CASE CloseAll
  BY <1>33 DEF CloseAll
<1>34. CASE Restart
  BY <1>34 DEF Restart
<1>35. CASE UNCHANGED vars
  BY <1>35 DEF vars
<1>. QED
  BY <1>1, <1>2, <1>3, <1>4, <1>5, <1>6, <1>7, <1>8, <1>9, <1>10, <1>11, <1>12, <1>13,
     <1>14, <1>15, <1>16, <1>17, <1>18, <1>19, <1>20, <1>21, <1>22, <1>23, <1>24, <1>25,
     <1>26, <1>27, <1>28, <1>29, <1>30, <1>31, <1>32, <1>33, <1>34, <1>35
  DEF Next, HandlerStep, HandlerInput, AdminStep, Quiescent

\* Every lease that a handler loses leaves somebody bound to mark the row offline,
\* or one of the four named causes is recorded.
LEMMA OwnerStep == TypeOK /\ LockInv /\ LeaseInv /\ OwnerInv /\ [Next]_vars => OwnerInv'
<1>. SUFFICES ASSUME TypeOK, LockInv, LeaseInv, OwnerInv, [Next]_vars PROVE OwnerInv'
  OBVIOUS
<1>. USE DEF TypeOK, OwnerInv, Attended, RowFree
<1>1. ASSUME NEW s \in Sockets, Hello(s) PROVE OwnerInv'
  BY <1>1 DEF Hello
<1>2. ASSUME NEW s \in Sockets, AuthResponse(s) PROVE OwnerInv'
  BY <1>2 DEF AuthResponse
<1>3. ASSUME NEW s \in Sockets, AbandonHandshake(s) PROVE OwnerInv'
  BY <1>3 DEF AbandonHandshake
<1>4. ASSUME NEW s \in Sockets, VerifyChallenge(s) PROVE OwnerInv'
  BY <1>4 DEF VerifyChallenge
<1>5. ASSUME NEW s \in Sockets, Claim(s) PROVE OwnerInv'
  BY <1>5 DEF Claim
<1>6. ASSUME NEW s \in Sockets, ClaimRefused(s) PROVE OwnerInv'
  BY <1>6 DEF ClaimRefused
<1>7. ASSUME NEW s \in Sockets, MarkOnlineLock(s) PROVE OwnerInv'
  BY <1>7 DEF MarkOnlineLock
<1>8. ASSUME NEW s \in Sockets, MarkOnlineCommit(s) PROVE OwnerInv'
  BY <1>8 DEF MarkOnlineCommit, LockInv, HoldsRow
<1>9. ASSUME NEW s \in Sockets, CloseReplaced(s) PROVE OwnerInv'
  BY <1>9 DEF CloseReplaced
<1>10. ASSUME NEW s \in Sockets, CheckOwnership(s) PROVE OwnerInv'
  BY <1>10 DEF CheckOwnership
<1>11. ASSUME NEW s \in Sockets, StageOnline(s) PROVE OwnerInv'
  BY <1>11 DEF StageOnline
<1>12. ASSUME NEW s \in Sockets, SendAuthOk(s) PROVE OwnerInv'
  BY <1>12 DEF SendAuthOk
<1>13. ASSUME NEW s \in Sockets, CommitAuth(s) PROVE OwnerInv'
  BY <1>13 DEF CommitAuth, LockInv, HoldsRow
<1>14. ASSUME NEW s \in Sockets, ReceivePresence(s) PROVE OwnerInv'
  BY <1>14 DEF ReceivePresence
<1>15. ASSUME NEW s \in Sockets, HeartbeatLock(s) PROVE OwnerInv'
  BY <1>15 DEF HeartbeatLock
<1>16. ASSUME NEW s \in Sockets, HeartbeatCommit(s) PROVE OwnerInv'
  BY <1>16 DEF HeartbeatCommit, LockInv, HoldsRow
<1>17. ASSUME NEW s \in Sockets, LoseLease(s) PROVE OwnerInv'
  BY <1>17 DEF LoseLease
<1>18. ASSUME NEW s \in Sockets, EndLoop(s) PROVE OwnerInv'
  BY <1>18 DEF EndLoop
<1>19. ASSUME NEW s \in Sockets, HandlerFails(s) PROVE OwnerInv'
  BY <1>19 DEF HandlerFails
<1>20. ASSUME NEW s \in Sockets, ForeignSendFails(s) PROVE OwnerInv'
  BY <1>20 DEF ForeignSendFails
<1>21. ASSUME NEW s \in Sockets, Unregister(s) PROVE OwnerInv'
  BY <1>21 DEF Unregister
<1>22. ASSUME NEW s \in Sockets, NotifyRelease(s) PROVE OwnerInv'
  BY <1>22 DEF NotifyRelease
<1>23. ASSUME NEW s \in Sockets, CanMarkOffline(s) PROVE OwnerInv'
  BY <1>23 DEF CanMarkOffline
<1>24. ASSUME NEW s \in Sockets, MarkOffline(s) PROVE OwnerInv'
  BY <1>24 DEF MarkOffline
<1>25. ASSUME NEW s \in Sockets, MarkOfflineFails(s) PROVE OwnerInv'
  BY <1>25 DEF MarkOfflineFails
<1>26. ASSUME NEW s \in Sockets, FinishRevocation(s) PROVE OwnerInv'
  BY <1>26 DEF FinishRevocation
<1>27. ASSUME NEW a \in Requests, Rotate(a) PROVE OwnerInv'
  BY <1>27 DEF Rotate
<1>28. ASSUME NEW a \in Requests, Disable(a) PROVE OwnerInv'
  BY <1>28 DEF Disable
<1>29. ASSUME NEW a \in Requests, Enable(a) PROVE OwnerInv'
  BY <1>29 DEF Enable
<1>30. ASSUME NEW a \in Requests, RevokeAccess(a) PROVE OwnerInv'
  BY <1>30 DEF RevokeAccess
<1>31. CASE Age
  BY <1>31 DEF Age
<1>32. CASE StaleMonitor
  BY <1>32 DEF StaleMonitor
<1>33. CASE CloseAll
  BY <1>33 DEF CloseAll
<1>34. CASE Restart
  BY <1>34 DEF Restart
<1>35. CASE UNCHANGED vars
  BY <1>35 DEF vars
<1>. QED
  BY <1>1, <1>2, <1>3, <1>4, <1>5, <1>6, <1>7, <1>8, <1>9, <1>10, <1>11, <1>12, <1>13,
     <1>14, <1>15, <1>16, <1>17, <1>18, <1>19, <1>20, <1>21, <1>22, <1>23, <1>24, <1>25,
     <1>26, <1>27, <1>28, <1>29, <1>30, <1>31, <1>32, <1>33, <1>34, <1>35
  DEF Next, HandlerStep, HandlerInput, AdminStep, Quiescent
-----------------------------------------------------------------------------

IInv == TypeOK /\ LockInv /\ FenceInv /\ LeaseInv /\ OwnerInv

\* The inductive invariant holds before the first connection.
LEMMA InitIInv == Init => IInv
<1>. SUFFICES ASSUME Init PROVE IInv
  OBVIOUS
<1>1. TypeOK
  <2>1. /\ pc \in [Sockets -> Steps]
        /\ secret \in [Sockets -> Nat]
        /\ epoch \in [Sockets -> Nat]
        /\ gen \in [Sockets -> Nat]
    BY DEF Init
  <2>2. /\ terminal \in [Sockets -> BOOLEAN]
        /\ notified \in [Sockets -> BOOLEAN]
    BY DEF Init
  <2>3. /\ replaced \in [Sockets -> Sockets \cup {None}]
        /\ admin \in [Requests -> {"waiting", "committed", "done"}]
    BY DEF Init
  <2>4. /\ credential \in Nat \ {0}
        /\ generation \in Nat /\ authEpoch \in Nat /\ restarts \in Nat
        /\ revoking \in SUBSET Sockets
        /\ row \in Sockets \cup {None} /\ conns \in Sockets \cup {None}
        /\ lifecycle \in Sockets \cup {None}
        /\ status \in {"PROVISIONING", "ONLINE", "OFFLINE", "DISABLED"}
    BY DEF Init
  <2>5. stale \in BOOLEAN /\ unattended \in BOOLEAN
    BY Zenon DEF Init
  <2>. QED
    BY <2>1, <2>2, <2>3, <2>4, <2>5 DEF TypeOK
<1>2. LockInv
  BY DEF Init, LockInv, InLifecycle, HoldsRow, NoOfflineUnderOwner
<1>3. FenceInv
  BY DEF Init, FenceInv, LeaseFence
<1>4. LeaseInv
  BY DEF Init, LeaseInv, Fresh, OnlyRetiredNotified
<1>5. OwnerInv
  BY DEF Init, OwnerInv
<1>. QED
  BY <1>1, <1>2, <1>3, <1>4, <1>5 DEF IInv

\* The conjunction is inductive: no part but the first is on its own.
LEMMA Inductive == Spec => []IInv
<1>1. IInv /\ [Next]_vars => IInv'
  BY TypeStep, LockStep, FenceStep, LeaseStep, OwnerStep DEF IInv
<1>. QED
  BY InitIInv, <1>1, PTL DEF Spec

\* Every variable keeps its type, in every step of every handler and request.
THEOREM TypeCorrect == Spec => []TypeOK
<1>1. IInv => TypeOK
  BY DEF IInv
<1>. QED
  BY Inductive, <1>1, PTL

\* connections.py, claim and revoke_access: for any number of sockets, requests and
\* restarts, the published lease proved the active credential or is about to go.
THEOREM LeaseFenced == Spec => []LeaseFence
<1>1. IInv => LeaseFence
  BY DEF IInv, FenceInv
<1>. QED
  BY Inductive, <1>1, PTL

\* The lifecycle lock (device.py, _release_ownership and the claim): no handler
\* marks the device offline while a lease is published.
THEOREM OfflineOnlyUnowned == Spec => []NoOfflineUnderOwner
<1>1. IInv => NoOfflineUnderOwner
  BY DEF IInv, LockInv
<1>. QED
  BY Inductive, <1>1, PTL

\* notify_disconnect never reports the lease that owns the device.
THEOREM NotifiedAreRetired == Spec => []OnlyRetiredNotified
<1>1. IInv => OnlyRetiredNotified
  BY DEF IInv, LeaseInv
<1>. QED
  BY Inductive, <1>1, PTL

\* An ONLINE row has an owner, or a handler bound to mark it offline, unless one
\* of the four named causes intervened.
THEOREM OnlineOwned == Spec => []OnlineHasOwner
<1>1. IInv => OnlineHasOwner
  BY DEF IInv, OwnerInv, Attended, OnlineHasOwner
<1>. QED
  BY Inductive, <1>1, PTL

\* The row lock (presence.py): no step takes a device from DISABLED to ONLINE.
THEOREM DisabledPersists == Spec => DisabledStaysDisabled
<1>1. IInv /\ [Next]_vars => [status = "DISABLED" => status' # "ONLINE"]_vars
  <2>. SUFFICES ASSUME IInv, [Next]_vars, status = "DISABLED" PROVE status' # "ONLINE"
    OBVIOUS
  <2>1. \A s \in Sockets : ~HoldsRow(s)
    BY DEF IInv, LockInv, TypeOK
  <2>2. CASE UNCHANGED vars
    BY <2>2 DEF vars
  <2>3. ASSUME NEW s \in Sockets, HandlerStep(s) PROVE status' # "ONLINE"
    BY <2>1, <2>3 DEF HoldsRow, HandlerStep, VerifyChallenge, Claim, ClaimRefused,
       MarkOnlineLock, MarkOnlineCommit, CloseReplaced, CheckOwnership, StageOnline,
       SendAuthOk, CommitAuth, HeartbeatLock, HeartbeatCommit, LoseLease, Unregister,
       NotifyRelease, CanMarkOffline, MarkOffline
  <2>4. ASSUME NEW s \in Sockets, HandlerInput(s) \/ FinishRevocation(s) PROVE status' # "ONLINE"
    BY <2>4 DEF HandlerInput, Hello, AuthResponse, AbandonHandshake, ReceivePresence,
       EndLoop, HandlerFails, ForeignSendFails, MarkOfflineFails, FinishRevocation
  <2>5. ASSUME NEW a \in Requests, AdminStep(a) PROVE status' # "ONLINE"
    BY <2>5 DEF AdminStep, Rotate, Disable, Enable, RevokeAccess
  <2>6. CASE Age \/ StaleMonitor \/ CloseAll \/ Restart \/ Quiescent
    BY <2>6 DEF Age, StaleMonitor, CloseAll, Restart, Quiescent, vars
  <2>. QED
    BY <2>2, <2>3, <2>4, <2>5, <2>6 DEF Next
<1>. QED
  BY Inductive, <1>1, PTL DEF Spec, DisabledStaysDisabled
=============================================================================
