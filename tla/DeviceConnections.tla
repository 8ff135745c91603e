------------------------- MODULE DeviceConnections -------------------------
(***************************************************************************)
(* Ownership of one device: the WebSocket handlers that compete for it,    *)
(* the in-memory registry of leases, the durable presence row, and the     *)
(* administrative requests that revoke access.                             *)
(*                                                                         *)
(* Sources: devices/connections.py (registry), websocket/device.py (one    *)
(* handler task per socket), devices/presence.py (row transitions),        *)
(* devices/challenges.py, devices/credentials.py, devices/access.py, and   *)
(* the maintenance loop and shutdown of main.py, all under backend/app.    *)
(*                                                                         *)
(* Every dictionary of the registry is keyed by device and no operation    *)
(* relates two devices, so the module describes one device.  The event     *)
(* loop runs one step at a time: the bodies of registry._lock contain no   *)
(* real await and are atomic here.  Interleaving happens at the awaits     *)
(* that remain: the row lock (SELECT ... FOR UPDATE), the COMMIT, the      *)
(* socket, and the per-device lifecycle lock.                              *)
(***************************************************************************)
EXTENDS Naturals, FiniteSets

CONSTANTS
  Sockets,      \* connection attempts; each one is served by one handler task
  None,         \* "no socket"
  Requests,     \* administrative requests
  Operations,   \* what those requests may ask for
  Faults,       \* steps of the handler where the database or a cancellation may strike
  MaxRestarts   \* bound: process restarts in a behaviour

\* Steps of a handler that owns a lease, in the order of the code.
OwnedSteps == {"marking", "marked", "replacing", "checking", "staging", "sending",
               "committing", "serving", "beating", "beaten"}
\* Steps of _release_ownership.
ReleaseSteps == {"releasing", "unregistered", "superseded", "offlineWait", "offlining"}
HandshakeSteps == {"challenged", "verifying", "verified"}
Steps == {"idle", "closed"} \cup HandshakeSteps \cup OwnedSteps \cup ReleaseSteps

ASSUME NoneIsNoSocket == None \notin Sockets
ASSUME KnownOperations == Operations \subseteq {"rotate", "disable", "enable"}
ASSUME KnownFaults == Faults \subseteq OwnedSteps \cup {"offlining"}
ASSUME RestartBound == MaxRestarts \in Nat

VARIABLES
  status,      \* devices.status: durable
  credential,  \* version of the only credential not revoked: durable
  stale,       \* devices.last_seen_at is older than device_offline_timeout: durable
  row,         \* the handler whose open transaction holds the device row lock
  conns,       \* registry._connections[device]: the published lease
  generation,  \* registry._generations[device]
  authEpoch,   \* registry._authorization_epochs[device]
  lifecycle,   \* holder of registry._lifecycle_locks[device]
  revoking,    \* leases whose disconnect task (revocation, shutdown) has not notified yet
  pc,          \* the step each handler is about to take
  secret,      \* credential version the peer of a socket signs with
  epoch,       \* authorization_epoch the handler kept for its claim
  gen,         \* generation of the lease of a socket, 0 before it claims
  terminal,    \* _ActiveConnection.terminal
  replaced,    \* the lease that a claim replaced
  notified,    \* _ActiveConnection.cleanup_task was started: the coordinator was told
  admin,       \* progress of each administrative request
  restarts,    \* process restarts so far
  unattended   \* history: the last lease was withdrawn while the row was, or was
               \* about to be, ONLINE, and no handler is left to mark it offline

durable == <<status, credential, stale>>
registry == <<conns, generation, authEpoch>>
lease == <<gen, terminal, replaced>>
vars == <<status, credential, stale, row, conns, generation, authEpoch, lifecycle,
          revoking, pc, secret, epoch, gen, terminal, replaced, notified, admin, restarts,
          unattended>>

TypeOK ==
  /\ status \in {"PROVISIONING", "ONLINE", "OFFLINE", "DISABLED"}
  /\ credential \in Nat \ {0}
  /\ stale \in BOOLEAN
  /\ row \in Sockets \cup {None}
  /\ conns \in Sockets \cup {None}
  /\ generation \in Nat
  /\ authEpoch \in Nat
  /\ lifecycle \in Sockets \cup {None}
  /\ revoking \in SUBSET Sockets
  /\ pc \in [Sockets -> Steps]
  /\ secret \in [Sockets -> Nat]
  /\ epoch \in [Sockets -> Nat]
  /\ gen \in [Sockets -> Nat]
  /\ terminal \in [Sockets -> BOOLEAN]
  /\ replaced \in [Sockets -> Sockets \cup {None}]
  /\ notified \in [Sockets -> BOOLEAN]
  /\ admin \in [Requests -> {"waiting", "committed", "done"}]
  /\ restarts \in Nat
  /\ unattended \in BOOLEAN

Init ==
  /\ status = "PROVISIONING"
  /\ credential = 1
  /\ stale = FALSE
  /\ row = None
  /\ conns = None
  /\ generation = 0
  /\ authEpoch = 0
  /\ lifecycle = None
  /\ revoking = {}
  /\ pc = [s \in Sockets |-> "idle"]
  /\ secret = [s \in Sockets |-> 0]
  /\ epoch = [s \in Sockets |-> 0]
  /\ gen = [s \in Sockets |-> 0]
  /\ terminal = [s \in Sockets |-> FALSE]
  /\ replaced = [s \in Sockets |-> None]
  /\ notified = [s \in Sockets |-> FALSE]
  /\ admin = [a \in Requests |-> "waiting"]
  /\ restarts = 0
  /\ unattended = FALSE

-----------------------------------------------------------------------------
(* Helpers *)

At(s, step) == pc[s] = step
Goto(s, step) == pc' = [pc EXCEPT ![s] = step]

\* registry.is_current: the lease is the published one and was not retired.
IsCurrent(s) == conns = s /\ ~terminal[s]

\* The row lock, and the lifecycle lock, can be taken now.
RowFree == row = None
BugLifecycleFree == TRUE
LifecycleFree == lifecycle = None

BugNextGeneration == generation - 1
NextGeneration == generation + 1

Retire(s) == terminal' = [terminal EXCEPT ![s] = TRUE]

\* notify_disconnect starts the one cleanup task of each of these leases.
Notify(leases) ==
  notified' = [s \in Sockets |-> notified[s] \/ s \in leases]

\* A revocation was committed and its after_commit hook has not run yet.
HookPending == \E a \in Requests : admin[a] = "committed"

-----------------------------------------------------------------------------
(* The handshake of a handler: no lease yet. *)

\* Accept the socket, read device.hello, look the device up and commit a
\* challenge.  The peer signs with some version of the secret it was given.
Hello(s) ==
  /\ At(s, "idle")
  /\ \E v \in 1..credential : secret' = [secret EXCEPT ![s] = v]
  /\ Goto(s, IF status = "DISABLED" THEN "closed" ELSE "challenged")
  /\ UNCHANGED <<durable, row, registry, lifecycle, revoking, epoch, lease, notified,
                 admin, restarts, unattended>>

\* A well-formed auth.response arrived: keep the authorization epoch *before*
\* the credential is verified.
AuthResponse(s) ==
  /\ At(s, "challenged")
  /\ epoch' = [epoch EXCEPT ![s] = authEpoch]
  /\ Goto(s, "verifying")
  /\ UNCHANGED <<durable, row, registry, lifecycle, revoking, secret, lease, notified,
                 admin, restarts, unattended>>

\* Handshake timeout, malformed or out-of-order frame, disconnection, wrong digest.
AbandonHandshake(s) ==
  /\ pc[s] \in HandshakeSteps
  /\ Goto(s, "closed")
  /\ UNCHANGED <<durable, row, registry, lifecycle, revoking, secret, epoch, lease,
                 notified, admin, restarts, unattended>>

\* verify_challenge: under the row lock, the digest is compared with the active
\* credential.  Its DISABLED test reads the device object that Hello loaded (the
\* select does not populate_existing and the session does not expire on commit),
\* which is not DISABLED at this point, so it rejects nothing.
VerifyChallenge(s) ==
  /\ At(s, "verifying")
  /\ RowFree
  /\ Goto(s, IF secret[s] = credential THEN "verified" ELSE "closed")
  /\ UNCHANGED <<durable, row, registry, lifecycle, revoking, secret, epoch, lease,
                 notified, admin, restarts, unattended>>

BugEpochIsCurrent(s) == TRUE
\* claim refuses a handshake that a revocation overtook.
EpochIsCurrent(s) == epoch[s] = authEpoch

\* Take the lifecycle lock and claim: retire the predecessor, publish the next
\* generation.  The lock stays held for the mark_online that follows.
Claim(s) ==
  /\ At(s, "verified")
  /\ LifecycleFree
  /\ EpochIsCurrent(s)
  /\ lifecycle' = s
  /\ conns' = s
  /\ generation' = NextGeneration
  /\ gen' = [gen EXCEPT ![s] = NextGeneration]
  /\ replaced' = [replaced EXCEPT ![s] = conns]
  /\ terminal' = [t \in Sockets |-> terminal[t] \/ t = conns]
  /\ Goto(s, "marking")
  /\ unattended' = FALSE
  /\ UNCHANGED <<durable, row, authEpoch, revoking, secret, epoch, notified, admin, restarts>>

ClaimRefused(s) ==
  /\ At(s, "verified")
  /\ LifecycleFree
  /\ ~EpochIsCurrent(s)
  /\ Goto(s, "closed")
  /\ UNCHANGED <<durable, row, registry, lifecycle, revoking, secret, epoch, lease,
                 notified, admin, restarts, unattended>>

-----------------------------------------------------------------------------
(* From the claim to auth.ok *)

BugMayMarkOnline(s) == IsCurrent(s)
\* What mark_online, stage_online_for_auth and record_status test under the row lock.
MayMarkOnline(s) == status # "DISABLED" /\ IsCurrent(s)

\* _transition_online followed by COMMIT: the row lock is released.
CommitOnline ==
  /\ status' = "ONLINE"
  /\ stale' = FALSE
  /\ row' = None
  /\ UNCHANGED credential

BugRollBack(s) == UNCHANGED row
\* db.rollback: an open transaction of this handler ends and frees the row.
RollBack(s) == row' = IF row = s THEN None ELSE row

\* mark_online right after the claim, still under the lifecycle lock.
MarkOnlineLock(s) ==
  /\ At(s, "marking")
  /\ RowFree
  /\ IF MayMarkOnline(s)
     THEN row' = s /\ Goto(s, "marked") /\ UNCHANGED lifecycle
     ELSE lifecycle' = None /\ Goto(s, "replacing") /\ UNCHANGED row
  /\ UNCHANGED <<durable, registry, revoking, secret, epoch, lease, notified, admin, restarts, unattended>>

MarkOnlineCommit(s) ==
  /\ At(s, "marked")
  /\ CommitOnline
  /\ lifecycle' = None
  /\ Goto(s, "replacing")
  /\ UNCHANGED <<registry, revoking, secret, epoch, lease, notified, admin, restarts, unattended>>

\* close_replaced: close the predecessor within a bound, then join its notification.
CloseReplaced(s) ==
  /\ At(s, "replacing")
  /\ Notify({replaced[s]})
  /\ Goto(s, "checking")
  /\ UNCHANGED <<durable, row, registry, lifecycle, revoking, secret, epoch, lease, admin,
                 restarts, unattended>>

\* is_current under the lifecycle lock; a lost lease ends the handler.
CheckOwnership(s) ==
  /\ At(s, "checking")
  /\ LifecycleFree
  /\ Goto(s, IF IsCurrent(s) THEN "staging" ELSE "releasing")
  /\ UNCHANGED <<durable, row, registry, lifecycle, revoking, secret, epoch, lease,
                 notified, admin, restarts, unattended>>

\* stage_online_for_auth: the transaction stays open, with the row locked, until
\* auth.ok is on the wire.
StageOnline(s) ==
  /\ At(s, "staging")
  /\ RowFree
  /\ IF MayMarkOnline(s)
     THEN row' = s /\ Goto(s, "sending")
     ELSE Goto(s, "releasing") /\ UNCHANGED row
  /\ UNCHANGED <<durable, registry, lifecycle, revoking, secret, epoch, lease, notified,
                 admin, restarts, unattended>>

\* send_json_to(auth.ok): refused when the lease was lost meanwhile; the
\* transaction is rolled back and the lease retired.
SendAuthOk(s) ==
  /\ At(s, "sending")
  /\ IF IsCurrent(s)
     THEN Goto(s, "committing") /\ UNCHANGED <<row, terminal>>
     ELSE Goto(s, "releasing") /\ RollBack(s) /\ Retire(s)
  /\ UNCHANGED <<durable, registry, lifecycle, revoking, secret, epoch, gen, replaced,
                 notified, admin, restarts, unattended>>

CommitAuth(s) ==
  /\ At(s, "committing")
  /\ CommitOnline
  /\ Goto(s, "serving")
  /\ UNCHANGED <<registry, lifecycle, revoking, secret, epoch, lease, notified, admin, restarts, unattended>>

-----------------------------------------------------------------------------
(* The message loop: heartbeat, status, ack and result all end in a presence
   transition of this form; what else they do belongs to other modules. *)

ReceivePresence(s) ==
  /\ At(s, "serving")
  /\ IsCurrent(s)
  /\ Goto(s, "beating")
  /\ UNCHANGED <<durable, row, registry, lifecycle, revoking, secret, epoch, lease,
                 notified, admin, restarts, unattended>>

\* The lease is revalidated under the row lock.  A device found DISABLED closes
\* the socket with AUTH_FAILED; a lost lease is noticed at the next frame.
HeartbeatLock(s) ==
  /\ At(s, "beating")
  /\ RowFree
  /\ \/ /\ MayMarkOnline(s)
        /\ row' = s
        /\ Goto(s, "beaten")
        /\ UNCHANGED terminal
     \/ /\ ~MayMarkOnline(s)
        /\ status = "DISABLED"
        /\ Retire(s)
        /\ Goto(s, "releasing")
        /\ UNCHANGED row
     \/ /\ ~MayMarkOnline(s)
        /\ status # "DISABLED"
        /\ Goto(s, "serving")
        /\ UNCHANGED <<row, terminal>>
  /\ UNCHANGED <<durable, registry, lifecycle, revoking, secret, epoch, gen, replaced,
                 notified, admin, restarts, unattended>>

HeartbeatCommit(s) ==
  /\ At(s, "beaten")
  /\ CommitOnline
  /\ Goto(s, "serving")
  /\ UNCHANGED <<registry, lifecycle, revoking, secret, epoch, lease, notified, admin, restarts, unattended>>

\* The loop ends because the lease is gone: a frame finds it not current, or
\* the server's close of the socket reaches the reader.
LoseLease(s) ==
  /\ At(s, "serving")
  /\ ~IsCurrent(s)
  /\ Goto(s, "releasing")
  /\ UNCHANGED <<durable, row, registry, lifecycle, revoking, secret, epoch, lease,
                 notified, admin, restarts, unattended>>

\* The peer disconnects, or sends a frame that closes the socket (close_owned
\* retires the lease before the release).
EndLoop(s) ==
  /\ At(s, "serving")
  /\ \/ UNCHANGED terminal
     \/ Retire(s)
  /\ Goto(s, "releasing")
  /\ UNCHANGED <<durable, row, registry, lifecycle, revoking, secret, epoch, gen, replaced,
                 notified, admin, restarts, unattended>>

\* An exception or a cancellation after the claim: roll back, leave the locks,
\* retire the lease, and go to the finally clause.
HandlerFails(s) ==
  /\ pc[s] \in Faults \cap OwnedSteps
  /\ RollBack(s)
  /\ lifecycle' = IF lifecycle = s THEN None ELSE lifecycle
  /\ Retire(s)
  /\ Goto(s, "releasing")
  /\ UNCHANGED <<durable, registry, revoking, secret, epoch, gen, replaced, notified,
                 admin, restarts, unattended>>

\* Another task (a command dispatch, a conversation worker) fails to write to
\* the published socket: _send retires the lease and closes the socket.
ForeignSendFails(s) ==
  /\ IsCurrent(s)
  /\ Retire(s)
  /\ UNCHANGED <<durable, row, registry, lifecycle, revoking, pc, secret, epoch, gen,
                 replaced, notified, admin, restarts, unattended>>

-----------------------------------------------------------------------------
(* _release_ownership *)

BugOwns(s) == conns # None
\* unregister removes only the matching socket and generation.
Owns(s) == conns = s

Unregister(s) ==
  /\ At(s, "releasing")
  /\ IF Owns(s)
     THEN conns' = None /\ Retire(s) /\ Goto(s, "unregistered")
     ELSE Goto(s, "superseded") /\ UNCHANGED <<conns, terminal>>
  /\ UNCHANGED <<durable, row, generation, authEpoch, lifecycle, revoking, secret, epoch,
                 gen, replaced, notified, admin, restarts, unattended>>

BugNotifyDevice(s) == {conns}
BugNotifyRemoved(s) == IF conns = None THEN {s} ELSE {}
\* unregister finishes the predecessor's retirement too, in case this handler
\* was cancelled between its claim and close_replaced.
ReleaseNotifies(s) == {s, replaced[s]}

NotifyRelease(s) ==
  /\ pc[s] \in {"unregistered", "superseded"}
  /\ Notify(ReleaseNotifies(s))
  /\ Goto(s, IF At(s, "unregistered") THEN "offlineWait" ELSE "closed")
  /\ UNCHANGED <<durable, row, registry, lifecycle, revoking, secret, epoch, lease, admin,
                 restarts, unattended>>

\* can_mark_offline under the lifecycle lock, which stays held for mark_offline.
CanMarkOffline(s) ==
  /\ At(s, "offlineWait")
  /\ LifecycleFree
  /\ IF conns = None /\ generation = gen[s]
     THEN lifecycle' = s /\ Goto(s, "offlining")
     ELSE Goto(s, "closed") /\ UNCHANGED lifecycle
  /\ UNCHANGED <<durable, row, registry, revoking, secret, epoch, lease, notified, admin,
                 restarts, unattended>>

\* mark_offline: only an ONLINE device changes.
MarkOffline(s) ==
  /\ At(s, "offlining")
  /\ RowFree
  /\ status' = IF status = "ONLINE" THEN "OFFLINE" ELSE status
  /\ lifecycle' = None
  /\ Goto(s, "closed")
  /\ UNCHANGED <<credential, stale, row, registry, revoking, secret, epoch, lease,
                 notified, admin, restarts, unattended>>

\* mark_offline raises: the handler rolls back and ends without a retry.
MarkOfflineFails(s) ==
  /\ At(s, "offlining")
  /\ "offlining" \in Faults
  /\ lifecycle' = None
  /\ Goto(s, "closed")
  /\ unattended' = TRUE
  /\ UNCHANGED <<durable, row, registry, revoking, secret, epoch, lease, notified, admin,
                 restarts>>

-----------------------------------------------------------------------------
(* Administrative requests: one locked transaction, then the after_commit hook.
   The row is released by the commit, before the hook runs in the event loop. *)

Rotate(a) ==
  /\ admin[a] = "waiting" /\ "rotate" \in Operations
  /\ RowFree
  /\ credential' = credential + 1
  /\ status' = "PROVISIONING"
  /\ admin' = [admin EXCEPT ![a] = "committed"]
  /\ UNCHANGED <<stale, row, registry, lifecycle, revoking, pc, secret, epoch, lease,
                 notified, restarts, unattended>>

Disable(a) ==
  /\ admin[a] = "waiting" /\ "disable" \in Operations
  /\ RowFree
  /\ status' = "DISABLED"
  /\ admin' = [admin EXCEPT ![a] = "committed"]
  /\ UNCHANGED <<credential, stale, row, registry, lifecycle, revoking, pc, secret, epoch,
                 lease, notified, restarts, unattended>>

Enable(a) ==
  /\ admin[a] = "waiting" /\ "enable" \in Operations
  /\ RowFree
  /\ status' = "OFFLINE"
  /\ admin' = [admin EXCEPT ![a] = "done"]
  /\ UNCHANGED <<credential, stale, row, registry, lifecycle, revoking, pc, secret, epoch,
                 lease, notified, restarts, unattended>>

\* revoke_access, from the hook: raise the epoch, retire and remove the exact
\* current lease, spawn the task that closes its socket and notifies.
RevokeAccess(a) ==
  /\ admin[a] = "committed"
  /\ authEpoch' = authEpoch + 1
  /\ conns' = None
  /\ terminal' = [t \in Sockets |-> terminal[t] \/ t = conns]
  /\ revoking' = revoking \cup ({conns} \ {None})
  /\ admin' = [admin EXCEPT ![a] = "done"]
  /\ unattended' = (unattended \/ (conns # None /\ (status = "ONLINE" \/ row # None)))
  /\ UNCHANGED <<durable, row, generation, lifecycle, pc, secret, epoch, gen, replaced,
                 notified, restarts>>

\* The task spawned by revoke_access, or the loop of close_all.
FinishRevocation(s) ==
  /\ s \in revoking
  /\ revoking' = revoking \ {s}
  /\ Notify({s})
  /\ UNCHANGED <<durable, row, registry, lifecycle, pc, secret, epoch, lease, admin, restarts, unattended>>

-----------------------------------------------------------------------------
(* Time, the maintenance loop, shutdown and restart *)

Age ==
  /\ status = "ONLINE" /\ ~stale
  /\ stale' = TRUE
  /\ UNCHANGED <<status, credential, row, registry, lifecycle, revoking, pc, secret, epoch,
                 lease, notified, admin, restarts, unattended>>

BugIsStale == status = "ONLINE" /\ ~stale
\* The rows that mark_stale_devices_offline selects.
IsStale == status = "ONLINE" /\ stale

\* mark_stale_devices_offline; SKIP LOCKED passes over a row in use.
StaleMonitor ==
  /\ RowFree
  /\ IsStale
  /\ status' = "OFFLINE"
  /\ UNCHANGED <<credential, stale, row, registry, lifecycle, revoking, pc, secret, epoch,
                 lease, notified, admin, restarts, unattended>>

\* close_all, at application shutdown (only when a restart may follow).
CloseAll ==
  /\ restarts < MaxRestarts
  /\ conns # None
  /\ conns' = None
  /\ terminal' = [terminal EXCEPT ![conns] = TRUE]
  /\ revoking' = revoking \cup {conns}
  /\ unattended' = TRUE
  /\ UNCHANGED <<durable, row, generation, authEpoch, lifecycle, pc, secret, epoch, gen,
                 replaced, notified, admin, restarts>>

\* The process dies and starts again: memory is lost, open transactions roll
\* back, hooks that had not run never will, and the durable row stays.
Restart ==
  /\ restarts < MaxRestarts
  /\ restarts' = restarts + 1
  /\ row' = None
  /\ conns' = None
  /\ generation' = 0
  /\ authEpoch' = 0
  /\ lifecycle' = None
  /\ revoking' = {}
  /\ pc' = [s \in Sockets |-> IF pc[s] = "idle" THEN "idle" ELSE "closed"]
  /\ gen' = [s \in Sockets |-> 0]
  /\ terminal' = [s \in Sockets |-> FALSE]
  /\ replaced' = [s \in Sockets |-> None]
  /\ notified' = [s \in Sockets |-> FALSE]
  /\ admin' = [a \in Requests |-> IF admin[a] = "committed" THEN "done" ELSE admin[a]]
  /\ secret' = [s \in Sockets |-> 0]
  /\ epoch' = [s \in Sockets |-> 0]
  /\ unattended' = (status = "ONLINE")
  /\ UNCHANGED durable

\* Every attempt was served and nothing is left to do.
Quiescent ==
  /\ \A s \in Sockets : pc[s] = "closed"
  /\ \A a \in Requests : admin[a] # "committed"
  /\ UNCHANGED vars

-----------------------------------------------------------------------------

\* What the handler's own task does once the locks it waits for are free.
HandlerStep(s) ==
  \/ VerifyChallenge(s) \/ Claim(s) \/ ClaimRefused(s)
  \/ MarkOnlineLock(s) \/ MarkOnlineCommit(s) \/ CloseReplaced(s) \/ CheckOwnership(s)
  \/ StageOnline(s) \/ SendAuthOk(s) \/ CommitAuth(s)
  \/ HeartbeatLock(s) \/ HeartbeatCommit(s) \/ LoseLease(s)
  \/ Unregister(s) \/ NotifyRelease(s) \/ CanMarkOffline(s) \/ MarkOffline(s)

\* Those of them that queue for the row lock.
RowStep(s) ==
  VerifyChallenge(s) \/ MarkOnlineLock(s) \/ StageOnline(s) \/ HeartbeatLock(s) \/ MarkOffline(s)

\* What the peer, the network, the database and other tasks may do to it.
HandlerInput(s) ==
  \/ Hello(s) \/ AuthResponse(s) \/ AbandonHandshake(s) \/ ReceivePresence(s)
  \/ EndLoop(s) \/ HandlerFails(s) \/ ForeignSendFails(s) \/ MarkOfflineFails(s)

AdminStep(a) == Rotate(a) \/ Disable(a) \/ Enable(a) \/ RevokeAccess(a)

Next ==
  \/ \E s \in Sockets : HandlerStep(s) \/ HandlerInput(s) \/ FinishRevocation(s)
  \/ \E a \in Requests : AdminStep(a)
  \/ Age \/ StaleMonitor \/ CloseAll \/ Restart \/ Quiescent

Spec == Init /\ [][Next]_vars

\* Tasks run until they end (the event loop starves none), hooks and spawned tasks
\* run, and the maintenance loop repeats.  A row that heartbeats lock again and
\* again still reaches every waiter, because PostgreSQL queues them in order:
\* hence strong fairness there.  Nothing is assumed of peers or administrators.
Fairness ==
  /\ \A s \in Sockets : /\ WF_vars(HandlerStep(s))
                          /\ SF_vars(RowStep(s))
                          /\ WF_vars(FinishRevocation(s))
  /\ \A a \in Requests : WF_vars(RevokeAccess(a))
  /\ WF_vars(Age) /\ WF_vars(StaleMonitor)

FairSpec == Spec /\ Fairness

-----------------------------------------------------------------------------
(* Safety *)

\* A revocation fences the handshakes it overtakes (connections.py, claim and
\* revoke_access): the published lease proved the credential that is active now,
\* or a committed revocation is about to remove it.
LeaseFence == conns # None => secret[conns] = credential \/ HookPending

\* Presence never resurrects a disabled device (presence.py tests DISABLED under
\* the row lock of the transaction that writes ONLINE): whatever handshake,
\* heartbeat, ack or result is in flight, only an administrator leaves DISABLED.
DisabledStaysDisabled == [][status = "DISABLED" => status' # "ONLINE"]_vars

\* A handler that decided to mark the device offline does so before any new lease
\* is published (the lifecycle lock spans can_mark_offline and mark_offline, and
\* also claim): a late cleanup never writes OFFLINE under a live successor.
NoOfflineUnderOwner == \A s \in Sockets : At(s, "offlining") => conns = None

\* The coordinator is told of a disconnection only for a lease that was retired
\* and is no longer published: a notification never ends the conversation of
\* the current owner (notify_disconnect and its three callers).
OnlyRetiredNotified == \A s \in Sockets : notified[s] => terminal[s] /\ conns # s

\* A device that the database shows ONLINE has a published lease, or the handler
\* of the latest generation is on its way to mark it offline (_release_ownership);
\* the only exceptions are the four that set "unattended": a crash, the shutdown,
\* a failing mark_offline, and a heartbeat that overtakes a revocation's hook.
OnlineHasOwner ==
  status = "ONLINE" =>
    \/ conns # None
    \/ \E s \in Sockets : /\ pc[s] \in {"unregistered", "offlineWait", "offlining"}
                           /\ gen[s] = generation
    \/ unattended

\* docs/architecture.md:173-174: presence revalidates the lease under the row
\* lock, so that a heartbeat from before a rotation cannot restore ONLINE.
HeartbeatRespectsRotation ==
  [][\A s \in Sockets :
       At(s, "beaten") /\ pc'[s] = "serving" /\ status = "PROVISIONING"
         => secret[s] = credential]_vars

-----------------------------------------------------------------------------
(* Liveness, under Fairness *)

\* When the device is gone for good, the database stops showing it ONLINE for
\* good, whatever was in flight: the stale monitor repairs the rows that a crash,
\* a shutdown, a failed mark_offline or an overtaking heartbeat left behind, and
\* no late commit brings them back.
PresenceConverges == <>[](conns = None) => <>[](status # "ONLINE")

\* Whoever retires a lease (a successor, a revocation, a failed write, its own
\* handler, the shutdown), the coordinator is told, unless the process dies.
RetiredLeaseNotified ==
  \A s \in Sockets : []<>(gen[s] # 0 /\ terminal[s] => notified[s])

\* The lifecycle and row locks never leave a handler waiting for ever: after its
\* claim it reaches the message loop or ends.
HandlerSettles ==
  \A s \in Sockets : []<>(pc[s] \notin (OwnedSteps \ {"serving"}) \cup ReleaseSteps)
=============================================================================
