# Verification of HomeSmartHub

TLA+ models of HomeSmartHub, the model-checking runs that exercise them and the
theorems proved about them. HomeSmartHub is a smart doorbell ("portero"): a
FastAPI backend with PostgreSQL, a Next.js panel with a browser simulator, a
Python simulator of the device, and firmware for an ESP32-P4. Paths below are
relative to the repository; `backend/app/` is shortened to `app/`.

## 1. The system

One backend process serves every device and every browser. It is a single
asyncio event loop: code between two awaits is atomic, everything else
interleaves. Durable state is in PostgreSQL, where row locks (`SELECT ... FOR
UPDATE`) serialise transactions; leases, conversations and dispatches in
progress live in memory and die with the process.

| Component | State | Operations | Talks to |
|---|---|---|---|
| Connection registry (`app/devices/connections.py`) | per device: published connection, generation, authorization epoch, lifecycle lock; per connection: terminal flag, upload token, close and cleanup tasks | `claim`, `close_replaced`, `unregister`, `is_current`, `can_mark_offline`, `revoke_access`, `notify_disconnect`, `_send`, `close_all` | sockets; tells the coordinator of retired leases |
| Socket handler (`app/websocket/device.py`) | one task per socket: step of the handshake, its lease, `last_seq` | handshake, message loop, `_release_ownership` | all of the components of this table |
| Presence (`app/devices/presence.py`) | `devices.status`, `last_seen_at` | `mark_online`, `stage_online_for_auth`, `record_heartbeat`, `record_status`, `mark_offline`, `mark_stale_devices_offline` | asks the registry whether the lease is current, under the row lock |
| Challenges, credentials, access (`app/devices/challenges.py`, `credentials.py`, `access.py`) | nonces, credentials, pending revocations of a transaction | `verify_challenge`, `rotate_device_secret`, `set_device_enabled`, `after_commit` hook | the hook calls `registry.revoke_access` |
| Conversation coordinator (`app/ai/conversation_coordinator.py`, `app/services/conversations.py`) | per device: one `ActiveConversation` with provider session, workers, queues, causes of its end, finalizer; durable conversation row and events | `start`, `stop`, `disconnect`, `receive_audio`, `_fail`, `_finalize`, `shutdown` | registry (is the lease current?), provider, transport, database |
| Commands (`app/devices/commands.py`, `app/api/routes/commands.py`) | `device_commands` rows, events and audit; in-process tracker of dispatches | `create_and_dispatch_command`, `acknowledge_command`, `complete_command`, `expire_commands` | registry (`send_json`), handlers (replies), maintenance loop |
| Application lifecycle (`app/main.py`) | maintenance tasks | start, `maintenance_loop`, ordered shutdown | all |
| OpenAI realtime session (`app/ai/openai_realtime.py`) | provider socket, pending read, pending cancels, close task | `open_session`, `events`, `send_audio`, `cancel_response`, `close` | coordinator |
| PAUD audio frames (`app/devices/audio_protocol.py`) | none | encode, decode | handler, coordinator |
| Media (`app/api/routes/media.py`, `app/media/storage.py`) | JPEG files and rows | upload with the token of a lease, download | registry (`verify_upload_token`), commands |
| Users, web sessions, permissions, administrative API (`app/services/users.py`, `app/auth/`, `app/api/routes/`) | rows | request-scoped transactions | credentials, commands |
| Web panel and web simulator (`frontend/lib/`) | React state; socket, capture and playback buffers | resource loading; reconnect, start, stop, play | API, device socket |
| Device simulator (`tools/device_simulator/`) | one connection at a time: sequence, send lock, heartbeat and command tasks, refresh of the upload token | `run_forever`, `_serve_commands`, `_handle_capture` | device socket, media upload |
| Firmware (`firmware/components/`, `firmware/esp32-p4/`) | NVS configuration slots; transport, timers, sequence; conversation and audio queues | provision, connect, heartbeat, ring, start and stop audio | device socket |

What is hard, and what makes each part correct:

* **Registry, handler and presence.** Several sockets of the same device
  compete, administrators revoke, writes fail, handlers are cancelled at any
  await. Correct: a revoked credential never ends up owning the device; a late
  cleanup never harms a successor; ONLINE in the database corresponds to an
  owner and is eventually repaired when there is none; the coordinator hears of
  every retired lease and of no current one; no lock is left behind.
* **Coordinator.** A start takes several awaits during which the lease may be
  lost; a visitor, a timer, a worker and a disconnection may end a conversation
  together; commits are ambiguous and cleanups fail. Correct: one conversation
  per device; nothing leaks; the end is recorded exactly once; the device is told
  the truth; shutdown returns.
* **Commands.** The device may answer before the send returns; replies are
  duplicated or contradict one another; expiry runs beside them; requests are
  cancelled. Correct: the audit trail is a path of the protocol's state
  machine, terminal statuses are final, SENT means sent, waiting ends.
* **Configuration store of the firmware.** A save is ten flash operations, any of
  which may fail or be the last before the power goes. Correct: a boot loads one
  whole configuration, never older than the last that was acknowledged, and
  what is reported as provisioned loads.
* **Audio path.** Five workers share two bounded queues, a provider session and
  the one writer of the device's socket; a barge-in, an overflow, a timer, the
  provider or the loss of the socket may interrupt any of them inside any await.
  Correct: what a visitor spoke over is never heard again; a retired connection
  is written to no more; an overflow clears the device once; the end leaves no
  worker, no audio and no connection to the provider; benign answers of the
  provider end nothing.
* **Captures.** The request and the replies travel on the WebSocket, the image on
  HTTP; tokens expire, connections are replaced, commits are ambiguous. Correct:
  a completed capture has its image; files and rows agree; the device leaves no
  request behind when it reauthenticates, and its sequence always grows.
* **Firmware transport and conversation, web simulator.** Tasks that share buffers,
  timers and a reconnection. Not modelled (section 8).

## 2. Modules

| Module | Role |
|---|---|
| `DeviceConnections` | handlers, registry, presence row and administrative requests of one device |
| `ConversationLedger` | abstract specification: what the coordinator promises, without tasks, locks and messages |
| `ConversationCoordinator` | the coordinator of one device; refines `ConversationLedger` |
| `CommandLifecycle` | commands of a device: dispatch, replies, expiry |
| `SocketWriter` | the tasks that send to one device connection: admission, send lock, cuts and failures |
| `RealtimeSession` | one session with the provider: opening, events, cancels, close |
| `ConversationAudio` | the workers of one conversation, its queues and its finalizer; composes the two modules above |
| `DeviceSimulator` | the command-line device across its reconnections |
| `MediaUpload` | the upload of a capture: request, file, row |
| `CameraCapture` | a capture from end to end; composes the two modules above with the backend's replies |
| `DeviceConfigStore` | the configuration a device keeps in flash, its saves and its boots |
| `..._proofs` | the theorems of `DeviceConnections`, `ConversationCoordinator`, `CommandLifecycle`, `ConversationAudio`, `CameraCapture` and `DeviceConfigStore`, each in a module of its own |
| `MC...` | instances for TLC, with symmetry sets where they are sound |

Each module describes **one device**, because every dictionary of the registry
and of the coordinator is keyed by device and no operation relates two keys
(shutdown visits all of them, independently). The composition is through the
lease: `ConversationCoordinator` keeps of `DeviceConnections` only the published
lease, as a number that grows with every claim, may be retired at any time, and
whose retirement is notified once, later; `DeviceConnections` shows
(`RetiredLeaseNotified`, `OnlyRetiredNotified`) that the registry keeps that
interface. `CommandLifecycle` needs nothing of the registry but a send that
succeeds or fails. `ConversationAudio` takes from `DeviceConnections` the same lease
(`Terminal`, `RetiredOutside`, `DisconnectNotified`), and from `ConversationCoordinator`
one started conversation: what that module has as `workers` and `Fail` is here five
workers, two queues and the causes of a failure. `CameraCapture` takes from
`CommandLifecycle` the order of the replies, as one step per reply. `DeviceConfigStore` shares nothing with the others: it ends where
the device opens its socket.

### DeviceConnections

`pc[s]` is the await a handler is in. Steps with the row locked are separate from
the ones that lock it (`MarkOnlineLock` / `MarkOnlineCommit`, `StageOnline` /
`SendAuthOk` / `CommitAuth`, `HeartbeatLock` / `HeartbeatCommit`), since the lease
can be lost between them. `row` is the holder of the row lock, `lifecycle` that of
`registry.lifecycle(device)`. `Rotate` and `Disable` commit and free the row; the
`after_commit` hook is the later step `RevokeAccess`, because the database
answers the COMMIT before the event loop runs the hook. `HandlerFails` is any
exception or cancellation after the claim, `ForeignSendFails` a write of another
task that retires the lease. `Restart` forgets memory and rolls back open
transactions. `unattended` is a history variable: it records the four causes
after which ONLINE may have no owner, so that `OnlineHasOwner` cannot hold for
any other reason.

`verify_challenge` tests DISABLED on the object that the session loaded at the
hello (the select does not refresh loaded objects), so the model gives that test
no effect; the epoch and presence's own test carry the guarantee.

Not modelled: the digest and the single use of the nonce (the peer signs with
some version of the secret), the server's check of sequence numbers, upload
tokens (`CameraCapture` has them), the writer that `ForeignSendFails` stands for
(`SocketWriter` has it), and a second cancellation inside `_release_ownership` other than at `mark_offline`.

### ConversationCoordinator

`pc[a]` is the await of a start attempt and `closer[a]` that of its finalizer;
`callers[a]` are the tasks about to call `_ensure_closed`: any of them starts the
finalizer or joins the one that runs, and after a failure the next starts
another. `Mark` keeps the first stop reason, `MayFail` repeats the guard of
`_fail` under the lock. `CommitFails` and `SettleFails` leave both outcomes of an
ambiguous commit. A handler awaits `start`, so its messages (`Stop`) come when
that call has ended; a disconnection comes at any time. `_cancel_start` is not
modelled: the handler runs `start` in a task of its own and shields it, so no
route cancels it. The five workers are one flag, and whatever can make one of
them fail (a timer, the provider, a queue, the transport) is `Fail`; `ConversationAudio`
opens that up. The object of
a released attempt is forgotten after its last message, when nothing uses it.

### ConversationLedger

Six steps (reserve, open, record, end, settle, release) and the loss of the
process. `LedgerSpec` in `ConversationCoordinator` instantiates it with `holder
<- active` and the other variables under their own names, and the run
`conversation_safety` checks that every step of the coordinator is one of its
steps or changes nothing it can see. The process may be lost at any time, so the ledger
by itself promises nothing of a session or a row that a step forgets:
`NothingLeaked` and `RestartClosesConversation` are about those.

### CommandLifecycle

`lock[k]` is the holder of the row of a command. A dispatch commits PENDING,
sends, and takes the row again to record the outcome; an ACK that finds a
dispatch in progress waits for its result (`Resolve`) and may add the edge to SENT
itself; expiry selects with SKIP LOCKED. `Deliver` is independent of the result
of the send: the frame may arrive although the send raised. `trail` is the set of
statuses with an event and an audit entry. Each task may die at any await, which
includes the death of the process.

### SocketWriter

`sending[w]` is where the send of one task is: its child task was created (`"new"`),
it queues for `send_lock`, it holds the lock (`"writing"`), the socket has its message
(`"written"`), `_send` has returned (`"ok"`). `Enter` is the first turn of the child, with
the test of the lease and the admission bound; `Acquire` the test again with the lock
held, the last one before the socket: `Write` looks at nothing. `retire()` cancels the
send that holds the lock, so that `RetiredOutside` and every failure take the holder with
them (`CutShort`), also one whose message the socket already has. Every exception of a
child retires the connection before anything else can run, and so does its cancellation
(`Cut`) once it has begun; a child cancelled before its first turn never enters `_send`.
`cause` keeps the first reason of the retirement. The close of the socket itself is
outside.

### RealtimeSession

`stage` is the await of `open_session`, `stream` that of the event generator, `cleanup` the
shared close task. `close` may be asked by the generator, by a failing send, by the
finalizer and by the cancelled consumer; the first creates the cleanup and all of
them join it, while the cleanup joins only the pending read (`JoinsRead`). The
provider is external: it answers in order, one response at a time, and reports a
cancel without a response with the id of that cancel. `forgotten` is a history
variable: cancels that the session no longer knows when their answer comes. The
correlated error is taken to be well formed; one that is not is fatal by design.

### ConversationAudio

`events`, `sender` and `pump` are the awaits of `_provider_events`, `_output_sender` and
`_input_pump`, `finalizer` that of `_finalize`; the two timers are the failures of `Ends`,
which do not look at the lease. A frame is the set
of responses whose samples it holds: one may end in the middle of a frame and
the next begin there, unless `residual` is emptied, which is what `SilencedStaysSilent` is
about. `CancelWorkers` cancels all of the workers in one step and says what each
was cut in: a control message is cut, a frame is joined (`finish_on_cancel`), a read
of the event stream unwinds the generator, a response cancel is given up. The worker
takes a control message that was cut for a failed one and goes on, so that its
cancellation is spent: it ends because its loop tests `closing` before the next event
(`Continue`), which is what `CancelledWorkersEnd` is about. The
`reason` keeps of the stop reasons and codes only whether there is a code and
whether it is `AUDIO_OUTPUT_OVERFLOW`. `silenced`, `clears` and `cause` are history.
Left out: the identity of streams and their sequence numbers (one conversation),
the content of transcripts, and messages of the socket handler that begin once the
conversation is closing (a bound).

### DeviceSimulator, MediaUpload, CameraCapture

`place[s]` is where the frame of a sender is: queued for the send lock, being written,
sent or failed. The frame has its number from the moment the lock is held. A
cancelled send may or may not have gone out. `clock` says whether the upload token
is fresh, due for a refresh or expired; `Drained` is the test with which
`_serve_commands` leaves. `owed` and `left` are history variables: a request is owed its
answer from the moment it was received until the socket took a rejection or its
result, and a task whose send fails (`TaskDies`) is only logged and leaves its request
owed. The answer to a status request is two frames, the snapshot (`Reports`) and the
result. In `MediaUpload` a
request is checked once, then streams into a temporary file that a rename
publishes, then commits; `CommitFails` leaves both outcomes of the commit, and
removes the file unless the rollback before it fails or is cancelled or the removal
fails, which leaves a file without a row (`stranded`, with the requests of a backend
that stops: nothing collects such files). `BackendStops` leaves requests where they are. `CameraCapture` sends the
replies through `uplink`, a queue that a reconnection empties, and lets the upload
be checked before or after the acknowledgement is read. `CommandEnds` is expiry.
Left out: what the frames contain, back-off delays, the second check of the token
while the image is loaded (`CaptureFails` and the guard of `UploadBegins` cover its
outcomes), concurrent uploads for one command, which the device never makes, and the
download.

### DeviceConfigStore

The keys of NVS are `ptr` (`active`), `ok`, `gen` and `data`; `pc` is the write a save
is about to do, one action per write in the order of `device_config_save`, and
`SaveFails` leaves the writes done so far at any of them. NVS itself is external: a
set is durable when it returns and sets keep their order, so a commit changes no
key and a failing commit is a failure before the next write. (Were writes lost from
the last one backwards until their commit, a cut would only look like an earlier
cut.) `PowerCut` may come in any state. `GotIp` is the fork of `app_main.c` between the
portal and the backend; `stuck` is its third way out, logged and left by nothing
but a new link, which `ProvisionedAgrees` shows is never taken. The requests of the
portal are served one at a time by the server's task; stopping the server waits for
it, hence the guard `pc = "idle"` of `LinkDown`, `Restart` and `FactoryReset`.
`SavingModes` says when a client may save: in the program only the portal does,
also again while its restart is pending; the tests, and the reprovisioning that the
design asks for, also do on a provisioned device. `acked` and `later` are history
variables.

Left out: the three validations (`Configs` are the configurations that pass them),
failing allocations, a power cut in the middle of the factory reset, whose
outcome depends on where the library placed the entries, and the erasure of the whole
partition at a boot that finds it without free pages or written by a newer library
(`app_main.c:217-220`): such a boot loses the configuration as a factory reset does, and
`AcknowledgedSurvives` says nothing of it.

## 3. Runs

| Run | Instance | Question | Result |
|---|---|---|---|
| `registry_safety` | 2 sockets, 2 requests of any kind, every handler fault, 1 restart; symmetry; 1.08 M states | type, `LeaseFence`, `NoOfflineUnderOwner`, `OnlyRetiredNotified`, `OnlineHasOwner`, `DisabledStaysDisabled` | hold |
| `registry_liveness` | 2 sockets, 1 rotation or disable, 7 faults, 1 restart; 0.22 M states | `PresenceConverges`, `RetiredLeaseNotified`, `HandlerSettles` | hold |
| `registry_rotation` | 1 socket, 1 rotation | `HeartbeatRespectsRotation` | **violated**, section 6 |
| `conversation_safety` | 2 attempts, 2 leases, failing open, send, close and settle, ambiguous commits, 1 crash; symmetry; 2.4 M states | `NothingLeaked`, `WorkersFenced`, `FailureRecordedOnce`, `EndedIsDurable`, `ShutdownClean`, `LateDisconnectHarmless`, refinement of the ledger | hold |
| `conversation_liveness` | 2 attempts, 1 lease, missing configuration, failing open and close; 55 k states | `ClosingSettles`, `RetiredLeaseReleased`, `ShutdownEnds` | hold |
| `conversation_restart` | 2 attempts, 1 crash, no other fault | `RestartClosesConversation` | **violated**, section 6 |
| `commands` | 1 command, 2 handlers, 2 payloads, 4 replies, every task may die; 24 k states | type, `TrailIsPath`, `SentMeansDelivered`, `TerminalIsFinal`, `WaitersReleased`, `CommandsEnd` | hold |
| `audio_safety` | 1 conversation, 4 writers with room for 2, queues of 1 frame, 2 responses, 4 further events of which 1 on its way, 1 remembered cancel; 3.1 M states | type, `SilencedStaysSilent`, `CancelledWorkersEnd`, `OverflowClearedOnce`, `EndLeavesNothing`, `OnlyForgottenCancelsFail`, `SilentAfterRetire` | hold |
| `audio_overflow` | the same | `OverflowKeepsSocket` | **violated**, section 6 |
| `camera_capture` | 1 capture and 1 status request, 2 connections, 1 heartbeat, 1 fault; 3.4 M states | `FrameOrder`, `RefreshOwesNothing`, `FileMatchesRow`, `CompletedHasMedia` | hold |
| `config_store` | 3 configurations, 4 generations, saves also on a provisioned device; symmetry; 33 k states | type, `NoMixture`, `ProvisionedAgrees`, `AcknowledgedSurvives` | hold |
| `config_provisioned` | 1 configuration, portal only | `ProvisionedWhenComplete` | **violated**, section 6 |

Why these bounds are enough: every interference in this code is between a task
and the one that replaces it, or between a task and an administrator, a
notification or a timer; two of each give all orders of a pair, and two requests
let a revocation follow another or an enable undo a disable. The second lease
makes a late notification possible, the second attempt a start that joins the
end of its predecessor. Three replies give an ACK, a RESULT and a duplicate or a
contradiction, and a fourth the other handler's answer to it; commands share
nothing but the handlers, so one is enough. Queues of one frame reach
their limit at once and still hold a frame while another is sent; two responses are
the one spoken over and its successor; four writers with room for two make the
admission bound bite; one remembered cancel makes the next one forget it. One
capture and one request that is none share the device's lock and loop; two
connections give a request that outlives its own. One restart separates what is durable from what is not; a second
one starts from the same kinds of state. Three configurations tell the
acknowledged one, the one being written and what was in its slot apart, and four
generations let both slots be filled twice, so that a generation out of step
with the pointer has a later save to mislead. Symmetry is used only where no liveness
property is checked. Each property has a mutation of the model, of a kind a
plausible mistake in the code would be (a dropped guard, a missing notification,
a swapped row), that makes its run fail; those are the definitions named `Bug...`.

Every run checks for deadlock, except `conversation_restart`, whose only subject
is a device that stops. `Quiescent` and `Exited` are the states in which the
bounded system has nothing left to do.

## 4. Fairness

* Tasks are weakly fair: the event loop is a FIFO of ready callbacks and starves
  none; awaits on sockets and on the provider have time limits in the code
  (`send_timeout_seconds`, `close_timeout_seconds`, `_bounded_io`), whose expiry is
  one of the faults.
* Steps that wait for a row lock are strongly fair: others may take the row again
  and again, but PostgreSQL queues waiters in order.
* The commit of an expiry (`ExpireCommit`) is strongly fair although an iteration may
  fail before it: `maintenance_loop` runs another, and a database that fails every
  iteration for ever is not assumed.
* The rounds of `shutdown` are strongly fair: each joins a snapshot of the tasks
  that exist, so later ones do not delay it.
* Time passes (`Age`) and the maintenance loops repeat, as `maintenance_loop`
  catches every exception of an iteration.
* Nothing is assumed of devices, visitors, administrators, faults or crashes: none
  of their actions is fair.
* `DeviceConfigStore`, `ConversationAudio` and `CameraCapture` state no liveness and need
  no fairness.

## 5. What is proved

Every safety property and every action property that a passing run checks is a
theorem, and so is the refinement of the ledger. They hold for **every** value of
the constants that satisfies the named assumptions of the modules: bounds are
numbers (those of queues and tables positive), faults and operations are known
ones, names that must differ do. Where a queue or a table has a limit in the code,
the theorem holds for any limit.

Almost none of the properties is inductive. Each proofs module first defines its
inductive invariant `IInv` as a conjunction of named parts, shows with one step per
action that they are preserved (`Inductive`, or lemmas named `...Step`), and
derives its theorems from `Invariant`. The parts are what the code relies
on without saying so.

`DeviceConnections_proofs`: `TypeCorrect`, `LeaseFenced`, `OfflineOnlyUnowned`,
`NotifiedAreRetired`, `OnlineOwned`, `DisabledPersists`.

* *locks* (`LockStep`): a handler in a step that holds the row, or the lifecycle
  lock, is the recorded holder; without it two handlers could be inside;
* *fence* (`FenceStep`): epochs only grow, a handler that verified with a current
  epoch verified with the active credential unless a hook is pending; this is
  what `LeaseFence` needs from the steps before the claim;
* *leases* (`LeaseStep`): the published lease has the latest generation, leases
  of handlers are distinct and not above it, and whoever was replaced, revoked
  or notified is terminal;
* *owners* (`OwnerStep`): where a handler of the latest generation must be while the
  row is ONLINE and nothing is published.

`DisabledPersists` is an action property and follows step by step from the lock
invariant.

`ConversationCoordinator_proofs`: `NeverLeaked`, `WorkersStayFenced`, `FailureOnce`,
`EndedStaysDurable`, `ShutdownIsClean`, `LateDisconnectIsHarmless`, `TypeCorrect`, and
the refinement `ImplementsLedger`.

* `PhaseInv`: what the await of an attempt implies. A preparing one has left no
  trace; an initialising one (`InitializingInv`) holds the reservation, and whether
  it has a session, a row, an object that `_ensure_closed` finds, can be read off its
  await; a ready one is reserved (`ReservedInv`: a settling finalizer has closed the
  session, a releasing one has no open row, a settled row already has its failure
  and its event) or released (`ReleasedInv`);
* `WorkersInv`: workers live from the end of the start to the first step of a
  finalizer; `RecordInv`: an event is written only when the row is settled, and an
  attempt about to commit finds no other open row;
* `LeaseInv`: a start keeps the lease it was asked with, and a clean shutdown leaves
  no reservation.

The refinement is one step per action: each is a step of the ledger (`Reserve`,
`Commit` and its ambiguous failure, `Settle`, `Release`, ...) or leaves its five
variables alone. It needs `IInv` where the guard of the ledger is not the guard of the
code: the coordinator releases when its finalizer arrives there, the ledger only
when nothing is open.

`CommandLifecycle_proofs`: `TrailStaysPath`, `SentIsDelivered`, `TerminalStays`,
`TypeCorrect`.

* `LockInv`: the row of a command is locked by the task whose step says so and by no
  other, so the three who may write a status do so one after the other;
* `HandlingInv`, `DeliveryInv`: before the send returns there is neither an outcome nor
  an edge that needs one, and a reply that waited proves a delivery only after the
  send succeeded. The lemma `ApplyMoves` reduces all that a reply can do to one move
  along an edge, after the edge to SENT when that one is implied.

`ConversationAudio_proofs`: `SilencedForGood`, `WorkersEnd`, `OneClear`,
`NothingIsLeft`, `OnlyForgottenFail`, `RetiredIsSilent`, `TypeCorrect`.

* `QueueInv`, `SendInv`: who is in the queue of the send lock is waiting there, once,
  and a task that is not in a send of its own has none under way; without the second a
  worker could be taken for one whose frame is still being written;
* `SocketInv`: a retired connection has no send that holds its lock. Together with the
  test of `Acquire` it is why nothing is written after a retirement, although the write
  itself looks at nothing (`RetiredIsSilent`); without that test it is not inductive;
* `StageInv`, `FinalizerInv`: what the session's stage and the finalizer's await say of
  the workers, the queues and the socket of the provider; once the workers are
  joined none comes back, and while it joins them none waits for more work
  (`WorkersEnd`);
* `OverflowInv`: one clear for one overflow, sent or lost with the connection;
* `StartsInv`, `SoundInv`: starts of responses come in order, so that one on its way is
  newer than the one being heard, and every sample in a frame, the queue, the
  remainder or the device is newer than what was silenced. While the conversation
  lives, `active` and `pending` say where there is none: this is why `_clear_output` may
  trust the flags;
* `CancelInv`: each cancel has one answer, and until the answer comes its id is in the
  table or in `forgotten`; it needs that a cancel is sent only for the response that
  `current` names.

`CameraCapture_proofs`: `FilesMatch`, `CompletedIsStored`, `FramesInOrder`,
`RefreshIsClean`, `TypeCorrect`.

* `FrameInv`: the frame being written has the latest number the socket does not have;
* `LinkInv`: a send fails only when the connection is lost, so that a task that died of
  it is seen on no connection that still works;
* `LoopInv`: a connection that works owes an answer only to what it executes and to the
  request it holds; a reauthentication starts from nothing owed;
* `FileInv`: the file and the row of a capture can be read off its request, but for
  ambiguous commits and stranded files;
* `ReplyInv`: `completed` is said of a capture, in its task, in `uplink` and in the status,
  only after its upload was created.

`DeviceConfigStore_proofs`: `NeverMixed`, `ReadersAgree`, `AcknowledgedKept`,
`TypeCorrect`. Its `IInv` adds to the type what none of them says: a valid slot is
whole and the active slot is valid (`SlotsInv`); how far a save has come can be read
off the slot it fills, which is never the active one until the pointer moves
(`SaveInv`); and a valid slot younger than the active one is younger than the last
acknowledgement (`HistoryInv`), which is where the generations are needed.
`MaxGeneration` is any number: in the code it stands for the 2^32 saves after which
the counter would wrap.

Only model-checked: liveness under fairness and anything that needs ENABLED
(`PresenceConverges`, `RetiredLeaseNotified`, `HandlerSettles`, `ClosingSettles`,
`RetiredLeaseReleased`, `ShutdownEnds`, `WaitersReleased`, `CommandsEnd`), which the
prover does not handle; and the four violations, which are counterexamples of an
instance. Induction over recursive data is not needed: the modules have no recursive
operator. The type invariants of `ConversationCoordinator` and `CameraCapture` are proved
and listed by no run.

## 6. Findings

1. **A heartbeat from before a rotation can restore ONLINE.**
   `docs/architecture.md:173-174` says that presence revalidates the lease under the
   row lock, which prevents it. The COMMIT of the rotation frees the row before the
   `after_commit` hook retires the lease: a heartbeat waiting for the row finds
   PROVISIONING, which is not DISABLED, and a lease that is still current
   (`presence.py:72`). The consequence is bounded: the lease is retired right
   after, and the stale monitor writes OFFLINE later (`PresenceConverges`).
   DISABLED is immune (`DisabledPersists`). Run `registry_rotation`.
2. **A conversation open at a crash stays open.** `docs/architecture.md:184` says
   that on a restart of the backend the conversation is closed and does not come
   back. Only the finalizer of the process that opened it closes a row, and the
   lifespan reconciles nothing. The partial unique index
   (`app/models/activity.py:58-65`) then refuses the row of every later conversation
   of that device. Run `conversation_restart`.
3. **`is_provisioned` does not see a complete configuration without a pointer.**
   `firmware/components/device_config/include/device_config.h:35` promises true
   "if NVS holds at least one complete, valid configuration". The first save of a
   device, cut between the commit that validates its slot and the pointer, leaves
   one that neither `is_provisioned` nor `load` finds; the generation, which a
   comment (`device_config.c:276-277`) keeps for "when the active pointer is
   unavailable", is not consulted then. The consequence is mild: the portal opens
   again. Run `config_provisioned`.

4. **An overflow can close the device's WebSocket.** `docs/device-protocol-v1.md:402-403`
   says that an overflow closes only the conversation, line 423 that heartbeat and
   WebSocket stay active. The finalizer cancels the provider-events worker; if it
   is inside `_send_control`, its handler of the cancellation cancels the child that
   is sending (`conversation_coordinator.py:197-199`), and a cancelled `_send` retires
   the connection and closes it with 4500 (`connections.py:498-501`), even when it
   was only queueing for the lock. Audio frames are joined for exactly this reason
   (lines 254-257). The same happens with any other end that cancels a worker
   in a control message. Run `audio_overflow`.

Read, and not made a run: line 405 of the same document says that an overflow of the
input cancels the response and clears the audio before it ends the conversation;
`_finalize` does so for an overflow of the output only (line 912).

## 7. Hazards without a property

`PROJECT.json` lists the hazards with the properties that would catch each. Those
without one are: a PENDING command whose dispatch died is never expired (stated as
the exception of `CommandsEnd`); a power cut during the factory reset; and the shared
buffers of the firmware's transport. Three more
are permitted by the code and contradicted by no document: enabling a connected
device writes OFFLINE over ONLINE until the next heartbeat (`credentials.py:131`);
rotating the secret of a disabled device enables it (`credentials.py:109`); and a failed
finalizer waits for the next request (the exception of `ClosingSettles`).

One is covered only in part. `save` takes the slot to fill from the pointer, `load`
from the generations. When a save is cut after its slot became valid, the device
boots with the new configuration; the next save then invalidates that very slot,
and if it is cut too, the boot after it finds the configuration before both. The
design (`docs/superpowers/specs/2026-09-06-esp32-p4-eth-fw1-design.md:659-661`) asks for
the previous or the new one, and `AcknowledgedSurvives` is what the code guarantees
instead: nothing older than the last acknowledged save. It takes a save on a
provisioned device, which the portal of today does not offer.

## 8. Plan

What is left, in order of importance:

1. The lease as a specification of its own (claimed, retired, notified once, later),
   which `DeviceConnections` implements and whose steps are the registry's steps in
   `ConversationCoordinator` and `ConversationAudio`: the composition of section 2 as
   theorems.
2. The same for the send that `ConversationAudio` and `CameraCapture` rely on: what a
   task may conclude from the result of its `_send`.
3. What `ConversationCoordinator` calls workers and `Fail`, implemented by
   `ConversationAudio`.

### Not modelled

* `FirmwareTransport`, `FirmwareConversation`: FreeRTOS tasks over one socket, and the
  web simulator's client. They are worth a module each; the parts above come first.
* The last-administrator rule, the single use of a nonce and the server's sequence
  check: short request-scoped tests under a row lock or in one task.
* PAUD framing: a codec of a fixed header, without state, whose unit tests reach every
  branch.
* CRUD routes, schemas and parsing (data, no protocol), cryptography, drivers, and pages
  of the panel.
