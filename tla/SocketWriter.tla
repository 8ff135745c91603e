---------------------------- MODULE SocketWriter ----------------------------
(***************************************************************************)
(* The writer of one device connection: every task that sends to the       *)
(* device is a child task inside DeviceConnectionRegistry._send, queueing  *)
(* for the connection's send lock with a bound on how many may queue.  A   *)
(* send that fails, that times out or that is cancelled retires the        *)
(* connection and closes its socket.                                       *)
(*                                                                         *)
(* Source: backend/app/devices/connections.py.  What the messages say is   *)
(* for the modules that use this one.                                      *)
(***************************************************************************)
EXTENDS Naturals, Sequences, FiniteSets, SequencesExt

CONSTANTS
  Writers,      \* tasks that send, each one message at a time
  MaxWaiters    \* admission bound of _send: 8 in the code

ASSUME WaiterBound == MaxWaiters \in Nat \ {0}

VARIABLES
  sending,      \* where each writer's send is: "written" once the socket has the message,
                \* "ok" or "failed" until its caller has seen it
  queue,        \* writers queueing for send_lock, in order
  cause         \* why the connection was retired, "none" while it is not

writer == <<sending, queue, cause>>

\* A cancelled control message, or anything else.
Causes == {"none", "other", "control_cut"}

WriterTypeOK ==
  /\ sending \in [Writers -> {"idle", "new", "waiting", "writing", "written",
                            "ok", "failed"}]
  /\ queue \in Seq(Writers) /\ IsInjective(queue)
  /\ cause \in Causes

WriterInit ==
  /\ sending = [w \in Writers |-> "idle"]
  /\ queue = <<>>
  /\ cause = "none"

-----------------------------------------------------------------------------
\* connection.terminal, and with it registry.is_current of the lease.
Terminal == cause # "none"
Sends(w, place) == sending' = [sending EXCEPT ![w] = place]
Finished(w) == sending[w] \in {"ok", "failed"}
Holders == {w \in Writers : sending[w] \in {"writing", "written"}}
Waiters == {w \in Writers : sending[w] = "waiting"} \cup Holders
LockFree == Holders = {}

\* retire() and then _close_connection: only the first cause counts.  pending_send is
\* cancelled, and _send reports no success any more, although the socket may have the
\* message.
CutShort == [v \in Writers |-> IF v \in Holders THEN "failed" ELSE sending[v]]
RetireFor(why) == cause' = IF Terminal THEN cause ELSE why

\* The send of w fails, and retires the connection.
FailsFor(w, why) ==
  /\ RetireFor(why)
  /\ sending' = [CutShort EXCEPT ![w] = "failed"]

\* A task creates the child that sends.
Submit(w) == Sends(w, "new") /\ UNCHANGED <<queue, cause>>

\* The child begins: refused, one too many, or in line for the lock.
Enter(w) ==
  /\ sending[w] = "new"
  /\ \/ /\ Terminal
        /\ Sends(w, "failed")
        /\ UNCHANGED <<queue, cause>>
     \/ /\ ~Terminal /\ Cardinality(Waiters) >= MaxWaiters
        /\ FailsFor(w, "other")
        /\ UNCHANGED queue
     \/ /\ ~Terminal /\ Cardinality(Waiters) < MaxWaiters
        /\ Sends(w, "waiting")
        /\ queue' = Append(queue, w)
        /\ UNCHANGED cause

BugMayWrite == TRUE
\* Ownership is read again with the lock held: the wait may have been long.
MayWrite == ~Terminal

Acquire(w) ==
  /\ queue # <<>> /\ w = Head(queue) /\ LockFree
  /\ queue' = Tail(queue)
  /\ IF MayWrite
     THEN Sends(w, "writing") /\ UNCHANGED cause
     ELSE FailsFor(w, "other")

\* The socket takes the message: nothing is looked at again before it does.
Write(w) ==
  /\ sending[w] = "writing"
  /\ Sends(w, "written")
  /\ UNCHANGED <<queue, cause>>

\* _send resumes after the write, and releases the lock.
Completes(w) ==
  /\ sending[w] = "written"
  /\ Sends(w, "ok")
  /\ UNCHANGED <<queue, cause>>

\* The socket fails.
WriteFails(w) ==
  /\ sending[w] = "writing"
  /\ FailsFor(w, "other")
  /\ UNCHANGED queue

\* A writer that gives up leaves the line, if it is still in it.
LeavesQueue(w) ==
  IF \E i \in DOMAIN queue : queue[i] = w
  THEN \E i \in DOMAIN queue : queue[i] = w /\ queue' = RemoveAt(queue, i)
  ELSE UNCHANGED queue

\* send_timeout_seconds, which counts the wait for the lock too.
TimesOut(w) ==
  /\ w \in Waiters
  /\ LeavesQueue(w)
  /\ FailsFor(w, "other")

\* The child is cancelled: harmless before it begins or once it has ended, otherwise it
\* retires the connection, also when it was only queueing behind another writer.  Its
\* caller takes it for failed.
Cut(w, why) ==
  /\ LeavesQueue(w)
  /\ IF w \in Waiters
     THEN FailsFor(w, why)
     ELSE Sends(w, "failed") /\ UNCHANGED cause

\* Another connection of the device claims, access is revoked, or the handler's
\* receive ends.
RetiredOutside ==
  /\ ~Terminal
  /\ RetireFor("other")
  /\ sending' = CutShort
  /\ UNCHANGED queue

WriterStep(w) == Enter(w) \/ Acquire(w) \/ Completes(w) \/ WriteFails(w) \/ TimesOut(w)

-----------------------------------------------------------------------------
\* Whatever retires a connection, and however long a task has queued for its lock or been
\* inside the socket's send, nothing is written to it any more and no send is reported as
\* done: its successor owns the device.
SilentAfterRetire ==
  [][Terminal => \A w \in Writers :
       sending'[w] \in {"written", "ok"} => sending'[w] = sending[w]]_writer
=============================================================================
