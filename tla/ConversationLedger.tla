------------------------- MODULE ConversationLedger -------------------------
(***************************************************************************)
(* What the conversation coordinator promises about one device, with the   *)
(* tasks, locks and messages left out: at most one conversation holds the  *)
(* device; its provider session ends before its durable row is settled,    *)
(* the row is settled once and for ever, and the device becomes available  *)
(* only after both.  ConversationCoordinator implements this module.       *)
(***************************************************************************)
EXTENDS Naturals

CONSTANTS
  Attempts,     \* conversation.start requests that obtain a reservation
  Free          \* "no reservation": not an attempt

VARIABLES
  holder,       \* the attempt the device is reserved for
  session,      \* provider session of each attempt
  rows,         \* durable conversation row of each attempt
  result,       \* durable outcome of the row
  events        \* durable conversation_failed events of the row

ledger == <<holder, session, rows, result, events>>

Phases == {"none", "open", "closed"}
Outcomes == {"REGISTERED", "ABANDONED", "FAILED"}

Init ==
  /\ holder = Free
  /\ session = [a \in Attempts |-> "none"]
  /\ rows = [a \in Attempts |-> "none"]
  /\ result = [a \in Attempts |-> "none"]
  /\ events = [a \in Attempts |-> 0]

Reserve(a) ==
  /\ holder = Free
  /\ session[a] = "none"
  /\ rows[a] = "none"
  /\ holder' = a
  /\ UNCHANGED <<session, rows, result, events>>

OpenSession(a) ==
  /\ holder = a
  /\ session[a] = "none"
  /\ session' = [session EXCEPT ![a] = "open"]
  /\ UNCHANGED <<holder, rows, result, events>>

\* The row is recorded for a live session, and only if the device has no open row.
Record(a) ==
  /\ holder = a
  /\ session[a] = "open"
  /\ rows[a] = "none"
  /\ \A b \in Attempts : rows[b] # "open"
  /\ rows' = [rows EXCEPT ![a] = "open"]
  /\ UNCHANGED <<holder, session, result, events>>

EndSession(a) ==
  /\ holder = a
  /\ session[a] = "open"
  /\ session' = [session EXCEPT ![a] = "closed"]
  /\ UNCHANGED <<holder, rows, result, events>>

\* A failure leaves at most one event, in the transaction that settles the row.
Settle(a) ==
  /\ holder = a
  /\ session[a] = "closed"
  /\ rows[a] = "open"
  /\ rows' = [rows EXCEPT ![a] = "closed"]
  /\ \E o \in Outcomes, n \in 0..1 :
       /\ n = 1 => o = "FAILED"
       /\ result' = [result EXCEPT ![a] = o]
       /\ events' = [events EXCEPT ![a] = n]
  /\ UNCHANGED <<holder, session>>

Release(a) ==
  /\ holder = a
  /\ session[a] # "open"
  /\ rows[a] # "open"
  /\ holder' = Free
  /\ UNCHANGED <<session, rows, result, events>>

\* The process dies: its sessions die with it, what is durable stays as it is.
Lose ==
  /\ holder' = Free
  /\ session' = [a \in Attempts |-> IF session[a] = "open" THEN "closed" ELSE session[a]]
  /\ UNCHANGED <<rows, result, events>>

Next ==
  \/ \E a \in Attempts :
       \/ Reserve(a) \/ OpenSession(a) \/ Record(a)
       \/ EndSession(a) \/ Settle(a) \/ Release(a)
  \/ Lose

Spec == Init /\ [][Next]_ledger
=============================================================================
