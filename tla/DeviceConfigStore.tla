------------------------- MODULE DeviceConfigStore -------------------------
(***************************************************************************)
(* The configuration a device keeps in flash: two slots and a pointer to   *)
(* the active one, the save that fills the other slot write by write, and  *)
(* what the next boot makes of them.                                       *)
(*                                                                         *)
(* Sources, under firmware: components/device_config/device_config.c, its  *)
(* callers components/provisioning_web/provisioning_web.c (the portal) and *)
(* esp32-p4/main/app_main.c (network events, factory reset).               *)
(*                                                                         *)
(* Flash is the library's: a set is durable when it returns and sets keep  *)
(* their order, so a commit adds only one more place where a save may      *)
(* fail.  Power may be cut between any two writes.                         *)
(***************************************************************************)
EXTENDS Naturals

CONSTANTS
  Configs,        \* configurations that pass the three validations
  Blank,          \* "the key is missing"
  SavingModes,    \* modes in which a client of the store may save
  MaxGeneration   \* bound: no save begins once a slot has this generation

Modes == {"down", "portal", "normal", "stuck"}

ASSUME BlankIsNoConfig == Blank \notin Configs
ASSUME KnownModes == SavingModes \subseteq Modes
ASSUME GenerationBound == MaxGeneration \in Nat

Slots == 0..1
\* Any value above 1 is no slot: the pointer's key is missing.
Unset == 2
Fields == {"id", "sec", "url"}
Steps == {"idle", "invalidate"} \cup Fields \cup {"generation", "validate", "switch", "answer"}

VARIABLES
  ptr,          \* key "active"
  ok,           \* keys "a_ok", "b_ok"
  gen,          \* keys "a_gen", "b_gen": 0 when missing
  data,         \* the three string keys of each slot
  pc,           \* the write a save is about to do
  saving,       \* its configuration
  inactive,     \* the slot it fills
  mode,         \* what the last network event made of the device
  restarting,   \* restart_task is waiting
  acked,        \* history: configuration of the last save that returned ESP_OK
  later         \* history: configurations whose save began after that one

flash == <<ptr, ok, gen, data>>
call == <<saving, inactive>>
history == <<acked, later>>
vars == <<flash, pc, call, mode, restarting, history>>

TypeOK ==
  /\ ptr \in Slots \cup {Unset}
  /\ ok \in [Slots -> BOOLEAN]
  /\ gen \in [Slots -> 0..MaxGeneration]
  /\ data \in [Slots -> [Fields -> Configs \cup {Blank}]]
  /\ pc \in Steps
  /\ saving \in Configs \cup {Blank}
  /\ inactive \in Slots
  /\ mode \in Modes
  /\ restarting \in BOOLEAN
  /\ acked \in Configs \cup {Blank}
  /\ later \subseteq Configs

-----------------------------------------------------------------------------
(* What the readers of the store compute. *)

Whole(c) == [f \in Fields |-> c]

\* device_config_is_provisioned looks at the active slot only.
Provisioned == ptr \in Slots /\ ok[ptr]

\* device_config_load: the younger of two valid slots, the active one on a tie.
Chosen ==
  IF ok[ptr] /\ (ok[1 - ptr] => gen[1 - ptr] <= gen[ptr]) THEN ptr ELSE 1 - ptr
Found ==
  /\ ptr \in Slots
  /\ \E s \in Slots : ok[s]
  /\ \A f \in Fields : data[Chosen][f] # Blank
Loaded == data[Chosen]

\* The slot device_config_save fills: slot 0 when there is no pointer.
Inactive == IF ptr = 0 THEN 1 ELSE 0
BugOwnGeneration == gen[inactive] + 1
BugSumGeneration == gen[0] + gen[1] + 1
NextGeneration == (IF gen[0] > gen[1] THEN gen[0] ELSE gen[1]) + 1

-----------------------------------------------------------------------------
Init ==
  /\ ptr = Unset
  /\ ok = [s \in Slots |-> FALSE]
  /\ gen = [s \in Slots |-> 0]
  /\ data = [s \in Slots |-> Whole(Blank)]
  /\ pc = "idle"
  /\ saving = Blank
  /\ inactive = 0
  /\ mode = "down"
  /\ restarting = FALSE
  /\ acked = Blank
  /\ later = {}

\* device_config_save up to its first write.  The portal's requests are served one
\* at a time by the task of the server, also while a restart is pending.
BeginSave(c) ==
  /\ pc = "idle"
  /\ mode \in SavingModes
  /\ \A s \in Slots : gen[s] < MaxGeneration
  /\ pc' = "invalidate"
  /\ saving' = c
  /\ inactive' = Inactive
  /\ later' = later \cup {c}
  /\ UNCHANGED <<flash, mode, restarting, acked>>

BugKeepsValid ==
  /\ pc = "invalidate"
  /\ pc' = "id"
  /\ UNCHANGED <<flash, call, mode, restarting, history>>

Invalidate ==
  /\ pc = "invalidate"
  /\ ok' = [ok EXCEPT ![inactive] = FALSE]
  /\ pc' = "id"
  /\ UNCHANGED <<ptr, gen, data, call, mode, restarting, history>>

BugAfter(f) == IF f = "id" THEN "sec" ELSE "generation"
After(f) == CASE f = "id" -> "sec" [] f = "sec" -> "url" [] f = "url" -> "generation"

WriteField(f) ==
  /\ pc = f
  /\ data' = [data EXCEPT ![inactive][f] = saving]
  /\ pc' = After(f)
  /\ UNCHANGED <<ptr, ok, gen, call, mode, restarting, history>>

WriteGeneration ==
  /\ pc = "generation"
  /\ gen' = [gen EXCEPT ![inactive] = NextGeneration]
  /\ pc' = "validate"
  /\ UNCHANGED <<ptr, ok, data, call, mode, restarting, history>>

MarkValid ==
  /\ pc = "validate"
  /\ ok' = [ok EXCEPT ![inactive] = TRUE]
  /\ pc' = "switch"
  /\ UNCHANGED <<ptr, gen, data, call, mode, restarting, history>>

SwitchActive ==
  /\ pc = "switch"
  /\ ptr' = inactive
  /\ pc' = "answer"
  /\ UNCHANGED <<ok, gen, data, call, mode, restarting, history>>

\* The last commit succeeds: the portal answers 200 and schedules a restart.
SaveSucceeds ==
  /\ pc = "answer"
  /\ pc' = "idle"
  /\ acked' = saving
  /\ later' = {}
  /\ restarting' = (restarting \/ mode = "portal")
  /\ UNCHANGED <<flash, call, mode>>

\* A set or a commit fails: the save returns the error and leaves its writes.
SaveFails ==
  /\ pc # "idle"
  /\ pc' = "idle"
  /\ UNCHANGED <<flash, call, mode, restarting, history>>

\* NETWORK_EVENT_GOT_IP: the portal, the connection to the backend, or neither.
GotIp ==
  /\ mode = "down"
  /\ mode' = IF ~Provisioned THEN "portal" ELSE IF Found THEN "normal" ELSE "stuck"
  /\ UNCHANGED <<flash, pc, call, restarting, history>>

\* Link down or address lost: stopping the server waits for the request it serves.
LinkDown ==
  /\ mode # "down"
  /\ pc = "idle"
  /\ mode' = "down"
  /\ UNCHANGED <<flash, pc, call, restarting, history>>

\* restart_task stops the server too before it restarts the device.
Restart ==
  /\ restarting
  /\ pc = "idle"
  /\ mode' = "down"
  /\ restarting' = FALSE
  /\ UNCHANGED <<flash, pc, call, history>>

\* The button is held: the server is stopped, the flash erased, the device restarted.
FactoryReset ==
  /\ pc = "idle"
  /\ ptr' = Unset
  /\ ok' = [s \in Slots |-> FALSE]
  /\ gen' = [s \in Slots |-> 0]
  /\ data' = [s \in Slots |-> Whole(Blank)]
  /\ mode' = "down"
  /\ restarting' = FALSE
  /\ acked' = Blank
  /\ later' = {}
  /\ UNCHANGED <<pc, call>>

PowerCut ==
  /\ pc' = "idle"
  /\ mode' = "down"
  /\ restarting' = FALSE
  /\ UNCHANGED <<flash, call, history>>

Next ==
  \/ \E c \in Configs : BeginSave(c)
  \/ \E f \in Fields : WriteField(f)
  \/ Invalidate \/ WriteGeneration \/ MarkValid \/ SwitchActive
  \/ SaveSucceeds \/ SaveFails
  \/ GotIp \/ LinkDown \/ Restart \/ FactoryReset \/ PowerCut

Spec == Init /\ [][Next]_vars

-----------------------------------------------------------------------------
\* What load returns is one configuration, whole: no power cut or failed write ever
\* makes it combine the fields of two saves.
NoMixture == Found => \E c \in Configs : Loaded = Whole(c)

\* is_provisioned and load agree in every state a boot may find, so no boot ends with
\* neither the portal nor a configuration to connect with (app_main.c, GOT_IP).
ProvisionedAgrees == Provisioned <=> Found

\* After a save returned ESP_OK the device stays provisioned until a factory reset, with that
\* configuration or with one whose save began later, however many of those were cut
\* or failed half-way: nothing older comes back, because the generations grow.
AcknowledgedSurvives ==
  acked # Blank =>
    /\ Provisioned
    /\ \E c \in {acked} \cup later : Loaded = Whole(c)

\* device_config.h says of is_provisioned: true if flash holds at least one complete,
\* valid configuration.  The first save, cut before its pointer, refutes it.
ProvisionedWhenComplete ==
  (\E s \in Slots : ok[s] /\ \A f \in Fields : data[s][f] # Blank) => Provisioned
-----------------------------------------------------------------------------
(* The inductive invariant. *)

\* A valid slot holds one configuration, and the active slot is valid.
SlotsInv ==
  /\ \A s \in Slots : ok[s] => \E c \in Configs : data[s] = Whole(c)
  /\ ptr \in Slots => ok[ptr]

Filling == Fields \cup {"generation", "validate"}
Filled == {"generation", "validate", "switch"}

\* How far a save has come, read off the slot it fills.
SaveInv ==
  /\ pc # "idle" => saving \in later
  /\ pc \in Fields \cup {"invalidate", "generation"} => \A s \in Slots : gen[s] < MaxGeneration
  /\ pc \in Filling \cup {"invalidate", "switch"} => inactive = Inactive
  /\ pc \in Filling => ~ok[inactive]
  /\ pc \in {"sec", "url"} => data[inactive]["id"] = saving
  /\ pc = "url" => data[inactive]["sec"] = saving
  /\ pc \in Filled => data[inactive] = Whole(saving)
  /\ pc \in {"validate", "switch"} => gen[inactive] > gen[1 - inactive]
  /\ pc = "switch" => ok[inactive]
  /\ pc = "answer" => ptr = inactive /\ data[ptr] = Whole(saving) /\ gen[ptr] > gen[1 - ptr]

\* A valid slot younger than the active one is younger than the last answer.
HistoryInv ==
  acked # Blank =>
    /\ ptr \in Slots
    /\ \E c \in {acked} \cup later : data[ptr] = Whole(c)
    /\ ok[1 - ptr] /\ gen[1 - ptr] > gen[ptr] =>
         \E c \in {acked} \cup later : data[1 - ptr] = Whole(c)

IInv == TypeOK /\ SlotsInv /\ SaveInv /\ HistoryInv
=============================================================================
