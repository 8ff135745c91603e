---------------------- MODULE DeviceConfigStore_proofs ----------------------
(***************************************************************************)
(* For every set of configurations, any number of saves, failures and      *)
(* power cuts: the two slots never mix, what is reported as provisioned    *)
(* loads, and an acknowledged configuration survives.                      *)
(***************************************************************************)
EXTENDS DeviceConfigStore, TLAPS

\* An erased flash is well typed.
LEMMA Erased ==
  /\ [s \in Slots |-> FALSE] \in [Slots -> BOOLEAN]
  /\ [s \in Slots |-> 0] \in [Slots -> 0..MaxGeneration]
  /\ [s \in Slots |-> Whole(Blank)] \in [Slots -> [Fields -> Configs \cup {Blank}]]
<1>1. 0 \in 0..MaxGeneration
  BY GenerationBound
<1>2. Whole(Blank) \in [Fields -> Configs \cup {Blank}]
  BY DEF Whole
<1>. QED
  BY <1>1, <1>2

\* The invariant holds on a device that was never provisioned.
LEMMA InitIInv == Init => IInv
<1>. SUFFICES ASSUME Init PROVE IInv
  OBVIOUS
<1>1. TypeOK
  <2>1. ptr \in Slots \cup {Unset} /\ inactive \in Slots
    BY DEF Init, Slots
  <2>2. pc \in Steps /\ mode \in Modes
    BY DEF Init, Steps, Modes
  <2>. QED
    BY <2>1, <2>2, Erased DEF Init, TypeOK
<1>2. SlotsInv /\ SaveInv /\ HistoryInv
  BY DEF Init, SlotsInv, SaveInv, HistoryInv, Slots, Unset, Fields, Filling, Filled
<1>. QED
  BY <1>1, <1>2 DEF IInv

\* The next generation is a natural above both.
LEMMA Younger ==
  ASSUME TypeOK PROVE /\ NextGeneration \in Nat
                      /\ NextGeneration > gen[0] /\ NextGeneration > gen[1]
                      /\ \A n \in Nat : gen[0] < n /\ gen[1] < n => NextGeneration <= n
BY GenerationBound DEF TypeOK, Slots, NextGeneration

\* The slot a save fills is not the active one.
LEMMA Other ==
  ASSUME TypeOK PROVE Inactive \in Slots /\ Inactive # ptr /\ (ptr \in Slots => 1 - Inactive = ptr)
BY DEF TypeOK, Slots, Unset, Inactive

LEMMA TypeStep == IInv /\ [Next]_vars => TypeOK'
<1>. SUFFICES ASSUME IInv, [Next]_vars PROVE TypeOK'
  OBVIOUS
<1>. USE DEF IInv
<1>1. CASE UNCHANGED vars
  BY <1>1 DEF vars, flash, call, history, TypeOK
<1>2. ASSUME NEW c \in Configs, BeginSave(c) PROVE TypeOK'
  BY <1>2, Other DEF BeginSave, TypeOK, flash, Steps
<1>3. ASSUME NEW f \in Fields, WriteField(f) PROVE TypeOK'
  <2>1. pc' \in Steps
    BY <1>3 DEF WriteField, After, Fields, Steps
  <2>2. data' \in [Slots -> [Fields -> Configs \cup {Blank}]]
    BY <1>3 DEF WriteField, TypeOK
  <2>. QED
    BY <2>1, <2>2, <1>3 DEF WriteField, TypeOK, call, history
<1>4. CASE WriteGeneration
  <2>1. NextGeneration \in 0..MaxGeneration
    BY <1>4, Younger, GenerationBound DEF WriteGeneration, SaveInv, TypeOK, Slots
  <2>. QED
    BY <1>4, <2>1 DEF WriteGeneration, TypeOK, call, history, Steps
<1>5. CASE Invalidate \/ MarkValid \/ SwitchActive \/ SaveSucceeds \/ SaveFails
  BY <1>5 DEF Invalidate, MarkValid, SwitchActive, SaveSucceeds, SaveFails, TypeOK,
     flash, call, history, Steps, Fields
<1>6. CASE GotIp \/ LinkDown \/ Restart \/ PowerCut
  BY <1>6 DEF GotIp, LinkDown, Restart, PowerCut, TypeOK, flash, call, history, Steps, Modes
<1>7. CASE FactoryReset
  BY <1>7, Erased DEF FactoryReset, TypeOK, call, Modes
<1>. QED
  BY <1>1, <1>2, <1>3, <1>4, <1>5, <1>6, <1>7 DEF Next

\* Only the slot being filled changes, and it is not valid while its fields do.
LEMMA SlotsStep == IInv /\ [Next]_vars => SlotsInv'
<1>. SUFFICES ASSUME IInv, [Next]_vars PROVE SlotsInv'
  OBVIOUS
<1>. USE DEF IInv, SlotsInv
<1>1. CASE UNCHANGED <<ptr, ok, data>>
  BY <1>1
<1>2. CASE Invalidate
  BY <1>2, Other DEF Invalidate, SaveInv, TypeOK
<1>3. ASSUME NEW f \in Fields, WriteField(f) PROVE SlotsInv'
  <2>1. ~ok[inactive] /\ inactive \in Slots
    BY <1>3 DEF WriteField, SaveInv, Filling, TypeOK
  <2>2. \A s \in Slots : s # inactive => data'[s] = data[s]
    BY <1>3 DEF WriteField, TypeOK
  <2>. QED
    BY <2>1, <2>2, <1>3 DEF WriteField
<1>4. CASE MarkValid
  <2>1. data[inactive] = Whole(saving) /\ saving \in Configs
    BY <1>4 DEF MarkValid, SaveInv, Filled, TypeOK
  <2>. QED
    BY <2>1, <1>4 DEF MarkValid, TypeOK
<1>5. CASE SwitchActive
  BY <1>5 DEF SwitchActive, SaveInv, TypeOK
<1>6. CASE FactoryReset
  BY <1>6 DEF FactoryReset, Slots, Unset
<1>. QED
  BY <1>1, <1>2, <1>3, <1>4, <1>5, <1>6 DEF Next, BeginSave, WriteGeneration, SaveSucceeds,
     SaveFails, GotIp, LinkDown, Restart, PowerCut, vars, flash

LEMMA SaveStep == IInv /\ [Next]_vars => SaveInv'
<1>. SUFFICES ASSUME IInv, [Next]_vars PROVE SaveInv'
  OBVIOUS
<1>. USE DEF IInv, Fields, Filling, Filled
<1>1. CASE UNCHANGED vars
  BY <1>1 DEF vars, flash, call, history, SaveInv, Inactive
<1>2. ASSUME NEW c \in Configs, BeginSave(c) PROVE SaveInv'
  BY <1>2 DEF BeginSave, SaveInv, flash, Inactive
<1>3. CASE Invalidate
  BY <1>3, Other DEF Invalidate, SaveInv, TypeOK, call, history, Inactive
<1>4. ASSUME NEW f \in Fields, WriteField(f) PROVE SaveInv'
  <2>1. /\ data'[inactive] = [data[inactive] EXCEPT ![f] = saving]
        /\ data[inactive] \in [Fields -> Configs \cup {Blank}]
    BY <1>4 DEF WriteField, TypeOK
  <2>2. f = "url" => data'[inactive] = Whole(saving)
    BY <2>1, <1>4 DEF WriteField, SaveInv, Whole
  <2>. QED
    BY <2>1, <2>2, <1>4 DEF WriteField, After, SaveInv, call, history, Inactive
<1>5. CASE WriteGeneration
  <2>1. inactive \in Slots /\ gen \in [Slots -> 0..MaxGeneration]
    BY DEF TypeOK
  <2>2. gen'[inactive] > gen'[1 - inactive]
    BY <1>5, <2>1, Younger, GenerationBound DEF WriteGeneration, Slots
  <2>. QED
    BY <1>5, <2>2 DEF WriteGeneration, SaveInv, call, history, Inactive
<1>6. CASE MarkValid
  BY <1>6 DEF MarkValid, SaveInv, TypeOK, call, history, Inactive
<1>7. CASE SwitchActive
  BY <1>7 DEF SwitchActive, SaveInv, call, history
<1>8. CASE SaveSucceeds \/ SaveFails \/ PowerCut
  BY <1>8 DEF SaveSucceeds, SaveFails, PowerCut, SaveInv
<1>9. CASE GotIp \/ LinkDown \/ Restart \/ FactoryReset
  <2>1. CASE pc = "idle"
    BY <1>9, <2>1 DEF GotIp, LinkDown, Restart, FactoryReset, SaveInv
  <2>2. CASE pc # "idle"
    BY <1>9, <2>2 DEF GotIp, LinkDown, Restart, FactoryReset, SaveInv, flash, call, history, Inactive
  <2>. QED
    BY <2>1, <2>2
<1>. QED
  BY <1>1, <1>2, <1>3, <1>4, <1>5, <1>6, <1>7, <1>8, <1>9 DEF Next

LEMMA HistoryStep == IInv /\ [Next]_vars => HistoryInv'
<1>. SUFFICES ASSUME IInv, [Next]_vars PROVE HistoryInv'
  OBVIOUS
<1>. USE DEF IInv
<1>1. CASE UNCHANGED <<ptr, ok, gen, data, acked>> /\ later \subseteq later'
  BY <1>1 DEF HistoryInv
<1>2. CASE Invalidate
  <2>1. ptr \in Slots => 1 - ptr = inactive /\ inactive # ptr
    BY <1>2, Other DEF Invalidate, SaveInv, Slots, TypeOK
  <2>. QED
    BY <1>2, <2>1 DEF Invalidate, HistoryInv, TypeOK, history
<1>3. ASSUME NEW f \in Fields, WriteField(f) PROVE HistoryInv'
  <2>1. ptr \in Slots => 1 - ptr = inactive /\ inactive # ptr /\ ~ok[inactive]
    BY <1>3, Other DEF WriteField, SaveInv, Filling, Slots, TypeOK
  <2>2. ptr \in Slots => data'[ptr] = data[ptr]
    BY <1>3, <2>1 DEF WriteField, TypeOK
  <2>. QED
    BY <1>3, <2>1, <2>2 DEF WriteField, HistoryInv, history
<1>4. CASE WriteGeneration
  <2>1. ptr \in Slots => 1 - ptr = inactive /\ ~ok[inactive]
    BY <1>4, Other DEF WriteGeneration, SaveInv, Filling, Slots, TypeOK
  <2>. QED
    BY <1>4, <2>1 DEF WriteGeneration, HistoryInv, history
<1>5. CASE MarkValid
  <2>1. ptr \in Slots => 1 - ptr = inactive
    BY <1>5, Other DEF MarkValid, SaveInv, Filling, Slots, TypeOK
  <2>2. data[inactive] = Whole(saving) /\ saving \in later
    BY <1>5 DEF MarkValid, SaveInv, Filled
  <2>. QED
    BY <1>5, <2>1, <2>2 DEF MarkValid, HistoryInv, history
<1>6. CASE SwitchActive
  <2>1. data[inactive] = Whole(saving) /\ saving \in later /\ gen[inactive] > gen[1 - inactive]
    BY <1>6 DEF SwitchActive, SaveInv, Filled
  <2>2. ~(gen[1 - inactive] > gen[inactive])
    BY <2>1 DEF TypeOK, Slots
  <2>. QED
    BY <1>6, <2>1, <2>2 DEF SwitchActive, HistoryInv, TypeOK, history
<1>7. CASE SaveSucceeds
  <2>1. ptr = inactive /\ data[ptr] = Whole(saving) /\ gen[ptr] > gen[1 - ptr]
    BY <1>7 DEF SaveSucceeds, SaveInv
  <2>2. ~(gen[1 - ptr] > gen[ptr])
    BY <2>1 DEF TypeOK, Slots
  <2>. QED
    BY <1>7, <2>1, <2>2 DEF SaveSucceeds, HistoryInv, TypeOK, flash
<1>8. CASE FactoryReset
  BY <1>8 DEF FactoryReset, HistoryInv
<1>. QED
  BY <1>1, <1>2, <1>3, <1>4, <1>5, <1>6, <1>7, <1>8 DEF Next, BeginSave, SaveFails, GotIp,
     LinkDown, Restart, PowerCut, vars, flash, history

LEMMA Inductive == Spec => []IInv
<1>1. IInv /\ [Next]_vars => IInv'
  BY TypeStep, SlotsStep, SaveStep, HistoryStep DEF IInv
<1>. QED
  BY InitIInv, <1>1, PTL DEF Spec

\* With an active slot, which is then valid, load finds the younger valid one whole.
LEMMA LoadsWhole ==
  ASSUME IInv, ptr \in Slots
  PROVE Provisioned /\ Found /\ \E c \in Configs : Loaded = Whole(c)
<1>1. Provisioned
  BY DEF IInv, SlotsInv, Provisioned
<1>2. Chosen \in Slots /\ ok[Chosen]
  BY DEF IInv, SlotsInv, Chosen, Slots
<1>3. PICK c \in Configs : data[Chosen] = Whole(c)
  BY <1>2 DEF IInv, SlotsInv
<1>4. \A f \in Fields : data[Chosen][f] # Blank
  BY <1>3, BlankIsNoConfig DEF Whole
<1>. QED
  BY <1>1, <1>2, <1>3, <1>4 DEF Found, Loaded

\* Every variable keeps its type.
THEOREM TypeCorrect == Spec => []TypeOK
<1>1. IInv => TypeOK
  BY DEF IInv
<1>. QED
  BY Inductive, <1>1, PTL

\* device_config_load never combines the fields of two saves.
THEOREM NeverMixed == Spec => []NoMixture
<1>1. IInv => NoMixture
  BY LoadsWhole DEF NoMixture, Found
<1>. QED
  BY Inductive, <1>1, PTL

\* The fork of GOT_IP is exhaustive: what is_provisioned reports, load delivers.
THEOREM ReadersAgree == Spec => []ProvisionedAgrees
<1>1. IInv => ProvisionedAgrees
  BY LoadsWhole DEF ProvisionedAgrees, Provisioned, Found
<1>. QED
  BY Inductive, <1>1, PTL

\* What device_config_save answered ESP_OK for is loaded, or something saved later.
THEOREM AcknowledgedKept == Spec => []AcknowledgedSurvives
<1>1. ASSUME IInv, acked # Blank
      PROVE Provisioned /\ \E c \in {acked} \cup later : Loaded = Whole(c)
  <2>1. ptr \in Slots
    BY <1>1 DEF IInv, HistoryInv
  <2>2. Provisioned
    BY <1>1, <2>1, LoadsWhole
  <2>3. CASE Chosen = ptr
    <3>1. PICK c \in {acked} \cup later : data[ptr] = Whole(c)
      BY <1>1 DEF IInv, HistoryInv
    <3>. QED
      BY <2>2, <2>3, <3>1 DEF Loaded
  <2>4. CASE Chosen # ptr
    <3>1. Chosen = 1 - ptr /\ ok[1 - ptr] /\ ~(gen[1 - ptr] <= gen[ptr])
      BY <1>1, <2>1, <2>4 DEF IInv, SlotsInv, Chosen
    <3>2. gen[1 - ptr] > gen[ptr]
      BY <1>1, <2>1, <3>1, GenerationBound DEF IInv, TypeOK, Slots
    <3>3. PICK c \in {acked} \cup later : data[1 - ptr] = Whole(c)
      BY <1>1, <3>1, <3>2 DEF IInv, HistoryInv
    <3>. QED
      BY <2>2, <3>1, <3>3 DEF Loaded
  <2>. QED
    BY <2>2, <2>3, <2>4
<1>2. IInv => AcknowledgedSurvives
  BY <1>1 DEF AcknowledgedSurvives
<1>. QED
  BY Inductive, <1>2, PTL
=============================================================================
