-------------------------- MODULE CommissioningProofs --------------------------
(***************************************************************************)
(* What Commissioning promises for tables of any size and any commands:    *)
(* restarts find every slot as it is, nothing overwrites a profile whose   *)
(* storage is in doubt, a session writes one record at most, profiles      *)
(* whose saves have worked never claim the same frame, and what is ready   *)
(* is a whole profile.                                                     *)
(***************************************************************************)
EXTENDS Commissioning, FiniteSetTheorems, TLAPS

SlotState == [ready : BOOLEAN, fault : BOOLEAN, commands : SUBSET Command]
KeptState == {Blank, Marked, Removed} \cup {Saving(commands) : commands \in SUBSET Command}

TableTypes ==
  /\ slots \in [Slots -> SlotState]
  /\ store \in [Slots -> KeptState]
  /\ saveDue \subseteq PanelSlots /\ suspect \subseteq Slots
  /\ learned \subseteq Command

\* A panel whose counter is to be saved has, or had, a record.
DueHaveRecords == \A slot \in saveDue : store[slot] # Blank

TableInv == TableTypes /\ EverySlotIsDurable /\ DueHaveRecords

\* What a save must not do: `slot' holds a profile in doubt, and `commands' are not
\* that profile's.
KeepsProfile(slot, commands) ==
  slots[slot].fault => slots[slot].commands \subseteq commands /\ store[slot] # Blank

\* Most steps are saves, and none of them starts a save_counter timeout.
SaveStep(slot, commands) ==
  /\ Save(slot, commands)
  /\ KeepsProfile(slot, commands)
  /\ saveDue' \subseteq saveDue

-----------------------------------------------------------------------------
\* The states of a slot are told apart.
LEMMA KeptDistinct ==
  /\ Blank # Removed /\ Blank # Marked /\ Marked # Removed
  /\ \A commands : Saving(commands) \notin {Blank, Marked, Removed}
BY DEF Blank, Removed, Marked, Saving

LEMMA SavingIsInjective ==
  ASSUME NEW c, NEW d, Saving(c) = Saving(d)
  PROVE  c = d
BY Saving(c).commands = Saving(d).commands DEF Saving

\* What a save makes of its slot, and that it leaves the others alone.
LEMMA SaveEffect ==
  ASSUME TableTypes, NEW slot \in Slots, NEW commands \in SUBSET Command, Save(slot, commands)
  PROVE  /\ slots' \in [Slots -> SlotState] /\ store' \in [Slots -> KeptState]
         /\ \A other \in Slots \ {slot} : slots'[other] = slots[other] /\ store'[other] = store[other]
         /\ slots'[slot].commands = commands
         /\ \/ /\ slots'[slot].ready /\ store'[slot] = Saving(commands)
               /\ slots'[slot].fault = slots[slot].fault
               /\ suspect' = suspect
            \/ /\ ~slots'[slot].ready /\ slots'[slot].fault
               /\ store'[slot] \in {store[slot], Saving(commands)}
                    \cup (IF store[slot] = Blank THEN {Marked} ELSE {})
               /\ suspect' = suspect \cup {slot}
<1>1. CASE SaveWorks(slot, commands)
  <2> DEFINE saved == [slots[slot] EXCEPT !.ready = TRUE, !.commands = commands]
  <2>1. slots' = [slots EXCEPT ![slot] = saved]
    BY <1>1 DEF SaveWorks, TableTypes, SlotState
  <2>2. /\ saved \in SlotState /\ saved.ready /\ saved.commands = commands
        /\ saved.fault = slots[slot].fault
    <3>1. slots[slot] \in SlotState
      BY DEF TableTypes
    <3> QED
      BY <3>1 DEF SlotState
  <2>3. Saving(commands) \in KeptState
    BY DEF KeptState
  <2> HIDE DEF saved
  <2> QED
    BY <1>1, <2>1, <2>2, <2>3 DEF SaveWorks, TableTypes
<1>2. CASE SaveFails(slot, commands)
  <2>1. slots' = [slots EXCEPT ![slot] = [ready |-> FALSE, fault |-> TRUE, commands |-> commands]]
    BY <1>2 DEF SaveFails, Failed, Faulted
  <2>2. PICK kept \in {store[slot], Saving(commands)}
                        \cup (IF store[slot] = Blank THEN {Marked} ELSE {}) :
          store' = [store EXCEPT ![slot] = kept]
    BY <1>2 DEF SaveFails
  <2>3. kept \in KeptState
    BY <2>2 DEF KeptState, TableTypes
  <2>4. slots' \in [Slots -> SlotState]
    BY <2>1 DEF TableTypes, SlotState
  <2> QED
    BY <1>2, <2>1, <2>2, <2>3, <2>4 DEF SaveFails, TableTypes
<1> QED
  BY <1>1, <1>2 DEF Save

\* A save keeps the table as it is in storage.
LEMMA SaveKeeps ==
  ASSUME TableInv, NEW slot \in Slots, NEW commands \in SUBSET Command, SaveStep(slot, commands),
         learned' \subseteq Command
  PROVE  TableInv'
<1>1. TableTypes /\ Save(slot, commands) /\ saveDue' \subseteq saveDue
  BY DEF TableInv, SaveStep
<1>2. TableTypes'
  BY <1>1, SaveEffect DEF TableTypes
<1>3. EverySlotIsDurable'
  <2> SUFFICES ASSUME NEW s \in Slots
               PROVE  /\ slots'[s].ready => store'[s] = Saving(slots'[s].commands)
                      /\ slots'[s] = Empty => store'[s] \in {Blank, Removed}
    BY DEF EverySlotIsDurable, IsReady
  <2>1. CASE s = slot
    <3>1. slots'[s].ready \/ slots'[s].fault
      BY <1>1, <2>1, SaveEffect
    <3>2. slots'[s] # Empty
      BY <3>1 DEF Empty
    <3> QED
      BY <1>1, <2>1, <3>2, SaveEffect
  <2>2. CASE s # slot
    BY <1>1, <2>2, SaveEffect DEF TableInv, EverySlotIsDurable, IsReady
  <2> QED
    BY <2>1, <2>2
<1>4. DueHaveRecords'
  <2> SUFFICES ASSUME NEW s \in saveDue, s \in Slots, store[s] # Blank
               PROVE  store'[s] # Blank
    BY <1>1 DEF DueHaveRecords, TableInv, TableTypes, Slots
  <2> QED
    BY <1>1, SaveEffect, KeptDistinct
<1> QED
  BY <1>2, <1>3, <1>4 DEF TableInv

\* Who saves, and why nobody overwrites a profile in doubt.
LEMMA SavingSteps ==
  ASSUME TableInv, NEW slot \in Slots,
         \/ \E t \in Tokens : Commit(t) /\ Save(slot, learned) /\ CanConfigure(slot)
         \/ \E open, close \in Command : ConfigureTarget(slot, open, close)
         \/ \E command \in Command : ConfigureEndpoint(slot, command)
         \/ \E command \in Command : ConfigureRelay(slot, command)
         \/ SaveAgain(slot)
         \/ SaveCounter(slot) /\ slots[slot].commands # {}
  PROVE  \E commands \in SUBSET Command : SaveStep(slot, commands)
<1>1. slots[slot].commands \in SUBSET Command /\ learned \in SUBSET Command
  BY DEF TableInv, TableTypes, SlotState
<1>2. IsReady(slot) => store[slot] # Blank
  BY KeptDistinct DEF TableInv, EverySlotIsDurable
<1>3. ASSUME CanConfigure(slot), NEW commands PROVE KeepsProfile(slot, commands)
  BY <1>3 DEF CanConfigure, KeepsProfile
<1>4. ASSUME store[slot] # Blank, NEW commands, slots[slot].commands \subseteq commands
      PROVE  KeepsProfile(slot, commands)
  BY <1>4 DEF KeepsProfile
<1>5. CASE \E t \in Tokens : Commit(t) /\ Save(slot, learned) /\ CanConfigure(slot)
  <2>1. SaveStep(slot, learned)
    BY <1>3, <1>5 DEF Commit, SaveStep
  <2> QED
    BY <1>1, <2>1
<1>6. CASE \E open, close \in Command : ConfigureTarget(slot, open, close)
  <2>1. PICK open \in Command, close \in Command : ConfigureTarget(slot, open, close)
    BY <1>6
  <2>2. CanConfigure(slot) /\ UNCHANGED saveDue
    BY <2>1 DEF ConfigureTarget
  <2>3. Save(slot, {open, close}) \/ Save(slot, slots[slot].commands)
    BY <2>1 DEF ConfigureTarget
  <2>4. {open, close} \in SUBSET Command
    OBVIOUS
  <2> QED
    BY <1>1, <1>3, <2>2, <2>3, <2>4 DEF SaveStep
<1>7. CASE \E command \in Command : ConfigureEndpoint(slot, command)
  <2>1. PICK command \in Command : ConfigureEndpoint(slot, command)
    BY <1>7
  <2>2. SaveStep(slot, slots[slot].commands \cup {command})
    BY <1>2, <1>4, <2>1 DEF ConfigureEndpoint, SaveStep
  <2> QED
    BY <1>1, <2>2
<1>8. CASE \E command \in Command : ConfigureRelay(slot, command)
  <2>1. PICK command \in Command : ConfigureRelay(slot, command)
    BY <1>8
  <2>2. SaveStep(slot, {command}) /\ {command} \in SUBSET Command
    BY <1>3, <2>1 DEF ConfigureRelay, SaveStep
  <2> QED
    BY <2>2
<1>9. CASE SaveAgain(slot)
  <2>1. SaveStep(slot, slots[slot].commands)
    BY <1>2, <1>4, <1>9 DEF SaveAgain, SaveStep
  <2> QED
    BY <1>1, <2>1
<1>10. CASE SaveCounter(slot) /\ slots[slot].commands # {}
  <2>1. store[slot] # Blank
    BY <1>10 DEF SaveCounter, TableInv, DueHaveRecords
  <2>2. SaveStep(slot, slots[slot].commands)
    BY <1>4, <1>10, <2>1 DEF SaveCounter, SaveStep
  <2> QED
    BY <1>1, <2>2
<1> QED
  BY <1>5, <1>6, <1>7, <1>8, <1>9, <1>10

\* The kinds of step there are, as far as the table goes.
LEMMA StepKinds ==
  ASSUME TableInv, [Next]_vars
  PROVE  \/ \E slot \in Slots, commands \in SUBSET Command : SaveStep(slot, commands)
         \/ \E slot \in Slots : Remove(slot)
         \/ \E slot \in Slots : HearPanel(slot)
         \/ UNCHANGED <<slots, store, suspect>> /\ saveDue' \subseteq saveDue
         \/ Restart
<1>1. CASE Learning
  BY <1>1 DEF Learning, tableVars
<1>2. ASSUME NEW t \in Tokens, Commit(t)
      PROVE  \E slot \in Slots, commands \in SUBSET Command : SaveStep(slot, commands)
  <2>1. PICK slot \in Kind : CanConfigure(slot) /\ Save(slot, learned)
    BY <1>2 DEF Commit, Save
  <2>2. slot \in Slots
    BY DEF Kind, Slots
  <2> QED
    BY <1>2, <2>1, <2>2, SavingSteps
<1>3. ASSUME NEW slot \in Slots,
             \/ SaveAgain(slot) \/ SaveCounter(slot)
             \/ \E command \in Command :
                  \/ ConfigureRelay(slot, command) \/ ConfigureEndpoint(slot, command)
                  \/ \E close \in Command : ConfigureTarget(slot, command, close)
      PROVE  \/ \E commands \in SUBSET Command : SaveStep(slot, commands)
             \/ UNCHANGED <<slots, store, suspect>> /\ saveDue' \subseteq saveDue
  <2>1. CASE SaveCounter(slot) /\ slots[slot].commands = {}
    BY <2>1 DEF SaveCounter
  <2>2. CASE ~(SaveCounter(slot) /\ slots[slot].commands = {})
    BY <1>3, <2>2, SavingSteps
  <2> QED
    BY <2>1, <2>2
<1>4. CASE UNCHANGED vars
  BY <1>4 DEF vars, tableVars
<1> QED
  BY <1>1, <1>2, <1>3, <1>4 DEF Next

\* Whoever learns something, learns commands.
LEMMA LearnedType == TableInv /\ [Next]_vars => learned' \subseteq Command
<1> SUFFICES ASSUME TableInv, [Next]_vars PROVE learned' \subseteq Command
  OBVIOUS
<1>1. learned' \subseteq learned \/ learned' \in SUBSET Command
  BY DEF Next, Learning, SessionStep, Begin, Learn, End, Commit, Saved, Remove, SaveAgain,
         HearPanel, SaveCounter, ConfigureRelay, ConfigureEndpoint, ConfigureTarget, Restart,
         vars, promiseVars
<1> QED
  BY <1>1 DEF TableInv, TableTypes

LEMMA InitTable == Init => TableInv
<1> SUFFICES ASSUME Init PROVE TableInv
  OBVIOUS
<1>1. Empty \in SlotState /\ Blank \in KeptState
  BY DEF Empty, SlotState, KeptState
<1>2. TableTypes
  BY <1>1 DEF Init, NoSession, TableTypes
<1>3. EverySlotIsDurable
  BY DEF Init, EverySlotIsDurable, IsReady, Empty
<1> QED
  BY <1>2, <1>3 DEF Init, TableInv, DueHaveRecords

LEMMA RemoveKeeps ==
  ASSUME TableInv, NEW slot \in Slots, Remove(slot)
  PROVE  TableInv'
<1>1. TableTypes /\ EverySlotIsDurable /\ DueHaveRecords /\ UNCHANGED <<saveDue, learned>>
  BY DEF TableInv, Remove, promiseVars
<1>2. PICK state, kept : /\ slots' = [slots EXCEPT ![slot] = state]
                         /\ store' = [store EXCEPT ![slot] = kept]
                         /\ \/ state = Empty /\ kept = Removed
                            \/ state = Faulted(slots[slot].commands) /\ kept \in {store[slot], Removed}
                         /\ suspect' \subseteq Slots
  BY <1>1 DEF Remove, TableTypes, Failed
<1>3. state \in SlotState /\ kept \in KeptState
  <2>1. slots[slot].commands \in SUBSET Command /\ store[slot] \in KeptState
    BY <1>1 DEF TableTypes, SlotState
  <2>2. Empty \in SlotState /\ Faulted(slots[slot].commands) \in SlotState
    BY <2>1 DEF SlotState, Empty, Faulted
  <2>3. Removed \in KeptState
    BY DEF KeptState
  <2> QED
    BY <1>2, <2>1, <2>2, <2>3
<1>4. TableTypes'
  BY <1>1, <1>2, <1>3 DEF TableTypes
<1>5. ~state.ready /\ (state = Empty => kept = Removed)
  BY <1>2 DEF Empty, Faulted
<1>6. EverySlotIsDurable'
  BY <1>1, <1>2, <1>5 DEF TableTypes, EverySlotIsDurable, IsReady
<1>7. kept # Blank
  BY <1>1, <1>2, KeptDistinct DEF Remove, EverySlotIsDurable
<1>8. DueHaveRecords'
  BY <1>1, <1>2, <1>7 DEF DueHaveRecords, TableTypes
<1> QED
  BY <1>4, <1>6, <1>8 DEF TableInv

LEMMA LoadedState ==
  ASSUME NEW kept \in KeptState
  PROVE  /\ Loaded(kept) \in SlotState
         /\ Loaded(kept).ready => kept = Saving(Loaded(kept).commands)
         /\ Loaded(kept) = Empty => kept \in {Blank, Removed}
         /\ kept \in {Blank, Removed} => Loaded(kept) = Empty
BY DEF Loaded, KeptState, Saving, Blank, Marked, Removed, Holding, Faulted, Empty, SlotState

LEMMA NextTable == TableInv /\ [Next]_vars => TableInv'
<1> SUFFICES ASSUME TableInv, [Next]_vars PROVE TableInv'
  OBVIOUS
<1>1. learned' \subseteq Command
  BY LearnedType
<1>2. CASE \E slot \in Slots, commands \in SUBSET Command : SaveStep(slot, commands)
  BY <1>1, <1>2, SaveKeeps
<1>3. CASE \E slot \in Slots : Remove(slot)
  BY <1>3, RemoveKeeps
<1>4. CASE \E slot \in Slots : HearPanel(slot)
  BY <1>1, <1>4, KeptDistinct
  DEF HearPanel, TableInv, TableTypes, EverySlotIsDurable, DueHaveRecords, IsReady
<1>5. CASE UNCHANGED <<slots, store, suspect>> /\ saveDue' \subseteq saveDue
  BY <1>1, <1>5 DEF TableInv, TableTypes, EverySlotIsDurable, DueHaveRecords, IsReady
<1>6. CASE Restart
  <2>1. \A slot \in Slots : store[slot] \in KeptState /\ slots'[slot] = Loaded(store[slot])
    BY <1>6 DEF Restart, TableInv, TableTypes
  <2>2. TableTypes'
    BY <1>1, <1>6, <2>1, LoadedState DEF Restart, TableInv, TableTypes
  <2>3. EverySlotIsDurable'
    BY <1>6, <2>1, LoadedState DEF Restart, EverySlotIsDurable, IsReady
  <2> QED
    BY <1>6, <2>2, <2>3 DEF Restart, TableInv, DueHaveRecords
<1> QED
  BY <1>2, <1>3, <1>4, <1>5, <1>6, StepKinds

LEMMA TableAlways == Spec => []TableInv
BY InitTable, NextTable, PTL DEF Spec

\* A restart finds every slot as it is, for tables of any size.
THEOREM SlotsAreDurable == Spec => []EverySlotIsDurable
<1>1. TableInv => EverySlotIsDurable
  BY DEF TableInv
<1> QED
  BY <1>1, TableAlways, PTL

\* A slot whose storage is in doubt keeps its profile, or loses it to a tombstone.
THEOREM FaultsAreNotOverwritten == Spec => NothingOverwritesAFault
<1> DEFINE Kept == \A slot \in Slots : slots[slot].fault /\ store'[slot] # store[slot] =>
                     store'[slot] = Removed \/ slots[slot].commands \subseteq store'[slot].commands
<1>1. TableInv /\ [Next]_vars => [Kept]_vars
  <2> SUFFICES ASSUME TableInv, [Next]_vars,
                      NEW slot \in Slots, slots[slot].fault, store'[slot] # store[slot]
               PROVE  store'[slot] = Removed \/ slots[slot].commands \subseteq store'[slot].commands
    OBVIOUS
  <2>1. ASSUME NEW s \in Slots, NEW commands \in SUBSET Command, SaveStep(s, commands)
        PROVE  slots[slot].commands \subseteq store'[slot].commands
    <3>1. TableTypes /\ Save(s, commands)
      BY <2>1 DEF TableInv, SaveStep
    <3>2. s = slot
      BY <3>1, SaveEffect
    <3>3. slots[slot].commands \subseteq commands /\ store[slot] # Blank
      BY <2>1, <3>2 DEF SaveStep, KeepsProfile
    <3>4. store'[slot] = Saving(commands)
      BY <3>1, <3>2, <3>3, SaveEffect
    <3> QED
      BY <3>3, <3>4 DEF Saving
  <2>2. ASSUME NEW s \in Slots, Remove(s)
        PROVE  store'[slot] = Removed
    BY <2>2 DEF Remove, TableInv, TableTypes
  <2>3. ASSUME NEW s \in Slots, HearPanel(s)
        PROVE  FALSE
    BY <2>3 DEF HearPanel
  <2>4. ASSUME UNCHANGED store PROVE FALSE
    BY <2>4
  <2> QED
    BY <2>1, <2>2, <2>3, <2>4, StepKinds DEF Restart
<1> QED
  BY <1>1, TableAlways, PTL DEF Spec, NothingOverwritesAFault

-----------------------------------------------------------------------------
\* What a commit may do again: nothing, while the first slot it would take is in doubt.
Blocked == \E slot \in Kind : FirstFree(slot) /\ slots[slot].fault

DueReady == \A slot \in saveDue : IsReady(slot)

AtMostOne(S) == \A s, t \in S : s = t

WrittenInv ==
  /\ AtMostOne(written)
  /\ active /\ written # {} => Blocked /\ DueReady
  /\ learned # {} => active /\ DueReady

LEMMA SlotsAreNumbers == Slots \subseteq Int /\ Kind \subseteq Slots
BY TableAssumption DEF Slots, PanelSlots, RelaySlots, Kind

LEMMA FirstFreeIsUnique ==
  ASSUME NEW s \in Kind, NEW t \in Kind, FirstFree(s), FirstFree(t)
  PROVE  s = t
<1>1. s \in Int /\ t \in Int
  BY SlotsAreNumbers
<1> QED
  BY <1>1 DEF FirstFree

\* A commit writes when nothing has been written, and closes the door if it fails.
LEMMA CommitWritesOnce ==
  ASSUME TableInv, WrittenInv, NEW t \in Tokens, Commit(t)
  PROVE  WrittenInv'
<1>1. PICK slot \in Kind :
        /\ FirstFree(slot) /\ CanConfigure(slot)
        /\ \/ SaveWorks(slot, learned) /\ Saved(slot)
           \/ SaveFails(slot, learned) /\ UNCHANGED promiseVars
        /\ written' = IF store'[slot] = Saving(learned) THEN written \cup {slot} ELSE written
  BY DEF Commit
<1>2. active /\ learned # {} /\ UNCHANGED saveDue
  BY DEF Commit
<1>3. written = {}
  BY <1>1, <1>2, FirstFreeIsUnique DEF WrittenInv, Blocked, CanConfigure
<1>4. AtMostOne(written')
  BY <1>1, <1>3 DEF AtMostOne
<1>5. CASE Saved(slot)
  BY <1>4, <1>5 DEF Saved, WrittenInv
<1>6. CASE SaveFails(slot, learned) /\ UNCHANGED promiseVars
  <2>1. slots' = [slots EXCEPT ![slot] = Faulted(learned)] /\ slot \in Slots
    BY <1>6, SlotsAreNumbers DEF SaveFails, Failed
  <2>2. /\ slots'[slot] = Faulted(learned)
        /\ \A other \in Slots \ {slot} : slots'[other] = slots[other]
    BY <2>1 DEF TableInv, TableTypes
  <2>3. Kind' = Kind /\ UNCHANGED <<active, learned>>
    BY <1>6 DEF promiseVars, Kind
  <2>4. FirstFree(slot)'
    <3>1. ~slots'[slot].ready
      BY <2>2 DEF Faulted
    <3>2. ASSUME NEW lower \in Kind, lower < slot PROVE slots'[lower].ready
      <4>1. lower # slot /\ lower \in Slots
        BY <3>2, SlotsAreNumbers
      <4> QED
        BY <1>1, <2>2, <3>2, <4>1 DEF FirstFree, IsReady
    <3> QED
      BY <2>3, <3>1, <3>2 DEF FirstFree, IsReady
  <2>5. Blocked'
    BY <2>2, <2>3, <2>4 DEF Blocked, Faulted
  <2>6. DueReady'
    <3>1. DueReady /\ slot \notin saveDue
      BY <1>1, <1>2 DEF WrittenInv, DueReady, FirstFree
    <3>2. saveDue \subseteq Slots
      BY DEF TableInv, TableTypes, Slots
    <3> QED
      BY <1>2, <2>2, <3>1, <3>2 DEF DueReady, IsReady
  <2> QED
    BY <1>2, <1>4, <2>3, <2>5, <2>6 DEF WrittenInv
<1> QED
  BY <1>1, <1>5, <1>6

\* A timeout in a session that has learned something saves a ready panel; when that
\* fails, the first slot a commit would take is in doubt all the same.
LEMMA SaveCounterKeepsBlocked ==
  ASSUME TableInv, WrittenInv, NEW slot \in Slots, SaveCounter(slot)
  PROVE  WrittenInv'
<1>1. UNCHANGED <<active, relay, learned, written>> /\ saveDue' = saveDue \ {slot} /\ slot \in saveDue
  BY DEF SaveCounter, promiseVars
<1>2. Kind' = Kind
  BY <1>1 DEF Kind
<1>3. CASE UNCHANGED slots
  <2>1. Blocked => Blocked'
    BY <1>2, <1>3 DEF Blocked, FirstFree, IsReady
  <2>2. DueReady => DueReady'
    BY <1>1, <1>3 DEF DueReady, IsReady
  <2> QED
    BY <1>1, <2>1, <2>2 DEF WrittenInv
<1>4. CASE Save(slot, slots[slot].commands)
  <2>1. slots[slot].commands \in SUBSET Command /\ TableTypes
    BY DEF TableInv, TableTypes, SlotState
  <2>2. /\ \A other \in Slots \ {slot} : slots'[other] = slots[other]
        /\ slots'[slot].ready \/ (~slots'[slot].ready /\ slots'[slot].fault)
    BY <1>4, <2>1, SaveEffect
  <2>3. saveDue \subseteq Slots
    BY DEF TableInv, TableTypes, Slots
  <2>4. DueReady => DueReady'
    BY <1>1, <2>2, <2>3 DEF DueReady, IsReady
  <2>5. ASSUME Blocked, DueReady PROVE Blocked'
    <3>1. PICK s \in Kind : FirstFree(s) /\ slots[s].fault
      BY <2>5 DEF Blocked
    <3>2. IsReady(slot) /\ s # slot /\ s \in Slots /\ s \in Int /\ slot \in Int
      BY <1>1, <2>5, <3>1, SlotsAreNumbers DEF DueReady, FirstFree
    <3>3. CASE slot \in Kind /\ slot < s /\ ~slots'[slot].ready
      <4>1. ASSUME NEW lower \in Kind, lower < slot PROVE slots'[lower].ready
        <5>1. lower \in Int /\ lower \in Slots \ {slot} /\ lower < s
          BY <3>2, <3>3, <4>1, SlotsAreNumbers
        <5> QED
          BY <2>2, <3>1, <5>1 DEF FirstFree, IsReady
      <4>2. FirstFree(slot)' /\ slots'[slot].fault
        BY <1>2, <2>2, <3>3, <4>1 DEF FirstFree, IsReady
      <4> QED
        BY <1>2, <3>3, <4>2 DEF Blocked
    <3>4. CASE ~(slot \in Kind /\ slot < s /\ ~slots'[slot].ready)
      <4>1. ASSUME NEW lower \in Kind, lower < s PROVE slots'[lower].ready
        <5>1. lower \in Slots /\ slots[lower].ready
          BY <3>1, <4>1, SlotsAreNumbers DEF FirstFree, IsReady
        <5> QED
          BY <2>2, <3>4, <4>1, <5>1
      <4>2. FirstFree(s)' /\ slots'[s].fault
        BY <1>2, <2>2, <3>1, <3>2, <4>1 DEF FirstFree, IsReady
      <4> QED
        BY <1>2, <4>2 DEF Blocked
    <3> QED
      BY <3>3, <3>4
  <2> QED
    BY <1>1, <2>4, <2>5 DEF WrittenInv
<1> QED
  BY <1>3, <1>4 DEF SaveCounter

LEMMA NextWritten == TableInv /\ WrittenInv /\ [Next]_vars => WrittenInv'
<1> SUFFICES ASSUME TableInv, WrittenInv, [Next]_vars PROVE WrittenInv'
  OBVIOUS
<1>1. CASE Learning
  <2>1. UNCHANGED <<slots, saveDue>>
    BY <1>1 DEF Learning, tableVars
  <2>2. DueReady => DueReady'
    BY <2>1 DEF DueReady, IsReady
  <2>3. learned' # {} => active' /\ DueReady
    BY <1>1 DEF Learning, SessionStep, Begin, Learn, End, DueReady
  <2>4. active /\ active' => relay' = relay
    BY <1>1 DEF Learning, SessionStep, Begin, Learn, End
  <2>5. relay' = relay /\ Blocked => Blocked'
    BY <2>1 DEF Blocked, FirstFree, IsReady, Kind
  <2>6. written' = IF active /\ active' THEN written ELSE {}
    BY <1>1 DEF Learning
  <2> QED
    BY <2>2, <2>3, <2>4, <2>5, <2>6 DEF WrittenInv, AtMostOne
<1>2. ASSUME NEW slot \in Slots, HearPanel(slot) PROVE WrittenInv'
  <2>1. UNCHANGED <<active, relay, learned, written, slots>> /\ saveDue' = saveDue \cup {slot} /\ IsReady(slot)
    BY <1>2 DEF HearPanel, promiseVars
  <2>2. (DueReady => DueReady') /\ (Blocked => Blocked')
    BY <2>1 DEF DueReady, IsReady, Blocked, FirstFree, Kind
  <2> QED
    BY <2>1, <2>2 DEF WrittenInv
<1>3. ASSUME ~active, UNCHANGED <<promiseVars, written>> PROVE WrittenInv'
  BY <1>3 DEF WrittenInv, promiseVars
<1>4. ASSUME NEW slot \in Slots,
             \/ Remove(slot) \/ SaveAgain(slot)
             \/ \E command \in Command :
                  \/ ConfigureRelay(slot, command) \/ ConfigureEndpoint(slot, command)
                  \/ \E close \in Command : ConfigureTarget(slot, command, close)
      PROVE  WrittenInv'
  BY <1>3, <1>4 DEF Remove, SaveAgain, ConfigureRelay, ConfigureEndpoint, ConfigureTarget
<1>5. CASE Restart
  BY <1>5 DEF Restart, WrittenInv, AtMostOne
<1>6. CASE UNCHANGED vars
  BY <1>6 DEF vars, promiseVars, tableVars, WrittenInv, Blocked, DueReady, FirstFree, IsReady, Kind
<1> QED
  BY <1>1, <1>2, <1>4, <1>5, <1>6, CommitWritesOnce, SaveCounterKeepsBlocked DEF Next

\* However often a commit is repeated and whatever fails in between, a session writes
\* one record at most.
THEOREM OneRecordIsWritten == Spec => []OneRecordPerSession
<1>1. Init => WrittenInv
  BY DEF Init, NoSession, WrittenInv, AtMostOne
<1>2. WrittenInv => OneRecordPerSession
  <2> SUFFICES ASSUME AtMostOne(written) PROVE Cardinality(written) <= 1
    BY DEF WrittenInv, OneRecordPerSession
  <2>1. CASE written = {}
    BY <2>1, FS_EmptySet
  <2>2. CASE written # {}
    <3>1. PICK s : written = {s}
      BY <2>2 DEF AtMostOne
    <3> QED
      BY <3>1, FS_Singleton
  <2> QED
    BY <2>1, <2>2
<1> QED
  BY <1>1, <1>2, NextWritten, TableAlways, PTL DEF Spec

-----------------------------------------------------------------------------
\* What is not in doubt is ready, or as good as new.
Unsuspected(slot) == IsReady(slot) \/ slots[slot] = Empty

ClaimsInv == NoAmbiguityWithoutFault /\ \A slot \in Slots \ suspect : Unsuspected(slot)

\* No other slot claims what a save is about to make `slot' hold.
ClearFor(slot, commands) ==
  \A other \in Slots \ suspect : other # slot =>
    \A command \in commands :
      /\ ~Accepts(other, command)
      /\ {slot, other} \subseteq PanelSlots => ~SameTarget(other, command.family)

LEMMA SaveKeepsClaims ==
  ASSUME TableInv, ClaimsInv, NEW slot \in Slots, NEW commands \in SUBSET Command,
         Save(slot, commands), slot \in suspect \/ ClearFor(slot, commands)
  PROVE  ClaimsInv'
<1>1. /\ \A other \in Slots \ {slot} : slots'[other] = slots[other]
      /\ slots'[slot].commands = commands
      /\ \/ slots'[slot].ready /\ suspect' = suspect
         \/ suspect' = suspect \cup {slot}
  BY SaveEffect DEF TableInv
<1>2. ASSUME NEW s \in Slots \ suspect' PROVE Unsuspected(s)'
  BY <1>1, <1>2 DEF ClaimsInv, Unsuspected, IsReady
<1>3. ASSUME NEW one \in Slots \ suspect', NEW other \in Slots \ suspect', one # other,
             slots'[one].ready, slots'[other].ready
      PROVE  ~Ambiguous(one, other)'
  <2>1. one \notin suspect /\ other \notin suspect
    BY <1>1, <1>3
  <2>2. CASE one # slot /\ other # slot
    BY <1>1, <1>3, <2>1, <2>2
    DEF ClaimsInv, NoAmbiguityWithoutFault, Ambiguous, Accepts, SameTarget, IsReady
  <2>3. CASE one = slot
    <3>1. ClearFor(slot, commands) /\ slots'[other] = slots[other]
      BY <1>1, <1>3, <2>1, <2>3
    <3> QED
      BY <1>1, <1>3, <2>1, <2>3, <3>1 DEF ClearFor, Ambiguous, Accepts, SameTarget, IsReady
  <2>4. CASE other = slot
    <3>1. ClearFor(slot, commands) /\ slots'[one] = slots[one]
      BY <1>1, <1>3, <2>1, <2>4
    <3> QED
      BY <1>1, <1>3, <2>1, <2>4, <3>1 DEF ClearFor, Ambiguous, Accepts, SameTarget, IsReady
  <2> QED
    BY <2>2, <2>3, <2>4
<1> QED
  BY <1>2, <1>3 DEF ClaimsInv, NoAmbiguityWithoutFault, IsReady

\* A ready slot is clear of the others already.
LEMMA ReadyIsClear ==
  ASSUME ClaimsInv, NEW slot \in Slots \ suspect, IsReady(slot)
  PROVE  ClearFor(slot, slots[slot].commands)
BY DEF ClaimsInv, NoAmbiguityWithoutFault, ClearFor, Ambiguous, Accepts, SameTarget

\* The two tables have no slot in common.
LEMMA KindsAreDisjoint == PanelSlots \cap RelaySlots = {}
BY TableAssumption DEF PanelSlots, RelaySlots

LEMMA SavesAreClear ==
  ASSUME TableInv, ClaimsInv, NEW slot \in Slots,
         \/ \E t \in Tokens : Commit(t) /\ Save(slot, learned) /\ slot \in Kind
         \/ \E open, close \in Command : ConfigureTarget(slot, open, close)
         \/ \E command \in Command : ConfigureEndpoint(slot, command)
         \/ \E command \in Command : ConfigureRelay(slot, command)
         \/ SaveAgain(slot)
         \/ SaveCounter(slot) /\ slots[slot].commands # {}
  PROVE  \E commands \in SUBSET Command :
           Save(slot, commands) /\ (slot \in suspect \/ ClearFor(slot, commands))
<1>1. slots[slot].commands \in SUBSET Command /\ learned \in SUBSET Command
  BY DEF TableInv, TableTypes, SlotState
<1>2. ASSUME IsReady(slot)
      PROVE  slot \in suspect \/ ClearFor(slot, slots[slot].commands)
  BY <1>2, ReadyIsClear
<1>3. CASE \E t \in Tokens : Commit(t) /\ Save(slot, learned) /\ slot \in Kind
  <2>1. ~AlreadyLearned
    BY <1>3 DEF Commit
  <2>2. ClearFor(slot, learned)
    BY <1>3, <2>1, KindsAreDisjoint
    DEF AlreadyLearned, ClearFor, Kind, Slots, Accepts, SameTarget
  <2> QED
    BY <1>1, <1>3, <2>2
<1>4. CASE \E open, close \in Command : ConfigureTarget(slot, open, close)
  <2>1. PICK open \in Command, close \in Command : ConfigureTarget(slot, open, close)
    BY <1>4
  <2>2. ~Taken(slot, {open, close}) /\ slot \in PanelSlots
    BY <2>1 DEF ConfigureTarget
  <2>3. ClearFor(slot, {open, close})
    BY <2>2 DEF Taken, ClearFor, Slots, Accepts, SameTarget
  <2>4. \/ Save(slot, {open, close})
        \/ IsReady(slot) /\ Save(slot, slots[slot].commands)
    BY <2>1 DEF ConfigureTarget
  <2>5. {open, close} \in SUBSET Command
    OBVIOUS
  <2> QED
    BY <1>1, <1>2, <2>3, <2>4, <2>5
<1>5. CASE \E command \in Command : ConfigureEndpoint(slot, command)
  <2>1. PICK command \in Command : ConfigureEndpoint(slot, command)
    BY <1>5
  <2> DEFINE commands == slots[slot].commands \cup {command}
  <2>2. /\ IsReady(slot) /\ SameTarget(slot, command.family) /\ slot \in PanelSlots
        /\ ~\E other \in RelaySlots : Accepts(other, command)
        /\ Save(slot, commands)
    BY <2>1 DEF ConfigureEndpoint
  <2>3. ASSUME slot \notin suspect
        PROVE  ClearFor(slot, commands)
    <3>1. ClearFor(slot, slots[slot].commands)
      BY <1>2, <2>2, <2>3
    <3>2. PICK own \in slots[slot].commands : own.family = command.family
      BY <2>2 DEF SameTarget
    <3>3. ASSUME NEW other \in Slots \ suspect, other # slot
          PROVE  /\ ~Accepts(other, command)
                 /\ other \in PanelSlots => ~SameTarget(other, command.family)
      <4>1. other \in PanelSlots => ~SameTarget(other, command.family)
        BY <2>2, <3>1, <3>2, <3>3 DEF ClearFor
      <4> QED
        BY <2>2, <4>1 DEF Slots, Accepts, SameTarget
    <3> QED
      BY <3>1, <3>3 DEF ClearFor
  <2>4. commands \in SUBSET Command
    BY <1>1
  <2> QED
    BY <2>2, <2>3, <2>4
<1>6. CASE \E command \in Command : ConfigureRelay(slot, command)
  <2>1. PICK command \in Command : ConfigureRelay(slot, command)
    BY <1>6
  <2>2. ClearFor(slot, {command}) /\ Save(slot, {command})
    BY <2>1, KindsAreDisjoint DEF ConfigureRelay, ClearFor
  <2>3. {command} \in SUBSET Command
    OBVIOUS
  <2> QED
    BY <2>2, <2>3
<1>7. CASE SaveAgain(slot)
  BY <1>1, <1>2, <1>7 DEF SaveAgain
<1>8. CASE SaveCounter(slot) /\ slots[slot].commands # {}
  <2>1. slot \in suspect \/ IsReady(slot)
    BY <1>8 DEF ClaimsInv, Unsuspected, Empty
  <2> QED
    BY <1>1, <1>2, <1>8, <2>1 DEF SaveCounter
<1> QED
  BY <1>3, <1>4, <1>5, <1>6, <1>7, <1>8

LEMMA RemoveKeepsClaims ==
  ASSUME TableInv, ClaimsInv, NEW slot \in Slots, Remove(slot)
  PROVE  ClaimsInv'
<1>1. \/ slots' = [slots EXCEPT ![slot] = Empty] /\ suspect' = suspect \ {slot}
      \/ slots' = [slots EXCEPT ![slot] = Faulted(slots[slot].commands)] /\ suspect' = suspect \cup {slot}
  BY DEF Remove, Failed
<1>2. /\ \A other \in Slots \ {slot} : slots'[other] = slots[other]
      /\ ~slots'[slot].ready
      /\ slots'[slot] = Empty \/ slot \in suspect'
      /\ suspect \ {slot} \subseteq suspect'
  <2>1. slots \in [Slots -> SlotState]
    BY DEF TableInv, TableTypes
  <2>2. ASSUME NEW state, ~state.ready, slots' = [slots EXCEPT ![slot] = state]
        PROVE  /\ \A other \in Slots \ {slot} : slots'[other] = slots[other]
               /\ slots'[slot] = state /\ ~slots'[slot].ready
    BY <2>1, <2>2
  <2>3. ~Empty.ready /\ ~Faulted(slots[slot].commands).ready
    BY DEF Empty, Faulted
  <2> HIDE DEF Empty, Faulted
  <2> QED
    BY <1>1, <2>2, <2>3
<1>3. ASSUME NEW s \in Slots \ suspect' PROVE Unsuspected(s)'
  BY <1>2, <1>3 DEF ClaimsInv, Unsuspected, IsReady
<1>4. NoAmbiguityWithoutFault'
  BY <1>2 DEF ClaimsInv, NoAmbiguityWithoutFault, Ambiguous, Accepts, SameTarget, IsReady
<1> QED
  BY <1>3, <1>4 DEF ClaimsInv

\* What is ready after a restart, and not in doubt, was the same before.
LEMMA RestartKeepsClaims ==
  ASSUME TableInv, ClaimsInv, Restart
  PROVE  ClaimsInv'
<1>1. ASSUME NEW s \in Slots, s \notin suspect
      PROVE  slots'[s] = Empty \/ (slots'[s] = Holding(slots[s].commands) /\ IsReady(s))
  <2>1. slots'[s] = Loaded(store[s]) /\ Unsuspected(s)
    BY <1>1 DEF Restart, ClaimsInv
  <2>2. CASE IsReady(s)
    <3>1. store[s] = Saving(slots[s].commands)
      BY <2>2 DEF TableInv, EverySlotIsDurable
    <3> QED
      BY <2>1, <2>2, <3>1 DEF Loaded, Saving
  <2>3. CASE slots[s] = Empty
    <3>1. store[s] \in {Blank, Removed}
      BY <2>3 DEF TableInv, EverySlotIsDurable
    <3> QED
      BY <2>1, <3>1, LoadedState DEF KeptState
  <2> QED
    BY <2>1, <2>2, <2>3 DEF Unsuspected
<1>2. \A s \in Slots \ suspect' : s \notin suspect \/ slots'[s] = Empty
  BY DEF Restart
<1>3. ~Empty.ready /\ \A commands : Holding(commands).ready /\ Holding(commands).commands = commands
  BY DEF Empty, Holding
<1>4. ASSUME NEW s \in Slots \ suspect' PROVE Unsuspected(s)'
  BY <1>1, <1>2, <1>3, <1>4 DEF Unsuspected, IsReady
<1>5. NoAmbiguityWithoutFault'
  BY <1>1, <1>2, <1>3
  DEF ClaimsInv, NoAmbiguityWithoutFault, Ambiguous, Accepts, SameTarget, IsReady
<1> QED
  BY <1>4, <1>5 DEF ClaimsInv

LEMMA NextClaims == TableInv /\ ClaimsInv /\ [Next]_vars => ClaimsInv'
<1> SUFFICES ASSUME TableInv, ClaimsInv, [Next]_vars PROVE ClaimsInv'
  OBVIOUS
<1>1. CASE UNCHANGED <<slots, suspect>>
  BY <1>1 DEF ClaimsInv, NoAmbiguityWithoutFault, Unsuspected, Ambiguous, Accepts, SameTarget, IsReady
<1>2. ASSUME NEW slot \in Slots,
             \E commands \in SUBSET Command :
               Save(slot, commands) /\ (slot \in suspect \/ ClearFor(slot, commands))
      PROVE  ClaimsInv'
  BY <1>2, SaveKeepsClaims
<1>3. ASSUME NEW t \in Tokens, Commit(t) PROVE ClaimsInv'
  <2>1. PICK slot \in Kind : Save(slot, learned)
    BY <1>3 DEF Commit, Save
  <2>2. slot \in Slots
    BY SlotsAreNumbers
  <2> QED
    BY <1>2, <1>3, <2>1, <2>2, SavesAreClear
<1>4. ASSUME NEW slot \in Slots,
             \/ SaveAgain(slot) \/ SaveCounter(slot)
             \/ \E command \in Command :
                  \/ ConfigureRelay(slot, command) \/ ConfigureEndpoint(slot, command)
                  \/ \E close \in Command : ConfigureTarget(slot, command, close)
      PROVE  ClaimsInv'
  <2>1. CASE SaveCounter(slot) /\ slots[slot].commands = {}
    BY <1>1, <2>1 DEF SaveCounter
  <2>2. CASE ~(SaveCounter(slot) /\ slots[slot].commands = {})
    BY <1>2, <1>4, <2>2, SavesAreClear
  <2> QED
    BY <2>1, <2>2
<1>5. ASSUME Learning \/ (\E slot \in Slots : HearPanel(slot)) \/ UNCHANGED vars
      PROVE  UNCHANGED <<slots, suspect>>
  BY <1>5 DEF Learning, HearPanel, vars, tableVars
<1> QED
  BY <1>1, <1>3, <1>4, <1>5, RemoveKeepsClaims, RestartKeepsClaims DEF Next

\* Profiles whose saves have worked never claim the same frame, in tables of any size.
THEOREM ClaimsAreDisjoint == Spec => []NoAmbiguityWithoutFault
<1>1. Init => ClaimsInv
  BY DEF Init, ClaimsInv, NoAmbiguityWithoutFault, Unsuspected, IsReady, Empty
<1>2. ClaimsInv => NoAmbiguityWithoutFault
  BY DEF ClaimsInv
<1> QED
  BY <1>1, <1>2, NextClaims, TableAlways, PTL DEF Spec

-----------------------------------------------------------------------------
(* What is ready is complete, also after faults, late saves and restarts.  *)

Whole(slot, commands) == Complete(commands, slot \in RelaySlots)

\* Whatever a slot holds or has in storage, ready or not, is a whole profile, and what
\* is learned is one for the slots a commit may take.
ProfilesAreWhole ==
  /\ learned = {} \/ Complete(learned, relay)
  /\ \A slot \in Slots :
       /\ IsReady(slot) => slots[slot].commands # {}
       /\ slots[slot].commands = {} \/ Whole(slot, slots[slot].commands)
       /\ store[slot].record = "profile" => Whole(slot, store[slot].commands)

\* Who owns the session, and where its records went.
SessionTypes ==
  /\ token \in Tokens \cup {NoToken} /\ relay \in BOOLEAN /\ active \in BOOLEAN
  /\ savedSlot \in Slots \cup {NoSlot} /\ written \subseteq Slots

-----------------------------------------------------------------------------
\* No profile is without commands.
LEMMA CompleteIsNotEmpty == \A commands, r : Complete(commands, r) => commands # {}
BY FS_EmptySet DEF Complete

\* One command is a whole relay profile, two of a target are a whole panel, and so are
\* those and a third.
LEMMA OneIsWhole == ASSUME NEW command PROVE Complete({command}, TRUE)
BY FS_Singleton DEF Complete

LEMMA TwoAreWhole ==
  ASSUME NEW open, NEW close, open # close, open.family = close.family
  PROVE  Complete({open, close}, FALSE)
<1>1. Cardinality({open}) = 1 /\ IsFiniteSet({open})
  BY FS_Singleton
<1>2. Cardinality({open} \cup {close}) = 2
  BY <1>1, FS_AddElement
<1>3. {open} \cup {close} = {open, close}
  OBVIOUS
<1> QED
  BY <1>2, <1>3 DEF Complete

LEMMA ThreeAreWhole ==
  ASSUME NEW commands, Complete(commands, FALSE), Cardinality(commands) = 2, IsFiniteSet(commands),
         NEW command, command \notin commands, NEW own \in commands, own.family = command.family
  PROVE  Complete(commands \cup {command}, FALSE)
<1>1. Cardinality(commands \cup {command}) = Cardinality(commands) + 1
  BY FS_AddElement, Zenon
<1>2. \A one, other \in commands : one.family = other.family
  BY DEF Complete
<1> QED
  BY <1>1, <1>2 DEF Complete

-----------------------------------------------------------------------------
\* What is saved is whole.
LEMMA SavesAreWhole ==
  ASSUME TableInv, ProfilesAreWhole, NEW slot \in Slots,
         \/ \E t \in Tokens : Commit(t) /\ Save(slot, learned) /\ slot \in Kind
         \/ \E open, close \in Command : ConfigureTarget(slot, open, close)
         \/ \E command \in Command : ConfigureEndpoint(slot, command)
         \/ \E command \in Command : ConfigureRelay(slot, command)
         \/ SaveAgain(slot)
         \/ SaveCounter(slot) /\ slots[slot].commands # {}
  PROVE  \E commands \in SUBSET Command : Save(slot, commands) /\ Whole(slot, commands)
<1>1. slots[slot].commands \in SUBSET Command /\ learned \in SUBSET Command
  BY DEF TableInv, TableTypes, SlotState
<1>2. ASSUME slots[slot].commands # {} PROVE Whole(slot, slots[slot].commands)
  BY <1>2 DEF ProfilesAreWhole
<1>3. IsReady(slot) => slots[slot].commands # {}
  BY DEF ProfilesAreWhole
<1>4. CASE \E t \in Tokens : Commit(t) /\ Save(slot, learned) /\ slot \in Kind
  <2>1. relay <=> slot \in RelaySlots
    BY <1>4, KindsAreDisjoint DEF Kind
  <2>2. Complete(learned, relay)
    BY <1>4 DEF Commit, ProfilesAreWhole
  <2>3. Whole(slot, learned)
    BY <2>1, <2>2 DEF Whole, Complete
  <2> QED
    BY <1>1, <1>4, <2>3
<1>5. CASE \E open, close \in Command : ConfigureTarget(slot, open, close)
  <2>1. PICK open \in Command, close \in Command : ConfigureTarget(slot, open, close)
    BY <1>5
  <2>2. slot \in PanelSlots /\ open.family = close.family /\ open # close
    BY <2>1 DEF ConfigureTarget
  <2>3. Whole(slot, {open, close})
    BY <2>2, KindsAreDisjoint, TwoAreWhole DEF Whole, Complete
  <2>4. \/ Save(slot, {open, close})
        \/ IsReady(slot) /\ Save(slot, slots[slot].commands)
    BY <2>1 DEF ConfigureTarget
  <2>5. {open, close} \in SUBSET Command
    OBVIOUS
  <2> QED
    BY <1>1, <1>2, <1>3, <2>3, <2>4, <2>5
<1>6. CASE \E command \in Command : ConfigureEndpoint(slot, command)
  <2>1. PICK command \in Command : ConfigureEndpoint(slot, command)
    BY <1>6
  <2> DEFINE own == slots[slot].commands
  <2>2. /\ slot \in PanelSlots /\ IsReady(slot) /\ SameTarget(slot, command.family)
        /\ Cardinality(own) = 2 /\ command \notin own
        /\ Save(slot, own \cup {command})
    BY <2>1 DEF ConfigureEndpoint
  <2>3. Complete(own, FALSE)
    BY <1>2, <1>3, <2>2, KindsAreDisjoint DEF Whole, Complete
  <2>4. IsFiniteSet(own)
    BY <1>1, CommandAssumption, FS_Subset
  <2>5. Whole(slot, own \cup {command})
    BY <2>2, <2>3, <2>4, KindsAreDisjoint, ThreeAreWhole DEF Whole, Complete, SameTarget
  <2>6. own \cup {command} \in SUBSET Command
    BY <1>1
  <2> QED
    BY <2>2, <2>5, <2>6
<1>7. CASE \E command \in Command : ConfigureRelay(slot, command)
  <2>1. PICK command \in Command : ConfigureRelay(slot, command)
    BY <1>7
  <2>2. Save(slot, {command}) /\ slot \in RelaySlots
    BY <2>1 DEF ConfigureRelay
  <2>3. Whole(slot, {command})
    BY <2>2, OneIsWhole DEF Whole, Complete
  <2>4. {command} \in SUBSET Command
    OBVIOUS
  <2> QED
    BY <2>2, <2>3, <2>4
<1>8. CASE SaveAgain(slot)
  BY <1>1, <1>2, <1>3, <1>8 DEF SaveAgain
<1>9. CASE SaveCounter(slot) /\ slots[slot].commands # {}
  BY <1>1, <1>2, <1>9 DEF SaveCounter
<1> QED
  BY <1>4, <1>5, <1>6, <1>7, <1>8, <1>9

\* A save of a whole profile leaves whole profiles in memory and in storage.
LEMMA SaveKeepsProfiles ==
  ASSUME TableInv, ProfilesAreWhole, NEW slot \in Slots, NEW commands \in SUBSET Command,
         Save(slot, commands), Whole(slot, commands), learned' = {} \/ Complete(learned', relay')
  PROVE  ProfilesAreWhole'
<1>1. TableTypes
  BY DEF TableInv
<1>2. /\ \A other \in Slots \ {slot} : slots'[other] = slots[other] /\ store'[other] = store[other]
      /\ slots'[slot].commands = commands
      /\ store'[slot] \in {store[slot], Saving(commands), Marked}
  BY <1>1, SaveEffect
<1>3. commands # {}
  BY CompleteIsNotEmpty DEF Whole
<1>4. ASSUME NEW s \in Slots
      PROVE  /\ IsReady(s)' => slots'[s].commands # {}
             /\ slots'[s].commands = {} \/ Whole(s, slots'[s].commands)
             /\ store'[s].record = "profile" => Whole(s, store'[s].commands)
  <2>1. CASE s = slot
    BY <1>2, <1>3, <2>1 DEF ProfilesAreWhole, Saving, Marked
  <2>2. CASE s # slot
    BY <1>2, <2>2 DEF ProfilesAreWhole, IsReady
  <2> QED
    BY <2>1, <2>2
<1> QED
  BY <1>4 DEF ProfilesAreWhole, Whole

\* Nothing is learned but what SessionPromise says.
LEMMA LearnedIsWhole ==
  ASSUME ProfilesAreWhole, [Next]_vars
  PROVE  learned' = {} \/ Complete(learned', relay')
<1>1. CASE Learning
  <2>1. ASSUME NEW commands \in SUBSET Command, Learn(commands)
        PROVE  learned' = {} \/ Complete(learned', relay')
    BY <2>1 DEF Learn
  <2>2. CASE learned' = {}
    BY <2>2
  <2> QED
    BY <1>1, <2>1, <2>2 DEF Learning, SessionStep, Begin, End
<1>2. CASE learned' = {}
  BY <1>2
<1>3. CASE UNCHANGED <<learned, relay>>
  BY <1>3 DEF ProfilesAreWhole
<1> QED
  BY <1>1, <1>2, <1>3
  DEF Next, Commit, Saved, Remove, SaveAgain, HearPanel, SaveCounter, ConfigureRelay,
      ConfigureEndpoint, ConfigureTarget, Restart, vars, promiseVars

LEMMA NextProfiles == TableInv /\ ProfilesAreWhole /\ [Next]_vars => ProfilesAreWhole'
<1> SUFFICES ASSUME TableInv, ProfilesAreWhole, [Next]_vars PROVE ProfilesAreWhole'
  OBVIOUS
<1>1. learned' = {} \/ Complete(learned', relay')
  BY LearnedIsWhole
<1>2. CASE UNCHANGED <<slots, store>>
  BY <1>1, <1>2 DEF ProfilesAreWhole, IsReady, Whole
<1>3. ASSUME NEW slot \in Slots, NEW commands \in SUBSET Command, Save(slot, commands), Whole(slot, commands)
      PROVE  ProfilesAreWhole'
  BY <1>1, <1>3, SaveKeepsProfiles
<1>4. ASSUME NEW t \in Tokens, Commit(t) PROVE ProfilesAreWhole'
  <2>1. PICK slot \in Kind : Save(slot, learned)
    BY <1>4 DEF Commit, Save
  <2>2. slot \in Slots
    BY <2>1 DEF Kind, Slots
  <2> QED
    BY <1>3, <1>4, <2>1, <2>2, SavesAreWhole
<1>5. ASSUME NEW slot \in Slots,
             \/ SaveAgain(slot) \/ SaveCounter(slot)
             \/ \E command \in Command :
                  \/ ConfigureRelay(slot, command) \/ ConfigureEndpoint(slot, command)
                  \/ \E close \in Command : ConfigureTarget(slot, command, close)
      PROVE  ProfilesAreWhole'
  <2>1. CASE SaveCounter(slot) /\ slots[slot].commands = {}
    BY <1>2, <2>1 DEF SaveCounter
  <2>2. CASE ~(SaveCounter(slot) /\ slots[slot].commands = {})
    BY <1>3, <1>5, <2>2, SavesAreWhole
  <2> QED
    BY <2>1, <2>2
<1>6. ASSUME NEW slot \in Slots, Remove(slot) PROVE ProfilesAreWhole'
  <2>1. PICK state, kept : /\ slots' = [slots EXCEPT ![slot] = state]
                           /\ store' = [store EXCEPT ![slot] = kept]
                           /\ ~state.ready /\ state.commands \in {{}, slots[slot].commands}
                           /\ kept \in {store[slot], Removed}
    <3>1. /\ ~Empty.ready /\ Empty.commands = {}
          /\ ~Failed(slots[slot].commands).ready
          /\ Failed(slots[slot].commands).commands = slots[slot].commands
      BY DEF Failed, Faulted, Empty
    <3>2. CASE slots' = [slots EXCEPT ![slot] = Empty] /\ store' = [store EXCEPT ![slot] = Removed]
      BY <3>1, <3>2
    <3>3. CASE /\ slots' = [slots EXCEPT ![slot] = Failed(slots[slot].commands)]
               /\ \E kept \in {store[slot], Removed} : store' = [store EXCEPT ![slot] = kept]
      BY <3>1, <3>3
    <3> QED
      BY <1>6, <3>2, <3>3 DEF Remove
  <2>2. ASSUME NEW s \in Slots
        PROVE  /\ IsReady(s)' => slots'[s].commands # {}
               /\ slots'[s].commands = {} \/ Whole(s, slots'[s].commands)
               /\ store'[s].record = "profile" => Whole(s, store'[s].commands)
    <3>1. CASE s = slot
      <4>1. slots'[s] = state /\ store'[s] = kept
        BY <2>1, <3>1 DEF TableInv, TableTypes
      <4> QED
        BY <2>1, <3>1, <4>1 DEF ProfilesAreWhole, IsReady, Removed
    <3>2. CASE s # slot
      <4>1. slots'[s] = slots[s] /\ store'[s] = store[s]
        BY <2>1, <3>2 DEF TableInv, TableTypes
      <4> QED
        BY <4>1 DEF ProfilesAreWhole, IsReady
    <3> QED
      BY <3>1, <3>2
  <2> QED
    BY <1>1, <2>2 DEF ProfilesAreWhole, Whole
<1>7. CASE Restart
  <2>1. ASSUME NEW s \in Slots
        PROVE  /\ slots'[s] = Loaded(store[s]) /\ store[s] \in KeptState
               /\ store' = store
    BY <1>7 DEF Restart, TableInv, TableTypes
  <2>2. ASSUME NEW s \in Slots
        PROVE  \/ store[s].record = "profile" /\ slots'[s].commands = store[s].commands
               \/ ~slots'[s].ready /\ slots'[s].commands = {}
    <3>1. CASE store[s].record = "profile"
      <4>1. Loaded(store[s]) = Holding(store[s].commands)
        <5>1. store[s].record # "marked"
          BY <3>1
        <5> QED
          BY <3>1, <5>1 DEF Loaded
      <4>2. slots'[s].commands = store[s].commands
        BY <2>1, <4>1 DEF Holding
      <4> QED
        BY <3>1, <4>2
    <3>2. CASE store[s].record = "marked"
      BY <2>1, <3>2 DEF Loaded, Faulted
    <3>3. CASE store[s].record \notin {"profile", "marked"}
      BY <2>1, <3>3 DEF Loaded, Empty
    <3> QED
      BY <3>1, <3>2, <3>3
  <2>3. ASSUME NEW s \in Slots
        PROVE  /\ IsReady(s)' => slots'[s].commands # {}
               /\ slots'[s].commands = {} \/ Whole(s, slots'[s].commands)
               /\ store'[s].record = "profile" => Whole(s, store'[s].commands)
    BY <2>1, <2>2, CompleteIsNotEmpty DEF ProfilesAreWhole, IsReady, Whole
  <2> QED
    BY <1>1, <2>3 DEF ProfilesAreWhole, Whole
<1> QED
  BY <1>2, <1>4, <1>5, <1>6, <1>7 DEF Next, Learning, HearPanel, tableVars, vars

-----------------------------------------------------------------------------
LEMMA NextSessionTypes == SessionTypes /\ [Next]_vars => SessionTypes'
<1> SUFFICES ASSUME SessionTypes, [Next]_vars PROVE SessionTypes'
  OBVIOUS
<1>1. CASE Learning
  <2>1. written' \in {written, {}}
    BY <1>1 DEF Learning
  <2>2. ASSUME NEW t \in Tokens, NEW r \in BOOLEAN, Begin(t, r) PROVE SessionTypes'
    BY <2>1, <2>2 DEF Begin, SessionTypes
  <2>3. CASE UNCHANGED <<token, relay, savedSlot>> /\ active' \in {active, FALSE}
    BY <2>1, <2>3 DEF SessionTypes
  <2> QED
    BY <1>1, <2>2, <2>3 DEF Learning, SessionStep, Learn, End
<1>2. ASSUME NEW t \in Tokens, Commit(t) PROVE SessionTypes'
  <2>1. PICK slot \in Kind : /\ \/ Saved(slot)
                                \/ UNCHANGED promiseVars
                             /\ written' \in {written, written \cup {slot}}
    BY <1>2 DEF Commit
  <2>2. slot \in Slots
    BY <2>1 DEF Kind, Slots
  <2> QED
    BY <2>1, <2>2 DEF Saved, promiseVars, SessionTypes
<1>3. CASE UNCHANGED <<promiseVars, written>>
  BY <1>3 DEF promiseVars, SessionTypes
<1>4. CASE Restart
  BY <1>4 DEF Restart, SessionTypes
<1> QED
  BY <1>1, <1>2, <1>3, <1>4
  DEF Next, Remove, SaveAgain, HearPanel, SaveCounter, ConfigureRelay, ConfigureEndpoint,
      ConfigureTarget, vars

\* Every slot that is ready holds a whole profile of its kind, in tables of any size and
\* for finitely many commands.
THEOREM TableIsWellTyped == Spec => []TypeOK
<1>1. Init => ProfilesAreWhole /\ SessionTypes
  <2> SUFFICES ASSUME Init PROVE ProfilesAreWhole /\ SessionTypes
    OBVIOUS
  <2>1. ProfilesAreWhole
    BY DEF Init, NoSession, ProfilesAreWhole, IsReady, Empty, Blank
  <2>2. SessionTypes
    BY Zenon DEF Init, NoSession, SessionTypes
  <2> QED
    BY <2>1, <2>2
<1>2. TableInv /\ ProfilesAreWhole /\ SessionTypes => TypeOK
  <2> SUFFICES ASSUME TableInv, ProfilesAreWhole, SessionTypes PROVE TypeOK
    OBVIOUS
  <2>1. KeptState \subseteq [record : {"blank", "marked", "removed", "profile"},
                             commands : SUBSET Command]
    BY DEF KeptState, Blank, Marked, Removed, Saving
  <2>2. store \in [Slots -> [record : {"blank", "marked", "removed", "profile"},
                             commands : SUBSET Command]]
    BY <2>1 DEF TableInv, TableTypes
  <2>3. \A slot \in Slots : IsReady(slot) => Complete(slots[slot].commands, slot \in RelaySlots)
    BY DEF ProfilesAreWhole, Whole
  <2> QED
    BY <2>2, <2>3 DEF TableInv, TableTypes, SlotState, SessionTypes, TypeOK
<1> QED
  BY <1>1, <1>2, NextProfiles, NextSessionTypes, TableAlways, PTL DEF Spec

=============================================================================
