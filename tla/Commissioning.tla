---------------------------- MODULE Commissioning ----------------------------
(***************************************************************************)
(* The table of learned panels and relay endpoints, and every way a        *)
(* profile gets into it or out of it: a learning session's commit, the     *)
(* commissioning calls, remove and rename (learning_api.cpp and the        *)
(* configure_* calls of norman_rf_monitor.cpp over learned_panel.cpp and   *)
(* learned_relay_endpoint.cpp), with saves that fail, the save_counter     *)
(* timeouts of panels heard on the air, and restarts.  The session is the  *)
(* one SessionPromise describes.                                           *)
(*                                                                         *)
(* A profile is the set of commands it accepts; names, rooms and counters  *)
(* are not kept.  What a slot holds that is not ready only matters to a    *)
(* panel's save_counter timeout.  The radio is silent and working whenever *)
(* an operation asks.                                                      *)
(***************************************************************************)
EXTENDS SessionPromise

CONSTANTS PanelCount,   \* panel slots                                    (32)
          RelayCount    \* slots of relay endpoints                       (32)

ASSUME TableAssumption == PanelCount \in Nat /\ RelayCount \in Nat

\* There are finitely many frames of thirty bytes.
ASSUME CommandAssumption == IsFiniteSet(Command)

VARIABLES
  slots,     \* ready_, storage_fault_ and the profile in memory, by slot
  store,     \* marker and record of each slot in preference storage
  saveDue,   \* panels with a save_counter timeout pending
  suspect,   \* history: slots whose save has failed since they were empty
  written    \* history: slots this session's commits have written a record of

tableVars == <<slots, store, saveDue>>
vars == <<promiseVars, tableVars, suspect, written>>

-----------------------------------------------------------------------------
PanelSlots == 0 .. PanelCount - 1
RelaySlots == PanelCount .. PanelCount + RelayCount - 1
Slots      == PanelSlots \cup RelaySlots

Empty == [ready |-> FALSE, fault |-> FALSE, commands |-> {}]
Holding(commands) == [ready |-> TRUE, fault |-> FALSE, commands |-> commands]
Faulted(commands) == [ready |-> FALSE, fault |-> TRUE, commands |-> commands]

Blank   == [record |-> "blank", commands |-> {}]
Marked  == [record |-> "marked", commands |-> {}]
Removed == [record |-> "removed", commands |-> {}]
Saving(commands) == [record |-> "profile", commands |-> commands]

IsReady(slot) == slots[slot].ready

Accepts(slot, command) == IsReady(slot) /\ command \in slots[slot].commands

SameTarget(slot, family) ==
  IsReady(slot) /\ \E command \in slots[slot].commands : command.family = family

\* setup(): a marker without a record is an interrupted save, hence a fault.
Loaded(kept) ==
  CASE kept.record = "profile" -> Holding(kept.commands)
    [] kept.record = "marked"  -> Faulted({})
    [] OTHER                   -> Empty

\* A slip: a failed save leaves the slot as unused as it was.
Refused(commands) == Empty

Failed(commands) == Faulted(commands)

\* Marker first, then the record; either may fail, and a record that could not
\* be synced may be found later all the same.  A save that works makes the slot
\* ready, and leaves its fault as it is.
SaveWorks(slot, commands) ==
  /\ slots' = [slots EXCEPT ![slot].ready = TRUE, ![slot].commands = commands]
  /\ store' = [store EXCEPT ![slot] = Saving(commands)]
  /\ UNCHANGED suspect

SaveFails(slot, commands) ==
  /\ slots' = [slots EXCEPT ![slot] = Failed(commands)]
  /\ \E kept \in {store[slot], Saving(commands)} \cup
                 (IF store[slot] = Blank THEN {Marked} ELSE {}) :
       store' = [store EXCEPT ![slot] = kept]
  /\ suspect' = suspect \cup {slot}

Save(slot, commands) == SaveWorks(slot, commands) \/ SaveFails(slot, commands)

-----------------------------------------------------------------------------
\* A slip: the relay endpoints are not asked.
AnyPanelLearned ==
  \E slot \in PanelSlots : \E command \in learned : SameTarget(slot, command.family)

\* "already_learned": a relay action that a slot accepts, a panel of a known
\* target, or a panel one of whose commands is a relay action.
AlreadyLearned ==
  IF relay
    THEN \E slot \in Slots : \E command \in learned : Accepts(slot, command)
    ELSE \/ \E slot \in PanelSlots : \E command \in learned : SameTarget(slot, command.family)
         \/ \E slot \in RelaySlots : \E command \in learned : Accepts(slot, command)

\* A slip: one table for both.
AnyKind == Slots

Kind == IF relay THEN RelaySlots ELSE PanelSlots

\* A slip: a slot that cannot be used is passed over.
FirstUsable(slot) ==
  slots[slot] = Empty /\ \A lower \in Kind : lower < slot => slots[lower] # Empty

\* The slot a commit takes: the first that is not ready, faulted or not.
FirstFree(slot) ==
  ~IsReady(slot) /\ \A lower \in Kind : lower < slot => IsReady(lower)

\* A slip: a fault does not keep a slot from being configured.
CanConfigureAnyway(slot) == TRUE

\* configure_target and configure refuse a slot whose storage is in doubt.
CanConfigure(slot) == ~slots[slot].fault

\* "commit"; repeated after it worked it changes nothing.
Commit(t) ==
  /\ token = t /\ active /\ savedSlot = NoSlot
  /\ learned # {} /\ ~AlreadyLearned
  /\ \E slot \in Kind :
       /\ FirstFree(slot) /\ CanConfigure(slot)
       /\ \/ SaveWorks(slot, learned) /\ Saved(slot)
          \/ SaveFails(slot, learned) /\ UNCHANGED promiseVars
       /\ written' = IF store'[slot] = Saving(learned) THEN written \cup {slot} ELSE written
  /\ UNCHANGED saveDue

\* What configure_target asks of the rest of the table.
Taken(slot, commands) ==
  \/ \E other \in PanelSlots \ {slot} : \E command \in commands : SameTarget(other, command.family)
  \/ \E other \in RelaySlots : \E command \in commands : Accepts(other, command)

\* configure_target, for a new panel or, with the same endpoints, for new labels.
ConfigureTarget(slot, open, close) ==
  /\ ~active /\ slot \in PanelSlots
  /\ open.family = close.family /\ open # close
  /\ ~Taken(slot, {open, close})
  /\ CanConfigure(slot)
  /\ \/ ~IsReady(slot) /\ Save(slot, {open, close})
     \/ /\ IsReady(slot) /\ {open, close} \subseteq slots[slot].commands
        /\ Save(slot, slots[slot].commands)
  /\ UNCHANGED <<promiseVars, saveDue, written>>

\* configure_target_endpoint: the opposite closing direction, once.
ConfigureEndpoint(slot, command) ==
  /\ ~active /\ slot \in PanelSlots
  /\ IsReady(slot) /\ SameTarget(slot, command.family)
  /\ ~\E other \in RelaySlots : Accepts(other, command)
  /\ Cardinality(slots[slot].commands) = 2 /\ command \notin slots[slot].commands
  /\ Save(slot, slots[slot].commands \cup {command})
  /\ UNCHANGED <<promiseVars, saveDue, written>>

\* configure_relay_endpoint: one action, for receiving only.
ConfigureRelay(slot, command) ==
  /\ ~active /\ slot \in RelaySlots
  /\ ~\E other \in Slots \ {slot} : Accepts(other, command)
  /\ CanConfigure(slot)
  /\ IsReady(slot) => Accepts(slot, command)
  /\ Save(slot, {command})
  /\ UNCHANGED <<promiseVars, saveDue, written>>

\* rename(), and the counter that is saved before a command is sent.
SaveAgain(slot) ==
  /\ ~active /\ IsReady(slot)
  /\ Save(slot, slots[slot].commands)
  /\ UNCHANGED <<promiseVars, saveDue, written>>

\* remove(): a tombstone, or a fault with either record left behind.
Remove(slot) ==
  /\ ~active /\ IsReady(slot)
  /\ \/ /\ slots' = [slots EXCEPT ![slot] = Empty]
        /\ store' = [store EXCEPT ![slot] = Removed]
        /\ suspect' = suspect \ {slot}
     \/ /\ slots' = [slots EXCEPT ![slot] = Failed(slots[slot].commands)]
        /\ \E kept \in {store[slot], Removed} : store' = [store EXCEPT ![slot] = kept]
        /\ suspect' = suspect \cup {slot}
  /\ UNCHANGED <<promiseVars, saveDue, written>>

\* A panel's command is heard: its counter is saved a second later.
HearPanel(slot) ==
  /\ slot \in PanelSlots /\ IsReady(slot)
  /\ saveDue' = saveDue \cup {slot}
  /\ UNCHANGED <<promiseVars, slots, store, suspect, written>>

\* The save_counter timeout: persist() saves what the panel holds by then, ready
\* or faulted, unless that is a tombstone.
SaveCounter(slot) ==
  /\ slot \in saveDue
  /\ saveDue' = saveDue \ {slot}
  /\ IF slots[slot].commands = {} THEN UNCHANGED <<slots, store, suspect>>
                                  ELSE Save(slot, slots[slot].commands)
  /\ UNCHANGED <<promiseVars, written>>

Restart ==
  /\ slots' = [slot \in Slots |-> Loaded(store[slot])]
  /\ saveDue' = {}
  /\ suspect' = {slot \in suspect : slots'[slot] # Empty}
  /\ written' = {}
  /\ token' = NoToken /\ relay' = FALSE /\ active' = FALSE
  /\ learned' = {} /\ savedSlot' = NoSlot
  /\ UNCHANGED store

\* What happens in the session leaves the table alone.  Its presses are further
\* apart than a save_counter timeout is long: one that was due when it began is over.
Learning ==
  /\ SessionStep
  /\ learned' # {} => \A slot \in saveDue : IsReady(slot)
  /\ written' = IF active /\ active' THEN written ELSE {}
  /\ UNCHANGED <<tableVars, suspect>>

-----------------------------------------------------------------------------
Init ==
  /\ NoSession
  /\ slots = [slot \in Slots |-> Empty]
  /\ store = [slot \in Slots |-> Blank]
  /\ saveDue = {}
  /\ suspect = {} /\ written = {}

Next ==
  \/ Learning
  \/ \E t \in Tokens : Commit(t)
  \/ \E slot \in Slots :
       \/ Remove(slot) \/ SaveAgain(slot)
       \/ HearPanel(slot) \/ SaveCounter(slot)
       \/ \E command \in Command :
            \/ ConfigureRelay(slot, command)
            \/ ConfigureEndpoint(slot, command)
            \/ \E close \in Command : ConfigureTarget(slot, command, close)
  \/ Restart

Spec == Init /\ [][Next]_vars

-----------------------------------------------------------------------------
TypeOK ==
  /\ token \in Tokens \cup {NoToken} /\ relay \in BOOLEAN /\ active \in BOOLEAN
  /\ learned \subseteq Command /\ savedSlot \in Slots \cup {NoSlot}
  /\ slots \in [Slots -> [ready : BOOLEAN, fault : BOOLEAN, commands : SUBSET Command]]
  /\ store \in [Slots -> [record : {"blank", "marked", "removed", "profile"},
                          commands : SUBSET Command]]
  /\ saveDue \subseteq PanelSlots /\ suspect \subseteq Slots /\ written \subseteq Slots
  /\ \A slot \in Slots : IsReady(slot) => Complete(slots[slot].commands, slot \in RelaySlots)

\* A restart finds every slot as it is: what is ready is in storage, and an empty
\* slot stays empty, so nothing the owner has removed, or was told could not be
\* saved, comes back from a slot that may be used again.
EverySlotIsDurable ==
  \A slot \in Slots :
    /\ IsReady(slot) => store[slot] = Saving(slots[slot].commands)
    /\ slots[slot] = Empty => store[slot] \in {Blank, Removed}

Ambiguous(one, other) ==
  \/ \E command \in slots[one].commands : Accepts(other, command)
  \/ {one, other} \subseteq PanelSlots
       /\ \E command \in slots[one].commands : SameTarget(other, command.family)

\* Two profiles never claim the same frame, or two panels the same target, and so
\* silence each other in match_received_command; unless the storage of one of
\* them has failed before, which made it invisible for a while.
NoAmbiguityWithoutFault ==
  \A one, other \in Slots \ suspect :
    one # other /\ IsReady(one) /\ IsReady(other) => ~Ambiguous(one, other)

\* One session writes at most one record, however its commits fail and however
\* often they are repeated.
OneRecordPerSession == Cardinality(written) <= 1

\* A slot whose storage is in doubt is never given to another profile: what is
\* written to it is its own profile, maybe with one more endpoint, or a tombstone.
NothingOverwritesAFault ==
  [][\A slot \in Slots : slots[slot].fault /\ store'[slot] # store[slot] =>
       store'[slot] = Removed \/ slots[slot].commands \subseteq store'[slot].commands]_vars

=============================================================================
