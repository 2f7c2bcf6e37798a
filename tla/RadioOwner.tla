------------------------------ MODULE RadioOwner ------------------------------
(***************************************************************************)
(* NormanRfMonitor as the owner of the one half-duplex radio: direct       *)
(* commands, their automatic and manual repeats, relayed frames, learning  *)
(* mode, the relay policy and its fault latch (norman_rf_monitor.cpp).     *)
(*                                                                         *)
(* Everything runs on ESPHome's single cooperative loop, so a handler is   *)
(* one step and what interleaves is the order of the handlers: API calls,  *)
(* the poll_radio, bounded_tx and automatic_repeat intervals, and the      *)
(* save_counter timeouts.  Time is one Tick at a time; each delay is kept  *)
(* as an age or a countdown that stops at the limit the code compares it   *)
(* with.                                                                   *)
(*                                                                         *)
(* Two details are left to the environment of this module: what the relay  *)
(* cache answers and which channel a frame was heard on.  A panel's record *)
(* is its index; LearnedPanel's two-stage save is one save that works, or  *)
(* fails with the record written or not, and a slot whose very first save  *)
(* was cut short, which the code refuses to use, is an empty one here.     *)
(*                                                                         *)
(* A definition marked "slip" is a deviation this code could easily have   *)
(* had; none is used, and README.md says which property each one breaks.   *)
(***************************************************************************)
EXTENDS CommandRepeat, BurstSchedule, FiniteSets

CONSTANTS Panels,         \* commissioned slots, named by their family
          LearnedActions, \* endpoints of a panel it has templates for
          Endpoints,      \* commands learned as receive-only relay endpoints
          HeardFrames,    \* the valid frames other transmitters may send
          BatchCapacity,  \* targets in one command               (8)
          Copies,         \* copies of a frame in a direct burst  (100)
          RelayCopies,    \* copies of a frame in a relay burst   (20)
          CooldownTime,   \* pause after a burst                  (250 ms)
          MaxCommands     \* bound on the accepted commands per boot

ASSUME RadioAssumption ==
  /\ IsFiniteSet(Panels)
  /\ Panels \subseteq Families
  /\ LearnedActions \subseteq Actions
  /\ Endpoints \subseteq [family : Families, action : Actions]
  /\ HeardFrames \subseteq Frame
  /\ Copies \in Nat \ {0}
  /\ RelayCopies \in Nat \ {0}
  /\ BatchCapacity \in Nat
  /\ CooldownTime \in Nat
  /\ MaxCommands \in Nat

VARIABLES
  radioReady,         \* radio_ready_: set or refused once, by setup()
  ready, index,       \* panels whose ready() holds; their last_index()
  stored,             \* the panels' records in preference storage
  saveDue,            \* panels with a save_counter timeout pending
  tx,                 \* the burst on air: tx_active_ and the tx_* fields
  cooldown,           \* time until can_transmit_'s pause is over
  learning,           \* learning_.active()
  budget,             \* command_repeat_
  autoRepeats,        \* automatic_repeats_
  commandSequence, completedSequence, commandResult, commandSuccess,
  relayRequested, policyReady, relayFault,
  storedPolicy        \* what the relay preference and marker records hold

\* History: what the properties compare the program's own records with.
VARIABLES
  latest,   \* the newest command while a repeat of it may be due
  airing,   \* the command whose original burst is on air, or 0
  ended,    \* the last original burst that ended, and how
  consent   \* whether the owner has asked for relaying since last refusing it

panelVars   == <<ready, index, stored, saveDue>>
commandVars == <<commandSequence, completedSequence, commandResult, commandSuccess>>
policyVars  == <<relayRequested, policyReady, storedPolicy>>
vars == <<radioReady, panelVars, tx, cooldown, learning, budget, autoRepeats,
          commandVars, policyVars, relayFault, latest, airing, ended, consent>>

-----------------------------------------------------------------------------
Success  == "complete_not_acknowledged"
Statuses == {Success, "test_timeout", "radio_tx_failed"}

BurstState == [kind : {"none", "direct", "repeat", "relay"}, frames : SUBSET Frame,
               ticks : Nat, remaining : Nat, age : Nat]

NoBurst == [kind |-> "none", frames |-> {}, ticks |-> 0, remaining |-> 0, age |-> 0]

Burst(kind, frames, copies) ==
  LET ticks == SequentialTotalTicks(copies, Cardinality(frames))
  IN  [kind |-> kind, frames |-> frames, ticks |-> ticks, remaining |-> ticks, age |-> 0]

TxActive       == tx.kind # "none"
OriginalActive == tx.kind = "direct"
RelayEnabled   == policyReady /\ relayRequested /\ ~relayFault

\* No valid target, in memory or in storage: a slot never commissioned, or the
\* tombstone of a removed panel.  A slot with an index that is not ready is
\* faulted.
NoRecord == IndexSpace

\* LearnedPanel::persist of `newIndex' for p: the record is written and the panel
\* ready, or the panel is faulted and the record is the old or the new one.
Persist(p, newIndex) ==
  \/ ready' = ready \cup {p} /\ stored' = [stored EXCEPT ![p] = newIndex]
  \/ ready' = ready \ {p} /\ stored' \in {stored, [stored EXCEPT ![p] = newIndex]}

CommandHistory == [frames : SUBSET Frame, outcome : {"none", "active", "complete"},
                   repeats : Nat, age : 0 .. RepeatWindow]

\* A command without repeats left to come: superseded, failed, or none at all.
NoCommand == [frames |-> {}, outcome |-> "none", repeats |-> 0, age |-> 0]

\* Selections of panels with the endpoint each is to move to.
Requests == UNION {[S -> LearnedActions] : S \in {T \in SUBSET Panels :
                                             T # {} /\ Cardinality(T) <= BatchCapacity}}

Reserved(request) == {NextCommand(p, request[p], index[p]) : p \in DOMAIN request}

\* The request whose command `frames' were: slots, positions and identities.
IsRequestOf(frames, request) ==
  /\ {f.family : f \in frames} = DOMAIN request
  /\ \A f \in frames : f.action = request[f.family]

\* A slip: the first panel that fits speaks for all.
SomePanelUnmoved(frames) ==
  \E f \in frames : f.family \in ready /\ index[f.family] = f.index

\* take(): every panel is ready and has moved no further than the command.
PanelsUnmoved(frames) ==
  \A f \in frames : f.family \in ready /\ index[f.family] = f.index

\* match_received_command: one panel or one endpoint, and not both.
PanelAccepts(frame)    == frame.family \in ready /\ frame.action \in LearnedActions
EndpointAccepts(frame) == [family |-> frame.family, action |-> frame.action] \in Endpoints
Authorized(frame)      == PanelAccepts(frame) # EndpointAccepts(frame)

\* A slip: can_transmit_ without the learning session.
CanTransmitWhileLearning == radioReady /\ ~TxActive /\ cooldown = 0

CanTransmit == radioReady /\ ~TxActive /\ ~learning /\ cooldown = 0

\* A slip: every own burst makes way, not only a repeat.
CanPreemptAnyCommand ==
  radioReady /\ ~learning /\ (tx.kind \in {"direct", "repeat"} \/ (~TxActive /\ cooldown = 0))

\* A newer direct command takes the radio from a repeat, without the pause.
CanTransmitDirect ==
  radioReady /\ ~learning /\ (tx.kind = "repeat" \/ (~TxActive /\ cooldown = 0))

\* preempt_repeat_ followed by command_repeat_.clear(), for a refused command.
PreemptRepeat ==
  /\ tx' = IF tx.kind = "repeat" THEN NoBurst ELSE tx
  /\ cooldown' = IF tx.kind = "repeat" THEN 0 ELSE cooldown
  /\ budget' = NoBudget
  /\ latest' = NoCommand

\* A slip: the success of the command before is left standing.
StartKeepingSuccess(kind, frames) ==
  /\ tx' = Burst(kind, frames, Copies)
  /\ relayFault' \in {relayFault, TRUE}
  /\ UNCHANGED commandSuccess

\* A slip: a new burst starts with a clean latch.
StartClearingFault(kind, frames) ==
  /\ tx' = Burst(kind, frames, Copies)
  /\ relayFault' \in BOOLEAN
  /\ commandSuccess' = FALSE

\* start_bursts_ for frames of this bridge: the relay cache takes them in, and
\* a full cache latches the fault without stopping the burst.
StartOwnBurst(kind, frames) ==
  /\ tx' = Burst(kind, frames, Copies)
  /\ relayFault' \in {relayFault, TRUE}
  /\ commandSuccess' = FALSE

-----------------------------------------------------------------------------
\* A slip: turning relaying off is not saved.
PersistOnlyEnabling(requested) ==
  /\ policyReady' = TRUE
  /\ storedPolicy' = IF requested THEN "on" ELSE storedPolicy

\* persist_relay_: marker first, then the policy; FALSE for every failure.
\* A record that was saved but not synced may or may not be found later.
PersistPolicy(requested) ==
  LET record == IF requested THEN "on" ELSE "off"
  IN  \/ policyReady' = TRUE /\ storedPolicy' = record
      \/ /\ policyReady' = FALSE
         /\ storedPolicy' \in {storedPolicy, record} \cup
              (IF storedPolicy = "fresh" THEN {"marked"} ELSE {})

\* setup_relay_, from what the records hold; a device that has neither record
\* imports the policy of the single-panel firmware once.
SetupRelay ==
  \/ /\ storedPolicy \in {"on", "off"}
     /\ policyReady' = TRUE
     /\ relayRequested' = (storedPolicy = "on")
     /\ UNCHANGED <<storedPolicy, consent>>
  \/ /\ storedPolicy = "marked"
     /\ policyReady' = FALSE
     /\ relayRequested' = FALSE
     /\ UNCHANGED <<storedPolicy, consent>>
  \/ /\ storedPolicy = "fresh"
     /\ relayRequested' \in BOOLEAN
     /\ relayRequested' => ready' # {}
     /\ consent' = relayRequested'
     /\ PersistPolicy(relayRequested')

\* A restart: volatile state is gone, panels and policy come from storage, and
\* the radio verifies or does not.
Reboot ==
  /\ radioReady' \in BOOLEAN
  /\ ready' = {p \in Panels : stored[p] # NoRecord}
  /\ index' = stored
  /\ saveDue' = {}
  /\ tx' = NoBurst /\ cooldown' = 0
  /\ learning' = FALSE
  /\ budget' = NoBudget
  /\ autoRepeats' = FALSE
  /\ commandSequence' = 0 /\ completedSequence' = 0
  /\ commandResult' = "none_since_boot" /\ commandSuccess' = FALSE
  /\ relayFault' = FALSE
  /\ SetupRelay
  /\ UNCHANGED stored
  /\ latest' = NoCommand /\ airing' = 0
  /\ ended' = [sequence |-> 0, status |-> "none_since_boot"]

\* After setup() on a device with empty storage.
Init ==
  /\ radioReady \in BOOLEAN
  /\ ready = {} /\ index = [p \in Panels |-> NoRecord]
  /\ stored = [p \in Panels |-> NoRecord] /\ saveDue = {}
  /\ tx = NoBurst /\ cooldown = 0
  /\ learning = FALSE
  /\ budget = NoBudget
  /\ autoRepeats = FALSE
  /\ commandSequence = 0 /\ completedSequence = 0
  /\ commandResult = "none_since_boot" /\ commandSuccess = FALSE
  /\ relayRequested = FALSE /\ relayFault = FALSE /\ policyReady \in BOOLEAN
  /\ storedPolicy = IF policyReady THEN "off" ELSE "fresh"
  /\ latest = NoCommand /\ airing = 0
  /\ ended = [sequence |-> 0, status |-> "none_since_boot"]
  /\ consent = FALSE

-----------------------------------------------------------------------------
\* A slip: the counters are reserved in memory and saved with the next save_counter.
ReserveInMemory(panels) ==
  /\ index' = [p \in Panels |-> IF p \in panels THEN NextIndex(index[p]) ELSE index[p]]
  /\ UNCHANGED stored

\* commit_transmit for every panel of a batch.
ReserveCounters(panels) ==
  /\ index'  = [p \in Panels |-> IF p \in panels THEN NextIndex(index[p]) ELSE index[p]]
  /\ stored' = [p \in Panels |-> IF p \in panels THEN index'[p] ELSE stored[p]]

\* transmit_targets, accepted: reserve every counter, start the burst.
TransmitTargets(request) ==
  LET frames == Reserved(request) IN
  /\ commandSequence < MaxCommands
  /\ CanTransmitDirect
  /\ DOMAIN request \subseteq ready
  /\ ReserveCounters(DOMAIN request)
  /\ StartOwnBurst("direct", frames)
  /\ cooldown' = 0
  /\ commandSequence' = commandSequence + 1
  /\ commandResult' = "command_active"
  /\ budget' = Remember(frames)
  /\ latest' = [frames |-> frames, outcome |-> "active", repeats |-> 0, age |-> 0]
  /\ airing' = commandSequence'
  /\ UNCHANGED <<radioReady, ready, saveDue, learning, autoRepeats, completedSequence,
                 policyVars, ended, consent>>

\* The same, when reserving the counter of `failing' fails: the panels reserved
\* before it keep their new index, nothing is sent.
ReservationFails(request, reserved, failing) ==
  /\ CanTransmitDirect
  /\ DOMAIN request \subseteq ready
  /\ index' = [p \in Panels |-> IF p \in reserved \cup {failing} THEN NextIndex(index[p]) ELSE index[p]]
  /\ ready' = ready \ {failing}
  /\ \E written \in {reserved, reserved \cup {failing}} :
       stored' = [p \in Panels |-> IF p \in written THEN index'[p] ELSE stored[p]]
  /\ PreemptRepeat
  /\ UNCHANGED <<radioReady, saveDue, learning, autoRepeats, commandVars, policyVars,
                 relayFault, airing, ended, consent>>

\* A command that is malformed, names no such panel, or finds the radio busy.
RejectCommand ==
  /\ PreemptRepeat
  /\ UNCHANGED <<radioReady, panelVars, learning, autoRepeats, commandVars, policyVars,
                 relayFault, airing, ended, consent>>

\* A repeat starts: take() has granted it from the budget.
StartRepeat ==
  /\ StartOwnBurst("repeat", budget.frames)
  /\ budget' = Take(budget)
  /\ latest' = [latest EXCEPT !.repeats = @ + 1]

\* A repeat is refused and the budget with it: too late, or a panel has moved.
RefuseRepeat ==
  /\ budget' = NoBudget
  /\ latest' = NoCommand
  /\ UNCHANGED <<tx, relayFault, commandSuccess>>

\* repeat_targets, for the request of the remembered command.
RepeatTargets(request) ==
  /\ CanTransmit /\ commandSuccess
  /\ budget.remaining > 0
  /\ \/ ~Expired(budget) /\ IsRequestOf(budget.frames, request)
        /\ PanelsUnmoved(budget.frames) /\ StartRepeat
     \/ ~Expired(budget) /\ IsRequestOf(budget.frames, request)
        /\ ~PanelsUnmoved(budget.frames) /\ RefuseRepeat
     \/ Expired(budget) /\ RefuseRepeat
  /\ UNCHANGED <<radioReady, panelVars, cooldown, learning, autoRepeats, commandSequence,
                 completedSequence, commandResult, policyVars, airing, ended, consent>>

\* repeat_if_due_, after the poll it makes has found nothing more to read.
RepeatIfDue ==
  /\ radioReady
  /\ budget.remaining > 0
  /\ \/ relayFault /\ RefuseRepeat
     \/ /\ ~relayFault /\ autoRepeats
        /\ \/ Expired(budget) /\ RefuseRepeat
           \/ /\ ~Expired(budget) /\ Due(budget) /\ CanTransmit /\ commandSuccess
              /\ \/ PanelsUnmoved(budget.frames) /\ StartRepeat
                 \/ ~PanelsUnmoved(budget.frames) /\ RefuseRepeat
  /\ UNCHANGED <<radioReady, panelVars, cooldown, learning, autoRepeats, commandSequence,
                 completedSequence, commandResult, policyVars, airing, ended, consent>>

SetAutomaticRepeats(enabled) ==
  /\ autoRepeats' = enabled
  /\ budget' = NoBudget
  /\ latest' = NoCommand
  /\ UNCHANGED <<radioReady, panelVars, tx, cooldown, learning, commandVars, policyVars,
                 relayFault, airing, ended, consent>>

-----------------------------------------------------------------------------
\* A slip: tx_active_ is left set.
KeepBurst == UNCHANGED tx /\ cooldown' = CooldownTime

EndBurst == tx' = NoBurst /\ cooldown' = CooldownTime

\* A slip: only a completed command is recorded.
RecordSuccess(status) ==
  IF OriginalActive /\ status = Success
    THEN completedSequence' = commandSequence /\ commandResult' = status
    ELSE UNCHANGED <<completedSequence, commandResult>>

\* Only the original burst of a command answers it.
RecordResult(status) ==
  IF OriginalActive
    THEN completedSequence' = commandSequence /\ commandResult' = status
    ELSE UNCHANGED <<completedSequence, commandResult>>

\* finish_test_: the burst is over, for better or worse.
FinishBurst(status) ==
  /\ EndBurst
  /\ relayFault' = (relayFault \/ status # Success)
  /\ budget' = IF status # Success THEN NoBudget
               ELSE IF tx.kind = "relay" THEN budget ELSE Completed(budget, TRUE)
  /\ commandSuccess' = IF tx.kind = "relay" THEN commandSuccess ELSE status = Success
  /\ RecordResult(status)
  /\ latest' = IF status # Success THEN NoCommand
               ELSE IF OriginalActive /\ latest # NoCommand
                 THEN [latest EXCEPT !.outcome = "complete"] ELSE latest
  /\ ended' = IF OriginalActive THEN [sequence |-> airing, status |-> status] ELSE ended
  /\ airing' = IF OriginalActive THEN 0 ELSE airing

\* send_test_copy_, each bounded_tx interval: the guard, a copy or an idle tick
\* of the schedule, and the end of the schedule.
SendCopy ==
  LET deadline == TxDeadline(tx.ticks)
      copies   == IF tx.kind = "relay" THEN RelayCopies ELSE Copies
  IN
  /\ TxActive
  /\ \/ tx.age > deadline /\ FinishBurst("test_timeout")
     \/ /\ tx.age <= deadline
        /\ IsCopyTick(tx.ticks - tx.remaining, copies)
        /\ FinishBurst("radio_tx_failed")
     \/ tx.age <= deadline /\ tx.remaining = 1 /\ FinishBurst(Success)
     \/ /\ tx.age <= deadline /\ tx.remaining > 1
        /\ tx' = [tx EXCEPT !.remaining = @ - 1]
        /\ UNCHANGED <<cooldown, relayFault, budget, completedSequence, commandResult,
                       commandSuccess, latest, ended, airing>>
  /\ UNCHANGED <<radioReady, panelVars, learning, autoRepeats, commandSequence, policyVars,
                 consent>>

\* A slip: the relay policy is not asked.
RelayUnasked(frame, forwardable) ==
  \/ UNCHANGED <<tx, relayFault>>
  \/ /\ Authorized(frame) /\ forwardable /\ CanTransmit
     /\ tx' = Burst("relay", {frame}, RelayCopies) /\ UNCHANGED relayFault

\* handle_valid_frame_'s relay decision; `forwardable' is that a channel follows
\* the one the frame was heard on.
RelayDecision(frame, forwardable) ==
  \/ UNCHANGED <<tx, relayFault>>    \* not forwardable now, or a known echo
  \/ /\ Authorized(frame) /\ RelayEnabled /\ forwardable /\ CanTransmit
     /\ \/ tx' = Burst("relay", {frame}, RelayCopies) /\ UNCHANGED relayFault
        \/ relayFault' = TRUE /\ UNCHANGED tx

\* poll_radio_ reads one valid frame.
ReceiveFrame(frame) ==
  LET newer == /\ Authorized(frame) /\ PanelAccepts(frame)
               /\ IsNewer(frame.index, index[frame.family])
  IN
  /\ radioReady /\ ~TxActive
  /\ budget' = Observe(budget, frame)
  /\ latest' = IF Conflicts(latest.frames, frame) THEN NoCommand ELSE latest
  /\ IF newer
       THEN /\ index' = [index EXCEPT ![frame.family] = frame.index]
            /\ saveDue' = saveDue \cup {frame.family}
       ELSE UNCHANGED <<index, saveDue>>
  /\ \E forwardable \in BOOLEAN : RelayDecision(frame, forwardable)
  /\ UNCHANGED <<radioReady, ready, stored, cooldown, learning, autoRepeats, commandVars,
                 policyVars, airing, ended, consent>>

\* The save_counter timeout: persist() makes the panel ready or faulted.
SaveCounter(p) ==
  /\ p \in saveDue
  /\ saveDue' = saveDue \ {p}
  /\ IF index[p] = NoRecord
       THEN UNCHANGED <<ready, stored>>    \* removed meanwhile
       ELSE Persist(p, index[p])
  /\ UNCHANGED <<radioReady, index, tx, cooldown, learning, budget, autoRepeats, commandVars,
                 policyVars, relayFault, latest, airing, ended, consent>>

-----------------------------------------------------------------------------
\* set_relay: a failed save leaves the policy unusable until the next restart.
SetRelay(enabled) ==
  /\ ~TxActive /\ radioReady /\ policyReady
  /\ enabled => ready # {} \/ Endpoints # {}
  /\ relayRequested' = enabled
  /\ PersistPolicy(enabled)
  /\ relayFault' = (relayFault /\ (enabled \/ ~policyReady'))
  /\ consent' = (enabled \/ (consent /\ ~policyReady'))
  /\ UNCHANGED <<radioReady, panelVars, tx, cooldown, learning, budget, autoRepeats,
                 commandVars, latest, airing, ended>>

\* learning_request "begin"; and its end by cancel or after ten minutes.
LearningBegin ==
  /\ radioReady /\ ~TxActive /\ ~relayFault /\ ~learning
  /\ learning' = TRUE
  /\ budget' = NoBudget
  /\ latest' = NoCommand
  /\ UNCHANGED <<radioReady, panelVars, tx, cooldown, autoRepeats, commandVars, policyVars,
                 relayFault, airing, ended, consent>>

LearningEnd ==
  /\ learning
  /\ learning' = FALSE
  /\ UNCHANGED <<radioReady, panelVars, tx, cooldown, budget, autoRepeats, commandVars,
                 policyVars, relayFault, latest, airing, ended, consent>>

\* learning_request "commit": an empty slot gets the learned panel, and the
\* session is over; when the save fails it stays open and the slot is faulted.
LearningCommit(p) ==
  /\ learning /\ radioReady /\ ~TxActive /\ p \notin ready /\ index[p] = NoRecord
  /\ \E i \in Index : index' = [index EXCEPT ![p] = i] /\ Persist(p, i)
  /\ learning' = (p \notin ready')
  /\ UNCHANGED <<radioReady, saveDue, tx, cooldown, budget, autoRepeats, commandVars,
                 policyVars, relayFault, latest, airing, ended, consent>>

\* configure_target, configure_target_endpoint and rename: a slot gets a panel
\* with the index of its capture, a ready panel at most a newer index.
ConfigurePanel(p) ==
  /\ ~TxActive /\ ~learning
  /\ budget' = NoBudget
  /\ latest' = NoCommand
  /\ p \in ready \/ index[p] = NoRecord
  /\ \E i \in Index :
       /\ p \in ready => i = index[p] \/ IsNewer(i, index[p])
       /\ index' = [index EXCEPT ![p] = i]
       /\ Persist(p, i)
  /\ UNCHANGED <<radioReady, saveDue, tx, cooldown, learning, autoRepeats, commandVars,
                 policyVars, relayFault, airing, ended, consent>>

\* remove: a tombstone replaces the record.
RemovePanel(p) ==
  /\ ~TxActive /\ ~learning /\ p \in ready
  /\ budget' = NoBudget
  /\ latest' = NoCommand
  /\ ready' = ready \ {p}
  /\ \/ /\ stored' = [stored EXCEPT ![p] = NoRecord]
        /\ index' = [index EXCEPT ![p] = NoRecord]
     \/ /\ stored' \in {stored, [stored EXCEPT ![p] = NoRecord]}
        /\ UNCHANGED index
  /\ UNCHANGED <<radioReady, saveDue, tx, cooldown, learning, autoRepeats, commandVars,
                 policyVars, relayFault, airing, ended, consent>>

\* The same calls when they are refused after the budget has been dropped.
RefuseConfiguration ==
  /\ ~TxActive /\ ~learning
  /\ budget' = NoBudget
  /\ latest' = NoCommand
  /\ UNCHANGED <<radioReady, panelVars, tx, cooldown, learning, autoRepeats, commandVars,
                 policyVars, relayFault, airing, ended, consent>>

Tick ==
  /\ tx' = IF TxActive /\ tx.age <= TxDeadline(tx.ticks) THEN [tx EXCEPT !.age = @ + 1] ELSE tx
  /\ cooldown' = IF cooldown > 0 THEN cooldown - 1 ELSE 0
  /\ budget' = Aged(budget)
  /\ latest' = IF latest # NoCommand /\ latest.age < RepeatWindow
                 THEN [latest EXCEPT !.age = @ + 1] ELSE latest
  /\ UNCHANGED <<radioReady, panelVars, learning, autoRepeats, commandVars, policyVars,
                 relayFault, airing, ended, consent>>

-----------------------------------------------------------------------------
Next ==
  \/ \E request \in Requests :
       \/ TransmitTargets(request)
       \/ RepeatTargets(request)
       \/ \E failing \in DOMAIN request :
            \E reserved \in SUBSET (DOMAIN request \ {failing}) :
              ReservationFails(request, reserved, failing)
  \/ RejectCommand
  \/ RepeatIfDue
  \/ \E enabled \in BOOLEAN : SetAutomaticRepeats(enabled) \/ SetRelay(enabled)
  \/ SendCopy
  \/ \E frame \in HeardFrames : ReceiveFrame(frame)
  \/ \E p \in Panels : SaveCounter(p) \/ LearningCommit(p) \/ ConfigurePanel(p) \/ RemovePanel(p)
  \/ RefuseConfiguration
  \/ LearningBegin
  \/ LearningEnd
  \/ Reboot
  \/ Tick

Spec == Init /\ [][Next]_vars

\* The loop runs its intervals for ever: time passes, a burst's next tick is
\* taken, and a repeat that stays due is considered.
Fairness == WF_vars(Tick) /\ WF_vars(SendCopy) /\ WF_vars(RepeatIfDue)

FairSpec == Spec /\ Fairness

-----------------------------------------------------------------------------
TypeOK ==
  /\ radioReady \in BOOLEAN /\ learning \in BOOLEAN /\ autoRepeats \in BOOLEAN
  /\ ready \subseteq Panels /\ saveDue \subseteq Panels
  /\ index \in [Panels -> Index \cup {NoRecord}]
  /\ stored \in [Panels -> Index \cup {NoRecord}]
  /\ \A p \in ready : index[p] # NoRecord
  /\ tx \in BurstState
  /\ cooldown \in Nat
  /\ budget \in Budget
  /\ commandSequence \in Nat /\ completedSequence \in Nat
  /\ commandResult \in Statuses \cup {"none_since_boot", "command_active"}
  /\ commandSuccess \in BOOLEAN
  /\ relayRequested \in BOOLEAN /\ policyReady \in BOOLEAN /\ relayFault \in BOOLEAN
  /\ storedPolicy \in {"fresh", "marked", "on", "off"}
  /\ latest \in CommandHistory
  /\ airing \in Nat
  /\ ended \in [sequence : Nat, status : Statuses \cup {"none_since_boot"}]
  /\ consent \in BOOLEAN

\* While a learning session is open the radio stays silent and no repeat is
\* left to come afterwards: begin refuses a busy radio and drops the budget,
\* and every way to start a burst asks can_transmit_.
LearningIsSilent == learning => ~TxActive /\ budget.remaining = 0

\* A frame is only relayed while the owner's policy allows it, the saved policy
\* can be trusted and nothing has latched the relay fault; since neither policy
\* nor latch may change under a relay burst, also to its end.
RelayFailsClosed == tx.kind = "relay" => RelayEnabled /\ ~learning

\* No relaying that the owner has not asked for: once "relay off" has been
\* acknowledged no later restart, nor a later failed save, brings it back.
RelayOnlyWithConsent == tx.kind = "relay" => consent

\* The three records Home Assistant reads agree: outside the original burst of
\* a command every accepted command has its result, and the result is the one
\* its own burst ended with, whatever repeats, relays and refusals came since.
ResultOfLastCommand ==
  IF OriginalActive
    THEN /\ commandResult = "command_active"
         /\ completedSequence + 1 = commandSequence
    ELSE /\ completedSequence = commandSequence
         /\ [sequence |-> completedSequence, status |-> commandResult] = ended

\* repeat_targets reports on commandSuccess, so it must not be left over from
\* an older command while the newest one failed or is still on air.
SuccessIsCurrent ==
  commandSuccess => ~OriginalActive /\ tx.kind # "repeat" /\ commandResult = Success

\* The budget never promises more than the newest command may still have.
BudgetIsBounded ==
  budget.remaining > 0 => /\ budget.remaining + latest.repeats <= RepeatBudget
                          /\ budget.frames = latest.frames

\* What this bridge puts on air of its own was reserved in storage first: cutting
\* the power at any point of a burst, or of a batch, cannot bring back a record
\* from which a used index would be issued again.
DurableBeforeAir ==
  tx.kind \in {"direct", "repeat"} => \A f \in tx.frames : stored[f.family] = f.index

\* A repeat sends exactly the frames of the newest command, after that command
\* completed, at most twice, within the window from its start, with no panel's
\* counter moved and nothing conflicting heard, configured or asked for since.
RepeatIsAuthorised ==
  tx.kind # "repeat" /\ tx'.kind = "repeat" =>
    /\ latest.outcome = "complete"
    /\ tx'.frames = latest.frames
    /\ \A f \in latest.frames : f.family \in ready /\ index[f.family] = f.index
    /\ latest.repeats < RepeatBudget
    /\ latest.age < RepeatWindow

RepeatsAreAuthorised == [][RepeatIsAuthorised]_vars

\* The fault latch is released by an acknowledged "relay off" or a restart, and
\* never with relaying still requested.
FaultIsReleasedSafely ==
  relayFault /\ ~relayFault' => Reboot \/ (~relayRequested' /\ policyReady')

FaultNeedsRearming == [][FaultIsReleasedSafely]_vars

\* Every burst ends: the schedule runs out or the guard does.
EveryBurstEnds == TxActive ~> ~TxActive

\* An accepted command is answered, unless a restart forgets it.
EveryCommandIsAnswered ==
  \A k \in 1 .. MaxCommands :
    commandSequence = k ~> (completedSequence >= k \/ commandSequence < k)

\* With automatic repeats on no budget outlives its window, however busy relays
\* keep the radio.
BudgetIsSpent == autoRepeats /\ radioReady ~> budget.remaining = 0 \/ ~autoRepeats

\* A burst in flight ends by its own schedule or guard, or with the device.
ActiveBurstRunsOn == [][TxActive /\ tx'.kind = "none" => SendCopy \/ Reboot]_vars

=============================================================================
