--------------------------- MODULE RadioOwnerProofs ---------------------------
(***************************************************************************)
(* What RadioOwner promises for every set of panels, every schedule and    *)
(* every value of the delays.                                              *)
(*                                                                         *)
(* Part I has type correctness, which needs the shape of the budget as a   *)
(* strengthening.  Part II has a silent radio while learning, relaying     *)
(* that fails closed, and results that agree: three inductive invariants,  *)
(* each with its own strengthening on top of the types.  Part III has the  *)
(* repeat budget: what is on air was saved first, and a repeat starts only *)
(* with the authority of the newest command.  Its invariant ties the       *)
(* budget to the newest command's history and to the counters in memory    *)
(* and in storage: any of them moving without the budget being dropped     *)
(* would break it.                                                         *)
(***************************************************************************)
EXTENDS RadioOwner, FiniteSetTheorems, TLAPS

-----------------------------------------------------------------------------
(* I.  Types.                                                              *)


-----------------------------------------------------------------------------
(* Counter arithmetic and the schedule.                                    *)

LEMMA NextIndexType == \A i \in Index : NextIndex(i) \in Index
  BY IndexSpaceAssumption, SMT DEF NextIndex, Index

LEMMA NewerIsDifferent == \A i, j \in Index : IsNewer(i, j) => i # j
  BY IndexSpaceAssumption, SMT DEF IsNewer, Advance, Index

LEMMA NoRecordIsNoIndex == NoRecord \notin Index
  BY IndexSpaceAssumption DEF NoRecord, Index

LEMMA ScheduleType ==
  ASSUME NEW copies \in Nat \ {0}, NEW count \in Nat \ {0}
  PROVE  SequentialTotalTicks(copies, count) \in Nat \ {0}
  BY ScheduleAssumption, SMT DEF SequentialTotalTicks

LEMMA BurstType ==
  ASSUME NEW frames \in SUBSET Frame, IsFiniteSet(frames), frames # {},
         NEW copies \in Nat \ {0},
         NEW kind \in {"direct", "repeat", "relay"}
  PROVE  /\ Burst(kind, frames, copies) \in BurstState
         /\ Burst(kind, frames, copies).kind = kind
         /\ Burst(kind, frames, copies).frames = frames
  BY FS_CardinalityType, FS_EmptySet, ScheduleType DEF Burst, BurstState

-----------------------------------------------------------------------------
(* Requests and the frames reserved for them.                              *)

LEMMA RequestType ==
  ASSUME NEW request \in Requests
  PROVE  /\ DOMAIN request \subseteq Panels
         /\ DOMAIN request # {}
         /\ IsFiniteSet(DOMAIN request)
         /\ \A p \in DOMAIN request : request[p] \in Actions
<1>1. PICK S \in SUBSET Panels : S # {} /\ request \in [S -> LearnedActions]
  BY DEF Requests
<1>2. IsFiniteSet(S)
  BY FS_Subset, RadioAssumption
<1> QED
  BY <1>1, <1>2, RadioAssumption

LEMMA ReservedType ==
  ASSUME NEW request \in Requests,
         \A p \in DOMAIN request : index[p] \in Index
  PROVE  /\ Reserved(request) \in SUBSET Frame
         /\ IsFiniteSet(Reserved(request))
         /\ Reserved(request) # {}
<1> DEFINE F == [p \in DOMAIN request |-> NextCommand(p, request[p], index[p])]
<1>1. /\ DOMAIN request \subseteq Panels
      /\ DOMAIN request # {}
      /\ IsFiniteSet(DOMAIN request)
      /\ \A p \in DOMAIN request : request[p] \in Actions
  BY RequestType
<1>2. \A p \in DOMAIN request : NextCommand(p, request[p], index[p]) \in Frame
  BY <1>1, NextIndexType, RadioAssumption DEF NextCommand, Frame
<1>3. F \in Surjection(DOMAIN request, Reserved(request))
  BY DEF Surjection, Reserved
<1>4. IsFiniteSet(Reserved(request))
  BY <1>1, <1>3, FS_Surjection
<1> QED
  BY <1>1, <1>2, <1>4 DEF Reserved

-----------------------------------------------------------------------------
(* The operators of CommandRepeat keep the budget well formed.             *)

GoodBudgets ==
  {b \in Budget : IsFiniteSet(b.frames) /\ (b.remaining > 0 => b.frames # {})}

LEMMA GoodBudgetType == \A b \in GoodBudgets : b \in Budget
  BY DEF GoodBudgets

LEMMA NoBudgetType == NoBudget \in GoodBudgets /\ NoBudget.remaining = 0
  BY FS_EmptySet, RepeatAssumption DEF GoodBudgets, NoBudget, Budget

LEMMA RememberType ==
  ASSUME NEW frames \in SUBSET Frame, IsFiniteSet(frames), frames # {}
  PROVE  Remember(frames) \in GoodBudgets
  BY RepeatAssumption DEF GoodBudgets, Remember, Budget

LEMMA CompletedType ==
  ASSUME NEW b \in GoodBudgets, NEW ok \in BOOLEAN
  PROVE  Completed(b, ok) \in GoodBudgets
<1> DEFINE c == [b EXCEPT !.completed = TRUE, !.idle = 0]
<1>1. b \in Budget /\ 0 \in 0 .. RepeatDelay
  BY RepeatAssumption DEF GoodBudgets
<1>2. c \in Budget
  BY <1>1, Zenon DEF Budget
<1>3. c.frames = b.frames /\ c.remaining = b.remaining
  BY <1>1 DEF Budget
<1>4. c \in GoodBudgets
  BY <1>2, <1>3 DEF GoodBudgets
<1> QED
  BY <1>4, NoBudgetType DEF Completed

LEMMA TakeType ==
  ASSUME NEW b \in GoodBudgets, b.remaining > 0
  PROVE  Take(b) \in GoodBudgets
<1> DEFINE c == [b EXCEPT !.remaining = @ - 1, !.completed = FALSE, !.idle = 0]
<1>1. /\ b \in Budget
      /\ 0 \in 0 .. RepeatDelay
      /\ b.remaining - 1 \in 0 .. RepeatBudget
  BY RepeatAssumption DEF GoodBudgets, Budget
<1>2. c \in Budget
  BY <1>1, Zenon DEF Budget
<1>3. c.frames = b.frames
  BY <1>1 DEF Budget
<1>4. c \in GoodBudgets
  BY <1>1, <1>2, <1>3 DEF GoodBudgets
<1> QED
  BY <1>4, NoBudgetType DEF Take

LEMMA AgedType ==
  ASSUME NEW b \in GoodBudgets
  PROVE  Aged(b) \in GoodBudgets
<1> DEFINE a == IF b.age < RepeatWindow THEN b.age + 1 ELSE b.age
           i == IF b.completed /\ b.idle < RepeatDelay THEN b.idle + 1 ELSE b.idle
           c == [b EXCEPT !.age = a, !.idle = i]
<1>1. a \in 0 .. RepeatWindow /\ i \in 0 .. RepeatDelay
  BY RepeatAssumption DEF GoodBudgets, Budget
<1>2. c \in Budget /\ c.frames = b.frames /\ c.remaining = b.remaining
  <2> HIDE DEF a, i
  <2> QED BY <1>1 DEF GoodBudgets, Budget
<1>3. c \in GoodBudgets
  BY <1>2 DEF GoodBudgets
<1> QED
  BY <1>3 DEF Aged

LEMMA ObserveType ==
  ASSUME NEW b \in GoodBudgets, NEW frame
  PROVE  Observe(b, frame) \in GoodBudgets
  BY NoBudgetType DEF Observe

LEMMA NoBurstType == NoBurst \in BurstState /\ NoBurst.kind = "none"
  BY DEF NoBurst, BurstState

LEMMA NoCommandType == NoCommand \in CommandHistory
  BY RepeatAssumption DEF NoCommand, CommandHistory
LEMMA CommandHistoryType ==
  ASSUME NEW c \in CommandHistory
  PROVE  /\ [c EXCEPT !.repeats = @ + 1] \in CommandHistory
         /\ [c EXCEPT !.outcome = "complete"] \in CommandHistory
         /\ c.age < RepeatWindow => [c EXCEPT !.age = @ + 1] \in CommandHistory
  BY RepeatAssumption DEF CommandHistory

LEMMA StatusType == {Success, "test_timeout", "radio_tx_failed"} \subseteq Statuses
  BY DEF Statuses

LEMMA NewCommandType ==
  ASSUME NEW frames \in SUBSET Frame
  PROVE  [frames |-> frames, outcome |-> "active", repeats |-> 0, age |-> 0] \in CommandHistory
  BY RepeatAssumption DEF CommandHistory

LEMMA BurstProgressType ==
  ASSUME NEW b \in BurstState
  PROVE  /\ b.remaining > 1 => [b EXCEPT !.remaining = @ - 1] \in BurstState
         /\ [b EXCEPT !.age = @ + 1] \in BurstState
  BY DEF BurstState

-----------------------------------------------------------------------------
(* Type correctness, together with the shape of the budget it rests on: a   *)
(* repeat needs a finite and non-empty set of frames to schedule.           *)

TypeInv == TypeOK /\ budget \in GoodBudgets

LEMMA TypeInit == Init => TypeInv
<1> SUFFICES ASSUME Init PROVE TypeInv
  OBVIOUS
<1>1. /\ radioReady \in BOOLEAN /\ learning \in BOOLEAN /\ autoRepeats \in BOOLEAN
      /\ commandSuccess \in BOOLEAN /\ relayRequested \in BOOLEAN
      /\ policyReady \in BOOLEAN /\ relayFault \in BOOLEAN /\ consent \in BOOLEAN
  BY DEF Init
<1>2. /\ index \in [Panels -> Index \cup {NoRecord}]
      /\ stored \in [Panels -> Index \cup {NoRecord}]
      /\ ready \subseteq Panels /\ saveDue \subseteq Panels
      /\ \A p \in ready : index[p] # NoRecord
  BY DEF Init
<1>3. /\ storedPolicy \in {"fresh", "marked", "on", "off"}
      /\ ended \in [sequence : Nat, status : Statuses \cup {"none_since_boot"}]
  BY DEF Init
<1> QED
  BY <1>1, <1>2, <1>3, NoBudgetType, NoBurstType, NoCommandType, GoodBudgetType
  DEF Init, TypeInv, TypeOK

LEMMA ReadyIndexType == TypeOK => \A p \in ready : p \in Panels /\ index[p] \in Index
  BY DEF TypeOK

\* What starting a burst of this bridge's own frames may change.
LEMMA StartOwnBurstType ==
  ASSUME TypeInv,
         NEW frames \in SUBSET Frame, IsFiniteSet(frames), frames # {},
         NEW kind \in {"direct", "repeat"}, StartOwnBurst(kind, frames)
  PROVE  tx' \in BurstState /\ relayFault' \in BOOLEAN /\ commandSuccess' \in BOOLEAN
<1>1. tx' \in BurstState
  BY BurstType, RadioAssumption DEF StartOwnBurst
<1> QED
  BY <1>1 DEF StartOwnBurst, TypeInv, TypeOK

\* A repeat starts or is refused: the part the two callers share.
LEMMA RepeatType ==
  ASSUME TypeInv, budget.remaining > 0, StartRepeat \/ RefuseRepeat
  PROVE  /\ tx' \in BurstState /\ relayFault' \in BOOLEAN /\ commandSuccess' \in BOOLEAN
         /\ budget' \in GoodBudgets /\ latest' \in CommandHistory
<1>1. CASE StartRepeat
  <2>1. budget.frames \in SUBSET Frame /\ IsFiniteSet(budget.frames) /\ budget.frames # {}
    BY DEF TypeInv, GoodBudgets, Budget
  <2>2. tx' \in BurstState /\ relayFault' \in BOOLEAN /\ commandSuccess' \in BOOLEAN
    <3>1. StartOwnBurst("repeat", budget.frames)
      BY <1>1 DEF StartRepeat
    <3> QED
      BY <2>1, <3>1, StartOwnBurstType
  <2>3. budget' \in GoodBudgets
    BY <1>1, TakeType DEF TypeInv, StartRepeat
  <2>4. latest' \in CommandHistory
    BY <1>1, CommandHistoryType DEF TypeInv, TypeOK, StartRepeat
  <2> QED
    BY <2>2, <2>3, <2>4
<1>2. CASE RefuseRepeat
  BY <1>2, NoBudgetType, NoCommandType DEF TypeInv, TypeOK, RefuseRepeat
<1> QED
  BY <1>1, <1>2

LEMMA FinishBurstType ==
  ASSUME TypeInv, NEW status \in Statuses, FinishBurst(status)
  PROVE  /\ tx' \in BurstState /\ cooldown' \in Nat
         /\ relayFault' \in BOOLEAN /\ commandSuccess' \in BOOLEAN
         /\ budget' \in GoodBudgets /\ latest' \in CommandHistory
         /\ completedSequence' \in Nat /\ airing' \in Nat
         /\ commandResult' \in Statuses \cup {"none_since_boot", "command_active"}
         /\ ended' \in [sequence : Nat, status : Statuses \cup {"none_since_boot"}]
<1>1. tx' \in BurstState /\ cooldown' \in Nat
  BY NoBurstType, RadioAssumption DEF FinishBurst, EndBurst
<1>2. relayFault' \in BOOLEAN /\ commandSuccess' \in BOOLEAN
  BY DEF FinishBurst, TypeInv, TypeOK
<1>3. budget' \in GoodBudgets
  BY NoBudgetType, CompletedType DEF FinishBurst, TypeInv
<1>4. latest' \in CommandHistory
  BY NoCommandType, CommandHistoryType DEF FinishBurst, TypeInv, TypeOK
<1>5. /\ completedSequence' \in Nat /\ airing' \in Nat
      /\ commandResult' \in Statuses \cup {"none_since_boot", "command_active"}
  BY DEF FinishBurst, RecordResult, TypeInv, TypeOK
<1>6. ended' \in [sequence : Nat, status : Statuses \cup {"none_since_boot"}]
  BY DEF FinishBurst, TypeInv, TypeOK
<1> QED
  BY <1>1, <1>2, <1>3, <1>4, <1>5, <1>6

LEMMA TransmitTargetsType ==
  ASSUME NEW request \in Requests
  PROVE  TypeInv /\ TransmitTargets(request) => TypeInv'
<1> SUFFICES ASSUME TypeInv, TransmitTargets(request) PROVE TypeInv'
  OBVIOUS
<1>1. DOMAIN request \subseteq ready /\ \A p \in DOMAIN request : index[p] \in Index
  BY ReadyIndexType DEF TypeInv, TransmitTargets
<1>2. Reserved(request) \in SUBSET Frame /\ IsFiniteSet(Reserved(request)) /\ Reserved(request) # {}
  BY <1>1, ReservedType
<1>3. StartOwnBurst("direct", Reserved(request))
  BY DEF TransmitTargets
<1>4. tx' \in BurstState /\ relayFault' \in BOOLEAN /\ commandSuccess' \in BOOLEAN
  BY <1>2, <1>3, StartOwnBurstType
<1>5. budget' \in GoodBudgets
  BY <1>2, RememberType DEF TransmitTargets
<1>6. latest' \in CommandHistory
  BY <1>2, NewCommandType DEF TransmitTargets
<1>7. index' \in [Panels -> Index \cup {NoRecord}] /\ stored' \in [Panels -> Index \cup {NoRecord}]
  BY <1>1, NextIndexType DEF TypeInv, TypeOK, TransmitTargets, ReserveCounters
<1>8. \A p \in ready : index'[p] # NoRecord
  BY <1>1, NextIndexType, NoRecordIsNoIndex DEF TypeInv, TypeOK, TransmitTargets, ReserveCounters
<1>9. /\ cooldown' \in Nat /\ commandSequence' \in Nat /\ airing' \in Nat
      /\ commandResult' \in Statuses \cup {"none_since_boot", "command_active"}
  BY DEF TypeInv, TypeOK, TransmitTargets
<1>10. UNCHANGED <<radioReady, ready, saveDue, learning, autoRepeats, completedSequence,
                   policyVars, ended, consent>>
  BY DEF TransmitTargets
<1> QED
  BY <1>4, <1>5, <1>6, <1>7, <1>8, <1>9, <1>10, GoodBudgetType DEF TypeInv, TypeOK, policyVars

LEMMA ReservationFailsType ==
  ASSUME NEW request \in Requests, NEW failing \in DOMAIN request,
         NEW reserved \in SUBSET (DOMAIN request \ {failing})
  PROVE  TypeInv /\ ReservationFails(request, reserved, failing) => TypeInv'
<1> SUFFICES ASSUME TypeInv, ReservationFails(request, reserved, failing) PROVE TypeInv'
  OBVIOUS
<1>1. \A p \in reserved \cup {failing} : p \in ready /\ index[p] \in Index
  BY ReadyIndexType DEF TypeInv, ReservationFails
<1>2. /\ index' \in [Panels -> Index \cup {NoRecord}]
      /\ stored' \in [Panels -> Index \cup {NoRecord}]
  BY <1>1, NextIndexType DEF TypeInv, TypeOK, ReservationFails
<1>3. ready' \subseteq Panels /\ \A p \in ready' : index'[p] # NoRecord
  BY <1>1, NextIndexType, NoRecordIsNoIndex DEF TypeInv, TypeOK, ReservationFails
<1>4. tx' \in BurstState /\ cooldown' \in Nat /\ budget' \in GoodBudgets /\ latest' \in CommandHistory
  BY NoBudgetType, NoBurstType, NoCommandType DEF TypeInv, TypeOK, ReservationFails, PreemptRepeat
<1> QED
  BY <1>2, <1>3, <1>4, GoodBudgetType DEF TypeInv, TypeOK, ReservationFails, commandVars, policyVars

LEMMA RejectCommandType ==
  TypeInv /\ RejectCommand => TypeInv'
  BY NoBudgetType, NoBurstType, NoCommandType, GoodBudgetType
  DEF TypeInv, TypeOK, RejectCommand, PreemptRepeat, commandVars, panelVars, policyVars

LEMMA RepeatTargetsType ==
  ASSUME NEW request \in Requests
  PROVE  TypeInv /\ RepeatTargets(request) => TypeInv'
<1> SUFFICES ASSUME TypeInv, RepeatTargets(request) PROVE TypeInv'
  OBVIOUS
<1>1. budget.remaining > 0 /\ (StartRepeat \/ RefuseRepeat)
  BY DEF RepeatTargets
<1>2. /\ tx' \in BurstState /\ relayFault' \in BOOLEAN /\ commandSuccess' \in BOOLEAN
      /\ budget' \in GoodBudgets /\ latest' \in CommandHistory
  BY <1>1, RepeatType
<1> QED
  BY <1>2, GoodBudgetType DEF TypeInv, TypeOK, RepeatTargets, panelVars, policyVars

LEMMA RepeatIfDueType ==
  TypeInv /\ RepeatIfDue => TypeInv'
<1> SUFFICES ASSUME TypeInv, RepeatIfDue PROVE TypeInv'
  OBVIOUS
<1>1. budget.remaining > 0 /\ (StartRepeat \/ RefuseRepeat)
  BY DEF RepeatIfDue
<1>2. /\ tx' \in BurstState /\ relayFault' \in BOOLEAN /\ commandSuccess' \in BOOLEAN
      /\ budget' \in GoodBudgets /\ latest' \in CommandHistory
  BY <1>1, RepeatType
<1> QED
  BY <1>2, GoodBudgetType DEF TypeInv, TypeOK, RepeatIfDue, panelVars, policyVars

LEMMA SetAutomaticRepeatsType ==
  ASSUME NEW enabled \in BOOLEAN
  PROVE  TypeInv /\ SetAutomaticRepeats(enabled) => TypeInv'
  BY NoBudgetType, NoCommandType, GoodBudgetType DEF TypeInv, TypeOK, SetAutomaticRepeats, commandVars, panelVars, policyVars

LEMMA SendCopyType ==
  TypeInv /\ SendCopy => TypeInv'
<1> SUFFICES ASSUME TypeInv, SendCopy PROVE TypeInv'
  OBVIOUS
<1>1. CASE \E status \in Statuses : FinishBurst(status)
  BY <1>1, FinishBurstType, GoodBudgetType DEF TypeInv, TypeOK, SendCopy, panelVars, policyVars
<1>2. CASE ~ \E status \in Statuses : FinishBurst(status)
  <2>1. /\ tx.remaining > 1
        /\ tx' = [tx EXCEPT !.remaining = @ - 1]
        /\ UNCHANGED <<cooldown, relayFault, budget, completedSequence, commandResult,
                       commandSuccess, latest, ended, airing>>
    BY <1>2, StatusType DEF SendCopy
  <2>2. tx' \in BurstState
    BY <2>1, BurstProgressType DEF TypeInv, TypeOK
  <2> QED
    BY <2>1, <2>2, GoodBudgetType DEF TypeInv, TypeOK, SendCopy, panelVars, policyVars
<1> QED BY <1>1, <1>2

LEMMA ReceiveFrameType ==
  ASSUME NEW frame \in HeardFrames
  PROVE  TypeInv /\ ReceiveFrame(frame) => TypeInv'
<1> SUFFICES ASSUME TypeInv, ReceiveFrame(frame) PROVE TypeInv'
  OBVIOUS
<1>1. frame \in Frame
  BY RadioAssumption
<1>2. tx' \in BurstState /\ relayFault' \in BOOLEAN
  <2>1. Burst("relay", {frame}, RelayCopies) \in BurstState
    BY <1>1, BurstType, FS_Singleton, RadioAssumption
  <2> QED
    BY <2>1 DEF TypeInv, TypeOK, ReceiveFrame, RelayDecision
<1>3. budget' \in GoodBudgets
  BY ObserveType DEF TypeInv, ReceiveFrame
<1>4. latest' \in CommandHistory
  BY NoCommandType DEF TypeInv, TypeOK, ReceiveFrame
<1>5. /\ index' \in [Panels -> Index \cup {NoRecord}]
      /\ saveDue' \subseteq Panels
      /\ \A p \in ready : index'[p] # NoRecord
  BY <1>1, NoRecordIsNoIndex DEF TypeInv, TypeOK, ReceiveFrame, PanelAccepts, Frame
<1> QED
  BY <1>2, <1>3, <1>4, <1>5, GoodBudgetType DEF TypeInv, TypeOK, ReceiveFrame, commandVars, policyVars

LEMMA SaveCounterType ==
  ASSUME NEW p \in Panels
  PROVE  TypeInv /\ SaveCounter(p) => TypeInv'
  BY DEF TypeInv, TypeOK, SaveCounter, Persist, commandVars, panelVars, policyVars

LEMMA SetRelayType ==
  ASSUME NEW enabled \in BOOLEAN
  PROVE  TypeInv /\ SetRelay(enabled) => TypeInv'
  BY DEF TypeInv, TypeOK, SetRelay, PersistPolicy, commandVars, panelVars, policyVars

LEMMA LearningBeginType ==
  TypeInv /\ LearningBegin => TypeInv'
  BY NoBudgetType, NoCommandType, GoodBudgetType DEF TypeInv, TypeOK, LearningBegin, commandVars, panelVars, policyVars

LEMMA LearningEndType ==
  TypeInv /\ LearningEnd => TypeInv'
  BY DEF TypeInv, TypeOK, LearningEnd, commandVars, panelVars, policyVars

LEMMA LearningCommitType ==
  ASSUME NEW p \in Panels
  PROVE  TypeInv /\ LearningCommit(p) => TypeInv'
<1> SUFFICES ASSUME TypeInv, LearningCommit(p) PROVE TypeInv'
  OBVIOUS
<1>1. PICK i \in Index : index' = [index EXCEPT ![p] = i] /\ Persist(p, i)
  BY DEF LearningCommit
<1>2. /\ index' \in [Panels -> Index \cup {NoRecord}]
      /\ stored' \in [Panels -> Index \cup {NoRecord}]
      /\ ready' \subseteq Panels
      /\ \A q \in ready' : index'[q] # NoRecord
  BY <1>1, NoRecordIsNoIndex DEF TypeInv, TypeOK, Persist
<1>3. learning' \in BOOLEAN
  BY DEF LearningCommit
<1> QED
  BY <1>2, <1>3 DEF TypeInv, TypeOK, LearningCommit, commandVars, policyVars

LEMMA ConfigurePanelType ==
  ASSUME NEW p \in Panels
  PROVE  TypeInv /\ ConfigurePanel(p) => TypeInv'
  BY NoBudgetType, NoCommandType, NoRecordIsNoIndex, GoodBudgetType
  DEF TypeInv, TypeOK, ConfigurePanel, Persist, commandVars, panelVars, policyVars

LEMMA RemovePanelType ==
  ASSUME NEW p \in Panels
  PROVE  TypeInv /\ RemovePanel(p) => TypeInv'
  BY NoBudgetType, NoCommandType, NoRecordIsNoIndex, GoodBudgetType
  DEF TypeInv, TypeOK, RemovePanel, commandVars, panelVars, policyVars

LEMMA RefuseConfigurationType ==
  TypeInv /\ RefuseConfiguration => TypeInv'
  BY NoBudgetType, NoCommandType, GoodBudgetType DEF TypeInv, TypeOK, RefuseConfiguration, commandVars, panelVars, policyVars

LEMMA RebootType ==
  TypeInv /\ Reboot => TypeInv'
<1> SUFFICES ASSUME TypeInv, Reboot PROVE TypeInv'
  OBVIOUS
<1>1. radioReady' \in BOOLEAN /\ learning' \in BOOLEAN /\ autoRepeats' \in BOOLEAN /\ commandSuccess' \in BOOLEAN /\ relayFault' \in BOOLEAN
  BY DEF Reboot
<1>2. relayRequested' \in BOOLEAN /\ policyReady' \in BOOLEAN /\ consent' \in BOOLEAN /\ storedPolicy' \in {"fresh", "marked", "on", "off"}
  BY DEF Reboot, SetupRelay, PersistPolicy, TypeInv, TypeOK
<1>3. /\ ready' \subseteq Panels /\ saveDue' \subseteq Panels
      /\ index' \in [Panels -> Index \cup {NoRecord}]
      /\ stored' \in [Panels -> Index \cup {NoRecord}]
      /\ \A p \in ready' : index'[p] # NoRecord
  BY DEF Reboot, TypeInv, TypeOK
<1>4. /\ commandSequence' \in Nat /\ completedSequence' \in Nat
      /\ commandResult' \in Statuses \cup {"none_since_boot", "command_active"}
      /\ ended' \in [sequence : Nat, status : Statuses \cup {"none_since_boot"}]
      /\ airing' \in Nat /\ cooldown' \in Nat
  BY DEF Reboot
<1>5. tx' \in BurstState /\ budget' \in GoodBudgets /\ latest' \in CommandHistory
  BY NoBurstType, NoBudgetType, NoCommandType DEF Reboot
<1> QED
  BY <1>1, <1>2, <1>3, <1>4, <1>5, GoodBudgetType DEF TypeInv, TypeOK

LEMMA TickType ==
  TypeInv /\ Tick => TypeInv'
<1> SUFFICES ASSUME TypeInv, Tick PROVE TypeInv'
  OBVIOUS
<1>1. tx' \in BurstState
  BY BurstProgressType DEF TypeInv, TypeOK, Tick
<1>2. cooldown' \in Nat
  BY DEF TypeInv, TypeOK, Tick
<1>3. latest' \in CommandHistory
  BY CommandHistoryType DEF TypeInv, TypeOK, Tick
<1>4. budget' \in GoodBudgets
  BY AgedType DEF TypeInv, Tick
<1> QED
  BY <1>1, <1>2, <1>3, <1>4, GoodBudgetType DEF TypeInv, TypeOK, Tick, commandVars, panelVars, policyVars

LEMMA TypeNext == TypeInv /\ [Next]_vars => TypeInv'
<1>1. TypeInv /\ UNCHANGED vars => TypeInv'
  BY DEF TypeInv, TypeOK, vars, commandVars, panelVars, policyVars
<1> QED
  BY <1>1, TransmitTargetsType, RepeatTargetsType, ReservationFailsType, RejectCommandType, RepeatIfDueType, SetAutomaticRepeatsType, SetRelayType, SendCopyType, ReceiveFrameType, SaveCounterType, LearningCommitType, ConfigurePanelType, RemovePanelType, RefuseConfigurationType, LearningBeginType, LearningEndType, RebootType, TickType DEF Next

\* Every record of the radio owner keeps its shape: in particular a panel that
\* is ready has a counter, counters wrap inside their range, and the countdowns
\* and stamps stay within the limits the code compares them with.
THEOREM TypeCorrect == Spec => []TypeOK
<1>1. TypeInv => TypeOK
  BY DEF TypeInv
<1> QED
  BY <1>1, TypeInit, TypeNext, PTL DEF Spec

-----------------------------------------------------------------------------
(* II.  Learning, relaying and results.                                    *)


-----------------------------------------------------------------------------
(* Bursts.                                                                 *)

LEMMA BurstShape ==
  ASSUME NEW kind, NEW frames, NEW copies
  PROVE  Burst(kind, frames, copies).kind = kind /\ Burst(kind, frames, copies).frames = frames
  BY DEF Burst

\* Progress and ageing leave a burst the burst it is.
LEMMA SameBurst ==
  ASSUME NEW b \in BurstState
  PROVE  /\ [b EXCEPT !.remaining = @ - 1].kind = b.kind
         /\ [b EXCEPT !.remaining = @ - 1].frames = b.frames
         /\ [b EXCEPT !.age = @ + 1].kind = b.kind
         /\ [b EXCEPT !.age = @ + 1].frames = b.frames
  BY DEF BurstState

\* What the two callers of a repeat share: it starts, or it is refused.
LEMMA RepeatStep ==
  ASSUME StartRepeat \/ RefuseRepeat
  PROVE  \/ /\ tx'.kind = "repeat" /\ tx'.frames = budget.frames
            /\ commandSuccess' = FALSE
         \/ UNCHANGED <<tx, relayFault, commandSuccess>>
<1>1. CASE StartRepeat
  BY <1>1, BurstShape DEF StartRepeat, StartOwnBurst
<1>2. CASE RefuseRepeat
  BY <1>2 DEF RefuseRepeat
<1> QED
  BY <1>1, <1>2

-----------------------------------------------------------------------------
(* The radio is silent while learning.                                     *)

LEMMA SilentInit == Init => LearningIsSilent
  BY DEF Init, LearningIsSilent

LEMMA SilentNext ==
  TypeInv /\ LearningIsSilent /\ [Next]_vars => LearningIsSilent'
<1> SUFFICES ASSUME TypeInv, LearningIsSilent, [Next]_vars
             PROVE  LearningIsSilent'
  OBVIOUS
<1>tx. tx \in BurstState
  BY DEF TypeInv, TypeOK
<1>1. ASSUME NEW request \in Requests, TransmitTargets(request)
      PROVE  LearningIsSilent'
  BY <1>1
  DEF LearningIsSilent, TxActive, TransmitTargets, CanTransmitDirect
<1>2. ASSUME NEW request \in Requests, RepeatTargets(request)
      PROVE  LearningIsSilent'
  BY <1>2
  DEF LearningIsSilent, TxActive, RepeatTargets, CanTransmit
<1>3. ASSUME NEW request \in Requests, NEW failing \in DOMAIN request,
             NEW reserved \in SUBSET (DOMAIN request \ {failing}), ReservationFails(request, reserved, failing)
      PROVE  LearningIsSilent'
  BY <1>3, NoBudgetType, NoBurstType
  DEF LearningIsSilent, TxActive, ReservationFails, PreemptRepeat
<1>4. CASE RejectCommand
  BY <1>4, NoBudgetType, NoBurstType
  DEF LearningIsSilent, TxActive, RejectCommand, PreemptRepeat
<1>5. CASE RepeatIfDue
  BY <1>5, NoBudgetType, NoBudgetType
  DEF LearningIsSilent, TxActive, RepeatIfDue, RefuseRepeat, CanTransmit
<1>6. ASSUME NEW enabled \in BOOLEAN, SetAutomaticRepeats(enabled)
      PROVE  LearningIsSilent'
  BY <1>6, NoBudgetType
  DEF LearningIsSilent, TxActive, SetAutomaticRepeats
<1>7. ASSUME NEW enabled \in BOOLEAN, SetRelay(enabled)
      PROVE  LearningIsSilent'
  BY <1>7
  DEF LearningIsSilent, TxActive, SetRelay
<1>8. CASE SendCopy
  BY <1>8, <1>tx, SameBurst, NoBudgetType, NoBurstType
  DEF LearningIsSilent, TxActive, SendCopy, FinishBurst, EndBurst
<1>9. ASSUME NEW frame \in HeardFrames, ReceiveFrame(frame)
      PROVE  LearningIsSilent'
  BY <1>9, NoBudgetType
  DEF LearningIsSilent, TxActive, ReceiveFrame, RelayDecision, CanTransmit, Observe
<1>10. ASSUME NEW p \in Panels, SaveCounter(p)
      PROVE  LearningIsSilent'
  BY <1>10
  DEF LearningIsSilent, TxActive, SaveCounter
<1>11. ASSUME NEW p \in Panels, LearningCommit(p)
      PROVE  LearningIsSilent'
  BY <1>11
  DEF LearningIsSilent, TxActive, LearningCommit
<1>12. ASSUME NEW p \in Panels, ConfigurePanel(p)
      PROVE  LearningIsSilent'
  BY <1>12, NoBudgetType
  DEF LearningIsSilent, TxActive, ConfigurePanel
<1>13. ASSUME NEW p \in Panels, RemovePanel(p)
      PROVE  LearningIsSilent'
  BY <1>13, NoBudgetType
  DEF LearningIsSilent, TxActive, RemovePanel
<1>14. CASE RefuseConfiguration
  BY <1>14, NoBudgetType
  DEF LearningIsSilent, TxActive, RefuseConfiguration
<1>15. CASE LearningBegin
  BY <1>15, NoBudgetType
  DEF LearningIsSilent, TxActive, LearningBegin
<1>16. CASE LearningEnd
  BY <1>16
  DEF LearningIsSilent, TxActive, LearningEnd
<1>17. CASE Reboot
  BY <1>17, NoBudgetType, NoBurstType
  DEF LearningIsSilent, TxActive, Reboot
<1>18. CASE Tick
  BY <1>18, <1>tx, SameBurst
  DEF LearningIsSilent, TxActive, Tick, Aged
<1>19. CASE UNCHANGED vars
  BY <1>19 DEF LearningIsSilent, TxActive, vars
<1> QED
  BY <1>1, <1>2, <1>3, <1>4, <1>5, <1>6, <1>7, <1>8, <1>9, <1>10, <1>11, <1>12, <1>13, <1>14, <1>15, <1>16, <1>17, <1>18, <1>19 DEF Next

\* While a learning session is open nothing is on air and no repeat is pending:
\* learning_api.cpp drops the budget, and can_transmit_ asks for the session.
THEOREM SilentWhileLearning == Spec => []LearningIsSilent
  BY TypeInit, TypeNext, SilentInit, SilentNext, PTL DEF Spec

-----------------------------------------------------------------------------
(* Relaying fails closed, and only happens with consent.  What a restart   *)
(* would find, and what the running policy says, must carry the consent    *)
(* already before a relay starts.                                          *)

ConsentRecorded ==
  /\ storedPolicy = "on" => consent
  /\ policyReady /\ relayRequested => consent

RelayInv == RelayFailsClosed /\ RelayOnlyWithConsent /\ ConsentRecorded

LEMMA RelayInit == Init => RelayInv
  BY DEF Init, RelayInv, RelayFailsClosed, RelayOnlyWithConsent, ConsentRecorded, NoBurst

LEMMA RelayNext ==
  TypeInv /\ RelayInv /\ [Next]_vars => RelayInv'
<1> SUFFICES ASSUME TypeInv, RelayInv, [Next]_vars
             PROVE  RelayInv'
  OBVIOUS
<1>tx. tx \in BurstState
  BY DEF TypeInv, TypeOK
<1>1. ASSUME NEW request \in Requests, TransmitTargets(request)
      PROVE  RelayInv'
  BY <1>1, BurstShape
  DEF RelayInv, RelayFailsClosed, RelayOnlyWithConsent, ConsentRecorded, RelayEnabled, TransmitTargets, StartOwnBurst, policyVars
<1>2. ASSUME NEW request \in Requests, RepeatTargets(request)
      PROVE  RelayInv'
  <2>1. (StartRepeat \/ RefuseRepeat) /\ UNCHANGED <<learning, policyVars, consent>>
    BY <1>2 DEF RepeatTargets
  <2>2. CASE tx'.kind = "repeat"
    BY <2>1, <2>2 DEF RelayInv, RelayFailsClosed, RelayOnlyWithConsent, ConsentRecorded, policyVars
  <2>3. CASE UNCHANGED <<tx, relayFault>>
    BY <2>1, <2>3 DEF RelayInv, RelayFailsClosed, RelayOnlyWithConsent, ConsentRecorded, RelayEnabled, policyVars
  <2> QED
    BY <2>1, <2>2, <2>3, RepeatStep
<1>3. ASSUME NEW request \in Requests, NEW failing \in DOMAIN request,
             NEW reserved \in SUBSET (DOMAIN request \ {failing}), ReservationFails(request, reserved, failing)
      PROVE  RelayInv'
  BY <1>3, NoBurstType
  DEF RelayInv, RelayFailsClosed, RelayOnlyWithConsent, ConsentRecorded, RelayEnabled, ReservationFails, PreemptRepeat, policyVars
<1>4. CASE RejectCommand
  BY <1>4, NoBurstType
  DEF RelayInv, RelayFailsClosed, RelayOnlyWithConsent, ConsentRecorded, RelayEnabled, RejectCommand, PreemptRepeat, policyVars
<1>5. CASE RepeatIfDue
  <2>1. (StartRepeat \/ RefuseRepeat) /\ UNCHANGED <<learning, policyVars, consent>>
    BY <1>5 DEF RepeatIfDue
  <2>2. CASE tx'.kind = "repeat"
    BY <2>1, <2>2 DEF RelayInv, RelayFailsClosed, RelayOnlyWithConsent, ConsentRecorded, policyVars
  <2>3. CASE UNCHANGED <<tx, relayFault>>
    BY <2>1, <2>3 DEF RelayInv, RelayFailsClosed, RelayOnlyWithConsent, ConsentRecorded, RelayEnabled, policyVars
  <2> QED
    BY <2>1, <2>2, <2>3, RepeatStep
<1>6. ASSUME NEW enabled \in BOOLEAN, SetAutomaticRepeats(enabled)
      PROVE  RelayInv'
  BY <1>6
  DEF RelayInv, RelayFailsClosed, RelayOnlyWithConsent, ConsentRecorded, RelayEnabled, SetAutomaticRepeats, policyVars
<1>7. ASSUME NEW enabled \in BOOLEAN, SetRelay(enabled)
      PROVE  RelayInv'
  BY <1>7
  DEF RelayInv, RelayFailsClosed, RelayOnlyWithConsent, ConsentRecorded, RelayEnabled, SetRelay, PersistPolicy, TxActive
<1>8. CASE SendCopy
  <2>1. \/ tx'.kind = "none"
        \/ tx'.kind = tx.kind /\ UNCHANGED relayFault
    BY <1>8, <1>tx, NoBurstType, SameBurst DEF SendCopy, FinishBurst, EndBurst
  <2> QED
    BY <1>8, <2>1 DEF RelayInv, RelayFailsClosed, RelayOnlyWithConsent, ConsentRecorded, RelayEnabled, SendCopy, policyVars
<1>9. ASSUME NEW frame \in HeardFrames, ReceiveFrame(frame)
      PROVE  RelayInv'
  BY <1>9, BurstShape
  DEF RelayInv, RelayFailsClosed, RelayOnlyWithConsent, ConsentRecorded, RelayEnabled, ReceiveFrame, RelayDecision, CanTransmit, TxActive, policyVars
<1>10. ASSUME NEW p \in Panels, SaveCounter(p)
      PROVE  RelayInv'
  BY <1>10
  DEF RelayInv, RelayFailsClosed, RelayOnlyWithConsent, ConsentRecorded, RelayEnabled, SaveCounter, policyVars
<1>11. ASSUME NEW p \in Panels, LearningCommit(p)
      PROVE  RelayInv'
  BY <1>11
  DEF RelayInv, RelayFailsClosed, RelayOnlyWithConsent, ConsentRecorded, RelayEnabled, LearningCommit, policyVars
<1>12. ASSUME NEW p \in Panels, ConfigurePanel(p)
      PROVE  RelayInv'
  BY <1>12
  DEF RelayInv, RelayFailsClosed, RelayOnlyWithConsent, ConsentRecorded, RelayEnabled, ConfigurePanel, policyVars
<1>13. ASSUME NEW p \in Panels, RemovePanel(p)
      PROVE  RelayInv'
  BY <1>13
  DEF RelayInv, RelayFailsClosed, RelayOnlyWithConsent, ConsentRecorded, RelayEnabled, RemovePanel, policyVars
<1>14. CASE RefuseConfiguration
  BY <1>14
  DEF RelayInv, RelayFailsClosed, RelayOnlyWithConsent, ConsentRecorded, RelayEnabled, RefuseConfiguration, policyVars
<1>15. CASE LearningBegin
  BY <1>15
  DEF RelayInv, RelayFailsClosed, RelayOnlyWithConsent, ConsentRecorded, RelayEnabled, LearningBegin, TxActive, policyVars
<1>16. CASE LearningEnd
  BY <1>16
  DEF RelayInv, RelayFailsClosed, RelayOnlyWithConsent, ConsentRecorded, RelayEnabled, LearningEnd, policyVars
<1>17. CASE Reboot
  <2>1. tx'.kind = "none"
    BY <1>17, NoBurstType DEF Reboot
  <2>2. ConsentRecorded'
    <3>1. CASE /\ relayRequested' = (storedPolicy = "on")
               /\ UNCHANGED <<storedPolicy, consent>>
      BY <3>1 DEF RelayInv, ConsentRecorded
    <3>2. CASE relayRequested' = FALSE /\ UNCHANGED <<storedPolicy, consent>>
      BY <3>2 DEF RelayInv, ConsentRecorded
    <3>3. CASE /\ storedPolicy = "fresh" /\ consent' = relayRequested'
               /\ PersistPolicy(relayRequested')
      BY <3>3 DEF PersistPolicy, ConsentRecorded
    <3> QED
      BY <1>17, <3>1, <3>2, <3>3 DEF Reboot, SetupRelay
  <2> QED
    BY <2>1, <2>2 DEF RelayInv, RelayFailsClosed, RelayOnlyWithConsent
<1>18. CASE Tick
  BY <1>18, <1>tx, SameBurst
  DEF RelayInv, RelayFailsClosed, RelayOnlyWithConsent, ConsentRecorded, RelayEnabled, Tick, policyVars
<1>19. CASE UNCHANGED vars
  BY <1>19 DEF RelayInv, RelayFailsClosed, RelayOnlyWithConsent, ConsentRecorded, RelayEnabled, vars, policyVars
<1> QED
  BY <1>1, <1>2, <1>3, <1>4, <1>5, <1>6, <1>7, <1>8, <1>9, <1>10, <1>11, <1>12, <1>13, <1>14, <1>15, <1>16, <1>17, <1>18, <1>19 DEF Next

\* A relay burst is only ever on air while the saved policy is trusted and on
\* and the fault latch is clear: set_relay and the latch wait for a silent radio.
THEOREM RelayingFailsClosed == Spec => []RelayFailsClosed
<1>1. RelayInv => RelayFailsClosed
  BY DEF RelayInv
<1> QED
  BY <1>1, TypeInit, TypeNext, RelayInit, RelayNext, PTL DEF Spec

\* No relay burst without the owner's consent, over restarts and failed saves of
\* the policy record: persist_relay_ and setup_relay_ keep the record honest.
THEOREM RelayingNeedsConsent == Spec => []RelayOnlyWithConsent
<1>1. RelayInv => RelayOnlyWithConsent
  BY DEF RelayInv
<1> QED
  BY <1>1, TypeInit, TypeNext, RelayInit, RelayNext, PTL DEF Spec

-----------------------------------------------------------------------------
(* The fault latch.                                                        *)

LEMMA LatchNext == [Next]_vars => FaultIsReleasedSafely
<1> SUFFICES ASSUME [Next]_vars
             PROVE  FaultIsReleasedSafely
  OBVIOUS
<1>1. ASSUME NEW request \in Requests, TransmitTargets(request)
      PROVE  FaultIsReleasedSafely
  BY <1>1 DEF FaultIsReleasedSafely, TransmitTargets, StartOwnBurst
<1>2. ASSUME NEW request \in Requests, RepeatTargets(request)
      PROVE  FaultIsReleasedSafely
  BY <1>2 DEF FaultIsReleasedSafely, RepeatTargets, StartRepeat, RefuseRepeat, StartOwnBurst
<1>3. ASSUME NEW request \in Requests, NEW failing \in DOMAIN request,
             NEW reserved \in SUBSET (DOMAIN request \ {failing}), ReservationFails(request, reserved, failing)
      PROVE  FaultIsReleasedSafely
  BY <1>3 DEF FaultIsReleasedSafely, ReservationFails
<1>4. ASSUME RejectCommand
      PROVE  FaultIsReleasedSafely
  BY <1>4 DEF FaultIsReleasedSafely, RejectCommand
<1>5. ASSUME RepeatIfDue
      PROVE  FaultIsReleasedSafely
  BY <1>5 DEF FaultIsReleasedSafely, RepeatIfDue, StartRepeat, RefuseRepeat, StartOwnBurst
<1>6. ASSUME NEW enabled \in BOOLEAN, SetAutomaticRepeats(enabled)
      PROVE  FaultIsReleasedSafely
  BY <1>6 DEF FaultIsReleasedSafely, SetAutomaticRepeats
<1>7. ASSUME NEW enabled \in BOOLEAN, SetRelay(enabled)
      PROVE  FaultIsReleasedSafely
  BY <1>7 DEF FaultIsReleasedSafely, SetRelay
<1>8. ASSUME SendCopy
      PROVE  FaultIsReleasedSafely
  BY <1>8 DEF FaultIsReleasedSafely, SendCopy, FinishBurst
<1>9. ASSUME NEW frame \in HeardFrames, ReceiveFrame(frame)
      PROVE  FaultIsReleasedSafely
  BY <1>9 DEF FaultIsReleasedSafely, ReceiveFrame, RelayDecision
<1>10. ASSUME NEW p \in Panels, SaveCounter(p)
      PROVE  FaultIsReleasedSafely
  BY <1>10 DEF FaultIsReleasedSafely, SaveCounter
<1>11. ASSUME NEW p \in Panels, LearningCommit(p)
      PROVE  FaultIsReleasedSafely
  BY <1>11 DEF FaultIsReleasedSafely, LearningCommit
<1>12. ASSUME NEW p \in Panels, ConfigurePanel(p)
      PROVE  FaultIsReleasedSafely
  BY <1>12 DEF FaultIsReleasedSafely, ConfigurePanel
<1>13. ASSUME NEW p \in Panels, RemovePanel(p)
      PROVE  FaultIsReleasedSafely
  BY <1>13 DEF FaultIsReleasedSafely, RemovePanel
<1>14. ASSUME RefuseConfiguration
      PROVE  FaultIsReleasedSafely
  BY <1>14 DEF FaultIsReleasedSafely, RefuseConfiguration
<1>15. ASSUME LearningBegin
      PROVE  FaultIsReleasedSafely
  BY <1>15 DEF FaultIsReleasedSafely, LearningBegin
<1>16. ASSUME LearningEnd
      PROVE  FaultIsReleasedSafely
  BY <1>16 DEF FaultIsReleasedSafely, LearningEnd
<1>17. ASSUME Reboot
      PROVE  FaultIsReleasedSafely
  BY <1>17 DEF FaultIsReleasedSafely
<1>18. ASSUME Tick
      PROVE  FaultIsReleasedSafely
  BY <1>18 DEF FaultIsReleasedSafely, Tick
<1>19. ASSUME UNCHANGED vars
      PROVE  FaultIsReleasedSafely
  BY <1>19 DEF FaultIsReleasedSafely, vars
<1> QED
  BY <1>1, <1>2, <1>3, <1>4, <1>5, <1>6, <1>7, <1>8, <1>9, <1>10, <1>11, <1>12, <1>13, <1>14, <1>15, <1>16, <1>17, <1>18, <1>19 DEF Next

\* Once latched, the relay fault is released by nothing but an acknowledged
\* "relay off" or a restart: not by a burst that succeeds, not by a failed save.
THEOREM LatchIsReleasedSafely == Spec => FaultNeedsRearming
<1>1. [Next]_vars => [FaultIsReleasedSafely]_vars
  BY LatchNext
<1> QED
  BY <1>1, PTL DEF Spec, FaultNeedsRearming

-----------------------------------------------------------------------------
(* Results.  A repeat restores the success its command had; that is sound   *)
(* because it only starts after one, and no result changes meanwhile.       *)

ResultInv ==
  /\ ResultOfLastCommand
  /\ SuccessIsCurrent
  /\ OriginalActive => airing = commandSequence
  /\ tx.kind = "repeat" => commandResult = Success

LEMMA ResultInit == Init => ResultInv
  BY DEF Init, ResultInv, ResultOfLastCommand, SuccessIsCurrent, OriginalActive, NoBurst

LEMMA ResultNext ==
  TypeInv /\ ResultInv /\ [Next]_vars => ResultInv'
<1> SUFFICES ASSUME TypeInv, ResultInv, [Next]_vars
             PROVE  ResultInv'
  OBVIOUS
<1>tx. tx \in BurstState
  BY DEF TypeInv, TypeOK
<1>1. ASSUME NEW request \in Requests, TransmitTargets(request)
      PROVE  ResultInv'
  <2>1. tx'.kind = "direct" /\ commandSuccess' = FALSE
    BY <1>1, BurstShape DEF TransmitTargets, StartOwnBurst
  <2>2. completedSequence = commandSequence
    BY <1>1 DEF ResultInv, ResultOfLastCommand, SuccessIsCurrent, OriginalActive, TransmitTargets, CanTransmitDirect, TxActive
  <2>3. /\ commandSequence' = commandSequence + 1 /\ completedSequence' = completedSequence
        /\ commandResult' = "command_active" /\ airing' = commandSequence'
    BY <1>1 DEF TransmitTargets
  <2> QED
    BY <2>1, <2>2, <2>3 DEF ResultInv, ResultOfLastCommand, SuccessIsCurrent, OriginalActive
<1>2. ASSUME NEW request \in Requests, RepeatTargets(request)
      PROVE  ResultInv'
  <2>1. RefuseRepeat \/ (CanTransmit /\ commandSuccess /\ StartRepeat)
    BY <1>2 DEF RepeatTargets
  <2>2. CASE RefuseRepeat
    BY <1>2, <2>2 DEF ResultInv, ResultOfLastCommand, SuccessIsCurrent, OriginalActive, RepeatTargets, RefuseRepeat
  <2>3. CASE CanTransmit /\ commandSuccess /\ StartRepeat
    <3>1. tx.kind = "none"
      BY <2>3 DEF CanTransmit, TxActive
    <3>2. tx'.kind = "repeat" /\ commandSuccess' = FALSE
      BY <2>3, BurstShape DEF StartRepeat, StartOwnBurst
    <3> QED
      BY <1>2, <2>3, <3>1, <3>2 DEF ResultInv, ResultOfLastCommand, SuccessIsCurrent, OriginalActive, RepeatTargets
  <2> QED
    BY <2>1, <2>2, <2>3
<1>3. ASSUME NEW request \in Requests, NEW failing \in DOMAIN request,
             NEW reserved \in SUBSET (DOMAIN request \ {failing}), ReservationFails(request, reserved, failing)
      PROVE  ResultInv'
  BY <1>3, NoBurstType
  DEF ResultInv, ResultOfLastCommand, SuccessIsCurrent, OriginalActive, ReservationFails, PreemptRepeat, commandVars
<1>4. CASE RejectCommand
  BY <1>4, NoBurstType
  DEF ResultInv, ResultOfLastCommand, SuccessIsCurrent, OriginalActive, RejectCommand, PreemptRepeat, commandVars
<1>5. CASE RepeatIfDue
  <2>1. RefuseRepeat \/ (CanTransmit /\ commandSuccess /\ StartRepeat)
    BY <1>5 DEF RepeatIfDue
  <2>2. CASE RefuseRepeat
    BY <1>5, <2>2 DEF ResultInv, ResultOfLastCommand, SuccessIsCurrent, OriginalActive, RepeatIfDue, RefuseRepeat
  <2>3. CASE CanTransmit /\ commandSuccess /\ StartRepeat
    <3>1. tx.kind = "none"
      BY <2>3 DEF CanTransmit, TxActive
    <3>2. tx'.kind = "repeat" /\ commandSuccess' = FALSE
      BY <2>3, BurstShape DEF StartRepeat, StartOwnBurst
    <3> QED
      BY <1>5, <2>3, <3>1, <3>2 DEF ResultInv, ResultOfLastCommand, SuccessIsCurrent, OriginalActive, RepeatIfDue
  <2> QED
    BY <2>1, <2>2, <2>3
<1>6. ASSUME NEW enabled \in BOOLEAN, SetAutomaticRepeats(enabled)
      PROVE  ResultInv'
  BY <1>6
  DEF ResultInv, ResultOfLastCommand, SuccessIsCurrent, OriginalActive, SetAutomaticRepeats, commandVars
<1>7. ASSUME NEW enabled \in BOOLEAN, SetRelay(enabled)
      PROVE  ResultInv'
  BY <1>7
  DEF ResultInv, ResultOfLastCommand, SuccessIsCurrent, OriginalActive, SetRelay, commandVars
<1>8. CASE SendCopy
  <2>1. ASSUME NEW status \in Statuses, FinishBurst(status)
        PROVE  ResultInv'
    <3>1. tx'.kind = "none"
      BY <2>1, NoBurstType DEF FinishBurst, EndBurst
    <3>2. CASE OriginalActive
      BY <1>8, <2>1, <3>1, <3>2 DEF ResultInv, ResultOfLastCommand, SuccessIsCurrent, OriginalActive, SendCopy, FinishBurst, RecordResult
    <3>3. CASE ~OriginalActive
      <4>1. UNCHANGED <<commandSequence, completedSequence, commandResult, ended>>
        BY <1>8, <2>1, <3>3 DEF SendCopy, FinishBurst, RecordResult
      <4>2. CASE tx.kind = "relay"
        <5>1. commandSuccess' = commandSuccess
          BY <2>1, <4>2 DEF FinishBurst
        <5> QED
          BY <3>1, <4>1, <4>2, <5>1 DEF ResultInv, ResultOfLastCommand, SuccessIsCurrent, OriginalActive
      <4>3. CASE tx.kind = "repeat"
        BY <3>1, <4>1, <4>3 DEF ResultInv, ResultOfLastCommand, SuccessIsCurrent, OriginalActive
      <4> QED
        BY <1>8, <1>tx, <3>3, <4>2, <4>3 DEF SendCopy, TxActive, OriginalActive, BurstState
    <3> QED
      BY <3>2, <3>3
  <2>2. CASE /\ tx' = [tx EXCEPT !.remaining = @ - 1]
             /\ UNCHANGED <<completedSequence, commandResult, commandSuccess, ended, airing>>
    BY <1>8, <2>2, <1>tx, SameBurst DEF ResultInv, ResultOfLastCommand, SuccessIsCurrent, OriginalActive, SendCopy
  <2> QED
    BY <1>8, <2>1, <2>2, StatusType DEF SendCopy
<1>9. ASSUME NEW frame \in HeardFrames, ReceiveFrame(frame)
      PROVE  ResultInv'
  BY <1>9, BurstShape
  DEF ResultInv, ResultOfLastCommand, SuccessIsCurrent, OriginalActive, ReceiveFrame, RelayDecision, TxActive, commandVars
<1>10. ASSUME NEW p \in Panels, SaveCounter(p)
      PROVE  ResultInv'
  BY <1>10
  DEF ResultInv, ResultOfLastCommand, SuccessIsCurrent, OriginalActive, SaveCounter, commandVars
<1>11. ASSUME NEW p \in Panels, LearningCommit(p)
      PROVE  ResultInv'
  BY <1>11
  DEF ResultInv, ResultOfLastCommand, SuccessIsCurrent, OriginalActive, LearningCommit, commandVars
<1>12. ASSUME NEW p \in Panels, ConfigurePanel(p)
      PROVE  ResultInv'
  BY <1>12
  DEF ResultInv, ResultOfLastCommand, SuccessIsCurrent, OriginalActive, ConfigurePanel, commandVars
<1>13. ASSUME NEW p \in Panels, RemovePanel(p)
      PROVE  ResultInv'
  BY <1>13
  DEF ResultInv, ResultOfLastCommand, SuccessIsCurrent, OriginalActive, RemovePanel, commandVars
<1>14. CASE RefuseConfiguration
  BY <1>14
  DEF ResultInv, ResultOfLastCommand, SuccessIsCurrent, OriginalActive, RefuseConfiguration, commandVars
<1>15. CASE LearningBegin
  BY <1>15
  DEF ResultInv, ResultOfLastCommand, SuccessIsCurrent, OriginalActive, LearningBegin, commandVars
<1>16. CASE LearningEnd
  BY <1>16
  DEF ResultInv, ResultOfLastCommand, SuccessIsCurrent, OriginalActive, LearningEnd, commandVars
<1>17. CASE Reboot
  BY <1>17, NoBurstType
  DEF ResultInv, ResultOfLastCommand, SuccessIsCurrent, OriginalActive, Reboot
<1>18. CASE Tick
  BY <1>18, <1>tx, SameBurst
  DEF ResultInv, ResultOfLastCommand, SuccessIsCurrent, OriginalActive, Tick, commandVars
<1>19. CASE UNCHANGED vars
  BY <1>19 DEF ResultInv, ResultOfLastCommand, SuccessIsCurrent, OriginalActive, vars, commandVars
<1> QED
  BY <1>1, <1>2, <1>3, <1>4, <1>5, <1>6, <1>7, <1>8, <1>9, <1>10, <1>11, <1>12, <1>13, <1>14, <1>15, <1>16, <1>17, <1>18, <1>19 DEF Next

\* Sequence, completed sequence and result agree after every command, and the
\* result is that of the command's own burst: finish_test_ alone answers.
THEOREM ResultsAgree == Spec => []ResultOfLastCommand
<1>1. ResultInv => ResultOfLastCommand
  BY DEF ResultInv
<1> QED
  BY <1>1, TypeInit, TypeNext, ResultInit, ResultNext, PTL DEF Spec

\* command_success() is never left over from an older command or burst.
THEOREM SuccessStaysCurrent == Spec => []SuccessIsCurrent
<1>1. ResultInv => SuccessIsCurrent
  BY DEF ResultInv
<1> QED
  BY <1>1, TypeInit, TypeNext, ResultInit, ResultNext, PTL DEF Spec

-----------------------------------------------------------------------------
(* III.  The repeat budget.                                                *)


-----------------------------------------------------------------------------
(* Frames that carry the index their panel has, in memory and in storage.  *)

Recorded(frames) ==
  \A f \in frames :
    f.family \in Panels /\ index[f.family] = f.index /\ stored[f.family] = f.index

LEMMA ReservedRecorded ==
  ASSUME TypeInv, NEW request \in Requests, TransmitTargets(request)
  PROVE  \A f \in Reserved(request) :
           f.family \in Panels /\ index'[f.family] = f.index /\ stored'[f.family] = f.index
<1> SUFFICES ASSUME NEW p \in DOMAIN request
             PROVE  p \in Panels /\ index'[p] = NextIndex(index[p]) /\ stored'[p] = NextIndex(index[p])
  BY DEF Reserved, NextCommand
<1>1. p \in Panels
  BY RequestType
<1> QED
  BY <1>1 DEF TransmitTargets, ReserveCounters

\* A save writes the index of the panel in memory, whether it works or fails.
LEMMA SaveCounterWrites ==
  ASSUME TypeInv, NEW p \in Panels, SaveCounter(p)
  PROVE  /\ UNCHANGED <<index, tx, budget, latest>>
         /\ \A q \in Panels : stored'[q] = stored[q] \/ stored'[q] = index[q]
<1>1. UNCHANGED <<index, tx, budget, latest>>
  BY DEF SaveCounter
<1>2. \A q \in Panels : stored'[q] = stored[q] \/ stored'[q] = index[q]
  BY DEF SaveCounter, Persist, TypeInv, TypeOK
<1> QED
  BY <1>1, <1>2

-----------------------------------------------------------------------------
(* What the operators of CommandRepeat leave of a budget that survives them. *)

LEMMA TakeShape ==
  ASSUME NEW b \in GoodBudgets, Take(b).remaining > 0, b.remaining > 0
  PROVE  /\ Take(b).frames = b.frames /\ Take(b).age = b.age
         /\ Take(b).remaining = b.remaining - 1
  BY DEF Take, GoodBudgets, Budget, NoBudget

LEMMA CompletedShape ==
  ASSUME NEW b \in GoodBudgets, NEW ok \in BOOLEAN, Completed(b, ok).remaining > 0
  PROVE  /\ Completed(b, ok).frames = b.frames /\ Completed(b, ok).age = b.age
         /\ Completed(b, ok).remaining = b.remaining
  BY DEF Completed, GoodBudgets, Budget, NoBudget

LEMMA AgedShape ==
  ASSUME NEW b \in GoodBudgets
  PROVE  /\ Aged(b).frames = b.frames /\ Aged(b).remaining = b.remaining
         /\ b.remaining > 0 => Aged(b).age = IF b.age < RepeatWindow THEN b.age + 1 ELSE b.age
  BY DEF Aged, GoodBudgets, Budget

-----------------------------------------------------------------------------
(* The budget follows the newest command.                                  *)

BudgetInv ==
  budget.remaining > 0 =>
    /\ Recorded(budget.frames)
    /\ budget.frames = latest.frames
    /\ budget.age = latest.age
    /\ budget.remaining + latest.repeats <= RepeatBudget
    /\ latest.outcome = "complete" \/ (latest.outcome = "active" /\ tx.kind = "direct")

LEMMA BudgetInit == Init => BudgetInv
  BY NoBudgetType DEF Init, BudgetInv

LEMMA RepeatKeepsBudget ==
  ASSUME TypeInv, BudgetInv, budget.remaining > 0, RefuseRepeat \/ (CanTransmit /\ StartRepeat),
         UNCHANGED <<index, stored>>
  PROVE  BudgetInv'
<1>1. CASE RefuseRepeat
  BY <1>1, NoBudgetType DEF RefuseRepeat, BudgetInv
<1>2. CASE (CanTransmit /\ StartRepeat) /\ budget'.remaining > 0
  <2>1. budget' = Take(budget) /\ latest' = [latest EXCEPT !.repeats = @ + 1]
    BY <1>2 DEF StartRepeat
  <2>2. /\ budget'.frames = budget.frames /\ budget'.age = budget.age
        /\ budget'.remaining = budget.remaining - 1
    BY <1>2, <2>1, TakeShape DEF TypeInv
  <2>3. /\ latest'.frames = latest.frames /\ latest'.age = latest.age
        /\ latest'.outcome = latest.outcome /\ latest'.repeats = latest.repeats + 1
    BY <2>1 DEF TypeInv, TypeOK, CommandHistory
  <2>4. latest.outcome = "complete"
    BY <1>2 DEF BudgetInv, CanTransmit, TxActive
  <2>5. budget.remaining \in Nat /\ latest.repeats \in Nat /\ RepeatBudget \in Nat
    BY RepeatAssumption DEF TypeInv, TypeOK, Budget, CommandHistory
  <2>6. Recorded(budget.frames)'
    BY <2>2 DEF BudgetInv, Recorded
  <2> QED
    BY <2>2, <2>3, <2>4, <2>5, <2>6 DEF BudgetInv, Recorded
<1> QED
  BY <1>1, <1>2 DEF BudgetInv

LEMMA BudgetNext ==
  TypeInv /\ LearningIsSilent /\ BudgetInv /\ [Next]_vars => BudgetInv'
<1> SUFFICES ASSUME TypeInv, LearningIsSilent, BudgetInv, [Next]_vars
             PROVE  BudgetInv'
  OBVIOUS
<1>1. ASSUME NEW request \in Requests, TransmitTargets(request)
      PROVE  BudgetInv'
  <2>1. \A f \in Reserved(request) :
          f.family \in Panels /\ index'[f.family] = f.index /\ stored'[f.family] = f.index
    BY <1>1, ReservedRecorded
  <2>2. budget' = Remember(Reserved(request)) /\ tx'.kind = "direct"
        /\ latest' = [frames |-> Reserved(request), outcome |-> "active", repeats |-> 0, age |-> 0]
    BY <1>1, BurstShape DEF TransmitTargets, StartOwnBurst
  <2> QED
    BY <2>1, <2>2, RepeatAssumption DEF BudgetInv, Remember, Recorded
<1>2. ASSUME NEW request \in Requests, RepeatTargets(request)
      PROVE  BudgetInv'
  <2>1. budget.remaining > 0 /\ (RefuseRepeat \/ (CanTransmit /\ StartRepeat))
    BY <1>2 DEF RepeatTargets
  <2>2. UNCHANGED <<index, stored>>
    BY <1>2 DEF RepeatTargets, panelVars
  <2> QED
    BY <2>1, <2>2, RepeatKeepsBudget
<1>3. ASSUME NEW request \in Requests, NEW failing \in DOMAIN request,
             NEW reserved \in SUBSET (DOMAIN request \ {failing}), ReservationFails(request, reserved, failing)
      PROVE  BudgetInv'
  BY <1>3, NoBudgetType, NoBurstType
  DEF BudgetInv, Recorded, ReservationFails, PreemptRepeat
<1>4. CASE RejectCommand
  BY <1>4, NoBudgetType, NoBurstType
  DEF BudgetInv, Recorded, RejectCommand, PreemptRepeat, panelVars
<1>5. CASE RepeatIfDue
  <2>1. budget.remaining > 0 /\ (RefuseRepeat \/ (CanTransmit /\ StartRepeat))
    BY <1>5 DEF RepeatIfDue
  <2>2. UNCHANGED <<index, stored>>
    BY <1>5 DEF RepeatIfDue, panelVars
  <2> QED
    BY <2>1, <2>2, RepeatKeepsBudget
<1>6. ASSUME NEW enabled \in BOOLEAN, SetAutomaticRepeats(enabled)
      PROVE  BudgetInv'
  BY <1>6, NoBudgetType
  DEF BudgetInv, Recorded, SetAutomaticRepeats, panelVars
<1>7. ASSUME NEW enabled \in BOOLEAN, SetRelay(enabled)
      PROVE  BudgetInv'
  BY <1>7
  DEF BudgetInv, Recorded, SetRelay, panelVars
<1>8. CASE SendCopy
  <2>0. UNCHANGED <<index, stored>>
    BY <1>8 DEF SendCopy, panelVars
  <2>1. ASSUME NEW status \in Statuses, FinishBurst(status), budget'.remaining > 0
        PROVE  BudgetInv'
    <3>0. budget' = IF status # Success THEN NoBudget
                    ELSE IF tx.kind = "relay" THEN budget ELSE Completed(budget, TRUE)
      BY <2>1 DEF FinishBurst
    <3>2. status = Success /\ (budget' = budget \/ budget' = Completed(budget, TRUE))
      <4>1. budget' # NoBudget
        BY <2>1 DEF NoBudget
      <4> QED
        BY <3>0, <4>1
    <3>1. /\ budget'.frames = budget.frames /\ budget'.age = budget.age
          /\ budget'.remaining = budget.remaining
      BY <2>1, <3>2, CompletedShape DEF TypeInv
    <3>3. latest # NoCommand
      BY <2>1, <3>1 DEF BudgetInv, NoCommand
    <3>4. /\ latest'.frames = latest.frames /\ latest'.age = latest.age
          /\ latest'.repeats = latest.repeats /\ latest'.outcome = "complete"
      BY <2>1, <3>1, <3>2, <3>3 DEF FinishBurst, OriginalActive, BudgetInv, TypeInv, TypeOK, CommandHistory
    <3> QED
      BY <2>0, <2>1, <3>1, <3>4 DEF BudgetInv, Recorded
  <2>2. CASE /\ tx' = [tx EXCEPT !.remaining = @ - 1]
             /\ UNCHANGED <<budget, latest>>
    <3>1. tx'.kind = tx.kind
      BY <2>2, SameBurst DEF TypeInv, TypeOK
    <3> QED
      BY <2>0, <2>2, <3>1 DEF BudgetInv, Recorded
  <2>3. CASE budget'.remaining > 0
    BY <1>8, <2>1, <2>2, <2>3, StatusType DEF SendCopy
  <2> QED
    BY <2>3 DEF BudgetInv
<1>9. ASSUME NEW frame \in HeardFrames, ReceiveFrame(frame)
      PROVE  BudgetInv'
  <2>1. CASE budget'.remaining > 0
    <3>1. budget' = budget /\ ~Conflicts(budget.frames, frame)
      BY <1>9, <2>1, NoBudgetType DEF ReceiveFrame, Observe
    <3>2. UNCHANGED <<latest, stored>>
      BY <1>9, <2>1, <3>1 DEF ReceiveFrame, BudgetInv
    <3>3. \A f \in budget.frames : index'[f.family] = index[f.family]
      <4> SUFFICES ASSUME NEW f \in budget.frames, index'[f.family] # index[f.family]
                   PROVE  FALSE
        OBVIOUS
      <4>1. f.family \in Panels /\ index[f.family] = f.index /\ index \in [Panels -> Index \cup {NoRecord}]
        BY <2>1, <3>1 DEF BudgetInv, Recorded, TypeInv, TypeOK
      <4>2. /\ f.family = frame.family
            /\ PanelAccepts(frame) /\ IsNewer(frame.index, index[frame.family])
        BY <1>9, <4>1 DEF ReceiveFrame
      <4>3. frame.index \in Index /\ index[frame.family] \in Index
        BY <4>2, ReadyIndexType, RadioAssumption DEF PanelAccepts, Frame, TypeInv
      <4>4. frame.index # f.index
        BY <4>1, <4>2, <4>3, NewerIsDifferent
      <4> QED
        BY <3>1, <4>2, <4>4 DEF Conflicts, SameCommandFamily
    <3>4. latest.outcome = "complete"
      BY <1>9, <2>1, <3>1 DEF ReceiveFrame, TxActive, BudgetInv
    <3> QED
      BY <2>1, <3>1, <3>2, <3>3, <3>4 DEF BudgetInv, Recorded
  <2> QED
    BY <2>1 DEF BudgetInv
<1>10. ASSUME NEW p \in Panels, SaveCounter(p)
      PROVE  BudgetInv'
  BY <1>10, SaveCounterWrites DEF BudgetInv, Recorded
<1>11. ASSUME NEW p \in Panels, LearningCommit(p)
      PROVE  BudgetInv'
  <2>1. budget'.remaining = 0
    BY <1>11 DEF LearningCommit, LearningIsSilent
  <2> QED
    BY <2>1 DEF BudgetInv
<1>12. ASSUME NEW p \in Panels, ConfigurePanel(p)
      PROVE  BudgetInv'
  BY <1>12, NoBudgetType
  DEF BudgetInv, Recorded, ConfigurePanel
<1>13. ASSUME NEW p \in Panels, RemovePanel(p)
      PROVE  BudgetInv'
  BY <1>13, NoBudgetType
  DEF BudgetInv, Recorded, RemovePanel
<1>14. CASE RefuseConfiguration
  BY <1>14, NoBudgetType
  DEF BudgetInv, Recorded, RefuseConfiguration, panelVars
<1>15. CASE LearningBegin
  BY <1>15, NoBudgetType
  DEF BudgetInv, Recorded, LearningBegin, panelVars
<1>16. CASE LearningEnd
  BY <1>16
  DEF BudgetInv, Recorded, LearningEnd, panelVars
<1>17. CASE Reboot
  BY <1>17, NoBudgetType, NoBurstType
  DEF BudgetInv, Recorded, Reboot
<1>18. CASE Tick
  <2>1. UNCHANGED <<index, stored>> /\ tx'.kind = tx.kind
    BY <1>18, SameBurst DEF Tick, panelVars, TypeInv, TypeOK
  <2>2. CASE budget.remaining > 0
    <3>1. /\ budget'.frames = budget.frames /\ budget'.remaining = budget.remaining
          /\ budget'.age = IF budget.age < RepeatWindow THEN budget.age + 1 ELSE budget.age
      BY <1>18, <2>2, AgedShape DEF Tick, TypeInv
    <3>2. latest # NoCommand
      BY <2>2 DEF BudgetInv, NoCommand
    <3>3. /\ latest'.frames = latest.frames /\ latest'.repeats = latest.repeats
          /\ latest'.outcome = latest.outcome
          /\ latest'.age = IF latest.age < RepeatWindow THEN latest.age + 1 ELSE latest.age
      BY <1>18, <3>2 DEF Tick, TypeInv, TypeOK, CommandHistory
    <3> QED
      BY <2>1, <2>2, <3>1, <3>3 DEF BudgetInv, Recorded
  <2>3. CASE ~(budget.remaining > 0)
    BY <1>18, <2>3, AgedShape DEF Tick, BudgetInv, TypeInv
  <2> QED
    BY <2>2, <2>3
<1>19. CASE UNCHANGED vars
  BY <1>19 DEF BudgetInv, Recorded, vars, panelVars
<1> QED
  BY <1>1, <1>2, <1>3, <1>4, <1>5, <1>6, <1>7, <1>8, <1>9, <1>10, <1>11, <1>12, <1>13, <1>14, <1>15, <1>16, <1>17, <1>18, <1>19 DEF Next

\* No budget promises more repeats than two in all, or other frames than the
\* newest command's: remember() replaces it and clear() drops it in time.
THEOREM BudgetsAreBounded == Spec => []BudgetIsBounded
<1>1. BudgetInv => BudgetIsBounded
  BY DEF BudgetInv, BudgetIsBounded
<1> QED
  BY <1>1, TypeInit, TypeNext, SilentInit, SilentNext, BudgetInit, BudgetNext, PTL DEF Spec

-----------------------------------------------------------------------------
(* What is on air was saved first.                                         *)

AirInv == tx.kind \in {"direct", "repeat"} => Recorded(tx.frames)

LEMMA AirInit == Init => AirInv
  BY NoBurstType DEF Init, AirInv

LEMMA AirNext ==
  TypeInv /\ BudgetInv /\ AirInv /\ [Next]_vars => AirInv'
<1> SUFFICES ASSUME TypeInv, BudgetInv, AirInv, [Next]_vars
             PROVE  AirInv'
  OBVIOUS
<1>1. ASSUME NEW request \in Requests, TransmitTargets(request)
      PROVE  AirInv'
  <2>1. \A f \in Reserved(request) :
          f.family \in Panels /\ index'[f.family] = f.index /\ stored'[f.family] = f.index
    BY <1>1, ReservedRecorded
  <2>2. tx'.frames = Reserved(request)
    BY <1>1, BurstShape DEF TransmitTargets, StartOwnBurst
  <2> QED
    BY <2>1, <2>2 DEF AirInv, Recorded
<1>2. ASSUME NEW request \in Requests, RepeatTargets(request)
      PROVE  AirInv'
  <2>1. budget.remaining > 0 /\ (StartRepeat \/ RefuseRepeat) /\ UNCHANGED <<index, stored>>
    BY <1>2 DEF RepeatTargets, panelVars
  <2> QED
    BY <2>1, RepeatStep DEF AirInv, BudgetInv, Recorded
<1>3. ASSUME NEW request \in Requests, NEW failing \in DOMAIN request,
             NEW reserved \in SUBSET (DOMAIN request \ {failing}), ReservationFails(request, reserved, failing)
      PROVE  AirInv'
  <2>1. tx'.kind = "none"
    BY <1>3, NoBurstType DEF ReservationFails, PreemptRepeat, CanTransmitDirect, TxActive
  <2> QED
    BY <2>1 DEF AirInv
<1>4. CASE RejectCommand
  <2>1. UNCHANGED <<index, stored>> /\ (tx'.kind = "none" \/ tx' = tx)
    BY <1>4, NoBurstType DEF RejectCommand, PreemptRepeat, panelVars
  <2> QED
    BY <2>1 DEF AirInv, Recorded
<1>5. CASE RepeatIfDue
  <2>1. budget.remaining > 0 /\ (StartRepeat \/ RefuseRepeat) /\ UNCHANGED <<index, stored>>
    BY <1>5 DEF RepeatIfDue, panelVars
  <2> QED
    BY <2>1, RepeatStep DEF AirInv, BudgetInv, Recorded
<1>6. ASSUME NEW enabled \in BOOLEAN, SetAutomaticRepeats(enabled)
      PROVE  AirInv'
  BY <1>6
  DEF AirInv, Recorded, SetAutomaticRepeats, panelVars
<1>7. ASSUME NEW enabled \in BOOLEAN, SetRelay(enabled)
      PROVE  AirInv'
  BY <1>7
  DEF AirInv, Recorded, SetRelay, panelVars
<1>8. CASE SendCopy
  <2>1. UNCHANGED <<index, stored>>
    BY <1>8 DEF SendCopy, panelVars
  <2>2. tx'.kind = "none" \/ (tx'.kind = tx.kind /\ tx'.frames = tx.frames)
    BY <1>8, NoBurstType, SameBurst DEF SendCopy, FinishBurst, EndBurst, TypeInv, TypeOK
  <2> QED
    BY <2>1, <2>2 DEF AirInv, Recorded
<1>9. ASSUME NEW frame \in HeardFrames, ReceiveFrame(frame)
      PROVE  AirInv'
  <2>1. tx'.kind \in {"none", "relay"}
    BY <1>9, BurstShape DEF ReceiveFrame, RelayDecision, TxActive
  <2> QED
    BY <2>1 DEF AirInv
<1>10. ASSUME NEW p \in Panels, SaveCounter(p)
      PROVE  AirInv'
  BY <1>10, SaveCounterWrites DEF AirInv, Recorded
<1>11. ASSUME NEW p \in Panels, LearningCommit(p)
      PROVE  AirInv'
  BY <1>11
  DEF AirInv, Recorded, LearningCommit, TxActive
<1>12. ASSUME NEW p \in Panels, ConfigurePanel(p)
      PROVE  AirInv'
  BY <1>12
  DEF AirInv, Recorded, ConfigurePanel, TxActive
<1>13. ASSUME NEW p \in Panels, RemovePanel(p)
      PROVE  AirInv'
  BY <1>13
  DEF AirInv, Recorded, RemovePanel, TxActive
<1>14. CASE RefuseConfiguration
  BY <1>14
  DEF AirInv, Recorded, RefuseConfiguration, panelVars
<1>15. CASE LearningBegin
  BY <1>15
  DEF AirInv, Recorded, LearningBegin, panelVars
<1>16. CASE LearningEnd
  BY <1>16
  DEF AirInv, Recorded, LearningEnd, panelVars
<1>17. CASE Reboot
  BY <1>17, NoBurstType
  DEF AirInv, Recorded, Reboot
<1>18. CASE Tick
  <2>1. UNCHANGED <<index, stored>> /\ tx'.kind = tx.kind /\ tx'.frames = tx.frames
    BY <1>18, SameBurst DEF Tick, panelVars, TypeInv, TypeOK
  <2> QED
    BY <2>1 DEF AirInv, Recorded
<1>19. CASE UNCHANGED vars
  BY <1>19 DEF AirInv, Recorded, vars, panelVars
<1> QED
  BY <1>1, <1>2, <1>3, <1>4, <1>5, <1>6, <1>7, <1>8, <1>9, <1>10, <1>11, <1>12, <1>13, <1>14, <1>15, <1>16, <1>17, <1>18, <1>19 DEF Next

\* Power lost at any moment of a burst leaves every index on air in storage:
\* commit_transmit persists before the radio starts, for every panel of a batch,
\* and no save_counter takes it back.
THEOREM DurableOnAir == Spec => []DurableBeforeAir
<1>1. AirInv => DurableBeforeAir
  BY DEF AirInv, DurableBeforeAir, Recorded
<1> QED
  BY <1>1, TypeInit, TypeNext, SilentInit, SilentNext, BudgetInit, BudgetNext, AirInit, AirNext,
     PTL DEF Spec

-----------------------------------------------------------------------------
(* Authority of repeats.                                                   *)

\* The two callers of take(): the command was over, the radio free, the window
\* open and every panel where the command had left it.
LEMMA RepeatPreconditions ==
  ASSUME \/ RepeatIfDue
         \/ \E request \in Requests : RepeatTargets(request)
  PROVE  \/ RefuseRepeat
         \/ /\ StartRepeat /\ CanTransmit
            /\ budget.remaining > 0
            /\ ~Expired(budget)
            /\ PanelsUnmoved(budget.frames)
<1>1. CASE RepeatIfDue
  BY <1>1 DEF RepeatIfDue
<1>2. ASSUME NEW request \in Requests, RepeatTargets(request)
      PROVE  \/ RefuseRepeat
             \/ /\ StartRepeat /\ CanTransmit
                /\ budget.remaining > 0
                /\ ~Expired(budget)
                /\ PanelsUnmoved(budget.frames)
  BY <1>2 DEF RepeatTargets
<1> QED
  BY <1>1, <1>2

\* Every other step leaves a burst that is no repeat without becoming one.
LEMMA OnlyRepeatsRepeat ==
  ASSUME TypeInv, [Next]_vars, tx.kind # "repeat", tx'.kind = "repeat"
  PROVE  \/ RepeatIfDue
         \/ \E request \in Requests : RepeatTargets(request)
<1>tx. tx \in BurstState
  BY DEF TypeInv, TypeOK
<1>1. ASSUME NEW request \in Requests, TransmitTargets(request)
      PROVE  tx'.kind = "repeat" => tx.kind = "repeat"
  BY <1>1, BurstShape DEF TransmitTargets, StartOwnBurst
<1>2. ASSUME NEW request \in Requests, NEW failing \in DOMAIN request,
             NEW reserved \in SUBSET (DOMAIN request \ {failing}), ReservationFails(request, reserved, failing)
      PROVE  tx'.kind = "repeat" => tx.kind = "repeat"
  BY <1>2, NoBurstType DEF ReservationFails, PreemptRepeat
<1>3. ASSUME RejectCommand
      PROVE  tx'.kind = "repeat" => tx.kind = "repeat"
  BY <1>3, NoBurstType DEF RejectCommand, PreemptRepeat
<1>4. ASSUME NEW enabled \in BOOLEAN, SetAutomaticRepeats(enabled)
      PROVE  tx'.kind = "repeat" => tx.kind = "repeat"
  BY <1>4 DEF SetAutomaticRepeats
<1>5. ASSUME NEW enabled \in BOOLEAN, SetRelay(enabled)
      PROVE  tx'.kind = "repeat" => tx.kind = "repeat"
  BY <1>5 DEF SetRelay
<1>6. ASSUME SendCopy
      PROVE  tx'.kind = "repeat" => tx.kind = "repeat"
  BY <1>6, <1>tx, NoBurstType, SameBurst DEF SendCopy, FinishBurst, EndBurst
<1>7. ASSUME NEW frame \in HeardFrames, ReceiveFrame(frame)
      PROVE  tx'.kind = "repeat" => tx.kind = "repeat"
  BY <1>7, BurstShape DEF ReceiveFrame, RelayDecision
<1>8. ASSUME NEW p \in Panels, SaveCounter(p)
      PROVE  tx'.kind = "repeat" => tx.kind = "repeat"
  BY <1>8 DEF SaveCounter
<1>9. ASSUME NEW p \in Panels, LearningCommit(p)
      PROVE  tx'.kind = "repeat" => tx.kind = "repeat"
  BY <1>9 DEF LearningCommit
<1>10. ASSUME NEW p \in Panels, ConfigurePanel(p)
      PROVE  tx'.kind = "repeat" => tx.kind = "repeat"
  BY <1>10 DEF ConfigurePanel
<1>11. ASSUME NEW p \in Panels, RemovePanel(p)
      PROVE  tx'.kind = "repeat" => tx.kind = "repeat"
  BY <1>11 DEF RemovePanel
<1>12. ASSUME RefuseConfiguration
      PROVE  tx'.kind = "repeat" => tx.kind = "repeat"
  BY <1>12 DEF RefuseConfiguration
<1>13. ASSUME LearningBegin
      PROVE  tx'.kind = "repeat" => tx.kind = "repeat"
  BY <1>13 DEF LearningBegin
<1>14. ASSUME LearningEnd
      PROVE  tx'.kind = "repeat" => tx.kind = "repeat"
  BY <1>14 DEF LearningEnd
<1>15. ASSUME Reboot
      PROVE  tx'.kind = "repeat" => tx.kind = "repeat"
  BY <1>15, NoBurstType DEF Reboot
<1>16. ASSUME Tick
      PROVE  tx'.kind = "repeat" => tx.kind = "repeat"
  BY <1>16, <1>tx, SameBurst DEF Tick
<1>17. ASSUME UNCHANGED vars
      PROVE  tx'.kind = "repeat" => tx.kind = "repeat"
  BY <1>17 DEF vars
<1> QED
  BY <1>1, <1>2, <1>3, <1>4, <1>5, <1>6, <1>7, <1>8, <1>9, <1>10, <1>11, <1>12, <1>13, <1>14, <1>15, <1>16, <1>17 DEF Next

LEMMA RepeatHasAuthority ==
  TypeInv /\ BudgetInv /\ [Next]_vars => RepeatIsAuthorised
<1> SUFFICES ASSUME TypeInv, BudgetInv, [Next]_vars, tx.kind # "repeat", tx'.kind = "repeat"
             PROVE  /\ latest.outcome = "complete"
                    /\ tx'.frames = latest.frames
                    /\ \A f \in latest.frames : f.family \in ready /\ index[f.family] = f.index
                    /\ latest.repeats < RepeatBudget
                    /\ latest.age < RepeatWindow
  BY DEF RepeatIsAuthorised
<1>1. ~RefuseRepeat
  BY DEF RefuseRepeat
<1>2. /\ StartRepeat /\ CanTransmit
      /\ budget.remaining > 0
      /\ ~Expired(budget)
      /\ PanelsUnmoved(budget.frames)
  BY <1>1, OnlyRepeatsRepeat, RepeatPreconditions
<1>3. latest.outcome = "complete"
  BY <1>2 DEF BudgetInv, CanTransmit, TxActive
<1>4. tx'.frames = latest.frames
  BY <1>2, BurstShape DEF BudgetInv, StartRepeat, StartOwnBurst
<1>5. \A f \in latest.frames : f.family \in ready /\ index[f.family] = f.index
  BY <1>2 DEF BudgetInv, PanelsUnmoved
<1>6. latest.repeats < RepeatBudget
  <2>1. budget.remaining \in Nat /\ latest.repeats \in Nat /\ RepeatBudget \in Nat
    BY RepeatAssumption DEF TypeInv, TypeOK, Budget, CommandHistory
  <2> QED
    BY <1>2, <2>1 DEF BudgetInv
<1>7. latest.age < RepeatWindow
  <2>1. latest.age \in Nat /\ RepeatWindow \in Nat
    BY RepeatAssumption DEF TypeInv, TypeOK, CommandHistory
  <2> QED
    BY <1>2, <2>1 DEF BudgetInv, Expired
<1> QED
  BY <1>3, <1>4, <1>5, <1>6, <1>7

\* A repeat sends the newest command's frames and nothing else, after that
\* command completed, at most twice, within the window, with no counter moved.
THEOREM RepeatsHaveAuthority == Spec => RepeatsAreAuthorised
<1>1. TypeInv /\ BudgetInv /\ [Next]_vars => [RepeatIsAuthorised]_vars
  BY RepeatHasAuthority
<1> QED
  BY <1>1, TypeInit, TypeNext, SilentInit, SilentNext, BudgetInit, BudgetNext, PTL
  DEF Spec, RepeatsAreAuthorised

=============================================================================
