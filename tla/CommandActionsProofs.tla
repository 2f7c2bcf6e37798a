------------------------ MODULE CommandActionsProofs ------------------------
(***************************************************************************)
(* What CommandActions promises for any panels, clients and delays: the    *)
(* actions only ever do to the radio what RadioOwner allows, so whatever   *)
(* is proved of RadioOwner holds under them; and no client is told a       *)
(* falsehood about its command.                                            *)
(*                                                                         *)
(* The second needs to know where a command is that somebody still waits   *)
(* for: on air, not yet overdue, or over with nothing else on air since.   *)
(***************************************************************************)
EXTENDS CommandActions, RadioOwnerProofs

-----------------------------------------------------------------------------
(* The actions implement the radio owner.                                  *)

LEMMA AnsweredAtOnceStep == CallAnsweredAtOnce => Next /\ UNCHANGED call
<1> SUFFICES ASSUME CallAnsweredAtOnce PROVE Next
  BY DEF CallAnsweredAtOnce
<1>1. CASE RejectCommand
  BY <1>1 DEF Next
<1>2. ASSUME NEW request \in Requests, TransmitTargets(request) \/ RepeatTargets(request)
      PROVE  Next
  BY <1>2 DEF Next
<1>3. ASSUME NEW request \in Requests, NEW failing \in DOMAIN request,
             ReservationFails(request, {}, failing)
      PROVE  Next
  <2>1. {} \in SUBSET (DOMAIN request \ {failing})
    OBVIOUS
  <2>2. \E reserved \in SUBSET (DOMAIN request \ {failing}) :
          ReservationFails(request, reserved, failing)
    BY <1>3, <2>1
  <2> QED
    BY <2>2 DEF Next
<1>4. CASE RefuseConfiguration
  BY <1>4 DEF Next
<1>5. ASSUME NEW p \in Panels, ConfigurePanel(p)
      PROVE  Next
  BY <1>5 DEF Next
<1> QED
  BY <1>1, <1>2, <1>3, <1>4, <1>5 DEF CallAnsweredAtOnce

LEMMA ActionStep == [ActionNext]_actionVars => [Next]_vars
<1> SUFFICES ASSUME [ActionNext]_actionVars PROVE [Next]_vars
  OBVIOUS
<1>1. ASSUME NEW c \in Callers, NEW request \in Requests,
             CallCommand(c, request) \/ CallRepeat(c, request)
      PROVE  Next
  BY <1>1 DEF CallCommand, CallRepeat, Next
<1>2. ASSUME NEW c \in Callers, Respond(c) \/ Answered(c)
      PROVE  UNCHANGED vars
  BY <1>2 DEF Respond, Answered
<1>3. CASE CallAnsweredAtOnce
  BY <1>3, AnsweredAtOnceStep
<1>4. CASE OwnerStep
  BY <1>4 DEF OwnerStep, Next
<1>5. CASE Pass
  BY <1>5 DEF Pass, Next
<1>6. CASE UNCHANGED actionVars
  BY <1>6 DEF actionVars
<1> QED
  BY <1>1, <1>2, <1>3, <1>4, <1>5, <1>6 DEF ActionNext

\* Whatever the clients ask for and in whatever order, the radio owner under them behaves
\* as RadioOwner says: every action starts at most one of its handlers.
THEOREM ActionsImplementOwner == ActionSpec => Spec
<1>1. ActionInit => Init
  BY DEF ActionInit
<1> QED
  BY <1>1, ActionStep, PTL DEF ActionSpec, Spec

LEMMA OwnerTypes == ActionSpec => []TypeInv
<1>1. Spec => []TypeInv
  BY TypeInit, TypeNext, PTL DEF Spec
<1> QED
  BY <1>1, ActionsImplementOwner, PTL

-----------------------------------------------------------------------------
(* What becomes of a command that is waited for.                           *)

\* A client waits for a command of its own.
Waits(c) == call[c].answer = "pending" /\ call[c].action \in {"command", "targets"}

\* Its burst is on air; a single target's has not outlived its guard.
OnAir(c) ==
  /\ tx.kind = "direct" /\ airing = call[c].sequence /\ ~commandSuccess
  /\ call[c].action = "command" =>
       /\ tx.ticks = SequentialTotalTicks(Copies, 1)
       /\ call[c].age = tx.age
       /\ tx.age <= TxDeadline(tx.ticks) + 1

\* Its burst has ended, and the pause that follows keeps any other from starting.
Over(c) ==
  /\ tx.kind = "none" /\ cooldown > 0
  /\ ended.sequence = call[c].sequence
  /\ commandSuccess <=> ended.status = Success

CallInv ==
  /\ ActionTypeOK
  /\ commandSequence \in 0 .. MaxCommands
  /\ \A c \in Callers : Waits(c) => OnAir(c) \/ Over(c)

\* A selection of one target has one frame.
LEMMA SingleTarget ==
  ASSUME NEW request \in Requests, Cardinality(DOMAIN request) = 1
  PROVE  Cardinality(Reserved(request)) = 1
<1>1. IsFiniteSet(DOMAIN request)
  BY RequestType
<1>2. PICK p : DOMAIN request = {p}
  BY <1>1, FS_Singleton
<1>3. Reserved(request) = {NextCommand(p, request[p], index[p])}
  BY <1>2 DEF Reserved
<1> QED
  BY <1>3, FS_Singleton

LEMMA DeadlineType ==
  ASSUME NEW ticks \in Nat
  PROVE  TxDeadline(ticks) \in Nat
<1>1. ticks * TickTime \in Nat
  BY ScheduleAssumption
<1> QED
  BY <1>1, ScheduleAssumption DEF TxDeadline

LEMMA SingleBurstFits ==
  /\ TxDeadline(SequentialTotalTicks(Copies, 1)) \in Nat
  /\ TxDeadline(SequentialTotalTicks(Copies, 1)) + 1 < ActionWait
  /\ ActionWait \in Nat
<1>1. SequentialTotalTicks(Copies, 1) \in Nat
  BY ScheduleType, RadioAssumption
<1> QED
  BY <1>1, DeadlineType, ActionAssumption

\* The radio is not to be had while somebody waits for a command.
LEMMA WaitingBlocks ==
  ASSUME NEW c \in Callers, OnAir(c) \/ Over(c)
  PROVE  ~CanTransmit /\ ~CanTransmitDirect
BY DEF OnAir, Over, CanTransmit, CanTransmitDirect, TxActive

\* Nothing the clients may ask for now disturbs it: only its own next copy does.
LEMMA WaitingUndisturbed ==
  ASSUME NEW c \in Callers, OnAir(c) \/ Over(c), CallAnsweredAtOnce \/ OwnerStep, ~SendCopy
  PROVE  UNCHANGED <<tx, cooldown, airing, commandSuccess, ended>>
<1>1. ~CanTransmit /\ ~CanTransmitDirect /\ tx.kind # "repeat"
  BY WaitingBlocks DEF OnAir, Over
<1>2. CASE RejectCommand
  BY <1>1, <1>2 DEF RejectCommand, PreemptRepeat, commandVars
<1>3. ASSUME NEW request \in Requests,
             \/ TransmitTargets(request)
             \/ RepeatTargets(request)
             \/ \E failing \in DOMAIN request : ReservationFails(request, {}, failing)
      PROVE  FALSE
  BY <1>1, <1>3 DEF TransmitTargets, RepeatTargets, ReservationFails
<1>4. CASE RefuseConfiguration
  BY <1>4 DEF RefuseConfiguration, commandVars
<1>5. ASSUME NEW p \in Panels, ConfigurePanel(p)
      PROVE  UNCHANGED <<tx, cooldown, airing, commandSuccess, ended>>
  BY <1>5 DEF ConfigurePanel, commandVars
<1>6. CASE RepeatIfDue
  BY <1>1, <1>6 DEF RepeatIfDue, RefuseRepeat
<1>7. ASSUME NEW enabled \in BOOLEAN, SetAutomaticRepeats(enabled)
      PROVE  UNCHANGED <<tx, cooldown, airing, commandSuccess, ended>>
  BY <1>7 DEF SetAutomaticRepeats, commandVars
<1> QED
  BY <1>2, <1>3, <1>4, <1>5, <1>6, <1>7 DEF CallAnsweredAtOnce, OwnerStep

\* The burst it waits for goes on, or ends with a result of its own and a pause.
LEMMA SendCopyKeepsWaiting ==
  ASSUME TypeInv, NEW c \in Callers, OnAir(c) \/ Over(c), SendCopy, call'[c] = call[c]
  PROVE  OnAir(c)' \/ Over(c)'
<1>1. tx.kind = "direct" /\ OnAir(c)
  BY DEF SendCopy, OnAir, Over, TxActive
<1>2. CASE tx' = [tx EXCEPT !.remaining = @ - 1] /\ UNCHANGED <<commandSuccess, airing>>
  <2>1. tx'.kind = tx.kind /\ tx'.ticks = tx.ticks /\ tx'.age = tx.age
    BY <1>2 DEF TypeInv, TypeOK, BurstState
  <2> QED
    BY <1>1, <1>2, <2>1 DEF OnAir
<1>3. ASSUME NEW status \in Statuses, FinishBurst(status)
      PROVE  Over(c)'
  <2>1. tx'.kind = "none" /\ cooldown' > 0
    BY <1>3, ActionAssumption DEF FinishBurst, EndBurst, NoBurst
  <2>2. ended'.sequence = airing /\ ended'.status = status /\ commandSuccess' = (status = Success)
    BY <1>1, <1>3 DEF FinishBurst, OriginalActive
  <2> QED
    BY <1>1, <2>1, <2>2 DEF Over, OnAir
<1> QED
  BY <1>2, <1>3 DEF SendCopy, Statuses

\* Time passes for a burst and for who waits for it alike.
LEMMA PassKeepsWaiting ==
  ASSUME TypeInv, CallInv, NEW c \in Callers, Waits(c), OnAir(c) \/ Over(c), Pass
  PROVE  OnAir(c)'
<1>1. ~WaitOver(c) /\ call[c].answer = "pending"
  BY DEF Pass, Waits
<1>2. OnAir(c) /\ TxActive
  BY <1>1 DEF WaitOver, CommandActive, OnAir, Over, TxActive
<1>3. tx.age <= TxDeadline(tx.ticks) /\ tx' = [tx EXCEPT !.age = @ + 1]
  BY <1>2 DEF Pass, Tick
<1>4. tx'.kind = tx.kind /\ tx'.ticks = tx.ticks /\ tx'.age = tx.age + 1
  BY <1>3 DEF TypeInv, TypeOK, BurstState
<1>5. call'[c] = [call[c] EXCEPT !.age = @ + 1] /\ call[c] \in Calls
  BY <1>1 DEF Pass, CallInv, ActionTypeOK
<1>6. /\ call'[c].action = call[c].action /\ call'[c].sequence = call[c].sequence
      /\ call'[c].age = call[c].age + 1
  BY <1>5 DEF Calls
<1>7. tx.age \in Nat /\ tx.ticks \in Nat /\ TxDeadline(tx.ticks) \in Nat
  BY DeadlineType DEF TypeInv, TypeOK, BurstState
<1>8. airing' = airing /\ commandSuccess' = commandSuccess
  BY DEF Pass, Tick, commandVars
<1> QED
  BY <1>2, <1>3, <1>4, <1>6, <1>7, <1>8 DEF OnAir

-----------------------------------------------------------------------------
LEMMA CallInit == ActionInit => CallInv
<1> SUFFICES ASSUME ActionInit PROVE CallInv
  OBVIOUS
<1>1. MaxCommands \in Nat /\ ActionWait \in Nat
  BY RadioAssumption, ActionAssumption
<1>2. NoCall \in Calls /\ NoCall.answer = "none"
  BY <1>1 DEF NoCall, Calls, CallActions, Answers
<1>3. ActionTypeOK
  BY <1>2 DEF ActionInit, ActionTypeOK
<1>4. ASSUME NEW c \in Callers PROVE ~Waits(c)
  BY <1>2 DEF ActionInit, Waits
<1> QED
  BY <1>1, <1>3, <1>4 DEF CallInv, ActionInit, Init

\* A call that has just been accepted.
LEMMA CalledType ==
  ASSUME CallInv, NEW c \in Callers, NEW action \in CallActions, Called(c, action),
         commandSequence' \in 0 .. MaxCommands
  PROVE  /\ ActionTypeOK'
         /\ call'[c] = [action |-> action, sequence |-> commandSequence', age |-> 0,
                        answer |-> "pending"]
         /\ \A other \in Callers : other # c => call'[other] = call[other]
<1> DEFINE new == [action |-> action, sequence |-> commandSequence', age |-> 0,
                   answer |-> "pending"]
<1>1. new \in Calls
  BY ActionAssumption DEF Calls, Answers
<1>2. call \in [Callers -> Calls] /\ call' = [call EXCEPT ![c] = new]
  BY DEF CallInv, ActionTypeOK, Called
<1> HIDE DEF new
<1>3. /\ call' \in [Callers -> Calls] /\ call'[c] = new
      /\ \A other \in Callers : other # c => call'[other] = call[other]
  BY <1>1, <1>2
<1> QED
  BY <1>3 DEF ActionTypeOK, new

LEMMA CommandKeepsCallInv ==
  ASSUME TypeInv, CallInv, NEW c \in Callers, NEW request \in Requests,
         CallCommand(c, request)
  PROVE  CallInv'
<1>1. TransmitTargets(request) /\ Called(c, ActionOf(request))
  BY DEF CallCommand
<1>2. commandSequence' \in 0 .. MaxCommands
  BY <1>1, RadioAssumption DEF TransmitTargets, CallInv
<1>3. ActionOf(request) \in CallActions
  BY DEF ActionOf, CallActions
<1>4. /\ ActionTypeOK'
      /\ call'[c] = [action |-> ActionOf(request), sequence |-> commandSequence', age |-> 0,
                     answer |-> "pending"]
      /\ \A other \in Callers : other # c => call'[other] = call[other]
  BY <1>1, <1>2, <1>3, CalledType
<1>5. ASSUME NEW other \in Callers, other # c
      PROVE  ~Waits(other)'
  <2>1. ~(OnAir(other) \/ Over(other))
    BY <1>1, WaitingBlocks DEF TransmitTargets
  <2>2. ~Waits(other)
    BY <2>1 DEF CallInv
  <2> QED
    BY <1>4, <1>5, <2>2 DEF Waits
<1>6. OnAir(c)'
  <2> DEFINE frames == Reserved(request)
  <2>1. /\ tx' = Burst("direct", frames, Copies)
        /\ airing' = commandSequence' /\ commandSuccess' = FALSE
    BY <1>1 DEF TransmitTargets, StartOwnBurst
  <2>2. /\ tx'.kind = "direct" /\ tx'.age = 0
        /\ tx'.ticks = SequentialTotalTicks(Copies, Cardinality(frames))
    BY <2>1 DEF Burst
  <2>3. CASE call'[c].action = "command"
    <3>1. Cardinality(frames) = 1
      BY <1>4, <2>3, SingleTarget DEF ActionOf
    <3>2. 0 <= TxDeadline(SequentialTotalTicks(Copies, 1)) + 1
      BY SingleBurstFits
    <3> QED
      BY <1>4, <2>1, <2>2, <3>1, <3>2 DEF OnAir
  <2>4. CASE call'[c].action # "command"
    BY <1>4, <2>1, <2>2, <2>4 DEF OnAir
  <2> QED
    BY <2>3, <2>4
<1> QED
  BY <1>2, <1>4, <1>5, <1>6 DEF CallInv

LEMMA RepeatKeepsCallInv ==
  ASSUME CallInv, NEW c \in Callers, NEW request \in Requests, CallRepeat(c, request)
  PROVE  CallInv'
<1>1. RepeatTargets(request) /\ Called(c, "repeat")
  BY DEF CallRepeat
<1>2. commandSequence' \in 0 .. MaxCommands
  BY <1>1 DEF RepeatTargets, CallInv
<1>3. /\ ActionTypeOK'
      /\ call'[c] = [action |-> "repeat", sequence |-> commandSequence', age |-> 0,
                     answer |-> "pending"]
      /\ \A other \in Callers : other # c => call'[other] = call[other]
  BY <1>1, <1>2, CalledType DEF CallActions
<1>4. ASSUME NEW other \in Callers
      PROVE  ~Waits(other)'
  <2>1. ~(OnAir(other) \/ Over(other))
    BY <1>1, WaitingBlocks DEF RepeatTargets
  <2>2. ~Waits(other)
    BY <2>1 DEF CallInv
  <2> QED
    BY <1>3, <2>2 DEF Waits
<1> QED
  BY <1>2, <1>3, <1>4 DEF CallInv

\* A call that gets its answer, or is over, leaves the others as they are.
LEMMA AnswerKeepsCallInv ==
  ASSUME CallInv, NEW c \in Callers, Respond(c) \/ Answered(c)
  PROVE  CallInv'
<1>1. UNCHANGED vars
  BY DEF Respond, Answered
<1>2. /\ call'[c].answer # "pending" /\ ActionTypeOK'
      /\ \A other \in Callers : other # c => call'[other] = call[other]
  <2>1. call \in [Callers -> Calls]
    BY DEF CallInv, ActionTypeOK
  <2>2. CASE Respond(c)
    <3>1. PICK answer \in {"success", "failure"} : call' = [call EXCEPT ![c].answer = answer]
      BY <2>2 DEF Respond
    <3>2. [call[c] EXCEPT !.answer = answer] \in Calls
      BY <2>1 DEF Calls, Answers
    <3>3. call' = [call EXCEPT ![c] = [call[c] EXCEPT !.answer = answer]]
      BY <2>1, <3>1
    <3>4. [call[c] EXCEPT !.answer = answer].answer = answer
      BY <2>1 DEF Calls
    <3> QED
      BY <2>1, <3>2, <3>3, <3>4 DEF ActionTypeOK
  <2>3. CASE Answered(c)
    <3>1. NoCall \in Calls /\ NoCall.answer = "none"
      BY RadioAssumption, ActionAssumption DEF NoCall, Calls, CallActions, Answers
    <3> QED
      BY <2>1, <2>3, <3>1 DEF Answered, ActionTypeOK
  <2> QED
    BY <2>2, <2>3
<1>3. ASSUME NEW other \in Callers, Waits(other)'
      PROVE  OnAir(other)' \/ Over(other)'
  <2>1. other # c /\ call'[other] = call[other]
    BY <1>2, <1>3 DEF Waits
  <2>2. OnAir(other) \/ Over(other)
    BY <1>3, <2>1 DEF CallInv, Waits
  <2> QED
    BY <1>1, <2>1, <2>2 DEF OnAir, Over, vars, commandVars
<1> QED
  BY <1>1, <1>2, <1>3 DEF CallInv, vars, commandVars

LEMMA OwnerKeepsCallInv ==
  ASSUME TypeInv, CallInv, CallAnsweredAtOnce \/ OwnerStep
  PROVE  CallInv'
<1>1. UNCHANGED call
  BY AnsweredAtOnceStep DEF OwnerStep
<1>2. commandSequence' \in 0 .. MaxCommands
  <2>1. CASE CallAnsweredAtOnce
    BY <2>1, RadioAssumption
    DEF CallAnsweredAtOnce, RejectCommand, TransmitTargets, RepeatTargets, ReservationFails,
        RefuseConfiguration, ConfigurePanel, commandVars, CallInv
  <2>2. CASE OwnerStep
    BY <2>2 DEF OwnerStep, RepeatIfDue, SendCopy, SetAutomaticRepeats, commandVars, CallInv
  <2> QED
    BY <2>1, <2>2
<1>3. ASSUME NEW c \in Callers, Waits(c)'
      PROVE  OnAir(c)' \/ Over(c)'
  <2>1. OnAir(c) \/ Over(c)
    BY <1>1, <1>3 DEF CallInv, Waits
  <2>2. CASE SendCopy
    BY <1>1, <2>1, <2>2, SendCopyKeepsWaiting
  <2>3. CASE ~SendCopy
    BY <1>1, <2>1, <2>3, WaitingUndisturbed DEF OnAir, Over
  <2> QED
    BY <2>2, <2>3
<1> QED
  BY <1>1, <1>2, <1>3 DEF CallInv, ActionTypeOK

LEMMA PassKeepsCallInv ==
  ASSUME TypeInv, CallInv, Pass
  PROVE  CallInv'
<1>1. ASSUME NEW c \in Callers, call[c].answer = "pending"
      PROVE  [call[c] EXCEPT !.age = @ + 1] \in Calls
  <2>1. ~WaitOver(c)
    BY DEF Pass
  <2>2. call[c] \in Calls /\ call[c].age # ActionWait
    BY <1>1, <2>1 DEF WaitOver, CallInv, ActionTypeOK
  <2>3. call[c].age + 1 \in 0 .. ActionWait
    BY <2>2, ActionAssumption DEF Calls
  <2> QED
    BY <2>2, <2>3 DEF Calls
<1>2. ActionTypeOK'
  BY <1>1 DEF Pass, CallInv, ActionTypeOK
<1>3. ASSUME NEW c \in Callers, Waits(c)'
      PROVE  OnAir(c)' \/ Over(c)'
  <2>1. Waits(c)
    <3>1. call[c] \in Calls
      BY DEF CallInv, ActionTypeOK
    <3>2. CASE call[c].answer = "pending"
      <4>1. call'[c] = [call[c] EXCEPT !.age = @ + 1]
        BY <3>2 DEF Pass
      <4> QED
        BY <1>3, <3>1, <4>1 DEF Waits, Calls
    <3>3. CASE call[c].answer # "pending"
      BY <1>3, <3>3 DEF Pass, Waits
    <3> QED
      BY <3>2, <3>3
  <2> QED
    BY <2>1, PassKeepsWaiting DEF CallInv
<1> QED
  BY <1>2, <1>3 DEF CallInv, Pass, Tick, commandVars

LEMMA CallNext == TypeInv /\ CallInv /\ [ActionNext]_actionVars => CallInv'
<1> SUFFICES ASSUME TypeInv, CallInv, [ActionNext]_actionVars PROVE CallInv'
  OBVIOUS
<1>1. CASE UNCHANGED actionVars
  BY <1>1 DEF actionVars, vars, commandVars, CallInv, ActionTypeOK, Waits, OnAir, Over
<1> QED
  BY <1>1, CommandKeepsCallInv, RepeatKeepsCallInv, AnswerKeepsCallInv, OwnerKeepsCallInv,
     PassKeepsCallInv DEF ActionNext

LEMMA CallsAlways == ActionSpec => [](TypeInv /\ CallInv)
BY OwnerTypes, CallInit, CallNext, PTL DEF ActionSpec

-----------------------------------------------------------------------------
(* The answers.                                                            *)

\* Every call has its type: no client waits longer than its action does.
THEOREM CallsAreWellTyped == ActionSpec => []ActionTypeOK
<1>1. CallInv => ActionTypeOK
  BY DEF CallInv
<1> QED
  BY <1>1, CallsAlways, PTL

\* Only the end of its wait answers a call.
LEMMA OnlyRespondAnswers ==
  ASSUME CallInv, [ActionNext]_actionVars, NEW c \in Callers, call[c].answer = "pending",
         call'[c].answer \in {"success", "failure"}
  PROVE  Respond(c)
<1>1. call \in [Callers -> Calls] /\ call'[c].answer # call[c].answer
  BY DEF CallInv, ActionTypeOK
<1>2. ASSUME NEW other \in Callers, NEW request \in Requests,
             CallCommand(other, request) \/ CallRepeat(other, request)
      PROVE  FALSE
  <2>1. PICK action \in CallActions : Called(other, action)
    BY <1>2 DEF CallCommand, CallRepeat, ActionOf, CallActions
  <2>2. call' = [call EXCEPT ![other] = [action |-> action, sequence |-> commandSequence',
                                         age |-> 0, answer |-> "pending"]]
    BY <2>1 DEF Called
  <2> QED
    BY <1>1, <2>2
<1>3. ASSUME NEW other \in Callers, Respond(other), other # c
      PROVE  FALSE
  BY <1>1, <1>3 DEF Respond
<1>4. ASSUME NEW other \in Callers, Answered(other)
      PROVE  FALSE
  <2>1. call'[other].answer = "none" \/ other # c
    BY <1>1, <1>4 DEF Answered, NoCall
  <2> QED
    BY <1>1, <1>4, <2>1 DEF Answered
<1>5. ASSUME CallAnsweredAtOnce \/ OwnerStep \/ UNCHANGED actionVars
      PROVE  FALSE
  BY <1>1, <1>5, AnsweredAtOnceStep DEF OwnerStep, actionVars
<1>6. ASSUME Pass
      PROVE  FALSE
  <2>1. call'[c] = [call[c] EXCEPT !.age = @ + 1] /\ call[c] \in Calls
    BY <1>1, <1>6 DEF Pass
  <2> QED
    BY <1>1, <2>1 DEF Calls
<1> QED
  BY <1>2, <1>3, <1>4, <1>5, <1>6 DEF ActionNext

LEMMA AnswerIsTrue ==
  ASSUME TypeInv, CallInv, NEW c \in Callers, Respond(c), Waits(c)
  PROVE  /\ call'[c].answer = "success" => Succeeded(call[c].sequence)
         /\ call[c].action = "command" /\ call'[c].answer = "failure"
              => ended.sequence = call[c].sequence /\ ended.status # Success
<1>1. call'[c].answer = IF commandSuccess THEN "success" ELSE "failure"
  BY DEF Respond, CallInv, ActionTypeOK, Calls
<1>2. CASE OnAir(c)
  <2>1. ~commandSuccess /\ CommandActive
    BY <1>2 DEF OnAir, CommandActive
  <2>2. call[c].age = ActionWait
    BY <2>1 DEF Respond, WaitOver
  <2>3. call[c].action # "command"
    BY <1>2, <2>2, SingleBurstFits DEF OnAir
  <2> QED
    BY <1>1, <2>1, <2>3
<1>3. CASE Over(c)
  <2>1. ended = [sequence |-> ended.sequence, status |-> ended.status]
    BY DEF TypeInv, TypeOK
  <2> QED
    BY <1>1, <1>3, <2>1 DEF Over, Succeeded
<1> QED
  BY <1>2, <1>3 DEF CallInv

\* Nobody is told that a command was sent unless its own burst went through, and a single
\* target's failure is final, with any number of clients, panels and copies: as long as a
\* single burst and its guard fit in the wait and a burst is followed by a pause.
THEOREM AnswersAreAlwaysTrue == ActionSpec => AnswersAreTrue
<1> DEFINE A ==
      \A c \in Callers :
        call[c].answer = "pending" /\ call'[c].answer \in {"success", "failure"} =>
          /\ call[c].action \in {"command", "targets"} /\ call'[c].answer = "success"
               => Succeeded(call[c].sequence)
          /\ call[c].action = "command" /\ call'[c].answer = "failure"
               => ended.sequence = call[c].sequence /\ ended.status # Success
<1>1. TypeInv /\ CallInv /\ [ActionNext]_actionVars => [A]_actionVars
  BY OnlyRespondAnswers, AnswerIsTrue DEF Waits
<1> QED
  BY <1>1, CallsAlways, PTL DEF ActionSpec, AnswersAreTrue

=============================================================================
