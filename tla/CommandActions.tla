--------------------------- MODULE CommandActions ---------------------------
(***************************************************************************)
(* The Home Assistant actions that move a shutter (norman-rf-bridge.yaml)  *)
(* on top of the radio owner, and bridge-control.py, which calls them.  An *)
(* action starts its burst, waits until no command is active or its time   *)
(* is up, and answers with command_success(): what that says by then may   *)
(* be about another burst.                                                 *)
(*                                                                         *)
(* ESPHome looks at a waiting action on every pass of the main loop, and   *)
(* runs the burst's interval before a later timeout: time passes only when *)
(* neither is overdue.                                                     *)
(*                                                                         *)
(* What the remotes and the relay do in between is left to RadioOwner, and *)
(* so is a restart, which ends every call: a relayed frame is no command   *)
(* and command_active() does not count it.                                 *)
(***************************************************************************)
EXTENDS RadioOwner

CONSTANTS Callers,     \* native API clients
          ActionWait   \* wait_until gives up (8 s)

\* One burst, guard included, is over before its action stops waiting: 7.5 s of 8 s
\* for 100 copies.  And a burst is followed by a pause.
ASSUME ActionAssumption ==
  /\ ActionWait \in Nat /\ CooldownTime > 0
  /\ TxDeadline(SequentialTotalTicks(Copies, 1)) + 1 < ActionWait

VARIABLE call   \* what each client asked for and what it was answered

CallActions == {"none", "command", "targets", "repeat"}
Answers     == {"none", "pending", "success", "failure"}

Calls == [action : CallActions, sequence : 0 .. MaxCommands, age : 0 .. ActionWait,
          answer : Answers]

NoCall == [action |-> "none", sequence |-> 0, age |-> 0, answer |-> "none"]

actionVars == <<vars, call>>

ActionTypeOK == call \in [Callers -> Calls]

ActionInit == Init /\ call = [c \in Callers |-> NoCall]

-----------------------------------------------------------------------------
Free(c) == call[c] = NoCall

\* The burst has started, and its caller waits.
Called(c, action) ==
  call' = [call EXCEPT ![c] = [action |-> action, sequence |-> commandSequence', age |-> 0,
                               answer |-> "pending"]]

\* rf_target_command and rf_panel_command move one target, rf_targets_command several.
ActionOf(request) == IF Cardinality(DOMAIN request) = 1 THEN "command" ELSE "targets"

CallCommand(c, request) ==
  /\ Free(c)
  /\ TransmitTargets(request)
  /\ Called(c, ActionOf(request))

CallRepeat(c, request) ==
  /\ Free(c)
  /\ RepeatTargets(request) /\ tx'.kind = "repeat"
  /\ Called(c, "repeat")

\* Every call that is answered at once, whoever makes it: one that is refused,
\* rf_room_command, whose caller watches completed_sequence instead, and the
\* configuration of targets.
CallAnsweredAtOnce ==
  /\ \/ RejectCommand
     \/ \E request \in Requests :
          \/ TransmitTargets(request)
          \/ RepeatTargets(request) /\ tx'.kind # "repeat"
          \/ \E failing \in DOMAIN request : ReservationFails(request, {}, failing)
     \/ RefuseConfiguration
     \/ \E p \in Panels : ConfigurePanel(p)
  /\ UNCHANGED call

CommandActive == tx.kind \in {"direct", "repeat"}

WaitOver(c) ==
  call[c].answer = "pending" /\ (~CommandActive \/ call[c].age = ActionWait)

\* A slip: the answer says that the wait ended without running out.
RespondWhenSent(c) ==
  /\ WaitOver(c)
  /\ call' = [call EXCEPT ![c].answer = IF CommandActive THEN "failure" ELSE "success"]
  /\ UNCHANGED vars

Respond(c) ==
  /\ WaitOver(c)
  /\ call' = [call EXCEPT ![c].answer = IF commandSuccess THEN "success" ELSE "failure"]
  /\ UNCHANGED vars

\* The client has its answer, prints it and disconnects; or the answer is lost, the
\* client has given up after 12 s, and disconnects as well.
Answered(c) ==
  /\ call[c].answer \in {"success", "failure"}
  /\ call' = [call EXCEPT ![c] = NoCall]
  /\ UNCHANGED vars

Pass ==
  /\ TxActive => tx.age <= TxDeadline(tx.ticks)
  /\ \A c \in Callers : ~WaitOver(c)
  /\ Tick
  /\ call' = [c \in Callers |-> IF call[c].answer = "pending"
                                  THEN [call[c] EXCEPT !.age = @ + 1] ELSE call[c]]

\* What the radio owner does by itself.
OwnerStep ==
  /\ \/ RepeatIfDue \/ SendCopy
     \/ \E enabled \in BOOLEAN : SetAutomaticRepeats(enabled)
  /\ UNCHANGED call

ActionNext ==
  \/ \E c \in Callers, request \in Requests :
       CallCommand(c, request) \/ CallRepeat(c, request)
  \/ \E c \in Callers : Respond(c) \/ Answered(c)
  \/ CallAnsweredAtOnce \/ OwnerStep \/ Pass

ActionSpec == ActionInit /\ [][ActionNext]_actionVars

-----------------------------------------------------------------------------
\* A command's own burst, by its sequence number, succeeded.
Succeeded(sequence) == ended = [sequence |-> sequence, status |-> Success]

\* Nobody is told that a command was sent unless its own burst went through; and for
\* a single target the answer is final: its burst is over, and a failure means that
\* it failed.  A repeat's answer may be about the newer command that took the radio
\* (norman-rf-bridge.yaml:113-119, 171-177, 213-219, 267-273).
AnswersAreTrue ==
  [][\A c \in Callers :
       call[c].answer = "pending" /\ call'[c].answer \in {"success", "failure"} =>
         /\ call[c].action \in {"command", "targets"} /\ call'[c].answer = "success"
              => Succeeded(call[c].sequence)
         /\ call[c].action = "command" /\ call'[c].answer = "failure"
              => ended.sequence = call[c].sequence /\ ended.status # Success]_actionVars

=============================================================================
