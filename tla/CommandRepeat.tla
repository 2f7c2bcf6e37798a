---------------------------- MODULE CommandRepeat ----------------------------
(***************************************************************************)
(* The volatile budget of repeats of the last local command                *)
(* (command_repeat.h), as operators on the budget's state.                 *)
(*                                                                         *)
(* The code keeps two millisecond stamps and compares the time since each  *)
(* with a limit; the state here keeps the two ages, which stop at the      *)
(* limit they are compared with.  A budget with nothing remaining answers  *)
(* every call the same way whatever else it holds, so it is NoBudget.      *)
(***************************************************************************)
EXTENDS NormanProtocol

CONSTANTS RepeatBudget,   \* repeats of one command                  (2)
          RepeatWindow,   \* life of the budget, from the first burst (60 s)
          RepeatDelay     \* gap between two bursts of a command      (2 s)

ASSUME RepeatAssumption ==
  /\ RepeatBudget \in Nat \ {0}
  /\ RepeatWindow \in Nat
  /\ RepeatDelay \in Nat

\* frames_ (which carry indices_ and, in family and action, slots_,
\* positions_ and identities_), remaining_, completed_ and the two ages.
Budget == [frames : SUBSET Frame, remaining : 0 .. RepeatBudget,
           completed : BOOLEAN, age : 0 .. RepeatWindow, idle : 0 .. RepeatDelay]

NoBudget == [frames |-> {}, remaining |-> 0, completed |-> FALSE, age |-> 0, idle |-> 0]

Remember(frames) ==
  [frames |-> frames, remaining |-> RepeatBudget, completed |-> FALSE, age |-> 0, idle |-> 0]

\* The original burst, or a repeat of it, ended.
Completed(budget, success) ==
  IF budget.remaining = 0 \/ ~success
    THEN NoBudget
    ELSE [budget EXCEPT !.completed = TRUE, !.idle = 0]

\* A slip: the window is counted from the last burst, not from the first.
ExpiredSinceLast(budget) == budget.completed /\ budget.idle >= RepeatWindow

Expired(budget) == budget.age >= RepeatWindow

\* A received frame that names one of the targets and is not the one remembered.
Conflicts(frames, frame) ==
  \E mine \in frames : SameCommandFamily(mine, frame) /\ mine # frame

Observe(budget, frame) ==
  IF budget.remaining > 0 /\ Conflicts(budget.frames, frame) THEN NoBudget ELSE budget

\* A slip: a repeat that is granted is not counted.
TakeUncounted(budget) == [budget EXCEPT !.completed = FALSE, !.idle = 0]

\* take(): the budget after one repeat has been granted.
Take(budget) ==
  IF budget.remaining = 1
    THEN NoBudget
    ELSE [budget EXCEPT !.remaining = @ - 1, !.completed = FALSE, !.idle = 0]

\* take_due(): everything it asks before it calls take().
Due(budget) ==
  budget.remaining > 0 /\ budget.completed /\ budget.idle >= RepeatDelay

\* One unit of time passes.
Aged(budget) ==
  IF budget.remaining = 0
    THEN budget
    ELSE [budget EXCEPT
            !.age  = IF @ < RepeatWindow THEN @ + 1 ELSE @,
            !.idle = IF budget.completed /\ @ < RepeatDelay THEN @ + 1 ELSE @]

=============================================================================
