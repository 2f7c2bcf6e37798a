------------------------- MODULE MCLearningSession -------------------------
(***************************************************************************)
(* Small instances of LearningSession: two controllers, two actions, a few *)
(* codes on the air.                                                       *)
(***************************************************************************)
EXTENDS LearningSession

CONSTANTS p1, p2, open, close, t1

Heard(family, action, index) == [family |-> family, action |-> action, index |-> index]

\* Two remotes in each other's range, with a burst of more codes than a capture
\* remembers.
TwoRemotes ==
  {Heard(p1, open, i) : i \in 0 .. 2} \cup {Heard(p1, close, 1), Heard(p1, close, 2)} \cup
  {Heard(p2, open, 2), Heard(p2, open, 3)}

=============================================================================
