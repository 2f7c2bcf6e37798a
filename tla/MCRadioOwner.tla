---------------------------- MODULE MCRadioOwner ----------------------------
(***************************************************************************)
(* Small instances of RadioOwner: one or two panels, one foreign           *)
(* controller with a learned relay endpoint, a few frames on the air.      *)
(***************************************************************************)
EXTENDS RadioOwner

CONSTANTS p1, p2, foreign, open, close, tilt

ForeignEndpoint == {[family |-> foreign, action |-> close]}

\* The remote of p1 at any index, its unlearned tilt, and the foreign endpoint.
OnePanelOnAir ==
  {[family |-> p1, action |-> open, index |-> i] : i \in Index} \cup
  {[family |-> p1, action |-> tilt, index |-> 1],
   [family |-> foreign, action |-> close, index |-> 0]}

OneRemoteOnAir == {[family |-> p1, action |-> open, index |-> 1]}

LittleOnAir ==
  {[family |-> p1, action |-> open, index |-> 2],
   [family |-> foreign, action |-> close, index |-> 0]}

=============================================================================
