--------------------------- MODULE NormanProtocol ---------------------------
(***************************************************************************)
(* The Norman application frame as the firmware compares it, and the       *)
(* counter arithmetic of a panel (src/protocol/).                          *)
(*                                                                         *)
(* A frame is thirty bytes.  What the firmware ever asks about it is which *)
(* controller and target it names (every byte but 2..4, 24 and 25: the     *)
(* "family"), which of the learned endpoints it selects (bytes 2..4: the   *)
(* "action") and which rolling index it carries (bytes 24 and 25, one the  *)
(* encoding of the other).  The checksum is a function of the rest, and a  *)
(* frame whose checksum is wrong reaches none of the operations below.     *)
(***************************************************************************)
EXTENDS Naturals

CONSTANTS Families,    \* one per controller/target pair on the air
          Actions,     \* the endpoints of a target: open, close, opposite
          IndexSpace   \* rolling indices are counted modulo this (256)

\* A counter that can tell ahead from behind needs both halves to be inhabited.
ASSUME IndexSpaceAssumption == IndexSpace \in Nat /\ IndexSpace >= 4

Index == 0 .. IndexSpace - 1

Frame == [family : Families, action : Actions, index : Index]

\* What a learned template stands for: the frame without its index.
Command == [family : Families, action : Actions]

CommandOf(frame) == [family |-> frame.family, action |-> frame.action]

SameCommandFamily(left, right) == left.family = right.family

SameLearnedCommand(left, right) ==
  SameCommandFamily(left, right) /\ left.action = right.action

\* A slip: the sum is kept wider than the counter.
NextIndexUnwrapped(last) == last + 1

NextIndex(last) == (last + 1) % IndexSpace

NextCommand(family, action, last) ==
  [family |-> family, action |-> action, index |-> NextIndex(last)]

\* How far `observed' is ahead of `last', as the eight-bit subtraction has it.
Advance(observed, last) == (observed + IndexSpace - last) % IndexSpace

\* The largest advance that is still taken for one: 127 of 256.
HalfRange == IndexSpace \div 2 - 1

IsNewer(observed, last) == Advance(observed, last) \in 1 .. HalfRange

=============================================================================
