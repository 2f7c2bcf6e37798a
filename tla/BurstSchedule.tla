---------------------------- MODULE BurstSchedule ----------------------------
(***************************************************************************)
(* The sequential room schedule (target_batch.h) and the guard that bounds *)
(* a burst (start_bursts_ in norman_rf_monitor.cpp): each target gets all  *)
(* its copies, one per tick, then an idle gap before the next target.      *)
(***************************************************************************)
EXTENDS Naturals

CONSTANTS TargetGapTicks,  \* idle ticks between two targets      (36)
          TickTime,        \* time between two ticks              (55 ms)
          BurstGuard,      \* the shortest guard of a burst       (6500 ms)
          GuardSlack       \* guard time beyond the schedule      (2000 ms)

ASSUME ScheduleAssumption ==
  /\ TargetGapTicks \in Nat
  /\ TickTime \in Nat
  /\ BurstGuard \in Nat
  /\ GuardSlack \in Nat

SequentialTotalTicks(copies, count) ==
  copies * count + TargetGapTicks * (count - 1)

\* The target whose turn it is at `tick', counted from 0 ...
SequentialTarget(tick, copies) == tick \div (copies + TargetGapTicks)

\* ... and whether a copy of its frame is sent, or the tick is part of a gap.
IsCopyTick(tick, copies) == tick % (copies + TargetGapTicks) < copies

TxDeadline(totalTicks) ==
  IF totalTicks * TickTime + GuardSlack > BurstGuard
    THEN totalTicks * TickTime + GuardSlack
    ELSE BurstGuard

=============================================================================
