----------------------------- MODULE BleTracker -----------------------------
(***************************************************************************)
(* ESPHome's Bluetooth tracker as this firmware relies on it: the scanner, *)
(* its continuous-scan policy, and a loop that does nothing while no       *)
(* change was recorded since it last ran.  ESPHome is not in the           *)
(* repository; the tracker is the one test-ble-tracker-runtime.py declares *)
(* around the loop it extracts, and the eight scenarios that script runs   *)
(* are stated at the end.  The policy setter is the one                    *)
(* ble_tracker_compat.py puts in place of ESPHome's.                       *)
(***************************************************************************)
EXTENDS Integers

ScannerStates == {"idle", "starting", "running", "stopping", "failed"}
Transitions   == {"connecting", "disconnecting", "discovered"}
Setters       == {"original", "replacement"}

\* state_version_ - last_processed_version_, kept up to MaxChanges: the loop asks
\* only whether it is zero.
MaxChanges == 2

\* clients: the transitions at least one client is in.
Tracker == [active : BOOLEAN, wasDisabled : BOOLEAN, continuous : BOOLEAN,
            scanner : ScannerStates, changes : 0 .. MaxChanges,
            clients : SUBSET Transitions]

NewTracker == [active |-> TRUE, wasDisabled |-> FALSE, continuous |-> FALSE,
               scanner |-> "idle", changes |-> 0, clients |-> {}]

-----------------------------------------------------------------------------
Bump(t) == [t EXCEPT !.changes = IF @ < MaxChanges THEN @ + 1 ELSE @]

ScannerEvent(t, state) == Bump([t EXCEPT !.scanner = state])

ClientsChanged(t, clients) == Bump([t EXCEPT !.clients = clients])

\* What ESPHome has: the policy is written, the loop is not woken.
OriginalSetter(t, policy) == [t EXCEPT !.continuous = policy]

\* A slip: the loop is woken even if the policy stays as it is.
AlwaysWakes(t, policy) == Bump([t EXCEPT !.continuous = policy])

ReplacementSetter(t, policy) ==
  IF t.continuous # policy THEN Bump([t EXCEPT !.continuous = policy]) ELSE t

SetScanContinuous(setter, t, policy) ==
  IF setter = "replacement" THEN ReplacementSetter(t, policy) ELSE OriginalSetter(t, policy)

\* stop_scan() of the tracker.
StopScan(t) ==
  LET stopped == [t EXCEPT !.continuous = FALSE]
  IN  IF t.scanner = "running" THEN ScannerEvent(stopped, "stopping") ELSE stopped

StartScan(t) == IF t.scanner = "idle" THEN ScannerEvent(t, "starting") ELSE t

-----------------------------------------------------------------------------
(* One pass of the tracker's loop.                                         *)

\* Bluetooth enabled again restarts a continuous scan.
Enabled(t) ==
  LET awake == [t EXCEPT !.wasDisabled = FALSE]
  IN  IF t.wasDisabled /\ t.continuous THEN StartScan(awake) ELSE awake

Processed(t) == [t EXCEPT !.changes = 0]

\* A client waiting to connect is promoted before scanning goes on.
Busy(t) == t.clients # {}

Promotes(t) == t.clients = {"discovered"}

Decided(t) ==
  CASE t.scanner = "failed" -> ScannerEvent(t, "stopping")
    [] t.scanner = "idle" /\ t.continuous /\ ~Busy(t) -> StartScan(t)
    [] OTHER -> t

Loop(t) ==
  IF ~t.active THEN [t EXCEPT !.wasDisabled = TRUE]
  ELSE IF Enabled(t).changes = 0 THEN Enabled(t)
  ELSE Decided(Processed(Enabled(t)))

\* What the pass did, as the harness counts it.
Counts(t)   == t.active /\ Enabled(t).changes > 0
Starts(t)   == t.scanner # "starting" /\ Loop(t).scanner = "starting"
Recovers(t) == Counts(t) /\ Enabled(t).scanner = "failed"
Promoted(t) == Counts(t) /\ Promotes(t)

-----------------------------------------------------------------------------
(* The scenarios of the runtime contract, for a given setter.              *)

Restored(setter, t) == SetScanContinuous(setter, t, TRUE)

IdleIsWoken(setter) ==
  LET woken == Restored(setter, Loop(NewTracker))
  IN  ~Counts(NewTracker) /\ woken.changes = 1

IdleRestarts(setter) ==
  LET looped == Loop(Restored(setter, Loop(NewTracker)))
  IN  /\ Starts(Restored(setter, Loop(NewTracker)))
      /\ Restored(setter, looped).changes = looped.changes

BusyWaits(setter) ==
  \A transition \in Transitions :
    LET busy == Restored(setter, [NewTracker EXCEPT !.clients = {transition}])
    IN  /\ ~Starts(busy)
        /\ Promoted(busy) <=> transition = "discovered"
        /\ Starts(ClientsChanged(Loop(busy), {}))

StoppingWaits(setter) ==
  LET stopping == Restored(setter, [NewTracker EXCEPT !.scanner = "stopping"])
  IN  ~Starts(stopping) /\ Starts(ScannerEvent(Loop(stopping), "idle"))

StartingIsLeft(setter) ==
  LET starting == Restored(setter, [NewTracker EXCEPT !.scanner = "starting"])
  IN  Loop(starting) = Processed(starting)

DisabledStaysOff(setter) ==
  LET disabled == Restored(setter, [NewTracker EXCEPT !.active = FALSE])
  IN  /\ ~Loop(disabled).active /\ ~Starts(disabled) /\ ~Counts(disabled)
      /\ Starts([Loop(disabled) EXCEPT !.active = TRUE])

FailureIsNative(setter) ==
  LET failed == Restored(setter, [NewTracker EXCEPT !.scanner = "failed"])
  IN  Recovers(failed) /\ ~Starts(failed) /\ Starts(ScannerEvent(Loop(failed), "idle"))

\* How the harness exits: the first check that fails, or "passed".
Verdict(setter) ==
  IF ~IdleIsWoken(setter) THEN "restoration must wake"
  ELSE IF /\ IdleRestarts(setter) /\ BusyWaits(setter) /\ StoppingWaits(setter)
          /\ StartingIsLeft(setter) /\ DisabledStaysOff(setter) /\ FailureIsNative(setter)
    THEN "passed" ELSE "failed"

=============================================================================
