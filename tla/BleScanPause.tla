---------------------------- MODULE BleScanPause ----------------------------
(***************************************************************************)
(* The Bluetooth scan pause: while the radio sends, the monitor asks the   *)
(* tracker to stop scanning, and gives the scan back afterwards            *)
(* (ble_scan_pause.h, update_ble_scan_pause_() and its callers).           *)
(*                                                                         *)
(* The guard runs on every pass of the main loop and inside the handlers   *)
(* that start and end a burst.  Between them the tracker's own loop runs,  *)
(* the scanner changes state when the Bluetooth stack says so, clients     *)
(* come and go, and Home Assistant or an update may switch Bluetooth, the  *)
(* scanner mode or the scan itself.                                        *)
(***************************************************************************)
EXTENDS TrackerBuild

VARIABLES
  firmware,      \* the image that was flashed, or NoImage
  up,            \* whether it runs
  pauseEnabled,  \* ble_scan_pause_enabled_
  transmitting,  \* tx_active_
  owned,         \* the guard stopped the scan and must give it back
  tracker,
  stoppedOutside \* history: someone else withdrew the continuous policy last

guardVars == <<pauseEnabled, transmitting, owned>>
pauseVars == <<firmware, up, guardVars, tracker, stoppedOutside>>
vars      == <<buildVars, pauseVars>>

ScanActions == {"none", "stop", "keep_paused", "resume_continuous"}

PauseTypeOK ==
  /\ firmware \in Images
  /\ up \in BOOLEAN /\ pauseEnabled \in BOOLEAN /\ transmitting \in BOOLEAN
  /\ owned \in BOOLEAN /\ stoppedOutside \in BOOLEAN
  /\ tracker \in Tracker

TypeOK == BuildTypeOK /\ PauseTypeOK

\* The tracker that comes up scans continuously.
BootTracker == [NewTracker EXCEPT !.continuous = TRUE, !.changes = 1]

Down ==
  /\ up = FALSE /\ firmware = NoImage
  /\ pauseEnabled = FALSE /\ transmitting = FALSE /\ owned = FALSE
  /\ tracker = BootTracker /\ stoppedOutside = FALSE

Init == BuildInit /\ Down

-----------------------------------------------------------------------------
\* A slip: switching Bluetooth off forgets the pause without giving the policy back.
ForgetsWhenDisabled(enabled, sending) ==
  CASE ~tracker.active -> "none"
    [] tracker.active /\ enabled /\ sending ->
         IF tracker.scanner = "running" THEN "stop"
         ELSE IF owned THEN "keep_paused" ELSE "none"
    [] OTHER -> IF owned THEN "resume_continuous" ELSE "none"

\* BleScanPause::update().
ScanAction(enabled, sending) ==
  CASE ~tracker.active -> IF owned THEN "resume_continuous" ELSE "none"
    [] tracker.active /\ enabled /\ sending ->
         IF tracker.scanner = "running" THEN "stop"
         ELSE IF owned THEN "keep_paused" ELSE "none"
    [] OTHER -> IF owned THEN "resume_continuous" ELSE "none"

OwnedAfter(enabled, sending) ==
  tracker.active /\ enabled /\ sending /\ (owned \/ tracker.scanner = "running")

Setter == IF firmware.header = "patched" THEN "replacement" ELSE "original"

\* What the monitor does with the answer.
Applied(action) ==
  CASE action = "stop" -> StopScan(tracker)
    [] action = "keep_paused" -> SetScanContinuous(Setter, tracker, FALSE)
    [] action = "resume_continuous" -> SetScanContinuous(Setter, tracker, TRUE)
    [] OTHER -> tracker

\* The history follows the policy: whoever restores it ends an outside stop.
Outside(outside) == stoppedOutside' = (~tracker'.continuous /\ outside)

\* update_ble_scan_pause_(); without a tracker it does nothing.
UpdateBleScanPause(enabled, sending) ==
  /\ pauseEnabled' = enabled /\ transmitting' = sending
  /\ IF firmware.pause
       THEN /\ owned' = OwnedAfter(enabled, sending)
            /\ tracker' = Applied(ScanAction(enabled, sending))
       ELSE owned' = owned /\ tracker' = tracker
  /\ Outside(stoppedOutside)

-----------------------------------------------------------------------------
(* The monitor.                                                            *)

Running == up /\ UNCHANGED <<buildVars, firmware, up>>

\* loop().
MonitorLoop == Running /\ UpdateBleScanPause(pauseEnabled, transmitting)

\* start_bursts_() and finish_test_() or preempt_repeat_().
StartBurst == Running /\ ~transmitting /\ UpdateBleScanPause(pauseEnabled, TRUE)

EndBurst == Running /\ transmitting /\ UpdateBleScanPause(pauseEnabled, FALSE)

\* The configuration switch.
SetPauseEnabled(enabled) == Running /\ UpdateBleScanPause(enabled, transmitting)

\* on_shutdown(): the guard lets go before the device restarts.
OnShutdown ==
  /\ up /\ up' = FALSE
  /\ UpdateBleScanPause(FALSE, transmitting)
  /\ UNCHANGED <<buildVars, firmware>>

-----------------------------------------------------------------------------
(* The tracker, the Bluetooth stack and whoever else uses them.            *)

TrackerStep(next, outside) ==
  /\ Running
  /\ tracker' = next /\ Outside(outside)
  /\ UNCHANGED guardVars

TrackerLoop == TrackerStep(Loop(tracker), stoppedOutside)

ScanEvent(from, to) ==
  /\ tracker.active /\ tracker.scanner = from
  /\ TrackerStep(ScannerEvent(tracker, to), stoppedOutside)

ScanStarted == ScanEvent("starting", "running")
ScanStopped == ScanEvent("stopping", "idle")
ScanFailed  == ScanEvent("starting", "failed")
ScanOver    == ScanEvent("running", "idle")

ClientStep ==
  \E clients \in SUBSET Transitions :
    clients # tracker.clients /\ TrackerStep(ClientsChanged(tracker, clients), stoppedOutside)

\* Bluetooth is switched off, which ends any scan, or on again.
BleSwitched ==
  TrackerStep(IF tracker.active
                THEN Bump([tracker EXCEPT !.active = FALSE, !.scanner = "idle"])
                ELSE [tracker EXCEPT !.active = TRUE],
              stoppedOutside)

\* Home Assistant changes the scanner mode: stop, and scan continuously again.
ScannerMode ==
  /\ tracker.active
  /\ TrackerStep(SetScanContinuous(Setter, StopScan(tracker), TRUE), FALSE)

\* An update or an automation stops the scan for good.
ExternalStop == tracker.active /\ TrackerStep(StopScan(tracker), ~owned)

-----------------------------------------------------------------------------
\* The build machine is clean again.
Cleaned ==
  /\ installed' = [version |-> "pinned", header |-> "original", loop |-> "pinned"]
  /\ copy' = [version |-> "pinned", header |-> "original"]
  /\ options' = ToCode(FALSE)
  /\ stage' = "ready" /\ image' = NoImage /\ contract' = "none"

\* The image is flashed and boots; how it was built no longer matters.
Flash ==
  /\ firmware = NoImage /\ image # NoImage
  /\ firmware' = image /\ up' = TRUE
  /\ Cleaned
  /\ UNCHANGED <<guardVars, tracker, stoppedOutside>>

\* The device restarts: what is volatile is gone; the switch comes back as it was saved.
Reboot ==
  /\ firmware # NoImage /\ up' = TRUE
  /\ pauseEnabled' \in BOOLEAN /\ transmitting' = FALSE /\ owned' = FALSE
  /\ tracker' = BootTracker /\ stoppedOutside' = FALSE
  /\ UNCHANGED <<buildVars, firmware>>

Next ==
  \/ firmware = NoImage /\ BuildNext /\ UNCHANGED pauseVars
  \/ Flash \/ Reboot
  \/ MonitorLoop \/ StartBurst \/ EndBurst \/ OnShutdown
  \/ \E enabled \in BOOLEAN : SetPauseEnabled(enabled)
  \/ TrackerLoop \/ ScanStarted \/ ScanStopped \/ ScanFailed \/ ScanOver
  \/ ClientStep \/ BleSwitched \/ ScannerMode \/ ExternalStop

Spec == Init /\ [][Next]_vars

\* Both loops keep running and the stack answers; a start that may fail succeeds if
\* it is tried for ever.
FairSpec ==
  /\ Spec
  /\ WF_vars(MonitorLoop) /\ WF_vars(TrackerLoop)
  /\ WF_vars(ScanStopped) /\ SF_vars(ScanStarted)

-----------------------------------------------------------------------------
\* Whenever the continuous policy is withdrawn, somebody is going to restore it: the
\* guard still owns the scan, or it was someone else who stopped it.  However a
\* burst, the switch, Bluetooth itself and the scanner's callbacks interleave, a
\* pause is never forgotten (ble_scan_pause.h:13-37).
PauseIsReleased == up /\ ~tracker.continuous => owned \/ stoppedOutside

\* Nothing in the way of scanning.
Quiet == up /\ firmware.pause /\ ~transmitting
         /\ tracker.active /\ tracker.clients = {} /\ ~stoppedOutside

\* A bridge that has stopped sending scans again, although the policy may have been
\* restored while the scanner was stopping, idle and already looked at, failed or
\* switched off (norman_rf_monitor.cpp:67-71, ble_tracker_compat.py:9).
ScannerNotStranded == <>[]Quiet => []<>(tracker.scanner = "running")

=============================================================================
