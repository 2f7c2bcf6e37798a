-------------------------- MODULE BleScanPauseProofs --------------------------
(***************************************************************************)
(* The scan pause is never forgotten and is only built from the pinned     *)
(* ESPHome, whatever the order of builds, bursts, switches and scanner     *)
(* callbacks.                                                              *)
(*                                                                         *)
(* The argument for the pause: nothing but the setter and stop_scan()      *)
(* touches the continuous policy, the guard owns the scan whenever it      *)
(* withdraws the policy, and it lets go only by restoring it.  For the     *)
(* image: a build is compiled with the pause only after the pre-script,    *)
(* and the pre-script ends with the pinned version and a whole patch.  The *)
(* contract's eight scenarios are gone through one by one.                 *)
(***************************************************************************)
EXTENDS BleScanPause, TLAPS

\* A build that has passed the pre-script has what the pre-script checks.
StageMeansChecked ==
  /\ options.pause => options.script
  /\ stage \in {"writing", "checked"} => copy.version = "pinned"
  /\ stage = "checked" => copy.header = "patched"

BuildInv == BuildTypeOK /\ StageMeansChecked /\ ImageIsPinned

\* Nothing runs before something is flashed.
NothingFlashed == firmware = NoImage => ~up /\ tracker = BootTracker

PauseInv == PauseTypeOK /\ NothingFlashed /\ PauseIsReleased

-----------------------------------------------------------------------------
(* The image.                                                              *)

LEMMA InitBuildInv == ASSUME BuildInit PROVE BuildInv
BY DEF BuildInit, BuildInv, BuildTypeOK, StageMeansChecked, ImageIsPinned, Esphome, Copies,
   Stages, Images, NoImage, Versions, Headers

LEMMA GenerateStep ==
  ASSUME BuildInv, NEW wanted \in BOOLEAN, Generate(wanted)
  PROVE  BuildInv'
<1>1. installed.header \in Headers /\ copy.header \in Headers /\ installed.version \in Versions
  BY DEF BuildInv, BuildTypeOK, Esphome, Copies, Headers
<1>2. BuildTypeOK'
  BY <1>1 DEF Generate, ToCode, BuildInv, BuildTypeOK, Copies, Stages
<1>3. StageMeansChecked' /\ ImageIsPinned'
  BY DEF Generate, ToCode, BuildInv, StageMeansChecked, ImageIsPinned
<1>4. QED
  BY <1>2, <1>3 DEF BuildInv

LEMMA PatchStep ==
  ASSUME BuildInv, PatchProject \/ PatchWritten
  PROVE  BuildInv'
<1>1. copy.version \in Versions /\ copy.header \in Headers
      /\ \A h \in Headers : /\ [copy EXCEPT !.header = h].header = h
                            /\ [copy EXCEPT !.header = h].version = copy.version
                            /\ [copy EXCEPT !.header = h] \in Copies
  BY DEF BuildInv, BuildTypeOK, Copies
<1>2. "patched" \in Headers /\ "truncated" \in Headers
  BY DEF Headers
<1>3. CASE PatchProject
  BY <1>1, <1>2, <1>3 DEF PatchProject, PinnedVersion, KnownHeader, BuildInv, BuildTypeOK, Stages,
     StageMeansChecked, ImageIsPinned
<1>4. CASE PatchWritten
  BY <1>1, <1>2, <1>4 DEF PatchWritten, BuildInv, BuildTypeOK, Stages, StageMeansChecked,
     ImageIsPinned
<1>5. QED
  BY <1>3, <1>4

LEMMA CompileStep == ASSUME BuildInv, Compile PROVE BuildInv'
<1> DEFINE built == [pause |-> options.pause, version |-> copy.version, header |-> copy.header]
<1>1. built \in Images
  BY DEF BuildInv, BuildTypeOK, Images, Copies
<1>2. built.pause => built.version = "pinned" /\ built.header = "patched"
  BY DEF BuildInv, StageMeansChecked, Compile
<1>3. image' = image \/ image' = built
  BY DEF Compile
<1>4. QED
  BY <1>1, <1>2, <1>3 DEF Compile, BuildInv, BuildTypeOK, Stages, StageMeansChecked, ImageIsPinned

LEMMA OtherBuildStep ==
  ASSUME BuildInv, BuildRefused \/ BuildKilled \/ Upgrade \/ RuntimeContract
  PROVE  BuildInv'
BY DEF BuildRefused, BuildKilled, Upgrade, RuntimeContract, BuildInv, BuildTypeOK, Stages,
   StageMeansChecked, ImageIsPinned

LEMMA FlashBuildStep == ASSUME BuildInv, Cleaned PROVE BuildInv'
BY DEF Cleaned, ToCode, BuildInv, BuildTypeOK, StageMeansChecked, ImageIsPinned, Esphome, Copies,
   Stages, Images, NoImage, Versions, Headers

\* Everything that runs on the device leaves the build alone.
LEMMA DeviceLeavesBuild ==
  ASSUME Next
  PROVE  BuildNext \/ Cleaned \/ UNCHANGED buildVars
BY DEF Next, Flash, Reboot, MonitorLoop, StartBurst, EndBurst, OnShutdown, SetPauseEnabled, TrackerLoop,
   ScanStarted, ScanStopped, ScanFailed, ScanOver, ScanEvent, ClientStep, BleSwitched, ScannerMode,
   ExternalStop, TrackerStep, Running

LEMMA NextBuildInv == ASSUME BuildInv, [Next]_vars PROVE BuildInv'
<1>1. CASE BuildNext
  BY <1>1, GenerateStep, PatchStep, CompileStep, OtherBuildStep DEF BuildNext
<1>2. CASE UNCHANGED buildVars
  BY <1>2 DEF buildVars, BuildInv, BuildTypeOK, StageMeansChecked, ImageIsPinned
<1>3. CASE Cleaned
  BY <1>3, FlashBuildStep
<1>4. QED
  BY <1>1, <1>2, <1>3, DeviceLeavesBuild DEF vars

\* Every image with the scan pause was compiled from the pinned ESPHome with the whole
\* replacement (ble_tracker_compat.py:12-24, __init__.py:41-53).
THEOREM PausedImagesArePinned == Spec => []ImageIsPinned
<1>1. Init => BuildInv
  BY InitBuildInv DEF Init
<1>2. BuildInv => ImageIsPinned
  BY DEF BuildInv
<1>3. QED
  BY <1>1, <1>2, NextBuildInv, PTL DEF Spec

-----------------------------------------------------------------------------
(* The tracker: what its operations make of a tracker.                     *)

\* The fields of a tracker, replaced one by one.
LEMMA TrackerFields ==
  ASSUME NEW t \in Tracker
  PROVE  /\ \A c \in BOOLEAN : /\ [t EXCEPT !.continuous = c] \in Tracker
                               /\ [t EXCEPT !.continuous = c].continuous = c
         /\ \A s \in ScannerStates : /\ [t EXCEPT !.scanner = s] \in Tracker
                                     /\ [t EXCEPT !.scanner = s].continuous = t.continuous
         /\ \A k \in SUBSET Transitions : /\ [t EXCEPT !.clients = k] \in Tracker
                                          /\ [t EXCEPT !.clients = k].continuous = t.continuous
         /\ \A w \in BOOLEAN : /\ [t EXCEPT !.wasDisabled = w] \in Tracker
                               /\ [t EXCEPT !.wasDisabled = w].continuous = t.continuous
         /\ \A a \in BOOLEAN : /\ [t EXCEPT !.active = a] \in Tracker
                               /\ [t EXCEPT !.active = a].continuous = t.continuous
         /\ [t EXCEPT !.active = FALSE, !.scanner = "idle"] \in Tracker
         /\ [t EXCEPT !.active = FALSE, !.scanner = "idle"].continuous = t.continuous
BY DEF Tracker, ScannerStates

LEMMA BumpKeeps ==
  ASSUME NEW t \in Tracker
  PROVE  Bump(t) \in Tracker /\ Bump(t).continuous = t.continuous
BY DEF Bump, Tracker, MaxChanges

LEMMA EventKeeps ==
  ASSUME NEW t \in Tracker, NEW s \in ScannerStates
  PROVE  ScannerEvent(t, s) \in Tracker /\ ScannerEvent(t, s).continuous = t.continuous
<1>1. [t EXCEPT !.scanner = s] \in Tracker /\ [t EXCEPT !.scanner = s].continuous = t.continuous
  BY TrackerFields
<1>2. QED
  BY <1>1, BumpKeeps DEF ScannerEvent

LEMMA StartKeeps ==
  ASSUME NEW t \in Tracker
  PROVE  StartScan(t) \in Tracker /\ StartScan(t).continuous = t.continuous
BY EventKeeps DEF StartScan, ScannerStates

LEMMA ProcessedKeeps ==
  ASSUME NEW t \in Tracker
  PROVE  Processed(t) \in Tracker /\ Processed(t).continuous = t.continuous
BY DEF Processed, Tracker, MaxChanges

LEMMA EnabledKeeps ==
  ASSUME NEW t \in Tracker
  PROVE  Enabled(t) \in Tracker /\ Enabled(t).continuous = t.continuous
BY StartKeeps, TrackerFields DEF Enabled

LEMMA DecidedKeeps ==
  ASSUME NEW t \in Tracker
  PROVE  Decided(t) \in Tracker /\ Decided(t).continuous = t.continuous
BY StartKeeps, EventKeeps DEF Decided, ScannerStates

\* The tracker's own loop never touches the policy.
LEMMA LoopKeeps ==
  ASSUME NEW t \in Tracker
  PROVE  Loop(t) \in Tracker /\ Loop(t).continuous = t.continuous
<1>1. [t EXCEPT !.wasDisabled = TRUE] \in Tracker
      /\ [t EXCEPT !.wasDisabled = TRUE].continuous = t.continuous
  BY TrackerFields
<1>2. Enabled(t) \in Tracker /\ Enabled(t).continuous = t.continuous
  BY EnabledKeeps
<1>3. /\ Processed(Enabled(t)) \in Tracker
      /\ Processed(Enabled(t)).continuous = t.continuous
  BY <1>2, ProcessedKeeps
<1>4. /\ Decided(Processed(Enabled(t))) \in Tracker
      /\ Decided(Processed(Enabled(t))).continuous = t.continuous
  BY <1>3, DecidedKeeps
<1>5. QED
  BY <1>1, <1>2, <1>4 DEF Loop

\* Either setter writes the policy it is given.
LEMMA SetterWrites ==
  ASSUME NEW t \in Tracker, NEW policy \in BOOLEAN
  PROVE  /\ SetScanContinuous(Setter, t, policy) \in Tracker
         /\ SetScanContinuous(Setter, t, policy).continuous = policy
<1>1. /\ [t EXCEPT !.continuous = policy] \in Tracker
      /\ [t EXCEPT !.continuous = policy].continuous = policy
  BY TrackerFields
<1>2. /\ Bump([t EXCEPT !.continuous = policy]) \in Tracker
      /\ Bump([t EXCEPT !.continuous = policy]).continuous = policy
  BY <1>1, BumpKeeps
<1>3. t.continuous # policy \/ t.continuous = policy
  OBVIOUS
<1>4. QED
  BY <1>1, <1>2, <1>3 DEF SetScanContinuous, ReplacementSetter, OriginalSetter

LEMMA StopWithdraws ==
  ASSUME NEW t \in Tracker
  PROVE  StopScan(t) \in Tracker /\ ~StopScan(t).continuous
BY EventKeeps, TrackerFields DEF StopScan, ScannerStates

LEMMA BootTrackerScans == BootTracker \in Tracker /\ BootTracker.continuous
<1>1. NewTracker \in Tracker
  BY DEF NewTracker, Tracker, ScannerStates, MaxChanges
<1>2. 1 \in 0 .. MaxChanges
  BY DEF MaxChanges
<1>3. BootTracker \in Tracker
  BY <1>1, <1>2, Zenon DEF BootTracker, Tracker
<1>4. BootTracker.continuous = TRUE
  BY <1>1, Zenon DEF BootTracker, Tracker
<1>5. QED
  BY <1>3, <1>4

-----------------------------------------------------------------------------
(* The pause.                                                              *)

\* Whatever the guard answers, the policy it leaves withdrawn is its own to restore.
LEMMA GuardStep ==
  ASSUME PauseInv, up, NEW enabled \in BOOLEAN, NEW sending \in BOOLEAN,
         UpdateBleScanPause(enabled, sending), firmware' = firmware, up' \in BOOLEAN
  PROVE  PauseInv'
<1> USE DEF PauseInv
<1>1. /\ tracker \in Tracker /\ owned \in BOOLEAN /\ stoppedOutside \in BOOLEAN
      /\ tracker.active \in BOOLEAN /\ tracker.continuous \in BOOLEAN
      /\ (~tracker.continuous => owned \/ stoppedOutside)
  BY DEF PauseTypeOK, PauseIsReleased, Tracker
<1>2. firmware # NoImage
  BY DEF NothingFlashed
<1>3. CASE ~firmware.pause
  <2>1. owned' = owned /\ tracker' = tracker /\ stoppedOutside' = (~tracker.continuous /\ stoppedOutside)
    BY <1>3 DEF UpdateBleScanPause, Outside
  <2>2. QED
    BY <1>1, <1>2, <2>1
    DEF UpdateBleScanPause, PauseTypeOK, NothingFlashed, PauseIsReleased
<1>4. CASE firmware.pause
  <2>1. /\ owned' = OwnedAfter(enabled, sending)
        /\ tracker' = Applied(ScanAction(enabled, sending))
        /\ stoppedOutside' = (~tracker'.continuous /\ stoppedOutside)
        /\ pauseEnabled' = enabled /\ transmitting' = sending
    BY <1>4 DEF UpdateBleScanPause, Outside
  <2>2. owned' \in BOOLEAN
    BY <1>1, <2>1 DEF OwnedAfter
  <2>3. tracker' \in Tracker /\ (~tracker'.continuous => owned' \/ stoppedOutside)
    <3>1. CASE tracker.active /\ enabled /\ sending /\ tracker.scanner = "running"
      <4>1. ScanAction(enabled, sending) = "stop" /\ owned'
        BY <2>1, <3>1 DEF ScanAction, OwnedAfter
      <4>2. QED
        BY <1>1, <2>1, <4>1, StopWithdraws DEF Applied
    <3>2. CASE tracker.active /\ enabled /\ sending /\ tracker.scanner # "running" /\ owned
      <4>1. ScanAction(enabled, sending) = "keep_paused" /\ owned'
        BY <2>1, <3>2 DEF ScanAction, OwnedAfter
      <4>2. QED
        BY <1>1, <2>1, <4>1, SetterWrites DEF Applied
    <3>3. CASE ~(tracker.active /\ enabled /\ sending) /\ owned
      <4>1. ScanAction(enabled, sending) = "resume_continuous"
        BY <1>1, <3>3 DEF ScanAction
      <4>2. QED
        BY <1>1, <2>1, <4>1, SetterWrites DEF Applied
    <3>4. CASE ~owned /\ ~(tracker.active /\ enabled /\ sending /\ tracker.scanner = "running")
      <4>1. ScanAction(enabled, sending) = "none"
        BY <1>1, <3>4 DEF ScanAction
      <4>2. QED
        BY <1>1, <2>1, <3>4, <4>1 DEF Applied
    <3>5. QED
      BY <1>1, <3>1, <3>2, <3>3, <3>4
  <2>4. QED
    BY <1>1, <1>2, <2>1, <2>2, <2>3 DEF PauseTypeOK, NothingFlashed, PauseIsReleased, Tracker
<1>5. QED
  BY <1>3, <1>4

\* What others do to the tracker: they keep the policy, restore it, or withdraw it.
LEMMA OutsideStep ==
  ASSUME PauseInv, NEW next \in Tracker, NEW outside \in BOOLEAN, TrackerStep(next, outside),
         next.continuous \/ owned \/ outside
  PROVE  PauseInv'
<1>1. /\ tracker' = next /\ stoppedOutside' = (~next.continuous /\ outside)
      /\ UNCHANGED <<firmware, up, pauseEnabled, transmitting, owned>> /\ up
  BY DEF TrackerStep, Running, Outside, guardVars
<1>2. next.continuous \in BOOLEAN
  BY DEF Tracker
<1>3. QED
  BY <1>1, <1>2 DEF PauseInv, PauseTypeOK, NothingFlashed, PauseIsReleased

LEMMA TrackerSteps ==
  ASSUME PauseInv,
         TrackerLoop \/ ScanStarted \/ ScanStopped \/ ScanFailed \/ ScanOver \/ ClientStep
           \/ BleSwitched \/ ScannerMode \/ ExternalStop
  PROVE  PauseInv'
<1>1. /\ up /\ tracker \in Tracker /\ owned \in BOOLEAN /\ stoppedOutside \in BOOLEAN
      /\ (tracker.continuous \/ owned \/ stoppedOutside)
      /\ ScannerStates = {"idle", "starting", "running", "stopping", "failed"}
  BY DEF PauseInv, PauseTypeOK, PauseIsReleased, TrackerLoop, ScanStarted, ScanStopped, ScanFailed,
     ScanOver, ScanEvent, ClientStep, BleSwitched, ScannerMode, ExternalStop, TrackerStep, Running,
     ScannerStates
<1>2. CASE TrackerLoop
  BY <1>1, <1>2, LoopKeeps, OutsideStep DEF TrackerLoop
<1>3. CASE ScanStarted \/ ScanStopped \/ ScanFailed \/ ScanOver
  <2>1. PICK s \in ScannerStates : TrackerStep(ScannerEvent(tracker, s), stoppedOutside)
    BY <1>1, <1>3 DEF ScanStarted, ScanStopped, ScanFailed, ScanOver, ScanEvent
  <2>2. QED
    BY <1>1, <2>1, EventKeeps, OutsideStep
<1>4. CASE ClientStep
  <2>1. PICK clients \in SUBSET Transitions :
          TrackerStep(ClientsChanged(tracker, clients), stoppedOutside)
    BY <1>4 DEF ClientStep
  <2>2. /\ ClientsChanged(tracker, clients) \in Tracker
        /\ ClientsChanged(tracker, clients).continuous = tracker.continuous
    <3>1. /\ [tracker EXCEPT !.clients = clients] \in Tracker
          /\ [tracker EXCEPT !.clients = clients].continuous = tracker.continuous
      BY <1>1 DEF Tracker
    <3>2. QED
      BY <3>1, BumpKeeps DEF ClientsChanged
  <2>3. QED
    BY <1>1, <2>1, <2>2, OutsideStep
<1>5. CASE BleSwitched
  <2> DEFINE switched == IF tracker.active
                           THEN Bump([tracker EXCEPT !.active = FALSE, !.scanner = "idle"])
                           ELSE [tracker EXCEPT !.active = TRUE]
  <2>1. switched \in Tracker /\ switched.continuous = tracker.continuous
    <3>1. /\ [tracker EXCEPT !.active = FALSE, !.scanner = "idle"] \in Tracker
          /\ [tracker EXCEPT !.active = FALSE, !.scanner = "idle"].continuous = tracker.continuous
          /\ [tracker EXCEPT !.active = TRUE] \in Tracker
          /\ [tracker EXCEPT !.active = TRUE].continuous = tracker.continuous
      BY <1>1, TrackerFields
    <3>2. QED
      BY <3>1, BumpKeeps
  <2>2. TrackerStep(switched, stoppedOutside)
    BY <1>5 DEF BleSwitched
  <2>3. QED
    BY ONLY PauseInv, <1>1, <2>1, <2>2, OutsideStep
<1>6. CASE ScannerMode
  <2> DEFINE next == SetScanContinuous(Setter, StopScan(tracker), TRUE)
  <2>1. next \in Tracker /\ next.continuous
    BY <1>1, StopWithdraws, SetterWrites
  <2>2. TrackerStep(next, FALSE)
    BY <1>6 DEF ScannerMode
  <2>3. QED
    BY ONLY PauseInv, <2>1, <2>2, OutsideStep
<1>7. CASE ExternalStop
  <2>1. TrackerStep(StopScan(tracker), ~owned)
    BY <1>7 DEF ExternalStop
  <2>2. StopScan(tracker) \in Tracker
    BY <1>1, StopWithdraws
  <2>3. (~owned) \in BOOLEAN
    OBVIOUS
  <2>4. owned \/ ~owned
    OBVIOUS
  <2>5. QED
    BY ONLY PauseInv, <2>1, <2>2, <2>3, <2>4, OutsideStep
<1>8. QED
  BY <1>2, <1>3, <1>4, <1>5, <1>6, <1>7

LEMMA MonitorSteps ==
  ASSUME PauseInv,
         \/ MonitorLoop \/ StartBurst \/ EndBurst \/ OnShutdown
         \/ \E enabled \in BOOLEAN : SetPauseEnabled(enabled)
  PROVE  PauseInv'
<1>1. up /\ firmware' = firmware /\ up' \in BOOLEAN /\ pauseEnabled \in BOOLEAN /\ transmitting \in BOOLEAN
  BY DEF PauseInv, PauseTypeOK, MonitorLoop, StartBurst, EndBurst, OnShutdown, SetPauseEnabled, Running
<1>2. PICK enabled \in BOOLEAN, sending \in BOOLEAN : UpdateBleScanPause(enabled, sending)
  BY <1>1 DEF MonitorLoop, StartBurst, EndBurst, OnShutdown, SetPauseEnabled
<1>3. QED
  BY <1>1, <1>2, GuardStep

LEMMA BootSteps ==
  ASSUME PauseInv, BuildInv, Flash \/ Reboot
  PROVE  PauseInv'
BY BootTrackerScans
DEF Flash, Reboot, guardVars, PauseInv, PauseTypeOK, NothingFlashed, PauseIsReleased, BuildInv,
    BuildTypeOK

LEMMA NextPauseInv == ASSUME PauseInv, BuildInv, [Next]_vars PROVE PauseInv'
<1>1. CASE UNCHANGED pauseVars
  BY <1>1 DEF pauseVars, guardVars, PauseInv, PauseTypeOK, NothingFlashed, PauseIsReleased
<1>2. QED
  BY <1>1, TrackerSteps, MonitorSteps, BootSteps DEF Next, vars

LEMMA PauseInvHolds == Spec => [](BuildInv /\ PauseInv)
<1>1. Init => BuildInv /\ PauseInv
  <2>1. NoImage \in Images
    BY DEF Images, NoImage, Versions, Headers
  <2>2. Down => PauseInv
    BY <2>1, BootTrackerScans DEF Down, PauseInv, PauseTypeOK, NothingFlashed, PauseIsReleased
  <2>3. QED
    BY <2>2, InitBuildInv DEF Init
<1>2. BuildInv /\ PauseInv /\ [Next]_vars => (BuildInv /\ PauseInv)'
  BY NextBuildInv, NextPauseInv
<1>3. QED
  BY <1>1, <1>2, PTL DEF Spec

\* Build, guard and tracker keep their types (ble_scan_pause.h:8-40,
\* ble_tracker_compat.py:12-26).
THEOREM PauseTypesHold == Spec => []TypeOK
<1>1. BuildInv /\ PauseInv => TypeOK
  BY DEF BuildInv, PauseInv, TypeOK
<1>2. QED
  BY <1>1, PauseInvHolds, PTL

\* While the continuous policy is withdrawn, the guard is going to restore it or
\* somebody else has stopped the scan: for every interleaving of the guard, the
\* tracker, Bluetooth and Home Assistant (ble_scan_pause.h:13-37).
THEOREM PauseIsNeverForgotten == Spec => []PauseIsReleased
<1>1. PauseInv => PauseIsReleased
  BY DEF PauseInv
<1>2. QED
  BY <1>1, PauseInvHolds, PTL

-----------------------------------------------------------------------------
(* The runtime contract: its scenarios, step by step, on trackers that are *)
(* known field by field.                                                   *)

\* A tracker, field by field.
Made(a, w, c, s, n, k) ==
  [active |-> a, wasDisabled |-> w, continuous |-> c, scanner |-> s, changes |-> n, clients |-> k]

LEMMA MadeBump ==
  ASSUME NEW a, NEW w, NEW c, NEW s, NEW n \in 0 .. 1, NEW k
  PROVE  Bump(Made(a, w, c, s, n, k)) = Made(a, w, c, s, n + 1, k)
<1>1. n < MaxChanges
  BY DEF MaxChanges
<1> QED
  BY <1>1 DEF Bump, Made

LEMMA MadeEvent ==
  ASSUME NEW a, NEW w, NEW c, NEW s, NEW n \in 0 .. 1, NEW k, NEW v
  PROVE  ScannerEvent(Made(a, w, c, s, n, k), v) = Made(a, w, c, v, n + 1, k)
<1> DEFINE t == Made(a, w, c, s, n, k)
           u == [t EXCEPT !.scanner = v]
<1>1. u = Made(a, w, c, v, n, k)
  BY DEF Made
<1> HIDE DEF t
<1>2. ScannerEvent(t, v) = Bump(u)
  BY DEF ScannerEvent
<1> HIDE DEF u
<1>3. Bump(u) = Made(a, w, c, v, n + 1, k)
  BY <1>1, MadeBump
<1> QED
  BY <1>2, <1>3 DEF t

LEMMA MadeClients ==
  ASSUME NEW a, NEW w, NEW c, NEW s, NEW n \in 0 .. 1, NEW k, NEW v
  PROVE  ClientsChanged(Made(a, w, c, s, n, k), v) = Made(a, w, c, s, n + 1, v)
<1> DEFINE t == Made(a, w, c, s, n, k)
           u == [t EXCEPT !.clients = v]
<1>1. u = Made(a, w, c, s, n, v)
  BY DEF Made
<1> HIDE DEF t
<1>2. ClientsChanged(t, v) = Bump(u)
  BY DEF ClientsChanged
<1> HIDE DEF u
<1>3. Bump(u) = Made(a, w, c, s, n + 1, v)
  BY <1>1, MadeBump
<1> QED
  BY <1>2, <1>3 DEF t

LEMMA MadeStart ==
  ASSUME NEW a, NEW w, NEW c, NEW s, NEW n \in 0 .. 1, NEW k
  PROVE  StartScan(Made(a, w, c, s, n, k)) =
           IF s = "idle" THEN Made(a, w, c, "starting", n + 1, k) ELSE Made(a, w, c, s, n, k)
<1> DEFINE t == Made(a, w, c, s, n, k)
<1>1. t.scanner = s
  BY DEF Made
<1>2. ScannerEvent(t, "starting") = Made(a, w, c, "starting", n + 1, k)
  BY MadeEvent
<1> HIDE DEF t
<1> QED
  BY <1>1, <1>2 DEF StartScan, t

LEMMA MadeParts ==
  ASSUME NEW a, NEW w, NEW c, NEW s, NEW n, NEW k
  PROVE  /\ Made(a, w, c, s, n, k).active = a
         /\ Made(a, w, c, s, n, k).wasDisabled = w
         /\ Made(a, w, c, s, n, k).continuous = c
         /\ Made(a, w, c, s, n, k).scanner = s
         /\ Made(a, w, c, s, n, k).changes = n
         /\ Made(a, w, c, s, n, k).clients = k
         /\ [Made(a, w, c, s, n, k) EXCEPT !.wasDisabled = w] = Made(a, w, c, s, n, k)
         /\ [Made(a, w, c, s, n, k) EXCEPT !.changes = 0] = Made(a, w, c, s, 0, k)
BY DEF Made

\* The truth values, kept folded.
Yes == TRUE
No  == FALSE

\* A pass of the loop over a tracker that was not disabled: nothing without a change, and
\* with one what the scanner's state asks for.
LEMMA MadeLoop ==
  ASSUME NEW c \in {Yes, No}, NEW s, NEW n, NEW k
  PROVE  n \in 0 .. 2 =>
           /\ Enabled(Made(Yes, No, c, s, n, k)) = Made(Yes, No, c, s, n, k)
           /\ Loop(Made(Yes, No, c, s, n, k)) =
                IF n = 0 THEN Made(Yes, No, c, s, n, k)
                ELSE IF s = "failed" THEN Made(Yes, No, c, "stopping", 1, k)
                ELSE IF s = "idle" /\ c = Yes /\ k = {} THEN Made(Yes, No, c, "starting", 1, k)
                ELSE Made(Yes, No, c, s, 0, k)
<1> DEFINE t == Made(Yes, No, c, s, n, k)
           u == Made(Yes, No, c, s, 0, k)
<1>1. t.active = Yes /\ t.wasDisabled = No /\ t.changes = n
  BY MadeParts
<1>2. u.scanner = s /\ u.continuous = c /\ u.clients = k
  BY MadeParts
<1>3. [t EXCEPT !.wasDisabled = No] = t
  BY DEF Made
<1>4. [t EXCEPT !.changes = 0] = u
  BY DEF Made
<1>5. /\ ScannerEvent(u, "stopping") = Made(Yes, No, c, "stopping", 1, k)
      /\ s = "idle" => StartScan(u) = Made(Yes, No, c, "starting", 1, k)
  <2>1. 0 \in 0 .. 1 /\ 0 + 1 = 1
    OBVIOUS
  <2>2. ScannerEvent(u, "stopping") = Made(Yes, No, c, "stopping", 0 + 1, k)
    BY <2>1, MadeEvent
  <2>3. StartScan(u) = IF s = "idle" THEN Made(Yes, No, c, "starting", 0 + 1, k) ELSE u
    BY <2>1, MadeStart
  <2> QED
    BY <2>1, <2>2, <2>3
<1> HIDE DEF t, u
<1> SUFFICES ASSUME n \in 0 .. 2
             PROVE  Enabled(t) = t /\ Loop(t) =
                      IF n = 0 THEN t
                      ELSE IF s = "failed" THEN Made(Yes, No, c, "stopping", 1, k)
                      ELSE IF s = "idle" /\ c = Yes /\ k = {} THEN Made(Yes, No, c, "starting", 1, k)
                      ELSE u
  BY DEF t, u
<1>6. Enabled(t) = t
  BY <1>1, <1>3 DEF Enabled, No
<1>7. Processed(t) = u
  BY <1>4 DEF Processed
<1>8. Loop(t) = IF n = 0 THEN t ELSE Decided(u)
  BY <1>1, <1>6, <1>7 DEF Loop, Yes
<1>9. Decided(u) =
        IF s = "failed" THEN Made(Yes, No, c, "stopping", 1, k)
        ELSE IF s = "idle" /\ c = Yes /\ k = {} THEN Made(Yes, No, c, "starting", 1, k)
        ELSE u
  BY <1>2, <1>5 DEF Decided, Busy, Yes, No
<1> QED
  BY <1>6, <1>8, <1>9

LEMMA MadeRestored ==
  ASSUME NEW a, NEW w, NEW s, NEW n \in 0 .. 1, NEW k
  PROVE  /\ Restored("replacement", Made(a, w, No, s, n, k)) = Made(a, w, Yes, s, n + 1, k)
         /\ Restored("replacement", Made(a, w, Yes, s, n, k)) = Made(a, w, Yes, s, n, k)
<1> DEFINE t == Made(a, w, No, s, n, k)
           u == [t EXCEPT !.continuous = Yes]
           v == Made(a, w, Yes, s, n, k)
<1>1. u = Made(a, w, Yes, s, n, k) /\ t.continuous = No /\ v.continuous = Yes
  BY DEF Made
<1> HIDE DEF t, v
<1>2. ReplacementSetter(t, Yes) = (IF No # Yes THEN Bump(u) ELSE t) /\ ReplacementSetter(v, Yes) = v
  BY <1>1 DEF ReplacementSetter
<1> HIDE DEF u
<1>3. Bump(u) = Made(a, w, Yes, s, n + 1, k)
  BY <1>1, MadeBump
<1>4. ReplacementSetter(t, Yes) = Made(a, w, Yes, s, n + 1, k)
  BY <1>2, <1>3 DEF Yes, No
<1>5. \A x : Restored("replacement", x) = ReplacementSetter(x, Yes)
  BY DEF Restored, SetScanContinuous, Yes
<1> QED
  BY <1>2, <1>4, <1>5 DEF t, v

\* What the harness counts.
LEMMA MadeCounts ==
  ASSUME NEW c \in {Yes, No}, NEW s, NEW n \in 0 .. 2, NEW k
  PROVE  /\ Counts(Made(Yes, No, c, s, n, k)) <=> n > 0
         /\ Starts(Made(Yes, No, c, s, n, k)) <=> n > 0 /\ s = "idle" /\ c = Yes /\ k = {}
<1> DEFINE t == Made(Yes, No, c, s, n, k)
           l == Loop(t)
<1>1. t.active = Yes /\ t.changes = n /\ t.scanner = s
  BY MadeParts
<1>2. Enabled(t) = t
  BY MadeLoop
<1>3. l = IF n = 0 THEN t
          ELSE IF s = "failed" THEN Made(Yes, No, c, "stopping", 1, k)
          ELSE IF s = "idle" /\ c = Yes /\ k = {} THEN Made(Yes, No, c, "starting", 1, k)
          ELSE Made(Yes, No, c, s, 0, k)
  BY MadeLoop
<1>4. \A x, m : Made(Yes, No, c, x, m, k).scanner = x
  BY MadeParts
<1> HIDE DEF t
<1>5. Counts(t) <=> n > 0
  BY <1>1, <1>2 DEF Counts, Yes
<1> HIDE DEF l
<1>6. s # "starting" => (l.scanner = "starting" <=> n > 0 /\ s = "idle" /\ c = Yes /\ k = {})
  BY <1>1, <1>3, <1>4
<1>7. Starts(t) <=> n > 0 /\ s = "idle" /\ c = Yes /\ k = {}
  BY <1>1, <1>6 DEF Starts, l
<1> QED
  BY <1>5, <1>7 DEF t

LEMMA NewIsMade ==
  /\ NewTracker = Made(Yes, No, No, "idle", 0, {})
  /\ [NewTracker EXCEPT !.active = FALSE] = Made(No, No, No, "idle", 0, {})
  /\ \A s : [NewTracker EXCEPT !.scanner = s] = Made(Yes, No, No, s, 0, {})
  /\ \A k : [NewTracker EXCEPT !.clients = k] = Made(Yes, No, No, "idle", 0, k)
<1> DEFINE new == Made(Yes, No, No, "idle", 0, {})
<1>1. NewTracker = new
  BY DEF NewTracker, Made, Yes, No
<1>2. /\ [new EXCEPT !.active = No] = Made(No, No, No, "idle", 0, {})
      /\ \A s : [new EXCEPT !.scanner = s] = Made(Yes, No, No, s, 0, {})
      /\ \A k : [new EXCEPT !.clients = k] = Made(Yes, No, No, "idle", 0, k)
  BY DEF Made
<1> HIDE DEF new
<1>3. /\ [NewTracker EXCEPT !.active = No] = Made(No, No, No, "idle", 0, {})
      /\ \A s : [NewTracker EXCEPT !.scanner = s] = Made(Yes, No, No, s, 0, {})
      /\ \A k : [NewTracker EXCEPT !.clients = k] = Made(Yes, No, No, "idle", 0, k)
  BY <1>1, <1>2
<1>4. FALSE = No
  BY DEF No
<1> QED
  BY <1>1, <1>3, <1>4 DEF new

\* The scanner that waits for the policy, idle or not.
LEMMA WokenScans ==
  /\ Starts(Made(Yes, No, Yes, "idle", 1, {}))
  /\ Starts(Made(Yes, No, Yes, "idle", 2, {}))
  /\ \A s : s # "idle" => ~Starts(Made(Yes, No, Yes, s, 1, {}))
<1>1. ASSUME NEW n \in 1 .. 2
      PROVE  Starts(Made(Yes, No, Yes, "idle", n, {}))
  BY MadeCounts
<1>2. ASSUME NEW s, s # "idle"
      PROVE  ~Starts(Made(Yes, No, Yes, s, 1, {}))
  BY <1>2, MadeCounts
<1> QED
  BY <1>1, <1>2

LEMMA IdleHolds == IdleIsWoken("replacement") /\ IdleRestarts("replacement")
<1> DEFINE new   == Made(Yes, No, No, "idle", 0, {})
           woken == Made(Yes, No, Yes, "idle", 1, {})
           on    == Made(Yes, No, Yes, "starting", 1, {})
<1>1. NewTracker = new /\ ~Counts(new) /\ Loop(new) = new
  <2>1. NewTracker = new
    BY NewIsMade
  <2>2. ~Counts(new)
    BY MadeCounts
  <2>3. Loop(new) = new
    BY MadeLoop
  <2> QED
    BY <2>1, <2>2, <2>3
<1>2. Restored("replacement", new) = woken /\ woken.changes = 1
  BY MadeRestored, MadeParts
<1>3. Loop(woken) = on
  BY MadeLoop
<1>4. Restored("replacement", on) = on
  BY MadeRestored
<1> HIDE DEF new, on
<1> QED
  BY <1>1, <1>2, <1>3, <1>4, WokenScans DEF IdleIsWoken, IdleRestarts

LEMMA BusyHolds == BusyWaits("replacement")
<1>1. ASSUME NEW k \in Transitions
      PROVE  LET busy == Restored("replacement", [NewTracker EXCEPT !.clients = {k}])
             IN  /\ ~Starts(busy)
                 /\ Promoted(busy) <=> k = "discovered"
                 /\ Starts(ClientsChanged(Loop(busy), {}))
  <2> DEFINE new  == Made(Yes, No, No, "idle", 0, {k})
             busy == Made(Yes, No, Yes, "idle", 1, {k})
             left == Made(Yes, No, Yes, "idle", 0, {k})
  <2>1. [NewTracker EXCEPT !.clients = {k}] = new
    BY NewIsMade
  <2>2. Restored("replacement", new) = busy
    BY MadeRestored
  <2>3. {k} # {} /\ ({k} = {"discovered"} <=> k = "discovered")
    OBVIOUS
  <2>4. ~Starts(busy) /\ Counts(busy)
    BY <2>3, MadeCounts
  <2>5. Promotes(busy) <=> k = "discovered"
    BY <2>3, MadeParts DEF Promotes
  <2>6. Loop(busy) = left
    BY <2>3, MadeLoop
  <2>7. ClientsChanged(left, {}) = Made(Yes, No, Yes, "idle", 1, {})
    BY MadeClients
  <2> HIDE DEF new, busy, left
  <2> QED
    BY <2>1, <2>2, <2>4, <2>5, <2>6, <2>7, WokenScans DEF Promoted
<1> QED
  BY <1>1 DEF BusyWaits

LEMMA StoppingHolds == StoppingWaits("replacement")
<1> DEFINE new      == Made(Yes, No, No, "stopping", 0, {})
           stopping == Made(Yes, No, Yes, "stopping", 1, {})
           waiting  == Made(Yes, No, Yes, "stopping", 0, {})
<1>1. [NewTracker EXCEPT !.scanner = "stopping"] = new
  BY NewIsMade
<1>2. Restored("replacement", new) = stopping
  BY MadeRestored
<1>3. ~Starts(stopping)
  BY WokenScans
<1>4. Loop(stopping) = waiting
  BY MadeLoop
<1>5. ScannerEvent(waiting, "idle") = Made(Yes, No, Yes, "idle", 1, {})
  BY MadeEvent
<1> HIDE DEF new, stopping, waiting
<1> QED
  BY <1>1, <1>2, <1>3, <1>4, <1>5, WokenScans DEF StoppingWaits

LEMMA StartingHolds == StartingIsLeft("replacement")
<1> DEFINE new      == Made(Yes, No, No, "starting", 0, {})
           starting == Made(Yes, No, Yes, "starting", 1, {})
           same     == Made(Yes, No, Yes, "starting", 0, {})
<1>1. [NewTracker EXCEPT !.scanner = "starting"] = new
  BY NewIsMade
<1>2. Restored("replacement", new) = starting
  BY MadeRestored
<1>3. Loop(starting) = same
  BY MadeLoop
<1>4. [starting EXCEPT !.changes = 0] = same
  BY MadeParts
<1> HIDE DEF new, starting, same
<1> QED
  BY <1>1, <1>2, <1>3, <1>4 DEF StartingIsLeft, Processed

LEMMA DisabledHolds == DisabledStaysOff("replacement")
<1> DEFINE new      == Made(No, No, No, "idle", 0, {})
           disabled == Made(No, No, Yes, "idle", 1, {})
           noticed  == Made(No, Yes, Yes, "idle", 1, {})
           back     == Made(Yes, Yes, Yes, "idle", 1, {})
           awake    == Made(Yes, No, Yes, "idle", 1, {})
           on       == Made(Yes, No, Yes, "starting", 2, {})
           done     == Made(Yes, No, Yes, "starting", 0, {})
<1>1. [NewTracker EXCEPT !.active = FALSE] = new
  BY NewIsMade
<1>2. Restored("replacement", new) = disabled
  BY MadeRestored
<1>3. [disabled EXCEPT !.wasDisabled = Yes] = noticed /\ [noticed EXCEPT !.active = Yes] = back
  BY DEF Made
<1>4. [back EXCEPT !.wasDisabled = No] = awake /\ [on EXCEPT !.changes = 0] = done
  BY DEF Made
<1>5. StartScan(awake) = on
  BY MadeStart
<1>6. disabled.active = No /\ noticed.active = No /\ noticed.scanner = "idle"
  BY MadeParts
<1>7. back.active = Yes /\ back.wasDisabled = Yes /\ back.continuous = Yes /\ back.scanner = "idle"
  BY MadeParts
<1>8. on.changes = 2 /\ done.scanner = "starting"
  BY MadeParts
<1> HIDE DEF new, disabled, noticed, back, awake, on, done
<1>9. Loop(disabled) = noticed
  BY <1>3, <1>6 DEF Loop, Yes, No
<1>10. Enabled(back) = on
  BY <1>4, <1>5, <1>7 DEF Enabled, Yes, No
<1>11. Loop(back) = Decided(done)
  BY <1>4, <1>7, <1>8, <1>10 DEF Loop, Processed, Yes
<1>12. Decided(done) = done
  BY <1>8 DEF Decided
<1>13. Starts(back)
  BY <1>7, <1>8, <1>11, <1>12 DEF Starts
<1>14. ~Starts(disabled) /\ ~Counts(disabled)
  BY <1>6, <1>9 DEF Starts, Counts, No
<1> QED
  BY <1>1, <1>2, <1>3, <1>6, <1>9, <1>13, <1>14 DEF DisabledStaysOff, Yes, No

LEMMA FailureHolds == FailureIsNative("replacement")
<1> DEFINE new     == Made(Yes, No, No, "failed", 0, {})
           failed  == Made(Yes, No, Yes, "failed", 1, {})
           stopped == Made(Yes, No, Yes, "stopping", 1, {})
<1>1. [NewTracker EXCEPT !.scanner = "failed"] = new
  BY NewIsMade
<1>2. Restored("replacement", new) = failed
  BY MadeRestored
<1>3. Enabled(failed) = failed /\ Loop(failed) = stopped
  BY MadeLoop
<1>4. Counts(failed) /\ ~Starts(failed)
  BY MadeCounts, WokenScans
<1>5. failed.scanner = "failed"
  BY MadeParts
<1>6. ScannerEvent(stopped, "idle") = Made(Yes, No, Yes, "idle", 2, {})
  <2>1. ScannerEvent(stopped, "idle") = Made(Yes, No, Yes, "idle", 1 + 1, {})
    BY MadeEvent
  <2> QED
    BY <2>1
<1> HIDE DEF new, failed, stopped
<1>7. Recovers(failed)
  BY <1>3, <1>4, <1>5 DEF Recovers
<1> QED
  BY <1>1, <1>2, <1>3, <1>4, <1>6, <1>7, WokenScans DEF FailureIsNative

\* With ESPHome's own setter nothing is recorded.
LEMMA OriginalStrands == ~IdleIsWoken("original")
<1> DEFINE new   == Made(Yes, No, No, "idle", 0, {})
           lost  == Made(Yes, No, Yes, "idle", 0, {})
<1>1. NewTracker = new /\ Loop(new) = new
  BY NewIsMade, MadeLoop
<1>2. [new EXCEPT !.continuous = Yes] = lost
  BY DEF Made
<1>3. lost.changes = 0
  BY MadeParts
<1> HIDE DEF new, lost
<1>4. Restored("original", new) = lost
  BY <1>2 DEF Restored, SetScanContinuous, OriginalSetter, Yes
<1> QED
  BY <1>1, <1>3, <1>4 DEF IdleIsWoken

\* The contract can only pass on the pinned sources: the loop scans again with the
\* replacement, in all eight scenarios, and is stranded with what it replaces.
THEOREM ContractIsKept == Spec => ContractPasses
<1>1. RegressionControl
  BY IdleHolds, BusyHolds, StoppingHolds, StartingHolds, DisabledHolds, FailureHolds,
     OriginalStrands
  DEF RegressionControl, Verdict
<1>2. RuntimeContract /\ PinnedSource => contract' = "passed"
  BY <1>1 DEF RuntimeContract
<1> QED
  BY <1>2, PTL DEF Spec, ContractPasses

=============================================================================
