---------------------------- MODULE TrackerBuild ----------------------------
(***************************************************************************)
(* How a firmware image with the Bluetooth scan pause is built: the code   *)
(* generator of the component (__init__.py), the pre-script that patches   *)
(* the build's own copy of one ESPHome header (ble_tracker_compat.py), the *)
(* #error that stops a build without it, and the runtime contract a        *)
(* developer runs against the installed ESPHome                            *)
(* (test-ble-tracker-runtime.py).                                          *)
(*                                                                         *)
(* A source file is known by what it is: the pinned original, the pinned   *)
(* original patched, the beginning of the patched one, or anything else.   *)
(* ESPHome may be upgraded between builds, it refreshes the build's copy   *)
(* or keeps it, and a build may be killed while the header is written.     *)
(***************************************************************************)
EXTENDS BleTracker

VARIABLES
  installed,  \* the installed ESPHome: its version and its tracker sources
  copy,       \* the version and the header in the build's copy of ESPHome
  options,    \* the define and the pre-script to_code() asked for
  stage,      \* how far the build is
  image,      \* the last image built, or NoImage
  contract    \* the outcome of the last runtime contract

buildVars == <<installed, copy, options, stage, image, contract>>

-----------------------------------------------------------------------------
Versions == {"pinned", "other"}
Headers  == {"original", "patched", "truncated", "changed"}
Stages   == {"ready", "generated", "writing", "checked", "refused"}

Esphome == [version : Versions, header : {"original", "changed"}, loop : {"pinned", "other"}]
Copies  == [version : Versions, header : Headers]
Images  == [pause : BOOLEAN, version : Versions, header : Headers]
NoImage == [pause |-> FALSE, version |-> "other", header |-> "changed"]

BuildTypeOK ==
  /\ installed \in Esphome
  /\ copy \in Copies
  /\ options \in [pause : BOOLEAN, script : BOOLEAN]
  /\ stage \in Stages
  /\ image \in Images
  /\ contract \in {"none", "passed", "failed"}

BuildInit ==
  /\ installed \in Esphome
  /\ copy = [version |-> installed.version, header |-> installed.header]
  /\ options = [pause |-> FALSE, script |-> FALSE]
  /\ stage = "ready" /\ image = NoImage /\ contract = "none"

-----------------------------------------------------------------------------
\* What to_code() asks for: both or neither, by ble_tracker_id.
ToCode(tracker) == [pause |-> tracker, script |-> tracker]

\* ESPHome runs to_code() and copies its sources; a copy it takes to be up to date
\* is left as it is.
Generate(tracker) ==
  /\ stage = "ready"
  /\ options' = ToCode(tracker)
  /\ \E header \in {installed.header, copy.header} :
       copy' = [version |-> installed.version, header |-> header]
  /\ stage' = "generated"
  /\ UNCHANGED <<installed, image, contract>>

\* A slip: a header already patched is accepted before the version is read.
AcceptsOlderPatch == copy.version = "pinned" \/ copy.header = "patched"

\* The two tests of patch_project(), in their order.
PinnedVersion == copy.version = "pinned"

KnownHeader == copy.header \in {"original", "patched"}

\* patch_project() up to write_text(), which truncates the header.
PatchProject ==
  /\ stage = "generated" /\ options.script
  /\ IF ~PinnedVersion \/ ~KnownHeader
       THEN stage' = "refused" /\ copy' = copy
       ELSE IF copy.header = "patched"
         THEN stage' = "checked" /\ copy' = copy
         ELSE stage' = "writing" /\ copy' = [copy EXCEPT !.header = "truncated"]
  /\ UNCHANGED <<installed, options, image, contract>>

PatchWritten ==
  /\ stage = "writing"
  /\ stage' = "checked" /\ copy' = [copy EXCEPT !.header = "patched"]
  /\ UNCHANGED <<installed, options, image, contract>>

\* The build is killed.
BuildKilled ==
  /\ stage \in {"generated", "writing", "checked"}
  /\ stage' = "ready"
  /\ UNCHANGED <<installed, copy, options, image, contract>>

\* The replacement defines NORMAN_RF_TRACKER_POLICY_WAKEUP; half a header may.
WakeupDefined(header) == header \in {"patched", "truncated"}

\* norman_rf_monitor.h is compiled, or stopped by its #error.
Compile ==
  /\ stage = IF options.script THEN "checked" ELSE "generated"
  /\ stage' = "ready"
  /\ image' = IF options.pause /\ ~WakeupDefined(copy.header)
                THEN image
                ELSE [pause |-> options.pause, version |-> copy.version, header |-> copy.header]
  /\ UNCHANGED <<installed, copy, options, contract>>

BuildRefused ==
  /\ stage = "refused"
  /\ stage' = "ready"
  /\ UNCHANGED <<installed, copy, options, image, contract>>

\* Another ESPHome is installed.
Upgrade ==
  /\ stage = "ready"
  /\ installed' \in Esphome
  /\ UNCHANGED <<copy, options, stage, image, contract>>

-----------------------------------------------------------------------------
\* pinned_source(): the contract runs on the pinned sources only.
PinnedSource ==
  /\ installed.version = "pinned"
  /\ installed.header = "original"
  /\ installed.loop = "pinned"

\* The harness with the replacement passes; with ESPHome's setter it must fail on
\* the stranded scanner.
RegressionControl ==
  /\ Verdict("replacement") = "passed"
  /\ Verdict("original") = "restoration must wake"

RuntimeContract ==
  /\ stage = "ready"
  /\ contract' = IF PinnedSource /\ RegressionControl THEN "passed" ELSE "failed"
  /\ UNCHANGED <<installed, copy, options, stage, image>>

BuildNext ==
  \/ \E tracker \in BOOLEAN : Generate(tracker)
  \/ PatchProject \/ PatchWritten \/ Compile \/ BuildRefused
  \/ BuildKilled \/ Upgrade
  \/ RuntimeContract

-----------------------------------------------------------------------------
\* An image with the scan pause was compiled from the one ESPHome release, and the
\* one header of it, the replacement was written for, whatever was upgraded,
\* interrupted or left behind by earlier builds (ble_tracker_compat.py:12-24).
ImageIsPinned ==
  image.pause => image.version = "pinned" /\ image.header = "patched"

\* On the pinned ESPHome the contract passes: the loop with the replacement restarts
\* an idle scanner, and only then, through eight scenarios of clients, scanner states
\* and failures, and the original strands it (test-ble-tracker-runtime.py:71-135, 208-267).
ContractPasses ==
  [][RuntimeContract /\ PinnedSource => contract' = "passed"]_buildVars

=============================================================================
