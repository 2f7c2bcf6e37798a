---------------------------- MODULE PlutoCapture ----------------------------
(***************************************************************************)
(* pluto-capture.py: a capture written straight to the host's disk by a    *)
(* child process.  The child writes to the file by itself, so the tool     *)
(* must see it ended before it believes the file; when the tool leaves     *)
(* before it waits for the child, or while it is about to kill it, the     *)
(* child stays behind and writes on.  A sample is one item.                *)
(***************************************************************************)
EXTENDS Bench

CONSTANT Samples   \* samples asked for

ASSUME CaptureAssumption == Samples \in Nat

VARIABLES
  child,      \* iio_readdev: "none", "running", "ok" or "failed" when it has ended; of an
              \* earlier run if it still writes to the file in question
  sidecar     \* whether <name>.metadata.json exists

captureVars == <<child, sidecar>>

CaptureInit == child = "none" /\ sidecar = FALSE

Sample(number) == [bytes |-> 1, what |-> number]

Recording(length) == [number \in 1 .. length |-> Sample(number)]

-----------------------------------------------------------------------------
\* Parameters, an existing name and the free space; then the radio is set up, and
\* any of the settings may fail.
CaptureRefused ==
  /\ At("pluto-capture", "started")
  /\ Fail /\ UNCHANGED captureVars

CaptureAccepted ==
  /\ At("pluto-capture", "started") /\ ~Exists
  /\ GoTo("opening") /\ child' = "none"
  /\ sidecar' \in BOOLEAN
  /\ UNCHANGED <<dest, report, link>>

CaptureOpened == At("pluto-capture", "opening") /\ OpenExclusive("spawning") /\ UNCHANGED captureVars

\* Popen(): the child has the file for its output.
Spawned ==
  /\ At("pluto-capture", "spawning")
  /\ child' = "running" /\ dest' = [dest EXCEPT !.writers = R!Writers]
  /\ GoTo("announcing")
  /\ UNCHANGED <<report, link, sidecar>>

NotSpawned == At("pluto-capture", "spawning") /\ Fail /\ UNCHANGED captureVars

\* The start is printed before the child is anybody's to kill: when the output is gone
\* the tool ends, the child does not.
Announced ==
  /\ At("pluto-capture", "announcing")
  /\ GoTo("waiting")
  /\ UNCHANGED <<dest, report, link, captureVars>>

NotAnnounced == At("pluto-capture", "announcing") /\ Fail /\ UNCHANGED captureVars

\* The child, with the tool or without it.
ChildWrites ==
  /\ "child" \in dest.writers /\ Len(dest.content) < Samples
  /\ dest' = [dest EXCEPT !.content = Append(@, Sample(Len(@) + 1))]
  /\ UNCHANGED <<tool, pc, report, link, captureVars>>

ChildEnds(code) ==
  /\ child = "running"
  /\ child' = code
  /\ dest' = [dest EXCEPT !.writers = @ \ {"child"}]
  /\ UNCHANGED <<tool, pc, report, link, sidecar>>

\* A slip: a timeout of communicate() is passed over; returncode is None, not an error.
AnyChild == TRUE

ChildOver == child \in {"ok", "failed"}

\* communicate() returned; the descriptor is closed either way.
ChildAwaited ==
  /\ At("pluto-capture", "waiting") /\ ChildOver
  /\ Closed
  /\ IF child = "failed" THEN Leave ELSE GoTo("checking") /\ UNCHANGED link
  /\ UNCHANGED <<report, captureVars>>

\* A timeout or Ctrl-C.
CaptureGivenUp ==
  /\ At("pluto-capture", "waiting")
  /\ GoTo("killing")
  /\ UNCHANGED <<dest, report, link, captureVars>>

\* The child is killed and waited for, unless Ctrl-C comes once more.
ChildKilled ==
  /\ At("pluto-capture", "killing")
  /\ child' = "failed" /\ dest' = [dest EXCEPT !.writers = {}]
  /\ Leave /\ UNCHANGED <<report, sidecar>>

\* A slip: the child's exit code is enough.
AnyRecording == TRUE

WholeRecording == Len(dest.content) = Samples

CaptureTruncated ==
  /\ At("pluto-capture", "checking") /\ ~WholeRecording
  /\ Fail /\ UNCHANGED captureVars

\* The metadata needs a new file as well.
CaptureReported ==
  /\ At("pluto-capture", "checking") /\ WholeRecording
  /\ Leave /\ UNCHANGED dest
  /\ IF sidecar THEN UNCHANGED report
                ELSE report' = [items |-> Samples, bytes |-> Samples]
  /\ sidecar' = TRUE
  /\ UNCHANGED child

CaptureNext ==
  \/ CaptureRefused \/ CaptureAccepted \/ CaptureOpened
  \/ Spawned \/ NotSpawned \/ Announced \/ NotAnnounced
  \/ ChildWrites \/ (\E code \in {"ok", "failed"} : ChildEnds(code))
  \/ ChildAwaited \/ CaptureGivenUp \/ ChildKilled \/ CaptureTruncated \/ CaptureReported

=============================================================================
