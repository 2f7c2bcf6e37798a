---------------------------- MODULE PlutoConsole ----------------------------
(***************************************************************************)
(* pluto-console.py: captures made on a Pluto over its serial console,     *)
(* which stay on the device and are transferred later, through an ASCII    *)
(* envelope and a channel that loses and damages lines.  The device keeps  *)
(* its files, and a capture that still runs, from one run of the tool to   *)
(* the next; a command that times out on the host goes on there.           *)
(*                                                                         *)
(* A file of the device is as many samples as it holds, a line of the      *)
(* envelope carries one sample.                                            *)
(***************************************************************************)
EXTENDS PlutoCapture

VARIABLES
  console,   \* what the device's console shows, "busy" while a capture runs
  iq,        \* samples in <label>.iq, or NoFile
  status,    \* <label>.status: "none", "ok" (0) or "failed"
  action,    \* the subcommand of this run
  expected,  \* the size the device listed
  line       \* the next line of the envelope

deviceVars  == <<console, iq, status>>
consoleVars == <<deviceVars, action, expected, line>>

NoFile == -1

ConsoleInit ==
  /\ console = "login"
  /\ iq = NoFile /\ status = "none"
  /\ action = "info" /\ expected = 0 /\ line = 0

Host(place) == At("pluto-console", place)

\* The host gives up; the device is not told.
GiveUp == Fail /\ UNCHANGED consoleVars

-----------------------------------------------------------------------------
(* Console.__init__() and prompt().                                        *)

\* Ctrl-C: a capture that runs is stopped short, with any exit code or with none.
Interrupted ==
  IF console = "busy"
    THEN console' = "shell" /\ status' \in {status, "ok", "failed"}
    ELSE UNCHANGED <<console, status>>

ConsoleOpened ==
  /\ Host("started")
  /\ action' \in {"info", "capture", "capture and download", "download"}
  /\ link' = TRUE /\ GoTo("greeting")
  /\ Interrupted
  /\ UNCHANGED <<dest, report, iq, expected, line>>

\* A half-entered login is cancelled.
PasswordCancelled ==
  /\ Host("greeting") /\ console = "password"
  /\ console' = "login"
  /\ UNCHANGED <<benchVars, iq, status, action, expected, line>>

UserSent ==
  /\ Host("greeting") /\ console = "login"
  /\ console' = "password" /\ GoTo("authenticating")
  /\ UNCHANGED <<dest, report, link, iq, status, action, expected, line>>

PasswordSent(right) ==
  /\ Host("authenticating")
  /\ console' = IF right THEN "shell" ELSE "login"
  /\ IF right THEN GoTo("ready") /\ UNCHANGED <<dest, report, link>> ELSE Fail
  /\ UNCHANGED <<iq, status, action, expected, line>>

AlreadyLoggedIn ==
  /\ Host("greeting") /\ console = "shell"
  /\ GoTo("ready")
  /\ UNCHANGED <<dest, report, link, consoleVars>>

\* No prompt in six seconds, no password in the environment, a command that fails
\* or whose marker is not seen in time.
NoAnswer ==
  /\ \E place \in {"greeting", "authenticating", "ready", "waiting", "checking", "listing"} :
       Host(place)
  /\ GiveUp

-----------------------------------------------------------------------------
(* info and capture.                                                       *)

Info == Host("ready") /\ action = "info" /\ GiveUp

\* The settings, the first of which is that the label is not in use; then the job.
CaptureStarted ==
  /\ Host("ready") /\ action \in {"capture", "capture and download"}
  /\ iq = NoFile
  /\ console' = "busy" /\ iq' = 0 /\ GoTo("waiting")
  /\ UNCHANGED <<dest, report, link, status, action, expected, line>>

\* The marker came with the job's exit code.
JobAnswered ==
  /\ Host("waiting") /\ console = "shell"
  /\ IF status = "ok" /\ action = "capture and download"
       THEN GoTo("checking") /\ UNCHANGED <<dest, report, link>>
       ELSE Fail
  /\ UNCHANGED consoleVars

DeviceStep(samples, code, shows) ==
  /\ console = "busy"
  /\ iq' = samples /\ status' = code /\ console' = shows
  /\ UNCHANGED <<benchVars, action, expected, line>>

JobWrites == iq < Samples /\ DeviceStep(iq + 1, status, "busy")

\* Only the exit code is kept, and it says nothing of how much was written.
JobEnds(code) == DeviceStep(iq, code, "shell")

\* The device is power-cycled: /tmp is empty and its console asks for a login.
DeviceRestarts ==
  /\ Idle
  /\ console' = "login" /\ iq' = NoFile /\ status' = "none"
  /\ UNCHANGED <<benchVars, action, expected, line>>

-----------------------------------------------------------------------------
(* download().                                                             *)

DownloadAsked ==
  /\ Host("ready") /\ action = "download"
  /\ GoTo("checking")
  /\ UNCHANGED <<dest, report, link, consoleVars>>

\* A slip: the exit code the device kept is not looked at.
AnyStatus == TRUE

CaptureFinished == status = "ok"

StatusChecked ==
  /\ Host("checking") /\ CaptureFinished
  /\ GoTo("listing")
  /\ UNCHANGED <<dest, report, link, consoleVars>>

\* A slip: whatever the device holds is downloaded.
AnySize == iq > 0

\* A size of zero, or after a capture one that was not asked for, is refused; a download
\* by itself does not know what was asked for.
RightSize == iq > 0 /\ (action = "download" \/ iq = Samples)

\* Size and hash.
Listed ==
  /\ Host("listing")
  /\ expected' = iq
  /\ IF RightSize
       THEN GoTo("opening") /\ UNCHANGED <<dest, report, link>>
       ELSE Fail
  /\ UNCHANGED <<deviceVars, action, line>>

TransferOpened ==
  /\ Host("opening")
  /\ OpenExclusive("transferring")
  /\ line' = 0
  /\ UNCHANGED <<deviceVars, action, expected>>

\* Line 0 is the envelope's header, the samples follow, then the trailer line and the marker.
IsSample == line \in 1 .. iq
IsMarker == line = iq + 2

Passed == line' = line + 1 /\ UNCHANGED <<deviceVars, action, expected>>

Transferring == Host("transferring") /\ UNCHANGED <<report, link>>

\* A payload line is decoded and written.
Payload(sample) ==
  /\ Transferring /\ IsSample
  /\ Write(sample) /\ UNCHANGED <<tool, pc>>
  /\ Passed

LineRead == Payload(Sample(line))

\* Damaged, but still base64.
LineDamaged == Payload(Sample(0))

\* Read without effect: the trailer, or a header that the channel did not lose.
LineSkipped ==
  /\ Transferring /\ ~IsSample /\ ~IsMarker
  /\ Passed /\ UNCHANGED <<tool, pc, dest>>

LineLost ==
  /\ Transferring /\ line <= iq + 1
  /\ IF line = 0 THEN line' = iq + 1 /\ UNCHANGED <<deviceVars, action, expected>> ELSE Passed
  /\ UNCHANGED <<tool, pc, dest>>

MarkerRead ==
  /\ Transferring /\ IsMarker
  /\ Closed /\ GoTo("verifying")
  /\ UNCHANGED consoleVars

\* Not base64 at all, or nothing more for twenty seconds.
TransferFails == Host("transferring") /\ GiveUp

\* A slip: the length is enough.
LengthOnly == Len(dest.content) = expected

\* The length, then SHA256 against what the device listed.
Verified == Len(dest.content) = expected /\ dest.content = Recording(expected)

NotVerified == Host("verifying") /\ ~Verified /\ GiveUp

TransferReported ==
  /\ Host("verifying") /\ Verified
  /\ report' = [items |-> expected, bytes |-> expected]
  /\ Leave /\ UNCHANGED <<dest, consoleVars>>

ConsoleNext ==
  \/ ConsoleOpened \/ PasswordCancelled \/ UserSent \/ AlreadyLoggedIn
  \/ (\E right \in BOOLEAN : PasswordSent(right)) \/ NoAnswer
  \/ Info \/ CaptureStarted \/ JobAnswered
  \/ JobWrites \/ (\E code \in {"ok", "failed"} : JobEnds(code)) \/ DeviceRestarts
  \/ DownloadAsked \/ StatusChecked \/ Listed \/ TransferOpened
  \/ LineRead \/ LineDamaged \/ LineSkipped \/ LineLost \/ MarkerRead \/ TransferFails
  \/ NotVerified \/ TransferReported

=============================================================================
