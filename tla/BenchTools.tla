----------------------------- MODULE BenchTools -----------------------------
(***************************************************************************)
(* The bench tools: any of them is started, again and again, with a new    *)
(* name or one that is taken, and may be interrupted at any point.         *)
(***************************************************************************)
EXTENDS LogTools, PlutoConsole, IqDecoder

Tools == {"bridge-log", "serial-capture", "rf-test",
          "pluto-console", "pluto-capture", "decode-iq"}

vars == <<benchVars, logVars, captureVars, consoleVars, decoderVars>>

Init == BenchInit(Tools) /\ LogInit /\ CaptureInit /\ ConsoleInit /\ DecoderInit

\* Ctrl-C: what the tool holds is released, a child is not told.  While pluto-capture.py
\* waits for its child it is caught: CaptureGivenUp.
KeyboardInterrupt ==
  /\ ~Idle /\ ~At("pluto-capture", "waiting")
  /\ Fail
  /\ UNCHANGED <<logVars, captureVars, consoleVars, decoderVars>>

Next ==
  \/ Start /\ UNCHANGED <<logVars, captureVars, consoleVars, decoderVars>>
  \/ Rival /\ UNCHANGED <<logVars, captureVars, consoleVars, decoderVars>>
  \/ KeyboardInterrupt
  \/ LogNext /\ UNCHANGED <<captureVars, consoleVars, decoderVars>>
  \/ CaptureNext /\ UNCHANGED <<logVars, consoleVars, decoderVars>>
  \/ ConsoleNext /\ UNCHANGED <<logVars, captureVars, decoderVars>>
  \/ DecoderNext /\ UNCHANGED <<logVars, captureVars, consoleVars>>

Spec == Init /\ [][Next]_vars

-----------------------------------------------------------------------------
\* Whatever happens on the way (a file that exists or appears, an interrupt, a child
\* that is left behind, lines that do not fit or come late), every tool keeps the promise
\* of Recordings: no file is replaced, only who was given a file writes to it and not
\* after closing it, nothing is reported while a child may still write, and the counts
\* a tool prints are those of its file (open("x") in
\* bridge-log.py:25, serial-capture.py:29, esphome-rf-test.py:24, pluto-console.py:85,
\* pluto-capture.py:44 and decode-iq.py:88).
Promise == INSTANCE Recordings
  WITH Items <- {[bytes |-> b, what |-> w] : b \in {1} \cup LineBytes, w \in 0 .. Samples}

KeepsRecordings == Promise!RecordingSpec

\* What is reported of a capture is as recorded, although a job may have been cut short
\* or gone on without its host, an exit code says nothing of the length, and the console
\* loses and damages lines.  A capture and its download are whole; a download by itself
\* is all that the device still holds of a capture that has ended well by its exit code,
\* short or not (pluto-console.py:181-195, pluto-capture.py:57-61).
Reports(t) == tool = t /\ report' # report /\ report' # R!NoReport

ReportedIsComplete ==
  [][/\ Reports("pluto-capture") => dest.content = Recording(Samples)
     /\ Reports("pluto-console") =>
          /\ dest.content = Recording(iq) /\ status = "ok"
          /\ action = "capture and download" => iq = Samples]_vars

\* Every frame that decodes at some phase is reported exactly once and in order, those
\* at the border of two blocks too, and nothing else is (decode-iq.py:57-75).
Intact == {tx \in heard : Decodes(tx) # {}}

FramesOnce ==
  pc \in {"opening", "writing", "ended"} /\ tool = "decode-iq" =>
    /\ Len(packets) = Cardinality(Intact)
    /\ \A tx \in Intact : \E i \in 1 .. Len(packets) :
         packets[i].payload = tx.payload /\ packets[i].sample \in Decodes(tx)
    /\ \A i \in 2 .. Len(packets) : packets[i - 1].sample < packets[i].sample

=============================================================================
