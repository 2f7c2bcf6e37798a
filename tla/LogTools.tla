------------------------------ MODULE LogTools ------------------------------
(***************************************************************************)
(* The tools that record text: bridge-log.py (a bounded log of a bridge    *)
(* over the native API), serial-capture.py (the UART log of a board) and   *)
(* esphome-rf-test.py (the log of one explicit transmission, for an old    *)
(* firmware).  A line is its length.                                       *)
(***************************************************************************)
EXTENDS Bench

CONSTANTS LineBytes,   \* lengths of log lines
          MaxBytes     \* --max-bytes of bridge-log.py

ASSUME LogAssumption == LineBytes \subseteq Nat

VARIABLES
  size, count,     \* what bridge-log.py counted
  limitReached,    \* its limit event
  requested        \* whether esphome-rf-test.py asked for its transmission

logVars == <<size, count, limitReached, requested>>

LogInit == size = 0 /\ count = 0 /\ limitReached = FALSE /\ requested = FALSE

Line(length) == [bytes |-> length, what |-> 0]

Lines == {Line(length) : length \in LineBytes}

Log(length) == Write(Line(length)) /\ UNCHANGED <<tool, pc, report, link>>

-----------------------------------------------------------------------------
(* bridge-log.py                                                           *)

\* main() refuses a name that is taken before it connects.
LogRefused == At("bridge-log", "started") /\ Exists /\ Fail /\ UNCHANGED logVars

LogAccepted ==
  /\ At("bridge-log", "started") /\ ~Exists
  /\ GoTo("opening")
  /\ size' = 0 /\ count' = 0 /\ limitReached' = FALSE
  /\ UNCHANGED <<dest, report, link, requested>>

LogOpened == At("bridge-log", "opening") /\ OpenExclusive("connecting") /\ UNCHANGED logVars

LogSubscribed ==
  /\ At("bridge-log", "connecting")
  /\ link' = TRUE /\ GoTo("recording")
  /\ UNCHANGED <<dest, report, logVars>>

\* A slip: the line is counted before it is known to fit.
OnLogCountsFirst(length) ==
  /\ At("bridge-log", "recording")
  /\ size' = size + length /\ count' = count + 1
  /\ IF size' > MaxBytes
       THEN limitReached' = TRUE /\ UNCHANGED benchVars
       ELSE Log(length) /\ UNCHANGED limitReached
  /\ UNCHANGED requested

\* on_log(): a line that does not fit sets the limit; later ones are still offered
\* until record() wakes up.
OnLog(length) ==
  /\ At("bridge-log", "recording")
  /\ IF size + length > MaxBytes
       THEN limitReached' = TRUE /\ UNCHANGED <<benchVars, size, count>>
       ELSE /\ Log(length)
            /\ size' = size + length /\ count' = count + 1
            /\ UNCHANGED limitReached
  /\ UNCHANGED requested

\* The limit, or the time, is reached: disconnected, then the file is closed.
LogEnded ==
  /\ At("bridge-log", "recording")
  /\ link' = FALSE /\ Closed /\ GoTo("ended")
  /\ UNCHANGED <<report, logVars>>

LogReported ==
  /\ At("bridge-log", "ended")
  /\ report' = [items |-> count, bytes |-> size]
  /\ Leave /\ UNCHANGED <<dest, logVars>>

BridgeLog ==
  \/ LogRefused \/ LogAccepted \/ LogOpened \/ LogSubscribed
  \/ \E length \in LineBytes : OnLog(length)
  \/ LogEnded \/ LogReported

-----------------------------------------------------------------------------
(* serial-capture.py                                                       *)

\* The port is opened first, and closed whatever happens.
PortOpened ==
  /\ At("serial-capture", "started")
  /\ link' = TRUE /\ GoTo("opening")
  /\ UNCHANGED <<dest, report, logVars>>

SerialOpened == At("serial-capture", "opening") /\ OpenExclusive("reading") /\ UNCHANGED logVars

SerialRead(length) ==
  /\ At("serial-capture", "reading") /\ Log(length) /\ UNCHANGED logVars

SerialEnded == At("serial-capture", "reading") /\ Leave /\ Closed /\ UNCHANGED <<report, logVars>>

SerialCapture ==
  \/ PortOpened \/ SerialOpened \/ SerialEnded
  \/ \E length \in LineBytes : SerialRead(length)

-----------------------------------------------------------------------------
(* esphome-rf-test.py                                                      *)

TestRefused == At("rf-test", "started") /\ Exists /\ Fail /\ UNCHANGED logVars

TestConnected ==
  /\ At("rf-test", "started") /\ ~Exists
  /\ link' = TRUE /\ requested' = FALSE /\ GoTo("opening")
  /\ UNCHANGED <<dest, report, size, count, limitReached>>

\* A firmware without the service ends it before the log exists.
TestOpened ==
  /\ At("rf-test", "opening")
  /\ Fail \/ OpenExclusive("requesting")
  /\ UNCHANGED logVars

\* The request is logged, then made, once.
TestRequested(length) ==
  /\ At("rf-test", "requesting") /\ ~requested
  /\ Write(Line(length))
  /\ requested' = TRUE
  /\ UNCHANGED <<tool, pc, report, link, size, count, limitReached>>

\* Lines arrive from subscribe_logs() on, until the log is closed.
TestLog(length) == At("rf-test", "requesting") /\ Log(length) /\ UNCHANGED logVars

\* The log is closed first; a line that comes before the connection is closed too
\* finds a closed file and is lost.
TestSlept ==
  /\ At("rf-test", "requesting") /\ requested
  /\ Closed /\ GoTo("disconnecting")
  /\ UNCHANGED <<report, link, logVars>>

TestEnded == At("rf-test", "disconnecting") /\ Fail /\ UNCHANGED logVars

RfTest ==
  \/ TestRefused \/ TestConnected \/ TestOpened \/ TestSlept \/ TestEnded
  \/ \E length \in LineBytes : TestRequested(length) \/ TestLog(length)

LogNext == BridgeLog \/ SerialCapture \/ RfTest

=============================================================================
