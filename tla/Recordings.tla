----------------------------- MODULE Recordings -----------------------------
(***************************************************************************)
(* What every bench tool that leaves a file behind promises about it: a    *)
(* file that exists is never replaced; a file of the tool's own only       *)
(* grows, and only while the tool, or a child that was given the file,     *)
(* holds it open; and what the tool reports in the end is what the file    *)
(* holds, now that nobody writes to it any more.                           *)
(***************************************************************************)
EXTENDS Integers, Sequences, FiniteSets

CONSTANT Items   \* what is written at once: [bytes, what]

VARIABLES
  dest,    \* the destination of the current run; its writers hold it open
  report   \* the report of the current run, or NoReport

promiseVars == <<dest, report>>

Owners == {"none", "other", "tool"}

Writers == {"tool", "child"}

File(owner, writers, content) == [owner |-> owner, writers |-> writers, content |-> content]

Absent == File("none", {}, <<>>)

Foreign == File("other", {}, <<>>)

\* The bytes of a file, each where it is.
Places(content) == UNION {{i} \X (1 .. content[i].bytes) : i \in 1 .. Len(content)}

Bytes(content) == Cardinality(Places(content))

\* What a file can be reported to hold.
Facts(content) == [items |-> Len(content), bytes |-> Bytes(content)]

NoReport == [items |-> -1, bytes |-> -1]

RecordingInit == dest \in {Absent, Foreign} /\ report = NoReport

-----------------------------------------------------------------------------
\* A tool is started, for a new name or for one that is taken; a child that an earlier
\* run left behind may still write to what is there.
Aim ==
  /\ "tool" \notin dest.writers
  /\ dest' \in {Absent, [dest EXCEPT !.owner = "other"]} /\ report' = NoReport

\* Somebody else creates the file.
Rival == dest = Absent /\ dest' = Foreign /\ UNCHANGED report

\* The exclusive modes "x" and "xb".
Create ==
  /\ dest = Absent
  /\ dest' = File("tool", {"tool"}, <<>>)
  /\ UNCHANGED report

\* A child is started, with the file for its output.
Hand ==
  /\ "tool" \in dest.writers
  /\ dest' = [dest EXCEPT !.writers = Writers]
  /\ UNCHANGED report

Grow(item) ==
  /\ dest.writers # {}
  /\ dest' = [dest EXCEPT !.content = Append(@, item)]
  /\ UNCHANGED report

Close(processes) == dest' = [dest EXCEPT !.writers = @ \ processes] /\ UNCHANGED report

Report ==
  /\ dest.owner = "tool" /\ dest.writers = {} /\ report = NoReport
  /\ report' = Facts(dest.content)
  /\ UNCHANGED dest

RecordingNext ==
  \/ Aim \/ Rival \/ Create \/ Hand \/ Report
  \/ \E processes \in SUBSET Writers : Close(processes)
  \/ \E item \in Items : Grow(item)

RecordingSpec == RecordingInit /\ [][RecordingNext]_promiseVars

=============================================================================
