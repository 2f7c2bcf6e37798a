-------------------------------- MODULE Bench --------------------------------
(***************************************************************************)
(* What the bench tools under scripts/ have in common: a tool works on one *)
(* destination file on the host, holds one connection (a native API client *)
(* or a serial port), and ends with a report or without one.  It may be    *)
(* run again and again, and may be interrupted from the keyboard.          *)
(***************************************************************************)
EXTENDS Integers, Sequences, FiniteSets

CONSTANT MaxItems   \* bound: what is written to one file

VARIABLES
  tool,    \* the tool that is used
  pc,      \* where it is
  dest,    \* the destination file: who made it, who writes to it, what is in it
  report,  \* the report it ends with, or NoReport
  link     \* its connection

benchVars == <<tool, pc, dest, report, link>>

\* The destination, as the promise has it.
R == INSTANCE Recordings WITH Items <- {}

Idle == pc = "idle"

BenchInit(tools) ==
  /\ tool \in tools /\ pc = "idle" /\ link = FALSE
  /\ R!RecordingInit

At(t, place) == tool = t /\ pc = place

GoTo(place) == pc' = place /\ UNCHANGED tool

\* Started with a name; each tool refuses one that exists.
Start == Idle /\ GoTo("started") /\ R!Aim /\ UNCHANGED link

\* Another program creates the destination.
Rival == ~Idle /\ R!Rival /\ UNCHANGED <<tool, pc, link>>

Exists == dest.owner # "none"

\* The end of a run, reported or not: `with' and `finally' have closed what was open; a
\* child that lives on keeps what it was given.
Leave == GoTo("idle") /\ link' = FALSE

Closed == dest' = [dest EXCEPT !.writers = @ \ {"tool"}]

\* It gives up: an error, or Ctrl-C.
Fail == Leave /\ Closed /\ UNCHANGED report

\* A slip: open("w"), which truncates what is there.
OpenAnyway(next) ==
  /\ dest' = R!File("tool", {"tool"}, <<>>)
  /\ GoTo(next) /\ UNCHANGED <<report, link>>

\* open("x") or open("xb"): FileExistsError, or an empty file of the tool's own.
OpenExclusive(next) ==
  \/ Exists /\ Fail
  \/ /\ ~Exists
     /\ dest' = R!File("tool", {"tool"}, <<>>)
     /\ GoTo(next) /\ UNCHANGED <<report, link>>

Write(item) ==
  /\ Len(dest.content) < MaxItems
  /\ dest' = [dest EXCEPT !.content = Append(@, item)]

=============================================================================
