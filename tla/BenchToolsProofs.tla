--------------------------- MODULE BenchToolsProofs ---------------------------
(***************************************************************************)
(* What the bench tools promise for files, captures and recordings of any  *)
(* size: every tool keeps the promise of Recordings, what is reported of a *)
(* capture is complete, and a recording is decoded frame by frame.         *)
(*                                                                         *)
(* The first two rest on one invariant: at which places of a tool it holds *)
(* its file, and a child does; what has been counted of it by then; that   *)
(* a child that has ended writes no more; and that nothing on the device   *)
(* changes between its "ok" and the end of the transfer.                   *)
(*                                                                         *)
(* The third follows the comparison item by item: what is left lies behind *)
(* everything reported, two reports are a window apart, and two samples of *)
(* one frame never are.                                                    *)
(***************************************************************************)
EXTENDS BenchTools, FiniteSetTheorems, SequenceTheorems, TLAPS

-----------------------------------------------------------------------------
(* The invariant.                                                          *)

\* What a tool may write at once, and the files that come of it.
Item  == {[bytes |-> b, what |-> w] : b \in {1} \cup LineBytes, w \in 0 .. Samples}
Files == [owner : {"none", "other", "tool"}, writers : SUBSET {"tool", "child"},
          content : Seq(Item)]

\* A name that is free has no file, and the tool holds no file but its own.
FileInv ==
  /\ dest \in Files
  /\ dest.owner = "none" => dest = R!Absent
  /\ "tool" \in dest.writers => dest.owner = "tool"

\* The places at which a tool writes to its file, and those at which it has closed it
\* and goes on to a report.
Writing ==
  \/ tool = "bridge-log" /\ pc \in {"connecting", "recording"}
  \/ At("serial-capture", "reading")
  \/ At("rf-test", "requesting")
  \/ At("pluto-console", "transferring")
  \/ tool = "pluto-capture" /\ pc \in {"spawning", "announcing", "waiting", "killing"}
  \/ At("decode-iq", "writing")

Written ==
  \/ At("bridge-log", "ended") \/ At("pluto-console", "verifying")
  \/ At("pluto-capture", "checking") \/ At("decode-iq", "ended")

\* The places at which a child of this run may still write.
Shared == tool = "pluto-capture" /\ pc \in {"announcing", "waiting", "killing"}

PlaceInv ==
  /\ Writing => "tool" \in dest.writers
  /\ Writing /\ "child" \in dest.writers => Shared
  /\ Written => dest.owner = "tool" /\ dest.writers = {}
  /\ ~Idle => report = R!NoReport

\* What bridge-log.py has counted is what it has written; for the tools whose items are
\* all of one size, the number of items is the size.
CountInv ==
  /\ At("bridge-log", "opening") => count = 0 /\ size = 0
  /\ tool = "bridge-log" /\ pc \in {"connecting", "recording", "ended"} =>
       count = Len(dest.content) /\ size = Promise!Bytes(dest.content)
  /\ tool \in {"pluto-console", "pluto-capture", "decode-iq"} /\ (Writing \/ Written) =>
       Promise!Bytes(dest.content) = Len(dest.content)
  /\ At("decode-iq", "ended") => Len(dest.content) = Len(packets)

\* Only a child that lives writes to the file, and until the tool is done with it what
\* there is of it is the beginning of the recording.
ChildInv ==
  /\ "child" \in dest.writers => child = "running"
  /\ tool = "pluto-capture" /\ (Writing \/ Written) =>
       dest.content = Recording(Len(dest.content))

\* The device says "ok" only of a capture that is over, and the tool goes on past its
\* checks only with that and with the size it wants: nothing on the device changes until
\* the tool is done.
DeviceInv ==
  /\ iq \in NoFile .. Samples
  /\ console = "busy" => iq # NoFile
  /\ status = "ok" => iq # NoFile /\ console # "busy"
  /\ tool = "pluto-console" /\ pc \in {"listing", "opening", "transferring", "verifying"} =>
       status = "ok"
  /\ tool = "pluto-console" /\ pc \in {"opening", "transferring", "verifying"} =>
       expected = iq /\ (action = "capture and download" => iq = Samples)

ToolInv == PlaceInv /\ CountInv /\ ChildInv /\ DeviceInv

-----------------------------------------------------------------------------
(* Files.                                                                  *)

LEMMA ItemType ==
  /\ \A item \in Item : item.bytes \in Nat
  /\ \A length \in LineBytes : Line(length) \in Item
  /\ \A number \in 0 .. Samples : Sample(number) \in Item /\ Sample(number).bytes = 1
BY LogAssumption, CaptureAssumption DEF Item, Line, Sample

LEMMA SameCardinality == \A S : Promise!Cardinality(S) = Cardinality(S)
BY DEF Promise!Cardinality, Cardinality

LEMMA PlacesFinite ==
  ASSUME NEW content \in Seq(Item)
  PROVE  IsFiniteSet(Promise!Places(content))
<1> DEFINE bytesOf == [i \in 1 .. Len(content) |-> {i} \X (1 .. content[i].bytes)]
           parts   == {bytesOf[i] : i \in 1 .. Len(content)}
<1>1. IsFiniteSet(1 .. Len(content))
  BY FS_Interval
<1>2. bytesOf \in Surjection(1 .. Len(content), parts)
  BY DEF Surjection
<1>3. IsFiniteSet(parts)
  BY <1>1, <1>2, FS_Surjection
<1>4. ASSUME NEW i \in 1 .. Len(content)
      PROVE  IsFiniteSet(bytesOf[i])
  <2>1. 1 \in Int /\ content[i].bytes \in Int
    BY ItemType, ElementOfSeq
  <2>2. IsFiniteSet(1 .. content[i].bytes)
    BY <2>1, FS_Interval
  <2>3. IsFiniteSet({i})
    BY FS_Singleton, Zenon
  <2> QED
    BY <2>2, <2>3, FS_Product
<1>5. Promise!Places(content) = UNION parts
  BY DEF Promise!Places
<1> HIDE DEF bytesOf
<1>6. \A part \in parts : IsFiniteSet(part)
  BY <1>4
<1> HIDE DEF parts
<1> QED
  BY <1>3, <1>5, <1>6, FS_UNION

LEMMA BytesEmpty == Promise!Bytes(<<>>) = 0
<1>1. Promise!Places(<<>>) = {}
  BY DEF Promise!Places
<1> QED
  BY <1>1, FS_EmptySet, SameCardinality, Zenon DEF Promise!Bytes

\* A file grows by the bytes that are written to it.
LEMMA BytesAppend ==
  ASSUME NEW content \in Seq(Item), NEW item \in Item
  PROVE  /\ Promise!Bytes(content) \in Nat
         /\ Promise!Bytes(Append(content, item)) = Promise!Bytes(content) + item.bytes
<1> DEFINE n    == Len(content)
           new  == {n + 1} \X (1 .. item.bytes)
           old  == Promise!Places(content)
<1>1. /\ n \in Nat /\ item.bytes \in Nat
      /\ Len(Append(content, item)) = n + 1
      /\ \A i \in 1 .. n : Append(content, item)[i] = content[i]
      /\ Append(content, item)[n + 1] = item
  BY ItemType
<1>2. Promise!Places(Append(content, item)) = old \cup new
  <2> DEFINE longer == Append(content, item)
  <2>1. /\ 1 .. Len(longer) = (1 .. n) \cup {n + 1}
        /\ \A i \in 1 .. n : longer[i] = content[i]
        /\ longer[n + 1] = item
    BY <1>1
  <2>2. ASSUME NEW place
        PROVE  place \in Promise!Places(longer) <=> place \in old \cup new
    <3>1. place \in Promise!Places(longer) <=>
            \E i \in 1 .. Len(longer) : place \in {i} \X (1 .. longer[i].bytes)
      BY Zenon DEF Promise!Places
    <3>2. place \in old <=> \E i \in 1 .. n : place \in {i} \X (1 .. content[i].bytes)
      BY Zenon DEF Promise!Places
    <3> HIDE DEF longer, old
    <3> QED
      BY <2>1, <3>1, <3>2, Zenon
  <2> QED
    BY <2>2, Zenon
<1>3. old \cap new = {}
  BY <1>1 DEF Promise!Places
<1>4. IsFiniteSet(old) /\ IsFiniteSet(new) /\ Cardinality(new) = item.bytes
  <2>1. IsFiniteSet({n + 1}) /\ Cardinality({n + 1}) = 1
    BY FS_Singleton, Zenon
  <2>2. 1 \in Int /\ item.bytes \in Int
    BY <1>1
  <2>3. /\ IsFiniteSet(1 .. item.bytes)
        /\ Cardinality(1 .. item.bytes) = IF 1 > item.bytes THEN 0 ELSE item.bytes - 1 + 1
    BY <2>2, FS_Interval, Zenon
  <2>4. IsFiniteSet(new) /\ Cardinality(new) = Cardinality({n + 1}) * Cardinality(1 .. item.bytes)
    BY <2>1, <2>3, FS_Product
  <2>5. Cardinality(1 .. item.bytes) = item.bytes
    BY <1>1, <2>3
  <2> QED
    BY <1>1, <2>1, <2>4, <2>5, PlacesFinite
<1>5. Cardinality(old) \in Nat
  BY <1>4, FS_CardinalityType
<1>6. Cardinality(old \cup new) = Cardinality(old) + Cardinality(new) - Cardinality({})
  BY <1>3, <1>4, FS_Union
<1>7. Cardinality({}) = 0
  BY FS_EmptySet
<1> HIDE DEF old, new
<1>8. Cardinality(old \cup new) = Cardinality(old) + item.bytes
  BY <1>1, <1>4, <1>5, <1>6, <1>7
<1>9. /\ Promise!Bytes(content) = Cardinality(old)
      /\ Promise!Bytes(Append(content, item)) = Cardinality(old \cup new)
  BY <1>2, SameCardinality, Zenon DEF Promise!Bytes, old
<1> QED
  BY <1>5, <1>8, <1>9

-----------------------------------------------------------------------------
(* What a step may do to the file, and to the invariant.                   *)

\* A step of the promise, or none.
PromiseStep == [Promise!RecordingNext]_<<dest, report>>

LEMMA PromiseKeepsFile == FileInv /\ PromiseStep => FileInv'
<1> SUFFICES ASSUME FileInv, PromiseStep PROVE FileInv'
  OBVIOUS
<1> USE DEF FileInv, Files
<1>1. CASE Promise!Aim
  <2>1. CASE dest' = Promise!Absent
    BY <2>1 DEF Promise!Absent, R!Absent, Promise!File, R!File
  <2>2. CASE dest' = [dest EXCEPT !.owner = "other"] /\ "tool" \notin dest.writers
    BY <2>2
  <2> QED
    BY <1>1, <2>1, <2>2 DEF Promise!Aim
<1>2. CASE Promise!Rival
  BY <1>2 DEF Promise!Rival, Promise!Foreign, Promise!File
<1>3. CASE Promise!Create
  BY <1>3 DEF Promise!Create, Promise!File
<1>4. ASSUME NEW processes \in SUBSET Promise!Writers, Promise!Close(processes)
      PROVE  FileInv'
  <2>1. dest' = [dest EXCEPT !.writers = dest.writers \ processes]
    BY <1>4 DEF Promise!Close
  <2>2. dest' \in Files /\ dest'.owner = dest.owner /\ dest'.content = dest.content
        /\ dest'.writers = dest.writers \ processes
    BY <2>1
  <2>3. ASSUME dest.owner = "none"
        PROVE  dest' = R!Absent
    <3>1. dest = R!Absent /\ dest.writers = {}
      BY <2>3 DEF R!Absent, R!File
    <3>2. dest' = [dest EXCEPT !.writers = dest.writers]
      BY <2>1, <3>1
    <3>3. dest' = dest
      BY <3>2
    <3> QED
      BY <3>1, <3>3
  <2> QED
    BY <2>2, <2>3
<1>5. CASE Promise!Report
  BY <1>5 DEF Promise!Report
<1>6. ASSUME NEW item \in Item, Promise!Grow(item)
      PROVE  FileInv'
  <2>1. Append(dest.content, item) \in Seq(Item)
    BY <1>6
  <2>2. dest.owner # "none"
    BY <1>6 DEF Promise!Grow, R!Absent, R!File
  <2> QED
    BY <1>6, <2>1, <2>2 DEF Promise!Grow
<1>7. CASE Promise!Hand
  <2>1. dest.owner = "tool" /\ dest' = [dest EXCEPT !.writers = {"tool", "child"}]
    BY <1>7 DEF Promise!Hand, Promise!Writers
  <2> QED
    BY <2>1
<1>8. CASE UNCHANGED <<dest, report>>
  BY <1>8
<1> QED
  BY <1>1, <1>2, <1>3, <1>4, <1>5, <1>6, <1>7, <1>8
  DEF PromiseStep, Promise!RecordingNext, Item

LEMMA ReleaseStep ==
  ASSUME FileInv, NEW processes \in SUBSET {"tool", "child"}, UNCHANGED report,
         dest' = [dest EXCEPT !.writers = @ \ processes]
  PROVE  /\ PromiseStep
         /\ dest'.writers = dest.writers \ processes
         /\ dest'.owner = dest.owner /\ dest'.content = dest.content
<1>1. dest \in Files
  BY DEF FileInv
<1>2. Promise!Close(processes) /\ processes \in SUBSET Promise!Writers
  BY DEF Promise!Close, Promise!Writers
<1>3. PromiseStep
  BY <1>2 DEF PromiseStep, Promise!RecordingNext
<1> QED
  BY <1>1, <1>3 DEF Files

LEMMA CloseStep ==
  ASSUME FileInv, Closed, UNCHANGED report
  PROVE  /\ PromiseStep
         /\ dest'.writers = dest.writers \ {"tool"}
         /\ dest'.owner = dest.owner /\ dest'.content = dest.content
BY ReleaseStep DEF Closed

LEMMA OpenStep ==
  ASSUME FileInv, NEW place, OpenExclusive(place)
  PROVE  /\ PromiseStep
         /\ \/ Fail
            \/ /\ GoTo(place) /\ UNCHANGED <<report, link>>
               /\ dest' = [owner |-> "tool", writers |-> {"tool"}, content |-> <<>>]
<1>1. CASE Fail
  BY <1>1, CloseStep DEF Fail
<1>2. CASE /\ ~Exists /\ GoTo(place) /\ UNCHANGED <<report, link>>
           /\ dest' = [owner |-> "tool", writers |-> {"tool"}, content |-> <<>>]
  <2>1. dest = R!Absent
    BY <1>2 DEF FileInv, Exists
  <2>2. Promise!Create
    BY <1>2, <2>1 DEF Promise!Create, Promise!Absent, R!Absent, Promise!File, R!File
  <2> QED
    BY <1>2, <2>2 DEF PromiseStep, Promise!RecordingNext
<1> QED
  BY <1>1, <1>2 DEF OpenExclusive, R!File

LEMMA WriteStep ==
  ASSUME FileInv, dest.writers # {}, NEW item \in Item, UNCHANGED report,
         dest' = [dest EXCEPT !.content = Append(@, item)]
  PROVE  /\ PromiseStep
         /\ dest'.writers = dest.writers /\ dest'.owner = dest.owner
         /\ dest'.content = Append(dest.content, item)
         /\ Len(dest'.content) = Len(dest.content) + 1
         /\ Promise!Bytes(dest'.content) = Promise!Bytes(dest.content) + item.bytes
<1>1. dest \in Files /\ dest.content \in Seq(Item)
  BY DEF FileInv, Files
<1>2. /\ dest'.writers = dest.writers /\ dest'.owner = dest.owner
      /\ dest'.content = Append(dest.content, item)
  BY <1>1 DEF Files
<1>3. Promise!Grow(item)
  BY DEF Promise!Grow
<1>4. PromiseStep
  BY <1>3 DEF PromiseStep, Promise!RecordingNext, Item
<1>5. Len(dest'.content) = Len(dest.content) + 1
  BY <1>1, <1>2
<1>6. Promise!Bytes(dest'.content) = Promise!Bytes(dest.content) + item.bytes
  BY <1>1, <1>2, BytesAppend
<1> QED
  BY <1>2, <1>4, <1>5, <1>6

LEMMA ReportStep ==
  ASSUME dest.owner = "tool", dest.writers = {}, report = R!NoReport, UNCHANGED dest,
         report' = [items |-> Len(dest.content), bytes |-> Promise!Bytes(dest.content)]
  PROVE  PromiseStep
BY DEF PromiseStep, Promise!RecordingNext, Promise!Report, Promise!Facts, Promise!NoReport,
       R!NoReport

\* A run that ends leaves nothing to hold but its child and what the device is doing.
LEMMA LeaveKeeps ==
  ASSUME ToolInv, ~Idle, GoTo("idle"), DeviceInv',
         "child" \in dest'.writers => child' = "running"
  PROVE  ToolInv'
BY DEF GoTo, ToolInv, PlaceInv, CountInv, ChildInv, Writing, Written, At, Idle

LEMMA FailKeeps ==
  ASSUME FileInv, ToolInv, ~Idle, Fail, DeviceInv', child' = child
  PROVE  PromiseStep /\ ToolInv'
<1>1. PromiseStep /\ dest'.writers = dest.writers \ {"tool"} /\ GoTo("idle")
  BY CloseStep DEF Fail, Leave
<1>2. "child" \in dest'.writers => child' = "running"
  BY <1>1 DEF ToolInv, ChildInv
<1> QED
  BY <1>1, <1>2, LeaveKeeps

\* The tools that have neither a child nor a device.
LEMMA OtherToolKeeps ==
  ASSUME ToolInv, tool' = tool, tool \notin {"pluto-console", "pluto-capture"},
         UNCHANGED <<child, consoleVars>>
  PROVE  /\ DeviceInv'
         /\ ("child" \in dest'.writers => "child" \in dest.writers) => ChildInv'
BY DEF ToolInv, ChildInv, DeviceInv, At, consoleVars, deviceVars

-----------------------------------------------------------------------------
(* The tools that record text.                                             *)

LEMMA StartKeeps ==
  ASSUME FileInv, ToolInv, Start,
         UNCHANGED <<logVars, captureVars, consoleVars, decoderVars>>
  PROVE  PromiseStep /\ ToolInv'
<1>1. pc' = "started" /\ tool' = tool /\ pc = "idle"
  BY DEF Start, GoTo, Idle
<1>2. Promise!Aim /\ report' = R!NoReport
  BY DEF Start, R!Aim, Promise!Aim, R!Absent, Promise!Absent, R!File, Promise!File,
         R!NoReport, Promise!NoReport
<1>3. PlaceInv' /\ CountInv'
  BY <1>1, <1>2 DEF PlaceInv, CountInv, Writing, Written, At
<1>4. "child" \in dest'.writers => "child" \in dest.writers
  BY <1>2 DEF Promise!Aim, Promise!Absent, Promise!File, FileInv, Files
<1>5. ChildInv' /\ DeviceInv'
  BY <1>1, <1>4 DEF ToolInv, ChildInv, DeviceInv, Writing, Written, At, captureVars,
                    consoleVars, deviceVars
<1> QED
  BY <1>2, <1>3, <1>5 DEF PromiseStep, Promise!RecordingNext, ToolInv

LEMMA RivalKeeps ==
  ASSUME FileInv, ToolInv, Rival, UNCHANGED <<logVars, captureVars, consoleVars, decoderVars>>
  PROVE  PromiseStep /\ ToolInv'
<1>1. ~Idle /\ R!Rival /\ UNCHANGED <<tool, pc, report>>
  BY DEF Rival, R!Rival
<1>2. Promise!Rival
  BY <1>1 DEF R!Rival, Promise!Rival, R!Absent, Promise!Absent, R!Foreign, Promise!Foreign,
              R!File, Promise!File
<1>3. dest.writers = {} /\ dest.owner = "none" /\ dest'.writers = {}
  BY <1>1 DEF R!Rival, R!Absent, R!Foreign, R!File
<1>4. ~Writing /\ ~Written
  BY <1>3 DEF ToolInv, PlaceInv
<1>5. PlaceInv' /\ CountInv'
  BY <1>1, <1>4 DEF ToolInv, PlaceInv, CountInv, Writing, Written, At, Idle, logVars, decoderVars
<1>6. ChildInv'
  BY <1>1, <1>3, <1>4 DEF ToolInv, ChildInv, Writing, Written, At, captureVars
<1>7. DeviceInv'
  BY <1>1 DEF ToolInv, DeviceInv, consoleVars, deviceVars
<1> QED
  BY <1>2, <1>5, <1>6, <1>7 DEF PromiseStep, Promise!RecordingNext, ToolInv

LEMMA LogStep ==
  ASSUME FileInv, ToolInv, LogNext, UNCHANGED <<captureVars, consoleVars, decoderVars>>
  PROVE  PromiseStep /\ ToolInv'
<1> DEFINE Counts == PlaceInv' /\ CountInv'
<1>1. PlaceInv /\ CountInv /\ dest \in Files /\ dest.content \in Seq(Item)
  BY DEF ToolInv, FileInv, Files
<1>2. /\ tool' = tool /\ tool \notin {"pluto-console", "pluto-capture", "decode-iq"} /\ ~Idle
      /\ UNCHANGED <<child, consoleVars>>
  BY DEF LogNext, BridgeLog, SerialCapture, RfTest, LogRefused, LogAccepted, LogOpened,
         LogSubscribed, OnLog, LogEnded, LogReported, PortOpened, SerialOpened, SerialRead,
         SerialEnded, TestRefused, TestConnected, TestOpened, TestRequested, TestLog, TestSlept,
         TestEnded, OpenExclusive, Log, Leave, Fail, GoTo, At, Idle, captureVars, benchVars
<1>3. Counts => ToolInv'
  <2>1. "child" \in dest'.writers => "child" \in dest.writers
    <3>1. \/ UNCHANGED dest \/ Closed \/ dest'.writers = {"tool"}
          \/ dest'.writers = dest.writers
      BY <1>1 DEF LogNext, BridgeLog, SerialCapture, RfTest, LogRefused, LogAccepted, LogOpened,
             LogSubscribed, OnLog, LogEnded, LogReported, PortOpened, SerialOpened, SerialRead,
             SerialEnded, TestRefused, TestConnected, TestOpened, TestRequested, TestLog,
             TestSlept, TestEnded, OpenExclusive, Log, Write, Fail, benchVars, Files, R!File
    <3> QED
      BY <1>1, <3>1 DEF Closed, Files
  <2> QED
    BY <1>2, <2>1, OtherToolKeeps DEF ToolInv
<1>4. ASSUME Fail
      PROVE  PromiseStep /\ ToolInv'
  BY <1>2, <1>4, OtherToolKeeps, FailKeeps
<1>5. ASSUME UNCHANGED <<dest, report>>
      PROVE  PromiseStep
  BY <1>5 DEF PromiseStep
<1> USE DEF At, GoTo, Idle, PlaceInv, CountInv, Writing, Written, Shared
<1>6. CASE LogRefused \/ SerialEnded \/ TestRefused \/ TestEnded
  BY <1>4, <1>6 DEF LogRefused, SerialEnded, TestRefused, TestEnded, Fail
<1>7. CASE LogAccepted
  BY <1>1, <1>3, <1>5, <1>7 DEF LogAccepted
<1>8. CASE LogOpened
  <2>1. OpenExclusive("connecting") /\ UNCHANGED logVars /\ At("bridge-log", "opening")
    BY <1>8 DEF LogOpened
  <2>2. CASE /\ GoTo("connecting") /\ UNCHANGED <<report, link>>
             /\ dest' = [owner |-> "tool", writers |-> {"tool"}, content |-> <<>>]
    <3>1. Len(<<>>) = 0
      OBVIOUS
    <3> QED
      BY <1>1, <1>3, <2>1, <2>2, <3>1, BytesEmpty, OpenStep DEF logVars
  <2> QED
    BY <1>4, <2>1, <2>2, OpenStep
<1>9. CASE LogSubscribed
  BY <1>1, <1>3, <1>5, <1>9 DEF LogSubscribed, logVars
<1>10. ASSUME NEW length \in LineBytes, OnLog(length)
       PROVE  PromiseStep /\ ToolInv'
  <2>1. CASE size + length > MaxBytes
    BY <1>1, <1>3, <1>5, <1>10, <2>1 DEF OnLog, benchVars
  <2>2. CASE ~(size + length > MaxBytes)
    <3>1. /\ dest.writers # {} /\ Line(length) \in Item /\ Line(length).bytes = length
          /\ dest' = [dest EXCEPT !.content = Append(@, Line(length))]
          /\ UNCHANGED <<tool, pc, report>>
          /\ size' = size + length /\ count' = count + 1
          /\ tool = "bridge-log" /\ pc = "recording"
      BY <1>1, <1>10, <2>2, ItemType DEF OnLog, Log, Write, Line
    <3>2. /\ PromiseStep /\ dest'.writers = dest.writers
          /\ Len(dest'.content) = Len(dest.content) + 1
          /\ Promise!Bytes(dest'.content) = Promise!Bytes(dest.content) + length
      BY <3>1, WriteStep
    <3> QED
      BY <1>1, <1>3, <3>1, <3>2
  <2> QED
    BY <2>1, <2>2
<1>11. CASE LogEnded
  <2>1. /\ PromiseStep /\ dest'.writers = dest.writers \ {"tool"}
        /\ dest'.owner = dest.owner /\ dest'.content = dest.content
    BY <1>11, CloseStep DEF LogEnded
  <2>2. dest'.writers = {}
    BY <1>1, <1>11, <2>1 DEF LogEnded, Files
  <2> QED
    BY <1>1, <1>3, <1>11, <2>1, <2>2 DEF LogEnded, logVars, FileInv
<1>12. CASE LogReported
  <2>1. PromiseStep
    BY <1>1, <1>12, ReportStep DEF LogReported
  <2>2. Counts
    BY <1>1, <1>12 DEF LogReported, Leave
  <2> QED
    BY <1>3, <2>1, <2>2
<1>13. CASE PortOpened
  BY <1>1, <1>3, <1>5, <1>13 DEF PortOpened
<1>14. CASE SerialOpened \/ TestOpened
  <2>1. PICK place \in {"reading", "requesting"} :
          /\ Fail \/ OpenExclusive(place)
          /\ tool = (IF place = "reading" THEN "serial-capture" ELSE "rf-test")
    BY <1>14 DEF SerialOpened, TestOpened
  <2>2. CASE /\ OpenExclusive(place)
             /\ GoTo(place) /\ UNCHANGED <<report, link>>
             /\ dest' = [owner |-> "tool", writers |-> {"tool"}, content |-> <<>>]
    <3>1. PromiseStep
      BY <2>2, OpenStep
    <3>2. Counts
      BY <1>1, <1>2, <2>1, <2>2
    <3> QED
      BY <1>3, <3>1, <3>2
  <2> QED
    BY <1>4, <2>1, <2>2, OpenStep
<1>15. ASSUME NEW length \in LineBytes,
              SerialRead(length) \/ TestRequested(length) \/ TestLog(length)
       PROVE  PromiseStep /\ ToolInv'
  <2>1. /\ dest.writers # {} /\ Line(length) \in Item
        /\ dest' = [dest EXCEPT !.content = Append(@, Line(length))]
        /\ UNCHANGED <<tool, pc, report>> /\ tool \in {"serial-capture", "rf-test"}
    BY <1>1, <1>15, ItemType DEF SerialRead, TestRequested, TestLog, Log, Write
  <2>2. PromiseStep /\ dest'.writers = dest.writers
    BY <2>1, WriteStep
  <2> QED
    BY <1>1, <1>3, <2>1, <2>2
<1>16. CASE TestConnected
  BY <1>1, <1>3, <1>5, <1>16 DEF TestConnected
<1>17. CASE TestSlept
  <2>1. PromiseStep
    BY <1>17, CloseStep DEF TestSlept
  <2> QED
    BY <1>1, <1>3, <1>17, <2>1 DEF TestSlept
<1> QED
  BY <1>6, <1>7, <1>8, <1>9, <1>10, <1>11, <1>12, <1>13, <1>14, <1>15, <1>16, <1>17
  DEF LogNext, BridgeLog, SerialCapture, RfTest


-----------------------------------------------------------------------------
(* pluto-capture.py.                                                       *)

LEMMA RecordingEmpty == Len(<<>>) = 0 /\ <<>> = Recording(Len(<<>>))
BY DEF Recording

LEMMA RecordingAppend ==
  ASSUME NEW content \in Seq(Item), content = Recording(Len(content)), Len(content) < Samples
  PROVE  /\ Sample(Len(content) + 1) \in Item /\ Sample(Len(content) + 1).bytes = 1
         /\ Append(content, Sample(Len(content) + 1)) = Recording(Len(content) + 1)
<1> DEFINE n      == Len(content)
           longer == Append(content, Sample(n + 1))
<1>1. n \in Nat /\ n + 1 \in 0 .. Samples
  BY CaptureAssumption
<1>2. Sample(n + 1) \in Item /\ Sample(n + 1).bytes = 1
  BY <1>1, ItemType
<1>3. longer \in Seq(Item) /\ Len(longer) = n + 1
  BY <1>2
<1>4. longer = [i \in 1 .. n + 1 |-> longer[i]]
  BY <1>3
<1>5. ASSUME NEW i \in 1 .. n + 1
      PROVE  longer[i] = Sample(i)
  <2>1. CASE i = n + 1
    BY <1>2, <2>1
  <2>2. CASE i # n + 1
    <3>1. i \in 1 .. n
      BY <1>1, <2>2
    <3>2. longer[i] = content[i]
      BY <1>2, <3>1
    <3>3. content[i] = Recording(n)[i]
      OBVIOUS
    <3>4. Recording(n)[i] = Sample(i)
      BY <3>1, Zenon DEF Recording
    <3> QED
      BY <3>2, <3>3, <3>4
  <2> QED
    BY <2>1, <2>2
<1> HIDE DEF longer, n
<1>6. longer = Recording(n + 1)
  BY <1>4, <1>5, Zenon DEF Recording
<1> QED
  BY <1>2, <1>6 DEF longer, n

\* The child writes and ends whatever the tool does meanwhile, and after it.
LEMMA ChildKeeps ==
  ASSUME FileInv, ToolInv, UNCHANGED <<logVars, consoleVars, decoderVars>>,
         ChildWrites \/ (\E code \in {"ok", "failed"} : ChildEnds(code))
  PROVE  PromiseStep /\ ToolInv'
<1>1. /\ PlaceInv /\ CountInv /\ ChildInv /\ DeviceInv
      /\ dest \in Files /\ dest.content \in Seq(Item)
  BY DEF ToolInv, FileInv, Files
<1>2. UNCHANGED <<tool, pc, report>>
  BY DEF ChildWrites, ChildEnds
<1>3. DeviceInv'
  BY <1>1, <1>2 DEF DeviceInv, consoleVars, deviceVars
<1> USE DEF At, Idle, PlaceInv, CountInv, ChildInv, Writing, Written, Shared
<1>4. CASE ChildWrites
  <2> DEFINE next == Len(dest.content) + 1
  <2>1. /\ "child" \in dest.writers /\ UNCHANGED child
        /\ Len(dest.content) < Samples /\ Len(dest.content) \in Nat
        /\ dest' = [dest EXCEPT !.content = Append(@, Sample(Len(@) + 1))]
    BY <1>1, <1>4 DEF ChildWrites, captureVars
  <2>2. dest' = [dest EXCEPT !.content = Append(@, Sample(next))]
    BY <1>1, <2>1
  <2>3. next \in 0 .. Samples
    BY <2>1, CaptureAssumption
  <2>4. Sample(next) \in Item /\ Sample(next).bytes = 1
    BY <2>3, ItemType
  <2> HIDE DEF next
  <2>5. /\ PromiseStep /\ dest'.writers = dest.writers /\ dest'.owner = dest.owner
        /\ dest'.content = Append(dest.content, Sample(next))
        /\ Len(dest'.content) = Len(dest.content) + 1
        /\ Promise!Bytes(dest'.content) = Promise!Bytes(dest.content) + Sample(next).bytes
    <3>1. dest.writers # {} /\ UNCHANGED report
      BY <1>2, <2>1
    <3> QED
      BY <2>2, <2>4, <3>1, WriteStep
  <2>6. ~Written
    BY <1>1, <2>1
  <2>7. Writing => tool = "pluto-capture"
    BY <1>1, <2>1
  <2>8. PlaceInv'
    BY <1>1, <1>2, <2>5, <2>6
  <2>9. dest.content = Recording(Len(dest.content)) =>
          dest'.content = Recording(Len(dest'.content))
    BY <1>1, <2>1, <2>5, RecordingAppend DEF next
  <2>10. ChildInv'
    BY <1>1, <1>2, <2>1, <2>5, <2>6, <2>9
  <2>11. CountInv'
    BY <1>1, <1>2, <2>4, <2>5, <2>6, <2>7 DEF logVars, decoderVars
  <2> QED
    BY <1>3, <2>5, <2>8, <2>10, <2>11 DEF ToolInv
<1>5. ASSUME NEW code \in {"ok", "failed"}, ChildEnds(code)
      PROVE  PromiseStep /\ ToolInv'
  <2>1. /\ PromiseStep /\ dest'.writers = dest.writers \ {"child"}
        /\ dest'.owner = dest.owner /\ dest'.content = dest.content
    BY <1>5, ReleaseStep DEF ChildEnds
  <2>2. PlaceInv'
    BY <1>1, <1>2, <2>1
  <2>3. CountInv' /\ ChildInv'
    BY <1>1, <1>2, <2>1 DEF logVars, decoderVars
  <2> QED
    BY <1>3, <2>1, <2>2, <2>3 DEF ToolInv
<1> QED
  BY <1>4, <1>5

LEMMA CaptureStep ==
  ASSUME FileInv, ToolInv, CaptureNext, UNCHANGED <<logVars, consoleVars, decoderVars>>
  PROVE  PromiseStep /\ ToolInv'
<1> DEFINE Child == ChildWrites \/ (\E code \in {"ok", "failed"} : ChildEnds(code))
<1>1. PlaceInv /\ CountInv /\ ChildInv /\ dest \in Files /\ dest.content \in Seq(Item)
  BY DEF ToolInv, FileInv, Files
<1> SUFFICES ASSUME ~Child PROVE PromiseStep /\ ToolInv'
  BY ChildKeeps
<1>2. tool' = tool /\ tool = "pluto-capture" /\ ~Idle
  BY DEF CaptureNext, CaptureRefused, CaptureAccepted, CaptureOpened, Spawned, NotSpawned,
         Announced, NotAnnounced, ChildAwaited, CaptureGivenUp, ChildKilled, CaptureTruncated,
         CaptureReported, OpenExclusive, Leave, Fail, GoTo, At, Idle
<1>3. DeviceInv'
  BY <1>2 DEF ToolInv, DeviceInv, consoleVars, deviceVars
<1>4. ASSUME Fail, child' = child
      PROVE  PromiseStep /\ ToolInv'
  BY <1>2, <1>3, <1>4, FailKeeps
<1>5. ASSUME UNCHANGED <<dest, report>>
      PROVE  PromiseStep
  BY <1>5 DEF PromiseStep
<1> USE DEF At, GoTo, Idle, PlaceInv, CountInv, ChildInv, Writing, Written, Shared
<1>6. CASE CaptureRefused \/ NotSpawned \/ NotAnnounced \/ CaptureTruncated
  BY <1>4, <1>6 DEF CaptureRefused, NotSpawned, NotAnnounced, CaptureTruncated, captureVars
<1>7. CASE CaptureAccepted
  <2>1. dest.writers = {}
    BY <1>7 DEF CaptureAccepted, Exists, FileInv, R!Absent, R!File
  <2> QED
    BY <1>1, <1>3, <1>5, <1>7, <2>1 DEF CaptureAccepted, ToolInv
<1>8. CASE CaptureOpened
  <2>1. OpenExclusive("spawning") /\ UNCHANGED captureVars /\ pc = "opening"
    BY <1>8 DEF CaptureOpened
  <2>2. CASE /\ GoTo("spawning") /\ UNCHANGED <<report, link>>
             /\ dest' = [owner |-> "tool", writers |-> {"tool"}, content |-> <<>>]
    BY <1>1, <1>2, <1>3, <2>1, <2>2, BytesEmpty, RecordingEmpty, OpenStep
    DEF captureVars, ToolInv
  <2> QED
    BY <1>4, <2>1, <2>2, OpenStep DEF captureVars
<1>9. CASE Spawned
  <2>1. /\ pc = "spawning" /\ pc' = "announcing" /\ child' = "running" /\ UNCHANGED report
        /\ dest' = [dest EXCEPT !.writers = {"tool", "child"}]
    BY <1>9 DEF Spawned, R!Writers
  <2>2. /\ dest'.writers = {"tool", "child"} /\ dest'.content = dest.content
        /\ dest'.owner = dest.owner
    BY <1>1, <2>1 DEF Files
  <2>3. Promise!Hand
    BY <1>1, <1>2, <2>1 DEF Promise!Hand, Promise!Writers
  <2>4. PromiseStep
    BY <2>3 DEF PromiseStep, Promise!RecordingNext
  <2>5. PlaceInv' /\ CountInv' /\ ChildInv'
    BY <1>1, <1>2, <2>1, <2>2
  <2> QED
    BY <1>3, <2>4, <2>5 DEF ToolInv
<1>10. CASE Announced \/ CaptureGivenUp
  <2>1. /\ pc \in {"announcing", "waiting"} /\ pc' \in {"waiting", "killing"}
        /\ UNCHANGED <<dest, report, child>>
    BY <1>10 DEF Announced, CaptureGivenUp, captureVars
  <2> QED
    BY <1>1, <1>2, <1>3, <1>5, <2>1 DEF ToolInv
<1>11. CASE ChildAwaited
  <2>1. /\ Closed /\ UNCHANGED report /\ pc = "waiting" /\ child' = child /\ child # "running"
        /\ Fail \/ GoTo("checking")
    BY <1>11 DEF ChildAwaited, ChildOver, captureVars, Fail
  <2>2. /\ PromiseStep /\ dest'.writers = dest.writers \ {"tool"}
        /\ dest'.owner = dest.owner /\ dest'.content = dest.content
    BY <2>1, CloseStep
  <2>3. CASE GoTo("checking")
    <3>1. dest'.writers = {}
      BY <1>1, <2>1, <2>2 DEF Files
    <3>2. PlaceInv' /\ CountInv' /\ ChildInv'
      BY <1>1, <1>2, <2>1, <2>2, <2>3, <3>1 DEF FileInv
    <3> QED
      BY <1>3, <2>2, <3>2 DEF ToolInv
  <2> QED
    BY <1>4, <2>1, <2>3
<1>12. CASE ChildKilled
  <2>1. /\ dest' = [dest EXCEPT !.writers = {}] /\ UNCHANGED report
        /\ GoTo("idle")
    BY <1>12 DEF ChildKilled, Leave
  <2>2. dest'.writers = {} /\ dest' = [dest EXCEPT !.writers = @ \ {"tool", "child"}]
    BY <1>1, <2>1 DEF Files
  <2>3. PromiseStep
    BY <2>1, <2>2, ReleaseStep
  <2> QED
    BY <1>2, <1>3, <2>1, <2>2, <2>3, LeaveKeeps
<1>13. CASE CaptureReported
  <2>1. /\ Len(dest.content) = Samples
        /\ Promise!Bytes(dest.content) = Samples
        /\ dest.owner = "tool" /\ dest.writers = {} /\ report = R!NoReport
        /\ GoTo("idle") /\ UNCHANGED dest
    BY <1>1, <1>13 DEF CaptureReported, WholeRecording, Leave
  <2>2. PromiseStep
    <3>1. \/ UNCHANGED report
          \/ report' = [items |-> Len(dest.content), bytes |-> Promise!Bytes(dest.content)]
      BY <1>13, <2>1 DEF CaptureReported
    <3> QED
      BY <1>5, <2>1, <3>1, ReportStep
  <2> QED
    BY <1>2, <1>3, <2>1, <2>2, LeaveKeeps
<1> QED
  BY <1>6, <1>7, <1>8, <1>9, <1>10, <1>11, <1>12, <1>13 DEF CaptureNext

-----------------------------------------------------------------------------
(* pluto-console.py, and the device it talks to.                           *)

\* A step of the device: nothing that has said "ok" changes, except when no tool runs.
LEMMA JobKeeps ==
  ASSUME ToolInv, UNCHANGED <<captureVars, decoderVars, logVars>>,
         JobWrites \/ (\E code \in {"ok", "failed"} : JobEnds(code)) \/ DeviceRestarts
  PROVE  PromiseStep /\ ToolInv'
<1>1. UNCHANGED <<benchVars, captureVars, decoderVars, logVars>>
  BY DEF JobWrites, JobEnds, DeviceRestarts, DeviceStep
<1>2. PlaceInv' /\ CountInv' /\ ChildInv'
  BY <1>1 DEF ToolInv, PlaceInv, CountInv, ChildInv, Writing, Written, Shared, At, Idle,
              benchVars, captureVars, logVars, decoderVars
<1>3. DeviceInv /\ UNCHANGED <<tool, pc, action, expected>>
  BY <1>1 DEF ToolInv, benchVars, JobWrites, JobEnds, DeviceRestarts, DeviceStep
<1>4. ASSUME JobWrites
      PROVE  DeviceInv'
  <2>1. console = "busy" /\ console' = "busy" /\ status' = status /\ iq' = iq + 1 /\ iq < Samples
    BY <1>4 DEF JobWrites, DeviceStep
  <2>2. status # "ok" /\ iq \in Int /\ iq' \in NoFile .. Samples /\ iq' # NoFile
    <3>1. status # "ok" /\ iq \in -1 .. Samples /\ Samples \in Nat /\ iq # -1
      BY <1>3, <2>1, CaptureAssumption DEF DeviceInv, NoFile
    <3> QED
      BY <2>1, <3>1 DEF NoFile
  <2> QED
    BY <1>3, <2>1, <2>2 DEF DeviceInv
<1>5. ASSUME NEW code \in {"ok", "failed"}, JobEnds(code)
      PROVE  DeviceInv'
  BY <1>3, <1>5 DEF JobEnds, DeviceStep, DeviceInv, NoFile
<1>6. ASSUME DeviceRestarts
      PROVE  DeviceInv'
  BY <1>3, <1>6, CaptureAssumption DEF DeviceRestarts, DeviceInv, NoFile, Idle
<1>7. PromiseStep
  BY <1>1 DEF PromiseStep, benchVars
<1> QED
  BY <1>2, <1>4, <1>5, <1>6, <1>7 DEF ToolInv

LEMMA ConsoleStep ==
  ASSUME FileInv, ToolInv, ConsoleNext, UNCHANGED <<logVars, captureVars, decoderVars>>
  PROVE  PromiseStep /\ ToolInv'
<1> DEFINE Job == \/ JobWrites \/ (\E code \in {"ok", "failed"} : JobEnds(code))
                  \/ DeviceRestarts
<1>1. /\ PlaceInv /\ CountInv /\ ChildInv /\ DeviceInv
      /\ dest \in Files /\ dest.content \in Seq(Item)
  BY DEF ToolInv, FileInv, Files
<1>2. CASE Job
  BY <1>2, JobKeeps
<1> SUFFICES ASSUME ~Job PROVE PromiseStep /\ ToolInv'
  BY <1>2
<1>3. tool' = tool /\ tool = "pluto-console" /\ ~Idle
  BY DEF ConsoleNext, ConsoleOpened, PasswordCancelled, UserSent, AlreadyLoggedIn, PasswordSent,
         NoAnswer, Info, CaptureStarted, JobAnswered, DownloadAsked, StatusChecked, Listed,
         TransferOpened, LineRead, LineDamaged, LineSkipped, LineLost, MarkerRead,
         TransferFails, NotVerified, TransferReported, Payload, Transferring, Passed, GiveUp,
         OpenExclusive, Host, Leave, Fail, GoTo, At, Idle, benchVars
<1>4. child' = child /\ (("child" \in dest'.writers => "child" \in dest.writers) => ChildInv')
  BY <1>1, <1>3 DEF ChildInv, captureVars
<1>5. UNCHANGED dest => ChildInv'
  BY <1>4
<1>6. ASSUME Fail, DeviceInv'
      PROVE  PromiseStep /\ ToolInv'
  BY <1>3, <1>4, <1>6, FailKeeps
<1>7. ASSUME UNCHANGED <<dest, report>>
      PROVE  PromiseStep
  BY <1>7 DEF PromiseStep
<1> USE DEF At, Host, GoTo, Idle, PlaceInv, CountInv, Writing, Written, Shared, DeviceInv
<1>8. CASE GiveUp
  <2>1. Fail /\ DeviceInv'
    BY <1>1, <1>8 DEF GiveUp, Fail, Leave, consoleVars, deviceVars
  <2> QED
    BY <1>6, <2>1
<1>9. CASE ConsoleOpened \/ PasswordCancelled \/ UserSent \/ AlreadyLoggedIn
  <2>1. UNCHANGED <<dest, report, iq>> /\ pc' \in {"greeting", "authenticating", "ready"}
    BY <1>9 DEF ConsoleOpened, PasswordCancelled, UserSent, AlreadyLoggedIn, benchVars,
                consoleVars, deviceVars
  <2>2. DeviceInv'
    BY <1>1, <1>3, <1>9, <2>1
    DEF ConsoleOpened, Interrupted, PasswordCancelled, UserSent, AlreadyLoggedIn, consoleVars,
        deviceVars
  <2> QED
    BY <1>1, <1>3, <1>4, <1>5, <1>7, <2>1, <2>2 DEF ToolInv
<1>10. ASSUME NEW right \in BOOLEAN, PasswordSent(right)
       PROVE  PromiseStep /\ ToolInv'
  <2>1. DeviceInv' /\ \/ Fail
                      \/ GoTo("ready") /\ UNCHANGED <<dest, report, link>>
    BY <1>1, <1>3, <1>10 DEF PasswordSent, Fail, Leave
  <2>2. CASE GoTo("ready") /\ UNCHANGED <<dest, report, link>>
    BY <1>1, <1>3, <1>4, <1>5, <1>7, <2>1, <2>2 DEF ToolInv
  <2> QED
    BY <1>6, <2>1, <2>2
<1>11. CASE NoAnswer \/ Info \/ TransferFails \/ NotVerified
  BY <1>8, <1>11 DEF NoAnswer, Info, TransferFails, NotVerified
<1>12. CASE CaptureStarted
  <2>1. /\ iq = NoFile /\ iq' = 0 /\ console' = "busy" /\ UNCHANGED status
        /\ pc' = "waiting" /\ Samples \in Nat
    BY <1>12, CaptureAssumption DEF CaptureStarted
  <2>2. status # "ok"
    BY <1>1, <2>1 DEF NoFile
  <2>3. DeviceInv'
    BY <1>3, <2>1, <2>2 DEF NoFile
  <2> QED
    BY <1>1, <1>3, <1>4, <1>5, <1>7, <1>12, <2>3 DEF CaptureStarted, ToolInv
<1>13. CASE JobAnswered \/ DownloadAsked \/ StatusChecked
  <2>1. /\ UNCHANGED <<iq, status, console>>
        /\ \/ Fail
           \/ /\ GoTo("checking") \/ (GoTo("listing") /\ status = "ok")
              /\ UNCHANGED <<dest, report, link>>
    BY <1>13 DEF JobAnswered, DownloadAsked, StatusChecked, CaptureFinished, consoleVars,
                 deviceVars
  <2>2. CASE Fail
    BY <1>1, <1>6, <2>1, <2>2 DEF Fail, Leave
  <2>3. CASE ~Fail
    <3>1. DeviceInv'
      BY <1>1, <1>3, <2>1, <2>3
    <3> QED
      BY <1>1, <1>3, <1>4, <1>5, <1>7, <2>1, <2>3, <3>1 DEF ToolInv
  <2> QED
    BY <2>2, <2>3
<1>14. CASE Listed
  <2>1. /\ UNCHANGED <<iq, status, console, action>> /\ pc = "listing" /\ expected' = iq
        /\ \/ Fail
           \/ /\ GoTo("opening") /\ UNCHANGED <<dest, report, link>>
              /\ action = "capture and download" => iq = Samples
    BY <1>14 DEF Listed, RightSize, deviceVars
  <2>2. CASE Fail
    BY <1>1, <1>6, <2>1, <2>2 DEF Fail, Leave
  <2>3. CASE ~Fail
    <3>1. DeviceInv'
      BY <1>1, <1>3, <2>1, <2>3
    <3> QED
      BY <1>1, <1>3, <1>4, <1>5, <1>7, <2>1, <2>3, <3>1 DEF ToolInv
  <2> QED
    BY <2>2, <2>3
<1>15. CASE TransferOpened
  <2>1. /\ OpenExclusive("transferring") /\ pc = "opening"
        /\ UNCHANGED <<iq, status, console, action, expected>>
    BY <1>15 DEF TransferOpened, deviceVars
  <2>2. DeviceInv'
    BY <1>1, <1>3, <2>1
  <2>3. CASE /\ GoTo("transferring") /\ UNCHANGED <<report, link>>
             /\ dest' = [owner |-> "tool", writers |-> {"tool"}, content |-> <<>>]
    BY <1>1, <1>3, <1>4, <1>5, <2>1, <2>2, <2>3, BytesEmpty, RecordingEmpty, OpenStep DEF ToolInv
  <2> QED
    BY <1>6, <2>1, <2>2, <2>3, OpenStep
<1>16. CASE LineRead \/ LineDamaged
  <2>1. PICK number \in {line, 0} : Payload(Sample(number))
    BY <1>16 DEF LineRead, LineDamaged
  <2>2. /\ pc = "transferring"
        /\ UNCHANGED <<tool, pc, report, iq, status, console, action, expected>>
        /\ dest' = [dest EXCEPT !.content = Append(@, Sample(number))]
        /\ number \in 0 .. Samples
    <3>1. /\ pc = "transferring" /\ line \in 1 .. iq
          /\ UNCHANGED <<tool, pc, report, iq, status, console, action, expected>>
          /\ dest' = [dest EXCEPT !.content = Append(@, Sample(number))]
      BY <2>1 DEF Payload, Transferring, Write, Passed, IsSample, deviceVars
    <3>2. iq \in -1 .. Samples
      BY <1>1 DEF NoFile
    <3> QED
      BY <2>1, <3>1, <3>2, CaptureAssumption
  <2>3. Sample(number) \in Item /\ Sample(number).bytes = 1 /\ dest.writers # {}
    BY <1>1, <1>3, <2>2, ItemType
  <2>4. /\ PromiseStep /\ dest'.writers = dest.writers
        /\ Len(dest'.content) = Len(dest.content) + 1
        /\ Promise!Bytes(dest'.content) = Promise!Bytes(dest.content) + 1
    <3>1. UNCHANGED report
      BY <2>2
    <3>2. /\ PromiseStep /\ dest'.writers = dest.writers
          /\ Len(dest'.content) = Len(dest.content) + 1
          /\ Promise!Bytes(dest'.content) = Promise!Bytes(dest.content) + Sample(number).bytes
      BY <2>2, <2>3, <3>1, WriteStep
    <3> QED
      BY <2>3, <3>2
  <2>5. PlaceInv' /\ DeviceInv'
    BY <1>1, <1>3, <2>2, <2>4
  <2>6. CountInv'
    BY <1>1, <1>3, <2>2, <2>4
  <2> QED
    BY <1>4, <1>5, <2>2, <2>4, <2>5, <2>6 DEF ToolInv
<1>17. CASE LineSkipped \/ LineLost
  <2>1. /\ UNCHANGED <<tool, pc, dest, report, iq, status, console, action, expected>>
        /\ pc = "transferring"
    BY <1>17 DEF LineSkipped, LineLost, Transferring, Passed, deviceVars
  <2> QED
    BY <1>1, <1>3, <1>4, <1>5, <1>7, <2>1 DEF ToolInv
<1>18. CASE MarkerRead
  <2>1. /\ Closed /\ UNCHANGED <<report, iq, status, console, action, expected>>
        /\ pc = "transferring"
        /\ pc' = "verifying"
    BY <1>18 DEF MarkerRead, Transferring, consoleVars, deviceVars
  <2>2. /\ PromiseStep /\ dest'.writers = dest.writers \ {"tool"}
        /\ dest'.owner = dest.owner /\ dest'.content = dest.content
    BY <2>1, CloseStep
  <2>3. dest'.writers = {}
    BY <1>1, <1>3, <2>1, <2>2 DEF Files
  <2> QED
    BY <1>1, <1>3, <1>4, <2>1, <2>2, <2>3 DEF ToolInv, FileInv
<1>19. CASE TransferReported
  <2>1. /\ pc = "verifying" /\ GoTo("idle") /\ UNCHANGED <<dest, iq, status, console>>
        /\ report' = [items |-> Len(dest.content), bytes |-> Len(dest.content)]
    BY <1>19 DEF TransferReported, Leave, Verified, consoleVars, deviceVars
  <2>2. /\ Promise!Bytes(dest.content) = Len(dest.content)
        /\ dest.owner = "tool" /\ dest.writers = {} /\ report = R!NoReport
    BY <1>1, <1>3, <2>1
  <2>3. PromiseStep
    BY <2>1, <2>2, ReportStep
  <2>4. DeviceInv'
    BY <1>1, <2>1
  <2> QED
    BY <1>3, <2>1, <2>2, <2>3, <2>4, LeaveKeeps
<1> QED
  BY <1>9, <1>10, <1>11, <1>12, <1>13, <1>14, <1>15, <1>16, <1>17, <1>18, <1>19 DEF ConsoleNext

-----------------------------------------------------------------------------
(* decode-iq.py, as far as its report file goes.                           *)

LEMMA DecoderStep ==
  ASSUME FileInv, ToolInv, DecoderNext, UNCHANGED <<logVars, captureVars, consoleVars>>
  PROVE  PromiseStep /\ ToolInv'
<1> DEFINE Counts == PlaceInv' /\ CountInv'
<1>1. PlaceInv /\ CountInv /\ dest \in Files /\ dest.content \in Seq(Item)
  BY DEF ToolInv, FileInv, Files
<1>2. /\ tool' = tool /\ tool = "decode-iq" /\ ~Idle
      /\ UNCHANGED <<child, consoleVars>>
  BY DEF DecoderNext, SourceRefused, Decode, Compare, Compared, ReportOpened, PacketWritten,
         ReportWritten, ReportPrinted, OpenExclusive, Leave, Fail, GoTo, At, Idle, captureVars,
         benchVars
<1>3. Counts => ToolInv'
  <2>1. "child" \in dest'.writers => "child" \in dest.writers
    <3>1. \/ UNCHANGED dest \/ Closed \/ dest'.writers = {"tool"}
          \/ dest'.writers = dest.writers
      BY <1>1 DEF DecoderNext, SourceRefused, Decode, Compare, Compared, ReportOpened,
             PacketWritten, ReportWritten, ReportPrinted, OpenExclusive, Write, Fail, benchVars,
             Files, R!File
    <3> QED
      BY <1>1, <3>1 DEF Closed, Files
  <2> QED
    BY <1>2, <2>1, OtherToolKeeps DEF ToolInv
<1>4. ASSUME Fail
      PROVE  PromiseStep /\ ToolInv'
  BY <1>2, <1>4, OtherToolKeeps, FailKeeps
<1>5. ASSUME UNCHANGED <<dest, report>>
      PROVE  PromiseStep
  BY <1>5 DEF PromiseStep
<1> USE DEF At, GoTo, Idle, PlaceInv, CountInv, Writing, Written, Shared
<1>6. CASE SourceRefused
  BY <1>4, <1>6 DEF SourceRefused
<1>7. CASE Decode \/ Compare \/ Compared
  <2>1. UNCHANGED <<dest, report>> /\ pc' \in {"comparing", "opening"}
    BY <1>7 DEF Decode, Compare, Compared, benchVars
  <2> QED
    BY <1>1, <1>2, <1>3, <1>5, <1>7, <2>1 DEF Decode, Compare, Compared
<1>8. CASE ReportOpened
  <2>1. OpenExclusive("writing") /\ pc = "opening"
    BY <1>8 DEF ReportOpened
  <2>2. CASE /\ GoTo("writing") /\ UNCHANGED <<report, link>>
             /\ dest' = [owner |-> "tool", writers |-> {"tool"}, content |-> <<>>]
    BY <1>1, <1>2, <1>3, <2>1, <2>2, BytesEmpty, RecordingEmpty, OpenStep
  <2> QED
    BY <1>4, <2>1, <2>2, OpenStep
<1>9. CASE PacketWritten
  <2> DEFINE entry == Sample(0)
  <2>1. /\ pc = "writing" /\ UNCHANGED <<tool, pc, report>> /\ dest.writers # {}
        /\ dest' = [dest EXCEPT !.content = Append(@, entry)]
    BY <1>1, <1>9 DEF PacketWritten, Write, Sample
  <2>2. UNCHANGED report /\ entry \in Item /\ entry.bytes = 1
    BY <2>1, ItemType, CaptureAssumption
  <2> HIDE DEF entry
  <2>3. /\ PromiseStep /\ dest'.writers = dest.writers
        /\ Len(dest'.content) = Len(dest.content) + 1
        /\ Promise!Bytes(dest'.content) = Promise!Bytes(dest.content) + 1
    <3>1. /\ PromiseStep /\ dest'.writers = dest.writers
          /\ Len(dest'.content) = Len(dest.content) + 1
          /\ Promise!Bytes(dest'.content) = Promise!Bytes(dest.content) + entry.bytes
      BY <2>1, <2>2, WriteStep
    <3> QED
      BY <2>2, <3>1
  <2> QED
    BY <1>1, <1>2, <1>3, <2>1, <2>3
<1>10. CASE ReportWritten
  <2>1. /\ Closed /\ UNCHANGED <<report, packets>> /\ pc = "writing" /\ pc' = "ended"
        /\ Len(dest.content) = Len(packets)
    BY <1>10 DEF ReportWritten, decoderVars
  <2>2. /\ PromiseStep /\ dest'.writers = dest.writers \ {"tool"}
        /\ dest'.owner = dest.owner /\ dest'.content = dest.content
    BY <2>1, CloseStep
  <2>3. dest'.writers = {}
    BY <1>1, <1>2, <2>1, <2>2 DEF Files
  <2> QED
    BY <1>1, <1>2, <1>3, <2>1, <2>2, <2>3 DEF FileInv
<1>11. CASE ReportPrinted
  <2>1. PromiseStep
    BY <1>1, <1>2, <1>11, ReportStep DEF ReportPrinted
  <2>2. Counts
    BY <1>1, <1>2, <1>11 DEF ReportPrinted, Leave
  <2> QED
    BY <1>3, <2>1, <2>2
<1> QED
  BY <1>6, <1>7, <1>8, <1>9, <1>10, <1>11 DEF DecoderNext

-----------------------------------------------------------------------------
(* All tools.                                                              *)

BenchInv == FileInv /\ ToolInv

LEMMA BenchInvInit == Init => BenchInv /\ Promise!RecordingInit
<1> SUFFICES ASSUME Init PROVE BenchInv /\ Promise!RecordingInit
  OBVIOUS
<1>1. /\ pc = "idle" /\ report = R!NoReport /\ child = "none"
      /\ console = "login" /\ iq = NoFile /\ status = "none"
      /\ dest \in {R!Absent, R!Foreign}
  BY DEF Init, BenchInit, CaptureInit, ConsoleInit, R!RecordingInit
<1>2. <<>> \in Seq(Item)
  OBVIOUS
<1>3. FileInv
  <2>1. CASE dest = R!Absent
    BY <1>2, <2>1 DEF FileInv, Files, R!Absent, R!File
  <2>2. CASE dest = R!Foreign
    BY <1>2, <2>2 DEF FileInv, Files, R!Foreign, R!File
  <2> QED
    BY <1>1, <2>1, <2>2
<1>4. PlaceInv /\ CountInv /\ ChildInv
  BY <1>1 DEF PlaceInv, CountInv, ChildInv, Writing, Written, At, Idle, R!Absent, R!Foreign, R!File
<1>5. DeviceInv
  BY <1>1, CaptureAssumption DEF DeviceInv, NoFile
<1>6. Promise!RecordingInit
  BY <1>1 DEF Promise!RecordingInit, Promise!Absent, Promise!Foreign, Promise!File,
              Promise!NoReport, R!Absent, R!Foreign, R!File, R!NoReport
<1> QED
  BY <1>3, <1>4, <1>5, <1>6 DEF BenchInv, ToolInv

LEMMA BenchInvNext == BenchInv /\ [Next]_vars => BenchInv' /\ PromiseStep
<1> SUFFICES ASSUME FileInv, ToolInv, [Next]_vars
             PROVE  PromiseStep /\ ToolInv'
  BY PromiseKeepsFile DEF BenchInv
<1>1. CASE Start /\ UNCHANGED <<logVars, captureVars, consoleVars, decoderVars>>
  BY <1>1, StartKeeps
<1>2. CASE Rival /\ UNCHANGED <<logVars, captureVars, consoleVars, decoderVars>>
  BY <1>2, RivalKeeps
<1>3. CASE KeyboardInterrupt
  <2>1. ~Idle /\ Fail /\ child' = child
    BY <1>3 DEF KeyboardInterrupt, captureVars
  <2>2. DeviceInv'
    BY <1>3 DEF KeyboardInterrupt, ToolInv, DeviceInv, Fail, Leave, GoTo, consoleVars, deviceVars
  <2> QED
    BY <2>1, <2>2, FailKeeps
<1>4. CASE LogNext /\ UNCHANGED <<captureVars, consoleVars, decoderVars>>
  BY <1>4, LogStep
<1>5. CASE CaptureNext /\ UNCHANGED <<logVars, consoleVars, decoderVars>>
  BY <1>5, CaptureStep
<1>6. CASE ConsoleNext /\ UNCHANGED <<logVars, captureVars, decoderVars>>
  BY <1>6, ConsoleStep
<1>7. CASE DecoderNext /\ UNCHANGED <<logVars, captureVars, consoleVars>>
  BY <1>7, DecoderStep
<1>8. CASE UNCHANGED vars
  <2>1. PromiseStep
    BY <1>8 DEF vars, benchVars, PromiseStep
  <2>2. PlaceInv' /\ CountInv'
    BY <1>8 DEF vars, benchVars, logVars, decoderVars, ToolInv, PlaceInv, CountInv, Writing,
                Written, Shared, At, Idle
  <2>3. ChildInv' /\ DeviceInv'
    BY <1>8 DEF vars, benchVars, captureVars, consoleVars, deviceVars, ToolInv, ChildInv,
                DeviceInv, Writing, Written, At
  <2> QED
    BY <2>1, <2>2, <2>3 DEF ToolInv
<1> QED
  BY <1>1, <1>2, <1>3, <1>4, <1>5, <1>6, <1>7, <1>8 DEF Next

\* Whatever file the tools find and whatever becomes of a run, every tool implements
\* the promise of Recordings: it creates its file exclusively, nothing is written to it but
\* by the tool and a child that hold it open, and the items and the bytes that are reported
\* are those that are in it when neither does any more.
THEOREM ToolsKeepRecordings == Spec => KeepsRecordings
<1>1. BenchInv /\ [Next]_vars => [Promise!RecordingNext]_Promise!promiseVars
  BY BenchInvNext DEF PromiseStep, Promise!promiseVars
<1> QED
  BY <1>1, BenchInvInit, BenchInvNext, PTL DEF Spec, KeepsRecordings, Promise!RecordingSpec

\* Of the steps that end in a report, two are of the tools that make captures.
LEMMA ReportSteps ==
  ASSUME NEW t \in {"pluto-console", "pluto-capture"}, Next, Reports(t)
  PROVE  \/ t = "pluto-capture" /\ CaptureReported
         \/ t = "pluto-console" /\ TransferReported
<1> USE DEF Reports
<1>1. tool = t /\ report' # report /\ report' # R!NoReport
  OBVIOUS
<1>2. ~Start /\ ~Rival /\ ~Fail
  BY <1>1 DEF Start, R!Aim, Rival, R!Rival, Fail
<1>3. ~KeyboardInterrupt
  BY <1>2 DEF KeyboardInterrupt
<1>4. CASE LogNext
  BY <1>1, <1>2, <1>4
  DEF LogNext, BridgeLog, SerialCapture, RfTest, LogRefused, LogAccepted, LogOpened,
      LogSubscribed, OnLog, LogEnded, LogReported, PortOpened, SerialOpened, SerialRead,
      SerialEnded, TestRefused, TestConnected, TestOpened, TestRequested, TestLog, TestSlept,
      TestEnded, OpenExclusive, At
<1>5. CASE DecoderNext
  BY <1>1, <1>2, <1>5
  DEF DecoderNext, SourceRefused, Decode, Compare, Compared, ReportOpened, PacketWritten,
      ReportWritten, ReportPrinted, OpenExclusive, At
<1>6. CASE CaptureNext
  BY <1>1, <1>2, <1>6
  DEF CaptureNext, CaptureRefused, CaptureAccepted, CaptureOpened, Spawned, NotSpawned,
      Announced, NotAnnounced, ChildWrites, ChildEnds, ChildAwaited, CaptureGivenUp,
      ChildKilled, CaptureTruncated, CaptureReported, OpenExclusive, At
<1>7. CASE ConsoleNext
  BY <1>1, <1>2, <1>7
  DEF ConsoleNext, ConsoleOpened, PasswordCancelled, UserSent, AlreadyLoggedIn, PasswordSent,
      NoAnswer, Info, CaptureStarted, JobAnswered, JobWrites, JobEnds, DeviceRestarts,
      DeviceStep, DownloadAsked, StatusChecked, Listed, TransferOpened, LineRead, LineDamaged,
      LineSkipped, LineLost, MarkerRead, TransferFails, NotVerified, TransferReported, Payload,
      Transferring, Passed, GiveUp, OpenExclusive, Host, At, benchVars
<1> QED
  BY <1>2, <1>3, <1>4, <1>5, <1>6, <1>7 DEF Next

\* What a tool reports of a capture is as recorded: the child and the device are done by
\* then, and what the channel damaged was refused; it is every sample asked for, unless the
\* tool did not make the capture itself and cannot know.
THEOREM ReportsAreComplete == Spec => ReportedIsComplete
<1> DEFINE Complete ==
      /\ Reports("pluto-capture") => dest.content = Recording(Samples)
      /\ Reports("pluto-console") =>
           /\ dest.content = Recording(iq) /\ status = "ok"
           /\ action = "capture and download" => iq = Samples
<1>1. BenchInv /\ [Next]_vars => [Complete]_vars
  <2> SUFFICES ASSUME BenchInv, Next PROVE Complete
    OBVIOUS
  <2>1. PlaceInv /\ ChildInv /\ DeviceInv
    BY DEF BenchInv, ToolInv
  <2>2. ASSUME Reports("pluto-capture")
        PROVE  dest.content = Recording(Samples)
    <3>1. CaptureReported
      BY <2>2, ReportSteps
    <3> QED
      BY <2>1, <3>1 DEF CaptureReported, WholeRecording, ChildInv, Written, At
  <2>3. ASSUME Reports("pluto-console")
        PROVE  /\ dest.content = Recording(iq) /\ status = "ok"
               /\ action = "capture and download" => iq = Samples
    <3>1. TransferReported
      BY <2>3, ReportSteps
    <3> QED
      BY <2>1, <3>1 DEF TransferReported, Verified, DeviceInv, Host, At
  <2> QED
    BY <2>2, <2>3
<1> QED
  BY <1>1, BenchInvInit, BenchInvNext, PTL DEF Spec, ReportedIsComplete

-----------------------------------------------------------------------------
(* decode-iq.py: which frames it finds, and which it reports.              *)

Packet == [sample : Nat, payload : Payloads, offset : Nat]

\* What is sent is known before a run and does not change.
HeardInv ==
  tool = "decode-iq" =>
    /\ heard \subseteq Transmission
    /\ \A one, other \in heard : one # other => Apart(one, other)

\* A packet or an item and the transmission it was decoded from.
Of(item, tx) == item.payload = tx.payload /\ item.sample \in Decodes(tx)

\* Everything reported was sent, and no two reports are of one transmission.
ReportedInv ==
  /\ packets \in Seq(Packet)
  /\ \A i \in 1 .. Len(packets) : \E tx \in heard : Of(packets[i], tx)
  /\ \A i, j \in 1 .. Len(packets) :
       i < j => packets[i].sample + Window <= packets[j].sample

\* What is left to compare lies behind everything reported, and what is not left is
\* reported, at this sample or shortly before it.
LeftInv ==
  /\ found \subseteq DecodeBlocks(heard)
  /\ \A item \in found, i \in 1 .. Len(packets) : packets[i].sample <= item.sample
  /\ \A item \in DecodeBlocks(heard) \ found : \E i \in 1 .. Len(packets) :
       /\ packets[i].payload = item.payload
       /\ packets[i].sample <= item.sample
       /\ item.sample - packets[i].sample < Window

DecodeInv ==
  /\ HeardInv
  /\ tool = "decode-iq" /\ pc \in {"comparing", "opening", "writing", "ended"} =>
       /\ ReportedInv /\ LeftInv
       /\ pc # "comparing" => found = {}

\* A transmission decodes at samples that lie within a symbol, all of them in the file.
LEMMA DecodesWithin ==
  ASSUME NEW tx \in Transmission, NEW sample \in Decodes(tx)
  PROVE  /\ sample \in Nat /\ tx.at \in Nat
         /\ tx.at <= sample /\ sample < tx.at + SymbolSamples
         /\ sample + FrameSamples <= FileSamples
<1>1. PICK phase \in tx.phases : sample = tx.at + phase
  BY DEF Decodes
<1>2. sample + FrameSamples <= FileSamples
  BY DEF Decodes
<1>3. tx.at \in 0 .. FileSamples - 1 /\ phase \in 0 .. SymbolSamples - 1
  BY <1>1 DEF Transmission
<1> QED
  BY <1>1, <1>2, <1>3, DecoderAssumption

\* Two samples of one transmission are less than the window apart, samples of two are
\* at least that far apart.
LEMMA SameOrApart ==
  ASSUME HeardInv, tool = "decode-iq",
         NEW one \in heard, NEW other \in heard,
         NEW s \in Decodes(one), NEW t \in Decodes(other), s <= t
  PROVE  IF one = other THEN t - s < Window ELSE s + Window <= t
<1>1. one \in Transmission /\ other \in Transmission /\ (one # other => Apart(one, other))
  BY DEF HeardInv
<1>2. /\ s \in Nat /\ one.at \in Nat /\ one.at <= s /\ s < one.at + SymbolSamples
      /\ t \in Nat /\ other.at \in Nat /\ other.at <= t /\ t < other.at + SymbolSamples
  BY <1>1, DecodesWithin
<1>3. /\ SymbolSamples \in Nat \ {0} /\ Window \in Nat \ {0} /\ FrameSamples \in Nat \ {0}
      /\ SymbolSamples <= Window /\ Window + SymbolSamples <= FrameSamples + 1
  BY DecoderAssumption
<1>4. CASE one = other
  BY <1>2, <1>3, <1>4
<1>5. CASE one # other
  BY <1>1, <1>2, <1>3, <1>5 DEF Apart
<1> QED
  BY <1>4, <1>5

\* Every item was sent.
LEMMA FoundWasSent ==
  ASSUME HeardInv, tool = "decode-iq", NEW item \in DecodeBlocks(heard)
  PROVE  item \in Packet /\ \E tx \in heard : Of(item, tx)
<1>1. PICK offset \in Offsets : item \in DecodeBlock(heard, offset)
  BY DEF DecodeBlocks
<1>2. PICK tx \in heard :
        item \in {[sample |-> sample, payload |-> tx.payload, offset |-> offset] :
                    sample \in {s \in Decodes(tx) :
                       offset <= s /\ s + FrameSamples <= offset + (Block + Overlap)}}
  BY <1>1 DEF DecodeBlock, DecodeSlice
<1>3. PICK sample \in Decodes(tx) :
        item = [sample |-> sample, payload |-> tx.payload, offset |-> offset]
  BY <1>2
<1>4. Of(item, tx)
  BY <1>3 DEF Of
<1>5. tx \in Transmission
  BY DEF HeardInv
<1>6. sample \in Nat /\ tx.payload \in Payloads /\ offset \in Nat
  BY <1>1, <1>3, <1>5, DecodesWithin, DecoderAssumption DEF Transmission, Offsets
<1> QED
  BY <1>3, <1>4, <1>6 DEF Packet

\* Every frame is found at every sample at which it decodes: the blocks overlap by one
\* frame at least.
LEMMA SentIsFound ==
  ASSUME HeardInv, tool = "decode-iq", NEW tx \in heard, NEW sample \in Decodes(tx)
  PROVE  \E item \in DecodeBlocks(heard) : item.sample = sample /\ item.payload = tx.payload
<1> DEFINE offset == sample - (sample % Block)
           item   == [sample |-> sample, payload |-> tx.payload, offset |-> offset]
<1>1. /\ sample \in Nat /\ sample + FrameSamples <= FileSamples
      /\ Block \in Nat \ {0} /\ FrameSamples \in Nat \ {0} /\ FileSamples \in Nat
      /\ Overlap \in Nat /\ FrameSamples <= Overlap
  BY DecodesWithin, DecoderAssumption DEF HeardInv
<1>2. sample % Block \in 0 .. Block - 1
  BY <1>1
<1>3. offset % Block = 0
  BY <1>1
<1>4. offset \in 0 .. sample
  BY <1>1
<1> HIDE DEF offset
<1>5. offset \in Offsets
  BY <1>1, <1>3, <1>4 DEF Offsets
<1>6. offset <= sample /\ sample + FrameSamples <= offset + (Block + Overlap)
  BY <1>1, <1>2, <1>4 DEF offset
<1>7. item \in DecodeBlock(heard, offset)
  BY <1>6 DEF DecodeBlock, DecodeSlice
<1>8. item \in DecodeBlocks(heard)
  BY <1>5, <1>7 DEF DecodeBlocks
<1> QED
  BY <1>8

\* A packet of the same transmission is the last one, so that the look back sees it.
LEMMA CompareStep ==
  ASSUME HeardInv, tool = "decode-iq", ReportedInv, LeftInv, UNCHANGED heard,
         NEW item \in found, \A other \in found : item.sample <= other.sample,
         found' = found \ {item},
         packets' = IF Repeated(item) THEN packets ELSE Append(packets, item)
  PROVE  ReportedInv' /\ LeftInv'
<1> DEFINE n == Len(packets)
<1>1. /\ item \in DecodeBlocks(heard) /\ item \in Packet
      /\ packets \in Seq(Packet) /\ n \in Nat
      /\ item.sample \in Nat
      /\ \A i \in 1 .. n : packets[i].sample \in Nat /\ packets[i].sample <= item.sample
  <2>1. item \in DecodeBlocks(heard) /\ item \in Packet
    BY FoundWasSent DEF LeftInv
  <2>2. packets \in Seq(Packet) /\ n \in Nat /\ \A i \in 1 .. n : packets[i] \in Packet
    BY DEF ReportedInv
  <2>3. \A i \in 1 .. n : packets[i].sample <= item.sample
    BY DEF LeftInv
  <2> QED
    BY <2>1, <2>2, <2>3 DEF Packet
<1>2. \A other \in DecodeBlocks(heard) : other.sample \in Nat
  BY FoundWasSent DEF Packet
<1>3. UNCHANGED DecodeBlocks(heard)
  BY DEF DecodeBlocks
<1>4. CASE Repeated(item)
  <2>1. PICK i \in 1 .. n :
          /\ packets[i].payload = item.payload
          /\ item.sample - packets[i].sample < Window
    BY <1>4 DEF Repeated
  <2>2. packets' = packets
    BY <1>4
  <2>3. ReportedInv'
    BY <2>2 DEF ReportedInv
  <2>4. LeftInv'
    BY <1>1, <1>3, <2>1, <2>2 DEF LeftInv
  <2> QED
    BY <2>3, <2>4
<1>5. CASE ~Repeated(item)
  <2>1. PICK tx \in heard : Of(item, tx)
    BY <1>1, FoundWasSent
  <2>2. ASSUME NEW i \in 1 .. n
        PROVE  packets[i].sample + Window <= item.sample
    <3>1. PICK other \in heard : Of(packets[i], other)
      BY DEF ReportedInv
    <3>2. CASE other = tx
      <4>1. packets[i].payload = item.payload /\ item.sample - packets[i].sample < Window
        BY <1>1, <2>1, <3>1, <3>2, SameOrApart DEF Of
      <4>2. i < n
        BY <1>1, <1>5, <4>1, DecoderAssumption DEF Repeated
      <4>3. packets[i].sample + Window <= packets[n].sample
        BY <1>1, <4>2 DEF ReportedInv
      <4>4. n \in 1 .. n /\ Window \in Nat
        BY <1>1, <4>2, DecoderAssumption
      <4> QED
        BY <1>1, <4>3, <4>4
    <3>3. CASE other # tx
      BY <1>1, <2>1, <3>1, <3>3, SameOrApart DEF Of
    <3> QED
      BY <3>2, <3>3
  <2>3. /\ packets' \in Seq(Packet) /\ Len(packets') = n + 1
        /\ \A i \in 1 .. n : packets'[i] = packets[i]
        /\ packets'[n + 1] = item
    BY <1>1, <1>5
  <2>4. \A i \in 1 .. n + 1 : i \in 1 .. n \/ i = n + 1
    BY <1>1
  <2> HIDE DEF n
  <2>5. ReportedInv'
    <3>1. \A i \in 1 .. Len(packets') : \E sent \in heard' : Of(packets'[i], sent)
      BY <2>1, <2>3, <2>4 DEF ReportedInv, n
    <3>2. ASSUME NEW i \in 1 .. n + 1, NEW j \in 1 .. n + 1, i < j
          PROVE  packets'[i].sample + Window <= packets'[j].sample
      <4>1. i \in 1 .. n
        BY <1>1, <3>2
      <4>2. CASE j = n + 1
        BY <2>2, <2>3, <4>1, <4>2
      <4>3. CASE j \in 1 .. n
        BY <2>3, <3>2, <4>1, <4>3 DEF ReportedInv, n
      <4> QED
        BY <2>4, <4>2, <4>3
    <3> QED
      BY <2>3, <3>1, <3>2 DEF ReportedInv
  <2>6. LeftInv'
    <3>1. found' \subseteq DecodeBlocks(heard')
      BY <1>3 DEF LeftInv
    <3>2. ASSUME NEW other \in found', NEW i \in 1 .. n + 1
          PROVE  packets'[i].sample <= other.sample
      <4>1. item.sample <= other.sample /\ other \in found /\ other.sample \in Nat
        BY <1>2 DEF LeftInv
      <4>2. CASE i = n + 1
        BY <2>3, <4>1, <4>2
      <4>3. CASE i \in 1 .. n
        BY <2>3, <4>1, <4>3 DEF LeftInv, n
      <4> QED
        BY <2>4, <4>2, <4>3
    <3>3. ASSUME NEW other \in DecodeBlocks(heard) \ found'
          PROVE  \E i \in 1 .. n + 1 :
                   /\ packets'[i].payload = other.payload
                   /\ packets'[i].sample <= other.sample
                   /\ other.sample - packets'[i].sample < Window
      <4>1. CASE other = item
        <5>1. n + 1 \in 1 .. n + 1 /\ item.sample - item.sample < Window
          BY <1>1, DecoderAssumption DEF n
        <5> QED
          BY <1>1, <2>3, <4>1, <5>1
      <4>2. CASE other # item
        <5>1. PICK i \in 1 .. n :
                /\ packets[i].payload = other.payload
                /\ packets[i].sample <= other.sample
                /\ other.sample - packets[i].sample < Window
          BY <4>2 DEF LeftInv, n
        <5>2. i \in 1 .. n + 1
          BY <1>1
        <5> QED
          BY <2>3, <5>1, <5>2
      <4> QED
        BY <4>1, <4>2
    <3> QED
      BY <1>3, <2>3, <3>1, <3>2, <3>3 DEF LeftInv
  <2> QED
    BY <2>5, <2>6
<1> QED
  BY <1>4, <1>5

\* The steps that leave the decoder's own state alone.
LEMMA DecodeInvKept ==
  ASSUME DecodeInv, UNCHANGED <<tool, heard, found, packets>>,
         tool = "decode-iq" =>
           \/ pc' \in {"idle", "started"} \/ pc' = pc
           \/ found = {} /\ pc \in {"comparing", "opening", "writing", "ended"}
  PROVE  DecodeInv'
<1>1. HeardInv'
  BY DEF DecodeInv, HeardInv
<1>2. UNCHANGED DecodeBlocks(heard)
  BY DEF DecodeBlocks
<1>3. (ReportedInv <=> ReportedInv') /\ (LeftInv <=> LeftInv')
  BY <1>2 DEF ReportedInv, LeftInv
<1> QED
  BY <1>1, <1>3 DEF DecodeInv

LEMMA DecodeInvInit == Init => DecodeInv
<1> SUFFICES ASSUME Init PROVE DecodeInv
  OBVIOUS
<1>1. pc = "idle"
  BY DEF Init, BenchInit
<1>2. ASSUME tool = "decode-iq"
      PROVE  /\ heard \subseteq Transmission
             /\ \A one, other \in heard : one # other => Apart(one, other)
  <2>1. heard \in Hearings
    BY <1>2 DEF Init, DecoderInit
  <2>2. \/ heard = {}
        \/ \E s \in [1 .. MaxHeard -> Transmission] : heard = {s[i] : i \in 1 .. MaxHeard}
    BY <2>1 DEF Hearings
  <2>3. heard \subseteq Transmission
    BY <2>2
  <2>4. \A one, other \in heard : one # other => Apart(one, other)
    BY <2>1 DEF Hearings
  <2> QED
    BY <2>3, <2>4
<1> QED
  BY <1>1, <1>2 DEF DecodeInv, HeardInv

LEMMA DecodeInvNext == DecodeInv /\ [Next]_vars => DecodeInv'
<1> SUFFICES ASSUME DecodeInv, [Next]_vars PROVE DecodeInv'
  OBVIOUS
<1>1. CASE Start /\ UNCHANGED decoderVars
  BY <1>1, DecodeInvKept DEF Start, GoTo, decoderVars
<1>2. CASE Rival /\ UNCHANGED decoderVars
  BY <1>2, DecodeInvKept DEF Rival, decoderVars
<1>3. CASE KeyboardInterrupt
  BY <1>3, DecodeInvKept DEF KeyboardInterrupt, Fail, Leave, GoTo, decoderVars
<1>4. CASE LogNext /\ UNCHANGED decoderVars
  <2>1. tool' = tool /\ tool # "decode-iq"
    BY <1>4 DEF LogNext, BridgeLog, SerialCapture, RfTest, LogRefused, LogAccepted, LogOpened,
         LogSubscribed, OnLog, LogEnded, LogReported, PortOpened, SerialOpened, SerialRead,
         SerialEnded, TestRefused, TestConnected, TestOpened, TestRequested, TestLog, TestSlept,
         TestEnded, OpenExclusive, Log, Leave, Fail, GoTo, At, benchVars
  <2> QED
    BY <1>4, <2>1, DecodeInvKept DEF decoderVars
<1>5. CASE CaptureNext /\ UNCHANGED decoderVars
  <2>1. tool' = tool /\ (tool = "decode-iq" => pc' = pc)
    BY <1>5 DEF CaptureNext, CaptureRefused, CaptureAccepted, CaptureOpened, Spawned, NotSpawned,
         Announced, NotAnnounced, ChildWrites, ChildEnds, ChildAwaited, CaptureGivenUp,
         ChildKilled, CaptureTruncated, CaptureReported, OpenExclusive, Leave, Fail, GoTo, At
  <2> QED
    BY <1>5, <2>1, DecodeInvKept DEF decoderVars
<1>6. CASE ConsoleNext /\ UNCHANGED decoderVars
  <2>1. tool' = tool /\ (tool = "decode-iq" => pc' = pc)
    BY <1>6 DEF ConsoleNext, ConsoleOpened, PasswordCancelled, UserSent, AlreadyLoggedIn,
         PasswordSent, NoAnswer, Info, CaptureStarted, JobAnswered, JobWrites, JobEnds,
         DeviceRestarts, DeviceStep, DownloadAsked, StatusChecked, Listed, TransferOpened,
         LineRead, LineDamaged, LineSkipped, LineLost, MarkerRead, TransferFails, NotVerified,
         TransferReported, Payload, Transferring, Passed, GiveUp, OpenExclusive, Host, Leave,
         Fail, GoTo, At, benchVars
  <2> QED
    BY <1>6, <2>1, DecodeInvKept DEF decoderVars
<1>7. CASE DecoderNext
  <2>1. CASE SourceRefused \/ Compared \/ ReportOpened \/ PacketWritten \/ ReportWritten
             \/ ReportPrinted
    <3>1. /\ UNCHANGED <<tool, heard, found, packets>>
          /\ \/ pc' \in {"idle", "started"} \/ pc' = pc
             \/ found = {} /\ pc \in {"comparing", "opening", "writing", "ended"}
      BY <2>1 DEF SourceRefused, Compared, ReportOpened, PacketWritten, ReportWritten,
                  ReportPrinted, OpenExclusive, Leave, Fail, GoTo, At, decoderVars, DecodeInv
    <3> QED
      BY <3>1, DecodeInvKept
  <2>2. CASE Decode
    <3>1. /\ tool = "decode-iq" /\ tool' = tool /\ pc' = "comparing" /\ UNCHANGED heard
          /\ found' = DecodeBlocks(heard) /\ packets' = <<>>
      BY <2>2 DEF Decode, At, GoTo
    <3>2. HeardInv'
      BY <3>1 DEF DecodeInv, HeardInv
    <3>3. UNCHANGED DecodeBlocks(heard)
      BY <3>1 DEF DecodeBlocks
    <3>4. packets' \in Seq(Packet) /\ Len(packets') = 0 /\ 1 .. Len(packets') = {}
      BY <3>1
    <3>5. ReportedInv' /\ LeftInv'
      BY <3>1, <3>3, <3>4 DEF ReportedInv, LeftInv
    <3> QED
      BY <3>1, <3>2, <3>5 DEF DecodeInv
  <2>3. CASE Compare
    <3>1. PICK item \in found :
            /\ \A other \in found : item.sample <= other.sample
            /\ found' = found \ {item}
            /\ packets' = IF Repeated(item) THEN packets ELSE Append(packets, item)
      BY <2>3 DEF Compare
    <3>2. tool = "decode-iq" /\ pc = "comparing" /\ UNCHANGED <<tool, pc, heard>>
      BY <2>3 DEF Compare, At, benchVars
    <3>3. ReportedInv' /\ LeftInv'
      BY <3>1, <3>2, CompareStep DEF DecodeInv
    <3>4. HeardInv'
      BY <3>2 DEF DecodeInv, HeardInv
    <3> QED
      BY <3>2, <3>3, <3>4 DEF DecodeInv
  <2> QED
    BY <1>7, <2>1, <2>2, <2>3 DEF DecoderNext
<1>8. CASE UNCHANGED vars
  BY <1>8, DecodeInvKept DEF vars, benchVars, decoderVars
<1> QED
  BY <1>1, <1>2, <1>3, <1>4, <1>5, <1>6, <1>7, <1>8 DEF Next

\* What is reported in the end is one packet of every transmission that decodes, and
\* nothing else.
LEMMA NothingLeft ==
  ASSUME HeardInv, tool = "decode-iq", ReportedInv, LeftInv, found = {}
  PROVE  FramesOnce
<1> DEFINE n == Len(packets)
<1>1. n \in Nat /\ Window \in Nat \ {0} /\ \A i \in 1 .. n : packets[i].sample \in Nat
  <2>1. n \in Nat /\ \A i \in 1 .. n : packets[i] \in Packet
    BY DEF ReportedInv
  <2> QED
    BY <2>1, DecoderAssumption DEF Packet
<1>2. ASSUME NEW tx \in Intact
      PROVE  \E i \in 1 .. n : Of(packets[i], tx)
  <2>1. PICK sample \in Decodes(tx) : tx \in heard
    BY DEF Intact
  <2>2. PICK item \in DecodeBlocks(heard) : item.sample = sample /\ item.payload = tx.payload
    BY <2>1, SentIsFound
  <2>3. PICK i \in 1 .. n : packets[i].sample <= sample /\ sample - packets[i].sample < Window
    BY <2>2 DEF LeftInv
  <2>4. PICK other \in heard : Of(packets[i], other)
    BY DEF ReportedInv
  <2>5. sample \in Nat /\ Window \in Nat
    BY <2>1, DecodesWithin, DecoderAssumption DEF HeardInv
  <2>6. other = tx
    BY <1>1, <2>1, <2>3, <2>4, <2>5, SameOrApart DEF Of
  <2> QED
    BY <2>4, <2>6
<1>3. ASSUME NEW i \in 1 .. n, NEW j \in 1 .. n, i < j
      PROVE  packets[i].sample + Window <= packets[j].sample
  BY <1>3 DEF ReportedInv
<1>4. ASSUME NEW i \in 1 .. n, NEW j \in 1 .. n, NEW tx \in heard,
             Of(packets[i], tx), Of(packets[j], tx)
      PROVE  i = j
  <2>1. ASSUME NEW k \in 1 .. n, NEW l \in 1 .. n, Of(packets[k], tx), Of(packets[l], tx)
        PROVE  ~(k < l)
    <3>1. SUFFICES ASSUME k < l PROVE FALSE
      OBVIOUS
    <3>2. packets[k].sample + Window <= packets[l].sample
      BY <1>3, <3>1
    <3>3. /\ packets[k].sample \in Nat /\ packets[l].sample \in Nat
          /\ packets[k].sample <= packets[l].sample
      BY <1>1, <3>2
    <3>4. packets[l].sample - packets[k].sample < Window
      BY <2>1, <3>3, SameOrApart DEF Of
    <3> QED
      BY <1>1, <3>2, <3>3, <3>4
  <2>2. ~(i < j) /\ ~(j < i)
    BY <1>4, <2>1
  <2> QED
    BY <2>2
<1>5. ASSUME NEW i \in 1 .. n, NEW one \in heard, NEW other \in heard,
             Of(packets[i], one), Of(packets[i], other)
      PROVE  one = other
  <2>1. packets[i].sample \in Decodes(one) /\ packets[i].sample \in Decodes(other)
    BY <1>5 DEF Of
  <2>2. packets[i].sample <= packets[i].sample /\ ~(packets[i].sample + Window <= packets[i].sample)
    BY <1>1, DecoderAssumption
  <2> QED
    BY <2>1, <2>2, SameOrApart
<1>6. Len(packets) = Cardinality(Intact)
  <2> DEFINE source == [i \in 1 .. n |-> CHOOSE tx \in heard : Of(packets[i], tx)]
  <2>1. \A i \in 1 .. n : source[i] \in heard /\ Of(packets[i], source[i])
    BY DEF ReportedInv
  <2>2. \A i \in 1 .. n : source[i] \in Intact
    BY <2>1 DEF Intact, Of
  <2>3. source \in [1 .. n -> Intact]
    BY <2>2
  <2> HIDE DEF source
  <2>4. \A i, j \in 1 .. n : source[i] = source[j] => i = j
    BY <1>4, <2>1
  <2>5. \A tx \in Intact : \E i \in 1 .. n : source[i] = tx
    BY <1>2, <1>5, <2>1 DEF Intact
  <2>6. source \in Bijection(1 .. n, Intact)
    BY <2>3, <2>4, <2>5 DEF Bijection, Injection, Surjection, IsInjective
  <2>7. ExistsBijection(1 .. n, Intact)
    BY <2>6 DEF ExistsBijection
  <2> QED
    BY <1>1, <2>7, FS_CountingElements
<1>7. \A tx \in Intact : \E i \in 1 .. Len(packets) :
        packets[i].payload = tx.payload /\ packets[i].sample \in Decodes(tx)
  BY <1>2 DEF Of
<1>8. ASSUME NEW i \in 2 .. n
      PROVE  packets[i - 1].sample < packets[i].sample
  <2>1. i - 1 \in 1 .. n /\ i \in 1 .. n /\ i - 1 < i
    BY <1>1
  <2>2. packets[i - 1].sample + Window <= packets[i].sample
    BY <1>3, <2>1
  <2>3. packets[i - 1].sample \in Nat /\ packets[i].sample \in Nat
    BY <1>1, <2>1
  <2> QED
    BY <1>1, <2>2, <2>3
<1> QED
  BY <1>6, <1>7, <1>8 DEF FramesOnce

\* Whatever is sent, at whatever phases it decodes and wherever the blocks end: the
\* report holds every frame that decodes once, in the order of the samples, and no
\* other.
THEOREM EveryFrameIsReportedOnce == Spec => []FramesOnce
<1>1. DecodeInv => FramesOnce
  BY NothingLeft DEF DecodeInv, FramesOnce
<1> QED
  BY <1>1, DecodeInvInit, DecodeInvNext, PTL DEF Spec
=============================================================================
