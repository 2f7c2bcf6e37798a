------------------------------ MODULE IqDecoder ------------------------------
(***************************************************************************)
(* decode-iq.py: a recording is decoded in overlapping blocks, at every    *)
(* sample phase, and what was found more than once is reported once.       *)
(*                                                                         *)
(* A transmission is where it starts in the recording, its payload, and    *)
(* the sample phases at which its bits come out right; one that is damaged *)
(* passes the CRC at none.  Lengths are in samples, scaled down.           *)
(***************************************************************************)
EXTENDS Bench

CONSTANTS Payloads,
          FileSamples,    \* samples in a recording
          SymbolSamples,  \* samples per symbol, that is phases       (2, 4 or 8)
          FrameSamples,   \* samples it takes to decode one frame     (280 symbols and one)
          Block,          \* samples decoded at once                  (1000000)
          Overlap,        \* samples a block shares with the next     (4096)
          Lookback,       \* reported frames a new one is compared to (10)
          Window,         \* samples within which it is the same one  (16)
          MaxHeard        \* bound: transmissions in a recording

ASSUME DecoderAssumption ==
  /\ {FileSamples, SymbolSamples, FrameSamples, Block, Overlap, Lookback, Window}
       \subseteq Nat \ {0}
  /\ SymbolSamples <= Window /\ Window + SymbolSamples <= FrameSamples + 1
  /\ FrameSamples <= Overlap
  /\ MaxHeard \in Nat

VARIABLES
  heard,    \* the transmissions in the recording
  found,    \* what was found and is not yet compared with what is reported
  packets   \* what is reported

decoderVars == <<heard, found, packets>>

-----------------------------------------------------------------------------
Transmission == [at : 0 .. FileSamples - 1, payload : Payloads,
                 phases : SUBSET (0 .. SymbolSamples - 1)]

\* One channel: what is sent at the same time is not heard as two frames.
Apart(one, other) == one.at + FrameSamples <= other.at \/ other.at + FrameSamples <= one.at

Hearings ==
  {h \in {{}} \cup {{s[i] : i \in 1 .. MaxHeard} : s \in [1 .. MaxHeard -> Transmission]} :
     \A one, other \in h : one # other => Apart(one, other)}

DecoderInit ==
  /\ heard \in IF tool = "decode-iq" THEN Hearings ELSE {{}}
  /\ found = {} /\ packets = <<>>

\* The samples at which a transmission decodes: the file still holds all of the frame.
Decodes(tx) ==
  {sample \in {tx.at + phase : phase \in tx.phases} : sample + FrameSamples <= FileSamples}

Offsets == {offset \in 0 .. FileSamples - 1 : offset % Block = 0}

\* What is found in the `length' samples from `offset' on: every frame that is whole
\* there, once for every phase at which it decodes.
DecodeSlice(recording, offset, length) ==
  UNION {{[sample |-> sample, payload |-> tx.payload, offset |-> offset] :
            sample \in {s \in Decodes(tx) : offset <= s /\ s + FrameSamples <= offset + length}}
         : tx \in recording}

\* A slip: the blocks do not overlap.
DecodeBlockAlone(recording, offset) == DecodeSlice(recording, offset, Block)

\* decode_block(), and the slice that decode_file() gives it.
DecodeBlock(recording, offset) == DecodeSlice(recording, offset, Block + Overlap)

DecodeBlocks(recording) == UNION {DecodeBlock(recording, offset) : offset \in Offsets}

\* Found already: among the last reported, the same payload at almost the same place.
Repeated(item) ==
  \E i \in 1 .. Len(packets) :
    /\ Len(packets) - i < Lookback
    /\ packets[i].payload = item.payload
    /\ item.sample - packets[i].sample < Window

-----------------------------------------------------------------------------
\* Half a sample at the end of the file, or nothing to read.
SourceRefused == At("decode-iq", "started") /\ Fail /\ UNCHANGED decoderVars

Decode ==
  /\ At("decode-iq", "started")
  /\ found' = DecodeBlocks(heard) /\ packets' = <<>>
  /\ GoTo("comparing")
  /\ UNCHANGED <<dest, report, link, heard>>

\* decode_file()'s second loop goes through what was found in the order of the samples.
Compare ==
  /\ At("decode-iq", "comparing")
  /\ \E item \in found :
       /\ \A other \in found : item.sample <= other.sample
       /\ found' = found \ {item}
       /\ packets' = IF Repeated(item) THEN packets ELSE Append(packets, item)
  /\ UNCHANGED <<benchVars, heard>>

Compared ==
  /\ At("decode-iq", "comparing") /\ found = {}
  /\ GoTo("opening")
  /\ UNCHANGED <<dest, report, link, decoderVars>>

ReportOpened == At("decode-iq", "opening") /\ OpenExclusive("writing") /\ UNCHANGED decoderVars

PacketWritten ==
  /\ At("decode-iq", "writing") /\ Len(dest.content) < Len(packets)
  /\ Write([bytes |-> 1, what |-> 0])
  /\ UNCHANGED <<tool, pc, report, link, decoderVars>>

ReportWritten ==
  /\ At("decode-iq", "writing") /\ Len(dest.content) = Len(packets)
  /\ Closed /\ GoTo("ended")
  /\ UNCHANGED <<report, link, decoderVars>>

ReportPrinted ==
  /\ At("decode-iq", "ended")
  /\ report' = [items |-> Len(packets), bytes |-> Len(packets)]
  /\ Leave
  /\ UNCHANGED <<dest, decoderVars>>

DecoderNext ==
  \/ SourceRefused \/ Decode \/ Compare \/ Compared \/ ReportOpened
  \/ PacketWritten \/ ReportWritten \/ ReportPrinted

=============================================================================
