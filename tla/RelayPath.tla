------------------------------ MODULE RelayPath ------------------------------
(***************************************************************************)
(* The way of a frame through the bridge: channel hopping, the receive     *)
(* FIFO, the poll that empties it, the decision to relay, and the bursts   *)
(* in between (norman_rf_monitor.cpp).                                     *)
(*                                                                         *)
(* Every frame here is valid and authorised, and told apart byte by byte.  *)
(* The handlers that read the FIFO are taken one read at a time; what the  *)
(* loop is in the middle of is `loop', and no other handler runs before it *)
(* is done.  The radio goes on receiving meanwhile, while CE is high.      *)
(* RadioOwner has the rest of the firmware; a policy that cannot be saved  *)
(* never relays again and needs no model here.                             *)
(***************************************************************************)
EXTENDS RelayCache, Sequences

CONSTANTS FifoDepth,     \* frames the radio can hold       (3)
          PollReads      \* frames one poll reads at most   (3)

\* One poll can empty the FIFO.
ASSUME PathAssumption == FifoDepth \in Nat /\ PollReads \in Nat /\ FifoDepth <= PollReads

VARIABLES
  channel,        \* channel_index_: what the receiver is tuned to, or will be
  listening,      \* CE, while the radio is a receiver
  fifo,           \* the receive FIFO: each frame with the channel it was heard on
  loop, reads,    \* the handler under way, and what is left of its reads
  tx,             \* the burst on air
  cooldown,       \* whether a burst has ended a quarter of a second ago
  requested, fault, learning,
  cache

\* History: time since this bridge relayed a frame, and since it sent and remembered one of
\* its own; SuppressTime stands for that long, or never.
VARIABLES relayed, sent

radioVars  == <<channel, listening, fifo, loop, reads, tx, cooldown>>
policyVars == <<requested, fault, learning>>
history    == <<relayed, sent>>
vars       == <<radioVars, policyVars, cache, history>>

-----------------------------------------------------------------------------
Channels == 0 .. 2      \* kCandidateChannels: 15, 39, 59
NoChannel == -1

\* relay_output_channel
Output(input) == IF input < 2 THEN input + 1 ELSE NoChannel

Burst == [kind : {"none", "direct", "repeat", "relay"}, frames : SUBSET Frames,
          output : Channels \cup {NoChannel}]

Silence == [kind |-> "none", frames |-> {}, output |-> NoChannel]
OwnBurst(kind, frame) == [kind |-> kind, frames |-> {frame}, output |-> 0]
RelayBurst(frame, output) == [kind |-> "relay", frames |-> {frame}, output |-> output]

TxActive     == tx.kind # "none"
RelayEnabled == requested /\ ~fault
CanTransmit  == ~TxActive /\ ~learning /\ ~cooldown

Idle == loop = "idle"

\* An entry of the receive FIFO.
Heard == [frame : Frames, heardOn : Channels]

\* A retune to the first hop, or to where the receiver was, which ends with CE high; the
\* FIFO stays as it is.
SelectReceiveChannel(enabled) ==
  channel' = (IF enabled THEN 0 ELSE channel) /\ listening' = TRUE

\* The FIFO, and what it may be after a moment of listening on this channel.
Received(frame) == Append(fifo, [frame |-> frame, heardOn |-> channel])

ReceivedOrNot ==
  {fifo} \cup {Received(frame) : frame \in {f \in Frames : Len(fifo) < FifoDepth}}

Longer(age) == IF age < SuppressTime THEN age + 1 ELSE age

Init ==
  /\ channel = 0 /\ listening = TRUE /\ fifo = <<>> /\ loop = "idle" /\ reads = 0
  /\ tx = Silence /\ cooldown = FALSE
  /\ requested \in BOOLEAN /\ fault = FALSE /\ learning = FALSE
  /\ cache \in {[entry \in Entries |-> [used |-> FALSE, frame |-> frame, age |-> 0]] : frame \in Frames}
  /\ relayed = [frame \in Frames |-> SuppressTime]
  /\ sent = [frame \in Frames |-> SuppressTime]

-----------------------------------------------------------------------------
\* The radio hears a frame on the channel it is tuned to.
Hear(frame) ==
  /\ listening
  /\ Len(fifo) < FifoDepth
  /\ fifo' = Received(frame)
  /\ UNCHANGED <<channel, listening, loop, reads, tx, cooldown, policyVars, cache, history>>

\* poll_radio_ and hop_channel_ begin; a poll without anything to read is not shown.
BeginPoll ==
  /\ Idle /\ ~TxActive /\ fifo # <<>>
  /\ loop' = "polling" /\ reads' = PollReads
  /\ UNCHANGED <<channel, listening, fifo, tx, cooldown, policyVars, cache, history>>

BeginHop ==
  /\ Idle /\ ~TxActive
  /\ loop' = "hopping" /\ reads' = PollReads
  /\ listening' = FALSE
  /\ UNCHANGED <<channel, fifo, tx, cooldown, policyVars, cache, history>>

\* Nothing becomes of a frame that is not relayed.
Ignore == UNCHANGED <<channel, listening, tx, fault, relayed>>

\* admit(), and the burst that follows: the frame is taken to have been heard on the
\* channel that is tuned now.  A full cache switches the receiver on, in the middle of a
\* hop as well.
AdmitAndForward(frame) ==
  \/ /\ Duplicate(cache, frame)
     /\ cache' \in Admitted(cache, frame)
     /\ Ignore
  \/ /\ Full(cache, frame)
     /\ fault' = TRUE
     /\ SelectReceiveChannel(FALSE)
     /\ UNCHANGED <<tx, cache, relayed>>
  \/ /\ Eligible(cache, frame)
     /\ cache' \in Admitted(cache, frame)
     /\ tx' = RelayBurst(frame, Output(channel)) /\ listening' = FALSE
     /\ relayed' = [relayed EXCEPT ![frame] = 0]
     /\ UNCHANGED <<channel, fault>>

\* A slip: the frame is admitted before the transmitter is asked.
AdmitFirst(frame) ==
  IF CanTransmit
    THEN AdmitAndForward(frame)
    ELSE cache' \in Admitted(cache, frame) /\ Ignore

\* handle_valid_frame_, from the channel on.  A frame that comes too early leaves its
\* entry to a later copy.
Relay(frame) ==
  IF CanTransmit
    THEN AdmitAndForward(frame)
    ELSE Ignore /\ UNCHANGED cache

\* One turn of poll_radio_'s loop.
ReadPayload ==
  /\ loop \in {"polling", "hopping"} /\ reads > 0 /\ ~TxActive
  /\ fifo # <<>>
  /\ fifo' = Tail(fifo)
  /\ reads' = reads - 1
  /\ IF RelayEnabled /\ Output(channel) # NoChannel
       THEN Relay(Head(fifo).frame)
       ELSE Ignore /\ UNCHANGED cache
  /\ UNCHANGED <<loop, cooldown, requested, learning, sent>>

\* A slip: one read is taken to empty the FIFO.
PollOverAfterOne == fifo = <<>> \/ reads < PollReads \/ TxActive

PollOver == fifo = <<>> \/ reads = 0 \/ TxActive

\* The poll is over.  A relay that has just begun in a hop owns the radio.
EndPoll ==
  /\ loop \in {"polling", "hopping"} /\ PollOver
  /\ loop' = IF loop = "hopping" /\ ~TxActive THEN "retuning" ELSE "idle"
  /\ reads' = 0
  /\ UNCHANGED <<channel, listening, fifo, tx, cooldown, policyVars, cache, history>>

EndHop ==
  /\ loop = "retuning"
  /\ channel' = (channel + 1) % (IF RelayEnabled /\ ~learning THEN 2 ELSE 3)
  /\ listening' = TRUE /\ loop' = "idle"
  /\ UNCHANGED <<fifo, reads, tx, cooldown, policyVars, cache, history>>

-----------------------------------------------------------------------------
\* A slip: only what is relayed is remembered.
RememberNothing(frame) ==
  /\ UNCHANGED <<cache, fault>>
  /\ sent' = [sent EXCEPT ![frame] = 0]

\* start_bursts_ of a frame of this bridge's own: remembered, if there is room.
RememberOwn(frame) ==
  /\ cache' \in Admitted(cache, frame)
  /\ fault' = (fault \/ Full(cache, frame))
  /\ sent' = IF Full(cache, frame) THEN sent ELSE [sent EXCEPT ![frame] = 0]

\* transmit_targets; it may end a repeat first, without a pause.
TransmitCommand(frame) ==
  /\ Idle
  /\ CanTransmit \/ (tx.kind = "repeat" /\ ~learning)
  /\ RememberOwn(frame)
  /\ tx' = OwnBurst("direct", frame) /\ listening' = FALSE
  /\ cooldown' = FALSE
  /\ IF TxActive
       THEN channel' = (IF RelayEnabled THEN 0 ELSE channel) /\ fifo' \in ReceivedOrNot
       ELSE UNCHANGED <<channel, fifo>>
  /\ UNCHANGED <<loop, reads, requested, learning, relayed>>

\* A command that is refused has ended the repeat all the same.  Where a burst ends the
\* receiver is on for a moment before it is tuned.
PreemptRepeat ==
  /\ Idle /\ tx.kind = "repeat"
  /\ tx' = Silence /\ cooldown' = FALSE
  /\ SelectReceiveChannel(RelayEnabled) /\ fifo' \in ReceivedOrNot
  /\ UNCHANGED <<loop, reads, policyVars, cache, history>>

\* repeat_targets and repeat_if_due_, after its poll; what has authority to be repeated
\* is left to RadioOwner.
StartRepeat(frame) ==
  /\ Idle /\ CanTransmit
  /\ RememberOwn(frame)
  /\ tx' = OwnBurst("repeat", frame) /\ listening' = FALSE
  /\ UNCHANGED <<channel, fifo, loop, reads, cooldown, requested, learning, relayed>>

\* finish_test_; a burst that failed latches the fault.
FinishBurst ==
  /\ Idle /\ TxActive
  /\ fault' \in {fault, TRUE}
  /\ tx' = Silence /\ cooldown' = TRUE
  /\ SelectReceiveChannel(requested /\ ~fault') /\ fifo' \in ReceivedOrNot
  /\ UNCHANGED <<loop, reads, requested, learning, cache, history>>

CooldownEnds ==
  /\ Idle /\ cooldown
  /\ cooldown' = FALSE
  /\ UNCHANGED <<channel, listening, fifo, loop, reads, tx, policyVars, cache, history>>

\* set_relay; turning it off rearms it.
SetRelay(enabled) ==
  /\ Idle /\ ~TxActive
  /\ requested' = enabled
  /\ fault' = (fault /\ enabled)
  /\ SelectReceiveChannel(requested' /\ ~fault')
  /\ UNCHANGED <<fifo, loop, reads, tx, cooldown, learning, cache, history>>

\* A panel's late save failed: the receiver is set up again.
PersistFailed ==
  /\ Idle /\ ~TxActive
  /\ SelectReceiveChannel(RelayEnabled)
  /\ UNCHANGED <<fifo, loop, reads, tx, cooldown, policyVars, cache, history>>

SetLearning(open) ==
  /\ Idle /\ open # learning
  /\ open => ~TxActive /\ ~fault
  /\ learning' = open
  /\ UNCHANGED <<radioVars, requested, fault, cache, history>>

Tick ==
  /\ Idle
  /\ cache' = AgedCache(cache)
  /\ relayed' = [frame \in Frames |-> Longer(relayed[frame])]
  /\ sent' = [frame \in Frames |-> Longer(sent[frame])]
  /\ UNCHANGED <<radioVars, policyVars>>

Next ==
  \/ \E frame \in Frames : Hear(frame) \/ TransmitCommand(frame) \/ StartRepeat(frame)
  \/ BeginPoll \/ BeginHop \/ ReadPayload \/ EndPoll \/ EndHop
  \/ PreemptRepeat \/ FinishBurst \/ CooldownEnds \/ PersistFailed
  \/ \E on \in BOOLEAN : SetRelay(on) \/ SetLearning(on)
  \/ Tick

Spec == Init /\ [][Next]_vars

-----------------------------------------------------------------------------
TypeOK ==
  /\ channel \in Channels /\ listening \in BOOLEAN
  /\ fifo \in Seq(Heard) /\ Len(fifo) <= FifoDepth
  /\ loop \in {"idle", "polling", "hopping", "retuning"} /\ reads \in 0 .. PollReads
  /\ tx \in Burst
  /\ cooldown \in BOOLEAN
  /\ requested \in BOOLEAN /\ fault \in BOOLEAN /\ learning \in BOOLEAN
  /\ cache \in Cache
  /\ relayed \in [Frames -> 0 .. SuppressTime] /\ sent \in [Frames -> 0 .. SuppressTime]

RelayStarts(frame) == ~TxActive /\ tx'.kind = "relay" /\ frame \in tx'.frames

\* An exact frame is relayed at most once in a suppression window, on whatever
\* channels it is heard, and however the clock wraps.
OncePerWindow ==
  [][\A frame \in Frames : RelayStarts(frame) => relayed[frame] = SuppressTime]_vars

\* What this bridge has sent itself does not come back through it, unless the cache
\* had no room to remember it.
OwnFramesStay ==
  [][\A frame \in Frames : RelayStarts(frame) => sent[frame] = SuppressTime]_vars

\* Hearing a frame uses up its entry only when it is relayed in the same step or was
\* live already: a copy that comes during the pause leaves the next one eligible.
NothingIsSwallowed ==
  [][\A frame \in Frames :
       ~Idle /\ ~Duplicate(cache, frame) /\ Duplicate(cache', frame) => RelayStarts(frame)]_vars

\* A hop retunes in standby and leaves no frame behind to be taken for one of the next
\* channel (norman_rf_monitor.cpp:185-189), unless a frame it has just read found the cache
\* full: then the receiver is on again, and nothing is relayed before the owner rearms.
HopsDrain ==
  [][loop = "retuning" /\ loop' = "idle" =>
       IF listening THEN fault ELSE fifo = <<>>]_vars

\* Queued frames retain their channel attribution: no frame goes out again on the
\* channel it was heard on, and none of the last channel at all.
KeepsAttribution ==
  [][\A frame \in Frames : RelayStarts(frame) => tx'.output = Output(Head(fifo).heardOn)]_vars

=============================================================================
