--------------------------- MODULE RelayPathProofs ---------------------------
(***************************************************************************)
(* What RelayPath promises for any number of frames and cache entries, any *)
(* suppression time and a clock of any length: types, that no frame is     *)
(* relayed twice in a suppression window or after this bridge has sent it, *)
(* that hearing a frame never uses it up, and that a hop drains the FIFO   *)
(* unless it has found the cache full.                                     *)
(***************************************************************************)
EXTENDS RelayPath, SequenceTheorems, TLAPS

\* The cache holds `frame', and no longer than `age'.
Remembers(c, frame, age) ==
  \E entry \in Entries : Holds(c, entry, frame) /\ c[entry].age <= age

\* Admitting a frame keeps a cache a cache.
LEMMA AdmittedType ==
  ASSUME NEW c \in Cache, NEW frame \in Frames, NEW new \in Admitted(c, frame)
  PROVE  new \in Cache
<1>1. ASSUME NEW entry \in Entries
      PROVE  Stamp(c, entry, frame) \in Cache
  <2>1. 0 \in Ages
    BY CacheAssumption DEF Ages
  <2> QED
    BY <2>1 DEF Stamp, Cache, Entry
<1> QED
  BY <1>1 DEF Admitted

\* Nothing live is evicted: what is remembered stays so, whatever is admitted.
LEMMA AdmittedKeeps ==
  ASSUME NEW c \in Cache, NEW frame \in Frames, NEW new \in Admitted(c, frame),
         NEW other \in Frames, NEW age \in Nat, age < SuppressTime,
         Remembers(c, other, age)
  PROVE  Remembers(new, other, age)
<1>1. PICK entry \in Entries : Holds(c, entry, other) /\ c[entry].age <= age
  BY DEF Remembers
<1>2. c[entry] \in Entry /\ c[entry].age \in Nat /\ SuppressTime \in Nat
  BY CacheAssumption DEF Cache, Entry, Ages
<1>3. Live(c, entry)
  BY <1>1, <1>2 DEF Holds, Live
<1>4. CASE Known(c, frame)
  <2>1. PICK e \in Entries : Holds(c, e, frame) /\ new = Stamp(c, e, frame)
    BY <1>4 DEF Admitted
  <2>2. CASE e = entry
    <3>1. new[entry] = [used |-> TRUE, frame |-> frame, age |-> 0]
      BY <2>1, <2>2 DEF Stamp, Cache
    <3>2. frame = other
      BY <1>1, <2>1, <2>2 DEF Holds
    <3> QED
      BY <3>1, <3>2 DEF Remembers, Holds
  <2>3. CASE e # entry
    <3>1. new[entry] = c[entry]
      BY <2>1, <2>3 DEF Stamp, Cache
    <3> QED
      BY <1>1, <3>1 DEF Remembers, Holds
  <2> QED
    BY <2>2, <2>3
<1>5. CASE ~Known(c, frame) /\ Full(c, frame)
  BY <1>5 DEF Admitted
<1>6. CASE ~Known(c, frame) /\ ~Full(c, frame)
  <2>1. PICK e \in Entries : Available(c, e) /\ new = Stamp(c, e, frame)
    BY <1>6 DEF Admitted
  <2>2. e # entry
    BY <1>3, <2>1 DEF Available
  <2>3. new[entry] = c[entry]
    BY <2>1, <2>2 DEF Stamp, Cache
  <2> QED
    BY <1>1, <2>3 DEF Remembers, Holds
<1> QED
  BY <1>4, <1>5, <1>6

\* What is admitted is remembered.
LEMMA AdmittedRemembers ==
  ASSUME NEW c \in Cache, NEW frame \in Frames, NEW new \in Admitted(c, frame),
         ~Full(c, frame)
  PROVE  Remembers(new, frame, 0)
<1>1. PICK e \in Entries : new = Stamp(c, e, frame)
  BY DEF Admitted
<1>2. new[e] = [used |-> TRUE, frame |-> frame, age |-> 0]
  BY <1>1 DEF Stamp, Cache
<1> QED
  BY <1>2 DEF Remembers, Holds

\* The clock does not wrap within a suppression window.
LEMMA AgedRemembers ==
  ASSUME NEW c \in Cache, NEW frame \in Frames, NEW age \in Nat, age + 1 < SuppressTime,
         Remembers(c, frame, age)
  PROVE  Remembers(AgedCache(c), frame, age + 1)
<1>1. PICK entry \in Entries : Holds(c, entry, frame) /\ c[entry].age <= age
  BY DEF Remembers
<1>2. c[entry] \in Entry /\ c[entry].age \in Nat
  BY DEF Cache, Entry, Ages
<1>3. c[entry].age + 1 < ClockSpan /\ ClockSpan \in Nat
  BY <1>1, <1>2, CacheAssumption
<1>4. (c[entry].age + 1) % ClockSpan = c[entry].age + 1
  BY <1>2, <1>3
<1>5. AgedCache(c)[entry] = [c[entry] EXCEPT !.age = c[entry].age + 1]
  BY <1>4 DEF AgedCache
<1> QED
  BY <1>1, <1>2, <1>5 DEF Remembers, Holds, Entry

\* Nor is a frame eligible that is remembered within its window.
LEMMA RememberedIsDuplicate ==
  ASSUME NEW c \in Cache, NEW frame \in Frames, NEW age \in Nat, age < SuppressTime,
         Remembers(c, frame, age)
  PROVE  Duplicate(c, frame)
<1>1. PICK entry \in Entries : Holds(c, entry, frame) /\ c[entry].age <= age
  BY DEF Remembers
<1>2. c[entry].age \in Nat /\ SuppressTime \in Nat
  BY CacheAssumption DEF Cache, Entry, Ages
<1> QED
  BY <1>1, <1>2 DEF Duplicate, Holds, Live

-----------------------------------------------------------------------------
\* The frames that are read are frames.
LEMMA HeadIsFrame ==
  ASSUME TypeOK, fifo # <<>>
  PROVE  Head(fifo).frame \in Frames
<1>1. fifo \in Seq(Heard)
  BY DEF TypeOK
<1>2. Head(fifo) \in Heard
  BY <1>1, HeadTailProperties
<1> QED
  BY <1>2 DEF Heard

\* What the receiver may hear fits into the FIFO.
LEMMA ReceivedType ==
  ASSUME TypeOK, NEW new \in ReceivedOrNot
  PROVE  new \in Seq(Heard) /\ Len(new) <= FifoDepth
<1>1. fifo \in Seq(Heard) /\ Len(fifo) <= FifoDepth /\ channel \in Channels
  BY DEF TypeOK
<1>2. ASSUME NEW frame \in Frames, Len(fifo) < FifoDepth, new = Received(frame)
      PROVE  new \in Seq(Heard) /\ Len(new) <= FifoDepth
  <2>1. [frame |-> frame, heardOn |-> channel] \in Heard
    BY <1>1 DEF Heard
  <2> QED
    BY <1>1, <1>2, <2>1, PathAssumption, AppendProperties DEF Received
<1> QED
  BY <1>1, <1>2 DEF ReceivedOrNot

\* The outcomes of one frame that is read, and of one that is sent, keep the types.
LEMMA SilenceType == Silence \in Burst
BY DEF Silence, Burst

LEMMA RelayType ==
  ASSUME TypeOK, NEW frame \in Frames, Output(channel) # NoChannel, Relay(frame)
  PROVE  /\ channel' \in Channels /\ listening' \in BOOLEAN
         /\ fault' \in BOOLEAN /\ cache' \in Cache
         /\ tx' \in Burst /\ relayed' \in [Frames -> 0 .. SuppressTime]
<1>1. CASE CanTransmit
  <2>1. Output(channel) \in Channels /\ 0 \in 0 .. SuppressTime
    BY CacheAssumption DEF TypeOK, Output, Channels, NoChannel
  <2>2. AdmitAndForward(frame)
    BY <1>1 DEF Relay
  <2>3. CASE Duplicate(cache, frame) /\ cache' \in Admitted(cache, frame)
               /\ Ignore
    BY <2>3, AdmittedType DEF Ignore, TypeOK
  <2>4. CASE fault' = TRUE /\ SelectReceiveChannel(FALSE) /\ UNCHANGED <<tx, cache, relayed>>
    BY <2>4 DEF SelectReceiveChannel, TypeOK
  <2>5. CASE /\ cache' \in Admitted(cache, frame)
             /\ tx' = RelayBurst(frame, Output(channel)) /\ listening' = FALSE
             /\ relayed' = [relayed EXCEPT ![frame] = 0]
             /\ UNCHANGED <<channel, fault>>
    BY <2>1, <2>5, AdmittedType DEF RelayBurst, Burst, TypeOK
  <2> QED
    BY <2>2, <2>3, <2>4, <2>5 DEF AdmitAndForward
<1>2. CASE ~CanTransmit
  BY <1>2 DEF Relay, Ignore, TypeOK
<1> QED
  BY <1>1, <1>2

LEMMA RememberOwnType ==
  ASSUME TypeOK, NEW frame \in Frames, RememberOwn(frame)
  PROVE  /\ cache' \in Cache /\ fault' \in BOOLEAN
         /\ sent' \in [Frames -> 0 .. SuppressTime]
         /\ \A kind \in {"direct", "repeat"} : OwnBurst(kind, frame) \in Burst
<1>1. 0 \in 0 .. SuppressTime
  BY CacheAssumption
<1>2. cache' \in Cache
  BY AdmittedType DEF RememberOwn, TypeOK
<1>3. fault' \in BOOLEAN
  BY Zenon DEF RememberOwn, TypeOK, Full
<1> QED
  BY <1>1, <1>2, <1>3 DEF RememberOwn, OwnBurst, Burst, Channels, TypeOK

LEMMA InitTypeOK == Init => TypeOK
<1> SUFFICES ASSUME Init PROVE TypeOK
  OBVIOUS
<1>1. 0 \in Ages /\ SuppressTime \in 0 .. SuppressTime
  BY CacheAssumption DEF Ages
<1>2. cache \in Cache
  <2>1. PICK frame \in Frames :
          cache = [entry \in Entries |-> [used |-> FALSE, frame |-> frame, age |-> 0]]
    BY DEF Init
  <2> QED
    BY <1>1, <2>1 DEF Cache, Entry
<1>3. fifo \in Seq(Heard) /\ Len(fifo) <= FifoDepth
  BY PathAssumption DEF Init
<1>4. reads \in 0 .. PollReads
  BY PathAssumption DEF Init
<1>5. channel \in Channels /\ tx \in Burst
  BY SilenceType DEF Init, Channels
<1>6. /\ relayed \in [Frames -> 0 .. SuppressTime]
      /\ sent \in [Frames -> 0 .. SuppressTime]
  BY <1>1 DEF Init
<1> QED
  BY <1>2, <1>3, <1>4, <1>5, <1>6 DEF Init, TypeOK

LEMMA NextTypeOK == TypeOK /\ [Next]_vars => TypeOK'
<1> SUFFICES ASSUME TypeOK, [Next]_vars PROVE TypeOK'
  OBVIOUS
<1> USE DEF TypeOK
<1>1. ASSUME NEW frame \in Frames, Hear(frame)
      PROVE  TypeOK'
  <2>1. fifo' \in Seq(Heard) /\ Len(fifo') <= FifoDepth
    BY <1>1, ReceivedType DEF Hear, ReceivedOrNot
  <2> QED
    BY <1>1, <2>1 DEF Hear, policyVars, history
<1>2. ASSUME NEW frame \in Frames, TransmitCommand(frame)
      PROVE  TypeOK'
  <2>1. channel' \in Channels
    BY <1>2 DEF TransmitCommand, Channels
  <2>2. fifo' \in Seq(Heard) /\ Len(fifo') <= FifoDepth
    BY <1>2, ReceivedType DEF TransmitCommand
  <2> QED
    BY <1>2, <2>1, <2>2, RememberOwnType DEF TransmitCommand
<1>3. ASSUME NEW frame \in Frames, StartRepeat(frame)
      PROVE  TypeOK'
  BY <1>3, RememberOwnType DEF StartRepeat
<1>4. CASE BeginPoll
  BY <1>4, PathAssumption DEF BeginPoll, policyVars, history
<1>5. CASE BeginHop
  <2>1. reads' \in 0 .. PollReads
    BY <1>5, PathAssumption DEF BeginHop
  <2>2. loop' \in {"idle", "polling", "hopping", "retuning"} /\ listening' \in BOOLEAN
    BY <1>5 DEF BeginHop
  <2> QED
    BY <1>5, <2>1, <2>2, Zenon DEF BeginHop, policyVars, history
<1>6. CASE ReadPayload
  <2>1. Head(fifo).frame \in Frames
    BY <1>6, HeadIsFrame DEF ReadPayload
  <2>2. fifo' \in Seq(Heard) /\ Len(fifo') <= FifoDepth
    BY <1>6, PathAssumption DEF ReadPayload
  <2>3. reads' \in 0 .. PollReads
    BY <1>6, PathAssumption DEF ReadPayload
  <2> QED
    BY <1>6, <2>1, <2>2, <2>3, RelayType DEF ReadPayload, Ignore
<1>7. CASE EndPoll
  BY <1>7, PathAssumption DEF EndPoll, policyVars, history
<1>8. CASE EndHop
  <2>1. channel' \in Channels
    BY <1>8 DEF EndHop, Channels
  <2> QED
    BY <1>8, <2>1, PathAssumption DEF EndHop, policyVars, history
<1>9. CASE PreemptRepeat
  <2>1. channel' \in Channels /\ tx' \in Burst
    BY <1>9, SilenceType DEF PreemptRepeat, SelectReceiveChannel, Channels
  <2>2. fifo' \in Seq(Heard) /\ Len(fifo') <= FifoDepth
    BY <1>9, ReceivedType DEF PreemptRepeat
  <2> QED
    BY <1>9, <2>1, <2>2 DEF PreemptRepeat, SelectReceiveChannel, policyVars, history
<1>10. CASE FinishBurst
  <2>1. channel' \in Channels /\ tx' \in Burst
    BY <1>10, SilenceType DEF FinishBurst, SelectReceiveChannel, Channels
  <2>2. fault' \in BOOLEAN
    BY <1>10, Zenon DEF FinishBurst
  <2>3. fifo' \in Seq(Heard) /\ Len(fifo') <= FifoDepth
    BY <1>10, ReceivedType DEF FinishBurst
  <2> QED
    BY <1>10, <2>1, <2>2, <2>3 DEF FinishBurst, SelectReceiveChannel, history
<1>11. CASE CooldownEnds
  BY <1>11 DEF CooldownEnds, policyVars, history
<1>12. CASE PersistFailed
  BY <1>12 DEF PersistFailed, SelectReceiveChannel, Channels, policyVars, history
<1>13. ASSUME NEW on \in BOOLEAN, SetRelay(on)
       PROVE  TypeOK'
  <2>1. fault' \in BOOLEAN
    BY <1>13, Zenon DEF SetRelay
  <2> QED
    BY <1>13, <2>1 DEF SetRelay, SelectReceiveChannel, Channels, history
<1>14. ASSUME NEW on \in BOOLEAN, SetLearning(on)
       PROVE  TypeOK'
  BY <1>14 DEF SetLearning, radioVars, history
<1>15. CASE Tick
  <2>1. cache' \in Cache
    <3>1. ASSUME NEW entry \in Entries PROVE (cache[entry].age + 1) % ClockSpan \in Ages
      BY CacheAssumption DEF Cache, Entry, Ages
    <3> QED
      BY <1>15, <3>1 DEF Tick, AgedCache, Cache, Entry
  <2>2. /\ relayed' \in [Frames -> 0 .. SuppressTime]
        /\ sent' \in [Frames -> 0 .. SuppressTime]
    BY <1>15, CacheAssumption DEF Tick, Longer
  <2> QED
    BY <1>15, <2>1, <2>2 DEF Tick, radioVars, policyVars
<1>16. CASE UNCHANGED vars
  BY <1>16 DEF vars, radioVars, policyVars, history
<1> QED
  BY <1>1, <1>2, <1>3, <1>4, <1>5, <1>6, <1>7, <1>8, <1>9, <1>10, <1>11, <1>12, <1>13,
     <1>14, <1>15, <1>16 DEF Next

\* The receive and relay path only ever holds what its variables are for.
THEOREM PathTypeCorrect == Spec => []TypeOK
BY InitTypeOK, NextTypeOK, PTL DEF Spec

-----------------------------------------------------------------------------
\* A history of the frames that are inside their window is covered by the cache.
Covers(c, since) ==
  \A frame \in Frames : since[frame] < SuppressTime => Remembers(c, frame, since[frame])

RememberInv == Covers(cache, relayed) /\ Covers(cache, sent)

LEMMA CoversAdmitted ==
  ASSUME NEW c \in Cache, NEW since \in [Frames -> 0 .. SuppressTime], Covers(c, since),
         NEW frame \in Frames, NEW new \in Admitted(c, frame)
  PROVE  /\ Covers(new, since)
         /\ ~Full(c, frame) => Covers(new, [since EXCEPT ![frame] = 0])
<1>1. ASSUME NEW other \in Frames, since[other] < SuppressTime
      PROVE  Remembers(new, other, since[other])
  <2>1. since[other] \in Nat /\ Remembers(c, other, since[other])
    BY <1>1, CacheAssumption DEF Covers
  <2> QED
    BY <1>1, <2>1, AdmittedKeeps
<1>2. Covers(new, since)
  BY <1>1 DEF Covers
<1>3. ASSUME ~Full(c, frame)
      PROVE  Covers(new, [since EXCEPT ![frame] = 0])
  <2> DEFINE after == [since EXCEPT ![frame] = 0]
  <2> SUFFICES ASSUME NEW other \in Frames, after[other] < SuppressTime
               PROVE  Remembers(new, other, after[other])
    BY DEF Covers
  <2>1. CASE other = frame
    <3>1. Remembers(new, frame, 0)
      BY <1>3, AdmittedRemembers
    <3> QED
      BY <2>1, <3>1
  <2>2. CASE other # frame
    <3>1. after[other] = since[other]
      BY <2>2
    <3> QED
      BY <1>1, <3>1
  <2> QED
    BY <2>1, <2>2
<1> QED
  BY <1>2, <1>3

LEMMA CoversAged ==
  ASSUME NEW c \in Cache, NEW since \in [Frames -> 0 .. SuppressTime], Covers(c, since)
  PROVE  Covers(AgedCache(c), [frame \in Frames |-> Longer(since[frame])])
<1> DEFINE after == [frame \in Frames |-> Longer(since[frame])]
<1> SUFFICES ASSUME NEW frame \in Frames, after[frame] < SuppressTime
             PROVE  Remembers(AgedCache(c), frame, after[frame])
  BY DEF Covers
<1>1. since[frame] \in Nat /\ SuppressTime \in Nat /\ since[frame] <= SuppressTime
  BY CacheAssumption
<1>2. since[frame] < SuppressTime /\ after[frame] = since[frame] + 1
  BY <1>1 DEF Longer
<1>3. Remembers(c, frame, since[frame])
  BY <1>2 DEF Covers
<1> QED
  BY <1>1, <1>2, <1>3, AgedRemembers

LEMMA InitRemembers == Init => RememberInv
<1>1. ~(SuppressTime < SuppressTime)
  BY CacheAssumption
<1> QED
  BY <1>1 DEF Init, RememberInv, Covers

LEMMA NextRemembers == TypeOK /\ RememberInv /\ [Next]_vars => RememberInv'
<1> SUFFICES ASSUME TypeOK, RememberInv, [Next]_vars PROVE RememberInv'
  OBVIOUS
<1>1. /\ cache \in Cache /\ Covers(cache, relayed) /\ Covers(cache, sent)
      /\ relayed \in [Frames -> 0 .. SuppressTime]
      /\ sent \in [Frames -> 0 .. SuppressTime]
  BY DEF TypeOK, RememberInv
<1>2. CASE UNCHANGED <<cache, history>>
  BY <1>1, <1>2 DEF RememberInv, history
<1>3. ASSUME NEW frame \in Frames, RememberOwn(frame), UNCHANGED relayed
      PROVE  RememberInv'
  BY <1>1, <1>3, CoversAdmitted DEF RememberOwn, RememberInv
<1>4. CASE ReadPayload
  <2>1. CASE UNCHANGED <<cache, relayed>>
    BY <1>1, <1>4, <2>1 DEF ReadPayload, RememberInv
  <2>2. CASE ~UNCHANGED <<cache, relayed>>
    <3> DEFINE frame == Head(fifo).frame
    <3>1. Relay(frame) /\ UNCHANGED sent
      BY <1>4, <2>2 DEF ReadPayload, Ignore
    <3>2. frame \in Frames
      BY <1>4, HeadIsFrame DEF ReadPayload
    <3>3. AdmitAndForward(frame)
      BY <2>2, <3>1 DEF Relay, Ignore
    <3>4. /\ cache' \in Admitted(cache, frame)
          /\ \/ relayed' = relayed
             \/ ~Full(cache, frame) /\ relayed' = [relayed EXCEPT ![frame] = 0]
      BY <2>2, <3>3 DEF AdmitAndForward, Eligible, Ignore
    <3> QED
      BY <1>1, <3>1, <3>2, <3>4, CoversAdmitted DEF RememberInv
  <2> QED
    BY <2>1, <2>2
<1>5. CASE Tick
  <2>1. /\ cache' = AgedCache(cache)
        /\ relayed' = [frame \in Frames |-> Longer(relayed[frame])]
        /\ sent' = [frame \in Frames |-> Longer(sent[frame])]
    BY <1>5 DEF Tick
  <2> QED
    BY <1>1, <2>1, CoversAged DEF RememberInv
<1>6. ASSUME NEW frame \in Frames, TransmitCommand(frame) \/ StartRepeat(frame)
      PROVE  RememberInv'
  BY <1>3, <1>6 DEF TransmitCommand, StartRepeat
<1>7. ASSUME NEW frame \in Frames, Hear(frame)
      PROVE  UNCHANGED <<cache, history>>
  BY <1>7 DEF Hear
<1>8. ASSUME NEW on \in BOOLEAN, SetRelay(on) \/ SetLearning(on)
      PROVE  UNCHANGED <<cache, history>>
  BY <1>8 DEF SetRelay, SetLearning
<1>9. ASSUME \/ BeginPoll \/ BeginHop \/ EndPoll \/ EndHop \/ PreemptRepeat \/ FinishBurst
             \/ CooldownEnds \/ PersistFailed \/ UNCHANGED vars
      PROVE  UNCHANGED <<cache, history>>
  BY <1>9 DEF BeginPoll, BeginHop, EndPoll, EndHop, PreemptRepeat, FinishBurst, CooldownEnds,
              PersistFailed, vars
<1> QED
  BY <1>2, <1>4, <1>5, <1>6, <1>7, <1>8, <1>9 DEF Next

LEMMA RememberedAlways == Spec => [](TypeOK /\ RememberInv)
BY InitTypeOK, NextTypeOK, InitRemembers, NextRemembers, PTL DEF Spec

\* Only a read that finds the frame eligible puts a relay on air.
LEMMA RelayNeedsEligible ==
  ASSUME TypeOK, RememberInv, [Next]_vars, NEW frame \in Frames, RelayStarts(frame)
  PROVE  relayed[frame] = SuppressTime /\ sent[frame] = SuppressTime
<1> DEFINE head == Head(fifo).frame
<1>1. ReadPayload
  <2>1. tx.kind = "none" /\ tx'.kind = "relay"
    BY DEF RelayStarts, TxActive
  <2>2. ASSUME NEW own \in Frames, TransmitCommand(own) \/ StartRepeat(own)
        PROVE  FALSE
    BY <2>1, <2>2 DEF TransmitCommand, StartRepeat, OwnBurst
  <2>3. ASSUME PreemptRepeat \/ FinishBurst
        PROVE  FALSE
    BY <2>1, <2>3 DEF PreemptRepeat, FinishBurst, Silence
  <2>4. ASSUME NEW heard \in Frames, Hear(heard)
        PROVE  FALSE
    BY <2>1, <2>4 DEF Hear
  <2>5. ASSUME NEW on \in BOOLEAN, SetRelay(on) \/ SetLearning(on)
        PROVE  FALSE
    BY <2>1, <2>5 DEF SetRelay, SetLearning, radioVars
  <2>6. ASSUME \/ BeginPoll \/ BeginHop \/ EndPoll \/ EndHop \/ CooldownEnds
               \/ PersistFailed \/ Tick \/ UNCHANGED vars
        PROVE  FALSE
    BY <2>1, <2>6 DEF BeginPoll, BeginHop, EndPoll, EndHop, CooldownEnds, PersistFailed, Tick,
                      vars, radioVars
  <2> QED
    BY <2>2, <2>3, <2>4, <2>5, <2>6 DEF Next
<1>2. Relay(head) /\ tx' # tx
  BY <1>1 DEF ReadPayload, RelayStarts, TxActive, Ignore
<1>3. Eligible(cache, head) /\ tx'.frames = {head}
  <2>1. AdmitAndForward(head)
    BY <1>2 DEF Relay, Ignore
  <2>2. Eligible(cache, head) /\ tx' = RelayBurst(head, Output(channel))
    BY <1>2, <2>1 DEF AdmitAndForward, Ignore
  <2> QED
    BY <2>2 DEF RelayBurst
<1>4. ~Duplicate(cache, frame)
  BY <1>3 DEF Eligible, RelayStarts
<1>5. ASSUME NEW age \in 0 .. SuppressTime, age < SuppressTime => Remembers(cache, frame, age)
      PROVE  age = SuppressTime
  BY <1>4, <1>5, CacheAssumption, RememberedIsDuplicate DEF TypeOK
<1>6. /\ relayed[frame] \in 0 .. SuppressTime /\ sent[frame] \in 0 .. SuppressTime
      /\ relayed[frame] < SuppressTime => Remembers(cache, frame, relayed[frame])
      /\ sent[frame] < SuppressTime => Remembers(cache, frame, sent[frame])
  BY DEF TypeOK, RememberInv, Covers
<1> QED
  BY <1>5, <1>6

\* A frame is relayed at most once in a window, whatever the length of the clock.
THEOREM RelayedOncePerWindow == Spec => OncePerWindow
<1>1. TypeOK /\ RememberInv /\ [Next]_vars =>
        [\A frame \in Frames : RelayStarts(frame) => relayed[frame] = SuppressTime]_vars
  BY RelayNeedsEligible
<1> QED
  BY <1>1, RememberedAlways, PTL DEF Spec, OncePerWindow

\* A frame this bridge has sent and remembered is not relayed within the window.
THEOREM OwnFramesAreNotRelayed == Spec => OwnFramesStay
<1>1. TypeOK /\ RememberInv /\ [Next]_vars =>
        [\A frame \in Frames : RelayStarts(frame) => sent[frame] = SuppressTime]_vars
  BY RelayNeedsEligible
<1> QED
  BY <1>1, RememberedAlways, PTL DEF Spec, OwnFramesStay

-----------------------------------------------------------------------------
\* The handlers that run between two turns of the loop: only a read that is under way
\* changes the cache while the loop is not idle.
LEMMA BusyKeepsCache ==
  ASSUME [Next]_vars, ~Idle, ~ReadPayload
  PROVE  cache' = cache
<1>1. ASSUME NEW frame \in Frames, Hear(frame) \/ TransmitCommand(frame) \/ StartRepeat(frame)
      PROVE  cache' = cache
  BY <1>1 DEF Hear, TransmitCommand, StartRepeat
<1>2. ASSUME NEW on \in BOOLEAN, SetRelay(on) \/ SetLearning(on)
      PROVE  cache' = cache
  BY <1>2 DEF SetRelay, SetLearning
<1>3. CASE \/ BeginPoll \/ BeginHop \/ EndPoll \/ EndHop \/ PreemptRepeat \/ FinishBurst
           \/ CooldownEnds \/ PersistFailed \/ Tick \/ UNCHANGED vars
  BY <1>3 DEF BeginPoll, BeginHop, EndPoll, EndHop, PreemptRepeat, FinishBurst, CooldownEnds,
              PersistFailed, Tick, vars
<1> QED
  BY <1>1, <1>2, <1>3 DEF Next

\* Admitting one frame makes no other frame a duplicate.
LEMMA AdmittedMakesOne ==
  ASSUME NEW c \in Cache, NEW frame \in Frames, NEW new \in Admitted(c, frame),
         NEW other \in Frames, Duplicate(new, other), other # frame
  PROVE  Duplicate(c, other)
<1>1. PICK entry \in Entries : Holds(new, entry, other) /\ Live(new, entry)
  BY DEF Duplicate
<1>2. CASE new = c
  BY <1>1, <1>2 DEF Duplicate
<1>3. ASSUME NEW e \in Entries, new = Stamp(c, e, frame)
      PROVE  Duplicate(c, other)
  <2>1. CASE e = entry
    <3>1. new[entry].frame = frame
      BY <1>3, <2>1 DEF Stamp, Cache
    <3> QED
      BY <1>1, <3>1 DEF Holds
  <2>2. CASE e # entry
    <3>1. new[entry] = c[entry]
      BY <1>3, <2>2 DEF Stamp, Cache
    <3> QED
      BY <1>1, <3>1 DEF Duplicate, Holds, Live
  <2> QED
    BY <2>1, <2>2
<1> QED
  BY <1>2, <1>3 DEF Admitted

LEMMA SwallowsNothing ==
  ASSUME TypeOK, [Next]_vars, NEW frame \in Frames,
         ~Idle, ~Duplicate(cache, frame), Duplicate(cache', frame)
  PROVE  RelayStarts(frame)
<1> DEFINE head == Head(fifo).frame
<1>1. ReadPayload
  BY BusyKeepsCache
<1>2. head \in Frames /\ cache \in Cache
  BY <1>1, HeadIsFrame DEF ReadPayload, TypeOK
<1>3. Relay(head) /\ cache' # cache /\ ~TxActive
  BY <1>1 DEF ReadPayload
<1>4. AdmitAndForward(head)
  BY <1>3 DEF Relay
<1>5. cache' \in Admitted(cache, head)
  BY <1>3, <1>4 DEF AdmitAndForward
<1>6. frame = head
  BY <1>2, <1>5, AdmittedMakesOne
<1>7. tx' = RelayBurst(head, Output(channel))
  BY <1>3, <1>4, <1>6 DEF AdmitAndForward
<1> QED
  BY <1>3, <1>6, <1>7 DEF RelayStarts, RelayBurst

\* A frame that is heard keeps its chance of being relayed until it is: none of the paths
\* out of the poll marks it as seen without sending it on.
THEOREM NoFrameIsSwallowed == Spec => NothingIsSwallowed
<1>1. TypeOK /\ [Next]_vars =>
        [\A frame \in Frames :
           ~Idle /\ ~Duplicate(cache, frame) /\ Duplicate(cache', frame) =>
             RelayStarts(frame)]_vars
  BY SwallowsNothing
<1> QED
  BY <1>1, PathTypeCorrect, PTL DEF Spec, NothingIsSwallowed

-----------------------------------------------------------------------------
\* With CE low, a hop has a read left for every frame in the FIFO, and none is left when
\* it retunes; CE is high only after the fault was latched.
HopInv ==
  /\ loop = "hopping" /\ ~listening => Len(fifo) <= reads
  /\ loop = "retuning" /\ ~listening => fifo = <<>>
  /\ loop \in {"hopping", "retuning"} /\ listening => fault

LEMMA InitHops == Init => HopInv
BY DEF Init, HopInv

\* What can happen while a hop is under way.
LEMMA HopSteps ==
  ASSUME [Next]_vars, loop \in {"hopping", "retuning"}
  PROVE  \/ \E frame \in Frames : Hear(frame)
         \/ ReadPayload \/ EndPoll \/ EndHop
         \/ UNCHANGED vars
<1>1. ASSUME NEW frame \in Frames, TransmitCommand(frame) \/ StartRepeat(frame)
      PROVE  FALSE
  BY <1>1 DEF TransmitCommand, StartRepeat, Idle
<1>2. ASSUME BeginPoll \/ BeginHop \/ PreemptRepeat \/ FinishBurst \/ CooldownEnds
             \/ PersistFailed \/ Tick
      PROVE  FALSE
  BY <1>2 DEF BeginPoll, BeginHop, PreemptRepeat, FinishBurst, CooldownEnds, PersistFailed,
              Tick, Idle
<1>3. ASSUME NEW on \in BOOLEAN, SetRelay(on) \/ SetLearning(on)
      PROVE  FALSE
  BY <1>3 DEF SetRelay, SetLearning, Idle
<1> QED
  BY <1>1, <1>2, <1>3 DEF Next

\* Only BeginHop begins one.
LEMMA HopBegins ==
  ASSUME [Next]_vars, ~(loop \in {"hopping", "retuning"}), loop' \in {"hopping", "retuning"}
  PROVE  BeginHop
<1>1. ASSUME NEW frame \in Frames, Hear(frame) \/ TransmitCommand(frame) \/ StartRepeat(frame)
      PROVE  FALSE
  BY <1>1 DEF Hear, TransmitCommand, StartRepeat
<1>2. ASSUME \/ BeginPoll \/ ReadPayload \/ EndPoll \/ EndHop \/ PreemptRepeat \/ FinishBurst
             \/ CooldownEnds \/ PersistFailed \/ Tick \/ UNCHANGED vars
      PROVE  FALSE
  BY <1>2 DEF BeginPoll, ReadPayload, EndPoll, EndHop, PreemptRepeat, FinishBurst,
              CooldownEnds, PersistFailed, Tick, vars, radioVars
<1>3. ASSUME NEW on \in BOOLEAN, SetRelay(on) \/ SetLearning(on)
      PROVE  FALSE
  BY <1>3 DEF SetRelay, SetLearning, radioVars
<1> QED
  BY <1>1, <1>2, <1>3 DEF Next

\* A read switches the receiver on only with the fault.
LEMMA ReadSwitchesOn ==
  ASSUME ReadPayload
  PROVE  (listening' = listening \/ ~listening' \/ fault') /\ (fault => fault')
<1>1. CASE Ignore
  BY <1>1 DEF Ignore
<1>2. CASE AdmitAndForward(Head(fifo).frame)
  <2>1. CASE Ignore
    BY <2>1 DEF Ignore
  <2>2. CASE fault' = TRUE
    BY <2>2
  <2>3. CASE listening' = FALSE /\ UNCHANGED <<channel, fault>>
    BY <2>3
  <2> QED
    BY <1>2, <2>1, <2>2, <2>3 DEF AdmitAndForward
<1> QED
  BY <1>1, <1>2 DEF ReadPayload, Relay

LEMMA NextHops == TypeOK /\ HopInv /\ [Next]_vars => HopInv'
<1> SUFFICES ASSUME TypeOK, HopInv, [Next]_vars, loop' \in {"hopping", "retuning"}
             PROVE  HopInv'
  BY DEF HopInv
<1>1. Len(fifo) \in Nat /\ Len(fifo) <= FifoDepth /\ reads \in Nat /\ fifo \in Seq(Heard)
  BY DEF TypeOK
<1>2. CASE BeginHop
  BY <1>1, <1>2, PathAssumption DEF BeginHop, HopInv
<1>3. CASE \E frame \in Frames : Hear(frame)
  BY <1>3 DEF Hear, HopInv, policyVars
<1>4. CASE ReadPayload
  <2>1. loop = "hopping" /\ loop' = "hopping" /\ reads' = reads - 1
    BY <1>4 DEF ReadPayload
  <2>2. Len(fifo') = Len(fifo) - 1
    BY <1>1, <1>4, HeadTailProperties DEF ReadPayload
  <2>3. ~listening => Len(fifo') <= reads'
    BY <1>1, <2>1, <2>2 DEF HopInv
  <2>4. listening => fault
    BY <2>1 DEF HopInv
  <2>5. CASE listening'
    BY <1>4, <2>1, <2>4, <2>5, ReadSwitchesOn DEF HopInv
  <2>6. CASE ~listening'
    <3>1. CASE ~listening
      BY <2>1, <2>3, <2>6, <3>1 DEF HopInv
    <3>2. CASE listening
      <4>1. ~RelayEnabled
        BY <2>4, <3>2 DEF RelayEnabled
      <4>2. listening' = listening
        BY <1>4, <4>1 DEF ReadPayload, Ignore
      <4> QED
        BY <2>6, <3>2, <4>2
    <3> QED
      BY <3>1, <3>2
  <2> QED
    BY <2>5, <2>6
<1>5. CASE EndPoll
  <2>1. loop = "hopping" /\ loop' = "retuning" /\ (fifo = <<>> \/ reads = 0)
    BY <1>5 DEF EndPoll, PollOver
  <2>2. fifo' = fifo /\ listening' = listening /\ fault' = fault
    BY <1>5 DEF EndPoll, policyVars
  <2>3. ~listening /\ reads = 0 => fifo = <<>>
    <3>1. ASSUME Len(fifo) <= 0 PROVE fifo = <<>>
      BY <1>1, <3>1, EmptySeq, SMT
    <3> QED
      BY <2>1, <3>1 DEF HopInv
  <2> QED
    BY <2>1, <2>2, <2>3 DEF HopInv
<1>6. CASE EndHop
  BY <1>6 DEF EndHop
<1>7. CASE UNCHANGED vars
  BY <1>7 DEF HopInv, vars, radioVars, policyVars
<1> QED
  BY <1>2, <1>3, <1>4, <1>5, <1>6, <1>7, HopSteps, HopBegins

\* However deep the FIFO, if one poll can empty it: a hop retunes in standby and with an
\* empty FIFO, or after it has latched the fault that keeps anything from being relayed.
THEOREM HopsLeaveNothing == Spec => HopsDrain
<1>1. HopInv =>
        [loop = "retuning" /\ loop' = "idle" => IF listening THEN fault ELSE fifo = <<>>]_vars
  BY DEF HopInv
<1>2. Spec => []HopInv
  BY InitHops, NextHops, PathTypeCorrect, PTL DEF Spec
<1> QED
  BY <1>1, <1>2, PTL DEF HopsDrain

=============================================================================
