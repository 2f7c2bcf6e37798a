------------------------ MODULE LearningSessionProofs ------------------------
(***************************************************************************)
(* Whatever a client captures and captures again, and whatever remotes are *)
(* on the air, the endpoints of a session are different actions of one     *)
(* target, learned in order; and what a capture accepts is an endpoint     *)
(* that was pressed twice, the only one of its target that was heard, with *)
(* an index the remote has sent; and nothing outgrows its array.  For any  *)
(* frames, any capacities and any times.                                   *)
(***************************************************************************)
EXTENDS LearningSession, FiniteSetTheorems, TLAPS

\* The shapes that OneTarget rests on.
EndpointTypes ==
  /\ endpoint \in 0 .. 2 /\ DOMAIN frames \subseteq 0 .. 2
  /\ DOMAIN candidates \subseteq Command

\* While it captures, a session holds exactly the endpoints before the one it
\* captures, and its evidence for a later endpoint is Open's target's own.
CaptureIsConsistent ==
  capturing => /\ DOMAIN frames = 0 .. endpoint - 1
               /\ endpoint > 0 => \A command \in DOMAIN candidates : command.family = frames[0].family

SessionInv == EndpointTypes /\ CaptureIsConsistent /\ OneTarget

-----------------------------------------------------------------------------
\* A session without frames has nothing to mix.
LEMMA FreshIsConsistent == Fresh => SessionInv'
BY DEF Fresh, SessionInv, EndpointTypes, CaptureIsConsistent, OneTarget, Accepted

\* What a capture keeps of the endpoints.
LEMMA KeptFrames ==
  ASSUME SessionInv, NEW e \in 0 .. 2, \A before \in 0 .. e - 1 : Accepted(before)
  PROVE  /\ DOMAIN KeptEndpoints(e) = 0 .. e - 1
         /\ \A k \in 0 .. e - 1 : KeptEndpoints(e)[k] = frames[k]
<1>1. DOMAIN frames \cap 0 .. e - 1 = 0 .. e - 1
  BY DEF Accepted
<1> QED
  BY <1>1 DEF KeptEndpoints, Restrict

LEMMA CaptureKeeps ==
  ASSUME SessionInv, NEW t, NEW e \in 0 .. 2, Capture(t, e)
  PROVE  SessionInv'
<1>1. /\ DOMAIN frames' = 0 .. e - 1
      /\ \A k \in 0 .. e - 1 : frames'[k] = frames[k] /\ k \in DOMAIN frames
  BY KeptFrames DEF Capture, Accepted
<1>2. endpoint' = e /\ candidates' = <<>>
  BY DEF Capture
<1>3. EndpointTypes'
  BY <1>1, <1>2 DEF EndpointTypes
<1>4. CaptureIsConsistent'
  BY <1>1, <1>2 DEF CaptureIsConsistent
<1>5. OneTarget'
  BY <1>1 DEF OneTarget, SessionInv, Accepted, SameCommandFamily
<1> QED
  BY <1>3, <1>4, <1>5 DEF SessionInv

\* A frame that is heard adds at most its own command to the evidence.
LEMMA CollectAdds ==
  ASSUME NEW frame \in Frame, Collect(frame)
  PROVE  DOMAIN candidates' \subseteq DOMAIN candidates \cup {CommandOf(frame)}
<1> DEFINE command == CommandOf(frame)
<1>1. CASE UNCHANGED candidates
  BY <1>1
<1>2. CASE command \in DOMAIN candidates /\ candidates' = [candidates EXCEPT ![command] = NextEvidence(@, frame)]
  BY <1>2
<1>3. CASE \E evidence : candidates' = Extended(candidates, command, evidence)
  BY <1>3 DEF Extended
<1> QED
  BY <1>1, <1>2, <1>3 DEF Collect

LEMMA HearKeeps ==
  ASSUME SessionInv, NEW frame \in Frame, Hear(frame)
  PROVE  SessionInv'
<1>1. UNCHANGED <<capturing, endpoint, frames>>
  BY DEF Hear
<1>2. CommandOf(frame) \in Command
  BY DEF CommandOf, Command, Frame
<1>3. \/ UNCHANGED candidates
      \/ OfLearnedTarget(CommandOf(frame)) /\ Collect(frame)
  BY DEF Hear
<1>4. DOMAIN candidates' \subseteq DOMAIN candidates \cup
        {command \in {CommandOf(frame)} : OfLearnedTarget(command)}
  BY <1>3, CollectAdds
<1>5. EndpointTypes'
  BY <1>1, <1>2, <1>4 DEF SessionInv, EndpointTypes
<1>6. CaptureIsConsistent'
  BY <1>1, <1>4 DEF SessionInv, CaptureIsConsistent, OfLearnedTarget
<1>7. OneTarget'
  BY <1>1 DEF SessionInv, OneTarget, Accepted
<1> QED
  BY <1>5, <1>6, <1>7 DEF SessionInv

\* The accepted command is of Open's target, and none of the endpoints it has.
LEMMA AcceptKeeps ==
  ASSUME SessionInv, NEW t, Accept(t)
  PROVE  SessionInv'
<1>1. CASE UNCHANGED <<frames, capturing>>
  BY <1>1 DEF Accept, SessionInv, EndpointTypes, CaptureIsConsistent, OneTarget, Accepted
<1>2. CASE \E command \in DOMAIN candidates : Selected(command) /\ AcceptCandidate(command)
  <2>1. PICK command \in DOMAIN candidates : Selected(command) /\ AcceptCandidate(command)
    BY <1>2
  <2> DEFINE frame == [family |-> command.family, action |-> command.action,
                       index |-> candidates[command].index]
  <2>2. DOMAIN frames = 0 .. endpoint - 1 /\ endpoint \in 0 .. 2
    BY DEF Accept, SessionInv, CaptureIsConsistent, EndpointTypes
  <2>3. /\ DOMAIN frames' = 0 .. endpoint
        /\ \A k \in 0 .. endpoint - 1 : frames'[k] = frames[k]
        /\ frames'[endpoint] = frame
    <3>1. frames' = Extended(frames, endpoint, frame)
      BY <2>1 DEF AcceptCandidate
    <3> QED
      BY <2>2, <3>1 DEF Extended
  <2>4. ASSUME NEW k \in 0 .. endpoint - 1
        PROVE  frames[k].family = frame.family /\ frames[k].action # frame.action
    <3>1. command.family = frames[0].family
      BY <2>4, <2>2 DEF Accept, SessionInv, CaptureIsConsistent
    <3>2. frames[k].family = frames[0].family
      BY <2>2, <2>4 DEF SessionInv, OneTarget, SameCommandFamily
    <3>3. ~SameLearnedCommand(frames[k], command)
      BY <2>1, <2>4 DEF Selected
    <3> QED
      BY <3>1, <3>2, <3>3 DEF SameLearnedCommand, SameCommandFamily
  <2>5. OneTarget'
    <3>1. ASSUME NEW e \in DOMAIN frames', NEW before \in 0 .. e - 1
          PROVE  before \in DOMAIN frames'
      BY <2>2, <2>3
    <3>2. ASSUME NEW e \in DOMAIN frames', NEW f \in DOMAIN frames', e # f
          PROVE  frames'[e].family = frames'[f].family /\ frames'[e].action # frames'[f].action
      <4>1. CASE e # endpoint /\ f # endpoint
        BY <2>2, <2>3, <3>2, <4>1 DEF SessionInv, OneTarget, SameCommandFamily
      <4>2. CASE e = endpoint \/ f = endpoint
        BY <2>2, <2>3, <2>4, <3>2, <4>2
      <4> QED
        BY <4>1, <4>2
    <3> QED
      BY <3>1, <3>2 DEF OneTarget, Accepted, SameCommandFamily
  <2> QED
    BY <2>1, <2>2, <2>3, <2>5
    DEF Accept, AcceptCandidate, SessionInv, EndpointTypes, CaptureIsConsistent
<1> QED
  BY <1>1, <1>2 DEF Accept

-----------------------------------------------------------------------------
LEMMA InitConsistent == SessionInit => SessionInv
BY DEF SessionInit, SessionInv, EndpointTypes, CaptureIsConsistent, OneTarget, Accepted

LEMMA NextConsistent == SessionInv /\ [SessionNext]_vars => SessionInv'
<1> SUFFICES ASSUME SessionInv, [SessionNext]_vars PROVE SessionInv'
  OBVIOUS
<1>1. ASSUME NEW t \in Tokens, NEW r \in BOOLEAN, Begin(t, r) PROVE SessionInv'
  BY <1>1, FreshIsConsistent DEF Begin
<1>2. ASSUME NEW t \in Tokens, NEW e \in 0 .. 2, Capture(t, e) PROVE SessionInv'
  BY <1>2, CaptureKeeps
<1>3. ASSUME NEW t \in Tokens, Accept(t) PROVE SessionInv'
  BY <1>3, AcceptKeeps
<1>4. ASSUME NEW t \in Tokens, Cancel(t) \/ CommitSession(t) PROVE SessionInv'
  BY <1>4, FreshIsConsistent DEF Cancel, CommitSession, Saved, EndSession
<1>5. ASSUME NEW frame \in HeardFrames, Hear(frame) PROVE SessionInv'
  BY <1>5, HearKeeps, SessionAssumption
<1>6. CASE SessionTick
  <2>1. CASE EndSession(TRUE)
    BY <2>1, FreshIsConsistent DEF EndSession
  <2>2. CASE UNCHANGED <<capturing, endpoint, candidates, frames>>
    BY <2>2 DEF SessionInv, EndpointTypes, CaptureIsConsistent, OneTarget, Accepted
  <2> QED
    BY <1>6, <2>1, <2>2 DEF SessionTick
<1>7. CASE UNCHANGED vars
  BY <1>7 DEF vars, sessionVars, SessionInv, EndpointTypes, CaptureIsConsistent, OneTarget, Accepted
<1> QED
  BY <1>1, <1>2, <1>3, <1>4, <1>5, <1>6, <1>7 DEF SessionNext

\* No session ever holds endpoints of two targets, or one action twice.
THEOREM EndpointsOfOneTarget == SessionSpec => []OneTarget
<1>1. SessionInv => OneTarget
  BY DEF SessionInv
<1> QED
  BY <1>1, InitConsistent, NextConsistent, PTL DEF SessionSpec

-----------------------------------------------------------------------------
\* What a commit would save is made of commands, and of one when relaying.
PromiseInv ==
  /\ SessionInv
  /\ \A e \in DOMAIN frames : CommandOf(frames[e]) \in Command
  /\ relay => DOMAIN frames \subseteq {0} /\ (capturing => endpoint = 0)

LEMMA FreshKeepsPromise == Fresh => PromiseInv'
BY FreshIsConsistent DEF Fresh, PromiseInv

LEMMA AcceptKeepsPromise ==
  ASSUME PromiseInv, NEW t, Accept(t)
  PROVE  PromiseInv'
<1>1. SessionInv'
  BY AcceptKeeps DEF PromiseInv
<1>2. CASE UNCHANGED <<frames, capturing>>
  BY <1>1, <1>2 DEF Accept, PromiseInv
<1>3. CASE \E command \in DOMAIN candidates : AcceptCandidate(command)
  <2>1. PICK command \in DOMAIN candidates : AcceptCandidate(command)
    BY <1>3
  <2> DEFINE frame == [family |-> command.family, action |-> command.action,
                       index |-> candidates[command].index]
  <2>2. frames' = Extended(frames, endpoint, frame)
    BY <2>1 DEF AcceptCandidate
  <2>3. command \in Command
    BY DEF PromiseInv, SessionInv, EndpointTypes
  <2>4. CommandOf(frame) \in Command
    BY <2>3 DEF CommandOf, Command
  <2>5. ASSUME NEW e \in DOMAIN frames' PROVE CommandOf(frames'[e]) \in Command
    BY <2>2, <2>4, <2>5 DEF Extended, PromiseInv
  <2>6. relay' => DOMAIN frames' \subseteq {0} /\ endpoint' = 0
    BY <2>2 DEF Extended, Accept, PromiseInv
  <2> QED
    BY <1>1, <2>5, <2>6 DEF PromiseInv
<1> QED
  BY <1>2, <1>3 DEF Accept

LEMMA NextKeepsPromise == PromiseInv /\ [SessionNext]_vars => PromiseInv'
<1> SUFFICES ASSUME PromiseInv, [SessionNext]_vars PROVE PromiseInv'
  OBVIOUS
<1>1. SessionInv /\ SessionInv'
  BY NextConsistent DEF PromiseInv
<1>2. ASSUME NEW t \in Tokens, NEW r \in BOOLEAN, Begin(t, r) PROVE PromiseInv'
  BY <1>2, FreshKeepsPromise DEF Begin
<1>3. ASSUME NEW t \in Tokens, NEW e \in 0 .. 2, Capture(t, e) PROVE PromiseInv'
  <2>1. /\ DOMAIN frames' = 0 .. e - 1
        /\ \A k \in 0 .. e - 1 : frames'[k] = frames[k] /\ k \in DOMAIN frames
    BY <1>1, <1>3, KeptFrames DEF Capture, Accepted
  <2>2. relay' = relay /\ endpoint' = e /\ (relay => e = 0)
    BY <1>3 DEF Capture
  <2> QED
    BY <1>1, <2>1, <2>2 DEF PromiseInv
<1>4. ASSUME NEW t \in Tokens, Cancel(t) \/ CommitSession(t) PROVE PromiseInv'
  BY <1>4, FreshKeepsPromise DEF Cancel, CommitSession, Saved, EndSession
<1>5. ASSUME NEW frame \in HeardFrames, Hear(frame) PROVE PromiseInv'
  BY <1>1, <1>5 DEF Hear, PromiseInv
<1>6. CASE SessionTick
  BY <1>1, <1>6, FreshKeepsPromise DEF SessionTick, EndSession, PromiseInv
<1>7. CASE UNCHANGED vars
  BY <1>1, <1>7 DEF vars, sessionVars, PromiseInv
<1> QED
  BY <1>2, <1>3, <1>4, <1>5, <1>6, <1>7, AcceptKeepsPromise DEF SessionNext

\* Cardinality is the same on both sides of the refinement.
LEMMA CompleteMeans ==
  ASSUME NEW commands, NEW r
  PROVE  Promise!Complete(commands, r) <=>
           /\ Cardinality(commands) \in (IF r THEN {1} ELSE 2 .. 3)
           /\ \A one, other \in commands : one.family = other.family
BY DEF Promise!Complete, Promise!Cardinality, Cardinality

\* What is ready to be committed is complete.
LEMMA LearnedIsComplete ==
  ASSUME PromiseInv, Ready
  PROVE  /\ Learned \in SUBSET Command /\ Learned # {}
         /\ Promise!Complete(Learned, relay)
<1>1. /\ Learned = {CommandOf(frames[e]) : e \in DOMAIN frames} /\ 0 \in DOMAIN frames
      /\ relay \/ 1 \in DOMAIN frames
  BY DEF Learned, Ready, Accepted
<1>2. Learned \in SUBSET Command /\ Learned # {}
  BY <1>1 DEF PromiseInv
<1>3. \A one, other \in Learned : one.family = other.family
  BY <1>1 DEF PromiseInv, SessionInv, OneTarget, SameCommandFamily, CommandOf
<1>4. \A e, f \in DOMAIN frames : e # f => CommandOf(frames[e]) # CommandOf(frames[f])
  BY DEF PromiseInv, SessionInv, OneTarget, CommandOf
<1>5. CASE relay
  <2>1. DOMAIN frames = {0}
    BY <1>1, <1>5 DEF PromiseInv
  <2>2. Learned = {CommandOf(frames[0])}
    BY <1>1, <2>1
  <2>3. Cardinality(Learned) = 1
    BY <2>2, FS_Singleton
  <2> QED
    BY <1>2, <1>3, <1>5, <2>3, CompleteMeans
<1>6. CASE ~relay
  <2> DEFINE first == CommandOf(frames[0])
             second == CommandOf(frames[1])
             third == CommandOf(frames[2])
  <2>1. DOMAIN frames = {0, 1} \/ DOMAIN frames = {0, 1, 2}
    BY <1>1, <1>6 DEF PromiseInv, SessionInv, EndpointTypes
  <2>2. first # second
    BY <1>1, <1>4, <1>6
  <2>3. IsFiniteSet({first}) /\ Cardinality({first}) = 1
    BY FS_Singleton
  <2>4. IsFiniteSet({first, second}) /\ Cardinality({first, second}) = 2
    <3>1. {first, second} = {first} \cup {second} /\ second \notin {first}
      BY <2>2
    <3> HIDE DEF first, second
    <3> QED
      BY <2>3, <3>1, FS_AddElement
  <2>5. CASE DOMAIN frames = {0, 1}
    <3>1. Learned = {first, second}
      BY <1>1, <2>5
    <3> QED
      BY <1>2, <1>3, <1>6, <2>4, <3>1, CompleteMeans
  <2>6. CASE DOMAIN frames = {0, 1, 2}
    <3>1. Learned = {first, second} \cup {third}
      BY <1>1, <2>6
    <3>2. third \notin {first, second}
      BY <1>4, <2>6
    <3>3. Cardinality({first, second} \cup {third}) = 3
      <4> HIDE DEF first, second, third
      <4> QED
        BY <2>4, <3>2, FS_AddElement
    <3> QED
      BY <1>2, <1>3, <1>6, <3>1, <3>3, CompleteMeans
  <2> QED
    BY <2>1, <2>5, <2>6
<1> QED
  BY <1>5, <1>6

LEMMA StepKeepsPromise ==
  ASSUME PromiseInv, PromiseInv', [SessionNext]_vars
  PROVE  [Promise!PromiseNext]_(Promise!promiseVars)
<1> USE DEF Promise!promiseVars
<1>1. ASSUME UNCHANGED <<token, relay, active, capturing, frames, savedSlot>>
      PROVE  UNCHANGED Promise!promiseVars
  BY <1>1 DEF Learned, Ready, Accepted
<1>2. Fresh => Learned' = {}
  BY DEF Fresh, Learned, Ready, Accepted
<1>3. ASSUME NEW t \in Tokens, NEW r \in BOOLEAN, Begin(t, r) PROVE Promise!PromiseNext
  <2>1. Promise!Begin(t, r)
    BY <1>2, <1>3 DEF Begin, Promise!Begin, Promise!NoSlot, NoSlot
  <2> QED
    BY <2>1 DEF Promise!PromiseNext, Promise!SessionStep
<1>4. ASSUME active, active', UNCHANGED <<token, relay, savedSlot>>
      PROVE  Promise!PromiseNext
  <2>1. Learned' \in SUBSET Command /\ (Learned' = {} \/ Promise!Complete(Learned', relay))
    <3>1. CASE Ready'
      <4>1. (Learned \in SUBSET Command /\ Promise!Complete(Learned, relay))'
        BY <3>1, LearnedIsComplete, PTL
      <4> QED
        BY <1>4, <4>1 DEF Promise!Complete
    <3>2. CASE ~Ready'
      BY <3>2 DEF Learned
    <3> QED
      BY <3>1, <3>2
  <2>2. Promise!Learn(Learned')
    BY <1>4, <2>1 DEF Promise!Learn
  <2> QED
    BY <2>1, <2>2 DEF Promise!PromiseNext, Promise!SessionStep, Promise!Command, Command
<1>5. ASSUME NEW t \in Tokens, (\E e \in 0 .. 2 : Capture(t, e)) \/ Accept(t)
      PROVE  Promise!PromiseNext
  BY <1>4, <1>5 DEF Capture, Accept
<1>6. ASSUME EndSession(TRUE), UNCHANGED savedSlot
      PROVE  Promise!PromiseNext
  BY <1>2, <1>6 DEF EndSession, Promise!End, Promise!PromiseNext, Promise!SessionStep
<1>7. ASSUME NEW t \in Tokens, CommitSession(t) PROVE Promise!PromiseNext
  <2>1. Ready /\ savedSlot = NoSlot /\ savedSlot' = 0 /\ EndSession(FALSE)
    BY <1>7 DEF CommitSession, Saved
  <2>2. Promise!Saved(0)
    BY <1>2, <2>1, LearnedIsComplete DEF EndSession, Promise!Saved, Promise!NoSlot, NoSlot
  <2> QED
    BY <2>1, <2>2 DEF Promise!PromiseNext
<1>8. ASSUME NEW frame \in HeardFrames, Hear(frame) PROVE UNCHANGED Promise!promiseVars
  BY <1>1, <1>8 DEF Hear
<1>9. CASE SessionTick
  BY <1>1, <1>6, <1>9 DEF SessionTick
<1>10. CASE UNCHANGED vars
  BY <1>1, <1>10 DEF vars, sessionVars
<1> QED
  BY <1>3, <1>5, <1>6, <1>7, <1>8, <1>9, <1>10 DEF SessionNext, Cancel

\* A learning session is a SessionPromise, for any traffic, capacities and times.
THEOREM SessionKeepsPromise == SessionSpec => KeepsPromise
<1>1. SessionInit => PromiseInv
  BY InitConsistent DEF SessionInit, PromiseInv
<1>2. SessionInit => Promise!NoSession
  BY DEF SessionInit, Promise!NoSession, Promise!NoToken, Promise!NoSlot, NoToken, NoSlot,
         Learned, Ready
<1>3. PromiseInv /\ PromiseInv' /\ [SessionNext]_vars => [Promise!PromiseNext]_(Promise!promiseVars)
  BY StepKeepsPromise
<1> QED
  BY <1>1, <1>2, <1>3, NextKeepsPromise, PTL DEF SessionSpec, KeepsPromise, Promise!PromiseSpec

-----------------------------------------------------------------------------
(* What a capture accepts.                                                 *)

PressOf(command, index) == \E p \in presses : p.command = command /\ p.index = index

\* A candidate that has not qualified has seen every code that was pressed, and all
\* of them too soon after the first.
TooSoon(command) ==
  LET evidence == candidates[command] IN
  /\ \A i \in evidence.seen : PressOf(command, i)
  /\ \E p \in presses : p.command = command /\ p.at = evidence.firstAt
  /\ \A p \in presses : p.command = command =>
       /\ p.index \in evidence.seen
       /\ p.at \in Nat
       /\ evidence.firstAt <= p.at /\ p.at < evidence.firstAt + PressGap

EvidenceShape == [seen : SUBSET Index, firstAt : Nat, qualified : BOOLEAN, index : Index]

\* The evidence of a capture is what was pressed.
Justified(command) ==
  /\ candidates[command] \in EvidenceShape
  /\ candidates[command].firstAt <= captureAge
  /\ PressOf(command, candidates[command].index)
  /\ candidates[command].qualified => PressedTwice(command)
  /\ ~candidates[command].qualified => TooSoon(command)

\* As long as nothing has gone wrong, it is all that was pressed.
CaptureInv ==
  capturing /\ ~error =>
    /\ captureAge \in Nat
    /\ \A command \in DOMAIN candidates : Justified(command)
    /\ \A p \in presses : OfLearnedTarget(p.command) => p.command \in DOMAIN candidates

-----------------------------------------------------------------------------
LEMMA Gap == PressGap \in Nat /\ PressGap > 0
BY SessionAssumption

\* What has qualified was pressed twice; more presses do not change that.
LEMMA PressedTwiceStays ==
  ASSUME NEW command, PressedTwice(command), presses \subseteq presses'
  PROVE  PressedTwice(command)'
BY DEF PressedTwice

\* What has not was not.
LEMMA TooSoonIsNotTwice ==
  ASSUME NEW command, candidates[command] \in EvidenceShape, TooSoon(command)
  PROVE  ~PressedTwice(command)
<1> SUFFICES ASSUME NEW p \in presses, NEW q \in presses, p.command = command, q.command = command,
                    p.at + PressGap <= q.at
             PROVE  FALSE
  BY DEF PressedTwice
<1>1. candidates[command].firstAt \in Nat
  BY DEF EvidenceShape
<1>2. /\ p.at \in Nat /\ candidates[command].firstAt <= p.at
      /\ q.at \in Nat /\ q.at < candidates[command].firstAt + PressGap
  BY DEF TooSoon
<1> QED
  BY <1>1, <1>2, Gap

\* A candidate is justified by the presses of its own command.
LEMMA JustifiedStays ==
  ASSUME NEW command, Justified(command),
         candidates'[command] = candidates[command],
         captureAge \in Nat, captureAge' \in Nat, captureAge <= captureAge',
         presses \subseteq presses',
         \/ candidates[command].qualified
         \/ \A p \in presses' \ presses : p.command # command
  PROVE  Justified(command)'
<1>1. candidates[command] \in EvidenceShape /\ candidates[command].firstAt <= captureAge'
  BY DEF Justified, EvidenceShape
<1>2. ASSUME NEW i, PressOf(command, i) PROVE PressOf(command, i)'
  BY <1>2 DEF PressOf
<1>3. CASE candidates[command].qualified
  BY <1>1, <1>2, <1>3, PressedTwiceStays DEF Justified
<1>4. CASE ~candidates[command].qualified
  <2>1. TooSoon(command) /\ \A p \in presses' : p.command = command => p \in presses
    BY <1>4 DEF Justified
  <2>2. TooSoon(command)'
    BY <1>2, <2>1 DEF TooSoon
  <2> QED
    BY <1>1, <1>2, <1>4, <2>2 DEF Justified
<1> QED
  BY <1>3, <1>4

\* The evidence of a further code, heard late enough or too soon.
LEMMA NextIsJustified ==
  ASSUME NEW frame \in Frame, NEW command, command = CommandOf(frame),
         Justified(command), ~candidates[command].qualified,
         frame.index \notin candidates[command].seen,
         captureAge \in Nat, captureAge' = captureAge,
         candidates'[command] = NextEvidence(candidates[command], frame),
         presses' = presses \cup {[command |-> command, index |-> frame.index, at |-> captureAge]}
  PROVE  Justified(command)'
<1> DEFINE old == candidates[command]
           new == candidates'[command]
           heard == [command |-> command, index |-> frame.index, at |-> captureAge]
           late == captureAge - old.firstAt >= PressGap
<1>1. /\ old \in EvidenceShape /\ old.firstAt \in Nat /\ old.firstAt <= captureAge
      /\ PressOf(command, old.index) /\ TooSoon(command) /\ frame.index \in Index
  BY DEF Justified, EvidenceShape, Frame
<1>2. /\ new.seen = old.seen \cup {frame.index} /\ new.firstAt = old.firstAt
      /\ new.qualified = late /\ new.index = (IF late THEN frame.index ELSE old.index)
      /\ new \in EvidenceShape
  <2> DEFINE atLast == captureAge - old.firstAt >= PressGap
  <2>1. new = [old EXCEPT !.seen = old.seen \cup {frame.index},
                          !.qualified = atLast,
                          !.index = IF atLast THEN frame.index ELSE old.index]
    BY <1>1 DEF NextEvidence, EvidenceShape
  <2>2. atLast \in BOOLEAN
    OBVIOUS
  <2> HIDE DEF new, atLast
  <2>3. /\ new.seen = old.seen \cup {frame.index} /\ new.firstAt = old.firstAt
        /\ new.qualified = atLast /\ new.index = (IF atLast THEN frame.index ELSE old.index)
    BY <1>1, <2>1 DEF EvidenceShape
  <2>4. new \in EvidenceShape
    BY <1>1, <2>1, <2>2 DEF EvidenceShape
  <2> QED
    BY <2>3, <2>4 DEF atLast
<1>3. heard \in presses' /\ presses \subseteq presses'
  OBVIOUS
<1>4. \A i \in {frame.index, old.index} : PressOf(command, i)'
  BY <1>1, <1>3 DEF PressOf
<1>5. CASE late
  <2>1. PICK p \in presses : p.command = command /\ p.at = old.firstAt
    BY <1>1 DEF TooSoon
  <2>2. p.index # frame.index
    BY <1>1, <2>1 DEF TooSoon
  <2>3. p.at + PressGap <= heard.at
    BY <1>1, <1>5, <2>1, Gap
  <2>4. PressedTwice(command)'
    BY <1>3, <2>1, <2>2, <2>3 DEF PressedTwice
  <2> QED
    BY <1>1, <1>2, <1>4, <1>5, <2>4 DEF Justified
<1>6. CASE ~late
  <2>1. \A i \in new.seen : PressOf(command, i)'
    BY <1>1, <1>2, <1>3, <1>4 DEF TooSoon, PressOf
  <2>2. \E p \in presses' : p.command = command /\ p.at = new.firstAt
    BY <1>1, <1>2, <1>3 DEF TooSoon
  <2>3. ASSUME NEW p \in presses', p.command = command
        PROVE  /\ p.index \in new.seen /\ p.at \in Nat
               /\ new.firstAt <= p.at /\ p.at < new.firstAt + PressGap
    <3>1. CASE p \in presses
      BY <1>1, <1>2, <2>3, <3>1 DEF TooSoon
    <3>2. CASE p = heard
      BY <1>1, <1>2, <1>6, <3>2, Gap
    <3> QED
      BY <2>3, <3>1, <3>2
  <2>4. TooSoon(command)'
    BY <2>1, <2>2, <2>3 DEF TooSoon
  <2> QED
    BY <1>1, <1>2, <1>4, <1>6, <2>4 DEF Justified
<1> QED
  BY <1>5, <1>6

\* And of the first.
LEMMA FirstIsJustified ==
  ASSUME NEW frame \in Frame, NEW command, command = CommandOf(frame),
         captureAge \in Nat, captureAge' = captureAge,
         candidates'[command] = [seen |-> {frame.index}, firstAt |-> captureAge,
                                 qualified |-> FALSE, index |-> frame.index],
         \A p \in presses : p.command # command,
         presses' = presses \cup {[command |-> command, index |-> frame.index, at |-> captureAge]}
  PROVE  Justified(command)'
<1> DEFINE new == candidates'[command]
           heard == [command |-> command, index |-> frame.index, at |-> captureAge]
<1>1. frame.index \in Index
  BY DEF Frame
<1>2. new \in EvidenceShape /\ ~new.qualified
  BY <1>1 DEF EvidenceShape
<1>3. heard \in presses' /\ \A p \in presses' : p.command = command => p = heard
  OBVIOUS
<1>4. PressOf(command, frame.index)'
  BY <1>3 DEF PressOf
<1>5. TooSoon(command)'
  <2>1. new.seen = {frame.index} /\ new.firstAt = captureAge
    OBVIOUS
  <2>2. \A i \in new.seen : PressOf(command, i)'
    BY <1>4, <2>1
  <2>3. ASSUME NEW p \in presses', p.command = command
        PROVE  /\ p.index \in new.seen /\ p.at \in Nat
               /\ new.firstAt <= p.at /\ p.at < new.firstAt + PressGap
    BY <1>3, <2>1, <2>3, Gap
  <2>4. \E p \in presses' : p.command = command /\ p.at = new.firstAt
    BY <1>3, <2>1
  <2> QED
    BY <2>2, <2>3, <2>4 DEF TooSoon
<1> QED
  BY <1>2, <1>4, <1>5 DEF Justified

-----------------------------------------------------------------------------
LEMMA HearJustifies ==
  ASSUME SessionInv, CaptureInv, NEW frame \in Frame, Hear(frame)
  PROVE  CaptureInv'
<1> DEFINE command == CommandOf(frame)
           heard == [command |-> command, index |-> frame.index, at |-> captureAge]
           known == \E p \in presses : p.command = command /\ p.index = frame.index
<1>1. UNCHANGED <<capturing, endpoint, captureAge, frames>>
  BY DEF Hear
<1>2. \A c : OfLearnedTarget(c)' <=> OfLearnedTarget(c)
  BY <1>1 DEF OfLearnedTarget
<1>3. presses \subseteq presses' /\ \A p \in presses' \ presses : p = heard
  BY DEF Hear
<1> SUFFICES ASSUME capturing, ~error'
             PROVE  /\ \A c \in DOMAIN candidates' : Justified(c)'
                    /\ \A p \in presses' : OfLearnedTarget(p.command) => p.command \in DOMAIN candidates'
                    /\ captureAge \in Nat
  BY <1>1, <1>2 DEF CaptureInv
<1>4. ~error
  BY DEF Hear, Collect
<1>5. /\ captureAge \in Nat
      /\ \A c \in DOMAIN candidates : Justified(c)
      /\ \A p \in presses : OfLearnedTarget(p.command) => p.command \in DOMAIN candidates
  BY <1>4 DEF CaptureInv
<1>6. ASSUME NEW c \in DOMAIN candidates, candidates'[c] = candidates[c],
             c # command \/ candidates[c].qualified \/ presses' = presses
      PROVE  Justified(c)'
  BY <1>1, <1>3, <1>5, <1>6, JustifiedStays
<1>7. CASE UNCHANGED <<candidates, presses>>
  BY <1>5, <1>6, <1>7
<1>8. CASE active /\ CaptureOpen /\ ~OfLearnedTarget(command)
  <2>1. command \notin DOMAIN candidates
    BY <1>8 DEF SessionInv, CaptureIsConsistent, OfLearnedTarget
  <2>2. UNCHANGED candidates
    BY <1>8 DEF Hear
  <2> QED
    BY <1>3, <1>5, <1>6, <1>8, <2>1, <2>2
<1>9. CASE active /\ CaptureOpen /\ OfLearnedTarget(command)
  <2>1. Collect(frame) /\ presses' = IF known THEN presses ELSE presses \cup {heard}
    BY <1>9, <1>4 DEF Hear
  <2>2. CASE command \in DOMAIN candidates /\ UNCHANGED candidates
             /\ (candidates[command].qualified \/ frame.index \in candidates[command].seen)
    <3>1. candidates[command].qualified \/ presses' = presses
      <4>1. ASSUME ~candidates[command].qualified PROVE known
        BY <1>5, <2>2, <4>1 DEF Justified, TooSoon, PressOf
      <4> QED
        BY <2>1, <4>1
    <3> QED
      BY <1>3, <1>5, <1>6, <2>2, <3>1
  <2>3. CASE /\ command \in DOMAIN candidates
             /\ ~candidates[command].qualified /\ frame.index \notin candidates[command].seen
             /\ candidates' = [candidates EXCEPT ![command] = NextEvidence(@, frame)]
    <3>1. Justified(command)
      BY <1>5, <2>3
    <3>2. ~known
      BY <2>3, <3>1 DEF Justified, TooSoon
    <3>3. presses' = presses \cup {heard}
      BY <2>1, <3>2
    <3>4. candidates'[command] = NextEvidence(candidates[command], frame)
      BY <2>3
    <3>5. Justified(command)'
      BY <1>1, <1>5, <2>3, <3>1, <3>3, <3>4, NextIsJustified
    <3>6. ASSUME NEW c \in DOMAIN candidates, c # command PROVE Justified(c)'
      BY <1>6, <2>3, <3>6
    <3>7. DOMAIN candidates' = DOMAIN candidates
      BY <2>3
    <3> QED
      BY <1>3, <1>5, <2>3, <3>5, <3>6, <3>7
  <2>4. CASE /\ command \notin DOMAIN candidates
             /\ candidates' = Extended(candidates, command,
                    [seen |-> {frame.index}, firstAt |-> captureAge, qualified |-> FALSE,
                     index |-> frame.index])
    <3>1. \A p \in presses : p.command # command
      BY <1>5, <1>9, <2>4
    <3>2. presses' = presses \cup {heard}
      BY <2>1, <3>1
    <3>3. /\ DOMAIN candidates' = DOMAIN candidates \cup {command}
          /\ candidates'[command] = [seen |-> {frame.index}, firstAt |-> captureAge,
                                     qualified |-> FALSE, index |-> frame.index]
          /\ \A c \in DOMAIN candidates : candidates'[c] = candidates[c]
      BY <2>4 DEF Extended
    <3>4. Justified(command)'
      BY <1>1, <1>5, <3>1, <3>2, <3>3, FirstIsJustified
    <3>5. ASSUME NEW c \in DOMAIN candidates PROVE Justified(c)'
      BY <1>6, <2>4, <3>3, <3>5
    <3> QED
      BY <1>3, <1>5, <3>3, <3>4, <3>5
  <2> QED
    BY <2>1, <2>2, <2>3, <2>4 DEF Collect
<1> QED
  BY <1>4, <1>7, <1>8, <1>9 DEF Hear

LEMMA NextJustifies == SessionInv /\ CaptureInv /\ [SessionNext]_vars => CaptureInv'
<1> SUFFICES ASSUME SessionInv, CaptureInv, [SessionNext]_vars PROVE CaptureInv'
  OBVIOUS
<1>1. Fresh => CaptureInv'
  BY DEF Fresh, CaptureInv
<1>2. ASSUME NEW t \in Tokens, \/ \E r \in BOOLEAN : Begin(t, r)
                               \/ Cancel(t) \/ CommitSession(t)
      PROVE  CaptureInv'
  BY <1>1, <1>2 DEF Begin, Cancel, CommitSession, Saved, EndSession
<1>3. ASSUME NEW t \in Tokens, NEW e \in 0 .. 2, Capture(t, e) PROVE CaptureInv'
  BY <1>3 DEF Capture, CaptureInv
<1>4. ASSUME NEW t \in Tokens, Accept(t) PROVE CaptureInv'
  BY <1>4 DEF Accept, AcceptCandidate, CaptureInv
<1>5. ASSUME NEW frame \in HeardFrames, Hear(frame) PROVE CaptureInv'
  BY <1>5, HearJustifies, SessionAssumption
<1>6. CASE SessionTick /\ ~TimeIsUp
  <2>1. /\ UNCHANGED <<capturing, endpoint, error, candidates, frames, presses>>
        /\ captureAge' = IF capturing THEN Older(captureAge, CaptureTime) ELSE captureAge
    BY <1>6 DEF SessionTick
  <2> SUFFICES ASSUME capturing, ~error
               PROVE  /\ captureAge' \in Nat
                      /\ \A command \in DOMAIN candidates : Justified(command)'
    BY <2>1 DEF CaptureInv, OfLearnedTarget
  <2>2. captureAge \in Nat /\ captureAge' \in Nat /\ captureAge <= captureAge'
    BY <2>1, SessionAssumption DEF CaptureInv, Older
  <2> QED
    BY <2>1, <2>2, JustifiedStays DEF CaptureInv
<1>7. CASE SessionTick /\ TimeIsUp
  BY <1>1, <1>7 DEF SessionTick, EndSession
<1>8. CASE UNCHANGED vars
  <2>1. UNCHANGED <<capturing, error, captureAge, candidates, presses, endpoint, frames>>
    BY <1>8 DEF vars, sessionVars
  <2>2. ASSUME capturing, ~error, NEW command \in DOMAIN candidates PROVE Justified(command)'
    BY <2>1, <2>2, JustifiedStays DEF CaptureInv
  <2> QED
    BY <2>1, <2>2 DEF CaptureInv, OfLearnedTarget
<1> QED
  BY <1>2, <1>3, <1>4, <1>5, <1>6, <1>7, <1>8 DEF SessionNext

LEMMA JustifiedAlways == SessionSpec => [](SessionInv /\ CaptureInv)
<1>1. SessionInit => CaptureInv
  BY DEF SessionInit, CaptureInv
<1> QED
  BY <1>1, InitConsistent, NextConsistent, NextJustifies, PTL DEF SessionSpec

-----------------------------------------------------------------------------
\* An endpoint that is new was accepted in this step.
LEMMA AcceptedNow ==
  ASSUME SessionInv, [SessionNext]_vars, NEW e \in DOMAIN frames' \ DOMAIN frames
  PROVE  \E command \in DOMAIN candidates :
           /\ Selected(command) /\ capturing /\ ~error
           /\ CommandOf(frames'[e]) = command
           /\ lastIndex' = candidates[command].index
<1>1. Fresh => FALSE
  BY DEF Fresh
<1>2. ~UNCHANGED frames
  OBVIOUS
<1>3. ASSUME NEW t \in Tokens, NEW d \in 0 .. 2, Capture(t, d) PROVE FALSE
  <2>1. frames' = KeptEndpoints(d)
    BY <1>3 DEF Capture
  <2> QED
    BY <2>1 DEF KeptEndpoints, Restrict
<1>4. PICK t \in Tokens : Accept(t)
  BY <1>1, <1>2, <1>3
  DEF SessionNext, Begin, Cancel, CommitSession, Saved, EndSession, Hear, SessionTick, vars, sessionVars
<1>5. PICK command \in DOMAIN candidates : Selected(command) /\ AcceptCandidate(command)
  BY <1>2, <1>4 DEF Accept
<1> DEFINE frame == [family |-> command.family, action |-> command.action,
                     index |-> candidates[command].index]
<1>6. frames'[e] = frame /\ lastIndex' = candidates[command].index
  BY <1>5 DEF AcceptCandidate, Extended, IndexAfter
<1>7. command \in Command
  BY DEF SessionInv, EndpointTypes
<1>8. CommandOf(frame) = command
  BY <1>7 DEF CommandOf, Command
<1> QED
  BY <1>4, <1>5, <1>6, <1>8 DEF Accept

\* Continue never guesses, whatever is on the air.
THEOREM CapturesNeverGuess == SessionSpec => NeverAGuess
<1> DEFINE NoGuess ==
      \A e \in DOMAIN frames' \ DOMAIN frames :
        /\ PressedTwice(CommandOf(frames'[e]))
        /\ \A p \in presses : OfLearnedTarget(p.command) /\ p.command # CommandOf(frames'[e]) =>
             /\ p.command.family # frames'[e].family
             /\ ~PressedTwice(p.command)
<1>1. SessionInv /\ CaptureInv /\ [SessionNext]_vars => [NoGuess]_vars
  <2> SUFFICES ASSUME SessionInv, CaptureInv, [SessionNext]_vars,
                      NEW e \in DOMAIN frames' \ DOMAIN frames
               PROVE  /\ PressedTwice(CommandOf(frames'[e]))
                      /\ \A p \in presses :
                           OfLearnedTarget(p.command) /\ p.command # CommandOf(frames'[e]) =>
                             /\ p.command.family # frames'[e].family
                             /\ ~PressedTwice(p.command)
    OBVIOUS
  <2>1. PICK command \in DOMAIN candidates :
          Selected(command) /\ capturing /\ ~error /\ CommandOf(frames'[e]) = command
    BY AcceptedNow
  <2>2. /\ \A c \in DOMAIN candidates : Justified(c)
        /\ \A p \in presses : OfLearnedTarget(p.command) => p.command \in DOMAIN candidates
    BY <2>1 DEF CaptureInv
  <2>3. PressedTwice(command)
    BY <2>1, <2>2 DEF Selected, Qualified, Justified
  <2>4. ASSUME NEW p \in presses, OfLearnedTarget(p.command), p.command # command
        PROVE  p.command.family # command.family /\ ~PressedTwice(p.command)
    <3>1. p.command \in DOMAIN candidates /\ Justified(p.command)
      BY <2>2, <2>4
    <3>2. p.command.family # command.family /\ p.command \notin Qualified
      BY <2>1, <2>4, <3>1 DEF Selected
    <3>3. ~candidates[p.command].qualified
      BY <3>1, <3>2 DEF Qualified
    <3> QED
      BY <3>1, <3>2, <3>3, TooSoonIsNotTwice DEF Justified
  <2>5. command.family = frames'[e].family
    BY <2>1 DEF CommandOf
  <2> QED
    BY <2>1, <2>3, <2>4, <2>5
<1> QED
  BY <1>1, JustifiedAlways, PTL DEF SessionSpec, NeverAGuess

\* The learned index is one the learned remote has sent, in this capture.
THEOREM IndexIsOfTarget == SessionSpec => IndexOfTarget
<1> DEFINE OfTarget ==
      \A e \in DOMAIN frames' \ DOMAIN frames :
        \E p \in presses : p.command = CommandOf(frames'[e]) /\ p.index = lastIndex'
<1>1. SessionInv /\ CaptureInv /\ [SessionNext]_vars => [OfTarget]_vars
  <2> SUFFICES ASSUME SessionInv, CaptureInv, [SessionNext]_vars,
                      NEW e \in DOMAIN frames' \ DOMAIN frames
               PROVE  \E p \in presses : p.command = CommandOf(frames'[e]) /\ p.index = lastIndex'
    OBVIOUS
  <2>1. PICK command \in DOMAIN candidates :
          /\ capturing /\ ~error /\ CommandOf(frames'[e]) = command
          /\ lastIndex' = candidates[command].index
    BY AcceptedNow
  <2>2. PressOf(command, candidates[command].index)
    BY <2>1 DEF CaptureInv, Justified
  <2> QED
    BY <2>1, <2>2 DEF PressOf
<1> QED
  BY <1>1, JustifiedAlways, PTL DEF SessionSpec, IndexOfTarget

-----------------------------------------------------------------------------
(* What a capture remembers fits in the arrays of the program.             *)

EvidenceFits(evidence) == evidence \in Evidence /\ Cardinality(evidence.seen) <= SampleCapacity

\* The part of the type invariant that counts.
CaptureFits ==
  /\ IsFiniteSet(DOMAIN candidates) /\ Cardinality(DOMAIN candidates) <= CandidateCapacity
  /\ \A command \in DOMAIN candidates : EvidenceFits(candidates[command])

TypeInv == SessionInv /\ SessionTypeOK /\ CaptureFits

-----------------------------------------------------------------------------
\* A set of codes is finite.
LEMMA CodesAreFinite == ASSUME NEW seen \in SUBSET Index PROVE IsFiniteSet(seen)
<1>1. IsFiniteSet(Index)
  BY FS_Interval, IndexSpaceAssumption DEF Index
<1> QED
  BY <1>1, FS_Subset

\* A further code fits where there was room for one.
LEMMA NextEvidenceFits ==
  ASSUME NEW evidence, EvidenceFits(evidence), NEW frame \in Frame,
         Cardinality(evidence.seen) # SampleCapacity
  PROVE  EvidenceFits(NextEvidence(evidence, frame))
<1> DEFINE next == NextEvidence(evidence, frame)
<1>1. evidence \in Evidence /\ Cardinality(evidence.seen) <= SampleCapacity
  BY DEF EvidenceFits
<1>2. frame.index \in Index
  BY DEF Frame
<1>3. next \in Evidence /\ next.seen = evidence.seen \cup {frame.index}
  <2> DEFINE late == captureAge - evidence.firstAt >= PressGap
  <2>1. late \in BOOLEAN
    OBVIOUS
  <2>2. next = [evidence EXCEPT !.seen = evidence.seen \cup {frame.index}, !.qualified = late,
                               !.index = IF late THEN frame.index ELSE evidence.index]
    BY <1>1 DEF NextEvidence, Evidence
  <2> HIDE DEF late, next
  <2> QED
    BY <1>1, <1>2, <2>1, <2>2 DEF Evidence
<1>4. IsFiniteSet(evidence.seen)
  BY <1>1, CodesAreFinite DEF Evidence
<1>5. Cardinality(evidence.seen) \in Nat
  BY <1>4, FS_CardinalityType
<1>6. Cardinality(next.seen) \in {Cardinality(evidence.seen), Cardinality(evidence.seen) + 1}
  BY <1>3, <1>4, FS_AddElement, Zenon
<1>7. Cardinality(next.seen) <= SampleCapacity
  BY <1>1, <1>5, <1>6, SessionAssumption
<1> QED
  BY <1>3, <1>7 DEF EvidenceFits

\* The evidence of a first press.
LEMMA FirstEvidenceFits ==
  ASSUME NEW index \in Index, NEW at \in 0 .. CaptureTime
  PROVE  EvidenceFits([seen |-> {index}, firstAt |-> at, qualified |-> FALSE, index |-> index])
<1> DEFINE first == [seen |-> {index}, firstAt |-> at, qualified |-> FALSE, index |-> index]
<1>1. first \in Evidence /\ first.seen = {index}
  BY DEF Evidence
<1>2. Cardinality({index}) = 1
  BY FS_Singleton, Zenon
<1>3. Cardinality(first.seen) <= SampleCapacity
  BY <1>1, <1>2, SessionAssumption
<1> QED
  BY <1>1, <1>3 DEF EvidenceFits

\* A full capture takes no further candidate, and a full candidate no further code.
LEMMA CollectFits ==
  ASSUME CaptureFits, captureAge \in 0 .. CaptureTime, NEW frame \in Frame, Collect(frame)
  PROVE  CaptureFits'
<1> DEFINE command == CommandOf(frame)
           first == [seen |-> {frame.index}, firstAt |-> captureAge, qualified |-> FALSE,
                     index |-> frame.index]
<1>1. CASE UNCHANGED candidates
  BY <1>1 DEF CaptureFits
<1>2. CASE /\ command \in DOMAIN candidates /\ ~SamplesFull(command)
           /\ candidates' = [candidates EXCEPT ![command] = NextEvidence(@, frame)]
  <2>1. EvidenceFits(NextEvidence(candidates[command], frame))
    BY <1>2, NextEvidenceFits DEF CaptureFits, SamplesFull
  <2>2. /\ DOMAIN candidates' = DOMAIN candidates
        /\ candidates'[command] = NextEvidence(candidates[command], frame)
        /\ \A other \in DOMAIN candidates \ {command} : candidates'[other] = candidates[other]
    BY <1>2
  <2> HIDE DEF command
  <2> QED
    BY <2>1, <2>2 DEF CaptureFits
<1>3. CASE /\ command \notin DOMAIN candidates /\ ~CandidatesFull
           /\ candidates' = Extended(candidates, command, first)
  <2>1. EvidenceFits(first)
    BY FirstEvidenceFits DEF Frame
  <2>2. /\ DOMAIN candidates' = DOMAIN candidates \cup {command}
        /\ candidates'[command] = first
        /\ \A other \in DOMAIN candidates : candidates'[other] = candidates[other]
    BY <1>3 DEF Extended
  <2>3. Cardinality(DOMAIN candidates) \in Nat /\ Cardinality(DOMAIN candidates) < CandidateCapacity
    BY <1>3, FS_CardinalityType, SessionAssumption DEF CaptureFits, CandidatesFull
  <2>4. /\ IsFiniteSet(DOMAIN candidates')
        /\ Cardinality(DOMAIN candidates') = Cardinality(DOMAIN candidates) + 1
    <3>1. IsFiniteSet(DOMAIN candidates) /\ command \notin DOMAIN candidates
      BY <1>3 DEF CaptureFits
    <3> HIDE DEF command
    <3> QED
      BY <2>2, <3>1, FS_AddElement, Zenon
  <2>5. Cardinality(DOMAIN candidates') <= CandidateCapacity
    BY <2>3, <2>4, SessionAssumption
  <2> HIDE DEF command, first
  <2> QED
    BY <2>1, <2>2, <2>4, <2>5 DEF CaptureFits
<1> QED
  BY <1>1, <1>2, <1>3 DEF Collect

-----------------------------------------------------------------------------
LEMMA FreshTypes ==
  ASSUME Fresh, token' \in Tokens \cup {NoToken}, relay' \in BOOLEAN, active' \in BOOLEAN,
         error' \in BOOLEAN, savedSlot' \in Nat \cup {NoSlot}
  PROVE  SessionTypeOK' /\ CaptureFits'
<1>1. DOMAIN candidates' = {} /\ DOMAIN frames' = {}
  BY DEF Fresh
<1>2. CaptureFits'
  BY <1>1, FS_EmptySet, SessionAssumption DEF CaptureFits
<1>3. 0 \in Index /\ 0 \in 0 .. SessionTime /\ 0 \in 0 .. CaptureTime
  BY IndexSpaceAssumption, SessionAssumption DEF Index
<1>4. /\ age' = 0 /\ captureAge' = 0 /\ endpoint' = 0 /\ capturing' = FALSE /\ lastIndex' = 0
      /\ presses' = {}
  BY DEF Fresh
<1>5. endpoint' \in 0 .. 2
  BY <1>4
<1>6. capturing' \in BOOLEAN
  BY <1>4, Zenon
<1>7. DOMAIN candidates' \subseteq Command
  BY <1>1
<1>8. \A command \in DOMAIN candidates' :
        candidates'[command] \in Evidence /\ Cardinality(candidates'[command].seen) <= SampleCapacity
  BY <1>1
<1>9. DOMAIN frames' \subseteq 0 .. 2 /\ \A e \in DOMAIN frames' : frames'[e] \in Frame
  BY <1>1
<1>10. presses' \subseteq [command : Command, index : Index, at : 0 .. CaptureTime]
  BY <1>4
<1> QED
  BY <1>2, <1>3, <1>4, <1>5, <1>6, <1>7, <1>8, <1>9, <1>10 DEF SessionTypeOK, CaptureFits

LEMMA CaptureTypes ==
  ASSUME TypeInv, NEW t, NEW e \in 0 .. 2, Capture(t, e)
  PROVE  SessionTypeOK' /\ CaptureFits'
<1>1. /\ DOMAIN frames' = 0 .. e - 1
      /\ \A k \in 0 .. e - 1 : frames'[k] = frames[k] /\ k \in DOMAIN frames
  BY KeptFrames DEF Capture, Accepted, TypeInv
<1>2. DOMAIN candidates' = {}
  BY DEF Capture
<1>3. CaptureFits'
  BY <1>2, FS_EmptySet, SessionAssumption DEF CaptureFits
<1> QED
  <2>1. /\ endpoint' = e /\ capturing' = TRUE /\ captureAge' = 0 /\ error' = FALSE /\ presses' = {}
        /\ UNCHANGED <<token, relay, active, age, lastIndex, savedSlot>>
    BY DEF Capture
  <2>2. 0 \in 0 .. CaptureTime
    BY SessionAssumption
  <2>3. \A k \in DOMAIN frames' : k \in 0 .. 2 /\ frames'[k] \in Frame
    BY <1>1 DEF TypeInv, SessionTypeOK
  <2> QED
    BY <1>2, <1>3, <2>1, <2>2, <2>3 DEF TypeInv, SessionTypeOK, CaptureFits

LEMMA HearTypes ==
  ASSUME TypeInv, NEW frame \in Frame, Hear(frame)
  PROVE  SessionTypeOK' /\ CaptureFits'
<1> DEFINE command == CommandOf(frame)
           heard == [command |-> command, index |-> frame.index, at |-> captureAge]
<1>1. frame.index \in Index /\ command \in Command
  BY DEF Frame, CommandOf, Command
<1>2. CaptureFits'
  <2>1. CASE UNCHANGED candidates
    BY <2>1 DEF TypeInv, CaptureFits
  <2>2. CASE Collect(frame)
    BY <2>2, CollectFits DEF TypeInv, SessionTypeOK
  <2> QED
    BY <2>1, <2>2 DEF Hear
<1>3. DOMAIN candidates' \subseteq Command
  BY HearKeeps DEF TypeInv, SessionInv, EndpointTypes
<1>4. lastIndex' \in Index
  BY <1>1 DEF Hear, Follow, TypeInv, SessionTypeOK
<1>5. error' \in BOOLEAN
  BY DEF Hear, Collect, TypeInv, SessionTypeOK
<1>6. presses' \subseteq [command : Command, index : Index, at : 0 .. CaptureTime]
  <2>1. presses' \subseteq presses \cup {heard}
    BY DEF Hear
  <2>2. heard \in [command : Command, index : Index, at : 0 .. CaptureTime]
    BY <1>1 DEF TypeInv, SessionTypeOK
  <2> QED
    BY <2>1, <2>2 DEF TypeInv, SessionTypeOK
<1>7. UNCHANGED <<token, relay, active, age, capturing, endpoint, captureAge, frames, savedSlot>>
  BY DEF Hear
<1> QED
  BY <1>2, <1>3, <1>4, <1>5, <1>6, <1>7
  DEF TypeInv, SessionTypeOK, CaptureFits, EvidenceFits

LEMMA AcceptTypes ==
  ASSUME TypeInv, NEW t, Accept(t)
  PROVE  SessionTypeOK' /\ CaptureFits'
<1>1. /\ UNCHANGED <<token, relay, active, age, endpoint, captureAge, candidates, savedSlot, presses>>
      /\ error' \in BOOLEAN /\ capturing' \in BOOLEAN
  BY DEF Accept, AcceptCandidate, TypeInv, SessionTypeOK
<1>2. DOMAIN frames' \subseteq 0 .. 2 /\ (\A e \in DOMAIN frames' : frames'[e] \in Frame)
        /\ lastIndex' \in Index
  <2>1. CASE UNCHANGED <<frames, lastIndex>>
    BY <2>1 DEF TypeInv, SessionTypeOK
  <2>2. ASSUME NEW command \in DOMAIN candidates, AcceptCandidate(command)
        PROVE  <1>2
    <3> DEFINE frame == [family |-> command.family, action |-> command.action,
                         index |-> candidates[command].index]
    <3>1. command \in Command /\ candidates[command].index \in Index
      BY <2>2 DEF TypeInv, SessionTypeOK, Evidence
    <3>2. frame \in Frame
      BY <3>1 DEF Command, Frame
    <3>3. frames' = Extended(frames, endpoint, frame) /\ lastIndex' = candidates[command].index
      BY <2>2 DEF AcceptCandidate, IndexAfter
    <3> HIDE DEF frame
    <3> QED
      BY <3>1, <3>2, <3>3 DEF Extended, TypeInv, SessionTypeOK
  <2> QED
    BY <2>1, <2>2 DEF Accept
<1> QED
  BY <1>1, <1>2 DEF TypeInv, SessionTypeOK, CaptureFits

LEMMA TickTypes ==
  ASSUME TypeInv, SessionTick
  PROVE  SessionTypeOK' /\ CaptureFits'
<1>1. CASE EndSession(TRUE)
  BY <1>1, FreshTypes DEF SessionTick, EndSession, TypeInv, SessionTypeOK
<1>2. CASE ~TimeIsUp
  <2>1. age' \in 0 .. SessionTime /\ captureAge' \in 0 .. CaptureTime
    BY <1>2, SessionAssumption DEF SessionTick, Older, TypeInv, SessionTypeOK
  <2> QED
    BY <1>2, <2>1 DEF SessionTick, TypeInv, SessionTypeOK, CaptureFits
<1> QED
  BY <1>1, <1>2 DEF SessionTick

LEMMA NextTypes == TypeInv /\ [SessionNext]_vars => TypeInv'
<1> SUFFICES ASSUME TypeInv, [SessionNext]_vars PROVE SessionTypeOK' /\ CaptureFits'
  BY NextConsistent DEF TypeInv
<1>1. ASSUME NEW t \in Tokens, NEW r \in BOOLEAN, Begin(t, r) PROVE SessionTypeOK' /\ CaptureFits'
  BY <1>1, FreshTypes DEF Begin
<1>2. ASSUME NEW t \in Tokens, Cancel(t) \/ CommitSession(t) PROVE SessionTypeOK' /\ CaptureFits'
  <2>1. /\ Fresh /\ UNCHANGED <<token, relay>> /\ active' = FALSE /\ error' \in BOOLEAN
        /\ savedSlot' \in {savedSlot, 0}
    BY <1>2 DEF Cancel, CommitSession, Saved, EndSession
  <2>2. /\ token' \in Tokens \cup {NoToken} /\ relay' \in BOOLEAN /\ active' \in BOOLEAN
        /\ savedSlot' \in Nat \cup {NoSlot}
    <3>1. /\ token \in Tokens \cup {NoToken} /\ relay \in BOOLEAN
          /\ savedSlot \in Nat \cup {NoSlot}
      BY DEF TypeInv, SessionTypeOK
    <3>2. 0 \in Nat
      OBVIOUS
    <3> HIDE DEF NoSlot, NoToken
    <3> QED
      BY <2>1, <3>1, <3>2, Zenon
  <2> QED
    BY <2>1, <2>2, FreshTypes
<1>3. ASSUME NEW frame \in HeardFrames, Hear(frame) PROVE SessionTypeOK' /\ CaptureFits'
  BY <1>3, HearTypes, SessionAssumption
<1>4. CASE UNCHANGED vars
  BY <1>4 DEF vars, sessionVars, TypeInv, SessionTypeOK, CaptureFits
<1> QED
  BY <1>1, <1>2, <1>3, <1>4, CaptureTypes, AcceptTypes, TickTypes DEF SessionNext

\* A session never holds more than its arrays have room for, whatever is on the air.
THEOREM SessionStaysInBounds == SessionSpec => []SessionTypeOK
<1>1. SessionInit => SessionTypeOK /\ CaptureFits
  <2> SUFFICES ASSUME SessionInit PROVE SessionTypeOK /\ CaptureFits
    OBVIOUS
  <2>1. 0 \in Index /\ DOMAIN candidates = {} /\ DOMAIN frames = {}
    BY IndexSpaceAssumption DEF Index, SessionInit
  <2>2. CaptureFits
    BY <2>1, FS_EmptySet, SessionAssumption DEF CaptureFits
  <2>3. 0 \in 0 .. SessionTime /\ 0 \in 0 .. CaptureTime
    BY SessionAssumption
  <2>4. /\ token = NoToken /\ relay = FALSE /\ active = FALSE /\ age = 0 /\ captureAge = 0
        /\ endpoint = 0 /\ capturing = FALSE /\ error = FALSE /\ lastIndex = 0
        /\ savedSlot = NoSlot /\ presses = {}
    BY DEF SessionInit
  <2>5. /\ relay \in BOOLEAN /\ active \in BOOLEAN /\ capturing \in BOOLEAN /\ error \in BOOLEAN
        /\ token \in Tokens \cup {NoToken} /\ savedSlot \in Nat \cup {NoSlot}
    BY <2>4, Zenon
  <2>6. endpoint \in 0 .. 2
    BY <2>4
  <2> QED
    BY <2>1, <2>2, <2>3, <2>4, <2>5, <2>6 DEF SessionTypeOK, CaptureFits
<1>2. SessionInit => TypeInv
  BY <1>1, InitConsistent DEF TypeInv
<1>3. TypeInv => SessionTypeOK
  BY DEF TypeInv
<1> QED
  BY <1>2, <1>3, NextTypes, PTL DEF SessionSpec

=============================================================================
