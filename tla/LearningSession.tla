--------------------------- MODULE LearningSession ---------------------------
(***************************************************************************)
(* The volatile capture of a panel, or of a relay action, from the remote  *)
(* that commands it (learning_session.h): a client opens a session, asks   *)
(* for one endpoint after the other, and accepts what the session heard.   *)
(*                                                                         *)
(* Of a frame only its command (family and action) and its code count; the *)
(* code of a sample is the frame's index.  A frame that fails validation   *)
(* reaches no session.  error_ is whether there is one.  A session whose   *)
(* time is up ends when active() is next asked, which every operation does *)
(* first; here it ends with its time.  What a session that is over still   *)
(* holds besides its token and its slot is not asked again before begin()  *)
(* clears it, so it is forgotten at once.  Ages stop at their limits: the  *)
(* 32-bit clock does not wrap here.                                        *)
(***************************************************************************)
EXTENDS NormanProtocol, FiniteSets, Functions

CONSTANTS Tokens,             \* session names chosen by clients
          HeardFrames,        \* valid frames other transmitters may send
          CandidateCapacity,  \* commands one capture can tell apart     (8)
          SampleCapacity,     \* codes remembered of one command        (16)
          PressGap,           \* least time between two presses        (8 s)
          CaptureTime,        \* life of a capture                    (60 s)
          SessionTime         \* life of a session                  (10 min)

ASSUME SessionAssumption ==
  /\ HeardFrames \subseteq Frame
  /\ CandidateCapacity \in Nat \ {0}
  /\ SampleCapacity \in Nat \ {0}
  /\ PressGap \in Nat \ {0}
  /\ CaptureTime \in Nat
  /\ SessionTime \in Nat

VARIABLES
  token,       \* token_, or NoToken
  relay,       \* relay_: one action for repeating, not a panel
  active, age, \* active_ and the time since started_
  capturing, endpoint, captureAge,
  error,       \* whether error_ is set
  candidates,  \* candidates_: command -> evidence
  frames,      \* frames_ of the accepted endpoints
  lastIndex,
  savedSlot

\* History.
VARIABLE
  presses      \* when each command and code was first heard in this capture

sessionVars == <<token, relay, active, age, capturing, endpoint, captureAge, error,
                 candidates, frames, lastIndex, savedSlot>>

-----------------------------------------------------------------------------
NoToken == "none"
NoSlot  == -1

Evidence == [seen : SUBSET Index, firstAt : 0 .. CaptureTime, qualified : BOOLEAN,
             index : Index]

Owns(t) == token = t

\* `f' with a further entry.
Extended(f, x, y) == [k \in DOMAIN f \cup {x} |-> IF k = x THEN y ELSE f[k]]

CaptureOpen == capturing /\ captureAge < CaptureTime

\* The endpoints in the order they are learned: Open, Close, opposite Close.
Accepted(e) == e \in DOMAIN frames

\* A slip: Open alone is enough.
ReadyWithOpen == active /\ ~capturing /\ Accepted(0)

\* ready()
Ready == active /\ ~capturing /\ Accepted(0) /\ (relay \/ Accepted(1))

\* The empty capture of a session that is new or over.
Fresh ==
  /\ age' = 0
  /\ capturing' = FALSE /\ endpoint' = 0 /\ captureAge' = 0
  /\ candidates' = <<>> /\ frames' = <<>> /\ lastIndex' = 0
  /\ presses' = {}

EndSession(failed) ==
  /\ active' = FALSE /\ error' = failed
  /\ Fresh
  /\ UNCHANGED <<token, relay>>

SessionInit ==
  /\ token = NoToken /\ relay = FALSE
  /\ active = FALSE /\ age = 0
  /\ capturing = FALSE /\ endpoint = 0 /\ captureAge = 0
  /\ error = FALSE
  /\ candidates = <<>> /\ frames = <<>>
  /\ lastIndex = 0 /\ savedSlot = NoSlot
  /\ presses = {}

Begin(t, r) ==
  /\ ~active
  /\ token' = t /\ relay' = r /\ active' = TRUE /\ error' = FALSE
  /\ Fresh
  /\ savedSlot' = NoSlot

\* A slip: only the endpoint itself is forgotten.
KeptAllOthers(e) == Restrict(frames, DOMAIN frames \ {e})

KeptEndpoints(e) == Restrict(frames, DOMAIN frames \cap 0 .. e - 1)

\* capture(): a new window for endpoint e; e and what depends on it are forgotten.
Capture(t, e) ==
  /\ Owns(t) /\ active
  /\ relay => e = 0
  /\ \A before \in 0 .. e - 1 : Accepted(before)
  /\ endpoint' = e /\ capturing' = TRUE /\ captureAge' = 0
  /\ error' = FALSE
  /\ candidates' = <<>>
  /\ frames' = KeptEndpoints(e)
  /\ presses' = {}
  /\ UNCHANGED <<token, relay, active, age, lastIndex, savedSlot>>

-----------------------------------------------------------------------------
\* Evidence of `frame' for a command the capture knows already.
NextEvidence(evidence, frame) ==
  [evidence EXCEPT
     !.seen = @ \cup {frame.index},
     !.qualified = captureAge - evidence.firstAt >= PressGap,
     !.index = IF captureAge - evidence.firstAt >= PressGap THEN frame.index ELSE @]

\* A slip: full is noticed when there is one too many.
CandidatesOverrun == Cardinality(DOMAIN candidates) > CandidateCapacity

CandidatesFull == Cardinality(DOMAIN candidates) = CandidateCapacity

SamplesFull(command) == Cardinality(candidates[command].seen) = SampleCapacity

\* observe() inside a capture: too much distinct traffic is an error, not a guess.
Collect(frame) ==
  LET command == CommandOf(frame) IN
  \/ /\ command \in DOMAIN candidates
     /\ \/ /\ candidates[command].qualified \/ frame.index \in candidates[command].seen
           /\ UNCHANGED <<candidates, error>>
        \/ /\ ~candidates[command].qualified /\ frame.index \notin candidates[command].seen
           /\ IF SamplesFull(command)
                THEN error' = TRUE /\ UNCHANGED candidates
                ELSE /\ candidates' = [candidates EXCEPT ![command] = NextEvidence(@, frame)]
                     /\ UNCHANGED error
  \/ /\ command \notin DOMAIN candidates
     /\ IF CandidatesFull
          THEN error' = TRUE /\ UNCHANGED candidates
          ELSE /\ candidates' = Extended(candidates, command,
                    [seen |-> {frame.index}, firstAt |-> captureAge, qualified |-> FALSE,
                     index |-> frame.index])
               /\ UNCHANGED error

\* observe() between captures: the accepted family's counter is followed.
Follow(frame) ==
  lastIndex' = IF /\ Accepted(0) /\ SameCommandFamily(frames[0], frame)
                  /\ IsNewer(frame.index, lastIndex)
                 THEN frame.index ELSE lastIndex

\* Only the accepted Open's family can give evidence for the other endpoints.
OfLearnedTarget(command) == endpoint > 0 => command.family = frames[0].family

Hear(frame) ==
  LET command == CommandOf(frame)
      heardAt == [command |-> command, index |-> frame.index, at |-> captureAge]
  IN
  /\ \/ ~active /\ UNCHANGED <<candidates, error, lastIndex>>
     \/ active /\ ~capturing /\ Follow(frame) /\ UNCHANGED <<candidates, error>>
     \/ /\ active /\ CaptureOpen /\ ~error /\ OfLearnedTarget(command)
        /\ Collect(frame)
        /\ UNCHANGED lastIndex
     \/ /\ active /\ capturing /\ ~(CaptureOpen /\ ~error /\ OfLearnedTarget(command))
        /\ UNCHANGED <<candidates, error, lastIndex>>
  /\ presses' = IF active /\ CaptureOpen /\ ~\E p \in presses : p.command = command /\ p.index = frame.index
                  THEN presses \cup {heardAt} ELSE presses
  /\ UNCHANGED <<token, relay, active, age, capturing, endpoint, captureAge, frames, savedSlot>>

-----------------------------------------------------------------------------
Qualified == {command \in DOMAIN candidates : candidates[command].qualified}

\* A slip: the one qualified command is taken whatever else was heard.
OnlyQualified(command) == Qualified = {command}

\* accept(): one qualified command, no other of its family, no endpoint twice.
Selected(command) ==
  /\ Qualified = {command}
  /\ \A other \in DOMAIN candidates \ {command} : other.family # command.family
  /\ \A e \in 0 .. endpoint - 1 : ~SameLearnedCommand(frames[e], command)

\* A slip: the learned index only ever moves forward.
IndexAfterForward(index) == IF IsNewer(index, lastIndex) THEN index ELSE lastIndex

IndexAfter(index) == index

AcceptCandidate(command) ==
  LET evidence == candidates[command]
      frame    == [family |-> command.family, action |-> command.action, index |-> evidence.index]
  IN
  /\ frames' = Extended(frames, endpoint, frame)
  /\ lastIndex' = IndexAfter(evidence.index)
  /\ capturing' = FALSE
  /\ UNCHANGED error

Accept(t) ==
  /\ Owns(t) /\ active /\ capturing /\ ~error
  /\ \/ \E command \in DOMAIN candidates : CaptureOpen /\ Selected(command) /\ AcceptCandidate(command)
     \/ /\ ~(CaptureOpen /\ \E command \in DOMAIN candidates : Selected(command))
        /\ error' = TRUE
        /\ UNCHANGED <<frames, lastIndex, capturing>>
  /\ UNCHANGED <<token, relay, active, age, endpoint, captureAge, candidates, savedSlot,
                 presses>>

Cancel(t) ==
  /\ Owns(t)
  /\ EndSession(TRUE)
  /\ UNCHANGED savedSlot

Saved(slot) ==
  /\ savedSlot' = slot
  /\ EndSession(FALSE)

\* A slip: a capture that is under way is not cut short.
TimeIsUpBetweenCaptures == age + 1 >= SessionTime /\ ~capturing

TimeIsUp == age + 1 >= SessionTime

Older(a, limit) == IF a < limit THEN a + 1 ELSE a

\* Time passes; a session that reaches its limit has expired.
SessionTick ==
  /\ active
  /\ IF TimeIsUp
       THEN EndSession(TRUE)
       ELSE /\ age' = Older(age, SessionTime)
            /\ captureAge' = IF capturing THEN Older(captureAge, CaptureTime) ELSE captureAge
            /\ UNCHANGED <<token, relay, active, capturing, endpoint, error, candidates,
                           frames, lastIndex, presses>>
  /\ UNCHANGED savedSlot

-----------------------------------------------------------------------------
\* A commit, as far as the session goes: it saves, or fails and may be retried.
CommitSession(t) ==
  /\ Owns(t) /\ savedSlot = NoSlot /\ Ready
  /\ Saved(0)

SessionNext ==
  \/ \E t \in Tokens :
       \/ \E r \in BOOLEAN : Begin(t, r)
       \/ \E e \in 0 .. 2 : Capture(t, e)
       \/ Accept(t)
       \/ Cancel(t)
       \/ CommitSession(t)
  \/ \E frame \in HeardFrames : Hear(frame)
  \/ SessionTick

vars == <<sessionVars, presses>>

SessionSpec == SessionInit /\ [][SessionNext]_vars

\* Time passes; no client and no remote is expected to do anything.
FairSessionSpec == SessionSpec /\ WF_vars(SessionTick)

-----------------------------------------------------------------------------
SessionTypeOK ==
  /\ token \in Tokens \cup {NoToken}
  /\ relay \in BOOLEAN /\ active \in BOOLEAN /\ capturing \in BOOLEAN /\ error \in BOOLEAN
  /\ age \in 0 .. SessionTime /\ captureAge \in 0 .. CaptureTime
  /\ endpoint \in 0 .. 2
  /\ DOMAIN candidates \subseteq Command /\ Cardinality(DOMAIN candidates) <= CandidateCapacity
  /\ \A command \in DOMAIN candidates :
       candidates[command] \in Evidence /\ Cardinality(candidates[command].seen) <= SampleCapacity
  /\ DOMAIN frames \subseteq 0 .. 2
  /\ \A e \in DOMAIN frames : frames[e] \in Frame
  /\ lastIndex \in Index
  /\ savedSlot \in Nat \cup {NoSlot}
  /\ presses \subseteq [command : Command, index : Index, at : 0 .. CaptureTime]

\* What a commit would save.
Learned == IF Ready THEN {CommandOf(frames[e]) : e \in DOMAIN frames} ELSE {}

\* The session implements what Commissioning relies on.
Promise == INSTANCE SessionPromise WITH learned <- Learned

KeepsPromise == Promise!PromiseSpec

\* The endpoints of a session are different actions of one target, in order,
\* whatever was captured again in between: no mixed old and new families.
OneTarget ==
  /\ \A e \in DOMAIN frames : \A before \in 0 .. e - 1 : Accepted(before)
  /\ \A e, f \in DOMAIN frames : e # f =>
       /\ SameCommandFamily(frames[e], frames[f])
       /\ frames[e].action # frames[f].action

\* Heard twice, with different codes, and far enough apart.
PressedTwice(command) ==
  \E p, q \in presses : /\ p.command = command /\ q.command = command
                        /\ p.index # q.index
                        /\ p.at + PressGap <= q.at

\* The index that is learned with an endpoint is one of that command's own
\* presses, also when Open is learned again from another remote.
IndexOfTarget ==
  [][\A e \in DOMAIN frames' \ DOMAIN frames :
       \E p \in presses : p.command = CommandOf(frames'[e]) /\ p.index = lastIndex']_vars

\* Continue never guesses: the accepted command was pressed twice, no other
\* action of its target was heard at all, and nothing else was pressed twice;
\* also when the capture ran out of room to remember what it heard.
NeverAGuess ==
  [][\A e \in DOMAIN frames' \ DOMAIN frames :
       /\ PressedTwice(CommandOf(frames'[e]))
       /\ \A p \in presses : OfLearnedTarget(p.command) /\ p.command # CommandOf(frames'[e]) =>
            /\ p.command.family # frames'[e].family
            /\ ~PressedTwice(p.command)]_vars

\* An abandoned session releases the radio, however often captures are retried.
SessionEnds == active ~> ~active

=============================================================================
