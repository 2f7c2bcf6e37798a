--------------------------- MODULE SessionPromise ---------------------------
(***************************************************************************)
(* What a learning session promises to the rest of the firmware: one       *)
(* client at a time, and nothing to commit but a complete set of endpoints *)
(* of one target, or a single action for relaying.  LearningSession        *)
(* implements it; Commissioning builds on it.                              *)
(***************************************************************************)
EXTENDS NormanProtocol, FiniteSets, Integers

CONSTANT Tokens    \* session names chosen by clients

VARIABLES
  token,      \* the client that owns the session, or NoToken
  relay,      \* whether it learns one action for repeating, not a panel
  active,
  learned,    \* the commands a commit would save; {} unless ready()
  savedSlot   \* the slot the session was saved in, or NoSlot

promiseVars == <<token, relay, active, learned, savedSlot>>

-----------------------------------------------------------------------------
NoToken == "none"
NoSlot  == -1

\* Open, Close and maybe the opposite Close of one target; or one action.
Complete(commands, r) ==
  /\ Cardinality(commands) \in (IF r THEN {1} ELSE 2 .. 3)
  /\ \A one, other \in commands : one.family = other.family

NoSession ==
  /\ token = NoToken /\ relay = FALSE /\ active = FALSE
  /\ learned = {} /\ savedSlot = NoSlot

Begin(t, r) ==
  /\ ~active
  /\ token' = t /\ relay' = r /\ active' = TRUE
  /\ learned' = {} /\ savedSlot' = NoSlot

\* Captures come and go; what is ready to be committed is complete.
Learn(commands) ==
  /\ active
  /\ commands = {} \/ Complete(commands, relay)
  /\ learned' = commands
  /\ UNCHANGED <<token, relay, active, savedSlot>>

\* Cancelled or expired.
End ==
  /\ active' = FALSE /\ learned' = {}
  /\ UNCHANGED <<token, relay, savedSlot>>

Saved(slot) ==
  /\ learned # {} /\ savedSlot = NoSlot
  /\ active' = FALSE /\ learned' = {} /\ savedSlot' = slot
  /\ UNCHANGED <<token, relay>>

SessionStep ==
  \/ \E t \in Tokens, r \in BOOLEAN : Begin(t, r)
  \/ \E commands \in SUBSET Command : Learn(commands)
  \/ End

PromiseNext == SessionStep \/ (savedSlot' \in Nat /\ Saved(savedSlot'))

PromiseSpec == NoSession /\ [][PromiseNext]_promiseVars

=============================================================================
