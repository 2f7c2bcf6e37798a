----------------------------- MODULE PanelStorage -----------------------------
(***************************************************************************)
(* One slot of the table of learned panels and its two preference records  *)
(* (learned_panel.cpp): the marker and the profile, saved one after the    *)
(* other, with the power cut, a save or a sync failing, or the profile     *)
(* unreadable at the next start.  RadioOwner and Commissioning take this   *)
(* two-stage save as one that works or fails.                              *)
(*                                                                         *)
(* A profile is its rolling index, which does not wrap here; two indices   *)
(* of a family compare by their distance, as in NormanProtocol.  ESPHome   *)
(* queues what is saved and writes the queue when it is synced, which it   *)
(* also does by itself now and then.                                       *)
(*                                                                         *)
(* A definition marked "slip" is a deviation this code could easily have   *)
(* had; none is used, and README.md says which property each one breaks.   *)
(***************************************************************************)
EXTENDS Naturals

CONSTANTS LegacyIndex,  \* the index in a profile of the old firmware
          MaxIndex      \* bound on the indices

ASSUME StorageAssumption ==
  /\ MaxIndex \in Nat
  /\ LegacyIndex \in 0 .. MaxIndex

VARIABLES
  legacy,          \* this is slot 0, and the old firmware left a profile for it
  marker, record,  \* the two records in flash
  queue,           \* records that are saved and not synced
  up,              \* setup() has run
  target,          \* target_: what the slot holds in memory
  ready, fault,    \* ready_ and storage_fault_
  saving,          \* how far persist() is, and for whom
  saveDue          \* a save_counter timeout is pending

\* History: the newest index of this panel that was sent, or stored first; None until
\* the panel is stored, and once it is removed.
VARIABLE used

storageVars == <<legacy, marker, record, queue>>
panelVars   == <<target, ready, fault>>
vars == <<storageVars, up, panelVars, saving, saveDue, used>>

-----------------------------------------------------------------------------
None    == [kind |-> "none", index |-> 0]
Deleted == [kind |-> "deleted", index |-> 0]    \* a tombstone: version 255
Garbled == [kind |-> "garbled", index |-> 0]    \* its checksum does not fit

Profile(i) == [kind |-> "profile", index |-> i]
Profiles   == {Profile(i) : i \in 0 .. MaxIndex}
Contents   == {None, Deleted} \cup Profiles

\* load() finds a record, and one that it can trust.
Loaded == record \in {Deleted} \cup Profiles

NoQueue == [marker |-> FALSE, record |-> None]

\* persist() is at the marker or at the profile, called by setup, a commissioning or
\* save_counter, or by commit_transmit.
Saving == [at : {"idle", "marker", "record"}, for : {"keeping", "sending"}]
Idle   == [at |-> "idle", for |-> "keeping"]

Commissioned == target \in Profiles

\* valid_target holds of every profile and of nothing else.
Persist(profile, purpose) ==
  /\ target' = profile
  /\ saving' = [at |-> "marker", for |-> purpose]

\* What a power cut or a failing sync leaves of a queue: each record is written or not.
PartlyWritten(pending) ==
  /\ marker' \in {marker, marker \/ pending.marker}
  /\ record' \in {record, IF pending.record = None THEN record ELSE pending.record}

\* save() and sync() of what is queued and `more' work.
SyncWorks(pending) ==
  /\ marker' = (marker \/ pending.marker)
  /\ record' = IF pending.record = None THEN record ELSE pending.record
  /\ queue' = NoQueue
  /\ UNCHANGED legacy

\* Or one of them fails; what is queued may be written later, or never.
SyncFails(pending) ==
  /\ PartlyWritten(pending)
  /\ UNCHANGED legacy
  /\ queue' \in {queue, pending, NoQueue}
  /\ ready' = FALSE
  /\ fault' = TRUE
  /\ saving' = Idle

-----------------------------------------------------------------------------
\* A slip: the old profile is imported whenever there is no other.
SetupUnmarked ==
  /\ ~up
  /\ up' = TRUE
  /\ fault' = FALSE
  /\ ready' = (record \in Profiles)
  /\ IF Loaded \/ ~legacy
       THEN target' = (IF Loaded THEN record ELSE None) /\ UNCHANGED saving
       ELSE Persist(Profile(LegacyIndex), "keeping")
  /\ UNCHANGED <<storageVars, saveDue, used>>

\* setup(): the profile, a tombstone, a fault, or the import of the old profile.
Setup ==
  /\ ~up
  /\ up' = TRUE
  /\ ready' = (record \in Profiles)
  /\ fault' = (~Loaded /\ marker)
  /\ IF Loaded \/ marker \/ ~legacy
       THEN target' = (IF Loaded THEN record ELSE None) /\ UNCHANGED saving
       ELSE Persist(Profile(LegacyIndex), "keeping")
  /\ UNCHANGED <<storageVars, saveDue, used>>

\* A slip: a panel is marked once it is stored, not before.
MarkLater == saving.at = "marker" /\ saving' = [saving EXCEPT !.at = "record"] /\
             UNCHANGED <<storageVars, up, ready, fault, target, saveDue, used>>

\* persist(), first the marker ...
SaveMarker ==
  /\ saving.at = "marker"
  /\ LET pending == [queue EXCEPT !.marker = TRUE] IN
       \/ /\ SyncWorks(pending)
          /\ saving' = [saving EXCEPT !.at = "record"]
          /\ UNCHANGED <<ready, fault>>
       \/ SyncFails(pending)
  /\ UNCHANGED <<up, target, saveDue, used>>

\* ... then the profile: the panel is ready, and what was reserved may be sent.
SaveRecord ==
  /\ saving.at = "record"
  /\ LET pending == [queue EXCEPT !.record = target] IN
       \/ /\ SyncWorks(pending)
          /\ ready' = TRUE
          /\ saving' = Idle
          /\ used' = IF saving.for = "sending" \/ used = None THEN target ELSE used
          /\ UNCHANGED fault
       \/ SyncFails(pending) /\ UNCHANGED used
  /\ UNCHANGED <<up, target, saveDue>>

-----------------------------------------------------------------------------
\* The other handlers run when persist() is not in the middle of one.
Running == up /\ saving.at = "idle"

\* configure_target on a slot without a panel, with the index of a capture.
Configure(i) ==
  /\ Running /\ ~ready /\ ~fault
  /\ Persist(Profile(i), "keeping")
  /\ used' = None
  /\ UNCHANGED <<storageVars, up, ready, fault, saveDue>>

\* rename, and configure_endpoint, which also takes a newer index from its frame.
Reconfigure(i) ==
  /\ Running /\ ready /\ i >= target.index
  /\ Persist(Profile(i), "keeping")
  /\ UNCHANGED <<storageVars, up, ready, fault, saveDue, used>>

\* A slip: a counter that is reserved is sent first, and saved with the next timeout.
SendUnsaved ==
  /\ Running /\ ready /\ target.index < MaxIndex
  /\ target' = Profile(target.index + 1)
  /\ used' = target'
  /\ saveDue' = TRUE
  /\ UNCHANGED <<storageVars, up, ready, fault, saving>>

\* commit_transmit.
CommitTransmit ==
  /\ Running /\ ready /\ target.index < MaxIndex
  /\ Persist(Profile(target.index + 1), "sending")
  /\ UNCHANGED <<storageVars, up, ready, fault, saveDue, used>>

\* observe(): the remote itself has been used.
Observe(i) ==
  /\ Running /\ ready /\ i > target.index
  /\ target' = Profile(i)
  /\ saveDue' = TRUE
  /\ UNCHANGED <<storageVars, up, ready, fault, saving, used>>

\* The save_counter timeout, whatever has become of the panel meanwhile.
SaveCounter ==
  /\ Running /\ saveDue
  /\ saveDue' = FALSE
  /\ IF Commissioned
       THEN Persist(target, "keeping") /\ UNCHANGED ready
       ELSE ready' = FALSE /\ UNCHANGED <<target, saving>>
  /\ UNCHANGED <<storageVars, up, fault, used>>

\* remove(): a tombstone replaces the profile.
Remove ==
  /\ Running /\ ready
  /\ LET pending == [queue EXCEPT !.record = Deleted] IN
       \/ /\ SyncWorks(pending)
          /\ ready' = FALSE /\ fault' = FALSE
          /\ target' = Deleted
          /\ used' = None
          /\ UNCHANGED saving
       \/ SyncFails(pending) /\ UNCHANGED <<target, used>>
  /\ UNCHANGED <<up, saveDue>>

-----------------------------------------------------------------------------
\* ESPHome syncs by itself.
Flush ==
  /\ Running /\ queue # NoQueue
  /\ SyncWorks(queue)
  /\ UNCHANGED <<up, panelVars, saving, saveDue, used>>

\* The power fails, also in the middle of persist(), or the device restarts.
PowerCut ==
  /\ up
  /\ up' = FALSE
  /\ queue' = NoQueue
  /\ target' = None /\ ready' = FALSE /\ fault' = FALSE
  /\ saving' = Idle /\ saveDue' = FALSE
  /\ UNCHANGED <<legacy, marker, record, used>>

\* A page of the flash wears out: the profile is there and cannot be trusted.
Garble ==
  /\ record # None
  /\ record' = Garbled
  /\ UNCHANGED <<legacy, marker, queue, up, panelVars, saving, saveDue, used>>

Init ==
  /\ legacy \in BOOLEAN
  /\ marker = FALSE /\ record = None /\ queue = NoQueue
  /\ up = FALSE
  /\ target = None /\ ready = FALSE /\ fault = FALSE
  /\ saving = Idle /\ saveDue = FALSE
  /\ used = None

Next ==
  \/ Setup
  \/ SaveMarker
  \/ SaveRecord
  \/ \E i \in 0 .. MaxIndex : Configure(i) \/ Reconfigure(i) \/ Observe(i)
  \/ CommitTransmit
  \/ SaveCounter
  \/ Remove
  \/ Flush
  \/ PowerCut
  \/ Garble

Spec == Init /\ [][Next]_vars

-----------------------------------------------------------------------------
\* The records hold what this code writes, and a panel that is ready has a profile.
TypeOK ==
  /\ legacy \in BOOLEAN
  /\ marker \in BOOLEAN
  /\ record \in Contents \cup {Garbled}
  /\ queue \in [marker : BOOLEAN, record : Contents]
  /\ up \in BOOLEAN
  /\ target \in Contents
  /\ ready \in BOOLEAN /\ fault \in BOOLEAN
  /\ saving \in Saving
  /\ saveDue \in BOOLEAN
  /\ used \in {None} \cup Profiles
  /\ ready => Commissioned

\* A ready panel continues after the newest index it has sent, whatever was cut short,
\* failed or worn out since: it never falls back to an older profile, its own or the
\* old firmware's (learned_panel.cpp:31-39, 141-149).
NeverFallsBack ==
  ready /\ used # None => target.index >= used.index

\* A slot that holds a panel, readable or not, is never offered as an empty one: when
\* its profile cannot be loaded it is faulted until somebody recovers it.  Only a
\* tombstone frees it, also that of a removal that reported a failure.
HeldIsNotEmpty ==
  Running /\ used # None /\ target # Deleted => ready \/ fault

=============================================================================
