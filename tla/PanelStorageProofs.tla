-------------------------- MODULE PanelStorageProofs --------------------------
(***************************************************************************)
(* What PanelStorage promises for indices of any range: a slot never falls *)
(* back to an older profile, and one that holds a panel is never offered   *)
(* as empty.                                                               *)
(*                                                                         *)
(* The argument: nothing that could still reach the flash, or memory, is   *)
(* older than the newest index used, and the marker has been written       *)
(* before any index is used; so a restart finds a profile that is new      *)
(* enough, a tombstone, or the marker without a profile, which is a fault. *)
(***************************************************************************)
EXTENDS PanelStorage, TLAPS

\* `content' is no profile from before the newest index used.
NotOlder(content) ==
  used # None /\ content \in Profiles => content.index >= used.index

\* Whatever was used has its marker, and nothing older is left anywhere.
UsedIsMarked == used # None => marker /\ record # None
NothingOlder == NotOlder(record) /\ NotOlder(queue.record) /\ NotOlder(target)

\* persist() is only at work on a profile, and at the record only after the marker.
SavesProfiles ==
  /\ saving.at # "idle" => up /\ Commissioned
  /\ saving.at = "record" => marker
  /\ ~up => ~ready

IInv == TypeOK /\ UsedIsMarked /\ NothingOlder /\ SavesProfiles /\ HeldIsNotEmpty

-----------------------------------------------------------------------------
\* The kinds of contents are told apart, and a profile is its index.
LEMMA ContentsDiffer ==
  /\ None # Deleted /\ None # Garbled /\ Deleted # Garbled
  /\ None \notin Profiles /\ Deleted \notin Profiles /\ Garbled \notin Profiles
  /\ \A i : Profile(i).index = i
  /\ \A i \in 0 .. MaxIndex : Profile(i) \in Profiles
  /\ \A p \in Profiles : p.index \in 0 .. MaxIndex /\ p = Profile(p.index)
  /\ NoQueue.marker = FALSE /\ NoQueue.record = None
<1>1. /\ None.kind = "none" /\ Deleted.kind = "deleted" /\ Garbled.kind = "garbled"
      /\ \A i : Profile(i).kind = "profile" /\ Profile(i).index = i
  BY DEF None, Deleted, Garbled, Profile
<1>2. QED
  BY <1>1 DEF Profiles, NoQueue

\* A queue has two fields, and saving a record replaces one of them.
LEMMA QueueFields ==
  ASSUME TypeOK
  PROVE  /\ queue.marker \in BOOLEAN /\ queue.record \in Contents
         /\ [queue EXCEPT !.marker = TRUE].marker = TRUE
         /\ [queue EXCEPT !.marker = TRUE].record = queue.record
         /\ [queue EXCEPT !.marker = TRUE] \in [marker : BOOLEAN, record : Contents]
         /\ \A c \in Contents : /\ [queue EXCEPT !.record = c].marker = queue.marker
                                /\ [queue EXCEPT !.record = c].record = c
                                /\ [queue EXCEPT !.record = c] \in [marker : BOOLEAN, record : Contents]
         /\ NoQueue \in [marker : BOOLEAN, record : Contents]
BY DEF TypeOK, NoQueue, Contents

\* The invariant holds of a device that has not started yet.
LEMMA InitIInv == ASSUME Init PROVE IInv
BY ContentsDiffer DEF Init, IInv, TypeOK, UsedIsMarked, NothingOlder, NotOlder, SavesProfiles,
   HeldIsNotEmpty, Running, Idle, Saving, Contents, NoQueue

\* What a sync that works leaves in the flash and of the queue.
LEMMA SyncedRecords ==
  ASSUME TypeOK, NEW pending \in [marker : BOOLEAN, record : Contents],
         SyncWorks(pending) \/ SyncFails(pending)
  PROVE  /\ legacy' = legacy
         /\ marker' \in BOOLEAN /\ (marker => marker')
         /\ record' = record \/ (pending.record # None /\ record' = pending.record)
         /\ record' \in Contents \cup {Garbled}
         /\ queue' \in {queue, pending, NoQueue}
         /\ queue' \in [marker : BOOLEAN, record : Contents]
         /\ SyncWorks(pending) /\ pending.record # None => record' = pending.record
         /\ SyncWorks(pending) /\ pending.marker => marker'
BY QueueFields DEF TypeOK, SyncWorks, SyncFails, PartlyWritten

\* A fault keeps the promise about slots that hold a panel.
LEMMA FaultKeepsPromise ==
  ASSUME IInv, NEW pending \in [marker : BOOLEAN, record : Contents], SyncFails(pending),
         UNCHANGED <<up, target, used>>, saveDue' \in BOOLEAN,
         used = None \/ pending.record \notin Profiles \/ pending.record.index >= used.index
  PROVE  IInv'
<1> USE DEF IInv
<1>1. TypeOK'
  BY SyncedRecords DEF TypeOK, SyncFails, Saving, Idle, Commissioned
<1>2. UsedIsMarked' /\ NothingOlder'
  BY SyncedRecords, ContentsDiffer DEF UsedIsMarked, NothingOlder, NotOlder
<1>3. SavesProfiles' /\ HeldIsNotEmpty'
  BY DEF SyncFails, SavesProfiles, HeldIsNotEmpty, Running, Idle
<1>4. QED
  BY <1>1, <1>2, <1>3

-----------------------------------------------------------------------------
LEMMA SetupStep == ASSUME IInv, Setup PROVE IInv'
<1> USE DEF IInv
<1>1. saving.at = "idle" /\ saving \in Saving
  BY DEF Setup, SavesProfiles, TypeOK, Saving
<1>2. CASE Loaded \/ marker \/ ~legacy
  <2>1. UNCHANGED saving /\ target' = (IF Loaded THEN record ELSE None)
    BY <1>2 DEF Setup
  <2>2. TypeOK'
    BY <1>1, <2>1, ContentsDiffer
    DEF Setup, TypeOK, storageVars, Loaded, Contents, Commissioned
  <2>3. UsedIsMarked' /\ NothingOlder' /\ SavesProfiles'
    BY <1>1, <2>1, ContentsDiffer
    DEF Setup, storageVars, Loaded, UsedIsMarked, NothingOlder, NotOlder, SavesProfiles, TypeOK
  <2>4. HeldIsNotEmpty'
    BY <1>1, <2>1, ContentsDiffer
    DEF Setup, storageVars, Loaded, UsedIsMarked, HeldIsNotEmpty, Running, TypeOK, Contents
  <2>5. QED
    BY <2>2, <2>3, <2>4
<1>3. CASE ~(Loaded \/ marker \/ ~legacy)
  <2>1. /\ target' = Profile(LegacyIndex) /\ target' \in Profiles
        /\ saving' = [at |-> "marker", for |-> "keeping"]
    BY <1>3, ContentsDiffer, StorageAssumption DEF Setup, Persist
  <2>2. used = None
    BY <1>3 DEF UsedIsMarked
  <2>3. TypeOK'
    BY <2>1, ContentsDiffer DEF Setup, TypeOK, storageVars, Contents, Commissioned, Saving
  <2>4. UsedIsMarked' /\ NothingOlder' /\ SavesProfiles' /\ HeldIsNotEmpty'
    BY <2>1, <2>2 DEF Setup, storageVars, UsedIsMarked, NothingOlder, NotOlder, SavesProfiles,
       HeldIsNotEmpty, Commissioned
  <2>5. QED
    BY <2>3, <2>4
<1>4. QED
  BY <1>2, <1>3

LEMMA SaveMarkerStep == ASSUME IInv, SaveMarker PROVE IInv'
<1> DEFINE pending == [queue EXCEPT !.marker = TRUE]
<1> USE DEF IInv
<1>1. /\ pending \in [marker : BOOLEAN, record : Contents]
      /\ pending.marker /\ pending.record = queue.record
  BY QueueFields
<1>2. CASE SyncFails(pending)
  <2>1. used = None \/ pending.record \notin Profiles \/ pending.record.index >= used.index
    BY <1>1 DEF NothingOlder, NotOlder
  <2>2. saveDue' \in BOOLEAN /\ UNCHANGED <<up, target, used>>
    BY DEF SaveMarker, TypeOK
  <2>3. QED
    BY ONLY IInv, <1>1, <1>2, <2>1, <2>2, FaultKeepsPromise
<1>3. CASE /\ SyncWorks(pending)
           /\ saving' = [saving EXCEPT !.at = "record"]
           /\ UNCHANGED <<ready, fault>>
  <2>1. /\ legacy' = legacy /\ marker' = TRUE
        /\ record' = record \/ (queue.record # None /\ record' = queue.record)
        /\ record' \in Contents \cup {Garbled}
        /\ queue' = NoQueue /\ queue' \in [marker : BOOLEAN, record : Contents]
    BY <1>1, <1>3, SyncedRecords, QueueFields DEF SyncWorks, TypeOK
  <2>2. saving' \in Saving /\ saving'.at = "record"
    BY <1>3 DEF TypeOK, Saving
  <2>3. TypeOK'
    BY <1>3, <2>1, <2>2 DEF SaveMarker, TypeOK, Commissioned
  <2>4. UsedIsMarked' /\ NothingOlder'
    BY <2>1, ContentsDiffer DEF SaveMarker, UsedIsMarked, NothingOlder, NotOlder
  <2>5. SavesProfiles' /\ HeldIsNotEmpty'
    BY <1>3, <2>1, <2>2 DEF SaveMarker, SavesProfiles, HeldIsNotEmpty, Running, Commissioned
  <2>6. QED
    BY <2>3, <2>4, <2>5
<1>4. QED
  BY <1>2, <1>3 DEF SaveMarker

LEMMA SaveRecordStep == ASSUME IInv, SaveRecord PROVE IInv'
<1> DEFINE pending == [queue EXCEPT !.record = target]
<1> USE DEF IInv
<1>1. /\ target \in Profiles /\ target \in Contents /\ marker /\ up
      /\ pending \in [marker : BOOLEAN, record : Contents]
      /\ pending.record = target /\ target # None
  BY QueueFields, ContentsDiffer DEF SaveRecord, SavesProfiles, Commissioned, TypeOK
<1>2. CASE SyncFails(pending) /\ UNCHANGED used
  <2>1. used = None \/ pending.record \notin Profiles \/ pending.record.index >= used.index
    BY <1>1 DEF NothingOlder, NotOlder
  <2>2. saveDue' \in BOOLEAN /\ UNCHANGED <<up, target, used>>
    BY <1>2 DEF SaveRecord, TypeOK
  <2>3. QED
    BY ONLY IInv, <1>1, <1>2, <2>1, <2>2, FaultKeepsPromise
<1>3. CASE /\ SyncWorks(pending)
           /\ ready' = TRUE
           /\ saving' = Idle
           /\ used' = IF saving.for = "sending" \/ used = None THEN target ELSE used
           /\ UNCHANGED fault
  <2>1. /\ legacy' = legacy /\ marker' = TRUE /\ record' = target
        /\ queue' = NoQueue /\ queue' \in [marker : BOOLEAN, record : Contents]
    BY <1>1, <1>3, QueueFields DEF SyncWorks, TypeOK
  <2>2. target' = target /\ up' = up /\ saveDue' = saveDue
    BY DEF SaveRecord
  <2>3. used' \in Profiles /\ target.index >= used'.index /\ used' # None
    BY <1>1, <1>3, ContentsDiffer DEF TypeOK, NothingOlder, NotOlder
  <2>4. TypeOK'
    BY <1>1, <1>3, <2>1, <2>2, <2>3 DEF TypeOK, Saving, Idle, Commissioned
  <2>5. UsedIsMarked' /\ NothingOlder'
    BY <1>1, <2>1, <2>2, <2>3, ContentsDiffer DEF UsedIsMarked, NothingOlder, NotOlder
  <2>6. SavesProfiles' /\ HeldIsNotEmpty'
    BY <1>1, <1>3, <2>2 DEF SavesProfiles, HeldIsNotEmpty, Idle
  <2>7. QED
    BY <2>4, <2>5, <2>6
<1>4. QED
  BY <1>2, <1>3 DEF SaveRecord

\* A handler that saves a profile no older than the one in memory.
LEMMA PersistStep ==
  ASSUME IInv, up, NEW i \in 0 .. MaxIndex, NEW purpose \in {"keeping", "sending"},
         Persist(Profile(i), purpose), UNCHANGED <<storageVars, up, ready, fault>>,
         saveDue' \in BOOLEAN, used' \in {used, None},
         used' = None \/ i >= used.index
  PROVE  IInv'
<1> USE DEF IInv
<1>1. /\ target' = Profile(i) /\ target' \in Profiles /\ target'.index = i
      /\ saving' = [at |-> "marker", for |-> purpose]
  BY ContentsDiffer DEF Persist
<1>2. TypeOK'
  BY <1>1 DEF TypeOK, storageVars, Saving, Contents, Commissioned
<1>3. UsedIsMarked' /\ NothingOlder'
  BY <1>1 DEF UsedIsMarked, NothingOlder, NotOlder, storageVars
<1>4. SavesProfiles' /\ HeldIsNotEmpty'
  BY <1>1 DEF SavesProfiles, HeldIsNotEmpty, Running, Commissioned
<1>5. QED
  BY <1>2, <1>3, <1>4

\* A profile in memory has an index, and the newest one that was used is not newer.
LEMMA TargetIndex ==
  ASSUME IInv, Commissioned
  PROVE  /\ target.index \in 0 .. MaxIndex /\ target = Profile(target.index)
         /\ used = None \/ (used.index \in 0 .. MaxIndex /\ target.index >= used.index)
BY ContentsDiffer DEF IInv, Commissioned, TypeOK, NothingOlder, NotOlder

LEMMA HandlerStep ==
  ASSUME IInv, NEW i \in 0 .. MaxIndex,
         Configure(i) \/ Reconfigure(i) \/ Observe(i) \/ CommitTransmit
  PROVE  IInv'
<1>1. up /\ saveDue \in BOOLEAN /\ (ready => Commissioned)
  BY DEF IInv, TypeOK, Configure, Reconfigure, Observe, CommitTransmit, Running
<1>2. CASE Configure(i)
  BY <1>1, <1>2, PersistStep DEF Configure
<1>3. CASE Reconfigure(i)
  <2>1. used = None \/ i >= used.index
    BY <1>1, <1>3, TargetIndex DEF Reconfigure
  <2>2. QED
    BY <1>1, <1>3, <2>1, PersistStep DEF Reconfigure
<1>4. CASE CommitTransmit
  <2>1. /\ target.index + 1 \in 0 .. MaxIndex
        /\ used = None \/ target.index + 1 >= used.index
    BY <1>1, <1>4, TargetIndex, StorageAssumption DEF CommitTransmit
  <2>2. QED
    BY <1>1, <1>4, <2>1, PersistStep DEF CommitTransmit
<1>5. CASE Observe(i)
  <2>1. target' = Profile(i) /\ target' \in Profiles /\ target'.index = i
    BY <1>5, ContentsDiffer DEF Observe
  <2>2. used = None \/ i >= used.index
    BY <1>1, <1>5, TargetIndex DEF Observe
  <2>3. TypeOK'
    BY <1>5, <2>1 DEF Observe, IInv, TypeOK, storageVars, Contents, Commissioned
  <2>4. UsedIsMarked' /\ NothingOlder'
    BY <1>5, <2>1, <2>2 DEF Observe, IInv, UsedIsMarked, NothingOlder, NotOlder, storageVars
  <2>5. SavesProfiles' /\ HeldIsNotEmpty'
    BY <1>5, <2>1 DEF Observe, IInv, SavesProfiles, HeldIsNotEmpty, Running, Commissioned,
       storageVars
  <2>6. QED
    BY <2>3, <2>4, <2>5 DEF IInv
<1>6. QED
  BY <1>2, <1>3, <1>4, <1>5

LEMMA SaveCounterStep == ASSUME IInv, SaveCounter PROVE IInv'
<1>1. up /\ saving.at = "idle" /\ saveDue' = FALSE
  BY DEF SaveCounter, Running
<1>2. CASE Commissioned
  BY <1>1, <1>2, TargetIndex, PersistStep DEF SaveCounter
<1>3. CASE ~Commissioned
  <2>1. ~ready /\ ready' = FALSE /\ UNCHANGED <<storageVars, up, target, fault, saving, used>>
    BY <1>3 DEF SaveCounter, IInv, TypeOK
  <2>2. QED
    BY <1>1, <2>1 DEF IInv, TypeOK, UsedIsMarked, NothingOlder, NotOlder, SavesProfiles,
       HeldIsNotEmpty, Running, Commissioned, storageVars
<1>4. QED
  BY <1>2, <1>3

LEMMA RemoveStep == ASSUME IInv, Remove PROVE IInv'
<1> DEFINE pending == [queue EXCEPT !.record = Deleted]
<1> USE DEF IInv
<1>1. /\ Deleted \in Contents /\ Deleted \notin Profiles /\ Deleted # None
      /\ pending \in [marker : BOOLEAN, record : Contents] /\ pending.record = Deleted
  BY QueueFields, ContentsDiffer DEF Contents
<1>2. CASE SyncFails(pending) /\ UNCHANGED <<target, used>>
  <2>1. saveDue' \in BOOLEAN /\ UNCHANGED <<up, target, used>>
    BY <1>2 DEF Remove, TypeOK
  <2>2. QED
    BY ONLY IInv, <1>1, <1>2, <2>1, FaultKeepsPromise
<1>3. CASE /\ SyncWorks(pending)
           /\ ready' = FALSE /\ fault' = FALSE
           /\ target' = Deleted
           /\ used' = None
           /\ UNCHANGED saving
  <2>1. /\ legacy' = legacy /\ marker' \in BOOLEAN /\ record' \in Contents \cup {Garbled}
        /\ queue' \in [marker : BOOLEAN, record : Contents]
    BY <1>1, <1>3, SyncedRecords
  <2>2. saving.at = "idle" /\ saveDue' = saveDue /\ up' = up
    BY DEF Remove, Running
  <2>3. TypeOK'
    BY <1>1, <1>3, <2>1, <2>2 DEF TypeOK
  <2>4. UsedIsMarked' /\ NothingOlder' /\ SavesProfiles' /\ HeldIsNotEmpty'
    BY <1>3, <2>2 DEF UsedIsMarked, NothingOlder, NotOlder, SavesProfiles, HeldIsNotEmpty
  <2>5. QED
    BY <2>3, <2>4
<1>4. QED
  BY <1>2, <1>3 DEF Remove

LEMMA FlushStep == ASSUME IInv, Flush PROVE IInv'
<1> USE DEF IInv
<1>1. /\ queue \in [marker : BOOLEAN, record : Contents] /\ SyncWorks(queue)
      /\ UNCHANGED <<up, target, ready, fault, saving, saveDue, used>>
  BY DEF Flush, TypeOK, panelVars
<1>2. /\ legacy' = legacy /\ marker' \in BOOLEAN /\ (marker => marker')
      /\ record' = record \/ (queue.record # None /\ record' = queue.record)
      /\ record' \in Contents \cup {Garbled}
      /\ queue' = NoQueue /\ queue' \in [marker : BOOLEAN, record : Contents]
  BY <1>1, SyncedRecords, QueueFields DEF SyncWorks
<1>3. TypeOK'
  BY <1>1, <1>2 DEF TypeOK, Commissioned
<1>4. UsedIsMarked' /\ NothingOlder'
  BY <1>1, <1>2, ContentsDiffer DEF UsedIsMarked, NothingOlder, NotOlder
<1>5. SavesProfiles' /\ HeldIsNotEmpty'
  BY <1>1, <1>2 DEF SavesProfiles, HeldIsNotEmpty, Running, Commissioned
<1>6. QED
  BY <1>3, <1>4, <1>5

LEMMA DeviceStep == ASSUME IInv, PowerCut \/ Garble PROVE IInv'
<1> USE DEF IInv
<1>1. CASE PowerCut
  <2>1. TypeOK'
    BY <1>1, QueueFields, ContentsDiffer
    DEF PowerCut, TypeOK, Contents, Saving, Idle, Commissioned
  <2>2. UsedIsMarked' /\ NothingOlder' /\ SavesProfiles' /\ HeldIsNotEmpty'
    BY <1>1, ContentsDiffer DEF PowerCut, UsedIsMarked, NothingOlder, NotOlder, SavesProfiles,
       HeldIsNotEmpty, Running, Idle
  <2>3. QED
    BY <2>1, <2>2
<1>2. CASE Garble
  <2>1. TypeOK'
    BY <1>2 DEF Garble, TypeOK, panelVars, Commissioned
  <2>2. UsedIsMarked' /\ NothingOlder'
    BY <1>2, ContentsDiffer DEF Garble, UsedIsMarked, NothingOlder, NotOlder, panelVars
  <2>3. SavesProfiles' /\ HeldIsNotEmpty'
    BY <1>2 DEF Garble, SavesProfiles, HeldIsNotEmpty, Running, Commissioned, panelVars
  <2>4. QED
    BY <2>1, <2>2, <2>3
<1>3. QED
  BY <1>1, <1>2

LEMMA NextIInv == ASSUME IInv, [Next]_vars PROVE IInv'
<1>1. CASE Next
  <2>1. 0 \in 0 .. MaxIndex
    BY StorageAssumption
  <2>2. QED
    BY <1>1, <2>1, SetupStep, SaveMarkerStep, SaveRecordStep, HandlerStep, SaveCounterStep,
       RemoveStep, FlushStep, DeviceStep DEF Next
<1>2. CASE UNCHANGED vars
  BY <1>2 DEF vars, storageVars, panelVars, IInv, TypeOK, UsedIsMarked, NothingOlder, NotOlder,
     SavesProfiles, HeldIsNotEmpty, Running, Commissioned
<1>3. QED
  BY <1>1, <1>2

LEMMA InvariantHolds == Spec => []IInv
<1>1. Init => IInv
  BY InitIInv
<1>2. IInv /\ [Next]_vars => IInv'
  BY NextIInv
<1>3. QED
  BY <1>1, <1>2, PTL DEF Spec

-----------------------------------------------------------------------------
\* The two records, the queue and the panel keep their types, and a panel that is ready
\* has a valid profile (learned_panel.cpp:138-153).
THEOREM StorageTypesHold == Spec => []TypeOK
<1>1. IInv => TypeOK
  BY DEF IInv
<1>2. QED
  BY <1>1, InvariantHolds, PTL

\* Through any power cuts, failing saves and unreadable records, a ready panel continues
\* after the newest index it has used (learned_panel.cpp:31-39, 138-153).
THEOREM PanelNeverFallsBack == Spec => []NeverFallsBack
<1>1. IInv => NeverFallsBack
  BY DEF IInv, NothingOlder, NotOlder, NeverFallsBack, TypeOK, Commissioned
<1>2. QED
  BY <1>1, InvariantHolds, PTL

\* A slot that holds a panel is ready, faulted, or was freed by a tombstone
\* (learned_panel.cpp:23-40).
THEOREM HeldSlotIsNotEmpty == Spec => []HeldIsNotEmpty
<1>1. IInv => HeldIsNotEmpty
  BY DEF IInv
<1>2. QED
  BY <1>1, InvariantHolds, PTL

=============================================================================
