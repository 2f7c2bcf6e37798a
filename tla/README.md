# Norman RF bridge: a formal model

TLA+ modules for the firmware in `src/esphome/components/norman_rf_monitor/`,
the protocol library in `src/protocol/`, the actions of
`src/esphome/norman-rf-bridge.yaml` and the bench tools in `src/scripts/`, TLC
configurations that explore
small instances, and proofs that TLAPS accepts for every instance. The code is
the reference: each definition is a translation of the lines that
`PROJECT.json` ("map") gives for it, and a comment says where it abstracts.

Contents: 1 the system, 2 its parts, 3 the modules, 4 how the model corresponds
to the code, 5 what is checked, 6 bounds, 7 fairness, 8 what is proved, 9 slips,
10 disagreements with the documents, 11 what is not modelled, 12 the plan.

## 1. The system

An ESP32 with one nRF24-style radio stands between Home Assistant and Norman
roller shades. Shades obey thirty-byte frames that carry a controller/target
identity (the *family*), an *action* and a rolling *index*; a shade ignores an
index that is not ahead of the last. The bridge

* **learns** a panel from its own remote: templates of up to three endpoints and
  the last index (`LearnedPanel`, `LearningSession`);
* **commands** one to eight learned panels. It takes the next index of each,
  saves it, and sends a burst of copies, panel after panel (`transmit_targets`,
  `target_batch.h`);
* **repeats** the last command at most twice within a minute, by itself or on
  request (`CommandRepeat`);
* **relays** frames of known remotes, on the next channel, once (`RelayCache`,
  `handle_valid_frame_`), while the owner has turned relaying on and no fault
  has latched.

There is no acknowledgement from a shade. Everything runs on ESPHome's one
cooperative loop: API calls, `on_boot`, the intervals `poll_radio`,
`bounded_tx` (55 ms) and `automatic_repeat` (200 ms), and one-shot timeouts
(`save_counter`, 1 s). A handler is never interrupted, so what interleaves is
the order of handlers; what fails is the radio, the preference storage and the
power.

```
  Home Assistant --API--> YAML actions --> NormanRfMonitor <-- intervals, timeouts
      (waits, polls)                         |  |  |  |
                     LearningSession <-------+  |  |  +--> radio (registers, FIFO)
                     CommandRepeat  <-----------+  |
                     RelayCache     <--------------+--> LearnedPanel[32],
                                                       LearnedRelayEndpoint[32] --> preferences
                     BleScanPause --> Bluetooth scanner (asynchronous)
```

Beside the bridge there are two more systems. A *build* patches one header of
ESPHome's Bluetooth tracker in its own copy, and a contract test runs that
tracker's loop against fakes. *Bench tools* on a host record what the bridge
logs, what a board says on its UART and what an SDR hears: each writes one new
file, over a connection that may fail, and may be interrupted at any point.

## 2. Components

| Component | State | Operations | What must be true of it |
|---|---|---|---|
| Radio owner (`norman_rf_monitor.cpp/.h`) | `radio_ready_`, the `tx_*` fields, the pause after a burst, relay policy and its two records, fault latch, command sequence/result/success | boot, transmit, repeat, relay, tick, set_relay, learning and configuration requests, save timeout | one burst at a time; no burst while learning; relaying fails closed and needs consent; results belong to the right burst; every burst ends |
| Repeat budget (`command_repeat.h`) | frames, indices, remaining, completed, two stamps | remember, complete, observe, take, take_due, clear | a repeat is the newest completed command, unchanged, twice at most, in time |
| Burst schedule (`target_batch.h`) | none (arithmetic on tick counts) | total, target of a tick, copy or gap; guard | each target all its copies in order; the guard exceeds the schedule |
| Protocol (`protocol.cpp`) | none | validity, families, next command, half-range comparison | wrap-around; a frame matches one family |
| Relay cache (`RelayCache`) | 64 entries with stamps, on a 32-bit clock | admit | no echo is relayed; a live entry is never evicted |
| Learned panels (`learned_panel.cpp`) | profile, readiness, marker and record | setup, configure, commit_transmit, observe, persist, remove | an index on air is in storage; an interrupted save is a fault, never an empty slot |
| Relay endpoints (`learned_relay_endpoint.cpp`) | one receive-only template, readiness | setup, configure, remove | as for panels |
| Matching (`received_command.h`) | none | match | a frame accepted by two owners authorises nothing |
| Learning session (`learning_session.h`, `learning_api.cpp`) | target, presses seen, candidate, deadline | begin, capture, observe, accept, cancel, commit | only two consistent presses make a candidate; a repeated commit takes no second slot |
| Bluetooth scan pause (`ble_scan_pause.h`, `update_ble_scan_pause_`) | who owns the pause; the tracker's policy, state and change counter | update from the loop, at the ends of a burst, from the switch and at shutdown | the scanner is given back by whoever took it, and scans again |
| Tracker patch and contract (`ble_tracker_compat.py`, `__init__.py`, `test-ble-tracker-runtime.py`) | the build's copy of ESPHome, the image, the verdict | generate, patch, compile, run the contract | an image with the pause comes from the pinned, patched header only |
| Home Assistant actions (`norman-rf-bridge.yaml`), `bridge-control.py` | one waiter per call | send, wait, report | the caller is told of its own command |
| Recorders (`bridge-log.py`, `serial-capture.py`, `esphome-rf-test.py`) | a new file, counts, a connection | open, append, stop at a limit, report | no file is replaced, the report is what the file holds |
| SDR tools (`pluto-capture.py`, `pluto-console.py`) | a new file, a child process, the device's files, a lossy console | capture, transfer, verify | what is reported is as recorded, and of a capture whole |
| IQ decoder (`decode-iq.py`) | found frames | decode in overlapping blocks | each frame once, in order |
| Diagnostics, stage-0 image, provisioning | - | - | no control of their own |

Hard behaviour, in order of what it can break: a repeat outliving its authority
(time, a remote press, a reconfiguration, a restart); the two-record relay
policy under failing saves; counters and power cuts, in particular half a batch;
bursts of four kinds ending through one function; saves that run a second after
what they save; a radio that stays silent; wrap-around of indices and of the
clock; attribution of frames left in the FIFO to a channel; a scan policy that is
given back while the scanner is between two states; an answer that waits for
one burst and reads the result of another; a capture that outlives the host
that asked for it. The full list, with
lines, is "hazards" in `PROJECT.json`.

## 3. Modules

| Module | What it is |
|---|---|
| `NormanProtocol` | frames as (family, action, index); `NextCommand`, `IsNewer` |
| `BurstSchedule` | `SequentialTotalTicks`, copy and gap ticks, `TxDeadline` |
| `CommandRepeat` | the repeat budget: `Remember`, `Completed`, `Observe`, `Take`, `Due`, `Aged` |
| `RadioOwner` | the state machine that composes them with policy, panels and storage; its properties |
| `MCRadioOwner` | names and frames for TLC |
| `SessionPromise` | what a learning session promises: one client, and nothing to commit but a complete set of endpoints of one target |
| `LearningSession` | the session itself, capture by capture, with time; implements `SessionPromise` |
| `Commissioning` | the table of profiles over `SessionPromise`: learning's commit, the configuration calls, removal, late saves, restarts |
| `RelayCache` | the cache of exact frames on a clock that wraps: `Admitted`, `Duplicate`, `Full` |
| `RelayPath` | the way of a frame: FIFO, polls, channel hopping, retunes, the relay decision over `RelayCache`, bursts in between |
| `PanelStorage` | one slot's marker and profile in flash: every write of a save, power cuts, failing syncs, worn flash, the import of an old profile |
| `CommandActions` | the Home Assistant actions that move a shutter, over `RadioOwner`, and their clients |
| `BleTracker` | ESPHome's tracker as the contract declares it, both policy setters, the eight scenarios |
| `TrackerBuild` | the builds that produce an image, and the contract run; over `BleTracker` |
| `BleScanPause` | the guard in the flashed image against tracker, Bluetooth stack and other users; over `TrackerBuild` |
| `Recordings` | what every recording tool promises of its file |
| `Bench` | what the tools share: one file, one connection, an interruptible run; implements `Recordings` |
| `LogTools`, `PlutoCapture`, `PlutoConsole`, `IqDecoder` | the tools, one family each, over `Bench` |
| `BenchTools` | any of them, again and again |
| `MCLearningSession`, `MCCommissioning`, `MCRelayPath`, `MCPanelStorage`, `MCCommandActions`, `MCBleScanPause`, `MCBenchTools` | names, frames, symmetries and views for TLC |
| `RadioOwnerProofs` | types; silence while learning, relaying, the fault latch, results; budget, durability, authority of repeats |
| `CommandActionsProofs` | the actions implement `RadioOwner`; types of the calls; no false answer |
| `LearningSessionProofs` | endpoints of one target; the session implements its promise; a capture never guesses |
| `CommissioningProofs` | durability, faults, one record per session, disjoint claims |
| `RelayPathProofs` | types; once per window; own frames stay; no frame is swallowed; a hop leaves nothing in the FIFO, or has latched the fault |
| `PanelStorageProofs` | types; no older profile; no empty slot |
| `BleScanPauseProofs` | images are pinned; types; the pause is not forgotten; the contract is kept |
| `BenchToolsProofs` | the tools implement `Recordings`; complete reports; each frame once |

Each configuration is named after its module, with a suffix for what it adds.

How they fit: `RadioOwner` is the firmware's one owner of the radio and takes
the session, the table and the cache as sources of any legal event;
`LearningSession` is refined away behind `SessionPromise`, over which
`Commissioning` is written; `RelayPath` opens up what `RadioOwner` leaves free,
the channel and the cache's answer; `PanelStorage` opens up the one save that
both tables of panels take as a step; `CommandActions` composes `RadioOwner`
with its callers. `BleScanPause` is about the same bursts and knows only when
one begins and ends. The tools touch the bridge through the API alone.

## 4. Correspondence

State of `RadioOwner`:

| Variable | Code |
|---|---|
| `radioReady` | `radio_ready_` |
| `ready`, `index` | `LearnedPanel::ready()`, `last_index()`; `NoRecord` = no valid target |
| `stored` | what the panel's preference would load (`NoRecord`: nothing, or a tombstone) |
| `saveDue` | pending `save_counter_<slot>` timeouts |
| `tx` | `tx_active_`, `tx_repeat_`, `tx_relay_`, the frames of the schedule, `tx_remaining_`, time since `tx_started_` |
| `cooldown` | time until `can_transmit_` accepts again after `tx_finished_` |
| `learning` | `learning_.active()` |
| `budget` | `command_repeat_`; the stamps are ages |
| `commandSequence` ... `commandSuccess` | `command_sequence_`, `completed_sequence_`, `command_result_`, `command_success_` |
| `relayRequested`, `policyReady`, `relayFault` | `relay_requested_`, `relay_policy_ready_`, `relay_fault_` |
| `storedPolicy` | marker and policy record: neither, marker only, off, on |
| `latest`, `airing`, `ended`, `consent` | history, not in the code: what the properties compare the records with |

Actions: `TransmitTargets`, `ReservationFails`, `RejectCommand` are the three
ends of `transmit_targets` (and `transmit_target`, a batch of one);
`RepeatTargets` and `RepeatIfDue` are `repeat_targets` and `repeat_if_due_`,
each with the refusals that drop the budget; `SendCopy` is `send_test_copy_`
with `finish_test_` (`FinishBurst`); `ReceiveFrame` is one valid frame of
`poll_radio_` and all of `handle_valid_frame_` that matters here; `SaveCounter`
the timeout; `SetRelay` with `PersistPolicy` is `set_relay` with
`persist_relay_`; `LearningBegin`, `LearningEnd`, `LearningCommit`,
`ConfigurePanel`, `RemovePanel`, `RefuseConfiguration` are the API requests;
`Reboot` is a power cycle followed by `setup()`, at any point; `Tick` is time.

Abstractions, and what they may hide:

* *Time.* One unit per `Tick`; an age stops at the limit it is compared with.
  A 32-bit clock that wraps is therefore outside this module; `RelayCache` has one.
* *Relay cache.* Any answer: not relayed, relayed, or full (which latches the
  fault). Everything proved holds for whatever the cache does.
* *Channel.* `forwardable` is chosen freely for each frame. Any attribution of
  a frame to a channel is covered, and no property here is about channels.
* *Storage of a panel.* The marker-first save (`PanelStorage`) is one save that
  succeeds, or faults the panel with the record old or new. A slot whose very first save was
  cut short loads as faulted in the code and as empty here: the model lets an
  empty slot do more.
* *Copies.* A copy changes nothing but the schedule; that a copy fails is a
  choice at each copy tick, and the end of the schedule ends the burst in the
  same step, as in the code.
* *Manual repeat of something else.* `repeat_targets` for a selection that is
  not the remembered one changes no state and is left out.

`LearningSession` has the fields of `learning_session.h` under their names
without the underscore; `frames` and `lastIndex` are the accepted endpoints,
`candidates` maps a command to its evidence, `age` and `captureAge` are
differences to `started_` and `capture_started_`. `Begin`, `Capture`, `Hear`,
`Accept`, `Cancel`, `CommitSession` are its methods as `learning_api.cpp` and
`handle_valid_frame_` call them; `SessionTick` is time, and ends a session where
the code ends it at the next question. `presses` is history.

`Commissioning`: a slot is `ready_`, `storage_fault_` and the commands it
accepts; `store` is the slot's marker and record; `saveDue` the pending
`save_counter` timeouts. `Commit` is the commit request, `ConfigureTarget`,
`ConfigureEndpoint`, `ConfigureRelay`, `SaveAgain` (rename, and reserving a
counter), `Remove` the other requests, `HearPanel` and `SaveCounter` the late
save, `Restart` a power cycle at any point. A save is one step with its three
ends (`Save`): works, fails with nothing written, fails with the marker or the
record written. `suspect` and `written` are history.

`RelayPath`: `channel` is `channel_index_`, `fifo` the radio's receive FIFO, each
frame with the channel it was really heard on (which the code does not know).
`poll_radio_` and `hop_channel_` are taken one read at a time, since the radio
goes on receiving between two reads; `loop` says which handler is under way, and no
other handler runs meanwhile. `listening` is CE while the radio is a receiver: a hop
takes it low before its poll and high again after its retune, but a frame of that
poll that finds the cache full goes through `select_receive_channel_`, which ends
with CE high, so that the rest of the hop, its retune included, runs with the
receiver on. `Relay` is `handle_valid_frame_` from the channel on.
`TransmitCommand`, `StartRepeat`, `PreemptRepeat`, `FinishBurst`, `SetRelay`,
`PersistFailed` are the handlers that admit frames of the bridge's own or retune.
Where a burst ends CE is high for a moment on the old channel before the receiver is
tuned (`finish_test_`, `preempt_repeat_`); one frame may be heard in it
(`ReceivedOrNot`). `relayed` and `sent` are history. What may be sent at all is
`RadioOwner`'s business; here any frame may be.

`PanelStorage`: `target`, `ready`, `fault` are the fields of `LearnedPanel`;
`marker` and `record` are what flash holds, `queue` what is saved and not synced
(ESPHome writes it by itself now and then, `Flush`). `persist()` is two steps,
`SaveMarker` and `SaveRecord`, with `saving` between them; no other handler runs
there, but the power may fail. A sync that fails has written any part of the
queue. `Reconfigure` is `rename`, `configure_endpoint` and `set_relay`,
`CommitTransmit` reserves a counter. `used` is history: the newest index that was
sent. Indices do not wrap here; that two of them compare by their distance is
`NormanProtocol`'s. `LearnedRelayEndpoint` has a marker and a record as well, and no
counter to save later; its saves are those of `Commissioning`.

`CommandActions`: a call is the action, the sequence number of its command, how
long it has waited and its answer. `CallCommand` and `CallRepeat` are the
condition of an action's `if` when it is true; `CallAnsweredAtOnce` every other
way through an action; `Respond` is what follows `wait_until`. `Pass` is `Tick`
where ESPHome's loop lets time pass: it looks at a waiter, and runs `bounded_tx`,
on every pass. `bridge-control.py` is `Callers`: one call, one answer or none.

`BleTracker`: a tracker is a record; `Loop` is one pass of its loop, `changes` is
`state_version_` less `last_processed_version_`. In `TrackerBuild` a header is one
of four kinds instead of its SHA-256; writing it is two steps, since the write
truncates. `BleScanPause` takes an image and runs `update_ble_scan_pause_` where
the code does: every loop, at both ends of a burst, from the switch and on
shutdown. A state of the scanner changes only when the stack says so.

Bench tools: `pc` is where a tool is, `dest` its file, `report` what it prints in
the end; `with` and `finally` are `Fail` and `Leave`. The writers of a file are who
holds it open: the tool, a child that was given it, or both. A line is its length, a
sample its number (0: damaged), a transmission where it starts and the sample
phases at which it decodes. `DecodeBlocks` is what the loop over the blocks finds, in
any order, and `Compare` one turn of the loop that goes through it by sample; the
code's `abs()` is dropped there, because nothing reported lies behind.

The child of `pluto-capture.py` and the device of `pluto-console.py` have actions of
their own and go on while the host is elsewhere. The child is killed only from
"waiting": where Ctrl-C or a lost output strikes between `Popen()` and `try`
("announcing", lines 45-51), or Ctrl-C strikes again before `kill()` ("killing"), the
tool leaves and the child stays, and goes on writing while later runs are refused its
name. A run for another name leaves the old file, and the child with it, out of the
model's sight. The device keeps a job's exit code and nothing
of its length (`JobEnds`), so a short capture with exit code 0 exists; Ctrl-C of the
next run may stop a job with any code or with none. The device is power-cycled
between two runs only: what the tool sees of that during a run is an answer that does not
come, which it meets anyway. In both tools a file that could not be completed stays
behind, partial and unreported, and its name is refused the next time.

## 5. What is checked

| Run | Distinct states | Shows |
|---|---|---|
| `radio_owner` | 307 k | one panel with two endpoints and one foreign relay endpoint: every order of commands, repeats, relays, presses of the remote, learning, policy changes, failed saves and restarts keeps the safety properties |
| `radio_owner_batch` | 728 k | two panels: batches reserved in part, counters saved before air, schedules with a gap, repeats that must find *every* panel unmoved |
| `radio_owner_liveness` | 95 k | bursts end, commands are answered, budgets are spent |
| `radio_owner_preempt` | counterexample | section 10 |
| `learning_session` | 649 k | two remotes in range, captures that run out of candidates and of codes, restarted and cancelled anywhere; endpoints of one target, refinement of `SessionPromise`; sessions end |
| `commissioning` | 622 k | two panel slots and one relay slot, every way in and out, failing saves, restarts |
| `relay_path` | 2.1 M | three frames, two cache entries, a FIFO of two, a clock that wraps, hops that go on with the receiver off or, after a full cache, on |
| `relay_path_attribution` | counterexample | section 10 |
| `panel_storage` | 4 k | one slot, with an old profile to import or without, under every handler that saves |
| `command_actions` | 1.5 M | two clients, two panels: targets, batches, repeats that overlap, preempt and outlast a wait |
| `ble_scan_pause` | 22 k | builds over upgraded, stale and half-patched sources; then the flashed image against everything else that uses the scanner |
| `bench_tools` | 382 k | six tools, run again and again, interrupted anywhere, with a child that may outlive its tool, a device and a channel that fail |

Properties (each is stated in words beside its definition in `RadioOwner`):

* `TypeOK`: types; a ready panel has an index.
* `LearningIsSilent`: no burst and no pending repeat while learning.
* `RelayFailsClosed`: a relay burst is only ever on air with a trusted policy
  that is on, no latched fault and no learning session, to its last copy.
* `RelayOnlyWithConsent`: once "off" was acknowledged, no failed save, no
  half-written pair of records and no restart brings relaying back.
* `ResultOfLastCommand`: sequence, completed sequence and result describe the
  newest command's own burst although repeats and relays finish later through
  the same function.
* `SuccessIsCurrent`: `command_success_` is never that of an older burst.
* `BudgetIsBounded`, `RepeatsAreAuthorised`: a repeat is the newest command,
  completed, unchanged, twice at most, within the window that started with the
  command, with no counter moved and no conflicting press, request or
  configuration since. `latest` follows the command independently of the
  budget: it keeps an age and a count of its own and forgets the command on
  every event that should end its authority.
* `DurableBeforeAir`: each index the bridge itself has on air is in storage, in
  every state, so also when the power is cut there.
* `FaultNeedsRearming`: the latch is released only by an acknowledged "off" or
  a restart.
* `EveryBurstEnds`, `EveryCommandIsAnswered`, `BudgetIsSpent`: liveness.

of a learning session:

* `NeverAGuess`: what is accepted was pressed twice, far enough apart and with
  different codes; no other action of its target was heard, and nothing else was
  pressed twice; also when the capture has run out of room.
* `IndexOfTarget`: the index learned with an endpoint is one its own remote sent
  in this capture, also when Open is learned again from another remote.
* `OneTarget`, `KeepsPromise`: endpoints are different actions of one target; the
  session is a `SessionPromise`.
* `SessionEnds`: an open session, which silences the radio, ends although
  captures are begun for ever.

of the table:

* `EverySlotIsDurable`: a restart finds ready slots as they are and empty slots
  empty, so nothing removed or refused comes back.
* `NothingOverwritesAFault`: a slot whose storage is in doubt keeps its profile.
  This depends on the order of things: a `save_counter` timeout makes a faulted
  slot ready again, and must find its own profile there.
* `OneRecordPerSession`: commits that fail and are repeated write one record.
* `NoAmbiguityWithoutFault`: two profiles never claim the same frame, unless the
  storage of one of them has failed before.

of the relay path:

* `OncePerWindow`, `OwnFramesStay`: a frame goes out once in a window and never
  after this bridge has sent and remembered it, on any channel, however the clock
  wraps and whichever entry is taken.
* `NothingIsSwallowed`: a copy heard in the pause does not use up the entry.
* `HopsDrain`: a hop retunes in standby and leaves nothing in the FIFO for the next
  channel; a hop that a full cache has switched on again may leave something, and then
  the fault is latched, so that none of it is relayed before the owner rearms.

of a slot's storage:

* `NeverFallsBack`: a ready panel continues after the newest index it has sent,
  whatever was cut, failed, written late or worn out since; in particular it never
  imports the old firmware's profile a second time.
* `HeldIsNotEmpty`: a slot that holds a panel is ready or faulted; only a tombstone
  empties it.

of the actions:

* `AnswersAreTrue`: "success" is only said of a command whose own burst went
  through, and for a single target the answer is final. A batch may outlast the
  8 s and is then answered with a failure although it may still succeed; a manual
  repeat that a newer command has ended is answered with that command's success
  (`command_success()` does not say whose it is). Both are left out of the
  property on purpose; the second contradicts a document (section 10).

of the scan pause and its build:

* `PauseIsReleased`: while the continuous policy is withdrawn, the guard owns the
  pause or somebody else stopped the scan.
* `ScannerNotStranded`: a bridge that has stopped sending scans again and again,
  with the patched setter; with ESPHome's own the counterexample is the stranded
  idle scanner that the contract's regression control reproduces.
* `ImageIsPinned`: an image with the pause was compiled from the pinned release and
  the patched header, also when a build was killed while writing it: the digest
  refuses half a header although it may define the macro.
* `ContractPasses`: on the pinned sources the eight scenarios pass with the
  replacement and fail with the original.

of the tools:

* `KeepsRecordings`: every tool implements `Recordings`: no file that exists is
  replaced, a file grows only while its tool, or a child that was given it, holds it
  open, and what is reported is what the file holds when neither does any more. It
  does not say that a child ends with its tool, which the code does not ensure.
* `ReportedIsComplete`, at the moment of the report: what is reported of a capture is as
  recorded, in order, although jobs are cut short by the next run's Ctrl-C, go on
  without their host, exit with any code, and the console loses and damages lines. A
  capture, and a capture with its download, has every sample that was asked for; a
  download by itself has all the samples that the device holds of a capture with exit
  code 0, which may be fewer.
* `FramesOnce`: every transmission that decodes at some phase is reported once, in
  order, at the borders of blocks too, where it is found twice, and at several
  samples each time.

No configuration switches deadlock checking off: `Tick` and the API calls are
always possible.

## 6. Bounds

| Constant | Program | Runs | Why enough |
|---|---|---|---|
| `IndexSpace` | 256 | 4 | smallest with an index ahead, one behind and one exactly opposite; two commands and a few presses wrap it |
| `Panels` | 8 | 1, 2 | 2: one panel of a batch fails or moves and the other does not |
| `Endpoints` | 8 | 1 | receive-only authority, distinct from a panel's |
| `Copies`, `RelayCopies` | 100, 20 | 1-2, 1 | a burst with a middle (2), a burst that ends at its first copy (1) |
| `TargetGapTicks` | 36 | 1 | copy ticks and gap ticks alternate in a batch |
| `TickTime`, `BurstGuard`, `GuardSlack` | 55, 6500, 2000 ms | 0-1, 0-1, 0 | the guard can fire before, at and after the end of the schedule |
| `CooldownTime` | 250 ms | 1 | a pause that is, and is not, over |
| `RepeatBudget` | 2 | 2 | the program's |
| `RepeatWindow`, `RepeatDelay` | 60 s, 2 s | 2-4, 1 | the window may close before, between and after the repeats |
| `MaxCommands` | - | 1-2 | bound on `commandSequence` per boot: the newest and the one before. Restarts are not bounded, so neither is the number of commands in a behaviour |
| `CandidateCapacity`, `SampleCapacity` | 8, 16 | 2-3, 2 | one more than fits is heard |
| `PressGap`, `CaptureTime`, `SessionTime` | 8 s, 60 s, 10 min | 1, 2-3, 3-4 | presses too close and far enough, a capture and a session that run out at different times |
| `PanelCount`, `RelayCount` | 32, 32 | 2, 1 | a duplicate in another slot of the same and of the other kind; a slot in doubt before a free one |
| `CacheCapacity`, `Frames` | 64, all | 2, 3 | the cache is full, and one frame more than it holds |
| `SuppressTime`, `ClockSpan` | 60 s, 2^32 ms | 2, 4 | an entry expires, and its age wraps |
| `FifoDepth`, `PollReads` | 3, 3 | 2, 2 | as many reads as entries (`PathAssumption` asks for no fewer); more than one of each |
| `MaxIndex`, `LegacyIndex` | -, any | 4, 1 | an old profile that is behind, equal to and ahead of what a capture starts with, and commands after either |
| `Callers`, `ActionWait` | any, 8 s | 2, 4 | a second call while one waits; a burst, its guard and its pause within one wait, a batch beyond it |
| `MaxChanges` | 256 (wraps) | 2 | the loop asks for zero or not |
| `Samples`, `MaxItems`, `MaxBytes`, `LineBytes` | any | 2, 3, 3, {1, 2} | a line that does not fit and a shorter one that then does; a sample lost, damaged and one that is not |
| `Block`, `Overlap`, `FrameSamples`, `SymbolSamples`, `Window`, `Lookback` | 10^6, 4096, 280 symbols, 2-8, 16, 10 | 8, 6, 5, 2, 3, 2 | in the order of the program's own values (`DecoderAssumption`); a frame inside, across and at the border of two blocks, in a file of three |

Two runs use a VIEW: `commissioning` leaves out the owner and the kind of a
session that is over, which no guard reads before `Begin` sets them again, and
`command_actions` storage, the relay policy and the history that only other
properties read. Neither influences what is kept. An action constraint of
`command_actions` has panels captured at index 0 and not configured again, which
`radio_owner` explores. Symmetry is used for safety runs only.

All frames a remote may send in `radio_owner`: its own learned endpoint at every
index, its endpoint that was never learned, and the foreign endpoint. The proofs
of section 8 assume none of these bounds.

## 7. Fairness

`FairSpec` adds weak fairness of `Tick`, `SendCopy` and `RepeatIfDue`, and of
nothing else. Time passes whatever the program does. `bounded_tx` and
`automatic_repeat` are `set_interval` callbacks, which run again and again as long as
the loop does. `bounded_tx` is set with each burst (`norman_rf_monitor.cpp:565`) and
cancelled only where that burst ends (654, 688), `automatic_repeat` is set in `setup()`
(40) and never cancelled. Each is enabled until it has run (a burst waits for its next
tick, an expired budget with automatic repeats on stays expired). No API call, no
reception and no timeout is assumed to happen. Neither does any property assume
that the radio works: a burst whose radio never answers still ends, by its
guard.

`FairSessionSpec` adds weak fairness of `SessionTick` only: time passes. Neither a
client nor a remote is expected to do anything.

`FairSpec` of `BleScanPause` adds weak fairness of the two loops (`MonitorLoop`,
`TrackerLoop`: ESPHome runs every component's loop for ever) and of `ScanStopped`
(a stop that was asked for is answered), and strong fairness of `ScanStarted`: a
start that may fail, and is tried for ever, succeeds at some time. Bursts,
clients, the switch and everything external are free; `ScannerNotStranded`
speaks only of behaviours in which they have come to rest.

`BudgetIsSpent` is about automatic repeats switched on. With them off an expired
budget may stay where it is (it is refused when asked for), which is what the
code does.

## 8. What is proved

For all constants that satisfy the assumptions `IndexSpaceAssumption`,
`ScheduleAssumption`, `RepeatAssumption` and `RadioAssumption` (finite panels,
natural numbers; no relation between the delays), and those named below:

| Theorem | Statement | Argument |
|---|---|---|
| **`RadioOwner`** | | |
| `TypeCorrect` | `Spec => []TypeOK` | `TypeInv` = `TypeOK` and the budget is one of `GoodBudgets` (nothing remaining means `NoBudget`); without this `Take` could not be shown to keep a budget a budget |
| `SilentWhileLearning` | `[]LearningIsSilent` | inductive with types; every start of a burst asks `~learning` |
| `RelayingFailsClosed` | `[]RelayFailsClosed` | inductive: neither policy nor latch may change under a burst |
| `RelayingNeedsConsent` | `[]RelayOnlyWithConsent` | needs `ConsentRecorded`: a trusted policy that is on, or a stored "on", implies consent. This is what a restart loads from |
| `ResultsAgree`, `SuccessStaysCurrent` | `[]ResultOfLastCommand`, `[]SuccessIsCurrent` | `ResultInv`: during the original burst `airing` is the newest command, and a repeat burst implies that the command had succeeded |
| `BudgetsAreBounded` | `[]BudgetIsBounded` | `BudgetInv` relates the budget's completion and age to the history's |
| `DurableOnAir` | `[]DurableBeforeAir` | `AirInv`: the budget's frames, too, are recorded (`Recorded`) or their panel has moved on; a repeat asks for the panel |
| `RepeatsHaveAuthority` | `RepeatsAreAuthorised` | an action property, from the invariants above |
| `LatchIsReleasedSafely` | `FaultNeedsRearming` | step by step over the actions |
| **`CommandActions`** | | |
| `ActionsImplementOwner` | `ActionSpec => Spec` | step by step: a call that is accepted is one of the owner's requests, a pass of the loop one of its timed steps, and a client's answer, or the end of its call, is a stutter. Every theorem above therefore holds under the actions and is used below |
| `CallsAreWellTyped` | `[]ActionTypeOK` | by actions; a call never waits longer than `ActionWait` |
| `AnswersAreAlwaysTrue` | `AnswersAreTrue` | `CallInv`: a caller that waits for a command of its own finds that command's burst on air (a single target's with an age equal to the caller's, and within its guard), or just over, in the pause that keeps any other burst from starting, with the success flag still that burst's. With `ActionAssumption` the guard of a single burst falls before its caller gives up |
| **`LearningSession`** | | |
| `SessionKeepsPromise` | `SessionSpec => KeepsPromise` | refinement with `learned <- Learned`: `Capture` and `Accept` are `Learn`, cancelling and expiry are `End`, the rest stutters. `PromiseInv` adds that a relay session has one endpoint at most |
| `EndpointsOfOneTarget` | `[]OneTarget` | `CaptureIsConsistent`: while capturing, exactly the endpoints before the current one are there, and the evidence is of Open's family |
| `CapturesNeverGuess`, `IndexIsOfTarget` | `NeverAGuess`, `IndexOfTarget` | `CaptureInv`: while nothing has gone wrong, the evidence is all that was pressed (`Justified`); an unqualified candidate's presses are all within one gap of its first (`TooSoon`) |
| `SessionStaysInBounds` | `[]SessionTypeOK` | with `SessionInv`, and that what is counted is finite (`CaptureFits`): a code or a candidate is added only where there is room for one more |
| **`Commissioning`** | | |
| `SlotsAreDurable`, `FaultsAreNotOverwritten` | `[]EverySlotIsDurable`, `NothingOverwritesAFault` | `TableInv`: a pending `save_counter` means that there was a record (`DueHaveRecords`); nearly every step is a `SaveStep` |
| `OneRecordIsWritten` | `[]OneRecordPerSession` | `WrittenInv`: after a failed commit the first slot a commit would take is in doubt (`Blocked`) and no pending timeout can clear that (`DueReady`) |
| `ClaimsAreDisjoint` | `[]NoAmbiguityWithoutFault` | `ClaimsInv`: what is not suspect is ready or empty, so a restart revives nothing unseen |
| `TableIsWellTyped` | `[]TypeOK` of `Commissioning` | `ProfilesAreWhole`: not only what is ready but whatever a slot still holds or has in storage is a whole profile, because a late `save_counter` or a restart makes it ready again |
| **`RelayPath`** | | |
| `PathTypeCorrect` | `Spec => []TypeOK` | by actions |
| `RelayedOncePerWindow`, `OwnFramesAreNotRelayed` | `OncePerWindow`, `OwnFramesStay` | `RememberInv`: what is inside its window is in the cache and no older there; admitting never evicts it (`AdmittedKeeps`), the clock cannot wrap within a window (`AgedRemembers`) |
| `NoFrameIsSwallowed` | `NothingIsSwallowed` | only a read changes the cache while the loop is not idle, admitting a frame makes no other a duplicate (`AdmittedMakesOne`), and the path that admits a frame starts its burst |
| `HopsLeaveNothing` | `HopsDrain` | `HopInv`: while a hop reads with the receiver off, the FIFO holds no more than the reads that are left, which needs `FifoDepth <= PollReads`, and nothing when it retunes; the receiver is on again only where the fault has been latched, which nothing in a hop releases |
| **`PanelStorage`** | | |
| `StorageTypesHold`, `PanelNeverFallsBack`, `HeldSlotIsNotEmpty` | `[]TypeOK`, `[]NeverFallsBack`, `[]HeldIsNotEmpty` of `PanelStorage` | the inductive invariant says what may still reach flash: whatever the record or the queue holds is no older than `used`, and a panel that was ever stored has its marker, written before its profile |
| **`BleScanPause`** | | |
| `PausedImagesArePinned` | `[]ImageIsPinned` | a build that has passed `patch_project` holds a patched header of the pinned release until it compiles, whatever its options were before |
| `PauseTypesHold`, `PauseIsNeverForgotten` | `[]TypeOK`, `[]PauseIsReleased` | inductive with types: each step of the guard, the tracker and the others either leaves the policy or moves who has withdrawn it |
| `ContractIsKept` | `ContractPasses` | the eight scenarios one after the other: a few passes of the tracker's loop are computed, with the replacement and with the original |
| **`BenchTools`** | | |
| `ToolsKeepRecordings` | `Spec => KeepsRecordings` | refinement of `Recordings` by `dest` and `report`. `BenchInv` says at which places the tool holds its file, at which a child of this run may hold it too, and at which neither does and the file is still the tool's (`PlaceInv`); that what `bridge-log.py` counted is what it wrote (`CountInv`); and that only a child that lives writes (`ChildInv`), so that a child seen to have ended has closed the file. Each report is then `Facts` of the file |
| `ReportsAreComplete` | `ReportedIsComplete` | an action property, also from `BenchInv`: what a child has written is the beginning of the recording (`ChildInv`), and its length is compared; on the device nothing changes between the check of the exit code and the report, and after a capture the size listed is the one asked for (`DeviceInv`); what passes both checks of a transfer is what the device has. Nothing is assumed of what an exit code says |
| `EveryFrameIsReportedOnce` | `[]FramesOnce` | `DecodeInv`: what is left to compare lies behind everything reported (`LeftInv`), two reports are of two transmissions, at least a window apart (`ReportedInv`). A second finding of a transmission is thus compared with the last report, so that the look back of ten always reaches it, and a new transmission never looks like the one before |

The assumptions, and why the code justifies them:

* `SessionAssumption`, `TableAssumption`, `StorageAssumption`, `LogAssumption`,
  `CaptureAssumption`: numbers are numbers.
* `CommandAssumption`: there are finitely many commands. Only `TableIsWellTyped`
  needs it.
* `CacheAssumption`: a suppression window is shorter than the clock (60 s, 2^32 ms).
* `PathAssumption`: a hop reads as often as the FIFO has entries. The radio has three
  and the code reads three times (`norman_rf_monitor.cpp:203`).
* `ActionAssumption`: the guard of a single burst falls within the wait of an action.
  One hundred copies take 5.5 s, the guard is at 7.5 s (`norman_rf_monitor.cpp:545`), the wait is 8 s; what the model adds to a guard is one unit of time.
* `DecoderAssumption`: a symbol is no longer than the window in which two findings are
  one (2 to 8 samples, 16), a frame is no shorter than both together (280 symbols), and the
  overlap of two blocks holds a frame (4096 samples; 2240 and a few at 8 Msps).

`BleScanPause` has no constants. Each property, and each inductive invariant that
is not a typing, was first model-checked in the runs. `*Proofs` modules only extend
the module they are about and the library; `CommandActionsProofs` also
`RadioOwnerProofs`, whose invariants it uses. Every safety invariant and every action
property that a passing run checks has a theorem.

Only model-checked: liveness (`EveryBurstEnds`, `EveryCommandIsAnswered`,
`BudgetIsSpent`, `SessionEnds`, `ScannerNotStranded`), since the prover has no rule
for fairness and `ENABLED`, and the two findings of section 10, which are
counterexamples. That the size of a file is the sum of its writes would be an
induction over a sequence; `Bytes` therefore counts the places of a file, of which a
write adds those of one item.

## 9. Slips

A definition marked `\* A slip:` is a deviation the code could easily have had.
No module uses it. Substituted for its original it must break the property
named here, which shows that the property notices it.

| Slip | Instead of | Breaks |
|---|---|---|
| `NextIndexUnwrapped` | `NextIndex` | `TypeOK` |
| `CanTransmitWhileLearning` | `CanTransmit` | `LearningIsSilent` |
| `RelayUnasked` | `RelayDecision` | `RelayFailsClosed` |
| `PersistOnlyEnabling` | `PersistPolicy` | `RelayOnlyWithConsent` |
| `RecordSuccess` | `RecordResult` | `ResultOfLastCommand` |
| `CanPreemptAnyCommand` | `CanTransmitDirect` | `ResultOfLastCommand` in batches, `EveryCommandIsAnswered` |
| `StartKeepingSuccess` | `StartOwnBurst` | `SuccessIsCurrent` |
| `StartClearingFault` | `StartOwnBurst` | `FaultNeedsRearming` |
| `TakeUncounted` | `Take` | `BudgetIsBounded` |
| `ReserveInMemory` | `ReserveCounters` | `DurableBeforeAir` |
| `ExpiredSinceLast` | `Expired` | `RepeatsAreAuthorised`, `BudgetIsSpent` |
| `SomePanelUnmoved` | `PanelsUnmoved` | `RepeatsAreAuthorised` in batches |
| `KeepBurst` | `EndBurst` | `EveryBurstEnds` |
| `CandidatesOverrun` | `CandidatesFull` | `SessionTypeOK` |
| `OnlyQualified` | `Selected` | `NeverAGuess` |
| `IndexAfterForward` | `IndexAfter` | `IndexOfTarget` |
| `KeptAllOthers` | `KeptEndpoints` | `OneTarget` |
| `ReadyWithOpen` | `Ready` | `KeepsPromise` |
| `TimeIsUpBetweenCaptures` | `TimeIsUp` | `SessionEnds` |
| `AnyKind` | `Kind` | `TypeOK` of `Commissioning` |
| `Refused` | `Failed` | `EverySlotIsDurable` |
| `AnyPanelLearned` | `AlreadyLearned` | `NoAmbiguityWithoutFault` |
| `FirstUsable` | `FirstFree` | `OneRecordPerSession` |
| `CanConfigureAnyway` | `CanConfigure` | `NothingOverwritesAFault` |
| `AgedUnwrapped` | `AgedCache` | `TypeOK` of `RelayPath` |
| `EvictableEntry` | `Available` | `OncePerWindow` |
| `RememberNothing` | `RememberOwn` | `OwnFramesStay` |
| `AdmitFirst` | `Relay` | `NothingIsSwallowed` |
| `PollOverAfterOne` | `PollOver` | `HopsDrain` |
| `SetupUnmarked`, `SendUnsaved` | `Setup`, `CommitTransmit` | `NeverFallsBack` |
| `MarkLater` | `SaveMarker` | `HeldIsNotEmpty` |
| `StartKeepingSuccess`, `RespondWhenSent` | `StartOwnBurst`, `Respond` | `AnswersAreTrue` |
| `ForgetsWhenDisabled` | `ScanAction` | `PauseIsReleased` |
| `OriginalSetter` | `ReplacementSetter` | `ScannerNotStranded` |
| `AlwaysWakes` | `ReplacementSetter` | `ContractPasses` |
| `AcceptsOlderPatch` | `PinnedVersion` | `ImageIsPinned` |
| `OpenAnyway`, `OnLogCountsFirst`, `AnyChild` | `OpenExclusive`, `OnLog`, `ChildOver` | `KeepsRecordings` |
| `LengthOnly`, `AnyStatus`, `AnySize`, `AnyRecording` | `Verified`, `CaptureFinished`, `RightSize`, `WholeRecording` | `ReportedIsComplete` |
| `DecodeBlockAlone` | `DecodeBlock` | `FramesOnce` |

## 10. Disagreements with the documents

**A burst in flight.** `radio_owner_preempt` checks what `docs/commissioning.md:166-167` and
`docs/product-architecture.md:48` say, that a burst in flight is not
interrupted, and finds a newer direct command that ends a repeat
(`preempt_repeat_`), even when that command is then refused. Other passages
(`docs/product-architecture.md:36`) describe the pre-emption, so it is the two
sentences that are out of date.

**Attribution.** `docs/product-architecture.md:55-56` says that the FIFO is drained
before retuning, and `protocol.h:50` that nothing is forwarded on its own
channel. `hop_channel_` drains; `select_receive_channel_` does not.
`relay_path_attribution`: a frame is heard on channel 39 and queued, `set_relay`
retunes to 15, and the next poll relays the frame on 39.

More were met while modelling, two of them not of a document with the code but of the
code with what a reader of it would expect. No run shows them as counterexamples; what
holds instead is checked:

* `docs/learning.md:50-51` says that the current rolling state is stored. Once a
  command has its second sample, `observe` does not look at further presses of it
  (`learning_session.h:59`), so a third press before Continue leaves the stored
  index behind the remote's. `IndexOfTarget` is what holds.
* `docs/commissioning.md:63` says that duplicate families in different slots are
  rejected. Only ready slots are asked, and a slot whose save failed is not ready
  although its record may be in flash: commissioned again in another slot, both
  are ready after a restart. `NoAmbiguityWithoutFault` is what holds.
* `docs/product-architecture.md:61` says that a bridge suppresses returning copies
  of its own command. A command that finds the cache full is sent and not
  remembered; the fault that this latches stops relaying until the owner turns it
  off and on again. `OwnFramesStay` is what holds.
* The comment in `hop_channel_` (`norman_rf_monitor.cpp:185-186`) says that CE is low
  during every retune, and `docs/product-architecture.md:55-56` that the FIFO is drained
  before it. A frame that the hop's own poll reads and that finds the cache full calls
  `select_receive_channel_` (471-474), which leaves CE high (446): the hop retunes with
  the receiver on, and a frame heard meanwhile stays in the FIFO. `HopsDrain` is what
  holds: the fault is latched by then.
* `docs/product-architecture.md:75-76` says that a successful API response means that
  the RF burst completed. A manual repeat that a newer command has ended is answered
  with that command's success. `AnswersAreTrue` is what holds.
* `pluto-capture.py` kills its child on any exception, from `try` on (51-56). One that
  strikes between `Popen()` and `try` (45-51), where the start is printed and
  flushed, or a second Ctrl-C before `kill()`, leaves a child behind that writes to the
  file. `KeepsRecordings` is what holds: no report is made of that file and no later
  run takes its name.
* `pluto-console.py` compares the size with what was asked for only after its own capture
  (190-191), and a job's exit code does not say how much it wrote. A download by itself
  of a capture that ended early with exit code 0 is reported, with the size it has.
  `ReportedIsComplete` is what holds.

## 11. What is not modelled

Register access, telemetry and diagnostics; the contents of frames beyond
family, action and index (CRC and bit order are pure functions with tests of
their own); the stage-0 image; the schema of the component's configuration; status
actions, sensors and buttons, which only read; the signal processing inside a
block of IQ; provisioning; the unit tests of the tools. The scan-timeout watchdog
of ESPHome's tracker is outside the contract's scenarios and of the model.
`test-radio-completion-probe.py` drives a probe that is built for a bench only.

Two hazards of the list have no property: an index heard from a remote that a
restart forgets before it is saved (the code accepts that), and the repeat window
on the wrapping clock, which only matters for a command that is still the newest
after 49 days.

## 12. Plan

Done: the radio owner, the learning session and the table of profiles, the relay
path and its cache, the storage of a slot, the actions, the scan pause with its
build, the recording tools; theorems for all of their safety. Left, in this order; each with its own runs, and with theorems where
named.

1. Lemmas of `BurstSchedule` and `NormanProtocol` for every value: the guard
   exceeds the schedule, every target has all its copies in order, `IsNewer` is
   never both ways round.
2. `RepeatAuthority`: what a repeat needs, as an abstract specification that
   `RadioOwner` implements; `CommandRepeat` on the wrapping clock.
3. `RelayNetwork`: several bridges in a row of channels, no frame circulates.
4. `CompletionProbe`: `test-radio-completion-probe.py` and what it expects of a
   burst's completion.
