# Formal models of DSS_QT

This directory holds TLA+ models of DSS_QT (C++23, Qt 6), a desktop application that
takes frames from a camera or from recorded files, processes and tracks the objects in
them on a worker thread, stores frames and results, and talks to serial and UDP peers.
Every definition is translated from the code under `src/` and `include/`; paths below are
relative to the repository. `PROJECT.json` maps each definition to the lines it stands for.

## 1. Inventory

### The system and its threads

    camera / replay thread ──FramePacket──> frame callback ──> ImageProcessor::submitFrame
                                                 │                     │ BoundedChannel
                                                 │                     v
                                                 │             processing thread
                                                 │             strategy, tracker, events
                                                 v                     │ Event (message bus)
                             LocalImageStorageBackend          ┌───────┼──────────────┐
                             queue + writer thread             v       v              v
                                        TrackDataStorageBackend   ImageSender   result bridge
                                        queue + writer thread     + worker      DataExchange (UDP)
    serial worker threads ── MasterControlEvent ──> MainViewModel ──> start/stop of the above
                          └─ MasterControlEvent ──> result bridge
    UI thread ────────────── view models ──> start/stop of the above, serial commands, endpoints

The message bus is synchronous: a handler runs on the thread that emits. So
`MainViewModel::onMasterControl` runs on a serial thread, and the track storage
subscriber and the result bridge on the processing thread.

### Components

| component | state | operations | hard behaviour | what makes it correct |
|---|---|---|---|---|
| `BoundedChannel` (`include/dss/processing/bounded_channel.h`) | ring buffer, head/tail/count, closed flag, two condition variables | push, pop (blocking, with stop token), tryPush, tryPop, clear, close, open | lost wake-ups with `notify_one`, stop request racing a wait, wrap-around | FIFO queue; no wake-up lost; close and stop release every caller |
| `ImageProcessor` (`src/processing/image_processor.cpp`) | channel, running flag, worker thread, strategies, drop counter | start, stop, submitFrame, strategy setters, workerLoop | stop against a busy worker, frames left over at a restart, strategy switched within a frame | frames conserved and ordered; stop leaves no worker; drops counted |
| `LocalImageStorageBackend` | queue, worker, counters, session naming | init, configureSession, start, stop, enqueueSessionFrame, workerLoop | check of `m_running` outside the queue lock, draining stop, session change while callbacks run | accepted frames written once; stop drains; session is not changed under a worker |
| `TrackDataStorageBackend` | the same, output path looked up at write time | init, configureSession, start, stop, enqueueTrackResult, workerLoop | a batch that outlives its session | batches conserved; each in the file of its session |
| `Event` / `BasicMessageBus` (`include/dss/core/detail/event.h`) | copy-on-write handler list, slot ids, pending queue | subscribe, disconnect, clear, emit, post, flush | re-entrant handlers, disconnect during an emission, concurrent flushes | an emission calls its snapshot exactly; ids are not confused; posts emitted once |
| `ImageSequenceFrameSource` (`src/acquisition/image_sequence_frame_source.cpp`) | file list, position, replay thread with copies of both | setFiles, seek, stepForward, init, start, stop | the thread object has no lock, seek during replay, unreadable files | each delivered frame is the next readable one of the present list |
| `ReplayViewModel` (`src/ui/replay_view_model.cpp`) | grabbing and busy flags, progress, task thread, calls queued to the UI thread | startGrab, stopGrab, selection, single steps, seek, finishReplayTask | task thread and UI thread call the source without a common lock; completion arrives later | the calls are kept apart; stopped means quiet; every task is reported |
| session control (`src/ui/main_view_model.cpp`, `storage_view_model.cpp`) | saving flag, remembered session, the two backends | onMasterControl, startSaving, stopSaving, startGrab, stopGrab | two initiators, failure of either backend, frames on their way across a change of session | both backends run or neither; the master is obeyed; few results in the wrong file |
| serial channels (`src/comm/`, `src/ui/serial_port_view_model.cpp`) | port, status, worker, command mailbox, send request | open, close, apply configuration, sendCommand, requestSend, workerLoop | a request that survives close/open, two mutexes for one mailbox, a byte stream cut anywhere and lossy | bytes conserved; commands in order; port outlives worker; nobody waits for ever |
| frame codec (`include/dss/comm/frame_codec.h`) | none | validate, wrap | a stream without checksum or search for a header | a short loss yields errors, no invented frame |
| network channels (`src/network/`) | two sockets of the exchange, image socket, worker, pending image | open, close, edit, sendImage, worker | pending image across reopen; second bind fails; edit of an open endpoint | exchange whole or closed; newest image wins; images whole |
| track result bridge (`src/app/track_result_data_exchange_bridge.cpp`) | the last master command | master commands, track results | a command between the two messages about one result | one state per result; no false alarm |
| trackers (`src/tracking/`) | fifo of frames, targets with paths, stage, next id | track, reset, setMode, setManualTarget | long sequences of hits and misses, crossing objects, rediscovery | life cycle, ids and measurements of targets |
| frame source coordinator (`src/acquisition/frame_source_coordinator.cpp`) | selected source | select, init, start, stop | joining under a mutex | stop returns |
| `ServiceHost` (`src/core/service_host.cpp`) | list of services | add, startAll, stopAll | rollback of a failed start | not modelled: no part of the application uses it |
| display and log view models | current frame, log entries | event handlers | handlers run on the emitting thread | not modelled, see section 7 |
| processing strategies, labeler, display stretch | mostly none | pure functions | numeric edges | not modelled, see section 7 |
| configuration, logger, widgets, GPU, file formats, `oldsrc/` | files, presentation | | | not modelled, see section 7 |

The hazards, each at its line and with the properties that cover it, are the `hazards`
list of `PROJECT.json`.

## 2. Modules

| module | models |
|---|---|
| `BoundedFifo` | what the frame channel promises: a FIFO queue of bounded length that can be closed |
| `BoundedChannel` | the ring buffer with mutex, condition variables and stop tokens; implements `BoundedFifo` under the mapping `queue <- Contents` |
| `ImageProcessor` | the processing thread and its callers, on top of `BoundedFifo` |
| `LocalImageStorageBackend` | image queue, writer thread, control thread and the frame callbacks |
| `TrackDataStorageBackend` | the same for the track records |
| `Event`, `MCEvent` | one typed channel of the bus with re-entrant handlers; `MCEvent` adds the symmetry for TLC |
| `ImageSequenceFrameSource` | the replay source, its replay thread, and the contract it puts on its callers |
| `ReplayViewModel`, `MCReplayViewModel` | the view model with its task thread, the coordinator's mutex, the processor's queue and the UI event queue, on top of the source; `MCReplayViewModel` has the file lists |
| `SessionControl` | master control events and the Save box over both backends, with the frames on their way from the source to the track file |
| `FrameCodec` | validation and wrapping of a serial frame |
| `SerialChannel`, `MCSerialChannel` | the worker of any serial channel, the UI calls that drive it, and a lossy line, on top of `FrameCodec` |
| `NetworkEndpoints`, `MCNetworkEndpoints` | image sender, data exchange, result bridge, and the UI calls that open, close and edit the endpoints |
| `Trackers`, `MCTrackers` | the four tracking strategies and `TrackManager` |
| `MCProcessing` | `ImageProcessor` and `MCTrackers` side by side, for TLC |
| `*_proofs` | theorems about the module of that name; `ReplayViewModel_proofs` has those about `ImageSequenceFrameSource` too, `SessionAndNetwork_proofs` those about `SessionControl` and `NetworkEndpoints`, and `Processing_proofs` those about `ImageProcessor` and `Trackers` |

**`BoundedChannel`.** All notifications happen inside the critical section, so a critical
section is one action. A blocking call is in `popping`/`pushing` while it competes for
the mutex and in `popWait`/`pushWait` while it is blocked on its condition variable;
`notify_one` moves an arbitrary waiter. `condition_variable_any::wait` with a stop token
evaluates its predicate once more after a stop request, which is why `PopTakes` and
`PushPuts` remain possible for a stopped caller. Spurious wake-ups are an action.

**`ImageProcessor`.** The control thread is inside `start()` or `stop()` according to
`control`; the worker's program counter is `worker`. The frame being processed is a
sequence of length 0 or 1, so that conservation of frames is an equation between
sequences. A frame carries the session in which it was submitted. `fed` is the history of
the tracker object that is installed now.

**The storage backends.** `control` tells where the control thread is inside `start()`,
`configureSession()` or `stop()`; a producer goes through the reads, the check of
`m_running` and the push of its frame in separate steps because the code takes the queue
lock only for the push. In `LocalImageStorageBackend` a request carries the session whose
naming it was given, or `Torn` when it read the naming in the middle of its assignment
(a data race in the code, hence a nondeterministic read). In `TrackDataStorageBackend`
the batch carries the path in force when it was queued, and the file it went to is
recorded next to it.

**`Event`.** The handler lists are a small heap, and `m_handlers` an address. An emission
holds an address, and a writer copies the list first when an emission holds it. A thread
has a stack of calls, as a handler may call the event again. A `ScopedConnection` is the
number of its `subscribe` call; its `disconnect()` is the exchange of `m_active` and then
the removal, two steps. `Kept` is the `std::erase_if` of the removal. The addresses in use
are the domain of `lists`; a list that nothing refers to any more is gone from it, and
`live` is the history of which subscriptions were not yet removed. Exceptions are abstracted: `forEachSafe` continues in both cases.

**`ImageSequenceFrameSource` and `ReplayViewModel`.** A call of the source is a record in
`call[c]` for the thread `c` that makes it: the operation, the step it is at and its
locals. The steps are the places between critical sections of the code, so that the
replay thread and other callers act in between. The source does not protect `m_worker`;
what it therefore asks of its callers is `Contract` (one call at a time, no single step or
initialization while the replay thread is active), and `SourceSpec` is the source under
callers that keep it. `ReplayViewModel` extends the module, uses the same first steps
without the contract, and is checked to respect it (`KeepsContract` is `SourceSpec` as a
property). Its callers are the UI thread and the task thread. A slot is a sequence of
steps in `control`; `then` is the task a slot submits after its `stopGrab()`. Buttons are
disabled while a task is under way, which is `MayUse`. Calls queued to the UI thread wait
in `events`. The frame callback is reduced to `submitFrame`, and the processor to its
queue and to whether it runs: `ImageProcessor` has the rest.

**`SessionControl`.** One control thread, `step` telling where it is inside a call and
`caller` which of the two it is: the UI thread with the Save box and the start and stop
buttons, or the serial thread with `onMasterControl()`. Their calls alternate, they do not
overlap. Each start and stop of a backend is a step of its own, and every operation that
can fail fails in one of its disjuncts, with what was done before it left in place. A
session is named by its origin: a master session by the day of the event and its target,
which is what the id is compared by, a session of the box by its time. `step` stops
between backends, so frames are delivered, queued, processed and published meanwhile; a
frame is reduced to the run of the image backend it was stored in (0 for none), which is
what `spilled` compares with the run of the track backend that its result reaches.

**`FrameCodec` and `SerialChannel`.** A received frame is kept byte by byte: the peer sends
`HEADER`, a payload and `TAIL`, the line delivers or loses one byte at a time, and the
worker takes a block of the frame length whenever the buffer holds one. The four kinds of
channel differ in that length and in which payloads their decoders refuse, which are
constants. A command is the number of the call that gave it. Storing it and setting
`m_sendRequested` are two steps because they are under two mutexes, and the worker clears
the flag before it reads the command in a third. `worker` is the worker's program counter
from the check of its stop token to the write, `control` is `join` inside `close()`.

**`NetworkEndpoints`.** An address is the number of the edit that set it; `bound` is the
one a socket was bound with. The UI thread's calls are two steps where they join the
image worker. The image worker sends a packet per step; `Packets` is `buildPackets()`
reduced to lengths. The bridge asks `isOpen()` and sends in separate steps, for each of
its two messages, with the copy of the master state it made at the start.

**`Trackers`.** One frame is one action, because a strategy runs under the processor's lock
on one thread. Positions lie on a line, a blob on even half pixels, so that means and
predictions are exact; azimuth and elevation of a blob are its place on the same line.
Where the code takes `hypot` in one test and single axes in another (LEO's speed limit and
its consistency), the line has one distance for both, and no property depends on that. The
radius that the stars and the number of blobs give GEO's association is a constant, and so
is whether blobs have equatorial coordinates. Blob areas, which decide between equal
candidates of SC, are left open, hence nondeterministic. `targets` is `m_targets` of GEO,
and for LEO and SC the candidates and then the one target, as the members of the code
succeed each other. `path` is the list of frame infos, of which the last `History` are
kept.

Where a property is the conjunction of several (`NoLostWakeup`, `ProcessorInv`,
`StorageInv`, `QueueInv`, `ListInv`, `ReplayInv`, `SavingInv`, `PortInv`, `EndpointsInv`,
`BridgeInv`, `ImagesInv`, `TargetsInv`, `ChannelProgress`, `SenderProgress`, `CallsEnd`),
each part has a definition and a comment of its own; the type invariant of a module is a
part of the first of them.

Definitions with a comment that begins "Mutant" are wrong on purpose. Nothing refers to
them except `PROJECT.json`, which pairs each property with a mutant that violates it.

## 3. Runs

| run | specification | bounds | result |
|---|---|---|---|
| `channel` | `BoundedChannel!FairSpec` | capacity 2, 3 threads, 2 values | 37532 states; invariants, refinement and liveness hold |
| `processing` | `MCProcessing!ProcessingSpec` | processor: capacity 2, 3 frames, 2 sessions; trackers: line of 16 half pixels, 7 kinds of frame, 9 frames after a reset | 203283 states; all hold |
| `image_storage` | `LocalImageStorageBackend!FairSpec` | 2 producers, queue of 2, 3 frames, 2 sessions | 121624 states; all hold |
| `track_storage` | `TrackDataStorageBackend!Spec` | 2 producers, queue of 2, 3 events, 2 sessions | 38812 states; all hold |
| `track_storage_mix` | `TrackDataStorageBackend!Spec` | the same | violated, see section 5 |
| `event` | `Event!Spec` | 2 threads (symmetric), 2 subscriptions, 2 posts, 3 calls in progress together | 188740 states; all hold |
| `replay` | `ReplayViewModel!FairSpec` | UI and task thread; lists `<<a, broken, b>>` and `<<broken>>`; queue of 2, 2 queued events | 195259 states; all hold |
| `serial` | `SerialChannel!FairSpec` | frames of 3 bytes, 2 payloads (one contains the tail byte), 2 frames, 2 lost bytes, 2 commands, 2 opens | 430746 states; all hold |
| `session` | `SessionControl!Spec` | 1 target, 2 master events, 1 session of the box, 1 midnight, queue of 1, 4 frames | 376931 states; all hold |
| `network` | `NetworkEndpoints!FairNetworkSpec` | 2 edits, 3 images of 0 to 2 bytes, header of 1 and packets of 2 bytes, 2 opens | 67126 states; all hold |
| `trackers_output` | `Trackers!TrackersSpec` | the trackers' of `processing`, with `ThresholdAe` 2 | violated, see section 5 |
| `trackers_stage` | `Trackers!TrackersSpec` | the trackers' of `processing` | violated, see section 5 |

Why the bounds are enough to see the interesting cases:

* Capacity 2 is the smallest ring in which the indices can be equal, adjacent and wrapped
  with elements left, and a queue of 2 can be empty, partly filled and full. Three callers
  let two wait while a third acts, which is what a lost `notify_one` needs.
* Three frames exceed the capacity by one, so refusals occur; together with two sessions a
  frame of the first can be overtaken by, or mistaken for, one of the second.
* Two producers are needed for one to be past the check of `m_running` while the other
  keeps the worker busy during `stop()`.
* With three calls in progress a handler called by `flush()` can post, flush or disconnect
  once more while the other thread is inside a call of its own. Two subscriptions let one
  be cleared and the other made afterwards, so a confusion of slot ids would show.
* The replay lists have an unreadable file in front, in the middle and as the only one, the
  places where skipping a file behaves differently; `<<broken>>` makes `init()` fail after
  `setFiles()` has replaced the list. `MaxEvents` bounds only the progress events: with
  two, a progress event can be queued in front of and behind the completion of a task.
* In `serial` two lost bytes are one less than a frame, the most `ShortLossMakesNoFrame`
  speaks of, and two frames let a block take bytes of both. The payload that contains a
  tail byte lets a shifted block end like a frame. Two commands and two opens let a
  request of the first opening meet a command of the second.
* In `session` two master events ask for the same session, for one of the next day, or for
  none, before, between and after a session of the box; four frames are one more than the
  callback, a queue of one and the processing thread hold, which is what the bound
  `Capacity + 2` of `SpillBounded` is about.
* In `network` images need no packet, one and two packets; two edits let an old address
  return to neither. The sender and the exchange share nothing but the UI thread, which
  finishes one call before the next, so the constraint `OneUsed` of `MCNetworkEndpoints`
  explores the states in which at most one of them has been used, with larger bounds.
* `processing` explores the processor while the trackers are at rest, and the trackers while
  the processor is: they share no state, and the only call between them is a step of each.
  In its trackers two objects approach each other on even steps, meet in one blob, are
  missing singly or together, and a third appears. LEO needs four frames and GEO five
  before rediscovery begins: nine allow a target to be found, lost by the window of two or
  three misses, and found again. The thresholds are small numbers for which the gates
  accept some of these frames and refuse others. `SpdLowAe` is 0, the default of the
  settings, and `ThresholdAe` 4, so that LEO verifies candidates that move once and then
  stand still. GEO's gate of azimuth and elevation, which has the same `ThresholdAe`, narrows
  the others only in `trackers_output`, where it is 2 and LEO verifies no such candidate,
  so that the counterexample found there is GEO's.

`serial`, `session` and `network` have `CHECK_DEADLOCK FALSE`: there a behaviour ends when
its bounds are used up (the events and the images), which is no state of the program. The
violated runs stop at their counterexample. In the other models the environment can always
move and deadlock is checked; the liveness properties of `serial` and `network` show that
no call of theirs hangs.

## 4. Fairness

Only steps the code takes by itself are fair: an awake thread gets the channel's mutex
(critical sections do not block), the worker threads are scheduled and their strategies,
handlers, disk writes and socket writes return, and a call that has begun goes on. The
task thread and the replay thread are scheduled, reading a file returns, and the UI event
loop handles queued calls while no slot runs. In `SerialChannel` these are the steps of
the worker and of a UI call in progress, in `NetworkEndpoints` those of the image worker
and of a UI call in progress. It is weak fairness throughout. Nothing forces a caller to
submit, start, stop or push, a user to press a button, a peer to send or a line to
deliver: `CloseReturns` holds although the rest of a frame may never arrive.
`SessionControl`, `Event`, `TrackDataStorageBackend` and `Trackers` state no liveness and
assume no fairness.

Liveness of the storage backend is stated for frames in the queue and not for `stop()`:
`m_running` stays true while `stop()` joins, so producers may keep the draining worker
busy for as long as frames arrive. The bound on the number of frames would hide that.

## 5. Disagreements between the documentation and the code

Three are runs in which TLC finds a counterexample to the quoted claim.

* `track_storage_mix`: `docs/module-storage.md:246` calls `stop()` a synchronous drain
  point. A producer that passed the check of `m_running` can push after the worker has
  left; the batch is written in the next session, to that session's file.
  What bounds it holds: everything accepted before `stop()` was called is written before
  it returns (`StopDrainsEarlierFrames`), and a batch queued while a worker is alive goes
  to its own session's file (`AttendedBatchKeepsItsFile`).
* `trackers_output`: `docs/module-tracking.md:267` says that a tracker outputs living
  targets. GEO returns `m_targets` (`geo_tracker.cpp:89`), in which lost ones remain, with
  `living` false, until none lives. `TrackDataStorageBackend` and the bridge do not filter
  by `living`.
* `trackers_stage`: `include/dss/tracking/leo_tracker.h:21` says that LEO returns the list of
  active targets, the candidates before the verification and the selected one after it, and
  `docs/module-tracking.md:72` that this is the fastest of the verified ones. A candidate that
  moved once and then stood still passes the speed limit (which looks at the first motion
  only) and the test of consistency, and its median speed is zero.
  `selectFastestAeTarget()` (`leo_tracker.cpp:166`) starts from an empty `TargetInfo` and a
  speed of zero, and so returns the empty one if every verified candidate is like that. LEO
  then counts as found and verified, returns a target that does not live, and gives up in
  the next frame (`leo_tracker.cpp:241`), although candidates had been verified. The
  default `spdLowAe` is 0 (`types.h:142`), and then every `thresholdAe` above that one motion
  allows it. So may equal limits, because the speed is a `hypot` and the consistency a test
  by axis: with both 0.01, motions of (0.009, 0.009), (0, 0) and (0, 0) pass. What is true
  for every limit is `StageBindsTargets`: nothing else without life is ever counted as found.

The following were met while modelling and have no run.

Concurrency:

* `docs/module-processing.md:336` says that the worker holds the strategy lock for the
  whole frame. It is released between `process()` and `track()` (`image_processor.cpp:94`),
  so a switch can fall in the middle of a frame.
* `docs/module-storage.md:252` protects the session naming by "configured before start, not
  changed while running". A callback admitted before `stop()` reads it without a lock while
  the next `configureSession()` assigns it (`local_image_storage_backend.h:183`).
* `docs/module-ui.md:286` says that stepping stops the replay first so that two producers
  never advance the position together. `startGrab()` on the serial thread tests
  `m_replayBusy` at its beginning and starts the source at its end; a step requested in
  between finds `m_grabbing` still false. Without the serial thread the claim holds
  (`NoTwoProducers` in the run `replay`, and the theorem `ReplayConsistent`). `docs/module-ui.md:383` names the cross-thread
  path itself as sensitive.
* `LogViewModel::appendLogEntry` (`log_view_model.cpp:136`) changes `m_logEntries` on
  whatever thread emits the log event, without a lock.

Replay:

* `docs/module-acquisition.md:224` says that a start after the end of the sequence begins
  with `seek(0)`. `startGrab()` tests the position (`replay_view_model.cpp:166`), which the
  replay thread moves only for files it could read. If the last file cannot be read, the
  position stays below the count and "Start" replays nothing but that file.
* `tests/test_replay_view_model.cpp:127` expects the current frame to follow a single step.
  The test's callback emits the display event itself. In the application the frame goes to
  `ImageProcessor`, which only `startGrab()` starts: before the first start it waits in the
  queue, and after `stopGrab()` the closed channel refuses it.

Sessions:

* `include/dss/ui/main_view_model.h:161` calls `m_activeStorageSessionId` the id of the
  present session of the master control. The Save box starts and stops sessions without
  it: after a session of the box has replaced one of the master, an event that asks for
  the master's session again is taken for satisfied. `MasterObeyed` is what remains true.
* The session id has the date of the event, so the first event after midnight ends a
  running observation and begins another of the same task and target, although
  `docs/module-app.md:267` describes sessions across midnight.
* The Save box is not connected to `savingChanged`: it shows what the user last did, not
  whether anything is being saved.
* Nothing clears the frame queue when the session changes, and the image backend starts
  before the track backend: results of that time reach the file of the later run, or none.
* Every `MasterControlEvent` installs a new tracker even if the mode is unchanged
  (`tracking_view_model.cpp:28`), so tracking begins anew with each of them.

Trackers and diagnostics:

* `ErrorDiagnostics` never resets a flag: one transmission error is reported for ever.
* With the default `thresholdAe` 0 (`types.h:144`) the consistency test `< thresholdAe` of
  LEO (`leo_tracker.cpp:131`) never holds, so no LEO candidate is ever verified.
* In frame space GEO's gates on the predicted position and on the speed error compare the
  same distance, so only the narrower one has an effect. `docs/module-tracking.md` speaks
  of a fifo of four frames; the code keeps ten.
* The ids of LEO and SC candidates count from one in every association, so that an id
  names several objects in turn; `IdNamesOneTarget` is about GEO.
* `docs/module-processing.md:47` says that `push` on a full channel discards the oldest
  frame (it waits, and `tryPush` refuses the new one), and
  `include/dss/processing/image_processor.h:45` calls `droppedFrames()` the frames lost to
  a full queue (frames submitted to a closed channel are counted as well).

## 6. Proofs

The theorems hold for every value of the constants that satisfies the named assumption of
the module (`ChannelAssumption`, `ProcessorAssumption`, `StorageAssumption`,
`SourceAssumption`, `ReplayAssumption`, `SerialAssumption`, `EventAssumption`,
`SessionAssumption`, `NetworkAssumption`, `TrackersAssumption`): bounds are naturals,
capacities and packets positive, `Threads` finite for the channel, because its invariants
count calls, payloads sequences of one length, blobs inside the image, and a history at
least four infos long, as four frames are associated. They say nothing of real bounds:
those of TLC (`MaxFrames` and so on) are constants too, so each theorem holds for all of
them.

* **`BoundedChannel_proofs`**: `WakeUpsSuffice`, where the conjunction of the two wake-up
  invariants and of `NobodyBlocksOnClosed` is inductive: a waiter blocks only when the
  condition it waits for is false, and every element that makes it true either wakes one
  waiter or finds the awake ones already as many as the elements. `Refinement`: every
  critical section is a step of `BoundedFifo` or a stutter. It needs
  `tail = Slot(count)`, from which the contents after a push or pop follow.
* **`Processing_proofs`**: about `ImageProcessor`, `ProcessorIsSound` is put together from
  `StopLeavesNoWorker`, by `ControlInv`, which says which states of control thread, worker
  and flag go together (a worker that can clear `m_running` late exists only while `stop()`
  waits for it), and `Conservation`, which needs that the worker holds a frame exactly
  while it works on one (`HoldsFrame`). `TrackerOrder` from `OrderInv`: the tracker's
  history, the frame in work and the queue ascend, and each precedes the next. About
  `Trackers`, everything follows from `TrackersInv`, which has one part for each kind of
  strategy. `OneStage` says of LEO and SC which stage has which targets: candidates of
  three measurements, then exactly one target, which lives or is LEO's empty one.
  `ManyStage` says of GEO that its fifo is as long as its age, that it finds nothing before
  the fourth frame, and that all ids are below the next one. `SeenAndReal` says that a
  living target was measured within its window, and that a measurement `d` frames ago is a
  blob of the frame `d` frames ago (`Measured`): path and fifo are cut at different
  lengths, so the two are counted from their ends. From these follow `LivingWereSeen`,
  which is all of `TargetsInv`, and `TargetsAreReal`; none of the theorems about `Trackers`
  has a hypothesis about the limits. What `trackTargets()` does to the list is `Follow`,
  proved by induction over the list (`TrackedIs`): every living target goes on by one info,
  every lost one stays as it is, and no two targets take one blob. With it `OneBlobEach`
  and `IdsAreStable` are facts about a step. `IsolatedIsFound` says what deduplication and
  the test for overlap may drop: a chain that crosses no other is kept, and if a target was
  followed onto it before, that target has its points. That every chain comes up once in
  the order of the loops, on which these rest, is `InOrderIs`.
* **`LocalImageStorageBackend_proofs`**: `BackendIsSound` from `ControlInv` and
  `Conservation`; `StopDrains` from `DrainInv`: while `stop()` joins, a finished worker has
  done at least what was accepted before the call, because it exits only on an empty queue.
* **`TrackDataStorageBackend_proofs`**: `BackendIsSound`; `PathChangesOnlyAlone`; and
  `AttendedBatchesKeepTheirFile` from `FileInv`: what waits while no worker is alive was
  queued without one, and everything else that waits belongs to the path in force, which
  can change only when there is no worker.
* **`ReplayViewModel_proofs`**: first about `SourceSpec`, `SourceTypeCorrect`, and from
  `SourceInv` both `ProducersApart` and `FramesInPlace`. `SourceInv` says that at most one
  call is in progress (`OneCall`), that the replay thread is inactive in the steps of a
  call that touch the position (`CallOK`), and that only unreadable files lie between the
  position and the file the replay thread is at (`WorkerOK`). These are theorems for
  callers that keep the contract. The second part makes them theorems about the
  application, under the hypothesis `UiOnly`: the UI thread is the only control thread,
  and the task thread the only other caller. `ContractKept` is the refinement of
  `SourceSpec`: `ViewInv` says which call of the source the UI thread can be in at each
  step of a slot (`UiCallInv`), that nothing is replayed while `m_grabbing` is false
  (`SlotInv`), that a task runs only while `m_replayBusy` is set and no slot is in
  progress (`TaskInv`), and that only the one queued completion resets the flag
  (`FinishInv`). Hence no call meets another one, and no single step meets the replay
  thread. `ReplayFramesInPlace` is then `FramesInPlace` for the application.
  `ReplayConsistent` needs `PanelInv` besides: where the processor can be running
  (`QuietInv`), and that whatever is queued for the slider has the length of the present
  list, since only a selection replaces it, and its completion alone sets the range
  (`ListInv`). `ViewInv` and `PanelInv` together with the source's invariant are inductive
  (`Inductive`). Without `UiOnly` the theorem is false: `startGrab()` on the serial thread
  does not wait for the buttons.
* **`SerialChannel_proofs`**: `PortIsKept` from `WorkerInv`: the port is open exactly as
  long as there is a worker, and while an edit closes it. `CommandsStayInOrder` and
  `StaleCommandOnce` from `CommandInv`, which counts how often the newest command may still
  be written: a call that has stored it without having set the flag, and a flag, a round of
  the worker or a filled buffer that will write it anyway (`Asked`), make two; each alone
  makes one.
  `StreamIsConserved` needs of the position in the stream only that `buffer` and `taken`
  are empty while the port is closed (`StreamInv`); the rest is arithmetic of the places
  of blocks. `ShortLossIsHarmless` from `LossInv`: every byte in the buffer has an origin,
  a frame sent and a place in it, and from each byte on the origins run ahead of the
  buffer by no more than what was lost (`IsOrigin`). A `HEADER` in front and a `TAIL` at
  the end of a block are the first and the last byte of some frames, because payloads
  hold neither, and with fewer losses than a frame has bytes these are the same frame.
* **`Event_proofs`**: `TypeCorrect` says that the list in `m_handlers` and the lists of the
  snapshots are alive, and no others. `ListCorrect` from `SubsInv`: the ids that the
  connections hold ascend and are below `m_nextId`, and each slot of the list has the id of
  its connection, so that an id removes one slot. `EmitsItsSnapshot` from `EmitInv`, in
  which what an emission has called, followed by the rest of the list at the address it
  holds, is the snapshot it took. The list at that address must not change, which is why
  the writer's copy (`CowDetach`) matters. `PostsOnce` from `MessageInv`: each message is at
  exactly one place, and no batch has a message twice, also with `flush()` inside
  `flush()`. What `Kept` leaves of a list is proved by induction (`KeptSlots`).
* **`SessionAndNetwork_proofs`**: about `SessionControl`, `SavingIsWhole` from
  `BackendsInv`, which says for every place inside a call which of the backends runs and
  for which session, including the places reached by a failure. `MasterIsObeyed` needs in
  addition what the remembered id says of the session saved (`MasterInv`).
  `FewResultsSpill` from `SpillInv`: what has spilled and what can still spill, the frames
  of other runs in the callback, the queue and the processing thread, never exceed the
  room there was for them when the run began, and no frame that is new in a run is one of
  them.
  About `NetworkEndpoints`, `EndpointsAreWhole` from `EndpointsStay`: what is bound at
  each step of the UI thread, and that a worker exists as long as its socket is bound,
  which is what `join()` guarantees. `BridgeAnswers` from `BridgeStays`: every message is
  about the bridge's copy of the master state, and a bridge that found the exchange open
  finds it open or finds `closed` set. `ImagesArrive` and `OneStaleImage` from
  `SenderStays`: the packets sent are the first of `Packets(hand)`, to the address the
  socket still has, and the waiting image is newer than those begun. That the lengths of
  all packets add up to image and header (`WholeImage`) is an induction over the packets,
  on the division that `PacketCount` makes (`Division`).

Each step of an invariant's preservation has one step per action. The last step of a
theorem combines the initial case and the step with the temporal backend.

Inductions over data (the slots left by `erase_if`, the sum of the packets' lengths, the
targets that `trackTargets()` goes through) are proved without the library's induction
rules, which take an operator as a parameter: a set of numbers for which the fact fails
would have a least element (`Least`), by `WFMin` on the naturals.

Only model-checked are the liveness properties (`StopReturns`, `CallReturns` and the other
leads-to properties of the runs), which are beyond the installed provers, and the violated
claims.

The proof about `Trackers` found an error of an earlier version of the model, which TLC had
accepted: SC put only the blobs near the centre of the field of view into its fifo, while
`sc_tracker.cpp:215` keeps the whole frame and only the match looks at the centre.

## 7. Not modelled

* **The archived application** in `oldsrc/`: 27009 of the 47030 lines of implementation. The
  build does not compile it; `src/tracking` is its successor.
* **Numeric and device code**: CUDA kernels and buffers, the processing strategies, the
  labeler, the display stretch, and the geometry of `math_utils.cpp`. They keep no state
  between calls, and what could be wrong in them is floating-point arithmetic. In
  `ImageProcessor` a strategy just succeeds or fails, and the coordinates of `Trackers` are
  exact. Left out of `Trackers` are RaDec space, the estimate of the stars' speed and
  externally validated blobs, which no backend delivers.
* **Formats**: BMP and storage formats, serial fields beyond the framing, UDP layouts,
  configuration files, logs. They are byte layouts without state.
* **Presentation**: widgets, `DisplayViewModel`, whose handler hands its frame to the UI
  thread by a queued call, and `LogViewModel`, for which see section 5.
* **Vendor code**: the Sapera source and with it the switch between two sources, which needs
  the SDK. Of the coordinator, `ReplayViewModel` has the one source registered otherwise.
* **Unused code**: `ServiceHost`, to which nothing is added, the combiners of the bus, which
  no event of the application uses.
* **Periodic senders and receivers**: heartbeat, error diagnostics' own packets and the
  atmosphere receiver, a loop each without shared state but a flag.
* **Two control threads at once.** `ImageProcessor` and the backends assume one; in
  `SessionControl` the calls of the UI thread and of the serial thread alternate. That they
  may overlap in the program is the known weakness of `docs/module-ui.md:383`: they would
  assign and join the same `std::jthread`, which is undefined, and no property holds after
  it. The same is true of one `QUdpSocket` used by two threads, which `NetworkEndpoints`
  takes to succeed.
* In `ReplayViewModel` the diagnostics text and the destructor; in `SessionControl` the
  track mode and exposure of the event; in `Event` the table of channels by type.

## 8. What could follow

In the order of what it would add:

1. A control thread that posts the master's events to the UI thread, as
   `docs/module-ui.md:383` proposes: `SessionControl` with the queue of `ReplayViewModel`
   between them, and the proof that the calls no longer overlap.
2. The frame source coordinator with a live source next to the replay source: only the
   selected one runs.
3. One abstract draining queue that both storage backends implement.
4. RaDec space in `Trackers`, and the labeler over bounded images against the definition of
   connected components.
