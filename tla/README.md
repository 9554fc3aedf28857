# Verification of the SPAD correlation system

The repository runs a two-node single-photon experiment.  Each *node* drives a
SPAD camera through the vendor program lSPAD, parses the time tags it records
and streams them to the *receiver* (the master machine), which correlates the
pixels of one node with those of the other while the run is going on and shows
the coincidence histograms.  Around it stand programs that run such
measurements unattended for days (`tools/sweep`).  This directory holds TLA+
models of the parts in which something can go wrong that a unit test would
hardly reach, the TLC configurations that check them, and proofs checked by
TLAPS.

Contents: 1 inventory, 2 modules and their correspondence to the code,
3 what is checked, 4 bounds, 5 fairness, 6 what is proved, 7 findings,
8 observations that have no run, 9 what is abstracted or not modelled, 10 plan.

## 1. Inventory

| Part | State it keeps | Operations | Hard behaviours | What makes it correct | Module |
|---|---|---|---|---|---|
| **Channel graph** (`correlate_engine.py`) | per pixel: hook queue, `pending`/`arr`, watermark `last_ts`, `last_arrival`; `exclusion_history` | hooks (data threads), `drain_all`, `release`, `start`, `stop` | a pixel stalls, dies, revives, or the whole array goes quiet; a node-2 pixel shared by pairs; trimming before a late partner | every coincidence counted once, none lost without a report | `StallDetection`, `ChannelGraph`, `PairCorrelation` |
| **Disk tail** (`Channel.spill`, `reload_up_to`, `discard_spill`) | `spill_files`, their min/max | `_reload_ready_spills`, `_spill_overflow` | spill and reload inside one `release()`; chunked drain for a dead partner | the same promise with the tail on disk; RAM capped | `ChannelSpill` |
| **Pair kernel and pool** (`correlate_kernel.py`) | tasks submitted and not consumed | two-pointer sweep, chunking, binning, `PairPool` | edges of the window, of chunks, of bins; workers finishing in any order | chunked = whole = reference | `PairKernel`, `PairPool` |
| **Correlator window** (`correlate_multi.py`) | `_active`, `_graph`, `_hist`, `_correlating`, result queue, diff files, trackers | `_enable`, `_disable`, `_reset`, `start_with_offset`, `_tick`, `_correlate_bg`, `_poll_results`, `_derive` | Tk thread, worker thread and receiver thread interleave | a released batch lands once; trackers and pair list belong to this run | `CorrelatorWindow`, `ChipTracking`, `PairLists` |
| **Chip-offset tracker** (`tools/dwell_offset.py`) | matched markers, level, candidates, jumps | `feed`, `flush`, `shift` | chunks cut anywhere, satellites, a jump confirmed late | chunking changes nothing, jumps are real | `MarkerLevels` |
| **Node: send queue and teardown** (`flush`, `sender_fn`, `run`) | `bufs`, `sq`, `stop_event`, sender thread | parse, flush, send, teardown | full queue, dead link, stop while blocked | in order, once, `KEY_END` last; the session ends | `SendQueue` |
| **Node: T-mode ingestion** (`run`) | files on disk, `next_to_check`, `next_to_reassemble`, `accumulated_offset`, `pending` | dispatch, pool work, reassembly, deletion | files growing while read, pool out of order, two chips, 16-bit wrap, a late last file | epochs true, no row lost, the loop ends | `TModeIngest` |
| **Node: T-mode rows** (`_process_tmode_file`, `tmode_kernel.py`) | epoch carry, buffers | parse, unwrap, slot, shift | a file begins in mid-epoch; a reset row is lost | each event filed once at its true time, or reported | `TModeRows` |
| **Node: lSPAD session** (`open_lspad_tmode_stream`, `find_tmode_run_dir`, `run_intensity`) | listing of `Run*` folders, calibration, reply buffer | start, find folder, read rows | folders of earlier runs, late echoes, restarts | its own folder and answer, valid calibration | `LspadSession` |
| **Node: command server** (`run_command_server`, `_handle_controller`) | control connection, acquisition thread, stop events | START, INTENSITY, STOP, ABORT | reconnect during teardown, `busy` | one acquisition at a time, a stop stops it | `RunControl` |
| **Receiver session loop** (`master_backend.py`, `marker_source.py`) | socket, files, hook queues, marker kind | accept, demultiplex, hooks, write | breaks at any byte; the kind of marker chosen from the data | a directory is of one run; live markers = offline markers | `ReceiverSession` |
| **Master: panels and run control** (`master.py`) | `_session_active`, `_ctrl_sock`, pending mode, write flag | connect, start all, stop, abort | lost control link, replies racing commands | an idle panel's node is idle; both nodes agree on writing | `RunControl` |
| **Master: calibration, monitor** (`master.py`) | run id, armed run, callbacks in the event loop | arm, note first data, poll, time limit, monitor | callbacks of two runs interleave | calibrated once, on its own data | `MasterRun` |
| **Master: launch over SSH** (`master.py`, `ssh_launcher.py`) | state, epoch, credentials, mask | launch, abort, refresh, shut down | an aborted launch runs on | a stale launch has no effect | `NodeLaunch` |
| **Run log, disk watchdog** (`run_log.py`, `master.py`) | buffer, file, latches | start, add, finish, `_check_disk_space` | three threads add without a lock | lines whole and once, latches of this run | `RunRecord` |
| **Live sweep: a round** (`tools/sweep/run.py`, `nodes.py`) | `NodeLink`, attempt, background thread | `run_round`, attempts, calibration | the tail polls beside the background thread; silent sources | all that was streamed is counted once | `SweepRound` |
| **Live sweep: campaign** (`run.py`, `rounds.py`) | records, txt, npz, status board | select, attempt, finalize, mirror | killed between two of three writes | records have their files, nothing lost or repeated | `SweepCampaign` |
| **Recorded sweep** (`record.py`, `run_masks.py`) | raw files, archive, info, record | reset, acquire, archive, check, analyse, delete | partial failure and restart at each step | raw data kept until there is a result | `RecordSweep` |
| **Publication** (`publish.py`) | uploaded list, wake time | `wait`, upload, `mark` | three steps by different programs | DONE means all is on the page | `SweepPublish` |
| **Pixel-offset files** (`nodes.py`, `push_offsets.py`) | the node's file, backups | push, zero, restore | killed between saving and zeroing | a calibration is never lost | `OffsetFiles` |
| **Sweep plan** (`plan.py`) | none | grouping, order, dummies, durations, file names | overlaps, duplicates, backwards ranges | each pair as often as asked | `SweepPlan` |
| **Pair lists** (`tools/pair_map.py`) | none | `derive`, flags | rounding, doubles, one-sided pixels | in the list once, or reported | `PairLists` |
| **Offline correlation** (`tools/sweep/offline.py`, `offset_tools.py`) | none | offset, strays, segments, blocks, chip shifts | the edges of all of these | the pieces add up to the whole | `OfflineStamps` |
| **Node GUI, synthetic source; benchmarks, plots, set-up scripts** | none that outlives them | - | - | - | not modelled |

How they interact.  A *control* TCP connection carries JSON commands from the
master's panel (or a sweep's `NodeLink`) to the node's command server and
status lines back; a *data* TCP connection carries the node's events to the
receiver's session loop.  The session loop calls the hooks of the pixel's
channel in the channel graph (a queue per channel is the only thing shared with
the data threads).  The Tk thread polls: `drain_all()`, then `release()`, whose
batch goes to a worker thread, the pool and the kernel; the result comes back
through `_result_q`.  The dwell calibration is the receiver-side observer that
starts a correlator session with `start_with_offset`.  The programs of a sweep
meet in files only.  `PROJECT.json` lists every part with its status, and under
`hazards` what is hard to test in it, at its line.

## 2. Modules

```
StallDetection ----> ChannelGraph ----> ChannelGraph_proofs
      |                   |  refines
      |                   v
      |              PairCorrelation   (abstract: what the engine promises)
      +-----------> ChannelSpill ------> ChannelSpill_proofs

MCNode ----> NodePrograms ----> Node_proofs
              SendQueue  TModeIngest (both EXTENDS)
              TModeRows  LspadSession  RunControl (1 node)
MCMaster ----> MasterPrograms ----> Master_proofs
              RunControl (2 nodes, EXTENDS)
              NodeLaunch  ReceiverSession  MasterRun  RunRecord
MCCorrelator ----> CorrelatorPrograms ----> CorrelatorWindow_proofs
              CorrelatorWindow (EXTENDS)  ChipTracking
              MarkerLevels  PairLists  (by MCCorrelator, with the two below)
              PairPool --EXTENDS--> PairKernel <--EXTENDS-- OfflineStamps
MCSweep ----> SweepPrograms ----> Sweep_proofs
              SweepCampaign (EXTENDS)
              SweepRound  RecordSweep  SweepPublish  OffsetFiles  SweepPlan

SequenceLaws ----> ChannelSpill_proofs  Node_proofs  CorrelatorWindow_proofs
RunControl_proofs (instanced by Node_proofs)
```

**The sums.**  The machines of one program share nothing but what the tables
above say, and each is checked on its own.  `NodePrograms`, `MasterPrograms`,
`MCCorrelator` (with `CorrelatorPrograms`) and `SweepPrograms` put the machines of one
program into one specification: a behaviour is one of a single machine, chosen in `SumInit` and
named by `part`.  The central machine of a program is EXTENDed, with its own
variables (`SendQueue` and `TModeIngest`, `RunControl`, `CorrelatorWindow`,
`SweepCampaign`).  The others come through `INSTANCE ... WITH`, with
variables of their own too, named as in the machine, with a prefix where two
machines share a name; only the four machines of the correlator that compute on
data (`MarkerLevels`, `PairPool`, `PairLists`, `OfflineStamps`) share the slots `x1`,
`x2`, ... as their variables.  What a behaviour does not
use stays as it is initially.

Outside the slots a machine starts in its `Init`, whatever the
`part` (but for `TModeRows` and `SweepPlan`, whose initial states are their
inputs), so its properties hold in every behaviour of the sum and are stated without a
guard; these are what the theorems state.  The properties of a machine that lives in
slots, `RowsTrue` and `PlanSound` are guarded by `part`.  Each says exactly what the
machine's own properties say.  `SumNext` is the disjunction of the machines' own
`Next`.  One run then answers for one program.  Where a machine's module states
its liveness itself (`StopEnds`, `LoopEnds`, `LostControllerStops`,
`LaunchDecided`, `AcceptsAgain`, `CalibrationDecided`, `MonitorEnds`,
`DeadTrackerTold`, `PoolReturns`, `Decides`, `Resumes`), that is the readable form
of what the sum restates per part.

`map` in `PROJECT.json` names the lines behind each definition.

Correlator:

* **StallDetection** (`_refresh_exclusions`, watermarks, ages).  Constants for
  pixels, pairs and thresholds.  `DeadNow`, `LaggingNow` are operators: the code
  stores `excluded`/`lagging` on the channels but recomputes both at the top of
  every `release()`, the only reader.  `quiet[c]` is `now - last_arrival` in
  ticks, saturating one above the largest threshold it is compared with.
* **ChannelGraph** (RAM buffers).  `queue[c]` is the hook queue, `held[c]` is
  `pending` and `arr` together.  Actions: `Arrive` (a data thread's hook), `Tick`
  (the clock), `DrainAll`, `Release`, `Start`, `Stop`.  `Release` is the whole
  `release()`: exclusions, `_would_release`, the cut of every node-1 buffer, the
  batch, then the trim of the node-2 buffers against the buffers as cut.
  `delivered` and `counted` are history variables.
* **PairCorrelation** (abstract).  No buffers: every node-1 event is settled
  once, and settling counts all its coincidences with everything its partners
  delivered; only when every partner has passed it, unless the pair has a
  channel that was reported dead.  `ChannelGraph` refines it
  (`Implements`, with `settled = delivered \ held`).
* **ChannelSpill** (disk tail).  A buffer is a record of sequences: `files`,
  `arr`, `pending`.  `Release` follows the stages of `release()`:
  `Reloaded`, `Merged`, `Cuts`, `Snapshot`, `Trimmed`, `SpillOverflow`.
  `Bisect` is the bisection of `numpy.searchsorted`, because the order of the
  events is what is in question.
* **CorrelatorWindow**.  The graph is the set `held` of units not yet
  released; a unit carries the era (the time between two clearings) it arrived
  in.  Tk callbacks are atomic (`Enable`, `Disable`, `Reset`,
  `StartWithOffset`, `Tick`, `PollResults`); the worker's steps `WorkerBegins`,
  `KernelChunk`, `WorkerPosts`, `WorkerEnds` interleave with them.
* **PairKernel**, **PairPool**.  The sweep, the neighbours of `n_shift`, the
  binning and the cut into chunks as operators; the pool submits chunks in a
  bounded window, workers finish them in any order, the caller consumes them in
  the order of submission.  The properties compare with all neighbours of the
  whole arrays, found without the pointer.
* **ChipTracking**.  Which nodes are tracked, the marker queues, the fresh
  trackers of a session and the one-time question about a dead one; a tracker is
  the set of markers it was fed.
* **MarkerLevels**.  The tracker itself: `Feed` in chunks of any size,
  matching, level, satellites, candidates, confirmed jumps and their
  refinement, against what the chips really did (`world`).
* **PairLists**.  `derive` in all its modes, over files, masks and fits, and the window's Derive
  while nodes are launched with other masks.
* **OfflineStamps**.  `estimate_offset`, the strays, and the correlation
  segment by segment, block by block, raw and with the displacements taken out.

Node:

* **SendQueue**.  `pc` is the place of `run()`: `loop`, `marked` (a marker was
  parsed in this round), `put` (blocked in `sq.put`), `join`, `join_thread`,
  `done`.  The sender thread has its own steps `Get`, `Send`, `SendFails`.
  Events of a key are numbered, so order and loss can be stated.
* **TModeIngest**.  A row is a position of the stream a chip records; file `i`
  holds the rows `i*FileRows+1 ...`.  `Resets` are the rows that are
  coarse-counter resets, whose `<seq>` field is modulo `Wrap`.  The loop's
  micro-steps (`loop_pc` is the place of `run()`, `loop_stop` its `stop_event`,
  `loop_bufs` the send buffers it appends to) are separate actions because lSPAD and the pool run between them:
  `Poll`, `MeasureFile`, `CheckRotated`, `Dispatch`, `Reassemble`, `NextChip`;
  `Work` is a pool thread, `WriteRow` and `LspadEnds` are lSPAD.
* **TModeRows**.  its initial state chooses what a detector saw and derives what it
  recorded (wrapping counts, wrapping reset numbers, one reset row possibly
  lost); the files are any cut of the rows.
* **LspadSession**.  lSPAD answers in order but late; the node takes what has
  come when its input is quiet; both may be restarted.  The commands `T,v` and `T,c`
  are `"Tv"` and `"Tc"` in the module.
* **RunControl**.  Master: `panel`, `session_active`, `pending_mode`,
  `data_conn`, `write_mode`, `locked` are the fields of the panels and of the
  window.  Node: `handled` (`_handle_controller` runs) and `acq`, its
  acquisition threads with their stage `connecting`, `streaming` or `ending`
  (the terminal status is sent, the thread still alive).  Between them the
  control connection (`link`, `cmds` down, `status` up, in order; a break keeps
  some prefix of both) and the data connections not yet accepted (`backlog`).
  One action per Tk callback, per step of the reader and accept threads, and
  per step of the node's handler and acquisition threads.

Master:

* **NodeLaunch**.  A launch thread with one step per remote call; the GUI
  queue `gui` with the epoch each message carries; shutdown threads; on the
  node lSPAD, the mask in the detector and node.py.
* **ReceiverSession**.  The accept thread and the session loop with its frames;
  the marker selector; the files by the connection they were opened in.
* **MasterRun**.  One action per callback of the event loop (`loop` holds
  the waiting ones with their run number); data threads, readers and monitor
  threads beside it.
* **RunRecord**.  `RunLog` with a thread between its tests and its append; the
  latches, the chip-stall question and the lock of the write choice.

Sweep:

* **SweepRound**.  The main thread, the background correlation, and per node
  the accept thread, the control reader and the acquisition.
* **SweepCampaign**.  The main thread's three writes as steps, with a crash or
  a power cut between any two, and the status board with its mirror.
* **RecordSweep**.  The steps of a recorded round and the driver over the masks;
  what a restart finds is what is on disk.
* **SweepPublish**.  `wait`, upload and `mark` against a sweep that goes on.
* **OffsetFiles**.  The three tools that touch a node's calibration, killed at
  any step.
* **SweepPlan**.  From a request to a plan; one step, checked over many requests.

The modules named `_proofs` and **SequenceLaws** hold the theorems of section 6
and the lemmas they rest on.  The operators headed
"Mutants of the definitions below" are plausible slips of the code (a dropped
window, a missing reset, a file not deleted).  Substituted for the definition
of the same role, each makes the property named for it in `PROJECT.json` fail,
which shows that the property depends on that piece of code.

## 3. What is checked

| Run | Configuration | Shows |
|---|---|---|
| `channel_graph_crossed` | three pairs over 2 x 2 pixels, 6 photons | each coincidence counted once (`CountedOnce`), none of a pair never reported dead is lost (`NothingLostSilently`), buffers forget only what no coincidence can need (`SafeToForget`), the merge-free decision agrees with the cuts (`WouldReleaseExact`), and the graph refines `PairCorrelation` (`Implements`) |
| `spill_shared` | two pairs sharing a node-2 pixel, 7 photons | spilling conserves events (`Conserved`), caps RAM (`RamCapped`), and loses nothing while the files are in order (`NothingLostInOrder`) |
| `node` | `MCNode`, five machines | the table below |
| `master` | `MCMaster`, five machines | the table below |
| `correlator` | `MCCorrelator`, six machines | the table below |
| `sweep` | `MCSweep`, six machines | the table below |
| `spill_loss`, `send_queue_hang`, `window_mid_edit`, `window_cleared`, `window_saved_diffs`, `calibration_late_chunk` | one machine each | violated (section 7) |

| Run, property | Part | Conjuncts, as the machine's module names them |
|---|---|---|
| node `StreamSound`, `KeyEndAfterEverything` | `send` | every event parsed is on the wire or on its way once, in order; a session that ended with `KEY_END` lost nothing |
| node `EpochsTrue`, `FilesReadWhole` | `files` | `EpochsTrue`, `NoFalseMismatch`; `DeletedOnlyIfRead`, `EndedComplete` |
| node `RowsTrue` | `rows` | `TrueTimes`, `MismatchExact` (a lost reset row is met at the next one, never earlier), `FiledOrReported` |
| node `MeasurementIsOwn` | `lspad` | `OwnRunDir`, `BegunCalibrated`, `WholeReply`, `NotWedged` |
| node `RunControlSound` | `control` | `OneAcquisition`, `IdleIsTrue`, `EachConnectionItsLoop` |
| node `WhatStoppedEnds` | `send`, `files`, `control` | a stopped session, a finished T-mode loop and an acquisition without a controller end |
| master `RunControlSound` | `pair` | `OneAcquisition`, `IdleIsTrue`, `EachConnectionItsLoop`, for two nodes, and `NodesAgreeOnWriteMode`: both nodes of a run write their time stamps or neither does |
| master `LaunchSound` | `launch` | `AbortStays`, `MaskInUse`, `OneNodePy`, `FailureCleansUp` |
| master `ReceiverSound` | `receive` | `OneRunInDirectory`, `EndedComplete`, `LiveIsOffline`, `NeverMixedBack`, `OwnMarkers` |
| master `CalibrationSound`, `OncePerRun` | `calibrate` | `CalibratedOnTappedData`, `CalibrationKeepsItsData`; the action property `OwnCallback` |
| master `RunLogSound` | `log` | `RunLogWhole`, `LoggedOnce`, `LatchesOfThisRun` |
| master `MasterGoesOn` | `launch`, `receive`, `calibrate` | a launch is decided, the accept loop accepts again, a run is calibrated or superseded, a monitor measurement is saved |
| correlator `WindowSound`, `BatchesLand` | `window` | a unit is in the graph, with the worker, in the result queue, counted once or reported; the action property `Lands`: it does not leave the worker or the queue in any other way |
| correlator `TrackersSound` | `tracking` | `TrackersOfThisRun`, `AskedOnce` |
| correlator `LevelsTrue` | `levels` | `ChunkingIrrelevant`, `JumpsTrue`, `ShiftTrue` |
| correlator `PoolIsWholeArray` | `pool` | `PoolIsWholeArray`, `DiffsRebin`, `SweepIsSearch` |
| correlator `PairListTrue` | `lists` | `AnsweredOnce`, `NearestPartner`, `ActiveAccounted`, `StallsFlagged`, `SharedShown`, `PairsOfThisMode` |
| correlator `OfflineIsWhole` | `offline` | `RawIsWhole`, `CorIsWhole`, `StraysGone`, `OffsetNotPulled` |
| correlator `NothingStaysBusy` | `window`, `tracking`, `pool` | the worker ends and its result is taken; the pool returns; a dead tracker is told |
| sweep `RoundSound` | `round` | `CalibratedOnOwnSession`, `FlagMeansSession`, `EverythingCounted`, `RecordedMeansDone` |
| sweep `CampaignSound` | `campaign` | `RecordHasItsFiles`, `NoRepeat`, `EveryRoundAccounted`, `FinalStatusTrue` |
| sweep `RecorderSound` | `record` | `AnalysedWhole`, `ArchivedIsThisAttempt`, `RawKeptUntilResult`, `DeletedSavedOrCut`, `EveryRoundAccounted`, `LspadClosed` |
| sweep `PageSound` | `publish` | `DoneMeansAll`, `MarkedIsHeld`, `EveryLineCarries` |
| sweep `CalibrationKept` | `offsets` | a calibration put aside is whole on the node or in the backup folder |
| sweep `PlanSound` | `plan` | `EveryPairOnce`, `AutoIsRunnable`, `DummyIsDark`, `LongEnough`, `PlanFileSame`, `FilesApart` |
| sweep `SweepEnds` | `round`, `campaign` | the attempts come to an end; running the command again ends the sweep |

Each machine's type invariant is a conjunct of the first of its properties.

`CHECK_DEADLOCK FALSE` is used where the system may really stop: pixels record
a finite number of photons, eras, runs, sessions and faults are bounded, a
measurement or a plan is over when it is over, and a session of `SendQueue`
whose sender died does stop (that is the finding).  That nothing stops before
its end is what the liveness properties say.

## 4. Bounds

* *Channel graph*: `Photons` fixes the stamps a pixel may record (0..3), each
  pixel may skip its first ones (it joins late) and stop after any.
  `Tmax = 1`, `Grace = 1`, `IdleAfter = 0`, `Tolerance = 1`: with stamps up to 3 there are
  photons inside the window, on its edge and outside it; a pixel can be quiet, dead,
  lagging or back; the array can be idle.  `Chunk = 1` makes the capped
  drain of a dead partner's backlog take several releases.  The three pairs give a node-1 pixel with two
  partners and a node-2 pixel with two partners at once, with a pixel in
  neither other pair.  Larger instances are what the theorems are for.
* *Disk tail*: the RAM tail is one event, so two held events already spill.
  `IdleAfter` below the age after which a channel is dead keeps the same order
  as the defaults.
* *Node*: `QueueMax = 2` of the send queue is reached with one blob in the
  sender's hand and one more waiting in `put`; `MaxEvents = 4` (3 for the
  violated run) lets a key be split over four blobs.  Files: `FileRows = 2`,
  `MaxRows = 5` gives a full file, a rotation and a part file per chip; `Wrap = 3` is
  passed by the resets within the stream; `MaxInflight = 2` lets one chip take
  the whole allowance.  Rows: up to three events over more epochs than the reset
  number has values, with every cut into files and every lost reset row.
  lSPAD: three sessions, one restart and two faults are an earlier run, the
  one in question and one after a fault.  Control: three runs are a run, the
  one whose START meets the end of it, and one after; two launches are a lost
  link and the return of the node.
* *Master*: two nodes, two runs and one launch for the write choice, which can be
  toggled before, between and after the accepts; two launches with two mask
  refreshes and two faults; two connections with two chunks and one fault; two
  runs, two dwell chunks and one monitor measurement (a chunk of the run before
  and one of the new one); three runs and three lines of one foreign thread.
* *Correlator*: two clearings (a worker may outlive two of them) and 2 units per
  era (a release may take part of the data); two sessions of two markers; ten
  markers with no jump or one, none to two satellites and one or no marker missing,
  in chunks of up to two; all streams of no or three starts against no or four
  stops over stamps inside, on and outside the window, chunks of two starts; a
  detector of four pixels with fits on exact halves and slopes of either sign;
  six markers with up to half displaced, files of five stamps and runs of one or two
  strays, jumps at, before and after each block's edge.
* *Sweep*: two nodes, two attempts, one fault, two units per session; a campaign
  of two rounds with two crashes and a power cut; two masks (two rounds and one)
  with two faults and one crash; two rounds measured twice, one death; two
  nodes, two calibrations and two kills; a six-pixel detector with overlapping,
  backwards and repeated ranges and all options of grouping, order and dummies.

## 5. Fairness

Fairness is asked only of threads that run on their own, never of a user, a
link, a fault or data that may not come.  In the sums, machines share weak
fairness conditions: a behaviour is one of one machine only, so
`WF(A \/ B)` with `A` and `B` of different parts means `WF(A)` in the one and
`WF(B)` in the other.

* `send`: the teardown steps of `run()`, the sender, and leaving the loop once
  `stop_event` is set (the loop tests it every round).
* `files`: the loop's steps and the pool; lSPAD's end only while
  `stopping`: it answers the STOP it was sent.
* `control`: the node's threads (reading commands, ending the handler, an
  acquisition that was stopped or whose time is over) and the panel's accept
  thread.  That a stopped acquisition ends is the subject of `send`.
* `launch`: the launch threads, in which every wait has a time limit, and the
  event loop.  `receive`: the accept thread and the session loop.  `calibrate`:
  arming, the callbacks of the event loop, the 20 s timer, the monitor thread and
  its exposure time.
* `window`: the worker, and the two Tk polls, which re-arm themselves with
  `after()` in every case.  `tracking`: the poll and the time limit of
  `CHIP_NO_MATCH_S`.  `pool`: the workers and the caller.
* `round`: the main and background threads, time, and that what a node has sent
  arrives.  `campaign`: the main thread, and that somebody runs the same command
  again after a crash; a torn last line of the records is excepted (section 8).

## 6. What is proved

TLC checks small instances; the theorems below hold for every value of the
constants that satisfies the assumption named with them.  TLC evaluates each of
these assumptions on the runs.  Every module `X_proofs` defines an inductive
invariant, shows that it holds initially and that each action keeps it (a
lemma per action, or a step per action), and derives the properties from it.  The
inductive invariants were checked by TLC on the instances of section 4 before
they were proved.

**ChannelGraph_proofs** (`GraphAssumption`: the pixels of the two nodes are
disjoint, pairs are between them, stamps and thresholds are natural numbers, a
chunk is positive): `TypeCorrect`, `OnceOnly` (`CountedOnce`), `ForgetsSafely`
(`SafeToForget`), `LosesNothingSilently` (`NothingLostSilently`), `Refinement`
(`Implements`), `MergeFreeTest` (`WouldReleaseExact`).

`NothingLostSilently` is not inductive: that a released event misses no
coincidence depends on what its partner has *forgotten* already and on what it
can still *deliver*.  The invariant therefore joins the type invariant with: the
queue and the buffer of a channel are newer than what it delivered before;
`held` is part of `delivered`; `last_ts` is the newest delivered event; the
coincidences counted are of settled events; and `SafeToForget`.  A release then
goes through in two halves.  An event that is cut now finds every partner event
of its window in `held` (by `SafeToForget` nothing in its window was trimmed) and
none can come later (the watermark has passed).  An event cut earlier gains no
coincidence, because deliveries are newer than the watermark it was settled
against.  Trimming keeps `SafeToForget` because `Keep` is evaluated against the
node-1 buffers after their cuts.  `Refinement` maps `DrainAll` to `ADeliver`,
`Release` to `ASettle`, `Start` to `ARestart`, and the rest to stutters.
`MergeFreeTest` needs that a buffer of natural numbers has an oldest event
(`OldestExists`): `_would_release` then looks at the event the cut starts with.

**ChannelSpill_proofs** (`GraphAssumption`): `BuffersAreTyped` (`TypeOK`),
`NothingLostOnDisk` (`Conserved`), `KeepsPromiseInOrder` (`NothingLostInOrder`),
`TailIsCapped` (`RamCapped`).  `SpillInv` adds to `Conserved` that no spill file is empty and that a
channel holds events of its own.  The proof follows the stages of `release()`:
reload, merge, cut, trim, spill.  Each of them is shown to rearrange the
contents of a buffer (files, `arr`, `pending` in this order) or to cut a piece off.  It
assumes nothing about the order of the events, because finding `spill_loss` shows that
there is none; so it says what a reload out of order can *not* do, which is lose
or repeat a node-1 event.  The place the bisection of such an array returns lies
inside the array, and the event before it compares less than the one searched
(`BisectFinds`, by the least interval that fails).

`KeepsPromiseInOrder` is the retention promise of `ChannelGraph` for buffers that
live partly on disk, as long as `inOrder`.  `OrderInv` adds to `SpillInv` that
`last_ts` is the newest event drained, that while `inOrder` every buffer is
sorted, and for a pair never reported dead: the node-2 watermark has passed what
was released (`Passed`), and a node-2 event no longer held is `Tmax` before every
node-1 event held or to come (`Forgotten`).  In a sorted array `BisectFinds` makes
the cut and the trim mean what they are meant to (`BisectCuts`, `CutPasses`,
`KeepSpares`).  A reload then puts the files before all of RAM (`ReloadOrder`),
and `merge` and `spill` leave the contents as they were (`MergeOrder`,
`SpillOrder`).  Where a node-1 event is handed over the node-2 files are all back,
so that the kernel sees everything not yet forgotten (`OrderedStages`).

**Node_proofs**, the streams (`SendQueueAssumption`: at least one pixel or marker, a
positive queue size): `NothingOvertaken` (`StreamSound`), `KeyEndIsTrue`
(`KeyEndAfterEverything`).  The invariant `LanesWhole`: the wire, the sender's
hand, the queue, the blob `run()` is blocked with and the buffers of a key
concatenate to `1 .. n`.  It needs `Counted` (`unfinished` is the
length of the queue and one more while the sender holds a blob), without which
`join` could return early, `HandsEmpty`, `Drained` (after the joins nothing is on
its way) and `ToldAtEnd`.

Files (`TModeAssumption`, a hypothesis of the theorems, which
`MCNode` evaluates in `NodeAssumption`): `OffsetsAreTrue` (`EpochsTrue`: `LoopTypeOK`,
`ShiftsTrue`, `NoFalseMismatch`) and `NothingLeftUnread` (`FilesReadWhole`:
`DeletedOnlyIfRead`, `EndedComplete`).  Beyond the places of the loop (`Loop`), the invariant says of a
chip: files are dispatched and appended in order; a dispatched file will not grow
any more, so the result of the pool is of the whole file; and
`accumulated_offset` counts the resets in the rows of the files reassembled.  That
the next file's first reset continues that count modulo `Wrap` is the lemma on
cardinalities that `ShiftsTrue` rests on.

`MeasurementOwn` (`MeasurementIsOwn`, under `NodeAssumption`) is about the dialogue with lSPAD, in which
answers come late and sessions leave commands, folders and streams behind.
`LspadInv` has one conjunct for each thing a session relies on.  Commands are
answered in order (`InTurn`), so the echo of `D` tells that nothing
asked before is left, and from there on the commands on their way are the session's own
(`CommandsLeft`, `AnswersLeft`).  Every `T` on its way will meet a valid
calibration (`WillBeCalibrated`).  lSPAD's Run counter is below the session of every
`T` on its way (`RunNumbers`), which also bounds it.  The folder waited for is new,
and under a new name unless lSPAD started over among old folders (`OwnFolder`).  The
rows read and the rows on their way are at most those lSPAD has sent of this reply,
so the last row is never taken early (`OwnRows`).  It rests on `Pauses = FALSE`
(section 9).

`PanelIsSound` (`RunControlSound` of the node) is `ControlIsSound` of
`RunControl_proofs` for the node's own server and panel, which are a run control
of one node.  The proof shows that the node implements that specification.

**RunControl_proofs** (`RunControlAssumption`): `SessionsShown` (`TypeOK`,
`OneAcquisition`, `IdleIsTrue`) and, under `PromptAccept`, `ControlIsSound`
(`RunControlSound`, which adds `EachConnectionItsLoop` and
`NodesAgreeOnWriteMode`).  `Sequel` says where a session is: a START
under way, an acquisition thread, or a terminal status on its way back; never two
of them, so an idle panel has none.  `Reading` says what the panel and the
accept thread know of the run whose connection they take.  Without `PromptAccept`
the second theorem is false: a connection accepted after its acquisition is over
is read by the loop of the next START (section 8), for which TLC needs three runs.

**Master_proofs** (`MasterAssumption` of `MasterPrograms`: the assumptions of its
machines) has a theorem for each of the master's machines, about the
specification that `MCMaster` runs.

* `LaunchIsSound` (`LaunchSound`).  What a launch thread, a mask refresh or a
  posted callback carries is of an epoch that was given out (`Epochs`).  While no
  launch ran on past its epoch, one of these has the node: the thread
  (`Working`), the callback that connects (`ToConnect`), the connection
  (`Connected`) or what ends it (`Closing`), and whoever has it holds the credentials (`Held`).  That the mask
  shown is the mask in use needs the count of the masks sent (`MasksCounted`).
* `ReceiverIsSound` (`ReceiverSound`).  What was read of a key is what was sent of
  it up to the chunk that comes next, and what was sent is not lost unless
  the link broke before the end was read (`ReceiveGot`, `ReceiveWay`); the files and the
  marker queue are of the connection that is read (`ReceiveFiles`, `ReceiveKinds`).
* `CalibrationIsSound` (`CalibrationSound`) and `CalibratedOnce` (the action property
  `OncePerRun`).  What a node has sent, what its data thread has queued and
  what was drained are of the runs they say, in order (`LanesInOrder`); a run is armed once
  and its callbacks carry its number (`ArmedOnce`); with the taps set in time, only
  data of the run's own gets to the fit (`TappedOnly`, `NoneSpoiled`).
* `RunLogIsSound` (`RunLogSound`).  A line is in the file, on its way to it, or kept
  from before the file was open, and in one of them (`LogPlaces`); the lines of the event
  loop are all there, in order through the three (`LogOrder`).

**CorrelatorWindow_proofs** (EXTENDS `CorrelatorPrograms`). Of the window
(`WindowAssumption`): `NothingLostOrDoubled` (`WindowSound`) and the action property
`EveryBatchLands` (`BatchesLand`). `OneWorker` and `PostedIsEmpty` (a worker that has
posted holds nothing) are what the flag `_correlating` stands for, `OfNow` and
`ToCome` say of which era a unit held by the graph or yet to arrive is, `OnePlace`
that its places exclude each other.

Of the tracking (`TrackingAssumption` of `ChipTracking`): `TrackersAreSound`
(`TrackersSound`), of `Chips!Spec`, the specification of the machine.  A queue holds
markers in the order they were sent, of this session or of earlier ones
(`ChipQueues`).  When the trackers are made, the first marker of this session is in
the queue of each input that is tracked (`Calibrated`); what lies before it is
older, so time goes back there and `_session_tail` cuts at that place or later
(`TailIsOfThisSession`).  From then on only markers of the session come in
(`QueuesOfThisRun`), until the session number leaves the trackers behind.

**Sweep_proofs** (`SweepAssumption` of `SweepPrograms`: the assumptions of its
machines) has one theorem for each machine of the sweep but `SweepPlan`.  Each
machine is proved alone first (`CampaignIsSound`, `OffsetsAlone`, `PageAlone`,
`RoundAlone`, `RecorderAlone`, each of the machine's own specification).  In the
sum a step is one of that machine or leaves its variables as they are (`StepOfEach`),
so each machine runs its own specification there (`EachInSum`); with that the
theorems below are about `SumSpec`, the specification that `MCSweep` runs.

* `CampaignIsSound`, `CampaignInSum` (`CampaignSound`:
  `RecordHasItsFiles`, `NoRepeat`, `EveryRoundAccounted`, `FinalStatusTrue`).
  `RecordHasItsFiles` speaks of the records after a crash; the invariant has to
  say which write the main thread is at, what the versions of the files on disk
  can be there (`NewerFiles`: newer than the record, never older), and what a
  power cut can take of them (`InHand`), for the campaign, for a restart and for
  the mirror alike.
* `CalibrationSurvives` (`CalibrationKept`).  The tools
  are killed between any two steps and run again.  The invariant ties what a tool
  knows to where it is: whoever is about to upload zeros has the file of the node
  in a backup already, and a restore uploads what the newest backup holds.
* `PageIsTrue` (`PageSound`).  The page is
  built from the records and lags behind them, and the sweep may die or be started
  again meanwhile.  `SeenComplete` says that a status read as complete still is one
  unless the sweep is to be started again, `LineOfRounds` that the rounds of a line
  are not uploaded before the page is built and are on the page when they are marked.
* `RoundIsSound` (`RoundSound`, under `Settled`).  `Sessions`
  says what each terminal status and each cleared flag means for the acquisition
  of its node, so that a round leaves the poll only when every node ended.
  `Added`: while nothing is lost, the histograms and the batches in the hands of
  the two threads that add are the units released.  `LastPoll`: the last poll of the
  tail finds everything delivered and releases it.  Without `Settled` the
  theorem would be false: the tail is a number of polls, not a wait for the data.
* `RecorderIsSound` (`RecorderSound`).  `RawWhole` says what
  a raw folder can hold at each step of a round, `ListsTrue` what the lists of the
  driver stand for, `CampaignsAccounted` that the campaigns behind the
  driver are finished or listed as failed.

**SequenceLaws** holds what these proofs need of sequences: concatenation, the set
of elements, prefixes and suffixes.  No induction over data is available to these
provers; where one would be natural the proofs use the least number that fails
(`Least`, from the well-ordering of the natural numbers)
instead.  Concatenation is kept opaque (`Cat`, `Plus`) where only its laws are
needed.

**Only model-checked.**  All liveness properties (`WhatStoppedEnds`,
`MasterGoesOn`, `NothingStaysBusy`, `SweepEnds`): reasoning under fairness is out of
the prover's reach.  The recursive algorithms (`PairKernel`, `MarkerLevels`,
`PairLists`, `OfflineStamps`, `SweepPlan`), whose results for every input are
induction over data; `PairPool`, which EXTENDS the first of them; `TModeRows`, whose
rows are such data too (`RowsTrue`).

## 7. Findings

Each is a violated run: a property that states what a comment or a test of the
repository says.

* `spill_loss`: "lagging (nothing lost)" (`correlate_engine.py:1025`).  The
  files do not stay chronological (a comment at line 146 says they do):
  `_reload_ready_spills` brings the files up to the limit back to `arr`; if the
  next file starts beyond the limit nothing is released, and `_spill_overflow`
  at the end of the same `release()` spills the older prefix again, after the
  newer file.  `earliest()` is then too new; a shared node-2 channel is
  trimmed too far and coincidences are lost although no channel was excluded.
* `send_queue_hang`: the sender marks the blob it holds and returns; blobs
  still queued are never marked, and `sq.join()` waits for ever
  (`node_backend.py:930`).
* `window_mid_edit`: "retry next poll" (`correlate_multi.py:1081`): the batch
  has already left the graph.
* `window_cleared`: "Data cleared." (`correlate_multi.py:814`): a worker in
  flight puts the old data into the cleared histograms.
* `window_saved_diffs`: the `.npz` saved at disable may hold differences whose
  events are in no histogram row (`correlate_multi.py:875`).
* `calibration_late_chunk`: "a late chunk from a superseded run must not
  calibrate the new one" (`master.py:1545`): the callback is for the right run,
  but the dwell queue it empties may hold the chunks of the session before,
  still being read when the next START was given.  `CalibratedOnTappedData`
  holds where all taps were set when the calibration was armed.

## 8. Observations that have no run

What the models showed, or were made to leave out, beside the findings; each is
a place where a comment says more than the code does or a rare order of events has
a cost.

* A launch that fails after its Abort still calls `_trigger_remote_shutdown()`,
  without the epoch test of its other outcomes, though "its eventual result is a no-op"
  (`master.py:719-721`, `744`, `748`): it takes down the lSPAD of the launch that
  followed.  `LaunchSound` excepts the launches during which that happens (`ran_on`).
* `_session_active` of a panel whose link broke in mid-run, or whose START was answered
  `busy`, stays set until the node is disconnected by hand.
* The last bin of a histogram reaches a bin width past `tmax`, but a chunk is
  given node 2 only to `tmax + 1`: differences in that last bin are counted by the
  whole array and not by chunks, against "the result is identical to the
  whole-array run" (`correlate_kernel.py:226-230`).  `PoolIsWholeArray` compares up
  to `tmax`.
* "Any change of input invalidates a pair list" (`correlate_multi.py:505`): a
  change of mode does; a new mask or file does not.
* With a data connection that is accepted only after its acquisition is over
  (`PromptAccept = FALSE`: the accept thread is still writing the previous run's
  backlog), the next START changes the loop it is read by.
* An exception in the background correlation of a round ends its thread without
  being seen by the round, which is recorded without that batch
  (`tools/sweep/run.py:98-103`).  A first `connect` that fails and is retried
  binds the data port again (`nodes.py:86-93`).
* `mirror_error` is set after the status has been written and copied, so a status
  carries the error of the copy before it (`rounds.py:363-372`).
* A death in the append leaves half a line, and `load_records` then raises at
  every start (`rounds.py:261-262`); `SweepEnds` excepts it.
* Raw stamps go by `result.npz`, not by the record: a round whose process died
  between the two has no record when they are deleted (`record.py:30-31`;
  `DeletedSavedOrCut`).
* "a campaign that ends with failed rounds is recorded and the sweep goes on"
  (`run_masks.py:12`): a failed round leaves its data in the receiver's directory,
  the preflight of the next campaign refuses them, and the whole sweep stops.
* `uploaded` on the page (`publish.py:171`) is the rounds marked and those of the
  batch; a batch that was uploaded and not marked is missing from it.
* The record number reported for an abnormal row (`node_backend.py:874-882`) adds
  the rows of both chips before the file to the place among the rows of the file
  that are not resets: it is not the place in the chip's stream.
* The `.txt` of a round is named by its pair only: two rounds of one pair in a
  campaign overwrite each other's (`rounds.py:87-91`); `FilesApart` excepts that.
* Restoring the offsets pushes the first backup (`nodes.py:340`), not the
  newest.
* The bounds of a segment and of a block are searched in the raw file, strays and
  all (`offline.py:226-234`).

## 9. Abstractions, and what is not modelled

* A buffer of `ChannelGraph` is a set: the stamps of one pixel are distinct and
  increasing (a pixel has a dead time, and the code counts and warns of
  out-of-order chunks, `n_violations`; those are not modelled).  A release hands
  over all coincidences with `|t1 - t2| <= Tmax`; the kernel's `n_shift` cap on
  neighbours is in `PairKernel`.  The chip-offset correction of the released
  copy is in `MarkerLevels` (`ShiftTrue`) and `OfflineStamps`, not in the graph.
* `ChannelSpill` has one session and no hook queue (they are in `ChannelGraph`).
* `SendQueue`: a blob that fails half-way counts as not delivered, a link that
  went down stays down.
* `TModeIngest`: an ERROR reply, a closed socket, a dead process and "Data
  saved" all mean that no row follows.  lSPAD closes a file before it opens the
  next.  Rows truncated by a crash are in neither `TModeIngest` nor `TModeRows`:
  what half a row parses to (`node_backend.py:366`) is a matter of its digits.
* `LspadSession`: `Pauses = FALSE`, lSPAD does not fall silent inside the last
  row of a reply (the node reads until its input is quiet).  Settings
  that are sent and echoed are left out.
* `RunControl`: a launch takes seconds and kills the node.py of before
  (`ssh_launcher.kill_node`), so `Connect` starts from a fresh node, the old
  data connection is at its end and the old reader thread is gone.  A user acts
  when a data connection that can be accepted has been (`Settled`), and with
  `PromptAccept` a data connection is accepted before its acquisition ends.
  A soft stop and an abort are one command.
* `NodeLaunch`: what the shell commands do to a node is taken from what the
  launcher uses them for; their wording is left out.
* `ReceiverSession`: the table of an intensity session is one chunk; the frame
  header is read whole or the connection is broken.
* `MasterRun`: a chunk is one chip's dwell stamps, long enough for a fit; the
  fit itself is `estimate_offset` of `OfflineStamps`.
* `CorrelatorWindow`: the graph is a set of units of which a release takes any
  part; one pair stands for all; the diff capture is switched on.
* `MarkerLevels`, `OfflineStamps`, `SweepPlan`: integers instead of floats,
  with levels doubled so that a median of two is exact; the least-squares and
  Gaussian fits are not modelled.
* `SweepRound`: a unit can be correlated when both nodes delivered it;
  `Settled`: the data sent before the end have been delivered by the last tail
  poll (the code waits a few seconds for them).  Starting the programs
  on the nodes is one step.
* `SweepCampaign`, `RecordSweep`: an acquisition is one step, good or bad; the
  figures and statistics of a round are left out.
* `SweepPublish`: the upload is external; a document is the number of times its
  round was measured.
* Not modelled: `set_offset`, status reports and the deletion of spill files at
  reset; the synthetic source and the GUIs' drawing; cross-talk, co-adding and
  fits of the offline analysis; plots, benchmarks, set-up scripts; mask files
  and wavelength tables, which are inputs here.  `PROJECT.json` names what is
  missing of each part that is `partly` modelled.

## 10. Plan

Done: the engine's promise with its proofs, the disk tail, the node, the
master, the correlator and the sweep programs; the proofs of every machine of
these that is not a computation on data.  What would add most next:

1. An abstract run (idle, running, finishing) that `RunControl` implements.
2. The kernels on data, with a prover that has induction: that the sweep of
   `PairKernel` finds every neighbour, and that the chunks of `PairPool` are the
   whole array, for arrays of any length.
