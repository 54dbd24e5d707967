# A formal model of the synchronome

The repository takes photographs of a ticking clock, one per second, with a
camera that is not synchronized with it. It is a soft real-time program: five
services (threads) at fixed priorities and cores pass frames along a pipeline,
and an "internal clock" that counts frames is kept in step with the external
clock by image processing. This directory holds TLA+ modules that model the
program in `src/src/`, the TLC configurations that check them, and TLAPS proofs
of the properties that matter most. Paths below are relative to `src/src/`
unless they start with `doc/`.

Run from this directory: `tlc -config SpscQueue.cfg SpscQueue.tla` (likewise for
the others; the module of each run is in the table of runs), and
`tlapm M.tla` for each M of `ModArith`, `SpscQueue_proofs`, `FrameCycle_proofs`,
`TickParser_proofs`, `Synchronome_proofs`, `Camera_proofs`, `Program_proofs` and
`Log_proofs`.

## 1. Inventory

    sequencer --sem--> S1 capture --acq_queue--> S2 select --select_queue--> S3 convert
     (SIGALRM)          ^                          |                            |
                        |                          |                        rgb_queue
                     dumpster <----dump_frame------+                            v
                                                               write_to_storage
                                                       rgb_consumers_queue  |  ^ rgb_consumers_done
                                                                            v  |
                                                                       compressor
    main: starts all of them, then joins and stops them one after the other
    log thread: empties the queue that log_* of every thread fill

| Component | Source | State | Operations | Talks to | Correct means | Modelled by |
|---|---|---|---|---|---|---|
| spsc_queue | `lib/spsc_queue.h` | ring, positions, atomic `count`, two semaphores, `stop` | `push_start`, `push_end`, `read_start`, `read_get`, `read_stop_dump`, `set_should_stop` | every service, main | no slot used by two threads; FIFO; the stop protocol drains it and wakes the reader | `SpscQueue`, `BoundedFifo` |
| S1 acquisition | `exe/synchronome/frame_acq.c` | dumpster (ring buffer with a mutex) | `frame_acq_run`, `frame_acq_return_frame`, `set_camera_format` | camera, acq_queue, S2 | always has a buffer to fill; every buffer gets back to the camera | `FrameCycle`, `Camera` |
| S2 selection | `exe/synchronome/select.c` | window (a part of acq_queue), difference statistics, synchronization status, tick parser | `select_run`, `cleanup_frames`, `update_img_diff`, `synchronize`, `tick_parser` | acq_queue, select_queue, dumpster | one image per second, none twice, none of a moving hand; no selected frame is overwritten | `TickParser`, `ClockDrift`, `FrameCycle`, `SamplingRatio` |
| S3 conversion | `exe/synchronome/convert.c` | none of its own | `convert_run` | select_queue, rgb_queue | passes on everything selected; stays within its buffers | `FrameCycle`, `Synchronome`, `Image` |
| storage, compressor | `exe/synchronome/write_to_storage.c`, `compressor.c` | `rgb_consumers_done`, the archive | `write_to_storage_run`, `compressor_run` | rgb_queue, rgb_consumers_queue | the entry lent to the compressor stays; nothing is lost; every archive is closed | `Synchronome` |
| main | `exe/synchronome/main.c`, `exe/synchronome.c` | arguments, queues, `data.stop`, `camera_thread.sem`, threads and results, the timer | `main`, `synchronome_run`, `_init`, `_setup`, `_wait`, `_stop`, `_exit`, `sequencer`, `signal_handler` | all | sets up before use and tears down after; stops in the order of the pipeline; ends; reports failures | `Program`, `Synchronome` |
| camera | `lib/camera.c` | device file, mapped buffers, mode, owned frames | `camera_init`, `_exit`, `_set_mode`, `_init_buffer`, `_stream_start/_stop`, `_get_frame`, `_return_frame` | S1, the V4L2 driver | believes what the driver believes; releases everything | `Camera`, in `Program` |
| log | `lib/output.c` | queue, `queue_mutex`, `threaded_log` | `log_*`, `log_run`, `log_stop` | every thread, syslog | every message reaches syslog once | `Log` |
| ring_buffer | `lib/ring_buffer.h` | ring of a single thread | push, get, pop | S1 (dumpster), S2 (differences) | never overflows | a sequence in `FrameCycle`, a count in `TickParser` |
| time | `lib/time.c` | the timer | `time_add_timer`, `nsec_to_timespec`, `time_normalize_timeval`, `time_delta`, `time_add` | all | exact; the timer's period is valid | `TimeSpec`, `Program` |
| thread | `lib/thread.c` | none | `thread_create`, `thread_join_ret` | main | | `Program`, `Synchronome` |
| image | `lib/image.c` | none | `check_format`, `image_convert_to_rgb`, `image_diff`, `image_save_ppm` | S2, S3, storage, compressor | within the buffers, whatever geometry the driver sets | `Image`, in `Program` |
| tools | `exe/simple_capture`, `exe/statistics.c`, `exe/run_tests.c` | | sequential programs | camera, image | | the first two as one more client of `Camera` and `Image`, in `Program` |

What is hard here, and what the properties are for:

- **Frames are shared by reference** by S1, S2, S3 and the device. Nothing but
  the pace of the services protects a buffer that is being read.
- **The queue is lock-free**: `count` and the semaphores are updated one after
  the other, and `stop` is a separate flag that consumers test together with
  `count`.
- **Shutdown** relies on the order of joins and stops in `synchronome_wait`, and
  may start at any moment (SIGINT, enough frames, a failing service).
- **Setting up half way**: any of some thirty calls may fail. `synchronome_setup` goes
  on without a camera, `synchronome_wait` joins threads that were never created, SIGINT
  may come before there is anything to stop, parameters live on a stack that may be
  gone.
- **Failures in the middle of an entry**: a service may return between
  `push_start` and `push_end`.
- **Drift correction** is a discrete controller whose errors show after hundreds
  of frames.
- **Lagging and blocking**: full queues, a full log queue under a mutex, a
  camera that has no buffer left.

`PROJECT.json` lists each such hazard with its line and the properties that
cover it. Five of them no property covers, because the code does what one would have to
forbid; their note says where the models have it (section 3, "Outside the properties").

## 2. The modules

| Module | Lines of the code | What it is |
|---|---|---|
| `BoundedFifo` | - | abstract specification: a bounded FIFO between a producer and a consumer |
| `SpscQueue` | `lib/spsc_queue.h`, protocol of `convert.c`, `main.c:232-247` | one queue, one step per access to shared memory |
| `FrameCycle` (`MCFrameCycle`: symmetry) | `frame_acq.c:107-182`, `select.c:196-342`, `camera.c:571-650` | where every buffer of the camera is |
| `TickParser` | `select.c:163-626` | synchronization, internal clock, selection; detection arbitrary |
| `ClockDrift` | extends `TickParser` | the same with a drifting clock and a jittering camera in front |
| `SamplingRatio` | `select.c:309-327`, `main.c:179-191` | the float quotient that gives the frames per tick |
| `Synchronome` | `main.c:215-283`, the `_run` of each service | who waits for whom, shutdown, failures, deadlines, the archive |
| `Camera` | `lib/camera.c`, `frame_acq.c:184-235` | the camera against a device that may refuse or answer otherwise |
| `TimeSpec` | `lib/time.c` | arithmetic on `struct timespec`, as operators |
| `Image` | `lib/image.c` | the bytes a conversion and a comparison touch, as operators |
| `Program` | `exe/synchronome.c`, `main.c`, `thread.c`, `frame_acq.c:68-182`; extends `Camera`, `TimeSpec`, `Image` | from `main()` to its return: set up, threads, SIGINT, tear down |
| `Log` | `lib/output.c`, `main.c:263-271` | many writers, one log thread |
| `SpscQueue_proofs`, `FrameCycle_proofs`, `TickParser_proofs`, `Synchronome_proofs`, `Camera_proofs`, `Log_proofs` | - | proofs about the module of that name; `TickParser_proofs` holds those about `ClockDrift`, too |
| `Program_proofs` | - | proofs about `Program`, with `TimeSpec` and `Image`; extends `Camera_proofs` |
| `ModArith` | - | lemmas about `%` and `\div` |

Every operator under a comment "A plausible bug" is a mutated form of
the definition next to it. It takes no part in the specification; replacing the
definition by it makes the property it is listed with in `PROJECT.json` fail.

**SpscQueue.** `ppc`, `cpc` and `mpc` are the places of the producer, the consumer
and main. Each semaphore call, each change of `count`, of a position and of
`stop` is an action, because the code does them in sequence without a lock:
`read_stop_dump` moves `read_pos`, posts `write_sem` and only then lowers `count`.
The entry under construction holds `Incomplete`, so that the history `taken` shows
what the consumer really saw. `MayFail` lets either side return in the middle of
an entry. main sets `stop` when the producer has returned or failed. The history
variables `pushed` and `taken` serve only the properties and the mapping
`FifoSpec`, which hides the incomplete entry.

**FrameCycle.** The queue operations are single steps here (the finer interleaving
is `SpscQueue`'s). Buffers are in `owned` (the device), `grabbed` (S1), `acq_queue`,
or `dumpster`; `select_queue` holds references. The pace of the services is the
environment: `MaxBehind` bounds the frames the sequencer has asked for and S2 has
not read, `ConvertSlack` the frames S2 accepts while S3 works on one. S2's
selection is any window index from `MinSelected` on; that `tick_parser` selects
no other is `SelectedHasHeadroom` of `TickParser`.

**TickParser / ClockDrift.** One step is one frame through `select_run`, all calls
included: `cleanup_frames`, `update_img_diff`, `synchronize` and `tick_parser`.
The statistics are reduced to `tick_detected`. In `TickParser` that is arbitrary,
so the safety properties hold for any image; in `ClockDrift` it is decided by a
clock in units of 1/`SubSamples` frame. Times are multiples of the acquisition
interval. The direction of C's integer division and the unsigned arithmetic of
`select.c:562` are those of the code.

**Synchronome.** Each service is the loop of its `_run` with one step per queue
operation, semaphore wait or early return; main is `synchronome_wait` line by
line; SIGINT is `synchronome_stop` at any time. The queues are counters: contents
are `SpscQueue`'s and `FrameCycle`'s business. `archive` counts the acknowledged files
in the compressor's open archive, which exists only in memory until `zip_close`;
`compressor_cleanup` calls itself when that fails, which may exhaust the stack (main
is then `"crashed"`). `push_start` does not retry its `sem_wait`: a signal handled by a
producer that waits for room ends the process by `exit(1)` (`push_start_interrupted`, main
is `"exited"`). Both endings come at any moment they can, so that a property about
`"done"` says what `synchronome_wait` guarantees when it returns.

**Camera.** `dev_file`, `buffers`, `mode` and `currently_owned_frames` are the fields
of `camera_t`. The driver's own mode, queue and stream are separate, external
variables, so that the two views can disagree. `negotiate_format` yields the set of
its outcomes, with the driver answering `S_FMT` and `S_PARM` as it likes. After a
failed call the client may still ask for frames, because `main.c:360` ignores
the result of `frame_acq_init`.

**Program.** `main` is the place of the main thread, one per call that may fail; `thread`
the state of each thread from `thread_create` to its end. The calls of `frame_acq_init` are
the actions of `Camera`, whose state is part of this one, and S1 and S2 use camera and
dumpster here as they do in the code, so that a camera that is half set up meets threads
that do not know. The other services are threads that end when they are told to
(`service_ends`), fail over a frame (`service_fails`), or wait for ever because the one that
takes their entries has failed or waits itself (`service_hangs`); how full their queues are
is `Synchronome`'s. `push_start_interrupted` is the exit of a blocked producer,
`synchronome_stop_blocks` the SIGINT handler that waits for the `queue_mutex` its own thread
holds. A thread that reads its parameters after `synchronome_setup` has returned is recorded
in `garbage`. Joining a thread that was never created is undefined: `pthread_join` reports
it, or the process crashes. `args` holds the interval of the command line, and
`select_get_frame_acc_count` decides as its three assertions do, float division by zero
included; where a C conversion is undefined, every outcome is possible. `period_us` is the
32-bit product of `main.c:454`, modulo `UintSize`; a timer whose period comes out as 0 is
disarmed (`armed`), as is one that could not be created. SIGINT kills the process until
`install_signal_handler`, and is `synchronome_stop` from then on. With the capture command
(and likewise `statistics` and the tests) one thread does with the camera whatever `Camera`
allows and returns at the first call that fails, with the camera as it is then
(`capture_returns`); `convert_image` converts a frame of any geometry.

**TimeSpec, Image.** Pure operators. `carry` does at once what the loop of
`time_normalize_timeval` does second by second. `read_pos`, `write_pos` and `image_diff`
are index expressions of the code over the geometry `struct v4l2_pix_format` gives.

**Log.** Writers lock the mutex, wait for room with the mutex locked, fill, push;
the log thread is `log_run`. `log_error` leaves the text of the entry as it was, as
the code does. SIGINT's handler logs too.

## 3. The runs

| Run | Kind | What it shows | Bounds |
|---|---|---|---|
| `SpscQueue` | pass | `SlotExclusion`, `InOrder`, `GarbageOnlyAtEnd`, `CountExact`, `StopDrains`, `ConsumerLeaves`, refinement `FifoSpec` | 3 slots, 8 entries: the positions wrap more than twice, the queue is full and empty, each side may fail |
| `FrameCycle` | pass | `AssertionsHold`, `FramesConserved`, `WindowStable`, `SelectedStable`, liveness `BuffersCirculate` | 6 buffers, a window of 4 and the margin of 2, S2 up to 2 behind, S3 1 frame late: every place is empty and at its limit |
| `FrameCycleAssert` | violation | S2 3 behind: `assert(currently_owned_frames > 0)` aborts | as above |
| `TickParser` | pass | `AssertionsHold`, `OneSelectionPerTick`, `SelectedHasHeadroom` under any detection | s = 3, the least `select.c:316` allows; 7 ticks; the real inertia and sync threshold of 4 |
| `ClockDrift` | pass | `OneSelectionPerSecond`, `SelectedIsClean`, `InternalClockFollows`, `SelectsAllFrames` | s = 4, 40 ticks, drift up to 1/32, jitter up to 1/4 frame: the drift moves the phase by more than a frame both ways, so that the clock is corrected several times |
| `ClockDriftDirty` | violation | at s = 3 a dirty frame is selected | jitter 1/8 frame, no drift |
| `SamplingRatioExact` | violation | for 1/7 s and 1 s the float quotient truncates to 6 | 39 x 6 intervals with an integer ratio |
| `Synchronome` | pass | `TypeOK`, `StopAfterProducer`, `EntryHeldWhileCompressed`, `NothingLeftBehind`, `AcknowledgedAreArchived`, `FailureReported`, `ShutdownCompletes` | queues of 1 and 2 entries, archives of 2 files, S2 2 behind, one SIGINT, every service may fail, S1-S3 may miss a deadline |
| `SynchronomeHang` | violation | S1 blocked in `acq_queue_push_start` when S2 returns: main waits for ever | no failure, no signal, S2 3 behind |
| `SynchronomeDeadline` | violation | S1 misses its deadline: the program does not end | no other failure, no signal |
| `Program` | pass | `ProgramTypeOK`; of the camera: `OwnedAreQueued`, `ModeAsRequested`; of the program: `NoThreadOutlivesItsData`, `FramesNeedDumpster`, `GarbageIsHarmless`, `TimerPeriodValid`, `SuccessMeansSetUp`, `ReturnsClosed`, liveness `SigintEndsProgram`; of the images: `ImagesInBounds` | 2 formats, 1 size, 2 intervals of which one is too long, 2 buffers asked for and up to 3 granted; fractions 0..3 / 0..1 with a millisecond of 1/2 s, and an unsigned int of 3 bits that the product wraps; one SIGINT, one post of the timer outstanding; images of up to 3 x 2 pixels with a byte of padding |
| `Log` | pass | `AllLogged`, `InOrder`, `Terminates` | 2 services with 2 messages each, a queue of 2: it fills, two writers wait for it |

The type invariants of `Synchronome` and `Program` (which includes that of `Camera`) are
checked and proved, those of `SpscQueue` and `FrameCycle` proved (section 4). Queues of one
or two entries are enough because nothing in the code depends on a queue's length but being
full or empty; the real sizes (16, 64, 8, 16384) only make full rarer. The proofs remove the
bound where they apply. In `Program` the code treats the format and the size of a mode
alike, so one of them has two values and the other one; the fractions contain a zero, an
infinity, a NaN, one below the threshold and good ones, and the proof of `TimerPeriodValid`
covers all others, and any width; odd and even widths and a padding of one byte are what the
index expressions tell apart. One post of the timer is enough because S1 takes them one at a
time. Deadlock is checked except where the system stops (`SpscQueue`, `Synchronome`,
`Program`, `Log`).

**Fairness.** Weak fairness for every thread: each service has a core it shares with at most
one other (capture 1; select and convert 2; storage and compressor 3), so a thread that can
go on does some day; on core 2 S3 has the higher priority but it waits for S2, so that S2 is
not starved. The sequencer is fair because the timer is periodic. SIGINT and failures are
never forced. In `ClockDrift` S1 goes on delivering frames. In `Program` main and the
threads are fair, and the writer of a compressor that has failed fails or waits for it; the
user, the timer and the driver's failures are not fair; main's `sleep(1)` is taken to be
long enough for the new threads to read their parameters, as the code takes it, and a driver
that streams answers `DQBUF` some day, with a frame or an error. `SigintEndsProgram` names
where that is not enough: S1 waiting for room in `acq_queue` (the subject of
`SynchronomeHang`); a service that waits for ever behind one that has failed
(`write_to_storage.c:86`); another SIGINT handled by a thread that holds `queue_mutex`; and
a SIGINT before `synchronome_init` has reset the flags. No strong fairness is assumed: in
`Log` the writers are finitely many messages, so that none waits for the mutex for ever.

### What the violations say

1. **The margin of two frames** (`FrameCycleAssert`). `main.c:190` adds 2 to the
   window; `FrameCycle_proofs!NoAssertionFails` proves that this is exactly the lag S2
   may have. `main.c:370-374` accepts late frames "as long as it evens out over
   time"; three frames of lag end the process in `camera.c:589`.
2. **S1 and the full queue** (`SynchronomeHang`). `data.stop` and the post of the
   semaphore reach S1 only in `sem_wait`, not in `push_start`, once S2 is gone.
3. **A missed deadline of S1** (`SynchronomeDeadline`) is fatal according to
   `doc/2_scheduling-and-timing-analysis.md:92`; the code leaves S2, and with it
   main, waiting for a frame.
4. **Leaning right** (`ClockDriftDirty`). `doc/1_system-design.md:279` wants the
   selection to lean right while the clock is late, the code looks only at the
   latest tick. With 4 frames per tick it makes no difference.
5. **The resolution** (`SamplingRatioExact`) is a truncated quotient of floats.

The design document also has the direction of the correction the other way round
(`doc/1_system-design.md:199` and `280`: `n --` when the internal clock is behind,
where `select.c:572-580` does `frame_index += 1`). The code's is the one that
works, as `OneSelectionPerSecond` and its mutant `adjust_other_way` show.

Outside the properties: in threaded mode `log_error` loses its text
(`output.c:245-247`); pending messages are flushed newest first (`output.c:263`); a
log thread that starts after `log_stop` leaves main's last messages in the queue
(`AllLogged` states this exception); the SIGINT handler may lock `queue_mutex` twice
(`Terminates` and `SigintEndsProgram` state it). What other properties state as an exception,
since the code does it:

- A writer waits for ever for a compressor that has failed, S3 and S2 then wait for room,
  and SIGINT does not help (`ShutdownCompletes`, `SigintEndsProgram`).
- A producer that a signal interrupts in `push_start` ends the process by `exit(1)`, with
  archive and camera open (`AcknowledgedAreArchived`, `SigintEndsProgram`); a stack that
  overflows in `compressor_cleanup` leaves the archive open, too.
- After a failed `frame_acq_init` S1 locks a mutex that was never initialized and looks into
  a ring that was not either: as static storage both are zero, an unlocked mutex and no
  frames. `FramesNeedDumpster` says what is left to guarantee.
- A run that SIGINT ends may return success although its camera or its timer failed
  (`SuccessMeansSetUp` excludes it).
- The capture command returns past `camera_exit` when a call fails
  (`simple_capture/main.c:60-123`, `ReturnsClosed`); the system closes the device then.
- From a numerator of 4295 on the timer's period is a wrong one, and 4295/32705, which passes
  every assertion, disarms the timer (`TimerPeriodValid`).
- `image_diff` does not ask `check_format`, and reads beyond the last line: by a line at most
  where `check_format` would admit the frame, possibly further elsewhere (`ImagesInBounds`).
- `FRAME_INTERVAL_ANY` records an interval read before `S_FMT`, and a failed `S_PARM` leaves a
  device in a mode `camera_t` does not know (`ModeAsRequested` is about configured cameras).

## 4. The proofs

TLAPS checks them for every value of the constants that the modules' assumptions
allow: any capacity, any number of pushes, any set of buffers, window and lag. The
passing runs check 34 safety properties, the refinement among them, and 6 liveness
properties. All 34 are proved, the three of `ClockDrift` under a hypothesis about the
clock and the camera that is stated below; what only TLC shows is listed at the end of
this section.

**SpscQueue_proofs** (`MaxCount >= 1`, `MaxPush`, `MayFail` arbitrary).
`TypeCorrect`, `CountIsExact`, `Exclusion`, `Drained`, `Garbage`, `Ordered`, `Refinement`.
None of the invariants is inductive: that the two sides never share a slot follows from
how many slots are in use, which the semaphores know and the positions do not. The
strengthening `CInv` says

- `Tokens`: `write_sem`, the slot the producer holds and the entries pending (`read_sem`
  without main's post, and the one the consumer holds) add up to `MaxCount`;
- `Flow`: what is pending is what was pushed and is not in `taken`;
- `Positions`: `write_pos` and `read_pos` are these two numbers modulo `MaxCount`, up to
  the step each side is in;
- `Phases`: what `stop` and the places of the threads imply for each other: stop is
  set after the producer's last step, a consumer at an entry has one pending unless
  the producer gave up.

Two different numbers less than `MaxCount` apart are different modulo `MaxCount`
(`ModArith!ModDistinct`), which gives `Exclusion`. `Contents` (the slots between the
positions hold the entries `Len(taken)+1 .. pushed`) and `History` (only the entry its
producer gave up on can come out wrong) are proved from `CInv` in a second
step and give `Ordered` and `Garbage`. `Refinement` is `Spec => FifoSpec`: in the states
of these invariants what the mapping makes of the ring is an interval of numbers
(`Mapped`), so that `push_end` maps to a send, the step that gives an entry back to a
receive, main's stop to the closing of the channel, and everything else to a stutter.
(Its typing is in two parts, `EntriesOK` and `OthersOK`, because a ring is a function on
`0 .. MaxCount - 1` and the history a sequence, which the SMT encoding keeps apart
badly.)

**FrameCycle_proofs.** `TypeCorrect`, and `NoAssertionFails`: if
`MaxBehind <= FrameCount - MaxAcc` then `Spec => []AssertionsHold`. The strengthening
counts buffers instead of following them: `Conservation` (owned, in hand, queued
and dumped add up to `FrameCount`, the one being dumped counted twice), `Slots`
(`write_sem`), `Window` (S2's window is within the queue), `Lag`. With the dumpster just
emptied, at most `MaxAcc + MaxBehind - 1 < FrameCount` buffers are away
(`CameraHasFrames`), and the camera has one to give. `Conserved` and `WindowIsStable`
follow the buffers themselves: `Places` says that the device's, S1's, the window's
and the dumpster's are a partition of all buffers, without repetition in either queue,
where the entry that S2 is giving back counts for the dumpster only.
`SelectedIsStable`, for `ConvertSlack < MinSelected`: `SelectedInWindow` bounds
from below the place of a frame that S3 has not finished in the window, by the place at
which it was selected and the frames S2 has accepted since; so it does not reach
the front before S3 is done, and the window is not the device's.

**TickParser_proofs** (every resolution s >= 3, every number of frames, any detection).
`SelectionNeverFails`, `OneFramePerTick`, and the action property `SelectionHeadroom`.
The index that is selected depends on where the latest internal tick lies in a window
that moves by a frame per step, and the internal clock may have been moved
since. `LatestTick` is the bound that is kept: the tick's place, and the frames since,
add up to s .. s + 2; after a correction backwards (`sleep_one_frame`) it is exactly
s + 1. From there every index lies in `(s + 3) \div 2 .. frames - 2`. The proof needs
`DiffBufferCount >= 2`: with a single statistic, synchronization can be reached before
the window is full, and for an odd s `SelectedHasHeadroom` then fails. The code has 32.

The same module proves the three properties of `ClockDrift`: `ClockIsFollowed`,
`SecondsAreConsecutive`, `SelectionIsClean`. They depend on what the camera sees, so they
have a hypothesis about it and none about the code's state:

    Precise ==
      /\ SamplingResolution >= 4
      /\ 2 * MaxJitter + AdjustmentInertia * MaxDrift <= SubSamples

A second is at least four frames, and the jitter to both sides, with what the clock drifts
while `AdjustmentInertia` votes are collected, is at most one frame. Neither part is decoration.
At s = 3 TLC violates both the clean selection (`ClockDriftDirty`) and, with constants on
the bound, `InternalClockFollows`. The run `ClockDrift` lies exactly on the bound
(2 * 4 + 4 * 2 = 16), with a clock that drifts by more than a frame both ways, so the theorems
speak of its instance. The invariant `ClockInv` has these parts, on top of `IInv`:

- `Clock`: the tick on display is between -jitter and a tick and jitter old.
- `Followed` (`Tracks`): the votes are an account of the phase. With v votes for "late" the
  latest detected tick came at most the jitter and the drift of v ticks late
  (`latest`), with v votes for "early" at most so early (`earliest`). The vote that completes
  `AdjustmentInertia` moves the internal clock by one frame and the account by
  one, and the second part of `Precise` says that the phase is then inside again
  (`AdjustTracks`). Hence no detected tick is more than a frame off (`Detection`), and stock
  is taken with `tick_count` exactly one higher (`NextTracks`).
- `Windowed`: the window has as many frames as the counters say.
- `Ticking`: the last two detected ticks were b and c frames ago, each at most a frame late
  or early (`Voted`), and every frame between shows the tick between (`ShowsTicks`), also
  after a correction, when the window has a frame more or less than the clock counted
  (`moved`).
- `Shown`: the second selected last is the number of the selections before it.

The selected frame lies strictly between the frames of the two ticks (`Halfway`; this is
where s >= 4 is needed), so it shows that second, and the hand does not move in it.

**Synchronome_proofs** (queues of every length, any number of signals, with and
without compressor, any service may fail). `TypeCorrect`, `StopsAfterProducer`,
`EntryIsHeld`, `NothingIsLeftBehind`, `AllAcknowledgedAreArchived`, `FailureIsReported`. The
invariants speak of the end of the program or of one thread; `IInv` adds what leads
there: `Room` (an entry is free or counted), `Wakeups` (every post of `read_sem`,
consumed or not, stands for an entry or a stop), hence `Consuming` (a consumer that
goes on after its test has an entry); `Handshake` (of the entry the writer lends,
either the queue, the compressor or `done_sem` knows); `Joined`, `Stopped` and `Drained`
(what main knows of whom it has joined, and that who left without a failure left an
empty queue). `FailureIsReported` holds although `main.c:530` reads the wrong result: the
compressor fails alone only with the writer waiting for it for ever (`Handshake`), so that
`synchronome_wait` does not return. `AllAcknowledgedAreArchived` is about the compressor's and
`synchronome_wait`'s return: an archive is open only while the compressor runs, and main joins it.

**Camera_proofs** (any number of buffers, any driver). `CameraCorrect`: types,
`OwnedAreQueued` and `ModeAsRequested` for every client that follows the order of calls
of `camera.h`. `CameraInv` compares what `camera_t` believes with what the driver has:
`Shared` (owned and held frames are disjoint, mapped, and not more than asked for; a
driver that streams has queued at least what the camera counts), `Believed` (what each
state of the client implies for the device), `Modes`.

**Program_proofs** (any camera, any bounds of the fractions, any units with a
millisecond not shorter than a microsecond, any number of SIGINTs). In layers, each
resting on those before it:

- the arithmetic of `time.c`, for any units. `NormalizeIsExact`: normalizing changes no
  time. `DifferenceIsExact`: the runtimes that are compared with the deadlines are exact
  and normal. `SumIsExact`: a sum is exact, and normal unless the nanoseconds add up to
  exactly one second; that is all the `>` of `time.c:116`, where `>=` is meant, can do.
  `PeriodIsNormal`: `nsec_to_timespec` of a positive number;
- `PeriodAlwaysValid`, from `TimerInv`: between `select_get_frame_acc_count` and the
  timer main holds an interval that passed the assertions, which is not below a millisecond
  and finite, because an infinite one makes the resolution 0. Whatever the product of
  `main.c:454` is modulo 2^32, the timer gets a valid timespec (`PeriodIsNormal`); if it does
  not wrap, the truncated period in microseconds is the interval's and not 0 (`PeriodBounds`);
- `NoThreadOutlives`, from `ThreadInv`: at each place of `synchronome_wait` the threads in
  `quiet(main)` do not run, where a thread is quiet once it was joined, or if it was never
  created; without `--compress` that is the compressor, so main may skip its join; after
  the last join all are;
- `ProgramUsesCamera`: `ProgramSpec` implements `Camera!Spec`. The program is one of the
  camera's clients, with a set up that failed and threads that do not know of it, and so
  `DriverOwnsFrames` and `RequestedMode` hold in it. `PlaceInv` says what main's place
  implies for the device, the handler and the threads, `FrameInv` that the frames S2 and
  the dumpster have are frames the camera has given out, that the dumpster lives as
  long as there may be any, and that S1 has ended when it is destroyed: `ClosesCamera` (of
  the run command on every path, of the capture command on success),
  `DumpsterOutlivesFrames`;
- `GarbageCapturesNothing` and `SuccessIsEarned`, from `SetupInv`: threads whose parameters
  are gone come from a set up that failed, before the timer ran (`GarbageInv`); without a
  running timer nobody wakes S1 but who has told it to stop (`AsleepInv`); main has success
  to return only while every thread that failed is yet to be joined, and a compressor that
  failed leaves a writer that runs, waits for ever or has failed (`OutcomeInv`, `WriterWaits`);
  and S2 ends without a failure only if SIGINT told it to, or with a frame, which takes a
  camera that streamed and a timer that runs (`WokenInv`);
- `ProgramTypes`: what is not obvious of `ProgramTypeOK` is the semaphore, which holds no
  more than the posts of the timer, one per SIGINT and the one of `synchronome_wait`
  (`TypesInv`);
- `ImagesFit`: for every geometry `check_format` admits (and `width * height * 3` within an
  unsigned int) a conversion reads within the frame and writes within the result, each byte
  once; for every geometry whatever, `image_diff` compares each pixel and reads less than
  four bytes a pixel from the start of the last line (`Comparison`). That lines fit is
  monotonicity of multiplication (`LinesFit`), that no byte is written twice the uniqueness
  of quotient and remainder (`WritesApart`), and that all are written a bijection of the
  pixels' bytes with them (`BytesWritten`).

**Log_proofs** (any number of services, messages and entries). `LoggedInOrder`. A message
may go to syslog directly or through the ring, and the log thread switches from the one
way to the other while services log. The strengthening, valid until log_stop: `Threads`
(who is between `push_start` and `push_end` has the mutex, and nobody is before the log
thread runs), `Ring` (as in the queue's proof, with the log thread's place), and
`Sequence`: the lines in syslog, those that wait in the ring, and the one a thread is
about to write follow each other, thread by thread. A thread that writes directly has
none waiting (`Alone`), because it decided to before the log thread started. `"main"` and
`"nobody"` are no services (`ServiceAssumption`).

`EverythingLogged` is `Spec => []AllLogged`: at the end every message of a service is in
syslog once. It says nothing before the end, so the invariant has to follow each
message to it. A call is through (`Delivered`) when its line is in syslog or in the ring.
Until log_stop, `Kept` says so (`Found`), and that there are as many lines as calls that
are through (`Tally`); that a line is there only once comes from the order above. `Counted`
relates `count`, which the flush believes, to what really is in the ring: they differ by the
entry of the writer that holds the mutex, and main calls log_stop when no service does
(`Handed`). From there on, `Finishing` says which lines the log thread has left (`Rest`), that
each message is either in syslog or in `Rest` and only once (`Exact`), and that the counts
still agree (`TallyLeft`); every step of the log thread conserves the lines (`Conserved`),
the flush that writes them newest first among them (`AllMoved`). If the log thread starts
only after log_stop has reset `threaded_log` (`late`), it sets the flag again, and main
fills a queue that may have no reader; what the services said went to syslog before, and
`SettledLate` says that it stays there, once, whatever main and the log thread still write.

**ModArith.** Division with remainder, proved from the definitions of the
arithmetic, for the ring positions and the internal clock.

Each strengthening was first checked by TLC as an invariant of its run's module.

Only model-checked: every liveness property and the fairness they need (TLAPS has
no rule for `ENABLED` here): `ConsumerLeaves`, `BuffersCirculate`, `SelectsAllFrames`,
`ShutdownCompletes`, `SigintEndsProgram` and `Terminates`. What a recursive definition such
as the long division of `SamplingRatio` computes for every input needs induction over data
and stays with TLC, too; and a disagreement with a document is shown by a run, on an
instance.

## 5. Not modelled

- Colours: the arithmetic on pixel values in `image.c` (`RANGE_FROM_TO`'s integer division
  among it), file formats, and the statistics in `select.c` that decide whether a frame
  shows a tick. `TickParser` is correct for any outcome.
- A timer signal after `sem_destroy`, which is undefined: in `Program` nothing happens. Of
  `exit(1)` the models have that the process is gone, not what it does to other threads on
  the way; in `Log`, `push_start` is not interrupted.
- The rounding of a `float` in the assertions of `select.c:316-317`: 1/1000 passes, as in the
  code; fractions just below it whose denominator exceeds 2^24 do so only in the code.
- The contents of archive and images, the syntax of the command line, priorities and
  core affinity other than as fairness, the clocks themselves.
- `camera_list_formats`, `_sizes` and `_modes`, which only `statistics` and the tests call, and
  the functions of `time.c` that nothing calls.
- The stale text of `log_error` in threaded mode as a property: `log_fill` has it, and no
  property says what the text should be.

## 6. Plan

1. *Done*: the queue and its refinement; the frame cycle; selection and drift; the
   composition of the services with the archive; the camera; the log; the program from
   start to end with camera, timer and images. Proofs of every safety property that the
   passing runs check, and of the refinements of the queue and of the camera by the program.
2. Open: the liveness properties are not proved; the statistics that detect a tick are not
   modelled.
