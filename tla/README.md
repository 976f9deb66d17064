# A TLA+ model of v4l2_capture

`v4l2_capture` reads frames from a V4L2 camera, passes them through two bounded queues
between three threads, and sends them over TCP to a receiver program or to a ROS 2
adapter node. This directory holds TLA+ modules for the parts of it that keep state and
for the functions they rest on, TLC configurations that check them on small instances,
and TLAPS proofs of every safety property that holds, for every value of the constants. Paths below are relative to the repository.

## 1. The system

| Part | State | Operations | Interacts with |
| --- | --- | --- | --- |
| Ring buffer (`include/ring_buffer.hpp`) | vector of slots, read and write index, size, drop count, a mutex | `push`, `try_pop_oldest`, `snapshot` | shared by producer and consumer, and by consumer and TCP sender |
| Recovery policies (`include/capture_recovery.hpp`) | timeout streak, attempts; invalid-frame streak, cooldown, completed rebuilds | `should_reinitialize`, `begin_recovery_attempt`, `on_*_success`, `observe` | called by the producer only |
| Pipeline (`run_pipeline` in `src/main.cpp`) | two rings, `producer_done`, `consumer_done`, `stop_requested`, stored exceptions, statistics, two condition variables | connect with retry; producer, consumer and TCP sender thread; join, report, rethrow | everything below |
| CameraDevice (`src/camera_device.cpp`) | descriptor, mapped buffers, `streaming_` | open, query, set format, request/map/queue buffers, stream on/off, four capture functions, move assignment, destructor | the V4L2 driver; the producer rebuilds it |
| TCP send primitive (`src/tcp_send.cpp`) | bytes sent, deadline | `send_all_until`, `remaining_wait_ms` | called by the TCP sender thread; reads `stop_requested` |
| Frame protocol (`include/frame_protocol.hpp`) | none | header codec, validation, CRC-32 | senders, receivers and the fixture |
| TCP receiver (`src/tcp_receiver.cpp`) | session and frame counters, fatal flag | accept loop, `read_exact`, header and CRC check, save, statistics, exit code | any frame sender |
| ROS 2 adapter (`ros2_ws/.../tcp_diagnostics_node.cpp`) | atomic counters, registered descriptors under a mutex, stop flag | receiver thread, destructor with `interrupt_sockets`, publication | any frame sender; ROS |
| Diagnostics publisher (same file) | reads the counters of the adapter | `publish_diagnostics` on a ROS timer | the receiver thread goes on counting meanwhile |
| Image throughput check (`ros2_ws/.../image_throughput_check.cpp`) | start time, counts, verdict, report file | image callback, timer callback, `write_json` | the adapter's image topic |
| Statistics files (`src/stats_json.cpp`) | the file and its `.tmp` | `write_atomic_text_file` | pipeline and receiver; read by automation |
| TCP test sender (`src/tcp_sender.cpp`) | own counters | frame loop with injected faults | both receivers |
| Configuration (`src/app_config.cpp`, `main`) | option values | defaults, file, command line, validation, the operations of `main` | chooses everything above |
| Latency statistics (`include/latency_stats.hpp`) | samples | `add_sample_us`, `snapshot` | receiver, adapter, batch capture |
| Image conversions (`yuyv_conversion.hpp`, `save_frame_to_files`) | none | YUYV to RGB, monochrome and PPM | adapter, consumer thread, camera |
| Protocol fixture (`src/protocol_fixture.cpp`) | a file of frames | write, verify | carried between machines |
| Logger, scripts, unit tests | - | - | - |

What is hard in it:

* **Shutdown of three threads without a common lock.** Each loop reads two or three
  flags and a ring in separate steps; the order of the reads decides whether the last
  frame is lost. Notifiers do not hold the mutex of the condition variable, so
  wake-ups are lost and only the 100 ms timeout saves the waiter.
* **Failure anywhere.** An exception sets an `exception_ptr`, a done flag and
  `stop_requested` in separate steps while other threads run on. A cancelled send
  leaves no error behind, so its cause must have done so.
* **Recovery policy over a long history.** Streak, cooldown and budget interact over
  many frames and over rebuilds started for another reason.
* **Ownership of V4L2 buffers** when any call fails half-way, again and again.
* **A byte stream cut anywhere**, read by two receivers with different policies
  (the receiver program treats corruption as fatal, the adapter skips a frame with a
  bad CRC).
* **A destructor racing `accept`** over a descriptor number.
* **A crash between truncating, writing and renaming** a file.
* **Two definitions of a good frame.** The pipeline's usability test and the receiver's
  header checks were written separately, and the checksum covers the payload only.
* **Code that only ever meets itself.** Encoder and decoder, CRC at both ends, fixture
  writer and verifier share their source, so tests of the one against the other pass
  when both are wrong.
* **A configuration merged from three places** before anything is validated.
* **Reports read while they are written**: a dozen counters one by one, images queued
  across the end of a measurement.

Every hazard is listed at its line in `PROJECT.json`, with the properties that would
catch it, or the reason why none can be stated.

## 2. The modules

| Module | Models | Extends / instantiates |
| --- | --- | --- |
| `DropOldestQueue` | what a ring buffer promises: a bounded queue that drops its oldest item | |
| `RingBuffer` | the circular vector of `ring_buffer.hpp` | instantiates `DropOldestQueue` (refinement) |
| `CaptureRecovery` | the two policy objects as records and operators | |
| `PipelineState` | what the pipeline's threads share | instantiates `DropOldestQueue` twice |
| `CaptureProducer` | producer thread with `rebuild_camera` | `PipelineState`, `CaptureRecovery` |
| `FrameConsumer` | consumer thread | `PipelineState` |
| `TcpSenderThread` | TCP sender thread | `PipelineState` |
| `Pipeline` | `run_pipeline`: connect, start, join, report; the composition | the three threads |
| `CameraDevice` | one `CameraDevice` object against the driver | |
| `TcpSend` | one frame through `send_all_until` | |
| `FrameProtocol` | header codec, CRC-32, `make_header`, `validate_header` on bytes | |
| `FrameExchange` | one frame from the usability test or the test sender to the receiver's verdict | `FrameProtocol` |
| `ProtocolFixture` | writing and verifying the fixture file | `FrameProtocol` |
| `LatencyStats` | samples, percentiles, mean and jitter | |
| `YuyvConversion` | the three conversions and what a save leaves behind | |
| `AppConfig` | loading and validating the options; what `main` then does | |
| `Calculations` | calls the functions of the six modules above and says what they must return | those six; `FrameProtocol` again at the widths of the code |
| `FrameStream` | the bytes a sender writes into a connection, by position | |
| `TcpReceiver` | the receiver program | `FrameStream` |
| `RosAdapter` | receiver thread and destructor of the adapter node | `FrameStream` |
| `StatsFile` | `write_atomic_text_file` over several runs with crashes | |
| `ThroughputCheck` | the throughput check: two callbacks, verdict, report file | |
| `DiagnosticsReport` | `publish_diagnostics` against the counting receiver thread | |
| `Reports` | whichever of the three reports on the system | instantiates `StatsFile`, `ThroughputCheck`, `DiagnosticsReport` |
| `MC*` | the module of the same name for TLC | |
| `RingBufferProofs`, `PipelineProofs`, `CameraDeviceProofs`, `TcpSendProofs`, `TcpReceiverProofs`, `RosAdapterProofs`, `ReportsProofs`, `CalculationsProofs` | theorems about the module of that name, and their proofs | that module |

Conventions. `pc` says where a thread or object is; a label stands for the next access
to state that somebody else can see. An operator whose comment begins with "Mutant:"
stands before the definition it is a faulty version of; it is used by no specification
and documents which slip in the code the properties notice.

### Granularity

* **Ring buffer.** Every member function holds the mutex throughout: one action each.
  In the pipeline the rings are the abstract `DropOldestQueue`; that this is what the
  vector implements is the refinement of `RingBuffer`, checked and proved.
* **Pipeline.** A step of a thread contains at most one access to state another thread
  reads or writes. The loop conditions of the consumer
  (`!stop_requested && (!producer_done || !ring.empty())`) and of the sender are
  therefore several steps (`ConsumerLoop`, `ConsumerCheckDone`, `ConsumerCheckEmpty`).
  Statistics counters have one writer each and are read after the joins, so they
  change in the step they accompany. An exception handler that stores an exception
  (read only after the join) does so in the step that sets the flag after it.
* **Condition variables.** `enterWait` and `wait` are separate: a notification between
  the failed pop and `wait_for` is lost. `GotoAndNotify` wakes only a thread at
  `wait`; the timeout may end the wait at any time.
* **Frames** are the order of capture and the set of defects `is_frame_usable` tells
  apart. The driver's sequence number restarts with every rebuild and identifies
  nothing, so it is left out.
* **CameraDevice.** One action is one system call with what the object does with the
  answer; each may fail. The driver is external: its open descriptors, mappings, the
  descriptor that owns its buffers, the queued buffers.
* **TcpSend.** Time is counted in ticks finer than a millisecond so that the rounding
  in `remaining_wait_ms` shows.
* **Streams.** The content of a unit of the stream is its position; a header is three
  units and a payload two. On 64-bit hosts the structure `FrameHeader` has 48 bytes and
  the wire header 44, so there the adapter reads one unit more (`HostHeaderUnits`). CRC
  and header checks are taken to recognise every misplaced or damaged frame; how far
  that is true of one damaged byte is the subject of `DamageContained`.
* **Calculations.** `call` holds a function, its input and its result. A byte has
  `ByteBits` bits: three in the run, so that a field still has several bytes and every
  integer stays inside TLC's; the checksum is instantiated a second time with bytes of
  8 bits and the polynomial of the code. Latencies are whole microseconds and
  percentiles hundredths of one, so the interpolation is exact; the rounding of doubles
  is left out. Sorting is insertion, one sample after the other, which on values has the
  result of `std::sort`; the reference takes no order and counts the samples below and up
  to a value. A line of the configuration file is a key with its parsed value.
* **ThroughputCheck.** Time is counted in periods of the timer. Images are queued by
  the middleware and handled later, in order; the timer may be late.
* **DiagnosticsReport.** Every event of the receiver thread is the sequence of the
  counters it increases, one per step, and the publisher reads one counter per step.
* **StatsFile.** A file is the run that wrote it and whether its text is complete.

## 3. What is checked

Each run asks a different question. Sizes are distinct states.

| Run | Question | Properties | States |
| --- | --- | --- | --- |
| `ring` | Does the vector behave like a drop-oldest queue through several wrap-arounds? | `WindowIsNewest`, `RefinesQueue` | 244 |
| `pipeline` | Over all interleavings with faults, are frames accounted for and outcomes truthful, and does `run_pipeline` end in spite of lost wake-ups? | `TypeOK`, `FramesAccounted`, `SuccessDeliversEverything`, `StopIsReported`, `WireInOrder`, `Terminates` | 781 000 |
| `recovery` | Do the recovery policies keep their limits over longer captures? | `RecoveryAccounted`, `RebuildsAreSpaced`, `GivesUpOnlyWhenExhausted` | 3.0 million |
| `camera` | Are descriptors, mappings and buffers in order when any V4L2 call fails? | `NothingLeaks`, `NoStarvation`, `ReadsOwnBuffer` | 700 |
| `receiver` | Does the receiver keep only intact frames, count truthfully and exit? | `FramesIntact`, `StatisticsAgree`, `ExitCodeTruthful`, `CorruptionIsFatal`, `ReceiverExits` | 64 000 |
| `ros` | Where the header has its wire size in memory, are images intact and descriptors used safely, and does the destructor return? | `InterruptsOwnSockets`, `ImagesIntact`, `DiagnosticsAgree`, `AlignmentKnown`, `DestructorReturns` | 646 000 |
| `ros_host_header` | The same alignment on a 64-bit host: **violated** | `AlignmentKnown` | |
| `send` | Is a send bounded in time and its result truthful? | `OutcomeTruthful`, `WaitBounded`, `SendEnds` | 3 300 |
| `reports` | Is what the programs report on themselves true, whoever reads it and whenever they crash? | `FilesTruthful`, `VerdictTruthful`, `CheckEnds`, `ReportConsistent`, `ErrorsReachTheLevel` | 1.9 million |
| `stats_flush` | The same of a file when the device refuses data at the final flush: **violated** | `ReadersSeeWholeFiles` | |
| `calculations` | Do the pure functions compute what they are for? | `HeaderRoundTrip`, `CrcIsPolynomialDivision`, `UsableFramesAccepted`, `DamageContained`, `SummaryExact`, `ImagesAgree`, `FixtureExact`, `ConfigHonoured` | 38 700 |
| `config_usage` | Does the command line have the last word over the shipped configuration file? **violated** | `CommandLineSuffices` | |

The type invariants of `CameraDevice`, `TcpSend`, `TcpReceiver` and `RosAdapter` are a
conjunct of the first property named for each that speaks of data (`NothingLeaks`,
`OutcomeTruthful`, `FramesIntact`, `ImagesIntact`); that of `RingBuffer` is part of the
proved `IInv`.

What the results of `calculations` say in words: every header survives the codec;
`compute_crc32` is polynomial division by the CRC-32 generator, bit for bit; a frame
the pipeline calls usable is accepted by the receiver *except* oversized frames and YUYV
frames with padding or of odd width (this is where the two definitions differ); a single
damaged byte changes at most `frame_id`, the timestamp or the pixel format of an
accepted frame, and every fault the test sender injects is refused for the reason the
negative test looks for; latency summaries equal their definition by counting; published
and saved colours agree with BT.601 up to one step and with each other except below
black; the fixture verifier accepts exactly the file the writer writes; and an accepted
configuration has the values asked for with the highest priority and is what `main`
performs.

### Bounds, and why they are enough

* `ring`: capacity 3 and nine pushes; both indices wrap three times and every fill
  level meets every offset.
* `pipeline`: three frames through rings of capacity one, so that each ring is empty,
  full and overflowing, with one camera fault, a send timeout or an escaping exception,
  two connect attempts and a failing statistics file. Frames are usable or incomplete
  (`MCCaptures`); the other defects take the same branches.
* `recovery`: six frames, a streak of two, a cooldown of three, one rebuild for
  invalid frames and two attempts per incident: the cooldown outlasts a streak, and
  the budget can be exhausted. Two camera faults; saving may fail. TCP is off; the
  sender does not touch the policies.
* `camera`: two or three buffers, two descriptors (a leaked one would show at once),
  two frames in batch mode. Rebuilds are not bounded.
* `receiver`: three connections of up to two frames, each intact or damaged, cut at every
  unit; the frame limit of four can be reached inside the second session or the third.
* `ros`: two connections of up to two frames, likewise, and a limit of three frames; the
  node is destroyed at any moment.
* `send`: two header and three payload bytes, a deadline of 3.5 ms and slices of 2 ms:
  the wait is cut to the slice, to the remaining time and rounded up to 1 ms.
* `reports`: six runs of a program that writes the file, any of which may crash; four
  images around a measurement from time 1 to 3, with a clock that runs to 4; four events
  of the receiver thread during two reports. Runs, images and events are bounded, so the
  model comes to a stop when they are used up and TLC's deadlock check is off (also in
  `stats_flush`); `CheckEnds` says separately that the throughput check ends.
* `calculations`: every digit at every place of every header field; CRC of up to three
  bytes out of five; dimensions and lengths on both sides of every limit; every single
  byte of a frame of every size the run has replaced by every other value; up to five samples out of six, two of
  which are to be dropped; luma and chroma at the ends of their ranges and next to them;
  fixtures of up to three frames cut, extended, damaged or reordered at every byte; no
  configuration file, the shipped one or another one, each with one of 16 lines added,
  and up to two out of 20 arguments.
* `config_usage`: four command lines of `print_usage`, started where the shipped file is.

### Fairness

* `Pipeline`: weak fairness of main and of each thread. A thread is never stuck in a
  call: the capture poll and every send have timeouts and both waits end after 100 ms.
  `MaxFaults` bounds camera faults: the code resets its attempt count after each
  successful rebuild, so a camera that fails after every rebuild is rebuilt for ever;
  `Terminates` says that the run ends if the faults do.
* `TcpReceiver`: the process runs, and senders connect, transmit what they began and
  disconnect. `recv` has no timeout, so a sender that stays silent keeps the receiver
  waiting; nothing better can be claimed.
* `RosAdapter`: both threads run. Nothing is assumed of the senders, because reads are
  polled in slices and the stop flag is looked at before each.
* `TcpSend`: the thread runs, `poll` returns when its wait is over, time passes.
* `Reports`: the clock goes on, the executor serves a timer that is due, and the process
  takes its next step. Nothing is assumed of the publisher of the images, nor of the
  receiver thread behind the diagnostics.

## 4. What is proved

Every invariant and action property of the passing runs is also a theorem, for every
capacity, frame count, size, threshold, input and bound that the named assumptions
(`CapacityAssumption`, `PipelineAssumption`, `StreamAssumption`, `InputsAssumption`, ...)
allow. The assumptions are what constructors, configuration checks and the types of the
code enforce, and TLC evaluates each of them in a run. The bounds of the runs (`MaxFaults`,
`MaxConnections`, `MaxSent`, `Runs`, `MaxImages`, `MaxEvents`, `MaxReports`, ...) are
among the constants, so the theorems hold without regard to how long a program runs.

| Theorem | Statement |
| --- | --- |
| `WindowAlwaysNewest` | the live window of the vector holds the most recent frames in order |
| `RingBufferRefinesQueue` | every behaviour of the vector is one of the drop-oldest queue |
| `PipelineTypeCorrect` | `TypeOK` of the pipeline |
| `FramesAlwaysAccounted` | the frame counters add up at every moment |
| `SuccessAlwaysDelivers` | a normal return means that no frame was left behind |
| `StopAlwaysReported` | a stopped run never reports success |
| `WireAlwaysInOrder` | frames on the wire are usable, in order of capture and sent once |
| `RecoveryAlwaysAccounted` | rebuild counters agree and stay within their budgets |
| `RebuildsAlwaysSpaced` | invalid frames never rebuild within a streak or the cooldown |
| `GivesUpOnlyExhausted` | recovery is given up only after its last attempt |
| `CameraNeverLeaks` | the process holds the descriptor and mappings its object records, no more |
| `CameraNeverStarves` | a wait for a frame happens with every buffer queued |
| `CameraReadsOwnBuffer` | a frame is read from a mapped buffer that the driver does not own |
| `SendOutcomeTruthful` | the result of a send says what happened to its bytes, and why |
| `SendWaitBounded` | a blocked send sleeps within its slice and its rounded-up deadline |
| `ReceiverKeepsIntactFrames` | frames kept of a session are an unbroken run of intact ones |
| `ReceiverStatisticsAgree` | sessions, frames, rejections and files add up |
| `ReceiverExitCodeTruthful` | exit code 0 means no rejection, 2 and 3 name the damage |
| `ReceiverCorruptionIsFatal` | no session is accepted after a corrupt frame |
| `AdapterInterruptsOwnSockets` | the destructor shuts down only descriptors still open |
| `AdapterImagesIntact` | images are intact frames of their session, in order |
| `AdapterDiagnosticsAgree` | the adapter's counters add up |
| `AdapterAlignmentKnown` | every header is read from the start of a frame, *if* `HostHeaderUnits = HeaderUnits` |
| `StatisticsFilesTruthful` | readers find whole files only, *if* `~FlushMayFail` |
| `CheckVerdictTruthful` | exit code 0 of the throughput check is earned |
| `DiagnosticsReportConsistent` | the numbers of a report agree up to one frame |
| `DiagnosticsErrorsReachTheLevel` | an error shown is in the level of every later report |
| `HeaderRoundTripHolds` | decoding gives back every header that was encoded |
| `CrcIsPolynomialDivisionHolds` | `compute_crc32` divides the polynomial of any message by that of CRC-32 |
| `UsableFramesAcceptedHolds` | usable frames arrive unchanged, but for those the two ends disagree about |
| `DamageContainedHolds` | whatever byte is damaged, an accepted frame has the image that was sent |
| `SummaryExactHolds` | the summary of any samples is the one they have by definition |
| `ImagesAgreeHolds` | converted images are those of BT.601, and there is one only if the size matches |
| `FixtureExactHolds` | the verifier accepts exactly the file that the writer writes |
| `ConfigHonouredHolds` | accepted options have the values of highest priority and are what `main` does |

The two conditions are the two places where the code does not keep what the documents
say: without them the runs `ros_host_header` and `stats_flush` refute the statements
(section 5). `AdapterImagesIntact` needs no such condition: on a 64-bit host the adapter
loses its place in the stream, but what it publishes is still intact.

The inductive invariants, each checked by TLC on the run of its component before it was
proved:

* **Ring buffer.** `WindowIsNewest` is not inductive by itself: after a push the new
  frame must stand at the end of the window, which needs `IndicesAgree`
  (`write_index = (read_index + size) % Capacity`). `IInv` adds it, with
  `size <= pushed`. The arithmetic of `%` is in lemmas of its own (an index that is
  advanced stays an index; two offsets below the capacity never meet), and the
  refinement maps the queue to `Snapshot`.
* **Pipeline.** `IInv` in `Pipeline.tla` adds to the three properties what each thread
  has established at a label, one conjunct per thread: `ProducerShutdown` (at `finish`
  every frame was captured or a stop requested; `producer_done` exactly when exited),
  `ConsumerShutdown` (at `finish` the ring is empty *and* the producer is done, or a
  stop), `TcpShutdown` (likewise, and no error at a healthy label), `StopCaused` (a stop
  has a recorded cause, and while the sender is healthy the cause is another thread's)
  and `MainPhases`. The last but one is what makes `StopIsReported` go through: the
  cancelled sender relies on somebody else's error. The proof has one lemma per conjunct
  and a step per action. The recovery properties have their own strengthening,
  `RecoveryIInv`: `RecoveryHistory` says at which labels no attempt is open and no
  triggered rebuild pending, and ties the cooldown counter to the frames really seen.
* **Order on the wire.** `WireInOrder` says nothing of the frames that are still on their
  way. `LineInv` puts wire, frame being sent, TCP ring, frame held by the consumer and
  capture ring in one line (`InLine`) in which every frame was captured before those
  behind it and none is newer than the last capture. Every step moves a frame from the
  head of one part to the tail of the next, or drops one: `SplitQueue` and `ExtendQueue`
  are about the two ends of a queue, and `LineMoves` puts them together. Usability joins
  the line where the consumer has tested it.
* **Camera.** `BuffersProgress` says how far mapping and queueing have come at each call:
  a prefix of the buffers is mapped, then a prefix queued, then all but the one held.
  `PassingErrorsLoseNothing` is what `NoStarvation` needs: the errors after which the
  producer goes on with the same stream are raised only while every buffer is queued.
* **Send.** `BytesCounted` ties the local count of either `send_all_until` call to the
  bytes the socket took; `LoopAndResult` says that inside the loop its part is
  unfinished. The arithmetic of `remaining_wait_ms` is the lemma `RemainingWait`.
* **Receivers.** The lemmas on `FrameStream` say what a sender may do under a reader and
  which frame stands at a position. For the receiver program `Aligned` fixes the read
  position by the number of frames kept of the session, `RejectionIsLast` says that
  after a rejection only closing and reporting remain, and `SessionsAccounted` counts the
  open session according to where the program is. The adapter skips frames, so its
  position (`Behind`) is only bounded from below by the last image; in a payload it stands
  behind the header of a frame that was begun, whatever the size it took the header to
  have. `Withdrawn` orders withdrawing and closing a descriptor.
* **Statistics file.** From the rename on the temporary file is whole (`FileInv`).
* **Throughput check.** `CountsImages` ties the counters to the images handled inside the
  window; `VerdictIsLast` says that no image is handled after the verdict.
* **Diagnostics.** `WritingOrder` holds between any two updates of the receiver thread.
  `Seen` is what the report under way has read, and for the rest what it would read now;
  `ReadConsistent` and `ErrorsSeen` say of `Seen` what the properties say of a finished
  report. Counters that only grow keep both true until the last value is read.

`Calculations` keeps no state between calls, so its invariants are inductive as they
stand; what there is to prove is what the functions compute. They are loops, modelled as
recursive functions, and the induction the proofs need comes from one lemma,
`Induction`: a set that holds 0 and, with every number, its successor is `Nat`. It
follows from the well-foundedness of `<` (`Smallest`), and is used on *sets*, so that no
operator has to be passed to a theorem. A second lemma, `Iteration`, says once that
the function such a definition chooses exists and takes its steps; every loop (`Total`,
`Sorted`, `Remainder`, the folds of the codec and of the options) is unfolded by it.

* **Codec.** Writing an integer low byte first and reading it are inverse to each other in
  both directions, for any byte size; fields follow one another without overlap. The
  second direction is what damage needs: a changed byte of a field changes its value.
* **Damage.** One round of the CRC register is injective, because the top bit of the
  polynomial tells whether it was subtracted; hence two payloads that differ in one byte
  never have the same CRC. This asks of `Polynomial` nothing but its top bit.
* **CRC.** `Tracks` relates the reflected register after every bit to the remainder of the
  paper division: the register is the next 32 coefficients, in reverse, and those above
  are gone. It holds initially because inverting the first 32 bits is starting with all
  ones, is kept by each bit, and gives at the end the inverted remainder.
* **Usable frames.** Each check of `validate_header` is matched with the condition of
  `is_frame_usable` or of `Disputed` that decides it.
* **Summary.** `InOrder` is the invariant of the sort: position j of the sorted samples
  is below v exactly if j samples or more are. Order statistics found by counting are
  then the sorted samples, interpolation between neighbours grows with the rank, and the
  squared deviations are rearranged into `n * (n * squares - total^2)`.
* **Images.** The fixed-point coefficients stay within one step of the exact ones
  throughout the ranges of y, u and v; the number of pixels written is a loop invariant.
* **Fixture.** The verifier reads what the codec wrote, so the frames it accepts are the
  bytes written, frame by frame, and nothing may follow the last.
* **Configuration.** The value of an option after a loop is that of the last line or
  argument naming it (the last one wins), and validation leaves one capture mode.

**Only model-checked.**

* The liveness properties `Terminates`, `ReceiverExits`, `DestructorReturns`, `SendEnds`
  and `CheckEnds`: the prover does not reason about fairness.
* The statements that the three runs of section 5 refute.

## 5. Where code and documents disagree

* **`ros_host_header`.** `handle_client` (`tcp_diagnostics_node.cpp:401`) reads
  `sizeof(FrameHeader)` bytes into the host structure, 48 on x86-64 and AArch64, while
  a header is 44 bytes on the wire. Each header takes the first four bytes of the
  payload, the CRC cannot match, and the session continues four bytes out of step.
  `docs/dev_notes.md` says that after a CRC mismatch "stream alignment is known". The
  run `ros` shows that the statement holds where the structure has 44 bytes (32-bit
  x86); the host byte order is taken to be little-endian in both.
* **`stats_flush`.** `write_atomic_text_file` checks the stream after `write()`, but a
  short text reaches the file only when the destructor flushes it, and nobody looks at
  that result. A full disk then publishes a truncated file under the final name, while
  `docs/dev_notes.md` says the rename "avoids partially written JSON files being read".
* **`config_usage`.** `load_app_config` reads `config/v4l2_tcp_pipeline.conf` whenever it
  exists, and the shipped file selects the pipeline mode and TCP. Arguments can add a
  mode and cannot take one back, so the capture command lines of `print_usage`
  (`main.cpp`), other than the pipeline's, end with "Use only one capture mode" when
  started in the repository root, while the file itself says "Priority: built-in
  defaults < this config file < command line arguments." `ConfigHonoured` shows that the
  values do have this priority in every configuration that is accepted.

Also met while modelling, without a run of its own: `requeue_buffer`
(`camera_device.cpp:542`) reports a failed `VIDIOC_QBUF` as a plain
`std::runtime_error`, so at the end of `capture_frame_copy` it bypasses the recovery
that `camera_capture_error.hpp` classifies capture failures for (action
`CaptureThrows` of `CaptureProducer`; the run then fails, as `StopIsReported`
demands).

## 6. What is not modelled

* Logger and JSON text: formatting, on which nothing depends.
* The parsing of text: trimming and splitting of the configuration file's lines, and the
  command lines of `tcp_sender`, `tcp_receiver` and `protocol_fixture`.
* The rounding of doubles in latencies and rates.
* File names and PPM headers of saved images; only their pixels are modelled.
* ROS messages beyond the numbers they carry, and the middleware beyond a queue.
* `list_formats`, and the format negotiation of the camera beyond success or failure.
* Scripts and unit tests. They were read for what they expect of the programs.

## 7. Plan

Done, in this order: ring buffer and its refinement; recovery policies and pipeline
with safety, liveness and proofs; camera device; send primitive; the two receivers;
statistics file; protocol, exchange of a frame, fixture, latencies, conversions and
configuration; throughput check and diagnostics.

Proved, in this order: ring buffer, pipeline and recovery; camera device; send primitive;
the two receivers; the three reports; the order of frames on the wire; the pure functions.
No safety property that holds is left to model checking alone.

Next:

1. `TcpSend` as the refinement of the send step of `TcpSenderThread`.
2. `CameraDevice` composed with `CaptureProducer`: the device's errors drive the
   policies instead of a free choice.
