---------------------------- MODULE CameraDevice ----------------------------
(***************************************************************************)
(* src/camera_device.cpp: one CameraDevice object, from open to its         *)
(* destructor, against the V4L2 driver.  One action is one system call the  *)
(* object makes together with what it does with the answer; every call may  *)
(* fail.  The driver (external) is its open descriptors, the mappings it    *)
(* has handed out, the descriptor that owns its buffers and the buffers     *)
(* queued with it.  munmap and close of what was mapped and opened succeed. *)
(***************************************************************************)
EXTENDS Integers

CONSTANTS MaxBuffers,   \* most buffers the driver grants to VIDIOC_REQBUFS
          Descriptors,  \* descriptors open() may return
          FrameCount    \* frame_count of capture_frames

ASSUME CameraAssumption ==
  /\ MaxBuffers \in Nat \ {0, 1}
  /\ Descriptors \subseteq Nat
  /\ FrameCount \in Nat \ {0}

VARIABLES mode,        \* the capture function main() chose
          pc,          \* the call the object makes next
          error,       \* the exception in flight: a kind, "runtime" or "none"
          rebuilding,  \* TRUE inside rebuild_camera
          fd,          \* fd_
          buffers,     \* buffers_: TRUE where start is a mapping
          streaming,   \* streaming_
          next,        \* the loop index of init_mmap_buffers
          held,        \* index of the dequeued buffer
          captured,    \* frames this capture function has taken
          driver       \* [open, maps, owner, queued]

vars == <<mode, pc, error, rebuilding, fd, buffers, streaming, next, held,
          captured, driver>>

NoFd == -1
NoBuffer == -1
Indices == 0 .. MaxBuffers - 1

\* capture_frame_copy, capture_one_frame_to_files, capture_one_frame and
\* capture_frames.
Modes == {"copy", "files", "one", "batch"}

\* The modes that use dequeue_frame and a DequeuedBufferGuard.
Guarded == {"copy", "files"}

\* CameraCaptureErrorKind
ErrorKinds == {"Timeout", "TemporaryUnavailable", "DeviceUnavailable",
               "StreamFailure", "InvalidBufferMetadata"}

\* What poll() answers: an errno that means the device is gone, another
\* errno, 0, or a set of revents.
PollAnswers == {"gone", "failed", "timeout", "nval", "hup", "hup_in", "err",
                "err_in", "in"}

\* What dequeue_frame, capture_one_frame and capture_frames make of it.
DequeueFrameVerdict(answer) ==
  CASE answer \in {"gone", "nval", "hup", "hup_in"} -> "DeviceUnavailable"
    [] answer \in {"failed", "err"} -> "StreamFailure"
    [] answer = "timeout" -> "Timeout"
    [] OTHER -> "readable"

OneFrameVerdict(answer) ==
  IF answer \in {"hup_in", "err_in", "in"} THEN "readable" ELSE "runtime"

FramesVerdict(answer) ==
  CASE answer \in {"gone", "failed", "nval"} -> "runtime"
    [] answer \in {"timeout", "hup", "err"} -> "again"
    [] OTHER -> "readable"

PollVerdict(answer) ==
  CASE mode \in Guarded -> DequeueFrameVerdict(answer)
    [] mode = "one"     -> OneFrameVerdict(answer)
    [] mode = "batch"   -> FramesVerdict(answer)

\* The exception a failing VIDIOC_DQBUF or an absurd v4l2_buffer becomes.
Raised(kind) == IF mode \in Guarded THEN kind ELSE "runtime"

object == <<fd, buffers, streaming>>

Goto(place) == pc' = place /\ error' = "none"
Throw(kind) == pc' = "raised" /\ error' = kind

Init ==
  /\ mode \in Modes
  /\ pc = "open" /\ error = "none" /\ rebuilding = FALSE
  /\ fd = NoFd /\ buffers = <<>> /\ streaming = FALSE
  /\ next = 0 /\ held = NoBuffer /\ captured = 0
  /\ driver = [open |-> {}, maps |-> {}, owner |-> NoFd, queued |-> {}]

-----------------------------------------------------------------------------
\* initialize_pipeline_camera, and the same calls in main().

OpenDevice ==
  /\ pc = "open"
  /\ \/ \E d \in Descriptors \ driver.open :
          /\ fd' = d
          /\ driver' = [driver EXCEPT !.open = @ \cup {d}]
          /\ Goto("query")
     \/ /\ Throw("runtime")
        /\ UNCHANGED <<fd, driver>>
  /\ UNCHANGED <<mode, rebuilding, buffers, streaming, next, held, captured>>

QueryCapability ==
  /\ pc = "query"
  /\ Goto("format") \/ Throw("runtime")
  /\ UNCHANGED <<mode, rebuilding, object, next, held, captured, driver>>

SetFormat ==
  /\ pc = "format"
  /\ Goto("reqbufs") \/ Throw("runtime")
  /\ UNCHANGED <<mode, rebuilding, object, next, held, captured, driver>>

\* The live mappings recorded in buffers_.
Mapped == {i \in DOMAIN buffers : buffers[i]}

\* release_mmap_buffers, as an update of the driver's mappings.
Released == driver.maps \ {<<fd, i>> : i \in Mapped}

\* init_mmap_buffers up to buffers_.resize: the old mappings go first; the
\* driver refuses (EBUSY) while another descriptor owns its buffers.
RequestBuffers ==
  /\ pc = "reqbufs"
  /\ \/ \E granted \in 0 .. MaxBuffers :
          /\ driver.owner \in {NoFd, fd}
          /\ driver' = [driver EXCEPT !.maps = Released, !.owner = fd,
                                      !.queued = {}]
          /\ IF granted < 2
               THEN buffers' = <<>> /\ Throw("runtime")
               ELSE /\ buffers' = [i \in 0 .. granted - 1 |-> FALSE]
                    /\ Goto("map")
     \/ /\ driver' = [driver EXCEPT !.maps = Released]
        /\ buffers' = <<>>
        /\ Throw("runtime")
  /\ next' = 0
  /\ UNCHANGED <<mode, rebuilding, fd, streaming, held, captured>>

\* One round of a loop over the buffers that continues at "after".
Round(after) ==
  /\ next' = IF next + 1 \in DOMAIN buffers THEN next + 1 ELSE 0
  /\ Goto(IF next + 1 \in DOMAIN buffers THEN pc ELSE after)

\* VIDIOC_QUERYBUF and mmap of buffer next.
MapBuffer ==
  /\ pc = "map"
  /\ \/ /\ buffers' = [buffers EXCEPT ![next] = TRUE]
        /\ driver' = [driver EXCEPT !.maps = @ \cup {<<fd, next>>}]
        /\ Round("enqueue")
     \/ /\ Throw("runtime")
        /\ UNCHANGED <<buffers, driver, next>>
  /\ UNCHANGED <<mode, rebuilding, fd, streaming, held, captured>>

\* requeue_buffer(i): VIDIOC_QBUF succeeds, or fails and changes nothing.
QueueBuffer(i) == driver' = [driver EXCEPT !.queued = @ \cup {i}]

\* The queueing loop of init_mmap_buffers.
EnqueueBuffer ==
  /\ pc = "enqueue"
  /\ \/ QueueBuffer(next) /\ Round("streamon")
     \/ Throw("runtime") /\ UNCHANGED <<driver, next>>
  /\ UNCHANGED <<mode, rebuilding, object, held, captured>>

StartStreaming ==
  /\ pc = "streamon"
  /\ \/ streaming' = TRUE /\ rebuilding' = FALSE /\ Goto("ready")
     \/ Throw("runtime") /\ UNCHANGED <<streaming, rebuilding>>
  /\ UNCHANGED <<mode, fd, buffers, next, held, captured, driver>>

-----------------------------------------------------------------------------
\* The capture functions.

\* How many frames the mode's single call takes; the pipeline sets no limit
\* here.
Target == IF mode = "batch" THEN FrameCount ELSE 1

BeginCapture ==
  /\ pc = "ready"
  /\ mode = "copy" \/ captured < Target
  /\ Goto("poll")
  /\ UNCHANGED <<mode, rebuilding, object, next, held, captured, driver>>

\* poll(); EINTR only repeats it.
Poll ==
  /\ pc = "poll"
  /\ \E answer \in PollAnswers :
       CASE PollVerdict(answer) = "readable" -> Goto("dequeue")
         [] PollVerdict(answer) = "again" -> Goto("poll")
         [] OTHER -> Throw(PollVerdict(answer))
  /\ UNCHANGED <<mode, rebuilding, object, next, held, captured, driver>>

\* VIDIOC_DQBUF returns an error.
DequeueFails ==
  /\ pc = "dequeue"
  /\ \/ mode # "batch" /\ Throw(Raised("TemporaryUnavailable"))
     \/ Throw(Raised("DeviceUnavailable"))
     \/ Throw(Raised("StreamFailure"))
  /\ UNCHANGED <<mode, rebuilding, object, next, held, captured, driver>>

\* capture_frames polls again on EAGAIN.
DequeueAgain ==
  /\ pc = "dequeue" /\ mode = "batch"
  /\ Goto("poll")
  /\ UNCHANGED <<mode, rebuilding, object, next, held, captured, driver>>

Unqueued(i) == [driver EXCEPT !.queued = @ \ {i}]

\* The driver gives up a buffer but reports an index out of range: nothing
\* can be queued again.
DequeueBadIndex ==
  /\ pc = "dequeue"
  /\ \E i \in driver.queued : driver' = Unqueued(i)
  /\ Throw(Raised("InvalidBufferMetadata"))
  /\ UNCHANGED <<mode, rebuilding, object, next, held, captured>>

\* bytesused > length: the buffer goes back, or fails to, and the call
\* throws; capture_one_frame only warns (DequeueBuffer).
DequeueOversized ==
  /\ pc = "dequeue" /\ mode # "one"
  /\ \E i \in driver.queued : driver' \in {driver, Unqueued(i)}
  /\ Throw(Raised("InvalidBufferMetadata"))
  /\ UNCHANGED <<mode, rebuilding, object, next, held, captured>>

\* Mutant: DequeueBuffer that queues the buffer again at once, before its use.
DequeueBufferTooEager ==
  /\ pc = "dequeue"
  /\ \E i \in driver.queued : held' = i
  /\ captured' = IF mode = "copy" THEN captured ELSE captured + 1
  /\ Goto("use")
  /\ UNCHANGED <<mode, rebuilding, object, next, driver>>

\* A frame arrives: dequeue_frame returns it and the caller holds its buffer.
DequeueBuffer ==
  /\ pc = "dequeue"
  /\ \E i \in driver.queued : held' = i /\ driver' = Unqueued(i)
  /\ captured' = IF mode = "copy" THEN captured ELSE captured + 1
  /\ Goto("use")
  /\ UNCHANGED <<mode, rebuilding, object, next>>

\* The frame is copied, saved or previewed from the mapping.
UseBuffer ==
  /\ pc = "use"
  /\ Goto("requeue")
  /\ UNCHANGED <<mode, rebuilding, object, next, held, captured, driver>>

\* The copy or the save throws: ~DequeuedBufferGuard tries to give the
\* buffer back.
UseFails ==
  /\ pc = "use" /\ mode \in Guarded
  /\ QueueBuffer(held) \/ UNCHANGED driver
  /\ held' = NoBuffer
  /\ Throw("runtime")
  /\ UNCHANGED <<mode, rebuilding, object, next, captured>>

\* requeue_or_throw, or requeue_buffer itself.  The guard is disarmed before
\* the call, so a failed VIDIOC_QBUF is not tried again.
RequeueBuffer ==
  /\ pc = "requeue"
  /\ \/ /\ QueueBuffer(held)
        /\ Goto(IF mode = "batch" /\ captured < Target THEN "poll" ELSE "ready")
     \/ Throw("runtime") /\ UNCHANGED driver
  /\ held' = NoBuffer
  /\ UNCHANGED <<mode, rebuilding, object, next, captured>>

-----------------------------------------------------------------------------
\* What the caller does next, and teardown.

\* Mutant: CatchAndContinue that treats bad metadata as a passing condition.
ContinueOnBadMetadata ==
  /\ pc = "raised" /\ mode = "copy"
  /\ error \in {"Timeout", "TemporaryUnavailable", "InvalidBufferMetadata"}
  /\ Goto("ready")
  /\ UNCHANGED <<mode, rebuilding, object, next, held, captured, driver>>

\* The producer goes on capturing after a timeout below its threshold and
\* after a temporary error.
CatchAndContinue ==
  /\ pc = "raised" /\ mode = "copy"
  /\ error \in {"Timeout", "TemporaryUnavailable"}
  /\ Goto("ready")
  /\ UNCHANGED <<mode, rebuilding, object, next, held, captured, driver>>

\* Mutant: Teardown that forgets close_device.
TeardownKeepsDescriptor ==
  /\ driver' = [driver EXCEPT !.maps = Released]
  /\ fd' = NoFd /\ buffers' = <<>> /\ streaming' = FALSE

\* stop_streaming, release_mmap_buffers, close_device.  Closing the owner
\* frees the driver's buffers.
Teardown ==
  /\ driver' = [open   |-> driver.open \ {fd},
                maps   |-> Released,
                owner  |-> IF driver.owner = fd THEN NoFd ELSE driver.owner,
                queued |-> IF driver.owner = fd THEN {} ELSE driver.queued]
  /\ fd' = NoFd /\ buffers' = <<>> /\ streaming' = FALSE

\* camera = CameraDevice(device) in rebuild_camera: move assignment from a
\* closed object.  The producer rebuilds for every classified error but a
\* temporary one, for invalid frames, and after a failed rebuild.
MoveAssign ==
  /\ mode = "copy"
  /\ \/ pc = "ready"
     \/ pc = "raised" /\ error \in ErrorKinds \ {"TemporaryUnavailable"}
     \/ pc = "raised" /\ rebuilding
  /\ Teardown
  /\ rebuilding' = TRUE
  /\ Goto("open")
  /\ UNCHANGED <<mode, next, held, captured>>

\* camera.stop_streaming() at the end of main(): streaming_ is cleared even
\* when VIDIOC_STREAMOFF fails.
StopStreaming ==
  /\ pc = "ready"
  /\ mode = "copy" \/ captured = Target
  /\ driver' \in {driver, [driver EXCEPT !.queued = {}]}
  /\ streaming' = FALSE
  /\ Goto("stopped")
  /\ UNCHANGED <<mode, rebuilding, fd, buffers, next, held, captured>>

\* ~CameraDevice, after stop_streaming or while an exception unwinds main():
\* one of this object's, or one of another part of the pipeline.
Destroy ==
  /\ pc \in {"stopped", "raised"} \/ (pc = "ready" /\ mode = "copy")
  /\ Teardown
  /\ Goto("destroyed")
  /\ UNCHANGED <<mode, rebuilding, next, held, captured>>

Ended == pc = "destroyed" /\ UNCHANGED vars

Next ==
  \/ OpenDevice \/ QueryCapability \/ SetFormat \/ RequestBuffers
  \/ MapBuffer \/ EnqueueBuffer \/ StartStreaming
  \/ BeginCapture \/ Poll \/ DequeueFails \/ DequeueAgain \/ DequeueBadIndex
  \/ DequeueOversized \/ DequeueBuffer \/ UseBuffer \/ UseFails
  \/ RequeueBuffer \/ CatchAndContinue \/ MoveAssign \/ StopStreaming
  \/ Destroy \/ Ended

Spec == Init /\ [][Next]_vars

-----------------------------------------------------------------------------
Places == {"open", "query", "format", "reqbufs", "map", "enqueue", "streamon",
           "ready", "poll", "dequeue", "use", "requeue", "raised", "stopped",
           "destroyed"}

\* The members and the driver keep their types: buffers_ has between two and
\* MaxBuffers entries whenever it is not empty, and the loop index stays
\* inside it.
TypeOK ==
  /\ mode \in Modes /\ pc \in Places
  /\ error \in ErrorKinds \cup {"none", "runtime"}
  /\ rebuilding \in BOOLEAN /\ streaming \in BOOLEAN
  /\ fd \in Descriptors \cup {NoFd}
  /\ \/ buffers = <<>>
     \/ \E n \in 2 .. MaxBuffers : buffers \in [0 .. n - 1 -> BOOLEAN]
  /\ next \in Indices
  /\ held \in Indices \cup {NoBuffer}
  /\ captured \in 0 .. FrameCount
  /\ driver.open \subseteq Descriptors
  /\ driver.maps \subseteq Descriptors \X Indices
  /\ driver.owner \in Descriptors \cup {NoFd}
  /\ driver.queued \subseteq Indices

\* Whatever failed and however often the stream was rebuilt, the process
\* holds exactly the descriptor and the mappings its CameraDevice records:
\* an initialisation that throws half-way leaks neither (rebuild_camera can
\* run for the life of the process).
NothingLeaks ==
  /\ TypeOK
  /\ driver.open = {fd} \ {NoFd}
  /\ driver.maps = {<<fd, i>> : i \in Mapped}
  /\ driver.owner \in {NoFd, fd}

\* While a capture function waits for a frame, every buffer is queued with
\* the driver: each path that fails to give one back throws an error after
\* which the stream is rebuilt or closed, so capture never goes on with a
\* shrinking pool.
NoStarvation ==
  pc \in {"ready", "poll", "dequeue"} =>
    streaming /\ Mapped = DOMAIN buffers /\ driver.queued = DOMAIN buffers

\* The bytes of a frame are read from a mapping the driver does not own at
\* that moment: the buffer is dequeued before, and queued only after, the
\* copy or the save.
ReadsOwnBuffer ==
  pc \in {"use", "requeue"} => held \in Mapped \ driver.queued
=============================================================================
