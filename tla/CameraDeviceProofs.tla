-------------------------- MODULE CameraDeviceProofs --------------------------
(***************************************************************************)
(* For every number of driver buffers, every set of descriptors, every      *)
(* frame count and every sequence of failing system calls: a CameraDevice   *)
(* leaks neither a descriptor nor a mapping, never waits for a frame with a *)
(* buffer missing from the driver's queue, and reads a frame only from a    *)
(* buffer the driver does not own.                                          *)
(***************************************************************************)
EXTENDS CameraDevice, TLAPS

\* The driver is a record of four fields (TypeOK speaks of each by itself).
DriverRecord ==
  driver \in [open : SUBSET Descriptors, maps : SUBSET (Descriptors \X Indices),
              owner : Descriptors \cup {NoFd}, queued : SUBSET Indices]

\* buffers_ is empty until VIDIOC_REQBUFS and after release_mmap_buffers, and
\* there is none without a descriptor.
BuffersHaveDevice ==
  /\ pc \in {"open", "query", "format", "reqbufs", "destroyed"} => buffers = <<>>
  /\ pc \in {"open", "destroyed"} => fd = NoFd
  /\ pc \notin {"open", "raised", "destroyed"} => fd # NoFd
  /\ pc \notin {"open", "query", "format", "reqbufs", "raised", "destroyed"} => buffers # <<>>
  /\ fd = NoFd => buffers = <<>>

\* How far init_mmap_buffers and the capture functions have come with the
\* buffers: a prefix is mapped, then a prefix is queued, then all are queued
\* but the one that is held.
BuffersProgress ==
  /\ pc \in {"map", "enqueue"} => next \in DOMAIN buffers
  /\ pc = "map" => Mapped = 0 .. next - 1 /\ driver.queued = {}
  /\ pc \in {"enqueue", "streamon", "ready", "poll", "dequeue", "use", "requeue"} =>
       Mapped = DOMAIN buffers
  /\ pc = "enqueue" => driver.queued = 0 .. next - 1
  /\ pc \in {"streamon", "ready", "poll", "dequeue"} => driver.queued = DOMAIN buffers
  /\ pc \in {"ready", "poll", "dequeue", "use", "requeue"} => streaming
  /\ pc \in {"use", "requeue"} => held \in DOMAIN buffers /\ driver.queued = DOMAIN buffers \ {held}

\* The frames of a single call are counted up to its target; capture_frame_copy
\* counts none here.
CapturedBounded ==
  /\ mode = "copy" => captured = 0
  /\ captured <= Target
  /\ mode # "copy" /\ pc \in {"poll", "dequeue"} => captured < Target

\* The errors after which the producer goes on with the same stream.
PassingErrors == {"Timeout", "TemporaryUnavailable"}

\* Such an error is raised only while every buffer is queued.
PassingErrorsLoseNothing ==
  pc = "raised" /\ error \in PassingErrors =>
    /\ fd # NoFd /\ buffers # <<>> /\ streaming
    /\ Mapped = DOMAIN buffers /\ driver.queued = DOMAIN buffers

\* The inductive invariant.
IInv ==
  /\ NothingLeaks /\ DriverRecord
  /\ BuffersHaveDevice /\ BuffersProgress /\ CapturedBounded
  /\ PassingErrorsLoseNothing

-----------------------------------------------------------------------------
\* A vector of n buffers: its indices, and its live mappings among them.
LEMMA BuffersShape ==
  ASSUME TypeOK
  PROVE  /\ Mapped \subseteq DOMAIN buffers
         /\ DOMAIN buffers \subseteq Indices
         /\ buffers = <<>> => DOMAIN buffers = {} /\ Mapped = {}
         /\ buffers # <<>> =>
              \E n \in 2 .. MaxBuffers :
                /\ buffers \in [0 .. n - 1 -> BOOLEAN]
                /\ DOMAIN buffers = 0 .. n - 1
  BY CameraAssumption DEF TypeOK, Mapped, Indices

\* A step that changes neither the object nor the driver, from a place to one
\* with the same demands or to an exception.
LEMMA QuietStep ==
  ASSUME IInv, UNCHANGED <<mode, object, next, held, captured, driver>>,
         rebuilding' \in BOOLEAN, pc' \in Places, error' \in ErrorKinds \cup {"none", "runtime"},
         \/ pc' = "raised" /\ pc \notin {"open", "destroyed"}
         \/ pc = "open" /\ pc' = "raised"
         \/ <<pc, pc'>> \in {<<"query", "format">>, <<"format", "reqbufs">>,
                             <<"poll", "poll">>, <<"poll", "dequeue">>, <<"dequeue", "poll">>,
                             <<"use", "requeue">>}
         \/ pc = "ready" /\ pc' = "poll" /\ (mode = "copy" \/ captured < Target)
         \/ pc = "raised" /\ error \in PassingErrors /\ pc' = "ready",
         pc' = "raised" /\ error' \in PassingErrors => pc \in {"poll", "dequeue"}
  PROVE  IInv'
  <1> USE DEF object
  <1>1. Mapped' = Mapped /\ Target' = Target
    BY DEF Mapped, Target
  <1>2. NothingLeaks' /\ DriverRecord'
    BY <1>1 DEF IInv, NothingLeaks, TypeOK, DriverRecord
  <1>3. BuffersHaveDevice'
    BY DEF IInv, BuffersHaveDevice, PassingErrorsLoseNothing
  <1>4. BuffersProgress'
    BY <1>1 DEF IInv, BuffersProgress, PassingErrorsLoseNothing
  <1>5. CapturedBounded'
    BY <1>1 DEF IInv, CapturedBounded
  <1>6. PassingErrorsLoseNothing'
    BY <1>1 DEF IInv, BuffersHaveDevice, BuffersProgress, PassingErrorsLoseNothing
  <1> QED
    BY <1>2, <1>3, <1>4, <1>5, <1>6 DEF IInv

\* The initial state has no device and no buffers.
LEMMA InitInv == Init => IInv
  <1> SUFFICES ASSUME Init PROVE IInv
    OBVIOUS
  <1> USE CameraAssumption DEF Init
  <1>1. DOMAIN buffers = {} /\ Mapped = {}
    BY DEF Mapped
  <1>2. TypeOK /\ DriverRecord
    <2>1. rebuilding \in BOOLEAN /\ streaming \in BOOLEAN
      BY Zenon
    <2>2. DriverRecord
      BY DEF DriverRecord
    <2>3. /\ driver.open \subseteq Descriptors
          /\ driver.maps \subseteq Descriptors \X Indices
          /\ driver.owner \in Descriptors \cup {NoFd}
          /\ driver.queued \subseteq Indices
      OBVIOUS
    <2>4. next \in Indices /\ captured \in 0 .. FrameCount
      BY DEF Indices
    <2> QED
      BY <2>1, <2>2, <2>3, <2>4 DEF TypeOK, Places
  <1>3. NothingLeaks
    BY <1>1, <1>2 DEF NothingLeaks
  <1>4. BuffersHaveDevice /\ BuffersProgress
    BY <1>1 DEF BuffersHaveDevice, BuffersProgress
  <1>5. CapturedBounded
    BY DEF CapturedBounded, Target
  <1> QED
    BY <1>2, <1>3, <1>4, <1>5 DEF IInv, PassingErrorsLoseNothing, PassingErrors

\* open(): the new descriptor is the only one.
LEMMA OpenStep == IInv /\ OpenDevice => IInv'
  <1> SUFFICES ASSUME IInv, OpenDevice PROVE IInv'
    OBVIOUS
  <1> USE CameraAssumption DEF OpenDevice
  <1>1. CASE UNCHANGED <<fd, driver>> /\ Throw("runtime")
    BY <1>1, QuietStep DEF IInv, Throw, Places, object, NothingLeaks, TypeOK, PassingErrors
  <1>2. ASSUME NEW d \in Descriptors \ driver.open, fd' = d,
               driver' = [driver EXCEPT !.open = @ \cup {d}], Goto("query")
        PROVE  IInv'
    <2> USE <1>2 DEF Goto
    <2>1. Mapped' = Mapped /\ Mapped = {} /\ buffers = <<>> /\ fd = NoFd
      BY BuffersShape DEF IInv, NothingLeaks, BuffersHaveDevice, Mapped
    <2>2. driver'.open = {d} /\ driver'.maps = driver.maps /\ driver'.owner = driver.owner
          /\ driver'.queued = driver.queued /\ DriverRecord'
      BY <2>1 DEF IInv, NothingLeaks, DriverRecord
    <2>3. TypeOK'
      BY <2>2 DEF IInv, NothingLeaks, TypeOK, Places
    <2>4. NothingLeaks'
      BY <2>1, <2>2, <2>3 DEF IInv, NothingLeaks, NoFd
    <2>5. BuffersHaveDevice' /\ BuffersProgress' /\ CapturedBounded'
      BY <2>1 DEF IInv, BuffersHaveDevice, BuffersProgress, CapturedBounded, NoFd, Target
    <2> QED
      BY <2>2, <2>4, <2>5 DEF IInv, PassingErrorsLoseNothing, PassingErrors
  <1> QED
    BY <1>1, <1>2

\* VIDIOC_REQBUFS: the vector is empty before, and new or empty after.
LEMMA RequestStep == IInv /\ RequestBuffers => IInv'
  <1> SUFFICES ASSUME IInv, RequestBuffers PROVE IInv'
    OBVIOUS
  <1> USE CameraAssumption DEF RequestBuffers
  <1>1. Mapped = {} /\ buffers = <<>> /\ fd # NoFd /\ driver.maps = {} /\ Released = {}
    BY BuffersShape DEF IInv, NothingLeaks, BuffersHaveDevice, Released
  <1>2. /\ driver'.open = driver.open /\ driver'.maps = {}
        /\ driver'.owner \in {NoFd, fd} /\ driver'.queued \subseteq Indices
        /\ DriverRecord'
    BY <1>1 DEF IInv, NothingLeaks, DriverRecord, TypeOK
  <1>3. CapturedBounded' /\ next' \in Indices
    BY DEF IInv, CapturedBounded, Target, Goto, Throw, Indices
  <1>4. CASE buffers' = <<>> /\ Throw("runtime")
    <2> USE <1>4 DEF Throw
    <2>1. Mapped' = {}
      BY DEF Mapped
    <2>2. TypeOK'
      BY <1>2, <1>3 DEF IInv, NothingLeaks, TypeOK, Places, DriverRecord
    <2>3. NothingLeaks' /\ BuffersHaveDevice' /\ BuffersProgress'
      BY <1>1, <1>2, <2>1, <2>2
      DEF IInv, NothingLeaks, BuffersHaveDevice, BuffersProgress
    <2> QED
      BY <1>2, <1>3, <2>3 DEF IInv, PassingErrorsLoseNothing, PassingErrors
  <1>5. ASSUME NEW granted \in 2 .. MaxBuffers, Goto("map"), driver'.queued = {},
               buffers' = [i \in 0 .. granted - 1 |-> FALSE]
        PROVE  IInv'
    <2> USE <1>5 DEF Goto
    <2>1. Mapped' = {} /\ DOMAIN buffers' = 0 .. granted - 1 /\ next' \in DOMAIN buffers'
          /\ buffers' # <<>> /\ next' = 0 /\ buffers' \in [0 .. granted - 1 -> BOOLEAN]
      BY DEF Mapped
    <2>2. TypeOK'
      BY <1>2, <1>3, <2>1 DEF IInv, NothingLeaks, TypeOK, Places, DriverRecord
    <2>3. NothingLeaks'
      BY <1>1, <1>2, <2>1, <2>2 DEF IInv, NothingLeaks
    <2>4. BuffersHaveDevice' /\ BuffersProgress'
      BY <1>1, <2>1 DEF BuffersHaveDevice, BuffersProgress
    <2> QED
      BY <1>2, <1>3, <2>3, <2>4 DEF IInv, PassingErrorsLoseNothing, PassingErrors
  <1>6. \A granted \in 0 .. MaxBuffers :
           driver' = [driver EXCEPT !.maps = Released, !.owner = fd, !.queued = {}] =>
             driver'.queued = {}
    BY DEF IInv, DriverRecord
  <1> QED
    BY <1>4, <1>5, <1>6

\* One round of a loop over the buffers: the index stays inside the vector,
\* and the loop ends exactly after the last buffer.
LEMMA RoundIs ==
  ASSUME IInv, next \in DOMAIN buffers, NEW after, Round(after)
  PROVE  /\ next' \in DOMAIN buffers /\ next' \in Indices /\ error' = "none"
         /\ \/ pc' = pc /\ next' = next + 1
            \/ pc' = after /\ DOMAIN buffers = 0 .. next /\ next' = 0
  <1>1. PICK n \in 2 .. MaxBuffers : DOMAIN buffers = 0 .. n - 1
    BY BuffersShape DEF IInv, NothingLeaks
  <1> QED
    BY <1>1, CameraAssumption DEF Round, Goto, Indices

\* mmap of one buffer.
LEMMA MapStep == IInv /\ MapBuffer => IInv'
  <1> SUFFICES ASSUME IInv, MapBuffer PROVE IInv'
    OBVIOUS
  <1> USE CameraAssumption DEF MapBuffer
  <1>1. CASE Throw("runtime") /\ UNCHANGED <<buffers, driver, next>>
    BY <1>1, QuietStep DEF IInv, Throw, Places, object, NothingLeaks, TypeOK, PassingErrors
  <1>2. CASE /\ buffers' = [buffers EXCEPT ![next] = TRUE]
             /\ driver' = [driver EXCEPT !.maps = @ \cup {<<fd, next>>}]
             /\ Round("enqueue")
    <2> USE <1>2
    <2>1. next \in DOMAIN buffers /\ Mapped = 0 .. next - 1 /\ driver.queued = {}
          /\ buffers # <<>> /\ fd # NoFd /\ fd \in Descriptors
      BY DEF IInv, NothingLeaks, TypeOK, BuffersHaveDevice, BuffersProgress
    <2>2. PICK n \in 2 .. MaxBuffers :
             buffers \in [0 .. n - 1 -> BOOLEAN] /\ DOMAIN buffers = 0 .. n - 1
      BY <2>1, BuffersShape DEF IInv, NothingLeaks
    <2>3. buffers' \in [0 .. n - 1 -> BOOLEAN] /\ DOMAIN buffers' = DOMAIN buffers
          /\ buffers' # <<>>
      BY <2>1, <2>2
    <2>4. Mapped' = Mapped \cup {next} /\ Mapped' = 0 .. next
      BY <2>1, <2>2 DEF Mapped
    <2>5. /\ driver'.open = driver.open /\ driver'.maps = driver.maps \cup {<<fd, next>>}
          /\ driver'.owner = driver.owner /\ driver'.queued = driver.queued
      BY DEF IInv, DriverRecord
    <2>6. /\ next' \in DOMAIN buffers /\ next' \in Indices /\ error' = "none"
          /\ \/ pc' = "map" /\ next' = next + 1
             \/ pc' = "enqueue" /\ DOMAIN buffers = 0 .. next /\ next' = 0
      BY <2>1, RoundIs
    <2>7. <<fd, next>> \in Descriptors \X Indices
      BY <2>1 DEF IInv, NothingLeaks, TypeOK
    <2>8. DriverRecord'
      BY <2>7 DEF IInv, DriverRecord
    <2>9. TypeOK'
      BY <2>3, <2>6, <2>8 DEF IInv, NothingLeaks, TypeOK, Places, DriverRecord
    <2>10. NothingLeaks'
      BY <2>4, <2>5, <2>9 DEF IInv, NothingLeaks
    <2>11. BuffersHaveDevice' /\ CapturedBounded'
      BY <2>1, <2>3, <2>6 DEF IInv, BuffersHaveDevice, CapturedBounded, Target
    <2>12. BuffersProgress'
      <3>1. next \in Nat
        BY <2>1, <2>2
      <3>2. pc' = "map" => Mapped' = 0 .. next' - 1
        BY <3>1, <2>4, <2>6
      <3>3. pc' = "enqueue" => Mapped' = DOMAIN buffers' /\ driver'.queued = 0 .. next' - 1
        BY <3>1, <2>1, <2>3, <2>4, <2>5, <2>6
      <3> QED
        BY <2>1, <2>3, <2>5, <2>6, <3>2, <3>3 DEF BuffersProgress
    <2> QED
      BY <2>6, <2>8, <2>10, <2>11, <2>12 DEF IInv, PassingErrorsLoseNothing, PassingErrors
  <1> QED
    BY <1>1, <1>2

\* A step that changes only which buffers the driver has queued.
LEMMA QueueStep ==
  ASSUME IInv, UNCHANGED <<mode, rebuilding, object, next>>, NEW Q, Q \subseteq DOMAIN buffers,
         driver' \in {driver, [driver EXCEPT !.queued = Q]}
  PROVE  /\ DriverRecord' /\ Mapped' = Mapped /\ Target' = Target
         /\ driver'.open = driver.open /\ driver'.maps = driver.maps
         /\ driver'.owner = driver.owner
         /\ driver' = driver \/ driver'.queued = Q
         /\ (/\ pc' \in Places /\ error' \in ErrorKinds \cup {"none", "runtime"}
             /\ held' \in Indices \cup {NoBuffer} /\ captured' \in 0 .. FrameCount
             => NothingLeaks')
  <1> USE DEF object
  <1>1. Q \subseteq Indices
    BY BuffersShape DEF IInv, NothingLeaks
  <1>2. DriverRecord'
    BY <1>1 DEF IInv, DriverRecord
  <1>3. /\ driver'.open = driver.open /\ driver'.maps = driver.maps
        /\ driver'.owner = driver.owner
        /\ driver' = driver \/ driver'.queued = Q
    BY DEF IInv, DriverRecord
  <1>4. Mapped' = Mapped /\ Target' = Target
    BY DEF Mapped, Target
  <1>5. ASSUME pc' \in Places, error' \in ErrorKinds \cup {"none", "runtime"},
               held' \in Indices \cup {NoBuffer}, captured' \in 0 .. FrameCount
        PROVE  NothingLeaks'
    <2>1. TypeOK'
      BY <1>2, <1>5 DEF IInv, NothingLeaks, TypeOK, DriverRecord
    <2> QED
      BY <2>1, <1>3, <1>4 DEF IInv, NothingLeaks
  <1> QED
    BY <1>2, <1>3, <1>4, <1>5

\* VIDIOC_QBUF of one buffer in init_mmap_buffers.
LEMMA EnqueueStep == IInv /\ EnqueueBuffer => IInv'
  <1> SUFFICES ASSUME IInv, EnqueueBuffer PROVE IInv'
    OBVIOUS
  <1> USE CameraAssumption DEF EnqueueBuffer
  <1>1. CASE Throw("runtime") /\ UNCHANGED <<driver, next>>
    BY <1>1, QuietStep DEF IInv, Throw, Places, object, NothingLeaks, TypeOK, PassingErrors
  <1>2. CASE QueueBuffer(next) /\ Round("streamon")
    <2> USE <1>2 DEF object
    <2>1. next \in DOMAIN buffers /\ Mapped = DOMAIN buffers /\ driver.queued = 0 .. next - 1
          /\ buffers # <<>> /\ fd # NoFd
      BY DEF IInv, BuffersHaveDevice, BuffersProgress
    <2>2. PICK n \in 2 .. MaxBuffers : DOMAIN buffers = 0 .. n - 1
      BY <2>1, BuffersShape DEF IInv, NothingLeaks
    <2>3. /\ next' \in DOMAIN buffers /\ next' \in Indices /\ error' = "none"
          /\ \/ pc' = "enqueue" /\ next' = next + 1
             \/ pc' = "streamon" /\ DOMAIN buffers = 0 .. next /\ next' = 0
      BY <2>1, RoundIs
    <2>4. /\ driver'.open = driver.open /\ driver'.maps = driver.maps
          /\ driver'.owner = driver.owner /\ driver'.queued = driver.queued \cup {next}
      BY DEF IInv, DriverRecord, QueueBuffer
    <2>5. DriverRecord'
      <3>1. next \in Indices
        BY DEF IInv, NothingLeaks, TypeOK
      <3> QED
        BY <3>1 DEF IInv, DriverRecord, QueueBuffer
    <2>6. Mapped' = Mapped /\ Target' = Target
      BY DEF Mapped, Target
    <2>7. TypeOK'
      BY <2>3, <2>5 DEF IInv, NothingLeaks, TypeOK, Places, DriverRecord
    <2>8. NothingLeaks'
      BY <2>4, <2>6, <2>7 DEF IInv, NothingLeaks
    <2>9. driver'.queued = 0 .. next
      BY <2>1, <2>2, <2>4
    <2>10. BuffersProgress'
      BY <2>1, <2>2, <2>3, <2>6, <2>9 DEF BuffersProgress
    <2>11. BuffersHaveDevice' /\ CapturedBounded'
      BY <2>1, <2>3, <2>6 DEF IInv, BuffersHaveDevice, CapturedBounded
    <2> QED
      BY <2>3, <2>5, <2>8, <2>10, <2>11 DEF IInv, PassingErrorsLoseNothing, PassingErrors
  <1> QED
    BY <1>1, <1>2

\* VIDIOC_STREAMON.
LEMMA StreamonStep == IInv /\ StartStreaming => IInv'
  <1> SUFFICES ASSUME IInv, StartStreaming PROVE IInv'
    OBVIOUS
  <1> USE DEF StartStreaming
  <1>1. CASE Throw("runtime") /\ UNCHANGED <<streaming, rebuilding>>
    BY <1>1, QuietStep DEF IInv, Throw, Places, object, NothingLeaks, TypeOK, PassingErrors
  <1>2. CASE streaming' = TRUE /\ rebuilding' = FALSE /\ Goto("ready")
    <2> USE <1>2 DEF Goto
    <2>1. Mapped' = Mapped /\ Target' = Target
      BY DEF Mapped, Target
    <2>2. TypeOK' /\ DriverRecord'
      BY DEF IInv, NothingLeaks, TypeOK, Places, DriverRecord
    <2>3. NothingLeaks'
      BY <2>1, <2>2 DEF IInv, NothingLeaks
    <2>4. BuffersHaveDevice' /\ BuffersProgress' /\ CapturedBounded'
      BY <2>1 DEF IInv, BuffersHaveDevice, BuffersProgress, CapturedBounded
    <2> QED
      BY <2>2, <2>3, <2>4 DEF IInv, PassingErrorsLoseNothing, PassingErrors
  <1> QED
    BY <1>1, <1>2

\* What stop_streaming, release_mmap_buffers and close_device leave: nothing.
LEMMA TeardownIs ==
  ASSUME IInv, Teardown
  PROVE  /\ DriverRecord' /\ driver'.open = {} /\ driver'.maps = {} /\ driver'.owner = NoFd
         /\ driver'.queued \subseteq Indices
         /\ buffers' = <<>> /\ Mapped' = {} /\ fd' = NoFd /\ streaming' = FALSE
  <1>1. /\ driver.open \ {fd} = {} /\ Released = {}
        /\ (IF driver.owner = fd THEN NoFd ELSE driver.owner) = NoFd
        /\ driver.queued \subseteq Indices
    BY DEF IInv, NothingLeaks, TypeOK, Released
  <1>2. buffers' = <<>> /\ Mapped' = {} /\ fd' = NoFd /\ streaming' = FALSE
    BY DEF Teardown, Mapped
  <1>3. DriverRecord' /\ driver'.open = {} /\ driver'.maps = {} /\ driver'.owner = NoFd
        /\ driver'.queued \subseteq Indices
    BY <1>1 DEF Teardown, DriverRecord
  <1> QED
    BY <1>2, <1>3

\* The teardown of rebuild_camera and of the destructor.
LEMMA TeardownStep ==
  ASSUME IInv, Teardown, UNCHANGED <<mode, next, held, captured>>, rebuilding' \in BOOLEAN,
         pc' \in {"open", "destroyed"}, error' = "none"
  PROVE  IInv'
  <1>1. TypeOK'
    <2>1. streaming' \in BOOLEAN
      BY TeardownIs, Zenon
    <2> QED
      BY <2>1, TeardownIs DEF IInv, NothingLeaks, TypeOK, Places, DriverRecord
  <1>2. NothingLeaks'
    BY <1>1, TeardownIs DEF NothingLeaks
  <1>3. BuffersHaveDevice' /\ BuffersProgress'
    BY TeardownIs DEF BuffersHaveDevice, BuffersProgress
  <1>4. CapturedBounded'
    BY DEF IInv, CapturedBounded, Target
  <1> QED
    BY <1>1, <1>2, <1>3, <1>4, TeardownIs DEF IInv, PassingErrorsLoseNothing, PassingErrors

\* VIDIOC_DQBUF that hands over a frame, and one that takes a buffer away.
LEMMA DequeueSteps ==
  ASSUME IInv, DequeueBuffer \/ DequeueBadIndex \/ DequeueOversized
  PROVE  IInv'
  <1> USE CameraAssumption DEF object
  <1>1. pc = "dequeue" /\ UNCHANGED <<mode, rebuilding, object, next>>
    BY DEF DequeueBuffer, DequeueBadIndex, DequeueOversized
  <1>2. /\ driver.queued = DOMAIN buffers /\ Mapped = DOMAIN buffers /\ streaming
        /\ buffers # <<>> /\ fd # NoFd
    BY <1>1 DEF IInv, BuffersProgress, BuffersHaveDevice
  <1>3. PICK i \in driver.queued :
           /\ driver' \in {driver, [driver EXCEPT !.queued = driver.queued \ {i}]}
           /\ DequeueBuffer => /\ held' = i
                              /\ driver' = [driver EXCEPT !.queued = driver.queued \ {i}]
    BY DEF DequeueBuffer, DequeueBadIndex, DequeueOversized, Unqueued
  <1>4. i \in Indices /\ driver.queued \ {i} \subseteq DOMAIN buffers
    BY <1>2 DEF IInv, NothingLeaks, TypeOK
  <1>5. CASE DequeueBuffer
    <2> USE <1>5 DEF DequeueBuffer, Goto
    <2>1. captured' \in 0 .. FrameCount /\ CapturedBounded'
      BY DEF IInv, NothingLeaks, TypeOK, CapturedBounded, Target
    <2>2. driver'.queued = driver.queued \ {i}
      BY <1>3 DEF IInv, DriverRecord
    <2>3. NothingLeaks' /\ DriverRecord' /\ Mapped' = Mapped
      <3>1. pc' \in Places /\ error' \in ErrorKinds \cup {"none", "runtime"}
        BY DEF Places
      <3> QED
        BY <1>1, <1>3, <1>4, <2>1, <3>1, QueueStep
    <2>4. BuffersHaveDevice' /\ BuffersProgress'
      BY <1>2, <1>3, <2>2, <2>3 DEF IInv, BuffersHaveDevice, BuffersProgress
    <2> QED
      BY <2>1, <2>3, <2>4 DEF IInv, PassingErrorsLoseNothing, PassingErrors
  <1>6. CASE DequeueBadIndex \/ DequeueOversized
    <2>1. /\ pc' = "raised" /\ error' \in ErrorKinds \cup {"none", "runtime"}
          /\ error' \in {"InvalidBufferMetadata", "runtime"} /\ held' = held /\ captured' = captured /\ pc' \in Places
      BY <1>6 DEF DequeueBadIndex, DequeueOversized, Throw, Raised, ErrorKinds, Places
    <2>2. NothingLeaks' /\ DriverRecord' /\ Mapped' = Mapped /\ Target' = Target
      <3>1. held' \in Indices \cup {NoBuffer} /\ captured' \in 0 .. FrameCount
        BY <2>1 DEF IInv, NothingLeaks, TypeOK
      <3> QED
        BY <1>1, <1>3, <1>4, <2>1, <3>1, QueueStep
    <2>3. BuffersHaveDevice' /\ BuffersProgress' /\ CapturedBounded'
      BY <1>1, <1>2, <2>1, <2>2
      DEF IInv, BuffersHaveDevice, BuffersProgress, CapturedBounded
    <2> QED
      BY <2>1, <2>2, <2>3 DEF IInv, PassingErrorsLoseNothing, PassingErrors
  <1> QED
    BY <1>5, <1>6

\* The buffer goes back to the driver, or fails to and the call throws.
LEMMA RequeueSteps ==
  ASSUME IInv, UseFails \/ RequeueBuffer
  PROVE  IInv'
  <1> USE CameraAssumption DEF object
  <1>1. pc \in {"use", "requeue"} /\ UNCHANGED <<mode, rebuilding, object, next, captured>>
        /\ held' = NoBuffer
    BY DEF UseFails, RequeueBuffer
  <1>2. /\ driver.queued = DOMAIN buffers \ {held} /\ Mapped = DOMAIN buffers /\ streaming
        /\ held \in DOMAIN buffers /\ buffers # <<>> /\ fd # NoFd
    BY <1>1 DEF IInv, BuffersProgress, BuffersHaveDevice
  <1>3. driver' \in {driver, [driver EXCEPT !.queued = driver.queued \cup {held}]}
    BY DEF UseFails, RequeueBuffer, QueueBuffer
  <1>4. driver.queued \cup {held} = DOMAIN buffers
    BY <1>2
  <1>5. /\ pc' \in Places /\ error' \in ErrorKinds \cup {"none", "runtime"}
        /\ \/ pc' = "raised" /\ error' = "runtime"
           \/ /\ pc' \in {"ready", "poll"} /\ QueueBuffer(held)
              /\ pc' = "poll" => captured < Target
    BY DEF UseFails, RequeueBuffer, Throw, Goto, Places
  <1>6. held' \in Indices \cup {NoBuffer} /\ captured' \in 0 .. FrameCount
    BY <1>1 DEF IInv, NothingLeaks, TypeOK
  <1>7. NothingLeaks' /\ DriverRecord' /\ Mapped' = Mapped /\ Target' = Target
    BY <1>1, <1>3, <1>4, <1>5, <1>6, QueueStep
  <1>8. QueueBuffer(held) => driver'.queued = DOMAIN buffers
    BY <1>4 DEF IInv, DriverRecord, QueueBuffer
  <1>9. BuffersHaveDevice' /\ BuffersProgress' /\ CapturedBounded'
    BY <1>1, <1>2, <1>5, <1>7, <1>8
    DEF IInv, BuffersHaveDevice, BuffersProgress, CapturedBounded
  <1> QED
    BY <1>5, <1>7, <1>9 DEF IInv, PassingErrorsLoseNothing, PassingErrors

\* VIDIOC_STREAMOFF at the end of main().
LEMMA StopStep == IInv /\ StopStreaming => IInv'
  <1> SUFFICES ASSUME IInv, StopStreaming PROVE IInv'
    OBVIOUS
  <1> USE DEF StopStreaming, Goto
  <1>1. Mapped' = Mapped /\ Target' = Target
    BY DEF Mapped, Target
  <1>2. /\ DriverRecord' /\ driver'.open = driver.open /\ driver'.maps = driver.maps
        /\ driver'.owner = driver.owner
    BY DEF IInv, DriverRecord
  <1>3. TypeOK'
    <2>1. streaming' \in BOOLEAN
      BY Zenon
    <2> QED
      BY <1>2, <2>1 DEF IInv, NothingLeaks, TypeOK, Places, DriverRecord
  <1>4. NothingLeaks'
    BY <1>1, <1>2, <1>3 DEF IInv, NothingLeaks
  <1>5. BuffersHaveDevice' /\ BuffersProgress' /\ CapturedBounded'
    BY <1>1 DEF IInv, BuffersHaveDevice, BuffersProgress, CapturedBounded
  <1> QED
    BY <1>2, <1>4, <1>5 DEF IInv, PassingErrorsLoseNothing, PassingErrors

\* Every step preserves the invariant.
LEMMA NextInv == IInv /\ [Next]_vars => IInv'
  <1> SUFFICES ASSUME IInv, [Next]_vars PROVE IInv'
    OBVIOUS
  <1> USE DEF Places, object
  <1>0. rebuilding \in BOOLEAN /\ error \in ErrorKinds \cup {"none", "runtime"}
    BY DEF IInv, NothingLeaks, TypeOK
  <1>1. CASE QueryCapability
    BY <1>0, <1>1, QuietStep DEF QueryCapability, Goto, Throw, PassingErrors
  <1>2. CASE SetFormat
    BY <1>0, <1>2, QuietStep DEF SetFormat, Goto, Throw, PassingErrors
  <1>3. CASE BeginCapture
    BY <1>0, <1>3, QuietStep DEF BeginCapture, Goto
  <1>4. CASE Poll
    <2>1. \A answer \in PollAnswers :
             PollVerdict(answer) \in ErrorKinds \cup {"runtime", "readable", "again"}
      BY DEF IInv, NothingLeaks, TypeOK, Modes, PollAnswers, PollVerdict, Guarded, ErrorKinds,
             DequeueFrameVerdict, OneFrameVerdict, FramesVerdict
    <2>2. \/ pc' \in {"dequeue", "poll"} /\ error' = "none"
          \/ pc' = "raised" /\ error' \in ErrorKinds \cup {"runtime"}
      BY <1>4, <2>1 DEF Poll, Goto, Throw
    <2> QED
      BY <1>0, <1>4, <2>2, QuietStep DEF Poll
  <1>5. CASE DequeueFails
    BY <1>0, <1>5, QuietStep DEF DequeueFails, Throw, Raised, ErrorKinds
  <1>6. CASE DequeueAgain
    BY <1>0, <1>6, QuietStep DEF DequeueAgain, Goto
  <1>7. CASE UseBuffer
    BY <1>0, <1>7, QuietStep DEF UseBuffer, Goto
  <1>8. CASE CatchAndContinue
    BY <1>0, <1>8, QuietStep DEF CatchAndContinue, Goto, PassingErrors
  <1>9. CASE MoveAssign
    BY <1>9, TeardownStep DEF MoveAssign, Goto
  <1>10. CASE Destroy
    BY <1>0, <1>10, TeardownStep DEF Destroy, Goto
  <1>11. CASE UNCHANGED vars
    BY <1>11 DEF vars, IInv, NothingLeaks, TypeOK, DriverRecord, Mapped, BuffersHaveDevice,
                 BuffersProgress, CapturedBounded, Target, PassingErrorsLoseNothing
  <1> QED
    BY <1>1, <1>2, <1>3, <1>4, <1>5, <1>6, <1>7, <1>8, <1>9, <1>10, <1>11, OpenStep, RequestStep,
       MapStep, EnqueueStep, StreamonStep, DequeueSteps, RequeueSteps, StopStep
    DEF Next, Ended

-----------------------------------------------------------------------------
\* Whatever fails and however often the stream is rebuilt, the invariant holds.
THEOREM CameraInvariant == Spec => []IInv
  BY InitInv, NextInv, PTL DEF Spec

\* The process holds exactly the descriptor and the mappings its CameraDevice
\* records: neither an initialisation that throws half-way nor a rebuild leaks.
THEOREM CameraNeverLeaks == Spec => []NothingLeaks
  <1>1. IInv => NothingLeaks
    BY DEF IInv
  <1> QED
    BY <1>1, CameraInvariant, PTL

\* While a capture function waits for a frame, every buffer is queued with the
\* driver.
THEOREM CameraNeverStarves == Spec => []NoStarvation
  <1>1. IInv => NoStarvation
    BY DEF IInv, BuffersProgress, NoStarvation
  <1> QED
    BY <1>1, CameraInvariant, PTL

\* A frame is read from a mapped buffer that the driver does not own.
THEOREM CameraReadsOwnBuffer == Spec => []ReadsOwnBuffer
  <1>1. IInv => ReadsOwnBuffer
    BY DEF IInv, BuffersProgress, ReadsOwnBuffer
  <1> QED
    BY <1>1, CameraInvariant, PTL
=============================================================================
