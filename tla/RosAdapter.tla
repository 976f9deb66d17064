----------------------------- MODULE RosAdapter -----------------------------
(***************************************************************************)
(* ros2_ws/.../tcp_diagnostics_node.cpp: the receiver thread of the ROS 2   *)
(* adapter and the node's destructor, which runs on another thread and      *)
(* interrupts it.  Diagnostics are published from the counters by a timer   *)
(* that changes none of them and is left out.                               *)
(***************************************************************************)
EXTENDS FrameStream

CONSTANTS HostHeaderUnits, \* sizeof(FrameHeader) / 4: one more than on the
                           \* wire where uint64_t is aligned to 8 (x86-64,
                           \* AArch64), the same where it is aligned to 4
          MaxFrames,       \* max_frames, 0 for no limit
          MaxSessions,     \* max_sessions, 0 for no limit
          PublishImages    \* publish_images

ASSUME AdapterAssumption ==
  /\ HostHeaderUnits \in {HeaderUnits, HeaderUnits + 1}
  /\ MaxFrames \in Nat /\ MaxSessions \in Nat
  /\ PublishImages \in BOOLEAN

VARIABLES pc,          \* the receiver thread
          got, offset, \* as in read_exact_interruptible
          count,       \* the atomic counters
          state,       \* connection_state_
          clientFd,    \* client_fd_ holds the accepted descriptor
          listenFd,    \* listen_fd_ holds the listening descriptor
          clientOpen, listenOpen,  \* the descriptors themselves
          shut,        \* sockets shutdown() was called on: "client", "listen"
          stop,        \* stop_requested_
          owner,       \* the thread that destroys the node
          images       \* history: the frames published, <<session, frame>>

thread == <<pc, got, offset, count, state, clientFd, listenFd, clientOpen,
            listenOpen, images>>
node == <<stop, owner, shut>>
vars == <<stream, thread, node>>

Counters == {"received", "crc", "header", "rejected", "sessions", "completed",
             "disconnects", "published", "publishErrors"}
Counted(names) == [c \in Counters |-> count[c] + IF c \in names THEN 1 ELSE 0]

Init ==
  /\ StreamInit
  /\ pc = "setup" /\ got = 0 /\ offset = 0
  /\ count = [c \in Counters |-> 0] /\ state = "starting"
  /\ clientFd = FALSE /\ listenFd = FALSE
  /\ clientOpen = FALSE /\ listenOpen = FALSE
  /\ shut = {} /\ stop = FALSE /\ owner = "spinning" /\ images = <<>>

-----------------------------------------------------------------------------
\* receiver_loop

\* socket and register_listen_fd; setsockopt, bind and listen follow.
OpenListener ==
  /\ pc = "setup"
  /\ listenOpen' = TRUE /\ listenFd' = TRUE
  /\ pc' = "bind"
  /\ UNCHANGED <<stream, node, got, offset, count, state, clientFd, clientOpen, images>>

\* The handler around receiver_loop; it is silent when stopping.
Fail ==
  /\ pc' = "clear"
  /\ state' = IF stop THEN state ELSE "error"

SetupFails ==
  /\ pc \in {"setup", "bind"}
  /\ Fail
  /\ UNCHANGED <<stream, node, got, offset, count, clientFd, listenFd,
                 clientOpen, listenOpen, images>>

Listen ==
  /\ pc = "bind"
  /\ pc' = "loop" /\ state' = "listening"
  /\ UNCHANGED <<stream, node, got, offset, count, clientFd, listenFd,
                 clientOpen, listenOpen, images>>

LimitReached ==
  \/ MaxFrames > 0 /\ count["received"] >= MaxFrames
  \/ MaxSessions > 0 /\ count["sessions"] >= MaxSessions

\* Mutant: LeaveLoop that looks at the limits alone and polls on when stopping.
LeaveLoopAtLimit ==
  /\ pc = "loop" /\ (stop \/ LimitReached)
  /\ state' = IF stop THEN state ELSE "stopped"
  /\ pc' = IF LimitReached THEN "clear" ELSE "poll"
  /\ UNCHANGED <<stream, node, got, offset, count, clientFd, listenFd,
                 clientOpen, listenOpen, images>>

\* The head of the accept loop leaves it.
LeaveLoop ==
  /\ pc = "loop" /\ (stop \/ LimitReached)
  /\ state' = IF stop THEN state ELSE "stopped"
  /\ pc' = "clear"
  /\ UNCHANGED <<stream, node, got, offset, count, clientFd, listenFd,
                 clientOpen, listenOpen, images>>

\* ... or waits in poll() for one slice.
EnterPoll ==
  /\ pc = "loop" /\ ~stop /\ ~LimitReached
  /\ pc' = "poll"
  /\ UNCHANGED <<stream, node, got, offset, count, state, clientFd, listenFd,
                 clientOpen, listenOpen, images>>

PollTimesOut ==
  /\ pc = "poll"
  /\ pc' = "loop"
  /\ UNCHANGED <<stream, node, got, offset, count, state, clientFd, listenFd,
                 clientOpen, listenOpen, images>>

\* poll, revents or accept report an error: break when stopping, else throw.
ListenFails ==
  /\ pc = "poll"
  /\ Fail
  /\ UNCHANGED <<stream, node, got, offset, count, clientFd, listenFd,
                 clientOpen, listenOpen, images>>

Accept ==
  /\ pc = "poll" /\ peer # "absent" /\ "listen" \notin shut
  /\ clientOpen' = TRUE
  /\ pc' = "register"
  /\ UNCHANGED <<stream, node, got, offset, count, state, clientFd, listenFd,
                 listenOpen, images>>

RegisterClient ==
  /\ pc = "register"
  /\ clientFd' = TRUE
  /\ count' = Counted({"sessions"})
  /\ state' = "connected"
  /\ got' = 0 /\ offset' = 0
  /\ pc' = "frame"
  /\ UNCHANGED <<stream, node, listenFd, clientOpen, listenOpen, images>>

-----------------------------------------------------------------------------
\* handle_client

client == <<clientFd, listenFd, clientOpen, listenOpen>>

\* handle_client returns; receiver_loop counts the session.
Return(names) ==
  /\ count' = Counted(names \cup {"completed"})
  /\ pc' = "clearClient"
  /\ UNCHANGED <<stream, node, got, offset, state, client, images>>

\* Mutant: FramesLeft off by one.
FramesLeftOneMore == MaxFrames = 0 \/ count["received"] <= MaxFrames

FramesLeft == MaxFrames = 0 \/ count["received"] < MaxFrames

\* The head of the frame loop.
BeginRead ==
  /\ pc = "frame" /\ ~stop /\ FramesLeft
  /\ pc' = "header"
  /\ UNCHANGED <<stream, node, got, offset, count, state, client, images>>

LeaveSession ==
  /\ pc = "frame" /\ (stop \/ ~FramesLeft)
  /\ Return({})

Need == IF pc = "header" THEN HostHeaderUnits ELSE PayloadUnits
Reading == pc \in {"header", "payload"} /\ got < Need

\* read_exact_interruptible looks at stop_requested_ before every poll.
ReadStopped ==
  /\ Reading /\ stop
  /\ Return({})

\* poll() and recv() in one round; a poll that times out changes nothing.
\* The round may have begun before stop was set.
ReadSome ==
  /\ Reading
  /\ \E n \in 1 .. Need - got :
       offset + got + n <= written /\ got' = got + n
  /\ UNCHANGED <<stream, node, pc, offset, count, state, client, images>>

\* recv() returns 0, or an error: the peer is gone or the socket was shut.
ReadEnds ==
  /\ Reading
  /\ \/ peer = "closed" /\ offset + got = written
     \/ peer = "reset"
     \/ "client" \in shut
  /\ Return({"disconnects"})

HeaderRejected ==
  /\ pc = "header" /\ got = Need /\ ~HeaderValid(offset)
  /\ Return({"header", "rejected"})

HeaderAccepted ==
  /\ pc = "header" /\ got = Need /\ HeaderValid(offset)
  /\ pc' = "payload" /\ offset' = offset + got /\ got' = 0
  /\ UNCHANGED <<stream, node, count, state, client, images>>

\* The payload vector cannot be allocated: the exception leaves the session
\* with its descriptor registered and open.
AllocationFails ==
  /\ pc = "payload" /\ got = 0
  /\ Fail
  /\ UNCHANGED <<stream, node, got, offset, count, client, images>>

HeaderStart == offset - HostHeaderUnits
NextFrame == pc' = "frame" /\ offset' = offset + got /\ got' = 0

\* Mutant: CrcRejected that gives the payload up before all of it is read.
CrcRejectedEarly ==
  /\ pc = "payload" /\ ~CrcMatches(HeaderStart, offset)
  /\ count' = Counted({"crc", "rejected"})
  /\ NextFrame
  /\ UNCHANGED <<stream, node, state, client, images>>

\* Mutant: CrcRejected that counts the frame and publishes it nevertheless.
CrcIgnored ==
  /\ pc = "payload" /\ got = Need /\ ~CrcMatches(HeaderStart, offset)
  /\ count' = Counted({"received", "published"})
  /\ images' = Append(images, <<count["sessions"], FrameAt(HeaderStart),
                                sent[FrameAt(HeaderStart)]>>)
  /\ NextFrame
  /\ UNCHANGED <<stream, node, state, client>>

\* The frame is rejected and the session goes on.
CrcRejected ==
  /\ pc = "payload" /\ got = Need /\ ~CrcMatches(HeaderStart, offset)
  /\ count' = Counted({"crc", "rejected"})
  /\ NextFrame
  /\ UNCHANGED <<stream, node, state, client, images>>

\* The counters and publish_frame; the conversion or publish() may throw.
FrameReceived ==
  /\ pc = "payload" /\ got = Need /\ CrcMatches(HeaderStart, offset)
  /\ \/ /\ PublishImages
        /\ count' = Counted({"received", "published"})
        /\ images' = Append(images, <<count["sessions"], FrameAt(HeaderStart),
                                      sent[FrameAt(HeaderStart)]>>)
     \/ /\ PublishImages
        /\ count' = Counted({"received", "publishErrors"})
        /\ UNCHANGED images
     \/ /\ ~PublishImages
        /\ count' = Counted({"received"})
        /\ UNCHANGED images
  /\ NextFrame
  /\ UNCHANGED <<stream, node, state, client>>

-----------------------------------------------------------------------------
\* Teardown of a session and of the thread.

\* Mutant: ClearClient with the two calls swapped: the descriptor is closed first.
CloseBeforeClear ==
  /\ pc = "clearClient"
  /\ clientOpen' = FALSE
  /\ pc' = "closeClient"
  /\ UNCHANGED <<stream, node, got, offset, count, state, clientFd, listenFd,
                 listenOpen, images>>

ClearClient ==
  /\ pc = "clearClient"
  /\ clientFd' = FALSE
  /\ pc' = "closeClient"
  /\ UNCHANGED <<stream, node, got, offset, count, state, listenFd,
                 clientOpen, listenOpen, images>>

CloseClient ==
  /\ pc = "closeClient"
  /\ clientOpen' = FALSE
  /\ HangUp
  /\ state' = IF stop THEN state ELSE "listening"
  /\ pc' = "loop"
  /\ UNCHANGED <<node, got, offset, count, clientFd, listenFd, listenOpen, images>>

ClearListen ==
  /\ pc = "clear"
  /\ listenFd' = FALSE
  /\ pc' = "close"
  /\ UNCHANGED <<stream, node, got, offset, count, state, clientFd,
                 clientOpen, listenOpen, images>>

CloseListen ==
  /\ pc = "close"
  /\ listenOpen' = FALSE
  /\ pc' = "done"
  /\ UNCHANGED <<stream, node, got, offset, count, state, clientFd, listenFd,
                 clientOpen, images>>

\* ~TcpDiagnosticsNode: the flag, interrupt_sockets under its mutex, join.
RequestStop ==
  /\ owner = "spinning"
  /\ stop' = TRUE /\ owner' = "interrupt"
  /\ UNCHANGED <<stream, thread, shut>>

InterruptSockets ==
  /\ owner = "interrupt"
  /\ shut' = (IF clientFd THEN {"client"} ELSE {})
               \cup (IF listenFd THEN {"listen"} ELSE {})
  /\ owner' = "join"
  /\ UNCHANGED <<stream, thread, stop>>

Join ==
  /\ owner = "join" /\ pc = "done"
  /\ owner' = "joined"
  /\ UNCHANGED <<stream, thread, stop, shut>>

Ended == owner = "joined" /\ UNCHANGED vars

ReceiverThread ==
  \/ OpenListener \/ SetupFails \/ Listen \/ LeaveLoop \/ EnterPoll
  \/ PollTimesOut \/ ListenFails \/ Accept \/ RegisterClient \/ BeginRead
  \/ LeaveSession \/ ReadStopped \/ ReadSome \/ ReadEnds \/ HeaderRejected
  \/ HeaderAccepted \/ AllocationFails \/ CrcRejected \/ FrameReceived
  \/ ClearClient \/ CloseClient \/ ClearListen \/ CloseListen

Owner == RequestStop \/ InterruptSockets \/ Join

Next ==
  \/ ReceiverThread
  \/ Owner
  \/ owner # "joined" /\ Sender /\ UNCHANGED <<thread, node>>
  \/ Ended

Spec == Init /\ [][Next]_vars

\* Both threads are scheduled, and the destructor, once called, goes on.
\* Nothing is assumed of the senders.
Fairness ==
  /\ WF_vars(ReceiverThread)
  /\ WF_vars(InterruptSockets)
  /\ WF_vars(Join)

FairSpec == Spec /\ Fairness

-----------------------------------------------------------------------------
\* Types, and the reads stay inside the structure they fill and behind the
\* sender.
TypeOK ==
  /\ StreamTypeOK
  /\ count \in [Counters -> Nat]
  /\ state \in {"starting", "listening", "connected", "stopped", "error"}
  /\ shut \subseteq {"client", "listen"} /\ stop \in BOOLEAN
  /\ owner \in {"spinning", "interrupt", "join", "joined"}
  /\ pc \in {"header", "payload"} => got <= Need /\ offset + got <= written

\* interrupt_sockets can only shut down a descriptor that is still open: the
\* receiver thread withdraws it under the mutex before it closes it, so the
\* number cannot have been reused for something else.
InterruptsOwnSockets ==
  /\ clientFd => clientOpen
  /\ listenFd => listenOpen

\* Frames reach the image topic intact and in the order they were sent,
\* although a frame with a bad CRC is skipped without closing the session;
\* and no read leaves the header or payload it is for (TypeOK).
ImagesIntact ==
  /\ TypeOK
  /\ \A i \in DOMAIN images :
       /\ images[i][3] = "none"
       /\ i > 1 /\ images[i - 1][1] = images[i][1]
            => images[i - 1][2] < images[i][2]

\* What the diagnostics show adds up: rejected frames have a cause, frames
\* are published or counted as publication errors, sessions end once, and
\* the node says "stopped" or "error" only when it accepts no more.
DiagnosticsAgree ==
  /\ count["rejected"] = count["crc"] + count["header"]
  /\ PublishImages =>
       count["received"] = count["published"] + count["publishErrors"]
  /\ count["sessions"] - count["completed"] \in {0, 1}
  /\ pc \in {"loop", "poll"} => count["sessions"] = count["completed"]
  /\ state \in {"stopped", "error"} => pc \in {"clear", "close", "done"}
  /\ MaxFrames > 0 => count["received"] <= MaxFrames

\* "A CRC mismatch can be rejected without closing the session because the
\* complete payload has already been read and stream alignment is known"
\* (docs/dev_notes.md): every header is read from the start of a frame.
AlignmentKnown == pc = "header" /\ got = 0 => offset % FrameUnits = 0

\* Destroying the node never hangs: an idle or stalled sender, or a client
\* accepted just as the sockets are interrupted, cannot keep the receiver
\* thread from being joined.
DestructorReturns == stop ~> owner = "joined"
=============================================================================
