---------------------------- MODULE RosAdapterProofs ----------------------------
(***************************************************************************)
(* For every size of header and payload, every limit and every interleaving *)
(* of the receiver thread, the destructor and the senders: the node shuts   *)
(* down only sockets it still owns, publishes only intact frames in order,  *)
(* its counters add up, and, where the packed header has the size of the    *)
(* wire header, every header is read from the start of a frame.             *)
(***************************************************************************)
EXTENDS RosAdapter, SequenceTheorems, TLAPS

-----------------------------------------------------------------------------
(* The byte stream: what a sender's step may change under a reader, and    *)
(* where the frames stand.                                                 *)

\* A connection that is gone left nothing.
PeerGone == peer = "absent" => sent = <<>> /\ written = 0

\* A frame has a header and a payload.
LEMMA FrameUnitsPositive == FrameUnits \in Nat \ {0}
  BY StreamAssumption DEF FrameUnits

\* Multiples of a frame: divided by its size they give the number of frames.
LEMMA FrameMultiple ==
  ASSUME NEW k \in Nat
  PROVE  /\ k * FrameUnits \in Nat
         /\ (k * FrameUnits) % FrameUnits = 0
         /\ (k * FrameUnits) \div FrameUnits = k
         /\ (k + 1) * FrameUnits = k * FrameUnits + FrameUnits
  <1>1. \A f \in Nat \ {0} : /\ k * f \in Nat /\ (k * f) % f = 0
                             /\ (k * f) \div f = k /\ (k + 1) * f = k * f + f
    OBVIOUS
  <1> QED
    BY <1>1, FrameUnitsPositive

\* A reader at a frame boundary finds the next frame, if it was begun.
LEMMA FrameAtBoundary ==
  ASSUME StreamTypeOK, NEW k \in Nat
  PROVE  /\ FrameAt(k * FrameUnits) = IF k < Len(sent) THEN k + 1 ELSE 0
         /\ HeaderValid(k * FrameUnits) => k < Len(sent)
  <1>1. Len(sent) \in Nat
    BY DEF StreamTypeOK
  <1>2. FrameAt(k * FrameUnits) = IF k < Len(sent) THEN k + 1 ELSE 0
    BY <1>1, FrameMultiple DEF FrameAt
  <1> QED
    BY <1>1, <1>2 DEF HeaderValid

\* The end of the frames begun is a number of units, and 0 without a frame.
LEMMA LimitType ==
  ASSUME sent \in Seq(Faults)
  PROVE  Limit \in Nat /\ (sent = <<>> => Limit = 0)
  <1>1. Len(sent) \in Nat /\ (sent # <<>> => Len(sent) - 1 \in Nat) /\ Len(<<>>) = 0
    OBVIOUS
  <1>2. \A k \in Nat : k * FrameUnits \in Nat
    BY FrameMultiple
  <1>3. 0 * FrameUnits = 0
    BY FrameUnitsPositive
  <1> QED
    BY <1>1, <1>2, <1>3, StreamAssumption DEF Limit

\* No connection is open at first.
LEMMA StreamStarts == StreamInit => StreamTypeOK /\ PeerGone
  <1> SUFFICES ASSUME StreamInit PROVE StreamTypeOK /\ PeerGone
    OBVIOUS
  <1>1. sent \in Seq(Faults) /\ Len(sent) = 0 /\ Limit = 0
    BY LimitType DEF StreamInit
  <1> QED
    BY <1>1, StreamAssumption DEF StreamInit, StreamTypeOK, PeerGone

\* The receiver closes its end.
LEMMA HangUpStep ==
  ASSUME StreamTypeOK, HangUp
  PROVE  StreamTypeOK' /\ PeerGone'
  <1>1. sent' \in Seq(Faults) /\ Len(sent') = 0 /\ sent' = <<>>
    BY DEF HangUp
  <1>2. Limit' = 0
    <2>1. 0 * FrameUnits = 0
      BY FrameUnitsPositive
    <2> QED
      BY <1>1, <2>1 DEF Limit
  <1> QED
    BY <1>1, <1>2, StreamAssumption DEF HangUp, StreamTypeOK, PeerGone

\* A sender's step under a reader: what is written stays, more may come, and
\* the connection does not go away before the receiver closes it.
LEMMA SenderStep ==
  ASSUME StreamTypeOK, PeerGone, Sender
  PROVE  /\ StreamTypeOK' /\ PeerGone'
         /\ peer # "absent" => /\ peer' # "absent" /\ written' >= written
                               /\ Len(sent') >= Len(sent)
  <1>1. CASE Connect
    <2>1. sent' = <<>> /\ sent' \in Seq(Faults) /\ Len(sent') = 0 /\ Limit' = 0
      <3>1. 0 * FrameUnits = 0
        BY FrameUnitsPositive
      <3> QED
        BY <1>1, <3>1 DEF Connect, Limit
    <2> QED
      BY <1>1, <2>1, StreamAssumption DEF Connect, StreamTypeOK, PeerGone
  <1>2. CASE BeginFrame
    <2>1. PICK fault \in Faults : sent' = Append(sent, fault)
      BY <1>2 DEF BeginFrame
    <2>2. /\ sent' \in Seq(Faults) /\ Len(sent') = Len(sent) + 1 /\ Len(sent) \in Nat
          /\ sent' # <<>>
      BY <2>1 DEF StreamTypeOK
    <2>3. Limit = Len(sent) * FrameUnits
      BY <1>2 DEF BeginFrame, Limit
    <2>4. Limit' = (Len(sent) * FrameUnits) + (IF sent'[Len(sent')] = "header" THEN HeaderUnits
                                               ELSE FrameUnits)
      <3>1. (Len(sent) + 1) * FrameUnits = Len(sent) * FrameUnits + FrameUnits
        BY <2>2, FrameMultiple
      <3>2. Len(sent') - 1 = Len(sent)
        BY <2>2
      <3> QED
        BY <2>2, <3>1, <3>2 DEF Limit
    <2>5. written \in 0 .. Limit'
      <3>1. Len(sent) * FrameUnits \in Nat
        BY <2>2, FrameMultiple
      <3>2. written = Len(sent) * FrameUnits
        BY <1>2, <2>3 DEF BeginFrame
      <3>3. \A m \in Nat : m \in 0 .. m + HeaderUnits /\ m \in 0 .. m + FrameUnits
        BY StreamAssumption, FrameUnitsPositive
      <3> QED
        BY <2>4, <3>1, <3>2, <3>3
    <2> QED
      BY <1>2, <2>2, <2>5, StreamAssumption DEF BeginFrame, StreamTypeOK, PeerGone
  <1>3. CASE Transmit
    <2>1. Limit' = Limit /\ Limit \in Nat
      BY <1>3, LimitType DEF Transmit, Limit, StreamTypeOK
    <2> QED
      BY <1>3, <2>1 DEF Transmit, StreamTypeOK, PeerGone
  <1>4. CASE Disconnect
    <2>1. Limit' = Limit /\ Limit \in Nat
      BY <1>4, LimitType DEF Disconnect, Limit, StreamTypeOK
    <2> QED
      BY <1>4, <2>1 DEF Disconnect, StreamTypeOK, PeerGone
  <1> QED
    BY <1>1, <1>2, <1>3, <1>4 DEF Sender

-----------------------------------------------------------------------------
(* The node.  *)

\* The places of the receiver thread.
Labels == {"setup", "bind", "loop", "poll", "register", "frame", "header", "payload",
           "clearClient", "closeClient", "clear", "close", "done"}

\* The places inside a session, those where its client is still connected, and
\* those where the thread is on its way out.
InSession == {"frame", "header", "payload"}
Connected == InSession \cup {"register", "clearClient", "closeClient"}
Leaving == {"clear", "close", "done"}

\* The frame number of the last image of the current session.
LastImage ==
  IF images # <<>> /\ images[Len(images)][1] = count["sessions"]
    THEN images[Len(images)][2] ELSE 0

\* What TypeOK leaves open.
ThreadTypeOK ==
  /\ pc \in Labels /\ got \in Nat /\ offset \in Nat
  /\ images \in Seq(Nat \X Nat \X Faults)
  /\ \A i \in DOMAIN images : images[i][1] <= count["sessions"]

\* A descriptor is registered only while it is open, and withdrawn before it
\* is closed.
Withdrawn ==
  /\ pc = "register" => clientOpen
  /\ pc = "closeClient" => ~clientFd
  /\ pc \in {"close", "done"} => ~listenFd

\* Where the receiver stands in the stream: behind every frame it published,
\* and in a payload behind the header of a frame that was begun.
Behind ==
  /\ pc \in Connected => peer # "absent"
  /\ pc = "frame" => got = 0 /\ offset <= written
  /\ pc \in {"frame", "header"} => LastImage * FrameUnits <= offset
  /\ pc = "payload" =>
       \E k \in Nat : /\ offset = k * FrameUnits + HostHeaderUnits
                      /\ LastImage <= k /\ k < Len(sent)

\* Read with a header of the right size, the stream stays aligned.
Aligned ==
  HostHeaderUnits = HeaderUnits /\ pc \in {"frame", "header"} =>
    \E k \in Nat : offset = k * FrameUnits

\* The counters while a session is open, and the limit while a frame is read.
SessionOpen ==
  /\ pc \in InSession => count["sessions"] - count["completed"] = 1
  /\ pc \notin InSession \cup Leaving => count["sessions"] = count["completed"]
  /\ pc \in {"header", "payload"} => FramesLeft

\* The inductive invariant.
IInv ==
  /\ ImagesIntact /\ ThreadTypeOK /\ PeerGone
  /\ InterruptsOwnSockets /\ Withdrawn
  /\ Behind /\ Aligned
  /\ SessionOpen /\ DiagnosticsAgree

-----------------------------------------------------------------------------
\* Counting: a counter goes up by one or stays.
LEMMA CountedIs ==
  ASSUME count \in [Counters -> Nat], NEW names
  PROVE  /\ Counted(names) \in [Counters -> Nat]
         /\ \A c \in Counters :
              Counted(names)[c] = IF c \in names THEN count[c] + 1 ELSE count[c]
  BY DEF Counted

\* The counters are numbers.
LEMMA Numbers ==
  ASSUME count \in [Counters -> Nat]
  PROVE  /\ count["received"] \in Nat /\ count["crc"] \in Nat /\ count["header"] \in Nat
         /\ count["rejected"] \in Nat /\ count["sessions"] \in Nat
         /\ count["completed"] \in Nat /\ count["published"] \in Nat
         /\ count["publishErrors"] \in Nat
  BY DEF Counters

\* Frame numbers of images are numbers.
LEMMA LastImageType ==
  ASSUME ThreadTypeOK
  PROVE  LastImage \in Nat /\ LastImage * FrameUnits \in Nat
  <1>1. images # <<>> => Len(images) \in DOMAIN images
    BY DEF ThreadTypeOK
  <1>2. LastImage \in Nat
    BY <1>1 DEF ThreadTypeOK, LastImage
  <1> QED
    BY <1>2, FrameMultiple

\* The header of a packed structure takes at least a unit.
LEMMA HostHeaderType == HostHeaderUnits \in Nat \ {0}
  BY AdapterAssumption, StreamAssumption

\* The receiver thread does not change the stream while it reads.
LEMMA StreamSame ==
  ASSUME IInv, UNCHANGED stream
  PROVE  StreamTypeOK' /\ PeerGone'
  <1>1. Limit' = Limit
    BY DEF stream, Limit
  <1> QED
    BY <1>1 DEF stream, IInv, ImagesIntact, TypeOK, StreamTypeOK, PeerGone

\* Nothing is open or read at first.
LEMMA InitInv == Init => IInv
  <1> SUFFICES ASSUME Init PROVE IInv
    OBVIOUS
  <1> USE DEF Init
  <1>1. StreamTypeOK /\ PeerGone
    BY StreamStarts
  <1>2. count \in [Counters -> Nat] /\ \A c \in Counters : count[c] = 0
    OBVIOUS
  <1>3. TypeOK
    <2>1. stop \in BOOLEAN
      BY Zenon
    <2> QED
      BY <1>1, <1>2, <2>1 DEF TypeOK
  <1>4. images \in Seq(Nat \X Nat \X Faults) /\ DOMAIN images = {}
    OBVIOUS
  <1>5. ImagesIntact /\ ThreadTypeOK
    BY <1>3, <1>4 DEF ImagesIntact, ThreadTypeOK, Labels
  <1>6. InterruptsOwnSockets /\ Withdrawn /\ Behind /\ Aligned
    BY DEF InterruptsOwnSockets, Withdrawn, Behind, Aligned, Connected, InSession
  <1>7. SessionOpen /\ DiagnosticsAgree
    BY <1>2, AdapterAssumption DEF SessionOpen, DiagnosticsAgree, InSession, Leaving, Counters
  <1> QED
    BY <1>1, <1>5, <1>6, <1>7 DEF IInv

\* A step of the thread between or around the sessions.
LEMMA OutsideStep ==
  ASSUME IInv, UNCHANGED <<node, got, offset, count, images>>, StreamTypeOK', PeerGone',
         state' \in {"starting", "listening", "connected", "stopped", "error"},
         state' \in {"stopped", "error"} => pc' \in Leaving,
         pc' \in Labels \ InSession, pc' \in Connected => peer' # "absent",
         pc \in InSession \cup Leaving => pc' \in Leaving,
         InterruptsOwnSockets', Withdrawn'
  PROVE  IInv'
  <1> USE DEF node
  <1>1. TypeOK'
    BY DEF IInv, ImagesIntact, TypeOK, InSession
  <1>2. ImagesIntact'
    BY <1>1 DEF IInv, ImagesIntact
  <1>3. ThreadTypeOK'
    BY DEF IInv, ThreadTypeOK
  <1>4. Behind' /\ Aligned'
    BY DEF Behind, Aligned, InSession
  <1>5. SessionOpen'
    BY DEF IInv, SessionOpen, InSession, Leaving
  <1>6. DiagnosticsAgree'
    BY DEF IInv, DiagnosticsAgree, SessionOpen, InSession, Leaving
  <1> QED
    BY <1>2, <1>3, <1>4, <1>5, <1>6 DEF IInv

\* The thread's steps outside a session keep the invariant: set-up, the accept
\* loop, the errors of both and the withdrawal of the descriptors.
LEMMA OutsideSteps ==
  ASSUME IInv,
         \/ OpenListener \/ SetupFails \/ Listen \/ LeaveLoop \/ EnterPoll \/ PollTimesOut
         \/ ListenFails \/ Accept \/ AllocationFails \/ ClearClient \/ ClearListen \/ CloseListen
  PROVE  IInv'
  <1> USE DEF Labels, InSession, Connected, Leaving, InterruptsOwnSockets, Withdrawn, client
  <1>0. /\ state \in {"starting", "listening", "connected", "stopped", "error"}
        /\ state \in {"stopped", "error"} => pc \in Leaving
        /\ InterruptsOwnSockets /\ Withdrawn
        /\ pc \in Connected => peer # "absent"
    BY DEF IInv, ImagesIntact, TypeOK, DiagnosticsAgree, Behind
  <1>1. UNCHANGED stream => StreamTypeOK' /\ PeerGone' /\ peer' = peer
    BY StreamSame DEF stream
  <1>2. CASE OpenListener
    BY <1>0, <1>1, <1>2, OutsideStep DEF OpenListener
  <1>3. CASE SetupFails
    BY <1>0, <1>1, <1>3, OutsideStep DEF SetupFails, Fail
  <1>4. CASE Listen
    BY <1>0, <1>1, <1>4, OutsideStep DEF Listen
  <1>5. CASE LeaveLoop
    BY <1>0, <1>1, <1>5, OutsideStep DEF LeaveLoop
  <1>6. CASE EnterPoll
    BY <1>0, <1>1, <1>6, OutsideStep DEF EnterPoll
  <1>7. CASE PollTimesOut
    BY <1>0, <1>1, <1>7, OutsideStep DEF PollTimesOut
  <1>8. CASE ListenFails
    BY <1>0, <1>1, <1>8, OutsideStep DEF ListenFails, Fail
  <1>9. CASE Accept
    BY <1>0, <1>1, <1>9, OutsideStep DEF Accept
  <1>10. CASE AllocationFails
    BY <1>0, <1>1, <1>10, OutsideStep DEF AllocationFails, Fail
  <1>11. CASE ClearClient
    BY <1>0, <1>1, <1>11, OutsideStep DEF ClearClient
  <1>12. CASE ClearListen
    BY <1>0, <1>1, <1>12, OutsideStep DEF ClearListen
  <1>13. CASE CloseListen
    BY <1>0, <1>1, <1>13, OutsideStep DEF CloseListen
  <1> QED
    BY <1>2, <1>3, <1>4, <1>5, <1>6, <1>7, <1>8, <1>9, <1>10, <1>11, <1>12, <1>13

\* The client's descriptor is closed after it was withdrawn.
LEMMA CloseClientStep == IInv /\ CloseClient => IInv'
  <1> SUFFICES ASSUME IInv, CloseClient PROVE IInv'
    OBVIOUS
  <1> USE DEF CloseClient
  <1>1. StreamTypeOK' /\ PeerGone'
    BY HangUpStep DEF IInv, ImagesIntact, TypeOK
  <1>2. /\ state' \in {"starting", "listening", "connected", "stopped", "error"}
        /\ state' \notin {"stopped", "error"}
    BY DEF IInv, ImagesIntact, TypeOK, DiagnosticsAgree
  <1>3. InterruptsOwnSockets' /\ Withdrawn'
    BY DEF IInv, InterruptsOwnSockets, Withdrawn
  <1> QED
    BY <1>1, <1>2, <1>3, OutsideStep DEF Labels, InSession, Connected, Leaving

\* handle_client returns: the session is counted, and a rejected header with it.
LEMMA ReturnStep ==
  ASSUME IInv, pc \in InSession, NEW names \in {{}, {"disconnects"}, {"header", "rejected"}},
         Return(names)
  PROVE  IInv'
  <1> USE DEF Return, node, client
  <1>1. StreamTypeOK' /\ PeerGone'
    BY StreamSame
  <1>2. count \in [Counters -> Nat]
    BY DEF IInv, ImagesIntact, TypeOK
  <1>3. /\ count' \in [Counters -> Nat]
        /\ \A c \in Counters : count'[c] = IF c \in names \cup {"completed"} THEN count[c] + 1
                                            ELSE count[c]
    BY <1>2, CountedIs
  <1>4. /\ count'["completed"] = count["completed"] + 1
        /\ count'["sessions"] = count["sessions"] /\ count'["received"] = count["received"]
        /\ count'["published"] = count["published"] /\ count'["crc"] = count["crc"]
        /\ count'["publishErrors"] = count["publishErrors"]
        /\ \/ count'["rejected"] = count["rejected"] /\ count'["header"] = count["header"]
           \/ count'["rejected"] = count["rejected"] + 1 /\ count'["header"] = count["header"] + 1
    BY <1>3 DEF Counters
  <1>5. TypeOK'
    BY <1>1, <1>3 DEF IInv, ImagesIntact, TypeOK
  <1>6. ImagesIntact' /\ ThreadTypeOK'
    <2>1. ImagesIntact'
      BY <1>5 DEF IInv, ImagesIntact
    <2>2. ThreadTypeOK'
      BY <1>4 DEF IInv, ThreadTypeOK, Labels
    <2> QED
      BY <2>1, <2>2
  <1>7. InterruptsOwnSockets' /\ Withdrawn'
    BY DEF IInv, InterruptsOwnSockets, Withdrawn
  <1>8. Behind' /\ Aligned'
    BY DEF IInv, Behind, Aligned, InSession, Connected, stream
  <1>9. SessionOpen'
    BY <1>2, <1>4, Numbers DEF IInv, SessionOpen, InSession, Leaving
  <1>10. DiagnosticsAgree'
    BY <1>2, <1>4, Numbers DEF IInv, DiagnosticsAgree, SessionOpen, InSession, Leaving
  <1> QED
    BY <1>1, <1>6, <1>7, <1>8, <1>9, <1>10 DEF IInv

\* The ways out of a session.
LEMMA ReturnSteps ==
  ASSUME IInv, LeaveSession \/ ReadStopped \/ ReadEnds \/ HeaderRejected
  PROVE  IInv'
  BY ReturnStep DEF LeaveSession, ReadStopped, ReadEnds, HeaderRejected, Reading, InSession

\* A session begins: it has published nothing yet and stands at its start.
LEMMA RegisterStep == IInv /\ RegisterClient => IInv'
  <1> SUFFICES ASSUME IInv, RegisterClient PROVE IInv'
    OBVIOUS
  <1> USE DEF RegisterClient, node
  <1>1. StreamTypeOK' /\ PeerGone' /\ written' \in Nat
    BY StreamSame, LimitType DEF stream, IInv, ImagesIntact, TypeOK, StreamTypeOK
  <1>2. count \in [Counters -> Nat]
    BY DEF IInv, ImagesIntact, TypeOK
  <1>3. /\ count' \in [Counters -> Nat] /\ count'["sessions"] = count["sessions"] + 1
        /\ \A c \in Counters \ {"sessions"} : count'[c] = count[c]
    BY <1>2, CountedIs DEF Counters
  <1>4. /\ count'["completed"] = count["completed"] /\ count'["received"] = count["received"]
        /\ count'["published"] = count["published"] /\ count'["crc"] = count["crc"]
        /\ count'["publishErrors"] = count["publishErrors"]
        /\ count'["rejected"] = count["rejected"] /\ count'["header"] = count["header"]
    BY <1>3 DEF Counters
  <1>5. TypeOK' /\ ImagesIntact'
    BY <1>1, <1>3 DEF IInv, ImagesIntact, TypeOK
  <1>6. ThreadTypeOK'
    <2>1. \A i \in DOMAIN images : images[i][1] \in Nat /\ images[i][1] <= count["sessions"]
      BY DEF IInv, ThreadTypeOK
    <2>2. \A i \in DOMAIN images : images[i][1] <= count["sessions"] + 1
      BY <1>2, <2>1, Numbers
    <2> QED
      BY <1>3, <2>2 DEF IInv, ThreadTypeOK, Labels
  <1>7. InterruptsOwnSockets' /\ Withdrawn'
    BY DEF IInv, InterruptsOwnSockets, Withdrawn
  <1>8. LastImage' = 0
    <2>1. images # <<>> => Len(images) \in DOMAIN images
      BY DEF IInv, ThreadTypeOK
    <2>2. images # <<>> => /\ images[Len(images)][1] <= count["sessions"]
                           /\ images[Len(images)][1] \in Nat
      BY <2>1 DEF IInv, ThreadTypeOK
    <2> QED
      BY <1>2, <1>3, <2>2, Numbers DEF LastImage
  <1>9. 0 * FrameUnits = 0
    BY FrameUnitsPositive
  <1>10. Behind' /\ Aligned'
    BY <1>1, <1>8, <1>9 DEF IInv, Behind, Aligned, Connected, InSession, stream
  <1>11. SessionOpen' /\ DiagnosticsAgree'
    BY <1>2, <1>3, <1>4, Numbers
    DEF IInv, SessionOpen, DiagnosticsAgree, InSession, Leaving
  <1> QED
    BY <1>1, <1>5, <1>6, <1>7, <1>10, <1>11 DEF IInv

\* What a step inside a session that counts nothing leaves as it was.
LEMMA InsideStep ==
  ASSUME IInv, pc \in InSession, pc' \in InSession,
         UNCHANGED <<stream, node, count, state, client, images>>
  PROVE  /\ StreamTypeOK' /\ PeerGone' /\ LastImage' = LastImage
         /\ FramesLeft' <=> FramesLeft
         /\ written \in Nat /\ got \in Nat /\ offset \in Nat
         /\ got' \in Nat /\ offset' \in Nat => ThreadTypeOK'
         /\ InterruptsOwnSockets' /\ Withdrawn' /\ DiagnosticsAgree'
         /\ (pc' \in {"header", "payload"} => FramesLeft) => SessionOpen'
         /\ (pc' \in {"header", "payload"} => got' <= Need' /\ offset' + got' <= written)
               => ImagesIntact'
  <1> USE DEF node, client
  <1>1. StreamTypeOK' /\ PeerGone' /\ written' = written
    BY StreamSame DEF stream
  <1>2. LastImage' = LastImage /\ (FramesLeft' <=> FramesLeft)
    BY DEF LastImage, FramesLeft
  <1>3. written \in Nat /\ got \in Nat /\ offset \in Nat
    BY LimitType DEF IInv, ImagesIntact, TypeOK, StreamTypeOK, ThreadTypeOK
  <1>4. got' \in Nat /\ offset' \in Nat => ThreadTypeOK'
    BY DEF IInv, ThreadTypeOK, InSession, Labels
  <1>5. InterruptsOwnSockets' /\ Withdrawn'
    BY DEF IInv, InterruptsOwnSockets, Withdrawn, InSession
  <1>6. DiagnosticsAgree' /\ ((pc' \in {"header", "payload"} => FramesLeft) => SessionOpen')
    BY <1>2 DEF IInv, DiagnosticsAgree, SessionOpen, InSession, Leaving
  <1>7. (pc' \in {"header", "payload"} => got' <= Need' /\ offset' + got' <= written)
           => ImagesIntact'
    BY <1>1 DEF IInv, ImagesIntact, TypeOK
  <1> QED
    BY <1>1, <1>2, <1>3, <1>4, <1>5, <1>6, <1>7

\* The head of the frame loop.
LEMMA BeginReadStep == IInv /\ BeginRead => IInv'
  <1> SUFFICES ASSUME IInv, BeginRead PROVE IInv'
    OBVIOUS
  <1> USE DEF BeginRead, InSession
  <1>1. /\ PeerGone' /\ LastImage' = LastImage /\ ThreadTypeOK' /\ InterruptsOwnSockets'
        /\ Withdrawn' /\ DiagnosticsAgree' /\ SessionOpen'
        /\ written \in Nat /\ offset \in Nat
    BY InsideStep
  <1>2. ImagesIntact'
    <2>1. got = 0 /\ offset <= written
      BY DEF IInv, Behind
    <2>2. got' <= Need' /\ offset' + got' <= written
      BY <1>1, <2>1, HostHeaderType DEF Need
    <2> QED
      BY <2>2, InsideStep
  <1>3. Behind' /\ Aligned'
    BY <1>1 DEF IInv, Behind, Aligned, Connected, stream
  <1> QED
    BY <1>1, <1>2, <1>3 DEF IInv

\* One recv().
LEMMA ReadSomeStep == IInv /\ ReadSome => IInv'
  <1> SUFFICES ASSUME IInv, ReadSome PROVE IInv'
    OBVIOUS
  <1> USE DEF ReadSome, Reading, InSession
  <1>1. Need \in Nat /\ Need' = Need
    BY HostHeaderType, StreamAssumption DEF Need
  <1>2. written \in Nat /\ got \in Nat /\ offset \in Nat
    BY InsideStep
  <1>3. got' \in Nat /\ got' <= Need /\ offset + got' <= written
    BY <1>1, <1>2
  <1>4. FramesLeft
    BY DEF IInv, SessionOpen
  <1>5. /\ PeerGone' /\ LastImage' = LastImage /\ ThreadTypeOK' /\ InterruptsOwnSockets'
        /\ Withdrawn' /\ DiagnosticsAgree' /\ SessionOpen' /\ ImagesIntact'
    BY <1>1, <1>2, <1>3, <1>4, InsideStep
  <1>6. Behind' /\ Aligned'
    BY <1>5 DEF IInv, Behind, Aligned, Connected, stream
  <1> QED
    BY <1>5, <1>6 DEF IInv

\* A header is accepted only at the start of a frame that was begun, and not
\* before the frames already published.
LEMMA HeaderAcceptedStep == IInv /\ HeaderAccepted => IInv'
  <1> SUFFICES ASSUME IInv, HeaderAccepted PROVE IInv'
    OBVIOUS
  <1> USE DEF HeaderAccepted, InSession
  <1> DEFINE k == offset \div FrameUnits
  <1>1. /\ PeerGone' /\ LastImage' = LastImage /\ InterruptsOwnSockets'
        /\ Withdrawn' /\ DiagnosticsAgree'
        /\ written \in Nat /\ got \in Nat /\ offset \in Nat
    BY InsideStep
  <1>2. FramesLeft /\ got = HostHeaderUnits /\ offset + got <= written
    BY DEF IInv, ImagesIntact, TypeOK, SessionOpen, Need
  <1>3. SessionOpen' /\ ThreadTypeOK'
    BY <1>1, <1>2, InsideStep, HostHeaderType
  <1>4. ImagesIntact'
    <2>1. got' <= Need' /\ offset' + got' <= written
      BY <1>1, <1>2, StreamAssumption, HostHeaderType DEF Need
    <2> QED
      BY <2>1, InsideStep
  <1>5. k \in Nat /\ offset = k * FrameUnits /\ k < Len(sent)
    <2>1. offset % FrameUnits = 0 /\ k < Len(sent)
      BY DEF HeaderValid, FrameAt
    <2>2. \A f \in Nat \ {0} : offset % f = 0 => /\ offset \div f \in Nat
                                                 /\ offset = (offset \div f) * f
      BY <1>1
    <2> QED
      BY <2>1, <2>2, FrameUnitsPositive
  <1>6. LastImage <= k
    <2>1. LastImage * FrameUnits <= k * FrameUnits /\ LastImage \in Nat
      BY <1>5, LastImageType DEF IInv, Behind
    <2>2. \A f \in Nat \ {0}, a, b \in Nat : a * f <= b * f => a <= b
      OBVIOUS
    <2> HIDE DEF k
    <2> QED
      BY <1>5, <2>1, <2>2, FrameUnitsPositive
  <1> HIDE DEF k
  <1>7. Behind' /\ Aligned'
    BY <1>1, <1>2, <1>5, <1>6 DEF IInv, Behind, Aligned, Connected, stream
  <1> QED
    BY <1>1, <1>3, <1>4, <1>7 DEF IInv

\* The end of a payload: the frame that was read, and where the next one starts.
LEMMA PayloadRead ==
  ASSUME IInv, pc = "payload", got = Need, NextFrame
  PROVE  \E k \in Nat :
           /\ offset = k * FrameUnits + HostHeaderUnits /\ LastImage <= k /\ k < Len(sent)
           /\ HeaderStart = k * FrameUnits /\ FrameAt(HeaderStart) = k + 1
           /\ HostHeaderUnits = HeaderUnits => offset' = (k + 1) * FrameUnits
           /\ LastImage * FrameUnits <= offset' /\ offset' <= written /\ offset' \in Nat
           /\ FramesLeft
  <1>1. PICK k \in Nat : /\ offset = k * FrameUnits + HostHeaderUnits
                         /\ LastImage <= k /\ k < Len(sent)
    BY DEF IInv, Behind
  <1>2. k * FrameUnits \in Nat /\ (k + 1) * FrameUnits = k * FrameUnits + FrameUnits
    BY FrameMultiple
  <1>3. HeaderStart = k * FrameUnits
    BY <1>1, <1>2, HostHeaderType DEF HeaderStart
  <1>4. FrameAt(HeaderStart) = k + 1
    BY <1>1, <1>3, FrameAtBoundary DEF IInv, ImagesIntact, TypeOK
  <1>5. offset' = k * FrameUnits + HostHeaderUnits + PayloadUnits
    BY <1>1 DEF NextFrame, Need
  <1>6. LastImage * FrameUnits <= k * FrameUnits /\ LastImage * FrameUnits \in Nat
    <2>1. \A f \in Nat \ {0}, a, b \in Nat : a <= b => a * f <= b * f
      OBVIOUS
    <2>2. LastImage \in Nat /\ LastImage * FrameUnits \in Nat
      BY LastImageType DEF IInv
    <2> QED
      BY <1>1, <2>1, <2>2, FrameUnitsPositive
  <1>7. offset' <= written /\ FramesLeft
    BY DEF IInv, ImagesIntact, TypeOK, SessionOpen, NextFrame
  <1>8. HostHeaderUnits = HeaderUnits => offset' = (k + 1) * FrameUnits
    BY <1>2, <1>5, StreamAssumption DEF FrameUnits
  <1>9. LastImage * FrameUnits <= offset' /\ offset' \in Nat
    BY <1>2, <1>5, <1>6, HostHeaderType, StreamAssumption
  <1> QED
    BY <1>1, <1>3, <1>4, <1>7, <1>8, <1>9

\* A frame whose CRC is wrong is skipped.
LEMMA CrcRejectedStep == IInv /\ CrcRejected => IInv'
  <1> SUFFICES ASSUME IInv, CrcRejected PROVE IInv'
    OBVIOUS
  <1> USE DEF CrcRejected, InSession, node, client
  <1>1. PICK k \in Nat :
           /\ HostHeaderUnits = HeaderUnits => offset' = (k + 1) * FrameUnits
           /\ LastImage * FrameUnits <= offset' /\ offset' <= written /\ offset' \in Nat
           /\ FramesLeft
    BY PayloadRead
  <1>2. StreamTypeOK' /\ PeerGone' /\ written' = written /\ peer' = peer
    BY StreamSame DEF stream
  <1>3. count \in [Counters -> Nat]
    BY DEF IInv, ImagesIntact, TypeOK
  <1>4. /\ count' \in [Counters -> Nat]
        /\ \A c \in Counters : count'[c] = IF c \in {"crc", "rejected"} THEN count[c] + 1
                                            ELSE count[c]
    BY <1>3, CountedIs
  <1>5. /\ count'["completed"] = count["completed"] /\ count'["received"] = count["received"]
        /\ count'["published"] = count["published"] /\ count'["crc"] = count["crc"] + 1
        /\ count'["publishErrors"] = count["publishErrors"]
        /\ count'["sessions"] = count["sessions"]
        /\ count'["rejected"] = count["rejected"] + 1 /\ count'["header"] = count["header"]
    BY <1>4 DEF Counters
  <1>6. pc' = "frame" /\ got' = 0 /\ LastImage' = LastImage
    BY <1>5 DEF NextFrame, LastImage
  <1>7. ImagesIntact'
    BY <1>2, <1>4, <1>6 DEF IInv, ImagesIntact, TypeOK
  <1>8. ThreadTypeOK'
    BY <1>1, <1>5, <1>6 DEF IInv, ThreadTypeOK, Labels
  <1>9. InterruptsOwnSockets' /\ Withdrawn'
    BY <1>6 DEF IInv, InterruptsOwnSockets, Withdrawn
  <1>10. Behind' /\ Aligned'
    BY <1>1, <1>2, <1>6 DEF IInv, Behind, Aligned, Connected
  <1>11. SessionOpen' /\ DiagnosticsAgree'
    BY <1>3, <1>5, <1>6, Numbers DEF IInv, SessionOpen, DiagnosticsAgree, Leaving
  <1> QED
    BY <1>2, <1>7, <1>8, <1>9, <1>10, <1>11 DEF IInv

\* An image is published: it is intact and comes after the session's last one.
LEMMA PublishFrame ==
  ASSUME IInv, NEW k \in Nat, LastImage <= k, FrameAt(HeaderStart) = k + 1,
         CrcMatches(HeaderStart, offset), count'["sessions"] = count["sessions"],
         images' = Append(images, <<count["sessions"], FrameAt(HeaderStart),
                                    sent[FrameAt(HeaderStart)]>>)
  PROVE  /\ images' \in Seq(Nat \X Nat \X Faults) /\ LastImage' = k + 1
         /\ \A i \in DOMAIN images' : images'[i][1] <= count'["sessions"]
         /\ TypeOK' => ImagesIntact'
  <1> DEFINE new == <<count["sessions"], k + 1, "none">>
  <1>1. images' = Append(images, new)
    BY DEF CrcMatches
  <1>2. new \in Nat \X Nat \X Faults /\ count["sessions"] \in Nat
    <2>1. count["sessions"] \in Nat
      BY Numbers DEF IInv, ImagesIntact, TypeOK
    <2>2. k + 1 \in Nat /\ "none" \in Faults
      BY DEF Faults
    <2> QED
      BY <2>1, <2>2
  <1>3. images \in Seq(Nat \X Nat \X Faults)
    BY DEF IInv, ThreadTypeOK
  <1>4. new[1] = count["sessions"] /\ new[2] = k + 1 /\ new[3] = "none"
    OBVIOUS
  <1> HIDE DEF new
  <1>5. /\ images' \in Seq(Nat \X Nat \X Faults) /\ Len(images) \in Nat
        /\ Len(images') = Len(images) + 1 /\ images' # <<>>
        /\ DOMAIN images = 1 .. Len(images) /\ DOMAIN images' = 1 .. Len(images) + 1
        /\ images'[Len(images) + 1] = new
        /\ \A i \in 1 .. Len(images) : images'[i] = images[i]
    BY <1>1, <1>2, <1>3, AppendProperties
  <1>6. LastImage' = k + 1
    BY <1>4, <1>5 DEF LastImage
  <1>7. \A i \in DOMAIN images' : images'[i][1] <= count'["sessions"]
    <2>1. \A i \in 1 .. Len(images) : images[i][1] <= count["sessions"]
      BY <1>5 DEF IInv, ThreadTypeOK
    <2> QED
      BY <1>2, <1>4, <1>5, <2>1
  <1>8. \A i \in DOMAIN images' :
           /\ images'[i][3] = "none"
           /\ i > 1 /\ images'[i - 1][1] = images'[i][1] => images'[i - 1][2] < images'[i][2]
    <2> SUFFICES ASSUME NEW i \in 1 .. Len(images) + 1
                 PROVE  /\ images'[i][3] = "none"
                        /\ i > 1 /\ images'[i - 1][1] = images'[i][1]
                             => images'[i - 1][2] < images'[i][2]
      BY <1>5
    <2>1. CASE i <= Len(images)
      <3>1. i \in DOMAIN images /\ images'[i] = images[i]
        BY <1>5, <2>1
      <3>2. i > 1 => images'[i - 1] = images[i - 1]
        BY <1>5, <2>1
      <3> QED
        BY <3>1, <3>2 DEF IInv, ImagesIntact
    <2>2. CASE i = Len(images) + 1
      <3>1. images'[i] = new
        BY <1>5, <2>2
      <3>2. ASSUME i > 1, images'[i - 1][1] = images'[i][1]
            PROVE  images'[i - 1][2] < images'[i][2]
        <4>0. Len(images) \in Nat
          BY <1>5
        <4>1. Len(images) \in Nat /\ i - 1 = Len(images) /\ Len(images) >= 1
          BY <4>0, <2>2, <3>2
        <4>2. images # <<>> /\ images'[i - 1] = images[Len(images)]
          BY <1>5, <4>1, EmptySeq
        <4>3. images'[i - 1][2] = LastImage
          BY <1>4, <3>1, <3>2, <4>2 DEF LastImage
        <4>4. LastImage \in Nat
          BY LastImageType DEF IInv
        <4>5. images'[i][2] = k + 1
          BY <1>4, <3>1
        <4>6. LastImage < k + 1
          BY <4>4
        <4> QED
          BY <4>3, <4>5, <4>6
      <3> QED
        BY <1>4, <3>1, <3>2
    <2> QED
      BY <1>5, <2>1, <2>2
  <1> QED
    BY <1>5, <1>6, <1>7, <1>8 DEF ImagesIntact

\* A frame with the right CRC is counted, and published where images are.
LEMMA FrameReceivedStep == IInv /\ FrameReceived => IInv'
  <1> SUFFICES ASSUME IInv, FrameReceived PROVE IInv'
    OBVIOUS
  <1> USE DEF InSession, node, client
  <1>0. /\ pc = "payload" /\ got = Need /\ CrcMatches(HeaderStart, offset) /\ NextFrame
        /\ UNCHANGED <<stream, node, state, client>>
    BY DEF FrameReceived
  <1>1. PICK k \in Nat :
           /\ offset = k * FrameUnits + HostHeaderUnits /\ LastImage <= k /\ k < Len(sent)
           /\ HeaderStart = k * FrameUnits /\ FrameAt(HeaderStart) = k + 1
           /\ HostHeaderUnits = HeaderUnits => offset' = (k + 1) * FrameUnits
           /\ LastImage * FrameUnits <= offset' /\ offset' <= written /\ offset' \in Nat
           /\ FramesLeft
    BY <1>0, PayloadRead
  <1>2. StreamTypeOK' /\ PeerGone' /\ written' = written /\ peer' = peer
    BY <1>0, StreamSame DEF stream
  <1>3. count \in [Counters -> Nat]
    BY DEF IInv, ImagesIntact, TypeOK
  <1>4. PICK names \in {{"received"}, {"received", "published"}, {"received", "publishErrors"}} :
           /\ count' = Counted(names)
           /\ PublishImages => names # {"received"}
           /\ \/ /\ names = {"received", "published"}
                 /\ images' = Append(images, <<count["sessions"], FrameAt(HeaderStart),
                                               sent[FrameAt(HeaderStart)]>>)
              \/ UNCHANGED images
    <2>1. {"received", "published"} # {"received"} /\ {"received", "publishErrors"} # {"received"}
      OBVIOUS
    <2> QED
      BY <2>1 DEF FrameReceived
  <1>5. /\ count' \in [Counters -> Nat]
        /\ \A c \in Counters : count'[c] = IF c \in names THEN count[c] + 1 ELSE count[c]
    BY <1>3, <1>4, CountedIs
  <1>6. /\ count'["completed"] = count["completed"] /\ count'["received"] = count["received"] + 1
        /\ count'["crc"] = count["crc"] /\ count'["sessions"] = count["sessions"]
        /\ count'["rejected"] = count["rejected"] /\ count'["header"] = count["header"]
        /\ PublishImages => count'["published"] + count'["publishErrors"]
                              = count["published"] + count["publishErrors"] + 1
    <2>1. /\ count'["completed"] = count["completed"]
          /\ count'["received"] = count["received"] + 1
          /\ count'["crc"] = count["crc"] /\ count'["sessions"] = count["sessions"]
          /\ count'["rejected"] = count["rejected"] /\ count'["header"] = count["header"]
      BY <1>4, <1>5 DEF Counters
    <2>2. CASE names = {"received", "published"}
      BY <1>3, <1>5, <2>1, <2>2, Numbers DEF Counters
    <2>3. CASE names = {"received", "publishErrors"}
      BY <1>3, <1>5, <2>1, <2>3, Numbers DEF Counters
    <2> QED
      BY <1>4, <2>1, <2>2, <2>3
  <1>7. pc' = "frame" /\ got' = 0
    BY <1>0 DEF NextFrame
  <1>8. TypeOK'
    BY <1>0, <1>2, <1>5, <1>7 DEF IInv, ImagesIntact, TypeOK
  <1>9. ImagesIntact' /\ ThreadTypeOK' /\ LastImage' * FrameUnits <= offset'
    <2>1. CASE UNCHANGED images
      <3>1. LastImage' = LastImage
        BY <1>6, <2>1 DEF LastImage
      <3> QED
        BY <1>1, <1>6, <1>7, <1>8, <2>1, <3>1 DEF IInv, ImagesIntact, ThreadTypeOK, Labels
    <2>2. CASE images' = Append(images, <<count["sessions"], FrameAt(HeaderStart),
                                          sent[FrameAt(HeaderStart)]>>)
      <3>1. /\ images' \in Seq(Nat \X Nat \X Faults) /\ LastImage' = k + 1
            /\ \A i \in DOMAIN images' : images'[i][1] <= count'["sessions"]
            /\ ImagesIntact'
        BY <1>0, <1>1, <1>6, <1>8, <2>2, PublishFrame
      <3>2. offset' = (k + 1) * FrameUnits
        <4>1. offset = k * FrameUnits + HeaderUnits /\ k * FrameUnits \in Nat
          BY <1>0, <1>1, FrameMultiple DEF CrcMatches
        <4>2. HostHeaderUnits = HeaderUnits
          BY <1>1, <4>1, HostHeaderType, StreamAssumption
        <4> QED
          BY <1>1, <4>2
      <3> QED
        BY <1>1, <1>7, <3>1, <3>2 DEF ThreadTypeOK, Labels
    <2> QED
      BY <1>4, <2>1, <2>2
  <1>10. InterruptsOwnSockets' /\ Withdrawn'
    BY <1>0, <1>7 DEF IInv, InterruptsOwnSockets, Withdrawn
  <1>11. Behind' /\ Aligned'
    BY <1>0, <1>1, <1>2, <1>7, <1>9 DEF IInv, Behind, Aligned, Connected
  <1>12. SessionOpen'
    BY <1>0, <1>3, <1>6, <1>7, Numbers DEF IInv, SessionOpen, Leaving
  <1>13. DiagnosticsAgree'
    <2>1. MaxFrames > 0 => count'["received"] <= MaxFrames
      BY <1>1, <1>3, <1>6, AdapterAssumption, Numbers DEF FramesLeft
    <2>2. PublishImages =>
            count'["received"] = count'["published"] + count'["publishErrors"]
      BY <1>3, <1>6, Numbers DEF IInv, DiagnosticsAgree
    <2>3. /\ count'["rejected"] = count'["crc"] + count'["header"]
          /\ count'["sessions"] - count'["completed"] \in {0, 1}
          /\ state' \in {"stopped", "error"} => pc' \in {"clear", "close", "done"}
      BY <1>0, <1>6, <1>7 DEF IInv, DiagnosticsAgree
    <2> QED
      BY <1>7, <2>1, <2>2, <2>3 DEF DiagnosticsAgree
  <1> QED
    BY <1>2, <1>9, <1>10, <1>11, <1>12, <1>13 DEF IInv

\* The destructor's steps touch neither the stream nor the receiver's state.
LEMMA OwnerStep == IInv /\ Owner => IInv'
  <1> SUFFICES ASSUME IInv, Owner PROVE IInv'
    OBVIOUS
  <1>1. UNCHANGED <<stream, thread>>
    BY DEF Owner, RequestStop, InterruptSockets, Join
  <1>2. /\ stop' \in BOOLEAN /\ shut' \subseteq {"client", "listen"}
        /\ owner' \in {"spinning", "interrupt", "join", "joined"}
    BY DEF Owner, RequestStop, InterruptSockets, Join, IInv, ImagesIntact, TypeOK
  <1>3. StreamTypeOK' /\ PeerGone'
    BY <1>1, StreamSame
  <1>4. LastImage' = LastImage /\ Need' = Need /\ (FramesLeft' <=> FramesLeft)
    BY <1>1 DEF thread, LastImage, Need, FramesLeft
  <1>5. TypeOK'
    BY <1>1, <1>2, <1>3, <1>4 DEF thread, stream, IInv, ImagesIntact, TypeOK
  <1>6. ImagesIntact' /\ ThreadTypeOK' /\ InterruptsOwnSockets' /\ Withdrawn'
    BY <1>1, <1>5 DEF thread, IInv, ImagesIntact, ThreadTypeOK, InterruptsOwnSockets, Withdrawn
  <1>7. Behind' /\ Aligned' /\ SessionOpen' /\ DiagnosticsAgree'
    BY <1>1, <1>4 DEF thread, stream, IInv, Behind, Aligned, SessionOpen, DiagnosticsAgree
  <1> QED
    BY <1>3, <1>6, <1>7 DEF IInv

\* A sender's step: the reader's place in the stream stays what it was.
LEMMA SenderInv ==
  ASSUME IInv, Sender, UNCHANGED <<thread, node>>
  PROVE  IInv'
  <1> USE DEF thread, node
  <1>1. /\ StreamTypeOK' /\ PeerGone'
        /\ peer # "absent" => /\ peer' # "absent" /\ written' >= written
                              /\ Len(sent') >= Len(sent)
    BY SenderStep DEF IInv, ImagesIntact, TypeOK
  <1>2. LastImage' = LastImage /\ Need' = Need /\ (FramesLeft' <=> FramesLeft)
    BY DEF LastImage, Need, FramesLeft
  <1>3. /\ Len(sent) \in Nat /\ Len(sent') \in Nat /\ written \in Nat /\ written' \in Nat
        /\ got \in Nat /\ offset \in Nat
    BY <1>1, LimitType DEF IInv, ImagesIntact, TypeOK, StreamTypeOK, ThreadTypeOK
  <1>4. pc \in InSession => peer # "absent"
    BY DEF IInv, Behind, Connected
  <1>5. TypeOK'
    BY <1>1, <1>2, <1>3, <1>4 DEF IInv, ImagesIntact, TypeOK, InSession
  <1>6. ImagesIntact' /\ ThreadTypeOK' /\ InterruptsOwnSockets' /\ Withdrawn'
    BY <1>5 DEF IInv, ImagesIntact, ThreadTypeOK, InterruptsOwnSockets, Withdrawn
  <1>7. Behind' /\ Aligned'
    BY <1>1, <1>2, <1>3, <1>4 DEF IInv, Behind, Aligned, Connected, InSession
  <1>8. SessionOpen' /\ DiagnosticsAgree'
    BY <1>2 DEF IInv, SessionOpen, DiagnosticsAgree
  <1> QED
    BY <1>1, <1>6, <1>7, <1>8 DEF IInv

\* Every step preserves the invariant.
LEMMA NextInv == IInv /\ [Next]_vars => IInv'
  <1> SUFFICES ASSUME IInv, [Next]_vars PROVE IInv'
    OBVIOUS
  <1>1. CASE UNCHANGED vars
    <2>1. UNCHANGED <<stream, thread, node>>
      BY <1>1 DEF vars
    <2>2. StreamTypeOK' /\ PeerGone'
      BY <2>1, StreamSame
    <2>3. LastImage' = LastImage /\ Need' = Need /\ (FramesLeft' <=> FramesLeft)
      BY <2>1 DEF thread, LastImage, Need, FramesLeft
    <2>4. TypeOK'
      BY <2>1, <2>2, <2>3 DEF thread, node, stream, IInv, ImagesIntact, TypeOK
    <2>5. ImagesIntact' /\ ThreadTypeOK' /\ InterruptsOwnSockets' /\ Withdrawn'
      BY <2>1, <2>4 DEF thread, IInv, ImagesIntact, ThreadTypeOK, InterruptsOwnSockets, Withdrawn
    <2>6. Behind' /\ Aligned' /\ SessionOpen' /\ DiagnosticsAgree'
      BY <2>1, <2>3 DEF thread, stream, IInv, Behind, Aligned, SessionOpen, DiagnosticsAgree
    <2> QED
      BY <2>2, <2>5, <2>6 DEF IInv
  <1>2. CASE ReceiverThread
    BY <1>2, OutsideSteps, CloseClientStep, ReturnSteps, RegisterStep, BeginReadStep, ReadSomeStep,
       HeaderAcceptedStep, CrcRejectedStep, FrameReceivedStep
    DEF ReceiverThread
  <1> QED
    BY <1>1, <1>2, OwnerStep, SenderInv DEF Next, Ended

-----------------------------------------------------------------------------
\* The invariant holds throughout the node's life.
THEOREM AdapterInvariant == Spec => []IInv
  BY InitInv, NextInv, PTL DEF Spec

\* interrupt_sockets can only shut down a descriptor that is still open, at
\* whatever moment the destructor runs.
THEOREM AdapterInterruptsOwnSockets == Spec => []InterruptsOwnSockets
  <1>1. IInv => InterruptsOwnSockets
    BY DEF IInv
  <1> QED
    BY <1>1, AdapterInvariant, PTL

\* Only intact frames reach the image topic, in the order they were sent,
\* whatever the size of the packed header.
THEOREM AdapterImagesIntact == Spec => []ImagesIntact
  <1>1. IInv => ImagesIntact
    BY DEF IInv
  <1> QED
    BY <1>1, AdapterInvariant, PTL

\* The counters the diagnostics are made of add up, and the node reports
\* "stopped" or "error" only when it accepts no more.
THEOREM AdapterDiagnosticsAgree == Spec => []DiagnosticsAgree
  <1>1. IInv => DiagnosticsAgree
    BY DEF IInv
  <1> QED
    BY <1>1, AdapterInvariant, PTL

\* Where the packed header has the size of the wire header, every header is
\* read from the start of a frame.
THEOREM AdapterAlignmentKnown ==
  ASSUME HostHeaderUnits = HeaderUnits
  PROVE  Spec => []AlignmentKnown
  <1>1. IInv => AlignmentKnown
    <2> SUFFICES ASSUME IInv, pc = "header" PROVE offset % FrameUnits = 0
      BY DEF AlignmentKnown
    <2>1. PICK k \in Nat : offset = k * FrameUnits
      BY DEF IInv, Aligned
    <2> QED
      BY <2>1, FrameMultiple
  <1> QED
    BY <1>1, AdapterInvariant, PTL
=============================================================================
