--------------------------- MODULE TcpReceiverProofs ---------------------------
(***************************************************************************)
(* For every size of header and payload, every number of connections,       *)
(* frames and sessions, every way the stream is cut into reads and every    *)
(* fault in it: the receiver keeps exactly the intact frames of a session   *)
(* in order, its statistics add up, and its exit code names the error.      *)
(***************************************************************************)
EXTENDS TcpReceiver, SequenceTheorems, TLAPS

-----------------------------------------------------------------------------
(* The byte stream: what a sender's step may change under a reader, and    *)
(* where the frames stand.                                                 *)

\* A connection that is gone left nothing.
PeerGone == peer = "absent" => sent = <<>> /\ written = 0

\* A frame has a header and a payload.
LEMMA FrameUnitsPositive == FrameUnits \in Nat \ {0}
  BY StreamAssumption DEF FrameUnits

\* Multiples of a frame: divided by its size they give the number of frames.
LEMMA FrameMultiple ==
  ASSUME NEW k \in Nat
  PROVE  /\ k * FrameUnits \in Nat
         /\ (k * FrameUnits) % FrameUnits = 0
         /\ (k * FrameUnits) \div FrameUnits = k
         /\ (k + 1) * FrameUnits = k * FrameUnits + FrameUnits
  <1>1. \A f \in Nat \ {0} : /\ k * f \in Nat /\ (k * f) % f = 0
                             /\ (k * f) \div f = k /\ (k + 1) * f = k * f + f
    OBVIOUS
  <1> QED
    BY <1>1, FrameUnitsPositive

\* A reader at a frame boundary finds the next frame, if it was begun.
LEMMA FrameAtBoundary ==
  ASSUME StreamTypeOK, NEW k \in Nat
  PROVE  /\ FrameAt(k * FrameUnits) = IF k < Len(sent) THEN k + 1 ELSE 0
         /\ HeaderValid(k * FrameUnits) => k < Len(sent)
  <1>1. Len(sent) \in Nat
    BY DEF StreamTypeOK
  <1>2. FrameAt(k * FrameUnits) = IF k < Len(sent) THEN k + 1 ELSE 0
    BY <1>1, FrameMultiple DEF FrameAt
  <1> QED
    BY <1>1, <1>2 DEF HeaderValid

\* The end of the frames begun is a number of units, and 0 without a frame.
LEMMA LimitType ==
  ASSUME sent \in Seq(Faults)
  PROVE  Limit \in Nat /\ (sent = <<>> => Limit = 0)
  <1>1. Len(sent) \in Nat /\ (sent # <<>> => Len(sent) - 1 \in Nat) /\ Len(<<>>) = 0
    OBVIOUS
  <1>2. \A k \in Nat : k * FrameUnits \in Nat
    BY FrameMultiple
  <1>3. 0 * FrameUnits = 0
    BY FrameUnitsPositive
  <1> QED
    BY <1>1, <1>2, <1>3, StreamAssumption DEF Limit

\* No connection is open at first.
LEMMA StreamStarts == StreamInit => StreamTypeOK /\ PeerGone
  <1> SUFFICES ASSUME StreamInit PROVE StreamTypeOK /\ PeerGone
    OBVIOUS
  <1>1. sent \in Seq(Faults) /\ Len(sent) = 0 /\ Limit = 0
    BY LimitType DEF StreamInit
  <1> QED
    BY <1>1, StreamAssumption DEF StreamInit, StreamTypeOK, PeerGone

\* The receiver closes its end.
LEMMA HangUpStep ==
  ASSUME StreamTypeOK, HangUp
  PROVE  StreamTypeOK' /\ PeerGone'
  <1>1. sent' \in Seq(Faults) /\ Len(sent') = 0 /\ sent' = <<>>
    BY DEF HangUp
  <1>2. Limit' = 0
    <2>1. 0 * FrameUnits = 0
      BY FrameUnitsPositive
    <2> QED
      BY <1>1, <2>1 DEF Limit
  <1> QED
    BY <1>1, <1>2, StreamAssumption DEF HangUp, StreamTypeOK, PeerGone

\* A sender's step under a reader: what is written stays, more may come, and
\* the connection does not go away before the receiver closes it.
LEMMA SenderStep ==
  ASSUME StreamTypeOK, PeerGone, Sender
  PROVE  /\ StreamTypeOK' /\ PeerGone'
         /\ peer # "absent" => /\ peer' # "absent" /\ written' >= written
                               /\ Len(sent') >= Len(sent)
  <1>1. CASE Connect
    <2>1. sent' = <<>> /\ sent' \in Seq(Faults) /\ Len(sent') = 0 /\ Limit' = 0
      <3>1. 0 * FrameUnits = 0
        BY FrameUnitsPositive
      <3> QED
        BY <1>1, <3>1 DEF Connect, Limit
    <2> QED
      BY <1>1, <2>1, StreamAssumption DEF Connect, StreamTypeOK, PeerGone
  <1>2. CASE BeginFrame
    <2>1. PICK fault \in Faults : sent' = Append(sent, fault)
      BY <1>2 DEF BeginFrame
    <2>2. /\ sent' \in Seq(Faults) /\ Len(sent') = Len(sent) + 1 /\ Len(sent) \in Nat
          /\ sent' # <<>>
      BY <2>1 DEF StreamTypeOK
    <2>3. Limit = Len(sent) * FrameUnits
      BY <1>2 DEF BeginFrame, Limit
    <2>4. Limit' = (Len(sent) * FrameUnits) + (IF sent'[Len(sent')] = "header" THEN HeaderUnits
                                               ELSE FrameUnits)
      <3>1. (Len(sent) + 1) * FrameUnits = Len(sent) * FrameUnits + FrameUnits
        BY <2>2, FrameMultiple
      <3>2. Len(sent') - 1 = Len(sent)
        BY <2>2
      <3> QED
        BY <2>2, <3>1, <3>2 DEF Limit
    <2>5. written \in 0 .. Limit'
      <3>1. Len(sent) * FrameUnits \in Nat
        BY <2>2, FrameMultiple
      <3>2. written = Len(sent) * FrameUnits
        BY <1>2, <2>3 DEF BeginFrame
      <3>3. \A m \in Nat : m \in 0 .. m + HeaderUnits /\ m \in 0 .. m + FrameUnits
        BY StreamAssumption, FrameUnitsPositive
      <3> QED
        BY <2>4, <3>1, <3>2, <3>3
    <2> QED
      BY <1>2, <2>2, <2>5, StreamAssumption DEF BeginFrame, StreamTypeOK, PeerGone
  <1>3. CASE Transmit
    <2>1. Limit' = Limit /\ Limit \in Nat
      BY <1>3, LimitType DEF Transmit, Limit, StreamTypeOK
    <2> QED
      BY <1>3, <2>1 DEF Transmit, StreamTypeOK, PeerGone
  <1>4. CASE Disconnect
    <2>1. Limit' = Limit /\ Limit \in Nat
      BY <1>4, LimitType DEF Disconnect, Limit, StreamTypeOK
    <2> QED
      BY <1>4, <2>1 DEF Disconnect, StreamTypeOK, PeerGone
  <1> QED
    BY <1>1, <1>2, <1>3, <1>4 DEF Sender

-----------------------------------------------------------------------------
(* The receiver program.  *)

\* The number of frames kept from the current session.
Kept ==
  IF accepted # <<>> /\ accepted[Len(accepted)][1] = count["sessions"]
    THEN accepted[Len(accepted)][2] ELSE 0

\* Every frame kept belongs to a session that was accepted.
AcceptedOK ==
  /\ accepted \in Seq(Nat \X Nat \X Faults)
  /\ \A i \in DOMAIN accepted : accepted[i][1] <= count["sessions"]

\* The receiver reads at a frame boundary, or at the payload of a frame that
\* was begun; a session has a peer.
Aligned ==
  /\ pc \in {"header", "payload"} => peer # "absent"
  /\ pc = "header" => offset = Kept * FrameUnits
  /\ pc = "payload" => offset = Kept * FrameUnits + HeaderUnits /\ Kept < Len(sent)

\* A frame is read only below the frame limit.
LimitHolds ==
  /\ count["sessions"] <= MaxSessions
  /\ MaxFrames > 0 => count["received"] <= MaxFrames
  /\ pc = "payload" \/ (pc = "header" /\ got > 0) => FramesLeft

\* At most one frame is rejected, it ends the last session, and no session
\* goes on or begins after it.
RejectionIsLast ==
  /\ count["rejected"] = count["header"] + count["crc"]
  /\ count["rejected"] <= 1
  /\ fatal <=> count["rejected"] = 1
  /\ fatal <=> ending = "rejected"
  /\ fatal => ~ok /\ pc \in {"close", "report", "exited"}

\* Sessions that are not completed or rejected were cut off; the current one
\* is still open, or closes as ok says.
Unfinished == count["sessions"] - count["completed"] - count["rejected"]
SessionsAccounted ==
  /\ pc \in {"accept", "report"} => Unfinished \in 0 .. count["disconnects"]
  /\ pc \in {"header", "payload"} => Unfinished - 1 \in 0 .. count["disconnects"]
  /\ pc = "close" => Unfinished - (IF ok THEN 1 ELSE 0) \in 0 .. count["disconnects"]

\* What the process has written when it is over.
FilesAndExit ==
  /\ count["received"] = Len(accepted)
  /\ SavePayloads /\ pc # "exited" => count["saved"] = count["received"]
  /\ exit # NotYet => pc = "exited"

\* The inductive invariant.
IInv ==
  /\ FramesIntact /\ AcceptedOK /\ Aligned /\ PeerGone
  /\ LimitHolds /\ RejectionIsLast /\ SessionsAccounted /\ FilesAndExit
  /\ ExitCodeTruthful

-----------------------------------------------------------------------------
\* Counting: a counter goes up by one or stays.
LEMMA CountedIs ==
  ASSUME count \in [Counters -> Nat], NEW names
  PROVE  /\ Counted(names) \in [Counters -> Nat]
         /\ \A c \in Counters :
              Counted(names)[c] = IF c \in names THEN count[c] + 1 ELSE count[c]
  BY DEF Counted

\* The counters are numbers.
LEMMA Numbers ==
  ASSUME count \in [Counters -> Nat]
  PROVE  /\ count["received"] \in Nat /\ count["saved"] \in Nat /\ count["crc"] \in Nat
         /\ count["header"] \in Nat /\ count["rejected"] \in Nat
         /\ count["sessions"] \in Nat /\ count["completed"] \in Nat
         /\ count["disconnects"] \in Nat
  BY DEF Counters

\* The kept frames of a session are counted in numbers.
LEMMA KeptType ==
  ASSUME AcceptedOK
  PROVE  Kept \in Nat /\ Kept * FrameUnits \in Nat
  <1>1. accepted # <<>> => Len(accepted) \in DOMAIN accepted
    BY DEF AcceptedOK
  <1>2. Kept \in Nat
    BY <1>1 DEF AcceptedOK, Kept
  <1> QED
    BY <1>2, FrameMultiple

\* Nothing is accepted or sent before the program starts.
LEMMA InitInv == Init => IInv
  <1> SUFFICES ASSUME Init PROVE IInv
    OBVIOUS
  <1> USE StreamAssumption, ReceiverAssumption DEF Init
  <1>1. StreamTypeOK /\ PeerGone
    BY StreamStarts
  <1>2. count \in [Counters -> Nat] /\ \A c \in Counters : count[c] = 0
    OBVIOUS
  <1>3. ok \in BOOLEAN /\ fatal \in BOOLEAN
    BY Zenon
  <1>4. TypeOK
    BY <1>1, <1>2, <1>3 DEF TypeOK
  <1>5. accepted \in Seq(Nat \X Nat \X Faults) /\ DOMAIN accepted = {} /\ Len(accepted) = 0
    OBVIOUS
  <1>6. FramesIntact /\ AcceptedOK
    BY <1>4, <1>5 DEF FramesIntact, AcceptedOK
  <1>7. Aligned /\ LimitHolds /\ RejectionIsLast
    BY <1>2 DEF Aligned, LimitHolds, RejectionIsLast, Counters
  <1>8. SessionsAccounted
    BY <1>2 DEF SessionsAccounted, Unfinished, Counters
  <1>9. FilesAndExit /\ ExitCodeTruthful
    BY <1>2, <1>5 DEF FilesAndExit, ExitCodeTruthful, Counters, NotYet
  <1> QED
    BY <1>1, <1>6, <1>7, <1>8, <1>9 DEF IInv

\* A sender's step: the reader's place in the stream stays what it was.
LEMMA SenderInv ==
  ASSUME IInv, Sender, UNCHANGED receiver
  PROVE  IInv'
  <1> USE DEF receiver
  <1>1. /\ StreamTypeOK' /\ PeerGone'
        /\ peer # "absent" => /\ peer' # "absent" /\ written' >= written
                              /\ Len(sent') >= Len(sent)
    BY SenderStep DEF IInv, FramesIntact, TypeOK
  <1>2. Kept' = Kept /\ Need' = Need /\ (FramesLeft <=> FramesLeft')
    BY DEF Kept, Need, FramesLeft
  <1>3. (Kept \in Nat /\ offset \in Nat) \/ pc \notin {"header", "payload"}
    BY KeptType, StreamAssumption DEF IInv, Aligned
  <1>4. /\ Len(sent) \in Nat /\ Len(sent') \in Nat /\ written \in Nat /\ written' \in Nat
        /\ got \in Nat
    BY <1>1, LimitType DEF IInv, FramesIntact, TypeOK, StreamTypeOK
  <1>5. TypeOK'
    BY <1>1, <1>2, <1>3, <1>4 DEF IInv, FramesIntact, TypeOK, Aligned
  <1>6. Aligned'
    BY <1>1, <1>2, <1>4, KeptType DEF IInv, Aligned
  <1>7. FramesIntact' /\ AcceptedOK'
    BY <1>5 DEF IInv, FramesIntact, AcceptedOK
  <1>8. LimitHolds' /\ RejectionIsLast' /\ SessionsAccounted'
    BY <1>2 DEF IInv, LimitHolds, RejectionIsLast, SessionsAccounted, Unfinished
  <1>9. FilesAndExit' /\ ExitCodeTruthful'
    BY DEF IInv, FilesAndExit, ExitCodeTruthful
  <1> QED
    BY <1>1, <1>6, <1>7, <1>8, <1>9 DEF IInv

\* A step that leaves the statistics, the flags and the history alone keeps
\* what is said of them, as long as it does not enter a place that says more.
LEMMA StatisticsKept ==
  ASSUME IInv, UNCHANGED <<ok, fatal, count, accepted, ending>>
  PROVE  /\ AcceptedOK' /\ Kept' = Kept /\ Unfinished' = Unfinished
         /\ FramesLeft' <=> FramesLeft
         /\ TypeOK' => FramesIntact'
         /\ pc' \in {"close", "report", "exited"} \/ ~fatal => RejectionIsLast'
  <1>1. AcceptedOK' /\ Kept' = Kept /\ Unfinished' = Unfinished /\ (FramesLeft' <=> FramesLeft)
    BY DEF IInv, AcceptedOK, Kept, Unfinished, FramesLeft
  <1>2. TypeOK' => FramesIntact'
    BY DEF IInv, FramesIntact
  <1>3. pc' \in {"close", "report", "exited"} \/ ~fatal => RejectionIsLast'
    BY DEF IInv, RejectionIsLast
  <1> QED
    BY <1>1, <1>2, <1>3

\* An exception that ends the process.
LEMMA AbortStep ==
  ASSUME IInv, Abort, pc # "exited"
  PROVE  IInv'
  <1> USE DEF Abort
  <1>1. StreamTypeOK' /\ PeerGone'
    BY HangUpStep DEF IInv, FramesIntact, TypeOK
  <1>2. TypeOK'
    BY <1>1 DEF IInv, FramesIntact, TypeOK
  <1>3. Aligned' /\ SessionsAccounted'
    BY DEF Aligned, SessionsAccounted
  <1>4. LimitHolds' /\ FilesAndExit' /\ ExitCodeTruthful'
    BY DEF IInv, LimitHolds, FilesAndExit, ExitCodeTruthful, FramesLeft
  <1> QED
    BY <1>1, <1>2, <1>3, <1>4, StatisticsKept DEF IInv

\* The accept loop ends.
LEMMA StopAcceptingStep == IInv /\ StopAccepting => IInv'
  <1> SUFFICES ASSUME IInv, StopAccepting PROVE IInv'
    OBVIOUS
  <1> USE DEF StopAccepting, stream
  <1>1. Limit' = Limit
    BY DEF Limit
  <1>2. StreamTypeOK' /\ PeerGone'
    BY <1>1 DEF IInv, FramesIntact, TypeOK, StreamTypeOK, PeerGone
  <1>3. TypeOK'
    BY <1>2 DEF IInv, FramesIntact, TypeOK
  <1>4. Aligned' /\ SessionsAccounted' /\ LimitHolds' /\ FilesAndExit' /\ ExitCodeTruthful'
    BY StatisticsKept
    DEF IInv, Aligned, SessionsAccounted, LimitHolds, FilesAndExit, ExitCodeTruthful
  <1> QED
    BY <1>2, <1>3, <1>4, StatisticsKept DEF IInv

\* A session begins: none of its frames is kept yet.
LEMMA AcceptStep == IInv /\ Accept => IInv'
  <1> SUFFICES ASSUME IInv, Accept PROVE IInv'
    OBVIOUS
  <1> USE ReceiverAssumption DEF Accept, stream
  <1>1. Limit' = Limit /\ count \in [Counters -> Nat]
    BY DEF Limit, IInv, FramesIntact, TypeOK
  <1>2. StreamTypeOK' /\ PeerGone'
    BY <1>1 DEF IInv, FramesIntact, TypeOK, StreamTypeOK, PeerGone
  <1>3. /\ count' \in [Counters -> Nat] /\ count'["sessions"] = count["sessions"] + 1
        /\ \A c \in Counters \ {"sessions"} : count'[c] = count[c]
    BY <1>1, CountedIs DEF Counters
  <1>4. count["sessions"] \in Nat
    BY <1>1, Numbers
  <1>5. ok' \in BOOLEAN /\ written \in Nat
    BY LimitType DEF IInv, FramesIntact, TypeOK, StreamTypeOK
  <1>6. TypeOK'
    BY <1>2, <1>3, <1>5, StreamAssumption DEF IInv, FramesIntact, TypeOK, Need
  <1>7. AcceptedOK' /\ FramesIntact'
    <2>1. AcceptedOK'
      BY <1>3, <1>4 DEF IInv, AcceptedOK
    <2> QED
      BY <2>1, <1>6 DEF IInv, FramesIntact
  <1>8. Kept' = 0
    <2>1. accepted # <<>> => Len(accepted) \in DOMAIN accepted
      BY DEF IInv, AcceptedOK
    <2>2. accepted # <<>> => /\ accepted[Len(accepted)][1] <= count["sessions"]
                             /\ accepted[Len(accepted)][1] \in Nat
      BY <2>1 DEF IInv, AcceptedOK
    <2> QED
      BY <2>2, <1>3, <1>4 DEF Kept
  <1>9. Aligned'
    <2>1. 0 * FrameUnits = 0
      BY FrameUnitsPositive
    <2> QED
      BY <1>8, <2>1 DEF Aligned
  <1>10. ~fatal
    BY DEF IInv, RejectionIsLast
  <1>11. LimitHolds' /\ RejectionIsLast' /\ FilesAndExit' /\ ExitCodeTruthful'
    <2>1. LimitHolds' /\ FilesAndExit'
      BY <1>3, <1>4 DEF IInv, LimitHolds, FilesAndExit, FramesLeft, Counters
    <2>2. RejectionIsLast'
      BY <1>3, <1>10 DEF IInv, RejectionIsLast, Counters
    <2>3. ExitCodeTruthful'
      BY DEF IInv, FilesAndExit, ExitCodeTruthful, NotYet
    <2> QED
      BY <2>1, <2>2, <2>3
  <1>12. SessionsAccounted'
    BY <1>1, <1>3, Numbers DEF IInv, SessionsAccounted, Unfinished, Counters
  <1> QED
    BY <1>2, <1>7, <1>9, <1>11, <1>12 DEF IInv

\* One recv().
LEMMA RecvStep == IInv /\ Recv => IInv'
  <1> SUFFICES ASSUME IInv, Recv PROVE IInv'
    OBVIOUS
  <1> USE DEF Recv, stream
  <1>1. Limit' = Limit /\ Need' = Need /\ Need \in Nat /\ Need <= HeaderUnits + PayloadUnits
    BY StreamAssumption DEF Limit, Need
  <1>2. StreamTypeOK' /\ PeerGone'
    BY <1>1 DEF IInv, FramesIntact, TypeOK, StreamTypeOK, PeerGone
  <1>3. /\ got \in Nat /\ offset \in Nat /\ written \in Nat /\ got' \in Nat
        /\ got' <= Need /\ offset + got' <= written /\ got' > 0
    <2>1. got \in Nat /\ written \in Nat
      BY LimitType DEF IInv, FramesIntact, TypeOK, StreamTypeOK
    <2>2. offset \in Nat
      BY KeptType, StreamAssumption DEF IInv, Aligned
    <2> QED
      BY <1>1, <2>1, <2>2
  <1>4. TypeOK'
    BY <1>1, <1>2, <1>3, StreamAssumption DEF IInv, FramesIntact, TypeOK
  <1>5. LimitHolds'
    BY <1>3, StatisticsKept DEF IInv, LimitHolds
  <1>6. Aligned' /\ SessionsAccounted' /\ FilesAndExit' /\ ExitCodeTruthful'
    BY StatisticsKept DEF IInv, Aligned, SessionsAccounted, FilesAndExit, ExitCodeTruthful
  <1>7. RejectionIsLast'
    BY StatisticsKept DEF IInv, RejectionIsLast
  <1> QED
    BY <1>2, <1>4, <1>5, <1>6, <1>7, StatisticsKept DEF IInv

\* The frame loop ends: what every such end has in common.
LEMMA EndSessionIs ==
  ASSUME IInv, pc \in {"header", "payload"}, fatal' \in BOOLEAN,
         NEW how, NEW sessionOk \in BOOLEAN, NEW names, "sessions" \notin names,
         "received" \notin names, "saved" \notin names, "completed" \notin names,
         EndSession(how, sessionOk, names)
  PROVE  /\ FramesIntact' /\ AcceptedOK' /\ Aligned' /\ PeerGone' /\ LimitHolds'
         /\ FilesAndExit' /\ ExitCodeTruthful' /\ ~fatal /\ pc' = "close" /\ ok' = sessionOk
         /\ count \in [Counters -> Nat] /\ count' \in [Counters -> Nat]
         /\ \A c \in Counters : count'[c] = IF c \in names THEN count[c] + 1 ELSE count[c]
  <1> USE DEF EndSession, stream
  <1>1. Limit' = Limit /\ count \in [Counters -> Nat] /\ ~fatal
    BY DEF Limit, IInv, FramesIntact, TypeOK, RejectionIsLast
  <1>2. StreamTypeOK' /\ PeerGone'
    BY <1>1 DEF IInv, FramesIntact, TypeOK, StreamTypeOK, PeerGone
  <1>3. /\ count' \in [Counters -> Nat]
        /\ \A c \in Counters : count'[c] = IF c \in names THEN count[c] + 1 ELSE count[c]
    BY <1>1, CountedIs
  <1>4. /\ count'["sessions"] = count["sessions"] /\ count'["received"] = count["received"]
        /\ count'["saved"] = count["saved"]
    BY <1>3 DEF Counters
  <1>5. TypeOK'
    BY <1>2, <1>3 DEF IInv, FramesIntact, TypeOK
  <1>6. FramesIntact' /\ AcceptedOK'
    BY <1>4, <1>5 DEF IInv, FramesIntact, AcceptedOK
  <1>7. Aligned' /\ LimitHolds' /\ FilesAndExit' /\ ExitCodeTruthful'
    BY <1>4 DEF IInv, Aligned, LimitHolds, FilesAndExit, ExitCodeTruthful, NotYet
  <1> QED
    BY <1>1, <1>2, <1>3, <1>6, <1>7

\* The frame limit or the end of the stream.
LEMMA QuietEndStep == IInv /\ (FrameLimit \/ HeaderEof \/ PayloadEof) => IInv'
  <1> SUFFICES ASSUME IInv, FrameLimit \/ HeaderEof \/ PayloadEof PROVE IInv'
    OBVIOUS
  <1>1. PICK how \in {"limit", "clean", "truncated"}, sessionOk \in BOOLEAN,
             names \in {{}, {"disconnects"}} :
           /\ EndSession(how, sessionOk, names)
           /\ sessionOk \/ names = {"disconnects"}
    BY Zenon DEF FrameLimit, HeaderEof, PayloadEof
  <1>2. pc \in {"header", "payload"} /\ fatal' = fatal /\ fatal' \in BOOLEAN
    BY DEF FrameLimit, HeaderEof, PayloadEof, IInv, FramesIntact, TypeOK
  <1>3. /\ FramesIntact' /\ AcceptedOK' /\ Aligned' /\ PeerGone' /\ LimitHolds'
        /\ FilesAndExit' /\ ExitCodeTruthful' /\ ~fatal /\ pc' = "close" /\ ok' = sessionOk
        /\ count \in [Counters -> Nat] /\ count' \in [Counters -> Nat]
        /\ \A c \in Counters : count'[c] = IF c \in names THEN count[c] + 1 ELSE count[c]
    BY <1>1, <1>2, EndSessionIs
  <1>4. /\ count'["header"] = count["header"] /\ count'["crc"] = count["crc"]
        /\ count'["rejected"] = count["rejected"] /\ count'["completed"] = count["completed"]
        /\ count'["sessions"] = count["sessions"]
        /\ count'["disconnects"] = count["disconnects"]
              + (IF names = {"disconnects"} THEN 1 ELSE 0)
    BY <1>1, <1>3, Numbers DEF Counters
  <1>5. RejectionIsLast'
    BY <1>1, <1>2, <1>3, <1>4 DEF IInv, RejectionIsLast, EndSession
  <1>6. Unfinished - 1 \in 0 .. count["disconnects"] /\ Unfinished' = Unfinished
    BY <1>2, <1>4 DEF IInv, SessionsAccounted, Unfinished
  <1>7. SessionsAccounted'
    <2>1. Unfinished' \in Int
      BY <1>3, <1>6, Numbers DEF Unfinished
    <2>2. CASE sessionOk
      BY <1>3, <1>4, <1>6, <2>1, <2>2, Numbers DEF SessionsAccounted
    <2>3. CASE ~sessionOk
      BY <1>1, <1>3, <1>4, <1>6, <2>1, <2>3, Numbers DEF SessionsAccounted
    <2> QED
      BY <2>2, <2>3
  <1> QED
    BY <1>3, <1>5, <1>7 DEF IInv

\* A header or a CRC that is wrong.
LEMMA RejectStep == IInv /\ (HeaderRejected \/ CrcRejected) => IInv'
  <1> SUFFICES ASSUME IInv, HeaderRejected \/ CrcRejected PROVE IInv'
    OBVIOUS
  <1>1. PICK names \in {{"header", "rejected"}, {"crc", "rejected"}} :
           EndSession("rejected", FALSE, names)
    BY Zenon DEF HeaderRejected, CrcRejected
  <1>2. pc \in {"header", "payload"} /\ fatal' = TRUE /\ fatal' \in BOOLEAN
    BY DEF HeaderRejected, CrcRejected
  <1>3. /\ FramesIntact' /\ AcceptedOK' /\ Aligned' /\ PeerGone' /\ LimitHolds'
        /\ FilesAndExit' /\ ExitCodeTruthful' /\ ~fatal /\ pc' = "close" /\ ok' = FALSE
        /\ count \in [Counters -> Nat] /\ count' \in [Counters -> Nat]
        /\ \A c \in Counters : count'[c] = IF c \in names THEN count[c] + 1 ELSE count[c]
    BY <1>1, <1>2, EndSessionIs
  <1>4. /\ count'["rejected"] = count["rejected"] + 1
        /\ count'["completed"] = count["completed"]
        /\ count'["sessions"] = count["sessions"]
        /\ count'["disconnects"] = count["disconnects"]
        /\ count'["header"] + count'["crc"] = count["header"] + count["crc"] + 1
    BY <1>1, <1>3, Numbers DEF Counters
  <1>5. count["rejected"] = 0
    BY <1>3, Numbers DEF IInv, RejectionIsLast
  <1>6. RejectionIsLast'
    BY <1>1, <1>2, <1>3, <1>4, <1>5 DEF IInv, RejectionIsLast, EndSession
  <1>7. SessionsAccounted'
    BY <1>2, <1>3, <1>4, Numbers DEF IInv, SessionsAccounted, Unfinished
  <1> QED
    BY <1>3, <1>6, <1>7 DEF IInv

\* The payload of the frame whose header was read follows.
LEMMA HeaderAcceptedStep == IInv /\ HeaderAccepted => IInv'
  <1> SUFFICES ASSUME IInv, HeaderAccepted PROVE IInv'
    OBVIOUS
  <1> USE DEF HeaderAccepted, stream
  <1>1. Limit' = Limit
    BY DEF Limit
  <1>2. StreamTypeOK' /\ PeerGone'
    BY <1>1 DEF IInv, FramesIntact, TypeOK, StreamTypeOK, PeerGone
  <1>3. Kept \in Nat /\ offset = Kept * FrameUnits /\ got = HeaderUnits /\ Kept < Len(sent)
        /\ offset \in Nat
    BY KeptType, FrameAtBoundary DEF IInv, FramesIntact, TypeOK, Aligned, Need
  <1>4. TypeOK'
    BY <1>2, <1>3, StreamAssumption DEF IInv, FramesIntact, TypeOK, Need
  <1>5. Aligned'
    BY <1>3, StatisticsKept DEF IInv, Aligned
  <1>6. LimitHolds'
    BY <1>3, StreamAssumption, StatisticsKept DEF IInv, LimitHolds
  <1>7. SessionsAccounted' /\ FilesAndExit' /\ ExitCodeTruthful' /\ RejectionIsLast'
    BY StatisticsKept DEF IInv, SessionsAccounted, FilesAndExit, ExitCodeTruthful, RejectionIsLast
  <1> QED
    BY <1>2, <1>4, <1>5, <1>6, <1>7, StatisticsKept DEF IInv

\* A frame is kept: it is the next one of its session, and intact.
LEMMA KeepFrame ==
  ASSUME IInv, pc = "payload", got = Need, CrcMatches(HeaderStart, offset),
         accepted' = Append(accepted, <<count["sessions"], FrameAt(HeaderStart),
                                        sent[FrameAt(HeaderStart)]>>),
         count'["sessions"] = count["sessions"]
  PROVE  /\ AcceptedOK'
         /\ TypeOK' => FramesIntact'
         /\ Len(accepted') = Len(accepted) + 1 /\ Len(accepted) \in Nat
         /\ Kept' = Kept + 1 /\ Kept \in Nat
         /\ got = PayloadUnits /\ offset = Kept * FrameUnits + HeaderUnits
  <1> DEFINE new == <<count["sessions"], Kept + 1, "none">>
  <1>1. Kept \in Nat /\ Kept * FrameUnits \in Nat
    BY KeptType DEF IInv
  <1>2. offset = Kept * FrameUnits + HeaderUnits /\ Kept < Len(sent) /\ got = PayloadUnits
    BY DEF IInv, Aligned, Need
  <1>3. HeaderStart = Kept * FrameUnits
    BY <1>1, <1>2, StreamAssumption DEF HeaderStart
  <1>4. FrameAt(HeaderStart) = Kept + 1
    BY <1>1, <1>2, <1>3, FrameAtBoundary DEF IInv, FramesIntact, TypeOK
  <1>5. sent[FrameAt(HeaderStart)] = "none"
    BY DEF CrcMatches
  <1>6. accepted' = Append(accepted, new)
    BY <1>4, <1>5
  <1>7. new \in Nat \X Nat \X Faults /\ count["sessions"] \in Nat
    <2>1. count["sessions"] \in Nat
      BY Numbers DEF IInv, FramesIntact, TypeOK
    <2>2. Kept + 1 \in Nat /\ "none" \in Faults
      BY <1>1 DEF Faults
    <2> QED
      BY <2>1, <2>2
  <1>8. accepted \in Seq(Nat \X Nat \X Faults)
    BY DEF IInv, AcceptedOK
  <1> HIDE DEF new
  <1>9. /\ accepted' \in Seq(Nat \X Nat \X Faults) /\ Len(accepted) \in Nat
        /\ Len(accepted') = Len(accepted) + 1 /\ accepted' # <<>>
        /\ DOMAIN accepted = 1 .. Len(accepted)
        /\ DOMAIN accepted' = 1 .. Len(accepted) + 1
        /\ accepted'[Len(accepted) + 1] = new
        /\ \A i \in 1 .. Len(accepted) : accepted'[i] = accepted[i]
    BY <1>6, <1>7, <1>8, AppendProperties
  <1>10. new[1] = count["sessions"] /\ new[2] = Kept + 1 /\ new[3] = "none"
    BY DEF new
  <1>11. AcceptedOK'
    <2>1. \A i \in 1 .. Len(accepted) : accepted[i][1] <= count["sessions"]
      BY <1>9 DEF IInv, AcceptedOK
    <2> QED
      BY <1>7, <1>9, <1>10, <2>1 DEF AcceptedOK
  <1>12. Kept' = Kept + 1
    BY <1>9, <1>10 DEF Kept
  <1>13. \A i \in DOMAIN accepted' :
            /\ accepted'[i][3] = "none"
            /\ accepted'[i][2] =
                 IF i > 1 /\ accepted'[i - 1][1] = accepted'[i][1]
                   THEN accepted'[i - 1][2] + 1 ELSE 1
    <2> SUFFICES ASSUME NEW i \in 1 .. Len(accepted) + 1
                 PROVE  /\ accepted'[i][3] = "none"
                        /\ accepted'[i][2] =
                             IF i > 1 /\ accepted'[i - 1][1] = accepted'[i][1]
                               THEN accepted'[i - 1][2] + 1 ELSE 1
      BY <1>9
    <2>1. CASE i <= Len(accepted)
      <3>1. i \in DOMAIN accepted /\ accepted'[i] = accepted[i]
        BY <1>9, <2>1
      <3>2. i > 1 => accepted'[i - 1] = accepted[i - 1]
        BY <1>9, <2>1
      <3> QED
        BY <3>1, <3>2 DEF IInv, FramesIntact
    <2>2. CASE i = Len(accepted) + 1
      <3>1. accepted'[i] = new
        BY <1>9, <2>2
      <3>2. CASE i = 1
        <4>1. accepted = <<>>
          BY <1>8, <1>9, <2>2, <3>2, EmptySeq
        <4>2. Kept = 0
          BY <4>1 DEF Kept
        <4> QED
          BY <1>10, <3>1, <3>2, <4>2
      <3>3. CASE i > 1
        <4>1. Len(accepted) \in Nat /\ i - 1 = Len(accepted) /\ Len(accepted) >= 1
          BY <1>9, <2>2, <3>3
        <4>2. accepted # <<>> /\ accepted'[i - 1] = accepted[Len(accepted)]
          BY <1>9, <4>1, EmptySeq
        <4> QED
          BY <1>10, <3>1, <3>3, <4>1, <4>2 DEF Kept
      <3>4. i = 1 \/ i > 1
        BY <1>9, <2>2
      <3> QED
        BY <3>2, <3>3, <3>4
    <2> QED
      BY <1>9, <2>1, <2>2
  <1>14. TypeOK' => FramesIntact'
    BY <1>13 DEF FramesIntact
  <1> QED
    BY <1>1, <1>2, <1>9, <1>11, <1>12, <1>14

\* The frame is counted and saved, or the save fails and the program ends.
LEMMA FrameReceivedStep == IInv /\ (FrameReceived \/ SaveFails) => IInv'
  <1> SUFFICES ASSUME IInv, FrameReceived \/ SaveFails PROVE IInv'
    OBVIOUS
  <1> USE StreamAssumption, ReceiverAssumption
  <1>1. /\ pc = "payload" /\ got = Need /\ CrcMatches(HeaderStart, offset)
        /\ accepted' = Append(accepted, <<count["sessions"], FrameAt(HeaderStart),
                                          sent[FrameAt(HeaderStart)]>>)
        /\ UNCHANGED <<ok, fatal, ending>>
    BY DEF FrameReceived, SaveFails
  <1>2. PICK names \in {{"received"}, {"received", "saved"}} :
           /\ count' = Counted(names)
           /\ FrameReceived /\ SavePayloads => names = {"received", "saved"}
    <2>1. {"received"} \cup {"saved"} = {"received", "saved"}
      OBVIOUS
    <2>2. CASE FrameReceived /\ SavePayloads
      BY <2>1, <2>2 DEF FrameReceived
    <2>3. CASE FrameReceived /\ ~SavePayloads
      BY <2>3 DEF FrameReceived
    <2>4. CASE SaveFails /\ ~FrameReceived
      BY <2>4 DEF SaveFails
    <2> QED
      BY <2>2, <2>3, <2>4
  <1>3. count \in [Counters -> Nat] /\ TypeOK
    BY DEF IInv, FramesIntact, TypeOK
  <1>4. /\ count' \in [Counters -> Nat]
        /\ \A c \in Counters : count'[c] = IF c \in names THEN count[c] + 1 ELSE count[c]
    BY <1>2, <1>3, CountedIs
  <1>5. /\ count'["sessions"] = count["sessions"] /\ count'["received"] = count["received"] + 1
        /\ count'["rejected"] = count["rejected"] /\ count'["header"] = count["header"]
        /\ count'["crc"] = count["crc"] /\ count'["completed"] = count["completed"]
        /\ count'["disconnects"] = count["disconnects"]
    BY <1>4 DEF Counters
  <1>6. FrameReceived /\ SavePayloads => count'["saved"] = count["saved"] + 1
    BY <1>2, <1>4 DEF Counters
  <1>7. /\ AcceptedOK'
        /\ TypeOK' => FramesIntact'
        /\ Len(accepted') = Len(accepted) + 1 /\ Len(accepted) \in Nat
        /\ Kept' = Kept + 1 /\ Kept \in Nat
        /\ got = PayloadUnits /\ offset = Kept * FrameUnits + HeaderUnits
    BY <1>1, <1>5, KeepFrame
  <1>8. FramesLeft /\ (MaxFrames > 0 => count'["received"] <= MaxFrames)
    BY <1>1, <1>3, <1>5, Numbers DEF IInv, LimitHolds, FramesLeft
  <1>9. CASE FrameReceived
    <2> USE <1>9 DEF FrameReceived, stream
    <2>1. Limit' = Limit
      BY DEF Limit
    <2>2. StreamTypeOK' /\ PeerGone'
      BY <2>1 DEF IInv, FramesIntact, TypeOK, StreamTypeOK, PeerGone
    <2>3. offset' = Kept' * FrameUnits /\ offset' \in Nat /\ got' = 0 /\ pc' = "header"
      <3>1. (Kept + 1) * FrameUnits = Kept * FrameUnits + FrameUnits /\ Kept * FrameUnits \in Nat
        BY <1>7, FrameMultiple
      <3> QED
        BY <1>7, <3>1 DEF FrameUnits
    <2>4. offset' <= written'
      BY <1>1, <1>3, <1>7 DEF TypeOK
    <2>5. TypeOK'
      <3>1. got' <= Need' /\ offset' + got' <= written' /\ got' \in 0 .. HeaderUnits + PayloadUnits
        BY <2>3, <2>4 DEF Need
      <3>2. exit' = exit /\ ok' = ok /\ fatal' = fatal
        OBVIOUS
      <3> HIDE DEF FrameReceived
      <3> QED
        BY <1>3, <1>4, <2>2, <2>3, <3>1, <3>2 DEF TypeOK
    <2>6. Aligned' /\ LimitHolds'
      <3>1. peer' # "absent"
        BY DEF IInv, Aligned
      <3> QED
        BY <1>5, <1>8, <2>3, <3>1 DEF IInv, Aligned, LimitHolds
    <2>7. RejectionIsLast' /\ SessionsAccounted'
      BY <1>1, <1>5, <2>3 DEF IInv, RejectionIsLast, SessionsAccounted, Unfinished
    <2>8. FilesAndExit' /\ ExitCodeTruthful'
      BY <1>1, <1>5, <1>6, <1>7, <2>3 DEF IInv, FilesAndExit, ExitCodeTruthful, NotYet
    <2> QED
      BY <1>7, <2>2, <2>5, <2>6, <2>7, <2>8 DEF IInv
  <1>10. CASE SaveFails
    <2> USE <1>10 DEF SaveFails
    <2>1. StreamTypeOK' /\ PeerGone'
      BY <1>3, HangUpStep DEF TypeOK
    <2>2. TypeOK'
      BY <1>3, <1>4, <2>1 DEF TypeOK
    <2>3. Aligned' /\ LimitHolds' /\ SessionsAccounted'
      BY <1>5, <1>8 DEF IInv, Aligned, LimitHolds, SessionsAccounted
    <2>4. RejectionIsLast' /\ FilesAndExit' /\ ExitCodeTruthful'
      BY <1>1, <1>5, <1>7
      DEF IInv, RejectionIsLast, FilesAndExit, ExitCodeTruthful
    <2> QED
      BY <1>7, <2>1, <2>2, <2>3, <2>4 DEF IInv
  <1> QED
    BY <1>9, <1>10

\* The session is over: completed if it ended well.
LEMMA CloseSessionStep == IInv /\ CloseSession => IInv'
  <1> SUFFICES ASSUME IInv, CloseSession PROVE IInv'
    OBVIOUS
  <1> USE DEF CloseSession
  <1>1. count \in [Counters -> Nat] /\ TypeOK
    BY DEF IInv, FramesIntact, TypeOK
  <1>2. StreamTypeOK' /\ PeerGone'
    BY <1>1, HangUpStep DEF TypeOK
  <1>3. /\ count' \in [Counters -> Nat]
        /\ count'["completed"] = count["completed"] + (IF ok THEN 1 ELSE 0)
        /\ \A c \in Counters \ {"completed"} : count'[c] = count[c]
    <2>1. CASE ok
      BY <1>1, <2>1, CountedIs DEF Counters
    <2>2. CASE ~ok
      BY <1>1, <2>2, CountedIs, Numbers DEF Counters
    <2> QED
      BY <2>1, <2>2
  <1>4. /\ count'["sessions"] = count["sessions"] /\ count'["received"] = count["received"]
        /\ count'["rejected"] = count["rejected"] /\ count'["header"] = count["header"]
        /\ count'["crc"] = count["crc"] /\ count'["saved"] = count["saved"]
        /\ count'["disconnects"] = count["disconnects"]
    BY <1>3 DEF Counters
  <1>5. pc' \in {"accept", "report"} /\ (fatal <=> pc' = "report")
    OBVIOUS
  <1>6. TypeOK'
    BY <1>1, <1>2, <1>3, <1>5 DEF TypeOK
  <1>7. FramesIntact' /\ AcceptedOK'
    BY <1>4, <1>6 DEF IInv, FramesIntact, AcceptedOK
  <1>8. Aligned' /\ LimitHolds' /\ FilesAndExit' /\ ExitCodeTruthful'
    BY <1>4, <1>5 DEF IInv, Aligned, LimitHolds, FilesAndExit, ExitCodeTruthful, NotYet
  <1>9. RejectionIsLast'
    BY <1>4, <1>5 DEF IInv, RejectionIsLast
  <1>10. SessionsAccounted'
    <2>1. Unfinished' = Unfinished - (IF ok THEN 1 ELSE 0)
      BY <1>1, <1>3, <1>4, Numbers DEF Unfinished
    <2> QED
      BY <1>4, <1>5, <2>1 DEF IInv, SessionsAccounted
  <1> QED
    BY <1>2, <1>7, <1>8, <1>9, <1>10 DEF IInv

\* The statistics are written, or are not, and the program returns.
LEMMA ReportStep == IInv /\ Report => IInv'
  <1> SUFFICES ASSUME IInv, Report PROVE IInv'
    OBVIOUS
  <1> USE DEF Report, stream
  <1>1. Limit' = Limit
    BY DEF Limit
  <1>2. StreamTypeOK' /\ PeerGone'
    BY <1>1 DEF IInv, FramesIntact, TypeOK, StreamTypeOK, PeerGone
  <1>3. ExitCode \in {0, 2, 3}
    BY DEF ExitCode
  <1>4. TypeOK'
    BY <1>2, <1>3 DEF IInv, FramesIntact, TypeOK
  <1>5. Aligned' /\ LimitHolds' /\ SessionsAccounted' /\ FilesAndExit'
    BY StatisticsKept DEF IInv, Aligned, LimitHolds, SessionsAccounted, FilesAndExit
  <1>6. ExitCodeTruthful'
    <2>1. count \in [Counters -> Nat]
      BY DEF IInv, FramesIntact, TypeOK
    <2>2. /\ exit' = 0 => count["header"] = 0 /\ count["crc"] = 0
          /\ exit' = 3 => count["header"] > 0
          /\ exit' = 2 => count["header"] = 0 /\ count["crc"] > 0
      BY <2>1, Numbers DEF ExitCode
    <2> QED
      BY <2>1, <2>2, Numbers DEF IInv, RejectionIsLast, ExitCodeTruthful
  <1> QED
    BY <1>2, <1>4, <1>5, <1>6, StatisticsKept DEF IInv

\* Every step preserves the invariant.
LEMMA NextInv == IInv /\ [Next]_vars => IInv'
  <1> SUFFICES ASSUME IInv, [Next]_vars PROVE IInv'
    OBVIOUS
  <1>1. CASE AcceptFails \/ RecvFails
    BY <1>1, AbortStep DEF AcceptFails, RecvFails
  <1>2. CASE UNCHANGED vars
    <2>1. Limit' = Limit /\ Need' = Need /\ (FramesLeft' <=> FramesLeft)
      BY <1>2 DEF vars, stream, receiver, Limit, Need, FramesLeft
    <2>2. TypeOK' /\ PeerGone'
      BY <1>2, <2>1
      DEF vars, stream, receiver, IInv, FramesIntact, TypeOK, StreamTypeOK, PeerGone
    <2>3. Aligned' /\ LimitHolds' /\ SessionsAccounted' /\ FilesAndExit' /\ ExitCodeTruthful'
          /\ RejectionIsLast'
      BY <1>2, <2>1, StatisticsKept
      DEF vars, stream, receiver, IInv, Aligned, LimitHolds, SessionsAccounted, FilesAndExit,
          ExitCodeTruthful, RejectionIsLast
    <2> QED
      BY <1>2, <2>2, <2>3, StatisticsKept DEF IInv, vars, receiver
  <1> QED
    BY <1>1, <1>2, SenderInv, StopAcceptingStep, AcceptStep, RecvStep, QuietEndStep, RejectStep,
       HeaderAcceptedStep, FrameReceivedStep, CloseSessionStep, ReportStep
    DEF Next, Receiver, Ended

-----------------------------------------------------------------------------
\* The invariant holds throughout the receiver's life.
THEOREM ReceiverInvariant == Spec => []IInv
  BY InitInv, NextInv, PTL DEF Spec

\* The frames kept from a session are an unbroken run of intact frames from its
\* first on, whatever recv() returned and wherever the stream was cut.
THEOREM ReceiverKeepsIntactFrames == Spec => []FramesIntact
  <1>1. IInv => FramesIntact
    BY DEF IInv
  <1> QED
    BY <1>1, ReceiverInvariant, PTL

\* The numbers of the statistics file are consistent with each other and with
\* what was received, within the limits the user set.
THEOREM ReceiverStatisticsAgree == Spec => []StatisticsAgree
  <1>1. IInv => StatisticsAgree
    <2> SUFFICES ASSUME IInv PROVE StatisticsAgree
      OBVIOUS
    <2>1. count \in [Counters -> Nat]
      BY DEF IInv, FramesIntact, TypeOK
    <2>2. /\ count["received"] = Len(accepted)
          /\ count["rejected"] = count["header"] + count["crc"]
          /\ count["sessions"] <= MaxSessions
          /\ MaxFrames > 0 => count["received"] <= MaxFrames
      BY DEF IInv, FilesAndExit, RejectionIsLast, LimitHolds
    <2>3. ASSUME pc \in {"accept", "report"}
          PROVE  /\ SavePayloads => count["saved"] = count["received"]
                 /\ Unfinished \in 0 .. count["disconnects"]
                 /\ ending = "rejected" => count["completed"] < count["sessions"]
      <3>1. SavePayloads => count["saved"] = count["received"]
        BY <2>3 DEF IInv, FilesAndExit
      <3>2. Unfinished \in 0 .. count["disconnects"]
        BY <2>3 DEF IInv, SessionsAccounted
      <3>3. ending = "rejected" => count["rejected"] = 1
        BY DEF IInv, RejectionIsLast
      <3> QED
        BY <2>1, <3>1, <3>2, <3>3, Numbers DEF Unfinished
    <2> QED
      BY <2>2, <2>3 DEF StatisticsAgree, Unfinished
  <1> QED
    BY <1>1, ReceiverInvariant, PTL

\* The exit code names the error that ended the process, and 0 means none did.
THEOREM ReceiverExitCodeTruthful == Spec => []ExitCodeTruthful
  <1>1. IInv => ExitCodeTruthful
    BY DEF IInv
  <1> QED
    BY <1>1, ReceiverInvariant, PTL

\* No session is accepted after a header or CRC failure.
THEOREM ReceiverCorruptionIsFatal == Spec => CorruptionIsFatal
  <1>1. IInv /\ [Next]_vars =>
          [count'["sessions"] > count["sessions"] => count["rejected"] = 0]_vars
    <2> SUFFICES ASSUME IInv, [Next]_vars, count'["sessions"] > count["sessions"]
                 PROVE  count["rejected"] = 0
      OBVIOUS
    <2>1. count \in [Counters -> Nat]
      BY DEF IInv, FramesIntact, TypeOK
    <2>2. \A names : "sessions" \notin names => Counted(names)["sessions"] = count["sessions"]
      BY <2>1, CountedIs, Numbers DEF Counters
    <2>3. CASE Accept
      BY <2>1, <2>3, Numbers DEF Accept, IInv, RejectionIsLast
    <2>4. CASE ~Accept
      <3>1. count'["sessions"] = count["sessions"]
        BY <2>2, <2>4
        DEF Next, Receiver, StopAccepting, AcceptFails, FrameLimit, Recv, HeaderEof, PayloadEof,
            RecvFails, HeaderAccepted, HeaderRejected, CrcRejected, FrameReceived, SaveFails,
            CloseSession, Report, Ended, EndSession, Abort, receiver, vars
      <3> QED
        BY <2>1, <3>1, Numbers
    <2> QED
      BY <2>3, <2>4
  <1> QED
    BY <1>1, ReceiverInvariant, PTL DEF Spec, CorruptionIsFatal
=============================================================================
