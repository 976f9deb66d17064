---------------------------- MODULE TcpReceiver ----------------------------
(***************************************************************************)
(* src/tcp_receiver.cpp: the accept loop, the frame loop inside a session,  *)
(* the statistics file and the exit code.  Latency samples and printed      *)
(* messages are left out; last_error is reported by nothing but the file.   *)
(***************************************************************************)
EXTENDS FrameStream

CONSTANTS MaxSessions,  \* --max-sessions
          MaxFrames,    \* --max-frames, 0 for no limit
          SavePayloads  \* FALSE under --discard-payload

ASSUME ReceiverAssumption ==
  MaxSessions \in Nat \ {0} /\ MaxFrames \in Nat /\ SavePayloads \in BOOLEAN

VARIABLES pc,
          got,       \* read_exact: units read by the current call
          offset,    \* units of this connection read by earlier calls
          ok,        \* session_ok
          fatal,     \* fatal_protocol_error
          count,     \* the counters of the statistics file
          exit,      \* the exit code, NotYet while running
          accepted,  \* history: <<session, frame, fault>> of each frame kept
          ending     \* history: how the last session ended

receiver == <<pc, got, offset, ok, fatal, count, exit, accepted, ending>>
vars == <<stream, receiver>>

NotYet == 9
Counters == {"received", "saved", "crc", "header", "rejected", "sessions",
             "completed", "disconnects"}
Counted(names) == [c \in Counters |-> count[c] + IF c \in names THEN 1 ELSE 0]

Init ==
  /\ StreamInit
  /\ pc = "accept" /\ got = 0 /\ offset = 0 /\ ok = TRUE /\ fatal = FALSE
  /\ count = [c \in Counters |-> 0] /\ exit = NotYet
  /\ accepted = <<>> /\ ending = "none"

FramesLeft == MaxFrames = 0 \/ count["received"] < MaxFrames

\* The exception handler around main's body: nothing is written.
Abort ==
  /\ pc' = "exited" /\ exit' = 1
  /\ HangUp
  /\ UNCHANGED <<got, offset, ok, fatal, count, accepted, ending>>

\* The condition of the accept loop fails.
StopAccepting ==
  /\ pc = "accept"
  /\ ~ (count["sessions"] < MaxSessions /\ FramesLeft)
  /\ pc' = "report"
  /\ UNCHANGED <<stream, got, offset, ok, fatal, count, exit, accepted, ending>>

Accept ==
  /\ pc = "accept" /\ count["sessions"] < MaxSessions /\ FramesLeft
  /\ peer # "absent"
  /\ count' = Counted({"sessions"})
  /\ ok' = TRUE /\ got' = 0 /\ offset' = 0
  /\ pc' = "header"
  /\ UNCHANGED <<stream, fatal, exit, accepted, ending>>

AcceptFails ==
  /\ pc = "accept" /\ count["sessions"] < MaxSessions /\ FramesLeft
  /\ Abort

\* The frame loop ends with the session in this state.
EndSession(how, sessionOk, names) ==
  /\ pc' = "close" /\ ok' = sessionOk /\ ending' = how
  /\ count' = Counted(names)
  /\ UNCHANGED <<stream, got, offset, exit, accepted>>

\* The frame limit was reached by the previous frame.
FrameLimit ==
  /\ pc = "header" /\ got = 0 /\ ~FramesLeft
  /\ EndSession("limit", TRUE, {})
  /\ UNCHANGED fatal

Need == IF pc = "header" THEN HeaderUnits ELSE PayloadUnits

\* One recv() of read_exact.
Recv ==
  /\ pc \in {"header", "payload"} /\ got < Need
  /\ got = 0 /\ pc = "header" => FramesLeft
  /\ \E n \in 1 .. Need - got :
       offset + got + n <= written /\ got' = got + n
  /\ UNCHANGED <<stream, pc, offset, ok, fatal, count, exit, accepted, ending>>

\* recv() meets the end of the stream; a reset may overtake unread data.
AtEnd(state) ==
  /\ got < Need
  /\ got = 0 /\ pc = "header" => FramesLeft
  /\ peer = state
  /\ state = "closed" => offset + got = written

\* End of stream while reading a header: inside it or before it is the same.
HeaderEof ==
  /\ pc = "header" /\ AtEnd("closed")
  /\ EndSession(IF got = 0 THEN "clean" ELSE "truncated", TRUE, {"disconnects"})
  /\ UNCHANGED fatal

\* Mutant: PayloadEof in a read_exact that takes 0 for "nothing yet".
PayloadEofRetries == pc = "payload" /\ AtEnd("closed") /\ UNCHANGED vars

\* End of stream inside a payload.
PayloadEof ==
  /\ pc = "payload" /\ AtEnd("closed")
  /\ EndSession("truncated", FALSE, {"disconnects"})
  /\ UNCHANGED fatal

\* read_exact throws on ECONNRESET.
RecvFails ==
  /\ pc \in {"header", "payload"} /\ AtEnd("reset")
  /\ Abort

\* deserialize_header, validate_header: accept the header and allocate.
HeaderAccepted ==
  /\ pc = "header" /\ got = Need /\ HeaderValid(offset)
  /\ pc' = "payload" /\ offset' = offset + got /\ got' = 0
  /\ UNCHANGED <<stream, ok, fatal, count, exit, accepted, ending>>

\* Mutant: HeaderRejected that leaves fatal_protocol_error alone.
HeaderRejectedNotFatal ==
  /\ pc = "header" /\ got = Need /\ ~HeaderValid(offset)
  /\ EndSession("rejected", FALSE, {"header", "rejected"})
  /\ UNCHANGED fatal

HeaderRejected ==
  /\ pc = "header" /\ got = Need /\ ~HeaderValid(offset)
  /\ EndSession("rejected", FALSE, {"header", "rejected"})
  /\ fatal' = TRUE

HeaderStart == offset - HeaderUnits

CrcRejected ==
  /\ pc = "payload" /\ got = Need /\ ~CrcMatches(HeaderStart, offset)
  /\ EndSession("rejected", FALSE, {"crc", "rejected"})
  /\ fatal' = TRUE

\* Mutant: FrameReceived that does not compare the CRC.
FrameReceivedUnchecked ==
  /\ pc = "payload" /\ got = Need
  /\ count' = Counted({"received"} \cup (IF SavePayloads THEN {"saved"} ELSE {}))
  /\ accepted' = Append(accepted, <<count["sessions"], FrameAt(HeaderStart),
                                    sent[FrameAt(HeaderStart)]>>)
  /\ pc' = "header" /\ offset' = offset + got /\ got' = 0
  /\ UNCHANGED <<stream, ok, fatal, exit, ending>>

\* The frame is counted, and saved unless payloads are discarded.
FrameReceived ==
  /\ pc = "payload" /\ got = Need /\ CrcMatches(HeaderStart, offset)
  /\ count' = Counted({"received"} \cup (IF SavePayloads THEN {"saved"} ELSE {}))
  /\ accepted' = Append(accepted, <<count["sessions"], FrameAt(HeaderStart),
                                    sent[FrameAt(HeaderStart)]>>)
  /\ pc' = "header" /\ offset' = offset + got /\ got' = 0
  /\ UNCHANGED <<stream, ok, fatal, exit, ending>>

\* save_payload throws after the frame was counted.
SaveFails ==
  /\ SavePayloads
  /\ pc = "payload" /\ got = Need /\ CrcMatches(HeaderStart, offset)
  /\ pc' = "exited" /\ exit' = 1
  /\ count' = Counted({"received"})
  /\ accepted' = Append(accepted, <<count["sessions"], FrameAt(HeaderStart),
                                    sent[FrameAt(HeaderStart)]>>)
  /\ HangUp
  /\ UNCHANGED <<got, offset, ok, fatal, ending>>

\* Mutant: CloseSession that counts every session as completed.
CloseSessionAlwaysCompleted ==
  /\ pc = "close"
  /\ count' = Counted({"completed"})
  /\ pc' = IF fatal THEN "report" ELSE "accept"
  /\ HangUp
  /\ UNCHANGED <<got, offset, ok, fatal, exit, accepted, ending>>

\* After the frame loop: a session that ended well is counted, and a fatal
\* protocol error leaves the accept loop.
CloseSession ==
  /\ pc = "close"
  /\ count' = Counted(IF ok THEN {"completed"} ELSE {})
  /\ pc' = IF fatal THEN "report" ELSE "accept"
  /\ HangUp
  /\ UNCHANGED <<got, offset, ok, fatal, exit, accepted, ending>>

\* Mutant: ExitCode that forgets the CRC errors.
ExitCodeIgnoresCrc == IF count["header"] > 0 THEN 3 ELSE 0

ExitCode == IF count["header"] > 0 THEN 3 ELSE IF count["crc"] > 0 THEN 2 ELSE 0

\* write_receiver_stats_json, close, return; the write may throw.
Report ==
  /\ pc = "report"
  /\ exit' \in {ExitCode, 1}
  /\ pc' = "exited"
  /\ UNCHANGED <<stream, got, offset, ok, fatal, count, accepted, ending>>

Ended == pc = "exited" /\ UNCHANGED vars

Receiver ==
  \/ StopAccepting \/ Accept \/ AcceptFails \/ FrameLimit \/ Recv
  \/ HeaderEof \/ PayloadEof \/ RecvFails \/ HeaderAccepted \/ HeaderRejected
  \/ CrcRejected \/ FrameReceived \/ SaveFails \/ CloseSession \/ Report

Next == Receiver \/ (pc # "exited" /\ Sender /\ UNCHANGED receiver) \/ Ended

Spec == Init /\ [][Next]_vars

\* The receiver keeps running; senders keep coming, write what they began
\* and go away in the end.
Fairness ==
  /\ WF_vars(Receiver)
  /\ WF_vars(Connect /\ UNCHANGED receiver)
  /\ WF_vars(Transmit /\ UNCHANGED receiver)
  /\ WF_vars(Disconnect /\ UNCHANGED receiver)

FairSpec == Spec /\ Fairness

-----------------------------------------------------------------------------
\* A read never asks for more than the header or payload it is in, and the
\* receiver is never ahead of the sender.
TypeOK ==
  /\ StreamTypeOK
  /\ pc \in {"accept", "header", "payload", "close", "report", "exited"}
  /\ got \in 0 .. HeaderUnits + PayloadUnits
  /\ ok \in BOOLEAN /\ fatal \in BOOLEAN
  /\ count \in [Counters -> Nat]
  /\ exit \in {NotYet, 0, 1, 2, 3}
  /\ pc \in {"header", "payload"} => got <= Need /\ offset + got <= written

\* The frames kept from a session are an unbroken run of intact frames from
\* its first on: none is skipped, repeated, damaged or assembled from parts
\* of two, whatever recv() returned and wherever the stream was cut; and no
\* read leaves the header or payload it is for (TypeOK).
FramesIntact ==
  /\ TypeOK
  /\ \A i \in DOMAIN accepted :
       /\ accepted[i][3] = "none"
       /\ accepted[i][2] =
            IF i > 1 /\ accepted[i - 1][1] = accepted[i][1]
              THEN accepted[i - 1][2] + 1 ELSE 1

\* The statistics file is consistent: every rejected frame has its cause,
\* every finished session is completed, cut off or rejected, the frame and
\* session limits hold, and the saved files are the received frames.
StatisticsAgree ==
  /\ count["received"] = Len(accepted)
  /\ count["rejected"] = count["header"] + count["crc"]
  /\ count["sessions"] <= MaxSessions
  /\ MaxFrames > 0 => count["received"] <= MaxFrames
  /\ pc \in {"accept", "report"} =>
       /\ SavePayloads => count["saved"] = count["received"]
       /\ count["sessions"] - count["completed"] - count["rejected"]
            \in 0 .. count["disconnects"]
       /\ ending = "rejected" => count["completed"] < count["sessions"]

\* Exit code 0 means that no frame was rejected and the last session was
\* not; 3 and 2 name the error that ended the process.
ExitCodeTruthful ==
  /\ exit = 0 => count["rejected"] = 0 /\ ending # "rejected"
  /\ exit = 3 => count["header"] = 1
  /\ exit = 2 => count["crc"] = 1 /\ count["header"] = 0

\* "A protocol-header or CRC failure remains fatal for the receiver process"
\* (docs/tcp_protocol.md): no session is accepted after one.
CorruptionIsFatal ==
  [][count'["sessions"] > count["sessions"] => count["rejected"] = 0]_vars

\* If senders come and go, the receiver writes its statistics and exits: no
\* cut in the stream leaves it waiting.
ReceiverExits == <>(pc = "exited")
=============================================================================
