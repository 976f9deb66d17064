---------------------------- MODULE FrameStream ----------------------------
(***************************************************************************)
(* The byte stream a frame sender writes into one TCP connection after      *)
(* another (frame_protocol.hpp; the senders are tcp_sender.cpp and          *)
(* send_frame_over_tcp in main.cpp), as the two receivers see it.  A unit   *)
(* is four bytes.  The content of a unit is where it stands: a frame is a   *)
(* wire header followed by its payload, and each frame carries the fault    *)
(* the sender put into it.  TCP itself (external) keeps the order and loses *)
(* nothing, but delivers any number of units at a time, and the connection  *)
(* may end between any two of them.  Magic, header checks and CRC are taken *)
(* to recognise every misplaced or damaged frame.                           *)
(***************************************************************************)
EXTENDS Naturals, Sequences

CONSTANTS HeaderUnits,    \* kWireHeaderSize / 4: 11 in the code
          PayloadUnits,   \* payload_size / 4
          MaxConnections, \* bound: connections the senders open
          MaxSent         \* bound: frames a sender begins in a connection

ASSUME StreamAssumption ==
  /\ HeaderUnits \in Nat \ {0} /\ PayloadUnits \in Nat \ {0}
  /\ MaxConnections \in Nat /\ MaxSent \in Nat

VARIABLES peer,         \* "absent", "open", "closed" (EOF) or "reset"
          connections,  \* connections opened so far
          sent,         \* the faults of the frames begun in this connection
          written       \* units written to this connection

stream == <<peer, connections, sent, written>>

FrameUnits == HeaderUnits + PayloadUnits

\* An intact frame; a header the receiver refuses (--header-fault, or a frame
\* of the pipeline beyond the receiver's limits); --corrupt-frame-id.
Faults == {"none", "header", "crc"}

\* Where the frames begun so far end.  Nothing behind a refused header is read.
Limit ==
  IF sent # <<>> /\ sent[Len(sent)] = "header"
    THEN (Len(sent) - 1) * FrameUnits + HeaderUnits
    ELSE Len(sent) * FrameUnits

StreamInit == peer = "absent" /\ connections = 0 /\ sent = <<>> /\ written = 0

\* connect() succeeds; the listen backlog holds the connection.
Connect ==
  /\ peer = "absent" /\ connections < MaxConnections
  /\ peer' = "open" /\ connections' = connections + 1
  /\ sent' = <<>> /\ written' = 0

\* The sender starts a frame; a header that will be refused is the last one.
BeginFrame ==
  /\ peer = "open" /\ written = Limit /\ Len(sent) < MaxSent
  /\ sent # <<>> => sent[Len(sent)] # "header"
  /\ \E fault \in Faults : sent' = Append(sent, fault)
  /\ UNCHANGED <<peer, connections, written>>

\* send() takes some of what is left of the frame.
Transmit ==
  /\ peer = "open" /\ written < Limit
  /\ written' \in written + 1 .. Limit
  /\ UNCHANGED <<peer, connections, sent>>

\* The sender is done, times out in the middle of a frame, or dies.
Disconnect ==
  /\ peer = "open"
  /\ peer' \in {"closed", "reset"}
  /\ UNCHANGED <<connections, sent, written>>

Sender == Connect \/ BeginFrame \/ Transmit \/ Disconnect

\* The receiver closes its end: the next connection may come.
HangUp ==
  /\ peer' = "absent" /\ sent' = <<>> /\ written' = 0
  /\ UNCHANGED connections

\* The frame whose header starts at unit "at", 0 if none does.
FrameAt(at) ==
  IF at % FrameUnits = 0 /\ at \div FrameUnits < Len(sent)
    THEN at \div FrameUnits + 1 ELSE 0

\* deserialize_header and validate_header on the units from "at".
HeaderValid(at) == FrameAt(at) # 0 /\ sent[FrameAt(at)] # "header"

\* The CRC of the header at "at" against a payload read from "from".
CrcMatches(at, from) == from = at + HeaderUnits /\ sent[FrameAt(at)] = "none"

StreamTypeOK ==
  /\ peer \in {"absent", "open", "closed", "reset"}
  /\ connections \in 0 .. MaxConnections
  /\ sent \in Seq(Faults) /\ Len(sent) <= MaxSent
  /\ written \in 0 .. Limit
=============================================================================
