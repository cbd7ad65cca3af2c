------------------------------- MODULE Framing -------------------------------
(***************************************************************************)
(* The byte stream of one robot connection (protocol.py, recv_exact and    *)
(* the loop of handle_tcp_client): the server cuts it into packets by the  *)
(* length in their headers and acknowledges each of them.                  *)
(*                                                                         *)
(* Abstractions.  A stream is the sequence of packets the robot means to   *)
(* send, each with the offset of its first byte; bytes are counted, not    *)
(* spelled out.  A payload is a login, another JSON object, or a text that *)
(* is neither.  The sequence number of a packet is its place.              *)
(***************************************************************************)
EXTENDS Integers, Sequences

CONSTANTS
  HeaderSize,     \* HEADER_SIZE, 20
  MaxPacketSize,  \* MAX_PACKET_SIZE, 1 MiB
  PayloadSize,    \* size of the payload of each acknowledgement
  Streams         \* what a robot may send

\* `length` is what the header says, `size` what is sent: they differ only for
\* a header that cannot be right.
Packet == [at : Nat, size : Nat, length : Nat, control : BOOLEAN,
           payload : {"none", "login", "json", "text"}]

\* Mutant: an empty packet counts as invalid.
MoreThanHeader(p) == p.length \in (HeaderSize + 1)..MaxPacketSize

\* The check of parse_header.
Valid(p) == p.length \in HeaderSize..MaxPacketSize

End(p) == p.at + p.size
Total(s) == End(s[Len(s)])

ASSUME Sizes == HeaderSize \in Nat \ {0} /\ MaxPacketSize \in Nat
ASSUME AckPayloads == PayloadSize \in [{"login", "normal", "keepalive"} -> Nat]
ASSUME StreamsAreConsecutive ==
  \A s \in Streams :
    /\ s \in Seq(Packet) /\ s # <<>> /\ s[1].at = 0
    /\ \A i \in 1..Len(s) :
         /\ s[i].size >= HeaderSize
         /\ Valid(s[i]) => s[i].size = s[i].length
         /\ s[i].payload = "none" <=> s[i].length = HeaderSize
         /\ i < Len(s) => s[i + 1].at = End(s[i])
         /\ \A j \in (i + 1)..Len(s) : End(s[i]) <= s[j].at

VARIABLE tcp  \* the connection

(* stream   the packets of this connection                                  *)
(* arrived  how many bytes have arrived                                     *)
(* ended    the robot has closed its side                                   *)
(* stage    where handle_tcp_client is                                      *)
(* pos      how many bytes were received                                    *)
(* start    position of the header in hand                                  *)
(* want     count of the current recv_exact                                 *)
(* have     len(data) in it                                                 *)
(* acks     what was done about each packet, in order                       *)
TcpStart ==
  {[stream |-> s, arrived |-> 0, ended |-> FALSE, stage |-> "header",
    pos |-> 0, start |-> 0, want |-> HeaderSize, have |-> 0, acks |-> <<>>] :
     s \in Streams}

Open == tcp.stage \in {"header", "payload", "handle"}

-----------------------------------------------------------------------------

TcpArrives ==
  /\ Open /\ ~tcp.ended
  /\ \E n \in (tcp.arrived + 1)..Total(tcp.stream) :
       tcp' = [tcp EXCEPT !.arrived = n]

RobotCloses == Open /\ ~tcp.ended /\ tcp' = [tcp EXCEPT !.ended = TRUE]

\* Mutant: every recv asks for the whole count again.
AskedWhole == tcp.want

\* recv_exact asks for what is missing until nothing is.
Asked == tcp.want - tcp.have

Reading == tcp.stage \in {"header", "payload"} /\ tcp.have < tcp.want

\* recv returns some of the bytes that have arrived.
Recv ==
  /\ Reading
  /\ \E n \in 1..Asked :
       /\ tcp.pos + n <= tcp.arrived
       /\ tcp' = [tcp EXCEPT !.pos = @ + n, !.have = @ + n]

\* No bytes are left: a ConnectionError at the end of the stream, a time-out
\* after 90 s of silence.
RecvRaises ==
  Reading /\ tcp.pos = tcp.arrived /\ tcp' = [tcp EXCEPT !.stage = "closed"]

ReadNext(stage, count) ==
  [tcp EXCEPT !.stage = stage, !.want = count, !.have = 0]

\* The packet whose header was read.
InHand(p) ==
  tcp.have >= tcp.want /\ p.at = tcp.start
    /\ \E i \in 1..Len(tcp.stream) : p = tcp.stream[i]

\* A ValueError, which ends the handler.
Reject == [tcp EXCEPT !.stage = "closed"]

\* parse_header, and a second recv_exact for the payload.
ParseHeader ==
  /\ tcp.stage = "header"
  /\ \E i \in 1..Len(tcp.stream) :
       LET p == tcp.stream[i]
       IN  /\ InHand(p)
           /\ tcp' = IF ~Valid(p) THEN Reject
                     ELSE IF p.length > HeaderSize
                       THEN ReadNext("payload", p.length - HeaderSize)
                     ELSE ReadNext("handle", 0)

PayloadRead ==
  /\ tcp.stage = "payload" /\ tcp.have >= tcp.want
  /\ tcp' = ReadNext("handle", 0)

Acknowledgement ==
  [ack : {"login", "normal", "keepalive", "none"}, length : Nat, seq : Nat]

\* build_packet: the length counts the header; the sequence number is echoed.
Frame(kind, seq) ==
  [ack |-> kind, length |-> HeaderSize + PayloadSize[kind], seq |-> seq]
Nothing(seq) == [ack |-> "none", length |-> 0, seq |-> seq]

\* Mutant: an empty control response is taken for a keepalive.
AckByLength(i) ==
  LET p == tcp.stream[i]
  IN  CASE p.payload = "login" -> Frame("login", i)
        [] p.payload = "none" -> Frame("keepalive", i)
        [] p.payload \in {"json", "text"} /\ p.control -> Nothing(i)
        [] OTHER -> Frame("normal", i)

\* A token decides first, then the magic, then the length.
Ack(i) ==
  LET p == tcp.stream[i]
  IN  IF p.payload = "login" THEN Frame("login", i)
      ELSE IF p.control THEN Nothing(i)
      ELSE IF p.length = HeaderSize THEN Frame("keepalive", i)
      ELSE Frame("normal", i)

Handle ==
  /\ tcp.stage = "handle"
  /\ \E i \in 1..Len(tcp.stream) :
       /\ InHand(tcp.stream[i])
       /\ tcp' = [ReadNext("header", HeaderSize) EXCEPT
                    !.start = tcp.pos, !.acks = Append(@, Ack(i))]

\* sendall raises: the robot is gone, or its receive window stays closed.
SendRaises ==
  /\ tcp.stage = "handle"
  /\ \E i \in 1..Len(tcp.stream) :
       InHand(tcp.stream[i]) /\ Ack(i).ack # "none"
  /\ tcp' = [tcp EXCEPT !.stage = "broken"]

TcpServes == Recv \/ ParseHeader \/ PayloadRead \/ Handle
TcpFails == RobotCloses \/ RecvRaises \/ SendRaises
TcpNext == TcpArrives \/ TcpServes \/ TcpFails

TcpSpec == tcp \in TcpStart /\ [][TcpNext]_tcp

-----------------------------------------------------------------------------
(* Properties.                                                              *)

\* The connection is a record of values of their kinds; what was received has
\* arrived, and a recv_exact never holds more than its count.
TcpTypeOK ==
  /\ tcp \in [stream : Streams, arrived : Nat, ended : BOOLEAN,
              stage : {"header", "payload", "handle", "closed", "broken"},
              pos : Nat, start : Nat, want : Nat, have : Nat,
              acks : Seq(Acknowledgement)]
  /\ tcp.have <= tcp.want /\ tcp.pos <= tcp.arrived

\* Where the packet after the first n begins.
Boundary(n) ==
  IF n < Len(tcp.stream) THEN tcp.stream[n + 1].at ELSE Total(tcp.stream)

\* The receiver stays in step: however the bytes were cut into receives, a
\* header is taken from where a packet begins, right after the packets that
\* were handled (tcp_server.py:24-31, 84-86), and a packet is handled when it
\* was read completely and nothing behind it was touched.
InStep ==
  /\ tcp.start = Boundary(Len(tcp.acks))
  /\ tcp.stage = "handle" => tcp.pos = Boundary(Len(tcp.acks) + 1)

\* What a robot has to be sent for a packet (docs/protocol.md:106-147).
Due(p) ==
  CASE p.payload = "login" -> "login"
    [] p.payload = "none" /\ ~p.control -> "keepalive"
    [] p.payload \in {"json", "text"} /\ ~p.control -> "normal"
    [] OTHER -> "none"

\* Each handled packet got its own acknowledgement, in order and under its
\* sequence number, and nothing behind a header that cannot be right was
\* handled (protocol.py:70-82, tcp_server.py:99-108).
AcksAreDue ==
  /\ Len(tcp.acks) <= Len(tcp.stream)
  /\ \A i \in 1..Len(tcp.acks) :
       /\ tcp.stream[i].length \in HeaderSize..MaxPacketSize
       /\ tcp.acks[i].seq = i
       /\ tcp.acks[i].ack = Due(tcp.stream[i])
=============================================================================
