------------------------- MODULE RobotFacing_proofs --------------------------
(* Proofs about RobotFacing: the receiver stays in step with the packets of  *)
(* any stream, acknowledges what is due, and a token request is read before  *)
(* it is answered, for all sizes and however the bytes are cut.              *)
EXTENDS RobotFacing, SequenceTheorems, TLAPS

-----------------------------------------------------------------------------
(* The TCP connection.                                                      *)

Handled == Len(tcp.acks)
Coming == tcp.stream[Handled + 1]

\* Where the receiver is, and what it is going to read there.
PlaceOK ==
  /\ tcp.arrived <= Total(tcp.stream)
  /\ tcp.start = Boundary(Handled)
  /\ tcp.stage = "header" =>
       tcp.want = HeaderSize /\ tcp.pos = tcp.start + tcp.have
  /\ tcp.stage = "payload" =>
       /\ Handled < Len(tcp.stream) /\ Valid(Coming)
       /\ tcp.want = Coming.length - HeaderSize
       /\ tcp.pos = tcp.start + HeaderSize + tcp.have
  /\ tcp.stage = "handle" =>
       /\ Handled < Len(tcp.stream) /\ Valid(Coming)
       /\ tcp.want = 0 /\ tcp.have = 0
       /\ tcp.pos = Boundary(Handled + 1)

TcpInv == TcpTypeOK /\ AcksAreDue /\ PlaceOK

\* What is known of a stream.
LEMMA StreamShape ==
  ASSUME NEW s \in Streams
  PROVE  /\ s \in Seq(Packet) /\ Len(s) \in Nat \ {0}
         /\ Total(s) \in Nat
         /\ s[1].at = 0
         /\ \A i \in 1..Len(s) :
              /\ s[i] \in Packet /\ End(s[i]) \in Nat
              /\ s[i].at \in Nat /\ s[i].size \in Nat /\ s[i].length \in Nat
              /\ s[i].control \in BOOLEAN
              /\ s[i].payload \in {"none", "login", "json", "text"}
              /\ s[i].at + HeaderSize <= End(s[i])
              /\ s[i].payload = "none" <=> s[i].length = HeaderSize
              /\ Valid(s[i]) => End(s[i]) = s[i].at + s[i].length
              /\ i < Len(s) => s[i + 1].at = End(s[i])
              /\ \A j \in (i + 1)..Len(s) : End(s[i]) <= s[j].at
<1>1. s \in Seq(Packet) /\ s # <<>> /\ s[1].at = 0
  BY StreamsAreConsecutive
<1>2. Len(s) \in Nat \ {0} /\ \A i \in 1..Len(s) : s[i] \in Packet
  BY <1>1, EmptySeq, ElementOfSeq, LenProperties
<1>3. \A i \in 1..Len(s) : s[i].at \in Nat /\ s[i].size \in Nat /\ s[i].length \in Nat
         /\ s[i].control \in BOOLEAN
         /\ s[i].payload \in {"none", "login", "json", "text"}
  BY <1>2 DEF Packet
<1>4. \A i \in 1..Len(s) : End(s[i]) \in Nat
  BY <1>3 DEF End
<1>5. Total(s) \in Nat
  BY <1>2, <1>4 DEF Total
<1> QED
  BY <1>1, <1>2, <1>3, <1>4, <1>5, StreamsAreConsecutive, Sizes DEF End

\* A packet begins behind the ones before it.
LEMMA Increasing ==
  ASSUME NEW s \in Streams, NEW a \in 1..Len(s), NEW b \in 1..Len(s), a < b
  PROVE  s[a].at < s[b].at /\ End(s[a]) <= s[b].at
<1>1. Len(s) \in Nat /\ b \in (a + 1)..Len(s)
  BY StreamShape
<1>2. /\ s[a].at \in Nat /\ s[b].at \in Nat /\ End(s[a]) \in Nat
      /\ s[a].at + HeaderSize <= End(s[a]) /\ End(s[a]) <= s[b].at
  BY <1>1, StreamShape
<1> QED
  BY <1>2, Sizes

\* The packet whose header was read is the first that was not handled.
LEMMA InHandIsComing ==
  ASSUME TcpInv, NEW i \in 1..Len(tcp.stream), InHand(tcp.stream[i])
  PROVE  i = Handled + 1
<1> DEFINE s == tcp.stream
<1>1. s \in Streams /\ Len(s) \in Nat \ {0}
      /\ Handled \in Nat /\ Handled <= Len(s)
  BY StreamShape DEF TcpInv, TcpTypeOK, AcksAreDue, Handled
<1>2. s[i].at = Boundary(Handled)
  BY DEF InHand, TcpInv, PlaceOK
<1>3. CASE Handled < Len(s)
  <2>1. Handled + 1 \in 1..Len(s) /\ s[i].at = s[Handled + 1].at
    BY <1>1, <1>2, <1>3 DEF Boundary
  <2>2. s[i].at \in Nat
    BY <1>1, StreamShape
  <2>3. ~(i < Handled + 1) /\ ~(Handled + 1 < i)
    BY <1>1, <2>1, <2>2, Increasing
  <2> QED
    BY <1>1, <2>1, <2>3
<1>4. CASE Handled = Len(s)
  <2>1. s[i].at = End(s[Len(s)]) /\ Len(s) \in 1..Len(s)
    BY <1>1, <1>2, <1>4 DEF Boundary, Total
  <2>2. /\ s[i].at \in Nat /\ End(s[i]) \in Nat
        /\ s[i].at + HeaderSize <= End(s[i])
        /\ s[Len(s)].at \in Nat /\ End(s[Len(s)]) \in Nat
        /\ s[Len(s)].at + HeaderSize <= End(s[Len(s)])
    BY <1>1, <2>1, StreamShape
  <2>3. i < Len(s) => s[i].at < s[Len(s)].at
    BY <1>1, <2>1, Increasing
  <2> QED
    BY <1>1, <2>1, <2>2, <2>3, Sizes
<1> QED
  BY <1>1, <1>3, <1>4

\* A new connection.
LEMMA TcpInvInit == tcp \in TcpStart => TcpInv
<1> SUFFICES ASSUME tcp \in TcpStart PROVE TcpInv
  OBVIOUS
<1> PICK s \in Streams :
      tcp = [stream |-> s, arrived |-> 0, ended |-> FALSE, stage |-> "header",
             pos |-> 0, start |-> 0, want |-> HeaderSize, have |-> 0,
             acks |-> <<>>]
  BY DEF TcpStart
<1>1. /\ tcp.stream \in Streams /\ tcp.arrived = 0 /\ tcp.stage = "header"
      /\ tcp.pos = 0 /\ tcp.start = 0 /\ tcp.want = HeaderSize /\ tcp.have = 0
      /\ tcp.acks = <<>>
  OBVIOUS
<1>2. TcpTypeOK
  <2>1. <<>> \in Seq(Acknowledgement)
    OBVIOUS
  <2> QED
    BY <1>1, <2>1, Sizes DEF TcpTypeOK
<1>3. AcksAreDue
  BY <1>1, StreamShape DEF AcksAreDue
<1>4. PlaceOK
  BY <1>1, StreamShape, Sizes DEF PlaceOK, Handled, Boundary
<1> QED
  BY <1>2, <1>3, <1>4 DEF TcpInv

\* What the invariant says of the parts of the connection.
LEMMA Parts ==
  ASSUME TcpInv
  PROVE  /\ tcp.stream \in Streams /\ tcp.arrived \in Nat
         /\ tcp.ended \in BOOLEAN
         /\ tcp.stage \in {"header", "payload", "handle", "closed", "broken"}
         /\ tcp.pos \in Nat /\ tcp.start \in Nat /\ tcp.want \in Nat
         /\ tcp.have \in Nat /\ tcp.acks \in Seq(Acknowledgement)
         /\ tcp.have <= tcp.want /\ tcp.pos <= tcp.arrived
         /\ tcp = [stream |-> tcp.stream, arrived |-> tcp.arrived,
                   ended |-> tcp.ended, stage |-> tcp.stage, pos |-> tcp.pos,
                   start |-> tcp.start, want |-> tcp.want, have |-> tcp.have,
                   acks |-> tcp.acks]
         /\ Handled \in Nat /\ Handled <= Len(tcp.stream)
         /\ Len(tcp.stream) \in Nat /\ Total(tcp.stream) \in Nat
BY StreamShape DEF TcpInv, TcpTypeOK, AcksAreDue, Handled

\* Where the packet in hand ends the next one begins.
LEMMA NextBoundary ==
  ASSUME TcpInv, Handled < Len(tcp.stream), Valid(Coming)
  PROVE  /\ Boundary(Handled) = Coming.at
         /\ Boundary(Handled + 1) = Coming.at + Coming.length
         /\ Coming.at \in Nat /\ Coming.length \in Nat
         /\ Coming.length >= HeaderSize
<1> USE Parts
<1>1. Handled + 1 \in 1..Len(tcp.stream) /\ Coming = tcp.stream[Handled + 1]
  BY DEF Coming
<1>2. /\ Coming.at \in Nat /\ Coming.length \in Nat
      /\ End(Coming) = Coming.at + Coming.length
      /\ Handled + 1 < Len(tcp.stream) =>
           tcp.stream[Handled + 2].at = End(Coming)
  <2>1. (Handled + 1) + 1 = Handled + 2
    OBVIOUS
  <2> QED
    BY <1>1, <2>1, StreamShape
<1>3. Coming.length >= HeaderSize
  BY <1>2, Sizes DEF Valid
<1>4. Boundary(Handled) = Coming.at
  BY <1>1 DEF Boundary
<1>5. Boundary(Handled + 1) = End(Coming)
  <2>1. CASE Handled + 1 < Len(tcp.stream)
    <3>1. Boundary(Handled + 1) = tcp.stream[(Handled + 1) + 1].at
      BY <2>1 DEF Boundary
    <3> QED
      BY <1>2, <2>1, <3>1
  <2>2. CASE Handled + 1 = Len(tcp.stream)
    BY <1>1, <2>2 DEF Boundary, Total
  <2> QED
    BY <1>1, <2>1, <2>2
<1> QED
  BY <1>2, <1>3, <1>4, <1>5

\* The connection with other values of its fields.
Edit(arrived, ended, stage, pos, start, want, have, acks) ==
  [stream |-> tcp.stream, arrived |-> arrived, ended |-> ended,
   stage |-> stage, pos |-> pos, start |-> start, want |-> want,
   have |-> have, acks |-> acks]

Edits ==
  tcp' = Edit(tcp'.arrived, tcp'.ended, tcp'.stage, tcp'.pos, tcp'.start,
              tcp'.want, tcp'.have, tcp'.acks)

\* Such an edit keeps the type if the values are of their kinds.
LEMMA Edited ==
  ASSUME TcpInv, Edits,
         tcp'.arrived \in Nat, tcp'.ended \in BOOLEAN,
         tcp'.stage \in {"header", "payload", "handle", "closed", "broken"},
         tcp'.pos \in Nat, tcp'.start \in Nat, tcp'.want \in Nat,
         tcp'.have \in Nat, tcp'.acks \in Seq(Acknowledgement),
         tcp'.have <= tcp'.want, tcp'.pos <= tcp'.arrived
  PROVE  TcpTypeOK'
BY Parts DEF TcpTypeOK, Edit, Edits

\* Bytes arrive, or the robot closes its side.
LEMMA OutsideKeeps ==
  ASSUME TcpInv, TcpArrives \/ RobotCloses
  PROVE  TcpInv'
<1> USE Parts
<1>1. PICK arrived \in Nat, ended \in BOOLEAN :
        /\ tcp' = Edit(arrived, ended, tcp.stage, tcp.pos, tcp.start, tcp.want,
                       tcp.have, tcp.acks)
        /\ arrived >= tcp.arrived /\ arrived <= Total(tcp.stream)
  <2>1. CASE TcpArrives
    <3>1. PICK n \in (tcp.arrived + 1)..Total(tcp.stream) :
            tcp' = [tcp EXCEPT !.arrived = n]
      BY <2>1 DEF TcpArrives
    <3>2. tcp' = Edit(n, tcp.ended, tcp.stage, tcp.pos, tcp.start, tcp.want,
                      tcp.have, tcp.acks)
      BY <3>1 DEF Edit
    <3> QED
      BY <3>1, <3>2
  <2>2. CASE RobotCloses
    <3>1. tcp' = Edit(tcp.arrived, TRUE, tcp.stage, tcp.pos, tcp.start,
                      tcp.want, tcp.have, tcp.acks)
      BY <2>2 DEF RobotCloses, Edit
    <3>2. tcp.arrived >= tcp.arrived /\ tcp.arrived <= Total(tcp.stream)
      BY DEF TcpInv, PlaceOK
    <3> QED
      BY <3>1, <3>2
  <2> QED
    BY <2>1, <2>2
<1>2. /\ Edits /\ tcp'.arrived = arrived /\ tcp'.ended = ended
      /\ tcp'.stream = tcp.stream /\ tcp'.stage = tcp.stage
      /\ tcp'.pos = tcp.pos /\ tcp'.start = tcp.start /\ tcp'.want = tcp.want
      /\ tcp'.have = tcp.have /\ tcp'.acks = tcp.acks
  BY <1>1 DEF Edit, Edits
<1>3. TcpTypeOK'
  BY <1>1, <1>2, Edited
<1>4. AcksAreDue'
  BY <1>2 DEF TcpInv, AcksAreDue, Due
<1>5. PlaceOK'
  BY <1>1, <1>2 DEF TcpInv, PlaceOK, Handled, Coming, Boundary
<1> QED
  BY <1>3, <1>4, <1>5 DEF TcpInv

\* A receive advances inside the header or payload in hand.
LEMMA RecvKeeps ==
  ASSUME TcpInv, Recv
  PROVE  TcpInv'
<1> USE Parts
<1>1. PICK n \in 1..Asked :
        /\ tcp.pos + n <= tcp.arrived
        /\ tcp' = [tcp EXCEPT !.pos = @ + n, !.have = @ + n]
  BY DEF Recv
<1>2. n \in Nat /\ tcp.have + n <= tcp.want
  BY <1>1 DEF Asked
<1>3. tcp' = Edit(tcp.arrived, tcp.ended, tcp.stage, tcp.pos + n, tcp.start,
                  tcp.want, tcp.have + n, tcp.acks)
  BY <1>1 DEF Edit
<1>4. /\ Edits /\ tcp'.ended = tcp.ended
      /\ tcp'.stream = tcp.stream /\ tcp'.stage = tcp.stage
      /\ tcp'.pos = tcp.pos + n /\ tcp'.start = tcp.start
      /\ tcp'.want = tcp.want /\ tcp'.have = tcp.have + n
      /\ tcp'.acks = tcp.acks /\ tcp'.arrived = tcp.arrived
  BY <1>3 DEF Edit, Edits
<1>5. TcpTypeOK'
  BY <1>1, <1>2, <1>4, Edited
<1>6. AcksAreDue'
  BY <1>4 DEF TcpInv, AcksAreDue, Due
<1>7. PlaceOK'
  <2>1. tcp.stage # "handle"
    BY DEF Recv, Reading
  <2>2. tcp.stage = "payload" => Coming.length \in Nat
    BY NextBoundary DEF TcpInv, PlaceOK
  <2> QED
    BY <1>2, <1>4, <2>1, <2>2, Sizes
       DEF TcpInv, PlaceOK, Handled, Coming, Boundary
<1> QED
  BY <1>6, <1>7, <1>5 DEF TcpInv

\* A connection that ends leaves what was done as it is.
LEMMA EndKeeps ==
  ASSUME TcpInv, RecvRaises \/ SendRaises \/ tcp' = Reject
  PROVE  TcpInv'
<1> USE Parts
<1>1. PICK stage \in {"closed", "broken"} :
        tcp' = Edit(tcp.arrived, tcp.ended, stage, tcp.pos, tcp.start,
                    tcp.want, tcp.have, tcp.acks)
  BY DEF RecvRaises, SendRaises, Reject, Edit
<1>2. /\ Edits /\ tcp'.ended = tcp.ended /\ tcp'.pos = tcp.pos
      /\ tcp'.want = tcp.want /\ tcp'.have = tcp.have
      /\ tcp'.stream = tcp.stream /\ tcp'.start = tcp.start
      /\ tcp'.acks = tcp.acks /\ tcp'.arrived = tcp.arrived
      /\ tcp'.stage \in {"closed", "broken"}
  BY <1>1 DEF Edit, Edits
<1>3. TcpTypeOK'
  BY <1>2, Edited
<1>4. AcksAreDue'
  BY <1>2 DEF TcpInv, AcksAreDue, Due
<1>5. PlaceOK'
  BY <1>2 DEF TcpInv, PlaceOK, Handled, Boundary
<1> QED
  BY <1>3, <1>4, <1>5 DEF TcpInv

\* A header was read: the connection ends, or the payload or nothing of the
\* packet remains to be read.
LEMMA ParseHeaderKeeps ==
  ASSUME TcpInv, ParseHeader
  PROVE  TcpInv'
<1> USE Parts
<1>1. PICK i \in 1..Len(tcp.stream) :
        /\ InHand(tcp.stream[i])
        /\ tcp' = IF ~Valid(tcp.stream[i]) THEN Reject
                  ELSE IF tcp.stream[i].length > HeaderSize
                    THEN ReadNext("payload", tcp.stream[i].length - HeaderSize)
                  ELSE ReadNext("handle", 0)
  BY DEF ParseHeader
<1>2. i = Handled + 1 /\ tcp.stream[i] = Coming /\ Handled < Len(tcp.stream)
  BY <1>1, InHandIsComing DEF Coming
<1>3. CASE ~Valid(Coming)
  <2>1. tcp' = Reject
    BY <1>1, <1>2, <1>3
  <2> QED
    BY <2>1, EndKeeps
<1>4. CASE Valid(Coming)
  <2> DEFINE long == Coming.length > HeaderSize
  <2>1. /\ Boundary(Handled) = Coming.at
        /\ Boundary(Handled + 1) = Coming.at + Coming.length
        /\ Coming.at \in Nat /\ Coming.length \in Nat
        /\ Coming.length >= HeaderSize
    BY <1>2, <1>4, NextBoundary
  <2>2. tcp' = Edit(tcp.arrived, tcp.ended, IF long THEN "payload" ELSE "handle",
                    tcp.pos, tcp.start,
                    IF long THEN Coming.length - HeaderSize ELSE 0, 0, tcp.acks)
    BY <1>1, <1>2, <1>4 DEF ReadNext, Edit
  <2>3. /\ Edits /\ tcp'.ended = tcp.ended
        /\ tcp'.stream = tcp.stream /\ tcp'.arrived = tcp.arrived
        /\ tcp'.pos = tcp.pos /\ tcp'.start = tcp.start
        /\ tcp'.acks = tcp.acks /\ tcp'.have = 0
        /\ tcp'.stage = IF long THEN "payload" ELSE "handle"
        /\ tcp'.want = IF long THEN Coming.length - HeaderSize ELSE 0
    BY <2>2 DEF Edit, Edits
  <2>5. TcpTypeOK'
    <3>1. tcp'.want \in Nat
      BY <2>1, <2>3, Sizes
    <3> QED
      BY <2>3, <3>1, Edited
  <2>4. tcp.pos = tcp.start + HeaderSize
    BY <1>1, Sizes DEF TcpInv, TcpTypeOK, PlaceOK, ParseHeader, InHand
  <2>6. AcksAreDue'
    BY <2>3 DEF TcpInv, AcksAreDue, Due
  <2>7. PlaceOK'
    <3>1. Handled' = Handled /\ Coming' = Coming /\ Valid(Coming)'
      BY <1>4, <2>3 DEF Handled, Coming, Valid
    <3>2. Boundary(Handled)' = Boundary(Handled)
          /\ Boundary(Handled + 1)' = Boundary(Handled + 1)
      BY <2>3, <3>1 DEF Boundary
    <3>3. tcp.start = Coming.at
      BY <2>1 DEF TcpInv, PlaceOK
    <3>4. tcp.arrived <= Total(tcp.stream)
      BY DEF TcpInv, PlaceOK
    <3> QED
      BY <1>2, <2>1, <2>3, <2>4, <3>1, <3>2, <3>3, <3>4, Sizes DEF PlaceOK
  <2> QED
    BY <2>5, <2>6, <2>7 DEF TcpInv
<1> QED
  BY <1>3, <1>4

\* The payload was read.
LEMMA PayloadReadKeeps ==
  ASSUME TcpInv, PayloadRead
  PROVE  TcpInv'
<1> USE Parts
<1>1. /\ Handled < Len(tcp.stream) /\ Valid(Coming)
      /\ tcp.want = Coming.length - HeaderSize
      /\ tcp.pos = tcp.start + HeaderSize + tcp.have
      /\ tcp.start = Boundary(Handled) /\ tcp.arrived <= Total(tcp.stream)
      /\ tcp.have = tcp.want
  BY DEF TcpInv, TcpTypeOK, PlaceOK, PayloadRead
<1>2. /\ Boundary(Handled) = Coming.at
      /\ Boundary(Handled + 1) = Coming.at + Coming.length
      /\ Coming.at \in Nat /\ Coming.length \in Nat
  BY <1>1, NextBoundary
<1>3. tcp' = Edit(tcp.arrived, tcp.ended, "handle", tcp.pos, tcp.start, 0, 0,
                  tcp.acks)
  BY DEF PayloadRead, ReadNext, Edit
<1>4. /\ Edits /\ tcp'.ended = tcp.ended
      /\ tcp'.stream = tcp.stream /\ tcp'.arrived = tcp.arrived
      /\ tcp'.pos = tcp.pos /\ tcp'.start = tcp.start
      /\ tcp'.acks = tcp.acks /\ tcp'.have = 0
      /\ tcp'.stage = "handle" /\ tcp'.want = 0
  BY <1>3 DEF Edit, Edits
<1>5. TcpTypeOK'
  BY <1>4, Edited
<1>6. AcksAreDue'
  BY <1>4 DEF TcpInv, AcksAreDue, Due
<1>7. PlaceOK'
  <2>1. Handled' = Handled /\ Coming' = Coming /\ Valid(Coming)'
    BY <1>1, <1>4 DEF Handled, Coming, Valid
  <2>2. Boundary(Handled)' = Boundary(Handled)
        /\ Boundary(Handled + 1)' = Boundary(Handled + 1)
    BY <1>4, <2>1 DEF Boundary
  <2>3. tcp.pos = Boundary(Handled + 1)
    BY <1>1, <1>2, Sizes
  <2> QED
    BY <1>1, <1>4, <2>1, <2>2, <2>3 DEF PlaceOK
<1> QED
  BY <1>6, <1>7, <1>5 DEF TcpInv

\* The acknowledgement the server decides on is the one that is due.
LEMMA AckIsDue ==
  ASSUME TcpInv, NEW i \in 1..Len(tcp.stream)
  PROVE  /\ Ack(i) \in Acknowledgement
         /\ Ack(i).seq = i /\ Ack(i).ack = Due(tcp.stream[i])
<1> DEFINE p == tcp.stream[i]
<1>1. /\ p.length \in Nat /\ p.control \in BOOLEAN
      /\ p.payload \in {"none", "login", "json", "text"}
      /\ p.payload = "none" <=> p.length = HeaderSize
      /\ i \in Nat
  BY Parts, StreamShape
<1>2. \A k \in {"login", "normal", "keepalive"} :
        HeaderSize + PayloadSize[k] \in Nat
  BY Sizes, AckPayloads
<1> QED
  BY <1>1, <1>2 DEF Ack, Frame, Nothing, Acknowledgement, Due

\* A packet was handled: the next header follows.
LEMMA HandleKeeps ==
  ASSUME TcpInv, Handle
  PROVE  TcpInv'
<1> USE Parts
<1>1. PICK i \in 1..Len(tcp.stream) :
        /\ InHand(tcp.stream[i])
        /\ tcp' = [ReadNext("header", HeaderSize) EXCEPT
                     !.start = tcp.pos, !.acks = Append(@, Ack(i))]
  BY DEF Handle
<1>2. i = Handled + 1 /\ Handled < Len(tcp.stream)
  BY <1>1, InHandIsComing
<1>3. /\ Valid(Coming) /\ tcp.pos = Boundary(Handled + 1)
      /\ tcp.arrived <= Total(tcp.stream)
  BY DEF Handle, TcpInv, PlaceOK
<1>4. /\ Ack(i) \in Acknowledgement
      /\ Ack(i).seq = i /\ Ack(i).ack = Due(tcp.stream[i])
  BY AckIsDue
<1>5. tcp' = Edit(tcp.arrived, tcp.ended, "header", tcp.pos, tcp.pos,
                  HeaderSize, 0, Append(tcp.acks, Ack(i)))
  BY <1>1 DEF ReadNext, Edit
<1>6. /\ Append(tcp.acks, Ack(i)) \in Seq(Acknowledgement)
      /\ Len(Append(tcp.acks, Ack(i))) = Handled + 1
      /\ \A k \in 1..Handled : Append(tcp.acks, Ack(i))[k] = tcp.acks[k]
      /\ Append(tcp.acks, Ack(i))[Handled + 1] = Ack(i)
  BY <1>4, AppendProperties DEF Handled
<1>7. /\ Edits /\ tcp'.ended = tcp.ended
      /\ tcp'.stream = tcp.stream /\ tcp'.arrived = tcp.arrived
      /\ tcp'.pos = tcp.pos /\ tcp'.start = tcp.pos
      /\ tcp'.acks = Append(tcp.acks, Ack(i))
      /\ tcp'.have = 0 /\ tcp'.want = HeaderSize /\ tcp'.stage = "header"
  BY <1>5 DEF Edit, Edits
<1>8. TcpTypeOK'
  BY <1>6, <1>7, Edited, Sizes
<1>9. AcksAreDue'
  <2>1. Len(tcp'.acks) = Handled + 1 /\ Handled + 1 <= Len(tcp'.stream)
    BY <1>2, <1>7, <1>6
  <2> SUFFICES ASSUME NEW k \in 1..(Handled + 1)
               PROVE  /\ tcp'.stream[k].length \in HeaderSize..MaxPacketSize
                      /\ tcp'.acks[k].seq = k
                      /\ tcp'.acks[k].ack = Due(tcp.stream[k])
    BY <1>7, <2>1 DEF AcksAreDue, Due
  <2>2. CASE k \in 1..Handled
    BY <1>7, <1>6, <2>2 DEF TcpInv, AcksAreDue, Handled
  <2>3. CASE k = Handled + 1
    BY <1>2, <1>3, <1>4, <1>7, <1>6, <2>3 DEF Valid, Coming
  <2> QED
    BY <2>2, <2>3
<1>10. PlaceOK'
  <2>1. Handled' = Handled + 1
    BY <1>7, <1>6 DEF Handled
  <2>2. Boundary(Handled)' = Boundary(Handled + 1)
    BY <1>7, <2>1 DEF Boundary
  <2> QED
    BY <1>3, <1>7, <2>1, <2>2, Sizes DEF PlaceOK
<1> QED
  BY <1>8, <1>9, <1>10 DEF TcpInv

\* Every step of a connection.
LEMMA TcpInvNext ==
  ASSUME TcpInv, [TcpNext]_tcp
  PROVE  TcpInv'
<1>1. CASE UNCHANGED tcp
  BY <1>1 DEF TcpInv, TcpTypeOK, AcksAreDue, Due, PlaceOK, Handled, Coming,
              Boundary
<1> QED
  BY <1>1, OutsideKeeps, RecvKeeps, EndKeeps, ParseHeaderKeeps,
     PayloadReadKeeps, HandleKeeps DEF TcpNext, TcpServes, TcpFails

-----------------------------------------------------------------------------
(* The request to the HTTP service.                                         *)

\* What was read has arrived; the body is read after the head; an answer is
\* given when nothing is missing or nothing more can come.
HttpInv ==
  /\ http \in [request : Requests, arrived : Nat, ended : BOOLEAN,
               stage : {"head", "body", "closed", "replied"}, read : Nat,
               reply : {"none", "token", "ok"}]
  /\ http.read <= http.arrived /\ http.arrived <= Size
  /\ http.stage = "replied" => Missing <= 0 \/ http.ended

\* What is known of a request.
LEMMA HttpParts ==
  ASSUME HttpInv
  PROVE  /\ http = [request |-> http.request, arrived |-> http.arrived,
                    ended |-> http.ended, stage |-> http.stage,
                    read |-> http.read, reply |-> http.reply]
         /\ http.request \in Requests /\ http.arrived \in Nat
         /\ http.ended \in BOOLEAN /\ http.read \in Nat
         /\ http.stage \in {"head", "body", "closed", "replied"}
         /\ http.reply \in {"none", "token", "ok"}
         /\ http.request.head \in Nat /\ http.request.body \in Nat
         /\ http.request.length \in Int /\ http.request.token \in BOOLEAN
         /\ Size \in Nat
         /\ http.read <= http.arrived /\ http.arrived <= Size
BY RequestsOK DEF HttpInv, Size

\* A new request.
LEMMA HttpInvInit == http \in HttpStart => HttpInv
<1> SUFFICES ASSUME http \in HttpStart PROVE HttpInv
  OBVIOUS
<1> PICK r \in Requests :
      http = [request |-> r, arrived |-> 0, ended |-> FALSE, stage |-> "head",
              read |-> 0, reply |-> "none"]
  BY DEF HttpStart
<1> QED
  BY RequestsOK DEF HttpInv, Size

\* Every step of a request.
LEMMA HttpInvNext ==
  ASSUME HttpInv,
         HttpArrives \/ HttpServes \/ HttpFails \/ UNCHANGED http
  PROVE  HttpInv'
<1> DEFINE Becomes(arrived, ended, stage, read, reply) ==
             http' = [request |-> http.request, arrived |-> arrived,
                      ended |-> ended, stage |-> stage, read |-> read,
                      reply |-> reply]
<1> USE HttpParts
<1>1. CASE HttpArrives
  <2>1. PICK n \in (http.arrived + 1)..Size :
          Becomes(n, http.ended, http.stage, http.read, http.reply)
    BY <1>1 DEF HttpArrives
  <2>2. http.stage # "replied"
    BY <1>1 DEF HttpArrives, Serving
  <2> QED
    BY <2>1, <2>2 DEF HttpInv, Size
<1>2. CASE ClientCloses
  <2>1. Becomes(http.arrived, TRUE, http.stage, http.read, http.reply)
    BY <1>2 DEF ClientCloses
  <2> QED
    BY <2>1 DEF HttpInv, Size
<1>3. CASE ReadHead
  <2>1. PICK n \in 1..BlockSize :
          /\ http.read + n <= http.arrived
          /\ Becomes(http.arrived, http.ended,
                     IF http.read + n >= http.request.head THEN "body"
                     ELSE http.stage, http.read + n, http.reply)
          /\ http.stage = "head"
    BY <1>3 DEF ReadHead, Receives
  <2> QED
    BY <2>1, BlockOK DEF HttpInv, Size
<1>4. CASE ReadBody
  <2>1. Missing \in Int
    BY DEF Missing
  <2>2. PICK n \in 1..Missing :
          /\ http.read + n <= http.arrived
          /\ Becomes(http.arrived, http.ended, "body", http.read + n, http.reply)
    BY <1>4 DEF ReadBody, Receives
  <2> QED
    BY <2>1, <2>2 DEF HttpInv, Size
<1>5. CASE HeadEnds \/ HttpTimesOut \/ AnswerFails
  <2>1. Becomes(http.arrived, http.ended, "closed", http.read, http.reply)
    BY <1>5 DEF HeadEnds, HttpTimesOut, AnswerFails
  <2> QED
    BY <2>1 DEF HttpInv, Size
<1>6. CASE Answer
  <2>1. /\ Becomes(http.arrived, http.ended, "replied", http.read,
                   IF http.request.token THEN "token" ELSE "ok")
        /\ Missing <= 0 \/ http.ended
    BY <1>6 DEF Answer, AtEnd
  <2> QED
    BY <2>1 DEF HttpInv, Size, Missing
<1>7. CASE UNCHANGED http
  BY <1>7 DEF HttpInv, Size, Missing
<1> QED
  BY <1>1, <1>2, <1>3, <1>4, <1>5, <1>6, <1>7 DEF HttpServes, HttpFails

-----------------------------------------------------------------------------
(* The robot and both services.                                             *)

IInv == TcpInv /\ HttpInv

\* The invariant holds at first.
LEMMA InvInit == Init => IInv
BY TcpInvInit, HttpInvInit DEF Init, IInv

\* Every step preserves it: one of a connection, or the start of new ones.
LEMMA InvNext == IInv /\ [Next]_vars => IInv'
<1> SUFFICES ASSUME IInv, [Next]_vars PROVE IInv'
  OBVIOUS
<1>1. TcpInv /\ HttpInv
  BY DEF IInv
<1>2. (tcp \in TcpStart => TcpInv)' /\ (http \in HttpStart => HttpInv)'
  BY TcpInvInit, HttpInvInit, PTL
<1>3. CASE StartOver
  BY <1>2, <1>3 DEF StartOver, IInv, TcpStart, HttpStart
<1>4. CASE ~StartOver
  <2>1. [TcpNext]_tcp
    BY <1>4 DEF Next, vars, Arrives, Serves, Connect, Silence, Trouble,
                AcceptFails, OnHttp, OnTcp, TcpNext, TcpFails
  <2>2. HttpArrives \/ HttpServes \/ HttpFails \/ UNCHANGED http
    BY <1>4 DEF Next, vars, Arrives, Serves, Connect, Silence, Trouble,
                AcceptFails, OnHttp, OnTcp, HttpFails
  <2> QED
    BY <1>1, <2>1, <2>2, TcpInvNext, HttpInvNext DEF IInv
<1> QED
  BY <1>3, <1>4

\* The invariant: a connection is where the packets it handled end, and a
\* request has read what it needs.
THEOREM Invariant == Spec => []IInv
<1> QED
  BY InvInit, InvNext, PTL DEF Spec

\* The receiver never leaves the boundaries of the packets (InStep).
THEOREM StaysInStep == Spec => []InStep
<1>1. IInv => InStep
  BY DEF IInv, TcpInv, PlaceOK, InStep, Handled
<1> QED
  BY Invariant, <1>1, PTL

\* Each packet gets the acknowledgement that is due (AcksAreDue).
THEOREM Acknowledges == Spec => []AcksAreDue
<1>1. IInv => AcksAreDue
  BY DEF IInv, TcpInv
<1> QED
  BY Invariant, <1>1, PTL

\* No receive holds more than was asked for or has arrived (TcpTypeOK).
THEOREM ReceivesWhatWasAsked == Spec => []TcpTypeOK
<1>1. IInv => TcpTypeOK
  BY DEF IInv, TcpInv
<1> QED
  BY Invariant, <1>1, PTL

\* A request that announces its body truly is read before it is answered
\* (ReadBeforeAnswer).
THEOREM AnswersAfterRequest == Spec => []ReadBeforeAnswer
<1>1. IInv => ReadBeforeAnswer
  BY HttpParts DEF IInv, HttpInv, ReadBeforeAnswer, Missing, Size
<1> QED
  BY Invariant, <1>1, PTL
=============================================================================
