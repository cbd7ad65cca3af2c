----------------------- MODULE RobotConnection_proofs -----------------------
(* Proofs about RobotConnection, for any number of robots and callers.      *)
EXTENDS RobotConnection, Integers, FiniteSetTheorems, TLAPS

USE DEF LearnStep, LoginStep, HandlerStep, Leaving, Sending, Holding,
        CallerStep, Answers, Fields, Teacher, Threads

\* The initial state is well typed.
LEMMA TypeInit == Init => TypeOK
<1> SUFFICES ASSUME Init PROVE TypeOK
  OBVIOUS
<1>1. BlankCtx \in Ctx
  BY DEF BlankCtx, Ctx
<1>2. ctx \in [Callers -> Ctx]
  BY <1>1 DEF Init
<1>3. sent \in Seq(Frame)
  BY DEF Init
<1>4. /\ handler \in [Conns -> HandlerStep]
      /\ login \in [Conns -> SUBSET Fields]
      /\ unfinished \in [Conns -> SUBSET (Threads \union {None})]
  BY DEF Init
<1>5. /\ caller \in [Callers -> CallerStep]
      /\ answer \in [Callers -> Answers]
      /\ session \in [Fields -> Teacher]
  BY DEF Init
<1>6. /\ messages \in 0..MaxMessages
      /\ requests \in 0..MaxRequests
      /\ nextSeq \in 0..(SeqModulus - 1)
      /\ issued \in Nat
  BY SequenceRange, Bounds DEF Init
<1>7. /\ lock \in Threads \union {None}
      /\ socket \in Teacher
      /\ connected \in BOOLEAN
      /\ torn \subseteq Tears
      /\ acked \subseteq Conns
      /\ latest \in Teacher
      /\ overlapped \subseteq Conns
  BY DEF Init
<1> QED
  BY <1>2, <1>3, <1>4, <1>5, <1>6, <1>7 DEF TypeOK

\* Whatever a thread sends, the wire stays well typed.
LEMMA TypeSend ==
  ASSUME TypeOK, NEW w \in Threads, NEW c \in Conns,
         \/ SendWhole(w, c) \/ SendPart(w, c) \/ SendRest(w, c)
         \/ SendBreaks(w, c)
  PROVE  /\ unfinished' \in [Conns -> SUBSET (Threads \union {None})]
         /\ torn' \subseteq Tears
<1>1. \A v : Tear(v, w) \in Tears
  BY DEF Tear, Tears
<1>2. torn' \subseteq Tears
  BY <1>1 DEF TypeOK, SendWhole, SendPart, SendRest, SendBreaks, Tearing
<1>3. unfinished' \in [Conns -> SUBSET (Threads \union {None})]
  BY DEF TypeOK, SendWhole, SendPart, SendRest, SendBreaks
<1> QED
  BY <1>2, <1>3

\* Every step of a handler keeps the types.
LEMMA TypeHandle ==
  ASSUME TypeOK, NEW c \in Conns, Handle(c)
  PROVE  TypeOK'
<1> USE ThreadsDiffer, SequenceRange, Bounds, ShapesAreFields
    DEF TypeOK, Goto, robots, calls, numbers, shared, wire, history
<1>1. CASE Accept(c) BY <1>1 DEF Accept
<1>2. CASE ReceiveLogin(c) BY <1>2 DEF ReceiveLogin, Receive
<1>3. CASE ReceiveOther(c) BY <1>3 DEF ReceiveOther, Receive
<1>4. CASE RecvFails(c) BY <1>4 DEF RecvFails, AfterRecv
<1>5. CASE LearnAuth(c) BY <1>5 DEF LearnAuth, Learn
<1>6. CASE LearnIp(c) BY <1>6 DEF LearnIp, Learn
<1>7. CASE LearnPort(c) BY <1>7 DEF LearnPort, Learn
<1>8. CASE LoginAck(c)
  BY <1>8, TypeSend DEF LoginAck, SendAck
<1>9. CASE OtherAck(c)
  BY <1>9, TypeSend DEF OtherAck, SendAck
<1>10. CASE AttachSocket(c) BY <1>10 DEF AttachSocket, MayAttach
<1>11. CASE AttachConnected(c) BY <1>11 DEF AttachConnected
<1>12. CASE DetachSocket(c) BY <1>12 DEF DetachSocket, Current
<1>13. CASE DetachConnected(c) BY <1>13 DEF DetachConnected
<1>14. CASE DetachStale(c) BY <1>14 DEF DetachStale, ConnectedAfterStale
<1>15. CASE Close(c) BY <1>15 DEF Close
<1> QED
  BY <1>1, <1>2, <1>3, <1>4, <1>5, <1>6, <1>7, <1>8, <1>9, <1>10, <1>11,
     <1>12, <1>13, <1>14, <1>15 DEF Handle

\* Assigning to a caller's local variables keeps their types.
LEMMA CtxEdit ==
  ASSUME NEW r \in Ctx, NEW v \in Teacher
  PROVE  /\ [r EXCEPT !.sock = v] \in Ctx
         /\ [r EXCEPT !.auth = v] \in Ctx
         /\ [r EXCEPT !.ip = v] \in Ctx
         /\ \A m, n \in Nat :
              [r EXCEPT !.port = v, !.seq = m, !.nth = n] \in Ctx
  BY DEF Ctx

\* What such an assignment changes, and what it leaves alone.
LEMMA CtxFields ==
  ASSUME NEW r \in Ctx, NEW v
  PROVE  /\ [r EXCEPT !.sock = v].sock = v
         /\ \A m, n :
              LET q == [r EXCEPT !.port = v, !.seq = m, !.nth = n]
              IN  /\ q.sock = r.sock /\ q.auth = r.auth /\ q.ip = r.ip
                  /\ q.seq = m /\ q.nth = n
  BY DEF Ctx

\* A caller that sends has a complete frame in its local variables.
LEMMA CtxFrame ==
  ASSUME TypeOK, CtxOK, NEW t \in Callers, caller[t] \in Sending
  PROVE  /\ ctx[t].sock \in Conns
         /\ [conn |-> ctx[t].sock, auth |-> ctx[t].auth, ip |-> ctx[t].ip,
             port |-> ctx[t].port, nth |-> ctx[t].nth, seq |-> ctx[t].seq]
              \in Frame
<1>1. ctx[t] \in Ctx
  BY DEF TypeOK
<1> QED
  BY <1>1 DEF CtxOK, Frame, Ctx

\* Appending a frame keeps the others in place.
LEMMA AppendFrame ==
  ASSUME NEW s \in Seq(Frame), NEW f \in Frame
  PROVE  /\ Append(s, f) \in Seq(Frame)
         /\ Len(Append(s, f)) = Len(s) + 1
         /\ Append(s, f)[Len(s) + 1] = f
         /\ \A i \in 1..Len(s) : Append(s, f)[i] = s[i]
  OBVIOUS

\* Every step of a caller keeps the types; CtxOK makes its frames complete.
LEMMA TypeCall ==
  ASSUME TypeOK, CtxOK, NEW t \in Callers, Call(t)
  PROVE  TypeOK'
<1> USE ThreadsDiffer, SequenceRange, Bounds
    DEF TypeOK, Step, Respond, robots, calls, numbers, shared, wire, history
<1>1. CASE Request(t) BY <1>1 DEF Request, BlankCtx, Ctx
<1>2. CASE Acquire(t)
  <2>1. [ctx[t] EXCEPT !.sock = socket] \in Ctx
    BY CtxEdit
  <2>2. ctx' \in [Callers -> Ctx]
    <3>1. \/ ctx' = ctx
          \/ ctx' = [ctx EXCEPT ![t] = [ctx[t] EXCEPT !.sock = socket]]
      BY <1>2 DEF Acquire, NoRobot
    <3>2. ctx \in [Callers -> Ctx]
      OBVIOUS
    <3> HIDE DEF TypeOK
    <3> QED
      BY <2>1, <3>1, <3>2
  <2>3. /\ caller' \in [Callers -> CallerStep]
        /\ answer' \in [Callers -> Answers]
        /\ lock' \in Threads \union {None}
    BY <1>2 DEF Acquire, NoRobot
  <2> QED
    BY <1>2, <2>2, <2>3 DEF Acquire, NoRobot
<1>3. CASE ReadyAuth(t) BY <1>3 DEF ReadyAuth, Ready
<1>4. CASE ReadyIp(t) BY <1>4 DEF ReadyIp, Ready
<1>5. CASE CopyAuth(t)
  <2>1. [ctx[t] EXCEPT !.auth = session["auth"]] \in Ctx
    BY CtxEdit
  <2> QED
    BY <1>5, <2>1 DEF CopyAuth
<1>6. CASE CopyIp(t)
  <2>1. [ctx[t] EXCEPT !.ip = session["ip"]] \in Ctx
    BY CtxEdit
  <2> QED
    BY <1>6, <2>1 DEF CopyIp
<1>7. CASE Build(t)
  <2>1. [ctx[t] EXCEPT !.port = session["port"],
                       !.seq = nextSeq, !.nth = issued] \in Ctx
    <3>1. nextSeq \in Nat /\ issued \in Nat
      OBVIOUS
    <3> QED
      BY <3>1, CtxEdit
  <2>2. ctx' \in [Callers -> Ctx]
    BY <1>7, <2>1 DEF Build, NextNumber, BuildPacket, LockAfterBuild
  <2>3. /\ nextSeq' \in 0..(SeqModulus - 1)
        /\ issued' \in Nat
    BY <1>7 DEF Build, NextNumber, BuildPacket, LockAfterBuild
  <2>4. /\ caller' \in [Callers -> CallerStep]
        /\ answer' \in [Callers -> Answers]
        /\ lock' \in Threads \union {None}
    BY <1>7 DEF Build, NextNumber, BuildPacket, LockAfterBuild
  <2> QED
    BY <1>7, <2>2, <2>3, <2>4 DEF Build, NextNumber, BuildPacket,
                                  LockAfterBuild
<1>8. CASE SendControl(t)
  <2>1. caller[t] \in Sending
    BY <1>8 DEF SendControl
  <2>2. ctx[t].sock \in Conns
    BY <2>1, CtxFrame
  <2>3. sent' \in Seq(Frame)
    <3>1. UNCHANGED sent \/ Sent(t)
      BY <1>8 DEF SendControl
    <3>2. sent \in Seq(Frame)
      OBVIOUS
    <3>3. CASE Sent(t)
      BY <2>1, <3>2, <3>3, CtxFrame, AppendFrame DEF Sent
    <3> QED
      BY <3>1, <3>2, <3>3
  <2>4. /\ unfinished' \in [Conns -> SUBSET (Threads \union {None})]
        /\ torn' \subseteq Tears
    BY <1>8, <2>2, TypeSend DEF SendControl
  <2>5. /\ caller' \in [Callers -> CallerStep]
        /\ answer' \in [Callers -> Answers]
        /\ lock' \in Threads \union {None}
    BY <1>8 DEF SendControl
  <2> QED
    BY <1>8, <2>3, <2>4, <2>5 DEF SendControl
<1>9. CASE SendControlFails(t)
  <2>1. ctx[t].sock \in Conns
    BY <1>9, CtxFrame DEF SendControlFails, FailureAnswer
  <2>2. /\ unfinished' \in [Conns -> SUBSET (Threads \union {None})]
        /\ torn' \subseteq Tears
    BY <1>9, <2>1, TypeSend DEF SendControlFails, FailureAnswer
  <2> QED
    BY <1>9, <2>2 DEF SendControlFails, FailureAnswer
<1> QED
  BY <1>1, <1>2, <1>3, <1>4, <1>5, <1>6, <1>7, <1>8, <1>9 DEF Call

-----------------------------------------------------------------------------
(* Mutual exclusion, and what a caller knows while it holds the lock.       *)

\* A handler holds the lock only inside attach and detach.
LEMMA LockHandle ==
  ASSUME TypeOK, LockHeld, NEW c \in Conns, Handle(c)
  PROVE  LockHeld'
<1> USE ThreadsDiffer
    DEF TypeOK, LockHeld, Goto,
        robots, calls, numbers, shared, wire, history
<1>1. CASE Accept(c) BY <1>1 DEF Accept
<1>2. CASE ReceiveLogin(c) BY <1>2 DEF ReceiveLogin, Receive
<1>3. CASE ReceiveOther(c) BY <1>3 DEF ReceiveOther, Receive
<1>4. CASE RecvFails(c) BY <1>4 DEF RecvFails, AfterRecv
<1>5. CASE LearnAuth(c) BY <1>5 DEF LearnAuth, Learn
<1>6. CASE LearnIp(c) BY <1>6 DEF LearnIp, Learn
<1>7. CASE LearnPort(c) BY <1>7 DEF LearnPort, Learn
<1>8. CASE LoginAck(c) BY <1>8 DEF LoginAck, SendAck
<1>9. CASE OtherAck(c) BY <1>9 DEF OtherAck, SendAck
<1>10. CASE AttachSocket(c) BY <1>10 DEF AttachSocket, MayAttach
<1>11. CASE AttachConnected(c) BY <1>11 DEF AttachConnected
<1>12. CASE DetachSocket(c) BY <1>12 DEF DetachSocket, Current
<1>13. CASE DetachConnected(c) BY <1>13 DEF DetachConnected
<1>14. CASE DetachStale(c) BY <1>14 DEF DetachStale, ConnectedAfterStale
<1>15. CASE Close(c) BY <1>15 DEF Close
<1> QED
  BY <1>1, <1>2, <1>3, <1>4, <1>5, <1>6, <1>7, <1>8, <1>9, <1>10, <1>11,
     <1>12, <1>13, <1>14, <1>15 DEF Handle

\* A caller holds the lock from its acquisition to its answer.
LEMMA LockCall ==
  ASSUME TypeOK, LockHeld, NEW t \in Callers, Call(t)
  PROVE  LockHeld'
<1> USE ThreadsDiffer
    DEF TypeOK, LockHeld, Step, Respond,
        robots, calls, numbers, shared, wire, history
<1>1. CASE Request(t) BY <1>1 DEF Request
<1>2. CASE Acquire(t) BY <1>2 DEF Acquire, NoRobot
<1>3. CASE ReadyAuth(t) BY <1>3 DEF ReadyAuth, Ready
<1>4. CASE ReadyIp(t) BY <1>4 DEF ReadyIp, Ready
<1>5. CASE CopyAuth(t) BY <1>5 DEF CopyAuth
<1>6. CASE CopyIp(t) BY <1>6 DEF CopyIp
<1>7. CASE Build(t) BY <1>7 DEF Build, NextNumber, BuildPacket, LockAfterBuild
<1>8. CASE SendControl(t) BY <1>8 DEF SendControl
<1>9. CASE SendControlFails(t) BY <1>9 DEF SendControlFails, FailureAnswer
<1> QED
  BY <1>1, <1>2, <1>3, <1>4, <1>5, <1>6, <1>7, <1>8, <1>9 DEF Call

\* A handler does not move the socket under a caller that holds the lock.
LEMMA CtxHandle ==
  ASSUME TypeOK, LockHeld, CtxOK, NEW c \in Conns, Handle(c)
  PROVE  CtxOK'
<1> USE ThreadsDiffer
    DEF TypeOK, LockHeld, CtxOK, Goto,
        robots, calls, numbers, shared, wire, history
<1>1. CASE Accept(c) BY <1>1 DEF Accept
<1>2. CASE ReceiveLogin(c) BY <1>2 DEF ReceiveLogin, Receive
<1>3. CASE ReceiveOther(c) BY <1>3 DEF ReceiveOther, Receive
<1>4. CASE RecvFails(c) BY <1>4 DEF RecvFails, AfterRecv
<1>5. CASE LearnAuth(c) BY <1>5 DEF LearnAuth, Learn
<1>6. CASE LearnIp(c) BY <1>6 DEF LearnIp, Learn
<1>7. CASE LearnPort(c) BY <1>7 DEF LearnPort, Learn
<1>8. CASE LoginAck(c) BY <1>8 DEF LoginAck, SendAck
<1>9. CASE OtherAck(c) BY <1>9 DEF OtherAck, SendAck
<1>10. CASE AttachSocket(c) BY <1>10 DEF AttachSocket, MayAttach
<1>11. CASE AttachConnected(c) BY <1>11 DEF AttachConnected
<1>12. CASE DetachSocket(c) BY <1>12 DEF DetachSocket, Current
<1>13. CASE DetachConnected(c) BY <1>13 DEF DetachConnected
<1>14. CASE DetachStale(c) BY <1>14 DEF DetachStale, ConnectedAfterStale
<1>15. CASE Close(c) BY <1>15 DEF Close
<1> QED
  BY <1>1, <1>2, <1>3, <1>4, <1>5, <1>6, <1>7, <1>8, <1>9, <1>10, <1>11,
     <1>12, <1>13, <1>14, <1>15 DEF Handle

\* A caller keeps its copies; Build lets no incomplete context pass.
LEMMA CtxCall ==
  ASSUME TypeOK, LockHeld, CtxOK, NEW t \in Callers, Call(t)
  PROVE  CtxOK'
<1> USE ThreadsDiffer
    DEF TypeOK, LockHeld, CtxOK, Step, Respond,
        robots, calls, numbers, shared, wire, history
<1>1. CASE Request(t) BY <1>1 DEF Request
<1>2. CASE Acquire(t)
  <2>1. CASE socket = None BY <1>2, <2>1 DEF Acquire, NoRobot
  <2>2. CASE socket # None
    <3>1. /\ caller' = [caller EXCEPT ![t] = "ready_auth"]
          /\ ctx' = [ctx EXCEPT ![t] = [@ EXCEPT !.sock = socket]]
          /\ UNCHANGED socket
      BY <1>2, <2>2 DEF Acquire, NoRobot
    <3>2. ctx'[t].sock = socket /\ socket \in Conns
      BY <2>2, <3>1, CtxFields
    <3> QED
      BY <3>1, <3>2
  <2> QED
    BY <2>1, <2>2
<1>3. CASE ReadyAuth(t) BY <1>3 DEF ReadyAuth, Ready
<1>4. CASE ReadyIp(t) BY <1>4 DEF ReadyIp, Ready
<1>5. CASE CopyAuth(t) BY <1>5 DEF CopyAuth
<1>6. CASE CopyIp(t) BY <1>6 DEF CopyIp
<1>7. CASE Build(t)
  <2>1. /\ ctx'[t].sock = ctx[t].sock
        /\ ctx'[t].auth = ctx[t].auth
        /\ ctx'[t].ip = ctx[t].ip
        /\ \A u \in Callers \ {t} : ctx'[u] = ctx[u]
    BY <1>7, CtxFields DEF Build, NextNumber, BuildPacket, LockAfterBuild
  <2>2. ctx[t].auth \in Teacher /\ ctx[t].ip \in Teacher
    BY DEF Ctx
  <2> QED
    BY <1>7, <2>1, <2>2 DEF Build, NextNumber, BuildPacket, LockAfterBuild
<1>8. CASE SendControl(t) BY <1>8 DEF SendControl
<1>9. CASE SendControlFails(t) BY <1>9 DEF SendControlFails, FailureAnswer
<1> QED
  BY <1>1, <1>2, <1>3, <1>4, <1>5, <1>6, <1>7, <1>8, <1>9 DEF Call

-----------------------------------------------------------------------------
(* Which connection is current.                                             *)

\* attach and detach move the socket; nobody else does.
LEMMA HandlerHandle ==
  ASSUME TypeOK, LockHeld, HandlerOK, NEW c \in Conns, Handle(c)
  PROVE  HandlerOK'
<1> USE ThreadsDiffer
    DEF TypeOK, LockHeld, HandlerOK, ConnectedMatchesSocket, LastLoginWins,
        Goto, robots, calls, numbers, shared, wire, history
<1>1. CASE Accept(c) BY <1>1 DEF Accept
<1>2. CASE ReceiveLogin(c) BY <1>2 DEF ReceiveLogin, Receive
<1>3. CASE ReceiveOther(c) BY <1>3 DEF ReceiveOther, Receive
<1>4. CASE RecvFails(c) BY <1>4 DEF RecvFails, AfterRecv
<1>5. CASE LearnAuth(c) BY <1>5 DEF LearnAuth, Learn
<1>6. CASE LearnIp(c) BY <1>6 DEF LearnIp, Learn
<1>7. CASE LearnPort(c) BY <1>7 DEF LearnPort, Learn
<1>8. CASE LoginAck(c) BY <1>8 DEF LoginAck, SendAck
<1>9. CASE OtherAck(c) BY <1>9 DEF OtherAck, SendAck
<1>10. CASE AttachSocket(c) BY <1>10 DEF AttachSocket, MayAttach
<1>11. CASE AttachConnected(c) BY <1>11 DEF AttachConnected
<1>12. CASE DetachSocket(c) BY <1>12 DEF DetachSocket, Current
<1>13. CASE DetachConnected(c) BY <1>13 DEF DetachConnected
<1>14. CASE DetachStale(c) BY <1>14 DEF DetachStale, ConnectedAfterStale
<1>15. CASE Close(c) BY <1>15 DEF Close
<1> QED
  BY <1>1, <1>2, <1>3, <1>4, <1>5, <1>6, <1>7, <1>8, <1>9, <1>10, <1>11,
     <1>12, <1>13, <1>14, <1>15 DEF Handle

\* A caller moves neither the socket nor the connected flag.
LEMMA HandlerCall ==
  ASSUME TypeOK, LockHeld, HandlerOK, NEW t \in Callers, Call(t)
  PROVE  HandlerOK'
<1> USE ThreadsDiffer
    DEF TypeOK, LockHeld, HandlerOK, ConnectedMatchesSocket, LastLoginWins,
        Step, Respond, robots, calls, numbers, shared, wire, history
<1>1. CASE Request(t) BY <1>1 DEF Request
<1>2. CASE Acquire(t) BY <1>2 DEF Acquire, NoRobot
<1>3. CASE ReadyAuth(t) BY <1>3 DEF ReadyAuth, Ready
<1>4. CASE ReadyIp(t) BY <1>4 DEF ReadyIp, Ready
<1>5. CASE CopyAuth(t) BY <1>5 DEF CopyAuth
<1>6. CASE CopyIp(t) BY <1>6 DEF CopyIp
<1>7. CASE Build(t) BY <1>7 DEF Build, NextNumber, BuildPacket, LockAfterBuild
<1>8. CASE SendControl(t) BY <1>8 DEF SendControl
<1>9. CASE SendControlFails(t) BY <1>9 DEF SendControlFails, FailureAnswer
<1> QED
  BY <1>1, <1>2, <1>3, <1>4, <1>5, <1>6, <1>7, <1>8, <1>9 DEF Call

\* A handler attaches after its acknowledgement.
LEMMA AckedHandle ==
  ASSUME TypeOK, CtxOK, AckedOK, NEW c \in Conns, Handle(c)
  PROVE  AckedOK'
<1> USE ThreadsDiffer
    DEF TypeOK, CtxOK, AckedOK, LoginAckBeforeCommands, Goto,
        robots, calls, numbers, shared, wire, history
<1>1. CASE Accept(c) BY <1>1 DEF Accept
<1>2. CASE ReceiveLogin(c) BY <1>2 DEF ReceiveLogin, Receive
<1>3. CASE ReceiveOther(c) BY <1>3 DEF ReceiveOther, Receive
<1>4. CASE RecvFails(c) BY <1>4 DEF RecvFails, AfterRecv
<1>5. CASE LearnAuth(c) BY <1>5 DEF LearnAuth, Learn
<1>6. CASE LearnIp(c) BY <1>6 DEF LearnIp, Learn
<1>7. CASE LearnPort(c) BY <1>7 DEF LearnPort, Learn
<1>8. CASE LoginAck(c) BY <1>8 DEF LoginAck, SendAck
<1>9. CASE OtherAck(c) BY <1>9 DEF OtherAck, SendAck
<1>10. CASE AttachSocket(c) BY <1>10 DEF AttachSocket, MayAttach
<1>11. CASE AttachConnected(c) BY <1>11 DEF AttachConnected
<1>12. CASE DetachSocket(c) BY <1>12 DEF DetachSocket, Current
<1>13. CASE DetachConnected(c) BY <1>13 DEF DetachConnected
<1>14. CASE DetachStale(c) BY <1>14 DEF DetachStale, ConnectedAfterStale
<1>15. CASE Close(c) BY <1>15 DEF Close
<1> QED
  BY <1>1, <1>2, <1>3, <1>4, <1>5, <1>6, <1>7, <1>8, <1>9, <1>10, <1>11,
     <1>12, <1>13, <1>14, <1>15 DEF Handle

\* A caller sends to the current socket.
LEMMA AckedCall ==
  ASSUME TypeOK, CtxOK, AckedOK, NEW t \in Callers, Call(t)
  PROVE  AckedOK'
<1> USE ThreadsDiffer
    DEF TypeOK, CtxOK, AckedOK, LoginAckBeforeCommands, Step, Respond,
        robots, calls, numbers, shared, wire, history
<1>1. CASE Request(t) BY <1>1 DEF Request
<1>2. CASE Acquire(t) BY <1>2 DEF Acquire, NoRobot
<1>3. CASE ReadyAuth(t) BY <1>3 DEF ReadyAuth, Ready
<1>4. CASE ReadyIp(t) BY <1>4 DEF ReadyIp, Ready
<1>5. CASE CopyAuth(t) BY <1>5 DEF CopyAuth
<1>6. CASE CopyIp(t) BY <1>6 DEF CopyIp
<1>7. CASE Build(t) BY <1>7 DEF Build, NextNumber, BuildPacket, LockAfterBuild
<1>8. CASE SendControl(t)
  <2>1. CASE UNCHANGED sent
    BY <1>8, <2>1 DEF SendControl
  <2>2. CASE Sent(t)
    <3>1. ctx[t].sock \in acked /\ UNCHANGED <<handler, socket, acked>>
      BY <1>8 DEF SendControl
    <3>2. \A i \in 1..Len(sent') :
            sent'[i].conn \in {ctx[t].sock} \union
                              {sent[j].conn : j \in 1..Len(sent)}
      BY <2>2 DEF Sent
    <3> QED
      BY <3>1, <3>2
  <2> QED
    BY <1>8, <2>1, <2>2 DEF SendControl
<1>9. CASE SendControlFails(t) BY <1>9 DEF SendControlFails, FailureAnswer
<1> QED
  BY <1>1, <1>2, <1>3, <1>4, <1>5, <1>6, <1>7, <1>8, <1>9 DEF Call

-----------------------------------------------------------------------------
(* Numbers and frames.                                                      *)

\* What callers own, handlers leave alone.
LEMMA HandleLeaves ==
  ASSUME NEW c \in Conns, Handle(c)
  PROVE  UNCHANGED <<calls, numbers, sent>>
  BY DEF Handle, Accept, ReceiveLogin, ReceiveOther, Receive, RecvFails,
         AfterRecv, LearnAuth, LearnIp, LearnPort, Learn, LoginAck, OtherAck,
         SendAck, AttachSocket, MayAttach, AttachConnected, DetachSocket,
         Current, DetachConnected, DetachStale, ConnectedAfterStale, Close,
         calls, numbers, shared, wire

\* A handler touches neither the numbers nor the frames on the wire.
LEMMA OrderHandle ==
  ASSUME OrderOK, NEW c \in Conns, Handle(c)
  PROVE  OrderOK'
  BY HandleLeaves DEF OrderOK, calls, numbers

\* A handler touches neither the requests nor the callers that wait for a
\* number.
LEMMA CountHandle ==
  ASSUME CountOK, NEW c \in Conns, Handle(c)
  PROVE  CountOK'
  BY HandleLeaves DEF CountOK, Unnumbered, calls, numbers

\* Quotient and remainder, for a variable divisor.
LEMMA DivMod ==
  ASSUME NEW m \in Nat \ {0}, NEW x \in Nat
  PROVE  /\ x = m * (x \div m) + (x % m)
         /\ x % m \in 0..(m - 1)
         /\ x \div m \in Nat
  BY Z3

\* There is one quotient and one remainder: a number written as q*m + r with
\* r below m has remainder r.
LEMMA ModUnique ==
  ASSUME NEW m \in Nat \ {0}, NEW q \in Int, NEW r \in 0..(m - 1)
  PROVE  (m * q + r) % m = r
  BY Z3

\* Adding one commutes with taking the remainder.
LEMMA ModNext ==
  ASSUME NEW m \in Nat \ {0}, NEW x \in Nat
  PROVE  ((x % m) + 1) % m = (x + 1) % m
<1> DEFINE q == x \div m
           r == x % m
<1>1. x = m * q + r /\ r \in 0..(m - 1) /\ q \in Nat
  BY DivMod
<1> HIDE DEF q
<1>2. CASE r + 1 < m
  <2>1. (m * q + (r + 1)) % m = r + 1
    BY <1>1, <1>2, ModUnique
  <2>2. (m * 0 + (r + 1)) % m = r + 1
    BY <1>1, <1>2, ModUnique
  <2>3. x + 1 = m * q + (r + 1)
    BY <1>1
  <2>4. r + 1 = m * 0 + (r + 1)
    BY <1>1
  <2> QED
    BY <2>1, <2>2, <2>3, <2>4
<1>3. CASE r + 1 = m
  <2>1. (m * (q + 1) + 0) % m = 0
    BY <1>1, ModUnique
  <2>2. (m * 1 + 0) % m = 0
    BY ModUnique
  <2>3. x + 1 = m * (q + 1) + 0
    BY <1>1, <1>3
  <2> QED
    BY <1>3, <2>1, <2>2, <2>3
<1> QED
  BY <1>1, <1>2, <1>3

\* No multiple of m lies strictly between 0 and m.
LEMMA NoMultiple ==
  ASSUME NEW m \in Nat \ {0}, NEW k \in Int, 0 < m * k, m * k < m
  PROVE  FALSE
  BY Z3

\* Numbers less than m apart have different remainders.
LEMMA ModDiffer ==
  ASSUME NEW m \in Nat \ {0}, NEW x \in Nat, NEW y \in Nat,
         x < y, y - x < m
  PROVE  x % m # y % m
<1> SUFFICES ASSUME x % m = y % m PROVE FALSE
  OBVIOUS
<1> DEFINE p == x \div m
           q == y \div m
<1>1. /\ x = m * p + (x % m)
      /\ y = m * q + (x % m)
      /\ x % m \in Int /\ p \in Int /\ q \in Int
  BY DivMod
<1> HIDE DEF p, q
<1>2. y - x = m * (q - p)
  BY <1>1
<1> QED
  BY <1>1, <1>2, NoMultiple

\* A frame on the wire is a frame, numbered by a natural number.
LEMMA SentType ==
  ASSUME TypeOK, NEW i \in 1..Len(sent)
  PROVE  sent[i] \in Frame /\ sent[i].nth \in Nat
<1>1. sent \in Seq(Frame)
  BY DEF TypeOK
<1>2. sent[i] \in Frame
  BY <1>1
<1> QED
  BY <1>2 DEF Frame

\* Numbers are taken, and frames appended, by the holder of the lock only.
LEMMA OrderCall ==
  ASSUME TypeOK, LockHeld, CtxOK, OrderOK, NEW t \in Callers, Call(t)
  PROVE  OrderOK'
<1> USE SequenceRange
    DEF TypeOK, OrderOK, Step, Respond, robots, calls, numbers, shared, wire,
        history
<1>1. CASE Request(t) BY <1>1 DEF Request
<1>2. CASE Acquire(t) BY <1>2 DEF Acquire, NoRobot
<1>3. CASE ReadyAuth(t) BY <1>3 DEF ReadyAuth, Ready
<1>4. CASE ReadyIp(t) BY <1>4 DEF ReadyIp, Ready
<1>5. CASE CopyAuth(t) BY <1>5 DEF CopyAuth
<1>6. CASE CopyIp(t) BY <1>6 DEF CopyIp
<1>7. CASE Build(t)
  <2>1. nextSeq' = (FirstSeq + issued') % SeqModulus
    <3>1. FirstSeq + issued \in Nat
      OBVIOUS
    <3>2. (((FirstSeq + issued) % SeqModulus) + 1) % SeqModulus
            = (FirstSeq + issued + 1) % SeqModulus
      BY <3>1, ModNext
    <3>3. nextSeq' = (((FirstSeq + issued) % SeqModulus) + 1) % SeqModulus
      BY <1>7 DEF Build, NextNumber, BuildPacket, LockAfterBuild
    <3>4. issued' = issued + 1
      BY <1>7 DEF Build, NextNumber, BuildPacket, LockAfterBuild
    <3> QED
      BY <3>2, <3>3, <3>4, SequenceRange
  <2>2. /\ ctx'[t].nth = issued /\ ctx'[t].seq = nextSeq
        /\ UNCHANGED sent /\ issued' = issued + 1
    BY <1>7, CtxFields DEF Build, NextNumber, BuildPacket, LockAfterBuild
  <2>3. \A u \in Callers \ {t} : caller'[u] # "send"
    BY <1>7 DEF Build, NextNumber, BuildPacket, LockAfterBuild, LockHeld
  <2>4. \A i \in 1..Len(sent) : sent[i].nth \in Nat
    BY SentType
  <2>5. issued \in Nat
    OBVIOUS
  <2> HIDE DEF TypeOK
  <2>6. \A i \in 1..Len(sent') :
          /\ sent'[i].nth < issued'
          /\ sent'[i].seq = (FirstSeq + sent'[i].nth) % SeqModulus
    BY <2>2, <2>4, <2>5
  <2>7. \A u \in Callers : caller'[u] = "send" =>
          /\ ctx'[u].nth < issued'
          /\ ctx'[u].seq = (FirstSeq + ctx'[u].nth) % SeqModulus
          /\ \A i \in 1..Len(sent') : sent'[i].nth < ctx'[u].nth
    BY <2>2, <2>3, <2>5
  <2> QED
    BY <2>1, <2>2, <2>6, <2>7
<1>8. CASE SendControl(t)
  <2>1. CASE UNCHANGED sent
    BY <1>8, <2>1 DEF SendControl
  <2>2. CASE Sent(t)
    <3>1. caller[t] \in Sending
      BY <1>8 DEF SendControl
    <3>2. sent' # sent
      BY <2>2, <3>1, CtxFrame, AppendFrame DEF Sent
    <3>3. caller[t] = "send" /\ UNCHANGED <<ctx, nextSeq, issued>>
      BY <1>8, <3>2 DEF SendControl
    <3>4. \A u \in Callers : caller'[u] # "send"
      BY <1>8, <3>2 DEF SendControl, LockHeld
    <3>5. /\ Len(sent') = Len(sent) + 1
          /\ \A i \in 1..Len(sent) : sent'[i] = sent[i]
          /\ sent'[Len(sent) + 1].nth = ctx[t].nth
          /\ sent'[Len(sent) + 1].seq = ctx[t].seq
      BY <2>2, <3>1, CtxFrame, AppendFrame DEF Sent
    <3>6. Len(sent) \in Nat
      OBVIOUS
    <3> HIDE DEF TypeOK
    <3>7. \A i \in 1..Len(sent') : i \in 1..Len(sent) \/ i = Len(sent) + 1
      BY <3>5, <3>6
    <3>8. \A i \in 1..Len(sent') :
            /\ sent'[i].nth < issued
            /\ sent'[i].seq = (FirstSeq + sent'[i].nth) % SeqModulus
      BY <3>3, <3>5, <3>7
    <3>9. \A i, j \in 1..Len(sent') : i < j =>
            i \in 1..Len(sent) /\ sent'[i].nth < sent'[j].nth
      BY <3>3, <3>5, <3>6, <3>7
    <3> QED
      BY <3>3, <3>4, <3>8, <3>9
  <2> QED
    BY <1>8, <2>1, <2>2 DEF SendControl
<1>9. CASE SendControlFails(t) BY <1>9 DEF SendControlFails, FailureAnswer
<1> QED
  BY <1>1, <1>2, <1>3, <1>4, <1>5, <1>6, <1>7, <1>8, <1>9 DEF Call

\* Build turns a request that waits for a number into a number.
LEMMA CountCall ==
  ASSUME TypeOK, CountOK, NEW t \in Callers, Call(t)
  PROVE  CountOK'
<1>1. IsFiniteSet(Unnumbered) /\ Cardinality(Unnumbered) \in Nat
  BY FiniteCallers, FS_Subset, FS_CardinalityType DEF Unnumbered
<1>2. issued \in Nat /\ requests \in Nat
  BY DEF TypeOK
<1>3. CASE Request(t)
  <2>1. t \notin Unnumbered /\ Unnumbered' = Unnumbered \union {t}
    BY <1>3 DEF Request, Step, Unnumbered, TypeOK
  <2>2. Cardinality(Unnumbered') = Cardinality(Unnumbered) + 1
    BY <1>1, <2>1, FS_AddElement
  <2>3. requests' = requests + 1 /\ issued' = issued
    BY <1>3 DEF Request, shared, numbers
  <2> QED
    BY <1>1, <1>2, <2>2, <2>3 DEF CountOK
<1>4. CASE Build(t)
  <2>1. t \in Unnumbered /\ Unnumbered' = Unnumbered \ {t}
    BY <1>4 DEF Build, NextNumber, BuildPacket, LockAfterBuild, Step,
                Respond, Unnumbered, TypeOK
  <2>2. Cardinality(Unnumbered') = Cardinality(Unnumbered) - 1
    BY <1>1, <2>1, FS_RemoveElement
  <2>3. requests' = requests /\ issued' = issued + 1
    BY <1>4 DEF Build, NextNumber, BuildPacket, LockAfterBuild
  <2> QED
    BY <1>1, <1>2, <2>2, <2>3 DEF CountOK
<1>5. CASE ~Request(t) /\ ~Build(t)
  <2>1. Unnumbered' \subseteq Unnumbered /\ UNCHANGED <<issued, requests>>
    BY <1>5 DEF Call, Acquire, NoRobot, ReadyAuth, ReadyIp, Ready, CopyAuth,
                CopyIp, SendControl, SendControlFails, FailureAnswer, Step,
                Respond, Unnumbered, TypeOK, shared, numbers
  <2>2. Cardinality(Unnumbered') <= Cardinality(Unnumbered)
    BY <1>1, <2>1, FS_Subset
  <2>3. Cardinality(Unnumbered') \in Nat
    BY <1>1, <2>1, FS_Subset, FS_CardinalityType
  <2> QED
    BY <1>1, <1>2, <2>1, <2>2, <2>3 DEF CountOK
<1> QED
  BY <1>3, <1>4, <1>5

\* A handler never writes a command.
LEMMA UnfinishedHandle ==
  ASSUME TypeOK, UnfinishedOK, NEW c \in Conns, Handle(c)
  PROVE  UnfinishedOK'
<1>1. caller' = caller /\ ctx' = ctx
  BY HandleLeaves DEF calls
<1>2. \A d \in Conns :
        Callers \intersect unfinished'[d] \subseteq unfinished[d]
  BY ThreadsDiffer
  DEF TypeOK, Handle, Accept, ReceiveLogin, ReceiveOther, Receive, RecvFails,
      AfterRecv, LearnAuth, LearnIp, LearnPort, Learn, LoginAck, OtherAck,
      SendAck, SendWhole, SendPart, SendRest, SendBreaks, AttachSocket,
      MayAttach, AttachConnected, DetachSocket, Current, DetachConnected,
      DetachStale, ConnectedAfterStale, Close, wire
<1>3. "command in command" \notin torn'
  <2>1. \A v : Tear(v, c) # "command in command"
    BY ThreadsDiffer DEF Tear
  <2>2. "command in command" \notin {Tear(v, c) : v \in unfinished[c] \ {c}}
    BY <2>1, Zenon
  <2>3. \/ torn' = torn
        \/ torn' = torn \union {Tear(v, c) : v \in unfinished[c] \ {c}}
    BY DEF Handle, Accept, ReceiveLogin, ReceiveOther, Receive, RecvFails,
           AfterRecv, LearnAuth, LearnIp, LearnPort, Learn, LoginAck,
           OtherAck, SendAck, SendWhole, SendPart, SendRest, SendBreaks,
           Tearing, AttachSocket, MayAttach, AttachConnected, DetachSocket,
           Current, DetachConnected, DetachStale, ConnectedAfterStale, Close,
           wire
  <2> QED
    BY <2>2, <2>3 DEF UnfinishedOK, CommandsDoNotInterleave
<1> QED
  BY <1>1, <1>2, <1>3 DEF UnfinishedOK, CommandsDoNotInterleave

\* Only the holder of the lock can have an unfinished command.
LEMMA UnfinishedCall ==
  ASSUME TypeOK, LockHeld, CtxOK, UnfinishedOK, NEW t \in Callers, Call(t)
  PROVE  UnfinishedOK'
<1>1. CASE SendControl(t) \/ SendControlFails(t)
  <2>1. ctx[t].sock \in Conns
    BY <1>1, CtxFrame DEF SendControl, SendControlFails, FailureAnswer
  <2>2. \A u \in Callers \ {t} : caller[u] # "send_rest"
    BY <1>1 DEF SendControl, SendControlFails, FailureAnswer, LockHeld
  <2>3. \A d \in Conns : Callers \intersect unfinished[d] \subseteq {t}
    BY <2>2 DEF UnfinishedOK
  <2>4. \A v \in unfinished[ctx[t].sock] \ {t} :
          Tear(v, t) # "command in command"
    BY <2>1, <2>3, ThreadsDiffer DEF Tear
  <2>5. "command in command" \notin torn'
    <3>1. \/ torn' = torn
          \/ torn' = torn \union
                       {Tear(v, t) : v \in unfinished[ctx[t].sock] \ {t}}
      BY <1>1 DEF SendControl, SendControlFails, FailureAnswer, SendWhole,
                  SendPart, SendRest, SendBreaks, Tearing
    <3>2. "command in command" \notin
            {Tear(v, t) : v \in unfinished[ctx[t].sock] \ {t}}
      BY <2>4, Zenon
    <3> QED
      BY <3>1, <3>2 DEF UnfinishedOK, CommandsDoNotInterleave
  <2>6. \A d \in Conns :
          /\ Callers \intersect unfinished'[d] \subseteq {t}
          /\ t \in unfinished'[d] =>
               caller'[t] = "send_rest" /\ ctx[t].sock = d
    <3> HIDE DEF Threads
    <3>1. /\ unfinished \in [Conns -> SUBSET (Threads \union {None})]
          /\ caller \in [Callers -> CallerStep]
          /\ None \notin Callers
      BY ThreadsDiffer DEF TypeOK
    <3>2. \A d \in Conns : t \in unfinished[d] =>
            caller[t] = "send_rest" /\ ctx[t].sock = d
      BY DEF UnfinishedOK
    <3>3. CASE caller[t] = "send"
      BY <1>1, <2>1, <2>3, <3>1, <3>2, <3>3
      DEF SendControl, SendControlFails, FailureAnswer, SendWhole, SendPart,
          SendBreaks, Step
    <3>4. CASE caller[t] = "send_rest"
      BY <1>1, <2>1, <2>3, <3>1, <3>2, <3>4
      DEF SendControl, SendControlFails, FailureAnswer, SendRest, SendBreaks
    <3> QED
      BY <1>1, <3>3, <3>4 DEF SendControl, SendControlFails, FailureAnswer
  <2>7. ctx' = ctx
    BY <1>1 DEF SendControl, SendControlFails, FailureAnswer
  <2> QED
    BY <2>5, <2>6, <2>7 DEF UnfinishedOK, CommandsDoNotInterleave
<1>2. CASE ~SendControl(t) /\ ~SendControlFails(t)
  <2>1. UNCHANGED wire /\ caller[t] # "send_rest"
    BY <1>2 DEF Call, Request, Acquire, NoRobot, ReadyAuth, ReadyIp, Ready,
                CopyAuth, CopyIp, Build, NextNumber, BuildPacket,
                LockAfterBuild
  <2>2. \A u \in Callers \ {t} :
          caller'[u] = caller[u] /\ ctx'[u] = ctx[u]
    BY <1>2 DEF Call, Request, Acquire, NoRobot, ReadyAuth, ReadyIp, Ready,
                CopyAuth, CopyIp, Build, NextNumber, BuildPacket,
                LockAfterBuild, Step, Respond, TypeOK
  <2> QED
    BY <2>1, <2>2 DEF UnfinishedOK, CommandsDoNotInterleave, wire
<1> QED
  BY <1>1, <1>2

-----------------------------------------------------------------------------
(* The theorems.                                                            *)

\* The invariant holds initially.
LEMMA InvInit == Init => IInv
<1> SUFFICES ASSUME Init PROVE IInv
  OBVIOUS
<1>1. TypeOK
  BY TypeInit
<1>2. LockHeld /\ CtxOK /\ HandlerOK /\ AckedOK /\ UnfinishedOK
  BY ThreadsDiffer
  DEF Init, LockHeld, CtxOK, HandlerOK, ConnectedMatchesSocket, LastLoginWins,
      AckedOK, LoginAckBeforeCommands, UnfinishedOK, CommandsDoNotInterleave
<1>3. OrderOK
  <2>1. FirstSeq % SeqModulus = FirstSeq
    BY SequenceRange
  <2> QED
    BY <2>1, SequenceRange DEF Init, OrderOK
<1>4. CountOK
  <2>1. Unnumbered = {}
    BY DEF Init, Unnumbered
  <2> QED
    BY <2>1, FS_EmptySet DEF Init, CountOK
<1> QED
  BY <1>1, <1>2, <1>3, <1>4 DEF IInv

\* Every step keeps it.
LEMMA InvNext == IInv /\ [Next]_vars => IInv'
<1> SUFFICES ASSUME IInv, [Next]_vars PROVE IInv'
  OBVIOUS
<1> USE DEF IInv
<1>1. CASE \E c \in Conns : Handle(c)
  BY <1>1, TypeHandle, LockHandle, CtxHandle, HandlerHandle, AckedHandle,
     OrderHandle, CountHandle, UnfinishedHandle
<1>2. CASE \E t \in Callers : Call(t)
  BY <1>2, TypeCall, LockCall, CtxCall, HandlerCall, AckedCall, OrderCall,
     CountCall, UnfinishedCall
<1>3. CASE UNCHANGED vars
  <2> USE <1>3 DEF vars, robots, calls, numbers, shared, wire, history
  <2>1. TypeOK'
    BY DEF TypeOK
  <2>2. LockHeld' /\ CtxOK'
    BY DEF LockHeld, CtxOK
  <2>3. HandlerOK' /\ AckedOK'
    BY DEF HandlerOK, ConnectedMatchesSocket, LastLoginWins, AckedOK,
           LoginAckBeforeCommands
  <2>4. OrderOK'
    BY DEF OrderOK
  <2>5. CountOK' /\ UnfinishedOK'
    BY DEF CountOK, Unnumbered, UnfinishedOK, CommandsDoNotInterleave
  <2> QED
    BY <2>1, <2>2, <2>3, <2>4, <2>5
<1> QED
  BY <1>1, <1>2, <1>3 DEF Next, Done

\* The inductive invariant holds in every behaviour, for any number of robots
\* and callers.
THEOREM Invariant == Spec => []IInv
  BY InvInit, InvNext, PTL DEF Spec

\* Every variable keeps its type.
THEOREM TypeCorrect == Spec => []TypeOK
<1>1. IInv => TypeOK
  BY DEF IInv
<1> QED
  BY <1>1, Invariant, PTL

\* The robot that logged in last keeps the channel until its handler leaves.
THEOREM LastLogin == Spec => []LastLoginWins
<1>1. IInv => LastLoginWins
  BY DEF IInv, HandlerOK
<1> QED
  BY <1>1, Invariant, PTL

\* The lock-free connected flag agrees with the socket outside attach and
\* detach.
THEOREM ConnectedMatches == Spec => []ConnectedMatchesSocket
<1>1. IInv => ConnectedMatchesSocket
  BY DEF IInv, HandlerOK
<1> QED
  BY <1>1, Invariant, PTL

\* No thread uses a closed socket.
THEOREM SocketOpen == Spec => []SocketInUseIsOpen
<1>1. IInv => SocketInUseIsOpen
  BY DEF IInv, HandlerOK, CtxOK, SocketInUseIsOpen
<1> QED
  BY <1>1, Invariant, PTL

\* No command overtakes the acknowledgement of the login.
THEOREM AckFirst == Spec => []LoginAckBeforeCommands
<1>1. IInv => LoginAckBeforeCommands
  BY DEF IInv, AckedOK
<1> QED
  BY <1>1, Invariant, PTL

\* Commands never cut one another while they are written.
THEOREM WholeCommands == Spec => []CommandsDoNotInterleave
<1>1. IInv => CommandsDoNotInterleave
  BY DEF IInv, UnfinishedOK
<1> QED
  BY <1>1, Invariant, PTL

\* Commands leave in the order of their numbers, and sequence numbers repeat
\* only after the counter went round.
THEOREM InOrder == Spec => []SentInOrder
<1>1. IInv => SentInOrder
  <2> SUFFICES ASSUME IInv,
                      NEW i \in 1..Len(sent), NEW j \in 1..Len(sent), i < j
               PROVE  /\ sent[i].nth < sent[j].nth
                      /\ sent[j].nth - sent[i].nth < SeqModulus =>
                           sent[i].seq # sent[j].seq
    BY DEF SentInOrder
  <2>1. sent[i].nth \in Nat /\ sent[j].nth \in Nat
    BY SentType DEF IInv
  <2>2. sent[i].nth < sent[j].nth
    BY DEF IInv, OrderOK
  <2>3. /\ sent[i].seq = (FirstSeq + sent[i].nth) % SeqModulus
        /\ sent[j].seq = (FirstSeq + sent[j].nth) % SeqModulus
    BY DEF IInv, OrderOK
  <2>4. /\ FirstSeq + sent[i].nth \in Nat
        /\ FirstSeq + sent[j].nth \in Nat
        /\ FirstSeq + sent[i].nth < FirstSeq + sent[j].nth
        /\ (FirstSeq + sent[j].nth) - (FirstSeq + sent[i].nth)
             = sent[j].nth - sent[i].nth
    <3>1. FirstSeq \in Nat
      BY SequenceRange
    <3> DEFINE a == sent[i].nth
               b == sent[j].nth
    <3>2. a \in Nat /\ b \in Nat /\ a < b
      BY <2>1, <2>2
    <3> HIDE DEF a, b
    <3>3. /\ FirstSeq + a \in Nat /\ FirstSeq + b \in Nat
          /\ FirstSeq + a < FirstSeq + b
          /\ (FirstSeq + b) - (FirstSeq + a) = b - a
      BY <3>1, <3>2
    <3> QED
      BY <3>3 DEF a, b
  <2>5. ASSUME sent[j].nth - sent[i].nth < SeqModulus
        PROVE  sent[i].seq # sent[j].seq
    BY <2>3, <2>4, <2>5, SequenceRange, ModDiffer
  <2> QED
    BY <2>2, <2>5
<1> QED
  BY <1>1, Invariant, PTL

-----------------------------------------------------------------------------
(* What an answer says.                                                     *)

\* What the answer of t will say is already so: a command that was begun is on
\* the wire, the number of one that was refused is nobody else's, and a caller
\* that may still be turned away has copied nothing.
HonestCaller(t) ==
  /\ caller[t] # "idle" => answer[t] = "none"
  /\ caller[t] = "send_rest" \/ answer[t] = "200" =>
       \E i \in 1..Len(sent) : /\ sent[i].conn = ctx[t].sock
                               /\ sent[i].nth = ctx[t].nth
                               /\ sent[i].seq = ctx[t].seq
  /\ answer[t] = "400" =>
       /\ ctx[t].nth < issued
       /\ \A i \in 1..Len(sent) : sent[i].nth # ctx[t].nth
       /\ \A u \in Callers : caller[u] = "send" => ctx[u].nth # ctx[t].nth
  /\ caller[t] \in {"waiting", "ready_auth", "ready_ip", "copy_auth"}
       \/ answer[t] = "409" => ctx[t].auth = None /\ ctx[t].ip = None

HonestOK == \A t \in Callers : HonestCaller(t)

\* The first bytes of the command of t have reached its socket.
Appends(t) ==
  /\ caller[t] = "send"
  /\ Len(sent) \in Nat /\ Len(sent') = Len(sent) + 1
  /\ \A i \in 1..Len(sent) : sent'[i] = sent[i]
  /\ sent'[Len(sent) + 1] =
       [conn |-> ctx[t].sock, auth |-> ctx[t].auth, ip |-> ctx[t].ip,
        port |-> ctx[t].port, nth |-> ctx[t].nth, seq |-> ctx[t].seq]

\* A caller leaves the others alone, and appends at most its own frame.
LEMMA CallKeeps ==
  ASSUME TypeOK, CtxOK, NEW t \in Callers, Call(t)
  PROVE  /\ \A u \in Callers \ {t} :
              caller'[u] = caller[u] /\ answer'[u] = answer[u] /\ ctx'[u] = ctx[u]
         /\ issued \in Nat /\ issued' \in {issued, issued + 1}
         /\ caller'[t] = "send" => ctx'[t].nth = issued /\ issued' = issued + 1
         /\ sent' = sent \/ Appends(t)
<1> USE DEF Step, Respond
<1>1. issued \in Nat
  BY DEF TypeOK
<1>2. \A u \in Callers \ {t} :
        caller'[u] = caller[u] /\ answer'[u] = answer[u] /\ ctx'[u] = ctx[u]
  BY DEF TypeOK, Call, Request, Acquire, NoRobot, ReadyAuth, ReadyIp, Ready,
     CopyAuth, CopyIp, Build, BuildPacket, SendControl, SendControlFails
<1>3. CASE Build(t)
  <2>1. issued' = issued + 1 /\ sent' = sent
    BY <1>3 DEF Build, BuildPacket, wire
  <2>2. ctx'[t].nth = issued
    BY <1>3, CtxFields DEF Build, BuildPacket, TypeOK
  <2> QED
    BY <1>1, <1>2, <2>1, <2>2
<1>4. CASE SendControl(t)
  <2>1. issued' = issued /\ caller'[t] # "send"
    BY <1>4 DEF SendControl, numbers, TypeOK
  <2>2. CASE sent' = sent
    BY <1>1, <1>2, <2>1, <2>2
  <2>3. CASE Sent(t) /\ caller[t] = "send"
    <3>1. sent \in Seq(Frame)
      BY DEF TypeOK
    <3> QED
      BY <1>1, <1>2, <2>1, <2>3, <3>1, CtxFrame, AppendFrame
      DEF Sent, Sending, Appends
  <2> QED
    BY <1>4, <2>2, <2>3 DEF SendControl
<1>5. CASE ~Build(t) /\ ~SendControl(t)
  <2>1. issued' = issued /\ sent' = sent /\ caller'[t] # "send"
    BY <1>5 DEF TypeOK, Call, Request, Acquire, NoRobot, ReadyAuth, ReadyIp,
       Ready, CopyAuth, CopyIp, SendControlFails, shared, numbers, wire
  <2> QED
    BY <1>1, <1>2, <2>1
<1> QED
  BY <1>3, <1>4, <1>5

\* What another caller does makes no answer wrong.
LEMMA HonestOther ==
  ASSUME TypeOK, CtxOK, NEW t \in Callers, Call(t),
         NEW u \in Callers, u # t, HonestCaller(u)
  PROVE  HonestCaller(u)'
<1>1. caller'[u] = caller[u] /\ answer'[u] = answer[u] /\ ctx'[u] = ctx[u]
  BY CallKeeps
<1>2. /\ ctx[u].nth \in Nat /\ issued \in Nat
      /\ issued' \in {issued, issued + 1}
      /\ caller'[t] = "send" => ctx'[t].nth = issued
      /\ sent' = sent \/ Appends(t)
  BY CallKeeps DEF TypeOK, Ctx
<1>3. caller[u] = "send_rest" \/ answer[u] = "200" =>
        \E i \in 1..Len(sent') : /\ sent'[i].conn = ctx[u].sock
                                 /\ sent'[i].nth = ctx[u].nth
                                 /\ sent'[i].seq = ctx[u].seq
  <2>1. \A i \in 1..Len(sent) : i \in 1..Len(sent') /\ sent'[i] = sent[i]
    BY <1>2 DEF Appends
  <2> QED
    BY <2>1 DEF HonestCaller
<1>4. ASSUME answer[u] = "400"
      PROVE  /\ ctx[u].nth < issued'
             /\ \A i \in 1..Len(sent') : sent'[i].nth # ctx[u].nth
             /\ \A v \in Callers :
                  caller'[v] = "send" => ctx'[v].nth # ctx[u].nth
  <2>1. /\ ctx[u].nth < issued
        /\ \A i \in 1..Len(sent) : sent[i].nth # ctx[u].nth
        /\ \A v \in Callers : caller[v] = "send" => ctx[v].nth # ctx[u].nth
    BY <1>4 DEF HonestCaller
  <2>2. ctx[u].nth < issued'
    BY <1>2, <2>1
  <2>3. ASSUME NEW i \in 1..Len(sent') PROVE sent'[i].nth # ctx[u].nth
    <3>1. CASE sent' = sent
      BY <2>1, <2>3, <3>1
    <3>2. CASE sent' # sent
      <4>1. /\ caller[t] = "send" /\ Len(sent') = Len(sent) + 1
            /\ \A j \in 1..Len(sent) : sent'[j] = sent[j]
            /\ sent'[Len(sent) + 1].nth = ctx[t].nth
        BY <1>2, <3>2 DEF Appends
      <4>2. i \in 1..Len(sent) \/ i = Len(sent) + 1
        BY <2>3, <4>1 DEF Appends
      <4> QED
        BY <2>1, <4>1, <4>2
    <3> QED
      BY <3>1, <3>2
  <2>4. ASSUME NEW v \in Callers, caller'[v] = "send"
        PROVE  ctx'[v].nth # ctx[u].nth
    <3>1. CASE v = t
      BY <1>2, <2>1, <2>4, <3>1
    <3>2. CASE v # t
      <4>1. caller'[v] = caller[v] /\ ctx'[v] = ctx[v]
        BY <3>2, CallKeeps
      <4> QED
        BY <2>1, <2>4, <4>1
    <3> QED
      BY <3>1, <3>2
  <2> QED
    BY <2>2, <2>3, <2>4
<1> QED
  BY <1>1, <1>3, <1>4 DEF HonestCaller

\* A caller answers what it did itself.
LEMMA HonestSelf ==
  ASSUME TypeOK, LockHeld, CtxOK, OrderOK, NEW t \in Callers, Call(t),
         HonestCaller(t)
  PROVE  HonestCaller(t)'
<1> USE ThreadsDiffer DEF Step, Respond, Holding, Sending
<1>0. /\ ctx[t] \in Ctx /\ answer \in [Callers -> Answers]
      /\ caller \in [Callers -> CallerStep] /\ ctx \in [Callers -> Ctx]
  BY DEF TypeOK
<1>1. CASE Request(t)
  <2>1. /\ answer'[t] = "none" /\ caller'[t] = "waiting"
        /\ ctx'[t].auth = None /\ ctx'[t].ip = None
    BY <1>0, <1>1 DEF Request, BlankCtx
  <2> QED
    BY <2>1 DEF HonestCaller
<1>2. CASE Acquire(t)
  <2>1. /\ caller[t] = "waiting" /\ caller'[t] \in {"idle", "ready_auth"}
        /\ answer'[t] \in {"none", "409"}
        /\ answer'[t] = "409" => caller'[t] = "idle"
    BY <1>0, <1>2 DEF Acquire, NoRobot, HonestCaller
  <2>2. ctx'[t].auth = ctx[t].auth /\ ctx'[t].ip = ctx[t].ip
    BY <1>0, <1>2 DEF Acquire, Ctx
  <2> QED
    BY <2>1, <2>2 DEF HonestCaller
<1>3. CASE ReadyAuth(t) \/ ReadyIp(t)
  <2>1. /\ caller[t] \in {"ready_auth", "ready_ip"}
        /\ caller'[t] \in {"idle", "ready_ip", "copy_auth"}
        /\ answer'[t] \in {"none", "409"}
        /\ answer'[t] = "409" => caller'[t] = "idle"
        /\ ctx' = ctx
    BY <1>0, <1>3 DEF ReadyAuth, ReadyIp, Ready, HonestCaller
  <2> QED
    BY <2>1 DEF HonestCaller
<1>4. CASE CopyAuth(t) \/ CopyIp(t)
  <2>1. caller'[t] \in {"copy_ip", "build"} /\ answer'[t] = "none"
    BY <1>0, <1>4 DEF CopyAuth, CopyIp, HonestCaller
  <2> QED
    BY <2>1 DEF HonestCaller
<1>5. CASE Build(t)
  <2>1. /\ caller[t] = "build" /\ answer[t] = "none"
        /\ sent' = sent /\ issued' = issued + 1
    BY <1>5 DEF Build, BuildPacket, wire, HonestCaller
  <2>2. ctx'[t].nth = issued
    BY <1>5, <1>0, CtxFields DEF Build, BuildPacket
  <2>3. CASE caller'[t] = "send" /\ answer' = answer
    BY <2>1, <2>3 DEF HonestCaller
  <2>4. CASE caller'[t] = "idle" /\ answer'[t] = "400"
    <3>1. issued \in Nat /\ issued < issued'
      BY <2>1 DEF TypeOK
    <3>2. \A i \in 1..Len(sent') : sent'[i].nth # issued
      BY <2>1, <3>1, SentType DEF OrderOK
    <3>3. \A u \in Callers : caller'[u] # "send"
      BY <2>1, <2>4, CallKeeps DEF LockHeld
    <3> QED
      BY <2>2, <2>4, <3>1, <3>2, <3>3 DEF HonestCaller
  <2> QED
    BY <1>0, <1>5, <2>3, <2>4 DEF Build, BuildPacket
<1>6. CASE SendControl(t)
  <2>1. /\ ctx' = ctx /\ caller[t] \in Sending
        /\ \/ caller'[t] = "idle" /\ answer'[t] = "200"
           \/ caller'[t] = "send_rest" /\ answer'[t] = "none"
    BY <1>0, <1>6 DEF SendControl, HonestCaller
  <2>2. \E i \in 1..Len(sent') : /\ sent'[i].conn = ctx[t].sock
                                 /\ sent'[i].nth = ctx[t].nth
                                 /\ sent'[i].seq = ctx[t].seq
    <3>1. CASE caller[t] = "send_rest"
      <4>1. sent' = sent
        BY <1>6, <3>1 DEF SendControl
      <4> QED
        BY <3>1, <4>1 DEF HonestCaller
    <3>2. CASE caller[t] = "send"
      <4>1. sent \in Seq(Frame) /\ Len(sent) \in Nat
        BY DEF TypeOK
      <4>2. Sent(t)
        BY <1>6, <3>2 DEF SendControl
      <4>3. /\ Len(sent') = Len(sent) + 1
            /\ sent'[Len(sent) + 1] =
                 [conn |-> ctx[t].sock, auth |-> ctx[t].auth,
                  ip |-> ctx[t].ip, port |-> ctx[t].port,
                  nth |-> ctx[t].nth, seq |-> ctx[t].seq]
        BY <3>2, <4>1, <4>2, CtxFrame, AppendFrame DEF Sent
      <4>4. Len(sent) + 1 \in 1..Len(sent')
        BY <4>1, <4>3
      <4> QED
        BY <4>3, <4>4
    <3> QED
      BY <2>1, <3>1, <3>2
  <2> QED
    BY <2>1, <2>2 DEF HonestCaller
<1>7. CASE SendControlFails(t)
  <2>1. caller'[t] = "idle" /\ answer'[t] = "dropped"
    BY <1>0, <1>7 DEF SendControlFails, FailureAnswer
  <2> QED
    BY <2>1 DEF HonestCaller
<1> QED
  BY <1>1, <1>2, <1>3, <1>4, <1>5, <1>6, <1>7 DEF Call

\* Answers are honest whatever anybody does.
LEMMA HonestNext ==
  ASSUME IInv, HonestOK, [Next]_vars
  PROVE  HonestOK'
<1>1. ASSUME NEW c \in Conns, Handle(c) PROVE HonestOK'
  BY <1>1, HandleLeaves DEF HonestOK, HonestCaller, calls, numbers
<1>2. ASSUME NEW t \in Callers, Call(t) PROVE HonestOK'
  BY <1>2, HonestSelf, HonestOther DEF HonestOK, IInv
<1>3. CASE UNCHANGED vars
  BY <1>3 DEF HonestOK, HonestCaller, vars, calls, shared, numbers, wire
<1> QED
  BY <1>1, <1>2, <1>3 DEF Next, Done

\* 200 means that this command went out, 400 and 409 that nothing did.
THEOREM HonestAnswers == Spec => []AnswersAreHonest
<1>1. Init => HonestOK
  BY DEF Init, HonestOK, HonestCaller, BlankCtx
<1>2. HonestOK => AnswersAreHonest
  BY DEF HonestOK, HonestCaller, AnswersAreHonest
<1> QED
  BY <1>1, <1>2, HonestNext, Invariant, PTL DEF Spec

-----------------------------------------------------------------------------
(* Whose credentials a command carries.                                     *)

\* The fields of the session that come from c by now, unless others logged in.
Stored(c) ==
  IF socket = c \/ handler[c] \in {"login_ack", "login_ack_rest", "attach"}
    THEN Fields
    ELSE {f \in Fields : \/ f = "auth" /\ handler[c] \in {"learn_ip", "learn_port"}
                         \/ f = "ip" /\ handler[c] = "learn_port"}

SessionOwn ==
  \A c \in Conns \ overlapped : \A f \in Stored(c) : session[f] \in {c, None}

\* What a caller has copied is from the connection it will send to.
CopiesOwn(t) ==
  /\ caller[t] = "waiting" =>
       ctx[t].auth = None /\ ctx[t].ip = None /\ ctx[t].port = None
  /\ caller[t] \in Holding /\ ctx[t].sock \notin overlapped =>
       {ctx[t].auth, ctx[t].ip, ctx[t].port} \subseteq {ctx[t].sock, None}

OwnOK ==
  SessionOwn /\ (\A t \in Callers : CopiesOwn(t)) /\ ForeignCredentialsNeedOverlap

\* A connection that logs in stores its own fields; whoever has stored some
\* before counts as overlapped from then on.
LEMMA SessionHandle ==
  ASSUME TypeOK, SessionOwn, NEW c \in Conns, Handle(c)
  PROVE  SessionOwn'
<1> USE ThreadsDiffer
    DEF Goto, robots, calls, numbers, shared, wire, history
<1>0. /\ handler \in [Conns -> HandlerStep] /\ overlapped \subseteq Conns
      /\ session \in [Fields -> Teacher]
  BY DEF TypeOK
<1>1. ASSUME /\ session' = session /\ overlapped' = overlapped
             /\ \A d \in Conns : Stored(d)' \subseteq Stored(d)
      PROVE  SessionOwn'
  BY <1>1 DEF SessionOwn
<1>2. ASSUME NEW f \in Fields, NEW step, NEW next, Learn(c, f, step, next),
             \/ f = "auth" /\ step = "learn_auth" /\ next = "learn_ip"
             \/ f = "ip" /\ step = "learn_ip" /\ next = "learn_port"
             \/ f = "port" /\ step = "learn_port" /\ next = "login_ack"
      PROVE  SessionOwn'
  <2>1. /\ session'[f] \in {c, None} /\ socket' = socket
        /\ \A g \in Fields \ {f} : session'[g] = session[g]
        /\ handler[c] = step /\ handler'[c] = next
        /\ \A d \in Conns \ {c} : handler'[d] = handler[d]
    BY <1>0, <1>2 DEF Learn
  <2>2. overlapped' = overlapped \union
          {d \in Conns \ {c} : handler[d] \in LoginStep \/ socket = d}
    BY <1>2 DEF Learn
  <2>3. ASSUME NEW d \in Conns \ overlapped', NEW g \in Stored(d)'
        PROVE  session'[g] \in {d, None}
    <3>1. CASE d = c
      <4>1. g = f \/ g \in Stored(c)
        BY <1>2, <2>1, <2>3, <3>1 DEF Stored, Fields
      <4>2. g \in Fields /\ d \in Conns \ overlapped
        BY <2>2, <2>3 DEF Stored
      <4> QED
        BY <2>1, <3>1, <4>1, <4>2 DEF SessionOwn
    <3>2. CASE d # c
      <4>1. handler[d] \notin LoginStep /\ socket # d
        BY <2>2, <2>3, <3>2
      <4>2. Stored(d)' = {}
        BY <2>1, <3>2, <4>1 DEF Stored, LoginStep, LearnStep
      <4> QED
        BY <2>3, <4>2
    <3> QED
      BY <3>1, <3>2
  <2> QED
    BY <2>3 DEF SessionOwn
<1>3. CASE LearnAuth(c) \/ LearnIp(c) \/ LearnPort(c)
  BY <1>2, <1>3 DEF LearnAuth, LearnIp, LearnPort, Fields
<1>4. CASE \/ Accept(c) \/ ReceiveLogin(c) \/ ReceiveOther(c) \/ RecvFails(c)
           \/ AttachConnected(c) \/ DetachConnected(c) \/ DetachStale(c)
           \/ Close(c) \/ OtherAck(c)
  <2>1. /\ session' = session /\ overlapped' = overlapped /\ socket' = socket
    BY <1>4 DEF Accept, ReceiveLogin, ReceiveOther, Receive, RecvFails,
       AttachConnected, DetachConnected, DetachStale, Close, OtherAck, SendAck
  <2>2. /\ \A d \in Conns \ {c} : handler'[d] = handler[d]
        /\ handler'[c] \notin
             {"learn_ip", "learn_port", "login_ack", "login_ack_rest", "attach"}
    BY <1>0, <1>4 DEF Accept, ReceiveLogin, ReceiveOther, Receive, RecvFails,
       AfterRecv, AttachConnected, DetachConnected, DetachStale, Close,
       OtherAck, SendAck
  <2> QED
    BY <1>1, <2>1, <2>2 DEF Stored
<1>5. CASE LoginAck(c)
  <2>1. /\ session' = session /\ overlapped' = overlapped /\ socket' = socket
        /\ \A d \in Conns \ {c} : handler'[d] = handler[d]
        /\ handler[c] \in {"login_ack", "login_ack_rest"}
    BY <1>0, <1>5 DEF LoginAck, SendAck
  <2> QED
    BY <1>1, <2>1 DEF Stored
<1>6. CASE AttachSocket(c)
  <2>1. /\ session' = session /\ overlapped' = overlapped /\ socket' = c
        /\ \A d \in Conns \ {c} : handler'[d] = handler[d]
        /\ handler[c] = "attach"
    BY <1>0, <1>6 DEF AttachSocket
  <2> QED
    BY <1>1, <2>1 DEF Stored
<1>7. CASE DetachSocket(c)
  <2>1. /\ session' = session /\ overlapped' = overlapped /\ socket' = None
        /\ \A d \in Conns \ {c} : handler'[d] = handler[d]
        /\ handler'[c] = "detach_connected"
    BY <1>0, <1>7 DEF DetachSocket
  <2> QED
    BY <1>1, <2>1 DEF Stored
<1> QED
  BY <1>3, <1>4, <1>5, <1>6, <1>7 DEF Handle

\* Overlaps only become more; what callers hold and sent stays.
LEMMA OwnHandle ==
  ASSUME TypeOK, OwnOK, NEW c \in Conns, Handle(c)
  PROVE  OwnOK'
<1>1. overlapped \subseteq overlapped'
  BY DEF Handle, Accept, ReceiveLogin, ReceiveOther, Receive, RecvFails,
     LearnAuth, LearnIp, LearnPort, Learn, LoginAck, OtherAck, SendAck,
     AttachSocket, AttachConnected, DetachSocket, DetachConnected,
     DetachStale, Close, history
<1>2. UNCHANGED <<caller, ctx, sent>>
  BY HandleLeaves DEF calls
<1>3. \A t \in Callers : CopiesOwn(t)'
  BY <1>1, <1>2 DEF OwnOK, CopiesOwn
<1>4. ForeignCredentialsNeedOverlap'
  BY <1>1, <1>2 DEF OwnOK, ForeignCredentialsNeedOverlap
<1> QED
  BY <1>3, <1>4, SessionHandle DEF OwnOK

\* A caller copies from the session of its connection.
LEMMA CopiesSelf ==
  ASSUME TypeOK, CtxOK, SessionOwn, NEW t \in Callers, Call(t), CopiesOwn(t)
  PROVE  CopiesOwn(t)'
<1> USE ThreadsDiffer DEF Step, Respond, Holding, Sending
<1>0. /\ ctx[t] \in Ctx /\ overlapped' = overlapped
      /\ caller \in [Callers -> CallerStep] /\ ctx \in [Callers -> Ctx]
  BY DEF TypeOK, Call, Request, Acquire, ReadyAuth, ReadyIp, Ready, CopyAuth,
     CopyIp, Build, BuildPacket, SendControl, SendControlFails, history
<1>1. caller[t] \in Holding /\ ctx[t].sock \notin overlapped =>
        \A f \in Fields : session[f] \in {ctx[t].sock, None}
  BY DEF CtxOK, SessionOwn, Stored
<1>2. CASE Request(t)
  <2>1. caller'[t] = "waiting" /\ ctx'[t] = BlankCtx
    BY <1>0, <1>2 DEF Request
  <2> QED
    BY <2>1 DEF CopiesOwn, BlankCtx
<1>3. CASE Acquire(t)
  <2>1. caller[t] = "waiting" /\ caller'[t] \in {"idle", "ready_auth"}
    BY <1>0, <1>3 DEF Acquire, NoRobot
  <2>2. /\ ctx'[t].auth = ctx[t].auth /\ ctx'[t].ip = ctx[t].ip
        /\ ctx'[t].port = ctx[t].port
    BY <1>0, <1>3 DEF Acquire, Ctx
  <2> QED
    BY <2>1, <2>2 DEF CopiesOwn
<1>4. CASE ReadyAuth(t) \/ ReadyIp(t)
  <2>1. /\ caller[t] \in {"ready_auth", "ready_ip"} /\ ctx' = ctx
        /\ caller'[t] # "waiting"
    BY <1>0, <1>4 DEF ReadyAuth, ReadyIp, Ready
  <2> QED
    BY <1>0, <2>1 DEF CopiesOwn
<1>5. CASE CopyAuth(t)
  <2>1. caller[t] = "copy_auth" /\ caller'[t] = "copy_ip"
    BY <1>0, <1>5 DEF CopyAuth
  <2>2. /\ ctx'[t].auth = session["auth"] /\ ctx'[t].ip = ctx[t].ip
        /\ ctx'[t].port = ctx[t].port /\ ctx'[t].sock = ctx[t].sock
    BY <1>0, <1>5 DEF CopyAuth, Ctx
  <2> QED
    BY <1>0, <1>1, <2>1, <2>2 DEF CopiesOwn, Fields
<1>6. CASE CopyIp(t)
  <2>1. caller[t] = "copy_ip" /\ caller'[t] = "build"
    BY <1>0, <1>6 DEF CopyIp
  <2>2. /\ ctx'[t].ip = session["ip"] /\ ctx'[t].auth = ctx[t].auth
        /\ ctx'[t].port = ctx[t].port /\ ctx'[t].sock = ctx[t].sock
    BY <1>0, <1>6 DEF CopyIp, Ctx
  <2> QED
    BY <1>0, <1>1, <2>1, <2>2 DEF CopiesOwn, Fields
<1>7. CASE Build(t)
  <2>1. caller[t] = "build" /\ caller'[t] \in {"idle", "send"}
    BY <1>0, <1>7 DEF Build, BuildPacket
  <2>2. /\ ctx'[t].port = session["port"] /\ ctx'[t].auth = ctx[t].auth
        /\ ctx'[t].ip = ctx[t].ip /\ ctx'[t].sock = ctx[t].sock
    BY <1>0, <1>7 DEF Build, BuildPacket, Ctx
  <2> QED
    BY <1>0, <1>1, <2>1, <2>2 DEF CopiesOwn, Fields
<1>8. CASE SendControl(t) \/ SendControlFails(t)
  <2>1. /\ caller[t] \in Sending /\ caller'[t] \in {"idle", "send_rest"}
        /\ ctx' = ctx
    BY <1>0, <1>8 DEF SendControl, SendControlFails
  <2> QED
    BY <1>0, <2>1 DEF CopiesOwn
<1> QED
  BY <1>2, <1>3, <1>4, <1>5, <1>6, <1>7, <1>8 DEF Call

\* A frame carries what its caller has copied.
LEMMA OwnCall ==
  ASSUME TypeOK, CtxOK, OwnOK, NEW t \in Callers, Call(t)
  PROVE  OwnOK'
<1>1. UNCHANGED <<handler, socket, session, overlapped>>
  BY DEF Call, Request, Acquire, ReadyAuth, ReadyIp, Ready, CopyAuth, CopyIp,
     Build, BuildPacket, SendControl, SendControlFails, robots, shared, history
<1>2. SessionOwn'
  BY <1>1 DEF OwnOK, SessionOwn, Stored
<1>3. \A u \in Callers : CopiesOwn(u)'
  <2>1. \A u \in Callers \ {t} : caller'[u] = caller[u] /\ ctx'[u] = ctx[u]
    BY CallKeeps
  <2>2. \A u \in Callers \ {t} : CopiesOwn(u)'
    BY <1>1, <2>1 DEF OwnOK, CopiesOwn
  <2> QED
    BY <2>2, CopiesSelf DEF OwnOK
<1>4. ForeignCredentialsNeedOverlap'
  <2>1. CASE sent' = sent
    BY <1>1, <2>1 DEF OwnOK, ForeignCredentialsNeedOverlap
  <2>2. CASE Appends(t)
    <3>1. ASSUME NEW i \in 1..Len(sent')
          PROVE  {sent'[i].auth, sent'[i].ip, sent'[i].port}
                     \subseteq {sent'[i].conn, None}
                   \/ sent'[i].conn \in overlapped'
      <4>1. CASE i \in 1..Len(sent)
        <5>1. sent'[i] = sent[i]
          BY <2>2, <4>1 DEF Appends
        <5> QED
          BY <1>1, <4>1, <5>1 DEF OwnOK, ForeignCredentialsNeedOverlap
      <4>2. CASE i = Len(sent) + 1
        <5>1. /\ sent'[i].conn = ctx[t].sock /\ sent'[i].auth = ctx[t].auth
              /\ sent'[i].ip = ctx[t].ip /\ sent'[i].port = ctx[t].port
              /\ caller[t] = "send"
          BY <2>2, <4>2 DEF Appends
        <5> QED
          BY <1>1, <5>1 DEF OwnOK, CopiesOwn, Holding, Sending
      <4> QED
        BY <2>2, <3>1, <4>1, <4>2 DEF Appends
    <3> QED
      BY <3>1 DEF ForeignCredentialsNeedOverlap
  <2> QED
    BY <2>1, <2>2, CallKeeps
<1> QED
  BY <1>2, <1>3, <1>4 DEF OwnOK

LEMMA OwnNext ==
  ASSUME IInv, OwnOK, [Next]_vars
  PROVE  OwnOK'
<1>1. CASE UNCHANGED vars
  BY <1>1 DEF OwnOK, SessionOwn, Stored, CopiesOwn,
     ForeignCredentialsNeedOverlap, vars, robots, calls, shared, wire, history
<1> QED
  BY <1>1, OwnHandle, OwnCall DEF Next, Done, IInv

\* Without overlapping logins a command carries only credentials of the robot
\* it is sent to.
THEOREM OwnCredentials == Spec => []ForeignCredentialsNeedOverlap
<1>1. Init => OwnOK
  BY ThreadsDiffer DEF Init, OwnOK, SessionOwn, Stored, CopiesOwn, Holding,
     Sending, ForeignCredentialsNeedOverlap
<1>2. OwnOK => ForeignCredentialsNeedOverlap
  BY DEF OwnOK
<1> QED
  BY <1>1, <1>2, OwnNext, Invariant, PTL DEF Spec

-----------------------------------------------------------------------------
(* RobotConnection implements ControlChannel.                               *)

Closed == {c \in Conns : handler[c] = "closed"}
Delivered == [i \in 1..Len(sent) |->
                [conn |-> sent[i].conn, nth |-> sent[i].nth]]

\* A handler logs in, logs out, closes, or does nothing to the channel.
LEMMA HandleRefines ==
  ASSUME IInv, NEW c \in Conns, Handle(c)
  PROVE  Channel!Next \/ UNCHANGED Channel!vars
<1> USE DEF IInv
<1>1. Delivered' = Delivered
  BY HandleLeaves DEF Delivered
<1>2. handler \in [Conns -> HandlerStep]
  BY DEF TypeOK
<1>3. CASE AttachSocket(c)
  <2>1. socket' = c /\ c \notin Closed /\ Closed' = Closed
    BY <1>2, <1>3 DEF AttachSocket, MayAttach, Goto, Closed
  <2>2. Channel!Login(c)
    BY <1>1, <2>1 DEF Channel!Login, Closed, Delivered
  <2> QED
    BY <2>2 DEF Channel!Next
<1>4. CASE DetachSocket(c)
  <2>1. socket = c /\ socket' = None /\ Closed' = Closed
    BY <1>2, <1>4 DEF DetachSocket, Current, Goto, Closed
  <2>2. Channel!Logout(c)
    BY <1>1, <2>1 DEF Channel!Logout, Closed, Delivered
  <2> QED
    BY <2>2 DEF Channel!Next
<1>5. CASE Close(c)
  <2>1. socket # c /\ socket' = socket /\ Closed' = Closed \union {c}
    BY <1>2, <1>5 DEF Close, Goto, Closed, HandlerOK, shared
  <2>2. Channel!Close(c)
    BY <1>1, <2>1 DEF Channel!Close, Closed, Delivered
  <2> QED
    BY <2>2 DEF Channel!Next
<1>6. CASE ~AttachSocket(c) /\ ~DetachSocket(c) /\ ~Close(c)
  <2>1. socket' = socket
    BY <1>6 DEF Handle, Accept, ReceiveLogin, ReceiveOther, Receive,
                RecvFails, AfterRecv, LearnAuth, LearnIp, LearnPort, Learn,
                LoginAck, OtherAck, SendAck, AttachConnected,
                DetachConnected, DetachStale, ConnectedAfterStale, shared
  <2>2. Closed' = Closed
    BY <1>2, <1>6
    DEF Closed, Goto, Handle, Accept, ReceiveLogin, ReceiveOther, Receive,
        RecvFails, AfterRecv, LearnAuth, LearnIp, LearnPort, Learn, LoginAck,
        OtherAck, SendAck, AttachConnected, DetachConnected, DetachStale,
        ConnectedAfterStale
  <2> QED
    BY <1>1, <2>1, <2>2 DEF Channel!vars, Closed, Delivered
<1> QED
  BY <1>3, <1>4, <1>5, <1>6

\* A caller delivers its command when the first bytes leave, under the lock.
LEMMA CallRefines ==
  ASSUME IInv, NEW t \in Callers, Call(t)
  PROVE  Channel!Next \/ UNCHANGED Channel!vars
<1> USE DEF IInv
<1>1. socket' = socket /\ Closed' = Closed
  BY DEF Call, Request, Acquire, NoRobot, ReadyAuth, ReadyIp, Ready,
         CopyAuth, CopyIp, Build, NextNumber, BuildPacket, LockAfterBuild,
         SendControl, SendControlFails, FailureAnswer, shared, robots, Closed
<1>2. CASE SendControl(t) /\ Sent(t)
  <2>1. caller[t] \in Sending
    BY <1>2 DEF SendControl
  <2>2. /\ Len(sent') = Len(sent) + 1
        /\ \A i \in 1..Len(sent) : sent'[i] = sent[i]
        /\ sent'[Len(sent) + 1].conn = ctx[t].sock
        /\ sent'[Len(sent) + 1].nth = ctx[t].nth
        /\ Len(sent) \in Nat
    BY <1>2, <2>1, CtxFrame, AppendFrame DEF Sent, TypeOK
  <2>3. caller[t] = "send" /\ ctx[t].sock = socket /\ socket \in Conns
    <3>1. sent' # sent
      BY <2>2
    <3> QED
      BY <1>2, <3>1 DEF SendControl, CtxOK
  <2>4. /\ \A i \in 1..Len(sent) : sent[i].nth < ctx[t].nth
        /\ ctx[t].nth < issued
    BY <2>3 DEF OrderOK
  <2>5. ctx[t].nth \in 0..MaxRequests
    <3>1. issued <= requests /\ issued \in Nat /\ requests \in 0..MaxRequests
      <4>1. Cardinality(Unnumbered) \in Nat
        BY FiniteCallers, FS_Subset, FS_CardinalityType DEF Unnumbered
      <4>2. issued \in Nat /\ requests \in 0..MaxRequests
        BY DEF TypeOK
      <4> QED
        BY <4>1, <4>2, Bounds DEF CountOK
    <3>2. ctx[t].nth \in Nat
      BY DEF TypeOK, Ctx
    <3> QED
      BY <2>4, <3>1, <3>2, Bounds
  <2>6. Delivered' =
          Append(Delivered, [conn |-> socket, nth |-> ctx[t].nth])
    BY <2>2, <2>3 DEF Delivered
  <2>7. /\ Len(Delivered) = Len(sent)
        /\ \A i \in 1..Len(sent) : Delivered[i].nth = sent[i].nth
    BY <2>2 DEF Delivered
  <2>8. PICK n \in 0..MaxRequests : n = ctx[t].nth
    BY <2>5
  <2>9. Channel!Deliver(n)
    BY <1>1, <2>3, <2>4, <2>6, <2>7, <2>8, ThreadsDiffer
    DEF Channel!Deliver, Closed, Delivered
  <2> QED
    BY <2>9 DEF Channel!Next
<1>3. CASE ~(SendControl(t) /\ Sent(t))
  <2>1. sent' = sent
    BY <1>3 DEF Call, Request, Acquire, NoRobot, ReadyAuth, ReadyIp, Ready,
                CopyAuth, CopyIp, Build, NextNumber, BuildPacket,
                LockAfterBuild, SendControl, SendControlFails, FailureAnswer,
                wire
  <2> QED
    BY <1>1, <2>1 DEF Channel!vars, Closed
<1> QED
  BY <1>2, <1>3

\* attach, detach and send_control implement the abstract command channel.
THEOREM Refinement == Spec => ImplementsControlChannel
<1>1. Init => Channel!Init
  BY DEF Init, Channel!Init
<1>2. IInv /\ [Next]_vars => [Channel!Next]_(Channel!vars)
  <2> SUFFICES ASSUME IInv, [Next]_vars
               PROVE  Channel!Next \/ UNCHANGED Channel!vars
    OBVIOUS
  <2>1. CASE UNCHANGED vars
    BY <2>1 DEF vars, robots, shared, wire, Channel!vars
  <2> QED
    BY <2>1, HandleRefines, CallRefines DEF Next, Done
<1> QED
  BY <1>1, <1>2, Invariant, PTL
  DEF Spec, ImplementsControlChannel, Channel!Spec
=============================================================================
