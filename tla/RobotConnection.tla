-------------------------- MODULE RobotConnection --------------------------
(***************************************************************************)
(* The robot-facing TCP side of the service (tcp_server.py) and the        *)
(* command path of the local API that shares it (api_server.py,            *)
(* service.py, commands.py): one handler thread per robot connection, one  *)
(* caller thread per API request, and between them the lock, the current   *)
(* socket and the session of RobotConnection.                              *)
(*                                                                         *)
(* A thread switch is possible between any two steps that touch state      *)
(* another thread can see.  The session is written by handlers WITHOUT the *)
(* lock and read by callers that hold it, one attribute at a time.         *)
(*                                                                         *)
(* Abstractions.  A credential is represented by the connection that       *)
(* taught it: auth code, IP and port are a member of Conns, or None when   *)
(* absent (for the port: the default "8888").  A frame on the wire is sent *)
(* in one piece or in two, which is what sendall does when the send buffer *)
(* is full.  Messages that are neither a login nor answered (control       *)
(* responses, non-JSON text) change nothing here.  RobotState.values and   *)
(* raw_value belong to another component.                                  *)
(***************************************************************************)
EXTENDS Naturals, Sequences, FiniteSets

CONSTANTS
  Conns,        \* accepted robot sockets, one handler thread each
  Callers,      \* local API threads
  None,         \* Python's None
  LoginShapes,  \* the sets of session fields a login message may carry
  FirstSeq,     \* first sequence number of CommandSequencer
  SeqModulus,   \* sequence numbers are kept modulo this (2^32 in the code)
  MaxMessages,  \* bound on the messages robots send in a behaviour
  MaxRequests   \* bound on the API requests in a behaviour

ASSUME ThreadsDiffer ==
  /\ None \notin Conns \union Callers
  /\ Conns \intersect Callers = {}
ASSUME FiniteCallers == IsFiniteSet(Callers)
ASSUME ShapesAreFields == LoginShapes \subseteq SUBSET {"auth", "ip", "port"}
ASSUME SequenceRange ==
  /\ SeqModulus \in Nat \ {0}
  /\ FirstSeq \in 0..(SeqModulus - 1)
ASSUME Bounds == MaxMessages \in Nat /\ MaxRequests \in Nat

VARIABLES
  messages,    \* number of messages robots have sent so far
  handler,     \* handler thread of a connection: where it is
  login,       \* fields of its login message a handler has yet to store
  caller,      \* caller thread: where it is inside send_control
  ctx,         \* a caller's local variables: socket, ControlContext, sequence
  answer,      \* HTTP status the API gave to a caller's last request
  requests,    \* number of API requests so far
  lock,        \* holder of RobotConnection._lock, or None
  socket,      \* RobotConnection._socket
  connected,   \* RobotState.connected
  session,     \* RobotState.session: auth, ip, port
  nextSeq,     \* CommandSequencer._next
  issued,      \* how many sequence numbers were handed out
  unfinished,  \* per socket, the threads that have sent part of a frame;
               \* None stands for a thread that gave up half way
  \* The rest records the past; the code does not keep it.
  sent,        \* control frames that reached a socket, oldest first
  torn,        \* ways in which a frame was cut by another one
  acked,       \* connections that got a complete login acknowledgement
  latest,      \* the connection that was attached last
  overlapped   \* connections that were logging in or current while another
               \* connection's login was being learned

robots == <<messages, handler, login>>
calls == <<caller, ctx, answer, requests>>
numbers == <<nextSeq, issued>>
shared == <<lock, socket, connected, session, numbers>>
wire == <<unfinished, sent, torn>>
history == <<acked, latest, overlapped>>
vars == <<robots, calls, shared, wire, history>>

Fields == {"auth", "ip", "port"}
Teacher == Conns \union {None}
Threads == Conns \union Callers

LearnStep == {"learn_auth", "learn_ip", "learn_port"}
LoginStep == LearnStep \union {"login_ack", "login_ack_rest", "attach"}
HandlerStep == LoginStep \union
  {"new", "recv", "ack", "ack_rest", "attach_connected",
   "detach", "detach_connected", "close", "closed"}
Leaving == {"detach", "detach_connected", "close", "closed"}

Sending == {"send", "send_rest"}
Holding == {"ready_auth", "ready_ip", "copy_auth", "copy_ip", "build"}
             \union Sending
CallerStep == {"idle", "waiting"} \union Holding

Answers == {"none", "200", "400", "409", "dropped"}
Tears == {"command in command", "ack and command", "after a broken frame"}

Ctx == [sock : Teacher, auth : Teacher, ip : Teacher, port : Teacher,
        nth : Nat, seq : Nat]
Frame == [conn : Conns, auth : Conns, ip : Conns, port : Teacher,
          nth : Nat, seq : Nat]

BlankCtx == [sock |-> None, auth |-> None, ip |-> None, port |-> None,
             nth |-> 0, seq |-> 0]

Init ==
  /\ messages = 0
  /\ handler = [c \in Conns |-> "new"]
  /\ login = [c \in Conns |-> {}]
  /\ caller = [t \in Callers |-> "idle"]
  /\ ctx = [t \in Callers |-> BlankCtx]
  /\ answer = [t \in Callers |-> "none"]
  /\ requests = 0
  /\ lock = None
  /\ socket = None
  /\ connected = FALSE
  /\ session = [f \in Fields |-> None]
  /\ nextSeq = FirstSeq
  /\ issued = 0
  /\ unfinished = [c \in Conns |-> {}]
  /\ sent = <<>>
  /\ torn = {}
  /\ acked = {}
  /\ latest = None
  /\ overlapped = {}

-----------------------------------------------------------------------------
(* sock.sendall: all at once, or a first part and later the rest.           *)

Tear(v, w) ==
  CASE v = None -> "after a broken frame"
    [] v \in Callers /\ w \in Callers -> "command in command"
    [] OTHER -> "ack and command"

\* Thread w puts bytes on socket c, after whatever is unfinished there.
Tearing(w, c) == torn' = torn \union {Tear(v, w) : v \in unfinished[c] \ {w}}

SendWhole(w, c) ==
  /\ Tearing(w, c)
  /\ UNCHANGED unfinished

SendPart(w, c) ==
  /\ Tearing(w, c)
  /\ unfinished' = [unfinished EXCEPT ![c] = @ \union {w}]

SendRest(w, c) ==
  /\ Tearing(w, c)
  /\ unfinished' = [unfinished EXCEPT ![c] = @ \ {w}]

\* sendall raises: what is already on the wire stays there.
SendBreaks(w, c) ==
  /\ unfinished' = [unfinished EXCEPT
       ![c] = IF w \in @ THEN (@ \ {w}) \union {None} ELSE @]
  /\ UNCHANGED torn

-----------------------------------------------------------------------------
(* Handler threads: serve_tcp and handle_tcp_client.                        *)

Goto(c, step) == handler' = [handler EXCEPT ![c] = step]

Accept(c) ==
  /\ handler[c] = "new"
  /\ Goto(c, "recv")
  /\ UNCHANGED <<messages, login, calls, shared, wire, history>>

Receive(c, step) ==
  /\ handler[c] = "recv"
  /\ messages < MaxMessages
  /\ messages' = messages + 1
  /\ Goto(c, step)

\* A message with a token: a login.
ReceiveLogin(c) ==
  /\ Receive(c, "learn_auth")
  /\ \E shape \in LoginShapes : login' = [login EXCEPT ![c] = shape]
  /\ UNCHANGED <<calls, shared, wire, history>>

\* A keepalive or any other message that gets an acknowledgement.
ReceiveOther(c) ==
  /\ Receive(c, "ack")
  /\ UNCHANGED <<login, calls, shared, wire, history>>

\* Mutants: the handler closes its socket without detaching it; the timeout of
\* the current connection is ignored.
JustCloses(c) == "close"
KeepsCurrent(c) == IF socket = c THEN "recv" ELSE "detach"

AfterRecv(c) == "detach"

\* End of stream, reset, 90 s without data, or a header that does not parse.
RecvFails(c) ==
  /\ handler[c] = "recv"
  /\ Goto(c, AfterRecv(c))
  /\ UNCHANGED <<messages, login, calls, shared, wire, history>>

\* RobotState.update_from_message stores the session one attribute at a time.
Learn(c, field, step, next) ==
  /\ handler[c] = step
  /\ session' = [session EXCEPT
       ![field] = IF field \in login[c] THEN c ELSE None]
  /\ overlapped' = overlapped \union
       {d \in Conns \ {c} : handler[d] \in LoginStep \/ socket = d}
  /\ login' = [login EXCEPT ![c] = @ \ {field}]
  /\ Goto(c, next)
  /\ UNCHANGED <<messages, calls, lock, socket, connected, numbers, wire,
                 acked, latest>>

\* Mutant: a login without an auth code keeps the old one.
LearnAuthKeeps(c) ==
  \/ "auth" \in login[c] /\ Learn(c, "auth", "learn_auth", "learn_ip")
  \/ /\ handler[c] = "learn_auth" /\ "auth" \notin login[c]
     /\ Goto(c, "learn_ip")
     /\ UNCHANGED <<messages, login, calls, shared, wire, history>>

\* Mutant: a login is attached without its acknowledgement.
LearnPortNoAck(c) == Learn(c, "port", "learn_port", "attach")

LearnAuth(c) == Learn(c, "auth", "learn_auth", "learn_ip")
LearnIp(c) == Learn(c, "ip", "learn_ip", "learn_port")
LearnPort(c) == Learn(c, "port", "learn_port", "login_ack")

\* An acknowledgement, written without the lock.
SendAck(c, step, rest, next) ==
  /\ \/ handler[c] = step /\ SendWhole(c, c) /\ Goto(c, next)
     \/ handler[c] = step /\ SendPart(c, c) /\ Goto(c, rest)
     \/ handler[c] = rest /\ SendRest(c, c) /\ Goto(c, next)
     \/ handler[c] \in {step, rest} /\ SendBreaks(c, c) /\ Goto(c, "detach")
  /\ UNCHANGED <<messages, login, calls, shared, sent, latest, overlapped>>

LoginAck(c) ==
  /\ SendAck(c, "login_ack", "login_ack_rest", "attach")
  /\ acked' = IF handler'[c] = "attach" THEN acked \union {c} ELSE acked

OtherAck(c) ==
  /\ SendAck(c, "ack", "ack_rest", "recv")
  /\ UNCHANGED acked

\* Mutant: attach does not wait for the lock.
AttachAtOnce == TRUE

MayAttach == lock = None

\* attach: under the lock, first the socket, then the connected flag.
AttachSocket(c) ==
  /\ handler[c] = "attach"
  /\ MayAttach
  /\ lock' = c
  /\ socket' = c
  /\ latest' = c
  /\ Goto(c, "attach_connected")
  /\ UNCHANGED <<messages, login, calls, connected, session, numbers, wire,
                 acked, overlapped>>

AttachConnected(c) ==
  /\ handler[c] = "attach_connected"
  /\ connected' = TRUE
  /\ lock' = None
  /\ Goto(c, "recv")
  /\ UNCHANGED <<messages, login, calls, socket, session, numbers, wire,
                 history>>

\* Mutant: detach without the `is sock` test.
Anyone(c) == TRUE

Current(c) == socket = c

\* detach: only the connection that is still the current one clears it.
DetachSocket(c) ==
  /\ handler[c] = "detach"
  /\ lock = None
  /\ Current(c)
  /\ lock' = c
  /\ socket' = None
  /\ Goto(c, "detach_connected")
  /\ UNCHANGED <<messages, login, calls, connected, session, numbers, wire,
                 history>>

DetachConnected(c) ==
  /\ handler[c] = "detach_connected"
  /\ connected' = FALSE
  /\ lock' = None
  /\ Goto(c, "close")
  /\ UNCHANGED <<messages, login, calls, socket, session, numbers, wire,
                 history>>

\* Mutant: a stale handler clears the connected flag.
Cleared == FALSE

ConnectedAfterStale == connected

DetachStale(c) ==
  /\ handler[c] = "detach"
  /\ lock = None
  /\ socket # c
  /\ connected' = ConnectedAfterStale
  /\ Goto(c, "close")
  /\ UNCHANGED <<messages, login, calls, lock, socket, session, numbers, wire,
                 history>>

Close(c) ==
  /\ handler[c] = "close"
  /\ Goto(c, "closed")
  /\ UNCHANGED <<messages, login, calls, shared, wire, history>>

-----------------------------------------------------------------------------
(* Caller threads: a command request through dispatch_api, RobotService and *)
(* RobotConnection.send_control.                                            *)

Step(t, step) == caller' = [caller EXCEPT ![t] = step]

\* send_control leaves the with block and the API answers.
Respond(t, status) ==
  /\ answer' = [answer EXCEPT ![t] = status]
  /\ lock' = None
  /\ Step(t, "idle")

Request(t) ==
  /\ caller[t] = "idle"
  /\ requests < MaxRequests
  /\ requests' = requests + 1
  /\ Step(t, "waiting")
  /\ ctx' = [ctx EXCEPT ![t] = BlankCtx]
  /\ answer' = [answer EXCEPT ![t] = "none"]
  /\ UNCHANGED <<robots, shared, wire, history>>

\* Mutant: without a robot the caller waits for one instead of a 409.
WaitsForRobot(t) == UNCHANGED <<answer, lock, caller>>

NoRobot(t) == Respond(t, "409")

Acquire(t) ==
  /\ caller[t] = "waiting"
  /\ lock = None
  /\ \/ /\ socket = None
        /\ NoRobot(t)
        /\ UNCHANGED ctx
     \/ /\ socket # None
        /\ lock' = t
        /\ ctx' = [ctx EXCEPT ![t].sock = socket]
        /\ Step(t, "ready_auth")
        /\ UNCHANGED answer
  /\ UNCHANGED <<robots, requests, socket, connected, session, numbers,
                 wire, history>>

\* session.control_ready(): the auth code, then the IP.
Ready(t, field, step, next) ==
  /\ caller[t] = step
  /\ \/ /\ session[field] = None
        /\ Respond(t, "409")
     \/ /\ session[field] # None
        /\ Step(t, next)
        /\ UNCHANGED <<answer, lock>>
  /\ UNCHANGED <<robots, ctx, requests, socket, connected, session,
                 numbers, wire, history>>

ReadyAuth(t) == Ready(t, "auth", "ready_auth", "ready_ip")
ReadyIp(t) == Ready(t, "ip", "ready_ip", "copy_auth")

\* ControlContext(...): the fields are read a second time.
CopyAuth(t) ==
  /\ caller[t] = "copy_auth"
  /\ ctx' = [ctx EXCEPT ![t].auth = session["auth"]]
  /\ Step(t, "copy_ip")
  /\ UNCHANGED <<robots, answer, requests, shared, wire, history>>

CopyIp(t) ==
  /\ caller[t] = "copy_ip"
  /\ ctx' = [ctx EXCEPT ![t].ip = session["ip"]]
  /\ Step(t, "build")
  /\ UNCHANGED <<robots, answer, requests, shared, wire, history>>

\* Mutant: the lock covers the building of the packet only.
Released == None

LockAfterBuild == lock

\* The context is complete, or it is a ValueError, hence a 400.
BuildPacket(t) ==
  /\ caller[t] = "build"
  /\ issued' = issued + 1
  /\ ctx' = [ctx EXCEPT ![t].port = session["port"],
                        ![t].seq = nextSeq, ![t].nth = issued]
  /\ \/ /\ None \in {ctx[t].auth, ctx[t].ip}
        /\ Respond(t, "400")
     \/ /\ None \notin {ctx[t].auth, ctx[t].ip}
        /\ Step(t, "send")
        /\ lock' = LockAfterBuild
        /\ UNCHANGED answer
  /\ UNCHANGED <<robots, requests, socket, connected, session, wire,
                 history>>

\* Mutant: the sequence number is not masked.
NotMasked == nextSeq + 1

\* CommandSequencer.next
NextNumber == (nextSeq + 1) % SeqModulus

\* CommandBuilder.build takes a sequence number before it looks at the
\* context: a 400 consumes one.
Build(t) == BuildPacket(t) /\ nextSeq' = NextNumber

\* The first bytes of a command are on the wire.
Sent(t) ==
  sent' = Append(sent,
    [conn |-> ctx[t].sock, auth |-> ctx[t].auth, ip |-> ctx[t].ip,
     port |-> ctx[t].port, nth |-> ctx[t].nth, seq |-> ctx[t].seq])

SendControl(t) ==
  /\ \/ /\ caller[t] = "send"
        /\ SendWhole(t, ctx[t].sock)
        /\ Sent(t)
        /\ Respond(t, "200")
     \/ /\ caller[t] = "send"
        /\ SendPart(t, ctx[t].sock)
        /\ Sent(t)
        /\ Step(t, "send_rest")
        /\ UNCHANGED <<answer, lock>>
     \/ /\ caller[t] = "send_rest"
        /\ SendRest(t, ctx[t].sock)
        /\ Respond(t, "200")
        /\ UNCHANGED sent
  /\ UNCHANGED <<robots, ctx, requests, socket, connected, session,
                 numbers, history>>

\* Mutant: a failed send is reported as "could not be sent".
NotSent == "409"

FailureAnswer == "dropped"

\* sendall raises an OSError.  dispatch_api does not catch it: the request
\* is dropped without an answer.  The socket stays the current one.
SendControlFails(t) ==
  /\ caller[t] \in Sending
  /\ SendBreaks(t, ctx[t].sock)
  /\ Respond(t, FailureAnswer)
  /\ UNCHANGED <<robots, ctx, requests, socket, connected, session,
                 numbers, sent, history>>

-----------------------------------------------------------------------------

Handle(c) ==
  \/ Accept(c) \/ ReceiveLogin(c) \/ ReceiveOther(c) \/ RecvFails(c)
  \/ LearnAuth(c) \/ LearnIp(c) \/ LearnPort(c) \/ LoginAck(c) \/ OtherAck(c)
  \/ AttachSocket(c) \/ AttachConnected(c)
  \/ DetachSocket(c) \/ DetachConnected(c) \/ DetachStale(c) \/ Close(c)

Call(t) ==
  \/ Request(t) \/ Acquire(t) \/ ReadyAuth(t) \/ ReadyIp(t)
  \/ CopyAuth(t) \/ CopyIp(t) \/ Build(t)
  \/ SendControl(t) \/ SendControlFails(t)

\* Every socket was closed and no request is being served.
Done ==
  /\ \A c \in Conns : handler[c] = "closed"
  /\ \A t \in Callers : caller[t] = "idle"
  /\ UNCHANGED vars

Next == (\E c \in Conns : Handle(c)) \/ (\E t \in Callers : Call(t)) \/ Done

Spec == Init /\ [][Next]_vars

-----------------------------------------------------------------------------
(* Fairness.  A thread that can run does run, and every sendall ends or     *)
(* times out.  recv ends after 90 s without data, so a handler does not     *)
(* stay in it for ever.  Nothing makes the robot or a client send.  A       *)
(* waiter of the lock can be overtaken, but not for ever (SF).              *)

HandlerRuns(c) ==
  \/ LearnAuth(c) \/ LearnIp(c) \/ LearnPort(c) \/ LoginAck(c) \/ OtherAck(c)
  \/ AttachConnected(c) \/ DetachConnected(c) \/ Close(c)

CallerRuns(t) ==
  \/ ReadyAuth(t) \/ ReadyIp(t) \/ CopyAuth(t) \/ CopyIp(t) \/ Build(t)
  \/ SendControl(t) \/ SendControlFails(t)

Fairness ==
  /\ \A c \in Conns :
       /\ WF_vars(HandlerRuns(c))
       /\ WF_vars(RecvFails(c))
       /\ SF_vars(AttachSocket(c) \/ DetachSocket(c) \/ DetachStale(c))
  /\ \A t \in Callers : WF_vars(CallerRuns(t)) /\ SF_vars(Acquire(t))

FairSpec == Spec /\ Fairness

-----------------------------------------------------------------------------
(* Properties.                                                              *)

\* Every variable holds a value of its kind.
TypeOK ==
  /\ messages \in 0..MaxMessages
  /\ handler \in [Conns -> HandlerStep]
  /\ login \in [Conns -> SUBSET Fields]
  /\ caller \in [Callers -> CallerStep]
  /\ ctx \in [Callers -> Ctx]
  /\ answer \in [Callers -> Answers]
  /\ requests \in 0..MaxRequests
  /\ lock \in Threads \union {None}
  /\ socket \in Teacher
  /\ connected \in BOOLEAN
  /\ session \in [Fields -> Teacher]
  /\ nextSeq \in 0..(SeqModulus - 1)
  /\ issued \in Nat
  /\ unfinished \in [Conns -> SUBSET (Threads \union {None})]
  /\ sent \in Seq(Frame)
  /\ torn \subseteq Tears
  /\ acked \subseteq Conns
  /\ latest \in Teacher
  /\ overlapped \subseteq Conns

\* The lock-free `connected` that GET /api/status and /api/health report
\* agrees with the socket whenever no handler is between the two assignments
\* of attach (tcp_server.py:47-49) or detach (54-56).
ConnectedMatchesSocket == lock \notin Conns => (connected <=> socket # None)

\* A closed socket is neither the current one nor in the hands of a caller:
\* handle_tcp_client detaches before it closes (112-114), and detach waits
\* for a send_control that still writes to the socket (59-72).
SocketInUseIsOpen ==
  \A c \in Conns : handler[c] = "closed" =>
    /\ socket # c
    /\ \A t \in Callers : caller[t] \in Holding => ctx[t].sock # c

\* The robot that logged in last keeps the command channel until its own
\* handler leaves: an older handler that times out later must not clear it
\* (the `is sock` test of detach, 53).
LastLoginWins ==
  \A c \in Conns : latest = c /\ handler[c] \notin Leaving => socket = c

\* No command reaches a connection before its login was acknowledged
\* completely (101 before 102).
LoginAckBeforeCommands == \A i \in 1..Len(sent) : sent[i].conn \in acked

\* Two commands never cut each other while both are being written: sendall
\* is under the lock (72).
CommandsDoNotInterleave == "command in command" \notin torn

\* Commands leave in the order in which they took their sequence numbers,
\* across reconnects as well, and a number is reused only after the counter
\* went round once (commands.py:30-34, tcp_server.py:71-72).
SentInOrder ==
  \A i, j \in 1..Len(sent) : i < j =>
    /\ sent[i].nth < sent[j].nth
    /\ sent[j].nth - sent[i].nth < SeqModulus => sent[i].seq # sent[j].seq

\* 200 means that this command, with the sequence number in the answer, went
\* out; 400 and 409 mean that nothing did (api_server.py:58-60, 77-80).
AnswersAreHonest ==
  \A t \in Callers :
    LET mine == {i \in 1..Len(sent) :
                   sent[i].conn = ctx[t].sock /\ sent[i].nth = ctx[t].nth}
    IN  /\ answer[t] = "200" =>
             \E i \in mine : sent[i].seq = ctx[t].seq
        /\ answer[t] = "400" => mine = {}
        /\ answer[t] = "409" => ctx[t].auth = None /\ ctx[t].ip = None

\* As long as the logins of two robots do not overlap, a command carries only
\* credentials of the robot it is sent to.
ForeignCredentialsNeedOverlap ==
  \A i \in 1..Len(sent) :
    LET f == sent[i]
    IN  {f.auth, f.ip, f.port} \subseteq {f.conn, None}
          \/ f.conn \in overlapped

-----------------------------------------------------------------------------
(* The inductive invariant behind the safety properties.                    *)

\* The lock belongs to exactly the thread that is inside a with block.
LockHeld ==
  /\ \A t \in Callers : caller[t] \in Holding <=> lock = t
  /\ \A c \in Conns :
       handler[c] \in {"attach_connected", "detach_connected"} <=> lock = c

\* What a caller copied before it sends is still what it copied: the socket
\* cannot change under the lock, and a frame never lacks a credential.
CtxOK ==
  \A t \in Callers :
    /\ caller[t] \in Holding => socket \in Conns /\ ctx[t].sock = socket
    /\ caller[t] \in Sending => ctx[t].auth \in Conns /\ ctx[t].ip \in Conns

\* Where a handler stands tells what socket and connected are.
HandlerOK ==
  /\ ConnectedMatchesSocket
  /\ LastLoginWins
  /\ \A c \in Conns :
       /\ handler[c] = "attach_connected" => socket = c
       /\ handler[c] = "detach_connected" => socket = None
       /\ handler[c] \in {"new", "close", "closed"} => socket # c

\* Only acknowledged logins get as far as attach.
AckedOK ==
  /\ \A c \in Conns : handler[c] = "attach" \/ socket = c => c \in acked
  /\ LoginAckBeforeCommands

\* The frame about to be sent has the highest number, every earlier number
\* is on the wire or lost, and numbers and sequence numbers correspond.
OrderOK ==
  /\ nextSeq = (FirstSeq + issued) % SeqModulus
  /\ \A i \in 1..Len(sent) :
       /\ sent[i].nth < issued
       /\ sent[i].seq = (FirstSeq + sent[i].nth) % SeqModulus
  /\ \A i, j \in 1..Len(sent) : i < j => sent[i].nth < sent[j].nth
  /\ \A t \in Callers : caller[t] = "send" =>
       /\ ctx[t].nth < issued
       /\ ctx[t].seq = (FirstSeq + ctx[t].nth) % SeqModulus
       /\ \A i \in 1..Len(sent) : sent[i].nth < ctx[t].nth

\* Requests that have yet to take a number.
Unnumbered ==
  {t \in Callers : caller[t] \in {"waiting"} \union (Holding \ Sending)}

\* Every number belongs to a request, so numbers are bounded as requests are.
CountOK == issued + Cardinality(Unnumbered) <= requests

\* An unfinished command belongs to the caller that is sending its rest.
UnfinishedOK ==
  /\ \A c \in Conns : \A t \in Callers \intersect unfinished[c] :
       caller[t] = "send_rest" /\ ctx[t].sock = c
  /\ CommandsDoNotInterleave

IInv ==
  /\ TypeOK /\ LockHeld /\ CtxOK /\ HandlerOK
  /\ AckedOK /\ OrderOK /\ CountOK /\ UnfinishedOK

-----------------------------------------------------------------------------

\* The command channel is what ControlChannel promises.
Channel == INSTANCE ControlChannel WITH
  Numbers <- 0..MaxRequests,
  current <- socket,
  closed <- {c \in Conns : handler[c] = "closed"},
  delivered <- [i \in 1..Len(sent) |->
                  [conn |-> sent[i].conn, nth |-> sent[i].nth]]

\* attach, detach and send_control implement the abstract command channel.
ImplementsControlChannel == Channel!Spec

\* Every accepted command request ends: with an answer or with a dropped
\* connection, never in an endless wait for the lock (59).
RequestsAnswered ==
  \A t \in Callers : (caller[t] = "waiting") ~> (answer[t] # "none")

\* A robot that goes silent without closing its connection does not remain
\* the current one: the 90 s timeout (81, 109-112) ends its session.
SilentRobotDetached ==
  \A c \in Conns :
    <>[](handler[c] \notin {"learn_auth", "ack"}) => <>[](socket # c)

\* Not true of the code: every command carries credentials of the robot it is
\* sent to.  The session is overwritten by any login (97) before, and without
\* regard to, attach (102).
CredentialsOfConnection ==
  \A i \in 1..Len(sent) :
    {sent[i].auth, sent[i].ip, sent[i].port} \subseteq {sent[i].conn, None}

\* Not true of the code: the robot receives a sequence of whole frames.
\* Acknowledgements are written without the lock that commands hold (101,
\* 106, 108 against 72).
NoTornFrames == torn = {}
=============================================================================
