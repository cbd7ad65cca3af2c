----------------------------- MODULE RobotFacing -----------------------------
(***************************************************************************)
(* A robot that connects: it fetches a token over HTTP (Bootstrap), opens  *)
(* its TCP connection (Framing) and logs in, and starts over whenever a    *)
(* connection ends.  The robot is external: that it does so is observed    *)
(* (docs/protocol.md), not taken from the code.                            *)
(***************************************************************************)
EXTENDS Bootstrap, Framing

CONSTANT MaxTrouble   \* bound on what goes wrong in a behaviour
ASSUME TroubleBound == MaxTrouble \in Nat

VARIABLES
  phase,      \* what the robot is doing: "http" or "tcp"
  listening,  \* serve_tcp is running
  trouble     \* how often something went wrong

vars == <<http, tcp, phase, listening, trouble>>

Init ==
  /\ http \in HttpStart /\ tcp \in TcpStart
  /\ phase = "http" /\ listening = TRUE /\ trouble = 0

-----------------------------------------------------------------------------

OnHttp(Step) ==
  phase = "http" /\ Step /\ UNCHANGED <<tcp, phase, listening>>
OnTcp(Step) ==
  phase = "tcp" /\ Step /\ UNCHANGED <<http, phase, listening>>

Arrives == (OnHttp(HttpArrives) \/ OnTcp(TcpArrives)) /\ UNCHANGED trouble
Serves == (OnHttp(HttpServes) \/ OnTcp(TcpServes)) /\ UNCHANGED trouble

\* serve_tcp accepts the connection of a robot that has its token.
Connect ==
  /\ phase = "http" /\ http.reply = "token" /\ listening
  /\ phase' = "tcp"
  /\ UNCHANGED <<http, tcp, listening, trouble>>

\* A receive that will get no more bytes ends when its time is up.
Silence ==
  /\ \/ http.arrived = Size /\ OnHttp(HttpTimesOut)
     \/ (tcp.ended \/ tcp.arrived = Total(tcp.stream)) /\ OnTcp(RecvRaises)
  /\ UNCHANGED trouble

\* The connection is over, refused, or was one for another request.
Over ==
  \/ /\ phase = "http"
     /\ \/ http.stage = "closed"
        \/ http.stage = "replied" /\ (http.reply # "token" \/ ~listening)
  \/ phase = "tcp" /\ tcp.stage \in {"closed", "broken"}

StartOver ==
  /\ Over
  /\ phase' = "http" /\ http' \in HttpStart /\ tcp' \in TcpStart
  /\ UNCHANGED <<listening, trouble>>

\* An OSError of accept, too many open files say, ends the listener for good.
AcceptFails == listening /\ listening' = FALSE /\ UNCHANGED <<http, tcp, phase>>

Trouble ==
  /\ trouble < MaxTrouble /\ trouble' = trouble + 1
  /\ OnHttp(HttpFails) \/ OnTcp(TcpFails) \/ AcceptFails

Next ==
  Arrives \/ Serves \/ Connect \/ Silence \/ StartOver \/ Trouble

Spec == Init /\ [][Next]_vars

\* The server's threads run; the robot goes on sending and starts over.
FairSpec ==
  /\ Spec
  /\ WF_vars(Arrives) /\ WF_vars(Serves) /\ WF_vars(Connect)
  /\ WF_vars(Silence) /\ WF_vars(StartOver)

-----------------------------------------------------------------------------
(* Properties.                                                              *)

LoggedIn == \E i \in 1..Len(tcp.acks) : tcp.acks[i].ack = "login"

\* A token request that announces no more than it sends.
Honest ==
  /\ phase = "http" /\ http.arrived = 0
  /\ http.request.token /\ http.request.length <= http.request.body

\* As long as serve_tcp lives, a robot that keeps asking for its token and then
\* sends its login gets its acknowledgement, again after every loss of a
\* connection: pieces, silence and lost connections cost a try each, but
\* nothing waits for ever.
RobotGetsIn == []listening /\ []<>Honest => []<>LoggedIn
=============================================================================
