------------------------------ MODULE Bootstrap ------------------------------
(***************************************************************************)
(* One request to the robot-facing HTTP service (http_server.py), by which *)
(* the robot fetches its token: the head is read up to the empty line,     *)
(* then the body its Content-Length announces, then one answer is sent     *)
(* and the connection closed.                                              *)
(*                                                                         *)
(* Bytes are counted: a request is the length of its head, the number in   *)
(* its last Content-Length line (0 without one or when it is no number),   *)
(* the bytes of body that really follow, and whether it asks for a token.  *)
(***************************************************************************)
EXTENDS Integers

CONSTANTS
  Requests,   \* what a robot may send
  BlockSize   \* the size of a receive, 4096

ASSUME RequestsOK ==
  Requests \subseteq
    [head : Nat \ {0}, length : Int, body : Nat, token : BOOLEAN]
ASSUME BlockOK == BlockSize \in Nat \ {0}

VARIABLE http  \* the connection

(* request   the request of this connection                                 *)
(* arrived   how many of its bytes have arrived                             *)
(* ended     the robot has closed its side                                  *)
(* stage     where the handler is                                           *)
(* read      len(data)                                                      *)
(* reply     the body it answered with                                      *)
HttpStart ==
  {[request |-> r, arrived |-> 0, ended |-> FALSE, stage |-> "head",
    read |-> 0, reply |-> "none"] : r \in Requests}

Size == http.request.head + http.request.body

-----------------------------------------------------------------------------

Serving == http.stage \in {"head", "body"}

HttpArrives ==
  /\ Serving /\ ~http.ended
  /\ \E n \in (http.arrived + 1)..Size : http' = [http EXCEPT !.arrived = n]

ClientCloses == Serving /\ ~http.ended /\ http' = [http EXCEPT !.ended = TRUE]

\* Mutant: the head counts as body.
MissingOfAll == http.request.length - http.read

\* What is missing of the body; not positive when all was read with the head.
Missing == http.request.length - (http.read - http.request.head)

\* recv(most) returns some of the bytes that have arrived.
Receives(most, n) == n \in 1..most /\ http.read + n <= http.arrived

ReadHead ==
  /\ http.stage = "head"
  /\ \E n \in 1..BlockSize :
       /\ Receives(BlockSize, n)
       /\ http' = [http EXCEPT !.read = @ + n,
            !.stage = IF http.read + n >= http.request.head THEN "body" ELSE @]

ReadBody ==
  /\ http.stage = "body"
  /\ \E n \in 1..Missing :
       Receives(Missing, n) /\ http' = [http EXCEPT !.read = @ + n]

Starving == http.stage = "head" \/ (http.stage = "body" /\ Missing > 0)
AtEnd == http.ended /\ http.read = http.arrived

\* The end of the stream inside the head: no answer.
HeadEnds ==
  http.stage = "head" /\ AtEnd /\ http' = [http EXCEPT !.stage = "closed"]

\* Five seconds without a byte.
HttpTimesOut ==
  /\ Starving /\ ~http.ended /\ http.read = http.arrived
  /\ http' = [http EXCEPT !.stage = "closed"]

\* The answer is due, but its sendall raises.
AnswerFails ==
  /\ http.stage = "body"
  /\ Missing <= 0 \/ AtEnd
  /\ http' = [http EXCEPT !.stage = "closed"]

\* The body is complete, or will not be: it is not looked at.
Answer ==
  /\ http.stage = "body"
  /\ Missing <= 0 \/ AtEnd
  /\ http' = [http EXCEPT !.stage = "replied",
                !.reply = IF http.request.token THEN "token" ELSE "ok"]

HttpServes == ReadHead \/ ReadBody \/ HeadEnds \/ Answer
HttpFails == ClientCloses \/ HttpTimesOut \/ AnswerFails

-----------------------------------------------------------------------------
(* Properties.                                                              *)

\* A robot that announces its body truly is answered only when all it sends was
\* read, unless it closed its side: closing the connection with unread bytes
\* would reset it, and the answer could be lost (http_server.py:74-81).
ReadBeforeAnswer ==
  http.stage = "replied" /\ http.request.length = http.request.body /\ ~http.ended
    => http.read = Size
=============================================================================
