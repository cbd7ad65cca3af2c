-------------------------- MODULE MC_RobotFacing ---------------------------
(* An instance of RobotFacing for TLC: headers of 2 bytes, packets up to 4. *)
EXTENDS RobotFacing

AckSizes == [login |-> 3, normal |-> 2, keepalive |-> 0]

Bare == [size |-> 2, length |-> 2, control |-> FALSE, payload |-> "none"]
Login == [size |-> 4, length |-> 4, control |-> FALSE, payload |-> "login"]
Text == [size |-> 3, length |-> 3, control |-> FALSE, payload |-> "text"]
Response == [size |-> 2, length |-> 2, control |-> TRUE, payload |-> "none"]
TooShort == [size |-> 3, length |-> 1, control |-> FALSE, payload |-> "text"]
TooLong == [size |-> 3, length |-> 5, control |-> FALSE, payload |-> "json"]

\* Packets one after the other.
Stream(first, second, third) ==
  LET At(p, n) == [at |-> n, size |-> p.size, length |-> p.length,
                   control |-> p.control, payload |-> p.payload]
  IN  <<At(first, 0), At(second, first.size), At(third, first.size + second.size)>>

SomeStreams ==
  {Stream(Login, Bare, Text), Stream(Bare, Login, Response),
   Stream(Text, Login, TooShort), Stream(Login, TooLong, Bare)}

\* A request in order, one that sends less or more than it announces, one with
\* a negative length, and one for something else.
SomeRequests ==
  {[head |-> 3, length |-> 2, body |-> 2, token |-> TRUE],
   [head |-> 2, length |-> 2, body |-> 1, token |-> TRUE],
   [head |-> 2, length |-> -1, body |-> 1, token |-> TRUE],
   [head |-> 2, length |-> 1, body |-> 2, token |-> FALSE]}
=============================================================================
