--------------------------- MODULE ControlChannel ---------------------------
(***************************************************************************)
(* What the robot connection promises its callers, without threads, locks  *)
(* or bytes.  At most one robot connection is current.  A command is       *)
(* delivered to the connection that is current at that instant, commands   *)
(* are delivered in the order in which they were numbered, and a           *)
(* connection that was closed is never current again.                      *)
(***************************************************************************)
EXTENDS Naturals, Sequences

CONSTANTS Conns,    \* robot TCP connections
          Numbers,  \* the numbers (naturals) commands can carry
          None      \* "no connection", not a member of Conns

VARIABLES current,    \* the connection commands go to, or None
          closed,     \* connections that have been closed
          delivered   \* the commands delivered so far, oldest first

vars == <<current, closed, delivered>>

Delivery == [conn : Conns, nth : Numbers]

Init ==
  /\ current = None
  /\ closed = {}
  /\ delivered = <<>>

\* A robot completes its login: its connection replaces any current one.
Login(c) ==
  /\ c \notin closed
  /\ current' = c
  /\ UNCHANGED <<closed, delivered>>

\* The current connection is lost.
Logout(c) ==
  /\ current = c
  /\ current' = None
  /\ UNCHANGED <<closed, delivered>>

\* A connection that commands no longer go to is closed.
Close(c) ==
  /\ current # c
  /\ closed' = closed \union {c}
  /\ UNCHANGED <<current, delivered>>

\* The nth command is handed to the current connection.
Deliver(n) ==
  /\ current # None
  /\ \A i \in 1..Len(delivered) : delivered[i].nth < n
  /\ delivered' = Append(delivered, [conn |-> current, nth |-> n])
  /\ UNCHANGED <<current, closed>>

Next ==
  \/ \E c \in Conns : Login(c) \/ Logout(c) \/ Close(c)
  \/ \E n \in Numbers : Deliver(n)

Spec == Init /\ [][Next]_vars
=============================================================================
