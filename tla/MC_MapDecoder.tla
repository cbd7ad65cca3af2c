--------------------------- MODULE MC_MapDecoder ---------------------------
(* An instance of MapDecoder for TLC: bytes of two cells, a 4 x 2 map.     *)
EXTENDS MapDecoder

Lit(b) == [kind |-> "literal", byte |-> b]
Short(n, b) == [kind |-> "run", count |-> n, byte |-> b]
Long(n, b) == [kind |-> "long", count |-> n, byte |-> b]

\* Counts of zero, one, three and beyond one byte; a byte that looks like a
\* marker can only follow a long count.
SomeTokens ==
  {Lit(6), Lit(11), Short(0, 9), Short(1, 6), Short(3, 11),
   Long(0, 6), Long(2, 13), Long(5, 14)}

Bodies == UNION {[1..n -> SomeTokens] : n \in 1..3}
MaySome(m) == m.cut = 0 \/ m.cut < Len(Encoded(Last(m.body)))
SomeMaps ==
  {m \in [valid : {TRUE}, header : {TRUE}, body : Bodies, cut : 0..2] : MaySome(m)}
  \cup {[valid |-> v, header |-> FALSE, body |-> <<>>, cut |-> 0] : v \in BOOLEAN}
  \cup {[valid |-> TRUE, header |-> TRUE, body |-> <<>>, cut |-> 0]}

OneMap == {[valid |-> TRUE, header |-> TRUE, body |-> <<Lit(6)>>, cut |-> 0]}

\* -8, -3, -1, 0, 1, 2, 5 and 7 in a byte of four bits.
Coordinates == {8, 13, 15, 0, 1, 2, 5, 7}
Points == Coordinates \X Coordinates
Path(p, q, r) == <<p[1], p[2], q[1], q[2], r[1], r[2]>>
Good(bytes) == [valid |-> TRUE, header |-> TRUE, bytes |-> bytes]
SomeTracks ==
  {Good(p \o q) : p, q \in Points}
  \cup {Good(Path(p, <<1, 1>>, q)) : p, q \in {0, 2, 15} \X {0, 13, 5}}
  \cup {Good(<<>>), Good(<<1, 1>>), Good(<<8, 0>>), Good(<<1>>), Good(<<1, 0, 2>>)}
  \cup {[valid |-> v, header |-> FALSE, bytes |-> b] : v \in BOOLEAN, b \in {<<>>, <<1>>}}
  \cup {[valid |-> FALSE, header |-> TRUE, bytes |-> <<0, 0>>]}

OneTrack == {Good(<<0, 0, 3, 1>>)}

\* Every map with one track, and every track with one map.
SomeArguments == (SomeMaps \X OneTrack) \cup (OneMap \X SomeTracks)
=============================================================================
