----------------------------- MODULE MapDecoder -----------------------------
(***************************************************************************)
(* Rendering one map (map_decoder.py): decode_map expands the run lengths  *)
(* of the map, decode_track reads the coordinates, and render_map_png      *)
(* paints the track over the map, line by line.                            *)
(*                                                                         *)
(* Abstractions.  The number of cells in a byte is a parameter: 4 in the   *)
(* code, fewer in an instance, and with it go the values of a byte, the    *)
(* mark in its top two bits and the counts below it.  Base64 is valid or   *)
(* not.  Colours, the scale (each cell becomes a square of that many       *)
(* pixels) and the PNG container are left out.                             *)
(***************************************************************************)
EXTENDS Integers, Sequences, FiniteSetsExt, SequencesExt

CONSTANTS
  PerByte,         \* cells in a byte, 4
  Width, Height,   \* MAP_WIDTH, MAP_HEIGHT
  Arguments        \* map payloads, [valid, header, body, cut], each with a
                   \* track payload, [valid, header, bytes]

CountBase == 2 ^ (2 * (PerByte - 1))
Mark == 3 * CountBase
Bytes == 0..(4 * CountBase - 1)
Abs(n) == IF n < 0 THEN -n ELSE n
Expected == Width * Height

(* The body of a map payload is kept as its encoder saw it, a sequence of   *)
(* tokens; the decoder is given their bytes only.  `cut` is how many bytes   *)
(* of the last token are missing.                                            *)
Tokens ==
  [kind : {"literal"}, byte : 0..(Mark - 1)]
    \union [kind : {"run"}, count : 0..(CountBase - 1), byte : 0..(Mark - 1)]
    \union [kind : {"long"}, count : 0..(CountBase * CountBase - 1), byte : Bytes]

Encoded(t) ==
  CASE t.kind = "literal" -> <<t.byte>>
    [] t.kind = "run" -> <<Mark + t.count, t.byte>>
    [] t.kind = "long" ->
         <<Mark + (t.count \div CountBase), Mark + (t.count % CountBase), t.byte>>

ASSUME SizesOK == {PerByte, Width, Height} \subseteq Nat \ {0}
ASSUME ArgumentsOK ==
  \A a \in Arguments :
    /\ {a[1].valid, a[1].header, a[2].valid, a[2].header} \subseteq BOOLEAN
    /\ a[1].body \in Seq(Tokens)
    /\ \/ a[1].cut = 0
       \/ a[1].body # <<>> /\ a[1].cut \in 1..(Len(Encoded(Last(a[1].body))) - 1)
    /\ a[2].bytes \in Seq(Bytes)

VARIABLES
  map, track,   \* the two arguments of render_map_png
  stage,        \* "map", "track", "line", "done" or "error"
  index,        \* index of decode_map
  cells,        \* cells of decode_map
  points,       \* what is left of the track
  error,        \* error of _line_points
  at,           \* x0 and y0 of _line_points
  painted       \* the cells under the track

vars == <<map, track, stage, index, cells, points, error, at, painted>>
atLine == <<points, error, at, painted>>

\* The decoder starts anew for each request.
Init ==
  /\ \E a \in Arguments : map = a[1] /\ track = a[2]
  /\ stage = "map" /\ index = 1 /\ cells = <<>>
  /\ points = <<>> /\ error = 0 /\ at = <<0, 0>> /\ painted = {}

-----------------------------------------------------------------------------
(* decode_map                                                               *)

encoded ==
  LET all == FlattenSeq([i \in DOMAIN map.body |-> Encoded(map.body[i])])
  IN  SubSeq(all, 1, Len(all) - map.cut)

\* _unpack_map_byte: the first cell is in the two highest bits.
Unpack(byte) == [i \in 1..PerByte |-> (byte \div 4 ^ (PerByte - i)) % 4]

Marked(i) == encoded[i] >= Mark
Count(i) == encoded[i] - Mark

Decoding == stage = "map" /\ index <= Len(encoded) /\ Len(cells) < Expected

\* del cells[expected:], and no more repetitions than needed.
Fitted(s) == SubSeq(s, 1, Min({Len(s), Expected}))

\* `count` times the byte at `i`.
Repeat(count, i) ==
  /\ cells' = Fitted(cells \o FlattenSeq([n \in 1..count |-> Unpack(encoded[i])]))
  /\ index' = i + 1
  /\ UNCHANGED stage

Raise == stage' = "error" /\ UNCHANGED <<index, cells>>

\* Base64 is checked first, then the length of the header.
BadPayload ==
  /\ stage = "map" /\ index = 1
  /\ ~map.valid \/ ~map.header
  /\ Raise /\ UNCHANGED <<map, track, atLine>>

GoodPayload == map.valid /\ map.header

Literal ==
  /\ Decoding /\ GoodPayload /\ ~Marked(index)
  /\ Repeat(1, index) /\ UNCHANGED <<map, track, atLine>>

\* Mutant: the second marker is taken for the byte to repeat.
NeverExtended(i) == FALSE

Extended(i) == Marked(i)

ExtendedCount(i) == Count(i) * CountBase + Count(i + 1)

\* The count may go on in a second marker; either may be the last byte.
Run ==
  /\ Decoding /\ GoodPayload /\ Marked(index)
  /\ LET next == index + 1
     IN  IF next > Len(encoded) THEN Raise
         ELSE IF ~Extended(next) THEN Repeat(Count(index), next)
         ELSE IF next + 1 > Len(encoded) THEN Raise
         ELSE Repeat(ExtendedCount(index), next + 1)
  /\ UNCHANGED <<map, track, atLine>>

\* What is missing is unknown (0).
Padded ==
  [i \in 1..Expected |-> IF i <= Len(cells) THEN cells[i] ELSE 0]

MapDecoded ==
  /\ stage = "map" /\ GoodPayload /\ ~Decoding
  /\ cells' = Padded /\ stage' = "track"
  /\ UNCHANGED <<map, track, index, atLine>>

-----------------------------------------------------------------------------
(* decode_track                                                             *)

Signed(byte) == IF byte >= 2 * CountBase THEN byte - 4 * CountBase ELSE byte

Pairs(bytes) ==
  [i \in 1..(Len(bytes) \div 2) |->
     <<Signed(bytes[2 * i - 1]), Signed(bytes[2 * i])>>]

\* No track at all, None or the empty string, is a track without points.
NoTrack == track.valid /\ ~track.header /\ track.bytes = <<>>

BadTrack ==
  /\ stage = "track" /\ ~NoTrack
  /\ ~track.valid \/ ~track.header \/ Len(track.bytes) % 2 = 1
  /\ Raise /\ UNCHANGED <<map, track, atLine>>

OnMap(p) == p[1] \in 0..(Width - 1) /\ p[2] \in 0..(Height - 1)

\* paint: what is outside of the map is skipped.
Paint(p) == painted' = painted \cup (IF OnMap(p) THEN {p} ELSE {})

\* dx + dy of _line_points, at its start.
Span(p, q) == Abs(q[1] - p[1]) - Abs(q[2] - p[2])

TrackDecoded ==
  /\ stage = "track" /\ track.valid /\ Len(track.bytes) % 2 = 0
  /\ track.header \/ NoTrack
  /\ LET all == Pairs(track.bytes)
     IN  IF all = <<>>
         THEN stage' = "done" /\ UNCHANGED atLine
         ELSE /\ stage' = "line"
              /\ points' = all /\ at' = all[1] /\ Paint(all[1])
              /\ error' = IF Len(all) > 1 THEN Span(all[1], all[2]) ELSE 0
  /\ UNCHANGED <<map, track, index, cells>>

-----------------------------------------------------------------------------
(* render_map_png and _line_points                                          *)

\* The line from points[1] to points[2] is in hand.
dx == Abs(points[2][1] - points[1][1])
dy == -Abs(points[2][2] - points[1][2])
sx == IF points[1][1] < points[2][1] THEN 1 ELSE -1
sy == IF points[1][2] < points[2][2] THEN 1 ELSE -1

Along == 2 * error >= dy

\* Mutant: the doubled error is computed again after the step along.
DownAfterAlong == 2 * (error + (IF Along THEN dy ELSE 0)) <= dx

Down == 2 * error <= dx

\* One step of the loop: the error grows by what the step was off the line.
LineStep ==
  /\ stage = "line" /\ Len(points) > 1 /\ at # points[2]
  /\ error' = error + (IF Along THEN dy ELSE 0) + (IF Down THEN dx ELSE 0)
  /\ at' = <<at[1] + (IF Along THEN sx ELSE 0), at[2] + (IF Down THEN sy ELSE 0)>>
  /\ Paint(at')
  /\ UNCHANGED <<map, track, stage, index, cells, points>>

\* Mutant: the line to the next point starts at the first one.
FromFirst == <<Head(points)>> \o Tail(Tail(points))

\* previous = point
FromLast == Tail(points)

NextLine ==
  /\ stage = "line" /\ Len(points) > 1 /\ at = points[2]
  /\ points' = FromLast
  /\ at' = points'[1] /\ Paint(points'[1])
  /\ error' = IF Len(points') > 1 THEN Span(points'[1], points'[2]) ELSE 0
  /\ UNCHANGED <<map, track, stage, index, cells>>

Drawn ==
  /\ stage = "line" /\ Len(points) = 1
  /\ stage' = "done"
  /\ UNCHANGED <<map, track, index, cells, atLine>>

Over == stage \in {"done", "error"} /\ UNCHANGED vars

Next ==
  \/ BadPayload \/ Literal \/ Run \/ MapDecoded
  \/ BadTrack \/ TrackDecoded \/ LineStep \/ NextLine \/ Drawn
  \/ Over

Spec == Init /\ [][Next]_vars

-----------------------------------------------------------------------------
(* Properties.                                                              *)

\* What a token stands for.
Expansion(t) ==
  FlattenSeq([n \in 1..(IF t.kind = "literal" THEN 1 ELSE t.count) |-> Unpack(t.byte)])
Cells(tokens) == FlattenSeq([i \in DOMAIN tokens |-> Expansion(tokens[i])])
Picture(tokens) ==
  LET all == Cells(tokens)
  IN  [i \in 1..Expected |-> IF i <= Len(all) THEN all[i] ELSE 0]
Whole == IF map.cut = 0 THEN map.body ELSE Front(map.body)
Fills(tokens) == Len(Cells(tokens)) >= Expected

\* decode_map inverts the encoding: whatever mix of literals, runs and runs
\* with a count in two bytes, of counts of zero and of more cells than the map
\* has, the picture is the one that was encoded; a payload that ends inside a
\* run is refused unless the picture was complete before it
\* (map_decoder.py:65-94).
DecodesRuns ==
  /\ stage \in {"track", "line", "done"} =>
       /\ cells = Picture(Whole)
       /\ GoodPayload /\ (map.cut # 0 => Fills(Whole))
  /\ stage = "error" /\ GoodPayload /\ Len(cells) < Expected
       => map.cut # 0 /\ ~Fills(Whole)

\* Twice the distance of c from the line through p and q, measured across the
\* direction in which the line is longer, and times its length.
Off(c, p, q) ==
  2 * Abs((c[1] - p[1]) * (q[2] - p[2]) - (c[2] - p[2]) * (q[1] - p[1]))
Length(p, q) == Max({Abs(q[1] - p[1]), Abs(q[2] - p[2])})
Between(a, b, c) == (b - a) * (b - c) <= 0
Near(c, p, q) ==
  Between(p[1], c[1], q[1]) /\ Between(p[2], c[2], q[2]) /\ Off(c, p, q) <= Length(p, q)
Meets(c, p, q) ==
  Near(c, p, q) /\ (Off(c, p, q) < Length(p, q) \/ c = p)

\* The coordinates as the robot meant them.
Meant(i) ==
  CHOOSE z \in -(2 * CountBase)..(2 * CountBase - 1) :
    (z - track.bytes[i]) % (4 * CountBase) = 0
Legs ==
  {<<<<Meant(2 * i - 1), Meant(2 * i)>>, <<Meant(2 * i + 1), Meant(2 * i + 2)>>>> :
     i \in 1..(Len(track.bytes) \div 2 - 1)}

\* The track is drawn through all its points, the ones outside of the map
\* included: each cell a leg passes through by less than half a cell is
\* painted, no cell farther than that is, and none outside of the map
\* (map_decoder.py:146-183).
TrackIsDrawn ==
  stage = "done" /\ Legs # {} =>
    \A c \in (0..(Width - 1)) \X (0..(Height - 1)) :
      /\ (\E l \in Legs : Meets(c, l[1], l[2])) => c \in painted
      /\ c \in painted => \E l \in Legs : Near(c, l[1], l[2])

\* How far the end of the current leg is.
Rest == IF Len(points) < 2 THEN 0 ELSE Length(at, points[2])

\* Every payload is rendered or refused: each round of decode_map consumes
\* bytes, each round of _line_points comes nearer to the end of its leg, so that
\* none of the loops goes on for ever (map_decoder.py:65, 157, 173).
RenderAdvances ==
  [][\/ stage' # stage
     \/ index' > index
     \/ Len(points') < Len(points)
     \/ points' = points /\ Rest' < Rest]_vars
=============================================================================
