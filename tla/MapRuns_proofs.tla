--------------------------- MODULE MapRuns_proofs ----------------------------
(* Proofs about decode_map of MapDecoder: whatever was encoded, however long *)
(* its runs and wherever it is cut, the cells are the ones that were meant.  *)
EXTENDS MapDecoder, FlattenSeqTheorems, FiniteSetTheorems

-----------------------------------------------------------------------------
(* Numbers and tokens.                                                      *)

LEMMA Sizes ==
  CountBase \in Nat \ {0} /\ Expected \in Nat /\ PerByte \in Nat \ {0}
<1>1. PICK n \in Nat : n = 2 * (PerByte - 1)
  BY SizesOK
<1>2. IsFiniteSet(1..n) /\ Cardinality(1..n) = n
  BY FS_Interval
<1>3. IsFiniteSet(SUBSET (1..n)) /\ Cardinality(SUBSET (1..n)) = 2 ^ n
  BY <1>2, FS_SUBSET
<1>4. Cardinality(SUBSET (1..n)) \in Nat /\ Cardinality(SUBSET (1..n)) # 0
  <2>1. SUBSET (1..n) # {}
    OBVIOUS
  <2> QED
    BY <1>3, <2>1, FS_CardinalityType, FS_EmptySet
<1>5. CountBase \in Nat \ {0}
  BY <1>1, <1>3, <1>4 DEF CountBase
<1>6. Expected \in Nat /\ PerByte \in Nat \ {0}
  BY SizesOK DEF Expected
<1> QED
  BY <1>5, <1>6

\* The values a cell can have.
Shades ==
  {(p[1] \div 4 ^ (PerByte - p[2])) % 4 : p \in Bytes \X (1..PerByte)}

LEMMA UnpackType == \A b \in Bytes : Unpack(b) \in Seq(Shades)
<1> SUFFICES ASSUME NEW b \in Bytes PROVE Unpack(b) \in Seq(Shades)
  OBVIOUS
<1>1. ASSUME NEW i \in 1..PerByte
      PROVE  (b \div 4 ^ (PerByte - i)) % 4 \in Shades
  <2>1. <<b, i>> \in Bytes \X (1..PerByte)
    OBVIOUS
  <2>2. (<<b, i>>[1] \div 4 ^ (PerByte - <<b, i>>[2])) % 4 \in Shades
    BY <2>1 DEF Shades
  <2> QED
    BY <2>2
<1>2. Unpack(b) \in [1..PerByte -> Shades]
  BY <1>1 DEF Unpack
<1> QED
  BY <1>2, Sizes

\* The two digits of a count.
LEMMA Digits ==
  ASSUME NEW C \in Nat \ {0}, NEW n \in Nat, n < C * C
  PROVE  /\ n = (n \div C) * C + (n % C)
         /\ n % C \in 0..(C - 1) /\ n \div C \in 0..(C - 1)
OBVIOUS

\* What is in a token, and what it looks like in bytes.
LEMMA TokenBytes ==
  ASSUME NEW t \in Tokens
  PROVE  /\ t.byte \in Bytes /\ Encoded(t) \in Seq(Bytes) /\ Len(Encoded(t)) \in 1..3
         /\ t.kind \in {"literal", "run", "long"}
         /\ t.kind = "literal" =>
              Len(Encoded(t)) = 1 /\ Encoded(t)[1] = t.byte /\ t.byte < Mark
         /\ t.kind = "run" =>
              /\ t.count \in Nat /\ t.byte < Mark
              /\ Len(Encoded(t)) = 2
              /\ Encoded(t)[1] = Mark + t.count /\ Encoded(t)[2] = t.byte
         /\ t.kind = "long" =>
              /\ t.count \in Nat
              /\ Len(Encoded(t)) = 3
              /\ Encoded(t)[1] >= Mark /\ Encoded(t)[2] >= Mark
              /\ Encoded(t)[3] = t.byte
              /\ (Encoded(t)[1] - Mark) * CountBase + (Encoded(t)[2] - Mark) = t.count
<1>1. PICK C \in Nat \ {0} : C = CountBase
  BY Sizes
<1>2. Mark = 3 * C /\ Bytes = 0..(4 * C - 1)
  BY <1>1 DEF Mark, Bytes
<1>3. CASE t \in [kind : {"literal"}, byte : 0..(Mark - 1)]
  <2>1. t.kind = "literal" /\ t.byte \in 0..(Mark - 1) /\ t.byte \in Bytes
    BY <1>2, <1>3
  <2>2. Encoded(t) = <<t.byte>>
    BY <2>1 DEF Encoded
  <2> QED
    BY <1>2, <2>1, <2>2
<1>4. CASE t \in [kind : {"run"}, count : 0..(CountBase - 1), byte : 0..(Mark - 1)]
  <2>1. /\ t.kind = "run" /\ t.byte \in 0..(Mark - 1) /\ t.byte \in Bytes
        /\ t.count \in 0..(C - 1) /\ Mark + t.count \in Bytes
    BY <1>1, <1>2, <1>4
  <2>2. Encoded(t) = <<Mark + t.count, t.byte>>
    BY <2>1 DEF Encoded
  <2> QED
    BY <1>2, <2>1, <2>2
<1>5. CASE t \in [kind : {"long"}, count : 0..(CountBase * CountBase - 1), byte : Bytes]
  <2>1. t.kind = "long" /\ t.byte \in Bytes /\ t.count \in Nat /\ t.count < C * C
    BY <1>1, <1>5
  <2>2. PICK h, l \in 0..(C - 1) :
          h = t.count \div C /\ l = t.count % C /\ t.count = h * C + l
    BY <2>1, Digits
  <2>3. Encoded(t) = <<Mark + h, Mark + l, t.byte>>
    BY <1>1, <2>1, <2>2 DEF Encoded
  <2>4. Mark + h \in Bytes /\ Mark + l \in Bytes /\ Mark \in Nat
    BY <1>2
  <2>5. /\ (Mark + h) - Mark = h /\ (Mark + l) - Mark = l
        /\ Mark + h >= Mark /\ Mark + l >= Mark
    BY <2>4
  <2> DEFINE e == Encoded(t)
  <2>6. /\ e \in Seq(Bytes) /\ Len(e) = 3
        /\ e[1] = Mark + h /\ e[2] = Mark + l /\ e[3] = t.byte
    BY <2>1, <2>3, <2>4
  <2> HIDE DEF e
  <2>7. e[1] >= Mark /\ e[2] >= Mark /\ (e[1] - Mark) * C + (e[2] - Mark) = t.count
    BY <2>2, <2>5, <2>6
  <2> QED
    BY <1>1, <2>1, <2>6, <2>7 DEF e
<1> QED
  BY <1>3, <1>4, <1>5 DEF Tokens

\* What a token stands for: its byte, so many times.
Times(count, byte) == FlattenSeq([n \in 1..count |-> Unpack(byte)])

LEMMA TokenCells ==
  ASSUME NEW t \in Tokens
  PROVE  /\ Expansion(t) \in Seq(Shades)
         /\ Expansion(t) = Times(IF t.kind = "literal" THEN 1 ELSE t.count, t.byte)
<1>1. Expansion(t) = Times(IF t.kind = "literal" THEN 1 ELSE t.count, t.byte)
  BY DEF Expansion, Times
<1>2. PICK n \in Nat : n = IF t.kind = "literal" THEN 1 ELSE t.count
  BY TokenBytes
<1>3. Unpack(t.byte) \in Seq(Shades)
  BY TokenBytes, UnpackType
<1>4. [i \in 1..n |-> Unpack(t.byte)] \in Seq(Seq(Shades))
  BY <1>3
<1>5. Times(n, t.byte) \in Seq(Shades)
  BY <1>4, FlattenType DEF Times
<1> QED
  BY <1>1, <1>2, <1>5
-----------------------------------------------------------------------------
(* The bytes of a payload, and the cells they stand for.                    *)

IsMap(m) ==
  /\ m.body \in Seq(Tokens)
  /\ \/ m.cut = 0
     \/ m.body # <<>> /\ m.cut \in 1..(Len(Encoded(Last(m.body))) - 1)

ByteParts(m) == [i \in DOMAIN m.body |-> Encoded(m.body[i])]
CellParts(m) == [i \in DOMAIN m.body |-> Expansion(m.body[i])]
Stream(m) ==
  SubSeq(FlattenSeq(ByteParts(m)), 1, Len(FlattenSeq(ByteParts(m))) - m.cut)

\* How many tokens are whole, and where the token after the first n begins.
Wholes(m) == IF m.cut = 0 THEN Len(m.body) ELSE Len(m.body) - 1
Start(m, n) == Len(Upto(ByteParts(m), n))

\* A function over the first numbers is a sequence.
LEMMA FunctionIsSeq ==
  ASSUME NEW T, NEW n \in Nat, NEW f \in [1..n -> T]
  PROVE  f \in Seq(T) /\ Len(f) = n
OBVIOUS

LEMMA Parts ==
  ASSUME NEW m, IsMap(m)
  PROVE  /\ m.body \in Seq(Tokens) /\ Wholes(m) \in 0..Len(m.body)
         /\ ByteParts(m) \in Seq(Seq(Bytes)) /\ Len(ByteParts(m)) = Len(m.body)
         /\ CellParts(m) \in Seq(Seq(Shades)) /\ Len(CellParts(m)) = Len(m.body)
         /\ \A i \in 1..Len(m.body) :
              /\ m.body[i] \in Tokens
              /\ ByteParts(m)[i] = Encoded(m.body[i])
              /\ CellParts(m)[i] = Expansion(m.body[i])
<1> DEFINE b == m.body
<1>1. b \in Seq(Tokens) /\ DOMAIN b = 1..Len(b) /\ Len(b) \in Nat
  BY DEF IsMap
<1>2. ASSUME NEW i \in 1..Len(b)
      PROVE  b[i] \in Tokens /\ Encoded(b[i]) \in Seq(Bytes)
               /\ Expansion(b[i]) \in Seq(Shades)
  <2>1. b[i] \in Tokens
    BY <1>1
  <2> QED
    BY <2>1, TokenBytes, TokenCells
<1>3. /\ ByteParts(m) \in [1..Len(b) -> Seq(Bytes)]
      /\ CellParts(m) \in [1..Len(b) -> Seq(Shades)]
  BY <1>1, <1>2 DEF ByteParts, CellParts
<1>4. /\ ByteParts(m) \in Seq(Seq(Bytes)) /\ Len(ByteParts(m)) = Len(b)
      /\ CellParts(m) \in Seq(Seq(Shades)) /\ Len(CellParts(m)) = Len(b)
  BY <1>1, <1>3, FunctionIsSeq
<1>5. \A i \in 1..Len(b) : /\ ByteParts(m)[i] = Encoded(b[i])
                          /\ CellParts(m)[i] = Expansion(b[i])
  BY <1>1 DEF ByteParts, CellParts
<1>6. Wholes(m) \in 0..Len(b)
  <2>1. CASE m.cut = 0
    BY <1>1, <2>1 DEF Wholes
  <2>2. CASE m.cut # 0
    <3>1. b # <<>> /\ Len(b) # 0
      BY <1>1, <2>2 DEF IsMap
    <3> QED
      BY <1>1, <2>2, <3>1 DEF Wholes
  <2> QED
    BY <2>1, <2>2
<1> QED
  BY <1>1, <1>2, <1>4, <1>5, <1>6

\* Every token has its place among the bytes of all.
LEMMA TokenPlace ==
  ASSUME NEW m, IsMap(m), NEW n \in 0..(Len(m.body) - 1)
  PROVE  LET e == Encoded(m.body[n + 1])
             all == FlattenSeq(ByteParts(m))
         IN  /\ e \in Seq(Bytes) /\ all \in Seq(Bytes)
             /\ Start(m, n) \in Nat /\ Start(m, n + 1) = Start(m, n) + Len(e)
             /\ Start(m, n + 1) <= Len(all)
             /\ \A j \in 1..Len(e) : all[Start(m, n) + j] = e[j]
<1> DEFINE e == Encoded(m.body[n + 1])
           all == FlattenSeq(ByteParts(m))
           p == Upto(ByteParts(m), n)
           q == Upto(ByteParts(m), n + 1)
<1>1. PICK N \in Nat : N = Len(m.body) /\ n + 1 <= N
  BY Parts
<1>2. /\ ByteParts(m) \in Seq(Seq(Bytes)) /\ Len(ByteParts(m)) = N
      /\ n \in 0..N /\ n + 1 \in 0..N /\ n + 1 \in 1..N /\ n \in 0..(N - 1)
      /\ N \in 0..N /\ n + 1 \in 0..N
  BY <1>1, Parts
<1>3. e = ByteParts(m)[n + 1] /\ e \in Seq(Bytes)
  <2>1. e = ByteParts(m)[n + 1] /\ m.body[n + 1] \in Tokens
    BY <1>1, <1>2, Parts
  <2> QED
    BY <2>1, TokenBytes
<1>4. p \in Seq(Bytes) /\ q = p \o e /\ q \in Seq(Bytes)
  BY <1>2, <1>3, UptoType, UptoNext
<1>5. all \in Seq(Bytes) /\ all = Upto(ByteParts(m), N)
  BY <1>2, FlattenType, UptoAll
<1>6. Len(q) <= Len(all) /\ \A i \in 1..Len(q) : all[i] = q[i]
  BY <1>2, <1>5, UptoGrows
<1> HIDE DEF e, all, p, q
<1>7. Len(q) = Len(p) + Len(e) /\ Len(p) \in Nat /\ Len(e) \in Nat
  BY <1>3, <1>4
<1>8. ASSUME NEW j \in 1..Len(e) PROVE all[Len(p) + j] = e[j]
  <2>1. Len(p) + j \in 1..Len(q) /\ (p \o e)[Len(p) + j] = e[j]
    BY <1>3, <1>4, <1>7
  <2> QED
    BY <1>4, <1>6, <2>1
<1> QED
  BY <1>3, <1>5, <1>6, <1>7, <1>8 DEF Start, e, all, p, q

\* A whole token is read as it was written; the decoder stops behind the last
\* one, or finds the beginning of the token that was cut.
LEMMA TokenRead ==
  ASSUME NEW m, IsMap(m), NEW n \in 0..Wholes(m)
  PROVE  /\ Start(m, n) \in Nat /\ Len(Stream(m)) \in Nat
         /\ n < Wholes(m) =>
              LET e == Encoded(m.body[n + 1])
              IN  /\ Start(m, n + 1) = Start(m, n) + Len(e)
                  /\ Start(m, n) + Len(e) <= Len(Stream(m))
                  /\ \A j \in 1..Len(e) : Stream(m)[Start(m, n) + j] = e[j]
         /\ n = Wholes(m) /\ m.cut = 0 => Len(Stream(m)) = Start(m, n)
         /\ n = Wholes(m) /\ m.cut # 0 =>
              LET e == Encoded(m.body[n + 1])
              IN  /\ n + 1 = Len(m.body)
                  /\ m.cut \in 1..(Len(e) - 1)
                  /\ Len(Stream(m)) = Start(m, n) + Len(e) - m.cut
                  /\ \A j \in 1..(Len(e) - m.cut) :
                       Stream(m)[Start(m, n) + j] = e[j]
<1> DEFINE all == FlattenSeq(ByteParts(m))
<1>1. PICK N \in Nat : N = Len(m.body) /\ n \in 0..N
  BY Parts
<1>2. ByteParts(m) \in Seq(Seq(Bytes)) /\ Len(ByteParts(m)) = N
  BY <1>1, Parts
<1>3. all \in Seq(Bytes) /\ Len(all) \in Nat /\ Start(m, N) = Len(all)
  BY <1>2, FlattenType, UptoAll DEF Start
<1>4. Start(m, n) \in Nat
  BY <1>1, <1>2, UptoType DEF Start
<1>5. CASE m.cut = 0
  <2>1. Stream(m) = all
    <3>1. Stream(m) = SubSeq(all, 1, Len(all) - 0)
      BY <1>5 DEF Stream
    <3>2. Len(all) - 0 = Len(all)
      BY <1>3
    <3> QED
      BY <1>3, <3>1, <3>2, SubSeqFull
  <2>2. Wholes(m) = N
    BY <1>1, <1>5 DEF Wholes
  <2>3. CASE n < N
    <3>1. n \in 0..(Len(m.body) - 1)
      BY <1>1, <2>3
    <3> DEFINE e == Encoded(m.body[n + 1])
    <3>2. /\ Start(m, n + 1) = Start(m, n) + Len(e)
          /\ Start(m, n + 1) <= Len(all)
          /\ \A j \in 1..Len(e) : all[Start(m, n) + j] = e[j]
      BY <3>1, TokenPlace
    <3> HIDE DEF e, all
    <3>3. n # Wholes(m)
      BY <2>2, <2>3
    <3> QED
      BY <1>3, <1>4, <1>5, <2>1, <3>2, <3>3 DEF e
  <2>4. CASE n = N
    BY <1>3, <1>4, <1>5, <2>1, <2>2, <2>4
  <2>5. n < N \/ n = N
    BY <1>1
  <2> QED
    BY <2>3, <2>4, <2>5
<1>6. CASE m.cut # 0
  <2>1. /\ N # 0 /\ Wholes(m) = N - 1
        /\ m.cut \in 1..(Len(Encoded(m.body[N])) - 1)
    <3>1. /\ m.body \in Seq(Tokens) /\ m.body # <<>>
          /\ m.cut \in 1..(Len(Encoded(Last(m.body))) - 1)
      BY <1>6 DEF IsMap
    <3>2. N # 0 /\ Last(m.body) = m.body[N]
      BY <1>1, <3>1 DEF Last
    <3> QED
      BY <1>1, <1>6, <3>1, <3>2 DEF Wholes
  <2>2. PICK k \in Nat : k = N - 1 /\ n <= k /\ k + 1 = N /\ k \in 0..(Len(m.body) - 1)
    BY <1>1, <2>1
  <2> DEFINE last == Encoded(m.body[k + 1])
  <2>3. /\ last \in Seq(Bytes) /\ Start(m, k) \in Nat
        /\ Len(all) = Start(m, k) + Len(last)
        /\ m.cut \in 1..(Len(last) - 1) /\ Len(last) \in Nat
        /\ \A j \in 1..Len(last) : all[Start(m, k) + j] = last[j]
    BY <1>3, <2>1, <2>2, TokenPlace
  <2>4. PICK L \in Nat : /\ L = Len(all) - m.cut /\ L <= Len(all)
                        /\ L = Start(m, k) + Len(last) - m.cut
    BY <1>3, <2>3
  <2>5. Len(Stream(m)) = L /\ \A i \in 1..L : Stream(m)[i] = all[i]
    <3>1. Stream(m) = SubSeq(all, 1, L)
      BY <2>4 DEF Stream
    <3> HIDE DEF all
    <3> QED
      BY <1>3, <2>4, <3>1
  <2>6. CASE n < k
    <3> DEFINE e == Encoded(m.body[n + 1])
    <3>1. n \in 0..(Len(m.body) - 1)
      BY <1>1, <2>2, <2>6
    <3>2. /\ e \in Seq(Bytes) /\ Len(e) \in Nat
          /\ Start(m, n + 1) = Start(m, n) + Len(e)
          /\ \A j \in 1..Len(e) : all[Start(m, n) + j] = e[j]
      BY <3>1, TokenPlace
    <3>3. Start(m, n + 1) <= Start(m, k)
      <4>1. k \in 0..Len(ByteParts(m)) /\ n + 1 \in 0..k
        BY <1>1, <1>2, <2>2, <2>6
      <4> QED
        BY <1>2, <4>1, UptoGrows DEF Start
    <3>4. Start(m, n) + Len(e) <= L
      BY <1>4, <2>3, <2>4, <3>2, <3>3
    <3>5. ASSUME NEW j \in 1..Len(e) PROVE Stream(m)[Start(m, n) + j] = e[j]
      <4>1. Start(m, n) + j \in 1..L
        BY <1>4, <3>2, <3>4
      <4> QED
        BY <2>5, <3>2, <4>1
    <3> QED
      BY <1>4, <2>1, <2>2, <2>4, <2>5, <2>6, <3>2, <3>4, <3>5
  <2>7. CASE n = k
    <3>1. ASSUME NEW j \in 1..(Len(last) - m.cut)
          PROVE  Stream(m)[Start(m, k) + j] = last[j]
      <4>1. PICK l, c, p \in Nat : l = Len(last) /\ c = m.cut /\ p = Start(m, k)
        BY <2>3
      <4>2. j \in 1..(l - c) /\ L = p + l - c
        BY <2>4, <4>1
      <4>3. p + j \in 1..L /\ j \in 1..l
        BY <4>2
      <4> QED
        BY <2>3, <2>5, <4>1, <4>3
    <3> QED
      BY <1>1, <1>4, <1>6, <2>1, <2>2, <2>3, <2>4, <2>5, <2>7, <3>1
  <2>8. n < k \/ n = k
    BY <2>2
  <2> QED
    BY <2>6, <2>7, <2>8
<1> QED
  BY <1>5, <1>6
-----------------------------------------------------------------------------
(* The cells.                                                               *)

\* The shorter one of two lengths.
LEMMA ShorterOf ==
  ASSUME NEW m \in Int, NEW n \in Int
  PROVE  Min({m, n}) = IF m <= n THEN m ELSE n
BY DEF Min

\* What is cut off is beyond the size of the map.
LEMMA FittedFacts ==
  ASSUME NEW S, NEW s \in Seq(S)
  PROVE  /\ Fitted(s) \in Seq(S)
         /\ Len(Fitted(s)) = IF Len(s) <= Expected THEN Len(s) ELSE Expected
         /\ \A i \in 1..Len(Fitted(s)) : Fitted(s)[i] = s[i]
         /\ Len(s) <= Expected => Fitted(s) = s
<1>1. PICK E, l \in Nat : E = Expected /\ l = Len(s)
  BY Sizes
<1>2. Min({l, E}) = IF l <= E THEN l ELSE E
  BY ShorterOf
<1>3. PICK k \in 0..l : k = IF l <= E THEN l ELSE E
  OBVIOUS
<1>4. Fitted(s) = SubSeq(s, 1, k)
  BY <1>1, <1>2, <1>3 DEF Fitted
<1>5. /\ SubSeq(s, 1, k) \in Seq(S) /\ Len(SubSeq(s, 1, k)) = k
      /\ \A i \in 1..k : SubSeq(s, 1, k)[i] = s[i]
  BY <1>1, <1>3
<1>6. l <= E => SubSeq(s, 1, k) = s
  BY <1>1, <1>3, SubSeqFull
<1> QED
  BY <1>1, <1>3, <1>4, <1>5, <1>6

\* The cells of the tokens that are whole.
LEMMA WholeCells ==
  ASSUME IsMap(map)
  PROVE  Cells(Whole) = Upto(CellParts(map), Wholes(map))
<1>1. PICK N \in Nat : N = Len(map.body)
  BY Parts
<1>2. /\ map.body \in Seq(Tokens) /\ DOMAIN map.body = 1..N
      /\ CellParts(map) \in Seq(Seq(Shades)) /\ Len(CellParts(map)) = N
  BY <1>1, Parts
<1>3. CASE map.cut = 0
  <2>1. Cells(Whole) = FlattenSeq(CellParts(map)) /\ Wholes(map) = N
    BY <1>1, <1>3 DEF Cells, Whole, CellParts, Wholes
  <2> QED
    BY <1>2, <2>1, UptoAll
<1>4. CASE map.cut # 0
  <2>0. N # 0
    BY <1>1, <1>4 DEF IsMap
  <2>1. PICK k \in Nat : k = N - 1 /\ Wholes(map) = k
    <3>1. N - 1 \in Nat
      BY <2>0
    <3> QED
      BY <1>1, <1>4, <3>1 DEF Wholes
  <2> DEFINE w == SubSeq(map.body, 1, k)
             c == SubSeq(CellParts(map), 1, k)
  <2>2. Whole = w
    BY <1>1, <1>4, <2>1 DEF Whole, Front
  <2>3. /\ DOMAIN w = 1..k /\ \A i \in 1..k : w[i] = map.body[i]
        /\ DOMAIN c = 1..k /\ \A i \in 1..k : c[i] = CellParts(map)[i]
    BY <1>1, <1>2, <2>1
  <2>4. c \in Seq(Seq(Shades)) /\ Len(c) = k
    BY <1>2, <2>1
  <2>5. \A i \in 1..k : CellParts(map)[i] = Expansion(map.body[i])
    BY <1>1, <2>1, Parts
  <2>6. [i \in DOMAIN w |-> Expansion(w[i])] = c
    <3> HIDE DEF w, c
    <3>1. c = [i \in 1..k |-> c[i]]
      BY <2>3, <2>4
    <3> QED
      BY <2>3, <2>5, <3>1
  <2> QED
    BY <2>1, <2>2, <2>6 DEF Cells, Upto
<1> QED
  BY <1>3, <1>4

\* One more token is expanded.
LEMMA OneMore ==
  ASSUME NEW m, IsMap(m), NEW n \in 0..(Len(m.body) - 1),
         NEW c, c = Fitted(Upto(CellParts(m), n)), Len(c) < Expected
  PROVE  /\ c = Upto(CellParts(m), n)
         /\ Fitted(c \o Expansion(m.body[n + 1])) = Fitted(Upto(CellParts(m), n + 1))
<1>1. PICK N \in Nat : N = Len(m.body) /\ n \in 0..N /\ n + 1 \in 1..N
  BY Parts
<1>2. /\ CellParts(m) \in Seq(Seq(Shades)) /\ Len(CellParts(m)) = N
      /\ CellParts(m)[n + 1] = Expansion(m.body[n + 1])
  BY <1>1, Parts
<1>3. Upto(CellParts(m), n + 1) = Upto(CellParts(m), n) \o CellParts(m)[n + 1]
  BY <1>1, <1>2, UptoNext
<1>4. c = Upto(CellParts(m), n)
  <2>1. PICK u \in Seq(Shades) : u = Upto(CellParts(m), n)
    BY <1>1, <1>2, UptoType
  <2>2. Len(u) <= Expected
    BY <2>1, FittedFacts, Sizes
  <2> QED
    BY <2>1, <2>2, FittedFacts
<1> QED
  BY <1>2, <1>3, <1>4

-----------------------------------------------------------------------------
(* The decoder.                                                             *)

\* n tokens have been read.
Reading(n) ==
  /\ n \in 0..Wholes(map)
  /\ index = Start(map, n) + 1
  /\ cells = Fitted(Upto(CellParts(map), n))

DInv ==
  /\ IsMap(map)
  /\ stage = "map" => \E n \in Nat : Reading(n)
  /\ stage \in {"track", "line", "done"} =>
       GoodPayload /\ cells = Picture(Whole) /\ (map.cut # 0 => Fills(Whole))
  /\ stage = "error" /\ GoodPayload =>
       Len(cells) = Expected \/ (map.cut # 0 /\ ~Fills(Whole))

\* A token is in hand: all its bytes follow, or the payload ends inside of it.
LEMMA InHand ==
  ASSUME IsMap(map), NEW n \in Nat, Reading(n), Decoding,
         NEW e, e = Encoded(map.body[n + 1])
  PROVE  /\ n \in 0..(Len(map.body) - 1) /\ map.body[n + 1] \in Tokens
         /\ index \in Nat /\ Len(encoded) \in Nat /\ index <= Len(encoded)
         /\ \A j \in 1..Len(e) :
              (index - 1) + j <= Len(encoded) => encoded[(index - 1) + j] = e[j]
         /\ \/ /\ n < Wholes(map) /\ Start(map, n + 1) = (index - 1) + Len(e)
               /\ (index - 1) + Len(e) <= Len(encoded)
            \/ /\ n = Wholes(map) /\ map.cut \in 1..(Len(e) - 1)
               /\ Len(encoded) = (index - 1) + Len(e) - map.cut
<1>1. encoded = Stream(map)
  BY DEF encoded, Stream, ByteParts
<1>2. /\ n \in 0..Wholes(map) /\ Wholes(map) \in Nat
      /\ index = Start(map, n) + 1 /\ index <= Len(encoded)
  BY Parts DEF Reading, Decoding
<1>3. /\ Start(map, n) \in Nat /\ Len(encoded) \in Nat
      /\ n = Wholes(map) /\ map.cut = 0 => Len(encoded) = Start(map, n)
  <2>1. /\ Start(map, n) \in Nat /\ Len(Stream(map)) \in Nat
        /\ n = Wholes(map) /\ map.cut = 0 => Len(Stream(map)) = Start(map, n)
    BY <1>2, TokenRead
  <2> QED
    BY <1>1, <2>1
<1>4. index \in Nat /\ index - 1 = Start(map, n)
  BY <1>2, <1>3
<1>5. CASE n < Wholes(map)
  <2>1. /\ Start(map, n + 1) = Start(map, n) + Len(e)
        /\ Start(map, n) + Len(e) <= Len(encoded)
        /\ \A j \in 1..Len(e) : encoded[Start(map, n) + j] = e[j]
    BY <1>1, <1>2, <1>5, TokenRead
  <2>2. n \in 0..(Len(map.body) - 1)
    BY <1>5, Parts
  <2>3. map.body[n + 1] \in Tokens
    BY <2>2, Parts
  <2> QED
    BY <1>2, <1>3, <1>4, <1>5, <2>1, <2>2, <2>3
<1>6. CASE ~(n < Wholes(map))
  <2>1. n = Wholes(map) /\ map.cut # 0
    BY <1>2, <1>3, <1>6
  <2>2. n + 1 = Len(map.body) /\ map.cut \in 1..(Len(e) - 1)
    BY <1>2, <2>1, TokenRead
  <2>3. Len(encoded) = Start(map, n) + Len(e) - map.cut
    BY <1>1, <1>2, <2>1, TokenRead
  <2>4. \A j \in 1..(Len(e) - map.cut) : encoded[Start(map, n) + j] = e[j]
    BY <1>1, <1>2, <2>1, TokenRead
  <2>5. n \in 0..(Len(map.body) - 1)
    BY <2>2
  <2>6. map.body[n + 1] \in Tokens
    BY <2>5, Parts
  <2>7. Len(e) \in Nat
    BY <2>6, TokenBytes
  <2>8. ASSUME NEW j \in 1..Len(e), (index - 1) + j <= Len(encoded)
        PROVE  encoded[(index - 1) + j] = e[j]
    <3>1. j \in 1..(Len(e) - map.cut)
      BY <1>3, <1>4, <2>2, <2>3, <2>7, <2>8
    <3> QED
      BY <1>4, <2>4, <3>1
  <2> QED
    BY <1>2, <1>3, <1>4, <2>1, <2>2, <2>3, <2>5, <2>6, <2>8
<1> QED
  BY <1>5, <1>6

\* The cells of a token are added.
LEMMA Repeated ==
  ASSUME IsMap(map), NEW n \in Nat, Reading(n), Decoding, n < Wholes(map),
         map' = map, NEW t, t = map.body[n + 1],
         NEW count, count = IF t.kind = "literal" THEN 1 ELSE t.count,
         NEW i, i = Start(map, n + 1), encoded[i] = t.byte, Repeat(count, i)
  PROVE  stage' = stage /\ Reading(n + 1)'
<1>1. n \in 0..(Len(map.body) - 1) /\ t \in Tokens
  BY InHand
<1>2. FlattenSeq([k \in 1..count |-> Unpack(encoded[i])]) = Expansion(t)
  BY <1>1, TokenCells DEF Times
<1>3. cells' = Fitted(cells \o Expansion(t)) /\ index' = i + 1 /\ stage' = stage
  BY <1>2 DEF Repeat
<1>4. cells = Fitted(Upto(CellParts(map), n)) /\ Len(cells) < Expected
  BY DEF Reading, Decoding
<1>5. cells' = Fitted(Upto(CellParts(map), n + 1))
  BY <1>1, <1>3, <1>4, OneMore
<1>6. n + 1 \in 0..Wholes(map)
  BY Parts
<1> QED
  BY <1>3, <1>5, <1>6 DEF Reading

LEMMA MarkIsNat == Mark \in Nat
BY Sizes DEF Mark

\* A byte without a mark is a literal.
LEMMA LiteralRead ==
  ASSUME IsMap(map), NEW n \in Nat, Reading(n), Literal
  PROVE  Reading(n + 1)' /\ stage' = stage
<1> DEFINE t == map.body[n + 1]
           e == Encoded(t)
<1>1. Decoding /\ ~(encoded[index] >= Mark) /\ Repeat(1, index) /\ map' = map
  BY DEF Literal, Marked
<1>2. /\ t \in Tokens /\ index \in Nat /\ index <= Len(encoded) /\ Len(encoded) \in Nat
      /\ \A j \in 1..Len(e) :
           (index - 1) + j <= Len(encoded) => encoded[(index - 1) + j] = e[j]
      /\ \/ n < Wholes(map) /\ Start(map, n + 1) = (index - 1) + Len(e)
         \/ map.cut \in 1..(Len(e) - 1)
  BY <1>1, InHand
<1>3. Len(e) \in 1..3
  BY <1>2, TokenBytes
<1>4. encoded[index] = e[1]
  <2> HIDE DEF e
  <2>1. 1 \in 1..Len(e)
    BY <1>3
  <2>2. (index - 1) + 1 = index
    BY <1>2
  <2>3. (index - 1) + 1 <= Len(encoded) => encoded[(index - 1) + 1] = e[1]
    BY <1>2, <2>1
  <2> QED
    BY <1>2, <2>2, <2>3
<1>5. t.kind = "literal"
  <2>1. t.kind \in {"literal", "run", "long"}
    BY <1>2, TokenBytes
  <2>2. t.kind = "run" => t.count \in Nat /\ e[1] = Mark + t.count
    BY <1>2, TokenBytes
  <2>3. t.kind = "long" => e[1] >= Mark
    BY <1>2, TokenBytes
  <2> HIDE DEF e, t
  <2> QED
    BY <1>1, <1>4, <2>1, <2>2, <2>3, MarkIsNat
<1>6. Len(e) = 1 /\ e[1] = t.byte
  BY <1>2, <1>5, TokenBytes
<1>7. n < Wholes(map) /\ Start(map, n + 1) = index
  <2> HIDE DEF e, t
  <2> QED
    BY <1>2, <1>6
<1> QED
  BY <1>1, <1>4, <1>5, <1>6, <1>7, Repeated

\* A byte with a mark begins a run, which is repeated, or reported if it was cut.
LEMMA RunRead ==
  ASSUME IsMap(map), NEW n \in Nat, Reading(n), Run
  PROVE  \/ Reading(n + 1)' /\ stage' = stage
         \/ n = Wholes(map) /\ map.cut # 0 /\ Raise
<1> DEFINE t == map.body[n + 1]
           e == Encoded(t)
           next == index + 1
<1>1. /\ Decoding /\ encoded[index] >= Mark /\ map' = map
      /\ IF next > Len(encoded) THEN Raise
         ELSE IF ~(encoded[next] >= Mark) THEN Repeat(encoded[index] - Mark, next)
         ELSE IF next + 1 > Len(encoded) THEN Raise
         ELSE Repeat((encoded[index] - Mark) * CountBase + (encoded[next] - Mark),
                     next + 1)
  BY DEF Run, Marked, Count, Extended, ExtendedCount
<1>2. PICK k, l \in Nat : k = index /\ l = Len(encoded)
  BY <1>1, InHand
<1>3. /\ t \in Tokens /\ k >= 1 /\ k <= l
      /\ \A j \in 1..Len(e) : (k - 1) + j <= l => encoded[(k - 1) + j] = e[j]
      /\ \/ /\ n < Wholes(map) /\ Start(map, n + 1) = (k - 1) + Len(e)
            /\ (k - 1) + Len(e) <= l
         \/ /\ n = Wholes(map) /\ map.cut \in 1..(Len(e) - 1)
            /\ l = (k - 1) + Len(e) - map.cut
  <2>1. k >= 1
    <3>1. n \in 0..Wholes(map) /\ index = Start(map, n) + 1
      BY DEF Reading
    <3>2. Start(map, n) \in Nat
      BY <3>1, TokenRead
    <3> QED
      BY <1>2, <3>1, <3>2
  <2> QED
    BY <1>1, <1>2, <2>1, InHand
<1>4. Len(e) \in 1..3 /\ t.kind \in {"literal", "run", "long"}
  BY <1>3, TokenBytes
<1>5. PICK m \in 1..3 : m = Len(e)
  <2> HIDE DEF e
  <2> QED
    BY <1>4
<1>6. \A j \in 1..m : (k - 1) + j <= l => encoded[(k - 1) + j] = e[j]
  BY <1>3, <1>5
<1>7. /\ 1 <= m /\ k <= l => encoded[k] = e[1]
      /\ 2 <= m /\ k + 1 <= l => encoded[k + 1] = e[2]
      /\ 3 <= m /\ k + 2 <= l => encoded[k + 2] = e[3]
  <2> HIDE DEF e
  <2>1. (k - 1) + 1 = k /\ (k - 1) + 2 = k + 1 /\ (k - 1) + 3 = k + 2
    OBVIOUS
  <2>2. /\ 1 <= m /\ (k - 1) + 1 <= l => encoded[(k - 1) + 1] = e[1]
        /\ 2 <= m /\ (k - 1) + 2 <= l => encoded[(k - 1) + 2] = e[2]
        /\ 3 <= m /\ (k - 1) + 3 <= l => encoded[(k - 1) + 3] = e[3]
    <3>1. (1 <= m => 1 \in 1..m) /\ (2 <= m => 2 \in 1..m) /\ (3 <= m => 3 \in 1..m)
      OBVIOUS
    <3> QED
      BY <1>6, <3>1
  <2> QED
    BY <2>1, <2>2
<1>8. encoded[k] = e[1] /\ e[1] >= Mark /\ next = k + 1
  BY <1>1, <1>2, <1>3, <1>5, <1>7
<1>9. CASE t.kind = "literal"
  <2>1. e[1] = t.byte /\ t.byte < Mark /\ t.byte \in Bytes
    BY <1>3, <1>9, TokenBytes
  <2>2. t.byte \in Nat
    BY <2>1, Sizes DEF Bytes
  <2> HIDE DEF e, t
  <2> QED
    BY <1>8, <2>1, <2>2, MarkIsNat
<1>10. CASE t.kind = "run"
  <2>1. /\ t.count \in Nat /\ t.byte < Mark /\ m = 2
        /\ e[1] = Mark + t.count /\ e[2] = t.byte
    BY <1>3, <1>5, <1>10, TokenBytes
  <2>2. CASE n < Wholes(map)
    <3>1. Start(map, n + 1) = k + 1 /\ k + 1 <= l
      BY <1>3, <1>5, <2>1, <2>2
    <3>2. encoded[k + 1] = t.byte /\ encoded[k] - Mark = t.count
      <4> HIDE DEF e, t
      <4> QED
        BY <1>7, <1>8, <2>1, <3>1, MarkIsNat
    <3>3. t.byte \in Nat
      BY <1>3, TokenBytes, Sizes DEF Bytes
    <3>4. Repeat(t.count, k + 1)
      <4>1. ~(encoded[next] >= Mark) /\ ~(next > Len(encoded))
        <5> HIDE DEF t
        <5> QED
          BY <1>2, <1>8, <2>1, <3>1, <3>2, <3>3, MarkIsNat
      <4> QED
        BY <1>1, <1>2, <1>8, <3>2, <4>1
    <3> QED
      BY <1>1, <1>10, <2>2, <3>1, <3>2, <3>4, Repeated
  <2>3. CASE ~(n < Wholes(map))
    <3>1. n = Wholes(map) /\ map.cut # 0 /\ l = k
      BY <1>3, <1>5, <2>1, <2>3
    <3>2. next > Len(encoded)
      BY <1>2, <3>1
    <3> QED
      BY <1>1, <3>1, <3>2
  <2> QED
    BY <2>2, <2>3
<1>11. CASE t.kind = "long"
  <2>1. /\ t.count \in Nat /\ m = 3 /\ e[2] >= Mark /\ e[3] = t.byte
        /\ (e[1] - Mark) * CountBase + (e[2] - Mark) = t.count
    BY <1>3, <1>5, <1>11, TokenBytes
  <2>2. CASE n < Wholes(map)
    <3>1. Start(map, n + 1) = k + 2 /\ k + 2 <= l
      BY <1>3, <1>5, <2>1, <2>2
    <3>2. encoded[k + 1] = e[2] /\ encoded[k + 2] = t.byte
      <4> HIDE DEF e, t
      <4> QED
        BY <1>7, <2>1, <3>1
    <3>3. Repeat(t.count, k + 2)
      <4>1. encoded[next] >= Mark /\ ~(next > Len(encoded)) /\ ~(next + 1 > Len(encoded))
        <5> HIDE DEF e
        <5> QED
          BY <1>2, <1>8, <2>1, <3>1, <3>2
      <4>2. (encoded[index] - Mark) * CountBase + (encoded[next] - Mark) = t.count
        <5> HIDE DEF e, t
        <5> QED
          BY <1>2, <1>8, <2>1, <3>2
      <4>3. next + 1 = k + 2
        BY <1>2
      <4> QED
        BY <1>1, <4>1, <4>2, <4>3
    <3> QED
      BY <1>1, <1>11, <2>2, <3>1, <3>2, <3>3, Repeated
  <2>3. CASE ~(n < Wholes(map))
    <3>1. n = Wholes(map) /\ map.cut # 0 /\ (l = k \/ l = k + 1)
      BY <1>3, <1>5, <2>1, <2>3
    <3>2. l = k + 1 => encoded[next] >= Mark
      <4> HIDE DEF e
      <4> QED
        BY <1>2, <1>7, <2>1
    <3>3. Raise
      <4>1. CASE l = k
        <5>1. next > Len(encoded)
          BY <1>2, <4>1
        <5> QED
          BY <1>1, <5>1
      <4>2. CASE l = k + 1
        <5>1. ~(next > Len(encoded)) /\ next + 1 > Len(encoded)
          BY <1>2, <4>2
        <5> QED
          BY <1>1, <3>2, <4>2, <5>1
      <4> QED
        BY <3>1, <4>1, <4>2
    <3> QED
      BY <3>1, <3>3
  <2> QED
    BY <2>2, <2>3
<1> QED
  BY <1>4, <1>9, <1>10, <1>11

\* The cells of some of the tokens are the first ones of all.
LEMMA CellsGrow ==
  ASSUME IsMap(map), NEW n \in 0..Wholes(map),
         NEW U, U = Upto(CellParts(map), n)
  PROVE  /\ U \in Seq(Shades) /\ Cells(Whole) \in Seq(Shades)
         /\ Len(U) <= Len(Cells(Whole))
         /\ \A i \in 1..Len(U) : Cells(Whole)[i] = U[i]
         /\ n = Wholes(map) => Cells(Whole) = U
<1>1. PICK N, w \in Nat : N = Len(map.body) /\ w = Wholes(map) /\ w <= N
  BY Parts
<1>2. CellParts(map) \in Seq(Seq(Shades)) /\ Len(CellParts(map)) = N
  BY <1>1, Parts
<1>3. w \in 0..N /\ n \in 0..w /\ n \in 0..N
  BY <1>1
<1>4. Cells(Whole) = Upto(CellParts(map), w)
  BY <1>1, WholeCells
<1>5. U \in Seq(Shades) /\ Cells(Whole) \in Seq(Shades)
  BY <1>2, <1>3, <1>4, UptoType
<1> QED
  BY <1>1, <1>2, <1>3, <1>4, <1>5, UptoGrows

\* Where the decoder stops, there is a full map or the end of the last token.
LEMMA MapRead ==
  ASSUME IsMap(map), NEW n \in Nat, Reading(n), MapDecoded
  PROVE  cells' = Picture(Whole) /\ (map.cut # 0 => Fills(Whole))
<1> DEFINE U == Upto(CellParts(map), n)
           W == Cells(Whole)
<1>1. n \in 0..Wholes(map) /\ index = Start(map, n) + 1 /\ cells = Fitted(U)
  BY DEF Reading
<1>2. /\ U \in Seq(Shades) /\ W \in Seq(Shades) /\ Len(U) <= Len(W)
      /\ \A i \in 1..Len(U) : W[i] = U[i]
      /\ n = Wholes(map) => W = U
  BY <1>1, CellsGrow
<1>3. PICK E \in Nat : E = Expected
  BY Sizes
<1>4. /\ Len(cells) = IF Len(U) <= E THEN Len(U) ELSE E
      /\ \A i \in 1..Len(cells) : cells[i] = U[i]
      /\ Len(U) <= E => cells = U
  BY <1>1, <1>2, <1>3, FittedFacts
<1>5. PICK u, v \in Nat : u = Len(U) /\ v = Len(W)
  BY <1>2
<1>6. /\ cells' = [i \in 1..E |-> IF i <= Len(cells) THEN cells[i] ELSE 0]
      /\ Picture(Whole) = [i \in 1..E |-> IF i <= v THEN W[i] ELSE 0]
      /\ Fills(Whole) <=> v >= E
  BY <1>3, <1>5 DEF MapDecoded, Padded, Picture, Fills
<1>7. CASE Len(cells) >= E
  <2>1. Len(cells) = E /\ E <= u /\ u <= v
    BY <1>2, <1>4, <1>5, <1>7
  <2>2. \A i \in 1..E : i <= Len(cells) /\ i <= v /\ cells[i] = W[i]
    <3> SUFFICES ASSUME NEW i \in 1..E
                 PROVE  i <= Len(cells) /\ i <= v /\ cells[i] = W[i]
      OBVIOUS
    <3>1. i \in 1..Len(cells) /\ i \in 1..Len(U) /\ i <= v
      BY <1>5, <2>1
    <3> QED
      BY <1>2, <1>4, <2>1, <3>1
  <2> HIDE DEF W
  <2> QED
    BY <1>6, <2>1, <2>2
<1>8. CASE ~(Len(cells) >= E)
  <2>1. Len(encoded) < index
    <3>1. ~Decoding /\ stage = "map"
      BY DEF MapDecoded
    <3>2. Len(cells) < E
      BY <1>4, <1>5, <1>8
    <3>3. ~(index <= Len(encoded))
      BY <1>3, <3>1, <3>2 DEF Decoding
    <3>4. encoded = Stream(map)
      BY DEF encoded, Stream, ByteParts
    <3>5. Start(map, n) \in Nat /\ Len(encoded) \in Nat
      BY <1>1, <3>4, TokenRead
    <3> QED
      BY <1>1, <3>3, <3>5
  <2>2. n = Wholes(map) /\ map.cut = 0
    <3> DEFINE e == Encoded(map.body[n + 1])
    <3>0. encoded = Stream(map)
      BY DEF encoded, Stream, ByteParts
    <3>1. encoded = Stream(map) /\ Wholes(map) \in Nat
      BY <3>0, Parts
    <3>2. /\ Start(map, n) \in Nat
          /\ n < Wholes(map) => Start(map, n) + Len(e) <= Len(encoded)
          /\ n = Wholes(map) /\ map.cut # 0 =>
               /\ map.cut \in 1..(Len(e) - 1)
               /\ Len(encoded) = Start(map, n) + Len(e) - map.cut
      BY <1>1, <3>1, TokenRead
    <3>3. n < Wholes(map) \/ map.cut # 0 => Len(e) \in 1..3
      <4> SUFFICES ASSUME n < Wholes(map) \/ map.cut # 0 PROVE Len(e) \in 1..3
        OBVIOUS
      <4>1. n \in 0..(Len(map.body) - 1)
        BY <1>1, <3>1, Parts DEF Wholes
      <4>2. map.body[n + 1] \in Tokens
        BY <4>1, Parts
      <4> QED
        BY <4>2, TokenBytes
    <3> HIDE DEF e
    <3>4. Len(encoded) \in Nat /\ Len(encoded) < Start(map, n) + 1
      BY <1>1, <2>1, <3>1, TokenRead
    <3>5. ~(n < Wholes(map))
      <4> SUFFICES ASSUME n < Wholes(map) PROVE FALSE
        OBVIOUS
      <4>1. Start(map, n) + Len(e) <= Len(encoded) /\ Len(e) \in 1..3
        BY <3>2, <3>3
      <4>2. PICK b, l \in Nat : b = Start(map, n) /\ l = Len(encoded)
        BY <3>2, <3>4
      <4>3. PICK k \in 1..3 : k = Len(e)
        BY <4>1
      <4>4. b + k <= l /\ l < b + 1
        BY <3>4, <4>1, <4>2, <4>3
      <4> QED
        BY <4>4
    <3>6. n = Wholes(map)
      BY <1>1, <3>1, <3>5
    <3>7. ~(map.cut # 0)
      BY <3>2, <3>3, <3>4, <3>6
    <3> QED
      BY <3>6, <3>7
  <2>3. Len(U) <= E
    BY <1>4, <1>5, <1>8
  <2>4. cells = W
    BY <1>2, <1>4, <2>2, <2>3
  <2> QED
    BY <1>5, <1>6, <2>2, <2>4
<1> QED
  BY <1>7, <1>8

\* A payload is refused only where a token was cut before the map was full.
LEMMA RunRefused ==
  ASSUME IsMap(map), NEW n \in Nat, Reading(n), Decoding, n = Wholes(map)
  PROVE  ~Fills(Whole)
<1> DEFINE U == Upto(CellParts(map), n)
<1>1. n \in 0..Wholes(map) /\ cells = Fitted(U) /\ Len(cells) < Expected
  BY DEF Reading, Decoding
<1>2. U \in Seq(Shades) /\ Cells(Whole) = U
  BY <1>1, CellsGrow
<1>3. PICK E, u \in Nat : E = Expected /\ u = Len(U)
  BY <1>2, Sizes
<1>4. Len(cells) = IF u <= E THEN u ELSE E
  BY <1>1, <1>2, <1>3, FittedFacts
<1>5. u < E
  BY <1>1, <1>3, <1>4
<1> QED
  BY <1>2, <1>3, <1>5 DEF Fills

-----------------------------------------------------------------------------
(* The whole decoding.                                                      *)

LEMMA DInit == Init => DInv
<1> SUFFICES ASSUME Init PROVE DInv
  OBVIOUS
<1>1. PICK a \in Arguments : map = a[1]
  BY DEF Init
<1>2. IsMap(map)
  BY <1>1, ArgumentsOK DEF IsMap
<1>3. /\ ByteParts(map) \in Seq(Seq(Bytes)) /\ CellParts(map) \in Seq(Seq(Shades))
      /\ 0 \in 0..Wholes(map)
  BY <1>2, Parts
<1>4. Upto(ByteParts(map), 0) = <<>> /\ Upto(CellParts(map), 0) = <<>>
  BY <1>3, UptoNone
<1>5. index = Start(map, 0) + 1 /\ cells = Fitted(Upto(CellParts(map), 0))
  <2>1. <<>> \in Seq(Shades) /\ Len(<<>>) = 0
    OBVIOUS
  <2>2. Len(<<>>) <= Expected
    BY <2>1, Sizes
  <2>3. Fitted(<<>>) = <<>>
    BY <2>1, <2>2, FittedFacts
  <2> QED
    BY <1>4, <2>1, <2>3 DEF Start, Init
<1>6. Reading(0)
  BY <1>3, <1>5 DEF Reading
<1> QED
  BY <1>2, <1>6 DEF DInv, Init

LEMMA DNext == DInv /\ [Next]_vars => DInv'
<1> SUFFICES ASSUME DInv, [Next]_vars PROVE DInv'
  OBVIOUS
<1>1. CASE BadPayload
  <2>1. stage' = "error" /\ map' = map /\ ~GoodPayload
    BY <1>1 DEF BadPayload, Raise, GoodPayload
  <2> QED
    BY <2>1 DEF DInv, IsMap, GoodPayload
<1>2. ASSUME NEW n \in Nat, Reading(n + 1)', stage' = "map", map' = map PROVE DInv'
  BY <1>2 DEF DInv, IsMap
<1>3. CASE Literal
  <2>1. PICK n \in Nat : Reading(n)
    BY <1>3 DEF DInv, Literal, Decoding
  <2>2. Reading(n + 1)' /\ stage' = "map" /\ map' = map
    BY <1>3, <2>1, LiteralRead DEF DInv, Literal, Decoding
  <2> QED
    BY <1>2, <2>2
<1>4. CASE Run
  <2>1. PICK n \in Nat : Reading(n)
    BY <1>4 DEF DInv, Run, Decoding
  <2>2. stage = "map" /\ map' = map /\ Decoding
    BY <1>4 DEF Run, Decoding
  <2>3. CASE Reading(n + 1)' /\ stage' = stage
    BY <1>2, <2>2, <2>3
  <2>4. CASE n = Wholes(map) /\ map.cut # 0 /\ Raise
    <3>1. stage' = "error" /\ map.cut # 0 /\ ~Fills(Whole)
      BY <2>1, <2>2, <2>4, RunRefused DEF DInv, Raise
    <3> QED
      BY <2>2, <3>1 DEF DInv, IsMap, Fills, Whole
  <2> QED
    BY <1>4, <2>1, <2>3, <2>4, RunRead DEF DInv
<1>5. CASE MapDecoded
  <2>1. PICK n \in Nat : Reading(n)
    BY <1>5 DEF DInv, MapDecoded
  <2>2. cells' = Picture(Whole) /\ (map.cut # 0 => Fills(Whole))
    BY <1>5, <2>1, MapRead DEF DInv
  <2>3. stage' = "track" /\ map' = map /\ GoodPayload
    BY <1>5 DEF MapDecoded
  <2> QED
    BY <2>2, <2>3 DEF DInv, IsMap, GoodPayload, Picture, Whole, Fills
<1>6. CASE BadTrack
  <2>1. stage = "track" /\ stage' = "error" /\ map' = map /\ cells' = cells
    BY <1>6 DEF BadTrack, Raise
  <2>2. Len(cells) = Expected
    <3>1. PICK E \in Nat : E = Expected
      BY Sizes
    <3>2. cells = [i \in 1..E |-> IF i <= Len(Cells(Whole)) THEN Cells(Whole)[i] ELSE 0]
      BY <2>1, <3>1 DEF DInv, Picture
    <3> QED
      BY <3>1, <3>2
  <2> QED
    BY <2>1, <2>2 DEF DInv, IsMap
<1>7. ASSUME map' = map, cells' = cells, stage \in {"track", "line"},
             stage' \in {"line", "done"}
      PROVE  DInv'
  BY <1>7 DEF DInv, IsMap, GoodPayload, Picture, Whole, Fills
<1>8. CASE TrackDecoded
  BY <1>7, <1>8 DEF TrackDecoded
<1>9. CASE LineStep
  BY <1>7, <1>9 DEF LineStep
<1>10. CASE NextLine
  BY <1>7, <1>10 DEF NextLine
<1>11. CASE Drawn
  BY <1>7, <1>11 DEF Drawn
<1>12. CASE UNCHANGED vars
  BY <1>12 DEF vars, DInv, IsMap, Reading, GoodPayload, Picture, Whole, Fills
<1>13. CASE Over
  BY <1>12, <1>13 DEF Over
<1> QED
  BY <1>1, <1>3, <1>4, <1>5, <1>6, <1>8, <1>9, <1>10, <1>11, <1>12, <1>13 DEF Next

\* Between two rounds the decoder has read some of the tokens as they were
\* written, and has the cells of these and no others, up to the size of the
\* map (map_decoder.py:63-88).
THEOREM Reads == Spec => []DInv
<1> QED
  BY DInit, DNext, PTL DEF Spec

\* Every picture comes out as it was encoded, whatever its tokens, of any
\* number, with any counts and wherever the payload is cut; a payload is
\* refused only if what is missing would have been seen
\* (map_decoder.py:63-94).
THEOREM Decodes == Spec => []DecodesRuns
<1>1. DInv => DecodesRuns
  <2> SUFFICES ASSUME DInv PROVE DecodesRuns
    OBVIOUS
  <2>1. Expected \in Nat
    BY Sizes
  <2>2. stage = "error" /\ GoodPayload /\ Len(cells) < Expected
          => map.cut # 0 /\ ~Fills(Whole)
    BY <2>1 DEF DInv
  <2> QED
    BY <2>2 DEF DInv, DecodesRuns
<1> QED
  BY <1>1, Reads, PTL

-----------------------------------------------------------------------------
(* The payloads.                                                            *)

\* Two digits make a count.
LEMMA OfDigits ==
  ASSUME NEW C \in Nat \ {0}, NEW h \in 0..(C - 1), NEW l \in 0..(C - 1)
  PROVE  /\ h * C + l \in 0..(C * C - 1)
         /\ (h * C + l) \div C = h /\ (h * C + l) % C = l
<1>1. h * C + l \in 0..(C * C - 1)
  <2>1. h * C <= (C - 1) * C /\ (C - 1) * C = C * C - C /\ h * C >= 0
    OBVIOUS
  <2> QED
    BY <2>1
<1>2. PICK n \in Nat : n = h * C + l /\ n < C * C
  BY <1>1
<1>3. n = (n \div C) * C + (n % C) /\ n % C \in 0..(C - 1) /\ n \div C \in 0..(C - 1)
  BY <1>2, Digits
<1>4. PICK g, r \in 0..(C - 1) : g = n \div C /\ r = n % C /\ n = g * C + r
  BY <1>3
<1>5. g = h
  <2>1. (g - h) * C = g * C - h * C
    OBVIOUS
  <2>2. -C < (g - h) * C /\ (g - h) * C < C
    BY <1>2, <1>4, <2>1
  <2>3. g - h >= 1 => (g - h) * C >= C
    OBVIOUS
  <2>4. g - h <= -1 => (g - h) * C <= -C
    OBVIOUS
  <2> QED
    BY <2>2, <2>3, <2>4
<1>6. r = l
  BY <1>2, <1>4, <1>5
<1> QED
  BY <1>1, <1>2, <1>4, <1>5, <1>6

\* What a token's bytes may be.
LEMMA TokenFor ==
  ASSUME NEW b \in Bytes, NEW c \in Bytes, NEW d \in Bytes
  PROVE  /\ b < Mark => \E t \in Tokens : Encoded(t) = <<b>>
         /\ b >= Mark /\ c < Mark => \E t \in Tokens : Encoded(t) = <<b, c>>
         /\ b >= Mark /\ c >= Mark => \E t \in Tokens : Encoded(t) = <<b, c, d>>
<1>1. PICK C \in Nat \ {0} : C = CountBase
  BY Sizes
<1>2. Mark = 3 * C /\ Bytes = 0..(4 * C - 1)
  BY <1>1 DEF Mark, Bytes
<1>3. ASSUME b < Mark PROVE \E t \in Tokens : Encoded(t) = <<b>>
  <2> DEFINE t == [kind |-> "literal", byte |-> b]
  <2>1. b \in 0..(Mark - 1)
    BY <1>2, <1>3
  <2>2. t \in Tokens
    BY <2>1 DEF Tokens
  <2>3. Encoded(t) = <<b>>
    BY DEF Encoded
  <2> QED
    BY <2>2, <2>3
<1>4. ASSUME b >= Mark, c < Mark PROVE \E t \in Tokens : Encoded(t) = <<b, c>>
  <2> DEFINE t == [kind |-> "run", count |-> b - Mark, byte |-> c]
  <2>1. b - Mark \in 0..(CountBase - 1) /\ c \in 0..(Mark - 1) /\ Mark + (b - Mark) = b
    BY <1>1, <1>2, <1>4
  <2>2. t \in Tokens
    BY <2>1 DEF Tokens
  <2>3. Encoded(t) = <<Mark + (b - Mark), c>>
    BY DEF Encoded
  <2> QED
    BY <2>1, <2>2, <2>3
<1>5. ASSUME b >= Mark, c >= Mark PROVE \E t \in Tokens : Encoded(t) = <<b, c, d>>
  <2>1. PICK h, l \in 0..(C - 1) : h = b - Mark /\ l = c - Mark
    BY <1>2, <1>5
  <2>2. PICK n \in 0..(C * C - 1) : n \div C = h /\ n % C = l
    BY <2>1, OfDigits
  <2> DEFINE t == [kind |-> "long", count |-> n, byte |-> d]
  <2>3. t \in Tokens
    BY <1>1, <2>2 DEF Tokens
  <2>4. Encoded(t) = <<Mark + (n \div CountBase), Mark + (n % CountBase), d>>
    BY DEF Encoded
  <2>5. Mark + h = b /\ Mark + l = c
    BY <1>2, <2>1
  <2> QED
    BY <1>1, <2>2, <2>3, <2>4, <2>5
<1> QED
  BY <1>3, <1>4, <1>5

\* Wherever one is in a payload, a token is ahead, which may be cut.
LEMMA TokenAhead ==
  ASSUME NEW bytes \in Seq(Bytes), NEW n \in 0..(Len(bytes) - 1)
  PROVE  \E t \in Tokens : \E k \in 1..Len(Encoded(t)) :
           /\ n + k <= Len(bytes)
           /\ \A j \in 1..k : Encoded(t)[j] = bytes[n + j]
           /\ k = Len(Encoded(t)) \/ n + k = Len(bytes)
<1>1. PICK N \in Nat : N = Len(bytes) /\ n + 1 <= N
  OBVIOUS
<1>2. \A i \in 1..N : bytes[i] \in Bytes
  BY <1>1
<1>3. Bytes \subseteq Nat /\ 0 \in Bytes /\ 0 < Mark /\ Mark \in Nat
  BY Sizes DEF Bytes, Mark
<1> DEFINE b == bytes[n + 1]
           c == IF n + 2 <= N THEN bytes[n + 2] ELSE 0
           d == IF n + 3 <= N THEN bytes[n + 3] ELSE 0
<1>4. b \in Bytes /\ c \in Bytes /\ d \in Bytes
  BY <1>1, <1>2, <1>3
<1>5. (n + 2 <= N => c = bytes[n + 2]) /\ (n + 3 <= N => d = bytes[n + 3])
      /\ (~(n + 2 <= N) => c = 0)
  OBVIOUS
<1>6. b = bytes[n + 1]
  OBVIOUS
<1> HIDE DEF b, c, d
<1>7. b \in Nat /\ c \in Nat
  BY <1>3, <1>4
<1>8. CASE b < Mark
  <2>1. PICK t \in Tokens : Encoded(t) = <<b>>
    BY <1>4, <1>8, TokenFor
  <2>2. Len(Encoded(t)) = 1 /\ Encoded(t)[1] = b
    BY <2>1
  <2>3. 1 \in 1..Len(Encoded(t)) /\ \A j \in 1..1 : Encoded(t)[j] = bytes[n + j]
    BY <1>6, <2>2
  <2> QED
    BY <1>1, <2>2, <2>3
<1>9. CASE b >= Mark /\ c < Mark
  <2>1. PICK t \in Tokens : Encoded(t) = <<b, c>>
    BY <1>4, <1>9, TokenFor
  <2>2. Len(Encoded(t)) = 2 /\ Encoded(t)[1] = b /\ Encoded(t)[2] = c
    BY <2>1
  <2>3. CASE n + 2 <= N
    <3>1. 2 \in 1..Len(Encoded(t)) /\ \A j \in 1..2 : Encoded(t)[j] = bytes[n + j]
      BY <1>5, <1>6, <2>2, <2>3
    <3> QED
      BY <1>1, <2>2, <2>3, <3>1
  <2>4. CASE n + 1 = N
    <3>1. 1 \in 1..Len(Encoded(t)) /\ \A j \in 1..1 : Encoded(t)[j] = bytes[n + j]
      BY <1>6, <2>2
    <3> QED
      BY <1>1, <2>4, <3>1
  <2>5. n + 2 <= N \/ n + 1 = N
    BY <1>1
  <2> QED
    BY <2>3, <2>4, <2>5
<1>10. CASE b >= Mark /\ c >= Mark
  <2>1. PICK t \in Tokens : Encoded(t) = <<b, c, d>>
    BY <1>4, <1>10, TokenFor
  <2>2. /\ Len(Encoded(t)) = 3
        /\ Encoded(t)[1] = b /\ Encoded(t)[2] = c /\ Encoded(t)[3] = d
    BY <2>1
  <2>3. n + 2 <= N
    BY <1>3, <1>5, <1>10
  <2>4. CASE n + 3 <= N
    <3>1. 3 \in 1..Len(Encoded(t)) /\ \A j \in 1..3 : Encoded(t)[j] = bytes[n + j]
      BY <1>5, <1>6, <2>2, <2>3, <2>4
    <3> QED
      BY <1>1, <2>2, <2>4, <3>1
  <2>5. CASE n + 2 = N
    <3>1. 2 \in 1..Len(Encoded(t)) /\ \A j \in 1..2 : Encoded(t)[j] = bytes[n + j]
      BY <1>5, <1>6, <2>2, <2>3
    <3> QED
      BY <1>1, <2>5, <3>1
  <2> QED
    BY <1>1, <2>3, <2>4, <2>5
<1> QED
  BY <1>3, <1>7, <1>8, <1>9, <1>10

\* The bytes of the tokens.
Written(body) == FlattenSeq([i \in DOMAIN body |-> Encoded(body[i])])

LEMMA WrittenIs ==
  ASSUME NEW body \in Seq(Tokens)
  PROVE  /\ [i \in DOMAIN body |-> Encoded(body[i])] \in Seq(Seq(Bytes))
         /\ Len([i \in DOMAIN body |-> Encoded(body[i])]) = Len(body)
         /\ Written(body) \in Seq(Bytes)
<1> DEFINE f == [i \in DOMAIN body |-> Encoded(body[i])]
<1>1. PICK N \in Nat : N = Len(body) /\ DOMAIN body = 1..N
  OBVIOUS
<1>2. ASSUME NEW i \in 1..N PROVE Encoded(body[i]) \in Seq(Bytes)
  <2>1. body[i] \in Tokens
    BY <1>1
  <2> QED
    BY <2>1, TokenBytes
<1>3. f \in [1..N -> Seq(Bytes)]
  BY <1>1, <1>2
<1>4. f \in Seq(Seq(Bytes)) /\ Len(f) = N
  BY <1>3, FunctionIsSeq
<1>5. Written(body) \in Seq(Bytes)
  BY <1>4, FlattenType DEF Written
<1> QED
  BY <1>1, <1>4, <1>5

LEMMA WrittenMore ==
  ASSUME NEW body \in Seq(Tokens), NEW t \in Tokens
  PROVE  /\ Append(body, t) \in Seq(Tokens) /\ Append(body, t) # <<>>
         /\ Last(Append(body, t)) = t
         /\ Written(Append(body, t)) = Written(body) \o Encoded(t)
<1> DEFINE w == Append(body, t)
           f == [i \in DOMAIN body |-> Encoded(body[i])]
           g == [i \in DOMAIN w |-> Encoded(w[i])]
<1>1. PICK N \in Nat : N = Len(body) /\ DOMAIN body = 1..N
  OBVIOUS
<1>2. /\ w \in Seq(Tokens) /\ Len(w) = N + 1 /\ DOMAIN w = 1..(N + 1)
      /\ w[N + 1] = t /\ \A i \in 1..N : w[i] = body[i]
  BY <1>1
<1>3. f \in Seq(Seq(Bytes)) /\ Len(f) = N /\ g \in Seq(Seq(Bytes)) /\ Len(g) = N + 1
  <2>1. f \in Seq(Seq(Bytes)) /\ Len(f) = N
    BY <1>1, WrittenIs
  <2> HIDE DEF w
  <2>2. g \in Seq(Seq(Bytes)) /\ Len(g) = N + 1
    BY <1>2, WrittenIs
  <2> QED
    BY <2>1, <2>2
<1>4. \A i \in 1..N : f[i] = g[i]
  <2> SUFFICES ASSUME NEW i \in 1..N PROVE f[i] = g[i]
    OBVIOUS
  <2>1. i \in DOMAIN body /\ i \in DOMAIN w /\ w[i] = body[i]
    BY <1>1, <1>2
  <2> QED
    BY <2>1
<1>5. g[N + 1] = Encoded(t)
  <2>1. N + 1 \in DOMAIN w /\ w[N + 1] = t
    BY <1>2
  <2> QED
    BY <2>1
<1>6. w # <<>> /\ Last(w) = t
  BY <1>2 DEF Last
<1> HIDE DEF f, g
<1>7. FlattenSeq(g) = FlattenSeq(f) \o g[N + 1]
  BY <1>3, <1>4, FlattenLast
<1> QED
  BY <1>2, <1>5, <1>6, <1>7 DEF Written, f, g

\* A beginning of a payload and the bytes after it are a longer beginning.
LEMMA Glued ==
  ASSUME NEW bytes \in Seq(Bytes), NEW n \in 0..Len(bytes), NEW e \in Seq(Bytes),
         NEW k \in 0..Len(e), n + k <= Len(bytes),
         \A j \in 1..k : e[j] = bytes[n + j]
  PROVE  /\ Len(SubSeq(bytes, 1, n) \o e) = n + Len(e)
         /\ SubSeq(SubSeq(bytes, 1, n) \o e, 1, n + k) = SubSeq(bytes, 1, n + k)
<1> DEFINE w == SubSeq(bytes, 1, n) \o e
<1>1. PICK N, m \in Nat : N = Len(bytes) /\ m = Len(e) /\ k <= m /\ n <= N
  OBVIOUS
<1> DEFINE h == SubSeq(bytes, 1, n)
<1>2. h \in Seq(Bytes) /\ Len(h) = n /\ \A i \in 1..n : h[i] = bytes[i]
  BY <1>1
<1> HIDE DEF h
<1>3. w \in Seq(Bytes) /\ Len(w) = n + m
  BY <1>1, <1>2 DEF h
<1>4. w = h \o e
  BY DEF h
<1> HIDE DEF w
<1>5. ASSUME NEW i \in 1..(n + k) PROVE w[i] = bytes[i]
  <2>1. CASE i <= n
    <3>1. (h \o e)[i] = h[i]
      BY <1>1, <1>2, <2>1
    <3> QED
      BY <1>2, <2>1, <1>4, <3>1
  <2>2. CASE i > n
    <3>1. PICK j \in 1..k : i = n + j
      <4>1. i - n \in 1..k /\ i = n + (i - n)
        BY <2>2
      <4> QED
        BY <4>1
    <3>2. (h \o e)[i] = e[j]
      BY <1>1, <1>2, <3>1
    <3> QED
      BY <3>1, <1>4, <3>2
  <2> QED
    BY <2>1, <2>2
<1>6. n + k \in 0..(n + m) /\ n + k \in 0..N
  BY <1>1
<1>7. SubSeq(w, 1, n + k) = [i \in 1..(n + k) |-> w[i]]
  BY <1>3, <1>6
<1>8. SubSeq(bytes, 1, n + k) = [i \in 1..(n + k) |-> bytes[i]]
  BY <1>1, <1>6
<1> QED
  BY <1>1, <1>3, <1>5, <1>7, <1>8 DEF w

\* No payload is left out: every sequence of bytes is some tokens, the last of
\* which may be cut, so that what is proved of maps that were encoded holds of
\* whatever the robot sends (map_decoder.py:63-84).
THEOREM EveryPayload ==
  \A bytes \in Seq(Bytes) :
    \E m \in [body : Seq(Tokens), cut : Nat] : IsMap(m) /\ Stream(m) = bytes
<1> SUFFICES ASSUME NEW bytes \in Seq(Bytes)
             PROVE  \E m \in [body : Seq(Tokens), cut : Nat] :
                      IsMap(m) /\ Stream(m) = bytes
  OBVIOUS
<1>1. PICK N \in Nat : N = Len(bytes)
  OBVIOUS
<1> DEFINE Begins(n) == \E b \in Seq(Tokens) : Written(b) = SubSeq(bytes, 1, n)
           Rests == {r \in 0..N : Begins(N - r)}
<1>2. N \in Rests
  <2>1. <<>> \in Seq(Tokens) /\ Written(<<>>) = <<>>
    <3>1. [i \in DOMAIN <<>> |-> Encoded(<<>>[i])] = <<>>
      OBVIOUS
    <3> QED
      BY <3>1, FlattenEmpty DEF Written
  <2>2. SubSeq(bytes, 1, N - N) = <<>>
    BY <1>1
  <2>3. Begins(N - N)
    BY <2>1, <2>2
  <2> HIDE DEF Begins
  <2> QED
    BY <2>3
<1>3. Rests \in SUBSET Nat /\ Rests # {}
  <2>1. Rests \subseteq Nat
    OBVIOUS
  <2> HIDE DEF Rests
  <2> QED
    BY <1>2, <2>1
<1>4. PICK r \in Rests : \A k \in Rests : r <= k
  <2> HIDE DEF Rests
  <2> QED
    BY <1>3, Least
<1>5. PICK n \in 0..N : n = N - r /\ Begins(n) /\ r \in 0..N
  <2>1. r \in 0..N /\ Begins(N - r)
    BY <1>4
  <2> HIDE DEF Begins
  <2> QED
    BY <2>1
<1>6. PICK b \in Seq(Tokens) : Written(b) = SubSeq(bytes, 1, n)
  BY <1>5
<1>7. ASSUME NEW body \in Seq(Tokens), NEW cut \in Nat,
             Written(body) \in Seq(Bytes),
             SubSeq(Written(body), 1, Len(Written(body)) - cut) = bytes,
             \/ cut = 0
             \/ body # <<>> /\ cut \in 1..(Len(Encoded(Last(body))) - 1)
      PROVE  \E m \in [body : Seq(Tokens), cut : Nat] : IsMap(m) /\ Stream(m) = bytes
  <2> DEFINE m == [body |-> body, cut |-> cut]
  <2>1. m \in [body : Seq(Tokens), cut : Nat] /\ m.body = body /\ m.cut = cut
    OBVIOUS
  <2> HIDE DEF m
  <2>2. IsMap(m)
    BY <1>7, <2>1 DEF IsMap
  <2>3. Stream(m) = bytes
    BY <1>7, <2>1 DEF Stream, ByteParts, Written
  <2> QED
    BY <2>1, <2>2, <2>3
<1>8. CASE n = N
  <2>1. Written(b) = bytes
    BY <1>1, <1>6, <1>8, SubSeqFull
  <2>2. Len(Written(b)) - 0 = Len(Written(b))
    BY <2>1
  <2>3. SubSeq(Written(b), 1, Len(Written(b)) - 0) = bytes
    BY <2>1, <2>2, SubSeqFull
  <2> QED
    BY <1>7, <2>1, <2>3
<1>9. CASE n < N
  <2>1. n \in 0..(Len(bytes) - 1)
    BY <1>1, <1>9
  <2>2. PICK t \in Tokens : \E k \in 1..Len(Encoded(t)) :
          /\ n + k <= Len(bytes)
          /\ \A j \in 1..k : Encoded(t)[j] = bytes[n + j]
          /\ k = Len(Encoded(t)) \/ n + k = Len(bytes)
    BY <2>1, TokenAhead
  <2> DEFINE e == Encoded(t)
             w == Append(b, t)
  <2>3. e \in Seq(Bytes)
    BY TokenBytes
  <2>4. PICK k \in 1..Len(e) :
          /\ n + k <= N /\ \A j \in 1..k : e[j] = bytes[n + j]
          /\ k = Len(e) \/ n + k = N
    BY <1>1, <2>2
  <2>5. w \in Seq(Tokens) /\ w # <<>> /\ Last(w) = t
        /\ Written(w) = SubSeq(bytes, 1, n) \o e
    BY <1>6, WrittenMore
  <2>6. Written(w) \in Seq(Bytes)
    <3> HIDE DEF w
    <3> QED
      BY <2>5, WrittenIs
  <2> HIDE DEF e, w
  <2>7. PICK l \in Nat : l = Len(e) /\ k \in 1..l
    BY <2>3
  <2>8. /\ Len(Written(w)) = n + l
        /\ SubSeq(Written(w), 1, n + k) = SubSeq(bytes, 1, n + k)
    <3>1. n \in 0..Len(bytes) /\ k \in 0..Len(e) /\ n + k <= Len(bytes)
      BY <1>1, <2>4, <2>7
    <3>2. \A j \in 1..k : e[j] = bytes[n + j]
      BY <2>4
    <3>3. Written(w) = SubSeq(bytes, 1, n) \o e
      BY <2>5
    <3> HIDE DEF Begins, Rests
    <3>4. /\ Len(SubSeq(bytes, 1, n) \o e) = n + Len(e)
          /\ SubSeq(SubSeq(bytes, 1, n) \o e, 1, n + k) = SubSeq(bytes, 1, n + k)
      BY <2>3, <3>1, <3>2, Glued
    <3> QED
      BY <2>7, <3>3, <3>4
  <2>9. CASE k = l
    <3>1. Written(w) = SubSeq(bytes, 1, n + k)
      BY <2>6, <2>8, <2>9, SubSeqFull
    <3>2. N - (n + k) \in 0..N /\ N - (N - (n + k)) = n + k /\ N - (n + k) < r
      BY <1>1, <1>5, <2>4, <2>7
    <3>3. Begins(N - (N - (n + k)))
      BY <2>5, <3>1, <3>2
    <3>4. N - (n + k) \in Rests
      <4> HIDE DEF Begins
      <4> QED
        BY <3>2, <3>3
    <3> HIDE DEF Rests
    <3>5. r <= N - (n + k)
      BY <1>4, <3>4
    <3> QED
      BY <1>5, <3>2, <3>5
  <2>10. CASE k # l
    <3>1. n + k = N /\ l - k \in 1..(l - 1) /\ l - k \in Nat /\ (n + l) - (l - k) = n + k
      BY <2>4, <2>7, <2>10
    <3>2. SubSeq(bytes, 1, n + k) = bytes
      BY <1>1, <3>1, SubSeqFull
    <3>3. SubSeq(Written(w), 1, Len(Written(w)) - (l - k)) = bytes
      BY <2>8, <3>1, <3>2
    <3>4. l - k \in 1..(Len(Encoded(Last(w))) - 1)
      BY <2>5, <2>7, <3>1 DEF e
    <3> QED
      BY <1>7, <2>5, <2>6, <3>1, <3>3, <3>4
  <2> QED
    BY <2>9, <2>10
<1> QED
  BY <1>8, <1>9
=============================================================================
