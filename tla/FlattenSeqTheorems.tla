------------------------- MODULE FlattenSeqTheorems --------------------------
(* What FlattenSeq of the community modules computes, for sequences of any   *)
(* length.  Its definition is recursive; induction is by least               *)
(* counterexample, which needs no theorem about an operator.                 *)
EXTENDS Integers, Sequences, SequencesExt, SequenceTheorems,
  WellFoundedInduction, TLAPS

\* Every set of numbers has a least one.
LEMMA Least ==
  ASSUME NEW T \in SUBSET Nat, T # {}
  PROVE  \E m \in T : \A k \in T : m <= k
<1>1. PICK m \in T : \A k \in T : ~(<<k, m>> \in OpToRel(<, Nat))
  BY NatLessThanWellFounded, WFMin
<1>2. ASSUME NEW k \in T PROVE m <= k
  <2>1. ~(<<k, m>> \in OpToRel(<, Nat))
    BY <1>1
  <2>2. ~(k < m)
    BY <2>1 DEF OpToRel
  <2> QED
    BY <2>2
<1> QED
  BY <1>2

\* A set with 0 and every successor contains all numbers.
LEMMA Induct ==
  ASSUME NEW S, 0 \in S, \A n \in Nat : n \in S => n + 1 \in S
  PROVE  Nat \subseteq S
<1> SUFFICES ASSUME Nat \ S # {} PROVE FALSE
  OBVIOUS
<1>1. PICK m \in Nat \ S : \A k \in Nat \ S : m <= k
  BY Least
<1>2. m - 1 \in Nat /\ m - 1 \notin S
  BY <1>1
<1> QED
  BY <1>1, <1>2

-----------------------------------------------------------------------------
\* f holds what FlattenSeq has put together after each of the first n parts.
Flattens(f, s, n) ==
  \A i \in 1..n : f[i] = IF i = 1 THEN s[i] ELSE f[i - 1] \o s[i]

\* s begins with the first n parts of t.
Agree(s, t, n) == \A i \in 1..n : s[i] = t[i]

\* There is such a function, and its values are sequences.
LEMMA FlattensExists ==
  ASSUME NEW S, NEW s \in Seq(Seq(S))
  PROVE  \A n \in 0..Len(s) : \E f \in [1..n -> Seq(S)] : Flattens(f, s, n)
<1> DEFINE Good ==
      {n \in Nat : n <= Len(s) => \E f \in [1..n -> Seq(S)] : Flattens(f, s, n)}
<1>1. 0 \in Good
  <2>1. [i \in 1..0 |-> <<>>] \in [1..0 -> Seq(S)]
    OBVIOUS
  <2>2. Flattens([i \in 1..0 |-> <<>>], s, 0)
    BY DEF Flattens
  <2> QED
    BY <2>1, <2>2
<1>2. ASSUME NEW n \in Nat, n \in Good PROVE n + 1 \in Good
  <2>1. CASE ~(n + 1 <= Len(s))
    BY <2>1
  <2>2. CASE n + 1 <= Len(s)
    <3>1. PICK f \in [1..n -> Seq(S)] : Flattens(f, s, n)
      BY <1>2, <2>2
    <3>2. s[n + 1] \in Seq(S) /\ (n # 0 => f[n] \in Seq(S))
      BY <2>2
    <3> DEFINE last == IF n = 0 THEN s[n + 1] ELSE f[n] \o s[n + 1]
               g == [i \in 1..(n + 1) |-> IF i <= n THEN f[i] ELSE last]
    <3>3. last \in Seq(S)
      <4>1. CASE n = 0
        BY <3>2, <4>1
      <4>2. CASE n # 0
        BY <3>2, <4>2
      <4> QED
        BY <4>1, <4>2
    <3> HIDE DEF last
    <3>4. g \in [1..(n + 1) -> Seq(S)]
      BY <3>3
    <3>5. ASSUME NEW i \in 1..(n + 1)
          PROVE  g[i] = IF i = 1 THEN s[i] ELSE g[i - 1] \o s[i]
      <4>1. CASE i <= n
        <5>0. i \in 1..n
          BY <4>1
        <5>1. f[i] = IF i = 1 THEN s[i] ELSE f[i - 1] \o s[i]
          BY <3>1, <5>0 DEF Flattens
        <5>2. g[i] = f[i] /\ (i # 1 => g[i - 1] = f[i - 1])
          BY <4>1
        <5> QED
          BY <5>1, <5>2
      <4>2. CASE i = n + 1
        <5>1. g[i] = last /\ (n # 0 => g[n] = f[n])
          BY <4>2
        <5> QED
          BY <4>2, <5>1 DEF last
      <4> QED
        BY <4>1, <4>2
    <3>6. Flattens(g, s, n + 1)
      <4> HIDE DEF g
      <4> QED
        BY <3>5 DEF Flattens
    <3> QED
      BY <3>4, <3>6
  <2> QED
    BY <2>1, <2>2
<1>3. Nat \subseteq Good
  <2> HIDE DEF Good
  <2> QED
    BY <1>1, <1>2, Induct
<1> QED
  BY <1>3

\* It depends on the parts so far only.
LEMMA FlattensPrefix ==
  ASSUME NEW s, NEW t, NEW f, NEW g, NEW n \in Nat,
         Agree(t, s, n), Flattens(f, s, n), Flattens(g, t, n)
  PROVE  Agree(g, f, n)
<1> DEFINE Good == {i \in Nat : i \in 1..n => g[i] = f[i]}
<1>1. 0 \in Good
  OBVIOUS
<1>2. ASSUME NEW i \in Nat, i \in Good PROVE i + 1 \in Good
  <2> SUFFICES ASSUME i + 1 <= n PROVE g[i + 1] = f[i + 1]
    OBVIOUS
  <2>1. i + 1 \in 1..n /\ (i + 1) - 1 = i
    OBVIOUS
  <2>2. /\ g[i + 1] = IF i + 1 = 1 THEN t[i + 1] ELSE g[i] \o t[i + 1]
        /\ f[i + 1] = IF i + 1 = 1 THEN s[i + 1] ELSE f[i] \o s[i + 1]
    BY <2>1 DEF Flattens
  <2>3. i # 0 => g[i] = f[i]
    BY <1>2
  <2> QED
    BY <2>1, <2>2, <2>3 DEF Agree
<1>3. Nat \subseteq Good
  <2> HIDE DEF Good
  <2> QED
    BY <1>1, <1>2, Induct
<1> QED
  BY <1>3 DEF Agree

\* FlattenSeq is the last value of such a function.
LEMMA FlattenIsLast ==
  ASSUME NEW S, NEW s \in Seq(Seq(S)), NEW n \in Nat \ {0}, Len(s) = n
  PROVE  \E f \in [1..n -> Seq(S)] : Flattens(f, s, n) /\ FlattenSeq(s) = f[n]
<1> DEFINE Rec(f) ==
      f = [i \in 1..Len(s) |-> IF i = 1 THEN s[i] ELSE f[i - 1] \o s[i]]
<1>1. PICK f \in [1..Len(s) -> Seq(S)] : Flattens(f, s, Len(s))
  BY FlattensExists
<1>2. Rec(f)
  BY <1>1 DEF Flattens
<1> DEFINE c == CHOOSE g : Rec(g)
<1>3. Rec(c)
  BY <1>2
<1>4. FlattenSeq(s) = c[n]
  BY DEF FlattenSeq
<1>5. Flattens(c, s, n)
  <2> HIDE DEF c
  <2> QED
    BY <1>3 DEF Flattens
<1>6. c[n] = f[n]
  <2> HIDE DEF c
  <2>1. Agree(s, s, n) /\ n \in 1..n
    BY DEF Agree
  <2>2. Agree(c, f, n)
    BY <1>1, <1>5, <2>1, FlattensPrefix
  <2> QED
    BY <2>1, <2>2 DEF Agree
<1> QED
  BY <1>1, <1>4, <1>6

\* Nothing is put together from no parts.
LEMMA FlattenEmpty == FlattenSeq(<<>>) = <<>>
BY DEF FlattenSeq

\* Putting together ends with the last part.
LEMMA FlattenLast ==
  ASSUME NEW S, NEW t \in Seq(Seq(S)), NEW u \in Seq(Seq(S)),
         Len(t) = Len(u) + 1, \A i \in 1..Len(u) : u[i] = t[i]
  PROVE  FlattenSeq(t) \in Seq(S) /\ FlattenSeq(t) = FlattenSeq(u) \o t[Len(t)]
<1>1. PICK n \in Nat \ {0} : n = Len(t) /\ n = Len(u) + 1
  OBVIOUS
<1>2. t[n] \in Seq(S)
  BY <1>1
<1>3. PICK f \in [1..n -> Seq(S)] : Flattens(f, t, n) /\ FlattenSeq(t) = f[n]
  BY <1>1, FlattenIsLast
<1>4. f[n] = IF n = 1 THEN t[n] ELSE f[n - 1] \o t[n]
  <2>1. n \in 1..n
    OBVIOUS
  <2> QED
    BY <1>3, <2>1 DEF Flattens
<1>5. CASE n = 1
  <2>1. FlattenSeq(u) = <<>>
    <3>1. u = <<>>
      BY <1>1, <1>5
    <3> QED
      BY <3>1, FlattenEmpty
  <2>2. <<>> \o t[n] = t[n]
    BY <1>2, ConcatEmptySeq
  <2> QED
    BY <1>1, <1>2, <1>3, <1>4, <1>5, <2>1, <2>2
<1>6. CASE n # 1
  <2>1. PICK m \in Nat \ {0} : m = n - 1 /\ Len(u) = m
    BY <1>1, <1>6
  <2>2. PICK g \in [1..m -> Seq(S)] : Flattens(g, u, m) /\ FlattenSeq(u) = g[m]
    <3>1. u \in Seq(Seq(S)) /\ m \in Nat \ {0} /\ Len(u) = m
      BY <2>1
    <3> QED
      BY ONLY <3>1, FlattenIsLast
  <2>3. Flattens(f, t, m)
    <3>1. \A i \in 1..m : i \in 1..n
      BY <2>1
    <3> QED
      BY <1>3, <3>1 DEF Flattens
  <2>4. g[m] = f[m]
    <3>1. m \in 1..m /\ Agree(u, t, m)
      BY <2>1 DEF Agree
    <3>2. Agree(g, f, m)
      BY <2>2, <2>3, <3>1, FlattensPrefix
    <3> QED
      BY <3>1, <3>2 DEF Agree
  <2>5. f[n] \in Seq(S)
    OBVIOUS
  <2> QED
    BY <1>1, <1>3, <1>4, <1>6, <2>1, <2>2, <2>4, <2>5
<1> QED
  BY <1>5, <1>6
\* What is put together from sequences over S is a sequence over S.
LEMMA FlattenType ==
  ASSUME NEW S, NEW s \in Seq(Seq(S))
  PROVE  FlattenSeq(s) \in Seq(S)
<1>1. CASE Len(s) = 0
  <2>1. s = <<>>
    BY <1>1
  <2>2. FlattenSeq(s) = <<>>
    BY <2>1, FlattenEmpty
  <2> QED
    BY <2>2
<1>2. CASE Len(s) # 0
  <2>1. PICK n \in Nat \ {0} : Len(s) = n
    BY <1>2
  <2>2. PICK f \in [1..n -> Seq(S)] : Flattens(f, s, n) /\ FlattenSeq(s) = f[n]
    BY <2>1, FlattenIsLast
  <2> QED
    BY <2>2
<1> QED
  BY <1>1, <1>2

-----------------------------------------------------------------------------
\* What the first n parts are together.
Upto(s, n) == FlattenSeq(SubSeq(s, 1, n))

\* The first parts are parts.
LEMMA FirstParts ==
  ASSUME NEW S, NEW s \in Seq(Seq(S)), NEW n \in 0..Len(s)
  PROVE  /\ SubSeq(s, 1, n) \in Seq(Seq(S)) /\ Len(SubSeq(s, 1, n)) = n
         /\ \A i \in 1..n : SubSeq(s, 1, n)[i] = s[i]
OBVIOUS

LEMMA UptoType ==
  ASSUME NEW S, NEW s \in Seq(Seq(S)), NEW n \in 0..Len(s)
  PROVE  Upto(s, n) \in Seq(S)
BY FirstParts, FlattenType DEF Upto

LEMMA UptoNone ==
  ASSUME NEW S, NEW s \in Seq(Seq(S))
  PROVE  Upto(s, 0) = <<>>
<1>1. SubSeq(s, 1, 0) = <<>>
  OBVIOUS
<1> QED
  BY <1>1, FlattenEmpty DEF Upto

LEMMA UptoAll ==
  ASSUME NEW S, NEW s \in Seq(Seq(S))
  PROVE  Upto(s, Len(s)) = FlattenSeq(s)
<1>1. SubSeq(s, 1, Len(s)) = s
  BY SubSeqFull
<1> QED
  BY <1>1 DEF Upto

LEMMA UptoNext ==
  ASSUME NEW S, NEW s \in Seq(Seq(S)), NEW n \in 0..(Len(s) - 1)
  PROVE  Upto(s, n + 1) = Upto(s, n) \o s[n + 1]
<1> DEFINE t == SubSeq(s, 1, n + 1)
           u == SubSeq(s, 1, n)
<1>1. n \in 0..Len(s) /\ n + 1 \in 0..Len(s) /\ n + 1 \in 1..(n + 1)
  OBVIOUS
<1>2. /\ t \in Seq(Seq(S)) /\ Len(t) = n + 1 /\ t[n + 1] = s[n + 1]
      /\ u \in Seq(Seq(S)) /\ Len(u) = n /\ \A i \in 1..n : u[i] = t[i]
  <2>1. /\ t \in Seq(Seq(S)) /\ Len(t) = n + 1
        /\ \A i \in 1..(n + 1) : t[i] = s[i]
    BY <1>1, FirstParts
  <2>2. u \in Seq(Seq(S)) /\ Len(u) = n /\ \A i \in 1..n : u[i] = s[i]
    BY <1>1, FirstParts
  <2> HIDE DEF t, u
  <2>3. t[n + 1] = s[n + 1]
    BY <1>1, <2>1
  <2>4. ASSUME NEW i \in 1..n PROVE u[i] = t[i]
    <3>1. i \in 1..(n + 1)
      OBVIOUS
    <3> QED
      BY <2>1, <2>2, <3>1
  <2> QED
    BY <2>1, <2>2, <2>3, <2>4
<1> HIDE DEF t, u
<1>3. Len(t) = Len(u) + 1 /\ \A i \in 1..Len(u) : u[i] = t[i]
  BY <1>2
<1>4. FlattenSeq(t) = FlattenSeq(u) \o t[Len(t)]
  BY <1>2, <1>3, FlattenLast
<1> QED
  BY <1>2, <1>4 DEF Upto, t, u

\* More parts go on where fewer end.
LEMMA UptoGrows ==
  ASSUME NEW S, NEW s \in Seq(Seq(S)), NEW n \in 0..Len(s), NEW m \in 0..n
  PROVE  /\ Len(Upto(s, m)) <= Len(Upto(s, n))
         /\ \A i \in 1..Len(Upto(s, m)) : Upto(s, n)[i] = Upto(s, m)[i]
<1> DEFINE Longer(k) ==
      /\ Len(Upto(s, m)) <= Len(Upto(s, k))
      /\ \A i \in 1..Len(Upto(s, m)) : Upto(s, k)[i] = Upto(s, m)[i]
           Good == {k \in Nat : k \in m..Len(s) => Longer(k)}
<1>1. m \in Nat /\ m \in 0..Len(s) /\ Len(Upto(s, m)) \in Nat
  <2>1. m \in 0..Len(s)
    OBVIOUS
  <2>2. Upto(s, m) \in Seq(S)
    BY <2>1, UptoType
  <2> QED
    BY <2>1, <2>2
<1>2. 0 \in Good
  BY <1>1
<1>3. ASSUME NEW k \in Nat, k \in Good PROVE k + 1 \in Good
  <2> SUFFICES ASSUME k + 1 \in m..Len(s) PROVE Longer(k + 1)
    OBVIOUS
  <2>1. CASE k + 1 = m
    BY <1>1, <2>1
  <2>2. CASE k + 1 # m
    <3>1. k \in 0..(Len(s) - 1) /\ k \in 0..Len(s) /\ Longer(k)
      BY <1>1, <1>3, <2>2
    <3> DEFINE p == Upto(s, k)
               q == s[k + 1]
    <3>2. p \in Seq(S) /\ q \in Seq(S) /\ Upto(s, k + 1) = p \o q
      BY <3>1, UptoType, UptoNext
    <3> HIDE DEF p, q
    <3>3. /\ Len(p \o q) = Len(p) + Len(q)
          /\ \A i \in 1..Len(p) : (p \o q)[i] = p[i]
      BY <3>2
    <3>4. /\ Len(Upto(s, m)) <= Len(p)
          /\ \A i \in 1..Len(Upto(s, m)) : p[i] = Upto(s, m)[i]
      BY <3>1 DEF p
    <3>5. Len(p) \in Nat /\ Len(q) \in Nat
      BY <3>2
    <3> QED
      BY <1>1, <3>2, <3>3, <3>4, <3>5
  <2> QED
    BY <2>1, <2>2
<1>4. Nat \subseteq Good
  <2> HIDE DEF Good
  <2> QED
    BY <1>2, <1>3, Induct
<1> QED
  BY <1>1, <1>4
=============================================================================
