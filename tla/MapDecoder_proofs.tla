-------------------------- MODULE MapDecoder_proofs --------------------------
(* Proofs about MapDecoder: every line of a track comes to its end, whatever *)
(* its direction and length; every cell it meets is painted, and none that   *)
(* it does not come near.                                                    *)
EXTENDS MapRuns_proofs

-----------------------------------------------------------------------------
(* One line of _line_points, in numbers: A cells in its longer direction, B *)
(* in the other, of which X and Y are done; e is the error, measured so that *)
(* a step in the longer direction takes B from it.                           *)

Walk(A, B, X, Y, e) ==
  /\ X \in 0..A /\ Y \in 0..X
  /\ e = (A - B) - X * B + Y * A
  /\ -B <= 2 * e /\ 2 * e <= 3 * A - 2 * B
  /\ A > 0 => A - 2 * B < 2 * e

\* A line starts with all of it to be done.
LEMMA WalkStarts ==
  ASSUME NEW A \in Nat, NEW B \in Nat, B <= A
  PROVE  Walk(A, B, 0, 0, A - B)
BY DEF Walk

\* Each round goes on in the longer direction, and the error stays in bounds
\* because it decides about the other one.
LEMMA WalkGoesOn ==
  ASSUME NEW A \in Nat, NEW B \in Nat, B <= A,
         NEW X \in Nat, NEW Y \in Nat, NEW e \in Int,
         Walk(A, B, X, Y, e), X < A
  PROVE  IF 2 * e <= A THEN Walk(A, B, X + 1, Y + 1, e - B + A)
                       ELSE Walk(A, B, X + 1, Y, e - B)
<1>1. (X + 1) * B = X * B + B /\ (Y + 1) * A = Y * A + A
  OBVIOUS
<1> QED
  BY <1>1 DEF Walk

\* The other direction is never done too far, and never further behind than the
\* longer one; both are done at the same time.
LEMMA WalkMeets ==
  ASSUME NEW A \in Nat, NEW B \in Nat, B <= A,
         NEW X \in Nat, NEW Y \in Nat, NEW e \in Int,
         Walk(A, B, X, Y, e)
  PROVE  Y <= B /\ B - Y <= A - X /\ (X = A => Y = B)
<1>1. /\ X <= A
      /\ 2 * (X * B) + B <= 2 * A + 2 * (Y * A)
      /\ 2 * (Y * A) <= A + 2 * (X * B)
  <2>1. X * B \in Nat /\ Y * A \in Nat
    OBVIOUS
  <2> QED
    BY <2>1 DEF Walk
<1>2. CASE A = 0
  BY <1>1, <1>2 DEF Walk
<1>3. CASE A > 0
  <2>1. Y <= B
    <3> SUFFICES ASSUME Y >= B + 1 PROVE FALSE
      OBVIOUS
    <3>1. (B + 1) * A <= Y * A /\ X * B <= A * B
      BY <1>1
    <3>2. (B + 1) * A = A * B + A
      OBVIOUS
    <3> QED
      BY <1>1, <1>3, <3>1, <3>2
  <2>2. CASE X = A
    <3> SUFFICES ASSUME Y + 1 <= B PROVE FALSE
      BY <2>1, <2>2
    <3>1. (Y + 1) * A <= B * A /\ (Y + 1) * A = Y * A + A /\ B * A = X * B
      BY <2>2
    <3>2. B <= 0
      BY <1>1, <3>1
    <3> QED
      BY <3>2
  <2>3. CASE X < A
    <3> SUFFICES ASSUME B - Y >= A - X + 1 PROVE FALSE
      BY <2>1, <2>3
    <3> DEFINE r == A - X
               d == A - B
    <3>1. r \in Nat /\ r > 0 /\ d \in Nat /\ X = A - r /\ B = A - d
      BY <1>1, <2>3
    <3>2. (Y + 1) * A <= (A - d - r) * A
      BY <3>1
    <3>3. /\ (Y + 1) * A = Y * A + A
          /\ (A - d - r) * A = A * A - d * A - r * A
          /\ X * B = A * A - r * A - d * A + r * d
      BY <3>1
    <3>4. 2 * (r * d) + B <= 0
      BY <1>1, <3>1, <3>2, <3>3
    <3>5. r * d \in Nat
      BY <3>1
    <3>6. B = 0 /\ r * d = 0
      BY <3>4, <3>5
    <3>7. d = A /\ r * A > 0
      BY <1>3, <3>1, <3>6
    <3> QED
      BY <3>6, <3>7
  <2> QED
    BY <1>1, <2>1, <2>2, <2>3
<1> QED
  BY <1>2, <1>3

\* It is off the line by half a cell at most.
LEMMA WalkNear ==
  ASSUME NEW A \in Nat, NEW B \in Nat, B <= A,
         NEW X \in Nat, NEW Y \in Nat, NEW e \in Int,
         Walk(A, B, X, Y, e)
  PROVE  2 * Abs(X * B - Y * A) <= A /\ 2 * Abs(Y * A - X * B) <= A
<1>1. PICK m, n \in Nat : m = X * B /\ n = Y * A
  OBVIOUS
<1>2. e = (A - B) - m + n /\ 2 * e <= 3 * A - 2 * B /\ (A > 0 => A - 2 * B < 2 * e)
  BY <1>1 DEF Walk
<1>3. 2 * (n - m) <= A /\ (A > 0 => 2 * (m - n) < A)
  BY <1>1, <1>2
<1>4. A = 0 => m = 0 /\ n = 0
  BY <1>1
<1> QED
  BY <1>1, <1>3, <1>4 DEF Abs

\* No other cell beside it is as near.
LEMMA WalkOnly ==
  ASSUME NEW A \in Nat, NEW B \in Nat, B <= A,
         NEW X \in Nat, NEW Y \in Nat, NEW e \in Int,
         Walk(A, B, X, Y, e), NEW V \in Int,
         2 * Abs(X * B - V * A) < A \/ 2 * Abs(V * A - X * B) < A
  PROVE  V = Y
<1>1. A > 0
  BY DEF Abs
<1>2. PICK m \in Nat : m = X * B
  OBVIOUS
<1>3. -A < 2 * (V * A - m) /\ 2 * (V * A - m) < A
  BY <1>2 DEF Abs
<1>4. -A < 2 * (Y * A - m) /\ 2 * (Y * A - m) <= A
  BY <1>1, <1>2 DEF Walk
<1>5. (V - Y) * A = V * A - Y * A /\ V * A \in Int /\ Y * A \in Int
  OBVIOUS
<1>6. PICK d \in Int : d = V - Y
  OBVIOUS
<1>7. -A < d * A /\ d * A < A
  BY <1>2, <1>3, <1>4, <1>5, <1>6
<1>8. d = 0
  <2>1. d >= 1 => d * A >= A
    BY <1>1
  <2>2. d <= -1 => d * A <= -A
    BY <1>1
  <2> QED
    BY <1>7, <2>1, <2>2
<1> QED
  BY <1>6, <1>8

-----------------------------------------------------------------------------
(* The state of the renderer.                                               *)

Points == Int \X Int

\* at is where X steps along and Y steps down lead, and error what they cost.
OnLine ==
  \E X, Y \in Nat :
    /\ at = <<points[1][1] + sx * X, points[1][2] + sy * Y>>
    /\ IF dx >= -dy THEN Walk(dx, -dy, X, Y, error)
                    ELSE Walk(-dy, dx, Y, X, -error)

IInv ==
  /\ track.bytes \in Seq(Bytes) /\ index \in Nat
  /\ stage = "line" =>
       /\ points \in Seq(Points) /\ points # <<>> /\ error \in Int
       /\ Len(points) > 1 => OnLine

\* The line in hand: its lengths, its directions and its end.
LEMMA LineShape ==
  ASSUME points \in Seq(Points), Len(points) > 1
  PROVE  /\ points[1] \in Points /\ points[2] \in Points
         /\ dx \in Nat /\ -dy \in Nat /\ dy = -(-dy)
         /\ sx \in {1, -1} /\ sy \in {1, -1}
         /\ points[2] = <<points[1][1] + sx * dx, points[1][2] + sy * (-dy)>>
         /\ Span(points[1], points[2]) = dx - (-dy)
<1>1. points[1] \in Points /\ points[2] \in Points
  OBVIOUS
<1>2. PICK p1, p2, q1, q2 \in Int :
        points[1] = <<p1, p2>> /\ points[2] = <<q1, q2>>
  BY <1>1 DEF Points
<1>3. /\ dx = Abs(q1 - p1) /\ dy = -Abs(q2 - p2)
      /\ sx = (IF p1 < q1 THEN 1 ELSE -1) /\ sy = (IF p2 < q2 THEN 1 ELSE -1)
  BY <1>2 DEF dx, dy, sx, sy
<1>4. /\ q1 = p1 + sx * dx /\ q2 = p2 + sy * (-dy)
      /\ dx \in Nat /\ -dy \in Nat
  BY <1>3 DEF Abs
<1>5. Span(points[1], points[2]) = dx - (-dy) /\ dy = -(-dy)
  <2>1. /\ Span(points[1], points[2]) = Abs(q1 - p1) - Abs(q2 - p2)
        /\ Abs(q1 - p1) \in Nat /\ Abs(q2 - p2) \in Nat
    BY <1>2 DEF Span, Abs
  <2> QED
    BY <1>3, <2>1
<1>6. points[2] = <<points[1][1] + sx * dx, points[1][2] + sy * (-dy)>>
  BY <1>2, <1>4
<1>7. sx \in {1, -1} /\ sy \in {1, -1}
  BY DEF sx, sy
<1> QED
  BY <1>1, <1>4, <1>5, <1>6, <1>7

\* A line begins with nothing done.
LEMMA LineBegins ==
  /\ points \in Seq(Points) /\ Len(points) > 1 /\ at = points[1]
  /\ error = Span(points[1], points[2])
  => OnLine /\ error \in Int
<1> SUFFICES ASSUME points \in Seq(Points), Len(points) > 1, at = points[1],
                    error = Span(points[1], points[2])
             PROVE  OnLine /\ error \in Int
  OBVIOUS
<1>1. /\ dx \in Nat /\ -dy \in Nat /\ error = dx - (-dy) /\ error \in Int
  <2> DEFINE a == dx
             b == -dy
  <2>1. a \in Nat /\ b \in Nat /\ error = a - b
    BY LineShape
  <2> HIDE DEF a, b
  <2>2. a - b \in Int
    BY <2>1
  <2> QED
    BY <2>1, <2>2 DEF a, b
<1>2. at = <<points[1][1] + sx * 0, points[1][2] + sy * 0>>
  <2>0. points[1] \in Int \X Int
    BY LineShape DEF Points
  <2>1. PICK p1, p2 \in Int : points[1] = <<p1, p2>>
    BY <2>0
  <2>2. sx \in Int /\ sy \in Int
    BY DEF sx, sy
  <2> QED
    BY <2>1, <2>2
<1>3. CASE dx >= -dy
  BY <1>1, <1>2, <1>3, WalkStarts DEF OnLine
<1>4. CASE ~(dx >= -dy)
  <2>1. -error = -dy - dx
    BY <1>1
  <2>2. Walk(-dy, dx, 0, 0, -error)
    BY <1>1, <1>4, <2>1, WalkStarts
  <2> QED
    BY <1>1, <1>2, <1>4, <2>2 DEF OnLine
<1> QED
  BY <1>1, <1>3, <1>4

\* The same after a step.
LEMMA LineBeginsNext ==
  (/\ points \in Seq(Points) /\ Len(points) > 1 /\ at = points[1]
   /\ error = Span(points[1], points[2])
   => OnLine /\ error \in Int)'
BY LineBegins, PTL

\* The longer one of two lengths.
LEMMA LongerOf ==
  ASSUME NEW m \in Int, NEW n \in Int
  PROVE  Max({m, n}) = IF m >= n THEN m ELSE n
BY DEF Max

\* One round of the loop: on the line still, and nearer to its end.
LEMMA LineAdvances ==
  ASSUME IInv, LineStep
  PROVE  OnLine' /\ error' \in Int /\ Rest' < Rest
<1>0. /\ points \in Seq(Points) /\ Len(points) > 1 /\ OnLine /\ error \in Int
      /\ points' = points /\ at # points[2]
  BY DEF IInv, LineStep
<1>1. PICK p1, p2 \in Int : points[1] = <<p1, p2>>
  <2>1. points[1] \in Int \X Int
    BY <1>0, LineShape DEF Points
  <2> QED
    BY <2>1
<1>2. PICK a, b \in Nat : a = dx /\ b = -dy
  BY <1>0, LineShape
<1>3. PICK s, t \in {1, -1} : s = sx /\ t = sy
  BY <1>0, LineShape
<1>4. points[2] = <<p1 + s * a, p2 + t * b>> /\ dy = -b
  BY <1>0, <1>1, <1>2, <1>3, LineShape
<1>5. dx' = dx /\ dy' = dy /\ sx' = sx /\ sy' = sy
  BY <1>0 DEF dx, dy, sx, sy
<1>6. PICK X, Y \in Nat :
        /\ at = <<p1 + s * X, p2 + t * Y>>
        /\ IF a >= b THEN Walk(a, b, X, Y, error) ELSE Walk(b, a, Y, X, -error)
  BY <1>0, <1>1, <1>2, <1>3 DEF OnLine
<1>7. /\ error' = error + (IF 2 * error >= -b THEN -b ELSE 0)
                       + (IF 2 * error <= a THEN a ELSE 0)
      /\ at' = <<at[1] + (IF 2 * error >= -b THEN s ELSE 0),
                 at[2] + (IF 2 * error <= a THEN t ELSE 0)>>
  BY <1>2, <1>3, <1>4 DEF LineStep, Along, Down
<1>8. ASSUME NEW U \in 0..a, NEW V \in 0..b, at' = <<p1 + s * U, p2 + t * V>>,
             IF a >= b THEN Walk(a, b, U, V, error') ELSE Walk(b, a, V, U, -error')
      PROVE  OnLine'
  BY <1>0, <1>1, <1>2, <1>3, <1>5, <1>8 DEF OnLine
<1>9. ASSUME NEW U \in 0..a, NEW V \in 0..b,
             NEW c, c = <<p1 + s * U, p2 + t * V>>
      PROVE  Length(c, points[2])
               = IF a - U >= b - V THEN a - U ELSE b - V
  <2>1. points[2][1] - c[1] = s * a - s * U /\ points[2][2] - c[2] = t * b - t * V
    BY <1>4, <1>9
  <2>2. Abs(points[2][1] - c[1]) = a - U /\ Abs(points[2][2] - c[2]) = b - V
    BY <2>1 DEF Abs
  <2> QED
    BY <2>2, LongerOf DEF Length
<1>10. ASSUME NEW U \in 0..a, NEW V \in 0..b, X \in 0..a, Y \in 0..b,
              at' = <<p1 + s * U, p2 + t * V>>,
              \/ a - X >= b - Y /\ a - U >= b - V /\ U > X
              \/ b - Y >= a - X /\ b - V >= a - U /\ V > Y
       PROVE  Rest' < Rest
  <2>1. /\ Rest = Length(at, points[2]) /\ Rest' = Length(at', points[2])
    BY <1>0 DEF Rest
  <2>2. /\ Rest = IF a - X >= b - Y THEN a - X ELSE b - Y
        /\ Rest' = IF a - U >= b - V THEN a - U ELSE b - V
    BY <1>6, <1>9, <1>10, <2>1
  <2> QED
    BY <1>10, <2>2
<1>11. CASE a >= b
  <2>1. Walk(a, b, X, Y, error) /\ -b <= 2 * error /\ X \in 0..a
    BY <1>6, <1>11 DEF Walk
  <2>2. Y <= b /\ b - Y <= a - X /\ (X = a => Y = b)
    BY <1>0, <1>11, <2>1, WalkMeets
  <2>3. X < a
    <3> SUFFICES ASSUME X = a PROVE FALSE
      BY <2>1
    <3>1. at = <<p1 + s * a, p2 + t * b>>
      BY <1>6, <2>2
    <3> QED
      BY <1>0, <1>4, <3>1
  <2>4. PICK V \in {Y, Y + 1} :
          /\ Walk(a, b, X + 1, V, error') /\ error' \in Int
          /\ at' = <<p1 + s * (X + 1), p2 + t * V>>
    <3>1. s * (X + 1) = s * X + s /\ t * (Y + 1) = t * Y + t
      OBVIOUS
    <3>2. /\ at[1] + s = p1 + s * (X + 1) /\ at[2] + t = p2 + t * (Y + 1)
          /\ at[2] + 0 = p2 + t * Y
      BY <1>6, <3>1
    <3>3. CASE 2 * error <= a
      <4>1. Walk(a, b, X + 1, Y + 1, error - b + a)
        BY <1>0, <1>11, <2>1, <2>3, <3>3, WalkGoesOn
      <4>2. error' = error - b + a
        BY <1>0, <1>7, <2>1, <3>3
      <4> QED
        BY <1>0, <1>7, <2>1, <3>2, <3>3, <4>1, <4>2
    <3>4. CASE ~(2 * error <= a)
      <4>1. Walk(a, b, X + 1, Y, error - b)
        BY <1>0, <1>11, <2>1, <2>3, <3>4, WalkGoesOn
      <4>2. error' = error - b
        BY <1>0, <1>7, <2>1, <3>4
      <4> QED
        BY <1>0, <1>7, <2>1, <3>2, <3>4, <4>1, <4>2
    <3> QED
      BY <3>3, <3>4
  <2>5. V <= b /\ b - V <= a - (X + 1)
    BY <1>11, <2>3, <2>4, WalkMeets
  <2> QED
    BY <1>8, <1>10, <1>11, <2>1, <2>2, <2>3, <2>4, <2>5
<1>12. CASE ~(a >= b)
  <2>1. Walk(b, a, Y, X, -error) /\ 2 * error <= a /\ Y \in 0..b
    BY <1>0, <1>6, <1>12 DEF Walk
  <2>2. X <= a /\ a - X <= b - Y /\ (Y = b => X = a)
    BY <1>0, <1>12, <2>1, WalkMeets
  <2>3. Y < b
    <3> SUFFICES ASSUME Y = b PROVE FALSE
      BY <2>1
    <3>1. at = <<p1 + s * a, p2 + t * b>>
      BY <1>6, <2>2
    <3> QED
      BY <1>0, <1>4, <3>1
  <2>4. PICK U \in {X, X + 1} :
          /\ Walk(b, a, Y + 1, U, -error') /\ error' \in Int
          /\ at' = <<p1 + s * U, p2 + t * (Y + 1)>>
    <3>1. s * (X + 1) = s * X + s /\ t * (Y + 1) = t * Y + t
      OBVIOUS
    <3>2. /\ at[1] + s = p1 + s * (X + 1) /\ at[2] + t = p2 + t * (Y + 1)
          /\ at[1] + 0 = p1 + s * X
      BY <1>6, <3>1
    <3>3. CASE 2 * error >= -b
      <4>1. Walk(b, a, Y + 1, X + 1, (-error) - a + b)
        BY <1>0, <1>12, <2>1, <2>3, <3>3, WalkGoesOn
      <4>2. error' = error - b + a /\ -error' = (-error) - a + b
        BY <1>0, <1>7, <2>1, <3>3
      <4> QED
        BY <1>0, <1>7, <2>1, <3>2, <3>3, <4>1, <4>2
    <3>4. CASE ~(2 * error >= -b)
      <4>1. Walk(b, a, Y + 1, X, (-error) - a)
        BY <1>0, <1>12, <2>1, <2>3, <3>4, WalkGoesOn
      <4>2. error' = error + a /\ -error' = (-error) - a
        BY <1>0, <1>7, <2>1, <3>4
      <4> QED
        BY <1>0, <1>7, <2>1, <3>2, <3>4, <4>1, <4>2
    <3> QED
      BY <3>3, <3>4
  <2>5. U <= a /\ a - U <= b - (Y + 1)
    <3>1. -error' \in Int /\ U \in Nat
      BY <2>4
    <3> QED
      BY <1>12, <2>3, <2>4, <3>1, WalkMeets
  <2> QED
    BY <1>8, <1>10, <1>12, <2>1, <2>2, <2>3, <2>4, <2>5
<1> QED
  BY <1>11, <1>12
-----------------------------------------------------------------------------
(* What a leg passes through.                                               *)

\* A coordinate, counted in steps from where the leg starts.
LEMMA Counted ==
  ASSUME NEW s \in {1, -1}, NEW p \in Int, NEW c \in Int
  PROVE  \E u \in Int : c = p + s * u
<1>1. s * (c - p) \in Int /\ c = p + s * (s * (c - p))
  OBVIOUS
<1> QED
  BY <1>1

LEMMA BetweenSteps ==
  ASSUME NEW s \in {1, -1}, NEW p \in Int, NEW a \in Nat, NEW u \in Int
  PROVE  Between(p, p + s * u, p + s * a) <=> u \in 0..a
<1>1. (p + s * u) - p = s * u /\ (p + s * u) - (p + s * a) = s * (u - a)
  OBVIOUS
<1>2. (s * u) * (s * (u - a)) = u * (u - a)
  OBVIOUS
<1>3. Between(p, p + s * u, p + s * a) <=> u * (u - a) <= 0
  BY <1>1, <1>2 DEF Between
<1>4. u * (u - a) <= 0 <=> u \in 0..a
  <2>1. CASE u < 0
    <3>1. PICK x, y \in Nat \ {0} : x = -u /\ y = a - u
      BY <2>1
    <3>2. u * (u - a) = x * y /\ x * y > 0
      BY <3>1
    <3> QED
      BY <2>1, <3>2
  <2>2. CASE u > a
    <3>1. PICK x, y \in Nat \ {0} : x = u /\ y = u - a
      BY <2>2
    <3>2. u * (u - a) = x * y /\ x * y > 0
      BY <3>1
    <3> QED
      BY <2>2, <3>2
  <2>3. CASE u \in 0..a
    <3>1. PICK x, y \in Nat : x = u /\ y = a - u
      BY <2>3
    <3>2. u * (u - a) = -(x * y) /\ x * y >= 0
      BY <3>1
    <3> QED
      BY <2>3, <3>2
  <2> QED
    BY <2>1, <2>2, <2>3
<1> QED
  BY <1>3, <1>4

\* From p, so many steps along and down.
Steps(p, s, t, u, v) == <<p[1] + s * u, p[2] + t * v>>

\* A leg from p to q, a steps along and b down, and the cell c, u steps along
\* and v down.
Shape(c, p, q, a, b, u, v) ==
  /\ c \in Points
  /\ Off(c, p, q) = 2 * Abs(u * b - v * a)
  /\ Length(p, q) = IF a >= b THEN a ELSE b
  /\ Between(p[1], c[1], q[1]) <=> u \in 0..a
  /\ Between(p[2], c[2], q[2]) <=> v \in 0..b
  /\ Abs(c[1] - p[1]) = Abs(u) /\ Abs(c[2] - p[2]) = Abs(v)
  /\ c = p <=> u = 0 /\ v = 0

LEMMA LegShape ==
  ASSUME NEW p \in Points, NEW s \in {1, -1}, NEW t \in {1, -1},
         NEW a \in Nat, NEW b \in Nat, NEW u \in Int, NEW v \in Int,
         NEW c, c = Steps(p, s, t, u, v), NEW q, q = Steps(p, s, t, a, b)
  PROVE  Shape(c, p, q, a, b, u, v)
<1>1. PICK p1, p2 \in Int : p = <<p1, p2>>
  BY DEF Points
<1>2. c = <<p1 + s * u, p2 + t * v>> /\ q = <<p1 + s * a, p2 + t * b>>
  BY <1>1 DEF Steps
<1>3. /\ c[1] - p[1] = s * u /\ c[2] - p[2] = t * v
      /\ q[1] - p[1] = s * a /\ q[2] - p[2] = t * b
  BY <1>1, <1>2
<1>4. Off(c, p, q) = 2 * Abs(u * b - v * a)
  <2>1. Off(c, p, q) = 2 * Abs((s * u) * (t * b) - (t * v) * (s * a))
    BY <1>3, Zenon DEF Off
  <2>2. PICK m, n \in Int : m = u * b /\ n = v * a
    OBVIOUS
  <2>3. /\ (s * u) * (t * b) = (s * t) * (u * b)
        /\ (t * v) * (s * a) = (s * t) * (v * a)
    OBVIOUS
  <2>4. s * t \in {1, -1}
    OBVIOUS
  <2> QED
    BY <2>1, <2>2, <2>3, <2>4 DEF Abs
<1>5. Length(p, q) = IF a >= b THEN a ELSE b
  <2>1. Abs(q[1] - p[1]) = a /\ Abs(q[2] - p[2]) = b
    BY <1>3 DEF Abs
  <2> QED
    BY <2>1, LongerOf DEF Length
<1>6. /\ Between(p[1], c[1], q[1]) <=> u \in 0..a
      /\ Between(p[2], c[2], q[2]) <=> v \in 0..b
  <2>1. /\ Between(p1, p1 + s * u, p1 + s * a) <=> u \in 0..a
        /\ Between(p2, p2 + t * v, p2 + t * b) <=> v \in 0..b
    BY BetweenSteps
  <2>2. /\ p[1] = p1 /\ c[1] = p1 + s * u /\ q[1] = p1 + s * a
        /\ p[2] = p2 /\ c[2] = p2 + t * v /\ q[2] = p2 + t * b
    BY <1>1, <1>2
  <2> QED
    BY <2>1, <2>2
<1>7. Abs(c[1] - p[1]) = Abs(u) /\ Abs(c[2] - p[2]) = Abs(v)
  BY <1>3 DEF Abs
<1>8. c \in Points /\ (c = p <=> u = 0 /\ v = 0)
  BY <1>1, <1>2 DEF Points
<1> QED
  BY <1>4, <1>5, <1>6, <1>7, <1>8 DEF Shape

\* The cells that are done already, by how far along the leg they are.
Reached(c) ==
  IF dx >= -dy THEN Abs(c[1] - points[1][1]) <= Abs(at[1] - points[1][1])
               ELSE Abs(c[2] - points[1][2]) <= Abs(at[2] - points[1][2])

\* As far along as the one in hand.
Beside(c) ==
  IF dx >= -dy THEN Abs(c[1] - points[1][1]) = Abs(at[1] - points[1][1])
               ELSE Abs(c[2] - points[1][2]) = Abs(at[2] - points[1][2])

\* The cell in hand is near the leg, and the only one there that has to be
\* painted.
LEMMA OnLineFacts ==
  /\ points \in Seq(Points) /\ Len(points) > 1 /\ OnLine /\ error \in Int
  => /\ at \in Points /\ Near(at, points[1], points[2])
     /\ \A c \in Points : Meets(c, points[1], points[2]) /\ Beside(c) => c = at
<1> SUFFICES ASSUME points \in Seq(Points), Len(points) > 1, OnLine, error \in Int
             PROVE  /\ at \in Points /\ Near(at, points[1], points[2])
                    /\ \A c \in Points :
                         Meets(c, points[1], points[2]) /\ Beside(c) => c = at
  OBVIOUS
<1> DEFINE p == points[1]
           q == points[2]
<1>1. PICK p1, p2 \in Int : p = <<p1, p2>>
  <2>1. points[1] \in Int \X Int
    BY LineShape DEF Points
  <2> QED
    BY <2>1
<1>2. PICK a, b \in Nat : a = dx /\ b = -dy
  BY LineShape
<1>3. PICK s, t \in {1, -1} : s = sx /\ t = sy
  BY LineShape
<1>4. q = Steps(p, s, t, a, b) /\ p \in Points
  BY <1>2, <1>3, LineShape DEF Steps
<1>5. PICK X, Y \in Nat :
        /\ at = Steps(p, s, t, X, Y)
        /\ IF a >= b THEN Walk(a, b, X, Y, error) ELSE Walk(b, a, Y, X, -error)
  BY <1>1, <1>2, <1>3 DEF OnLine, Steps
<1> HIDE DEF p, q
<1>6. ASSUME NEW u \in Int, NEW v \in Int, NEW c, c = Steps(p, s, t, u, v)
      PROVE  Shape(c, p, q, a, b, u, v)
  BY <1>6, <1>4, LegShape
<1>7. Shape(at, p, q, a, b, X, Y)
  BY <1>6, <1>5
<1>8. X \in 0..a /\ Y \in 0..b
  <2>1. CASE a >= b
    BY <1>5, <2>1, WalkMeets DEF Walk
  <2>2. CASE ~(a >= b)
    <3>1. Walk(b, a, Y, X, -error) /\ -error \in Int /\ a <= b
      BY <1>5, <2>2
    <3> QED
      BY <3>1, WalkMeets DEF Walk
  <2> QED
    BY <2>1, <2>2
<1>9. Off(at, p, q) <= Length(p, q)
  <2>1. /\ Off(at, p, q) = 2 * Abs(X * b - Y * a)
        /\ Length(p, q) = IF a >= b THEN a ELSE b
    BY <1>7 DEF Shape
  <2>2. CASE a >= b
    BY <1>5, <2>1, <2>2, WalkNear
  <2>3. CASE ~(a >= b)
    <3>1. Walk(b, a, Y, X, -error) /\ -error \in Int /\ a <= b
      BY <1>5, <2>3
    <3> QED
      BY <2>1, <2>3, <3>1, WalkNear
  <2> QED
    BY <2>2, <2>3
<1>10. Near(at, p, q)
  <2>1. Between(p[1], at[1], q[1]) /\ Between(p[2], at[2], q[2])
    BY <1>7, <1>8 DEF Shape
  <2> QED
    BY <1>9, <2>1 DEF Near
<1>11. at \in Points
  BY <1>7 DEF Shape
<1>12. ASSUME NEW c \in Points, Meets(c, p, q), Beside(c) PROVE c = at
  <2>1. PICK u, v \in Int : c = Steps(p, s, t, u, v)
    <3>1. PICK c1, c2 \in Int : c = <<c1, c2>>
      BY DEF Points
    <3>2. (\E u \in Int : c1 = p1 + s * u) /\ (\E v \in Int : c2 = p2 + t * v)
      BY Counted
    <3> QED
      BY <1>1, <3>1, <3>2 DEF Steps
  <2>2. Shape(c, p, q, a, b, u, v)
    BY <1>6, <2>1
  <2>3. /\ u \in 0..a /\ v \in 0..b
        /\ Off(c, p, q) = 2 * Abs(u * b - v * a)
        /\ Length(p, q) = IF a >= b THEN a ELSE b
        /\ c = p <=> u = 0 /\ v = 0
        /\ Abs(c[1] - p[1]) = u /\ Abs(c[2] - p[2]) = v
    <3>1. Between(p[1], c[1], q[1]) /\ Between(p[2], c[2], q[2])
      BY <1>12 DEF Meets, Near
    <3>2. u \in 0..a /\ v \in 0..b
      BY <2>2, <3>1 DEF Shape
    <3>3. /\ Off(c, p, q) = 2 * Abs(u * b - v * a)
          /\ Length(p, q) = IF a >= b THEN a ELSE b
          /\ c = p <=> u = 0 /\ v = 0
          /\ Abs(c[1] - p[1]) = Abs(u) /\ Abs(c[2] - p[2]) = Abs(v)
      BY <2>2 DEF Shape
    <3>4. Abs(u) = u /\ Abs(v) = v
      BY <3>2 DEF Abs
    <3> QED
      BY <3>2, <3>3, <3>4
  <2>4. Abs(at[1] - p[1]) = X /\ Abs(at[2] - p[2]) = Y
    <3>1. Abs(at[1] - p[1]) = Abs(X) /\ Abs(at[2] - p[2]) = Abs(Y)
      BY <1>7 DEF Shape
    <3> QED
      BY <3>1 DEF Abs
  <2>5. IF a >= b THEN u = X ELSE v = Y
    BY <1>2, <1>12, <2>3, <2>4 DEF Beside, p
  <2>6. 2 * Abs(u * b - v * a) < (IF a >= b THEN a ELSE b) \/ (u = 0 /\ v = 0)
    BY <1>12, <2>3 DEF Meets
  <2>7. CASE a >= b
    <3>1. u = X /\ Walk(a, b, X, Y, error)
      BY <1>5, <2>5, <2>7
    <3>2. v = Y
      <4>1. CASE 2 * Abs(u * b - v * a) < a
        BY <2>7, <3>1, <4>1, WalkOnly
      <4>2. CASE u = 0 /\ v = 0
        BY <3>1, <4>2 DEF Walk
      <4> QED
        BY <2>6, <2>7, <4>1, <4>2
    <3> QED
      BY <1>5, <2>1, <3>1, <3>2
  <2>8. CASE ~(a >= b)
    <3>1. v = Y /\ Walk(b, a, Y, X, -error) /\ -error \in Int /\ a <= b
      BY <1>5, <2>5, <2>8
    <3>2. u = X
      <4>1. CASE 2 * Abs(u * b - v * a) < b
        BY <3>1, <4>1, WalkOnly
      <4>2. CASE u = 0 /\ v = 0
        BY <3>1, <4>2 DEF Walk
      <4> QED
        BY <2>6, <2>8, <4>1, <4>2
    <3> QED
      BY <1>5, <2>1, <3>1, <3>2
  <2> QED
    BY <2>7, <2>8
<1> QED
  BY <1>10, <1>11, <1>12 DEF p, q

\* The same after a step.
LEMMA OnLineFactsNext ==
  (/\ points \in Seq(Points) /\ Len(points) > 1 /\ OnLine /\ error \in Int
   => /\ at \in Points /\ Near(at, points[1], points[2])
      /\ \A c \in Points : Meets(c, points[1], points[2]) /\ Beside(c) => c = at)'
BY OnLineFacts, PTL

-----------------------------------------------------------------------------
(* The whole rendering.                                                     *)

LEMMA InvInit == Init => IInv
<1> SUFFICES ASSUME Init PROVE IInv
  OBVIOUS
<1>1. PICK a \in Arguments : map = a[1] /\ track = a[2]
  BY DEF Init
<1>2. track.bytes \in Seq(Bytes)
  BY <1>1, ArgumentsOK
<1> QED
  BY <1>2 DEF Init, IInv

\* The coordinates of a track are numbers.
LEMMA PairsAreSeq ==
  ASSUME NEW bytes \in Seq(Bytes)
  PROVE  Pairs(bytes) \in Seq(Points) /\ Len(Pairs(bytes)) = Len(bytes) \div 2
<1> DEFINE n == Len(bytes) \div 2
<1>1. n \in Nat
  OBVIOUS
<1>2. ASSUME NEW i \in 1..n
      PROVE  2 * i - 1 \in 1..Len(bytes) /\ 2 * i \in 1..Len(bytes)
  OBVIOUS
<1>3. CountBase \in Int
  BY Sizes
<1>4. Bytes \subseteq Int
  BY <1>3 DEF Bytes
<1>5. ASSUME NEW byte \in Bytes PROVE Signed(byte) \in Int
  BY <1>3, <1>4 DEF Signed
<1>6. ASSUME NEW i \in 1..n
      PROVE  <<Signed(bytes[2 * i - 1]), Signed(bytes[2 * i])>> \in Points
  <2>1. bytes[2 * i - 1] \in Bytes /\ bytes[2 * i] \in Bytes
    BY <1>2
  <2> QED
    BY <1>5, <2>1 DEF Points
<1>7. Pairs(bytes) \in [1..n -> Points]
  BY <1>6 DEF Pairs
<1> QED
  BY <1>1, <1>7

LEMMA InvNext == IInv /\ [Next]_vars => IInv'
<1> SUFFICES ASSUME IInv, [Next]_vars PROVE IInv'
  OBVIOUS
<1>1. CASE BadPayload
  BY <1>1 DEF BadPayload, Raise, IInv, atLine
<1>2. CASE Literal
  BY <1>2 DEF Literal, Decoding, Repeat, IInv, atLine
<1>3. CASE Run
  <2>1. index' \in Nat /\ stage' # "line" /\ track' = track
    BY <1>3 DEF Run, Decoding, Repeat, Raise, IInv
  <2> QED
    BY <2>1 DEF IInv
<1>4. CASE MapDecoded
  BY <1>4 DEF MapDecoded, IInv
<1>5. CASE BadTrack
  BY <1>5 DEF BadTrack, Raise, IInv
<1>6. CASE TrackDecoded
  <2> DEFINE all == Pairs(track.bytes)
  <2>1. track' = track /\ index' = index
    BY <1>6 DEF TrackDecoded
  <2>2. CASE all = <<>>
    BY <1>6, <2>1, <2>2 DEF TrackDecoded, IInv
  <2>3. CASE all # <<>>
    <3>1. /\ points' = all /\ at' = points'[1]
          /\ error' = IF Len(points') > 1 THEN Span(points'[1], points'[2]) ELSE 0
      BY <1>6, <2>3 DEF TrackDecoded
    <3>2. points' \in Seq(Points) /\ points' # <<>>
      BY <2>3, <3>1, PairsAreSeq DEF IInv
    <3>3. /\ error' \in Int
          /\ Len(points') > 1 => OnLine'
      <4>1. CASE Len(points') > 1
        BY <3>1, <3>2, <4>1, LineBeginsNext
      <4>2. CASE ~(Len(points') > 1)
        BY <3>1, <4>2
      <4> QED
        BY <4>1, <4>2
    <3> QED
      BY <2>1, <3>2, <3>3 DEF IInv
  <2> QED
    BY <2>2, <2>3
<1>7. CASE LineStep
  <2>1. OnLine' /\ error' \in Int
    BY <1>7, LineAdvances
  <2> QED
    BY <1>7, <2>1 DEF LineStep, IInv
<1>8. CASE NextLine
  <2>1. points \in Seq(Points) /\ Len(points) > 1
    BY <1>8 DEF NextLine, IInv
  <2>2. points' \in Seq(Points) /\ points' # <<>>
    <3>1. points' = Tail(points)
      BY <1>8 DEF NextLine, FromLast
    <3>2. Tail(points) \in Seq(Points) /\ Len(Tail(points)) = Len(points) - 1
      BY <2>1
    <3>3. points' \in Seq(Points) /\ Len(points') > 0
      BY <2>1, <3>1, <3>2
    <3> QED
      BY <3>3
  <2>3. /\ at' = points'[1]
        /\ error' = IF Len(points') > 1 THEN Span(points'[1], points'[2]) ELSE 0
    BY <1>8 DEF NextLine
  <2>4. error' \in Int /\ (Len(points') > 1 => OnLine')
    <3>1. CASE Len(points') > 1
      BY <2>2, <2>3, <3>1, LineBeginsNext
    <3>2. CASE ~(Len(points') > 1)
      BY <2>3, <3>2
    <3> QED
      BY <3>1, <3>2
  <2> QED
    BY <1>8, <2>2, <2>4 DEF NextLine, IInv
<1>9. CASE Drawn
  BY <1>9 DEF Drawn, IInv
<1>10. CASE UNCHANGED vars
  BY <1>10 DEF vars, IInv, OnLine, dx, dy, sx, sy
<1>11. CASE Over
  BY <1>10, <1>11 DEF Over
<1> QED
  BY <1>1, <1>2, <1>3, <1>4, <1>5, <1>6, <1>7, <1>8, <1>9, <1>10, <1>11 DEF Next

\* What a line is left with is always known.
THEOREM Invariant == Spec => []IInv
<1> QED
  BY InvInit, InvNext, PTL DEF Spec

Advance ==
  \/ stage' # stage
  \/ index' > index
  \/ Len(points') < Len(points)
  \/ points' = points /\ Rest' < Rest

LEMMA StepAdvances == IInv /\ Next => Advance \/ UNCHANGED vars
<1> SUFFICES ASSUME IInv, Next PROVE Advance \/ UNCHANGED vars
  OBVIOUS
<1>1. index \in Nat
  BY DEF IInv
<1>2. CASE BadPayload
  BY <1>2 DEF BadPayload, Raise, Advance
<1>3. CASE Literal
  BY <1>1, <1>3 DEF Literal, Repeat, Advance
<1>4. CASE Run
  <2>1. index' > index \/ stage' # stage
    BY <1>1, <1>4 DEF Run, Decoding, Repeat, Raise
  <2> QED
    BY <2>1 DEF Advance
<1>5. CASE MapDecoded
  BY <1>5 DEF MapDecoded, Advance
<1>6. CASE BadTrack
  BY <1>6 DEF BadTrack, Raise, Advance
<1>7. CASE TrackDecoded
  <2>1. stage' # stage
    BY <1>7 DEF TrackDecoded
  <2> QED
    BY <2>1 DEF Advance
<1>8. CASE LineStep
  BY <1>8, LineAdvances DEF LineStep, Advance
<1>9. CASE NextLine
  <2>1. points \in Seq(Points) /\ Len(points) > 1 /\ points' = Tail(points)
    BY <1>9 DEF NextLine, FromLast, IInv
  <2>2. Len(points') < Len(points)
    BY <2>1
  <2> QED
    BY <2>2 DEF Advance
<1>10. CASE Drawn
  BY <1>10 DEF Drawn, Advance
<1>11. CASE Over
  BY <1>11 DEF Over
<1> QED
  BY <1>2, <1>3, <1>4, <1>5, <1>6, <1>7, <1>8, <1>9, <1>10, <1>11 DEF Next

\* Whatever the payloads are, rendering comes to an end: each round consumes
\* bytes or points, or brings the line nearer to its end, so that the loop of
\* _line_points never misses it (map_decoder.py:65, 157, 173).
THEOREM Advances == Spec => RenderAdvances
<1>1. IInv /\ [Next]_vars => [Advance]_vars
  BY StepAdvances
<1> QED
  BY <1>1, Invariant, PTL DEF Spec, RenderAdvances, Advance

-----------------------------------------------------------------------------
(* The whole track.                                                         *)

MapCells == (0..(Width - 1)) \X (0..(Height - 1))
Through == Pairs(track.bytes)

LegDone(i) ==
  \A c \in MapCells : Meets(c, Through[i], Through[i + 1]) => c \in painted

\* The points that are left are the last ones.
Left ==
  /\ Len(points) \in 1..Len(Through)
  /\ \A i \in 1..Len(points) :
       points[i] = Through[(Len(Through) - Len(points)) + i]

\* All that has to be painted is, of the legs that are done and of the one in
\* hand as far as it goes; and nothing else is.
Complete ==
  /\ \A i \in 1..(Len(Through) - Len(points)) : LegDone(i)
  /\ Len(points) > 1 =>
       \A c \in MapCells : Meets(c, points[1], points[2]) /\ Reached(c) => c \in painted

NoMore ==
  \A c \in painted :
    /\ c \in MapCells
    /\ Len(Through) > 1 =>
         \E i \in 1..(Len(Through) - 1) : Near(c, Through[i], Through[i + 1])

TInv ==
  /\ stage \in {"map", "track"} => painted = {}
  /\ stage = "line" => Left /\ (OnMap(at) => at \in painted) /\ Complete
  /\ stage = "done" => \A i \in 1..(Len(Through) - 1) : LegDone(i)
  /\ NoMore

LEMMA ThroughType ==
  ASSUME IInv
  PROVE  /\ Through \in Seq(Points) /\ Len(Through) \in Nat
         /\ MapCells \subseteq Points
         /\ \A p \in Points : OnMap(p) <=> p \in MapCells
<1>1. Through \in Seq(Points)
  BY PairsAreSeq DEF IInv, Through
<1>2. MapCells \subseteq Points
  BY SizesOK DEF MapCells, Points
<1>3. \A p \in Points : OnMap(p) <=> p \in MapCells
  BY SizesOK DEF MapCells, Points, OnMap
<1> QED
  BY <1>1, <1>2, <1>3

\* The leg in hand is one of the track.
LEMMA LegInHand ==
  ASSUME IInv, Left, Len(points) > 1
  PROVE  LET k == Len(Through) - Len(points) + 1
         IN  /\ k \in 1..(Len(Through) - 1)
             /\ points[1] = Through[k] /\ points[2] = Through[k + 1]
<1>1. PICK n, l \in Nat : n = Len(Through) /\ l = Len(points)
  BY ThroughType DEF Left
<1>2. l \in 1..n /\ l > 1 /\ \A i \in 1..l : points[i] = Through[(n - l) + i]
  BY <1>1 DEF Left
<1>3. 1 \in 1..l /\ 2 \in 1..l /\ (n - l) + 2 = (n - l + 1) + 1
  BY <1>2
<1>4. points[1] = Through[n - l + 1] /\ points[2] = Through[(n - l + 1) + 1]
  BY <1>2, <1>3
<1>5. n - l + 1 \in 1..(n - 1)
  BY <1>2
<1> QED
  BY <1>1, <1>4, <1>5

LEMMA PointIs == \A p \in Points : \E x, y \in Int : p = <<x, y>>
BY DEF Points

\* A cell between two is as far along as the second one at most.
LEMMA BetweenReached ==
  ASSUME NEW a \in Int, NEW b \in Int, NEW c \in Int, Between(a, b, c)
  PROVE  Abs(b - a) <= Abs(c - a)
<1>1. PICK s \in {1, -1}, n \in Nat : c = a + s * n
  <2>1. CASE c >= a
    BY <2>1
  <2>2. CASE ~(c >= a)
    <3>1. c = a + (-1) * (a - c) /\ a - c \in Nat
      BY <2>2
    <3> QED
      BY <3>1
  <2> QED
    BY <2>1, <2>2
<1>2. PICK u \in Int : b = a + s * u
  BY Counted
<1>3. u \in 0..n
  BY <1>1, <1>2, BetweenSteps
<1> QED
  BY <1>1, <1>2, <1>3 DEF Abs

\* A leg starts with its first cell, and is done where it ends.
LEMMA LegStarts ==
  /\ points \in Seq(Points) /\ Len(points) > 1 /\ OnLine /\ error \in Int
  /\ at = points[1]
  => \A c \in Points : Meets(c, points[1], points[2]) /\ Reached(c) => c = at
<1> SUFFICES ASSUME points \in Seq(Points), Len(points) > 1, OnLine, error \in Int,
                    at = points[1], NEW c \in Points,
                    Meets(c, points[1], points[2]), Reached(c)
             PROVE  c = at
  OBVIOUS
<1>1. PICK p1, p2 \in Int : points[1] = <<p1, p2>>
  BY LineShape, PointIs
<1>2. PICK c1, c2 \in Int : c = <<c1, c2>>
  BY PointIs
<1>3. Beside(c)
  BY <1>1, <1>2 DEF Reached, Beside, Abs
<1> QED
  BY <1>3, OnLineFacts

LEMMA LegStartsNext ==
  (/\ points \in Seq(Points) /\ Len(points) > 1 /\ OnLine /\ error \in Int
   /\ at = points[1]
   => \A c \in Points : Meets(c, points[1], points[2]) /\ Reached(c) => c = at)'
BY LegStarts, PTL

LEMMA LegEnds ==
  ASSUME points \in Seq(Points), Len(points) > 1, at = points[2],
         NEW c \in Points, Meets(c, points[1], points[2])
  PROVE  Reached(c)
<1>1. PICK p1, p2 \in Int : points[1] = <<p1, p2>>
  BY LineShape, PointIs
<1>2. PICK q1, q2 \in Int : points[2] = <<q1, q2>>
  BY LineShape, PointIs
<1>3. PICK c1, c2 \in Int : c = <<c1, c2>>
  BY PointIs
<1>4. Between(p1, c1, q1) /\ Between(p2, c2, q2)
  BY <1>1, <1>2, <1>3 DEF Meets, Near
<1>5. Abs(c1 - p1) <= Abs(q1 - p1) /\ Abs(c2 - p2) <= Abs(q2 - p2)
  BY <1>4, BetweenReached
<1> QED
  BY <1>1, <1>2, <1>3, <1>5 DEF Reached

\* What is painted stays.
LEMMA PaintedStays ==
  ASSUME painted \subseteq painted', track' = track, NEW i, LegDone(i)
  PROVE  LegDone(i)'
BY DEF LegDone, Through

\* A step goes one cell along, and paints the one there is.
LEMMA StepPaints ==
  ASSUME IInv, TInv, LineStep
  PROVE  TInv'
<1>1. /\ stage = "line" /\ stage' = "line" /\ points' = points /\ track' = track
      /\ Len(points) > 1 /\ painted' = painted \cup (IF OnMap(at') THEN {at'} ELSE {})
  BY DEF LineStep, Paint
<1>2. /\ points \in Seq(Points) /\ OnLine /\ error \in Int
      /\ OnLine' /\ error' \in Int
  BY <1>1, LineAdvances DEF IInv
<1>3. at \in Points
  BY <1>1, <1>2, OnLineFacts
<1>4. /\ at' \in Points /\ Near(at', points[1], points[2])
      /\ \A c \in Points : (Meets(c, points'[1], points'[2]) /\ Beside(c)') => c = at'
  BY <1>1, <1>2, OnLineFactsNext
<1>5. Left /\ Complete /\ NoMore /\ Left' /\ Through' = Through
  BY <1>1 DEF TInv, Left, Through
<1>6. OnMap(at') => at' \in painted'
  BY <1>1
<1>7. \A i \in 1..(Len(Through) - Len(points)) : LegDone(i)'
  BY <1>1, <1>5, PaintedStays DEF Complete
<1>8. ASSUME NEW c \in MapCells, Meets(c, points[1], points[2]), Reached(c)'
      PROVE  c \in painted'
  <2>1. CASE Reached(c)
    BY <1>1, <1>5, <1>8, <2>1 DEF Complete
  <2>2. CASE ~Reached(c)
    <3>1. c \in Points /\ OnMap(c)
      BY ThroughType
    <3>2. Beside(c)'
      <4>1. PICK p1, p2 \in Int : points[1] = <<p1, p2>>
        BY <1>1, <1>2, LineShape, PointIs
      <4>2. PICK x, y \in Int : at = <<x, y>>
        BY <1>3, PointIs
      <4>3. PICK u, v \in Int : at' = <<u, v>>
        BY <1>4, PointIs
      <4>4. PICK c1, c2 \in Int : c = <<c1, c2>>
        BY <3>1, PointIs
      <4>5. u - x \in {-1, 0, 1} /\ v - y \in {-1, 0, 1}
        <5>1. sx \in {1, -1} /\ sy \in {1, -1}
          BY DEF sx, sy
        <5>2. u = x + (IF Along THEN sx ELSE 0) /\ v = y + (IF Down THEN sy ELSE 0)
          BY <4>2, <4>3 DEF LineStep
        <5> QED
          BY <5>1, <5>2
      <4>6. dx' = dx /\ dy' = dy
        BY <1>1 DEF dx, dy
      <4>7. /\ Reached(c) <=> IF dx >= -dy THEN Abs(c1 - p1) <= Abs(x - p1)
                                           ELSE Abs(c2 - p2) <= Abs(y - p2)
            /\ Reached(c)' <=> IF dx >= -dy THEN Abs(c1 - p1) <= Abs(u - p1)
                                            ELSE Abs(c2 - p2) <= Abs(v - p2)
            /\ Beside(c)' <=> IF dx >= -dy THEN Abs(c1 - p1) = Abs(u - p1)
                                           ELSE Abs(c2 - p2) = Abs(v - p2)
        BY <1>1, <4>1, <4>2, <4>3, <4>4, <4>6 DEF Reached, Beside
      <4> QED
        BY <1>8, <2>2, <4>5, <4>7 DEF Abs
    <3>3. c = at'
      BY <1>1, <1>4, <1>8, <3>1, <3>2
    <3> QED
      BY <1>6, <3>1, <3>3
  <2> QED
    BY <2>1, <2>2
<1>9. Complete'
  BY <1>1, <1>5, <1>7, <1>8 DEF Complete
<1>10. NoMore'
  <2>1. \E i \in 1..(Len(Through) - 1) : Near(at', Through[i], Through[i + 1])
    BY <1>1, <1>4, <1>5, LegInHand
  <2>2. OnMap(at') => at' \in MapCells
    BY <1>4, ThroughType
  <2> QED
    BY <1>1, <1>5, <2>1, <2>2 DEF NoMore
<1> QED
  BY <1>1, <1>5, <1>6, <1>9, <1>10 DEF TInv

\* Of a new leg the first cell has to be painted, and is.
LEMMA LegIsBegun ==
  ASSUME IInv', stage' = "line", Len(points') > 1, at' = points'[1],
         MapCells \subseteq Points, \A p \in Points : OnMap(p) <=> p \in MapCells,
         OnMap(at') => at' \in painted'
  PROVE  /\ at' \in Points /\ Near(at', points'[1], points'[2])
         /\ \A c \in MapCells :
              Meets(c, points'[1], points'[2]) /\ Reached(c)' => c \in painted'
<1>1. points' \in Seq(Points) /\ OnLine' /\ error' \in Int
  BY DEF IInv
<1>2. at' \in Points /\ Near(at', points'[1], points'[2])
  BY <1>1, OnLineFactsNext
<1>3. ASSUME NEW c \in MapCells, Meets(c, points'[1], points'[2]), Reached(c)'
      PROVE  c \in painted'
  <2>1. c \in Points
    OBVIOUS
  <2>2. c = at'
    BY <1>1, <1>3, <2>1, LegStartsNext
  <2> QED
    BY <2>1, <2>2
<1> QED
  BY <1>2, <1>3

LEMMA TrackPaints ==
  ASSUME IInv, IInv', TInv, TrackDecoded
  PROVE  TInv'
<1>1. /\ stage = "track" /\ track' = track /\ painted = {} /\ Through' = Through
      /\ Through \in Seq(Points) /\ Len(Through) \in Nat
  BY ThroughType DEF TrackDecoded, TInv, Through
<1>2. CASE Through = <<>>
  <2>1. stage' = "done" /\ painted' = painted /\ Len(Through) = 0
    BY <1>1, <1>2 DEF TrackDecoded, Through, atLine
  <2> QED
    BY <1>1, <2>1 DEF TInv, NoMore
<1>3. CASE Through # <<>>
  <2>1. /\ stage' = "line" /\ points' = Through /\ at' = points'[1]
        /\ painted' = (IF OnMap(at') THEN {at'} ELSE {})
    BY <1>1, <1>3 DEF TrackDecoded, Through, Paint
  <2>2. PICK n \in Nat \ {0} : n = Len(Through) /\ n = Len(points')
    BY <1>1, <1>3, <2>1
  <2>3. Left'
    <3>1. \A i \in 1..n : (n - n) + i = i
      OBVIOUS
    <3>2. \A i \in 1..n : points'[i] = Through[(n - n) + i]
      BY <2>1, <3>1
    <3>3. n \in 1..n
      OBVIOUS
    <3> QED
      BY <1>1, <2>2, <3>2, <3>3 DEF Left
  <2>4. OnMap(at') => at' \in painted'
    BY <2>1
  <2>5. MapCells \subseteq Points /\ \A p \in Points : OnMap(p) <=> p \in MapCells
    BY ThroughType
  <2>6. n > 1 =>
          /\ at' \in Points /\ Near(at', points'[1], points'[2])
          /\ \A c \in MapCells :
               Meets(c, points'[1], points'[2]) /\ Reached(c)' => c \in painted'
    BY <2>1, <2>2, <2>4, <2>5, LegIsBegun
  <2>7. Complete'
    <3>1. 1..(n - n) = {}
      OBVIOUS
    <3> QED
      BY <1>1, <2>2, <2>6, <3>1 DEF Complete
  <2>8. NoMore'
    <3>1. at' \in Points
      <4>1. 1 \in 1..Len(Through)
        BY <2>2
      <4> QED
        BY <1>1, <2>1, <4>1
    <3>2. \A c \in painted' : c = at' /\ c \in MapCells
      BY <2>1, <2>5, <3>1
    <3>3. ASSUME n > 1
          PROVE  \E i \in 1..(n - 1) : Near(at', Through[i], Through[i + 1])
      <4>1. 1 \in 1..(n - 1) /\ 1 + 1 = 2
        BY <3>3
      <4>2. Near(at', Through[1], Through[1 + 1])
        BY <2>1, <2>6, <3>3, <4>1
      <4> QED
        BY <4>1, <4>2
    <3> QED
      BY <1>1, <2>2, <3>2, <3>3 DEF NoMore
  <2> QED
    BY <2>1, <2>3, <2>4, <2>7, <2>8 DEF TInv
<1> QED
  BY <1>2, <1>3

LEMMA LegPaints ==
  ASSUME IInv, IInv', TInv, NextLine
  PROVE  TInv'
<1>1. /\ stage = "line" /\ stage' = "line" /\ track' = track /\ Through' = Through
      /\ Len(points) > 1 /\ points \in Seq(Points) /\ at = points[2]
      /\ points' = Tail(points) /\ at' = points'[1]
      /\ painted' = painted \cup (IF OnMap(at') THEN {at'} ELSE {})
  BY DEF NextLine, FromLast, IInv, Paint, Through
<1>2. Left /\ (OnMap(at) => at \in painted) /\ Complete /\ NoMore
  BY <1>1 DEF TInv
<1>3. PICK n, l \in Nat : /\ n = Len(Through) /\ l = Len(points) /\ l \in 1..n /\ l > 1
                          /\ \A i \in 1..l : points[i] = Through[(n - l) + i]
  <2>1. PICK n, l \in Nat : n = Len(Through) /\ l = Len(points)
    BY <1>1, ThroughType
  <2>2. l \in 1..n /\ l > 1 /\ \A i \in 1..l : points[i] = Through[(n - l) + i]
    BY <1>1, <1>2, <2>1 DEF Left
  <2> QED
    BY <2>1, <2>2
<1>4. Len(points') = l - 1 /\ \A i \in 1..(l - 1) : points'[i] = points[i + 1]
  BY <1>1, <1>3
<1>5. at' = at /\ painted' = painted
  <2>1. 1 \in 1..(l - 1) /\ 1 + 1 = 2
    BY <1>3
  <2>2. at' = at
    BY <1>1, <1>4, <2>1
  <2> QED
    BY <1>1, <1>2, <2>2
<1>6. Left'
  <2>1. ASSUME NEW i \in 1..(l - 1)
        PROVE  points'[i] = Through[(n - (l - 1)) + i]
    <3>1. i + 1 \in 1..l /\ (n - l) + (i + 1) = (n - (l - 1)) + i
      BY <1>3
    <3> QED
      BY <1>3, <1>4, <3>1
  <2>2. l - 1 \in 1..n
    BY <1>3
  <2> QED
    BY <1>1, <1>3, <1>4, <2>1, <2>2 DEF Left
<1>7. MapCells \subseteq Points /\ \A p \in Points : OnMap(p) <=> p \in MapCells
  BY ThroughType
<1>8. Complete'
  <2>1. ASSUME NEW i \in 1..(n - (l - 1)) PROVE LegDone(i)'
    <3>1. CASE i \in 1..(n - l)
      <4>1. LegDone(i)
        BY <1>2, <1>3, <3>1 DEF Complete
      <4> QED
        BY <1>1, <1>5, <4>1, PaintedStays
    <3>2. CASE i = n - l + 1
      <4>1. points[1] = Through[i] /\ points[2] = Through[i + 1]
        BY <1>1, <1>2, <1>3, <3>2, LegInHand
      <4>2. ASSUME NEW c \in MapCells, Meets(c, Through[i], Through[i + 1])
            PROVE  c \in painted
        <5>1. c \in Points /\ Meets(c, points[1], points[2])
          BY <1>7, <4>1, <4>2
        <5>2. Reached(c)
          BY <1>1, <5>1, LegEnds
        <5> QED
          BY <1>1, <1>2, <5>1, <5>2 DEF Complete
      <4> QED
        BY <1>1, <1>5, <4>2 DEF LegDone
    <3> QED
      BY <1>3, <3>1, <3>2
  <2>2. Len(points') > 1 =>
          \A c \in MapCells :
            Meets(c, points'[1], points'[2]) /\ Reached(c)' => c \in painted'
    BY <1>1, <1>2, <1>5, <1>7, LegIsBegun
  <2> QED
    BY <1>1, <1>3, <1>4, <2>1, <2>2 DEF Complete
<1>9. NoMore'
  BY <1>1, <1>2, <1>5 DEF NoMore
<1> QED
  BY <1>1, <1>2, <1>5, <1>6, <1>8, <1>9 DEF TInv

LEMMA TInit == Init => TInv
BY DEF Init, TInv, NoMore

LEMMA TNext == IInv /\ IInv' /\ TInv /\ [Next]_vars => TInv'
<1> SUFFICES ASSUME IInv, IInv', TInv, [Next]_vars PROVE TInv'
  OBVIOUS
<1>1. ASSUME stage \in {"map", "track"}, stage' \in {"map", "track", "error"},
             track' = track, painted' = painted
      PROVE  TInv'
  BY <1>1 DEF TInv, NoMore
<1>2. CASE BadPayload
  BY <1>1, <1>2 DEF BadPayload, Raise, atLine
<1>3. CASE Literal
  BY <1>1, <1>3 DEF Literal, Decoding, Repeat, atLine
<1>4. CASE Run
  <2>1. stage = "map" /\ stage' \in {"map", "error"}
    BY <1>4 DEF Run, Decoding, Repeat, Raise
  <2> QED
    BY <1>1, <1>4, <2>1 DEF Run, atLine
<1>5. CASE MapDecoded
  BY <1>1, <1>5 DEF MapDecoded, atLine
<1>6. CASE BadTrack
  BY <1>1, <1>6 DEF BadTrack, Raise, atLine
<1>7. CASE TrackDecoded
  BY <1>7, TrackPaints
<1>8. CASE LineStep
  BY <1>8, StepPaints
<1>9. CASE NextLine
  BY <1>9, LegPaints
<1>10. CASE Drawn
  <2>1. /\ stage = "line" /\ stage' = "done" /\ Len(points) = 1
        /\ track' = track /\ painted' = painted
    BY <1>10 DEF Drawn, atLine
  <2>2. \A i \in 1..(Len(Through) - 1) : LegDone(i)
    BY <2>1 DEF TInv, Complete
  <2>3. \A i \in 1..(Len(Through) - 1) : LegDone(i)'
    BY <2>1, <2>2, PaintedStays
  <2>4. Through' = Through
    BY <2>1 DEF Through
  <2> QED
    BY <2>1, <2>3, <2>4 DEF TInv, NoMore
<1>11. CASE UNCHANGED vars
  BY <1>11 DEF vars, TInv, Left, Complete, NoMore, LegDone, Through, Reached, dx, dy
<1>12. CASE Over
  BY <1>11, <1>12 DEF Over
<1> QED
  BY <1>2, <1>3, <1>4, <1>5, <1>6, <1>7, <1>8, <1>9, <1>10, <1>11, <1>12 DEF Next

\* Between two rounds all is painted that the track has passed through, and
\* nothing that is off its way (map_decoder.py:146-183).
THEOREM Draws == Spec => []TInv
<1>1. Init => IInv /\ TInv
  BY InvInit, TInit
<1>2. (IInv /\ TInv) /\ [Next]_vars => (IInv /\ TInv)'
  BY InvNext, TNext
<1> QED
  BY <1>1, <1>2, PTL DEF Spec

\* What is divisible, and not too far from zero.
LEMMA Divisible ==
  ASSUME NEW n \in Nat \ {0}, NEW x \in Int, -(2 * n) < x, x < n
  PROVE  x % n = 0 <=> x = 0 \/ x = -n
<1>1. x % n = 0 => x = 0 \/ x = -n
  OBVIOUS
<1>2. 0 % n = 0 /\ (-n) % n = 0
  OBVIOUS
<1> QED
  BY <1>1, <1>2

\* A signed byte is the coordinate the robot meant.
LEMMA MeantIsSigned ==
  ASSUME IInv, NEW j \in 1..Len(track.bytes)
  PROVE  Meant(j) = Signed(track.bytes[j])
<1>1. PICK C \in Nat \ {0} : C = CountBase
  BY Sizes
<1>2. PICK y \in 0..(4 * C - 1) : y = track.bytes[j]
  BY <1>1 DEF IInv, Bytes
<1>3. PICK w \in Int : w = Signed(y) /\ w = IF y >= 2 * C THEN y - 4 * C ELSE y
  <2>1. (IF y >= 2 * C THEN y - 4 * C ELSE y) \in Int
    OBVIOUS
  <2> QED
    BY <1>1, <2>1 DEF Signed
<1>4. w \in -(2 * C)..(2 * C - 1)
  BY <1>3
<1>5. ASSUME NEW z \in -(2 * C)..(2 * C - 1)
      PROVE  (z - y) % (4 * C) = 0 <=> z = w
  <2>1. PICK n \in Nat \ {0} : n = 4 * C
    OBVIOUS
  <2>2. PICK x \in Int : x = z - y
    OBVIOUS
  <2>3. -(2 * n) < x /\ x < n
    BY <2>1, <2>2
  <2>4. x % n = 0 <=> x = 0 \/ x = -n
    BY <2>3, Divisible
  <2>5. z = w <=> x = 0 \/ x = -n
    BY <1>3, <2>1, <2>2
  <2> QED
    BY <2>1, <2>2, <2>4, <2>5
<1>6. Meant(j) = CHOOSE z \in -(2 * C)..(2 * C - 1) : (z - y) % (4 * C) = 0
  BY <1>1, <1>2 DEF Meant
<1>7. (CHOOSE z \in -(2 * C)..(2 * C - 1) : (z - y) % (4 * C) = 0) = w
  BY <1>4, <1>5
<1> QED
  BY <1>2, <1>3, <1>6, <1>7

\* The legs lead from each point to the next one.
LEMMA LegsAre ==
  ASSUME IInv
  PROVE  Legs = {<<Through[i], Through[i + 1]>> : i \in 1..(Len(Through) - 1)}
<1>1. PICK L \in Nat : L = Len(track.bytes)
  BY DEF IInv
<1>2. PICK N \in Nat : N = L \div 2 /\ N = Len(Through) /\ 2 * N <= L
  <2>1. L \div 2 \in Nat /\ 2 * (L \div 2) <= L
    OBVIOUS
  <2>2. Len(Through) = L \div 2
    BY <1>1, PairsAreSeq DEF IInv, Through
  <2> QED
    BY <2>1, <2>2
<1>3. ASSUME NEW i \in 1..N
      PROVE  Through[i] = <<Meant(2 * i - 1), Meant(2 * i)>>
  <2>1. 2 * i - 1 \in 1..L /\ 2 * i \in 1..L
    BY <1>2
  <2>2. Through[i] = <<Signed(track.bytes[2 * i - 1]), Signed(track.bytes[2 * i])>>
    BY <1>1, <1>2 DEF Through, Pairs
  <2>3. /\ Meant(2 * i - 1) = Signed(track.bytes[2 * i - 1])
        /\ Meant(2 * i) = Signed(track.bytes[2 * i])
    BY <1>1, <2>1, MeantIsSigned
  <2> QED
    BY <2>2, <2>3
<1>4. ASSUME NEW i \in 1..(N - 1)
      PROVE  <<Through[i], Through[i + 1]>>
               = <<<<Meant(2 * i - 1), Meant(2 * i)>>,
                   <<Meant(2 * i + 1), Meant(2 * i + 2)>>>>
  <2>1. i \in 1..N /\ i + 1 \in 1..N
    OBVIOUS
  <2>2. 2 * (i + 1) - 1 = 2 * i + 1 /\ 2 * (i + 1) = 2 * i + 2
    OBVIOUS
  <2>3. /\ Through[i] = <<Meant(2 * i - 1), Meant(2 * i)>>
        /\ Through[i + 1] = <<Meant(2 * (i + 1) - 1), Meant(2 * (i + 1))>>
    BY <1>3, <2>1
  <2> QED
    BY <2>2, <2>3
<1>5. Legs = {<<<<Meant(2 * i - 1), Meant(2 * i)>>,
               <<Meant(2 * i + 1), Meant(2 * i + 2)>>>> : i \in 1..(N - 1)}
  BY <1>1, <1>2 DEF Legs
<1> QED
  BY <1>2, <1>4, <1>5

\* Every leg is drawn from its first cell to its last one, whatever its
\* direction and length and whether its ends are on the map: the cells it
\* passes through by less than half a cell are painted, and none that is farther
\* from all legs (map_decoder.py:146-183).
THEOREM DrawsTrack == Spec => []TrackIsDrawn
<1>1. IInv /\ TInv => TrackIsDrawn
  <2> SUFFICES ASSUME IInv, TInv, stage = "done", Legs # {}, NEW c \in MapCells
               PROVE  /\ (\E l \in Legs : Meets(c, l[1], l[2])) => c \in painted
                      /\ c \in painted => \E l \in Legs : Near(c, l[1], l[2])
    BY DEF TrackIsDrawn, MapCells
  <2>1. PICK N \in Nat : N = Len(Through)
    BY ThroughType
  <2>2. Legs = {<<Through[i], Through[i + 1]>> : i \in 1..(N - 1)}
    BY <2>1, LegsAre
  <2>3. N > 1
    BY <2>2
  <2>4. ASSUME NEW l \in Legs, Meets(c, l[1], l[2]) PROVE c \in painted
    <3>1. PICK i \in 1..(N - 1) : l = <<Through[i], Through[i + 1]>>
      BY <2>2
    <3>2. Meets(c, Through[i], Through[i + 1])
      BY <2>4, <3>1
    <3> QED
      BY <2>1, <3>2 DEF TInv, LegDone
  <2>5. ASSUME c \in painted PROVE \E l \in Legs : Near(c, l[1], l[2])
    <3>1. PICK i \in 1..(N - 1) : Near(c, Through[i], Through[i + 1])
      BY <2>1, <2>3, <2>5 DEF TInv, NoMore
    <3>2. PICK l \in Legs : l = <<Through[i], Through[i + 1]>>
      BY <2>2
    <3>3. Near(c, l[1], l[2])
      BY <3>1, <3>2
    <3> QED
      BY <3>3
  <2> QED
    BY <2>4, <2>5
<1> QED
  BY <1>1, Invariant, Draws, PTL
=============================================================================
