-------------------------- MODULE OperationsProofs --------------------------
(***************************************************************************)
(* The workloads of the organizations, traded and marked in any order, and *)
(* the units that are combined of them: no cost, exposure, capacity or     *)
(* backlog is lost or counted twice, for any organizations, hours, rates,  *)
(* models and weights.  Amounts are the ledger's exact fractions; that     *)
(* sums are in lowest terms makes those of the same worth equal.           *)
(***************************************************************************)
EXTENDS OperationsAnalytics, SumTheorems, SequenceTheorems, TLAPS

-----------------------------------------------------------------------------
\* The workloads: no cost is lost or counted twice, whatever is traded and marked.

\* Fractions; a number that divides both parts cancels out.
Fraction == [n : Int, d : Nat \ {0}]

LEMMA Cancel ==
  ASSUME NEW a \in Int, NEW b \in Int, NEW c \in Int, c # 0, a * c = b * c
  PROVE  a = b
<1>1. (a - b) * c = 0
  BY SMTT(30)
<1> QED BY <1>1, SMTT(30)

LEMMA Divides ==
  ASSUME NEW n \in Int, NEW k \in Nat \ {0}, n % k = 0
  PROVE  (n \div k) \in Int /\ n = k * (n \div k)
<1>1. n = k * (n \div k) + (n % k)
  BY SMTT(30)
<1> QED BY <1>1

LEMMA Multiple ==
  ASSUME NEW s \in Int, NEW k \in Nat \ {0}
  PROVE  (s * k) % k = 0 /\ (s * k) \div k = s
  BY SMTT(30)

\* Lowest terms are a fraction of the same worth.
LEMMA LowestForm ==
  ASSUME NEW n \in Int, NEW d \in Nat \ {0}
  PROVE  Lowest(n, d) \in Fraction /\ Lowest(n, d).n * d = n * Lowest(n, d).d
<1> DEFINE S == {k \in 1..d : n % k = 0 /\ d % k = 0}
           g == Max(S)
<1>1. 1 \in S
  OBVIOUS
<1>2. g \in S
  BY <1>1, GreatestNumber
<1> HIDE DEF g
<1>3. g \in Nat \ {0} /\ n % g = 0 /\ d % g = 0
  BY <1>2
<1>4. PICK x \in Int, y \in Int : n \div g = x /\ d \div g = y /\ n = g * x /\ d = g * y
  BY <1>3, Divides
<1>5. y \in Nat \ {0}
  BY <1>3, <1>4, SMTT(30)
<1>6. x * d = n * y
  BY <1>3, <1>4, SMTT(30)
<1>7. Lowest(n, d) = [n |-> x, d |-> y]
  BY <1>4 DEF Lowest, g
<1> QED BY <1>5, <1>6, <1>7 DEF Fraction

\* There is one way to write a whole number in lowest terms.
LEMMA LowestOfWhole ==
  ASSUME NEW s \in Int, NEW d \in Nat \ {0}
  PROVE  Lowest(s * d, d) = Whole(s)
<1> DEFINE S == {k \in 1..d : (s * d) % k = 0 /\ d % k = 0}
           g == Max(S)
<1>1. d \in S /\ d \div d = 1
  <2>1. (s * d) % d = 0 /\ (1 * d) % d = 0 /\ (1 * d) \div d = 1
    BY Multiple
  <2> QED BY <2>1
<1>2. g = d
  <2> HIDE DEF S
  <2>1. S \in SUBSET (1..d) /\ d \in S
    BY <1>1 DEF S
  <2>2. Max(S) \in S /\ d =< Max(S)
    BY <2>1, GreatestNumber
  <2>3. Max(S) \in 1..d
    BY <2>1, <2>2
  <2> QED BY <2>2, <2>3
<1>3. (s * d) \div d = s
  BY Multiple
<1> HIDE DEF g
<1> QED BY <1>1, <1>2, <1>3 DEF Lowest, Whole, g

\* p is x / y.
Val(p, x, y) == p.n * y = x * p.d

LEMMA FractionFields ==
  ASSUME NEW p \in Fraction
  PROVE  p.n \in Int /\ p.d \in Nat \ {0}
BY DEF Fraction

LEMMA NotZero ==
  ASSUME NEW m \in Nat \ {0}, NEW k \in Nat \ {0}
  PROVE  m * k \in Nat \ {0}
BY SMTT(30)

LEMMA Widened ==
  ASSUME NEW p \in Fraction, NEW x \in Int, NEW y \in Nat \ {0}, Val(p, x, y), NEW k \in Nat \ {0}
  PROVE  Val(p, x * k, y * k)
<1>1. p.n \in Int /\ p.d \in Int
  BY FractionFields
<1>2. \A a, b \in Int : a * y = x * b => a * (y * k) = (x * k) * b
  BY SMTT(30)
<1> QED BY <1>1, <1>2 DEF Val

LEMMA LowestVal ==
  ASSUME NEW n \in Int, NEW d \in Nat \ {0}, NEW x \in Int, NEW y \in Nat \ {0}, n * y = x * d
  PROVE  Lowest(n, d) \in Fraction /\ Val(Lowest(n, d), x, y)
<1>1. Lowest(n, d) \in Fraction /\ Lowest(n, d).n * d = n * Lowest(n, d).d
  BY LowestForm
<1>2. PICK a \in Int, b \in Int : a = Lowest(n, d).n /\ b = Lowest(n, d).d
  BY <1>1, FractionFields
<1>3. a * d = n * b
  BY <1>1, <1>2
<1>4. (a * y) * d = (x * b) * d
  <2>1. (a * d) * y = (n * b) * y
    BY <1>3
  <2>2. (n * y) * b = (x * d) * b
    OBVIOUS
  <2>3. /\ (a * d) * y = (a * y) * d /\ (n * b) * y = (n * y) * b
        /\ (x * d) * b = (x * b) * d
    BY SMTT(30)
  <2> QED BY <2>1, <2>2, <2>3
<1>5. a * y = x * b
  <2>1. a * y \in Int /\ x * b \in Int
    OBVIOUS
  <2> QED BY <1>4, <2>1, Cancel
<1> QED BY <1>1, <1>2, <1>5 DEF Val

LEMMA PlusVal ==
  ASSUME NEW p \in Fraction, NEW q \in Fraction, NEW x \in Int, NEW z \in Int, NEW y \in Nat \ {0},
         Val(p, x, y), Val(q, z, y)
  PROVE  Plus(p, q) \in Fraction /\ Val(Plus(p, q), x + z, y)
<1>1. PICK a \in Int, b \in Nat \ {0} : a = p.n /\ b = p.d
  BY FractionFields
<1>2. PICK c \in Int, e \in Nat \ {0} : c = q.n /\ e = q.d
  BY FractionFields
<1>3. a * y = x * b /\ c * y = z * e
  BY <1>1, <1>2 DEF Val
<1>4. (a * e + c * b) * y = (x + z) * (b * e)
  <2>1. (a * y) * e = (x * b) * e /\ (c * y) * b = (z * e) * b
    BY <1>3
  <2>2. /\ (a * e + c * b) * y = (a * y) * e + (c * y) * b
        /\ (x + z) * (b * e) = (x * b) * e + (z * e) * b
    BY SMTT(30)
  <2> QED BY <2>1, <2>2
<1>5. a * e + c * b \in Int /\ b * e \in Nat \ {0} /\ x + z \in Int
  BY NotZero
<1>6. Plus(p, q) = Lowest(a * e + c * b, b * e)
  BY <1>1, <1>2 DEF Plus
<1> QED BY <1>4, <1>5, <1>6, LowestVal

LEMMA TimesVal ==
  ASSUME NEW p \in Fraction, NEW x \in Int, NEW y \in Nat \ {0}, Val(p, x, y), NEW k \in Int
  PROVE  Times(p, k) \in Fraction /\ Val(Times(p, k), x * k, y)
<1>1. PICK a \in Int, b \in Nat \ {0} : a = p.n /\ b = p.d
  BY FractionFields
<1>2. (a * k) * y = (x * k) * b
  <2>1. (a * y) * k = (x * b) * k
    BY <1>1 DEF Val
  <2>2. (a * k) * y = (a * y) * k /\ (x * k) * b = (x * b) * k
    BY SMTT(30)
  <2> QED BY <2>1, <2>2
<1>3. a * k \in Int /\ x * k \in Int /\ Times(p, k) = Lowest(a * k, b)
  BY <1>1 DEF Times
<1> QED BY <1>2, <1>3, LowestVal

LEMMA MinusVal ==
  ASSUME NEW p \in Fraction, NEW q \in Fraction, NEW x \in Int, NEW z \in Int, NEW y \in Nat \ {0},
         Val(p, x, y), Val(q, z, y)
  PROVE  Minus(p, q) \in Fraction /\ Val(Minus(p, q), x - z, y)
<1>1. Times(q, -1) \in Fraction /\ Val(Times(q, -1), z * (-1), y)
  <2>1. \A k \in Int : Times(q, k) \in Fraction /\ Val(Times(q, k), z * k, y)
    BY TimesVal
  <2>2. -1 \in Int
    OBVIOUS
  <2> QED BY <2>1, <2>2
<1>2. z * (-1) \in Int /\ x + z * (-1) = x - z
  OBVIOUS
<1>3. Plus(p, Times(q, -1)) \in Fraction /\ Val(Plus(p, Times(q, -1)), x + z * (-1), y)
  BY <1>1, <1>2, PlusVal
<1> QED BY <1>2, <1>3 DEF Minus

\* Divided by k, p is x / (y * k).
LEMMA OverVal ==
  ASSUME NEW p \in Fraction, NEW x \in Int, NEW y \in Nat \ {0}, Val(p, x, y), NEW k \in Nat \ {0}
  PROVE  Over(p, k) \in Fraction /\ Val(Over(p, k), x, y * k)
<1>1. PICK a \in Int, b \in Nat \ {0} : a = p.n /\ b = p.d
  BY FractionFields
<1>2. a * (y * k) = x * (b * k)
  <2>1. (a * y) * k = (x * b) * k
    BY <1>1 DEF Val
  <2>2. (a * y) * k = a * (y * k) /\ (x * b) * k = x * (b * k)
    BY SMTT(30)
  <2> QED BY <2>1, <2>2
<1>3. b * k \in Nat \ {0} /\ y * k \in Nat \ {0} /\ Over(p, k) = Lowest(a, b * k)
  BY <1>1, NotZero DEF Over
<1> QED BY <1>2, <1>3, LowestVal

LEMMA WholeVal ==
  ASSUME NEW s \in Int, NEW y \in Nat \ {0}
  PROVE  Whole(s) \in Fraction /\ Val(Whole(s), s * y, y)
<1>1. s * y = (s * y) * 1
  OBVIOUS
<1> QED BY <1>1 DEF Whole, Fraction, Val

\* A sum that is a whole number is written as one.
LEMMA PlusIsWhole ==
  ASSUME NEW p \in Fraction, NEW q \in Fraction, NEW x \in Int, NEW z \in Int, NEW y \in Nat \ {0},
         Val(p, x, y), Val(q, z, y), NEW s \in Int, x + z = s * y
  PROVE  Plus(p, q) = Whole(s)
<1>1. PICK a \in Int, b \in Nat \ {0} : a = p.n /\ b = p.d
  BY FractionFields
<1>2. PICK c \in Int, e \in Nat \ {0} : c = q.n /\ e = q.d
  BY FractionFields
<1>3. a * y = x * b /\ c * y = z * e
  BY <1>1, <1>2 DEF Val
<1>4. (a * e + c * b) * y = (s * (b * e)) * y
  <2>1. (a * y) * e = (x * b) * e /\ (c * y) * b = (z * e) * b
    BY <1>3
  <2>2. /\ (a * e + c * b) * y = (a * y) * e + (c * y) * b
        /\ (x + z) * (b * e) = (x * b) * e + (z * e) * b
        /\ (s * (b * e)) * y = (s * y) * (b * e)
    BY SMTT(30)
  <2>3. (x + z) * (b * e) = (s * y) * (b * e)
    OBVIOUS
  <2> QED BY <2>1, <2>2, <2>3
<1>5. a * e + c * b \in Int /\ b * e \in Nat \ {0} /\ s * (b * e) \in Int
  BY NotZero
<1>6. a * e + c * b = s * (b * e)
  BY <1>4, <1>5, Cancel
<1>7. Plus(p, q) = Lowest(s * (b * e), b * e)
  BY <1>1, <1>2, <1>6 DEF Plus
<1> QED BY <1>5, <1>7, LowestOfWhole

-----------------------------------------------------------------------------
\* What stands in the books of an organization that has paid the cost, by the assignments
\* it made

WorkloadRecord ==
  [net : Int, average : Fraction, realized : Fraction, unrealized : Fraction, last : Nat]

\* Over the common denominator D, with A / D the average: what was realised is what the
\* hours are worth at the average, less what they cost.
Books(w, cost, A, D) ==
  /\ Val(w.average, A, D)
  /\ Val(w.realized, A * w.net - cost * D, D)

\* What the open hours are worth at the mark, over what they are worth at the average
Worth(w, A, D) == Val(w.unrealized, (w.last * D - A) * w.net, D)

\* Both hold over one denominator.
Booked(w, cost) ==
  \E D \in Nat \ {0}, A \in Int : Books(w, cost, A, D) /\ Worth(w, A, D)

LEMMA WorkloadFields ==
  ASSUME NEW w \in WorkloadRecord
  PROVE  /\ w.net \in Int /\ w.last \in Nat /\ w.average \in Fraction
         /\ w.realized \in Fraction /\ w.unrealized \in Fraction
BY DEF WorkloadRecord

\* A new mark keeps the books and is what the open hours are valued at.
LEMMA MarkedIsBooked ==
  ASSUME NEW w \in WorkloadRecord, NEW cost \in Int, NEW A \in Int, NEW D \in Nat \ {0},
         Books(w, cost, A, D), NEW rate \in Nat
  PROVE  /\ Marked(w, rate) \in WorkloadRecord
         /\ Marked(w, rate).net = w.net /\ Marked(w, rate).last = rate
         /\ Booked(Marked(w, rate), cost)
<1> DEFINE u == IF w.net = 0 THEN Whole(0) ELSE Times(Minus(Whole(rate), w.average), w.net)
<1>0. \A s \in Int : Whole(s) \in Fraction /\ Val(Whole(s), s * D, D)
  BY WholeVal
<1>1. u \in Fraction /\ Val(u, (rate * D - A) * w.net, D)
  <2>1. CASE w.net = 0
    <3>1. Whole(0) \in Fraction /\ Val(Whole(0), 0 * D, D)
      BY <1>0
    <3>2. 0 * D = 0 /\ (rate * D - A) * 0 = 0
      OBVIOUS
    <3> QED BY <2>1, <3>1, <3>2
  <2>2. CASE w.net # 0
    <3>1. Whole(rate) \in Fraction /\ Val(Whole(rate), rate * D, D)
      BY <1>0
    <3>2. rate * D \in Int /\ rate * D - A \in Int /\ w.net \in Int
      BY WorkloadFields
    <3>3. /\ Minus(Whole(rate), w.average) \in Fraction
          /\ Val(Minus(Whole(rate), w.average), rate * D - A, D)
      BY <3>1, <3>2, MinusVal, WorkloadFields DEF Books
    <3>4. /\ Times(Minus(Whole(rate), w.average), w.net) \in Fraction
          /\ Val(Times(Minus(Whole(rate), w.average), w.net), (rate * D - A) * w.net, D)
      BY <3>2, <3>3, TimesVal
    <3> QED BY <2>2, <3>4
  <2> QED BY <2>1, <2>2
<1>2. PICK v : v = Marked(w, rate)
  OBVIOUS
<1>3. /\ v \in WorkloadRecord /\ v.net = w.net /\ v.last = rate
      /\ v.average = w.average /\ v.realized = w.realized /\ v.unrealized = u
  <2>1. v = [w EXCEPT !.last = rate, !.unrealized = u]
    BY <1>2 DEF Marked
  <2> HIDE DEF u
  <2> QED BY <1>1, <2>1 DEF WorkloadRecord
<1>4. Books(v, cost, A, D) /\ Worth(v, A, D)
  BY <1>1, <1>3 DEF Books, Worth
<1> QED BY <1>2, <1>3, <1>4 DEF Booked

\* Hours that join one side: the weighted mean is worth what both parts cost.
LEMMA JoinedWorth ==
  ASSUME NEW A \in Int, NEW N \in Int, NEW D \in Int, NEW e \in Int, NEW r \in Int,
         NEW K \in Int, NEW s \in {1, -1}
  PROVE  (A * (s * N) + (r * (s * e)) * D) * (N + e) - (K + e * r) * (D * (s * (N + e)))
           = (A * N - K * D) * (s * (N + e))
<1>1. CASE s = 1
  BY <1>1, SMTT(30)
<1>2. CASE s = -1
  BY <1>2, SMTT(30)
<1> QED BY <1>1, <1>2

\* Hours that turn the side, or leave it: what is realised is what they were worth.
LEMMA ClosedWorth ==
  ASSUME NEW A \in Int, NEW N \in Int, NEW D \in Int, NEW e \in Int, NEW r \in Int,
         NEW K \in Int
  PROVE  /\ (A * N - K * D) + (r * D - A) * N = (r * D) * (N + e) - (K + e * r) * D
         /\ (A * N - K * D) + (r * D - A) * (-e) = A * (N + e) - (K + e * r) * D
BY SMTT(30)

\* The cases of the average exclude each other.
LEMMA AverageCases ==
  ASSUME NEW w, NEW e, NEW rate
  PROVE  /\ ~SameSide(w, e) /\ w.net + e # 0 /\ (w.net = 0 \/ w.net * (w.net + e) < 0)
              => Average(w, e, rate) = Whole(rate)
         /\ w.net # 0 /\ ~(w.net * (w.net + e) < 0) /\ w.net + e # 0 /\ SameSide(w, e)
              => Average(w, e, rate) = Weighted(w, e, rate)
         /\ w.net # 0 /\ ~(w.net * (w.net + e) < 0) /\ w.net + e = 0 /\ ~SameSide(w, e)
              => Average(w, e, rate) = Whole(0)
         /\ w.net # 0 /\ ~(w.net * (w.net + e) < 0) /\ w.net + e # 0 /\ ~SameSide(w, e)
              => Average(w, e, rate) = w.average
BY Zenon DEF Average

\* What a trade makes of the average and of what was realised
LEMMA TradeIsBooked ==
  ASSUME NEW w \in WorkloadRecord, NEW cost \in Int, NEW A \in Int, NEW D \in Nat \ {0},
         Books(w, cost, A, D), NEW e \in Int, e # 0, NEW rate \in Nat
  PROVE  LET v == [w EXCEPT !.net = @ + e, !.average = Average(w, e, rate),
                            !.realized = Plus(@, Realised(w, e, rate))]
         IN  /\ v \in WorkloadRecord /\ v.net = w.net + e
             /\ \E B \in Int, C \in Nat \ {0} : Books(v, cost + e * rate, B, C)
<1> DEFINE v == [w EXCEPT !.net = @ + e, !.average = Average(w, e, rate),
                          !.realized = Plus(@, Realised(w, e, rate))]
           N == w.net
           R == A * N - cost * D
<1>1. N \in Int /\ R \in Int /\ N + e \in Int
  BY WorkloadFields
<1>a. R = A * N - cost * D
  OBVIOUS
<1>2. Val(w.average, A, D) /\ Val(w.realized, R, D)
  BY DEF Books
<1> HIDE DEF v, R
<1>b. \A s \in Int : Whole(s) \in Fraction /\ Val(Whole(s), s * D, D)
  BY WholeVal
<1>c. \A k \in Int : /\ Times(w.average, k) \in Fraction
                     /\ Val(Times(w.average, k), A * k, D)
  BY <1>2, TimesVal, WorkloadFields
<1>3. Whole(0) \in Fraction /\ Val(Whole(0), 0, D)
  <2>1. Whole(0) \in Fraction /\ Val(Whole(0), 0 * D, D)
    BY <1>b
  <2> QED BY <2>1
<1>e. /\ Plus(w.realized, Whole(0)) \in Fraction /\ Val(Plus(w.realized, Whole(0)), R + 0, D)
  <2>1. PICK p \in Fraction, q \in Fraction : p = w.realized /\ q = Whole(0)
    BY <1>3, WorkloadFields
  <2>2. Val(p, R, D) /\ Val(q, 0, D) /\ R \in Int
    BY <1>1, <1>2, <1>3, <2>1
  <2>3. Plus(p, q) \in Fraction /\ Val(Plus(p, q), R + 0, D)
    BY <2>2, PlusVal
  <2> QED BY <2>1, <2>3
<1>4. Whole(rate) \in Fraction /\ Val(Whole(rate), rate * D, D) /\ rate * D \in Int
  BY <1>b
<1>5. /\ Minus(Whole(rate), w.average) \in Fraction
      /\ Val(Minus(Whole(rate), w.average), rate * D - A, D)
      /\ rate * D - A \in Int
  BY <1>2, <1>4, MinusVal, WorkloadFields
<1>d. \A k \in Int : /\ Times(Minus(Whole(rate), w.average), k) \in Fraction
                     /\ Val(Times(Minus(Whole(rate), w.average), k), (rate * D - A) * k, D)
  BY <1>5, TimesVal
<1>6. Average(w, e, rate) \in Fraction /\ Plus(w.realized, Realised(w, e, rate)) \in Fraction
      /\ \E B \in Int, C \in Nat \ {0} :
            /\ Val(Average(w, e, rate), B, C)
            /\ Val(Plus(w.realized, Realised(w, e, rate)), B * (N + e) - (cost + e * rate) * C, C)
  <2>1. CASE N = 0
    <3>1. Average(w, e, rate) = Whole(rate) /\ Realised(w, e, rate) = Whole(0)
      <4>1. ~SameSide(w, e) /\ N + e # 0
        BY <1>1, <2>1 DEF SameSide
      <4> QED BY <2>1, <4>1, AverageCases DEF Realised, Reduces
    <3>2. /\ Plus(w.realized, Whole(0)) \in Fraction /\ Val(Plus(w.realized, Whole(0)), R + 0, D)
      BY <1>e
    <3>3. R + 0 = (rate * D) * (N + e) - (cost + e * rate) * D
      <4>1. R + (rate * D - A) * N = (rate * D) * (N + e) - (cost + e * rate) * D
        BY <1>1, <1>a, ClosedWorth
      <4>2. (rate * D - A) * N = 0
        BY <1>5, <2>1
      <4> QED BY <4>1, <4>2
    <3> QED BY <1>4, <3>1, <3>2, <3>3
  <2>2. CASE N # 0 /\ SameSide(w, e)
    <3> DEFINE s == IF N > 0 THEN 1 ELSE -1
               M == s * (N + e)
               B == A * (s * N) + (rate * (s * e)) * D
    <3>1. /\ s \in {1, -1} /\ Magnitude(N) = s * N /\ Magnitude(e) = s * e
          /\ Magnitude(N + e) = M /\ M \in Nat \ {0} /\ N + e # 0
          /\ s * N \in Int /\ s * e \in Int
      BY <1>1, <2>2 DEF Magnitude, SameSide
    <3>2. Average(w, e, rate) = Weighted(w, e, rate) /\ Realised(w, e, rate) = Whole(0)
      <4>1. ~(N * (N + e) < 0)
        <5>1. CASE N > 0
          <6>1. N + e > 0
            BY <1>1, <2>2, <5>1 DEF SameSide
          <6> QED BY <1>1, <5>1, <6>1, SMTT(30)
        <5>2. CASE ~(N > 0)
          <6>1. N + e < 0 /\ N < 0
            BY <1>1, <2>2, <5>2 DEF SameSide
          <6> QED BY <1>1, <6>1, SMTT(30)
        <5> QED BY <5>1, <5>2
      <4> QED BY <2>2, <3>1, <4>1, AverageCases DEF Realised, Reduces
    <3> HIDE DEF s, M
    <3>3. /\ Times(w.average, s * N) \in Fraction
          /\ Val(Times(w.average, s * N), A * (s * N), D) /\ A * (s * N) \in Int
      BY <1>c, <3>1
    <3>4. /\ Whole(rate * (s * e)) \in Fraction /\ rate * (s * e) \in Int
          /\ Val(Whole(rate * (s * e)), (rate * (s * e)) * D, D) /\ (rate * (s * e)) * D \in Int
      <4>1. rate * (s * e) \in Int
        BY <3>1
      <4> QED BY <1>b, <4>1
    <3>5. /\ Plus(Times(w.average, s * N), Whole(rate * (s * e))) \in Fraction
          /\ Val(Plus(Times(w.average, s * N), Whole(rate * (s * e))), B, D) /\ B \in Int
      BY <3>3, <3>4, PlusVal
    <3> HIDE DEF B
    <3>6. Weighted(w, e, rate) = Over(Plus(Times(w.average, s * N), Whole(rate * (s * e))), M)
      BY <3>1 DEF Weighted
    <3>7. Average(w, e, rate) \in Fraction /\ Val(Average(w, e, rate), B, D * M)
      BY <3>1, <3>2, <3>5, <3>6, OverVal
    <3>8. /\ Plus(w.realized, Whole(0)) \in Fraction /\ Val(Plus(w.realized, Whole(0)), R, D)
      <4>1. R + 0 = R
        BY <1>1
      <4>2. /\ Plus(w.realized, Whole(0)) \in Fraction /\ Val(Plus(w.realized, Whole(0)), R + 0, D)
        BY <1>e
      <4> QED BY <4>1, <4>2
    <3>9. Val(Plus(w.realized, Whole(0)), R * M, D * M) /\ D * M \in Nat \ {0}
      BY <1>1, <3>1, <3>8, Widened, NotZero
    <3>10. R * M = B * (N + e) - (cost + e * rate) * (D * M)
      BY <1>1, <1>a, <3>1, JoinedWorth DEF B, M
    <3> QED BY <3>2, <3>5, <3>7, <3>8, <3>9, <3>10
  <2>3. CASE N # 0 /\ ~SameSide(w, e)
    <3> DEFINE c == Closing(w, e) * Sign(N)
               W == Times(Minus(Whole(rate), w.average), c)
    <3>1. /\ c = IF Magnitude(e) < Magnitude(N) THEN -e ELSE N
          /\ c \in Int
      BY <1>1, <2>3 DEF Closing, Sign, Magnitude, SameSide
    <3> HIDE DEF c
    <3>2. W \in Fraction /\ Val(W, (rate * D - A) * c, D) /\ (rate * D - A) * c \in Int
      BY <1>5, <1>d, <3>1
    <3>3. Realised(w, e, rate) = W
      BY <2>3 DEF Realised, Reduces, c
    <3> HIDE DEF W
    <3>4. /\ Plus(w.realized, W) \in Fraction
          /\ Val(Plus(w.realized, W), R + (rate * D - A) * c, D)
      BY <1>1, <1>2, <3>2, PlusVal, WorkloadFields
    <3>5. CASE Magnitude(e) < Magnitude(N)
      <4>1. Average(w, e, rate) = w.average
        <5>1. ~(N * (N + e) < 0) /\ N + e # 0
          <6>1. CASE N > 0
            <7>1. N + e > 0
              BY <1>1, <2>3, <3>5, <6>1 DEF Magnitude, SameSide
            <7> QED BY <1>1, <6>1, <7>1, SMTT(30)
          <6>2. CASE ~(N > 0)
            <7>1. N + e < 0 /\ N < 0
              BY <1>1, <2>3, <3>5, <6>2 DEF Magnitude, SameSide
            <7> QED BY <1>1, <7>1, SMTT(30)
          <6> QED BY <6>1, <6>2
        <5> QED BY <2>3, <5>1, AverageCases
      <4>2. R + (rate * D - A) * c = A * (N + e) - (cost + e * rate) * D
        BY <1>1, <1>a, <3>1, <3>5, ClosedWorth
      <4> QED BY <1>2, <3>3, <3>4, <4>1, <4>2, WorkloadFields
    <3>6. CASE ~(Magnitude(e) < Magnitude(N))
      <4>1. R + (rate * D - A) * c = (rate * D) * (N + e) - (cost + e * rate) * D
        BY <1>1, <1>a, <3>1, <3>6, ClosedWorth
      <4>2. CASE N + e = 0
        <5>1. Average(w, e, rate) = Whole(0)
          <6>1. ~(N * (N + e) < 0)
            BY <1>1, <4>2
          <6> QED BY <2>3, <4>2, <6>1, AverageCases
        <5>2. (rate * D) * (N + e) - (cost + e * rate) * D = 0 * (N + e) - (cost + e * rate) * D
          <6>1. (rate * D) * (N + e) = 0 /\ 0 * (N + e) = 0
            BY <1>4, <4>2
          <6> QED BY <6>1
        <5> QED BY <1>3, <3>3, <3>4, <4>1, <5>1, <5>2
      <4>3. CASE N + e # 0
        <5>1. N * (N + e) < 0
          <6>1. CASE N > 0
            <7>1. N + e < 0
              BY <1>1, <2>3, <3>6, <4>3, <6>1 DEF Magnitude, SameSide
            <7> QED BY <1>1, <6>1, <7>1, SMTT(30)
          <6>2. CASE ~(N > 0)
            <7>1. N + e > 0 /\ N < 0
              BY <1>1, <2>3, <3>6, <4>3, <6>2 DEF Magnitude, SameSide
            <7> QED BY <1>1, <7>1, SMTT(30)
          <6> QED BY <6>1, <6>2
        <5>2. Average(w, e, rate) = Whole(rate)
          BY <2>3, <4>3, <5>1, AverageCases
        <5> QED BY <1>4, <3>3, <3>4, <4>1, <5>2
      <4> QED BY <4>2, <4>3
    <3> QED BY <3>5, <3>6
  <2> QED BY <2>1, <2>2, <2>3
<1> HIDE DEF N
<1>7. /\ v \in WorkloadRecord /\ v.net = N + e /\ v.average = Average(w, e, rate)
      /\ v.realized = Plus(w.realized, Realised(w, e, rate))
  BY <1>1, <1>6 DEF WorkloadRecord, N, v
<1>8. \E B \in Int, C \in Nat \ {0} : Books(v, cost + e * rate, B, C)
  BY <1>6, <1>7 DEF Books
<1> QED BY <1>7, <1>8 DEF v, N

\* Workload.apply_assignment: the trade, then the mark at its rate
LEMMA AppliedIsBooked ==
  ASSUME NEW w \in WorkloadRecord, NEW cost \in Int, Booked(w, cost),
         NEW e \in Int, e # 0, NEW rate \in Nat
  PROVE  /\ Applied(w, e, rate) \in WorkloadRecord /\ Applied(w, e, rate).net = w.net + e
         /\ Booked(Applied(w, e, rate), cost + e * rate)
<1>1. PICK D \in Nat \ {0}, A \in Int : Books(w, cost, A, D)
  BY DEF Booked
<1>2. PICK v : v = [w EXCEPT !.net = @ + e, !.average = Average(w, e, rate),
                             !.realized = Plus(@, Realised(w, e, rate))]
  OBVIOUS
<1>3. v \in WorkloadRecord /\ v.net = w.net + e
      /\ \E B \in Int, C \in Nat \ {0} : Books(v, cost + e * rate, B, C)
  BY <1>1, <1>2, TradeIsBooked
<1>4. cost + e * rate \in Int /\ Applied(w, e, rate) = Marked(v, rate)
  BY <1>2 DEF Applied
<1>5. PICK B \in Int, C \in Nat \ {0} : Books(v, cost + e * rate, B, C)
  BY <1>3
<1>6. PICK all \in Int : all = cost + e * rate
  BY <1>4
<1>7. Books(v, all, B, C)
  BY <1>5, <1>6
<1>8. /\ Marked(v, rate) \in WorkloadRecord /\ Marked(v, rate).net = v.net
      /\ Booked(Marked(v, rate), all)
  BY <1>3, <1>7, MarkedIsBooked
<1> QED BY <1>3, <1>4, <1>6, <1>8


-----------------------------------------------------------------------------
Trade == [requester : Orgs, provider : Orgs, hours : Hours, rate : Rates]

\* The hours that trade i of ts gave to an organization, and what it has and has paid
\* altogether
Given(ts, g, i) ==
  (IF ts[i].requester = g THEN ts[i].hours ELSE 0)
    - (IF ts[i].provider = g THEN ts[i].hours ELSE 0)
NetOf(ts, g) == SumFunctionOnSet([i \in DOMAIN ts |-> Given(ts, g, i)], DOMAIN ts)
PaidBy(ts, g) == SumFunctionOnSet([i \in DOMAIN ts |-> Given(ts, g, i) * ts[i].rate], DOMAIN ts)

\* The inductive invariant: the net hours are the hours traded, and the books are those of
\* what was paid for them.
LedgerInv ==
  /\ trades \in Seq(Trade) /\ workload \in [Orgs -> WorkloadRecord]
  /\ \A g \in Orgs : /\ workload[g].net = NetOf(trades, g)
                      /\ Booked(workload[g], PaidBy(trades, g))

\* Nothing happens to the books.
LEMMA LedgerStays ==
  ASSUME LedgerInv, UNCHANGED ledgerVars
  PROVE  LedgerInv'
<1>1. workload' = workload /\ trades' = trades
  BY DEF ledgerVars
<1> QED
  BY <1>1, SMTT(30) DEF LedgerInv, NetOf, PaidBy, Given, Booked, Books, Worth

LEMMA TradeFields ==
  ASSUME NEW ts \in Seq(Trade), NEW i \in 1..Len(ts)
  PROVE  ts[i].hours \in Int /\ ts[i].rate \in Int
<1>1. ts[i] \in Trade
  OBVIOUS
<1>2. ts[i].hours \in Hours /\ ts[i].rate \in Rates
  BY <1>1 DEF Trade
<1>3. PICK x \in Hours, y \in Rates : ts[i].hours = x /\ ts[i].rate = y
  BY <1>2
<1>4. x \in Int /\ y \in Int
  BY LedgerAssumption
<1> QED BY <1>3, <1>4

LEMMA GivenType ==
  ASSUME NEW ts \in Seq(Trade), NEW i \in 1..Len(ts), NEW g
  PROVE  Given(ts, g, i) \in Int /\ Given(ts, g, i) * ts[i].rate \in Int
<1>1. Given(ts, g, i) \in Int
  BY TradeFields DEF Given
<1> QED BY <1>1, TradeFields

LEMMA SumsType ==
  ASSUME NEW ts \in Seq(Trade), NEW g
  PROVE  NetOf(ts, g) \in Int /\ PaidBy(ts, g) \in Int
<1> DEFINE f == [i \in DOMAIN ts |-> Given(ts, g, i)]
           h == [i \in DOMAIN ts |-> Given(ts, g, i) * ts[i].rate]
<1>1. DOMAIN ts = 1..Len(ts) /\ IsFiniteSet(1..Len(ts))
  BY FS_Interval
<1>2. \A i \in DOMAIN ts : f[i] \in Int /\ h[i] \in Int
  BY <1>1, GivenType
<1> HIDE DEF f, h
<1>3. SumFunctionOnSet(f, DOMAIN ts) \in Int /\ SumFunctionOnSet(h, DOMAIN ts) \in Int
  BY <1>1, <1>2, SumRemove
<1> QED BY <1>3 DEF NetOf, PaidBy, f, h

\* One more trade
LEMMA SumsGrow ==
  ASSUME NEW ts \in Seq(Trade), NEW u \in Seq(Trade), Len(u) = Len(ts) + 1,
         \A i \in 1..Len(ts) : u[i] = ts[i], NEW g
  PROVE  /\ NetOf(u, g) = NetOf(ts, g) + Given(u, g, Len(ts) + 1)
         /\ PaidBy(u, g) = PaidBy(ts, g) + Given(u, g, Len(ts) + 1) * u[Len(ts) + 1].rate
<1> DEFINE n == Len(ts)
           f == [i \in DOMAIN ts |-> Given(ts, g, i)]
           h == [i \in DOMAIN u |-> Given(u, g, i)]
           k == [i \in DOMAIN ts |-> Given(ts, g, i) * ts[i].rate]
           m == [i \in DOMAIN u |-> Given(u, g, i) * u[i].rate]
<1>1. n \in Nat /\ DOMAIN ts = 1..n /\ DOMAIN u = 1..(n + 1) /\ n + 1 \in 1..(n + 1)
  OBVIOUS
<1>2. \A i \in 1..(n + 1) : h[i] \in Int /\ m[i] \in Int
  BY GivenType
<1>3. \A i \in 1..n : h[i] = f[i] /\ m[i] = k[i]
  BY DEF Given
<1>4. h[n + 1] = Given(u, g, n + 1) /\ m[n + 1] = Given(u, g, n + 1) * u[n + 1].rate
  BY <1>1
<1> HIDE DEF f, h, k, m, n
<1>5. /\ SumFunctionOnSet(h, 1..(n + 1)) = SumFunctionOnSet(f, 1..n) + h[n + 1]
      /\ SumFunctionOnSet(m, 1..(n + 1)) = SumFunctionOnSet(k, 1..n) + m[n + 1]
  BY <1>1, <1>2, <1>3, SumAppend
<1> QED BY <1>1, <1>4, <1>5 DEF NetOf, PaidBy, f, h, k, m, n

\* The requester first, then the provider; one organization may be both.
LEMMA AssignKeeps ==
  ASSUME LedgerInv, NEW q \in Orgs, NEW p \in Orgs, NEW h \in Hours, NEW r \in Rates,
         Assign(q, p, h, r)
  PROVE  LedgerInv'
<1> DEFINE n == Len(trades)
           e == [requester |-> q, provider |-> p, hours |-> h, rate |-> r]
<1>1. h \in Int /\ h # 0 /\ -h \in Int /\ -h # 0 /\ r \in Nat /\ r \in Int
  BY LedgerAssumption
<1>2. trades \in Seq(Trade) /\ e \in Trade /\ n \in Nat
  BY DEF LedgerInv, Trade
<1>3. PICK u \in Seq(Trade) : /\ u = trades' /\ Len(u) = n + 1 /\ u[n + 1] = e
                               /\ \A i \in 1..n : u[i] = trades[i]
  <2>1. trades' = Append(trades, e)
    BY DEF Assign
  <2> HIDE DEF e
  <2>2. /\ Append(trades, e) \in Seq(Trade) /\ Len(Append(trades, e)) = Len(trades) + 1
        /\ \A i \in 1..Len(trades) : Append(trades, e)[i] = trades[i]
        /\ Append(trades, e)[Len(trades) + 1] = e
    BY <1>2, AppendProperties
  <2> QED BY <2>1, <2>2
<1>4. \A g \in Orgs :
        /\ NetOf(u, g) = NetOf(trades, g) + Given(u, g, n + 1)
        /\ PaidBy(u, g) = PaidBy(trades, g) + Given(u, g, n + 1) * r
  <2>1. u[n + 1].rate = r
    BY <1>3
  <2> HIDE DEF n, e
  <2>2. n = Len(trades)
    BY DEF n
  <2> QED BY <1>2, <1>3, <2>1, <2>2, SumsGrow
<1>5. \A g \in Orgs : Given(u, g, n + 1) = (IF q = g THEN h ELSE 0) - (IF p = g THEN h ELSE 0)
  BY <1>3 DEF Given
<1>6. workload \in [Orgs -> WorkloadRecord] /\ workload' = Assigned(workload, q, p, h, r)
  BY DEF LedgerInv, Assign
<1> DEFINE one == [workload EXCEPT ![q] = Applied(workload[q], h, r)]
<1>7. /\ Applied(workload[q], h, r) \in WorkloadRecord
      /\ Applied(workload[q], h, r).net = workload[q].net + h
      /\ Booked(Applied(workload[q], h, r), PaidBy(trades, q) + h * r)
  <2>1. workload[q] \in WorkloadRecord /\ Booked(workload[q], PaidBy(trades, q))
        /\ PaidBy(trades, q) \in Int
    BY <1>2, <1>6, SumsType DEF LedgerInv
  <2> QED BY <1>1, <2>1, AppliedIsBooked
<1>8. /\ one \in [Orgs -> WorkloadRecord]
      /\ one[q] = Applied(workload[q], h, r)
      /\ \A g \in Orgs \ {q} : one[g] = workload[g]
      /\ workload' = [one EXCEPT ![p] = Applied(one[p], -h, r)]
  BY <1>6, <1>7 DEF Assigned
<1> HIDE DEF one, n, e
<1>9. /\ Applied(one[p], -h, r) \in WorkloadRecord
      /\ Applied(one[p], -h, r).net = one[p].net + (-h)
      /\ Booked(Applied(one[p], -h, r),
                PaidBy(trades, p) + (IF q = p THEN h * r ELSE 0) + (-h) * r)
  <2>1. PICK K \in Int : K = PaidBy(trades, p) + (IF q = p THEN h * r ELSE 0)
    BY <1>1, <1>2, SumsType
  <2>2. Booked(one[p], K)
    <3>1. CASE q = p
      BY <1>7, <1>8, <2>1, <3>1
    <3>2. CASE q # p
      <4>1. K = PaidBy(trades, p)
        BY <1>2, <2>1, <3>2, SumsType
      <4> QED BY <1>8, <3>2, <4>1 DEF LedgerInv
    <3> QED BY <3>1, <3>2
  <2>3. one[p] \in WorkloadRecord
    BY <1>8
  <2>4. \A x \in Int : x # 0 =>
          /\ Applied(one[p], x, r) \in WorkloadRecord
          /\ Applied(one[p], x, r).net = one[p].net + x
          /\ Booked(Applied(one[p], x, r), K + x * r)
    BY <1>1, <2>2, <2>3, AppliedIsBooked
  <2> QED BY <1>1, <2>1, <2>4
<1>10. workload' \in [Orgs -> WorkloadRecord] /\ workload'[p] = Applied(one[p], -h, r)
       /\ \A g \in Orgs \ {p} : workload'[g] = one[g]
  BY <1>8, <1>9
<1>11. ASSUME NEW g \in Orgs
       PROVE  workload'[g].net = NetOf(u, g) /\ Booked(workload'[g], PaidBy(u, g))
  <2>0. /\ workload[g].net = NetOf(trades, g) /\ Booked(workload[g], PaidBy(trades, g))
        /\ NetOf(trades, g) \in Int /\ PaidBy(trades, g) \in Int
        /\ NetOf(u, g) = NetOf(trades, g) + Given(u, g, n + 1)
        /\ PaidBy(u, g) = PaidBy(trades, g) + Given(u, g, n + 1) * r
    BY <1>2, <1>4, SumsType DEF LedgerInv
  <2>1. CASE g = p /\ g = q
    <3>1. Given(u, g, n + 1) = 0 /\ 0 * r = 0 /\ h * r + (-h) * r = 0
      BY <1>1, <1>5, <2>1
    <3>2. NetOf(u, g) = NetOf(trades, g) /\ PaidBy(u, g) = PaidBy(trades, g)
      BY <2>0, <3>1
    <3>3. workload'[g].net = (workload[g].net + h) + (-h)
      BY <1>7, <1>8, <1>9, <1>10, <2>1
    <3>4. PaidBy(trades, g) + h * r + (-h) * r = PaidBy(trades, g)
      <4>1. h * r \in Int /\ (-h) * r \in Int
        BY <1>1
      <4> QED BY <2>0, <3>1, <4>1
    <3>5. Booked(workload'[g], PaidBy(trades, g))
      BY <1>9, <1>10, <2>1, <3>4
    <3> QED BY <1>1, <2>0, <3>2, <3>3, <3>5
  <2>2. CASE g = p /\ g # q
    <3>1. Given(u, g, n + 1) = -h
      BY <1>1, <1>5, <2>2
    <3>2. /\ PaidBy(trades, g) + 0 + (-h) * r = PaidBy(u, g)
          /\ NetOf(u, g) = NetOf(trades, g) + (-h)
      BY <1>1, <2>0, <3>1
    <3>3. one[p] = workload[g]
      BY <1>8, <2>2
    <3>4. Booked(workload'[g], PaidBy(trades, g) + 0 + (-h) * r)
      BY <1>9, <1>10, <2>2
    <3>5. workload'[g].net = workload[g].net + (-h)
      BY <1>9, <1>10, <2>2, <3>3
    <3> QED BY <2>0, <3>2, <3>4, <3>5
  <2>3. CASE g # p /\ g = q
    <3>1. Given(u, g, n + 1) = h
      BY <1>1, <1>5, <2>3
    <3>2. workload'[g] = Applied(workload[q], h, r)
      BY <1>8, <1>10, <2>3
    <3> QED BY <1>7, <2>0, <2>3, <3>1, <3>2
  <2>4. CASE g # p /\ g # q
    <3>1. Given(u, g, n + 1) = 0 /\ 0 * r = 0
      BY <1>1, <1>5, <2>4
    <3>2. NetOf(u, g) = NetOf(trades, g) /\ PaidBy(u, g) = PaidBy(trades, g)
      BY <2>0, <3>1
    <3>3. workload'[g] = workload[g]
      BY <1>8, <1>10, <2>4
    <3> QED BY <2>0, <3>2, <3>3
  <2> QED BY <2>1, <2>2, <2>3, <2>4
<1>12. \A g \in Orgs : Booked(workload[g], PaidBy(trades, g))'
  <2>1. \A g \in Orgs : Booked(workload'[g], PaidBy(trades', g))
    BY <1>3, <1>11
  <2> QED BY <2>1 DEF Booked, Books, Worth, PaidBy, Given
<1>13. \A g \in Orgs : (workload[g].net = NetOf(trades, g))'
  <2>1. \A g \in Orgs : workload'[g].net = NetOf(trades', g)
    BY <1>3, <1>11
  <2> QED BY <2>1 DEF NetOf, Given
<1> QED BY <1>3, <1>10, <1>12, <1>13 DEF LedgerInv

LEMMA RepriceKeeps ==
  ASSUME LedgerInv, NEW r \in Rates, Reprice(r)
  PROVE  LedgerInv'
<1>1. r \in Nat
  BY LedgerAssumption
<1>2. /\ trades' = trades /\ trades \in Seq(Trade) /\ workload \in [Orgs -> WorkloadRecord]
      /\ workload' = [g \in Orgs |-> IF workload[g].net # 0 THEN Marked(workload[g], r) ELSE workload[g]]
  BY DEF LedgerInv, Reprice
<1>3. ASSUME NEW g \in Orgs
      PROVE  /\ workload'[g] \in WorkloadRecord
             /\ workload'[g].net = NetOf(trades, g) /\ Booked(workload'[g], PaidBy(trades, g))
  <2>1. /\ workload[g] \in WorkloadRecord /\ workload[g].net = NetOf(trades, g)
        /\ Booked(workload[g], PaidBy(trades, g)) /\ PaidBy(trades, g) \in Int
    BY <1>2, SumsType DEF LedgerInv
  <2>2. PICK D \in Nat \ {0}, A \in Int : Books(workload[g], PaidBy(trades, g), A, D)
    BY <2>1 DEF Booked
  <2>3. /\ Marked(workload[g], r) \in WorkloadRecord
        /\ Marked(workload[g], r).net = workload[g].net
        /\ Booked(Marked(workload[g], r), PaidBy(trades, g))
    BY <1>1, <2>1, <2>2, MarkedIsBooked
  <2> QED BY <1>2, <2>1, <2>3
<1>4. \A g \in Orgs : Booked(workload[g], PaidBy(trades, g))'
  <2>1. \A g \in Orgs : Booked(workload'[g], PaidBy(trades', g))
    BY <1>2, <1>3
  <2> QED BY <2>1 DEF Booked, Books, Worth, PaidBy, Given
<1>5. \A g \in Orgs : (workload[g].net = NetOf(trades, g))'
  <2>1. \A g \in Orgs : workload'[g].net = NetOf(trades', g)
    BY <1>2, <1>3
  <2> QED BY <2>1 DEF NetOf, Given
<1>6. workload' \in [Orgs -> WorkloadRecord]
  BY <1>2, <1>3
<1> QED BY <1>2, <1>4, <1>5, <1>6 DEF LedgerInv

LEMMA LedgerBegins == LedgerInit => LedgerInv
<1> SUFFICES ASSUME LedgerInit PROVE LedgerInv
  OBVIOUS
<1>1. trades = <<>> /\ trades \in Seq(Trade) /\ DOMAIN trades = {}
  BY DEF LedgerInit
<1>2. \A g \in Orgs : NetOf(trades, g) = 0 /\ PaidBy(trades, g) = 0
  BY <1>1, SumEmpty DEF NetOf, PaidBy
<1>3. Idle \in WorkloadRecord /\ Idle.net = 0
  BY DEF Idle, WorkloadRecord, Fraction, Whole
<1>4. Booked(Idle, 0)
  <2>1. Books(Idle, 0, 0, 1) /\ Worth(Idle, 0, 1)
    BY DEF Idle, Books, Worth, Val, Whole
  <2> QED BY <2>1 DEF Booked
<1>5. workload = [g \in Orgs |-> Idle]
  BY DEF LedgerInit
<1> QED BY <1>1, <1>2, <1>3, <1>4, <1>5 DEF LedgerInv

LEMMA LedgerIsMarked == LedgerInv => CostIsMarkToMarket
<1> SUFFICES ASSUME LedgerInv, NEW g \in Orgs
             PROVE  TotalCost(g) =
               Whole(SumFunctionOnSet(
                 [i \in DOMAIN trades |-> SignedHours(g, i) * (workload[g].last - trades[i].rate)],
                 DOMAIN trades))
  BY DEF CostIsMarkToMarket
<1> DEFINE w == workload[g]
           f == [i \in DOMAIN trades |-> Given(trades, g, i)]
           h == [i \in DOMAIN trades |-> Given(trades, g, i) * trades[i].rate]
           k == [i \in DOMAIN trades |-> SignedHours(g, i) * (workload[g].last - trades[i].rate)]
           s == w.last * w.net - PaidBy(trades, g)
<1>1. /\ w \in WorkloadRecord /\ w.net = NetOf(trades, g) /\ trades \in Seq(Trade)
      /\ Booked(w, PaidBy(trades, g)) /\ PaidBy(trades, g) \in Int
  BY SumsType DEF LedgerInv
<1>2. w.last \in Int /\ w.net \in Int /\ s \in Int
  BY <1>1, WorkloadFields
<1>3. SumFunctionOnSet(k, DOMAIN trades) = s
  <2>1. DOMAIN trades = 1..Len(trades) /\ IsFiniteSet(1..Len(trades))
    BY <1>1, FS_Interval
  <2>2. ASSUME NEW i \in DOMAIN trades
        PROVE  f[i] \in Int /\ h[i] \in Int /\ k[i] = w.last * f[i] - h[i]
    <3>1. /\ Given(trades, g, i) \in Int /\ trades[i].rate \in Int
          /\ SignedHours(g, i) = Given(trades, g, i)
      BY <1>1, <2>1, GivenType, TradeFields DEF SignedHours, Given
    <3>2. \A a, b, c \in Int : a * (b - c) = b * a - a * c
      BY SMTT(30)
    <3>3. f[i] = Given(trades, g, i) /\ h[i] = Given(trades, g, i) * trades[i].rate
          /\ k[i] = SignedHours(g, i) * (w.last - trades[i].rate)
      OBVIOUS
    <3> HIDE DEF w, f, h, k
    <3> QED BY <1>2, <3>1, <3>2, <3>3
  <2>3. PICK c \in Int : c = w.last
    BY <1>2
  <2> HIDE DEF f, h, k
  <2>4. PICK S : S = DOMAIN trades /\ IsFiniteSet(S)
    BY <2>1
  <2>5. \A i \in S : f[i] \in Int /\ h[i] \in Int /\ k[i] = c * f[i] - h[i]
    BY <2>2, <2>3, <2>4
  <2>6. SumFunctionOnSet(k, S) = c * SumFunctionOnSet(f, S) - SumFunctionOnSet(h, S)
    <3> HIDE DEF w
    <3> QED BY <2>4, <2>5, SumLinear
  <2>7. SumFunctionOnSet(f, S) = w.net /\ SumFunctionOnSet(h, S) = PaidBy(trades, g)
    BY <1>1, <2>4 DEF NetOf, PaidBy, f, h
  <2> HIDE DEF w
  <2> QED BY <2>3, <2>4, <2>6, <2>7
<1>4. PICK D \in Nat \ {0}, A \in Int : Books(w, PaidBy(trades, g), A, D) /\ Worth(w, A, D)
  BY <1>1 DEF Booked
<1> DEFINE x == A * w.net - PaidBy(trades, g) * D
           z == (w.last * D - A) * w.net
<1>5. x \in Int /\ z \in Int /\ x + z = s * D
  <2>1. \A a, b, c, d, e \in Int : (a * b - c * d) + (e * d - a) * b = (e * b - c) * d
    BY SMTT(30)
  <2>2. PICK b, c, e \in Int : b = w.net /\ c = PaidBy(trades, g) /\ e = w.last
    BY <1>1, <1>2
  <2>3. A \in Int /\ D \in Int
    OBVIOUS
  <2>4. /\ (A * b - c * D) + (e * D - A) * b = (e * b - c) * D
        /\ A * b - c * D \in Int /\ (e * D - A) * b \in Int
    BY <2>1, <2>2, <2>3
  <2>5. x = A * b - c * D /\ z = (e * D - A) * b /\ s = e * b - c
    BY <2>2
  <2> HIDE DEF w, x, z, s
  <2> QED BY <2>4, <2>5
<1>6. Val(w.realized, x, D) /\ Val(w.unrealized, z, D)
  BY <1>4 DEF Books, Worth
<1> HIDE DEF k, s, x, z
<1>7. Plus(w.realized, w.unrealized) = Whole(s)
  BY <1>1, <1>2, <1>5, <1>6, WorkloadFields, PlusIsWhole
<1> QED BY <1>3, <1>7 DEF TotalCost, k

\* Realised and unrealised cost together are always what the organization's assignments
\* are worth at its mark, for any organizations, hours and rates: whatever opened,
\* increased, reduced, closed or flipped a workload (Workload.apply_assignment,
\* src/mittelwerk/core/models.py) and however often it was marked in between
\* (WorkloadManager.reprice_asset), no cost is lost or counted twice.
THEOREM CostAlwaysMarkToMarket == LedgerSpec => []CostIsMarkToMarket
<1>1. LedgerInv /\ [LedgerNext]_ledgerVars => LedgerInv'
  <2> SUFFICES ASSUME LedgerInv, [LedgerNext]_ledgerVars PROVE LedgerInv'
    OBVIOUS
  <2>1. CASE UNCHANGED ledgerVars
    BY <2>1, LedgerStays
  <2> QED BY <2>1, AssignKeeps, RepriceKeeps DEF LedgerNext
<1> QED BY <1>1, LedgerBegins, LedgerIsMarked, PTL DEF LedgerSpec

-----------------------------------------------------------------------------
\* Lowest terms: there is one fraction for each worth, so that sums are equal if their worth is.

\* Fractions whose denominator is the least among those of the same worth
Reduced == {p \in Fraction : \A q \in Fraction : q.n * p.d = p.n * q.d => p.d =< q.d}

\* There is one of them for each worth.
LEMMA ReducedUnique ==
  ASSUME NEW p \in Reduced, NEW q \in Reduced, NEW x \in Int, NEW y \in Int, y # 0,
         Val(p, x, y), Val(q, x, y)
  PROVE  p = q
<1>1. p \in Fraction /\ q \in Fraction
  BY DEF Reduced
<1>2. PICK a \in Int, b \in Nat \ {0}, c \in Int, d \in Nat \ {0} :
        /\ p.n = a /\ p.d = b /\ q.n = c /\ q.d = d /\ p = [n |-> a, d |-> b]
        /\ q = [n |-> c, d |-> d]
  BY <1>1 DEF Fraction
<1>3. a * y = x * b /\ c * y = x * d
  BY <1>2 DEF Val
<1>4. a * d = c * b
  <2>1. (a * d) * y = (c * b) * y
    <3>1. (a * y) * d = (x * b) * d /\ (c * y) * b = (x * d) * b
      BY <1>3
    <3>2. /\ (a * y) * d = (a * d) * y /\ (c * y) * b = (c * b) * y
          /\ (x * b) * d = (x * d) * b
      BY SMTT(30)
    <3> QED BY <3>1, <3>2
  <2>2. a * d \in Int /\ c * b \in Int
    OBVIOUS
  <2> QED BY <2>1, <2>2, Cancel
<1>5. b =< d /\ d =< b
  BY <1>1, <1>2, <1>4 DEF Reduced
<1>6. b = d
  BY <1>5
<1>7. a = c
  BY <1>4, <1>6, Cancel
<1> QED BY <1>2, <1>6, <1>7

\* Of all fractions of one worth there is one with the least denominator.  It divides the
\* others, since the remainder would be a smaller one.
LEMMA LeastDenominator ==
  ASSUME NEW n \in Int, NEW d \in Nat \ {0}
  PROVE  \E a \in Int, b \in Nat \ {0} :
           /\ \E m \in Nat \ {0} : d = b * m /\ n = a * m
           /\ \A q \in Fraction : q.n * d = n * q.d => b =< q.d
<1> DEFINE T == {b \in Nat : b # 0 /\ \E a \in Int : n * b = a * d}
<1>1. d \in T
  OBVIOUS
<1>2. PICK b \in Nat \ {0} : b \in T /\ \A m \in T : b =< m
  <2>1. T \in SUBSET Nat /\ T # {} /\ \A m \in T : m \in Nat \ {0}
    BY <1>1
  <2> HIDE DEF T
  <2>2. \E b \in T : \A m \in T : b =< m
    BY <2>1, LeastNumber
  <2> QED BY <2>1, <2>2
<1>3. ASSUME NEW q \in Fraction, q.n * d = n * q.d PROVE b =< q.d
  <2>1. q.n \in Int /\ q.d \in Nat \ {0}
    BY DEF Fraction
  <2>2. q.d \in T
    BY <1>3, <2>1
  <2> QED BY <1>2, <2>2
<1>4. PICK a \in Int : n * b = a * d
  BY <1>2
<1> HIDE DEF T
<1>6. PICK m \in Int, r \in Int : d = b * m + r /\ 0 =< r /\ r < b
  <2>1. d = b * (d \div b) + (d % b) /\ d \div b \in Int /\ d % b \in Int /\ 0 =< d % b /\ d % b < b
    BY SMTT(30)
  <2> QED BY <2>1
<1>7. r = 0
  <2> SUFFICES ASSUME r # 0 PROVE FALSE
    OBVIOUS
  <2>1. PICK c \in Int : c = n - a * m
    OBVIOUS
  <2>2. c * b = a * r
    <3>1. (n - a * m) * b = n * b - a * (b * m) /\ a * (b * m + r) = a * (b * m) + a * r
      BY SMTT(30)
    <3>2. PICK k \in Int : k = a * (b * m)
      OBVIOUS
    <3>3. n * b = k + a * r
      BY <1>4, <1>6, <3>1, <3>2
    <3> QED BY <2>1, <3>1, <3>2, <3>3
  <2>3. c * d = n * r
    <3>1. (c * d) * b = (n * r) * b
      <4>1. (c * d) * b = (c * b) * d /\ (n * r) * b = (n * b) * r /\ (a * r) * d = (a * d) * r
        BY SMTT(30)
      <4> QED BY <1>4, <2>2, <4>1
    <3>2. c * d \in Int /\ n * r \in Int
      OBVIOUS
    <3> QED BY <3>1, <3>2, Cancel
  <2>4. [n |-> c, d |-> r] \in Fraction
    BY <1>6 DEF Fraction
  <2>5. c * d = n * r => b =< r
    BY <1>3, <2>4
  <2> QED BY <1>6, <2>3, <2>5
<1>8. d = b * m
  BY <1>6, <1>7
<1>9. m > 0
  BY <1>8, SMTT(30)
<1>10. n = a * m
  <2>1. n * b = (a * m) * b
    <3>1. a * (b * m) = (a * m) * b
      BY SMTT(30)
    <3> QED BY <1>4, <1>8, <3>1
  <2>2. a * m \in Int
    OBVIOUS
  <2> QED BY <2>1, <2>2, Cancel
<1> QED BY <1>3, <1>8, <1>9, <1>10

\* Lowest terms have it.
LEMMA LowestIsReduced ==
  ASSUME NEW n \in Int, NEW d \in Nat \ {0}
  PROVE  Lowest(n, d) \in Reduced
<1> DEFINE S == {k \in 1..d : n % k = 0 /\ d % k = 0}
           g == Max(S)
           low == Lowest(n, d)
<1> HIDE DEF S, g, low
<1>1. PICK a \in Int, b \in Nat \ {0} :
        /\ \E m \in Nat \ {0} : d = b * m /\ n = a * m
        /\ \A q \in Fraction : q.n * d = n * q.d => b =< q.d
  BY LeastDenominator
<1>2. PICK m \in Nat \ {0} : d = b * m /\ n = a * m
  BY <1>1
<1>3. m \in S
  <2>1. (a * m) % m = 0 /\ (b * m) % m = 0
    BY Multiple
  <2>2. m =< d
    BY <1>2, SMTT(30)
  <2> QED BY <1>2, <2>1, <2>2 DEF S
<1>4. g \in S /\ m =< g /\ S \in SUBSET (1..d)
  <2>1. S \in SUBSET (1..d)
    BY DEF S
  <2> QED BY <1>3, <2>1, GreatestNumber DEF g
<1>5. low \in Fraction /\ low.n * d = n * low.d /\ low.d = d \div g
  BY LowestForm DEF Lowest, g, S, low
<1>6. low.d =< b
  <2>1. PICK y \in Int : d \div g = y /\ d = g * y
    BY <1>4, Divides DEF S
  <2>2. y =< b
    <3> SUFFICES ASSUME y > b PROVE FALSE
      BY <2>1
    <3>1. b * m < g * y
      BY <1>4, SMTT(30)
    <3> QED BY <1>2, <2>1, <3>1
  <2> QED BY <1>5, <2>1, <2>2
<1>7. ASSUME NEW q \in Fraction, q.n * low.d = low.n * q.d PROVE low.d =< q.d
  <2>1. q.n \in Int /\ q.d \in Nat \ {0} /\ low.n \in Int /\ low.d \in Nat \ {0}
    BY <1>5 DEF Fraction
  <2>2. PICK c \in Int, e \in Nat \ {0}, x \in Int, y \in Nat \ {0} :
          q.n = c /\ q.d = e /\ low.n = x /\ low.d = y
    BY <2>1
  <2>3. c * y = x * e /\ x * d = n * y
    BY <1>5, <1>7, <2>2
  <2>4. c * d = n * e
    <3>1. (c * d) * y = (n * e) * y
      <4>1. (c * d) * y = (c * y) * d /\ (x * e) * d = (x * d) * e /\ (n * y) * e = (n * e) * y
        BY SMTT(30)
      <4> QED BY <2>3, <4>1
    <3>2. c * d \in Int /\ n * e \in Int
      OBVIOUS
    <3> QED BY <3>1, <3>2, Cancel
  <2>5. b =< e
    BY <1>1, <2>2, <2>4
  <2> QED BY <1>6, <2>2, <2>5
<1> QED BY <1>5, <1>7 DEF Reduced, low

\* Finitely many fractions have a common denominator.
LEMMA OneDenominator ==
  ASSUME NEW S, IsFiniteSet(S), S \subseteq Fraction
  PROVE  \E D \in Nat \ {0} : \A p \in S : \E x \in Int : Val(p, x, D)
<1> DEFINE C == {T \in SUBSET S : \E D \in Nat \ {0} : \A p \in T : \E x \in Int : Val(p, x, D)}
<1>1. ASSUME NEW T \in SUBSET S, \A U \in SUBSET T : U # T => U \in C
      PROVE  T \in C
  <2>1. CASE T = {}
    <3>1. 1 \in Nat \ {0}
      OBVIOUS
    <3> QED BY <2>1, <3>1
  <2>2. CASE T # {}
    <3>1. PICK q \in T : TRUE
      BY <2>2
    <3>2. PICK D \in Nat \ {0} : \A p \in T \ {q} : \E x \in Int : Val(p, x, D)
      <4>1. T \ {q} \in C
        <5> HIDE DEF C
        <5>1. T \ {q} \in SUBSET T /\ T \ {q} # T
          OBVIOUS
        <5> QED BY <1>1, <5>1
      <4> QED BY <4>1
    <3>3. PICK a \in Int, b \in Nat \ {0} : a = q.n /\ b = q.d
      BY FractionFields
    <3>4. PICK E \in Nat \ {0} : E = D * b
      BY NotZero
    <3>5. Val(q, a * D, E) /\ a * D \in Int
      <4>1. a * (D * b) = (a * D) * b
        BY SMTT(30)
      <4> QED BY <3>3, <3>4, <4>1 DEF Val
    <3>6. ASSUME NEW p \in T \ {q} PROVE \E x \in Int : Val(p, x, E)
      <4>1. PICK x \in Int : Val(p, x, D)
        BY <3>2
      <4>2. p \in Fraction
        OBVIOUS
      <4>3. Val(p, x * b, D * b)
        BY <4>1, <4>2, Widened
      <4> QED BY <3>4, <4>3
    <3>7. \A p \in T : \E x \in Int : Val(p, x, E)
      BY <3>5, <3>6
    <3> QED BY <3>7
  <2> QED BY <2>1, <2>2
<1> HIDE DEF C
<1>2. S \in C
  BY <1>1, SubsetInduction
<1> QED BY <1>2 DEF C

\* Five fractions, with their numerators over one denominator
OneDenominatorFor(p, q, r, s, t) ==
  \E D \in Nat \ {0}, a, b, c, d, e \in Int :
    Val(p, a, D) /\ Val(q, b, D) /\ Val(r, c, D) /\ Val(s, d, D) /\ Val(t, e, D)

\* There always is one.
LEMMA FewFractions ==
  ASSUME NEW p \in Fraction, NEW q \in Fraction, NEW r \in Fraction, NEW s \in Fraction,
         NEW t \in Fraction
  PROVE  OneDenominatorFor(p, q, r, s, t)
<1>1. IsFiniteSet({}) /\ \A S, x : IsFiniteSet(S) => IsFiniteSet(S \cup {x})
  BY FS_EmptySet, FS_AddElement
<1>2. IsFiniteSet((((({} \cup {p}) \cup {q}) \cup {r}) \cup {s}) \cup {t})
  BY <1>1
<1>3. PICK S : IsFiniteSet(S) /\ S = {p, q, r, s, t}
  <2>1. {p, q, r, s, t} = (((({} \cup {p}) \cup {q}) \cup {r}) \cup {s}) \cup {t}
    OBVIOUS
  <2> QED BY <1>2, <2>1
<1>4. S \subseteq Fraction /\ p \in S /\ q \in S /\ r \in S /\ s \in S /\ t \in S
  BY <1>3
<1>5. PICK D \in Nat \ {0} : \A x \in S : \E n \in Int : Val(x, n, D)
  BY <1>3, <1>4, OneDenominator
<1> QED BY <1>4, <1>5 DEF OneDenominatorFor

\* A sum is in lowest terms.
LEMMA PlusIsReduced ==
  ASSUME NEW p \in Fraction, NEW q \in Fraction
  PROVE  Plus(p, q) \in Reduced /\ Plus(p, q) \in Fraction
<1>1. PICK a \in Int, b \in Nat \ {0} : a = p.n /\ b = p.d
  BY FractionFields
<1>2. PICK c \in Int, d \in Nat \ {0} : c = q.n /\ d = q.d
  BY FractionFields
<1>3. PICK n \in Int, m \in Nat \ {0} : n = a * d + c * b /\ m = b * d
  BY NotZero
<1>4. Lowest(n, m) \in Reduced
  BY LowestIsReduced
<1> QED BY <1>1, <1>2, <1>3, <1>4 DEF Plus, Reduced

\* Two sums of the same worth are the same.
LEMMA EqualSums ==
  ASSUME NEW p \in Reduced, NEW q \in Reduced, NEW x \in Int, NEW z \in Int,
         NEW D \in Nat \ {0}, Val(p, x, D), Val(q, z, D), x = z
  PROVE  p = q
<1>1. Val(q, x, D) /\ D \in Int /\ D # 0
  OBVIOUS
<1> QED BY <1>1, ReducedUnique

\* The terms of a sum may be taken in another order.
LEMMA SumsOfSums ==
  ASSUME NEW p \in Fraction, NEW q \in Fraction, NEW r \in Fraction, NEW s \in Fraction
  PROVE  Plus(Plus(p, q), Plus(r, s)) = Plus(Plus(p, r), Plus(q, s))
<1>1. PICK D \in Nat \ {0}, a \in Int, b \in Int, c \in Int, d \in Int :
        Val(p, a, D) /\ Val(q, b, D) /\ Val(r, c, D) /\ Val(s, d, D)
  <2>1. OneDenominatorFor(p, q, r, s, s)
    BY FewFractions
  <2> QED BY <2>1 DEF OneDenominatorFor
<1>2. PICK ab \in Int, cd \in Int, ac \in Int, bd \in Int :
        ab = a + b /\ cd = c + d /\ ac = a + c /\ bd = b + d
  OBVIOUS
<1>3. /\ Plus(p, q) \in Fraction /\ Val(Plus(p, q), ab, D)
      /\ Plus(r, s) \in Fraction /\ Val(Plus(r, s), cd, D)
      /\ Plus(p, r) \in Fraction /\ Val(Plus(p, r), ac, D)
      /\ Plus(q, s) \in Fraction /\ Val(Plus(q, s), bd, D)
  BY <1>1, <1>2, PlusVal
<1>4. /\ Val(Plus(Plus(p, q), Plus(r, s)), ab + cd, D)
      /\ Val(Plus(Plus(p, r), Plus(q, s)), ac + bd, D)
  BY <1>3, PlusVal
<1>5. Plus(Plus(p, q), Plus(r, s)) \in Reduced /\ Plus(Plus(p, r), Plus(q, s)) \in Reduced
  BY <1>3, PlusIsReduced
<1>6. ab + cd = ac + bd /\ ab + cd \in Int /\ ac + bd \in Int
  BY <1>2
<1> QED BY <1>4, <1>5, <1>6, EqualSums

\* What netting takes from the exposure is in the budget.
LEMMA NettedExposure ==
  ASSUME NEW p \in Fraction, NEW q \in Fraction, NEW r \in Fraction, NEW s \in Fraction,
         NEW t \in Fraction
  PROVE  Plus(t, Plus(Plus(r, s), Minus(Plus(p, q), t))) = Plus(Plus(p, r), Plus(q, s))
<1>1. PICK D \in Nat \ {0}, a \in Int, b \in Int, c \in Int, d \in Int, e \in Int :
        Val(p, a, D) /\ Val(q, b, D) /\ Val(r, c, D) /\ Val(s, d, D) /\ Val(t, e, D)
  <2>1. OneDenominatorFor(p, q, r, s, t)
    BY FewFractions
  <2> QED BY <2>1 DEF OneDenominatorFor
<1>2. PICK ab \in Int, cd \in Int, ac \in Int, bd \in Int :
        ab = a + b /\ cd = c + d /\ ac = a + c /\ bd = b + d
  OBVIOUS
<1>3. PICK rest \in Int, budget \in Int : rest = ab - e /\ budget = cd + rest
  OBVIOUS
<1>4. /\ Plus(p, q) \in Fraction /\ Val(Plus(p, q), ab, D)
      /\ Plus(r, s) \in Fraction /\ Val(Plus(r, s), cd, D)
      /\ Plus(p, r) \in Fraction /\ Val(Plus(p, r), ac, D)
      /\ Plus(q, s) \in Fraction /\ Val(Plus(q, s), bd, D)
  BY <1>1, <1>2, PlusVal
<1>5. PICK m : m = Minus(Plus(p, q), t)
  OBVIOUS
<1>6. m \in Fraction /\ Val(m, rest, D)
  BY <1>1, <1>3, <1>4, <1>5, MinusVal
<1>7. Plus(Plus(r, s), m) \in Fraction /\ Val(Plus(Plus(r, s), m), budget, D)
  BY <1>3, <1>4, <1>6, PlusVal
<1>8. /\ Val(Plus(t, Plus(Plus(r, s), m)), e + budget, D)
      /\ Val(Plus(Plus(p, r), Plus(q, s)), ac + bd, D)
  BY <1>1, <1>4, <1>7, PlusVal
<1>9. Plus(t, Plus(Plus(r, s), m)) \in Reduced /\ Plus(Plus(p, r), Plus(q, s)) \in Reduced
  BY <1>4, <1>7, PlusIsReduced
<1>10. e + budget = ac + bd /\ e + budget \in Int /\ ac + bd \in Int
  BY <1>2, <1>3
<1> QED BY <1>5, <1>8, <1>9, <1>10, EqualSums

\* What is added and taken away again
LEMMA SumUndone ==
  ASSUME NEW c \in Reduced, NEW p \in Fraction, NEW q \in Fraction
  PROVE  Plus(Plus(c, Plus(p, q)), Plus(Times(p, -1), Times(q, -1))) = c
<1>0. c \in Fraction
  BY DEF Reduced
<1>1. PICK D \in Nat \ {0}, a \in Int, b \in Int, e \in Int :
        Val(p, a, D) /\ Val(q, b, D) /\ Val(c, e, D)
  <2>1. OneDenominatorFor(p, q, c, c, c)
    BY <1>0, FewFractions
  <2> QED BY <2>1 DEF OneDenominatorFor
<1>2. PICK ab \in Int, na \in Int, nb \in Int, eab \in Int, nab \in Int :
        /\ ab = a + b /\ na = a * (-1) /\ nb = b * (-1) /\ eab = e + ab /\ nab = na + nb
  OBVIOUS
<1>3. PICK k \in Int : k = -1
  OBVIOUS
<1>4. /\ Times(p, k) \in Fraction /\ Val(Times(p, k), na, D)
      /\ Times(q, k) \in Fraction /\ Val(Times(q, k), nb, D)
  <2>1. /\ Times(p, k) \in Fraction /\ Val(Times(p, k), a * k, D)
        /\ Times(q, k) \in Fraction /\ Val(Times(q, k), b * k, D)
    BY <1>1, TimesVal
  <2> QED BY <1>2, <1>3, <2>1
<1>5. /\ Plus(p, q) \in Fraction /\ Val(Plus(p, q), ab, D)
      /\ Plus(Times(p, k), Times(q, k)) \in Fraction
      /\ Val(Plus(Times(p, k), Times(q, k)), nab, D)
  BY <1>1, <1>2, <1>4, PlusVal
<1>6. Plus(c, Plus(p, q)) \in Fraction /\ Val(Plus(c, Plus(p, q)), eab, D)
  BY <1>0, <1>1, <1>2, <1>5, PlusVal
<1>7. PICK all : all = Plus(Plus(c, Plus(p, q)), Plus(Times(p, k), Times(q, k)))
  OBVIOUS
<1>8. Val(all, eab + nab, D) /\ all \in Reduced
  BY <1>5, <1>6, <1>7, PlusVal, PlusIsReduced
<1>9. eab + nab = e /\ eab + nab \in Int
  BY <1>2
<1>10. all = c
  BY <1>1, <1>8, <1>9, EqualSums
<1> QED BY <1>3, <1>7, <1>10

-----------------------------------------------------------------------------
\* Workloads and money of units that are combined

\* What is registered for an asset
Entry == [model : Models, weight : Int]
Registry(c) == IsFiniteSet(DOMAIN c) /\ c \in [DOMAIN c -> Entry]

\* A unit, whether an organization's or one that was combined
IsUnit(u) ==
  /\ u.workload \in WorkloadRecord /\ u.budget \in Fraction
  /\ Registry(u.capacity) /\ u.history \in Seq(Int)

\* The hours without their side
LEMMA MagnitudeOf ==
  ASSUME NEW k \in Int
  PROVE  Magnitude(k) \in Nat /\ (k # 0 => Magnitude(k) > 0) /\ (k = 0 => Magnitude(k) = 0)
BY DEF Magnitude

\* The cases exclude each other.
LEMMA JoinCases ==
  ASSUME NEW v, NEW w, NEW l
  PROVE  LET j == Aggregated(v, w, l)
             latest == IF l THEN v ELSE w
         IN  /\ v.net + w.net = 0 => j.average = Whole(0) /\ j.last = 0
             /\ v.net + w.net # 0 /\ Opposed(v, w) =>
                  j.average = Surviving(v, w).average /\ j.last = Surviving(v, w).last
             /\ v.net + w.net # 0 /\ ~Opposed(v, w) =>
                  j.average = MeanOfBoth(v, w) /\ j.last = latest.last
BY Zenon DEF Aggregated

\* The average of two workloads on one side, over a common denominator
LEMMA MeanIsFraction ==
  ASSUME NEW v \in WorkloadRecord, NEW w \in WorkloadRecord, v.net + w.net # 0
  PROVE  /\ MeanOfBoth(v, w) \in Fraction
         /\ \A D \in Nat \ {0}, x, z \in Int : Val(v.average, x, D) /\ Val(w.average, z, D) =>
              Val(MeanOfBoth(v, w), x * Magnitude(v.net) + z * Magnitude(w.net),
                  D * (Magnitude(v.net) + Magnitude(w.net)))
<1>1. PICK m \in Int, k \in Int : m = v.net /\ k = w.net
  BY WorkloadFields
<1>2. PICK a \in Nat, b \in Nat : a = Magnitude(m) /\ b = Magnitude(k)
  BY MagnitudeOf
<1>3. PICK c \in Nat \ {0} : c = a + b
  <2>1. m # 0 \/ k # 0
    BY <1>1
  <2>2. a > 0 \/ b > 0
    BY <1>2, <2>1, MagnitudeOf
  <2> QED BY <2>2
<1>4. v.average \in Fraction /\ w.average \in Fraction
  BY WorkloadFields
<1>5. MeanOfBoth(v, w) = Over(Plus(Times(v.average, a), Times(w.average, b)), c)
  BY <1>1, <1>2, <1>3 DEF MeanOfBoth
<1>6. ASSUME NEW D \in Nat \ {0}, NEW x \in Int, NEW z \in Int,
             Val(v.average, x, D), Val(w.average, z, D)
      PROVE  /\ MeanOfBoth(v, w) \in Fraction
             /\ Val(MeanOfBoth(v, w), x * a + z * b, D * c)
  <2>1. PICK xa \in Int, zb \in Int : xa = x * a /\ zb = z * b
    OBVIOUS
  <2>2. /\ Times(v.average, a) \in Fraction /\ Val(Times(v.average, a), xa, D)
        /\ Times(w.average, b) \in Fraction /\ Val(Times(w.average, b), zb, D)
    <3>1. a \in Int /\ b \in Int
      OBVIOUS
    <3>2. /\ Times(v.average, a) \in Fraction /\ Val(Times(v.average, a), x * a, D)
          /\ Times(w.average, b) \in Fraction /\ Val(Times(w.average, b), z * b, D)
      BY <1>4, <1>6, <3>1, TimesVal
    <3> QED BY <2>1, <3>2
  <2>3. PICK p, xz : p = Plus(Times(v.average, a), Times(w.average, b)) /\ xz = xa + zb
    OBVIOUS
  <2>4. xz \in Int /\ p \in Fraction /\ Val(p, xz, D)
    BY <2>2, <2>3, PlusVal
  <2>5. Over(p, c) \in Fraction /\ Val(Over(p, c), xz, D * c)
    BY <2>4, OverVal
  <2> QED BY <1>5, <2>1, <2>3, <2>5
<1>7. \E D \in Nat \ {0}, x, z \in Int : Val(v.average, x, D) /\ Val(w.average, z, D)
  <2>1. OneDenominatorFor(v.average, w.average, w.average, w.average, w.average)
    BY <1>4, FewFractions
  <2> QED BY <2>1 DEF OneDenominatorFor
<1>8. MeanOfBoth(v, w) \in Fraction
  BY <1>6, <1>7
<1>9. a = Magnitude(v.net) /\ b = Magnitude(w.net) /\ c = Magnitude(v.net) + Magnitude(w.net)
  BY <1>1, <1>2, <1>3
<1> QED BY <1>6, <1>8, <1>9

\* Workloads that are joined: hours and costs add up.
LEMMA AggregatedType ==
  ASSUME NEW v \in WorkloadRecord, NEW w \in WorkloadRecord, NEW l \in BOOLEAN
  PROVE  /\ Aggregated(v, w, l) \in WorkloadRecord
         /\ Aggregated(v, w, l).net = v.net + w.net
         /\ Aggregated(v, w, l).realized = Plus(v.realized, w.realized)
         /\ Aggregated(v, w, l).unrealized = Plus(v.unrealized, w.unrealized)
<1>1. PICK j : j = Aggregated(v, w, l)
  OBVIOUS
<1>2. /\ j.net = v.net + w.net /\ j.realized = Plus(v.realized, w.realized)
      /\ j.unrealized = Plus(v.unrealized, w.unrealized)
      /\ j = [net |-> j.net, average |-> j.average, realized |-> j.realized,
              unrealized |-> j.unrealized, last |-> j.last]
  BY <1>1 DEF Aggregated
<1>3. /\ v.net \in Int /\ w.net \in Int /\ v.last \in Nat /\ w.last \in Nat
      /\ v.average \in Fraction /\ w.average \in Fraction /\ v.realized \in Fraction
      /\ w.realized \in Fraction /\ v.unrealized \in Fraction /\ w.unrealized \in Fraction
  BY WorkloadFields
<1>4. Plus(v.realized, w.realized) \in Fraction /\ Plus(v.unrealized, w.unrealized) \in Fraction
  BY <1>3, PlusIsReduced
<1>5. j.average \in Fraction /\ j.last \in Nat
  <2>1. CASE v.net + w.net = 0
    <3>1. Whole(0) \in Fraction
      BY DEF Whole, Fraction
    <3> QED BY <1>1, <2>1, <3>1, JoinCases
  <2>2. CASE v.net + w.net # 0 /\ Opposed(v, w)
    <3>1. Surviving(v, w) = v \/ Surviving(v, w) = w
      BY DEF Surviving
    <3> QED BY <1>1, <1>3, <2>2, <3>1, JoinCases
  <2>3. CASE v.net + w.net # 0 /\ ~Opposed(v, w)
    <3>1. MeanOfBoth(v, w) \in Fraction
      BY <2>3, MeanIsFraction
    <3> QED BY <1>1, <1>3, <2>3, <3>1, JoinCases
  <2> QED BY <2>1, <2>2, <2>3
<1>6. j \in WorkloadRecord
  BY <1>2, <1>3, <1>4, <1>5 DEF WorkloadRecord
<1> QED BY <1>1, <1>2, <1>6

\* At the mark or, when there is none, at the average
RateOf(w) == IF w.last = 0 THEN w.average ELSE Whole(w.last)

\* What the hours are worth at that rate
LEMMA ExposureType ==
  ASSUME NEW w \in WorkloadRecord
  PROVE  /\ RateOf(w) \in Fraction /\ Exposure(w) \in Fraction
         /\ Exposure(w) = Times(RateOf(w), w.net)
<1>1. w.average \in Fraction /\ w.last \in Int /\ w.net \in Int
  BY WorkloadFields
<1>2. RateOf(w) \in Fraction
  BY <1>1 DEF RateOf, Whole, Fraction
<1>3. PICK a \in Int, b \in Nat \ {0} : a = RateOf(w).n /\ b = RateOf(w).d
  BY <1>2, FractionFields
<1>4. PICK e \in Int : e = a * w.net
  BY <1>1
<1>5. Lowest(e, b) \in Fraction
  BY LowestForm
<1>6. Times(RateOf(w), w.net) = Lowest(e, b)
  BY <1>3, <1>4 DEF Times
<1>7. Exposure(w) = Times(RateOf(w), w.net)
  BY DEF Exposure, RateOf
<1> QED BY <1>2, <1>5, <1>6, <1>7

\* Sums of money are in lowest terms.
LEMMA UnitMoney ==
  ASSUME NEW u, IsUnit(u)
  PROVE  /\ CostOf(u) \in Reduced /\ CostOf(u) \in Fraction
         /\ ExposureOf(u) \in Reduced /\ ExposureOf(u) \in Fraction
<1>1. u.workload.realized \in Fraction /\ u.workload.unrealized \in Fraction
      /\ Exposure(u.workload) \in Fraction /\ u.budget \in Fraction
  BY WorkloadFields, ExposureType DEF IsUnit
<1> QED BY <1>1, PlusIsReduced DEF CostOf, ExposureOf

\* Cost and exposure of two units together are the sums of theirs: what the netting of
\* opposite hours takes from the exposure of the workload goes to the budget.
LEMMA CombinedMoney ==
  ASSUME NEW t, IsUnit(t), NEW u, IsUnit(u), NEW l \in BOOLEAN
  PROVE  LET both == Combined(t, u, l)
         IN  /\ both.workload \in WorkloadRecord /\ both.budget \in Fraction
             /\ both.workload.net = t.workload.net + u.workload.net
             /\ CostOf(both) = Plus(CostOf(t), CostOf(u))
             /\ ExposureOf(both) = Plus(ExposureOf(t), ExposureOf(u))
<1>1. PICK both, w : both = Combined(t, u, l) /\ w = Aggregated(t.workload, u.workload, l)
  OBVIOUS
<1>2. PICK p, q, e : p = Exposure(t.workload) /\ q = Exposure(u.workload) /\ e = Exposure(w)
  OBVIOUS
<1>3. both.workload = w /\ both.budget = Plus(Plus(t.budget, u.budget), Minus(Plus(p, q), e))
  BY <1>1, <1>2 DEF Combined
<1>4. /\ w \in WorkloadRecord /\ w.net = t.workload.net + u.workload.net
      /\ w.realized = Plus(t.workload.realized, u.workload.realized)
      /\ w.unrealized = Plus(t.workload.unrealized, u.workload.unrealized)
  BY <1>1, AggregatedType DEF IsUnit
<1>5. /\ p \in Fraction /\ q \in Fraction /\ e \in Fraction /\ t.budget \in Fraction
      /\ u.budget \in Fraction
  BY <1>2, <1>4, ExposureType DEF IsUnit
<1>6. both.budget \in Fraction
  <2>1. PICK x, y : x = Plus(t.budget, u.budget) /\ y = Plus(p, q)
    OBVIOUS
  <2>2. x \in Fraction /\ y \in Fraction
    BY <1>5, <2>1, PlusIsReduced
  <2>3. Minus(y, e) \in Fraction
    <3>1. OneDenominatorFor(y, e, e, e, e)
      BY <1>5, <2>2, FewFractions
    <3>2. PICK D \in Nat \ {0}, a \in Int, b \in Int : Val(y, a, D) /\ Val(e, b, D)
      BY <3>1 DEF OneDenominatorFor
    <3> QED BY <1>5, <2>2, <3>2, MinusVal
  <2> QED BY <1>3, <2>1, <2>2, <2>3, PlusIsReduced
<1>7. /\ t.workload.realized \in Fraction /\ t.workload.unrealized \in Fraction
      /\ u.workload.realized \in Fraction /\ u.workload.unrealized \in Fraction
  BY WorkloadFields DEF IsUnit
<1>8. CostOf(both) = Plus(CostOf(t), CostOf(u))
  BY <1>3, <1>4, <1>7, SumsOfSums DEF CostOf
<1>9. ExposureOf(both) = Plus(ExposureOf(t), ExposureOf(u))
  <2>1. PICK r \in Fraction, s \in Fraction : r = t.budget /\ s = u.budget
    BY <1>5
  <2>2. Plus(e, Plus(Plus(r, s), Minus(Plus(p, q), e))) = Plus(Plus(p, r), Plus(q, s))
    BY <1>5, NettedExposure
  <2>3. ExposureOf(both) = Plus(e, Plus(Plus(r, s), Minus(Plus(p, q), e)))
    BY <1>2, <1>3, <2>1 DEF ExposureOf
  <2>4. ExposureOf(t) = Plus(p, r) /\ ExposureOf(u) = Plus(q, s)
    BY <1>2, <2>1 DEF ExposureOf
  <2> QED BY <2>2, <2>3, <2>4
<1> QED BY <1>1, <1>3, <1>4, <1>6, <1>8, <1>9

\* The unit that is taken away has the other sign throughout.
LEMMA ScaledMoney ==
  ASSUME NEW u, IsUnit(u)
  PROVE  LET s == Scaled(u, -1)
         IN  /\ s.workload \in WorkloadRecord /\ s.budget \in Fraction
             /\ s.workload.net = u.workload.net * (-1)
             /\ CostOf(s) = Plus(Times(u.workload.realized, -1), Times(u.workload.unrealized, -1))
             /\ ExposureOf(s) = Plus(Times(Exposure(u.workload), -1), Times(u.budget, -1))
<1>1. PICK k \in Int : k = -1
  OBVIOUS
<1>2. PICK s, w, v : s = Scaled(u, k) /\ w = u.workload /\ v = s.workload
  OBVIOUS
<1>3. w \in WorkloadRecord /\ u.budget \in Fraction
  BY <1>2 DEF IsUnit
<1>4. /\ v = [w EXCEPT !.net = w.net * k, !.realized = Times(w.realized, k),
                       !.unrealized = Times(w.unrealized, k)]
      /\ s.budget = Times(u.budget, k)
  BY <1>2 DEF Scaled
<1>5. ASSUME NEW p \in Fraction PROVE Times(p, k) \in Fraction
  <2>1. PICK a \in Int, b \in Nat \ {0} : a = p.n /\ b = p.d
    BY FractionFields
  <2>2. PICK e \in Int : e = a * k
    OBVIOUS
  <2>3. Lowest(e, b) \in Fraction
    BY LowestForm
  <2> QED BY <2>1, <2>2, <2>3 DEF Times
<1>6. /\ w.net \in Int /\ w.last \in Nat /\ w.average \in Fraction /\ w.realized \in Fraction
      /\ w.unrealized \in Fraction
  BY <1>3, WorkloadFields
<1>7. /\ v.net = w.net * k /\ v.realized = Times(w.realized, k)
      /\ v.unrealized = Times(w.unrealized, k) /\ v.last = w.last /\ v.average = w.average
      /\ v \in WorkloadRecord
  <2>1. PICK m \in Int, p \in Fraction, q \in Fraction :
          m = w.net * k /\ p = Times(w.realized, k) /\ q = Times(w.unrealized, k)
    BY <1>5, <1>6
  <2>2. v = [w EXCEPT !.net = m, !.realized = p, !.unrealized = q]
    BY <1>4, <2>1
  <2> QED BY <1>3, <2>1, <2>2 DEF WorkloadRecord
<1>8. Exposure(v) = Times(Exposure(w), k)
  <2>1. PICK r \in Fraction : r = RateOf(w) /\ r = RateOf(v)
    <3>1. RateOf(w) = RateOf(v)
      BY <1>7 DEF RateOf
    <3> QED BY <1>3, <3>1, ExposureType
  <2>2. PICK n \in Int, m \in Int : n = w.net /\ m = n * k /\ m = v.net
    BY <1>6, <1>7
  <2>3. Exposure(w) = Times(r, n) /\ Exposure(v) = Times(r, m)
    BY <1>3, <1>7, <2>1, <2>2, ExposureType
  <2>4. PICK a \in Int, b \in Nat \ {0} : a = r.n /\ b = r.d
    BY FractionFields
  <2>5. Val(r, a, b)
    BY <2>4 DEF Val
  <2>6. Times(r, n) \in Fraction /\ Val(Times(r, n), a * n, b)
        /\ Times(r, m) \in Fraction /\ Val(Times(r, m), a * m, b)
    BY <2>5, TimesVal
  <2>7. PICK an \in Int, am \in Int : an = a * n /\ am = a * m /\ am = an * k
    <3>1. a * (n * k) = (a * n) * k
      BY SMTT(30)
    <3> QED BY <2>2, <3>1
  <2>8. PICK x : x = Times(r, n)
    OBVIOUS
  <2>9. x \in Fraction /\ Val(x, an, b)
    BY <2>6, <2>7, <2>8
  <2>10. Times(x, k) \in Fraction /\ Val(Times(x, k), an * k, b)
    BY <2>9, TimesVal
  <2>11. \A p \in Fraction, j \in Int : Times(p, j) \in Reduced
    <3> TAKE p \in Fraction, j \in Int
    <3>1. PICK c \in Int, d \in Nat \ {0} : c = p.n /\ d = p.d
      BY FractionFields
    <3>2. PICK e \in Int : e = c * j
      OBVIOUS
    <3>3. Lowest(e, d) \in Reduced
      BY LowestIsReduced
    <3> QED BY <3>1, <3>2, <3>3 DEF Times
  <2>12. Times(x, k) \in Reduced /\ Times(r, m) \in Reduced
    BY <2>9, <2>11
  <2>13. Val(Times(x, k), am, b) /\ Val(Times(r, m), am, b)
    BY <2>6, <2>7, <2>10
  <2>14. Times(x, k) = Times(r, m)
    BY <2>12, <2>13, EqualSums
  <2> QED BY <2>3, <2>8, <2>14
<1>9. s.budget \in Fraction
  BY <1>3, <1>4, <1>5
<1>10. /\ CostOf(s) = Plus(Times(w.realized, k), Times(w.unrealized, k))
       /\ ExposureOf(s) = Plus(Times(Exposure(w), k), Times(u.budget, k))
  BY <1>2, <1>4, <1>7, <1>8 DEF CostOf, ExposureOf
<1> QED BY <1>1, <1>2, <1>7, <1>9, <1>10

-----------------------------------------------------------------------------
\* Capacity and history of units that are combined

\* The cases exclude each other.
LEMMA DayCases ==
  ASSUME NEW t, NEW u
  PROVE  /\ t.history = <<>> => DaysOfBoth(t, u) = u.history
         /\ t.history # <<>> /\ u.history = <<>> => DaysOfBoth(t, u) = t.history
         /\ t.history # <<>> /\ u.history # <<>> =>
              DaysOfBoth(t, u) = [i \in DOMAIN t.history |-> t.history[i] + u.history[i]]
<1>1. CASE t.history = <<>> /\ u.history = <<>>
  <2>1. DaysOfBoth(t, u) = <<>>
    BY <1>1, Zenon DEF DaysOfBoth
  <2> QED BY <1>1, <2>1
<1>2. CASE t.history = <<>> /\ u.history # <<>>
  <2>1. DaysOfBoth(t, u) = u.history
    BY <1>2, Zenon DEF DaysOfBoth
  <2> QED BY <1>2, <2>1
<1>3. CASE t.history # <<>> /\ u.history = <<>>
  <2>1. DaysOfBoth(t, u) = t.history
    BY <1>3, Zenon DEF DaysOfBoth
  <2> QED BY <1>3, <2>1
<1>4. CASE t.history # <<>> /\ u.history # <<>>
  <2>1. DaysOfBoth(t, u) = [i \in DOMAIN t.history |-> t.history[i] + u.history[i]]
    BY <1>4, Zenon DEF DaysOfBoth
  <2> QED BY <1>4, <2>1
<1> QED BY <1>1, <1>2, <1>3, <1>4

\* Histories of the same length are added day by day.
LEMMA DaysType ==
  ASSUME NEW t, IsUnit(t), NEW u, IsUnit(u), Combinable(t, u)
  PROVE  DaysOfBoth(t, u) \in Seq(Int)
<1>1. t.history \in Seq(Int) /\ u.history \in Seq(Int)
  BY DEF IsUnit
<1>2. CASE t.history # <<>> /\ u.history # <<>>
  <2>1. Len(t.history) = Len(u.history)
    BY <1>2 DEF Combinable
  <2>2. PICK p \in Seq(Int), q \in Seq(Int), n \in Nat :
          /\ p = t.history /\ q = u.history /\ n = Len(p) /\ Len(q) = n
          /\ DOMAIN p = 1..n /\ DOMAIN q = 1..n
    BY <1>1, <2>1
  <2>3. [i \in 1..n |-> p[i] + q[i]] \in Seq(Int)
    <3>1. \A i \in 1..n : p[i] + q[i] \in Int
      <4>1. \A i \in 1..n : p[i] \in Int /\ q[i] \in Int
        BY <2>2
      <4> QED BY <4>1
    <3> DEFINE f == [i \in 1..n |-> p[i] + q[i]]
    <3>2. f \in [1..n -> Int]
      BY <3>1
    <3> HIDE DEF f
    <3>3. f \in Seq(Int)
      BY <3>2, SeqDef
    <3> QED BY <3>3 DEF f
  <2>4. [i \in DOMAIN t.history |-> t.history[i] + u.history[i]] \in Seq(Int)
    BY <2>2, <2>3
  <2>5. DaysOfBoth(t, u) = [i \in DOMAIN t.history |-> t.history[i] + u.history[i]]
    BY <1>2, DayCases
  <2> QED BY <2>4, <2>5
<1> QED BY <1>1, <1>2, DayCases

\* Models of both units are kept; where both have one the weights are added.
LEMMA CapacityType ==
  ASSUME NEW t, IsUnit(t), NEW u, IsUnit(u)
  PROVE  /\ Registry(CapacityOfBoth(t, u))
         /\ DOMAIN CapacityOfBoth(t, u) = DOMAIN t.capacity \cup DOMAIN u.capacity
         /\ \A a \in DOMAIN t.capacity \ DOMAIN u.capacity :
              CapacityOfBoth(t, u)[a] = t.capacity[a]
         /\ \A a \in DOMAIN u.capacity \ DOMAIN t.capacity :
              CapacityOfBoth(t, u)[a] = u.capacity[a]
         /\ \A a \in DOMAIN t.capacity : a \in DOMAIN u.capacity =>
              CapacityOfBoth(t, u)[a].model = t.capacity[a].model
<1> DEFINE c == CapacityOfBoth(t, u)
           A == DOMAIN t.capacity
           B == DOMAIN u.capacity
<1>1. Registry(t.capacity) /\ Registry(u.capacity)
  BY DEF IsUnit
<1>0. /\ DOMAIN c = A \cup B
      /\ \A a \in A \cup B :
           /\ a \notin A => c[a] = u.capacity[a]
           /\ a \notin B => c[a] = t.capacity[a]
           /\ a \in A /\ a \in B => c[a] = [t.capacity[a] EXCEPT !.weight = @ + u.capacity[a].weight]
  BY DEF CapacityOfBoth
<1>2. /\ IsFiniteSet(A) /\ IsFiniteSet(B) /\ \A a \in A : t.capacity[a] \in Entry
      /\ \A a \in B : u.capacity[a] \in Entry
  BY <1>1 DEF Registry
<1>3. IsFiniteSet(A \cup B)
  BY <1>2, FS_Union
<1>4. ASSUME NEW a \in A \cap B
      PROVE  c[a] \in Entry /\ c[a].model = t.capacity[a].model
  <2>1. PICK x \in Entry, y \in Entry : x = t.capacity[a] /\ y = u.capacity[a]
    BY <1>2
  <2>2. c[a] = [x EXCEPT !.weight = x.weight + y.weight]
    BY <1>0, <2>1
  <2> HIDE DEF c
  <2>3. x.weight \in Int /\ y.weight \in Int /\ x.weight + y.weight \in Int
    BY DEF Entry
  <2> QED BY <2>1, <2>2, <2>3 DEF Entry
<1>5. DOMAIN c = A \cup B /\ \A a \in A \cup B : c[a] \in Entry
  <2> HIDE DEF c, A, B
  <2> QED BY <1>0, <1>2, <1>4
<1>6. c = [a \in DOMAIN c |-> c[a]]
  BY DEF CapacityOfBoth
<1> HIDE DEF c, A, B
<1>7. Registry(c)
  BY <1>3, <1>5, <1>6 DEF Registry
<1> QED BY <1>0, <1>4, <1>7 DEF c, A, B

\* The weight of a model that both have
LEMMA JoinedWeight ==
  ASSUME NEW t, IsUnit(t), NEW u, IsUnit(u), NEW a \in DOMAIN t.capacity, a \in DOMAIN u.capacity,
         NEW x \in Int, NEW y \in Int, x = t.capacity[a].weight, y = u.capacity[a].weight
  PROVE  CapacityOfBoth(t, u)[a].weight = x + y
<1>1. PICK e \in Entry : e = t.capacity[a]
  BY DEF IsUnit, Registry
<1>2. CapacityOfBoth(t, u)[a] = [e EXCEPT !.weight = e.weight + y]
  BY <1>1 DEF CapacityOfBoth
<1>3. e.weight = x
  BY <1>1
<1>4. CapacityOfBoth(t, u)[a] = [e EXCEPT !.weight = x + y]
  BY <1>2, <1>3
<1> QED BY <1>4 DEF Entry

\* A combination is a unit, which may be combined again.
LEMMA CombinedIsUnit ==
  ASSUME NEW t, IsUnit(t), NEW u, IsUnit(u), NEW l \in BOOLEAN, Combinable(t, u)
  PROVE  IsUnit(Combined(t, u, l))
<1>1. PICK both : both = Combined(t, u, l)
  OBVIOUS
<1>2. both.capacity = CapacityOfBoth(t, u) /\ both.history = DaysOfBoth(t, u)
  BY <1>1 DEF Combined
<1>3. both.workload \in WorkloadRecord /\ both.budget \in Fraction
  BY <1>1, CombinedMoney
<1>4. both.history \in Seq(Int) /\ Registry(both.capacity)
  <2>1. DaysOfBoth(t, u) \in Seq(Int)
    BY DaysType
  <2>2. Registry(CapacityOfBoth(t, u))
    BY CapacityType
  <2> QED BY <1>2, <2>1, <2>2
<1>5. IsUnit(both)
  BY <1>3, <1>4 DEF IsUnit
<1> QED BY <1>1, <1>5

\* So is one with the signs turned.
LEMMA ScaledIsUnit ==
  ASSUME NEW u, IsUnit(u)
  PROVE  LET s == Scaled(u, -1)
         IN  /\ IsUnit(s)
             /\ DOMAIN s.capacity = DOMAIN u.capacity
             /\ \A a \in DOMAIN u.capacity :
                  /\ s.capacity[a].model = u.capacity[a].model
                  /\ s.capacity[a].weight = u.capacity[a].weight * (-1)
             /\ Len(s.history) = Len(u.history)
             /\ \A i \in 1..Len(u.history) : s.history[i] = u.history[i] * (-1)
<1>1. PICK k \in Int : k = -1
  OBVIOUS
<1>2. PICK s, c, d : s = Scaled(u, k) /\ c = u.capacity /\ d = u.history
  OBVIOUS
<1>3. s.workload \in WorkloadRecord /\ s.budget \in Fraction
  BY <1>1, <1>2, ScaledMoney
<1>4. Registry(c) /\ d \in Seq(Int)
  BY <1>2 DEF IsUnit
<1>5. /\ s.capacity = [a \in DOMAIN c |-> [c[a] EXCEPT !.weight = c[a].weight * k]]
      /\ s.history = [i \in DOMAIN d |-> d[i] * k]
  BY <1>2 DEF Scaled
<1>6. ASSUME NEW a \in DOMAIN c
      PROVE  /\ s.capacity[a] \in Entry /\ s.capacity[a].model = c[a].model
             /\ s.capacity[a].weight = c[a].weight * k
  <2>1. PICK x \in Entry : x = c[a]
    BY <1>4 DEF Registry
  <2>2. PICK m \in Int : m = x.weight * k
    BY DEF Entry
  <2>3. s.capacity[a] = [x EXCEPT !.weight = m]
    BY <1>5, <2>1, <2>2
  <2> QED BY <2>1, <2>2, <2>3 DEF Entry
<1>7. Registry(s.capacity) /\ DOMAIN s.capacity = DOMAIN c
  <2>1. DOMAIN s.capacity = DOMAIN c /\ s.capacity = [a \in DOMAIN c |-> s.capacity[a]]
    BY <1>5
  <2>2. IsFiniteSet(DOMAIN c)
    BY <1>4 DEF Registry
  <2> QED BY <1>6, <2>1, <2>2 DEF Registry
<1>8. /\ s.history \in Seq(Int) /\ Len(s.history) = Len(d)
      /\ \A i \in 1..Len(d) : s.history[i] = d[i] * k
  <2>1. PICK n \in Nat : n = Len(d) /\ DOMAIN d = 1..n
    BY <1>4
  <2>2. \A i \in 1..n : d[i] * k \in Int
    BY <1>4, <2>1
  <2>3. PICK f : f = s.history
    OBVIOUS
  <2>4. f = [i \in 1..n |-> d[i] * k]
    BY <1>5, <2>1, <2>3
  <2>5. f \in [1..n -> Int]
    BY <2>2, <2>4
  <2>6. f \in Seq(Int)
    BY <2>5, SeqDef
  <2>7. Len(f) = n
    BY <2>5, LenProperties
  <2> QED BY <2>1, <2>3, <2>4, <2>6, <2>7
<1>9. IsUnit(s)
  BY <1>3, <1>7, <1>8 DEF IsUnit
<1> QED BY <1>1, <1>2, <1>6, <1>7, <1>8, <1>9

-----------------------------------------------------------------------------
\* The longest overrun: the greatest rise from one day to a later one

\* The backlog after i days
After(days, i) == SumFunctionOnSet(days, 1..i)

\* Backlogs are integers.
LEMMA AfterType ==
  ASSUME NEW days \in Seq(Int), NEW i \in 0..Len(days)
  PROVE  After(days, i) \in Int
<1>1. IsFiniteSet(1..i) /\ \A k \in 1..i : days[k] \in Int
  <2>1. PICK n \in Nat : n = Len(days) /\ days \in [1..n -> Int]
    BY LenProperties
  <2>2. i \in Int /\ \A k \in 1..i : days[k] \in Int
    BY <2>1
  <2> QED BY <2>2, FS_Interval
<1> QED BY <1>1, SumRemove DEF After

\* The overrun is the greatest rise there is from one day to a later one.
LEMMA OverrunIsGreatest ==
  ASSUME NEW days \in Seq(Int)
  PROVE  /\ MaxOverrun(days) \in Int
         /\ \E i \in 0..Len(days) : \E j \in 0..i :
              MaxOverrun(days) = After(days, i) - After(days, j)
         /\ \A i \in 0..Len(days) : \A j \in 0..i :
              After(days, i) - After(days, j) =< MaxOverrun(days)
<1> DEFINE n == Len(days)
           after == [i \in 0..n |-> SumFunctionOnSet(days, 1..i)]
           below(i) == {after[j] : j \in 0..i}
           lowest(i) == Min(below(i))
           rises == {after[i] - lowest(i) : i \in 0..n}
<1>1. n \in Nat
  BY LenProperties
<1>2. \A i \in 0..n : after[i] = After(days, i) /\ after[i] \in Int
  BY AfterType DEF After
<1>3. MaxOverrun(days) = Max(rises)
  BY DEF MaxOverrun
<1> HIDE DEF n, after
<1>4. ASSUME NEW i \in 0..n
      PROVE  /\ lowest(i) \in Int /\ \E j \in 0..i : lowest(i) = after[j]
             /\ \A j \in 0..i : lowest(i) =< after[j]
  <2>1. 0..i \subseteq 0..n /\ 0..i # {} /\ IsFiniteSet(0..i)
    <3>1. i \in Int /\ 0 \in Int /\ 0..i \subseteq 0..n /\ 0 \in 0..i
      BY <1>1
    <3> QED BY <3>1, FS_Interval
  <2>2. IsFiniteSet(below(i))
    BY <2>1, FiniteImage
  <2>3. below(i) # {} /\ below(i) \subseteq Int /\ \A j \in 0..i : after[j] \in below(i)
    BY <1>2, <2>1
  <2>4. lowest(i) \in below(i) /\ \A x \in below(i) : lowest(i) =< x
    <3> HIDE DEF below
    <3> QED BY <2>2, <2>3, LeastOf
  <2> HIDE DEF lowest
  <2> QED BY <2>3, <2>4
<1> HIDE DEF lowest
<1>5. IsFiniteSet(rises)
  <2> DEFINE f == [i \in 0..n |-> after[i] - lowest(i)]
  <2>1. IsFiniteSet(0..n)
    BY <1>1, FS_Interval
  <2>2. IsFiniteSet({f[i] : i \in 0..n})
    <3> HIDE DEF f
    <3> QED BY <2>1, FiniteImage
  <2>3. rises = {f[i] : i \in 0..n}
    OBVIOUS
  <2> HIDE DEF rises, f
  <2> QED BY <2>2, <2>3
<1>6. rises # {} /\ rises \subseteq Int
  <2>1. \A i \in 0..n : after[i] - lowest(i) \in Int
    BY <1>2, <1>4
  <2>2. 0 \in 0..n
    BY <1>1
  <2> QED BY <2>1, <2>2
<1>7. Max(rises) \in rises /\ \A x \in rises : x =< Max(rises)
  <2> HIDE DEF rises
  <2> QED BY <1>5, <1>6, GreatestOf
<1>8. PICK m \in Int : m = Max(rises)
  BY <1>6, <1>7
<1>9. \E i \in 0..n : \E j \in 0..i : m = After(days, i) - After(days, j)
  <2>1. PICK i \in 0..n : m = after[i] - lowest(i)
    BY <1>7, <1>8
  <2>2. PICK j \in 0..i : lowest(i) = after[j]
    BY <1>4
  <2>3. j \in 0..n
    BY <1>1
  <2> QED BY <1>2, <2>1, <2>2, <2>3
<1>10. ASSUME NEW i \in 0..n, NEW j \in 0..i PROVE After(days, i) - After(days, j) =< m
  <2>1. after[i] - lowest(i) =< m
    BY <1>7, <1>8
  <2>2. lowest(i) =< after[j] /\ lowest(i) \in Int
    BY <1>4
  <2>3. j \in 0..n
    BY <1>1
  <2>4. after[i] \in Int /\ after[j] \in Int
    BY <1>2, <2>3
  <2>5. after[i] - after[j] =< m
    BY <1>8, <2>1, <2>2, <2>4
  <2> QED BY <1>2, <2>3, <2>5
<1> HIDE DEF rises
<1> QED BY <1>3, <1>8, <1>9, <1>10 DEF n

\* The rises of a sum are at most the rises of its parts together.
LEMMA OverrunAdds ==
  ASSUME NEW p \in Seq(Int), NEW q \in Seq(Int), NEW r \in Seq(Int),
         Len(p) = Len(q), Len(r) = Len(q), \A i \in 1..Len(q) : r[i] = p[i] + q[i]
  PROVE  MaxOverrun(r) =< MaxOverrun(p) + MaxOverrun(q)
<1>1. PICK n \in Nat : /\ n = Len(p) /\ n = Len(q) /\ n = Len(r)
                       /\ p \in [1..n -> Int] /\ q \in [1..n -> Int] /\ r \in [1..n -> Int]
  BY LenProperties
<1>2. ASSUME NEW i \in 0..n
      PROVE  /\ After(r, i) = After(p, i) + After(q, i)
             /\ After(p, i) \in Int /\ After(q, i) \in Int
  <2>1. i \in Int /\ 1 \in Int
    OBVIOUS
  <2>2. IsFiniteSet(1..i)
    BY <2>1, FS_Interval
  <2>3. \A k \in 1..i : p[k] \in Int /\ q[k] \in Int /\ r[k] = p[k] + q[k]
    BY <1>1
  <2>4. After(r, i) = After(p, i) + After(q, i)
    BY <2>2, <2>3, SumPlus DEF After
  <2> QED BY <1>1, <2>4, AfterType
<1>3. /\ MaxOverrun(p) \in Int /\ MaxOverrun(q) \in Int /\ MaxOverrun(r) \in Int
      /\ \A i \in 0..n : \A j \in 0..i : After(p, i) - After(p, j) =< MaxOverrun(p)
      /\ \A i \in 0..n : \A j \in 0..i : After(q, i) - After(q, j) =< MaxOverrun(q)
      /\ \E i \in 0..n : \E j \in 0..i : MaxOverrun(r) = After(r, i) - After(r, j)
  BY <1>1, OverrunIsGreatest
<1>4. PICK i \in 0..n : \E j \in 0..i : MaxOverrun(r) = After(r, i) - After(r, j)
  BY <1>3
<1>5. PICK j \in 0..i : MaxOverrun(r) = After(r, i) - After(r, j)
  BY <1>4
<1>6. j \in 0..n
  OBVIOUS
<1>7. /\ After(p, i) - After(p, j) =< MaxOverrun(p) /\ After(q, i) - After(q, j) =< MaxOverrun(q)
  BY <1>3
<1>8. PICK a \in Int, b \in Int, c \in Int, d \in Int :
        a = After(p, i) /\ b = After(p, j) /\ c = After(q, i) /\ d = After(q, j)
  BY <1>2, <1>6
<1>9. After(r, i) = a + c /\ After(r, j) = b + d
  BY <1>2, <1>6, <1>8
<1>10. MaxOverrun(r) = (a + c) - (b + d)
  BY <1>5, <1>9
<1>11. PICK x \in Int, y \in Int : x = MaxOverrun(p) /\ y = MaxOverrun(q)
  BY <1>3
<1>12. a - b =< x /\ c - d =< y
  BY <1>7, <1>8, <1>11
<1> QED BY <1>10, <1>11, <1>12

\* A backlog that does not change does not rise.
LEMMA OverrunOfNone ==
  ASSUME NEW p \in Seq(Int), \A i \in 1..Len(p) : p[i] = 0
  PROVE  MaxOverrun(p) = 0
<1>1. PICK n \in Nat : n = Len(p)
  BY LenProperties
<1>2. ASSUME NEW i \in 0..n PROVE After(p, i) = 0
  <2>1. i \in Int /\ 1 \in Int
    OBVIOUS
  <2>2. IsFiniteSet(1..i)
    BY <2>1, FS_Interval
  <2>3. \A k \in 1..i : p[k] = 0
    BY <1>1
  <2> QED BY <2>2, <2>3, SumZero DEF After
<1>3. \E i \in 0..n : \E j \in 0..i : MaxOverrun(p) = After(p, i) - After(p, j)
  BY <1>1, OverrunIsGreatest
<1>4. PICK i \in 0..n : \E j \in 0..i : MaxOverrun(p) = After(p, i) - After(p, j)
  BY <1>3
<1>5. PICK j \in 0..i : MaxOverrun(p) = After(p, i) - After(p, j)
  BY <1>4
<1>6. j \in 0..n
  OBVIOUS
<1> QED BY <1>2, <1>5, <1>6

\* Nor does one without a history.
LEMMA OverrunOfEmpty == MaxOverrun(<<>>) = 0
<1>1. <<>> \in Seq(Int) /\ \A i \in 1..Len(<<>>) : <<>>[i] = 0
  OBVIOUS
<1> QED BY <1>1, OverrunOfNone

\* Histories with the same days are the same.
LEMMA SameDays ==
  ASSUME NEW p \in Seq(Int), NEW q \in Seq(Int), Len(p) = Len(q),
         \A i \in 1..Len(p) : p[i] = q[i]
  PROVE  p = q
<1>1. PICK n \in Nat : n = Len(p) /\ p \in [1..n -> Int] /\ q \in [1..n -> Int]
  BY LenProperties
<1> QED BY <1>1

\* Two histories that both have days
LEMMA DaysAdd ==
  ASSUME NEW t, IsUnit(t), NEW u, IsUnit(u), Combinable(t, u),
         t.history # <<>>, u.history # <<>>
  PROVE  /\ Len(t.history) = Len(u.history) /\ Len(DaysOfBoth(t, u)) = Len(u.history)
         /\ DaysOfBoth(t, u) # <<>>
         /\ \A i \in 1..Len(u.history) : DaysOfBoth(t, u)[i] = t.history[i] + u.history[i]
<1>1. PICK p \in Seq(Int), q \in Seq(Int), n \in Nat :
        /\ p = t.history /\ q = u.history /\ n = Len(p) /\ Len(q) = n
        /\ DOMAIN p = 1..n /\ DOMAIN q = 1..n /\ p # <<>>
  <2>1. Len(t.history) = Len(u.history)
    BY DEF Combinable
  <2>2. t.history \in Seq(Int) /\ u.history \in Seq(Int)
    BY DEF IsUnit
  <2>3. Len(t.history) \in Nat /\ DOMAIN t.history = 1..Len(t.history)
        /\ DOMAIN u.history = 1..Len(u.history)
    BY <2>2
  <2> QED BY <2>1, <2>2, <2>3
<1>2. PICK r \in Seq(Int) : r = DaysOfBoth(t, u)
  BY DaysType
<1>3. r = [i \in 1..n |-> p[i] + q[i]]
  <2>1. DaysOfBoth(t, u) = [i \in DOMAIN t.history |-> t.history[i] + u.history[i]]
    BY DayCases
  <2> QED BY <1>1, <1>2, <2>1
<1>4. n # 0
  BY <1>1
<1>5. DOMAIN r = 1..n /\ DOMAIN r = 1..Len(r) /\ Len(r) \in Nat
  BY <1>3, LenProperties
<1>6. Len(r) = n
  BY <1>5
<1>7. r # <<>>
  BY <1>4, <1>6
<1> QED BY <1>1, <1>2, <1>3, <1>6, <1>7

\* Together two units exceed neither more than both do by themselves.
LEMMA OverrunOfBoth ==
  ASSUME NEW t, IsUnit(t), NEW u, IsUnit(u), Combinable(t, u)
  PROVE  MaxOverrun(DaysOfBoth(t, u)) =< MaxOverrun(t.history) + MaxOverrun(u.history)
<1>1. PICK p \in Seq(Int), q \in Seq(Int), r \in Seq(Int) :
        p = t.history /\ q = u.history /\ r = DaysOfBoth(t, u)
  BY DaysType DEF IsUnit
<1>2. MaxOverrun(p) \in Int /\ MaxOverrun(q) \in Int
  BY OverrunIsGreatest
<1>3. CASE p = <<>>
  <2>1. MaxOverrun(p) = 0
    BY <1>3, OverrunOfEmpty
  <2>2. r = q
    BY <1>1, <1>3, DayCases
  <2> QED BY <1>1, <1>2, <2>1, <2>2
<1>4. CASE p # <<>> /\ q = <<>>
  <2>1. MaxOverrun(q) = 0
    BY <1>4, OverrunOfEmpty
  <2>2. r = p
    BY <1>1, <1>4, DayCases
  <2> QED BY <1>1, <1>2, <2>1, <2>2
<1>5. CASE p # <<>> /\ q # <<>>
  <2>1. Len(p) = Len(q) /\ Len(r) = Len(q) /\ \A i \in 1..Len(q) : r[i] = p[i] + q[i]
    BY <1>1, <1>5, DaysAdd
  <2> QED BY <1>1, <2>1, OverrunAdds
<1> QED BY <1>3, <1>4, <1>5

\* Histories that are joined can be joined with one of them again.
LEMMA DaysMatch ==
  ASSUME NEW t, IsUnit(t), NEW u, IsUnit(u), Combinable(t, u)
  PROVE  \/ DaysOfBoth(t, u) = <<>> \/ u.history = <<>>
         \/ Len(DaysOfBoth(t, u)) = Len(u.history)
<1>1. CASE t.history = <<>>
  BY <1>1, DayCases
<1>2. CASE t.history # <<>> /\ u.history # <<>>
  BY <1>2, DaysAdd
<1> QED BY <1>1, <1>2

\* What is left once one of them is taken away has the overrun of the other.
LEMMA OverrunUndone ==
  ASSUME NEW t, IsUnit(t), NEW u, IsUnit(u), Combinable(t, u),
         NEW b, IsUnit(b), b.history = DaysOfBoth(t, u),
         NEW s, IsUnit(s), Combinable(b, s), Len(s.history) = Len(u.history),
         \A i \in 1..Len(u.history) : s.history[i] = u.history[i] * (-1)
  PROVE  MaxOverrun(DaysOfBoth(b, s)) = MaxOverrun(t.history)
<1>1. PICK p \in Seq(Int), q \in Seq(Int), r \in Seq(Int), z \in Seq(Int), back \in Seq(Int) :
        /\ p = t.history /\ q = u.history /\ r = b.history /\ z = s.history
        /\ back = DaysOfBoth(b, s)
  BY DaysType DEF IsUnit
<1>2. PICK n \in Nat : n = Len(q) /\ Len(z) = n /\ q \in [1..n -> Int] /\ z \in [1..n -> Int]
  BY <1>1, LenProperties
<1>3. \A i \in 1..n : z[i] = q[i] * (-1)
  BY <1>1, <1>2
<1>4. CASE q = <<>>
  <2>1. z = <<>>
    BY <1>2, <1>4
  <2>2. r = p
    <3>1. u.history = <<>> /\ b.history = DaysOfBoth(t, u)
      BY <1>1, <1>4
    <3>2. DaysOfBoth(t, u) = t.history
      <4>1. CASE t.history = <<>>
        BY <3>1, <4>1, DayCases
      <4>2. CASE t.history # <<>>
        BY <3>1, <4>2, DayCases
      <4> QED BY <4>1, <4>2
    <3> QED BY <1>1, <3>1, <3>2
  <2>3. back = r
    BY <1>1, <2>1, DayCases
  <2> QED BY <1>1, <2>2, <2>3
<1>5. CASE q # <<>> /\ p = <<>>
  <2>1. z # <<>>
    BY <1>2, <1>5
  <2>2. r = q
    BY <1>1, <1>5, DayCases
  <2>3. Len(back) = Len(z) /\ \A i \in 1..Len(z) : back[i] = r[i] + z[i]
    BY <1>1, <1>5, <2>1, <2>2, DaysAdd
  <2>4. \A i \in 1..Len(back) : back[i] = 0
    <3>1. \A x \in Int : x + x * (-1) = 0
      OBVIOUS
    <3> QED BY <1>2, <1>3, <2>2, <2>3, <3>1
  <2>5. MaxOverrun(back) = 0 /\ MaxOverrun(p) = 0
    BY <1>5, <2>4, OverrunOfNone, OverrunOfEmpty
  <2> QED BY <1>1, <2>5
<1>6. CASE q # <<>> /\ p # <<>>
  <2>1. z # <<>>
    BY <1>2, <1>6
  <2>2. /\ Len(p) = n /\ Len(r) = n /\ r # <<>>
        /\ \A i \in 1..n : r[i] = p[i] + q[i]
    BY <1>1, <1>2, <1>6, DaysAdd
  <2>3. Len(back) = n /\ \A i \in 1..n : back[i] = r[i] + z[i]
    BY <1>1, <1>2, <2>1, <2>2, DaysAdd, SMTT(30)
  <2>4. \A i \in 1..n : back[i] = p[i]
    <3>1. \A x, y \in Int : (x + y) + y * (-1) = x
      OBVIOUS
    <3>2. \A i \in 1..n : p[i] \in Int /\ q[i] \in Int
      BY <1>2, <2>2
    <3> QED BY <1>3, <2>2, <2>3, <3>1, <3>2
  <2>5. back = p
    BY <2>2, <2>3, <2>4, SameDays
  <2> QED BY <1>1, <2>5
<1> QED BY <1>4, <1>5, <1>6

-----------------------------------------------------------------------------
\* Utilization: a fold over what is registered, as a sum over one denominator

\* What is registered comes to, over a denominator that the metric's values have in
\* common, the sum of the numerators.
LEMMA AggregateIsSum ==
  ASSUME NEW c, IsFiniteSet(DOMAIN c), NEW metric, NEW D \in Nat \ {0}, NEW e,
         \A a \in DOMAIN c : /\ e[a] \in Int
                             /\ Times(metric[c[a].model], c[a].weight) \in Fraction
                             /\ Val(Times(metric[c[a].model], c[a].weight), e[a], D)
  PROVE  /\ Aggregate(c, metric) = Lowest(SumFunctionOnSet(e, DOMAIN c), D)
         /\ SumFunctionOnSet(e, DOMAIN c) \in Int
<1> DEFINE S == DOMAIN c
           Term(a) == Times(metric[c[a].model], c[a].weight)
           Adds(g) == g = [s \in SUBSET S |-> IF s = {} THEN Whole(0)
                                              ELSE Plus(g[s \ {Chosen(s)}], Term(Chosen(s)))]
           below(s) == Lowest(SumFunctionOnSet(e, s), D)
           sum == [s \in SUBSET S |-> below(s)]
<1>1. Aggregate(c, metric) = (CHOOSE g : Adds(g))[S]
  BY DEF Aggregate, FoldSet, MapThenFoldSet, Chosen
<1>2. \A a \in S : e[a] \in Int /\ Term(a) \in Fraction /\ Val(Term(a), e[a], D)
  OBVIOUS
<1> HIDE DEF Term
<1>3. ASSUME NEW s \in SUBSET S
      PROVE  IsFiniteSet(s) /\ SumFunctionOnSet(e, s) \in Int
  <2>1. IsFiniteSet(s) /\ \A a \in s : e[a] \in Int
    BY FS_Subset
  <2> QED BY <2>1, SumRemove
<1>4. ASSUME NEW s \in SUBSET S
      PROVE  below(s) = IF s = {} THEN Whole(0) ELSE Plus(below(s \ {Chosen(s)}), Term(Chosen(s)))
  <2>1. CASE s = {}
    <3>1. SumFunctionOnSet(e, s) = 0
      BY <2>1, SumEmpty
    <3>2. Lowest(0 * D, D) = Whole(0) /\ 0 * D = 0
      BY LowestOfWhole
    <3> QED BY <2>1, <3>1, <3>2
  <2>2. CASE s # {}
    <3>1. PICK a \in s : a = Chosen(s)
      BY <2>2 DEF Chosen
    <3>2. PICK r \in SUBSET S : r = s \ {a}
      OBVIOUS
    <3>3. PICK x \in Int, y \in Int, z \in Int :
            x = SumFunctionOnSet(e, s) /\ y = SumFunctionOnSet(e, r) /\ z = e[a]
      BY <1>2, <1>3
    <3>4. x = y + z
      <4>1. IsFiniteSet(s) /\ \A b \in s : e[b] \in Int
        BY <1>3
      <4>2. SumFunctionOnSet(e, s) = e[a] + SumFunctionOnSet(e, s \ {a})
        BY <4>1, SumRemove
      <4> QED BY <3>2, <3>3, <4>2
    <3>5. /\ Lowest(x, D) \in Reduced /\ Lowest(x, D) \in Fraction /\ Val(Lowest(x, D), x, D)
          /\ Lowest(y, D) \in Fraction /\ Val(Lowest(y, D), y, D)
      BY LowestVal, LowestIsReduced
    <3>6. PICK t \in Fraction : t = Term(a) /\ Val(t, z, D)
      BY <1>2, <3>3
    <3>7. PICK p : p = Lowest(y, D)
      OBVIOUS
    <3>8. p \in Fraction /\ Val(p, y, D)
      BY <3>5, <3>7
    <3>9. Plus(p, t) \in Reduced /\ Val(Plus(p, t), y + z, D)
      BY <3>6, <3>8, PlusVal, PlusIsReduced
    <3>10. y + z \in Int
      OBVIOUS
    <3>11. Lowest(x, D) = Plus(p, t)
      BY <3>4, <3>5, <3>9, <3>10, EqualSums
    <3> QED BY <2>2, <3>1, <3>2, <3>3, <3>6, <3>7, <3>11
  <2> QED BY <2>1, <2>2
<1> HIDE DEF below
<1>5. Adds(sum)
  <2>1. \A s \in SUBSET S : s # {} => s \ {Chosen(s)} \in SUBSET S
    OBVIOUS
  <2>2. [s \in SUBSET S |-> IF s = {} THEN Whole(0)
                            ELSE Plus(sum[s \ {Chosen(s)}], Term(Chosen(s)))]
          = [s \in SUBSET S |-> IF s = {} THEN Whole(0)
                                ELSE Plus(below(s \ {Chosen(s)}), Term(Chosen(s)))]
    BY <2>1
  <2> QED BY <1>4, <2>2
<1>6. ASSUME NEW g, Adds(g) PROVE g[S] = sum[S]
  <2> DEFINE C == {s \in SUBSET S : g[s] = sum[s]}
  <2>1. ASSUME NEW T \in SUBSET S, \A U \in SUBSET T : U # T => U \in C
        PROVE  T \in C
    <3>1. CASE T = {}
      BY <1>5, <1>6, <3>1
    <3>2. CASE T # {}
      <4>1. Chosen(T) \in T
        BY <3>2 DEF Chosen
      <4>2. T \ {Chosen(T)} \in C
        <5> HIDE DEF C
        <5>1. T \ {Chosen(T)} \in SUBSET T /\ T \ {Chosen(T)} # T
          BY <4>1
        <5> QED BY <2>1, <5>1
      <4>3. g[T \ {Chosen(T)}] = sum[T \ {Chosen(T)}]
        BY <4>2
      <4>4. /\ g[T] = Plus(g[T \ {Chosen(T)}], Term(Chosen(T)))
            /\ sum[T] = Plus(sum[T \ {Chosen(T)}], Term(Chosen(T)))
        <5> HIDE DEF sum
        <5> QED BY <1>5, <1>6, <3>2
      <4> QED BY <4>3, <4>4
    <3> QED BY <3>1, <3>2
  <2> HIDE DEF C
  <2>2. S \in C
    BY <2>1, SubsetInduction, SMTT(30)
  <2> QED BY <2>2 DEF C
<1>7. (CHOOSE g : Adds(g))[S] = sum[S]
  <2> HIDE DEF Adds, sum
  <2> QED BY <1>5, <1>6
<1>8. sum[S] = below(S) /\ S \in SUBSET S
  OBVIOUS
<1> QED BY <1>1, <1>3, <1>7, <1>8 DEF below

\* A metric has a numerator for each registered model over one denominator.
LEMMA NumeratorsExist ==
  ASSUME NEW c, Registry(c), NEW metric \in [Models -> Fraction]
  PROVE  \E D \in Nat \ {0}, num \in [DOMAIN c -> Int] :
           \A a \in DOMAIN c : Val(metric[c[a].model], num[a], D)
<1> DEFINE f == [a \in DOMAIN c |-> metric[c[a].model]]
           S == {f[a] : a \in DOMAIN c}
<1>1. \A a \in DOMAIN c : f[a] \in Fraction /\ f[a] = metric[c[a].model]
  BY DEF Registry, Entry
<1>2. IsFiniteSet(S)
  <2>1. IsFiniteSet(DOMAIN c)
    BY DEF Registry
  <2> HIDE DEF f
  <2> QED BY <2>1, FiniteImage
<1>3. S \subseteq Fraction /\ \A a \in DOMAIN c : f[a] \in S
  BY <1>1
<1> HIDE DEF f, S
<1>4. PICK D \in Nat \ {0} : \A p \in S : \E x \in Int : Val(p, x, D)
  BY <1>2, <1>3, OneDenominator
<1> DEFINE num == [a \in DOMAIN c |-> CHOOSE x \in Int : Val(f[a], x, D)]
<1>5. \A a \in DOMAIN c : num[a] \in Int /\ Val(f[a], num[a], D)
  BY <1>3, <1>4
<1>6. num \in [DOMAIN c -> Int]
  BY <1>5
<1>7. \A a \in DOMAIN c : Val(metric[c[a].model], num[a], D)
  BY <1>1, <1>5
<1> HIDE DEF num
<1> QED BY <1>6, <1>7

\* One of the terms, whose weight may be negative
LEMMA TermIsWorth ==
  ASSUME NEW c, Registry(c), NEW metric \in [Models -> Fraction], NEW a \in DOMAIN c,
         NEW x \in Int, NEW D \in Nat \ {0}, Val(metric[c[a].model], x, D)
  PROVE  /\ c[a].weight \in Int /\ x * c[a].weight \in Int
         /\ Times(metric[c[a].model], c[a].weight) \in Fraction
         /\ Val(Times(metric[c[a].model], c[a].weight), x * c[a].weight, D)
<1>1. c[a].weight \in Int /\ c[a].model \in Models
  BY DEF Registry, Entry
<1>2. PICK p \in Fraction, k \in Int : p = metric[c[a].model] /\ k = c[a].weight
  BY <1>1
<1>3. Times(p, k) \in Fraction /\ Val(Times(p, k), x * k, D) /\ x * k \in Int
  BY <1>2, TimesVal
<1> QED BY <1>2, <1>3

\* A metric of two units is the sum of theirs, whichever of their models they share.
LEMMA AggregatesAdd ==
  ASSUME NEW t, IsUnit(t), NEW u, IsUnit(u), Combinable(t, u),
         NEW metric \in [Models -> Fraction]
  PROVE  /\ Aggregate(t.capacity, metric) \in Reduced
         /\ Aggregate(CapacityOfBoth(t, u), metric)
              = Plus(Aggregate(t.capacity, metric), Aggregate(u.capacity, metric))
<1> DEFINE c == t.capacity
           d == u.capacity
           b == CapacityOfBoth(t, u)
           A == DOMAIN c
           B == DOMAIN d
           S == DOMAIN b
<1>1. Registry(c) /\ Registry(d) /\ Registry(b) /\ S = A \cup B
  BY CapacityType DEF IsUnit
<1>2. /\ \A a \in A \ B : b[a] = c[a]
      /\ \A a \in B \ A : b[a] = d[a]
      /\ \A a \in A \cap B : /\ b[a].model = c[a].model /\ b[a].model = d[a].model
                             /\ b[a].weight = c[a].weight + d[a].weight
  <2>1. \A a \in A \cap B : c[a].model = d[a].model
    BY DEF Combinable, SameModel
  <2>2. \A a \in A \ B : b[a] = c[a]
    BY CapacityType
  <2>3. \A a \in B \ A : b[a] = d[a]
    BY CapacityType
  <2>4. \A a \in A : a \in B => b[a].model = c[a].model
    BY CapacityType
  <2>5. \A a \in A : a \in B => \E x, y \in Int : /\ x = c[a].weight /\ y = d[a].weight
                                                 /\ b[a].weight = x + y
    <3>1. ASSUME NEW a \in A, a \in B
          PROVE  \E x, y \in Int : /\ x = c[a].weight /\ y = d[a].weight
                                  /\ b[a].weight = x + y
      <4>1. PICK x \in Int, y \in Int : x = c[a].weight /\ y = d[a].weight
        BY <1>1, <3>1 DEF Registry, Entry
      <4>2. b[a].weight = x + y
        BY <3>1, <4>1, JoinedWeight
      <4> QED BY <4>1, <4>2
    <3> QED BY <3>1
  <2> HIDE DEF b, c, d, A, B
  <2> QED BY <2>1, <2>2, <2>3, <2>4, <2>5
<1> HIDE DEF b, c, d
<1>3. PICK D \in Nat \ {0}, num \in [S -> Int] : \A a \in S : Val(metric[b[a].model], num[a], D)
  BY <1>1, NumeratorsExist
<1> DEFINE e == [a \in S |-> num[a] * b[a].weight]
           f == [a \in A |-> num[a] * c[a].weight]
           h == [a \in B |-> num[a] * d[a].weight]
           fs == [a \in S |-> IF a \in A THEN num[a] * c[a].weight ELSE 0]
           hs == [a \in S |-> IF a \in B THEN num[a] * d[a].weight ELSE 0]
<1>4. ASSUME NEW a \in S
      PROVE  /\ e[a] \in Int
             /\ Times(metric[b[a].model], b[a].weight) \in Fraction
             /\ Val(Times(metric[b[a].model], b[a].weight), e[a], D)
  BY <1>1, <1>3, TermIsWorth
<1>5. ASSUME NEW a \in A
      PROVE  /\ f[a] \in Int
             /\ Times(metric[c[a].model], c[a].weight) \in Fraction
             /\ Val(Times(metric[c[a].model], c[a].weight), f[a], D)
  <2>1. c[a].model = b[a].model /\ a \in S
    BY <1>1, <1>2
  <2>2. num[a] \in Int /\ Val(metric[c[a].model], num[a], D)
    BY <1>3, <2>1
  <2> QED BY <1>1, <2>2, TermIsWorth
<1>6. ASSUME NEW a \in B
      PROVE  /\ h[a] \in Int
             /\ Times(metric[d[a].model], d[a].weight) \in Fraction
             /\ Val(Times(metric[d[a].model], d[a].weight), h[a], D)
  <2>1. d[a].model = b[a].model /\ a \in S
    BY <1>1, <1>2
  <2>2. num[a] \in Int /\ Val(metric[d[a].model], num[a], D)
    BY <1>3, <2>1
  <2> QED BY <1>1, <2>2, TermIsWorth
<1>7. ASSUME NEW a \in S
      PROVE  fs[a] \in Int /\ hs[a] \in Int /\ e[a] = fs[a] + hs[a]
  <2>1. /\ a \in A => f[a] \in Int /\ fs[a] = f[a] /\ f[a] = num[a] * c[a].weight
        /\ a \notin A => fs[a] = 0
        /\ a \in B => h[a] \in Int /\ hs[a] = h[a] /\ h[a] = num[a] * d[a].weight
        /\ a \notin B => hs[a] = 0
    BY <1>5, <1>6
  <2>2. e[a] \in Int /\ e[a] = num[a] * b[a].weight /\ num[a] \in Int
    BY <1>4
  <2>3. (a \in A => c[a].weight \in Int) /\ (a \in B => d[a].weight \in Int)
    BY <1>1 DEF Registry, Entry
  <2> HIDE DEF e, f, h, fs, hs
  <2>4. CASE a \in A /\ a \in B
    <3>1. PICK n \in Int, x \in Int, y \in Int : n = num[a] /\ x = c[a].weight /\ y = d[a].weight
      BY <2>2, <2>3, <2>4
    <3>2. b[a].weight = x + y
      BY <1>2, <2>4, <3>1
    <3>3. n * (x + y) = n * x + n * y
      BY SMTT(30)
    <3> QED BY <2>1, <2>2, <2>4, <3>1, <3>2, <3>3
  <2>5. CASE a \in A /\ a \notin B
    BY <1>2, <2>1, <2>2, <2>5
  <2>6. CASE a \notin A /\ a \in B
    BY <1>2, <2>1, <2>2, <2>6
  <2> QED BY <1>1, <2>4, <2>5, <2>6
<1>8. /\ \A a \in A : f[a] \in Int /\ fs[a] = f[a]
      /\ \A a \in S \ A : fs[a] = 0
      /\ \A a \in B : h[a] \in Int /\ hs[a] = h[a]
      /\ \A a \in S \ B : hs[a] = 0
  BY <1>1, <1>5, <1>6
<1> HIDE DEF e, f, h, fs, hs
<1>9. IsFiniteSet(A) /\ IsFiniteSet(B) /\ IsFiniteSet(S)
  BY <1>1 DEF Registry
<1>10. /\ Aggregate(b, metric) = Lowest(SumFunctionOnSet(e, S), D)
       /\ SumFunctionOnSet(e, S) \in Int
  BY <1>4, <1>9, AggregateIsSum
<1>11. /\ Aggregate(c, metric) = Lowest(SumFunctionOnSet(f, A), D)
       /\ SumFunctionOnSet(f, A) \in Int
  BY <1>5, <1>9, AggregateIsSum
<1>12. /\ Aggregate(d, metric) = Lowest(SumFunctionOnSet(h, B), D)
       /\ SumFunctionOnSet(h, B) \in Int
  BY <1>6, <1>9, AggregateIsSum
<1>13. SumFunctionOnSet(e, S) = SumFunctionOnSet(f, A) + SumFunctionOnSet(h, B)
  <2>1. SumFunctionOnSet(e, S) = SumFunctionOnSet(fs, S) + SumFunctionOnSet(hs, S)
    BY <1>7, <1>9, SumPlus
  <2>2. A \in SUBSET S /\ B \in SUBSET S
    BY <1>1
  <2>3. SumFunctionOnSet(fs, S) = SumFunctionOnSet(f, A)
    BY <1>8, <1>9, <2>2, SumExtended
  <2>4. SumFunctionOnSet(hs, S) = SumFunctionOnSet(h, B)
    BY <1>8, <1>9, <2>2, SumExtended
  <2> QED BY <2>1, <2>3, <2>4
<1>14. PICK x \in Int, y \in Int, z \in Int :
         x = SumFunctionOnSet(f, A) /\ y = SumFunctionOnSet(h, B) /\ z = SumFunctionOnSet(e, S)
  BY <1>10, <1>11, <1>12
<1>15. PICK p, q, r : p = Lowest(x, D) /\ q = Lowest(y, D) /\ r = Lowest(z, D)
  OBVIOUS
<1>16. /\ p \in Fraction /\ Val(p, x, D) /\ q \in Fraction /\ Val(q, y, D)
       /\ Val(r, z, D) /\ p \in Reduced /\ r \in Reduced
  BY <1>15, LowestVal, LowestIsReduced
<1>17. Plus(p, q) \in Reduced /\ Val(Plus(p, q), x + y, D)
  BY <1>16, PlusVal, PlusIsReduced
<1>18. z = x + y /\ x + y \in Int
  BY <1>13, <1>14
<1>19. r = Plus(p, q)
  BY <1>16, <1>17, <1>18, EqualSums
<1> QED BY <1>10, <1>11, <1>12, <1>14, <1>15, <1>16, <1>19 DEF b, c, d

\* A multiple is in lowest terms.
LEMMA TimesReduced ==
  ASSUME NEW p \in Fraction, NEW k \in Int
  PROVE  Times(p, k) \in Reduced /\ Times(p, k) \in Fraction
<1>1. PICK c \in Int, d \in Nat \ {0} : c = p.n /\ d = p.d
  BY FractionFields
<1>2. PICK e \in Int : e = c * k
  OBVIOUS
<1>3. Lowest(e, d) \in Reduced /\ Lowest(e, d) \in Fraction
  BY LowestIsReduced DEF Reduced
<1> QED BY <1>1, <1>2, <1>3 DEF Times

\* A term that is added and taken away again
LEMMA TakenAway ==
  ASSUME NEW c \in Reduced, NEW p \in Fraction
  PROVE  Plus(Plus(c, p), Times(p, -1)) = c
<1>0. c \in Fraction
  BY DEF Reduced
<1>1. PICK D \in Nat \ {0}, a \in Int, e \in Int : Val(p, a, D) /\ Val(c, e, D)
  <2>1. OneDenominatorFor(p, p, p, p, c)
    BY <1>0, FewFractions
  <2> QED BY <2>1 DEF OneDenominatorFor
<1>2. PICK k \in Int, na \in Int, ea \in Int : k = -1 /\ na = a * k /\ ea = e + a
  OBVIOUS
<1>3. Times(p, k) \in Fraction /\ Val(Times(p, k), na, D)
  <2>1. Times(p, k) \in Fraction /\ Val(Times(p, k), a * k, D)
    BY <1>1, TimesVal
  <2> QED BY <1>2, <2>1
<1>4. Plus(c, p) \in Fraction /\ Val(Plus(c, p), ea, D)
  BY <1>0, <1>1, <1>2, PlusVal
<1>5. PICK all : all = Plus(Plus(c, p), Times(p, k))
  OBVIOUS
<1>6. Val(all, ea + na, D) /\ all \in Reduced
  BY <1>3, <1>4, <1>5, PlusVal, PlusIsReduced
<1>7. ea + na = e /\ ea + na \in Int
  BY <1>2
<1>8. all = c
  BY <1>1, <1>6, <1>7, EqualSums
<1> QED BY <1>2, <1>5, <1>8

\* With the weights turned a metric changes its sign.
LEMMA AggregateScaled ==
  ASSUME NEW u, IsUnit(u), NEW metric \in [Models -> Fraction]
  PROVE  Aggregate(Scaled(u, -1).capacity, metric) = Times(Aggregate(u.capacity, metric), -1)
<1>0. PICK k \in Int : k = -1
  OBVIOUS
<1>1. PICK c, d : c = u.capacity /\ d = Scaled(u, -1).capacity
  OBVIOUS
<1>2. /\ Registry(c) /\ Registry(d) /\ DOMAIN d = DOMAIN c
      /\ \A a \in DOMAIN c : d[a].model = c[a].model /\ d[a].weight = c[a].weight * k
  BY <1>0, <1>1, ScaledIsUnit DEF IsUnit
<1>3. PICK D \in Nat \ {0}, num \in [DOMAIN c -> Int] :
        \A a \in DOMAIN c : Val(metric[c[a].model], num[a], D)
  BY <1>2, NumeratorsExist
<1>4. PICK S : S = DOMAIN c /\ IsFiniteSet(S)
  BY <1>2 DEF Registry
<1> DEFINE f == [a \in S |-> num[a] * c[a].weight]
           h == [a \in S |-> num[a] * d[a].weight]
           z == [a \in S |-> 0]
<1>5. ASSUME NEW a \in S
      PROVE  /\ f[a] \in Int
             /\ Times(metric[c[a].model], c[a].weight) \in Fraction
             /\ Val(Times(metric[c[a].model], c[a].weight), f[a], D)
  BY <1>2, <1>3, <1>4, TermIsWorth
<1>6. ASSUME NEW a \in S
      PROVE  /\ h[a] \in Int
             /\ Times(metric[d[a].model], d[a].weight) \in Fraction
             /\ Val(Times(metric[d[a].model], d[a].weight), h[a], D)
  <2>1. num[a] \in Int /\ Val(metric[d[a].model], num[a], D) /\ a \in DOMAIN d
    BY <1>2, <1>3, <1>4
  <2> QED BY <1>2, <2>1, TermIsWorth
<1>7. ASSUME NEW a \in S PROVE h[a] = k * f[a] - z[a]
  <2>1. PICK x \in Int, y \in Int : x = num[a] /\ y = c[a].weight
    BY <1>2, <1>4 DEF Registry, Entry
  <2>2. x * (y * k) = k * (x * y) - 0
    BY <1>2, SMTT(30)
  <2>3. d[a].weight = y * k
    BY <1>2, <1>4, <2>1
  <2>4. h[a] = x * (y * k) /\ f[a] = x * y /\ z[a] = 0
    BY <2>1, <2>3
  <2> QED BY <2>2, <2>4
<1>8. \A a \in S : z[a] = 0 /\ z[a] \in Int
  OBVIOUS
<1> HIDE DEF f, h, z
<1>9. /\ Aggregate(c, metric) = Lowest(SumFunctionOnSet(f, S), D)
      /\ SumFunctionOnSet(f, S) \in Int
  BY <1>4, <1>5, AggregateIsSum
<1>10. /\ Aggregate(d, metric) = Lowest(SumFunctionOnSet(h, S), D)
       /\ SumFunctionOnSet(h, S) \in Int
  <2>1. /\ DOMAIN d = S /\ IsFiniteSet(DOMAIN d)
        /\ \A a \in DOMAIN d : /\ h[a] \in Int
                               /\ Times(metric[d[a].model], d[a].weight) \in Fraction
                               /\ Val(Times(metric[d[a].model], d[a].weight), h[a], D)
    BY <1>2, <1>4, <1>6
  <2>2. /\ Aggregate(d, metric) = Lowest(SumFunctionOnSet(h, DOMAIN d), D)
        /\ SumFunctionOnSet(h, DOMAIN d) \in Int
    BY <2>1, AggregateIsSum
  <2> QED BY <2>1, <2>2
<1>11. PICK x \in Int, y \in Int :
         x = SumFunctionOnSet(f, S) /\ y = SumFunctionOnSet(h, S) /\ y = x * k
  <2>1. SumFunctionOnSet(h, S) = k * SumFunctionOnSet(f, S) - SumFunctionOnSet(z, S)
    BY <1>2, <1>4, <1>5, <1>7, <1>8, SumLinear
  <2>2. SumFunctionOnSet(z, S) = 0
    BY <1>4, <1>8, SumZero
  <2>3. PICK x \in Int : x = SumFunctionOnSet(f, S)
    BY <1>9
  <2>4. k * x - 0 = x * k
    BY <1>2
  <2> QED BY <1>10, <2>1, <2>2, <2>3, <2>4
<1>12. PICK p, q : p = Lowest(x, D) /\ q = Lowest(y, D)
  OBVIOUS
<1>13. p \in Fraction /\ Val(p, x, D) /\ q \in Reduced /\ Val(q, y, D)
  BY <1>12, LowestVal, LowestIsReduced
<1>14. Times(p, k) \in Reduced /\ Val(Times(p, k), x * k, D) /\ x * k \in Int
  <2>1. Times(p, k) \in Reduced
    BY <1>13, TimesReduced
  <2>2. Val(Times(p, k), x * k, D)
    BY <1>13, TimesVal
  <2> QED BY <2>1, <2>2
<1>15. q = Times(p, k)
  BY <1>11, <1>13, <1>14, EqualSums
<1> QED BY <1>0, <1>1, <1>9, <1>10, <1>11, <1>12, <1>15

\* What the capacity models say of themselves (analytics/capacity.py)
LEMMA MetricsType ==
  CompletionDays \in [Models -> Fraction] /\ CostEstimate \in [Models -> Fraction]
<1>1. ASSUME NEW m \in Models
      PROVE  Lowest(m.backlog, m.daily) \in Fraction /\ Whole(m.backlog * m.rate) \in Fraction
  <2>1. PICK b \in Int, d \in Nat \ {0}, r \in Int : b = m.backlog /\ d = m.daily /\ r = m.rate
    BY UnitAssumption
  <2>2. Lowest(b, d) \in Fraction
    BY LowestForm
  <2>3. b * r \in Int
    OBVIOUS
  <2>4. PICK s \in Int : s = b * r
    BY <2>3
  <2>5. Whole(s) \in Fraction
    BY DEF Whole, Fraction
  <2> QED BY <2>1, <2>2, <2>4, <2>5
<1> QED BY <1>1 DEF CompletionDays, CostEstimate

\* A utilization has two metrics.
LEMMA MetricsAreSums ==
  ASSUME NEW x, NEW y, NEW p, NEW q
  PROVE  SumOf([completion_days |-> x, cost_estimate |-> y],
               [completion_days |-> p, cost_estimate |-> q])
           = [completion_days |-> Plus(x, p), cost_estimate |-> Plus(y, q)]
BY DEF SumOf

\* Utilizations add up.
LEMMA UtilizationsAdd ==
  ASSUME NEW t, IsUnit(t), NEW u, IsUnit(u), Combinable(t, u), NEW l \in BOOLEAN
  PROVE  Utilization(Combined(t, u, l)) = SumOf(Utilization(t), Utilization(u))
<1>1. Combined(t, u, l).capacity = CapacityOfBoth(t, u)
  BY DEF Combined
<1>2. \A metric \in [Models -> Fraction] :
        Aggregate(CapacityOfBoth(t, u), metric)
          = Plus(Aggregate(t.capacity, metric), Aggregate(u.capacity, metric))
  BY AggregatesAdd
<1> QED BY <1>1, <1>2, MetricsType, MetricsAreSums DEF Utilization

\* What was added and taken away again is not in it.
LEMMA UtilizationUndone ==
  ASSUME NEW t, IsUnit(t), NEW u, IsUnit(u), Combinable(t, u), NEW b, IsUnit(b),
         b.capacity = CapacityOfBoth(t, u), NEW s, IsUnit(s), s = Scaled(u, -1),
         Combinable(b, s), NEW l \in BOOLEAN
  PROVE  Utilization(Combined(b, s, l)) = Utilization(t)
<1>1. Combined(b, s, l).capacity = CapacityOfBoth(b, s)
  BY DEF Combined
<1>2. ASSUME NEW metric \in [Models -> Fraction]
      PROVE  Aggregate(CapacityOfBoth(b, s), metric) = Aggregate(t.capacity, metric)
  <2>1. PICK x, y : x = Aggregate(t.capacity, metric) /\ y = Aggregate(u.capacity, metric)
    OBVIOUS
  <2>2. x \in Reduced /\ Aggregate(b.capacity, metric) = Plus(x, y)
    BY <2>1, AggregatesAdd
  <2>3. y \in Fraction
    <3>1. Combinable(u, u)
      BY DEF Combinable, SameModel
    <3>2. y \in Reduced
      BY <2>1, <3>1, AggregatesAdd
    <3> QED BY <3>2 DEF Reduced
  <2>4. Aggregate(s.capacity, metric) = Times(y, -1)
    BY <2>1, AggregateScaled
  <2>5. Aggregate(CapacityOfBoth(b, s), metric)
          = Plus(Aggregate(b.capacity, metric), Aggregate(s.capacity, metric))
    BY AggregatesAdd
  <2>6. Plus(Plus(x, y), Times(y, -1)) = x
    BY <2>2, <2>3, TakenAway
  <2> QED BY <2>1, <2>2, <2>4, <2>5, <2>6
<1> QED BY <1>1, <1>2, MetricsType DEF Utilization

-----------------------------------------------------------------------------
\* The average of a combination

\* One is at most the other if its numerator is, over a common denominator.
LEMMA AtMostVal ==
  ASSUME NEW p \in Fraction, NEW q \in Fraction, NEW x \in Int, NEW z \in Int, NEW D \in Nat \ {0},
         Val(p, x, D), Val(q, z, D), x =< z
  PROVE  AtMost(p, q)
<1>1. PICK a \in Int, b \in Nat \ {0} : a = p.n /\ b = p.d
  BY FractionFields
<1>2. PICK c \in Int, d \in Nat \ {0} : c = q.n /\ d = q.d
  BY FractionFields
<1>3. a * D = x * b /\ c * D = z * d
  BY <1>1, <1>2 DEF Val
<1>4. a * d =< c * b
  <2> SUFFICES ASSUME a * d > c * b PROVE FALSE
    OBVIOUS
  <2>1. PICK u \in Int, v \in Int : u = a * d /\ v = c * b
    OBVIOUS
  <2>2. u * D > v * D
    BY <2>1, SMTT(30)
  <2>3. u * D = x * (b * d) /\ v * D = z * (b * d)
    <3>1. (a * D) * d = (x * b) * d /\ (c * D) * b = (z * d) * b
      BY <1>3
    <3>2. /\ (a * D) * d = (a * d) * D /\ (x * b) * d = x * (b * d)
          /\ (c * D) * b = (c * b) * D /\ (z * d) * b = z * (b * d)
      BY SMTT(30)
    <3> QED BY <2>1, <3>1, <3>2
  <2>4. PICK m \in Nat \ {0} : m = b * d
    BY NotZero
  <2>5. x * m =< z * m
    BY SMTT(30)
  <2>6. u * D = x * m /\ v * D = z * m /\ u * D \in Int /\ v * D \in Int
    BY <2>3, <2>4
  <2> QED BY <2>2, <2>5, <2>6
<1> QED BY <1>1, <1>2, <1>4 DEF AtMost

\* A weighted mean lies between.
LEMMA MeanBetween ==
  ASSUME NEW x \in Int, NEW z \in Int, NEW a \in Nat, NEW b \in Nat, x =< z
  PROVE  x * (a + b) =< x * a + z * b /\ x * a + z * b =< z * (a + b)
<1>1. PICK d \in Nat : z = x + d
  <2>1. z - x \in Nat /\ z = x + (z - x)
    OBVIOUS
  <2> QED BY <2>1
<1>2. /\ x * a + z * b = x * (a + b) + d * b
      /\ z * (a + b) = (x * a + z * b) + d * a
  BY <1>1, SMTT(30)
<1>3. d * a \in Nat /\ d * b \in Nat
  BY SMTT(30)
<1>4. PICK m \in Int, n \in Int, i \in Nat, j \in Nat :
        m = x * (a + b) /\ n = x * a + z * b /\ i = d * b /\ j = d * a
  BY <1>3
<1> QED BY <1>2, <1>4

\* Which side the hours are on
LEMMA SameSigns ==
  ASSUME NEW m \in Int, NEW k \in Int, m + k # 0
  PROVE  /\ m * k < 0 /\ Magnitude(m) > Magnitude(k) => m * (m + k) > 0
         /\ m * k < 0 /\ ~(Magnitude(m) > Magnitude(k)) => k * (m + k) > 0
         /\ ~(m * k < 0) /\ m # 0 => m * (m + k) > 0
         /\ ~(m * k < 0) /\ k # 0 => k * (m + k) > 0
<1>1. \A x, y \in Int : (x > 0 /\ y > 0 => x * y > 0) /\ (x < 0 /\ y < 0 => x * y > 0)
                        /\ (x > 0 /\ y < 0 => x * y < 0) /\ (x < 0 /\ y > 0 => x * y < 0)
                        /\ (x = 0 \/ y = 0 => x * y = 0)
  BY SMTT(30)
<1>2. PICK j \in Int, p \in Int, q \in Int, r \in Int :
        j = m + k /\ p = m * k /\ q = m * j /\ r = k * j
  OBVIOUS
<1>3. /\ (m > 0 /\ k > 0 => p > 0) /\ (m < 0 /\ k < 0 => p > 0)
      /\ (m > 0 /\ k < 0 => p < 0) /\ (m < 0 /\ k > 0 => p < 0)
      /\ (m > 0 /\ j > 0 => q > 0) /\ (m < 0 /\ j < 0 => q > 0)
      /\ (k > 0 /\ j > 0 => r > 0) /\ (k < 0 /\ j < 0 => r > 0)
      /\ (m = 0 \/ k = 0 => p = 0)
  BY <1>1, <1>2
<1>4. /\ p < 0 /\ Magnitude(m) > Magnitude(k) => q > 0
      /\ p < 0 /\ ~(Magnitude(m) > Magnitude(k)) => r > 0
      /\ ~(p < 0) /\ m # 0 => q > 0
      /\ ~(p < 0) /\ k # 0 => r > 0
  BY <1>2, <1>3 DEF Magnitude
<1> QED BY <1>2, <1>4

\* A rate is at most itself.
LEMMA AtMostItself ==
  ASSUME NEW p \in Fraction
  PROVE  AtMost(p, p)
<1>1. PICK a \in Int, b \in Nat \ {0} : a = p.n /\ b = p.d
  BY FractionFields
<1>2. a * b =< a * b
  OBVIOUS
<1> QED BY <1>1, <1>2 DEF AtMost

\* The average of a combination lies between those of the units whose hours it still has.
LEMMA AverageIsBetween ==
  ASSUME NEW t, IsUnit(t), NEW u, IsUnit(u), NEW l \in BOOLEAN
  PROVE  AverageBetween(t, u, Combined(t, u, l))
<1>1. PICK v, w, j : v = t.workload /\ w = u.workload /\ j = Aggregated(v, w, l)
  OBVIOUS
<1>2. v \in WorkloadRecord /\ w \in WorkloadRecord
  BY <1>1 DEF IsUnit
<1>3. PICK m \in Int, k \in Int : m = v.net /\ k = w.net
  BY <1>2, WorkloadFields
<1>4. Combined(t, u, l).workload = j /\ j.net = m + k
  <2>1. Combined(t, u, l).workload = j
    BY <1>1 DEF Combined
  <2>2. Aggregated(v, w, l).net = v.net + w.net
    BY <1>2, AggregatedType
  <2>3. j.net = v.net + w.net
    BY <1>1, <2>2
  <2> QED BY <1>3, <2>1, <2>3
<1>5. v.average \in Fraction /\ w.average \in Fraction
  BY <1>2, WorkloadFields
<1> DEFINE side == {x \in {v, w} : x.net * j.net > 0}
<1>6. CASE m + k = 0
  <2>1. j.average = Whole(0)
    BY <1>1, <1>3, <1>6, JoinCases
  <2> QED BY <1>4, <1>6, <2>1 DEF AverageBetween
<1>7. ASSUME m + k # 0,
             \E x \in side : AtMost(x.average, j.average),
             \E x \in side : AtMost(j.average, x.average)
      PROVE  AverageBetween(t, u, Combined(t, u, l))
  BY <1>1, <1>4, <1>7 DEF AverageBetween
<1>8. CASE m + k # 0 /\ m * k < 0
  <2>1. j.average = Surviving(v, w).average
    BY <1>1, <1>3, <1>8, JoinCases DEF Opposed
  <2>2. Surviving(v, w) \in side
    <3>1. CASE Magnitude(m) > Magnitude(k)
      <4>1. m * (m + k) > 0
        BY <1>8, <3>1, SameSigns
      <4> QED BY <1>3, <1>4, <3>1, <4>1 DEF Surviving
    <3>2. CASE ~(Magnitude(m) > Magnitude(k))
      <4>1. k * (m + k) > 0
        BY <1>8, <3>2, SameSigns
      <4> QED BY <1>3, <1>4, <3>2, <4>1 DEF Surviving
    <3> QED BY <3>1, <3>2
  <2>3. Surviving(v, w).average \in Fraction
    BY <1>5 DEF Surviving
  <2>4. AtMost(j.average, j.average)
    BY <2>1, <2>3, AtMostItself
  <2> HIDE DEF side
  <2> QED BY <1>7, <1>8, <2>1, <2>2, <2>4
<1>9. CASE m + k # 0 /\ ~(m * k < 0)
  <2>1. j.average = MeanOfBoth(v, w)
    BY <1>1, <1>3, <1>9, JoinCases DEF Opposed
  <2>2. PICK a \in Nat, b \in Nat : /\ a = Magnitude(m) /\ b = Magnitude(k)
                                    /\ (m # 0 <=> a # 0) /\ (k # 0 <=> b # 0)
    BY MagnitudeOf
  <2>3. PICK c \in Nat \ {0} : c = a + b
    BY <1>9, <2>2
  <2>4. PICK D \in Nat \ {0}, x \in Int, z \in Int : Val(v.average, x, D) /\ Val(w.average, z, D)
    <3>1. OneDenominatorFor(v.average, w.average, w.average, w.average, w.average)
      BY <1>5, FewFractions
    <3> QED BY <3>1 DEF OneDenominatorFor
  <2>5. PICK mean \in Int, C \in Nat \ {0} : mean = x * a + z * b /\ C = D * c
    BY NotZero
  <2>6. j.average \in Fraction /\ Val(j.average, mean, C)
    <3>1. /\ MeanOfBoth(v, w) \in Fraction
          /\ \A E \in Nat \ {0}, y, o \in Int : Val(v.average, y, E) /\ Val(w.average, o, E) =>
               Val(MeanOfBoth(v, w), y * Magnitude(v.net) + o * Magnitude(w.net),
                   E * (Magnitude(v.net) + Magnitude(w.net)))
      BY <1>2, <1>3, <1>9, MeanIsFraction
    <3>2. Val(MeanOfBoth(v, w), x * a + z * b, D * (a + b))
      BY <1>3, <2>2, <2>4, <3>1
    <3> QED BY <2>1, <2>3, <2>5, <3>1, <3>2
  <2>7. PICK xc \in Int, zc \in Int : xc = x * c /\ zc = z * c
    OBVIOUS
  <2>8. Val(v.average, xc, C) /\ Val(w.average, zc, C)
    <3>1. Val(v.average, x * c, D * c) /\ Val(w.average, z * c, D * c)
      BY <1>5, <2>4, Widened
    <3> QED BY <2>5, <2>7, <3>1
  <2>9. (m # 0 => v \in side) /\ (k # 0 => w \in side)
    <3>1. (m # 0 => m * (m + k) > 0) /\ (k # 0 => k * (m + k) > 0)
      BY <1>9, SameSigns
    <3> QED BY <1>3, <1>4, <3>1
  <2>10. /\ x =< z => xc =< mean /\ mean =< zc
         /\ z =< x => zc =< mean /\ mean =< xc
         /\ m = 0 => mean = zc
         /\ k = 0 => mean = xc
    <3>1. x =< z => x * (a + b) =< x * a + z * b /\ x * a + z * b =< z * (a + b)
      BY MeanBetween
    <3>2. z =< x => z * (b + a) =< z * b + x * a /\ z * b + x * a =< x * (b + a)
      BY MeanBetween
    <3>3. x * a + z * b = z * b + x * a /\ a + b = b + a
      OBVIOUS
    <3>4. m = 0 => mean = zc
      BY <2>2, <2>3, <2>5, <2>7
    <3>5. k = 0 => mean = xc
      BY <2>2, <2>3, <2>5, <2>7
    <3>6. x =< z => xc =< mean /\ mean =< zc
      BY <2>3, <2>5, <2>7, <3>1
    <3>7. z =< x => zc =< mean /\ mean =< xc
      BY <2>3, <2>5, <2>7, <3>2, <3>3
    <3> QED BY <3>4, <3>5, <3>6, <3>7
  <2>11. m # 0 \/ k # 0
    BY <1>9
  <2>12. /\ xc =< mean => AtMost(v.average, j.average)
         /\ mean =< xc => AtMost(j.average, v.average)
         /\ zc =< mean => AtMost(w.average, j.average)
         /\ mean =< zc => AtMost(j.average, w.average)
    BY <1>5, <2>6, <2>8, AtMostVal
  <2>13. x =< z \/ z =< x
    OBVIOUS
  <2>14. mean =< mean
    OBVIOUS
  <2>15. \E y \in side : AtMost(y.average, j.average)
    <3> HIDE DEF side
    <3> QED BY <2>9, <2>10, <2>11, <2>12, <2>13, <2>14
  <2>16. \E y \in side : AtMost(j.average, y.average)
    <3> HIDE DEF side
    <3> QED BY <2>9, <2>10, <2>11, <2>12, <2>13, <2>14
  <2> HIDE DEF side
  <2> QED BY <1>7, <1>9, <2>15, <2>16
<1> QED BY <1>6, <1>8, <1>9

-----------------------------------------------------------------------------
\* Units over their behaviours

\* Hours, cost and exposure are what they were before the other unit came and went.
LEMMA MoneyUndone ==
  ASSUME NEW t, IsUnit(t), NEW u, IsUnit(u), Combinable(t, u), NEW l \in BOOLEAN, NEW m \in BOOLEAN
  PROVE  LET back == Combined(Combined(t, u, l), Scaled(u, -1), m)
         IN  /\ back.workload.net = t.workload.net
             /\ CostOf(back) = CostOf(t) /\ ExposureOf(back) = ExposureOf(t)
<1>1. PICK b, s : b = Combined(t, u, l) /\ s = Scaled(u, -1)
  OBVIOUS
<1>2. IsUnit(b) /\ IsUnit(s)
  BY <1>1, CombinedIsUnit, ScaledIsUnit
<1>3. /\ b.workload.net = t.workload.net + u.workload.net
      /\ CostOf(b) = Plus(CostOf(t), CostOf(u))
      /\ ExposureOf(b) = Plus(ExposureOf(t), ExposureOf(u))
  BY <1>1, CombinedMoney
<1>4. /\ s.workload.net = u.workload.net * (-1)
      /\ CostOf(s) = Plus(Times(u.workload.realized, -1), Times(u.workload.unrealized, -1))
      /\ ExposureOf(s) = Plus(Times(Exposure(u.workload), -1), Times(u.budget, -1))
  BY <1>1, ScaledMoney
<1>5. PICK back : back = Combined(b, s, m)
  OBVIOUS
<1>6. /\ back.workload.net = b.workload.net + s.workload.net
      /\ CostOf(back) = Plus(CostOf(b), CostOf(s))
      /\ ExposureOf(back) = Plus(ExposureOf(b), ExposureOf(s))
  BY <1>2, <1>5, CombinedMoney
<1>7. back.workload.net = t.workload.net
  <2>1. PICK x \in Int, y \in Int : x = t.workload.net /\ y = u.workload.net
    BY WorkloadFields DEF IsUnit
  <2>2. (x + y) + y * (-1) = x
    OBVIOUS
  <2> QED BY <1>3, <1>4, <1>6, <2>1, <2>2
<1>8. CostOf(t) \in Reduced /\ ExposureOf(t) \in Reduced
  BY UnitMoney
<1>9. /\ u.workload.realized \in Fraction /\ u.workload.unrealized \in Fraction
      /\ Exposure(u.workload) \in Fraction /\ u.budget \in Fraction
  BY WorkloadFields, ExposureType DEF IsUnit
<1>10. CostOf(back) = CostOf(t)
  <2>1. PICK c \in Reduced, p \in Fraction, q \in Fraction :
          c = CostOf(t) /\ p = u.workload.realized /\ q = u.workload.unrealized
    BY <1>8, <1>9
  <2>2. CostOf(back) = Plus(Plus(c, Plus(p, q)), Plus(Times(p, -1), Times(q, -1)))
    BY <1>3, <1>4, <1>6, <2>1 DEF CostOf
  <2> QED BY <2>1, <2>2, SumUndone
<1>11. ExposureOf(back) = ExposureOf(t)
  <2>1. PICK c \in Reduced, p \in Fraction, q \in Fraction :
          c = ExposureOf(t) /\ p = Exposure(u.workload) /\ q = u.budget
    BY <1>8, <1>9
  <2>2. ExposureOf(u) = Plus(p, q)
    BY <2>1 DEF ExposureOf
  <2>3. ExposureOf(back) = Plus(Plus(c, Plus(p, q)), Plus(Times(p, -1), Times(q, -1)))
    BY <1>3, <1>4, <1>6, <2>1, <2>2
  <2> QED BY <2>1, <2>3, SumUndone
<1> QED BY <1>1, <1>5, <1>7, <1>10, <1>11

\* Without hours all of the exposure is in the budget.
LEMMA ClosedExposure ==
  ASSUME NEW t, IsUnit(t), NEW u, IsUnit(u), NEW l \in BOOLEAN,
         Combined(t, u, l).workload.net = 0
  PROVE  Combined(t, u, l).budget = ExposureOf(Combined(t, u, l))
<1>1. PICK b, w : b = Combined(t, u, l) /\ w = b.workload
  OBVIOUS
<1>2. w \in WorkloadRecord /\ w.net = 0 /\ b.budget \in Fraction
  BY <1>1, CombinedMoney
<1>3. b.budget \in Reduced
  <2>1. PICK x, y : x = Plus(t.budget, u.budget)
                    /\ y = Times(Exposure(Aggregated(t.workload, u.workload, l)), -1)
    OBVIOUS
  <2>2. PICK z : z = Plus(Exposure(t.workload), Exposure(u.workload))
    OBVIOUS
  <2>3. b.budget = Plus(x, Plus(z, y))
    BY <1>1, <2>1, <2>2 DEF Combined, Minus
  <2>4. /\ t.budget \in Fraction /\ u.budget \in Fraction /\ Exposure(t.workload) \in Fraction
        /\ Exposure(u.workload) \in Fraction
        /\ Exposure(Aggregated(t.workload, u.workload, l)) \in Fraction
    <3>1. Aggregated(t.workload, u.workload, l) \in WorkloadRecord
      BY AggregatedType DEF IsUnit
    <3> QED BY <3>1, ExposureType DEF IsUnit
  <2>5. -1 \in Int
    OBVIOUS
  <2>6. x \in Fraction /\ y \in Fraction /\ z \in Fraction
    BY <2>1, <2>2, <2>4, <2>5, PlusIsReduced, TimesReduced
  <2> QED BY <2>3, <2>6, PlusIsReduced
<1>4. Exposure(w) = Whole(0)
  <2>1. RateOf(w) \in Fraction /\ Exposure(w) = Times(RateOf(w), 0)
    BY <1>2, ExposureType
  <2>2. PICK a \in Int, d \in Nat \ {0} : a = RateOf(w).n /\ d = RateOf(w).d
    BY <2>1, FractionFields
  <2>3. a * 0 = 0 /\ 0 * d = 0
    OBVIOUS
  <2>4. Lowest(0 * d, d) = Whole(0)
    BY LowestOfWhole
  <2> QED BY <2>1, <2>2, <2>3, <2>4 DEF Times
<1>5. Plus(Whole(0), b.budget) = b.budget
  <2>1. PICK p \in Reduced : p = b.budget /\ p \in Fraction
    BY <1>2, <1>3
  <2>2. PICK a \in Int, d \in Nat \ {0} : a = p.n /\ d = p.d
    BY <2>1, FractionFields
  <2>3. Val(p, a, d)
    BY <2>2 DEF Val
  <2>4. Whole(0) \in Fraction /\ Val(Whole(0), 0, d)
    <3>1. Whole(0) \in Fraction /\ Val(Whole(0), 0 * d, d)
      BY WholeVal
    <3>2. 0 * d = 0
      OBVIOUS
    <3> QED BY <3>1, <3>2
  <2>5. Plus(Whole(0), p) \in Reduced /\ Val(Plus(Whole(0), p), 0 + a, d)
    BY <2>1, <2>3, <2>4, PlusVal, PlusIsReduced
  <2>6. 0 + a = a /\ 0 + a \in Int
    OBVIOUS
  <2>7. Plus(Whole(0), p) = p
    BY <2>1, <2>3, <2>5, <2>6, EqualSums
  <2> QED BY <2>1, <2>7
<1> QED BY <1>1, <1>4, <1>5 DEF ExposureOf

\* Every assignment has two sides.
LEMMA NetsCancel ==
  ASSUME LedgerInv, NEW g \in Orgs, NEW h \in Orgs, NEW k \in Orgs,
         g # h, g # k, h # k, Orgs = {g, h, k}
  PROVE  workload[g].net + workload[h].net + workload[k].net = 0
<1> DEFINE S == DOMAIN trades
           f == [i \in S |-> Given(trades, g, i)]
           p == [i \in S |-> Given(trades, h, i)]
           q == [i \in S |-> Given(trades, k, i)]
           fp == [i \in S |-> Given(trades, g, i) + Given(trades, h, i)]
           all == [i \in S |-> (Given(trades, g, i) + Given(trades, h, i)) + Given(trades, k, i)]
<1>1. trades \in Seq(Trade) /\ S = 1..Len(trades) /\ IsFiniteSet(S)
  <2>1. trades \in Seq(Trade)
    BY DEF LedgerInv
  <2>2. S = 1..Len(trades) /\ Len(trades) \in Int /\ 1 \in Int
    BY <2>1
  <2> QED BY <2>1, <2>2, FS_Interval
<1>2. ASSUME NEW i \in S
      PROVE  /\ Given(trades, g, i) \in Int /\ Given(trades, h, i) \in Int
             /\ Given(trades, k, i) \in Int
             /\ (Given(trades, g, i) + Given(trades, h, i)) + Given(trades, k, i) = 0
  <2>1. trades[i] \in Trade
    BY <1>1
  <2>2. PICK a \in Orgs, b \in Orgs, n \in Int :
          trades[i].requester = a /\ trades[i].provider = b /\ trades[i].hours = n
    BY <1>1, <2>1, TradeFields DEF Trade
  <2>3. \A x : Given(trades, x, i) = (IF a = x THEN n ELSE 0) - (IF b = x THEN n ELSE 0)
    BY <2>2 DEF Given
  <2>4. a \in {g, h, k} /\ b \in {g, h, k}
    OBVIOUS
  <2>5. ASSUME NEW c \in {g, h, k}
        PROVE  \E x, y, z \in Int : /\ x = (IF c = g THEN n ELSE 0) /\ y = (IF c = h THEN n ELSE 0)
                                   /\ z = (IF c = k THEN n ELSE 0) /\ (x + y) + z = n
    <3>1. CASE c = g
      <4>1. (n + 0) + 0 = n /\ 0 \in Int
        OBVIOUS
      <4> QED BY <3>1, <4>1
    <3>2. CASE c = h
      <4>1. (0 + n) + 0 = n /\ 0 \in Int
        OBVIOUS
      <4> QED BY <3>2, <4>1
    <3>3. CASE c = k
      <4>1. (0 + 0) + n = n /\ 0 \in Int
        OBVIOUS
      <4> QED BY <3>3, <4>1
    <3> QED BY <3>1, <3>2, <3>3
  <2>6. PICK x \in Int, y \in Int, z \in Int :
          /\ x = (IF a = g THEN n ELSE 0) /\ y = (IF a = h THEN n ELSE 0)
          /\ z = (IF a = k THEN n ELSE 0) /\ (x + y) + z = n
    BY <2>4, <2>5
  <2>7. PICK u \in Int, v \in Int, w \in Int :
          /\ u = (IF b = g THEN n ELSE 0) /\ v = (IF b = h THEN n ELSE 0)
          /\ w = (IF b = k THEN n ELSE 0) /\ (u + v) + w = n
    BY <2>4, <2>5
  <2>8. /\ Given(trades, g, i) = x - u /\ Given(trades, h, i) = y - v
        /\ Given(trades, k, i) = z - w
    BY <2>3, <2>6, <2>7
  <2>9. ((x - u) + (y - v)) + (z - w) = 0
    BY <2>6, <2>7
  <2> QED BY <2>8, <2>9
<1>3. \A i \in S : /\ f[i] \in Int /\ p[i] \in Int /\ q[i] \in Int /\ fp[i] \in Int
                   /\ fp[i] = f[i] + p[i] /\ all[i] = fp[i] + q[i] /\ all[i] = 0
  BY <1>2
<1> HIDE DEF S, f, p, q, fp, all
<1>4. SumFunctionOnSet(all, S) = 0
  BY <1>1, <1>3, SumZero
<1>5. SumFunctionOnSet(all, S) = SumFunctionOnSet(fp, S) + SumFunctionOnSet(q, S)
  BY <1>1, <1>3, SumPlus
<1>6. SumFunctionOnSet(fp, S) = SumFunctionOnSet(f, S) + SumFunctionOnSet(p, S)
  BY <1>1, <1>3, SumPlus
<1>7. /\ workload[g].net = SumFunctionOnSet(f, S) /\ workload[h].net = SumFunctionOnSet(p, S)
      /\ workload[k].net = SumFunctionOnSet(q, S)
  BY DEF LedgerInv, NetOf, S, f, p, q
<1> QED BY <1>4, <1>5, <1>6, <1>7

-----------------------------------------------------------------------------
\* The inductive invariant: the one of the books, and what each organization has is a unit's.
UnitInv ==
  /\ LedgerInv
  /\ capacity \in [Orgs -> {capacity[g] : g \in Orgs}] /\ history \in [Orgs -> Seq(Int)]
  /\ \A g \in Orgs : Registry(capacity[g])

\* Each organization has a unit.
LEMMA EachIsUnit ==
  ASSUME UnitInv, NEW g \in Orgs
  PROVE  IsUnit(Unit(g))
<1>1. workload[g] \in WorkloadRecord /\ Registry(capacity[g]) /\ history[g] \in Seq(Int)
  BY DEF UnitInv, LedgerInv
<1>2. Whole(0) \in Fraction
  BY DEF Whole, Fraction
<1> QED BY <1>1, <1>2 DEF IsUnit, Unit

\* A model takes the place of the asset's former one.
LEMMA RegisteredType ==
  ASSUME NEW c, Registry(c), NEW a, NEW e \in Entry
  PROVE  Registry(Registered(c, a, e))
<1>1. PICK d : d = Registered(c, a, e)
  OBVIOUS
<1>2. d = [b \in DOMAIN c \cup {a} |-> IF b = a THEN e ELSE c[b]]
  BY <1>1 DEF Registered
<1>3. IsFiniteSet(DOMAIN c) /\ \A b \in DOMAIN c : c[b] \in Entry
  BY DEF Registry
<1>4. DOMAIN d = DOMAIN c \cup {a} /\ \A b \in DOMAIN d : d[b] \in Entry
  BY <1>2, <1>3
<1>5. IsFiniteSet(DOMAIN d)
  BY <1>3, <1>4, FS_AddElement
<1>6. d = [b \in DOMAIN d |-> d[b]]
  BY <1>2
<1> QED BY <1>1, <1>4, <1>5, <1>6 DEF Registry

\* No organization has anything yet.
LEMMA UnitsBegin == LedgerInit /\ UnitInit => UnitInv
<1> SUFFICES ASSUME LedgerInit, UnitInit PROVE UnitInv
  OBVIOUS
<1>1. capacity = [g \in Orgs |-> <<>>] /\ history = [g \in Orgs |-> <<>>]
  BY DEF UnitInit
<1>2. Registry(<<>>) /\ <<>> \in Seq(Int)
  <2>1. DOMAIN <<>> = {}
    OBVIOUS
  <2>2. IsFiniteSet({}) /\ <<>> = [a \in {} |-> <<>>[a]]
    BY FS_EmptySet
  <2> QED BY <2>1, <2>2 DEF Registry
<1>3. capacity \in [Orgs -> {capacity[g] : g \in Orgs}]
  BY <1>1
<1> QED BY <1>1, <1>2, <1>3, LedgerBegins DEF UnitInv

\* OperationsAnalytics.register_capacity
LEMMA RegisterKeeps ==
  ASSUME UnitInv, NEW g \in Orgs, NEW a \in Assets, NEW model \in Models, NEW weight \in Weights,
         RegisterCapacity(g, a, model, weight), UNCHANGED ledgerVars
  PROVE  UnitInv'
<1>1. LedgerInv'
  BY LedgerStays DEF UnitInv
<1>2. PICK e \in Entry : e = [model |-> model, weight |-> weight]
  BY UnitAssumption DEF Entry
<1>3. history' = history /\ capacity' = [capacity EXCEPT ![g] = Registered(capacity[g], a, e)]
  BY <1>2 DEF RegisterCapacity
<1>4. /\ capacity \in [Orgs -> {capacity[o] : o \in Orgs}] /\ \A o \in Orgs : Registry(capacity[o])
      /\ history \in [Orgs -> Seq(Int)]
  BY DEF UnitInv
<1>5. capacity' \in [Orgs -> {capacity'[o] : o \in Orgs}]
  BY <1>3, <1>4
<1>6. \A o \in Orgs : Registry(capacity'[o])
  <2>1. Registry(Registered(capacity[g], a, e))
    BY <1>4, RegisteredType
  <2> QED BY <1>3, <1>4, <2>1
<1>7. (capacity \in [Orgs -> {capacity[o] : o \in Orgs}])'
  BY <1>5
<1>8. (\A o \in Orgs : Registry(capacity[o]))'
  BY <1>6 DEF Registry
<1> QED BY <1>1, <1>3, <1>4, <1>7, <1>8 DEF UnitInv

\* OperationsAnalytics.record_daily_backlog, one day
LEMMA RecordKeeps ==
  ASSUME UnitInv, NEW g \in Orgs, NEW delta \in Deltas,
         RecordDailyBacklog(g, delta), UNCHANGED ledgerVars
  PROVE  UnitInv'
<1>1. LedgerInv'
  BY LedgerStays DEF UnitInv
<1>2. capacity' = capacity /\ history' = [history EXCEPT ![g] = Append(history[g], delta)]
  BY DEF RecordDailyBacklog
<1>3. delta \in Int /\ history \in [Orgs -> Seq(Int)]
  BY UnitAssumption DEF UnitInv
<1>4. Append(history[g], delta) \in Seq(Int)
  BY <1>3, AppendProperties
<1>5. history' \in [Orgs -> Seq(Int)]
  BY <1>2, <1>3, <1>4
<1> QED BY <1>1, <1>2, <1>5 DEF UnitInv, Registry

\* Units with such parts lose nothing when they are combined and taken apart.
LEMMA UnitsAreExact == UnitInv => CombiningLosesNothing
<1> SUFFICES ASSUME UnitInv, NEW g \in Orgs, NEW h \in Orgs, NEW latest \in BOOLEAN, g # h,
                    Combinable(Unit(g), Unit(h))
             PROVE  LET both == Combined(Unit(g), Unit(h), latest)
                        back == Difference(both, Unit(h), ~latest)
                    IN  /\ AverageBetween(Unit(g), Unit(h), both)
                        /\ CostOf(both) = Plus(CostOf(Unit(g)), CostOf(Unit(h)))
                        /\ ExposureOf(both) = Plus(ExposureOf(Unit(g)), ExposureOf(Unit(h)))
                        /\ Utilization(both) = SumOf(Utilization(Unit(g)), Utilization(Unit(h)))
                        /\ MaxOverrun(both.history) =< MaxOverrun(history[g]) + MaxOverrun(history[h])
                        /\ back.workload.net = workload[g].net
                        /\ CostOf(back) = CostOf(Unit(g)) /\ ExposureOf(back) = ExposureOf(Unit(g))
                        /\ Combinable(both, Unit(h)) /\ Utilization(back) = Utilization(Unit(g))
                        /\ MaxOverrun(back.history) = MaxOverrun(history[g])
                        /\ \A k \in Orgs \ {g, h} :
                             LET all == Combined(both, Unit(k), latest)
                             IN  Combinable(both, Unit(k)) =>
                                   /\ Orgs = {g, h, k} => all.workload.net = 0
                                   /\ CostOf(all) = Plus(CostOf(both), CostOf(Unit(k)))
                                   /\ ExposureOf(all) = Plus(ExposureOf(both), ExposureOf(Unit(k)))
                                   /\ all.workload.net = 0 => all.budget = ExposureOf(all)
  BY DEF CombiningLosesNothing
<1>0. PICK m \in BOOLEAN : m = ~latest
  OBVIOUS
<1>1. PICK t, u, s : t = Unit(g) /\ u = Unit(h) /\ s = Scaled(u, -1)
  OBVIOUS
<1>2. PICK both, back : both = Combined(t, u, latest) /\ back = Combined(both, s, m)
  OBVIOUS
<1>3. /\ IsUnit(t) /\ IsUnit(u) /\ Combinable(t, u)
      /\ t.workload = workload[g] /\ t.history = history[g] /\ u.history = history[h]
  BY <1>1, EachIsUnit DEF Unit
<1>4. IsUnit(both) /\ IsUnit(s)
  BY <1>1, <1>2, <1>3, CombinedIsUnit, ScaledIsUnit
<1>5. both.capacity = CapacityOfBoth(t, u) /\ both.history = DaysOfBoth(t, u)
  BY <1>2 DEF Combined
<1>6. /\ DOMAIN s.capacity = DOMAIN u.capacity /\ Len(s.history) = Len(u.history)
      /\ \A a \in DOMAIN u.capacity : s.capacity[a].model = u.capacity[a].model
      /\ \A i \in 1..Len(u.history) : s.history[i] = u.history[i] * (-1)
  BY <1>1, <1>3, ScaledIsUnit
<1>7. Combinable(both, u) /\ Combinable(both, s)
  <2>1. both.history = <<>> \/ u.history = <<>> \/ Len(both.history) = Len(u.history)
    BY <1>3, <1>5, DaysMatch
  <2>2. u.history = <<>> => s.history = <<>>
    <3>1. u.history \in Seq(Int) /\ s.history \in Seq(Int)
      BY <1>3, <1>4 DEF IsUnit
    <3> QED BY <1>6, <3>1
  <2>3. \A a \in DOMAIN u.capacity : both.capacity[a].model = u.capacity[a].model
    <3>1. ASSUME NEW a \in DOMAIN u.capacity, a \in DOMAIN t.capacity
          PROVE  both.capacity[a].model = u.capacity[a].model
      <4>1. t.capacity[a].model = u.capacity[a].model
        BY <1>3, <3>1 DEF Combinable, SameModel
      <4>2. CapacityOfBoth(t, u)[a].model = t.capacity[a].model
        BY <1>3, <3>1, CapacityType
      <4> QED BY <1>5, <4>1, <4>2
    <3>2. ASSUME NEW a \in DOMAIN u.capacity, a \notin DOMAIN t.capacity
          PROVE  both.capacity[a].model = u.capacity[a].model
      <4>1. a \in DOMAIN u.capacity \ DOMAIN t.capacity
        BY <3>2
      <4>2. CapacityOfBoth(t, u)[a] = u.capacity[a]
        BY <1>3, <4>1, CapacityType
      <4> QED BY <1>5, <4>2
    <3> QED BY <3>1, <3>2
  <2>4. Combinable(both, u)
    BY <2>1, <2>3 DEF Combinable, SameModel
  <2>5. Combinable(both, s)
    BY <1>6, <2>1, <2>2, <2>3 DEF Combinable, SameModel
  <2> QED BY <2>4, <2>5
<1>8. /\ AverageBetween(t, u, both)
      /\ CostOf(both) = Plus(CostOf(t), CostOf(u))
      /\ ExposureOf(both) = Plus(ExposureOf(t), ExposureOf(u))
      /\ Utilization(both) = SumOf(Utilization(t), Utilization(u))
  BY <1>2, <1>3, AverageIsBetween, CombinedMoney, UtilizationsAdd
<1>9. /\ MaxOverrun(both.history) =< MaxOverrun(t.history) + MaxOverrun(u.history)
  BY <1>3, <1>5, OverrunOfBoth
<1>10. /\ back.workload.net = t.workload.net
       /\ CostOf(back) = CostOf(t) /\ ExposureOf(back) = ExposureOf(t)
  BY <1>1, <1>2, <1>3, MoneyUndone
<1>11. Utilization(back) = Utilization(t)
  BY <1>1, <1>2, <1>3, <1>4, <1>5, <1>7, UtilizationUndone
<1>12. MaxOverrun(back.history) = MaxOverrun(t.history)
  <2>1. back.history = DaysOfBoth(both, s)
    BY <1>2 DEF Combined
  <2>2. MaxOverrun(DaysOfBoth(both, s)) = MaxOverrun(t.history)
    BY <1>3, <1>4, <1>5, <1>6, <1>7, OverrunUndone
  <2> QED BY <2>1, <2>2
<1>13. ASSUME NEW k \in Orgs \ {g, h}, NEW all, all = Combined(both, Unit(k), latest),
              Combinable(both, Unit(k))
       PROVE  /\ Orgs = {g, h, k} => all.workload.net = 0
              /\ CostOf(all) = Plus(CostOf(both), CostOf(Unit(k)))
              /\ ExposureOf(all) = Plus(ExposureOf(both), ExposureOf(Unit(k)))
              /\ all.workload.net = 0 => all.budget = ExposureOf(all)
  <2>1. IsUnit(Unit(k))
    BY EachIsUnit
  <2>2. /\ all.workload.net = both.workload.net + Unit(k).workload.net
        /\ CostOf(all) = Plus(CostOf(both), CostOf(Unit(k)))
        /\ ExposureOf(all) = Plus(ExposureOf(both), ExposureOf(Unit(k)))
    BY <1>4, <1>13, <2>1, CombinedMoney
  <2>3. both.workload.net = workload[g].net + workload[h].net
    <3>1. both.workload.net = t.workload.net + u.workload.net
      BY <1>2, <1>3, CombinedMoney
    <3> QED BY <1>1, <3>1 DEF Unit
  <2>4. Unit(k).workload.net = workload[k].net
    BY DEF Unit
  <2>5. Orgs = {g, h, k} => workload[g].net + workload[h].net + workload[k].net = 0
    BY NetsCancel DEF UnitInv
  <2>6. all.workload.net = 0 => all.budget = ExposureOf(all)
    BY <1>4, <1>13, <2>1, ClosedExposure
  <2> QED BY <2>2, <2>3, <2>4, <2>5, <2>6
<1>14. /\ both = Combined(Unit(g), Unit(h), latest)
       /\ back = Difference(both, Unit(h), ~latest)
  BY <1>0, <1>1, <1>2 DEF Difference
<1> QED BY <1>1, <1>3, <1>7, <1>8, <1>9, <1>10, <1>11, <1>12, <1>13, <1>14

\* Whatever the organizations traded, registered and recorded, any number of them, units may
\* be combined, combined further and taken apart again (__add__, __sub__ and __mul__ of
\* OperationsAnalytics, src/mittelwerk/analytics/operations.py): cost, exposure, utilization and net
\* hours are neither lost nor counted twice, the average stays between the averages, and
\* what is taken apart is what it was before, with its longest overrun.
THEOREM CombiningNeverLoses == UnitSpec => []CombiningLosesNothing
<1>1. UnitInv /\ [(LedgerNext /\ UNCHANGED unitVars) \/ (UnitNext /\ UNCHANGED ledgerVars)]_<<ledgerVars, unitVars>>
        => UnitInv'
  <2> SUFFICES ASSUME UnitInv,
                      [(LedgerNext /\ UNCHANGED unitVars) \/ (UnitNext /\ UNCHANGED ledgerVars)]_<<ledgerVars, unitVars>>
               PROVE  UnitInv'
    OBVIOUS
  <2>1. CASE LedgerNext /\ UNCHANGED unitVars
    <3>1. LedgerInv'
      BY <2>1, AssignKeeps, RepriceKeeps DEF UnitInv, LedgerNext
    <3>2. capacity' = capacity /\ history' = history
      BY <2>1 DEF unitVars
    <3> QED BY <3>1, <3>2 DEF UnitInv, Registry
  <2>2. CASE UnitNext /\ UNCHANGED ledgerVars
    BY <2>2, RegisterKeeps, RecordKeeps DEF UnitNext
  <2>3. CASE UNCHANGED <<ledgerVars, unitVars>>
    <3>1. LedgerInv'
      BY <2>3, LedgerStays DEF UnitInv
    <3>2. capacity' = capacity /\ history' = history
      BY <2>3 DEF unitVars
    <3> QED BY <3>1, <3>2 DEF UnitInv, Registry
  <2> QED BY <2>1, <2>2, <2>3
<1> QED BY <1>1, UnitsBegin, UnitsAreExact, PTL DEF UnitSpec

=============================================================================
