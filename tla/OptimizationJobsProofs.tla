----------------------- MODULE OptimizationJobsProofs -----------------------
(***************************************************************************)
(* Proofs about the optimizers and their jobs, for any number of jobs, any *)
(* requests and any limits.  First what the pure operators do for every    *)
(* input: the grid lists every one of its points once, the ranking is a    *)
(* permutation in descending order, and the windows of a walk-forward      *)
(* never overlap.  Then the jobs: what a search reports is complete, what  *)
(* a client polls goes forward, and every step is a step of JobLifecycle.  *)
(***************************************************************************)
EXTENDS OptimizationJobs, FiniteSetTheorems, WellFoundedInduction, TLAPS

-----------------------------------------------------------------------------
(* Induction over the natural numbers, for a set instead of a predicate.   *)

(* Every set of naturals that is not empty has a smallest member. *)
LEMMA SmallestMember ==
    ASSUME NEW T \in SUBSET Nat, T # {}
    PROVE  \E m \in T : \A k \in T : m <= k
  <1>1. PICK m \in T : \A k \in T : ~ (<<k, m>> \in OpToRel(<, Nat))
    BY WFMin, NatLessThanWellFounded
  <1>2. \A k \in T : ~ (k < m)
    BY <1>1 DEF OpToRel
  <1> QED  BY <1>2

(* A set that has zero and every successor has every natural number. *)
LEMMA SetInduction ==
    ASSUME NEW T, 0 \in T, \A n \in Nat : n \in T => n + 1 \in T
    PROVE  \A n \in Nat : n \in T
  <1> SUFFICES ASSUME NEW n \in Nat \ T
               PROVE  FALSE
    OBVIOUS
  <1>1. PICK m \in Nat \ T : \A k \in Nat \ T : m <= k
    BY SmallestMember
  <1>2. m - 1 \in Nat /\ m - 1 \in T
    BY <1>1
  <1> QED  BY <1>2

(* g is computed step by step from a first value. *)
Computed(g, N, base, step) ==
    /\ g[0] = base
    /\ \A k \in 1..N : g[k] = step[k][g[k - 1]]

(* Such a function exists: it is the one a recursive definition chooses. *)
LEMMA RecursionExists ==
    ASSUME NEW S, NEW N \in Nat, NEW base \in S, NEW step \in [1..N -> [S -> S]]
    PROVE  \E g \in [0..N -> S] : Computed(g, N, base, step)
  <1> DEFINE T == {n \in Nat : n <= N =>
                      \E g \in [0..n -> S] : Computed(g, n, base, step)}
  <1>1. 0 \in T
    <2>1. [k \in 0..0 |-> base] \in [0..0 -> S]
      OBVIOUS
    <2>2. Computed([k \in 0..0 |-> base], 0, base, step)
      BY DEF Computed
    <2> QED  BY <2>1, <2>2
  <1>2. ASSUME NEW n \in Nat, n \in T
        PROVE  n + 1 \in T
    <2> SUFFICES ASSUME n + 1 <= N
                 PROVE  \E g \in [0..(n + 1) -> S] : Computed(g, n + 1, base, step)
      OBVIOUS
    <2>1. PICK g \in [0..n -> S] : Computed(g, n, base, step)
      BY <1>2
    <2> DEFINE h == [k \in 0..(n + 1) |-> IF k = n + 1 THEN step[k][g[n]] ELSE g[k]]
    <2>2. h \in [0..(n + 1) -> S]
      <3>1. g[n] \in S /\ n + 1 \in 1..N
        OBVIOUS
      <3>2. step[n + 1][g[n]] \in S
        BY <3>1
      <3> QED  BY <3>2
    <2>3. ASSUME NEW k \in 1..(n + 1)
          PROVE  h[k] = step[k][h[k - 1]]
      <3>1. CASE k = n + 1
        BY <3>1
      <3>2. CASE k # n + 1
        <4>1. k \in 1..n /\ k - 1 \in 0..n
          BY <3>2
        <4> QED  BY <4>1, <2>1 DEF Computed
      <3> QED  BY <3>1, <3>2
    <2>4. h[0] = base
      BY <2>1 DEF Computed
    <2> HIDE DEF h
    <2> QED  BY <2>2, <2>3, <2>4 DEF Computed
  <1> HIDE DEF T
  <1>3. N \in T
    BY <1>1, <1>2, SetInduction
  <1> QED  BY <1>3 DEF T

-----------------------------------------------------------------------------
(* Division. *)

LEMMA DivMod ==
    ASSUME NEW n \in Nat, NEW c \in Nat \ {0}
    PROVE  /\ n \div c \in Nat /\ n % c \in 0..(c - 1)
           /\ n = c * (n \div c) + (n % c)
  OBVIOUS

(* A quotient times its divisor does not exceed the dividend. *)
LEMMA DivRoundsDown ==
    ASSUME NEW n \in Nat, NEW c \in Nat \ {0}
    PROVE  c * (n \div c) <= n
  <1> DEFINE whole == c * (n \div c)
             rest  == n % c
  <1>1. n = whole + rest /\ whole \in Int /\ rest \in Nat
    BY DivMod
  <1> HIDE DEF whole, rest
  <1>2. whole <= n
    BY <1>1
  <1> QED  BY <1>2 DEF whole

(* A dividend below m divisors has a quotient below m. *)
LEMMA DivBound ==
    ASSUME NEW n \in Nat, NEW c \in Nat \ {0}, NEW m \in Nat, n < m * c
    PROVE  n \div c < m
  BY DivRoundsDown, DivMod

(* The two digits of a position in a list of m blocks of length c. *)
LEMMA Digits ==
    ASSUME NEW c \in Nat \ {0}, NEW m \in Nat, NEW n \in 1..(m * c)
    PROVE  /\ ((n - 1) \div c) + 1 \in 1..m
           /\ ((n - 1) % c) + 1 \in 1..c
           /\ n = c * ((n - 1) \div c) + ((n - 1) % c) + 1
           /\ (n - 1) \div c \in Nat
  <1>1. n - 1 \in Nat /\ n - 1 < m * c
    OBVIOUS
  <1>2. (n - 1) \div c < m
    BY <1>1, DivBound
  <1>3. (n - 1) \div c \in Nat /\ (n - 1) % c \in 0..(c - 1)
    BY <1>1, DivMod
  <1>4. n - 1 = c * ((n - 1) \div c) + ((n - 1) % c)
    BY <1>1, DivMod
  <1> QED  BY <1>2, <1>3, <1>4

-----------------------------------------------------------------------------
(* The grid. *)

ParamRange == [min : Int, max : Int, step : Int]

(* A range that passes validation has at least one value. *)
LEMMA RangeCountPositive ==
    ASSUME NEW r \in ParamRange, ValidRange(r)
    PROVE  RangeCount(r) \in Nat \ {0}
  <1>1. r.max - r.min \in Nat /\ r.step \in Nat \ {0} /\ r.min \in Int /\ r.max \in Int
    BY DEF ParamRange, ValidRange
  <1>2. (r.max - r.min) \div r.step \in Nat
    BY <1>1, DivMod
  <1> QED  BY <1>1, <1>2 DEF RangeCount, ValidRange

(* The values of a range lie in it, a whole number of steps from its       *)
(* start, and differ.                                                      *)
LEMMA ValuesOnGrid ==
    ASSUME NEW r \in ParamRange, ValidRange(r)
    PROVE  /\ Values(r) \in Seq(Int) /\ Len(Values(r)) = RangeCount(r)
           /\ \A k \in 1..RangeCount(r) :
                 /\ Values(r)[k] \in r.min..r.max
                 /\ (Values(r)[k] - r.min) % r.step = 0
           /\ \A k, l \in 1..RangeCount(r) :
                 Values(r)[k] = Values(r)[l] => k = l
  <1> DEFINE n == RangeCount(r)
  <1>1. /\ r.max - r.min \in Nat /\ r.step \in Nat \ {0}
        /\ r.min \in Int /\ r.max \in Int
    BY DEF ParamRange, ValidRange
  <1>2. n \in Nat /\ n - 1 = (r.max - r.min) \div r.step
    BY <1>1, DivMod, RangeCountPositive DEF RangeCount, ValidRange
  <1>3. ASSUME NEW k \in 1..n
        PROVE  /\ k - 1 \in Nat /\ (k - 1) * r.step \in Nat
               /\ (k - 1) * r.step <= r.max - r.min
               /\ Values(r)[k] = r.min + (k - 1) * r.step
               /\ Values(r)[k] \in Int
    <2>1. k - 1 \in Nat /\ k - 1 <= n - 1
      BY <1>2
    <2>2. r.step * ((r.max - r.min) \div r.step) <= r.max - r.min
      BY <1>1, DivRoundsDown
    <2>3. (k - 1) * r.step <= (n - 1) * r.step
      BY <1>1, <1>2, <2>1
    <2> QED  BY <1>1, <1>2, <2>1, <2>2, <2>3 DEF Values
  <1>4. Values(r) \in Seq(Int) /\ Len(Values(r)) = n
    BY <1>2, <1>3 DEF Values
  <1>5. ASSUME NEW k \in 1..n
        PROVE  Values(r)[k] \in r.min..r.max /\ (Values(r)[k] - r.min) % r.step = 0
    <2>1. ((k - 1) * r.step) % r.step = 0
      BY <1>1, <1>3
    <2> QED  BY <1>1, <1>3, <2>1
  <1>6. ASSUME NEW k \in 1..n, NEW l \in 1..n, Values(r)[k] = Values(r)[l]
        PROVE  k = l
    <2>1. (k - 1) * r.step = (l - 1) * r.step
      BY <1>1, <1>3, <1>6
    <2> QED  BY <1>1, <1>3, <2>1
  <1> QED  BY <1>4, <1>5, <1>6

(* The number of grid points of the first k ranges. *)
LEMMA SizesValues ==
    ASSUME NEW ranges \in Seq(ParamRange), ValidRanges(ranges)
    PROVE  /\ Sizes(ranges)[0] = 1
           /\ \A k \in 1..Len(ranges) :
                 Sizes(ranges)[k] = Sizes(ranges)[k - 1] * RangeCount(ranges[k])
           /\ \A k \in 0..Len(ranges) : Sizes(ranges)[k] \in Nat \ {0}
  <1> DEFINE N == Len(ranges)
             Positive == Nat \ {0}
             step == [k \in 1..N |-> [x \in Positive |-> x * RangeCount(ranges[k])]]
             IsSizes(g) == g = [k \in 0..N |->
                               IF k = 0 THEN 1 ELSE g[k - 1] * RangeCount(ranges[k])]
  <1>1. N \in Nat /\ \A k \in 1..N : RangeCount(ranges[k]) \in Positive
    BY RangeCountPositive DEF ValidRanges
  <1>2. step \in [1..N -> [Positive -> Positive]]
    BY <1>1
  <1>3. \E g \in [0..N -> Positive] : Computed(g, N, 1, step)
    <2> HIDE DEF step, N
    <2>1. 1 \in Positive
      OBVIOUS
    <2> HIDE DEF Positive
    <2> QED  BY <1>1, <1>2, <2>1, RecursionExists
  <1>4. \E g : IsSizes(g)
    <2>1. PICK g \in [0..N -> Positive] : Computed(g, N, 1, step)
      BY <1>3
    <2>2. ASSUME NEW k \in 1..N
          PROVE  g[k] = g[k - 1] * RangeCount(ranges[k])
      <3>1. k - 1 \in 0..N /\ g[k] = step[k][g[k - 1]]
        <4> HIDE DEF step, N
        <4> QED  BY <1>1, <2>1 DEF Computed
      <3>2. g[k - 1] \in Positive
        BY <3>1
      <3> QED  BY <3>1, <3>2
    <2>3. g = [k \in 0..N |->
                  IF k = 0 THEN 1 ELSE g[k - 1] * RangeCount(ranges[k])]
      <3>1. g[0] = 1 /\ DOMAIN g = 0..N
        BY <2>1 DEF Computed
      <3> HIDE DEF N, Positive
      <3> QED  BY <1>1, <2>1, <2>2, <3>1
    <2> QED  BY <2>3
  <1>5. IsSizes(Sizes(ranges))
    BY <1>4 DEF Sizes
  <1> DEFINE g == Sizes(ranges)
             T == {k \in Nat : k <= N => g[k] \in Positive}
  <1>6. g[0] = 1 /\ \A k \in 1..N : g[k] = g[k - 1] * RangeCount(ranges[k])
    <2>1. IsSizes(g)
      BY <1>5
    <2> HIDE DEF g, N
    <2>2. g = [k \in 0..N |-> IF k = 0 THEN 1 ELSE g[k - 1] * RangeCount(ranges[k])]
      BY <2>1
    <2> QED  BY <1>1, <2>2
  <1> HIDE DEF g
  <1>7. 0 \in T
    BY <1>6
  <1>8. ASSUME NEW k \in Nat, k \in T
        PROVE  k + 1 \in T
    <2> SUFFICES ASSUME k + 1 <= N
                 PROVE  g[k + 1] \in Positive
      OBVIOUS
    <2>1. k + 1 \in 1..N /\ g[k + 1] = g[k] * RangeCount(ranges[k + 1])
      BY <1>1, <1>6
    <2>2. g[k] \in Positive /\ RangeCount(ranges[k + 1]) \in Positive
      BY <1>1, <1>8, <2>1
    <2> QED  BY <2>1, <2>2
  <1>9. \A k \in 0..N : g[k] \in Positive
    <2> HIDE DEF T
    <2>1. \A k \in Nat : k \in T
      BY <1>7, <1>8, SetInduction
    <2> QED  BY <2>1, <1>1 DEF T
  <1> QED  BY <1>6, <1>9 DEF g

(* So the grid over valid ranges has at least one point. *)
LEMMA MaxUniquePositive ==
    ASSUME NEW ranges \in Seq(ParamRange), ValidRanges(ranges)
    PROVE  MaxUnique(ranges) \in Nat \ {0}
  BY SizesValues DEF MaxUnique

(* A function on 1..N is a sequence of length N. *)
LEMMA FunctionIsSequence ==
    ASSUME NEW S, NEW N \in Nat, NEW s \in [1..N -> S]
    PROVE  s \in Seq(S) /\ Len(s) = N
  OBVIOUS

(* The elements of a sequence after an append. *)
LEMMA AppendValues ==
    ASSUME NEW S, NEW s \in Seq(S), NEW x \in S
    PROVE  /\ Append(s, x) \in Seq(S) /\ Len(Append(s, x)) = Len(s) + 1
           /\ \A i \in 1..(Len(s) + 1) :
                 Append(s, x)[i] = IF i = Len(s) + 1 THEN x ELSE s[i]
  OBVIOUS

(* P lists points of the first k ranges: every value lies on the grid of   *)
(* its range, and no point is listed twice.                                *)
OnGrid(P, k, ranges) ==
    /\ P \in Seq(Seq(Int))
    /\ \A n \in 1..Len(P) :
          /\ Len(P[n]) = k
          /\ \A i \in 1..k : /\ P[n][i] \in ranges[i].min..ranges[i].max
                            /\ (P[n][i] - ranges[i].min) % ranges[i].step = 0
    /\ \A m, n \in 1..Len(P) : P[m] = P[n] => m = n

(* Every point of a list followed by every value of one more range. *)
Extended(P, r) ==
    [n \in 1..(Len(P) * RangeCount(r)) |->
        Append(P[((n - 1) \div RangeCount(r)) + 1],
               Values(r)[((n - 1) % RangeCount(r)) + 1])]

(* One more range multiplies the number of combinations by its values. *)
LEMMA ExtendedType ==
    ASSUME NEW P \in Seq(Seq(Int)), NEW r \in ParamRange, ValidRange(r)
    PROVE  Extended(P, r) \in Seq(Seq(Int)) /\ Len(Extended(P, r)) = Len(P) * RangeCount(r)
  <1> DEFINE c == RangeCount(r)
  <1>1. c \in Nat \ {0} /\ Len(P) \in Nat /\ Len(P) * c \in Nat
    BY RangeCountPositive
  <1>2. ASSUME NEW n \in 1..(Len(P) * c)
        PROVE  Append(P[((n - 1) \div c) + 1], Values(r)[((n - 1) % c) + 1]) \in Seq(Int)
    <2>1. ((n - 1) \div c) + 1 \in 1..Len(P) /\ ((n - 1) % c) + 1 \in 1..c
      BY <1>1, Digits
    <2>2. P[((n - 1) \div c) + 1] \in Seq(Int) /\ Values(r)[((n - 1) % c) + 1] \in Int
      BY <2>1, ValuesOnGrid
    <2> QED  BY <2>2
  <1> HIDE DEF c
  <1>3. Extended(P, r) = [n \in 1..(Len(P) * c) |->
            Append(P[((n - 1) \div c) + 1], Values(r)[((n - 1) % c) + 1])]
    BY DEF Extended, c
  <1>4. Extended(P, r) \in [1..(Len(P) * c) -> Seq(Int)]
    BY <1>2, <1>3
  <1> QED  BY <1>1, <1>4, FunctionIsSequence DEF c

(* Extending the grid of the first k ranges gives the grid of the first k + 1. *)
LEMMA ExtendedOnGrid ==
    ASSUME NEW ranges \in Seq(ParamRange), ValidRanges(ranges),
           NEW k \in Nat, k + 1 <= Len(ranges),
           NEW P, OnGrid(P, k, ranges)
    PROVE  OnGrid(Extended(P, ranges[k + 1]), k + 1, ranges)
  <1> DEFINE r == ranges[k + 1]
             c == RangeCount(r)
             V == Values(r)
             E == Extended(P, r)
             hi(n) == ((n - 1) \div c) + 1
             lo(n) == ((n - 1) % c) + 1
  <1>1. r \in ParamRange /\ ValidRange(r)
    BY DEF ValidRanges
  <1>2. P \in Seq(Seq(Int)) /\ E \in Seq(Seq(Int)) /\ Len(E) = Len(P) * c
    BY <1>1, ExtendedType DEF OnGrid
  <1>3. c \in Nat \ {0} /\ Len(P) \in Nat
    BY <1>1, <1>2, RangeCountPositive
  <1>4. /\ V \in Seq(Int) /\ Len(V) = c
        /\ \A v \in 1..c : V[v] \in r.min..r.max /\ (V[v] - r.min) % r.step = 0
        /\ \A v, w \in 1..c : V[v] = V[w] => v = w
    BY <1>1, ValuesOnGrid
  <1>5. ASSUME NEW n \in 1..Len(E)
        PROVE  /\ hi(n) \in 1..Len(P) /\ lo(n) \in 1..c
               /\ n = c * (hi(n) - 1) + lo(n)
               /\ E[n] = Append(P[hi(n)], V[lo(n)])
               /\ P[hi(n)] \in Seq(Int) /\ Len(P[hi(n)]) = k /\ V[lo(n)] \in Int
               /\ Len(E[n]) = k + 1
               /\ \A i \in 1..(k + 1) :
                     E[n][i] = IF i = k + 1 THEN V[lo(n)] ELSE P[hi(n)][i]
    <2>1. n \in 1..(Len(P) * c)
      BY <1>2
    <2>2. hi(n) \in 1..Len(P) /\ lo(n) \in 1..c /\ n = c * ((n - 1) \div c) + ((n - 1) % c) + 1
      BY <1>3, <2>1, Digits
    <2>3. E[n] = Append(P[hi(n)], V[lo(n)])
      BY <2>1 DEF Extended
    <2>4. P[hi(n)] \in Seq(Int) /\ Len(P[hi(n)]) = k
      BY <1>2, <2>2 DEF OnGrid
    <2>5. n = c * (hi(n) - 1) + lo(n)
      <3>1. hi(n) - 1 = (n - 1) \div c
        <4>1. (n - 1) \div c \in Nat
          BY <1>3, <2>1, Digits
        <4> QED  BY <4>1
      <3> QED  BY <2>2, <3>1, <1>3
    <2>6. V[lo(n)] \in Int
      BY <1>4, <2>2
    <2> HIDE DEF E, V, c, hi, lo
    <2>7. /\ Len(E[n]) = k + 1
          /\ \A i \in 1..(k + 1) :
                E[n][i] = IF i = k + 1 THEN V[lo(n)] ELSE P[hi(n)][i]
      BY <2>3, <2>4, <2>6, AppendValues
    <2> QED  BY <2>2, <2>3, <2>4, <2>5, <2>6, <2>7
  <1> HIDE DEF E, V, c, hi, lo
  <1>6. ASSUME NEW n \in 1..Len(E), NEW i \in 1..(k + 1)
        PROVE  /\ Len(E[n]) = k + 1
               /\ E[n][i] \in ranges[i].min..ranges[i].max
               /\ (E[n][i] - ranges[i].min) % ranges[i].step = 0
    <2>1. Len(E[n]) = k + 1 /\ E[n][i] = IF i = k + 1 THEN V[lo(n)] ELSE P[hi(n)][i]
      BY <1>5
    <2>2. CASE i = k + 1
      BY <1>4, <1>5, <2>1, <2>2
    <2>3. CASE i # k + 1
      <3>1. i \in 1..k /\ hi(n) \in 1..Len(P)
        BY <1>5, <2>3
      <3> QED  BY <2>1, <2>3, <3>1 DEF OnGrid
    <2> QED  BY <2>2, <2>3
  <1>7. ASSUME NEW m \in 1..Len(E), NEW n \in 1..Len(E), E[m] = E[n]
        PROVE  m = n
    <2>1. V[lo(m)] = V[lo(n)]
      <3>1. k + 1 \in 1..(k + 1)
        OBVIOUS
      <3>2. E[m][k + 1] = V[lo(m)] /\ E[n][k + 1] = V[lo(n)]
        BY <1>5, <3>1
      <3> QED  BY <1>7, <3>2
    <2>2. P[hi(m)] = P[hi(n)]
      <3>1. ASSUME NEW i \in 1..k
            PROVE  P[hi(m)][i] = P[hi(n)][i]
        <4>1. i \in 1..(k + 1) /\ i # k + 1
          OBVIOUS
        <4>2. E[m][i] = P[hi(m)][i] /\ E[n][i] = P[hi(n)][i]
          BY <1>5, <4>1
        <4> QED  BY <1>7, <4>2
      <3> QED  BY <1>5, <3>1
    <2>3. lo(m) = lo(n) /\ hi(m) = hi(n)
      BY <1>4, <1>5, <2>1, <2>2 DEF OnGrid
    <2>4. m = c * (hi(n) - 1) + lo(n)
      BY <1>5, <2>3
    <2> QED  BY <1>5, <2>4
  <1>8. \A n \in 1..Len(E) : Len(E[n]) = k + 1
    BY <1>6
  <1> HIDE DEF r
  <1>9. OnGrid(E, k + 1, ranges)
    BY <1>2, <1>6, <1>7, <1>8 DEF OnGrid
  <1> QED  BY <1>9 DEF E, r

(* The grid of the first k ranges, for every k. *)
LEMMA ProductsValues ==
    ASSUME NEW ranges \in Seq(ParamRange), ValidRanges(ranges)
    PROVE  /\ Products(ranges)[0] = << <<>> >>
           /\ \A k \in 1..Len(ranges) :
                 Products(ranges)[k] = Extended(Products(ranges)[k - 1], ranges[k])
  <1> DEFINE N == Len(ranges)
             S == Seq(Seq(Int))
             first == << <<>> >>
             step == [k \in 1..N |-> [P \in S |-> Extended(P, ranges[k])]]
             IsProducts(g) == g = [k \in 0..N |->
                 IF k = 0 THEN first ELSE Extended(g[k - 1], ranges[k])]
  <1>1. N \in Nat /\ \A k \in 1..N : ranges[k] \in ParamRange /\ ValidRange(ranges[k])
    BY DEF ValidRanges
  <1>2. step \in [1..N -> [S -> S]]
    BY <1>1, ExtendedType
  <1>3. \E g \in [0..N -> S] : Computed(g, N, first, step)
    <2> HIDE DEF step, N
    <2>1. first \in S
      OBVIOUS
    <2> HIDE DEF S, first
    <2> QED  BY <1>1, <1>2, <2>1, RecursionExists
  <1>4. \E g : IsProducts(g)
    <2>1. PICK g \in [0..N -> S] : Computed(g, N, first, step)
      BY <1>3
    <2>2. ASSUME NEW k \in 1..N
          PROVE  g[k] = Extended(g[k - 1], ranges[k])
      <3>1. k - 1 \in 0..N /\ g[k] = step[k][g[k - 1]]
        <4> HIDE DEF step, N
        <4> QED  BY <1>1, <2>1 DEF Computed
      <3>2. g[k - 1] \in S
        BY <3>1
      <3> QED  BY <3>1, <3>2
    <2>3. g = [k \in 0..N |->
                  IF k = 0 THEN first ELSE Extended(g[k - 1], ranges[k])]
      <3>1. g[0] = first /\ DOMAIN g = 0..N
        BY <2>1 DEF Computed
      <3> HIDE DEF N, S, first
      <3> QED  BY <1>1, <2>1, <2>2, <3>1
    <2> QED  BY <2>3
  <1> DEFINE g == Products(ranges)
  <1>5. IsProducts(g)
    BY <1>4 DEF Products, Extended
  <1> HIDE DEF g, N
  <1>6. g = [k \in 0..N |-> IF k = 0 THEN first ELSE Extended(g[k - 1], ranges[k])]
    BY <1>5
  <1>7. g[0] = first
    BY <1>1, <1>6
  <1>8. ASSUME NEW k \in 1..N
        PROVE  g[k] = Extended(g[k - 1], ranges[k])
    <2>1. k \in 0..N /\ k # 0
      BY <1>1
    <2> HIDE DEF first
    <2> QED  BY <1>6, <2>1
  <1> QED  BY <1>7, <1>8 DEF g, N

(* The product is built range by range, so it is the grid at every stage. *)
LEMMA ProductsOnGrid ==
    ASSUME NEW ranges \in Seq(ParamRange), ValidRanges(ranges)
    PROVE  \A k \in 0..Len(ranges) :
              /\ OnGrid(Products(ranges)[k], k, ranges)
              /\ Len(Products(ranges)[k]) = Sizes(ranges)[k]
  <1> DEFINE N == Len(ranges)
             P(k) == Products(ranges)[k]
             Good(k) == OnGrid(P(k), k, ranges) /\ Len(P(k)) = Sizes(ranges)[k]
             T == {k \in Nat : k <= N => Good(k)}
  <1>1. 0 \in T
    <2>1. OnGrid(<< <<>> >>, 0, ranges) /\ Len(<< <<>> >>) = 1
      BY DEF OnGrid
    <2> QED  BY <2>1, ProductsValues, SizesValues
  <1>2. ASSUME NEW k \in Nat, k \in T
        PROVE  k + 1 \in T
    <2> SUFFICES ASSUME k + 1 <= N
                 PROVE  Good(k + 1)
      OBVIOUS
    <2>1. k + 1 \in 1..N /\ (k + 1) - 1 = k /\ Good(k)
      BY <1>2
    <2>2. P(k + 1) = Extended(P(k), ranges[k + 1])
      BY <2>1, ProductsValues
    <2>3. Sizes(ranges)[k + 1] = Sizes(ranges)[k] * RangeCount(ranges[k + 1])
      BY <2>1, SizesValues
    <2>4. OnGrid(P(k + 1), k + 1, ranges)
      BY <2>1, <2>2, ExtendedOnGrid
    <2>5. Len(P(k + 1)) = Len(P(k)) * RangeCount(ranges[k + 1])
      <3>1. P(k) \in Seq(Seq(Int)) /\ ranges[k + 1] \in ParamRange
            /\ ValidRange(ranges[k + 1])
        BY <2>1 DEF OnGrid, ValidRanges
      <3> QED  BY <2>2, <3>1, ExtendedType
    <2> QED  BY <2>1, <2>3, <2>4, <2>5
  <1> HIDE DEF T
  <1>3. \A k \in Nat : k \in T
    BY <1>1, <1>2, SetInduction
  <1> QED  BY <1>3 DEF T

(* _generate_combinations lists max_unique points of the grid, each one a  *)
(* value of every range, and no point twice: the grid is complete.         *)
THEOREM GridComplete ==
    ASSUME NEW ranges \in Seq(ParamRange), ValidRanges(ranges)
    PROVE  /\ OnGrid(GenerateCombinations(ranges), Len(ranges), ranges)
           /\ Len(GenerateCombinations(ranges)) = MaxUnique(ranges)
           /\ MaxUnique(ranges) \in Nat \ {0}
  <1>1. Len(ranges) \in 0..Len(ranges)
    OBVIOUS
  <1>2. /\ OnGrid(Products(ranges)[Len(ranges)], Len(ranges), ranges)
        /\ Len(Products(ranges)[Len(ranges)]) = Sizes(ranges)[Len(ranges)]
    BY <1>1, ProductsOnGrid
  <1> QED  BY <1>2, MaxUniquePositive DEF GenerateCombinations, MaxUnique

-----------------------------------------------------------------------------
(* The ranking. *)

LEMMA IntervalSize ==
    ASSUME NEW N \in Nat
    PROVE  IsFiniteSet(1..N) /\ Cardinality(1..N) = N
  <1>1. 1 \in Int /\ N \in Int
    OBVIOUS
  <1>2. /\ IsFiniteSet(1..N)
        /\ Cardinality(1..N) = IF 1 > N THEN 0 ELSE N - 1 + 1
    BY <1>1, FS_Interval, Zenon
  <1> QED  BY <1>2

(* The results that are not behind the k-th one. *)
Ahead(list, k) ==
    {j \in DOMAIN list :
        \/ list[j].score > list[k].score
        \/ list[j].score = list[k].score /\ j <= k}

(* Counting better and earlier results gives each one a position of its own. *)
LEMMA PositionsDiffer ==
    ASSUME NEW N \in Nat, NEW list, DOMAIN list = 1..N,
           \A k \in 1..N : list[k].score \in Int
    PROVE  /\ \A k \in 1..N : SortPosition(list, k) \in 1..N
           /\ \A j, k \in 1..N :
                 SortPosition(list, j) < SortPosition(list, k) =>
                     list[j].score >= list[k].score
           /\ \A j, k \in 1..N :
                 SortPosition(list, j) = SortPosition(list, k) => j = k
  <1> DEFINE A(k) == Ahead(list, k)
             Before(j, k) == \/ list[j].score > list[k].score
                             \/ list[j].score = list[k].score /\ j < k
  <1>1. ASSUME NEW k \in 1..N
        PROVE  /\ IsFiniteSet(A(k)) /\ Cardinality(A(k)) \in 1..N
               /\ SortPosition(list, k) = Cardinality(A(k))
    <2>1. A(k) \in SUBSET (1..N) /\ k \in A(k)
      BY DEF Ahead
    <2>2. IsFiniteSet(1..N) /\ Cardinality(1..N) = N
      BY IntervalSize
    <2>3. IsFiniteSet(A(k)) /\ Cardinality(A(k)) <= N
      BY <2>1, <2>2, FS_Subset
    <2>4. Cardinality(A(k)) \in Nat /\ Cardinality(A(k)) # 0
      BY <2>1, <2>3, FS_EmptySet, FS_CardinalityType
    <2> QED  BY <2>3, <2>4 DEF SortPosition, Ahead
  <1>2. ASSUME NEW j \in 1..N, NEW k \in 1..N, Before(j, k)
        PROVE  SortPosition(list, j) < SortPosition(list, k)
    <2>1. A(j) \in SUBSET A(k) /\ k \in A(k) /\ k \notin A(j)
      BY <1>2 DEF Ahead
    <2>2. Cardinality(A(j)) <= Cardinality(A(k)) /\ Cardinality(A(j)) # Cardinality(A(k))
      BY <1>1, <2>1, FS_Subset
    <2> QED  BY <1>1, <2>2
  <1>3. \A j, k \in 1..N : j = k \/ Before(j, k) \/ Before(k, j)
    OBVIOUS
  <1>4. \A k \in 1..N : SortPosition(list, k) \in 1..N
    BY <1>1
  <1>5. ASSUME NEW j \in 1..N, NEW k \in 1..N,
               SortPosition(list, j) < SortPosition(list, k)
        PROVE  list[j].score >= list[k].score
    <2> SUFFICES ASSUME Before(k, j)
                 PROVE  FALSE
      OBVIOUS
    <2>1. SortPosition(list, k) < SortPosition(list, j)
      BY <1>2
    <2> QED  BY <1>4, <1>5, <2>1
  <1>6. ASSUME NEW j \in 1..N, NEW k \in 1..N,
               SortPosition(list, j) = SortPosition(list, k)
        PROVE  j = k
    <2>1. ~ Before(j, k) /\ ~ Before(k, j)
      BY <1>2, <1>4, <1>6
    <2> QED  BY <1>3, <2>1
  <1> QED  BY <1>4, <1>5, <1>6

(* results.sort keeps every result once and puts the higher scores first:  *)
(* the sorted list is the results in the order of a permutation.           *)
THEOREM SortedIsPermutation ==
    ASSUME NEW N \in Nat, NEW list, DOMAIN list = 1..N,
           \A k \in 1..N : list[k].score \in Int
    PROVE  \E order \in [1..N -> 1..N] :
              /\ Sorted(list) = [p \in 1..N |-> list[order[p]]]
              /\ \A p, q \in 1..N : order[p] = order[q] => p = q
              /\ \A p, q \in 1..N : p < q =>
                    list[order[p]].score >= list[order[q]].score
  <1> DEFINE position == [k \in 1..N |-> SortPosition(list, k)]
             order == [p \in 1..N |-> CHOOSE k \in 1..N : position[k] = p]
  <1>1. /\ \A k \in 1..N : position[k] \in 1..N
        /\ \A j, k \in 1..N : position[j] = position[k] => j = k
        /\ \A j, k \in 1..N : position[j] < position[k] =>
              list[j].score >= list[k].score
    BY PositionsDiffer
  <1>2. position \in Injection(1..N, 1..N)
    <2>1. DOMAIN position = 1..N /\ position \in [1..N -> 1..N]
      BY <1>1
    <2> HIDE DEF position
    <2> QED  BY <1>1, <2>1 DEF Injection, IsInjective
  <1>3. position \in Surjection(1..N, 1..N)
    <2> HIDE DEF position
    <2>1. IsFiniteSet(1..N)
      BY IntervalSize
    <2> QED  BY <1>2, <2>1, FS_Injection
  <1>4. \A p \in 1..N : order[p] \in 1..N /\ position[order[p]] = p
    <2>1. \A p \in 1..N : \E k \in 1..N : position[k] = p
      BY <1>3 DEF Surjection
    <2> HIDE DEF position
    <2> QED  BY <2>1
  <1>5. Sorted(list) = [p \in 1..N |-> list[order[p]]]
    BY DEF Sorted
  <1>6. order \in [1..N -> 1..N]
    BY <1>4
  <1> HIDE DEF position, order
  <1>7. \A p, q \in 1..N : order[p] = order[q] => p = q
    BY <1>4
  <1>8. ASSUME NEW p \in 1..N, NEW q \in 1..N, p < q
        PROVE  list[order[p]].score >= list[order[q]].score
    <2>1. /\ order[p] \in 1..N /\ order[q] \in 1..N
          /\ position[order[p]] = p /\ position[order[q]] = q
      BY <1>4
    <2>2. position[order[p]] < position[order[q]]
      BY <1>8, <2>1
    <2> QED  BY <1>1, <2>1, <2>2
  <1> QED  BY <1>5, <1>6, <1>7, <1>8

-----------------------------------------------------------------------------
(* The windows of a walk-forward. *)

(* A set of integers with a lower and an upper bound has a largest member. *)
LEMMA LargestMember ==
    ASSUME NEW bound \in Nat, NEW S \in SUBSET (0..bound), S # {}
    PROVE  Max(S) \in S /\ \A x \in S : x <= Max(S)
  <1> DEFINE T == {n \in Nat : bound - n \in S}
  <1>1. T # {}
    <2>1. PICK x \in S : TRUE
      OBVIOUS
    <2>2. bound - x \in T
      BY <2>1
    <2> QED  BY <2>2
  <1>2. PICK m \in T : \A n \in T : m <= n
    BY <1>1, SmallestMember
  <1>3. ASSUME NEW x \in S
        PROVE  x <= bound - m
    <2>1. bound - x \in T /\ x \in Int /\ m \in Int
      OBVIOUS
    <2> HIDE DEF T
    <2> QED  BY <1>2, <2>1
  <1>4. bound - m \in S /\ \A x \in S : bound - m >= x
    BY <1>2, <1>3
  <1> QED  BY <1>4 DEF Max

(* No window of compute_fold_indices starts before the first bar, is       *)
(* tested before its training ends or runs past the last bar.              *)
Window == [trainStart : Int, trainEnd : Int, testStart : Int, testEnd : Int]

InBounds(f, bars) ==
    f \in Window /\ 0 <= f.trainStart /\ f.trainEnd <= f.testStart /\ f.testEnd <= bars

(* Whatever the arguments, the folds are a sequence of windows within the bars. *)
LEMMA FoldsAreSequence ==
    ASSUME NEW bars \in Nat, NEW folds \in Int, NEW ratio \in 0..10, NEW anchor
    PROVE  /\ \E S : ComputeFoldIndices(bars, folds, ratio, anchor) \in Seq(S)
           /\ \A f \in ToSet(ComputeFoldIndices(bars, folds, ratio, anchor)) :
                  InBounds(f, bars)
  <1> DEFINE size == bars \div folds
             Good == {f \in Window : InBounds(f, bars)}
             rolling == [i \in 1..(folds - 1) |-> RollingFold(bars, size, ratio, i - 1)]
             anchored == [i \in 1..folds |-> AnchoredFold(bars, size, i - 1)]
             computed == ComputeFoldIndices(bars, folds, ratio, anchor)
  <1>1. CASE bars < 3 \/ folds < 2
    <2>1. computed = <<>>
      BY <1>1 DEF ComputeFoldIndices
    <2> HIDE DEF computed
    <2>2. computed \in Seq({}) /\ DOMAIN computed = {}
      BY <2>1
    <2> QED  BY <2>2 DEF computed, ToSet
  <1>2. CASE ~ (bars < 3 \/ folds < 2)
    <2>1. folds \in Nat \ {0} /\ folds - 1 \in Nat \ {0} /\ size \in Nat
      BY <1>2, DivMod
    <2>2. size \div 2 \in Nat /\ (size * ratio) \div 10 \in Nat
      <3>1. size * ratio \in Nat
        BY <2>1
      <3> HIDE DEF size
      <3> QED  BY <2>1, <3>1, DivMod
    <2> HIDE DEF size
    <2>3. anchored \in [1..folds -> Good]
      <3>1. ASSUME NEW i \in 1..folds
            PROVE  AnchoredFold(bars, size, i - 1) \in Good
        <4>1. i * size \in Int /\ (i + 1) * size \in Int
              /\ (i - 1) + 1 = i /\ (i - 1) + 2 = i + 1
          BY <2>1
        <4> QED  BY <4>1 DEF AnchoredFold, MinOf, InBounds, Window
      <3> QED  BY <3>1
    <2>4. rolling \in [1..(folds - 1) -> Good]
      <3>1. ASSUME NEW i \in 1..(folds - 1)
            PROVE  RollingFold(bars, size, ratio, i - 1) \in Good
        <4>1. (i - 1) * (size \div 2) \in Nat
          BY <2>1, <2>2
        <4> QED  BY <2>1, <2>2, <4>1 DEF RollingFold, MinOf, InBounds, Window
      <3> QED  BY <3>1
    <2> HIDE DEF rolling, anchored
    <2>5. /\ anchored \in Seq(Good) /\ Len(anchored) = folds
          /\ rolling \in Seq(Good) /\ Len(rolling) = folds - 1
      BY <2>1, <2>3, <2>4, FunctionIsSequence
    <2>6. Last(rolling) \in Good
      BY <2>1, <2>4, <2>5 DEF Last
    <2>7. TailFold(bars, size, Last(rolling)) \in Good
      BY <2>1, <2>6 DEF TailFold, MinOf, MaxOf, InBounds, Window
    <2>8. computed = IF anchor = "anchored" THEN anchored
                     ELSE IF Last(rolling).testEnd < bars
                          THEN Append(rolling, TailFold(bars, size, Last(rolling)))
                          ELSE rolling
      BY <1>2 DEF ComputeFoldIndices, size, rolling, anchored
    <2>9. computed \in Seq(Good)
      <3> HIDE DEF computed, Good
      <3> QED  BY <2>5, <2>7, <2>8
    <2> HIDE DEF computed
    <2> QED  BY <2>9 DEF computed, ToSet
  <1> QED  BY <1>1, <1>2

AnchoredRun(bars, folds, size) ==
    {f \in {AnchoredFold(bars, size, i - 1) : i \in 1..folds} : Runnable(f, 1)}

(* Anchored test windows follow each other without a gap: a bar from the   *)
(* first window on, and before the end of some fold that runs, is tested   *)
(* by exactly one fold that runs.                                          *)
LEMMA AnchoredCover ==
    ASSUME NEW bars \in Nat, NEW folds \in Nat, NEW size \in Nat,
           NEW run, run = AnchoredRun(bars, folds, size),
           NEW last \in run, NEW b \in Int, size <= b, b < last.testEnd
    PROVE  Cardinality({f \in run : f.testStart <= b /\ b < f.testEnd}) = 1
  <1> DEFINE fold(i) == AnchoredFold(bars, size, i - 1)
             q == b \div size
  <1> USE DEF AnchoredRun
  <1>1. ASSUME NEW i \in 1..folds
        PROVE  /\ fold(i).trainStart = 0 /\ fold(i).trainEnd = i * size
               /\ fold(i).testStart = i * size /\ i * size \in Nat /\ (i + 1) * size \in Nat
               /\ fold(i).testEnd = MinOf((i + 1) * size, bars)
    <2>1. (i - 1) + 1 = i /\ (i - 1) + 2 = i + 1 /\ i \in Nat
      OBVIOUS
    <2> QED  BY <2>1 DEF AnchoredFold
  <1> HIDE DEF fold
  <1>2. PICK i \in 1..folds : last = fold(i)
    BY DEF fold
  <1>3. size \in Nat \ {0}
    <2>1. TrainCount(last) >= 1 /\ TrainCount(last) = i * size
      BY <1>1, <1>2 DEF Runnable, TrainCount
    <2> QED  BY <2>1
  <1>4. b \in Nat /\ b < bars /\ b < (i + 1) * size
    BY <1>1, <1>2 DEF MinOf
  <1>5. /\ q \in Nat /\ b % size \in 0..(size - 1)
        /\ b = size * q + (b % size) /\ q < i + 1
    <2>1. q \in Nat /\ b % size \in 0..(size - 1) /\ b = size * q + (b % size)
      BY <1>3, <1>4, DivMod
    <2>2. q < i + 1
      <3>1. b \in Nat /\ i + 1 \in Nat /\ b < (i + 1) * size
        BY <1>4
      <3> QED  BY <1>3, <3>1, DivBound
    <2> QED  BY <2>1, <2>2
  <1> HIDE DEF q
  <1>6. q \in 1..folds
    <2>1. q # 0
      BY <1>3, <1>5
    <2> QED  BY <1>5, <2>1
  <1>7. q * size <= b /\ b < (q + 1) * size
    <2>1. size * q = q * size /\ (q + 1) * size = q * size + size
      BY <1>3, <1>5
    <2> QED  BY <1>3, <1>5, <2>1
  <1>8. fold(q) \in run /\ fold(q).testStart <= b /\ b < fold(q).testEnd
    <2>1. fold(q).testStart <= b /\ b < fold(q).testEnd
      BY <1>1, <1>4, <1>6, <1>7 DEF MinOf
    <2>2. TestCount(fold(q)) >= 1
      BY <1>1, <1>6, <2>1, <1>4 DEF TestCount, MaxOf, MinOf
    <2>3. TrainCount(fold(q)) >= 1
      <3>1. q * size >= 1
        BY <1>3, <1>6
      <3> QED  BY <1>1, <1>6, <3>1 DEF TrainCount
    <2> QED  BY <1>6, <2>1, <2>2, <2>3 DEF Runnable, fold
  <1>9. ASSUME NEW f \in run, f.testStart <= b, b < f.testEnd
        PROVE  f = fold(q)
    <2>1. PICK k \in 1..folds : f = fold(k)
      BY DEF fold
    <2>2. k * size <= b /\ b < (k + 1) * size
      BY <1>1, <1>4, <1>9, <2>1 DEF MinOf
    <2>3. k = q
      <3>1. ~ (k + 1 <= q)
        <4> SUFFICES ASSUME k + 1 <= q
                     PROVE  FALSE
          OBVIOUS
        <4>1. (k + 1) * size <= q * size
          BY <1>3, <1>5
        <4> QED  BY <1>1, <1>4, <1>6, <1>7, <2>2, <4>1
      <3>2. ~ (q + 1 <= k)
        <4> SUFFICES ASSUME q + 1 <= k
                     PROVE  FALSE
          OBVIOUS
        <4>1. (q + 1) * size <= k * size
          BY <1>3, <1>5
        <4> QED  BY <1>1, <1>4, <1>6, <1>7, <2>2, <4>1
      <3> QED  BY <1>5, <3>1, <3>2
    <2> QED  BY <2>1, <2>3
  <1>10. {f \in run : f.testStart <= b /\ b < f.testEnd} = {fold(q)}
    BY <1>8, <1>9
  <1> QED  BY <1>10, FS_Singleton

(* The windows of a walk-forward are out of sample. *)
OutOfSample(bars, folds, ratio, anchor) ==
    LET computed == ToSet(ComputeFoldIndices(bars, folds, ratio, anchor))
        run      == {f \in computed : Runnable(f, 1)}
    IN  /\ \A f \in run : /\ 0 <= f.trainStart /\ f.trainEnd <= f.testStart
                          /\ f.testEnd <= bars
        /\ anchor = "anchored" /\ run # {} =>
              \A b \in (bars \div folds)..(Max({f.testEnd : f \in run}) - 1) :
                  Cardinality({f \in run : f.testStart <= b /\ b < f.testEnd}) = 1

(* A walk-forward never tests a bar it trained on or one that is not       *)
(* there, whatever the number of bars, folds and the training ratio, and   *)
(* anchored folds leave no bar out between the first window and the last.  *)
THEOREM FoldsAreSound ==
    ASSUME NEW bars \in Nat, NEW folds \in Int, folds >= 2, NEW ratio \in 0..10,
           NEW anchor
    PROVE  OutOfSample(bars, folds, ratio, anchor)
  <1> PICK run : run = {f \in ToSet(ComputeFoldIndices(bars, folds, ratio, anchor)) :
                           Runnable(f, 1)}
    OBVIOUS
  <1> DEFINE computed == ComputeFoldIndices(bars, folds, ratio, anchor)
             size == bars \div folds
             ends == {f.testEnd : f \in run}
  <1>1. \A f \in run : InBounds(f, bars)
    BY FoldsAreSequence
  <1>2. ASSUME anchor = "anchored", run # {},
               NEW b \in (bars \div folds)..(Max({f.testEnd : f \in run}) - 1)
        PROVE  Cardinality({f \in run : f.testStart <= b /\ b < f.testEnd}) = 1
    <2>1. folds \in Nat \ {0} /\ size \in Nat
      BY DivMod
    <2>2. run = AnchoredRun(bars, folds, size)
      <3>1. CASE bars < 3
        <4>1. computed = <<>>
          BY <3>1 DEF ComputeFoldIndices
        <4>2. ToSet(computed) = {}
          BY <4>1 DEF ToSet
        <4> QED  BY <1>2, <4>2 DEF AnchoredRun
      <3>2. CASE ~ (bars < 3)
        <4>1. computed = [i \in 1..folds |-> AnchoredFold(bars, size, i - 1)]
          BY <1>2, <2>1, <3>2 DEF ComputeFoldIndices
        <4>2. ToSet(computed) = {AnchoredFold(bars, size, i - 1) : i \in 1..folds}
          BY <4>1 DEF ToSet
        <4> QED  BY <4>2 DEF AnchoredRun
      <3> QED  BY <3>1, <3>2
    <2>3. ends \in SUBSET (0..bars) /\ ends # {}
      <3>1. ASSUME NEW f \in run
            PROVE  f.testEnd \in 0..bars
        <4>1. InBounds(f, bars) /\ Runnable(f, 1)
          BY <1>1
        <4> QED
          BY <4>1 DEF InBounds, Window, Runnable, TrainCount, TestCount, MaxOf
      <3> QED  BY <1>2, <3>1
    <2>4. Max(ends) \in ends /\ ends \subseteq Int
      <3> HIDE DEF ends
      <3>1. ends \subseteq Int
        BY <2>3
      <3>2. Max(ends) \in ends
        BY <2>3, LargestMember, Zenon
      <3> QED  BY <3>1, <3>2
    <2>5. PICK last \in run : last.testEnd = Max(ends)
      BY <2>4
    <2>6. b \in Int /\ size <= b /\ b < last.testEnd
      <3>1. Max(ends) \in Int /\ size \in Int
        BY <2>1, <2>4
      <3>2. b \in size..(Max(ends) - 1)
        BY <1>2
      <3> HIDE DEF size, ends
      <3> QED  BY <2>5, <3>1, <3>2
    <2> HIDE DEF size, ends, computed
    <2> QED  BY <2>1, <2>2, <2>6, AnchoredCover
  <1>3. /\ \A f \in run : /\ 0 <= f.trainStart /\ f.trainEnd <= f.testStart
                          /\ f.testEnd <= bars
        /\ anchor = "anchored" /\ run # {} =>
              \A b \in (bars \div folds)..(Max({f.testEnd : f \in run}) - 1) :
                  Cardinality({f \in run : f.testStart <= b /\ b < f.testEnd}) = 1
    BY <1>1, <1>2, Zenon DEF InBounds
  <1> QED  BY <1>3, Zenon DEF OutOfSample

-----------------------------------------------------------------------------
(* The jobs. *)

Request == StartOptimizationJobRequest \cup StartWalkForwardJobRequest

(* s is a sequence, of whatever it holds. *)
IsSequence(s) == s \in Seq(ToSet(s))

(* Every variable has its shape; TypeOK is what a client sees of it. *)
Shapes ==
    /\ request \in [Jobs -> {NoRequest} \cup Request]
    /\ status \in [Jobs -> Statuses]
    /\ total \in [Jobs -> Nat] /\ done \in [Jobs -> Nat] /\ pct \in [Jobs -> Nat]
    /\ coro \in [Jobs -> {"none", "scheduled", "awaiting", "done"}]
    /\ worker \in [Jobs -> {"none", "begin", "load", "loop", "returned", "raised"}]
    /\ DOMAIN results = Jobs /\ DOMAIN work = Jobs /\ DOMAIN found = Jobs
    /\ results = [j \in Jobs |-> results[j]]
    /\ work = [j \in Jobs |-> work[j]] /\ found = [j \in Jobs |-> found[j]]
    /\ known \subseteq Jobs /\ tasks \subseteq known /\ asked \subseteq Jobs
    /\ canceller \in Jobs \cup {NoJob}

(* Jobs are started in the order of their numbers, and nothing happens to  *)
(* one before.                                                             *)
Sequential ==
    /\ Started = 1..Cardinality(Started)
    /\ \A j \in Jobs : request[j] = NoRequest =>
           coro[j] = "none" /\ j \notin known /\ canceller # j
    /\ \A j \in Jobs : coro[j] \in {"none", "scheduled"} => worker[j] = "none"

(* Only a job somebody asked to cancel is cancelled. *)
Requested ==
    /\ cancelReq \subseteq asked
    /\ canceller # NoJob => canceller \in asked
    /\ \A j \in Jobs : status[j] = "cancelled" => j \in asked

(* The thread answers once, at its end, and completes the job by it; from  *)
(* then on only a cancellation changes the status.                         *)
Working == {"none", "begin", "load", "loop"}

Answered ==
    \A j \in Jobs :
        /\ worker[j] \in Working \cup {"raised"} =>
               results[j] = <<>> /\ status[j] # "completed"
        /\ status[j] = "completed" => results[j] # <<>>
        /\ results[j] # <<>> => status[j] = "completed" \/ j \in asked

(* The rest is about one thread: a job with request r whose thread is at   *)
(* stage "stage", tries "items", has found "rows" and shows t, d and p as  *)
(* total, done and percentage.                                             *)

(* Nothing is counted before the loop begins. *)
Untouched(stage, rows, d, p) ==
    stage \in {"none", "begin", "load"} => d = 0 /\ p = 0 /\ rows = <<>>

(* The numbers of a grid search stay within what it announced. *)
GridCounts(r, t, d, p) == r.kind = "grid" => d <= t /\ p <= 100

GridLoop(r, stage, items, rows, d, p) ==
    stage = "loop" /\ r.kind = "grid" =>
        /\ d <= Len(rows)
        /\ p <= (Len(rows) * 100) \div Len(items)

(* Those of a walk-forward follow the folds its loop has run. *)
FoldPct(runs, announced) ==
    IF announced = 0 THEN 0 ELSE (runs * 100) \div announced

FoldLoop(r, stage, items, rows, t, d, p) ==
    stage = "loop" /\ r.kind = "walk_forward" =>
        /\ IsSequence(items) /\ items # <<>>
        /\ IsSequence(rows) /\ Len(rows) <= Len(items)
        /\ t = MaxOf(Executable(items, r), 1)
        /\ d <= RunsDone(items, Len(rows), r)
        /\ p <= FoldPct(RunsDone(items, Len(rows), r), Executable(items, r))

Overrun(t, d, p) == p > 100 => d > t

(* A grid search tries a list of distinct grid points of the right length, *)
(* and keeps one result of each, in the order of the list.                 *)
SearchList(combos, r) ==
    /\ ValidRanges(r.ranges)
    /\ OnGrid(combos, Len(r.ranges), r.ranges)
    /\ combos # <<>>
    /\ Len(combos) <= SearchSize(r)
    /\ Len(combos) = SearchSize(r) \/ MayBeShort(r)

IsScore(s) == s \in Int /\ None < s /\ s <= Infinity

Tried(rows, combos) ==
    /\ IsSequence(rows) /\ Len(rows) <= Len(combos)
    /\ \A k \in 1..Len(rows) : rows[k].params = combos[k] /\ IsScore(rows[k].score)

Searching(r, stage, items, rows, t) ==
    stage \in {"load", "loop"} =>
        /\ stage = "load" => r.kind = "grid"
        /\ r.kind = "grid" =>
              SearchList(items, r) /\ Tried(rows, items) /\ t = Len(items)

RanksReported(r, answer) ==
    answer # <<>> /\ r.kind = "grid" => CompleteRanking(answer, r)

Thread(r, stage, items, rows, t, d, p, answer) ==
    /\ Untouched(stage, rows, d, p)
    /\ GridCounts(r, t, d, p)
    /\ GridLoop(r, stage, items, rows, d, p)
    /\ FoldLoop(r, stage, items, rows, t, d, p)
    /\ Overrun(t, d, p)
    /\ Searching(r, stage, items, rows, t)
    /\ RanksReported(r, answer)

ThreadOf(j) == Thread(request[j], worker[j], work[j], found[j],
                      total[j], done[j], pct[j], results[j])

ThreadsSound == \A j \in Jobs : ThreadOf(j)

IInv == Shapes /\ Sequential /\ Requested /\ Answered /\ ThreadsSound

-----------------------------------------------------------------------------
(* Sequences and requests. *)

LEMMA SequenceFacts ==
    ASSUME NEW s, IsSequence(s)
    PROVE  /\ Len(s) \in Nat /\ DOMAIN s = 1..Len(s)
           /\ s # <<>> <=> Len(s) # 0
  BY DEF IsSequence

(* A sequence over a set is a sequence. *)
LEMMA SequenceOf ==
    ASSUME NEW S, NEW s \in Seq(S)
    PROVE  IsSequence(s)
  <1>1. Len(s) \in Nat /\ DOMAIN s = 1..Len(s) /\ \A i \in 1..Len(s) : s[i] \in ToSet(s)
    BY DEF ToSet
  <1>2. s = [i \in 1..Len(s) |-> s[i]]
    OBVIOUS
  <1>3. s \in [1..Len(s) -> ToSet(s)]
    BY <1>1, <1>2
  <1> QED  BY <1>1, <1>3, FunctionIsSequence DEF IsSequence

(* The elements of a list before and after an append. *)
LEMMA AppendKeeps ==
    ASSUME NEW s, IsSequence(s), NEW x
    PROVE  /\ IsSequence(Append(s, x)) /\ Len(Append(s, x)) = Len(s) + 1
           /\ Append(s, x)[Len(s) + 1] = x
           /\ \A i \in 1..Len(s) : Append(s, x)[i] = s[i]
  <1> DEFINE S == ToSet(s) \cup {x}
  <1>1. Len(s) \in Nat /\ s \in Seq(S) /\ x \in S
    BY DEF IsSequence
  <1> HIDE DEF S
  <1>2. /\ Append(s, x) \in Seq(S) /\ Len(Append(s, x)) = Len(s) + 1
        /\ \A i \in 1..(Len(s) + 1) :
              Append(s, x)[i] = IF i = Len(s) + 1 THEN x ELSE s[i]
    BY <1>1, AppendValues
  <1>3. /\ Len(s) + 1 \in 1..(Len(s) + 1)
        /\ \A i \in 1..Len(s) : i \in 1..(Len(s) + 1) /\ i # Len(s) + 1
    BY <1>1
  <1>4. IsSequence(Append(s, x))
    BY <1>2, SequenceOf
  <1> QED  BY <1>2, <1>3, <1>4

(* What the argument checks guarantee of a request. *)
LEMMA RequestFacts ==
    ASSUME NEW r \in Request
    PROVE  /\ r.ranges \in Seq(ParamRange) /\ r.kind \in {"grid", "walk_forward"}
           /\ r # NoRequest /\ r.count \in Int
           /\ r.kind = "walk_forward" =>
                 /\ r.bars \in Nat /\ r.folds \in Int /\ r.ratio \in 0..10
                 /\ r.minTrain \in Int /\ r.minTest \in Int
  <1>1. CASE r \in StartOptimizationJobRequest
    BY <1>1 DEF StartOptimizationJobRequest, NoRequest, RangeList, ParamRange
  <1>2. CASE r \in StartWalkForwardJobRequest
    BY <1>2 DEF StartWalkForwardJobRequest, NoRequest, RangeList, ParamRange
  <1> QED  BY <1>1, <1>2 DEF Request

-----------------------------------------------------------------------------
(* A grid search. *)

LEMMA RandomTargetIsNat ==
    ASSUME NEW ranges \in Seq(ParamRange), ValidRanges(ranges), NEW count \in Int
    PROVE  RandomTarget(ranges, count, MaxCombinations) \in Nat
  <1>1. MaxUnique(ranges) \in Nat
    BY MaxUniquePositive
  <1> QED  BY <1>1, OptimizationAssumption DEF RandomTarget, MaxOf, MinOf

(* A list with as many values as places repeats none. *)
LEMMA DistinctBySize ==
    ASSUME NEW N \in Nat, NEW S, NEW s \in [1..N -> S], Cardinality(ToSet(s)) = N
    PROVE  \A m, n \in 1..N : s[m] = s[n] => m = n
  <1>1. s \in Surjection(1..N, ToSet(s))
    BY DEF Surjection, ToSet
  <1>2. IsFiniteSet(1..N) /\ Cardinality(1..N) = N
    BY IntervalSize
  <1>3. s \in Injection(1..N, ToSet(s))
    BY <1>1, <1>2, FS_Surjection
  <1> QED  BY <1>3 DEF Injection, IsInjective

(* Combinations drawn without repetition from the grid lie on it. *)
LEMMA DrawOnGrid ==
    ASSUME NEW ranges, NEW k, NEW P, OnGrid(P, k, ranges),
           NEW m \in Nat, NEW combos \in [1..m -> ToSet(P)],
           Cardinality(ToSet(combos)) = m
    PROVE  OnGrid(combos, k, ranges) /\ Len(combos) = m
  <1>1. P \in Seq(Seq(Int)) /\ ToSet(P) \subseteq Seq(Int)
    BY DEF OnGrid, ToSet
  <1>2. combos \in Seq(Seq(Int)) /\ Len(combos) = m
    <2>1. combos \in [1..m -> Seq(Int)]
      BY <1>1
    <2> QED  BY <2>1, FunctionIsSequence
  <1>3. \A a, b \in 1..m : combos[a] = combos[b] => a = b
    BY DistinctBySize
  <1>4. ASSUME NEW n \in 1..m
        PROVE  \E g \in 1..Len(P) : combos[n] = P[g]
    <2>1. combos[n] \in ToSet(P) /\ DOMAIN P = 1..Len(P)
      BY <1>1
    <2> QED  BY <2>1 DEF ToSet
  <1>5. ASSUME NEW n \in 1..m
        PROVE  /\ Len(combos[n]) = k
               /\ \A i \in 1..k :
                     /\ combos[n][i] \in ranges[i].min..ranges[i].max
                     /\ (combos[n][i] - ranges[i].min) % ranges[i].step = 0
    <2>1. PICK g \in 1..Len(P) : combos[n] = P[g]
      BY <1>4
    <2>2. /\ Len(P[g]) = k
          /\ \A i \in 1..k : /\ P[g][i] \in ranges[i].min..ranges[i].max
                            /\ (P[g][i] - ranges[i].min) % ranges[i].step = 0
      BY DEF OnGrid
    <2> QED  BY <2>1, <2>2
  <1> QED  BY <1>2, <1>3, <1>5 DEF OnGrid

(* Whatever list the optimizer may choose, it is a search of the grid. *)
LEMMA SearchesAreLists ==
    ASSUME NEW r \in Request, ValidRanges(r.ranges),
           NEW combos \in Searches(r), combos # <<>>
    PROVE  SearchList(combos, r)
  <1> DEFINE G == GenerateCombinations(r.ranges)
             N == Len(r.ranges)
             target == RandomTarget(r.ranges, r.count, MaxCombinations)
  <1>1. r.ranges \in Seq(ParamRange) /\ r.count \in Int
    BY RequestFacts
  <1>2. OnGrid(G, N, r.ranges) /\ Len(G) = MaxUnique(r.ranges) /\ MaxUnique(r.ranges) \in Nat
    BY <1>1, GridComplete
  <1>3. target \in Nat
    BY <1>1, RandomTargetIsNat
  <1> HIDE DEF G, N, target
  <1>4. CASE r.method # "random"
    <2>1. combos = G
      BY <1>4 DEF Searches, G
    <2> QED  BY <1>2, <1>4, <2>1 DEF SearchList, SearchSize, N
  <1>5. CASE r.method = "random"
    <2>1. combos \in SeqOf(ToSet(G), target) /\ RandomDraw(combos, r.ranges, r.count, MaxCombinations)
      BY <1>5 DEF Searches, G, target
    <2>2. PICK m \in 0..target : combos \in [1..m -> ToSet(G)]
      BY <2>1 DEF SeqOf
    <2>3. m \in Nat /\ Cardinality(ToSet(combos)) = Len(combos) /\ Len(combos) = m
      <3>1. \A i \in 1..m : combos[i] \in ToSet(G)
        BY <2>2
      <3>2. Len(combos) = m /\ m \in Nat
        BY <1>3, <2>2, FunctionIsSequence
      <3> QED  BY <2>1, <3>2 DEF RandomDraw
    <2>4. OnGrid(combos, N, r.ranges)
      BY <1>2, <2>2, <2>3, DrawOnGrid
    <2>5. Len(combos) <= target
      BY <1>3, <2>2, <2>3
    <2>6. Len(combos) = target \/ MaxUnique(r.ranges) > MaxCombinations
      BY <1>2, <2>1, OptimizationAssumption DEF RandomDraw, target
    <2> QED  BY <1>5, <2>4, <2>5, <2>6 DEF SearchList, SearchSize, MayBeShort, N, target
  <1> QED  BY <1>4, <1>5

(* What the engine reports, or the zero of a failure, is a score. *)
LEMMA OutcomesAreScores ==
    ASSUME NEW combo, NEW o \in SomeOutcomes
    PROVE  BacktestOne(combo, o).params = combo /\ IsScore(BacktestOne(combo, o).score)
  <1>1. CASE o.stopped = "no"
    <2>1. o.raw \in RawMetrics
      BY <1>1 DEF SomeOutcomes, Outcome
    <2>2. o.raw = None \/ (o.raw \in Int /\ None < o.raw /\ o.raw < Infinity)
      BY <2>1, OptimizationAssumption
    <2> QED  BY <1>1, <2>2 DEF BacktestOne, ParseMetric, IsScore, None, Infinity
  <1>2. CASE o.stopped # "no"
    <2>1. o.stopped \in {"invalid", "missing", "warmup", "raised"}
      BY <1>2 DEF SomeOutcomes, Outcome
    <2> QED  BY <2>1 DEF BacktestOne, Rejected, IsScore, None, Infinity
  <1> QED  BY <1>1, <1>2

(* The ranking of the results of a whole search is complete. *)
LEMMA RankingIsComplete ==
    ASSUME NEW r \in Request, NEW combos, SearchList(combos, r),
           NEW rows, Tried(rows, combos), Len(rows) = Len(combos)
    PROVE  CompleteRanking(Ranked(rows), r) /\ Ranked(rows) # <<>>
  <1> DEFINE N == Len(combos)
             K == Len(r.ranges)
             ranked == Ranked(rows)
             tried == {ranked[p].params : p \in DOMAIN ranked}
  <1>1. /\ combos \in Seq(Seq(Int)) /\ N \in Nat \ {0}
        /\ \A m, n \in 1..N : combos[m] = combos[n] => m = n
        /\ \A n \in 1..N : \A i \in 1..K :
              /\ combos[n][i] \in r.ranges[i].min..r.ranges[i].max
              /\ (combos[n][i] - r.ranges[i].min) % r.ranges[i].step = 0
    BY DEF SearchList, OnGrid
  <1>2. /\ DOMAIN rows = 1..N
        /\ \A k \in 1..N : rows[k].params = combos[k] /\ IsScore(rows[k].score)
    BY SequenceFacts DEF Tried
  <1> HIDE DEF N
  <1>3. PICK order \in [1..N -> 1..N] :
           /\ Sorted(rows) = [p \in 1..N |-> rows[order[p]]]
           /\ \A p, q \in 1..N : order[p] = order[q] => p = q
           /\ \A p, q \in 1..N : p < q => rows[order[p]].score >= rows[order[q]].score
    <2>1. \A k \in 1..N : rows[k].score \in Int
      BY <1>2 DEF IsScore
    <2> QED  BY <1>1, <1>2, <2>1, SortedIsPermutation
  <1>4. ranked = [p \in 1..N |-> WithRank(rows[order[p]], p)]
    <2>1. \A p \in 1..N : Sorted(rows)[p] = rows[order[p]]
      BY <1>3
    <2> QED  BY <1>2, <2>1 DEF Ranked
  <1>5. /\ DOMAIN ranked = 1..N
        /\ \A p \in 1..N : /\ order[p] \in 1..N
                           /\ ranked[p].rank = p
                           /\ ranked[p].params = combos[order[p]]
                           /\ ranked[p].score = rows[order[p]].score
                           /\ IsScore(ranked[p].score)
    BY <1>2, <1>4 DEF WithRank
  <1>6. Len(ranked) = N
    <2>1. ranked \in [1..N -> {WithRank(rows[order[p]], p) : p \in 1..N}]
      BY <1>4
    <2> HIDE DEF ranked
    <2> QED  BY <1>1, <2>1, FunctionIsSequence
  <1> HIDE DEF ranked
  <1>7. Cardinality(tried) = N
    <2> DEFINE f == [p \in 1..N |-> ranked[p].params]
    <2>1. f \in [1..N -> tried] /\ \A c \in tried : \E p \in 1..N : f[p] = c
      BY <1>5
    <2>2. ASSUME NEW p \in 1..N, NEW q \in 1..N, f[p] = f[q]
          PROVE  p = q
      <3>1. combos[order[p]] = combos[order[q]] /\ order[p] \in 1..N /\ order[q] \in 1..N
        BY <1>5, <2>2
      <3>2. order[p] = order[q]
        BY <1>1, <3>1
      <3> QED  BY <1>3, <3>2
    <2> HIDE DEF f, tried
    <2>3. f \in Surjection(1..N, tried) /\ f \in Injection(1..N, tried)
      BY <2>1, <2>2 DEF Surjection, Injection, IsInjective
    <2>4. IsFiniteSet(1..N) /\ Cardinality(1..N) = N
      BY <1>1, IntervalSize
    <2> QED  BY <2>3, <2>4, FS_Surjection
  <1>8. ASSUME NEW c \in tried, NEW k \in DOMAIN r.ranges
        PROVE  /\ c[k] \in r.ranges[k].min..r.ranges[k].max
               /\ (c[k] - r.ranges[k].min) % r.ranges[k].step = 0
    <2>1. PICK p \in 1..N : c = combos[order[p]] /\ order[p] \in 1..N
      BY <1>5
    <2>2. k \in 1..K
      BY RequestFacts
    <2> QED  BY <1>1, <2>1, <2>2
  <1>9. ASSUME NEW p \in 1..N, NEW q \in 1..N, p < q
        PROVE  Precedes(ranked[p].score, ranked[q].score)
    <2>1. /\ ranked[p].score >= ranked[q].score
          /\ IsScore(ranked[p].score) /\ IsScore(ranked[q].score)
      BY <1>3, <1>5, <1>9
    <2> QED  BY <2>1 DEF Precedes, Reported, IsScore, None, Infinity
  <1>10. N <= SearchSize(r) /\ (N = SearchSize(r) \/ MayBeShort(r))
    BY DEF SearchList, N
  <1>11. CompleteRanking(ranked, r)
    <2>1. \A p \in DOMAIN ranked : ranked[p].rank = p
      BY <1>5
    <2>2. \A p, q \in DOMAIN ranked : p < q => Precedes(ranked[p].score, ranked[q].score)
      BY <1>5, <1>9
    <2> QED  BY <1>6, <1>7, <1>8, <1>10, <2>1, <2>2 DEF CompleteRanking
  <1>12. ranked # <<>>
    BY <1>1, <1>6
  <1> QED  BY <1>11, <1>12 DEF ranked

(* The percentage of what is done grows with it and stays below 100 until the end. *)
LEMMA Percentages ==
    ASSUME NEW a \in Nat, NEW b \in Nat, NEW c \in Nat \ {0}, a <= b
    PROVE  /\ (a * 100) \div c \in Nat
           /\ (a * 100) \div c <= (b * 100) \div c
           /\ a <= c => (a * 100) \div c <= 100
  <1> DEFINE x == a * 100
             y == b * 100
  <1>1. x \in Nat /\ y \in Nat /\ x <= y
    OBVIOUS
  <1>2. a <= c => x < 101 * c
    OBVIOUS
  <1> HIDE DEF x, y
  <1>3. x \div c \in Nat /\ y \div c \in Nat
    BY <1>1, DivMod
  <1>4. x \div c <= y \div c
    <2>1. y = c * (y \div c) + (y % c) /\ y % c < c
      BY <1>1, DivMod
    <2>2. y < (y \div c + 1) * c
      BY <1>1, <1>3, <2>1, DivMod
    <2>3. x < (y \div c + 1) * c /\ y \div c + 1 \in Nat
      BY <1>1, <1>3, <2>2
    <2>4. x \div c < y \div c + 1
      BY <1>1, <2>3, DivBound
    <2> QED  BY <1>3, <2>4
  <1>5. a <= c => x \div c < 101
    BY <1>1, <1>2, DivBound
  <1> QED  BY <1>3, <1>4, <1>5 DEF x, y

-----------------------------------------------------------------------------
(* What each step of a thread does to the numbers of its job. *)

LEMMA BeginGridThread ==
    ASSUME NEW r \in Request, r.kind = "grid", ValidRanges(r.ranges),
           NEW combos \in Searches(r), combos # <<>>,
           NEW items, NEW rows, NEW t, NEW d, NEW p,
           Thread(r, "begin", items, rows, t, d, p, <<>>)
    PROVE  Thread(r, "load", combos, rows, Len(combos), d, p, <<>>)
  <1>1. SearchList(combos, r) /\ Len(combos) \in Nat
    <2>1. SearchList(combos, r)
      BY SearchesAreLists
    <2>2. combos \in Seq(Seq(Int))
      BY <2>1 DEF SearchList, OnGrid
    <2> QED  BY <2>1, <2>2
  <1>2. d = 0 /\ p = 0 /\ rows = <<>>
    BY DEF Thread, Untouched
  <1>3. Tried(rows, combos)
    BY <1>1, <1>2 DEF Tried, IsSequence
  <1> QED
    BY <1>1, <1>2, <1>3
    DEF Thread, Untouched, GridCounts, GridLoop, FoldLoop, Overrun, Searching,
        RanksReported

(* Loading the artifact changes nothing that was enumerated or computed. *)
LEMMA LoadThread ==
    ASSUME NEW r \in Request, NEW items, NEW rows, NEW t, NEW d, NEW p,
           Thread(r, "load", items, rows, t, d, p, <<>>)
    PROVE  Thread(r, "loop", items, rows, t, d, p, <<>>)
  <1>1. r.kind = "grid" /\ SearchList(items, r) /\ d = 0 /\ p = 0 /\ rows = <<>>
    BY DEF Thread, Untouched, Searching
  <1>2. Len(items) \in Nat \ {0} /\ Len(rows) = 0
    BY <1>1 DEF SearchList, OnGrid
  <1>3. (0 * 100) \div Len(items) \in Nat
    BY <1>2, Percentages
  <1> QED
    BY <1>1, <1>2, <1>3
    DEF Thread, Untouched, GridCounts, GridLoop, FoldLoop, Overrun, Searching,
        RanksReported

(* A thread that leaves without an answer keeps the numbers as they are. *)
LEMMA LeaveThread ==
    ASSUME NEW r, NEW stage, NEW how \in {"returned", "raised"},
           NEW items, NEW rows, NEW t, NEW d, NEW p, NEW answer,
           Thread(r, stage, items, rows, t, d, p, answer)
    PROVE  Thread(r, how, items, rows, t, d, p, answer)
  BY DEF Thread, Untouched, GridCounts, GridLoop, FoldLoop, Overrun, Searching,
         RanksReported

(* One more combination extends the ranking by its row; progress counts the rows. *)
LEMMA GridStepThread ==
    ASSUME NEW r \in Request, r.kind = "grid", NEW items, NEW rows,
           NEW t \in Nat, NEW d \in Nat, NEW p \in Nat,
           Thread(r, "loop", items, rows, t, d, p, <<>>),
           Len(rows) < Len(items), NEW o \in SomeOutcomes,
           NEW row, row = BacktestOne(items[Len(rows) + 1], o)
    PROVE  /\ Thread(r, "loop", items, Append(rows, row), t, Len(rows),
                     (Len(rows) * 100) \div Len(items), <<>>)
           /\ Len(rows) \in Nat /\ (Len(rows) * 100) \div Len(items) \in Nat
           /\ d <= Len(rows) /\ p <= (Len(rows) * 100) \div Len(items)
  <1> DEFINE n == Len(rows)
             more == Append(rows, row)
  <1>1. /\ SearchList(items, r) /\ Tried(rows, items) /\ t = Len(items)
        /\ d <= n /\ p <= (n * 100) \div Len(items)
    BY DEF Thread, Searching, GridLoop
  <1>2. Len(items) \in Nat \ {0} /\ n \in Nat /\ IsSequence(rows)
    BY <1>1, SequenceFacts DEF SearchList, OnGrid, Tried
  <1>3. /\ IsSequence(more) /\ Len(more) = n + 1 /\ more[n + 1] = row
        /\ \A i \in 1..n : more[i] = rows[i]
    BY <1>2, AppendKeeps
  <1>4. row.params = items[n + 1] /\ IsScore(row.score)
    BY OutcomesAreScores
  <1> HIDE DEF more
  <1>5. ASSUME NEW k \in 1..Len(more)
        PROVE  more[k].params = items[k] /\ IsScore(more[k].score)
    <2>1. CASE k = n + 1
      BY <1>3, <1>4, <2>1
    <2>2. CASE k # n + 1
      <3>1. k \in 1..n
        BY <1>2, <1>3, <2>2
      <3> QED  BY <1>1, <1>3, <3>1 DEF Tried
    <2> QED  BY <2>1, <2>2
  <1>6. Tried(more, items)
    BY <1>2, <1>3, <1>5 DEF Tried
  <1> HIDE DEF n
  <1>7. /\ (n * 100) \div Len(items) \in Nat
        /\ (n * 100) \div Len(items) <= ((n + 1) * 100) \div Len(items)
        /\ (n * 100) \div Len(items) <= 100
    <2>1. n \in Nat /\ n + 1 \in Nat /\ n <= n + 1 /\ n <= Len(items)
      BY <1>2 DEF n
    <2> QED  BY <1>2, <2>1, Percentages
  <1>8. n <= Len(items)
    BY <1>2 DEF n
  <1>9. Thread(r, "loop", items, more, t, n, (n * 100) \div Len(items), <<>>)
    <2>1. Untouched("loop", more, n, (n * 100) \div Len(items))
      BY DEF Untouched
    <2>2. GridCounts(r, t, n, (n * 100) \div Len(items))
      BY <1>1, <1>7, <1>8 DEF GridCounts
    <2>3. GridLoop(r, "loop", items, more, n, (n * 100) \div Len(items))
      BY <1>2, <1>3, <1>7 DEF GridLoop
    <2>4. FoldLoop(r, "loop", items, more, t, n, (n * 100) \div Len(items))
      BY DEF FoldLoop
    <2>5. Overrun(t, n, (n * 100) \div Len(items))
      BY <1>7 DEF Overrun
    <2>6. Searching(r, "loop", items, more, t)
      BY <1>1, <1>6 DEF Searching
    <2>7. RanksReported(r, <<>>)
      BY DEF RanksReported
    <2> QED  BY <2>1, <2>2, <2>3, <2>4, <2>5, <2>6, <2>7 DEF Thread
  <1> QED  BY <1>1, <1>2, <1>7, <1>9 DEF n, more

(* The last combination leaves a ranking of all of them to be answered. *)
LEMMA GridFinishThread ==
    ASSUME NEW r \in Request, r.kind = "grid", NEW items, NEW rows,
           NEW t \in Nat, NEW d \in Nat, NEW p \in Nat,
           Thread(r, "loop", items, rows, t, d, p, <<>>),
           Len(rows) = Len(items)
    PROVE  /\ Thread(r, "returned", items, rows, t, Len(items), 100, Ranked(rows))
           /\ Ranked(rows) # <<>>
           /\ Len(items) \in Nat /\ d <= Len(items) /\ p <= 100
  <1>1. /\ SearchList(items, r) /\ Tried(rows, items) /\ t = Len(items)
        /\ d <= Len(rows) /\ p <= 100
    BY DEF Thread, Searching, GridLoop, GridCounts
  <1>2. CompleteRanking(Ranked(rows), r) /\ Ranked(rows) # <<>>
    BY <1>1, RankingIsComplete
  <1>3. Len(items) \in Nat
    BY <1>1 DEF SearchList, OnGrid
  <1> QED
    BY <1>1, <1>2, <1>3
    DEF Thread, Untouched, GridCounts, GridLoop, FoldLoop, Overrun, Searching,
        RanksReported

(* The counter of runs is the number of runnable folds passed so far. *)
LEMMA RunsCount ==
    ASSUME NEW items, NEW n \in Nat, NEW r
    PROVE  /\ RunsDone(items, 0, r) = 0
           /\ RunsDone(items, n, r) \in Nat
           /\ RunsDone(items, n + 1, r) =
                 RunsDone(items, n, r) + (IF Runnable(items[n + 1], r.minTrain) THEN 1 ELSE 0)
  <1> DEFINE ran(m) == {k \in 1..m : Runnable(items[k], r.minTrain)}
  <1>1. \A m \in Nat : IsFiniteSet(ran(m)) /\ Cardinality(ran(m)) \in Nat
    <2> TAKE m \in Nat
    <2>1. IsFiniteSet(1..m) /\ ran(m) \in SUBSET (1..m)
      BY IntervalSize
    <2>2. IsFiniteSet(ran(m))
      BY <2>1, FS_Subset
    <2> QED  BY <2>2, FS_CardinalityType
  <1>2. ran(0) = {}
    OBVIOUS
  <1>3. CASE Runnable(items[n + 1], r.minTrain)
    <2>1. ran(n + 1) = ran(n) \cup {n + 1} /\ n + 1 \notin ran(n)
      BY <1>3
    <2> HIDE DEF ran
    <2>2. Cardinality(ran(n + 1)) = Cardinality(ran(n)) + 1
      BY <1>1, <2>1, FS_AddElement
    <2> QED  BY <1>1, <1>2, <1>3, <2>2, FS_EmptySet DEF RunsDone, ran
  <1>4. CASE ~ Runnable(items[n + 1], r.minTrain)
    <2>1. ran(n + 1) = ran(n)
      BY <1>4
    <2> HIDE DEF ran
    <2>2. Cardinality(ran(n + 1)) = Cardinality(ran(n))
      BY <2>1
    <2>3. Cardinality(ran(0)) = 0 /\ Cardinality(ran(n)) \in Nat
      BY <1>1, <1>2, FS_EmptySet
    <2>4. /\ RunsDone(items, 0, r) = Cardinality(ran(0))
          /\ RunsDone(items, n, r) = Cardinality(ran(n))
          /\ RunsDone(items, n + 1, r) = Cardinality(ran(n + 1))
      BY DEF RunsDone, ran
    <2> HIDE DEF RunsDone
    <2> QED  BY <1>4, <2>2, <2>3, <2>4
  <1> QED  BY <1>3, <1>4

(* The number of folds announced is a number. *)
LEMMA ExecutableIsNat ==
    ASSUME NEW items, IsSequence(items), NEW r
    PROVE  Executable(items, r) \in Nat
  <1>1. IsFiniteSet(DOMAIN items)
    BY SequenceFacts, IntervalSize
  <1>2. IsFiniteSet({k \in DOMAIN items : Announced(items[k], r.minTrain, r.minTest)})
    BY <1>1, FS_Subset
  <1> QED  BY <1>2, FS_CardinalityType DEF Executable

(* The percentage of folds grows with them; it passes 100 only with the announced number. *)
LEMMA FoldPercentages ==
    ASSUME NEW a \in Nat, NEW b \in Nat, NEW e \in Nat, a <= b
    PROVE  /\ FoldPct(a, e) \in Nat /\ FoldPct(a, e) <= FoldPct(b, e)
           /\ FoldPct(a, e) > 100 => a > MaxOf(e, 1)
  <1>1. CASE e = 0
    BY <1>1 DEF FoldPct
  <1>2. CASE e # 0
    <2>1. e \in Nat \ {0}
      BY <1>2
    <2>2. /\ (a * 100) \div e \in Nat
          /\ (a * 100) \div e <= (b * 100) \div e
          /\ a <= e => (a * 100) \div e <= 100
      BY <2>1, Percentages
    <2> QED  BY <1>2, <2>1, <2>2 DEF FoldPct, MaxOf
  <1> QED  BY <1>1, <1>2

(* The walk-forward thread starts with its folds and the number it announces. *)
LEMMA BeginFoldThread ==
    ASSUME NEW r \in Request, r.kind = "walk_forward",
           NEW folds, folds = ComputeFoldIndices(r.bars, r.folds, r.ratio, r.anchor),
           ~ \A k \in DOMAIN folds : TestCount(folds[k]) = 0,
           NEW items, NEW rows, NEW t, NEW d, NEW p,
           Thread(r, "begin", items, rows, t, d, p, <<>>)
    PROVE  /\ Thread(r, "loop", folds, rows, MaxOf(Executable(folds, r), 1), d, p, <<>>)
           /\ MaxOf(Executable(folds, r), 1) \in Nat
  <1>1. d = 0 /\ p = 0 /\ rows = <<>>
    BY DEF Thread, Untouched
  <1>2. IsSequence(folds)
    <2>1. r.bars \in Nat /\ r.folds \in Int /\ r.ratio \in 0..10
      BY RequestFacts
    <2>2. \E S : folds \in Seq(S)
      BY <2>1, FoldsAreSequence
    <2> QED  BY <2>2, SequenceOf
  <1>3. folds # <<>> /\ Len(folds) \in Nat
    <2>1. \E k : k \in DOMAIN folds
      OBVIOUS
    <2> QED  BY <1>2, <2>1, SequenceFacts
  <1>4. Executable(folds, r) \in Nat
    BY <1>2, ExecutableIsNat
  <1>5. RunsDone(folds, Len(rows), r) = 0 /\ IsSequence(rows) /\ Len(rows) = 0
    BY <1>1, RunsCount DEF IsSequence
  <1>6. FoldPct(0, Executable(folds, r)) \in Nat
    BY <1>4, FoldPercentages
  <1>7. FoldLoop(r, "loop", folds, rows, MaxOf(Executable(folds, r), 1), d, p)
    BY <1>1, <1>2, <1>3, <1>5, <1>6 DEF FoldLoop
  <1>8. MaxOf(Executable(folds, r), 1) \in Nat
    BY <1>4 DEF MaxOf
  <1> QED
    BY <1>1, <1>7, <1>8
    DEF Thread, Untouched, GridCounts, GridLoop, Overrun, Searching, RanksReported

(* A fold that runs updates the numbers first; one that does not leaves    *)
(* them.  Either way the loop has one fold more.                           *)
LEMMA FoldStepThread ==
    ASSUME NEW r \in Request, r.kind = "walk_forward", NEW items, NEW rows,
           NEW t \in Nat, NEW d \in Nat, NEW p \in Nat,
           Thread(r, "loop", items, rows, t, d, p, <<>>),
           Len(rows) < Len(items), NEW row,
           NEW runs, runs = RunsDone(items, Len(rows), r),
           NEW pc, pc = FoldPct(runs, Executable(items, r))
    PROVE  /\ runs \in Nat /\ pc \in Nat /\ d <= runs /\ p <= pc
           /\ Runnable(items[Len(rows) + 1], r.minTrain) =>
                 Thread(r, "loop", items, Append(rows, row), t, runs, pc, <<>>)
           /\ ~ Runnable(items[Len(rows) + 1], r.minTrain) =>
                 Thread(r, "loop", items, Append(rows, row), t, d, p, <<>>)
  <1> DEFINE n == Len(rows)
             more == Append(rows, row)
             later == RunsDone(items, n + 1, r)
  <1>1. /\ IsSequence(items) /\ items # <<>>
        /\ IsSequence(rows) /\ t = MaxOf(Executable(items, r), 1)
        /\ d <= runs /\ p <= pc
    BY DEF Thread, FoldLoop
  <1>2. n \in Nat /\ Len(items) \in Nat
    BY <1>1, SequenceFacts
  <1>3. IsSequence(more) /\ Len(more) = n + 1
    BY <1>1, AppendKeeps
  <1>4. /\ runs \in Nat /\ later \in Nat
        /\ later = runs + (IF Runnable(items[n + 1], r.minTrain) THEN 1 ELSE 0)
    <2>1. runs \in Nat /\ later = runs + (IF Runnable(items[n + 1], r.minTrain) THEN 1 ELSE 0)
      BY <1>2, RunsCount
    <2> HIDE DEF later
    <2> QED  BY <2>1
  <1>5. Executable(items, r) \in Nat
    BY <1>1, ExecutableIsNat
  <1> HIDE DEF n, more, later
  <1>6. /\ pc \in Nat /\ pc <= FoldPct(later, Executable(items, r))
        /\ FoldPct(later, Executable(items, r)) \in Nat
        /\ pc > 100 => runs > t
    <2>1. runs <= later
      BY <1>4
    <2> DEFINE e == Executable(items, r)
    <2>2. e \in Nat /\ pc = FoldPct(runs, e) /\ t = MaxOf(e, 1)
      BY <1>1, <1>5
    <2> HIDE DEF e
    <2>3. /\ FoldPct(runs, e) \in Nat /\ FoldPct(runs, e) <= FoldPct(later, e)
          /\ FoldPct(runs, e) > 100 => runs > MaxOf(e, 1)
      BY <1>4, <2>1, <2>2, FoldPercentages
    <2>4. FoldPct(later, e) \in Nat
      <3>1. later \in Nat /\ e \in Nat /\ later <= later
        BY <1>4, <2>2
      <3> QED  BY <3>1, FoldPercentages
    <2> QED  BY <2>2, <2>3, <2>4 DEF e
  <1>7. ASSUME NEW d1 \in Nat, NEW p1 \in Nat, d1 <= runs, p1 <= pc, Overrun(t, d1, p1)
        PROVE  Thread(r, "loop", items, more, t, d1, p1, <<>>)
    <2>1. d1 <= later /\ p1 <= FoldPct(later, Executable(items, r))
      BY <1>4, <1>6, <1>7
    <2>2. Len(more) <= Len(items)
      BY <1>2, <1>3 DEF n
    <2>3. FoldLoop(r, "loop", items, more, t, d1, p1)
      BY <1>1, <1>3, <2>1, <2>2 DEF FoldLoop, later
    <2> QED
      BY <1>7, <2>3
      DEF Thread, Untouched, GridCounts, GridLoop, Searching, RanksReported
  <1>8. Overrun(t, runs, pc) /\ Overrun(t, d, p)
    BY <1>6 DEF Overrun, Thread
  <1>9. /\ Thread(r, "loop", items, more, t, runs, pc, <<>>)
        /\ Thread(r, "loop", items, more, t, d, p, <<>>)
    BY <1>1, <1>4, <1>6, <1>7, <1>8
  <1> QED  BY <1>1, <1>4, <1>6, <1>9 DEF n, more

(* After the last fold there is a row for each, and the answer is not empty. *)
LEMMA FoldFinishThread ==
    ASSUME NEW r \in Request, r.kind = "walk_forward", NEW items, NEW rows,
           NEW t \in Nat, NEW d \in Nat, NEW p \in Nat,
           Thread(r, "loop", items, rows, t, d, p, <<>>),
           Len(rows) = Len(items),
           NEW runs, runs = RunsDone(items, Len(items), r)
    PROVE  /\ Thread(r, "returned", items, rows, t, runs, 100, rows)
           /\ rows # <<>> /\ runs \in Nat /\ d <= runs
           /\ p <= 100 \/ runs > t
  <1>1. /\ IsSequence(items) /\ items # <<>> /\ IsSequence(rows) /\ d <= runs
    BY DEF Thread, FoldLoop
  <1>2. Len(items) \in Nat \ {0} /\ rows # <<>>
    BY <1>1, SequenceFacts
  <1>3. runs \in Nat
    BY <1>2, RunsCount
  <1>4. p <= 100 \/ runs > t
    BY <1>1, <1>3 DEF Thread, Overrun
  <1> QED
    BY <1>1, <1>2, <1>3, <1>4
    DEF Thread, Untouched, GridCounts, GridLoop, FoldLoop, Overrun, Searching,
        RanksReported

-----------------------------------------------------------------------------
(* A step of a thread touches its own job only. *)

Frame(j) ==
    /\ UNCHANGED <<request, registry, eventLoop, canceller, asked>>
    /\ \A k \in Jobs \ {j} :
          /\ status'[k] = status[k] /\ worker'[k] = worker[k]
          /\ total'[k] = total[k] /\ done'[k] = done[k] /\ pct'[k] = pct[k]
          /\ results'[k] = results[k] /\ work'[k] = work[k] /\ found'[k] = found[k]
    /\ status' = [k \in Jobs |-> status'[k]] /\ worker' = [k \in Jobs |-> worker'[k]]
    /\ total' = [k \in Jobs |-> total'[k]] /\ done' = [k \in Jobs |-> done'[k]]
    /\ pct' = [k \in Jobs |-> pct'[k]] /\ results' = [k \in Jobs |-> results'[k]]
    /\ work' = [k \in Jobs |-> work'[k]] /\ found' = [k \in Jobs |-> found'[k]]

(* What a client that polls sees of the step. *)
Onward(j) ==
    /\ done'[j] >= done[j]
    /\ pct'[j] >= pct[j] \/ done'[j] > total'[j]

(* What the thread leaves behind in its own job. *)
Kept(j) ==
    /\ status'[j] \in Statuses /\ (status'[j] = "cancelled" => status[j] = "cancelled")
    /\ total'[j] \in Nat /\ done'[j] \in Nat /\ pct'[j] \in Nat
    /\ worker'[j] \in {"load", "loop", "returned", "raised"}
    /\ worker'[j] \in {"load", "loop", "raised"} =>
          results'[j] = <<>> /\ status'[j] # "completed"
    /\ status'[j] = "completed" => results'[j] # <<>>
    /\ results'[j] # <<>> => status'[j] = "completed" \/ j \in asked
    /\ Thread(request[j], worker'[j], work'[j], found'[j],
              total'[j], done'[j], pct'[j], results'[j])
    /\ Onward(j)

(* A thread that keeps its own job sound and leaves the others alone keeps the invariant. *)
LEMMA ThreadStepKeeps ==
    ASSUME IInv, NEW j \in Jobs, worker[j] # "none", Frame(j), Kept(j)
    PROVE  IInv' /\ \A k \in Jobs : Onward(k)
  <1>1. UNCHANGED <<request, known, tasks, coro, cancelReq, canceller, asked>>
    BY DEF Frame, registry, eventLoop
  <1>2. Shapes'
    <2>1. \A k \in Jobs : /\ status'[k] \in Statuses
                          /\ total'[k] \in Nat /\ done'[k] \in Nat /\ pct'[k] \in Nat
                          /\ worker'[k] \in {"none", "begin", "load", "loop", "returned", "raised"}
      BY DEF IInv, Shapes, Frame, Kept
    <2>2. /\ status' \in [Jobs -> Statuses]
          /\ total' \in [Jobs -> Nat] /\ done' \in [Jobs -> Nat] /\ pct' \in [Jobs -> Nat]
          /\ worker' \in [Jobs -> {"none", "begin", "load", "loop", "returned", "raised"}]
      BY <2>1 DEF Frame
    <2>3. /\ DOMAIN results' = Jobs /\ DOMAIN work' = Jobs /\ DOMAIN found' = Jobs
          /\ results' = [k \in Jobs |-> results'[k]]
          /\ work' = [k \in Jobs |-> work'[k]] /\ found' = [k \in Jobs |-> found'[k]]
      BY DEF Frame
    <2>4. /\ request \in [Jobs -> {NoRequest} \cup Request]
          /\ coro \in [Jobs -> {"none", "scheduled", "awaiting", "done"}]
          /\ known \subseteq Jobs /\ tasks \subseteq known /\ asked \subseteq Jobs
          /\ canceller \in Jobs \cup {NoJob}
      BY DEF IInv, Shapes
    <2>5. /\ request' \in [Jobs -> {NoRequest} \cup Request]
          /\ coro' \in [Jobs -> {"none", "scheduled", "awaiting", "done"}]
          /\ known' \subseteq Jobs /\ tasks' \subseteq known' /\ asked' \subseteq Jobs
          /\ canceller' \in Jobs \cup {NoJob}
      BY <1>1, <2>4
    <2> QED  BY <2>2, <2>3, <2>5 DEF Shapes
  <1>3. Sequential'
    <2>1. coro[j] \notin {"none", "scheduled"}
      BY DEF IInv, Sequential
    <2>2. Started' = Started
      BY <1>1 DEF Started
    <2>3. \A k \in Jobs : coro'[k] \in {"none", "scheduled"} => worker'[k] = "none"
      BY <1>1, <2>1 DEF IInv, Sequential, Frame
    <2> QED  BY <1>1, <2>2, <2>3 DEF IInv, Sequential
  <1>4. Requested'
    BY <1>1 DEF IInv, Requested, Frame, Kept
  <1>5. Answered'
    BY <1>1 DEF IInv, Answered, Frame, Kept, Working
  <1>6. ThreadsSound'
    <2>1. \A k \in Jobs \ {j} :
             Thread(request'[k], worker'[k], work'[k], found'[k],
                    total'[k], done'[k], pct'[k], results'[k])
      BY <1>1 DEF IInv, ThreadsSound, ThreadOf, Frame
    <2>2. Thread(request'[j], worker'[j], work'[j], found'[j],
                 total'[j], done'[j], pct'[j], results'[j])
      BY <1>1 DEF Kept
    <2> QED  BY <2>1, <2>2 DEF ThreadsSound, ThreadOf
  <1>7. ASSUME NEW k \in Jobs
        PROVE  Onward(k)
    <2>1. CASE k = j
      BY <2>1 DEF Kept
    <2>2. CASE k # j
      <3>1. done'[k] = done[k] /\ pct'[k] = pct[k] /\ done[k] \in Nat /\ pct[k] \in Nat
        BY <2>2 DEF Frame, IInv, Shapes
      <3> QED  BY <3>1 DEF Onward
    <2> QED  BY <2>1, <2>2
  <1> QED  BY <1>2, <1>3, <1>4, <1>5, <1>6, <1>7 DEF IInv

(* What the invariant says of one job. *)
LEMMA JobFacts ==
    ASSUME IInv, NEW j \in Jobs
    PROVE  /\ status[j] \in Statuses
           /\ total[j] \in Nat /\ done[j] \in Nat /\ pct[j] \in Nat
           /\ worker[j] \in Working => results[j] = <<>> /\ status[j] # "completed"
           /\ worker[j] # "none" => request[j] \in Request
           /\ Thread(request[j], worker[j], work[j], found[j],
                     total[j], done[j], pct[j], results[j])
  <1>1. /\ status[j] \in Statuses
        /\ total[j] \in Nat /\ done[j] \in Nat /\ pct[j] \in Nat
        /\ request[j] \in {NoRequest} \cup Request
    BY DEF IInv, Shapes
  <1>2. worker[j] \in Working => results[j] = <<>> /\ status[j] # "completed"
    BY DEF IInv, Answered
  <1>3. worker[j] # "none" => request[j] # NoRequest
    BY DEF IInv, Sequential
  <1>4. Thread(request[j], worker[j], work[j], found[j],
               total[j], done[j], pct[j], results[j])
    BY DEF IInv, ThreadsSound, ThreadOf
  <1> QED  BY <1>1, <1>2, <1>3, <1>4

(* The variables a thread writes are functions on the jobs. *)
LEMMA Entries ==
    ASSUME IInv
    PROVE  /\ status = [k \in Jobs |-> status[k]] /\ worker = [k \in Jobs |-> worker[k]]
           /\ total = [k \in Jobs |-> total[k]] /\ done = [k \in Jobs |-> done[k]]
           /\ pct = [k \in Jobs |-> pct[k]] /\ results = [k \in Jobs |-> results[k]]
           /\ work = [k \in Jobs |-> work[k]] /\ found = [k \in Jobs |-> found[k]]
  BY DEF IInv, Shapes

(* The thread ends without an answer, by failing the job or by raising. *)
LEMMA LeaveKeeps ==
    ASSUME IInv, NEW j \in Jobs, worker[j] \in {"begin", "load", "loop"},
           Fail(j) \/ Raise(j)
    PROVE  Frame(j) /\ Kept(j)
  <1>1. PICK how \in {"returned", "raised"} :
           /\ Leave(j, how)
           /\ status' = status \/ status' = [status EXCEPT ![j] = "failed"]
           /\ status' = status \/ how = "returned"
    BY DEF Fail, Raise
  <1>2. /\ worker' = [worker EXCEPT ![j] = how]
        /\ UNCHANGED <<request, total, done, pct, results, known, tasks, coro,
                       cancelReq, work, found, canceller, asked>>
    BY <1>1 DEF Leave, progress, registry, eventLoop, local
  <1>3. worker'[j] = how /\ (status'[j] = "failed" \/ status'[j] = status[j])
    BY <1>1, <1>2, Entries
  <1>4. Frame(j)
    BY <1>1, <1>2, Entries DEF Frame, registry, eventLoop
  <1>5. Thread(request[j], how, work[j], found[j],
               total[j], done[j], pct[j], results[j])
    BY JobFacts, LeaveThread
  <1>6. Onward(j)
    BY <1>2, JobFacts DEF Onward
  <1> QED
    BY <1>2, <1>3, <1>4, <1>5, <1>6, JobFacts DEF Kept, Statuses, Working

(* The thread checks its request, enumerates the combinations and marks the job running. *)
LEMMA GridBeginKeeps ==
    ASSUME IInv, NEW j \in Jobs, GridBegin(j)
    PROVE  Frame(j) /\ Kept(j)
  <1>1. worker[j] = "begin" /\ request[j].kind = "grid" /\ request[j] \in Request
    BY JobFacts DEF GridBegin
  <1>2. CASE Fail(j) \/ Raise(j)
    BY <1>1, <1>2, LeaveKeeps
  <1>3. CASE ~ (Fail(j) \/ Raise(j))
    <2>1. /\ ValidRanges(request[j].ranges)
          /\ \E combos \in Searches(request[j]) :
                /\ combos # <<>>
                /\ Running(j, combos, Len(combos))
                /\ worker' = [worker EXCEPT ![j] = "load"]
                /\ UNCHANGED <<request, done, pct, results, registry,
                               eventLoop, found, canceller, asked>>
      BY <1>3 DEF GridBegin
    <2>2. PICK combos \in Searches(request[j]) :
             /\ combos # <<>>
             /\ status' = [status EXCEPT ![j] = "running"]
             /\ total' = [total EXCEPT ![j] = Len(combos)]
             /\ work' = [work EXCEPT ![j] = combos]
             /\ worker' = [worker EXCEPT ![j] = "load"]
             /\ UNCHANGED <<request, done, pct, results, registry,
                            eventLoop, found, canceller, asked>>
      BY <2>1 DEF Running
    <2>3. Frame(j)
      BY <2>2, Entries DEF Frame
    <2>4. /\ status'[j] = "running" /\ total'[j] = Len(combos)
          /\ work'[j] = combos /\ worker'[j] = "load"
      BY <2>2, Entries
    <2>5. Thread(request[j], "load", combos, found[j],
                 Len(combos), done[j], pct[j], results[j])
      <3>1. results[j] = <<>>
        BY <1>1, JobFacts DEF Working
      <3>2. Thread(request[j], "begin", work[j], found[j],
                   total[j], done[j], pct[j], <<>>)
        BY <1>1, <3>1, JobFacts
      <3>3. Thread(request[j], "load", combos, found[j],
                   Len(combos), done[j], pct[j], <<>>)
        BY <1>1, <2>1, <2>2, <3>2, BeginGridThread
      <3> QED  BY <3>1, <3>3
    <2>6. Len(combos) \in Nat
      BY <1>1, <2>1, <2>2, SearchesAreLists DEF SearchList, OnGrid
    <2>7. Onward(j)
      BY <2>2, JobFacts DEF Onward
    <2> QED
      BY <1>1, <2>2, <2>3, <2>4, <2>5, <2>6, <2>7, JobFacts
      DEF Kept, Statuses, Working
  <1> QED  BY <1>2, <1>3

(* The thread loads the artifact, or fails without one. *)
LEMMA GridLoadKeeps ==
    ASSUME IInv, NEW j \in Jobs, GridLoad(j)
    PROVE  Frame(j) /\ Kept(j)
  <1>1. worker[j] = "load"
    BY DEF GridLoad
  <1>2. CASE Raise(j)
    BY <1>1, <1>2, LeaveKeeps
  <1>3. CASE ~ Raise(j)
    <2>1. /\ status' = status /\ worker' = [worker EXCEPT ![j] = "loop"]
          /\ UNCHANGED <<request, total, done, pct, results, known, tasks, coro,
                         cancelReq, work, found, canceller, asked>>
      BY <1>3 DEF GridLoad, Leave, progress, registry, eventLoop, local
    <2>2. Frame(j)
      BY <2>1, Entries DEF Frame, registry, eventLoop
    <2>3. worker'[j] = "loop"
      BY <2>1, Entries
    <2>4. results[j] = <<>> /\ request[j] \in Request /\ status[j] # "completed"
      BY <1>1, JobFacts DEF Working
    <2>5. Thread(request[j], "loop", work[j], found[j],
                 total[j], done[j], pct[j], results[j])
      <3>1. Thread(request[j], "load", work[j], found[j],
                   total[j], done[j], pct[j], <<>>)
        BY <1>1, <2>4, JobFacts
      <3> QED  BY <2>4, <3>1, LoadThread
    <2>6. Onward(j)
      BY <2>1, JobFacts DEF Onward
    <2> QED
      BY <2>1, <2>2, <2>3, <2>4, <2>5, <2>6, JobFacts DEF Kept
  <1> QED  BY <1>2, <1>3

(* The thread runs one combination and reports its progress. *)
LEMMA GridStepKeeps ==
    ASSUME IInv, NEW j \in Jobs, GridStep(j)
    PROVE  Frame(j) /\ Kept(j)
  <1> DEFINE n == Len(found[j])
             pc == (n * 100) \div Len(work[j])
  <1>1. PICK o \in SomeOutcomes :
           /\ worker[j] = "loop" /\ request[j].kind = "grid" /\ n < Len(work[j])
           /\ done' = [done EXCEPT ![j] = n]
           /\ pct' = [pct EXCEPT ![j] = pc]
           /\ found' = [found EXCEPT ![j] =
                            Append(found[j], BacktestOne(work[j][n + 1], o))]
           /\ UNCHANGED <<request, status, total, results, registry, eventLoop,
                          worker, work, canceller, asked>>
    BY Entries DEF GridStep
  <1>2. Frame(j)
    BY <1>1, Entries DEF Frame
  <1>3. PICK row : row = BacktestOne(work[j][n + 1], o)
    OBVIOUS
  <1>4. /\ done'[j] = n /\ pct'[j] = pc /\ found'[j] = Append(found[j], row)
        /\ worker'[j] = "loop"
    BY <1>1, <1>3, Entries
  <1>5. results[j] = <<>> /\ request[j] \in Request /\ status[j] # "completed"
    BY <1>1, JobFacts DEF Working
  <1>6. Thread(request[j], "loop", work[j], found[j],
               total[j], done[j], pct[j], <<>>)
    BY <1>1, <1>5, JobFacts
  <1>7. /\ Thread(request[j], "loop", work[j], Append(found[j], row), total[j],
                  n, pc, <<>>)
        /\ n \in Nat /\ pc \in Nat /\ done[j] <= n /\ pct[j] <= pc
    <2>0. PICK r, items, rows, t, d, p :
             /\ r = request[j] /\ items = work[j] /\ rows = found[j]
             /\ t = total[j] /\ d = done[j] /\ p = pct[j]
      OBVIOUS
    <2>1. total[j] \in Nat /\ done[j] \in Nat /\ pct[j] \in Nat
      BY JobFacts
    <2>2. Len(found[j]) < Len(work[j]) /\ row = BacktestOne(work[j][Len(found[j]) + 1], o)
      BY <1>1, <1>3
    <2>3. r \in Request /\ r.kind = "grid" /\ t \in Nat /\ d \in Nat /\ p \in Nat
      BY <1>1, <1>5, <2>0, <2>1
    <2>4. /\ Thread(r, "loop", items, rows, t, d, p, <<>>) /\ Len(rows) < Len(items)
          /\ row = BacktestOne(items[Len(rows) + 1], o)
      BY <1>6, <2>0, <2>2
    <2>5. /\ Thread(r, "loop", items, Append(rows, row), t, Len(rows),
                    (Len(rows) * 100) \div Len(items), <<>>)
          /\ Len(rows) \in Nat /\ (Len(rows) * 100) \div Len(items) \in Nat
          /\ d <= Len(rows) /\ p <= (Len(rows) * 100) \div Len(items)
      BY <2>3, <2>4, GridStepThread
    <2> QED  BY <2>0, <2>5
  <1> HIDE DEF n, pc
  <1>8. Onward(j)
    BY <1>4, <1>7, JobFacts DEF Onward
  <1> QED
    BY <1>1, <1>2, <1>4, <1>5, <1>7, <1>8, JobFacts DEF Kept

(* The last update of a thread that has an answer. *)
LEMMA CompleteKeeps ==
    ASSUME IInv, NEW j \in Jobs, NEW n, NEW answer, Complete(j, n, answer),
           n \in Nat, answer # <<>>,
           done[j] <= n, pct[j] <= 100 \/ n > total[j],
           Thread(request[j], "returned", work[j], found[j],
                  total[j], n, 100, answer)
    PROVE  Frame(j) /\ Kept(j)
  <1>1. /\ status' = [status EXCEPT ![j] = "completed"]
        /\ pct' = [pct EXCEPT ![j] = 100]
        /\ done' = [done EXCEPT ![j] = n]
        /\ results' = [results EXCEPT ![j] = answer]
        /\ worker' = [worker EXCEPT ![j] = "returned"]
        /\ UNCHANGED <<request, total, registry, eventLoop, work, found,
                       canceller, asked>>
    BY DEF Complete, local
  <1>2. Frame(j)
    BY <1>1, Entries DEF Frame
  <1>3. /\ status'[j] = "completed" /\ pct'[j] = 100 /\ done'[j] = n
        /\ results'[j] = answer /\ worker'[j] = "returned"
    BY <1>1, Entries
  <1>4. Onward(j)
    BY <1>1, <1>3, JobFacts DEF Onward
  <1> QED
    BY <1>1, <1>2, <1>3, <1>4, JobFacts DEF Kept, Statuses

(* The thread ranks the rows and completes the job. *)
LEMMA GridFinishKeeps ==
    ASSUME IInv, NEW j \in Jobs, GridFinish(j)
    PROVE  /\ Frame(j) /\ Kept(j)
           /\ \E n, answer : Complete(j, n, answer) /\ answer # <<>>
  <1>1. /\ worker[j] = "loop" /\ request[j].kind = "grid"
        /\ Len(found[j]) = Len(work[j])
        /\ Complete(j, Len(work[j]), Ranked(found[j]))
    BY DEF GridFinish
  <1>2. results[j] = <<>> /\ request[j] \in Request
    BY <1>1, JobFacts DEF Working
  <1>3. Thread(request[j], "loop", work[j], found[j],
               total[j], done[j], pct[j], <<>>)
    BY <1>1, <1>2, JobFacts
  <1>4. /\ Thread(request[j], "returned", work[j], found[j], total[j],
                  Len(work[j]), 100, Ranked(found[j]))
        /\ Ranked(found[j]) # <<>>
        /\ Len(work[j]) \in Nat /\ done[j] <= Len(work[j]) /\ pct[j] <= 100
    BY <1>1, <1>2, <1>3, JobFacts, GridFinishThread
  <1> QED  BY <1>1, <1>4, CompleteKeeps

(* The walk-forward thread computes its folds, or fails when nothing can be tested. *)
LEMMA FoldBeginKeeps ==
    ASSUME IInv, NEW j \in Jobs, FoldBegin(j)
    PROVE  Frame(j) /\ Kept(j)
  <1> DEFINE r == request[j]
  <1>1. worker[j] = "begin" /\ r.kind = "walk_forward" /\ r \in Request
    BY JobFacts DEF FoldBegin
  <1>2. CASE Fail(j) \/ Raise(j)
    BY <1>1, <1>2, LeaveKeeps
  <1>3. CASE ~ (Fail(j) \/ Raise(j))
    <2>1. PICK folds : folds = ComputeFoldIndices(r.bars, r.folds, r.ratio, r.anchor)
      OBVIOUS
    <2>2. PICK t : t = MaxOf(Executable(folds, r), 1)
      OBVIOUS
    <2>3. /\ ~ \A k \in DOMAIN folds : TestCount(folds[k]) = 0
          /\ Running(j, folds, t)
          /\ worker' = [worker EXCEPT ![j] = "loop"]
          /\ UNCHANGED <<request, done, pct, results, registry, eventLoop,
                         found, canceller, asked>>
      BY <1>3, <2>1, <2>2 DEF FoldBegin
    <2>4. /\ status' = [status EXCEPT ![j] = "running"]
          /\ total' = [total EXCEPT ![j] = t]
          /\ work' = [work EXCEPT ![j] = folds]
      BY <2>3 DEF Running
    <2>5. Frame(j)
      BY <2>3, <2>4, Entries DEF Frame
    <2>6. /\ status'[j] = "running" /\ total'[j] = t
          /\ work'[j] = folds /\ worker'[j] = "loop"
      BY <2>3, <2>4, Entries
    <2>7. results[j] = <<>>
      BY <1>1, JobFacts DEF Working
    <2>8. Thread(r, "begin", work[j], found[j], total[j], done[j], pct[j], <<>>)
      BY <1>1, <2>7, JobFacts
    <2> HIDE DEF r
    <2>9. Thread(r, "loop", folds, found[j], t, done[j], pct[j], <<>>) /\ t \in Nat
      BY <1>1, <2>1, <2>2, <2>3, <2>8, BeginFoldThread
    <2>10. Onward(j)
      BY <2>3, JobFacts DEF Onward
    <2> QED
      BY <1>1, <2>3, <2>5, <2>6, <2>7, <2>9, <2>10, JobFacts
      DEF Kept, Statuses, r
  <1> QED  BY <1>2, <1>3

(* The thread runs or skips one fold and reports its progress. *)
LEMMA FoldStepKeeps ==
    ASSUME IInv, NEW j \in Jobs, FoldStep(j)
    PROVE  Frame(j) /\ Kept(j)
  <1> DEFINE n == Len(found[j])
             run == Runnable(work[j][n + 1], request[j].minTrain)
  <1>1. PICK runs : runs = RunsDone(work[j], n, request[j])
    OBVIOUS
  <1>2. PICK pc : pc = FoldPct(runs, Executable(work[j], request[j]))
    OBVIOUS
  <1>3. /\ worker[j] = "loop" /\ request[j].kind = "walk_forward" /\ n < Len(work[j])
        /\ UNCHANGED <<request, status, total, results, registry, eventLoop,
                       worker, work, canceller, asked>>
    BY DEF FoldStep
  <1>4. \E row : found' = [found EXCEPT ![j] = Append(found[j], row)]
    BY Entries DEF FoldStep
  <1>5. PICK row : found' = [found EXCEPT ![j] = Append(found[j], row)]
    BY <1>4
  <1>6. \/ run /\ done' = [done EXCEPT ![j] = runs] /\ pct' = [pct EXCEPT ![j] = pc]
        \/ ~ run /\ UNCHANGED <<done, pct>>
    BY <1>1, <1>2 DEF FoldStep, FoldPct
  <1>7. Frame(j)
    BY <1>3, <1>5, <1>6, Entries DEF Frame
  <1>8. results[j] = <<>> /\ request[j] \in Request /\ status[j] # "completed"
    BY <1>3, JobFacts DEF Working
  <1>9. Thread(request[j], "loop", work[j], found[j],
               total[j], done[j], pct[j], <<>>)
    BY <1>3, <1>8, JobFacts
  <1>10. /\ runs \in Nat /\ pc \in Nat /\ done[j] <= runs /\ pct[j] <= pc
         /\ run => Thread(request[j], "loop", work[j], Append(found[j], row),
                          total[j], runs, pc, <<>>)
         /\ ~ run => Thread(request[j], "loop", work[j], Append(found[j], row),
                            total[j], done[j], pct[j], <<>>)
    <2>0. PICK r, items, rows, t, d, p :
             /\ r = request[j] /\ items = work[j] /\ rows = found[j]
             /\ t = total[j] /\ d = done[j] /\ p = pct[j]
      OBVIOUS
    <2>1. total[j] \in Nat /\ done[j] \in Nat /\ pct[j] \in Nat
      BY JobFacts
    <2>2. runs = RunsDone(work[j], Len(found[j]), request[j]) /\ Len(found[j]) < Len(work[j])
      BY <1>1, <1>3
    <2>3. run <=> Runnable(work[j][Len(found[j]) + 1], request[j].minTrain)
      OBVIOUS
    <2> HIDE DEF n, run
    <2>4. r \in Request /\ r.kind = "walk_forward" /\ t \in Nat /\ d \in Nat /\ p \in Nat
      BY <1>3, <1>8, <2>0, <2>1
    <2>5. /\ Thread(r, "loop", items, rows, t, d, p, <<>>) /\ Len(rows) < Len(items)
          /\ runs = RunsDone(items, Len(rows), r) /\ pc = FoldPct(runs, Executable(items, r))
      BY <1>2, <1>9, <2>0, <2>2
    <2>6. /\ runs \in Nat /\ pc \in Nat /\ d <= runs /\ p <= pc
          /\ Runnable(items[Len(rows) + 1], r.minTrain) =>
                Thread(r, "loop", items, Append(rows, row), t, runs, pc, <<>>)
          /\ ~ Runnable(items[Len(rows) + 1], r.minTrain) =>
                Thread(r, "loop", items, Append(rows, row), t, d, p, <<>>)
      BY <2>4, <2>5, FoldStepThread
    <2> QED  BY <2>0, <2>3, <2>6
  <1>11. /\ found'[j] = Append(found[j], row) /\ worker'[j] = "loop"
         /\ run => done'[j] = runs /\ pct'[j] = pc
         /\ ~ run => done'[j] = done[j] /\ pct'[j] = pct[j]
    BY <1>3, <1>5, <1>6, Entries
  <1> HIDE DEF n, run
  <1>12. Onward(j)
    BY <1>10, <1>11, JobFacts DEF Onward
  <1>13. done'[j] \in Nat /\ pct'[j] \in Nat
    BY <1>10, <1>11, JobFacts
  <1> QED
    BY <1>3, <1>7, <1>8, <1>10, <1>11, <1>12, <1>13, JobFacts DEF Kept

(* The thread aggregates the folds and completes the job. *)
LEMMA FoldFinishKeeps ==
    ASSUME IInv, NEW j \in Jobs, FoldFinish(j)
    PROVE  /\ Frame(j) /\ Kept(j)
           /\ \E n, answer : Complete(j, n, answer) /\ answer # <<>>
  <1>1. PICK runs : runs = RunsDone(work[j], Len(work[j]), request[j])
    OBVIOUS
  <1>2. /\ worker[j] = "loop" /\ request[j].kind = "walk_forward"
        /\ Len(found[j]) = Len(work[j])
        /\ Complete(j, runs, found[j])
    BY <1>1 DEF FoldFinish
  <1>3. results[j] = <<>> /\ request[j] \in Request
    BY <1>2, JobFacts DEF Working
  <1>4. Thread(request[j], "loop", work[j], found[j],
               total[j], done[j], pct[j], <<>>)
    BY <1>2, <1>3, JobFacts
  <1>5. /\ Thread(request[j], "returned", work[j], found[j], total[j],
                  runs, 100, found[j])
        /\ found[j] # <<>> /\ runs \in Nat /\ done[j] <= runs
        /\ pct[j] <= 100 \/ runs > total[j]
    <2>0. PICK r, items, rows, t, d, p :
             /\ r = request[j] /\ items = work[j] /\ rows = found[j]
             /\ t = total[j] /\ d = done[j] /\ p = pct[j]
      OBVIOUS
    <2>1. total[j] \in Nat /\ done[j] \in Nat /\ pct[j] \in Nat
      BY JobFacts
    <2>2. r \in Request /\ r.kind = "walk_forward" /\ t \in Nat /\ d \in Nat /\ p \in Nat
      BY <1>2, <1>3, <2>0, <2>1
    <2>3. Thread(r, "loop", items, rows, t, d, p, <<>>) /\ Len(rows) = Len(items)
      BY <1>2, <1>4, <2>0
    <2>4. runs = RunsDone(items, Len(items), r)
      BY <1>1, <2>0
    <2>5. /\ Thread(r, "returned", items, rows, t, runs, 100, rows)
          /\ rows # <<>> /\ runs \in Nat /\ d <= runs
          /\ p <= 100 \/ runs > t
      BY <2>2, <2>3, <2>4, FoldFinishThread
    <2> QED  BY <2>0, <2>5
  <1> QED  BY <1>2, <1>5, CompleteKeeps

(* Every step of a thread keeps the invariant and moves progress forward. *)
LEMMA ThreadStepInv ==
    ASSUME IInv, NEW j \in Jobs, ThreadStep(j)
    PROVE  IInv' /\ \A k \in Jobs : Onward(k)
  <1>1. worker[j] # "none"
    BY DEF ThreadStep, GridBegin, GridLoad, GridStep, GridFinish, FoldBegin,
           FoldStep, FoldFinish
  <1>2. Frame(j) /\ Kept(j)
    BY GridBeginKeeps, GridLoadKeeps, GridStepKeeps, GridFinishKeeps,
       FoldBeginKeeps, FoldStepKeeps, FoldFinishKeeps DEF ThreadStep
  <1> QED  BY <1>1, <1>2, ThreadStepKeeps

-----------------------------------------------------------------------------
(* The steps of the manager, the event loop and the request threads.       *)

LEMMA ThreadsUnchanged ==
    ASSUME IInv, UNCHANGED <<request, progress, worker, local>>
    PROVE  ThreadsSound' /\ \A k \in Jobs : Onward(k)
  <1>1. UNCHANGED <<request, total, done, pct, results, worker, work, found>>
    BY DEF progress, local
  <1>2. ThreadsSound'
    BY <1>1 DEF IInv, ThreadsSound, ThreadOf
  <1>3. \A k \in Jobs : Onward(k)
    BY <1>1, JobFacts DEF Onward
  <1> QED  BY <1>2, <1>3

(* Without a job there is nothing to account for. *)
LEMMA InitIInv == Init => IInv
  <1> SUFFICES ASSUME Init PROVE IInv
    OBVIOUS
  <1> USE DEF Init
  <1>1. Shapes
    BY DEF Shapes, Statuses
  <1>2. Sequential
    <2>1. Started = {} /\ 1..0 = {}
      BY DEF Started
    <2>2. Started = 1..Cardinality(Started)
      BY <2>1, FS_EmptySet
    <2> QED  BY <2>2, OptimizationAssumption DEF Sequential, Jobs, NoJob
  <1>3. Requested /\ Answered
    BY DEF Requested, Answered, NoJob
  <1>4. ThreadsSound
    <2>1. Thread(NoRequest, "none", <<>>, <<>>, 0, 0, 0, <<>>)
      BY DEF Thread, Untouched, GridCounts, GridLoop, FoldLoop, Overrun,
             Searching, RanksReported
    <2> QED  BY <2>1 DEF ThreadsSound, ThreadOf
  <1> QED  BY <1>1, <1>2, <1>3, <1>4 DEF IInv

(* A new job is the next one, and everything about it is still untouched.  *)
LEMMA StartInv ==
    ASSUME IInv, NEW j \in Jobs, NEW r \in Request, Start(j, r)
    PROVE  /\ IInv' /\ \A k \in Jobs : Onward(k)
           /\ request[j] = NoRequest
           /\ \A k \in Jobs \ {j} : request'[k] = request[k]
  <1>1. j = Cardinality(Started) + 1 /\ Started = 1..Cardinality(Started)
    BY DEF Start, IInv, Sequential
  <1>2. Started \subseteq Jobs /\ IsFiniteSet(Started) /\ Cardinality(Started) \in Nat
    <2>1. IsFiniteSet(Jobs)
      BY OptimizationAssumption, IntervalSize DEF Jobs
    <2>2. Started \in SUBSET Jobs
      BY DEF Started
    <2> QED  BY <2>1, <2>2, FS_Subset, FS_CardinalityType
  <1>3. j \notin Started /\ Started \cup {j} = 1..(Cardinality(Started) + 1)
    <2> DEFINE c == Cardinality(Started)
    <2> HIDE DEF c
    <2>1. c \in Nat /\ j = c + 1 /\ Started = 1..c
      BY <1>1, <1>2 DEF c
    <2> QED  BY <2>1 DEF c
  <1>4. request[j] = NoRequest
    BY <1>3 DEF Started
  <1>5. coro[j] = "none" /\ worker[j] = "none" /\ canceller # j
    BY <1>4 DEF IInv, Sequential
  <1>6. /\ request' = [request EXCEPT ![j] = r]
        /\ coro' = [coro EXCEPT ![j] = "scheduled"]
        /\ UNCHANGED <<status, total, done, pct, results, cancelReq, worker,
                       work, found, canceller, asked>>
    BY DEF Start, progress, local
  <1>7. known' \subseteq known \cup {j} /\ tasks' \subseteq known'
    <2>1. PICK cutoff \in 1..(NJobs + 1) :
             LET live    == {k \in known : status[k] \notin Terminal \/ k >= cutoff}
                 evicted == OverLimit(live \cup {j})
             IN  /\ known' = (live \cup {j}) \ evicted
                 /\ tasks' = ((tasks \cap live) \cup (IF r.loop THEN {j} ELSE {}))
                                 \ evicted
      BY DEF Start
    <2> QED  BY <2>1
  <1>8. /\ request'[j] = r /\ \A k \in Jobs \ {j} : request'[k] = request[k]
        /\ coro'[j] = "scheduled" /\ \A k \in Jobs \ {j} : coro'[k] = coro[k]
        /\ r # NoRequest
    BY <1>6, RequestFacts DEF IInv, Shapes
  <1>9. Shapes'
    <2>1. request' \in [Jobs -> {NoRequest} \cup Request]
      BY <1>6 DEF IInv, Shapes
    <2>2. coro' \in [Jobs -> {"none", "scheduled", "awaiting", "done"}]
      BY <1>6 DEF IInv, Shapes
    <2>3. known' \subseteq Jobs
      BY <1>7 DEF IInv, Shapes
    <2> QED  BY <1>6, <1>7, <2>1, <2>2, <2>3 DEF IInv, Shapes
  <1>10. Sequential'
    <2>1. Started' = Started \cup {j}
      BY <1>8 DEF Started
    <2>2. Cardinality(Started') = Cardinality(Started) + 1
      BY <1>2, <1>3, <2>1, FS_AddElement
    <2>3. Started' = 1..Cardinality(Started')
      BY <1>3, <2>1, <2>2
    <2>4. ASSUME NEW k \in Jobs, request'[k] = NoRequest
          PROVE  coro'[k] = "none" /\ k \notin known' /\ canceller' # k
      BY <1>6, <1>7, <1>8, <2>4 DEF IInv, Sequential
    <2>5. ASSUME NEW k \in Jobs, coro'[k] \in {"none", "scheduled"}
          PROVE  worker'[k] = "none"
      BY <1>5, <1>6, <1>8, <2>5 DEF IInv, Sequential
    <2> QED  BY <2>3, <2>4, <2>5 DEF Sequential
  <1>11. Requested'
    BY <1>6 DEF IInv, Requested
  <1>12. Answered'
    BY <1>6 DEF IInv, Answered
  <1>13. ThreadsSound'
    <2>1. \A k \in Jobs \ {j} :
             Thread(request'[k], worker'[k], work'[k], found'[k],
                    total'[k], done'[k], pct'[k], results'[k])
      BY <1>6, <1>8 DEF IInv, ThreadsSound, ThreadOf
    <2>2. PICK items, rows, t, d, p, answer :
             /\ items = work[j] /\ rows = found[j] /\ t = total[j] /\ d = done[j]
             /\ p = pct[j] /\ answer = results[j]
      OBVIOUS
    <2>3. Thread(request[j], "none", items, rows, t, d, p, answer) /\ answer = <<>>
          /\ t \in Nat
      BY <1>5, <2>2, JobFacts DEF Working
    <2>4. Thread(r, "none", items, rows, t, d, p, answer)
      BY <2>3
      DEF Thread, Untouched, GridCounts, GridLoop, FoldLoop, Overrun, Searching,
          RanksReported
    <2>5. Thread(request'[j], worker'[j], work'[j], found'[j],
                 total'[j], done'[j], pct'[j], results'[j])
      BY <1>5, <1>6, <1>8, <2>2, <2>4
    <2> QED  BY <2>1, <2>5 DEF ThreadsSound, ThreadOf
  <1>14. \A k \in Jobs : Onward(k)
    BY <1>6, JobFacts DEF Onward
  <1> QED  BY <1>4, <1>8, <1>9, <1>10, <1>11, <1>12, <1>13, <1>14 DEF IInv

(* A missing step is filled in without leaving the requests that are accepted. *)
LEMMA DefaultStep ==
    ASSUME NEW r \in Request, r.kind = "grid"
    PROVE  WithDefaultStep(r) \in Request
  <1>1. CASE r.shape = "full"
    BY <1>1 DEF WithDefaultStep
  <1>2. CASE r.shape # "full"
    <2> DEFINE filled == [k \in DOMAIN r.ranges |-> [r.ranges[k] EXCEPT !.step = 1]]
    <2>1. r \in StartOptimizationJobRequest
      BY DEF Request, StartWalkForwardJobRequest
    <2>2. r.ranges \in Seq(ParamRange)
      BY RequestFacts
    <2>3. Len(r.ranges) \in Nat /\ filled \in [1..Len(r.ranges) -> ParamRange]
      <3>1. Len(r.ranges) \in Nat /\ DOMAIN r.ranges = 1..Len(r.ranges)
        BY <2>2
      <3>2. ASSUME NEW k \in 1..Len(r.ranges)
            PROVE  [r.ranges[k] EXCEPT !.step = 1] \in ParamRange
        <4>1. r.ranges[k] \in ParamRange
          BY <2>2
        <4> QED  BY <4>1 DEF ParamRange
      <3> QED  BY <3>1, <3>2
    <2> HIDE DEF filled
    <2>4. filled \in RangeList
      BY <2>3, FunctionIsSequence DEF RangeList, ParamRange
    <2>5. WithDefaultStep(r) = [r EXCEPT !.ranges = filled]
      BY <1>2 DEF WithDefaultStep, filled
    <2>6. WithDefaultStep(r) \in StartOptimizationJobRequest
      BY <2>1, <2>4, <2>5 DEF StartOptimizationJobRequest
    <2> QED  BY <2>6 DEF Request
  <1> QED  BY <1>1, <1>2

(* The first half of cancel() reads the status and cancels the task. *)
LEMMA CancelRequestInv ==
    ASSUME IInv, NEW j \in Jobs, CancelRequest(j)
    PROVE  IInv' /\ \A k \in Jobs : Onward(k)
  <1>1. /\ UNCHANGED <<request, status, progress, known, tasks, coro, worker, local>>
        /\ canceller' = j /\ asked' = asked \cup {j} /\ j \in known
        /\ cancelReq' \subseteq cancelReq \cup {j}
    BY DEF CancelRequest, registry
  <1>2. UNCHANGED <<total, done, pct, results, work, found>>
    BY <1>1 DEF progress, local
  <1>3. Shapes'
    BY <1>1, <1>2 DEF IInv, Shapes
  <1>4. Sequential'
    <2>1. Started' = Started
      BY <1>1 DEF Started
    <2>2. request[j] # NoRequest
      BY <1>1 DEF IInv, Sequential
    <2> QED  BY <1>1, <2>1, <2>2 DEF IInv, Sequential
  <1>5. Requested'
    BY <1>1 DEF IInv, Requested
  <1>6. Answered'
    BY <1>1, <1>2 DEF IInv, Answered
  <1> QED  BY <1>1, <1>3, <1>4, <1>5, <1>6, ThreadsUnchanged DEF IInv

(* The second half of cancel() writes the status and no result. *)
LEMMA CancelWriteInv ==
    ASSUME IInv, CancelWrite
    PROVE  IInv' /\ \A k \in Jobs : Onward(k)
  <1>1. /\ UNCHANGED <<request, progress, known, tasks, coro, cancelReq, worker,
                       local, asked>>
        /\ status' = [status EXCEPT ![canceller] = "cancelled"]
        /\ canceller # NoJob /\ canceller' = NoJob
    BY DEF CancelWrite, registry, eventLoop
  <1>2. UNCHANGED <<total, done, pct, results, work, found>>
    BY <1>1 DEF progress, local
  <1>3. PICK j \in Jobs : j = canceller /\ j \in asked
    BY <1>1 DEF IInv, Shapes, Requested
  <1>4. /\ status' \in [Jobs -> Statuses] /\ status'[j] = "cancelled"
        /\ \A k \in Jobs \ {j} : status'[k] = status[k]
    BY <1>1, <1>3 DEF IInv, Shapes, Statuses
  <1>5. Shapes'
    BY <1>1, <1>2, <1>4 DEF IInv, Shapes
  <1>6. Sequential'
    <2>1. Started' = Started
      BY <1>1 DEF Started
    <2>2. ASSUME NEW k \in Jobs
          PROVE  canceller' # k
      BY <1>1, OptimizationAssumption DEF Jobs, NoJob
    <2> QED  BY <1>1, <2>1, <2>2 DEF IInv, Sequential
  <1>7. Requested'
    BY <1>1, <1>3, <1>4 DEF IInv, Requested
  <1>8. Answered'
    BY <1>1, <1>2, <1>3, <1>4 DEF IInv, Answered
  <1> QED  BY <1>1, <1>5, <1>6, <1>7, <1>8, ThreadsUnchanged DEF IInv

(* The event loop hands the job to a pool thread. *)
LEMMA DispatchInv ==
    ASSUME IInv, NEW j \in Jobs, Dispatch(j)
    PROVE  IInv' /\ \A k \in Jobs : Onward(k)
  <1>1. /\ UNCHANGED <<request, status, progress, known, tasks, cancelReq,
                       work, found, canceller, asked>>
        /\ coro[j] = "scheduled" /\ coro' = [coro EXCEPT ![j] = "awaiting"]
        /\ worker' = [worker EXCEPT ![j] = "begin"]
    BY DEF Dispatch, registry, local
  <1>2. UNCHANGED <<total, done, pct, results>>
    BY <1>1 DEF progress
  <1>3. /\ coro'[j] = "awaiting" /\ worker'[j] = "begin"
        /\ \A k \in Jobs \ {j} : coro'[k] = coro[k] /\ worker'[k] = worker[k]
        /\ worker[j] = "none" /\ request[j] # NoRequest
    BY <1>1 DEF IInv, Shapes, Sequential
  <1>4. Shapes'
    <2>1. coro' \in [Jobs -> {"none", "scheduled", "awaiting", "done"}]
      BY <1>1 DEF IInv, Shapes
    <2>2. worker' \in [Jobs -> {"none", "begin", "load", "loop", "returned", "raised"}]
      BY <1>1 DEF IInv, Shapes
    <2> QED  BY <1>1, <1>2, <2>1, <2>2 DEF IInv, Shapes
  <1>5. Sequential'
    <2>1. Started' = Started
      BY <1>1 DEF Started
    <2>2. ASSUME NEW k \in Jobs, request'[k] = NoRequest
          PROVE  coro'[k] = "none" /\ k \notin known' /\ canceller' # k
      BY <1>1, <1>3, <2>2 DEF IInv, Sequential
    <2>3. ASSUME NEW k \in Jobs, coro'[k] \in {"none", "scheduled"}
          PROVE  worker'[k] = "none"
      BY <1>3, <2>3 DEF IInv, Sequential
    <2> QED  BY <2>1, <2>2, <2>3 DEF IInv, Sequential
  <1>6. Requested'
    BY <1>1 DEF IInv, Requested
  <1>7. Answered'
    BY <1>1, <1>2, <1>3 DEF IInv, Answered, Working
  <1>8. ThreadsSound'
    <2>1. \A k \in Jobs \ {j} :
             Thread(request'[k], worker'[k], work'[k], found'[k],
                    total'[k], done'[k], pct'[k], results'[k])
      BY <1>1, <1>2, <1>3 DEF IInv, ThreadsSound, ThreadOf
    <2>2. PICK r, items, rows, t, d, p, answer :
             /\ r = request[j] /\ items = work[j] /\ rows = found[j]
             /\ t = total[j] /\ d = done[j] /\ p = pct[j] /\ answer = results[j]
      OBVIOUS
    <2>3. Thread(r, "none", items, rows, t, d, p, answer)
      BY <1>3, <2>2, JobFacts
    <2>4. Thread(r, "begin", items, rows, t, d, p, answer)
      BY <2>3
      DEF Thread, Untouched, GridCounts, GridLoop, FoldLoop, Overrun, Searching,
          RanksReported
    <2>5. Thread(request'[j], worker'[j], work'[j], found'[j],
                 total'[j], done'[j], pct'[j], results'[j])
      BY <1>1, <1>2, <1>3, <2>2, <2>4
    <2> QED  BY <2>1, <2>5 DEF ThreadsSound, ThreadOf
  <1>9. \A k \in Jobs : Onward(k)
    BY <1>2, JobFacts DEF Onward
  <1> QED  BY <1>4, <1>5, <1>6, <1>7, <1>8, <1>9 DEF IInv

(* The coroutine ends: cancelled, or with the answer of its thread. *)
LEMMA CoroutineEndsInv ==
    ASSUME IInv, NEW j \in Jobs,
           CancelledScheduled(j) \/ CancelledAwaiting(j) \/ Resume(j)
    PROVE  /\ IInv' /\ \A k \in Jobs : Onward(k)
           /\ UNCHANGED <<request, results, worker, canceller, asked>>
           /\ coro[j] \in {"scheduled", "awaiting"} /\ coro'[j] = "done"
           /\ \A k \in Jobs \ {j} : coro'[k] = coro[k] /\ status'[k] = status[k]
           /\ coro[j] = "scheduled" \/ worker[j] \in {"returned", "raised"}
                 \/ status'[j] = "cancelled"
  <1>1. /\ UNCHANGED <<request, progress, known, tasks, cancelReq, worker, local,
                       canceller, asked>>
        /\ coro[j] \in {"scheduled", "awaiting"}
        /\ coro' = [coro EXCEPT ![j] = "done"]
        /\ \/ status' = status
           \/ status' = [status EXCEPT ![j] = "cancelled"] /\ j \in cancelReq
           \/ status' = [status EXCEPT ![j] = "failed"] /\ worker[j] = "raised"
    BY DEF CancelledScheduled, CancelledAwaiting, Resume, registry
  <1>2. UNCHANGED <<total, done, pct, results, work, found>>
    BY <1>1 DEF progress, local
  <1>3. /\ coro'[j] = "done" /\ \A k \in Jobs \ {j} : coro'[k] = coro[k]
        /\ coro' \in [Jobs -> {"none", "scheduled", "awaiting", "done"}]
    BY <1>1 DEF IInv, Shapes
  <1>4. /\ status' \in [Jobs -> Statuses]
        /\ \A k \in Jobs \ {j} : status'[k] = status[k]
        /\ \/ status'[j] = status[j]
           \/ status'[j] = "cancelled" /\ j \in asked
           \/ status'[j] = "failed" /\ worker[j] = "raised"
    BY <1>1 DEF IInv, Shapes, Requested, Statuses
  <1>5. Shapes'
    BY <1>1, <1>2, <1>3, <1>4 DEF IInv, Shapes
  <1>6. Sequential'
    <2>1. Started' = Started
      BY <1>1 DEF Started
    <2>2. request[j] # NoRequest
      BY <1>1 DEF IInv, Sequential
    <2>3. ASSUME NEW k \in Jobs, request'[k] = NoRequest
          PROVE  coro'[k] = "none" /\ k \notin known' /\ canceller' # k
      BY <1>1, <1>3, <2>2, <2>3 DEF IInv, Sequential
    <2>4. ASSUME NEW k \in Jobs, coro'[k] \in {"none", "scheduled"}
          PROVE  worker'[k] = "none"
      BY <1>1, <1>3, <2>4 DEF IInv, Sequential
    <2> QED  BY <2>1, <2>3, <2>4 DEF IInv, Sequential
  <1>7. Requested'
    BY <1>1, <1>4 DEF IInv, Requested
  <1>8. Answered'
    BY <1>1, <1>2, <1>4 DEF IInv, Answered
  <1>9. coro[j] = "scheduled" \/ worker[j] \in {"returned", "raised"}
           \/ status'[j] = "cancelled"
    BY <1>1 DEF CancelledScheduled, CancelledAwaiting, Resume, IInv, Shapes
  <1> QED
    BY <1>1, <1>2, <1>3, <1>4, <1>5, <1>6, <1>7, <1>8, <1>9, ThreadsUnchanged DEF IInv

(* Every step keeps the invariant, moves progress forward and leaves requests alone. *)
LEMMA NextIInv ==
    ASSUME IInv, [Next]_vars
    PROVE  /\ IInv' /\ \A k \in Jobs : Onward(k)
           /\ \A k \in Jobs : request[k] # NoRequest => request'[k] = request[k]
  <1>1. ASSUME NEW j \in Jobs, NEW r \in Requests[j],
               StartOptimizationJob(j, r) \/ StartWalkForwardJob(j, r)
                   \/ PostOptimizationJob(j, r)
        PROVE  /\ IInv' /\ \A k \in Jobs : Onward(k)
               /\ \A k \in Jobs : request[k] # NoRequest => request'[k] = request[k]
    <2>1. r \in Request
      BY OptimizationAssumption DEF Request
    <2>2. \E s \in Request : Start(j, s)
      BY <1>1, <2>1, DefaultStep
      DEF StartOptimizationJob, StartWalkForwardJob, PostOptimizationJob
    <2> QED  BY <2>2, StartInv
  <1>2. ASSUME NEW j \in Jobs, CancelRequest(j)
        PROVE  IInv' /\ (\A k \in Jobs : Onward(k)) /\ request' = request
    BY <1>2, CancelRequestInv DEF CancelRequest
  <1>3. CASE CancelWrite
    BY <1>3, CancelWriteInv DEF CancelWrite
  <1>4. ASSUME NEW j \in Jobs, LoopStep(j)
        PROVE  IInv' /\ (\A k \in Jobs : Onward(k)) /\ request' = request
    BY <1>4, DispatchInv, CoroutineEndsInv DEF LoopStep, Dispatch
  <1>5. ASSUME NEW j \in Jobs, ThreadStep(j)
        PROVE  IInv' /\ (\A k \in Jobs : Onward(k)) /\ request' = request
    <2>1. request' = request
      BY <1>5, GridBeginKeeps, GridLoadKeeps, GridStepKeeps, GridFinishKeeps,
         FoldBeginKeeps, FoldStepKeeps, FoldFinishKeeps DEF ThreadStep, Frame
    <2> QED  BY <1>5, <2>1, ThreadStepInv
  <1>6. CASE UNCHANGED vars
    <2>1. UNCHANGED <<request, status, progress, registry, eventLoop, worker,
                      local, canceller, asked>>
      BY <1>6 DEF vars
    <2>2. UNCHANGED <<total, done, pct, results, known, tasks, coro, cancelReq,
                      work, found>>
      BY <2>1 DEF progress, registry, eventLoop, local
    <2>3. (Shapes /\ Sequential /\ Requested /\ Answered)'
      BY <2>1, <2>2 DEF IInv, Shapes, Sequential, Started, Requested, Answered
    <2> QED  BY <2>1, <2>3, ThreadsUnchanged DEF IInv
  <1> QED  BY <1>1, <1>2, <1>3, <1>4, <1>5, <1>6 DEF Next

(* The invariant holds in every state the manager and its threads can reach. *)
LEMMA InvariantHolds == Spec => []IInv
  BY InitIInv, NextIInv, PTL DEF Spec

-----------------------------------------------------------------------------
(* What the invariant says to a client. *)
LEMMA TypesShow == IInv => TypeOK
  BY DEF IInv, Shapes, TypeOK, Request

(* What the invariant says of a returned answer makes grid rankings complete. *)
LEMMA RankingsShow == IInv => RankingComplete
  <1> SUFFICES ASSUME IInv, NEW j \in Jobs,
                      GetResults(j).rows # <<>>, request[j].kind = "grid"
               PROVE  CompleteRanking(GetResults(j).rows, request[j])
    BY DEF RankingComplete
  <1>1. GetResults(j).rows = results[j]
    BY DEF GetResults
  <1>2. RanksReported(request[j], results[j])
    BY JobFacts DEF Thread
  <1> QED  BY <1>1, <1>2 DEF RanksReported

(* The folds of every request are out of sample: FoldsAreSound for its arguments. *)
LEMMA FoldsShow == FoldsOutOfSample
  <1>1. ASSUME NEW bars \in 3..17, NEW folds \in 2..5, NEW ratio \in 1..9,
               NEW anchor
        PROVE  OutOfSample(bars, folds, ratio, anchor)
    <2>1. bars \in Nat /\ folds \in Int /\ folds >= 2 /\ ratio \in 0..10
      OBVIOUS
    <2> QED  BY <2>1, FoldsAreSound, Zenon
  <1> QED  BY <1>1, Zenon DEF FoldsOutOfSample, OutOfSample

(* For any number of jobs and whatever races with their threads: what a    *)
(* completed grid search reports is a complete ranking of the search that  *)
(* was asked for, and no fold that runs is tested on a bar it was trained  *)
(* on.                                                                     *)
THEOREM SearchIsSound == Spec => []SearchSound
  <1>1. IInv => SearchSound
    BY TypesShow, RankingsShow, FoldsShow DEF SearchSound
  <1> QED  BY <1>1, InvariantHolds, PTL

(* The numbers a client polls: the count never falls, the percentage falls *)
(* or passes 100 only where more folds were run than announced, and a grid *)
(* search never runs more than it announced.                               *)
THEOREM ProgressNeverFalls == Spec => ProgressForward
  <1> DEFINE Forward ==
          \A j \in Jobs :
             LET before   == GetProgress(j)
                 after    == GetProgress(j)'
                 overrun  == after.done > after.total
             IN  /\ after.done >= before.done
                 /\ after.pct >= before.pct \/ overrun
                 /\ after.pct > 100 => overrun
                 /\ request[j] # NoRequest /\ request[j].kind = "grid" => ~overrun
  <1>1. IInv /\ [Next]_vars => [Forward]_vars
    <2> SUFFICES ASSUME IInv, [Next]_vars, NEW j \in Jobs
                 PROVE  /\ done'[j] >= done[j]
                        /\ pct'[j] >= pct[j] \/ done'[j] > total'[j]
                        /\ pct'[j] > 100 => done'[j] > total'[j]
                        /\ request[j] # NoRequest /\ request[j].kind = "grid" =>
                              ~ (done'[j] > total'[j])
      BY DEF GetProgress
    <2>1. /\ IInv' /\ Onward(j)
          /\ request[j] # NoRequest => request'[j] = request[j]
      BY NextIInv
    <2>2. total'[j] \in Nat /\ done'[j] \in Nat /\ pct'[j] \in Nat
      BY <2>1 DEF IInv, Shapes
    <2>3. /\ Overrun(total'[j], done'[j], pct'[j])
          /\ GridCounts(request'[j], total'[j], done'[j], pct'[j])
      BY <2>1 DEF IInv, ThreadsSound, ThreadOf, Thread
    <2> QED  BY <2>1, <2>2, <2>3 DEF Onward, Overrun, GridCounts
  <1>2. ProgressForward <=> [][Forward]_vars
    BY PTL DEF ProgressForward, Forward
  <1> QED  BY <1>1, <1>2, InvariantHolds, PTL DEF Spec

-----------------------------------------------------------------------------
(* The refinement of JobLifecycle.                                         *)

Phase(j) ==
    IF request[j] = NoRequest THEN "new"
    ELSE IF AtRest(j) THEN status[j] ELSE "active"

phases == [j \in Jobs |-> Phase(j)]
replies == {j \in Jobs : results[j] # <<>>}

(* A step of an active job that asks nobody and touches no other job.      *)
LEMMA ActiveJobMoves ==
    ASSUME IInv, IInv', NEW j \in Jobs,
           UNCHANGED <<request, asked>>, request[j] # NoRequest, ~AtRest(j),
           \A k \in Jobs \ {j} : /\ results'[k] = results[k]
                                 /\ Phase(k)' = Phase(k),
           \/ results'[j] = results[j]
           \/ results[j] = <<>> /\ results'[j] # <<>> /\ status'[j] = "completed"
    PROVE  [Lifecycle!Next]_(<<phases, asked, replies>>)
  <1>1. Phase(j) = "active" /\ phases[j] = "active"
    BY DEF Phase, phases
  <1>2. Phase(j)' = IF AtRest(j)' THEN status'[j] ELSE "active"
    BY DEF Phase
  <1>3. phases' = [phases EXCEPT ![j] = Phase(j)']
    BY DEF phases
  <1>4. CASE results'[j] = results[j]
    <2>1. replies' = replies
      BY <1>4 DEF replies
    <2>2. CASE ~AtRest(j)'
      <3>1. phases' = phases
        BY <1>1, <1>2, <1>3, <2>2 DEF phases
      <3> QED  BY <2>1, <3>1
    <2>3. CASE AtRest(j)'
      <3>1. status'[j] \in Lifecycle!Outcomes
        BY <2>3 DEF AtRest, Terminal, Lifecycle!Outcomes
      <3>2. /\ status'[j] = "cancelled" => j \in asked
            /\ status'[j] = "completed" => j \in replies
            /\ j \in replies => status'[j] = "completed" \/ j \in asked
        BY <1>4 DEF IInv, Requested, Answered, replies
      <3>3. phases' = [phases EXCEPT ![j] = status'[j]]
        BY <1>2, <1>3, <2>3
      <3>4. Lifecycle!Settle(j)
        BY <1>1, <2>1, <3>1, <3>2, <3>3
           DEF Lifecycle!Settle, phases, Phase, replies
      <3> QED  BY <3>4 DEF Lifecycle!Next
    <2> QED  BY <2>2, <2>3
  <1>5. CASE results[j] = <<>> /\ results'[j] # <<>> /\ status'[j] = "completed"
    <2>1. replies' = replies \cup {j} /\ j \notin replies
      BY <1>5 DEF replies
    <2>2. CASE ~AtRest(j)'
      <3>1. phases' = phases
        BY <1>1, <1>2, <1>3, <2>2 DEF phases
      <3>2. Lifecycle!Answer(j)
        BY <1>1, <2>1, <3>1 DEF Lifecycle!Answer, phases, Phase, replies
      <3> QED  BY <3>2 DEF Lifecycle!Next
    <2>3. CASE AtRest(j)'
      <3>1. phases' = [phases EXCEPT ![j] = "completed"]
        BY <1>2, <1>3, <1>5, <2>3
      <3>2. Lifecycle!AnswerAndSettle(j)
        BY <1>1, <2>1, <3>1 DEF Lifecycle!AnswerAndSettle, phases, Phase, replies
      <3> QED  BY <3>2 DEF Lifecycle!Next
    <2> QED  BY <2>2, <2>3
  <1> QED  BY <1>4, <1>5

(* start() makes a new job active and leaves the others. *)
LEMMA StartRefines ==
    ASSUME IInv, NEW j \in Jobs, NEW r \in Request, Start(j, r)
    PROVE  [Lifecycle!Next]_(<<phases, asked, replies>>)
  <1>1. /\ request[j] = NoRequest
        /\ \A k \in Jobs \ {j} : request'[k] = request[k]
    BY StartInv
  <1>2. /\ request' = [request EXCEPT ![j] = r]
        /\ coro' = [coro EXCEPT ![j] = "scheduled"]
        /\ UNCHANGED <<status, results, worker, canceller, asked>>
    BY DEF Start, progress
  <1>3. /\ request'[j] # NoRequest /\ coro'[j] = "scheduled"
        /\ \A k \in Jobs \ {j} : coro'[k] = coro[k]
    BY <1>2, RequestFacts DEF IInv, Shapes
  <1>4. /\ Phase(j) = "new" /\ Phase(j)' = "active"
        /\ \A k \in Jobs \ {j} : Phase(k)' = Phase(k)
    BY <1>1, <1>2, <1>3 DEF Phase, AtRest
  <1>5. /\ phases[j] = "new" /\ phases' = [phases EXCEPT ![j] = "active"]
        /\ replies' = replies
    BY <1>2, <1>4 DEF phases, replies
  <1>6. Lifecycle!Submit(j)
    BY <1>2, <1>5 DEF Lifecycle!Submit, phases, Phase, replies
  <1> QED  BY <1>6 DEF Lifecycle!Next

(* A request to cancel is one of the abstract job. *)
LEMMA CancelRequestRefines ==
    ASSUME IInv, NEW j \in Jobs, CancelRequest(j)
    PROVE  [Lifecycle!Next]_(<<phases, asked, replies>>)
  <1>1. /\ UNCHANGED <<request, status, results, coro, worker>>
        /\ canceller = NoJob /\ canceller' = j /\ asked' = asked \cup {j}
        /\ j \in known /\ status[j] \notin Terminal
    BY DEF CancelRequest, progress
  <1>2. request[j] # NoRequest
    BY <1>1 DEF IInv, Sequential
  <1>3. \A k \in Jobs : k # NoJob
    BY OptimizationAssumption DEF Jobs, NoJob
  <1>4. Phase(j) = "active" /\ \A k \in Jobs : Phase(k)' = Phase(k)
    BY <1>1, <1>2, <1>3 DEF Phase, AtRest
  <1>5. phases[j] = "active" /\ phases' = phases /\ replies' = replies
    BY <1>1, <1>4 DEF phases, replies
  <1>6. CASE j \in asked
    BY <1>1, <1>5, <1>6
  <1>7. CASE j \notin asked
    <2>1. Lifecycle!Ask(j)
      BY <1>1, <1>5, <1>7 DEF Lifecycle!Ask, phases, Phase, replies
    <2> QED  BY <2>1 DEF Lifecycle!Next
  <1> QED  BY <1>6, <1>7

(* The write of cancel() is a step of a job somebody asked to cancel. *)
LEMMA CancelWriteRefines ==
    ASSUME IInv, CancelWrite
    PROVE  [Lifecycle!Next]_(<<phases, asked, replies>>)
  <1>1. PICK j \in Jobs : j = canceller
    BY DEF CancelWrite, IInv, Shapes
  <1>2. /\ UNCHANGED <<request, results, coro, worker, asked>>
        /\ canceller' = NoJob /\ canceller # NoJob
        /\ status' = [status EXCEPT ![j] = "cancelled"]
    BY <1>1 DEF CancelWrite, progress, eventLoop
  <1>3. \A k \in Jobs \ {j} : status'[k] = status[k]
    BY <1>2 DEF IInv, Shapes
  <1>4. request[j] # NoRequest /\ ~AtRest(j)
    BY <1>1 DEF IInv, Sequential, AtRest
  <1>5. \A k \in Jobs : k # NoJob
    BY OptimizationAssumption DEF Jobs, NoJob
  <1>6. ASSUME NEW k \in Jobs \ {j}
        PROVE  Phase(k)' = Phase(k)
    BY <1>1, <1>2, <1>3, <1>5 DEF Phase, AtRest
  <1>7. IInv'
    BY CancelWriteInv
  <1> QED  BY <1>2, <1>4, <1>6, <1>7, ActiveJobMoves

(* The event loop ends a job only when its thread has, or after a cancellation. *)
LEMMA LoopStepRefines ==
    ASSUME IInv, NEW j \in Jobs, LoopStep(j)
    PROVE  [Lifecycle!Next]_(<<phases, asked, replies>>)
  <1>1. IInv' /\ UNCHANGED <<request, results, canceller, asked>>
    BY DispatchInv, CoroutineEndsInv DEF LoopStep, Dispatch, progress
  <1>2. coro[j] \in {"scheduled", "awaiting"}
    BY DEF LoopStep, Dispatch, CancelledScheduled, CancelledAwaiting, Resume
  <1>3. ASSUME NEW k \in Jobs \ {j}
        PROVE  coro'[k] = coro[k] /\ worker'[k] = worker[k] /\ status'[k] = status[k]
    <2>1. CASE Dispatch(j)
      BY <2>1 DEF Dispatch, IInv, Shapes
    <2>2. CASE CancelledScheduled(j) \/ CancelledAwaiting(j) \/ Resume(j)
      BY <2>2, CoroutineEndsInv
    <2> QED  BY <2>1, <2>2 DEF LoopStep
  <1>4. request[j] # NoRequest /\ ~AtRest(j)
    BY <1>2 DEF IInv, Sequential, AtRest
  <1>5. ASSUME NEW k \in Jobs \ {j}
        PROVE  Phase(k)' = Phase(k)
    BY <1>1, <1>3 DEF Phase, AtRest
  <1> QED  BY <1>1, <1>4, <1>5, ActiveJobMoves

(* A thread fails or completes its own job, and leaves the others. *)
LEMMA ThreadStepRefines ==
    ASSUME IInv, NEW j \in Jobs, ThreadStep(j)
    PROVE  [Lifecycle!Next]_(<<phases, asked, replies>>)
  <1>1. worker[j] \in {"begin", "load", "loop"}
    BY DEF ThreadStep, GridBegin, GridLoad, GridStep, GridFinish, FoldBegin,
           FoldStep, FoldFinish
  <1>2. Frame(j)
    BY GridBeginKeeps, GridLoadKeeps, GridStepKeeps, GridFinishKeeps,
       FoldBeginKeeps, FoldStepKeeps, FoldFinishKeeps DEF ThreadStep
  <1>3. results[j] = <<>>
    BY <1>1, JobFacts DEF Working
  <1>4. results' = results \/ (results'[j] # <<>> /\ status'[j] = "completed")
    <2>1. CASE GridFinish(j) \/ FoldFinish(j)
      <3>1. PICK n, answer : Complete(j, n, answer) /\ answer # <<>>
        BY <2>1, GridFinishKeeps, FoldFinishKeeps
      <3>2. /\ status' = [status EXCEPT ![j] = "completed"]
            /\ results' = [results EXCEPT ![j] = answer]
        BY <3>1 DEF Complete
      <3> QED  BY <3>1, <3>2, Entries
    <2>2. CASE ~ (GridFinish(j) \/ FoldFinish(j))
      <3>1. GridBegin(j) \/ GridLoad(j) \/ GridStep(j) \/ FoldBegin(j) \/ FoldStep(j)
        BY <2>2 DEF ThreadStep
      <3> QED
        BY <3>1 DEF GridBegin, GridLoad, GridStep, FoldBegin, FoldStep, Fail, Raise,
                    Leave, progress
    <2> QED  BY <2>1, <2>2
  <1>5. request[j] # NoRequest /\ ~AtRest(j)
    BY <1>1 DEF IInv, Sequential, AtRest
  <1>6. UNCHANGED <<request, coro, canceller, asked>>
    BY <1>2 DEF Frame, eventLoop
  <1>7. ASSUME NEW k \in Jobs \ {j}
        PROVE  results'[k] = results[k] /\ Phase(k)' = Phase(k)
    BY <1>2, <1>6 DEF Frame, Phase, AtRest
  <1>8. IInv'
    BY ThreadStepInv
  <1> QED  BY <1>3, <1>4, <1>5, <1>6, <1>7, <1>8, ActiveJobMoves

(* Every step is a step of the abstract job, or none of it. *)
LEMMA StepRefines ==
    IInv /\ [Next]_vars => [Lifecycle!Next]_(<<phases, asked, replies>>)
  <1> SUFFICES ASSUME IInv, [Next]_vars
               PROVE  [Lifecycle!Next]_(<<phases, asked, replies>>)
    OBVIOUS
  <1>1. ASSUME NEW j \in Jobs, NEW r \in Requests[j],
               StartOptimizationJob(j, r) \/ StartWalkForwardJob(j, r)
                   \/ PostOptimizationJob(j, r)
        PROVE  [Lifecycle!Next]_(<<phases, asked, replies>>)
    <2>1. r \in Request
      BY OptimizationAssumption DEF Request
    <2>2. \E s \in Request : Start(j, s)
      BY <1>1, <2>1, DefaultStep
      DEF StartOptimizationJob, StartWalkForwardJob, PostOptimizationJob
    <2> QED  BY <2>2, StartRefines
  <1>2. CASE UNCHANGED vars
    <2>1. UNCHANGED <<request, status, results, coro, worker, canceller, asked>>
      BY <1>2 DEF vars, progress, eventLoop
    <2> QED  BY <2>1 DEF phases, replies, Phase, AtRest
  <1> QED
    BY <1>1, <1>2, CancelRequestRefines, CancelWriteRefines, LoopStepRefines,
       ThreadStepRefines DEF Next

(* For any number of jobs, requests and limits, and whatever cancellations *)
(* race with the pool threads: a search takes only the steps a background  *)
(* job may take.  Its outcome never changes once it is at rest,            *)
(* "cancelled" needs somebody who asked, and "completed" comes with the    *)
(* answer.                                                                 *)
THEOREM SearchesRefineLifecycle == Spec => Lifecycle!SafeSpec
  <1>1. Init => Lifecycle!Init
    BY DEF Init, Lifecycle!Init, AtRest
  <1>2. IInv /\ [Next]_vars => [Lifecycle!Next]_(Lifecycle!lifecycle)
    BY StepRefines DEF Lifecycle!lifecycle, phases, Phase, replies
  <1> QED
    BY <1>1, <1>2, InvariantHolds, PTL DEF Spec, Lifecycle!SafeSpec

=============================================================================
