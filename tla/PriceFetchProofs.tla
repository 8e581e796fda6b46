--------------------------- MODULE PriceFetchProofs ---------------------------
(***************************************************************************)
(* Proofs about PriceFetch, for every market, every date range, every size *)
(* of a chunk and every limit.                                             *)
(*                                                                         *)
(* What a fetch has read so far is the market from one date to another     *)
(* (RangeRead, HistoryRead), with the bars at the boundaries of its chunks *)
(* twice; the deduplication at the end leaves each of them once.  How many *)
(* there are twice matters for one thing, the safety limit, which counts   *)
(* them.                                                                   *)
(***************************************************************************)
EXTENDS PriceFetch, FiniteSetTheorems, SequenceTheorems,
        WellFoundedInduction, TLAPS

-----------------------------------------------------------------------------
(* Induction over the natural numbers, for a set instead of a predicate.   *)

(* Every set of naturals that is not empty has a smallest member. *)
LEMMA SmallestMember ==
    ASSUME NEW T \in SUBSET Nat, T # {}
    PROVE  \E m \in T : \A k \in T : m <= k
  <1>1. PICK m \in T : \A k \in T : ~ (<<k, m>> \in OpToRel(<, Nat))
    BY WFMin, NatLessThanWellFounded
  <1>2. \A k \in T : ~ (k < m)
    BY <1>1 DEF OpToRel
  <1> QED  BY <1>2

(* A set that has zero and every successor has every natural number. *)
LEMMA SetInduction ==
    ASSUME NEW T, 0 \in T, \A n \in Nat : n \in T => n + 1 \in T
    PROVE  \A n \in Nat : n \in T
  <1> SUFFICES ASSUME NEW n \in Nat \ T
               PROVE  FALSE
    OBVIOUS
  <1>1. PICK m \in Nat \ T : \A k \in Nat \ T : m <= k
    BY SmallestMember
  <1>2. m - 1 \in Nat /\ m - 1 \in T
    BY <1>1
  <1> QED  BY <1>2

-----------------------------------------------------------------------------
(* The elements of a sequence at chosen positions. *)

(* One position more: its element is appended, or passed over. *)
PickStep(s, K, n, q) == IF n \in K THEN Append(q, s[n]) ELSE q

(* g holds what has been picked before each position. *)
PicksUpTo(g, s, K, N) ==
    /\ g[0] = <<>>
    /\ \A n \in 1..N : g[n] = PickStep(s, K, n, g[n - 1])

(* A function that picks the elements one by one exists, for any prefix. *)
LEMMA PicksExist ==
    ASSUME NEW S, NEW s \in Seq(S), NEW K
    PROVE  \E g \in [0..Len(s) -> Seq(S)] : PicksUpTo(g, s, K, Len(s))
  <1> DEFINE T == {N \in Nat : N <= Len(s) =>
                      \E g \in [0..N -> Seq(S)] : PicksUpTo(g, s, K, N)}
  <1>1. 0 \in T
    <2>1. [k \in 0..0 |-> <<>>] \in [0..0 -> Seq(S)]
      OBVIOUS
    <2>2. PicksUpTo([k \in 0..0 |-> <<>>], s, K, 0)
      BY DEF PicksUpTo
    <2> QED  BY <2>1, <2>2
  <1>2. ASSUME NEW N \in Nat, N \in T
        PROVE  N + 1 \in T
    <2> SUFFICES ASSUME N + 1 <= Len(s)
                 PROVE  \E g \in [0..(N + 1) -> Seq(S)] : PicksUpTo(g, s, K, N + 1)
      OBVIOUS
    <2>1. PICK g \in [0..N -> Seq(S)] : PicksUpTo(g, s, K, N)
      BY <1>2
    <2> DEFINE q == PickStep(s, K, N + 1, g[N])
               h == [k \in 0..(N + 1) |-> IF k = N + 1 THEN q ELSE g[k]]
    <2>2. q \in Seq(S)
      <3>1. g[N] \in Seq(S) /\ s[N + 1] \in S
        BY ElementOfSeq
      <3>2. Append(g[N], s[N + 1]) \in Seq(S)
        BY <3>1, AppendProperties
      <3> QED  BY <3>1, <3>2 DEF PickStep
    <2> HIDE DEF q
    <2>3. h \in [0..(N + 1) -> Seq(S)]
      BY <2>2
    <2>4. ASSUME NEW k \in 1..(N + 1)
          PROVE  h[k] = PickStep(s, K, k, h[k - 1])
      <3>1. CASE k = N + 1
        BY <3>1 DEF q
      <3>2. CASE k # N + 1
        <4>1. k \in 1..N /\ k - 1 \in 0..N
          BY <3>2
        <4> QED  BY <4>1, <2>1 DEF PicksUpTo
      <3> QED  BY <3>1, <3>2
    <2>5. h[0] = <<>>
      BY <2>1 DEF PicksUpTo
    <2> HIDE DEF h
    <2> QED  BY <2>3, <2>4, <2>5 DEF PicksUpTo
  <1> HIDE DEF T
  <1>3. Len(s) \in T
    BY <1>1, <1>2, SetInduction, LenProperties
  <1> QED  BY <1>3, LenProperties DEF T

(* q is the elements of s at the positions of K up to n, in their order:   *)
(* pos says where each of them was.                                        *)
Selection(q, pos, s, K, n) ==
    /\ pos \in [1..Len(q) -> {m \in 1..n : m \in K}]
    /\ \A k \in 1..Len(q) : q[k] = s[pos[k]]
    /\ \A k, m \in 1..Len(q) : k < m => pos[k] < pos[m]
    /\ \A m \in 1..n : m \in K => \E k \in 1..Len(q) : pos[k] = m

(* Picked is such a selection from the whole sequence. *)
LEMMA PickedValues ==
    ASSUME NEW S, NEW s \in Seq(S), NEW K
    PROVE  /\ Picked(s, K) \in Seq(S)
           /\ \E pos : Selection(Picked(s, K), pos, s, K, Len(s))
  <1> DEFINE g == PickedUpTo(s, K)
             N == Len(s)
  <1>1. N \in Nat
    BY LenProperties
  <1>2. g \in [0..N -> Seq(S)] /\ PicksUpTo(g, s, K, N)
    <2>1. PICK f \in [0..N -> Seq(S)] : PicksUpTo(f, s, K, N)
      BY PicksExist
    <2> DEFINE Body(h) ==
            [n \in 0..Len(s) |->
                IF n = 0 THEN <<>>
                ELSE IF n \in K THEN Append(h[n - 1], s[n]) ELSE h[n - 1]]
    <2>2. f = Body(f)
      <3>1. ASSUME NEW n \in 0..N
            PROVE  f[n] = IF n = 0 THEN <<>>
                          ELSE IF n \in K THEN Append(f[n - 1], s[n]) ELSE f[n - 1]
        <4>1. CASE n = 0
          BY <4>1, <2>1 DEF PicksUpTo
        <4>2. CASE n # 0
          <5>1. n \in 1..N
            BY <1>1, <4>2
          <5>2. f[n] = PickStep(s, K, n, f[n - 1])
            BY <5>1, <2>1 DEF PicksUpTo
          <5> QED  BY <4>2, <5>2 DEF PickStep
        <4> QED  BY <4>1, <4>2
      <3> QED  BY <2>1, <3>1
    <2>3. g = Body(g)
      <3>1. g = CHOOSE h : h = Body(h)
        BY DEF PickedUpTo
      <3> HIDE DEF g
      <3> QED  BY <2>2, <3>1
    <2> HIDE DEF g
    <2>4. PicksUpTo(g, s, K, N)
      <3>1. g[0] = <<>>
        BY <1>1, <2>3
      <3>2. ASSUME NEW n \in 1..N
            PROVE  g[n] = PickStep(s, K, n, g[n - 1])
        <4>1. n \in 0..Len(s) /\ n # 0
          BY <1>1
        <4>2. g[n] = IF n \in K THEN Append(g[n - 1], s[n]) ELSE g[n - 1]
          BY <2>3, <4>1
        <4> QED  BY <4>2 DEF PickStep
      <3> QED  BY <3>1, <3>2 DEF PicksUpTo
    <2> DEFINE T == {n \in Nat : n <= N => g[n] = f[n]}
    <2>5. 0 \in T
      BY <2>1, <2>4 DEF PicksUpTo
    <2>6. ASSUME NEW n \in Nat, n \in T
          PROVE  n + 1 \in T
      <3> SUFFICES ASSUME n + 1 <= N
                   PROVE  g[n + 1] = f[n + 1]
        OBVIOUS
      <3>1. n + 1 \in 1..N /\ (n + 1) - 1 = n /\ g[n] = f[n]
        BY <1>1, <2>6
      <3> QED  BY <3>1, <2>1, <2>4 DEF PicksUpTo
    <2> HIDE DEF T
    <2>7. \A n \in Nat : n \in T
      BY <2>5, <2>6, SetInduction
    <2>8. \A n \in 0..N : g[n] = f[n]
      BY <1>1, <2>7 DEF T
    <2>9. DOMAIN g = 0..N
      BY <2>3
    <2>10. g = [n \in 0..N |-> g[n]]
      BY <2>3
    <2> QED  BY <2>1, <2>4, <2>8, <2>10
  <1> HIDE DEF g
  <1> DEFINE T == {n \in Nat : n <= N =>
                      \E pos : Selection(g[n], pos, s, K, n)}
  <1>3. 0 \in T
    <2>1. g[0] = <<>> /\ Len(<<>>) = 0
      BY <1>2 DEF PicksUpTo
    <2>2. Selection(g[0], <<>>, s, K, 0)
      BY <2>1 DEF Selection
    <2> QED  BY <2>2
  <1>4. ASSUME NEW n \in Nat, n \in T
        PROVE  n + 1 \in T
    <2> SUFFICES ASSUME n + 1 <= N
                 PROVE  \E pos : Selection(g[n + 1], pos, s, K, n + 1)
      OBVIOUS
    <2>1. /\ n + 1 \in 1..N /\ n \in 0..N
          /\ g[n + 1] = PickStep(s, K, n + 1, g[n])
          /\ g[n] \in Seq(S)
      <3>1. n + 1 \in 1..N /\ n \in 0..N /\ (n + 1) - 1 = n
        BY <1>1
      <3>2. g[n + 1] = PickStep(s, K, n + 1, g[(n + 1) - 1])
        BY <1>2, <3>1 DEF PicksUpTo
      <3> QED  BY <1>2, <3>1, <3>2
    <2>2. PICK pos : Selection(g[n], pos, s, K, n)
      BY <1>1, <1>4, <2>1
    <2> DEFINE q == g[n]
               L == Len(g[n])
    <2>3. L \in Nat /\ q \in Seq(S)
      BY <2>1, LenProperties
    <2> HIDE DEF q, L
    <2>s. Selection(q, pos, s, K, n) /\ Len(q) = L
      BY <2>2 DEF q, L
    <2>g. g[n + 1] = PickStep(s, K, n + 1, q)
      BY <2>1 DEF q
    <2>4. CASE n + 1 \notin K
      <3>1. g[n + 1] = q
        BY <2>g, <2>4 DEF PickStep
      <3>2. Selection(q, pos, s, K, n + 1)
        <4>1. {m \in 1..n : m \in K} = {m \in 1..(n + 1) : m \in K}
          BY <2>4
        <4>2. \A m \in 1..(n + 1) : m \in K => m \in 1..n
          BY <2>4
        <4> QED  BY <2>s, <4>1, <4>2 DEF Selection
      <3> QED  BY <3>1, <3>2
    <2>5. CASE n + 1 \in K
      <3> DEFINE r == Append(q, s[n + 1])
                 at == [k \in 1..(L + 1) |-> IF k = L + 1 THEN n + 1 ELSE pos[k]]
      <3>1. g[n + 1] = r
        BY <2>g, <2>5 DEF PickStep
      <3>2. s[n + 1] \in S
        BY <2>1, ElementOfSeq
      <3>3. /\ Len(r) = L + 1
            /\ r[L + 1] = s[n + 1]
            /\ \A k \in 1..L : r[k] = q[k]
        BY <2>3, <2>s, <3>2, AppendProperties
      <3> HIDE DEF r
      <3>4. \A k \in 1..L : /\ pos[k] \in 1..n /\ pos[k] \in K
                            /\ q[k] = s[pos[k]]
        BY <2>s DEF Selection
      <3>5. at \in [1..(L + 1) -> {m \in 1..(n + 1) : m \in K}]
        BY <2>3, <2>5, <3>4
      <3>6. \A k \in 1..(L + 1) : r[k] = s[at[k]]
        BY <2>3, <3>3, <3>4
      <3>7. \A k, m \in 1..(L + 1) : k < m => at[k] < at[m]
        <4>1. \A k, m \in 1..L : k < m => pos[k] < pos[m]
          BY <2>s DEF Selection
        <4>2. ASSUME NEW k \in 1..(L + 1), NEW m \in 1..(L + 1), k < m
              PROVE  at[k] < at[m]
          <5>1. k \in 1..L /\ pos[k] \in 1..n
            BY <2>3, <3>4, <4>2
          <5>2. CASE m = L + 1
            BY <2>3, <5>1, <5>2
          <5>3. CASE m # L + 1
            <6>1. m \in 1..L
              BY <2>3, <5>3
            <6>2. at[k] = pos[k] /\ at[m] = pos[m]
              BY <2>3, <5>1, <5>3, <6>1
            <6> QED  BY <4>1, <4>2, <5>1, <6>1, <6>2
          <5> QED  BY <5>2, <5>3
        <4> QED  BY <4>2
      <3>8. \A m \in 1..(n + 1) : m \in K => \E k \in 1..(L + 1) : at[k] = m
        <4> SUFFICES ASSUME NEW m \in 1..(n + 1), m \in K
                     PROVE  \E k \in 1..(L + 1) : at[k] = m
          OBVIOUS
        <4>1. CASE m = n + 1
          <5>1. L + 1 \in 1..(L + 1) /\ at[L + 1] = n + 1
            BY <2>3
          <5> QED  BY <4>1, <5>1
        <4>2. CASE m # n + 1
          <5>1. m \in 1..n
            BY <4>2
          <5>2. PICK k \in 1..L : pos[k] = m
            BY <2>s, <5>1 DEF Selection
          <5>3. k \in 1..(L + 1) /\ k # L + 1
            BY <2>3
          <5> QED  BY <5>2, <5>3
        <4> QED  BY <4>1, <4>2
      <3> HIDE DEF at
      <3>9. Selection(r, at, s, K, n + 1)
        BY <3>3, <3>5, <3>6, <3>7, <3>8 DEF Selection
      <3> QED  BY <3>1, <3>9
    <2> QED  BY <2>4, <2>5
  <1> HIDE DEF T
  <1>5. N \in T
    BY <1>1, <1>3, <1>4, SetInduction
  <1>6. Picked(s, K) = g[N]
    BY DEF Picked, g
  <1> QED  BY <1>1, <1>2, <1>5, <1>6 DEF T

-----------------------------------------------------------------------------
(* Candles and the deduplication. *)

(* The answer of the exchange is what it holds between the two dates, each *)
(* bar once and oldest first.                                              *)
LEMMA CandlesExact ==
    ASSUME market \in SUBSET Times, NEW from \in Int, NEW to \in Int
    PROVE  /\ Candles(from, to) \in Seq(Times)
           /\ ToSet(Candles(from, to)) = Between(from, to)
           /\ IsStrictlyIncreasing(Candles(from, to))
  <1> DEFINE s == [x \in Times |-> x]
             K == Between(from, to)
             c == Picked(s, K)
  <1>1. s \in Seq(Times) /\ Len(s) = Horizon /\ Horizon \in Nat /\ Times \subseteq Int
    BY FetchAssumption DEF Times
  <1>2. K \subseteq Times
    BY DEF Between
  <1>3. \A x \in Times : s[x] = x
    OBVIOUS
  <1> HIDE DEF s, K
  <1>4. /\ c \in Seq(Times)
        /\ \E pos : Selection(c, pos, s, K, Len(s))
    BY <1>1, PickedValues
  <1> HIDE DEF c
  <1>5. PICK pos : Selection(c, pos, s, K, Len(s))
    BY <1>4
  <1>6. Len(c) \in Nat /\ DOMAIN c = 1..Len(c)
    BY <1>4, LenProperties
  <1>7. \A k \in 1..Len(c) : c[k] = pos[k] /\ c[k] \in K
    BY <1>1, <1>2, <1>3, <1>5 DEF Selection
  <1>8. K \subseteq ToSet(c)
    <2> SUFFICES ASSUME NEW x \in K
                 PROVE  \E k \in DOMAIN c : c[k] = x
      BY DEF ToSet
    <2>1. x \in 1..Len(s)
      BY <1>1, <1>2 DEF Times
    <2> QED  BY <1>5, <1>6, <1>7, <2>1 DEF Selection
  <1>9. ToSet(c) = K
    BY <1>6, <1>7, <1>8 DEF ToSet
  <1>10. IsStrictlyIncreasing(c)
    BY <1>5, <1>6, <1>7 DEF Selection, IsStrictlyIncreasing
  <1> QED  BY <1>4, <1>9, <1>10 DEF Candles, c, s, K

(* Oldest first, equal timestamps side by side. *)
Ascending(s) == \A k, n \in DOMAIN s : k < n => s[k] <= s[n]

(* Keeping the first bar of every timestamp loses none and leaves none     *)
(* twice; the order stays.                                                 *)
LEMMA DeduplicateExact ==
    ASSUME NEW s \in Seq(Int)
    PROVE  /\ Deduplicate(s) \in Seq(Int)
           /\ ToSet(Deduplicate(s)) = ToSet(s)
           /\ IsInjective(Deduplicate(s))
           /\ Ascending(s) => IsStrictlyIncreasing(Deduplicate(s))
  <1> DEFINE K == {n \in DOMAIN s : \A m \in 1..(n - 1) : s[m] # s[n]}
             d == Picked(s, K)
  <1>1. Len(s) \in Nat /\ DOMAIN s = 1..Len(s) /\ \A n \in 1..Len(s) : s[n] \in Int
    BY LenProperties, ElementOfSeq
  <1>2. K \subseteq 1..Len(s)
    BY <1>1
  <1>k. \A m, n \in 1..Len(s) : n \in K /\ m < n => s[m] # s[n]
    <2> SUFFICES ASSUME NEW m \in 1..Len(s), NEW n \in 1..Len(s), n \in K, m < n
                 PROVE  s[m] # s[n]
      OBVIOUS
    <2>1. m \in 1..(n - 1)
      BY <1>1
    <2> QED  BY <2>1
  <1>f. \A n \in 1..Len(s) : \E m \in K : s[m] = s[n]
    <2> SUFFICES ASSUME NEW n \in 1..Len(s)
                 PROVE  \E m \in K : s[m] = s[n]
      OBVIOUS
    <2> DEFINE T == {m \in 1..Len(s) : s[m] = s[n]}
    <2>1. T \in SUBSET Nat /\ n \in T
      BY <1>1
    <2>2. PICK m \in T : \A l \in T : m <= l
      BY <2>1, SmallestMember
    <2>3. m \in 1..Len(s) /\ s[m] = s[n]
      BY <2>2
    <2>4. \A l \in 1..(m - 1) : s[l] # s[m]
      <3> SUFFICES ASSUME NEW l \in 1..(m - 1), s[l] = s[m]
                   PROVE  FALSE
        OBVIOUS
      <3>1. l \in 1..Len(s) /\ ~(m <= l)
        BY <1>1, <2>3
      <3> QED  BY <2>2, <2>3, <3>1
    <2> QED  BY <1>1, <2>3, <2>4
  <1> HIDE DEF K
  <1>4. /\ d \in Seq(Int)
        /\ \E pos : Selection(d, pos, s, K, Len(s))
    BY PickedValues
  <1> HIDE DEF d
  <1>5. PICK pos : Selection(d, pos, s, K, Len(s))
    BY <1>4
  <1>6. Len(d) \in Nat /\ DOMAIN d = 1..Len(d)
    BY <1>4, LenProperties
  <1>7. \A k \in 1..Len(d) : d[k] = s[pos[k]] /\ pos[k] \in 1..Len(s) /\ pos[k] \in K
    BY <1>5 DEF Selection
  <1>8. ToSet(d) \subseteq ToSet(s)
    BY <1>1, <1>6, <1>7 DEF ToSet
  <1>9. ToSet(s) \subseteq ToSet(d)
    <2> SUFFICES ASSUME NEW n \in 1..Len(s)
                 PROVE  \E k \in 1..Len(d) : d[k] = s[n]
      BY <1>1, <1>6 DEF ToSet
    <2>1. PICK m \in K : s[m] = s[n]
      BY <1>f
    <2>2. PICK k \in 1..Len(d) : pos[k] = m
      BY <1>2, <1>5 DEF Selection
    <2> QED  BY <1>7, <2>1, <2>2
  <1>10. \A k, n \in 1..Len(d) : k < n => d[k] # d[n]
    <2> SUFFICES ASSUME NEW k \in 1..Len(d), NEW n \in 1..Len(d), k < n
                 PROVE  d[k] # d[n]
      OBVIOUS
    <2>1. pos[k] < pos[n]
      BY <1>5 DEF Selection
    <2> QED  BY <1>k, <1>7, <2>1
  <1>11. IsInjective(d)
    <2> SUFFICES ASSUME NEW a \in 1..Len(d), NEW b \in 1..Len(d), d[a] = d[b]
                 PROVE  a = b
      BY <1>6 DEF IsInjective
    <2>1. ~(a < b) /\ ~(b < a)
      BY <1>10
    <2> QED  BY <2>1
  <1>12. Ascending(s) => IsStrictlyIncreasing(d)
    <2> SUFFICES ASSUME Ascending(s), NEW k \in 1..Len(d), NEW n \in 1..Len(d), k < n
                 PROVE  d[k] < d[n]
      BY <1>6 DEF IsStrictlyIncreasing
    <2>1. pos[k] < pos[n]
      BY <1>5 DEF Selection
    <2>2. s[pos[k]] <= s[pos[n]]
      BY <1>1, <1>7, <2>1 DEF Ascending
    <2> QED  BY <1>1, <1>7, <1>10, <2>2
  <1> QED  BY <1>4, <1>8, <1>9, <1>11, <1>12 DEF Deduplicate, d, K

(* What one chunk after another holds. *)
LEMMA ConcatValues ==
    ASSUME NEW s \in Seq(Int), NEW t \in Seq(Int)
    PROVE  /\ s \o t \in Seq(Int)
           /\ Len(s \o t) = Len(s) + Len(t)
           /\ ToSet(s \o t) = ToSet(s) \cup ToSet(t)
           /\ (/\ Ascending(s) /\ Ascending(t)
               /\ \A x \in ToSet(s), y \in ToSet(t) : x <= y)
                 => Ascending(s \o t)
  <1> DEFINE q == s \o t
  <1>1. /\ q \in Seq(Int) /\ Len(q) = Len(s) + Len(t)
        /\ \A i \in 1..(Len(s) + Len(t)) :
              q[i] = IF i <= Len(s) THEN s[i] ELSE t[i - Len(s)]
    BY ConcatProperties
  <1>2. /\ Len(s) \in Nat /\ Len(t) \in Nat
        /\ DOMAIN s = 1..Len(s) /\ DOMAIN t = 1..Len(t)
        /\ DOMAIN q = 1..(Len(s) + Len(t))
    BY <1>1, LenProperties
  <1> HIDE DEF q
  <1>m. /\ \A i \in 1..Len(s) : s[i] \in ToSet(s)
        /\ \A i \in 1..Len(t) : t[i] \in ToSet(t)
    BY <1>2 DEF ToSet
  <1>3. ASSUME NEW i \in 1..(Len(s) + Len(t))
        PROVE  \/ i \in 1..Len(s) /\ q[i] = s[i] /\ q[i] \in ToSet(s)
               \/ /\ i > Len(s) /\ i - Len(s) \in 1..Len(t)
                  /\ q[i] = t[i - Len(s)] /\ q[i] \in ToSet(t)
    <2>1. CASE i <= Len(s)
      <3>1. i \in 1..Len(s)
        BY <1>2, <2>1
      <3> QED  BY <1>1, <1>m, <2>1, <3>1
    <2>2. CASE ~(i <= Len(s))
      <3>1. i - Len(s) \in 1..Len(t)
        BY <1>2, <2>2
      <3>2. i > Len(s) /\ q[i] = t[i - Len(s)]
        BY <1>1, <1>2, <2>2
      <3> QED  BY <1>m, <3>1, <3>2
    <2> QED  BY <2>1, <2>2
  <1>4. ToSet(q) \subseteq ToSet(s) \cup ToSet(t)
    BY <1>2, <1>3 DEF ToSet
  <1>5. ToSet(s) \subseteq ToSet(q)
    <2> SUFFICES ASSUME NEW i \in 1..Len(s)
                 PROVE  \E k \in DOMAIN q : q[k] = s[i]
      BY <1>2 DEF ToSet
    <2>1. i \in 1..(Len(s) + Len(t)) /\ i <= Len(s)
      BY <1>2
    <2> QED  BY <1>1, <1>2, <2>1
  <1>6. ToSet(t) \subseteq ToSet(q)
    <2> SUFFICES ASSUME NEW i \in 1..Len(t)
                 PROVE  \E k \in DOMAIN q : q[k] = t[i]
      BY <1>2 DEF ToSet
    <2>1. /\ Len(s) + i \in 1..(Len(s) + Len(t)) /\ ~(Len(s) + i <= Len(s))
          /\ (Len(s) + i) - Len(s) = i
      BY <1>2
    <2> QED  BY <1>1, <1>2, <2>1
  <1>7. ASSUME Ascending(s), Ascending(t),
               \A x \in ToSet(s), y \in ToSet(t) : x <= y
        PROVE  Ascending(q)
    <2> SUFFICES ASSUME NEW k \in 1..(Len(s) + Len(t)),
                        NEW n \in 1..(Len(s) + Len(t)), k < n
                 PROVE  q[k] <= q[n]
      BY <1>2 DEF Ascending
    <2>1. CASE n \in 1..Len(s) /\ q[n] = s[n]
      <3>1. k \in 1..Len(s) /\ q[k] = s[k]
        BY <1>2, <1>3, <2>1
      <3> QED  BY <1>2, <1>7, <2>1, <3>1 DEF Ascending
    <2>2. CASE n > Len(s) /\ n - Len(s) \in 1..Len(t) /\ q[n] = t[n - Len(s)]
               /\ q[n] \in ToSet(t)
      <3>1. CASE k \in 1..Len(s) /\ q[k] \in ToSet(s)
        BY <1>7, <2>2, <3>1
      <3>2. CASE k - Len(s) \in 1..Len(t) /\ q[k] = t[k - Len(s)]
        <4>1. k - Len(s) < n - Len(s)
          BY <1>2
        <4> QED  BY <1>2, <1>7, <2>2, <3>2, <4>1 DEF Ascending
      <3> QED  BY <1>3, <3>1, <3>2
    <2> QED  BY <1>3, <2>1, <2>2
  <1> QED  BY <1>1, <1>4, <1>5, <1>6, <1>7 DEF q

(* The history is read backwards and then turned round. *)
LEMMA ReverseValues ==
    ASSUME NEW s \in Seq(Int)
    PROVE  Reverse(s) \in Seq(Int) /\ ToSet(Reverse(s)) = ToSet(s)
  <1>1. Len(s) \in Nat /\ DOMAIN s = 1..Len(s) /\ \A n \in 1..Len(s) : s[n] \in Int
    BY LenProperties, ElementOfSeq
  <1>2. \A i \in 1..Len(s) : (Len(s) - i) + 1 \in 1..Len(s)
                             /\ (Len(s) - ((Len(s) - i) + 1)) + 1 = i
    BY <1>1
  <1>3. Reverse(s) \in [1..Len(s) -> Int]
    BY <1>1, <1>2 DEF Reverse
  <1>4. Reverse(s) \in Seq(Int)
    BY <1>1, <1>3
  <1>5. ToSet(Reverse(s)) \subseteq ToSet(s)
    BY <1>1, <1>2 DEF Reverse, ToSet
  <1>6. ToSet(s) \subseteq ToSet(Reverse(s))
    <2> SUFFICES ASSUME NEW i \in 1..Len(s)
                 PROVE  \E k \in DOMAIN Reverse(s) : Reverse(s)[k] = s[i]
      BY <1>1 DEF ToSet
    <2>1. (Len(s) - i) + 1 \in 1..Len(s) /\ (Len(s) - ((Len(s) - i) + 1)) + 1 = i
      BY <1>2
    <2> QED  BY <1>3, <2>1 DEF Reverse
  <1> QED  BY <1>4, <1>5, <1>6

-----------------------------------------------------------------------------
(* How many bars there are twice. *)

(* A list without repetition is as long as the set of its values. *)
LEMMA InjectiveSize ==
    ASSUME NEW s \in Seq(Int), IsInjective(s)
    PROVE  IsFiniteSet(ToSet(s)) /\ Cardinality(ToSet(s)) = Len(s)
  <1>1. Len(s) \in Nat /\ DOMAIN s = 1..Len(s) /\ s \in [1..Len(s) -> ToSet(s)]
    BY LenProperties DEF ToSet
  <1>2. s \in Surjection(1..Len(s), ToSet(s)) /\ s \in Injection(1..Len(s), ToSet(s))
    BY <1>1 DEF Surjection, Injection, ToSet
  <1>3. IsFiniteSet(1..Len(s)) /\ Cardinality(1..Len(s)) = Len(s)
    BY <1>1, FS_Interval
  <1> QED  BY <1>2, <1>3, FS_Surjection

(* A rising list has none. *)
LEMMA IncreasingInjective ==
    ASSUME NEW s \in Seq(Int), IsStrictlyIncreasing(s)
    PROVE  IsInjective(s) /\ Ascending(s)
  <1>1. Len(s) \in Nat /\ DOMAIN s = 1..Len(s) /\ \A n \in 1..Len(s) : s[n] \in Int
    BY LenProperties, ElementOfSeq
  <1>2. IsInjective(s)
    <2> SUFFICES ASSUME NEW a \in 1..Len(s), NEW b \in 1..Len(s), s[a] = s[b]
                 PROVE  a = b
      BY <1>1 DEF IsInjective
    <2>1. ~(a < b) /\ ~(b < a)
      BY <1>1 DEF IsStrictlyIncreasing
    <2> QED  BY <2>1
  <1> QED  BY <1>1, <1>2 DEF IsStrictlyIncreasing, Ascending

(* A chunk that begins where the set A of bars ends has at most one of     *)
(* them again.                                                             *)
LEMMA BoundarySize ==
    ASSUME NEW A \in SUBSET Int, IsFiniteSet(A),
           NEW t \in Seq(Int), IsStrictlyIncreasing(t),
           NEW c \in Int, \A x \in A : x <= c, \A y \in ToSet(t) : c <= y,
           IsFiniteSet(A \cup ToSet(t))
    PROVE  Cardinality(A) + Len(t) <= Cardinality(A \cup ToSet(t)) + 1
  <1> DEFINE a == Cardinality(A)
             n == Len(t)
             U == A \cup ToSet(t)
  <1>1. /\ a \in Nat /\ n \in Nat /\ DOMAIN t = 1..n /\ Cardinality(U) \in Nat
        /\ \A k \in 1..n : t[k] \in Int /\ t[k] \in ToSet(t)
    BY LenProperties, ElementOfSeq, FS_CardinalityType DEF ToSet
  <1>2. PICK d \in Bijection(1..a, A) : TRUE
    BY FS_CardinalityType DEF ExistsBijection
  <1> HIDE DEF a, n, U
  <1>3. \A k \in 1..a : d[k] \in A
    BY <1>2 DEF Bijection, Injection
  <1>4. \A k, m \in 1..a : d[k] = d[m] => k = m
    BY <1>2 DEF Bijection, Injection, IsInjective
  <1>x. \A x \in A : x \in Int /\ ~(x > c)
    OBVIOUS
  <1>t. \A k, m \in 1..n : t[k] = t[m] => k = m
    BY <1>1, IncreasingInjective DEF IsInjective
  <1>5. CASE n = 0
    <2>1. A \in SUBSET U
      BY DEF U
    <2>2. a <= Cardinality(U)
      BY <2>1, FS_Subset DEF U, a
    <2> QED  BY <1>1, <1>5, <2>2 DEF a, n, U
  <1>6. CASE n > 0
    <2> DEFINE D == 1..(a + n - 1)
               f == [k \in D |-> IF k <= a THEN d[k] ELSE t[(k - a) + 1]]
    <2>1. ASSUME NEW k \in D
          PROVE  \/ k \in 1..a /\ f[k] = d[k] /\ f[k] \in A
                 \/ /\ k > a /\ (k - a) + 1 \in 2..n
                    /\ f[k] = t[(k - a) + 1] /\ f[k] \in ToSet(t) /\ f[k] > c
      <3>1. CASE k <= a
        BY <1>1, <1>3, <3>1
      <3>2. CASE ~(k <= a)
        <4>1. k > a /\ (k - a) + 1 \in 2..n
          BY <1>1, <1>6, <3>2
        <4>2. t[1] < t[(k - a) + 1] /\ c <= t[1]
          BY <1>1, <1>6, <4>1 DEF IsStrictlyIncreasing
        <4>3. t[(k - a) + 1] \in ToSet(t) /\ t[(k - a) + 1] > c
          BY <1>1, <1>6, <4>1, <4>2
        <4> QED  BY <3>2, <4>1, <4>3
      <3> QED  BY <3>1, <3>2
    <2> HIDE DEF f
    <2>2. f \in [D -> U]
      <3>1. DOMAIN f = D /\ f = [k \in D |-> f[k]]
        BY DEF f
      <3> HIDE DEF D
      <3>2. \A k \in D : f[k] \in U
        BY <2>1 DEF U
      <3> QED  BY <3>1, <3>2
    <2>3. \A k, m \in D : f[k] = f[m] => k = m
      <3> SUFFICES ASSUME NEW k \in D, NEW m \in D, f[k] = f[m]
                   PROVE  k = m
        OBVIOUS
      <3>1. CASE k \in 1..a /\ f[k] = d[k] /\ f[k] \in A
        <4>1. ~(f[m] > c)
          BY <1>x, <3>1
        <4>2. m \in 1..a /\ f[m] = d[m]
          BY <2>1, <4>1
        <4> QED  BY <1>4, <3>1, <4>2
      <3>2. CASE k > a /\ (k - a) + 1 \in 2..n /\ f[k] = t[(k - a) + 1] /\ f[k] > c
        <4>1. f[m] \notin A
          BY <1>x, <3>2
        <4>2. (m - a) + 1 \in 2..n /\ f[m] = t[(m - a) + 1]
          BY <2>1, <4>1
        <4>3. (k - a) + 1 \in 1..n /\ (m - a) + 1 \in 1..n
          BY <1>1, <3>2, <4>2
        <4>4. (k - a) + 1 = (m - a) + 1
          <5> DEFINE x == (k - a) + 1
                     y == (m - a) + 1
          <5>1. x \in 1..n /\ y \in 1..n /\ t[x] = t[y]
            BY <3>2, <4>2, <4>3
          <5> HIDE DEF x, y
          <5>2. x = y
            BY <1>t, <5>1
          <5> QED  BY <5>2 DEF x, y
        <4>5. k \in Int /\ m \in Int
          BY <1>1
        <4> QED  BY <1>1, <4>4, <4>5
      <3> QED  BY <2>1, <3>1, <3>2
    <2>4. f \in Injection(D, U)
      <3> HIDE DEF D
      <3> QED  BY <2>2, <2>3 DEF Injection, IsInjective
    <2>5. Cardinality(D) <= Cardinality(U)
      <3> HIDE DEF D
      <3> QED  BY <2>4, FS_Injection DEF U
    <2>6. Cardinality(D) = a + n - 1
      <3>1. a + n - 1 \in Nat
        BY <1>1, <1>6
      <3> DEFINE x == a + n - 1
      <3> HIDE DEF x
      <3>2. x \in Nat
        BY <3>1 DEF x
      <3>3. Cardinality(1..x) = x
        BY <3>2, FS_Interval
      <3> QED  BY <3>3 DEF x
    <2> HIDE DEF D
    <2> QED  BY <1>1, <2>5, <2>6 DEF a, n, U
  <1> QED  BY <1>1, <1>5, <1>6

-----------------------------------------------------------------------------
(* The inductive invariant. *)

Phases == {"queued", "range", "history", "fetched", "saved", "done"}

Typed ==
    /\ market \in SUBSET Times
    /\ request \in [Jobs -> Requests]
    /\ phase \in [Jobs -> Phases]
    /\ cursor \in [Jobs -> Int]
    /\ chunks \in [Jobs -> Nat]
    /\ bars \in [Jobs -> Seq(Int)]

(* k chunks of a date range have been read and the range goes on: the bars *)
(* are those up to the cursor, oldest first, and no more than one of them  *)
(* is there twice at each boundary between two chunks.                     *)
RangeRead(j, k) ==
    /\ cursor[j] = StartOf(j) + k * ChunkBars
    /\ cursor[j] < EndOf(j)
    /\ k = 0 => bars[j] = <<>>
    /\ k > 0 =>
          /\ ToSet(bars[j]) = Between(StartOf(j), cursor[j])
          /\ Ascending(bars[j])
          /\ Len(bars[j]) < Cardinality(Between(StartOf(j), cursor[j])) + k

(* Chunks of the history have been read: the bars are those from the       *)
(* cursor to now.                                                          *)
HistoryRead(j) ==
    /\ cursor[j] <= Horizon /\ chunks[j] < MaxChunks
    /\ IF chunks[j] = 0
         THEN cursor[j] = Horizon /\ bars[j] = <<>>
         ELSE ToSet(bars[j]) = Between(cursor[j], Horizon)

(* The answer of a fetch of either kind, and why it ended where it did.    *)
RangeAnswer(j) ==
    /\ ToSet(bars[j]) = Between(StartOf(j), cursor[j])
    /\ IsStrictlyIncreasing(bars[j])
HistoryAnswer(j) ==
    /\ IsInjective(bars[j])
    /\ ToSet(bars[j]) = Between(cursor[j], Horizon)
Answered(j) ==
    /\ IF IsHistory(j) THEN HistoryAnswer(j) ELSE RangeAnswer(j)
    /\ ReadToEnd(j)

(* What the job's thread has, wherever it is.                              *)
Sound(j) ==
    /\ phase[j] = "queued" => bars[j] = <<>> /\ chunks[j] = 0
    /\ phase[j] = "range" => ~IsHistory(j) /\ \E k \in Nat : RangeRead(j, k)
    /\ phase[j] = "history" => IsHistory(j) /\ HistoryRead(j)
    /\ Fetched(j) => Answered(j)

IInv == Typed /\ \A j \in Jobs : Sound(j)

(* Dates are numbers of bars. *)
LEMMA Dates ==
    ASSUME Typed, NEW j \in Jobs
    PROVE  StartOf(j) \in Int /\ EndOf(j) \in Int
  <1>1. request[j] \in [start : Int \cup {None}, end : Int \cup {None}]
    BY FetchAssumption DEF Typed
  <1> QED  BY <1>1, FetchAssumption DEF StartOf, EndOf

(* There are finitely many bars. *)
LEMMA BetweenFinite ==
    ASSUME market \in SUBSET Times, NEW from \in Int, NEW to \in Int
    PROVE  /\ IsFiniteSet(Between(from, to)) /\ Between(from, to) \in SUBSET Int
           /\ Cardinality(Between(from, to)) \in Nat
  <1>1. IsFiniteSet(Times) /\ Times \subseteq Int
    BY FetchAssumption, FS_Interval DEF Times
  <1>2. Between(from, to) \in SUBSET Times
    BY DEF Between
  <1>3. IsFiniteSet(Between(from, to))
    BY <1>1, <1>2, FS_Subset
  <1> QED  BY <1>1, <1>2, <1>3, FS_CardinalityType

(* Jobs whose own variables stay as they are stay sound. *)
LEMMA SoundSame ==
    ASSUME market' = market, request' = request, NEW K,
           \A j \in K :
              /\ Sound(j)
              /\ \/ phase'[j] = phase[j]
                 \/ phase'[j] = "done"
                 \/ phase[j] = "fetched" /\ phase'[j] = "saved"
              /\ cursor'[j] = cursor[j] /\ chunks'[j] = chunks[j] /\ bars'[j] = bars[j]
    PROVE  \A j \in K : Sound(j)'
  <1> SUFFICES ASSUME NEW j \in K
               PROVE  Sound(j)'
    OBVIOUS
  <1>1. /\ StartOf(j)' = StartOf(j) /\ EndOf(j)' = EndOf(j)
        /\ IsHistory(j)' <=> IsHistory(j)
    BY DEF StartOf, EndOf, IsHistory
  <1>2. \A k : RangeRead(j, k)' <=> RangeRead(j, k)
    BY <1>1 DEF RangeRead, Between
  <1>3. HistoryRead(j)' <=> HistoryRead(j)
    BY DEF HistoryRead, Between
  <1>4. Answered(j)' <=> Answered(j)
    BY <1>1 DEF Answered, HistoryAnswer, RangeAnswer, ReadToEnd, HistoryStart, Between
  <1> QED  BY <1>1, <1>2, <1>3, <1>4 DEF Sound, Fetched

(* A step of one job is sound when its own new state is. *)
LEMMA OneJob ==
    ASSUME IInv, UNCHANGED <<market, request>>, NEW j \in Jobs,
           NEW p \in Phases, phase' = [phase EXCEPT ![j] = p],
           NEW c \in Int, cursor' = [cursor EXCEPT ![j] = c],
           NEW n \in Nat, chunks' = [chunks EXCEPT ![j] = n],
           NEW b \in Seq(Int), bars' = [bars EXCEPT ![j] = b],
           Sound(j)'
    PROVE  IInv'
  <1>1. Typed'
    BY DEF IInv, Typed
  <1>2. ASSUME NEW k \in Jobs, k = j
        PROVE  Sound(k)'
    BY <1>2
  <1>3. \A k \in Jobs \ {j} :
           /\ Sound(k) /\ phase'[k] = phase[k] /\ cursor'[k] = cursor[k]
           /\ chunks'[k] = chunks[k] /\ bars'[k] = bars[k]
    BY DEF IInv, Typed
  <1>4. \A k \in Jobs \ {j} : Sound(k)'
    BY <1>3, SoundSame
  <1> QED  BY <1>1, <1>2, <1>4 DEF IInv

(* Nothing has been read when the jobs are queued. *)
LEMMA InitIInv == Init => IInv
  <1> SUFFICES ASSUME Init
               PROVE  IInv
    OBVIOUS
  <1>1. Typed
    BY DEF Init, Typed, Phases
  <1>2. ASSUME NEW j \in Jobs
        PROVE  Sound(j)
    BY DEF Init, Sound, Fetched
  <1> QED  BY <1>1, <1>2 DEF IInv

(* The thread starts at the first chunk, or answers without a bar. *)
LEMMA RunInv ==
    ASSUME IInv, NEW j \in Jobs, Run(j)
    PROVE  IInv'
  <1> DEFINE c == IF IsHistory(j) THEN Horizon ELSE StartOf(j)
             p == IF IsHistory(j) THEN "history"
                  ELSE IF StartOf(j) < EndOf(j) THEN "range" ELSE "fetched"
  <1>1. /\ c \in Int /\ p \in Phases /\ StartOf(j) \in Int /\ EndOf(j) \in Int
    BY Dates, FetchAssumption DEF IInv, Phases
  <1>2. /\ UNCHANGED <<market, request>> /\ phase[j] = "queued"
        /\ phase' = [phase EXCEPT ![j] = p] /\ cursor' = [cursor EXCEPT ![j] = c]
        /\ chunks' = [chunks EXCEPT ![j] = chunks[j]]
        /\ bars' = [bars EXCEPT ![j] = bars[j]]
        /\ chunks[j] \in Nat /\ bars[j] \in Seq(Int)
    BY DEF Run, IInv, Typed
  <1>3. bars[j] = <<>> /\ chunks[j] = 0
    BY <1>2 DEF IInv, Sound
  <1>4. /\ phase'[j] = p /\ cursor'[j] = c /\ bars'[j] = <<>> /\ chunks'[j] = 0
    BY <1>2, <1>3 DEF IInv, Typed
  <1>5. /\ StartOf(j)' = StartOf(j) /\ EndOf(j)' = EndOf(j)
        /\ IsHistory(j)' <=> IsHistory(j)
    BY <1>2 DEF StartOf, EndOf, IsHistory
  <1>6. Sound(j)'
    <2>1. CASE IsHistory(j)
      <3>1. HistoryRead(j)'
        BY <1>4, <2>1, FetchAssumption DEF HistoryRead
      <3> QED  BY <1>4, <1>5, <2>1, <3>1 DEF Sound, Fetched
    <2>2. CASE ~IsHistory(j) /\ StartOf(j) < EndOf(j)
      <3>1. RangeRead(j, 0)'
        BY <1>1, <1>4, <1>5, <2>2, FetchAssumption DEF RangeRead
      <3> QED  BY <1>4, <1>5, <2>2, <3>1 DEF Sound, Fetched
    <2>3. CASE ~IsHistory(j) /\ ~(StartOf(j) < EndOf(j))
      BY <1>4, <2>3 DEF Sound, Fetched
    <2> QED  BY <2>1, <2>2, <2>3
  <1> HIDE DEF c, p
  <1> QED  BY <1>1, <1>2, <1>6, OneJob
(* A sequence over a set is one over a larger set. *)
LEMMA Widen ==
    ASSUME NEW S, NEW T, S \subseteq T, NEW s \in Seq(S)
    PROVE  s \in Seq(T)
  <1>1. Len(s) \in Nat /\ s = [i \in 1..Len(s) |-> s[i]] /\ \A i \in 1..Len(s) : s[i] \in S
    BY LenProperties, ElementOfSeq
  <1>2. [i \in 1..Len(s) |-> s[i]] \in [1..Len(s) -> T]
    BY <1>1
  <1>3. [i \in 1..Len(s) |-> s[i]] \in Seq(T)
    BY <1>1, <1>2, IsASeq
  <1> QED  BY <1>1, <1>3


(* One more chunk of a range: the bars up to its end, and at most one of   *)
(* them twice that was not before.                                         *)
LEMMA RangeGrows ==
    ASSUME Typed, NEW j \in Jobs, NEW k \in Nat, RangeRead(j, k),
           NEW e \in Int, cursor[j] <= e
    PROVE  \A got, U : got = bars[j] \o Candles(cursor[j], e) /\ U = Between(StartOf(j), e) =>
               /\ got \in Seq(Int) /\ ToSet(got) = U /\ Ascending(got)
               /\ Len(got) < Cardinality(U) + k + 1
  <1> DEFINE c == cursor[j]
             from == StartOf(j)
             new == Candles(c, e)
             A == Between(from, c)
             U == Between(from, e)
             got == bars[j] \o new
  <1>1. c \in Int /\ from \in Int /\ bars[j] \in Seq(Int) /\ market \in SUBSET Times
        /\ ChunkBars \in Nat \ {0}
    BY Dates, FetchAssumption DEF Typed
  <1>2. from <= c /\ (k = 0 => c = from)
    BY <1>1 DEF RangeRead
  <1>3. new \in Seq(Int) /\ ToSet(new) = Between(c, e) /\ IsStrictlyIncreasing(new)
    <2>1. Times \subseteq Int
      BY DEF Times
    <2>2. /\ new \in Seq(Times)
          /\ ToSet(new) = Between(c, e) /\ IsStrictlyIncreasing(new)
      BY <1>1, CandlesExact
    <2> HIDE DEF new
    <2>3. new \in Seq(Int)
      BY <2>1, <2>2, Widen
    <2> QED  BY <2>2, <2>3
  <1>4. IsInjective(new) /\ Ascending(new)
    BY <1>3, IncreasingInjective
  <1> HIDE DEF new
  <1>5. /\ got \in Seq(Int) /\ Len(got) = Len(bars[j]) + Len(new)
        /\ ToSet(got) = ToSet(bars[j]) \cup ToSet(new)
        /\ (/\ Ascending(bars[j]) /\ Ascending(new)
            /\ \A x \in ToSet(bars[j]), y \in ToSet(new) : x <= y) => Ascending(got)
    BY <1>1, <1>3, ConcatValues
  <1> HIDE DEF got
  <1>6. Cardinality(U) \in Nat /\ IsFiniteSet(U) /\ Len(new) \in Nat
    BY <1>1, <1>3, BetweenFinite, LenProperties
  <1>7. CASE k = 0
    <2>1. bars[j] = <<>> /\ ToSet(bars[j]) = {} /\ Ascending(bars[j]) /\ Len(bars[j]) = 0
      BY <1>7 DEF RangeRead, ToSet, Ascending
    <2>2. ToSet(got) = U /\ ToSet(new) = U
      BY <1>2, <1>3, <1>5, <1>7, <2>1
    <2>3. Len(new) = Cardinality(U)
      BY <1>3, <1>4, <2>2, InjectiveSize
    <2>4. Len(got) < Cardinality(U) + k + 1
      BY <1>5, <1>6, <1>7, <2>1, <2>3
    <2>5. \A x \in ToSet(bars[j]), y \in ToSet(new) : x <= y
      BY <2>1
    <2>6. /\ got \in Seq(Int) /\ ToSet(got) = U /\ Ascending(got)
          /\ Len(got) < Cardinality(U) + k + 1
      BY <1>4, <1>5, <2>1, <2>2, <2>4, <2>5
    <2> QED  BY <2>6 DEF got, new
  <1>8. CASE k > 0
    <2>1. /\ ToSet(bars[j]) = A /\ Ascending(bars[j])
          /\ Len(bars[j]) < Cardinality(A) + k
      BY <1>8 DEF RangeRead
    <2>2. A \cup Between(c, e) = U
      <3>1. \A x \in market : x \in Int
        BY <1>1 DEF Times
      <3>2. c \in Int /\ from \in Int /\ e \in Int /\ from <= c /\ c <= e
        BY <1>1, <1>2
      <3> HIDE DEF c, from
      <3> QED  BY <3>1, <3>2 DEF Between
    <2>3. ToSet(got) = U
      BY <1>3, <1>5, <2>1, <2>2
    <2>4. \A x \in A : x <= c
      BY DEF Between
    <2>5. \A y \in ToSet(new) : c <= y
      BY <1>3 DEF Between
    <2>6. A \in SUBSET Int /\ IsFiniteSet(A) /\ Cardinality(A) \in Nat
          /\ ToSet(new) \subseteq Int
      BY <1>1, <1>3, BetweenFinite
    <2>7. A \cup ToSet(new) = U
      BY <1>3, <2>2
    <2> HIDE DEF A, U, c
    <2>8. \A x \in A, y \in ToSet(new) : x <= y
      BY <1>1, <2>4, <2>5, <2>6
    <2>9. Ascending(got)
      BY <1>4, <1>5, <2>1, <2>8
    <2>10. Cardinality(A) + Len(new) <= Cardinality(U) + 1
      BY <1>1, <1>3, <1>6, <2>4, <2>5, <2>6, <2>7, BoundarySize
    <2>11. Len(bars[j]) \in Nat
      BY <1>1, LenProperties
    <2>12. Len(got) < Cardinality(U) + k + 1
      BY <1>5, <1>6, <2>1, <2>6, <2>10, <2>11
    <2>13. /\ got \in Seq(Int) /\ ToSet(got) = U /\ Ascending(got)
           /\ Len(got) < Cardinality(U) + k + 1
      BY <1>5, <2>3, <2>9, <2>12
    <2> QED  BY <2>13 DEF got, new, c, U
  <1>9. k = 0 \/ k > 0
    OBVIOUS
  <1> QED  BY <1>7, <1>8, <1>9

(* A chunk of a range: the loop goes on, or answers and says why. *)
LEMMA RangeChunkInv ==
    ASSUME IInv, NEW j \in Jobs, RangeChunk(j)
    PROVE  IInv'
  <1>1. /\ Typed /\ phase[j] = "range" /\ ~IsHistory(j)
        /\ UNCHANGED <<market, request>>
    BY DEF IInv, Sound, RangeChunk, job
  <1>2. PICK k \in Nat : RangeRead(j, k)
    BY <1>1 DEF IInv, Sound
  <1>3. /\ cursor[j] \in Int /\ StartOf(j) \in Int /\ EndOf(j) \in Int
        /\ chunks[j] \in Nat /\ ChunkBars \in Nat \ {0} /\ SafetyLimit \in Nat
        /\ market \in SUBSET Times
    BY <1>1, Dates, FetchAssumption DEF Typed
  <1>4. PICK from \in Int : from = StartOf(j)
    BY <1>3
  <1>5. PICK end \in Int : end = EndOf(j)
    BY <1>3
  <1>6. PICK e \in Int : e = ChunkEnd(j)
    BY <1>3 DEF ChunkEnd
  <1>7. cursor[j] <= e /\ (e < end => e = from + (k + 1) * ChunkBars)
    <2>1. cursor[j] = from + k * ChunkBars /\ cursor[j] < end
      BY <1>2, <1>4, <1>5 DEF RangeRead
    <2>2. k * ChunkBars \in Int /\ (k + 1) * ChunkBars = k * ChunkBars + ChunkBars
      BY <1>3
    <2>3. e = IF cursor[j] + ChunkBars < end THEN cursor[j] + ChunkBars ELSE end
      BY <1>5, <1>6 DEF ChunkEnd
    <2>4. ASSUME NEW x \in Int, x = k * ChunkBars,
                 NEW y \in Int, y = (k + 1) * ChunkBars
          PROVE  cursor[j] <= e /\ (e < end => e = from + y)
      BY <1>3, <2>1, <2>2, <2>3, <2>4
    <2> QED  BY <1>3, <2>2, <2>4
  <1>8. PICK U : U = Between(from, e)
    OBVIOUS
  <1>9. PICK got : got = bars[j] \o Candles(cursor[j], e)
    OBVIOUS
  <1>10. /\ got \in Seq(Int) /\ ToSet(got) = U /\ Ascending(got)
         /\ Len(got) < Cardinality(U) + k + 1
    BY <1>1, <1>2, <1>4, <1>7, <1>8, <1>9, RangeGrows
  <1>11. Cardinality(U) \in Nat /\ Len(got) \in Nat
    BY <1>3, <1>8, <1>10, BetweenFinite, LenProperties
  <1>12. PICK last \in BOOLEAN : last <=> e >= end \/ Len(got) > SafetyLimit
    OBVIOUS
  <1>13. PICK b \in Seq(Int) : b = IF last THEN Deduplicate(got) ELSE got
    BY <1>10, DeduplicateExact
  <1>14. PICK p \in Phases : p = IF last THEN "fetched" ELSE "range"
    BY DEF Phases
  <1>15. /\ phase' = [phase EXCEPT ![j] = p] /\ cursor' = [cursor EXCEPT ![j] = e]
         /\ chunks' = [chunks EXCEPT ![j] = chunks[j]]
         /\ bars' = [bars EXCEPT ![j] = b]
    BY <1>1, <1>5, <1>6, <1>9, <1>12, <1>13, <1>14 DEF RangeChunk, Typed
  <1>16. /\ StartOf(j)' = from /\ EndOf(j)' = end /\ ~IsHistory(j)'
         /\ U = Between(from, e)'
    BY <1>1, <1>4, <1>5, <1>8 DEF StartOf, EndOf, IsHistory, Between
  <1>17. phase'[j] = p /\ cursor'[j] = e /\ bars'[j] = b
    BY <1>1, <1>15 DEF Typed
  <1>18. Sound(j)'
    <2>1. CASE ~last
      <3>1. p = "range" /\ b = got /\ e < end
        BY <1>12, <1>13, <1>14, <2>1
      <3>2. RangeRead(j, k + 1)'
        <4>1. ToSet(bars[j])' = Between(StartOf(j), cursor[j])'
          BY <1>10, <1>16, <1>17, <3>1 DEF Between
        <4>2. Ascending(bars[j])'
          BY <1>10, <1>17, <3>1
        <4>3. Len(bars[j])' < Cardinality(Between(StartOf(j), cursor[j]))' + (k + 1)
          <5>1. Cardinality(Between(StartOf(j), cursor[j]))' = Cardinality(U)
            BY <1>16, <1>17 DEF Between
          <5> QED  BY <1>10, <1>11, <1>17, <3>1, <5>1
        <4>4. cursor[j]' = StartOf(j)' + (k + 1) * ChunkBars
          BY <1>7, <1>16, <1>17, <3>1
        <4>5. cursor[j]' < EndOf(j)' /\ k + 1 # 0
          BY <1>16, <1>17, <3>1
        <4> QED  BY <4>1, <4>2, <4>3, <4>4, <4>5 DEF RangeRead
      <3>3. k + 1 \in Nat
        OBVIOUS
      <3> QED  BY <1>16, <1>17, <3>1, <3>2, <3>3 DEF Sound, Fetched
    <2>2. CASE last
      <3>1. p = "fetched" /\ b = Deduplicate(got)
        BY <1>13, <1>14, <2>2
      <3>2. ToSet(b) = U /\ IsInjective(b) /\ IsStrictlyIncreasing(b)
        BY <1>10, <3>1, DeduplicateExact
      <3>3. RangeAnswer(j)'
        BY <1>16, <1>17, <3>2 DEF RangeAnswer, Between
      <3>4. e = end \/ Len(b) + (e - from) \div ChunkBars > SafetyLimit
        <4>1. CASE e < end
          <5>1. Len(got) > SafetyLimit
            BY <1>12, <2>2, <4>1
          <5>2. (e - from) \div ChunkBars = k + 1
            <6>1. (k + 1) * ChunkBars \in Int /\ e - from = (k + 1) * ChunkBars
              BY <1>3, <1>7, <4>1
            <6>2. ASSUME NEW x \in Nat, NEW y \in Nat \ {0}
                  PROVE  (x * y) \div y = x
              OBVIOUS
            <6> QED  BY <1>3, <6>1, <6>2
          <5>3. Len(b) = Cardinality(U)
            BY <3>2, InjectiveSize
          <5> QED  BY <1>3, <1>10, <1>11, <5>1, <5>2, <5>3
        <4>2. CASE e >= end
          <5>1. e <= EndOf(j)
            BY <1>3, <1>6 DEF ChunkEnd
          <5> QED  BY <1>5, <4>2, <5>1
        <4> QED  BY <4>1, <4>2
      <3>5. ReadToEnd(j)'
        BY <1>16, <1>17, <3>4 DEF ReadToEnd
      <3> QED  BY <1>16, <1>17, <3>1, <3>3, <3>5 DEF Sound, Fetched, Answered
    <2> QED  BY <2>1, <2>2
  <1> QED  BY <1>1, <1>3, <1>15, <1>18, OneJob

(* A chunk of the history: the loop goes on, or answers and says why. *)
LEMMA HistoryChunkInv ==
    ASSUME IInv, NEW j \in Jobs, HistoryChunk(j)
    PROVE  IInv'
  <1>1. /\ Typed /\ phase[j] = "history" /\ IsHistory(j) /\ HistoryRead(j)
        /\ UNCHANGED <<market, request>>
    BY DEF IInv, Sound, HistoryChunk, job
  <1>2. /\ cursor[j] \in Int /\ chunks[j] \in Nat /\ bars[j] \in Seq(Int)
        /\ ChunkBars \in Nat \ {0} /\ MaxChunks \in Nat \ {0} /\ Horizon \in Nat
        /\ market \in SUBSET Times
    BY <1>1, FetchAssumption DEF Typed
  <1>3. PICK start \in Int : start = HistoryStart(j) /\ start = cursor[j] - ChunkBars
    BY <1>2 DEF HistoryStart
  <1>4. PICK new \in Seq(Int) : /\ new = Candles(start, cursor[j])
                                /\ ToSet(new) = Between(start, cursor[j])
    <2>1. Times \subseteq Int
      BY DEF Times
    <2>2. /\ Candles(start, cursor[j]) \in Seq(Times)
          /\ ToSet(Candles(start, cursor[j])) = Between(start, cursor[j])
      BY <1>2, CandlesExact
    <2>3. Candles(start, cursor[j]) \in Seq(Int)
      BY <2>1, <2>2, Widen
    <2> QED  BY <2>2, <2>3
  <1>5. PICK got \in Seq(Int) : /\ got = bars[j] \o new
                                /\ ToSet(got) = ToSet(bars[j]) \cup ToSet(new)
    BY <1>2, ConcatValues
  <1>6. PICK c \in Int : c = IF new = <<>> THEN cursor[j] ELSE start
    BY <1>2
  <1>7. PICK n \in Nat : n = chunks[j] + 1
    BY <1>2
  <1>8. PICK last \in BOOLEAN : last <=> new = <<>> \/ n = MaxChunks
    OBVIOUS
  <1>9. PICK b \in Seq(Int) : b = IF last THEN Deduplicate(Reverse(got)) ELSE got
    BY ReverseValues, DeduplicateExact
  <1>10. PICK p \in Phases : p = IF last THEN "fetched" ELSE "history"
    BY DEF Phases
  <1>11. /\ phase' = [phase EXCEPT ![j] = p] /\ cursor' = [cursor EXCEPT ![j] = c]
         /\ chunks' = [chunks EXCEPT ![j] = n] /\ bars' = [bars EXCEPT ![j] = b]
    BY <1>1, <1>3, <1>4, <1>5, <1>6, <1>7, <1>8, <1>9, <1>10 DEF HistoryChunk, Typed
  <1>12. phase'[j] = p /\ cursor'[j] = c /\ chunks'[j] = n /\ bars'[j] = b
    BY <1>1, <1>11 DEF Typed
  <1>13. /\ IsHistory(j)'
         /\ \A x, y : Between(x, y)' = Between(x, y)
    BY <1>1 DEF IsHistory, Between
  <1>14. c <= Horizon /\ start <= cursor[j] /\ cursor[j] <= Horizon
    BY <1>1, <1>2, <1>3, <1>6 DEF HistoryRead
  <1>15. Between(start, cursor[j]) \cup Between(cursor[j], Horizon)
           = Between(start, Horizon)
    <2>1. \A x \in market : x \in Int
      BY <1>2 DEF Times
    <2> QED  BY <1>2, <1>14, <2>1 DEF Between
  <1>16. new # <<>> => ToSet(got) = Between(c, Horizon)
    <2>1. chunks[j] = 0 => cursor[j] = Horizon /\ ToSet(bars[j]) = {}
      BY <1>1 DEF HistoryRead, ToSet
    <2>2. chunks[j] # 0 => ToSet(bars[j]) = Between(cursor[j], Horizon)
      BY <1>1 DEF HistoryRead
    <2> QED  BY <1>4, <1>5, <1>6, <1>15, <2>1, <2>2
  <1>17. Sound(j)'
    <2>1. CASE ~last
      <3>1. /\ p = "history" /\ b = got /\ new # <<>> /\ n < MaxChunks /\ n # 0
        BY <1>1, <1>2, <1>7, <1>8, <1>9, <1>10, <2>1 DEF HistoryRead
      <3>2. HistoryRead(j)'
        BY <1>12, <1>13, <1>14, <1>16, <3>1 DEF HistoryRead
      <3> QED  BY <1>12, <1>13, <3>1, <3>2 DEF Sound, Fetched
    <2>2. CASE last
      <3>1. p = "fetched" /\ b = Deduplicate(Reverse(got))
        BY <1>9, <1>10, <2>2
      <3>2. ToSet(b) = ToSet(got) /\ IsInjective(b)
        BY <3>1, ReverseValues, DeduplicateExact
      <3>3. SUFFICES ASSUME b # <<>>
                     PROVE  Answered(j)'
        BY <1>12, <3>1 DEF Sound, Fetched
      <3>4. ToSet(b) = Between(c, Horizon)
        <4>1. CASE new # <<>>
          BY <1>16, <3>2, <4>1
        <4>2. CASE new = <<>>
          <5>1. ToSet(got) = ToSet(bars[j]) /\ c = cursor[j]
            BY <1>5, <1>6, <4>2 DEF ToSet
          <5>2. ToSet(b) # {}
            <6>1. Len(b) \in Nat /\ Len(b) # 0
              BY <3>3, EmptySeq, LenProperties
            <6>2. b[1] \in ToSet(b)
              BY <6>1, LenProperties DEF ToSet
            <6> QED  BY <6>2
          <5>3. chunks[j] # 0
            <6>1. chunks[j] = 0 => bars[j] = <<>>
              BY <1>1 DEF HistoryRead
            <6>2. bars[j] = <<>> => ToSet(bars[j]) = {}
              BY DEF ToSet
            <6> QED  BY <3>2, <5>1, <5>2, <6>1, <6>2
          <5> QED  BY <1>1, <3>2, <5>1, <5>3 DEF HistoryRead
        <4> QED  BY <4>1, <4>2
      <3>5. HistoryAnswer(j)'
        BY <1>12, <1>13, <3>2, <3>4 DEF HistoryAnswer
      <3>6. ReadToEnd(j)'
        <4>1. CASE new = <<>>
          <5>1. HistoryStart(j)' = start /\ cursor'[j] = cursor[j]
            BY <1>3, <1>6, <1>12, <4>1 DEF HistoryStart
          <5>2. Between(start, cursor[j]) = {}
            BY <1>4, <4>1 DEF ToSet
          <5> QED  BY <1>13, <5>1, <5>2 DEF ReadToEnd
        <4>2. CASE n = MaxChunks
          BY <1>12, <1>13, <4>2 DEF ReadToEnd
        <4> QED  BY <1>8, <2>2, <4>1, <4>2
      <3> QED  BY <1>13, <3>5, <3>6 DEF Answered
    <2> QED  BY <2>1, <2>2
  <1> QED  BY <1>1, <1>11, <1>17, OneJob

(* A chunk that fails leaves the job without a bar. *)
LEMMA ChunkFailsInv ==
    ASSUME IInv, NEW j \in Jobs, ChunkFails(j)
    PROVE  IInv'
  <1>1. /\ UNCHANGED <<market, request>> /\ cursor[j] \in Int /\ chunks[j] \in Nat
        /\ phase' = [phase EXCEPT ![j] = "fetched"]
        /\ cursor' = [cursor EXCEPT ![j] = cursor[j]]
        /\ chunks' = [chunks EXCEPT ![j] = chunks[j]]
        /\ bars' = [bars EXCEPT ![j] = <<>>]
    BY DEF ChunkFails, IInv, Typed, job
  <1>2. "fetched" \in Phases /\ <<>> \in Seq(Int)
    BY DEF Phases
  <1>3. phase'[j] = "fetched" /\ bars'[j] = <<>>
    BY <1>1 DEF IInv, Typed
  <1>4. Sound(j)'
    BY <1>3 DEF Sound, Fetched
  <1> QED  BY <1>1, <1>2, <1>4, OneJob

(* No other step changes what a job has read. *)
LEMMA OtherInv ==
    ASSUME IInv, UNCHANGED <<market, request, cursor, chunks, bars>>,
           phase' \in [Jobs -> Phases],
           \A j \in Jobs : \/ phase'[j] = phase[j] \/ phase'[j] = "done"
                           \/ phase[j] = "fetched" /\ phase'[j] = "saved"
    PROVE  IInv'
  <1>1. Typed'
    BY DEF IInv, Typed
  <1>2. \A j \in Jobs : Sound(j)
    BY DEF IInv
  <1>3. \A j \in Jobs : Sound(j)'
    BY <1>2, SoundSame
  <1> QED  BY <1>1, <1>3 DEF IInv

(* Every step keeps the invariant. *)
LEMMA NextIInv ==
    ASSUME IInv, [Next]_vars
    PROVE  IInv'
  <1>1. phase \in [Jobs -> Phases]
    BY DEF IInv, Typed
  <1>2. ASSUME NEW j \in Jobs, Thread(j)
        PROVE  IInv'
    <2>1. CASE Run(j)
      BY <2>1, RunInv
    <2>2. CASE RangeChunk(j)
      BY <2>2, RangeChunkInv
    <2>3. CASE HistoryChunk(j)
      BY <2>3, HistoryChunkInv
    <2>4. CASE ChunkFails(j)
      BY <2>4, ChunkFailsInv
    <2>5. CASE NoData(j) \/ Raises(j) \/ Complete(j)
      <3>1. phase' = [phase EXCEPT ![j] = "done"] /\ "done" \in Phases
        BY <2>5 DEF NoData, Raises, Complete, Phases
      <3>2. UNCHANGED <<market, request, cursor, chunks, bars>>
        BY <2>5 DEF NoData, Raises, Complete, paging
      <3> QED  BY <1>1, <3>1, <3>2, OtherInv
    <2>6. CASE SaveBars(j)
      <3>1. /\ phase' = [phase EXCEPT ![j] = "saved"] /\ "saved" \in Phases
            /\ phase[j] = "fetched"
        BY <2>6 DEF SaveBars, Phases
      <3>2. UNCHANGED <<market, request, cursor, chunks, bars>>
        BY <2>6 DEF SaveBars, paging, job
      <3> QED  BY <1>1, <3>1, <3>2, OtherInv
    <2> QED  BY <1>2, <2>1, <2>2, <2>3, <2>4, <2>5, <2>6 DEF Thread
  <1>3. ASSUME NEW j \in Jobs, Cancel(j) \/ CancelTask(j)
        PROVE  IInv'
    <2>1. UNCHANGED <<market, request, phase, cursor, chunks, bars>>
      BY <1>3 DEF Cancel, CancelTask, paging
    <2> QED  BY <1>1, <2>1, OtherInv
  <1>4. ASSUME NEW j \in Jobs, CancelledError(j)
        PROVE  IInv'
    <2>1. /\ phase' = [phase EXCEPT ![j] = IF @ = "queued" THEN "done" ELSE @]
          /\ "done" \in Phases /\ UNCHANGED <<market, request, cursor, chunks, bars>>
      BY <1>4 DEF CancelledError, paging, Phases
    <2>2. phase' \in [Jobs -> Phases]
      BY <1>1, <2>1
    <2>3. \A i \in Jobs : phase'[i] = phase[i] \/ phase'[i] = "done"
      BY <1>1, <2>1
    <2> QED  BY <2>1, <2>2, <2>3, OtherInv
  <1>5. ASSUME NEW before \in Times, DeleteBars(before)
        PROVE  IInv'
    <2>1. UNCHANGED <<market, request, phase, cursor, chunks, bars>>
      BY <1>5 DEF DeleteBars, paging, job
    <2> QED  BY <1>1, <2>1, OtherInv
  <1>6. CASE UNCHANGED vars
    <2>1. UNCHANGED <<market, request, phase, cursor, chunks, bars>>
      BY <1>6 DEF vars
    <2> QED  BY <1>1, <2>1, OtherInv
  <1> QED  BY <1>2, <1>3, <1>4, <1>5, <1>6 DEF Next

(* What every job has read is a prefix or a suffix of its dates without a  *)
(* hole, and an answer says why the reading stopped.                       *)
THEOREM InvariantHolds == Spec => []IInv
  <1> QED  BY InitIInv, NextIInv, PTL DEF Spec

-----------------------------------------------------------------------------

(* fetch, _fetch_date_range and _fetch_max_history: whichever way the      *)
(* chunks fall, an answer has every bar once and no hole (FetchExact).     *)
THEOREM FetchesAreExact == Spec => []FetchExact
  <1>1. IInv => FetchExact
    <2> SUFFICES ASSUME IInv
                 PROVE  FetchExact
      OBVIOUS
    <2>1. Typed /\ \A j \in Jobs : Fetched(j) => Answered(j)
      BY DEF IInv, Sound
    <2>2. RangeExact
      BY <2>1 DEF RangeExact, Answered, RangeAnswer
    <2>3. HistoryHasNoHole
      <3> SUFFICES ASSUME NEW j \in Jobs, Fetched(j), IsHistory(j),
                          NEW x \in ToSet(bars[j])
                   PROVE  /\ IsInjective(bars[j])
                          /\ Between(x, Horizon) \subseteq ToSet(bars[j])
        BY <2>1 DEF HistoryHasNoHole, Answered, HistoryAnswer
      <3>1. IsInjective(bars[j]) /\ ToSet(bars[j]) = Between(cursor[j], Horizon)
        BY <2>1 DEF Answered, HistoryAnswer
      <3>2. cursor[j] \in Int /\ \A y \in market : y \in Int
        BY <2>1 DEF Typed, Times
      <3>3. x \in market /\ cursor[j] <= x
        BY <3>1 DEF Between
      <3>4. \A y \in Between(x, Horizon) : y \in Between(cursor[j], Horizon)
        <4> SUFFICES ASSUME NEW y \in market, x <= y, y <= Horizon
                     PROVE  cursor[j] <= y
          BY DEF Between
        <4>1. x \in Int /\ y \in Int
          BY <3>2, <3>3
        <4> QED  BY <3>2, <3>3, <4>1
      <3> QED  BY <3>1, <3>4
    <2> QED  BY <2>2, <2>3 DEF FetchExact
  <1> QED  BY <1>1, InvariantHolds, PTL

(* save_bars runs only after a fetch that answered: nothing of one that    *)
(* failed half-way reaches the cache (CacheFedWhole).                      *)
THEOREM CacheIsFedWhole == Spec => CacheFedWhole
  <1>1. IInv /\ [Next]_vars =>
          [\A x \in cache' \ cache :
              \E j \in Jobs : /\ phase[j] = "fetched" /\ phase'[j] = "saved"
                             /\ x \in ToSet(bars[j])
                             /\ ReadToEnd(j)]_vars
    <2> SUFFICES ASSUME IInv, [Next]_vars, NEW x \in cache' \ cache
                 PROVE  \E j \in Jobs : /\ phase[j] = "fetched" /\ phase'[j] = "saved"
                                        /\ x \in ToSet(bars[j])
                                        /\ ReadToEnd(j)
      OBVIOUS
    <2>1. ~(cache' \subseteq cache)
      OBVIOUS
    <2>2. PICK j \in Jobs : SaveBars(j)
      <3>1. \A j \in Jobs : /\ ~Run(j) /\ ~RangeChunk(j) /\ ~HistoryChunk(j)
                            /\ ~ChunkFails(j) /\ ~NoData(j) /\ ~Raises(j)
                            /\ ~Complete(j) /\ ~Cancel(j) /\ ~CancelTask(j)
                            /\ ~CancelledError(j)
        BY <2>1 DEF Run, RangeChunk, HistoryChunk, ChunkFails, NoData, Raises,
                    Complete, Cancel, CancelTask, CancelledError
      <3>2. \A before \in Times : ~DeleteBars(before)
        BY <2>1 DEF DeleteBars
      <3>3. ~UNCHANGED vars
        BY <2>1 DEF vars
      <3> QED  BY <3>1, <3>2, <3>3 DEF Next, Thread
    <2>3. /\ phase[j] = "fetched" /\ phase'[j] = "saved" /\ Fetched(j)
          /\ x \in ToSet(bars[j])
      BY <2>2 DEF SaveBars, Fetched, IInv, Typed
    <2>4. ReadToEnd(j)
      BY <2>3 DEF IInv, Sound, Answered
    <2> QED  BY <2>3, <2>4
  <1> QED  BY <1>1, InvariantHolds, PTL DEF Spec, CacheFedWhole
=============================================================================
