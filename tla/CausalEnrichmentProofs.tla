----------------------- MODULE CausalEnrichmentProofs -----------------------
(***************************************************************************)
(* Proofs about CausalEnrichment, for any bars, any indicators and any     *)
(* order of deliveries.                                                    *)
(*                                                                         *)
(* An enriched bar shows no informative bar that had not closed.  That is  *)
(* the cursor alone (CursorSound); that the row it shows is what a new     *)
(* engine computes from the deliveries (RowsComputed) needs an engine that *)
(* a reset makes new, which the informative engine is if none of its       *)
(* indicators reads the session profile.                                   *)
(*                                                                         *)
(* The forms of enrichment agree.  In order of availability (InOrder), the *)
(* rows appended by a primary bar are all those that are due, so that the  *)
(* cursor stands at the last of them in every form; and an engine built    *)
(* without a resolver is the same as one with it where no window depends   *)
(* on the resolver (ThreadEngine).                                         *)
(*                                                                         *)
(* The signals of a batch do not repaint.  Each reads the bars up to its   *)
(* row only, and a shorter frame has the same bars there; the swings of    *)
(* the whole frame are looked at where they are confirmed by then.         *)
(*                                                                         *)
(* And they treat rises and falls alike: of bars turned upside down the    *)
(* extremes swap, the order of prices turns around and ranges and volumes  *)
(* stay, so that each bullish pattern becomes the bearish one.             *)
(***************************************************************************)
EXTENDS IndicatorProperties, FiniteSetTheorems, SequenceTheorems,
        WellFoundedInduction, TLAPS

-----------------------------------------------------------------------------
(* Induction, and the ends of a set of numbers. *)

(* A set that has zero and every successor has every natural number. *)
LEMMA SetInduction ==
    ASSUME NEW T, 0 \in T, \A n \in Nat : n \in T => n + 1 \in T
    PROVE  \A n \in Nat : n \in T
  <1> DEFINE rest == Nat \ T
  <1> SUFFICES ASSUME NEW x \in rest
               PROVE  FALSE
    OBVIOUS
  <1>1. PICK m \in rest : \A k \in rest : ~ (<<k, m>> \in OpToRel(<, Nat))
    BY WFMin, NatLessThanWellFounded
  <1>2. \A k \in rest : ~ (k < m)
    BY <1>1 DEF OpToRel
  <1>3. m - 1 \in Nat /\ m - 1 \in T
    BY <1>2
  <1> QED  BY <1>3

(* A set of integers with a bound has a member that reaches it. *)
LEMMA MinOf ==
    ASSUME NEW T, T \subseteq Int, T # {}, NEW low \in Int, \A x \in T : low <= x
    PROVE  Min(T) \in T /\ \A x \in T : Min(T) <= x
  <1> DEFINE U == {k \in Nat : low + k \in T}
  <1>1. U # {}
    <2>1. PICK x \in T : TRUE
      OBVIOUS
    <2>2. x - low \in U
      BY <2>1
    <2> QED  BY <2>2
  <1>2. PICK m \in U : \A k \in U : ~ (<<k, m>> \in OpToRel(<, Nat))
    BY <1>1, WFMin, NatLessThanWellFounded
  <1>3. \A k \in U : m <= k
    <2>1. U \subseteq Nat
      OBVIOUS
    <2> HIDE DEF U
    <2>2. \A k \in U : ~ (k < m)
      BY <1>2, <2>1 DEF OpToRel
    <2> QED  BY <2>1, <2>2
  <1>4. low + m \in T
    BY <1>2
  <1>5. ASSUME NEW x \in T
        PROVE  low + m <= x
    <2>1. x - low \in U
      BY <1>5
    <2> QED  BY <1>3, <2>1
  <1>6. \E x \in T : \A y \in T : x <= y
    BY <1>4, <1>5
  <1> QED  BY <1>6 DEF Min

LEMMA MaxOf ==
    ASSUME NEW T, T \subseteq Int, T # {}, NEW top \in Int, \A x \in T : x <= top
    PROVE  Max(T) \in T /\ \A x \in T : x <= Max(T)
  <1> DEFINE U == {-x : x \in T}
  <1>1. U \subseteq Int /\ U # {} /\ -top \in Int
    <2>1. PICK x \in T : TRUE
      OBVIOUS
    <2>2. -x \in U
      BY <2>1
    <2> QED  BY <2>2
  <1>7. ASSUME NEW y \in U
        PROVE  -top <= y
    <2>1. PICK x \in T : y = -x
      OBVIOUS
    <2> QED  BY <2>1
  <1>2. Min(U) \in U /\ \A y \in U : Min(U) <= y
    BY <1>1, <1>7, MinOf
  <1>3. PICK m \in T : -m = Min(U)
    BY <1>2
  <1>4. ASSUME NEW x \in T
        PROVE  x <= m
    <2>1. -m <= -x
      BY <1>2, <1>3
    <2> QED  BY <2>1
  <1>5. \E x \in T : \A y \in T : x >= y
    BY <1>4
  <1>6. Max(T) \in T /\ \A y \in T : Max(T) >= y
    BY <1>5 DEF Max
  <1> QED  BY <1>6

-----------------------------------------------------------------------------
(* Engines without a session profile. *)

(* What a reset keeps is what a new engine starts with. *)
Pristine(e) ==
    /\ {"vp", "direct"} \subseteq DOMAIN e
    /\ e.vp = Info!SessionVpInit
    /\ e.direct = Info!VpDerivedInit({})

(* A new engine is pristine, stays so, and a reset gives back a new one. *)
LEMMA NewEngine ==
    ASSUME ~Info!HasSessionVp
    PROVE  Pristine(Info!EngineInit)
  <1>1. Info!DirectNames = {}
    BY DEF Info!DirectNames
  <1> QED  BY <1>1 DEF Pristine, Info!EngineInit, Info!EngineWith

LEMMA UpdateKeepsPristine ==
    ASSUME ~Info!HasSessionVp, NEW e, NEW bar, Pristine(e)
    PROVE  Pristine(Info!EngineUpdate(e, bar))
  <1> DEFINE a == Info!Advanced(e, bar, e.vp)
  <1>1. e.direct.names = {}
    BY DEF Pristine, Info!VpDerivedInit
  <1>2. DOMAIN a = DOMAIN e /\ a.vp = e.vp /\ a.direct = e.direct
    BY <1>1 DEF Pristine, Info!Advanced
  <1> HIDE DEF a
  <1>3. Info!EngineUpdate(e, bar) = Info!Snapshot(a)
    BY DEF Info!EngineUpdate, a
  <1>4. /\ DOMAIN Info!Snapshot(a) = DOMAIN a
        /\ Info!Snapshot(a).vp = a.vp /\ Info!Snapshot(a).direct = a.direct
    BY <1>2 DEF Pristine, Info!Snapshot
  <1> QED  BY <1>2, <1>3, <1>4 DEF Pristine

LEMMA ResetIsInit ==
    ASSUME ~Info!HasSessionVp, NEW e, Pristine(e)
    PROVE  Info!EngineReset(e) = Info!EngineInit
  <1> DEFINE s == Info!SessionVpInit
             init == Info!EngineInit
  <1>1. Info!SessionVpReset(s) = s
    <2>1. s.day = 0 /\ s.pocs = <<>>
      BY DEF Info!SessionVpInit
    <2>2. s = [x \in DOMAIN s |-> s[x]]
      BY DEF Info!SessionVpInit
    <2> HIDE DEF s
    <2>3. [s EXCEPT !.day = s.day, !.pocs = s.pocs] = s
      BY <2>2
    <2> QED  BY <2>3 DEF Info!SessionVpReset, s
  <1>2. init.vp = s /\ init.direct = e.direct
    BY NewEngine DEF Pristine
  <1>3. init = [x \in DOMAIN init |-> init[x]]
    BY DEF Info!EngineInit, Info!EngineWith
  <1> HIDE DEF s, init
  <1>4. [init EXCEPT !.vp = s, !.direct = e.direct] = init
    BY <1>2, <1>3
  <1>5. e.vp = s
    BY DEF Pristine, s
  <1> QED  BY <1>1, <1>4, <1>5 DEF Info!EngineReset, init

-----------------------------------------------------------------------------
(* The engine after some deliveries. *)

(* f lists the engines after the first n deliveries of js. *)
Engines(js, n, f) ==
    f = [k \in 0..n |->
            IF k = 0 THEN Info!EngineInit
            ELSE Info!EngineUpdate(f[k - 1], InfoBars[js[k]])]

LEMMA EnginesExist ==
    ASSUME NEW js, NEW n \in Nat
    PROVE  \E f : Engines(js, n, f)
  <1> DEFINE T == {m \in Nat : \E f : Engines(js, m, f)}
  <1>1. 0 \in T
    <2>1. Engines(js, 0, [k \in 0..0 |-> Info!EngineInit])
      BY DEF Engines
    <2> QED  BY <2>1
  <1>2. ASSUME NEW m \in Nat, m \in T
        PROVE  m + 1 \in T
    <2>1. PICK f : Engines(js, m, f)
      BY <1>2
    <2> DEFINE g == [k \in 0..(m + 1) |->
                        IF k = m + 1 THEN Info!EngineUpdate(f[m], InfoBars[js[m + 1]])
                                     ELSE f[k]]
    <2>2. ASSUME NEW k \in 0..(m + 1)
          PROVE  g[k] = IF k = 0 THEN Info!EngineInit
                        ELSE Info!EngineUpdate(g[k - 1], InfoBars[js[k]])
      <3>1. CASE k = m + 1
        <4>1. k # 0 /\ k - 1 = m /\ k - 1 # m + 1 /\ k - 1 \in 0..(m + 1)
          BY <3>1
        <4>2. g[k - 1] = f[m]
          BY <4>1
        <4> QED  BY <3>1, <4>1, <4>2
      <3>2. CASE k # m + 1
        <4>1. k \in 0..m
          BY <3>2
        <4>2. f[k] = IF k = 0 THEN Info!EngineInit
                     ELSE Info!EngineUpdate(f[k - 1], InfoBars[js[k]])
          BY <2>1, <4>1 DEF Engines
        <4>3. k # 0 => g[k - 1] = f[k - 1]
          BY <4>1
        <4> QED  BY <3>2, <4>2, <4>3
      <3> QED  BY <3>1, <3>2
    <2>3. g = [k \in 0..(m + 1) |-> g[k]]
      OBVIOUS
    <2> HIDE DEF g
    <2>4. Engines(js, m + 1, g)
      BY <2>2, <2>3 DEF Engines
    <2> QED  BY <2>4
  <1> HIDE DEF T
  <1>3. n \in T
    BY <1>1, <1>2, SetInduction
  <1> QED  BY <1>3 DEF T

(* The recursive definition chooses such a list. *)
LEMMA AfterIsLast ==
    ASSUME NEW js, Len(js) \in Nat
    PROVE  \E f : Engines(js, Len(js), f) /\ InfoEngineAfter(js) = f[Len(js)]
  BY EnginesExist DEF InfoEngineAfter, EngineFrom, Engines

(* What the first n deliveries of d make of the engine. *)
Numbers(d, n) == [k \in 1..n |-> d[k][1]]
EngineOf(d, n) == InfoEngineAfter(Numbers(d, n))

LEMMA NumbersLen ==
    ASSUME NEW d, NEW n \in Nat
    PROVE  Len(Numbers(d, n)) = n
  BY DEF Numbers

LEMMA EngineOfNone ==
    ASSUME NEW d
    PROVE  EngineOf(d, 0) = Info!EngineInit
  BY AfterIsLast, NumbersLen DEF EngineOf, Engines

LEMMA EngineOfPrefix ==
    ASSUME NEW d, NEW e, NEW n \in Nat, \A k \in 1..n : d[k] = e[k]
    PROVE  EngineOf(d, n) = EngineOf(e, n)
  <1>1. Numbers(d, n) = Numbers(e, n)
    BY DEF Numbers
  <1> QED  BY <1>1 DEF EngineOf

LEMMA EngineOfNext ==
    ASSUME NEW d, NEW n \in Nat
    PROVE  EngineOf(d, n + 1)
             = Info!EngineUpdate(EngineOf(d, n), InfoBars[d[n + 1][1]])
  <1> DEFINE m == n + 1
             js == Numbers(d, n)
             ks == Numbers(d, m)
  <1>1. m \in Nat /\ m - 1 = n /\ m \in 0..m /\ m # 0
    OBVIOUS
  <1>2. Len(js) = n /\ Len(ks) = m
    BY <1>1, NumbersLen
  <1>3. \A k \in 1..n : js[k] = ks[k]
    BY DEF Numbers
  <1>4. ks[m] = d[m][1]
    BY DEF Numbers
  <1>5. m = n + 1
    OBVIOUS
  <1> HIDE DEF js, ks, m
  <1>6. PICK f : Engines(js, n, f) /\ InfoEngineAfter(js) = f[n]
    BY <1>2, AfterIsLast
  <1>7. PICK g : Engines(ks, m, g) /\ InfoEngineAfter(ks) = g[m]
    BY <1>1, <1>2, AfterIsLast
  <1>8. f[n] = g[n]
    <2> DEFINE T == {k \in Nat : k <= n => f[k] = g[k]}
    <2>1. 0 \in T
      <3>1. f[0] = Info!EngineInit /\ g[0] = Info!EngineInit
        BY <1>1, <1>6, <1>7 DEF Engines
      <3> QED  BY <3>1
    <2>2. ASSUME NEW k \in Nat, k \in T
          PROVE  k + 1 \in T
      <3> SUFFICES ASSUME k + 1 <= n
                   PROVE  f[k + 1] = g[k + 1]
        OBVIOUS
      <3>1. /\ k + 1 \in 0..n /\ k + 1 \in 0..m /\ k + 1 \in 1..n
            /\ k + 1 # 0 /\ (k + 1) - 1 = k
        BY <1>1, <1>5
      <3>2. f[k + 1] = Info!EngineUpdate(f[(k + 1) - 1], InfoBars[js[k + 1]])
        BY <1>6, <3>1 DEF Engines
      <3>3. g[k + 1] = Info!EngineUpdate(g[(k + 1) - 1], InfoBars[ks[k + 1]])
        BY <1>7, <3>1 DEF Engines
      <3>4. f[k] = g[k]
        BY <2>2
      <3> QED  BY <1>3, <3>1, <3>2, <3>3, <3>4
    <2> HIDE DEF T
    <2>3. n \in T
      BY <2>1, <2>2, SetInduction
    <2> QED  BY <2>3 DEF T
  <1>9. g[m] = Info!EngineUpdate(g[n], InfoBars[ks[m]])
    BY <1>1, <1>7 DEF Engines
  <1> QED  BY <1>4, <1>6, <1>7, <1>8, <1>9 DEF EngineOf, js, ks, m

-----------------------------------------------------------------------------
(* The rows and the deliveries they come from. *)

(* The deliveries the cursor took, and how many of them up to the i-th. *)
Taken(d) == {k \in DOMAIN d : d[k][2]}
Rank(d, i) == Cardinality({k \in Taken(d) : k <= i})

Deliveries == (DOMAIN InfoBars) \X BOOLEAN

(* s is a sequence, of whatever it holds. *)
IsSequence(s) == s \in Seq({s[i] : i \in DOMAIN s})

Typed ==
    /\ fed \in Seq(Deliveries)
    /\ clock \in Nat
    /\ DOMAIN cursor = {"availability", "rows", "position"}
    /\ cursor.availability \in Seq(Int) /\ IsSequence(cursor.rows)
    /\ Len(cursor.availability) = Len(cursor.rows)
    /\ cursor.position \in 0..Len(cursor.rows)

(* The p-th row and the time from which it is available are those of the   *)
(* p-th delivery taken.                                                    *)
RowsKept ==
    /\ Len(cursor.rows) = Cardinality(Taken(fed))
    /\ \A i \in Taken(fed) :
          /\ Rank(fed, i) \in 1..Len(cursor.rows)
          /\ cursor.availability[Rank(fed, i)] = InfoOpen(fed[i][1]) + InfoSpan
    /\ \A p \in 1..Len(cursor.rows) : \E i \in Taken(fed) : Rank(fed, i) = p

(* The bar last handed out shows the row the cursor stands on, and the     *)
(* rows up to there were available when it opened.                         *)
Shown ==
    /\ latest = <<>> => cursor.position = 0
    /\ latest # <<>> =>
          /\ latest[1].timestamp + 1 = clock
          /\ latest[1].timestamp \in Nat
          /\ latest[1].info = VisibleRow(cursor)
          /\ \A p \in 1..cursor.position :
                cursor.availability[p] <= latest[1].timestamp

CursorSound == Typed /\ RowsKept /\ Shown

(* The rows hold what a new engine computes from the deliveries.           *)
RowsComputed ==
    /\ Pristine(info)
    /\ info = EngineOf(fed, Len(fed))
    /\ \A i \in Taken(fed) :
          cursor.rows[Rank(fed, i)] = InfoRow(EngineOf(fed, i))

LEMMA TakenFacts ==
    ASSUME NEW d, d \in Seq(Deliveries)
    PROVE  /\ DOMAIN d = 1..Len(d) /\ Len(d) \in Nat
           /\ Taken(d) \subseteq 1..Len(d) /\ IsFiniteSet(Taken(d))
           /\ \A i : {k \in Taken(d) : k <= i} \subseteq Taken(d)
           /\ \A i : IsFiniteSet({k \in Taken(d) : k <= i})
  <1>1. DOMAIN d = 1..Len(d) /\ Len(d) \in Nat /\ Taken(d) \subseteq 1..Len(d)
    BY DEF Taken
  <1>2. IsFiniteSet(1..Len(d))
    BY <1>1, FS_Interval
  <1>3. IsFiniteSet(Taken(d))
    BY <1>1, <1>2, FS_Subset
  <1>4. \A i : {k \in Taken(d) : k <= i} \subseteq Taken(d)
    OBVIOUS
  <1>5. ASSUME NEW i
        PROVE  IsFiniteSet({k \in Taken(d) : k <= i})
    BY <1>3, <1>4, FS_Subset
  <1> QED  BY <1>1, <1>3, <1>4, <1>5

(* What a delivery more does to the ranks. *)
LEMMA RanksAppend ==
    ASSUME NEW d, d \in Seq(Deliveries),
           NEW x \in Deliveries
    PROVE  LET e == Append(d, x)
               n == Len(d) + 1
           IN  /\ e \in Seq(Deliveries)
               /\ Len(e) = n /\ e[n] = x
               /\ \A i \in 1..Len(d) : e[i] = d[i]
               /\ \A i \in Taken(d) : Rank(e, i) = Rank(d, i)
               /\ x[2] => /\ Taken(e) = Taken(d) \cup {n}
                          /\ Rank(e, n) = Cardinality(Taken(d)) + 1
                          /\ Cardinality(Taken(e)) = Cardinality(Taken(d)) + 1
               /\ ~x[2] => Taken(e) = Taken(d)
  <1> DEFINE e == Append(d, x)
             n == Len(d) + 1
  <1>1. /\ e \in Seq(Deliveries)
        /\ Len(e) = n /\ e[n] = x /\ n \in Nat /\ DOMAIN e = 1..n
        /\ Len(d) \in Nat /\ DOMAIN d = 1..Len(d)
        /\ \A i \in 1..Len(d) : e[i] = d[i]
    OBVIOUS
  <1> HIDE DEF e
  <1>2. Taken(e) = IF x[2] THEN Taken(d) \cup {n} ELSE Taken(d)
    BY <1>1 DEF Taken
  <1>3. Taken(d) \subseteq 1..Len(d) /\ IsFiniteSet(Taken(d)) /\ n \notin Taken(d)
    <2>1. Taken(d) \subseteq 1..Len(d) /\ IsFiniteSet(Taken(d))
      BY TakenFacts
    <2> QED  BY <1>1, <2>1
  <1>4. ASSUME NEW i \in Taken(d)
        PROVE  Rank(e, i) = Rank(d, i)
    <2>1. i \in 1..Len(d) /\ ~(n <= i)
      BY <1>1, <1>3
    <2>2. {k \in Taken(e) : k <= i} = {k \in Taken(d) : k <= i}
      BY <1>2, <2>1
    <2> QED  BY <2>2 DEF Rank
  <1>5. ASSUME x[2]
        PROVE  /\ Rank(e, n) = Cardinality(Taken(d)) + 1
               /\ Cardinality(Taken(e)) = Cardinality(Taken(d)) + 1
    <2>1. Taken(e) = Taken(d) \cup {n}
      BY <1>2, <1>5
    <2>2. Cardinality(Taken(d) \cup {n}) = Cardinality(Taken(d)) + 1
      BY <1>3, FS_AddElement
    <2>3. {k \in Taken(e) : k <= n} = Taken(e)
      BY <1>1, <1>3, <2>1
    <2> QED  BY <2>1, <2>2, <2>3 DEF Rank
  <1>6. /\ x[2] => Taken(e) = Taken(d) \cup {n}
        /\ ~x[2] => Taken(e) = Taken(d)
    BY <1>2
  <1> QED  BY <1>1, <1>4, <1>5, <1>6 DEF e

-----------------------------------------------------------------------------
(* The cursor. *)

(* It passes only rows that are available. *)
LEMMA AdvancePasses ==
    ASSUME NEW c, DOMAIN c = {"availability", "rows", "position"},
           c.availability \in Seq(Int), IsSequence(c.rows),
           Len(c.availability) = Len(c.rows), c.position \in 0..Len(c.rows),
           NEW t \in Nat
    PROVE  LET d == Advance(c, t)
           IN  /\ DOMAIN d = {"availability", "rows", "position"}
               /\ d.availability = c.availability /\ d.rows = c.rows
               /\ d.position \in c.position..Len(c.rows)
               /\ \A p \in (c.position + 1)..d.position : c.availability[p] <= t
  <1> DEFINE later == {i \in (c.position + 1)..Len(c.rows) : c.availability[i] > t}
             next == IF later = {} THEN Len(c.rows) ELSE Min(later) - 1
             d == Advance(c, t)
  <1>1. Len(c.rows) \in Nat /\ c.position \in Nat /\ later \subseteq Nat
    BY DEF IsSequence
  <1>2. \A i \in 1..Len(c.rows) : c.availability[i] \in Int
    OBVIOUS
  <1>3. d = [c EXCEPT !.position = next]
    BY DEF Advance
  <1>4. /\ next \in c.position..Len(c.rows)
        /\ \A p \in (c.position + 1)..next : p \in 1..Len(c.rows) /\ p \notin later
    <2>1. CASE later = {}
      BY <1>1, <2>1
    <2>2. CASE later # {}
      <3>1. Min(later) \in later /\ \A x \in later : Min(later) <= x
        <4>1. 0 \in Int /\ later \subseteq Int /\ \A x \in later : 0 <= x
          BY <1>1
        <4> HIDE DEF later
        <4> QED  BY <2>2, <4>1, MinOf
      <3>2. Min(later) \in (c.position + 1)..Len(c.rows) /\ next = Min(later) - 1
        BY <2>2, <3>1
      <3> HIDE DEF later, next
      <3> QED  BY <1>1, <3>1, <3>2
    <2> QED  BY <2>1, <2>2
  <1>5. \A p \in (c.position + 1)..next : c.availability[p] <= t
    BY <1>1, <1>2, <1>4
  <1> HIDE DEF next, d
  <1> QED  BY <1>3, <1>4, <1>5 DEF d

(* A row more at the end. *)
LEMMA AppendRow ==
    ASSUME NEW c, DOMAIN c = {"availability", "rows", "position"},
           c.availability \in Seq(Int), IsSequence(c.rows),
           Len(c.availability) = Len(c.rows),
           NEW j \in DOMAIN InfoBars, NEW row
    PROVE  LET d == CursorAppend(c, InfoOpen(j), row)
               n == Len(c.rows) + 1
           IN  /\ DOMAIN d = {"availability", "rows", "position"}
               /\ d.availability \in Seq(Int) /\ IsSequence(d.rows)
               /\ Len(d.availability) = n /\ Len(d.rows) = n
               /\ d.position = c.position
               /\ d.availability[n] = InfoOpen(j) + InfoSpan /\ d.rows[n] = row
               /\ \A p \in 1..Len(c.rows) :
                     d.availability[p] = c.availability[p] /\ d.rows[p] = c.rows[p]
  <1> DEFINE n == Len(c.rows) + 1
             time == InfoOpen(j) + InfoSpan
             d == CursorAppend(c, InfoOpen(j), row)
             S == {c.rows[i] : i \in DOMAIN c.rows}
             rows == Append(c.rows, row)
  <1>1. time \in Int
    BY EnrichmentConstants DEF InfoOpen
  <1>2. c.rows \in Seq(S) /\ Len(c.rows) \in Nat
    BY DEF IsSequence
  <1> HIDE DEF time, S
  <1>3. /\ Append(c.availability, time) \in Seq(Int)
        /\ Len(Append(c.availability, time)) = n
        /\ Append(c.availability, time)[n] = time
        /\ \A p \in 1..Len(c.rows) :
              Append(c.availability, time)[p] = c.availability[p]
    BY <1>1, <1>2
  <1>4. /\ rows \in Seq(S \cup {row}) /\ Len(rows) = n /\ rows[n] = row
        /\ \A p \in 1..Len(c.rows) : rows[p] = c.rows[p]
    BY <1>2
  <1> HIDE DEF rows
  <1>5. IsSequence(rows)
    <2>1. DOMAIN rows = 1..Len(rows) /\ Len(rows) \in Nat
      BY <1>2, <1>4
    <2>2. rows = [i \in 1..Len(rows) |-> rows[i]]
      BY <1>4, <2>1
    <2> QED  BY <2>1, <2>2 DEF IsSequence
  <1>6. /\ DOMAIN d = {"availability", "rows", "position"}
        /\ d.availability = Append(c.availability, time) /\ d.rows = rows
        /\ d.position = c.position
    BY DEF CursorAppend, time, rows
  <1> QED  BY <1>3, <1>4, <1>5, <1>6 DEF time, d

-----------------------------------------------------------------------------
(* Every step keeps the cursor sound. *)

LEMMA NothingTaken == Taken(<<>>) = {}
  BY DEF Taken

Empty == cursor = EmptyCursor /\ fed = <<>> /\ latest = <<>> /\ clock \in Nat

LEMMA EmptySound == Empty => CursorSound
  <1> SUFFICES ASSUME Empty
               PROVE  CursorSound
    OBVIOUS
  <1>1. /\ DOMAIN cursor = {"availability", "rows", "position"}
        /\ cursor.availability = <<>> /\ cursor.rows = <<>> /\ cursor.position = 0
    BY DEF Empty, EmptyCursor
  <1>2. Typed
    BY <1>1 DEF Empty, Typed, IsSequence
  <1>3. RowsKept
    BY <1>1, NothingTaken, FS_EmptySet DEF Empty, RowsKept
  <1>4. Shown
    BY <1>1 DEF Empty, Shown
  <1> QED  BY <1>2, <1>3, <1>4 DEF CursorSound

LEMMA PrimarySound ==
    ASSUME CursorSound, NEW bar, UpdatePrimary(bar)
    PROVE  CursorSound'
  <1>1. /\ cursor' = Advance(cursor, clock) /\ clock' = clock + 1
        /\ latest' = <<EnrichedBar(primary', cursor', clock)>>
        /\ UNCHANGED <<info, fed>>
    BY DEF UpdatePrimary
  <1>2. /\ DOMAIN cursor' = {"availability", "rows", "position"}
        /\ cursor'.availability = cursor.availability /\ cursor'.rows = cursor.rows
        /\ cursor'.position \in cursor.position..Len(cursor.rows)
        /\ \A p \in (cursor.position + 1)..cursor'.position :
              cursor.availability[p] <= clock
    BY <1>1, AdvancePasses DEF CursorSound, Typed
  <1>3. Typed'
    BY <1>1, <1>2 DEF CursorSound, Typed, IsSequence
  <1>4. RowsKept'
    BY <1>1, <1>2 DEF CursorSound, RowsKept
  <1>5. latest'[1].timestamp = clock /\ latest'[1].info = VisibleRow(cursor')
    BY <1>1 DEF EnrichedBar
  <1>6. ASSUME NEW p \in 1..cursor'.position
        PROVE  cursor.availability[p] <= clock
    <2>1. CASE p \in 1..cursor.position
      <3>1. latest # <<>>
        BY <2>1 DEF CursorSound, Shown
      <3>2. /\ cursor.availability[p] <= latest[1].timestamp
            /\ latest[1].timestamp + 1 = clock /\ latest[1].timestamp \in Nat
        BY <2>1, <3>1 DEF CursorSound, Shown
      <3>3. cursor.availability[p] \in Int
        BY <2>1 DEF CursorSound, Typed
      <3> QED  BY <3>2, <3>3
    <2>2. CASE p \notin 1..cursor.position
      <3>1. p \in (cursor.position + 1)..cursor'.position
        BY <1>2, <2>2 DEF CursorSound, Typed
      <3> QED  BY <1>2, <3>1
    <2> QED  BY <2>1, <2>2
  <1>7. Shown'
    <2>1. latest' # <<>>
      BY <1>1
    <2>2. clock \in Nat
      BY DEF CursorSound, Typed
    <2>3. VisibleRow(cursor') = VisibleRow(cursor)'
      BY DEF VisibleRow
    <2> QED  BY <1>1, <1>2, <1>5, <1>6, <2>1, <2>2, <2>3 DEF Shown
  <1> QED  BY <1>3, <1>4, <1>7 DEF CursorSound

(* A delivery as it is recorded. *)
LEMMA PairType ==
    ASSUME NEW S, NEW x \in S, NEW b \in BOOLEAN
    PROVE  <<x, b>> \in S \X BOOLEAN
  OBVIOUS

LEMMA DeliveryType ==
    ASSUME NEW j \in DOMAIN InfoBars, NEW open
    PROVE  <<j, Accepts(cursor, open)>> \in Deliveries
  <1>1. Accepts(cursor, open) \in BOOLEAN
    BY DEF Accepts
  <1> QED  BY <1>1, PairType DEF Deliveries

LEMMA InformativeSound ==
    ASSUME CursorSound, NEW j \in DOMAIN InfoBars, UpdateInformative(j)
    PROVE  CursorSound'
  <1> DEFINE x == <<j, Accepts(cursor, InfoOpen(j))>>
  <1>1. fed' = Append(fed, x) /\ UNCHANGED <<latest, clock>>
    BY DEF UpdateInformative
  <1>3. x \in Deliveries /\ fed \in Seq(Deliveries)
    <2>1. x \in Deliveries
      BY DeliveryType
    <2> QED  BY <2>1 DEF CursorSound, Typed
  <1>4. x[1] = j /\ (x[2] <=> Accepts(cursor, InfoOpen(j)))
    OBVIOUS
  <1> HIDE DEF x
  <1> DEFINE n == Len(fed) + 1
  <1>5. /\ fed' \in Seq(Deliveries) /\ Len(fed') = n /\ fed'[n] = x
        /\ \A i \in 1..Len(fed) : fed'[i] = fed[i]
        /\ \A i \in Taken(fed) : Rank(fed', i) = Rank(fed, i)
        /\ x[2] => /\ Taken(fed') = Taken(fed) \cup {n}
                   /\ Rank(fed', n) = Cardinality(Taken(fed)) + 1
                   /\ Cardinality(Taken(fed')) = Cardinality(Taken(fed)) + 1
        /\ ~x[2] => Taken(fed') = Taken(fed)
    BY <1>1, <1>3, RanksAppend
  <1>6. Taken(fed) \subseteq 1..Len(fed) /\ Len(fed) \in Nat
    BY <1>3, TakenFacts
  <1>7. ASSUME NEW i \in Taken(fed)
        PROVE  fed'[i] = fed[i] /\ Rank(fed', i) = Rank(fed, i)
    BY <1>5, <1>6
  <1>8. CASE ~x[2]
    <2>1. cursor' = cursor
      BY <1>4, <1>8 DEF UpdateInformative
    <2>2. Taken(fed') = Taken(fed)
      BY <1>5, <1>8
    <2>3. Typed'
      BY <1>1, <1>5, <2>1 DEF CursorSound, Typed, IsSequence
    <2>4. RowsKept'
      BY <1>7, <2>1, <2>2 DEF CursorSound, RowsKept
    <2>5. Shown'
      BY <1>1, <2>1 DEF CursorSound, Shown, VisibleRow
    <2> QED  BY <2>3, <2>4, <2>5 DEF CursorSound
  <1>9. CASE x[2]
    <2> DEFINE m == Len(cursor.rows) + 1
    <2>1. cursor' = CursorAppend(cursor, InfoOpen(j), InfoRow(info'))
      BY <1>4, <1>9 DEF UpdateInformative
    <2>2. /\ DOMAIN cursor' = {"availability", "rows", "position"}
          /\ cursor'.availability \in Seq(Int) /\ IsSequence(cursor'.rows)
          /\ Len(cursor'.availability) = m /\ Len(cursor'.rows) = m
          /\ cursor'.position = cursor.position
          /\ cursor'.availability[m] = InfoOpen(j) + InfoSpan
          /\ \A p \in 1..Len(cursor.rows) :
                /\ cursor'.availability[p] = cursor.availability[p]
                /\ cursor'.rows[p] = cursor.rows[p]
      <3>1. /\ DOMAIN cursor = {"availability", "rows", "position"}
            /\ cursor.availability \in Seq(Int) /\ IsSequence(cursor.rows)
            /\ Len(cursor.availability) = Len(cursor.rows)
        BY DEF CursorSound, Typed
      <3> QED  BY <2>1, <3>1, AppendRow
    <2>3. Len(cursor.rows) \in Nat /\ cursor.position \in 0..Len(cursor.rows)
      BY DEF CursorSound, Typed, IsSequence
    <2>4. Typed'
      BY <1>1, <1>5, <2>2, <2>3 DEF CursorSound, Typed, IsSequence
    <2>5. Len(cursor.rows) = Cardinality(Taken(fed))
      BY DEF CursorSound, RowsKept
    <2>6. ASSUME NEW i \in Taken(fed')
          PROVE  /\ Rank(fed', i) \in 1..m
                 /\ cursor'.availability[Rank(fed', i)]
                      = InfoOpen(fed'[i][1]) + InfoSpan
      <3>1. CASE i = n
        <4>1. Rank(fed', i) = m /\ fed'[i][1] = j
          BY <1>4, <1>5, <1>9, <2>5, <3>1
        <4> QED  BY <2>2, <2>3, <4>1
      <3>2. CASE i \in Taken(fed)
        <4>1. /\ Rank(fed, i) \in 1..Len(cursor.rows)
              /\ cursor.availability[Rank(fed, i)] = InfoOpen(fed[i][1]) + InfoSpan
          BY <3>2 DEF CursorSound, RowsKept
        <4> QED  BY <1>7, <2>2, <2>3, <3>2, <4>1
      <3> QED  BY <1>5, <1>9, <3>1, <3>2
    <2>7. ASSUME NEW p \in 1..m
          PROVE  \E i \in Taken(fed') : Rank(fed', i) = p
      <3>1. CASE p = m
        BY <1>5, <1>9, <2>5, <3>1
      <3>2. CASE p # m
        <4>1. p \in 1..Len(cursor.rows)
          BY <2>3, <3>2
        <4>2. PICK i \in Taken(fed) : Rank(fed, i) = p
          BY <4>1 DEF CursorSound, RowsKept
        <4> QED  BY <1>5, <1>7, <1>9, <4>2
      <3> QED  BY <3>1, <3>2
    <2>8. RowsKept'
      <3>1. Len(cursor'.rows) = Cardinality(Taken(fed'))
        BY <1>5, <1>9, <2>2, <2>5
      <3> QED  BY <2>2, <2>6, <2>7, <3>1 DEF RowsKept
    <2>9. Shown'
      <3>1. VisibleRow(cursor)' = VisibleRow(cursor)
        BY <2>2, <2>3 DEF VisibleRow
      <3>2. \A p \in 1..cursor.position : cursor'.availability[p] = cursor.availability[p]
        BY <2>2, <2>3
      <3> QED  BY <1>1, <2>2, <3>1, <3>2 DEF CursorSound, Shown
    <2> QED  BY <2>4, <2>8, <2>9 DEF CursorSound
  <1> QED  BY <1>8, <1>9

LEMMA NextSound ==
    ASSUME CursorSound, [Next]_vars
    PROVE  CursorSound'
  <1>1. ASSUME NEW bar, UpdatePrimary(bar)
        PROVE  CursorSound'
    BY <1>1, PrimarySound
  <1>2. ASSUME NEW j \in DOMAIN InfoBars, UpdateInformative(j)
        PROVE  CursorSound'
    BY <1>2, InformativeSound
  <1>3. CASE Reset
    <2>1. Empty'
      BY <1>3 DEF Reset, Empty, EmptyCursor, CursorSound, Typed
    <2> QED  BY <2>1, EmptySound, PTL
  <1>4. CASE UNCHANGED vars
    <2>1. UNCHANGED <<cursor, latest, clock, fed>>
      BY <1>4 DEF vars
    <2> QED  BY <2>1 DEF CursorSound, Typed, RowsKept, Shown, IsSequence, VisibleRow
  <1> QED  BY <1>1, <1>2, <1>3, <1>4 DEF Next

LEMMA CursorStaysSound == Spec => []CursorSound
  <1>1. Init => CursorSound
    BY EmptySound DEF Init, Empty
  <1> QED  BY <1>1, NextSound, PTL DEF Spec

-----------------------------------------------------------------------------
(* Every step keeps the rows those a new engine computes. *)

LEMMA EmptyComputed ==
    ASSUME ~Info!HasSessionVp
    PROVE  /\ Pristine(EngineOf(<<>>, 0)) /\ EngineOf(<<>>, Len(<<>>)) = Info!EngineInit
           /\ Taken(<<>>) = {}
  <1>1. EngineOf(<<>>, 0) = Info!EngineInit
    BY EngineOfNone
  <1>2. Len(<<>>) = 0
    OBVIOUS
  <1> QED  BY <1>1, <1>2, NewEngine, NothingTaken

LEMMA InformativeComputed ==
    ASSUME ~Info!HasSessionVp, CursorSound, RowsComputed,
           NEW j \in DOMAIN InfoBars, UpdateInformative(j)
    PROVE  RowsComputed'
  <1> DEFINE x == <<j, Accepts(cursor, InfoOpen(j))>>
             n == Len(fed) + 1
  <1>1. /\ fed' = Append(fed, x)
        /\ info' = Info!EngineUpdate(info, InfoBars[j])
    BY DEF UpdateInformative
  <1>2. /\ x[1] = j /\ (x[2] <=> Accepts(cursor, InfoOpen(j)))
        /\ x \in Deliveries
    BY DeliveryType
  <1>3. fed \in Seq(Deliveries)
    BY DEF CursorSound, Typed
  <1> HIDE DEF x
  <1>4. /\ Len(fed') = n /\ fed'[n] = x
        /\ \A i \in 1..Len(fed) : fed'[i] = fed[i]
        /\ \A i \in Taken(fed) : Rank(fed', i) = Rank(fed, i)
        /\ x[2] => /\ Taken(fed') = Taken(fed) \cup {n}
                   /\ Rank(fed', n) = Cardinality(Taken(fed)) + 1
        /\ ~x[2] => Taken(fed') = Taken(fed)
    BY <1>1, <1>2, <1>3, RanksAppend
  <1>5. Taken(fed) \subseteq 1..Len(fed) /\ Len(fed) \in Nat
    BY <1>3, TakenFacts
  <1>6. Pristine(info')
    BY <1>1, UpdateKeepsPristine DEF RowsComputed
  <1>7. info' = EngineOf(fed', Len(fed'))
    <2>1. EngineOf(fed', Len(fed)) = EngineOf(fed, Len(fed))
      BY <1>4, <1>5, EngineOfPrefix
    <2>2. EngineOf(fed', n)
            = Info!EngineUpdate(EngineOf(fed', Len(fed)), InfoBars[fed'[n][1]])
      BY <1>5, EngineOfNext
    <2> QED  BY <1>1, <1>2, <1>4, <2>1, <2>2 DEF RowsComputed
  <1>8. ASSUME NEW i \in Taken(fed)
        PROVE  /\ EngineOf(fed', i) = EngineOf(fed, i)
               /\ cursor'.rows[Rank(fed', i)] = InfoRow(EngineOf(fed, i))
    <2>1. i \in Nat /\ \A k \in 1..i : fed'[k] = fed[k]
      BY <1>4, <1>5
    <2>2. EngineOf(fed', i) = EngineOf(fed, i)
      BY <2>1, EngineOfPrefix
    <2>3. /\ Rank(fed, i) \in 1..Len(cursor.rows)
          /\ cursor.rows[Rank(fed, i)] = InfoRow(EngineOf(fed, i))
      BY DEF CursorSound, RowsKept, RowsComputed
    <2>4. \A p \in 1..Len(cursor.rows) : cursor'.rows[p] = cursor.rows[p]
      <3>1. CASE x[2]
        <4>1. cursor' = CursorAppend(cursor, InfoOpen(j), InfoRow(info'))
          BY <1>2, <3>1 DEF UpdateInformative
        <4>2. /\ DOMAIN cursor = {"availability", "rows", "position"}
              /\ cursor.availability \in Seq(Int) /\ IsSequence(cursor.rows)
              /\ Len(cursor.availability) = Len(cursor.rows)
          BY DEF CursorSound, Typed
        <4> QED  BY <4>1, <4>2, AppendRow
      <3>2. CASE ~x[2]
        BY <1>2, <3>2 DEF UpdateInformative
      <3> QED  BY <3>1, <3>2
    <2> QED  BY <1>4, <2>2, <2>3, <2>4
  <1>9. ASSUME x[2]
        PROVE  cursor'.rows[Rank(fed', n)] = InfoRow(EngineOf(fed', n))
    <2>1. cursor' = CursorAppend(cursor, InfoOpen(j), InfoRow(info'))
      BY <1>2, <1>9 DEF UpdateInformative
    <2>2. cursor'.rows[Len(cursor.rows) + 1] = InfoRow(info')
      BY <2>1, AppendRow DEF CursorSound, Typed
    <2>3. Rank(fed', n) = Len(cursor.rows) + 1
      BY <1>4, <1>9 DEF CursorSound, RowsKept
    <2> QED  BY <1>4, <1>7, <2>2, <2>3
  <1>10. ASSUME NEW i \in Taken(fed')
         PROVE  cursor'.rows[Rank(fed', i)] = InfoRow(EngineOf(fed', i))
    <2>1. i \in Taken(fed) \/ (i = n /\ x[2])
      BY <1>4, <1>2
    <2> QED  BY <1>8, <1>9, <2>1
  <1> HIDE DEF n
  <1> QED  BY <1>6, <1>7, <1>10 DEF RowsComputed, InfoRow, WithRequestedColumns

LEMMA NextComputed ==
    ASSUME ~Info!HasSessionVp, CursorSound, RowsComputed, [Next]_vars
    PROVE  RowsComputed'
  <1>1. ASSUME NEW bar, UpdatePrimary(bar)
        PROVE  RowsComputed'
    <2>1. /\ cursor' = Advance(cursor, clock) /\ UNCHANGED <<info, fed>>
      BY <1>1 DEF UpdatePrimary
    <2>2. cursor'.rows = cursor.rows
      BY <2>1, AdvancePasses DEF CursorSound, Typed
    <2> QED  BY <2>1, <2>2 DEF RowsComputed, InfoRow
  <1>2. ASSUME NEW j \in DOMAIN InfoBars, UpdateInformative(j)
        PROVE  RowsComputed'
    BY <1>2, InformativeComputed
  <1>3. CASE Reset
    <2>1. fed' = <<>> /\ info' = Info!EngineReset(info)
      BY <1>3 DEF Reset
    <2>2. info' = Info!EngineInit
      BY <2>1, ResetIsInit DEF RowsComputed
    <2> QED  BY <2>1, <2>2, EmptyComputed, NewEngine DEF RowsComputed
  <1>4. CASE UNCHANGED vars
    BY <1>4 DEF vars, RowsComputed, InfoRow
  <1> QED  BY <1>1, <1>2, <1>3, <1>4 DEF Next

LEMMA RowsStayComputed ==
    ASSUME ~Info!HasSessionVp
    PROVE  Spec => []RowsComputed
  <1>1. Init => RowsComputed
    BY EmptyComputed, NewEngine DEF Init, RowsComputed
  <1> QED  BY <1>1, NextComputed, CursorStaysSound, PTL DEF Spec

-----------------------------------------------------------------------------
(* The theorems. *)

(* AsOfInformativeCursor.advance: whatever is computed on them, the rows   *)
(* passed when a bar is handed out, the one it shows among them, are those *)
(* of informative bars that had closed when it opened.                     *)
RowsHadClosed ==
    latest # <<>> =>
        /\ latest[1].info = VisibleRow(cursor)
        /\ \A i \in RowsAccepted :
              Cardinality({k \in RowsAccepted : k <= i}) <= cursor.position =>
                  InfoOpen(fed[i][1]) + InfoSpan <= latest[1].timestamp

LEMMA SoundHadClosed == CursorSound => RowsHadClosed
  <1> SUFFICES ASSUME CursorSound, latest # <<>>
               PROVE  /\ latest[1].info = VisibleRow(cursor)
                      /\ \A i \in Taken(fed) : Rank(fed, i) <= cursor.position =>
                            InfoOpen(fed[i][1]) + InfoSpan <= latest[1].timestamp
    BY DEF RowsHadClosed, RowsAccepted, Taken, Rank
  <1>1. latest[1].info = VisibleRow(cursor)
    BY DEF CursorSound, Shown
  <1>2. ASSUME NEW i \in Taken(fed), Rank(fed, i) <= cursor.position
        PROVE  InfoOpen(fed[i][1]) + InfoSpan <= latest[1].timestamp
    <2>1. /\ Rank(fed, i) \in 1..Len(cursor.rows)
          /\ cursor.availability[Rank(fed, i)] = InfoOpen(fed[i][1]) + InfoSpan
      BY DEF CursorSound, RowsKept
    <2>2. Rank(fed, i) \in 1..cursor.position
      BY <1>2, <2>1 DEF CursorSound, Typed, IsSequence
    <2> QED  BY <2>1, <2>2 DEF CursorSound, Shown
  <1> QED  BY <1>1, <1>2

(* On every path, with any indicators (RowsHadClosed). *)
THEOREM OnlyClosedBarsShow == Spec => []RowsHadClosed
  BY CursorStaysSound, SoundHadClosed, PTL

(* CausalMultiTimeframeStreamingEnricher: an enriched bar shows the values *)
(* a new engine computes from deliveries of bars that had all closed when  *)
(* the primary bar opened (NoLookahead).  The hypothesis excludes session  *)
(* profiles: reset keeps their date and points of control, so that after   *)
(* one their engine is not a new one.                                      *)
THEOREM NothingIsSeenEarly ==
    ASSUME ~Info!HasSessionVp
    PROVE  Spec => []NoLookahead
  <1>1. CursorSound /\ RowsComputed => NoLookahead
    <2> SUFFICES ASSUME CursorSound, RowsComputed, latest # <<>>
                 PROVE  /\ latest[1].info = <<>> <=> cursor.position = 0
                        /\ cursor.position > 0 =>
                             \E i \in Taken(fed) :
                                /\ Rank(fed, i) = cursor.position
                                /\ latest[1].info = <<InfoRow(EngineOf(fed, i))>>
                        /\ \A i \in Taken(fed) : Rank(fed, i) <= cursor.position =>
                              InfoOpen(fed[i][1]) + InfoSpan <= latest[1].timestamp
      BY DEF NoLookahead, RowsAccepted, Taken, Rank, Delivered, EngineOf, Numbers
    <2>1. RowsHadClosed
      BY SoundHadClosed
    <2>2. latest[1].info = VisibleRow(cursor)
      BY <2>1 DEF RowsHadClosed
    <2>3. ASSUME cursor.position > 0
          PROVE  \E i \in Taken(fed) :
                    /\ Rank(fed, i) = cursor.position
                    /\ latest[1].info = <<InfoRow(EngineOf(fed, i))>>
      <3>1. cursor.position \in 1..Len(cursor.rows)
        BY <2>3 DEF CursorSound, Typed
      <3>2. PICK i \in Taken(fed) : Rank(fed, i) = cursor.position
        BY <3>1 DEF CursorSound, RowsKept
      <3>3. cursor.rows[cursor.position] = InfoRow(EngineOf(fed, i))
        BY <3>2 DEF RowsComputed
      <3>4. latest[1].info = <<cursor.rows[cursor.position]>>
        BY <2>2, <3>1 DEF VisibleRow
      <3> QED  BY <3>2, <3>3, <3>4
    <2>4. latest[1].info = <<>> <=> cursor.position = 0
      BY <2>2 DEF VisibleRow
    <2>5. \A i \in Taken(fed) : Rank(fed, i) <= cursor.position =>
             InfoOpen(fed[i][1]) + InfoSpan <= latest[1].timestamp
      BY <2>1 DEF RowsHadClosed, RowsAccepted, Taken, Rank
    <2> QED  BY <2>3, <2>4, <2>5
  <1> QED  BY <1>1, CursorStaysSound, RowsStayComputed, PTL

-----------------------------------------------------------------------------
(* The three forms of enrichment. *)

(* Informative bars in the order in which they open. *)
Ordered(js) ==
    /\ Len(js) \in Nat /\ DOMAIN js = 1..Len(js)
    /\ \A i \in 1..Len(js) : InfoOpen(js[i]) \in Int
    /\ \A i, k \in 1..Len(js) : i <= k => InfoOpen(js[i]) <= InfoOpen(js[k])

(* The cursor that has the first m rows and has passed p of them. *)
Stand(js, rows, m, p) ==
    [availability |-> [i \in 1..m |-> InfoOpen(js[i]) + InfoSpan],
     rows |-> [i \in 1..m |-> rows[i]],
     position |-> p]

(* How many had closed by t, up to the first that had not. *)
ClosedBy(js, t) ==
    LET later == {i \in DOMAIN js : InfoOpen(js[i]) + InfoSpan > t}
    IN  IF later = {} THEN Len(js) ELSE Min(later) - 1

(* What comes before a set that has every number after its first. *)
LEMMA BeforeFirst ==
    ASSUME NEW N \in Nat, NEW U, U \subseteq 1..N,
           \A i, k \in 1..N : i <= k /\ i \in U => k \in U,
           NEW P, P = IF U = {} THEN N ELSE Min(U) - 1
    PROVE  P \in 0..N /\ \A i \in 1..N : i <= P <=> i \notin U
  <1>1. CASE U = {}
    BY <1>1
  <1>2. CASE U # {}
    <2>1. U \subseteq Int /\ 0 \in Int /\ \A x \in U : 0 <= x
      OBVIOUS
    <2>2. Min(U) \in U /\ \A x \in U : Min(U) <= x
      BY <1>2, <2>1, MinOf
    <2>3. P = Min(U) - 1
      BY <1>2
    <2>4. Min(U) \in 1..N
      BY <2>2
    <2> QED  BY <2>2, <2>3, <2>4
  <1> QED  BY <1>1, <1>2

LEMMA ClosedFacts ==
    ASSUME NEW js, Ordered(js), NEW t \in Int
    PROVE  /\ ClosedBy(js, t) \in 0..Len(js)
           /\ \A i \in 1..Len(js) : i <= ClosedBy(js, t) <=> InfoOpen(js[i]) + InfoSpan <= t
  <1> DEFINE U == {i \in DOMAIN js : InfoOpen(js[i]) + InfoSpan > t}
  <1>1. /\ Len(js) \in Nat /\ U \subseteq 1..Len(js) /\ InfoSpan \in Nat
        /\ \A i \in 1..Len(js) : InfoOpen(js[i]) \in Int
        /\ \A i \in 1..Len(js) : i \in U <=> InfoOpen(js[i]) + InfoSpan > t
    BY EnrichmentConstants DEF Ordered
  <1>2. \A i, k \in 1..Len(js) : i <= k /\ i \in U => k \in U
    BY <1>1 DEF Ordered
  <1>3. ClosedBy(js, t) = IF U = {} THEN Len(js) ELSE Min(U) - 1
    BY DEF ClosedBy
  <1> HIDE DEF U
  <1>4. /\ ClosedBy(js, t) \in 0..Len(js)
        /\ \A i \in 1..Len(js) : i <= ClosedBy(js, t) <=> i \notin U
    BY <1>1, <1>2, <1>3, BeforeFirst
  <1> QED  BY <1>1, <1>4

LEMMA OpenedFacts ==
    ASSUME NEW js, Ordered(js), NEW t \in Int
    PROVE  /\ OpenedBy(js, t) \in 0..Len(js)
           /\ \A i \in 1..Len(js) : i <= OpenedBy(js, t) <=> InfoOpen(js[i]) <= t
  <1> DEFINE U == {i \in DOMAIN js : InfoOpen(js[i]) > t}
  <1>1. /\ Len(js) \in Nat /\ U \subseteq 1..Len(js)
        /\ \A i \in 1..Len(js) : InfoOpen(js[i]) \in Int
        /\ \A i \in 1..Len(js) : i \in U <=> InfoOpen(js[i]) > t
    BY DEF Ordered
  <1>2. \A i, k \in 1..Len(js) : i <= k /\ i \in U => k \in U
    BY <1>1 DEF Ordered
  <1>3. OpenedBy(js, t) = IF U = {} THEN Len(js) ELSE Min(U) - 1
    BY DEF OpenedBy
  <1> HIDE DEF U
  <1>4. /\ OpenedBy(js, t) \in 0..Len(js)
        /\ \A i \in 1..Len(js) : i <= OpenedBy(js, t) <=> i \notin U
    BY <1>1, <1>2, <1>3, BeforeFirst
  <1> QED  BY <1>1, <1>4

(* Later bars find as many bars closed or more, and a bar that closed had  *)
(* opened.                                                                 *)
LEMMA ClosedGrows ==
    ASSUME NEW js, Ordered(js), NEW t \in Int
    PROVE  /\ ClosedBy(js, t) <= ClosedBy(js, t + 1)
           /\ ClosedBy(js, t) <= OpenedBy(js, t)
           /\ OpenedBy(js, t) <= OpenedBy(js, t + 1)
  <1> DEFINE c == ClosedBy(js, t)
             d == ClosedBy(js, t + 1)
             o == OpenedBy(js, t)
             q == OpenedBy(js, t + 1)
  <1>1. Len(js) \in Nat /\ InfoSpan \in Nat /\ t + 1 \in Int
        /\ \A i \in 1..Len(js) : InfoOpen(js[i]) \in Int
    BY EnrichmentConstants DEF Ordered
  <1>2. /\ c \in 0..Len(js) /\ d \in 0..Len(js) /\ o \in 0..Len(js) /\ q \in 0..Len(js)
        /\ \A i \in 1..Len(js) : i <= c <=> InfoOpen(js[i]) + InfoSpan <= t
        /\ \A i \in 1..Len(js) : i <= d <=> InfoOpen(js[i]) + InfoSpan <= t + 1
        /\ \A i \in 1..Len(js) : i <= o <=> InfoOpen(js[i]) <= t
        /\ \A i \in 1..Len(js) : i <= q <=> InfoOpen(js[i]) <= t + 1
    BY <1>1, ClosedFacts, OpenedFacts
  <1> HIDE DEF c, d, o, q
  <1>3. c > 0 => c \in 1..Len(js) /\ c <= c
    BY <1>2
  <1>4. o > 0 => o \in 1..Len(js) /\ o <= o
    BY <1>2
  <1>5. c <= d /\ c <= o
    <2>1. CASE c = 0
      BY <1>2, <2>1
    <2>2. CASE c > 0
      <3>1. InfoOpen(js[c]) + InfoSpan <= t
        BY <1>2, <1>3, <2>2
      <3>2. InfoOpen(js[c]) \in Int
        BY <1>1, <1>3, <2>2
      <3> QED  BY <1>1, <1>2, <1>3, <2>2, <3>1, <3>2
    <2> QED  BY <1>2, <2>1, <2>2
  <1>6. o <= q
    <2>1. CASE o = 0
      BY <1>2, <2>1
    <2>2. CASE o > 0
      <3>1. InfoOpen(js[o]) <= t
        BY <1>2, <1>4, <2>2
      <3>2. InfoOpen(js[o]) \in Int
        BY <1>1, <1>4, <2>2
      <3> QED  BY <1>1, <1>2, <1>4, <2>2, <3>1, <3>2
    <2> QED  BY <1>2, <2>1, <2>2
  <1> QED  BY <1>5, <1>6 DEF c, d, o, q

(* A cursor with every row that had closed by t advances to the last.      *)
LEMMA AdvanceStand ==
    ASSUME NEW js, NEW rows, Ordered(js), NEW t \in Int, NEW m \in 0..Len(js),
           ClosedBy(js, t) <= m, NEW p \in 0..ClosedBy(js, t)
    PROVE  Advance(Stand(js, rows, m, p), t) = Stand(js, rows, m, ClosedBy(js, t))
  <1> DEFINE c == Stand(js, rows, m, p)
             C == ClosedBy(js, t)
             later == {i \in (c.position + 1)..Len(c.rows) : c.availability[i] > t}
             next == IF later = {} THEN Len(c.rows) ELSE Min(later) - 1
  <1>1. /\ Len(js) \in Nat /\ m \in Nat /\ C \in 0..Len(js) /\ p \in Nat /\ InfoSpan \in Nat
        /\ \A i \in 1..Len(js) : InfoOpen(js[i]) \in Int
        /\ \A i \in 1..Len(js) : i <= C <=> InfoOpen(js[i]) + InfoSpan <= t
    <2>1. /\ Len(js) \in Nat /\ InfoSpan \in Nat
          /\ \A i \in 1..Len(js) : InfoOpen(js[i]) \in Int
      BY EnrichmentConstants DEF Ordered
    <2>2. /\ C \in 0..Len(js)
          /\ \A i \in 1..Len(js) : i <= C <=> InfoOpen(js[i]) + InfoSpan <= t
      BY ClosedFacts
    <2>3. p \in 0..C
      OBVIOUS
    <2> HIDE DEF C
    <2> QED  BY <2>1, <2>2, <2>3
  <1>2. /\ c.position = p /\ Len(c.rows) = m
        /\ \A i \in 1..m : c.availability[i] = InfoOpen(js[i]) + InfoSpan
    BY <1>1 DEF Stand
  <1>3. Advance(c, t) = [c EXCEPT !.position = next]
    BY DEF Advance
  <1>4. [c EXCEPT !.position = C] = Stand(js, rows, m, C)
    <2> DEFINE a == [i \in 1..m |-> InfoOpen(js[i]) + InfoSpan]
               r == [i \in 1..m |-> rows[i]]
    <2>1. /\ c = [availability |-> a, rows |-> r, position |-> p]
          /\ Stand(js, rows, m, C) = [availability |-> a, rows |-> r, position |-> C]
      BY DEF Stand
    <2> HIDE DEF a, r, c, C
    <2> QED  BY <2>1
  <1>0. C <= m /\ C \in Int /\ p \in 0..C /\ t \in Int /\ m \in 0..Len(js)
    BY <1>1
  <1> HIDE DEF c, C
  <1>5. \A i \in Int : i \in later <=> C + 1 <= i /\ i <= m
    <2>1. \A i \in Int : i \in later <=> p + 1 <= i /\ i <= m /\ InfoOpen(js[i]) + InfoSpan > t
      BY <1>0, <1>1, <1>2
    <2>2. \A i \in 1..m : i <= C <=> ~(InfoOpen(js[i]) + InfoSpan > t)
      BY <1>0, <1>1
    <2> QED  BY <1>0, <1>1, <2>1, <2>2
  <1>6. next = C
    <2>1. CASE C = m
      <3>1. later = {}
        BY <1>1, <1>2, <1>5, <2>1
      <3> QED  BY <1>2, <2>1, <3>1
    <2>2. CASE C # m
      <3>1. C < m /\ C + 1 \in later
        BY <1>0, <1>1, <1>5, <2>2
      <3>2. later \subseteq Int
        BY <1>1, <1>2
      <3>3. C + 1 \in Int /\ \A x \in later : C + 1 <= x
        BY <1>1, <1>5, <3>2
      <3>4. next = Min(later) - 1
        BY <3>1
      <3> HIDE DEF later, next
      <3>5. Min(later) \in later /\ \A x \in later : Min(later) <= x
        BY <3>1, <3>2, <3>3, MinOf
      <3>6. Min(later) = C + 1
        <4>1. Min(later) \in Int /\ C + 1 <= Min(later) /\ Min(later) <= C + 1
          BY <3>1, <3>2, <3>3, <3>5
        <4> QED  BY <1>0, <4>1
      <3> QED  BY <1>1, <3>4, <3>6
    <2> QED  BY <2>1, <2>2
  <1> HIDE DEF next
  <1> QED  BY <1>3, <1>4, <1>6 DEF c, C

(* A sequence and what follows it. *)
LEMMA Joined ==
    ASSUME NEW S, NEW h \in Nat, NEW m \in Nat, h <= m,
           NEW F \in Seq(S), NEW G \in Seq(S), NEW H \in Seq(S),
           Len(F) = h, Len(G) = m - h, Len(H) = m,
           \A i \in 1..h : F[i] = H[i], \A i \in 1..(m - h) : G[i] = H[h + i]
    PROVE  F \o G = H
  <1>1. /\ F \o G \in Seq(S) /\ Len(F \o G) = Len(F) + Len(G)
        /\ \A i \in 1..(Len(F) + Len(G)) :
              (F \o G)[i] = IF i <= Len(F) THEN F[i] ELSE G[i - Len(F)]
    BY ConcatProperties
  <1>2. Len(F) + Len(G) = m
    OBVIOUS
  <1>3. ASSUME NEW i \in 1..m
        PROVE  (F \o G)[i] = H[i]
    <2>1. CASE i <= h
      BY <1>1, <1>2, <2>1
    <2>2. CASE ~(i <= h)
      <3>1. i - h \in 1..(m - h) /\ h + (i - h) = i
        BY <2>2
      <3> QED  BY <1>1, <1>2, <2>2, <3>1
    <2> QED  BY <2>1, <2>2
  <1> QED  BY <1>1, <1>2, <1>3, SeqEqual

(* The first m values of F. *)
LEMMA JoinedValues ==
    ASSUME NEW F, NEW h \in Nat, NEW m \in Nat, h <= m
    PROVE  [i \in 1..h |-> F[i]] \o [i \in 1..(m - h) |-> F[h + i]] = [i \in 1..m |-> F[i]]
  <1> DEFINE S == {F[i] : i \in 1..m}
             A == [i \in 1..h |-> F[i]]
             B == [i \in 1..(m - h) |-> F[h + i]]
             C == [i \in 1..m |-> F[i]]
  <1>1. A \in Seq(S) /\ Len(A) = h
    OBVIOUS
  <1>2. B \in Seq(S) /\ Len(B) = m - h
    <2>1. \A i \in 1..(m - h) : h + i \in 1..m
      OBVIOUS
    <2> QED  BY <2>1
  <1>3. C \in Seq(S) /\ Len(C) = m
    OBVIOUS
  <1>4. \A i \in 1..h : A[i] = C[i]
    OBVIOUS
  <1>5. \A i \in 1..(m - h) : B[i] = C[h + i]
    <2>1. \A i \in 1..(m - h) : h + i \in 1..m
      OBVIOUS
    <2> QED  BY <2>1
  <1> HIDE DEF S, A, B, C
  <1>6. A \o B = C
    BY <1>1, <1>2, <1>3, <1>4, <1>5, Joined
  <1> QED  BY <1>6 DEF A, B, C

(* Rows appended to a cursor that has those before them. *)
LEMMA FeedStand ==
    ASSUME NEW js, NEW rows, NEW h \in Nat, NEW m \in Nat, h <= m, NEW p
    PROVE  FeedTo(Stand(js, rows, h, p), js, rows, m) = Stand(js, rows, m, p)
  <1> DEFINE c == Stand(js, rows, h, p)
             F == [i \in 1..m |-> InfoOpen(js[i]) + InfoSpan]
  <1>1. /\ c.availability = [i \in 1..h |-> InfoOpen(js[i]) + InfoSpan]
        /\ c.rows = [i \in 1..h |-> rows[i]] /\ c.position = p /\ Len(c.rows) = h
    BY DEF Stand
  <1>2. /\ \A i \in 1..h : i \in 1..m
        /\ \A i \in 1..(m - h) : h + i \in 1..m
    OBVIOUS
  <1>3. /\ [i \in 1..h |-> F[i]] = [i \in 1..h |-> InfoOpen(js[i]) + InfoSpan]
        /\ [i \in 1..(m - h) |-> F[h + i]] = [i \in 1..(m - h) |-> InfoOpen(js[h + i]) + InfoSpan]
        /\ [i \in 1..m |-> F[i]] = F
    BY <1>2
  <1>4. FeedTo(c, js, rows, m)
          = [availability |-> [i \in 1..h |-> F[i]] \o [i \in 1..(m - h) |-> F[h + i]],
             rows |-> [i \in 1..h |-> rows[i]] \o [i \in 1..(m - h) |-> rows[h + i]],
             position |-> p]
    <2> HIDE DEF c, F
    <2> QED  BY <1>1, <1>3 DEF FeedTo
  <1>5. Stand(js, rows, m, p)
          = [availability |-> F, rows |-> [i \in 1..m |-> rows[i]], position |-> p]
    BY DEF Stand
  <1> HIDE DEF c, F
  <1>6. /\ [i \in 1..h |-> F[i]] \o [i \in 1..(m - h) |-> F[h + i]] = [i \in 1..m |-> F[i]]
        /\ [i \in 1..h |-> rows[i]] \o [i \in 1..(m - h) |-> rows[h + i]] = [i \in 1..m |-> rows[i]]
    BY JoinedValues
  <1>7. FeedTo(c, js, rows, m) = Stand(js, rows, m, p)
    BY <1>3, <1>4, <1>5, <1>6
  <1> QED  BY <1>7 DEF c

(* How many rows the cursor has passed, and how many it has in sequence,   *)
(* after k primary bars.                                                   *)
PassedAfter(js, k) == IF k = 0 THEN 0 ELSE ClosedBy(js, k - 1)
FedAfter(js, k) == IF k = 0 THEN 0 ELSE OpenedBy(js, k - 1)

LEMMA PassedFacts ==
    ASSUME NEW js, Ordered(js), NEW k \in Nat, k # 0
    PROVE  /\ PassedAfter(js, k) = ClosedBy(js, k - 1)
           /\ PassedAfter(js, k - 1) \in 0..ClosedBy(js, k - 1)
           /\ ClosedBy(js, k - 1) \in 0..Len(js)
           /\ ClosedBy(js, k - 1) <= OpenedBy(js, k - 1)
           /\ OpenedBy(js, k - 1) \in 0..Len(js)
           /\ FedAfter(js, k) = OpenedBy(js, k - 1)
           /\ FedAfter(js, k - 1) \in 0..OpenedBy(js, k - 1)
  <1>1. k - 1 \in Int /\ k - 1 \in Nat /\ Len(js) \in Nat
    BY DEF Ordered
  <1>2. /\ ClosedBy(js, k - 1) \in 0..Len(js) /\ OpenedBy(js, k - 1) \in 0..Len(js)
        /\ ClosedBy(js, k - 1) <= OpenedBy(js, k - 1)
    BY <1>1, ClosedFacts, OpenedFacts, ClosedGrows
  <1>3. /\ PassedAfter(js, k - 1) \in 0..ClosedBy(js, k - 1)
        /\ FedAfter(js, k - 1) \in 0..OpenedBy(js, k - 1)
    <2>1. CASE k = 1
      BY <1>1, <1>2, <2>1 DEF PassedAfter, FedAfter
    <2>2. CASE k # 1
      <3> DEFINE t == k - 2
      <3>1. t \in Int /\ t + 1 = k - 1 /\ (k - 1) - 1 = t /\ k - 1 # 0
        BY <2>2
      <3>2. PassedAfter(js, k - 1) = ClosedBy(js, t) /\ FedAfter(js, k - 1) = OpenedBy(js, t)
        BY <3>1 DEF PassedAfter, FedAfter
      <3> HIDE DEF t
      <3>3. /\ ClosedBy(js, t) \in 0..Len(js) /\ OpenedBy(js, t) \in 0..Len(js)
            /\ ClosedBy(js, t) <= ClosedBy(js, t + 1) /\ OpenedBy(js, t) <= OpenedBy(js, t + 1)
        BY <3>1, ClosedFacts, OpenedFacts, ClosedGrows
      <3> QED  BY <1>1, <1>2, <3>1, <3>2, <3>3
    <2> QED  BY <2>1, <2>2
  <1> QED  BY <1>2, <1>3 DEF PassedAfter, FedAfter

LEMMA EmptyStand ==
    ASSUME NEW js, NEW rows
    PROVE  EmptyCursor = Stand(js, rows, 0, 0)
  <1>1. \A F : [i \in 1..0 |-> F[i]] = <<>>
    OBVIOUS
  <1>2. /\ [i \in 1..0 |-> InfoOpen(js[i]) + InfoSpan] = <<>>
        /\ [i \in 1..0 |-> rows[i]] = <<>>
    OBVIOUS
  <1> QED  BY <1>2 DEF EmptyCursor, Stand

(* What a cursor that has passed p of the rows shows. *)
Shows(rows, p) == IF p = 0 THEN <<>> ELSE <<rows[p]>>
LEMMA StandShows ==
    ASSUME NEW js, NEW rows, NEW m \in Nat, NEW p \in 0..m
    PROVE  VisibleRow(Stand(js, rows, m, p)) = Shows(rows, p)
  BY DEF VisibleRow, Stand, Shows

(* The cursor after each primary bar, in either form. *)
InParallel(js, rows, n, f) ==
    f = [k \in 0..n |-> IF k = 0 THEN FeedTo(EmptyCursor, js, rows, Len(js))
                        ELSE Advance(f[k - 1], k - 1)]
InSequence(js, rows, n, f) ==
    f = [k \in 0..n |-> IF k = 0 THEN EmptyCursor
                        ELSE Advance(FeedTo(f[k - 1], js, rows, OpenedBy(js, k - 1)), k - 1)]

LEMMA ParallelStep ==
    ASSUME NEW js, NEW rows, Ordered(js)
    PROVE  /\ FeedTo(EmptyCursor, js, rows, Len(js)) = Stand(js, rows, Len(js), PassedAfter(js, 0))
           /\ \A k \in Nat \ {0} :
                 Advance(Stand(js, rows, Len(js), PassedAfter(js, k - 1)), k - 1)
                   = Stand(js, rows, Len(js), PassedAfter(js, k))
  <1>1. Len(js) \in Nat /\ Len(js) \in 0..Len(js)
    BY DEF Ordered
  <1>2. FeedTo(EmptyCursor, js, rows, Len(js)) = Stand(js, rows, Len(js), 0)
    BY <1>1, EmptyStand, FeedStand
  <1>3. ASSUME NEW k \in Nat \ {0}
        PROVE  Advance(Stand(js, rows, Len(js), PassedAfter(js, k - 1)), k - 1)
                 = Stand(js, rows, Len(js), PassedAfter(js, k))
    <2>1. /\ PassedAfter(js, k) = ClosedBy(js, k - 1)
          /\ PassedAfter(js, k - 1) \in 0..ClosedBy(js, k - 1)
          /\ ClosedBy(js, k - 1) \in 0..Len(js) /\ k - 1 \in Int
      <3>1. k \in Nat /\ k # 0 /\ k - 1 \in Int
        OBVIOUS
      <3> QED  BY <3>1, PassedFacts
    <2>2. ClosedBy(js, k - 1) <= Len(js)
      BY <1>1, <2>1
    <2> QED  BY <1>1, <2>1, <2>2, AdvanceStand
  <1> QED  BY <1>2, <1>3 DEF PassedAfter

LEMMA SequenceStep ==
    ASSUME NEW js, NEW rows, Ordered(js)
    PROVE  /\ EmptyCursor = Stand(js, rows, FedAfter(js, 0), PassedAfter(js, 0))
           /\ \A k \in Nat \ {0} :
                 Advance(FeedTo(Stand(js, rows, FedAfter(js, k - 1), PassedAfter(js, k - 1)),
                                js, rows, OpenedBy(js, k - 1)), k - 1)
                   = Stand(js, rows, FedAfter(js, k), PassedAfter(js, k))
  <1>1. EmptyCursor = Stand(js, rows, FedAfter(js, 0), PassedAfter(js, 0))
    BY EmptyStand DEF FedAfter, PassedAfter
  <1>2. ASSUME NEW k \in Nat \ {0}
        PROVE  Advance(FeedTo(Stand(js, rows, FedAfter(js, k - 1), PassedAfter(js, k - 1)),
                              js, rows, OpenedBy(js, k - 1)), k - 1)
                 = Stand(js, rows, FedAfter(js, k), PassedAfter(js, k))
    <2>1. /\ PassedAfter(js, k) = ClosedBy(js, k - 1) /\ FedAfter(js, k) = OpenedBy(js, k - 1)
          /\ PassedAfter(js, k - 1) \in 0..ClosedBy(js, k - 1)
          /\ FedAfter(js, k - 1) \in 0..OpenedBy(js, k - 1)
          /\ ClosedBy(js, k - 1) <= OpenedBy(js, k - 1)
          /\ OpenedBy(js, k - 1) \in 0..Len(js) /\ k - 1 \in Int
      <3>1. k \in Nat /\ k # 0 /\ k - 1 \in Int
        OBVIOUS
      <3> QED  BY <3>1, PassedFacts
    <2>2. /\ FedAfter(js, k - 1) \in Nat /\ OpenedBy(js, k - 1) \in Nat
          /\ FedAfter(js, k - 1) <= OpenedBy(js, k - 1)
      BY <2>1
    <2>3. FeedTo(Stand(js, rows, FedAfter(js, k - 1), PassedAfter(js, k - 1)),
                 js, rows, OpenedBy(js, k - 1))
            = Stand(js, rows, OpenedBy(js, k - 1), PassedAfter(js, k - 1))
      BY <2>2, FeedStand
    <2>4. Advance(Stand(js, rows, OpenedBy(js, k - 1), PassedAfter(js, k - 1)), k - 1)
            = Stand(js, rows, OpenedBy(js, k - 1), ClosedBy(js, k - 1))
      BY <2>1, AdvanceStand
    <2> QED  BY <2>1, <2>3, <2>4
  <1> QED  BY <1>1, <1>2

(* The rows shown in parallel. *)
LEMMA ParallelShows ==
    ASSUME NEW js, NEW rows, Ordered(js), NEW n \in Nat
    PROVE  ParallelRows(js, rows, n) = [k \in 1..n |-> Shows(rows, ClosedBy(js, k - 1))]
  <1> DEFINE w == [k \in 0..n |-> Stand(js, rows, Len(js), PassedAfter(js, k))]
  <1>1. InParallel(js, rows, n, w)
    <2>1. ASSUME NEW k \in 0..n
          PROVE  w[k] = IF k = 0 THEN FeedTo(EmptyCursor, js, rows, Len(js))
                        ELSE Advance(w[k - 1], k - 1)
      <3>1. CASE k = 0
        BY <3>1, ParallelStep
      <3>2. CASE k # 0
        <4>1. k \in Nat \ {0} /\ k - 1 \in 0..n
          BY <3>2
        <4>2. w[k - 1] = Stand(js, rows, Len(js), PassedAfter(js, k - 1))
          BY <4>1
        <4>3. w[k] = Stand(js, rows, Len(js), PassedAfter(js, k))
          OBVIOUS
        <4> HIDE DEF w
        <4> QED  BY <3>2, <4>1, <4>2, <4>3, ParallelStep
      <3> QED  BY <3>1, <3>2
    <2>2. w = [k \in 0..n |-> w[k]]
      OBVIOUS
    <2> HIDE DEF w
    <2> QED  BY <2>1, <2>2 DEF InParallel
  <1> HIDE DEF w
  <1>2. PICK f : /\ InParallel(js, rows, n, f)
                 /\ ParallelRows(js, rows, n) = [k \in 1..n |-> VisibleRow(f[k])]
    BY <1>1 DEF ParallelRows, InParallel
  <1>3. \A k \in 0..n : f[k] = Stand(js, rows, Len(js), PassedAfter(js, k))
    <2> DEFINE T == {k \in Nat : k <= n => f[k] = Stand(js, rows, Len(js), PassedAfter(js, k))}
    <2>1. 0 \in T
      <3>1. f[0] = FeedTo(EmptyCursor, js, rows, Len(js))
        BY <1>2 DEF InParallel
      <3> QED  BY <3>1, ParallelStep
    <2>2. ASSUME NEW m \in Nat, m \in T
          PROVE  m + 1 \in T
      <3> DEFINE k == m + 1
      <3> SUFFICES ASSUME k <= n
                   PROVE  f[k] = Stand(js, rows, Len(js), PassedAfter(js, k))
        OBVIOUS
      <3>1. f[m] = Stand(js, rows, Len(js), PassedAfter(js, m))
        BY <2>2
      <3>2. k \in 0..n /\ k # 0 /\ k - 1 = m /\ k \in Nat \ {0}
        OBVIOUS
      <3> HIDE DEF k
      <3>3. f[k] = Advance(f[k - 1], k - 1)
        BY <1>2, <3>2 DEF InParallel
      <3> QED  BY <3>1, <3>2, <3>3, ParallelStep
    <2> HIDE DEF T
    <2>3. \A m \in Nat : m \in T
      BY <2>1, <2>2, SetInduction
    <2> QED  BY <2>3 DEF T
  <1>4. ASSUME NEW k \in 1..n
        PROVE  VisibleRow(f[k]) = Shows(rows, ClosedBy(js, k - 1))
    <2>1. k \in Nat /\ k # 0 /\ k \in 0..n /\ Len(js) \in Nat
      BY DEF Ordered
    <2>2. PassedAfter(js, k) = ClosedBy(js, k - 1) /\ ClosedBy(js, k - 1) \in 0..Len(js)
      BY <2>1, PassedFacts
    <2> QED  BY <1>3, <2>1, <2>2, StandShows
  <1> QED  BY <1>2, <1>4

(* The rows shown in sequence: the same. *)
LEMMA SequenceShows ==
    ASSUME NEW js, NEW rows, Ordered(js), NEW n \in Nat
    PROVE  SequentialRows(js, rows, n) = [k \in 1..n |-> Shows(rows, ClosedBy(js, k - 1))]
  <1> DEFINE w == [k \in 0..n |-> Stand(js, rows, FedAfter(js, k), PassedAfter(js, k))]
  <1>1. InSequence(js, rows, n, w)
    <2>1. ASSUME NEW k \in 0..n
          PROVE  w[k] = IF k = 0 THEN EmptyCursor
                        ELSE Advance(FeedTo(w[k - 1], js, rows, OpenedBy(js, k - 1)), k - 1)
      <3>1. CASE k = 0
        BY <3>1, SequenceStep
      <3>2. CASE k # 0
        <4>1. k \in Nat \ {0} /\ k - 1 \in 0..n
          BY <3>2
        <4>2. w[k - 1] = Stand(js, rows, FedAfter(js, k - 1), PassedAfter(js, k - 1))
          BY <4>1
        <4>3. w[k] = Stand(js, rows, FedAfter(js, k), PassedAfter(js, k))
          OBVIOUS
        <4> HIDE DEF w
        <4> QED  BY <3>2, <4>1, <4>2, <4>3, SequenceStep
      <3> QED  BY <3>1, <3>2
    <2>2. w = [k \in 0..n |-> w[k]]
      OBVIOUS
    <2> HIDE DEF w
    <2> QED  BY <2>1, <2>2 DEF InSequence
  <1> HIDE DEF w
  <1>2. PICK f : /\ InSequence(js, rows, n, f)
                 /\ SequentialRows(js, rows, n) = [k \in 1..n |-> VisibleRow(f[k])]
    BY <1>1 DEF SequentialRows, InSequence
  <1>3. \A k \in 0..n : f[k] = Stand(js, rows, FedAfter(js, k), PassedAfter(js, k))
    <2> DEFINE T == {k \in Nat : k <= n => f[k] = Stand(js, rows, FedAfter(js, k), PassedAfter(js, k))}
    <2>1. 0 \in T
      <3>1. f[0] = EmptyCursor
        BY <1>2 DEF InSequence
      <3> QED  BY <3>1, SequenceStep
    <2>2. ASSUME NEW m \in Nat, m \in T
          PROVE  m + 1 \in T
      <3> DEFINE k == m + 1
      <3> SUFFICES ASSUME k <= n
                   PROVE  f[k] = Stand(js, rows, FedAfter(js, k), PassedAfter(js, k))
        OBVIOUS
      <3>1. f[m] = Stand(js, rows, FedAfter(js, m), PassedAfter(js, m))
        BY <2>2
      <3>2. k \in 0..n /\ k # 0 /\ k - 1 = m /\ k \in Nat \ {0}
        OBVIOUS
      <3> HIDE DEF k
      <3>3. f[k] = Advance(FeedTo(f[k - 1], js, rows, OpenedBy(js, k - 1)), k - 1)
        BY <1>2, <3>2 DEF InSequence
      <3> QED  BY <3>1, <3>2, <3>3, SequenceStep
    <2> HIDE DEF T
    <2>3. \A m \in Nat : m \in T
      BY <2>1, <2>2, SetInduction
    <2> QED  BY <2>3 DEF T
  <1>4. ASSUME NEW k \in 1..n
        PROVE  VisibleRow(f[k]) = Shows(rows, ClosedBy(js, k - 1))
    <2>1. k \in Nat /\ k # 0 /\ k \in 0..n
      OBVIOUS
    <2>2. /\ PassedAfter(js, k) = ClosedBy(js, k - 1) /\ ClosedBy(js, k - 1) \in 0..Len(js)
          /\ FedAfter(js, k) = OpenedBy(js, k - 1) /\ OpenedBy(js, k - 1) \in 0..Len(js)
          /\ ClosedBy(js, k - 1) <= OpenedBy(js, k - 1) /\ Len(js) \in Nat
      BY <2>1, PassedFacts DEF Ordered
    <2>3. FedAfter(js, k) \in Nat /\ PassedAfter(js, k) \in 0..FedAfter(js, k)
      BY <2>2
    <2> QED  BY <1>3, <2>1, <2>2, <2>3, StandShows
  <1> QED  BY <1>2, <1>4

(* The greatest of a set of numbers with a bound. *)
LEMMA MaxIs ==
    ASSUME NEW U, U \subseteq Int, NEW m \in U, \A x \in U : x <= m
    PROVE  Max(U) = m
  <1>1. Max(U) \in U /\ \A x \in U : x <= Max(U)
    BY MaxOf
  <1>2. Max(U) <= m /\ m <= Max(U) /\ Max(U) \in Int
    BY <1>1
  <1> QED  BY <1>2

(* A merge of whole frames shows the same rows, if no row without a value  *)
(* follows one with a value.                                               *)
LEMMA MergeShows ==
    ASSUME NEW js, NEW rows, Ordered(js), NEW n \in Nat,
           \A i, k \in DOMAIN js : i < k /\ Missing(rows[k]) => Missing(rows[i])
    PROVE  \A t \in 1..n :
              MergeTimeframes(js, rows, n)[t]
                = LET p == ClosedBy(js, t - 1)
                  IN  IF p = 0 \/ Missing(rows[p]) THEN <<>> ELSE <<rows[p]>>
  <1> DEFINE unique == {i \in DOMAIN js : \A k \in DOMAIN js : js[k] = js[i] => k <= i}
             Known(t) == {i \in unique : /\ ~Missing(rows[i])
                                         /\ InfoOpen(js[i]) + InfoSpan <= t - 1}
  <1> TAKE t \in 1..n
  <1> DEFINE p == ClosedBy(js, t - 1)
  <1>1. MergeTimeframes(js, rows, n)[t]
          = IF Known(t) = {} THEN <<>> ELSE <<rows[Max(Known(t))]>>
    BY DEF MergeTimeframes
  <1>2. /\ Len(js) \in Nat /\ DOMAIN js = 1..Len(js)
        /\ \A i, k \in 1..Len(js) : js[i] = js[k] => InfoOpen(js[i]) = InfoOpen(js[k])
    BY DEF Ordered
  <1>3. /\ p \in 0..Len(js)
        /\ \A i \in 1..Len(js) : i <= p <=> InfoOpen(js[i]) + InfoSpan <= t - 1
    <2>1. t - 1 \in Int
      OBVIOUS
    <2> QED  BY <2>1, ClosedFacts
  <1> HIDE DEF p
  <1>4. \A i \in Known(t) : i \in 1..Len(js) /\ i <= p /\ ~Missing(rows[i])
    BY <1>2, <1>3
  <1>5. CASE p = 0 \/ Missing(rows[p])
    <2>1. Known(t) = {}
      <3> SUFFICES ASSUME NEW i \in Known(t)
                   PROVE  FALSE
        OBVIOUS
      <3>1. i \in 1..Len(js) /\ i <= p /\ ~Missing(rows[i])
        BY <1>4
      <3>2. p \in 1..Len(js) /\ Missing(rows[p])
        BY <1>3, <1>5, <3>1
      <3>3. i # p
        BY <3>1, <3>2
      <3>4. i < p
        BY <1>2, <3>1, <3>2, <3>3
      <3> HIDE DEF Known
      <3> QED  BY <1>2, <3>1, <3>2, <3>4
    <2> QED  BY <1>1, <1>5, <2>1 DEF p
  <1>6. CASE ~(p = 0 \/ Missing(rows[p]))
    <2>1. p \in 1..Len(js) /\ p <= p
      BY <1>2, <1>3, <1>6
    <2>2. p \in unique
      <3> SUFFICES ASSUME NEW k \in DOMAIN js, js[k] = js[p]
                   PROVE  k <= p
        BY <1>2, <2>1
      <3>1. InfoOpen(js[k]) + InfoSpan <= t - 1
        BY <1>2, <1>3, <2>1
      <3> QED  BY <1>2, <1>3, <3>1
    <2>3. p \in Known(t)
      BY <1>3, <1>6, <2>1, <2>2
    <2>4. Known(t) \subseteq Int /\ \A x \in Known(t) : x <= p
      BY <1>2, <1>4
    <2> HIDE DEF Known, unique
    <2>5. Max(Known(t)) = p
      BY <2>3, <2>4, MaxIs
    <2>6. Known(t) # {}
      BY <2>3
    <2> QED  BY <1>1, <1>6, <2>5, <2>6 DEF p
  <1> QED  BY <1>5, <1>6

(* An engine without a resolver is the same where no window depends on it. *)
LEMMA ThreadEngine ==
    ASSUME ResolverIndependent
    PROVE  Info!EngineWith(0) = Info!EngineInit
  <1> DEFINE bars == InfoBarsPerSession
             Windows(b) == {Info!ResolveWindow(x, b) : x \in Info!BatchedNames}
  <1>1. \A x \in Info!Requested : Info!ResolveWindow(x, 0) = Info!ResolveWindow(x, bars)
    BY DEF ResolverIndependent
  <1>2. Windows(0) = Windows(bars)
    <2>1. Info!BatchedNames \subseteq Info!Requested
      BY DEF Info!BatchedNames, Info!TrulyWindowed, Info!WindowedNames
    <2> QED  BY <1>1, <2>1
  <1>3. ASSUME NEW f \in Info!Families
        PROVE  Info!BuildState(f, 0) = Info!BuildState(f, bars)
    <2>1. PICK x \in Info!Requested : f = Info!CanonicalFamily(x)
      BY DEF Info!Families
    <2>2. f = x \/ f.base \in {"macd", "bb"}
      BY <2>1 DEF Info!CanonicalFamily
    <2>3. CASE f = x
      <3>1. Info!ResolveWindow(f, 0) = Info!ResolveWindow(f, bars)
        BY <1>1, <2>3
      <3> QED  BY <3>1 DEF Info!BuildState
    <2>4. CASE f.base = "macd"
      BY <2>4 DEF Info!BuildState
    <2>5. CASE f.base = "bb"
      BY <2>5 DEF Info!BuildState
    <2> QED  BY <2>2, <2>3, <2>4, <2>5
  <1>4. [f \in Info!Families |-> Info!BuildState(f, 0)]
           = [f \in Info!Families |-> Info!BuildState(f, bars)]
    BY <1>3
  <1> QED  BY <1>2, <1>4 DEF Info!EngineWith, Info!EngineInit

(* So the three forms agree on every series that opens in order. *)
LEMMA OrderedAgree ==
    ASSUME NEW js, Ordered(js), NEW n \in Nat
    PROVE  FormsAgree(js, InfoRows(js), ThreadRows(js), n)
  <1> DEFINE rows == InfoRows(js)
             order == [i \in DOMAIN js |-> i]
             seq == SequentialRows(js, rows, n)
             Shown2 == [k \in DOMAIN seq |->
                         IF seq[k] # <<>> /\ Missing(seq[k][1]) THEN <<>> ELSE seq[k]]
  <1>1. seq = [k \in 1..n |-> Shows(rows, ClosedBy(js, k - 1))]
    BY SequenceShows
  <1>3. ParallelRows(js, order, n) = SequentialRows(js, order, n)
    BY ParallelShows, SequenceShows
  <1>4. ASSUME ResolverIndependent
        PROVE  ParallelRows(js, ThreadRows(js), n) = seq
    <2>1. ThreadRows(js) = rows
      BY <1>4, ThreadEngine DEF ThreadRows, InfoRows
    <2> HIDE DEF rows
    <2>2. ParallelRows(js, rows, n) = seq
      BY ParallelShows, SequenceShows
    <2> QED  BY <2>1, <2>2
  <1>2. ASSUME \A i, k \in DOMAIN js : i < k /\ Missing(rows[k]) => Missing(rows[i])
        PROVE  Shown2 = MergeTimeframes(js, rows, n)
    <2> DEFINE M == MergeTimeframes(js, rows, n)
    <2>1. M = [k \in 1..n |-> M[k]]
      BY DEF MergeTimeframes
    <2>2. \A k \in 1..n : M[k] = LET p == ClosedBy(js, k - 1)
                               IN  IF p = 0 \/ Missing(rows[p]) THEN <<>> ELSE <<rows[p]>>
      BY <1>2, MergeShows
    <2> HIDE DEF M, seq
    <2>3. DOMAIN seq = 1..n /\ \A k \in 1..n : seq[k] = Shows(rows, ClosedBy(js, k - 1))
      BY <1>1
    <2>4. ASSUME NEW k \in 1..n
          PROVE  (IF seq[k] # <<>> /\ Missing(seq[k][1]) THEN <<>> ELSE seq[k]) = M[k]
      <3> DEFINE p == ClosedBy(js, k - 1)
      <3>1. seq[k] = IF p = 0 THEN <<>> ELSE <<rows[p]>>
        BY <2>3 DEF Shows
      <3>2. M[k] = IF p = 0 \/ Missing(rows[p]) THEN <<>> ELSE <<rows[p]>>
        BY <2>2
      <3>3. <<rows[p]>> # <<>> /\ <<rows[p]>>[1] = rows[p]
        OBVIOUS
      <3> HIDE DEF p
      <3> QED  BY <3>1, <3>2, <3>3
    <2> HIDE DEF Shows
    <2> QED  BY <2>1, <2>3, <2>4 DEF M
  <1> QED  BY <1>2, <1>3, <1>4 DEF FormsAgree

(* The rows taken were available in the order in which they were taken.    *)
InOrder ==
    \A p, q \in 1..Len(cursor.rows) :
        p <= q => cursor.availability[p] <= cursor.availability[q]

LEMMA OrderIsKept ==
    ASSUME CursorSound, InOrder, [Next]_vars
    PROVE  InOrder'
  <1>1. /\ DOMAIN cursor = {"availability", "rows", "position"}
        /\ cursor.availability \in Seq(Int) /\ IsSequence(cursor.rows)
        /\ Len(cursor.availability) = Len(cursor.rows)
        /\ cursor.position \in 0..Len(cursor.rows) /\ clock \in Nat
        /\ Len(cursor.rows) \in Nat
    BY DEF CursorSound, Typed, IsSequence
  <1>2. ASSUME NEW bar, UpdatePrimary(bar)
        PROVE  InOrder'
    <2>1. cursor' = Advance(cursor, clock)
      BY <1>2 DEF UpdatePrimary
    <2>2. cursor'.availability = cursor.availability /\ cursor'.rows = cursor.rows
      BY <1>1, <2>1, AdvancePasses
    <2> QED  BY <2>2 DEF InOrder
  <1>3. ASSUME NEW j \in DOMAIN InfoBars, UpdateInformative(j)
        PROVE  InOrder'
    <2>1. CASE ~Accepts(cursor, InfoOpen(j))
      <3>1. cursor' = cursor
        BY <1>3, <2>1 DEF UpdateInformative
      <3> QED  BY <3>1 DEF InOrder
    <2>2. CASE Accepts(cursor, InfoOpen(j))
      <3> DEFINE m == Len(cursor.rows) + 1
      <3>1. cursor' = CursorAppend(cursor, InfoOpen(j), InfoRow(info'))
        BY <1>3, <2>2 DEF UpdateInformative
      <3>2. /\ Len(cursor'.rows) = m /\ cursor'.availability \in Seq(Int)
            /\ Len(cursor'.availability) = m
            /\ cursor'.availability[m] = InfoOpen(j) + InfoSpan
            /\ \A p \in 1..Len(cursor.rows) : cursor'.availability[p] = cursor.availability[p]
        BY <1>1, <3>1, AppendRow
      <3>3. \A p \in 1..Len(cursor.rows) : cursor.availability[p] <= InfoOpen(j) + InfoSpan
        <4>1. CASE cursor.availability = <<>>
          BY <1>1, <4>1
        <4>2. CASE cursor.availability # <<>>
          <5>1. Len(cursor.rows) \in 1..Len(cursor.rows)
            BY <1>1, <4>2
          <5>2. InfoOpen(j) + InfoSpan >= cursor.availability[Len(cursor.rows)]
            BY <1>1, <2>2, <4>2 DEF Accepts, Last
          <5>3. \A p \in 1..m : cursor'.availability[p] \in Int
            BY <1>1, <3>2
          <5>4. /\ InfoOpen(j) + InfoSpan \in Int
                /\ \A p \in 1..Len(cursor.rows) : cursor.availability[p] \in Int
            <6>1. m \in 1..m
              BY <1>1
            <6> QED  BY <1>1, <3>2, <5>3, <6>1
          <5>5. \A p \in 1..Len(cursor.rows) :
                   cursor.availability[p] <= cursor.availability[Len(cursor.rows)]
            BY <1>1, <5>1 DEF InOrder
          <5> QED  BY <5>1, <5>2, <5>4, <5>5
        <4> QED  BY <4>1, <4>2
      <3>4. ASSUME NEW p \in 1..m, NEW q \in 1..m, p <= q
            PROVE  cursor'.availability[p] <= cursor'.availability[q]
        <4>1. CASE q = m
          <5>1. CASE p = m
            <6>1. cursor'.availability[m] \in Int
              BY <1>1, <3>2
            <6> QED  BY <4>1, <5>1, <6>1
          <5>2. CASE p # m
            <6>1. p \in 1..Len(cursor.rows)
              BY <1>1, <5>2
            <6> QED  BY <3>2, <3>3, <4>1, <6>1
          <5> QED  BY <5>1, <5>2
        <4>2. CASE q # m
          <5>1. q \in 1..Len(cursor.rows) /\ p \in 1..Len(cursor.rows)
            BY <1>1, <3>4, <4>2
          <5> QED  BY <3>2, <3>4, <5>1 DEF InOrder
        <4> QED  BY <4>1, <4>2
      <3> QED  BY <3>2, <3>4 DEF InOrder
    <2> QED  BY <2>1, <2>2
  <1>4. CASE Reset
    BY <1>4 DEF Reset, InOrder, EmptyCursor
  <1>5. CASE UNCHANGED vars
    BY <1>5 DEF vars, InOrder
  <1> QED  BY <1>2, <1>3, <1>4, <1>5 DEF Next

LEMMA OrderStays == Spec => []InOrder
  <1>1. Init => InOrder
    BY DEF Init, InOrder, EmptyCursor
  <1> QED  BY <1>1, OrderIsKept, CursorStaysSound, PTL DEF Spec

(* causal_enrich_bars: of the deliveries the cursor took, the parallel and *)
(* the sequential form show the row of the same one to every primary bar,  *)
(* and the same values where no window depends on the resolver, which the  *)
(* engines of the parallel threads lack; the batch merge of the rows       *)
(* agrees (EnrichmentAgrees).                                              *)
THEOREM FormsOfEnrichmentAgree == Spec => []EnrichmentAgrees
  <1>1. ASSUME CursorSound, InOrder
        PROVE  EnrichmentAgrees
    <2> DEFINE Of(k) == CHOOSE i \in Taken(fed) : Rank(fed, i) = k
               js == [k \in 1..Cardinality(Taken(fed)) |-> fed[Of(k)][1]]
    <2>1. /\ Cardinality(Taken(fed)) = Len(cursor.rows) /\ Len(cursor.rows) \in Nat
          /\ clock \in Nat /\ cursor.availability \in Seq(Int)
          /\ Len(cursor.availability) = Len(cursor.rows) /\ InfoSpan \in Nat
      BY <1>1, EnrichmentConstants DEF CursorSound, Typed, RowsKept, IsSequence
    <2>2. ASSUME NEW k \in 1..Len(cursor.rows)
          PROVE  Of(k) \in Taken(fed) /\ Rank(fed, Of(k)) = k
      BY <1>1 DEF CursorSound, RowsKept
    <2>3. Len(js) = Len(cursor.rows) /\ DOMAIN js = 1..Len(cursor.rows)
      BY <2>1
    <2>4. ASSUME NEW k \in 1..Len(cursor.rows)
          PROVE  /\ InfoOpen(js[k]) + InfoSpan = cursor.availability[k]
                 /\ InfoOpen(js[k]) \in Int
      <3>1. js[k] = fed[Of(k)][1]
        BY <2>1
      <3>2. Of(k) \in Taken(fed) /\ Rank(fed, Of(k)) = k
        BY <2>2
      <3> HIDE DEF Of, js
      <3>3. InfoOpen(js[k]) + InfoSpan = cursor.availability[k]
        BY <1>1, <3>1, <3>2 DEF CursorSound, RowsKept
      <3>4. js[k] \in DOMAIN InfoBars
        BY <1>1, <3>1, <3>2 DEF CursorSound, Typed, Deliveries, Taken
      <3>5. InfoOpen(js[k]) \in Int
        BY <3>4, EnrichmentConstants DEF InfoOpen
      <3> QED  BY <3>3, <3>5
    <2>5. EnrichmentAgrees
            = FormsAgree(js, InfoRows(js), ThreadRows(js), clock)
      BY DEF EnrichmentAgrees, AcceptedBars, RowsAccepted, Taken, Rank
    <2> HIDE DEF js, Of
    <2>6. Ordered(js)
      <3>1. \A i \in 1..Len(cursor.rows) : cursor.availability[i] \in Int
        BY <2>1
      <3>2. ASSUME NEW i \in 1..Len(cursor.rows), NEW k \in 1..Len(cursor.rows), i <= k
            PROVE  InfoOpen(js[i]) <= InfoOpen(js[k])
        <4>1. cursor.availability[i] <= cursor.availability[k]
          BY <1>1, <3>2 DEF InOrder
        <4> QED  BY <2>1, <2>4, <4>1
      <3> QED  BY <2>1, <2>3, <2>4, <3>2 DEF Ordered
    <2> QED  BY <2>1, <2>5, <2>6, OrderedAgree
  <1> QED  BY <1>1, CursorStaysSound, OrderStays, PTL

-----------------------------------------------------------------------------
(* Signals. *)

(* Two frames that show the same rows up to the i-th. *)
AgreeTo(S, a, b, i) ==
    /\ a \in Seq(S) /\ b \in Seq(S)
    /\ i \in 1..Len(a) /\ i \in 1..Len(b)
    /\ \A j \in 1..i : a[j] = b[j]

LEMMA AgreeFacts ==
    ASSUME NEW S, NEW a, NEW b, NEW i, AgreeTo(S, a, b, i)
    PROVE  /\ Len(a) \in Nat /\ Len(b) \in Nat
           /\ i \in Nat /\ 1 <= i /\ i <= Len(a) /\ i <= Len(b)
           /\ \A j \in Int : 1 <= j /\ j <= i => a[j] = b[j]
           /\ \A j \in 1..i : AgreeTo(S, a, b, j)
  BY DEF AgreeTo

LEMMA SameParts ==
    ASSUME NEW S, NEW a, NEW b, NEW i, AgreeTo(S, a, b, i),
           NEW lo \in Int, NEW hi \in Int, 1 <= lo, lo - 1 <= hi, hi <= i
    PROVE  SubSeq(a, lo, hi) = SubSeq(b, lo, hi)
  <1>1. /\ Len(a) \in Nat /\ Len(b) \in Nat /\ i \in Nat /\ i <= Len(a) /\ i <= Len(b)
        /\ \A j \in 1..i : a[j] = b[j]
        /\ \A j \in 1..Len(a) : a[j] \in S
        /\ \A j \in 1..Len(b) : b[j] \in S
    BY DEF AgreeTo
  <1>2. /\ \A j \in lo..hi : a[j] \in S
        /\ \A j \in lo..hi : b[j] \in S
    BY <1>1
  <1>3. /\ SubSeq(a, lo, hi) \in Seq(S) /\ SubSeq(b, lo, hi) \in Seq(S)
        /\ Len(SubSeq(a, lo, hi)) = hi - lo + 1 /\ Len(SubSeq(b, lo, hi)) = hi - lo + 1
        /\ \A j \in 1..(hi - lo + 1) : SubSeq(a, lo, hi)[j] = a[lo + j - 1]
        /\ \A j \in 1..(hi - lo + 1) : SubSeq(b, lo, hi)[j] = b[lo + j - 1]
    BY <1>2, SubSeqProperties
  <1>4. \A j \in 1..(hi - lo + 1) : SubSeq(a, lo, hi)[j] = SubSeq(b, lo, hi)[j]
    BY <1>1, <1>3
  <1> QED  BY <1>3, <1>4, SeqEqual

LEMMA LastTwoIn ==
    ASSUME NEW lo \in Int, NEW hi \in Int, NEW T \in SUBSET (lo..hi), Cardinality(T) >= 2
    PROVE  LastTwo(T)[1] \in T /\ LastTwo(T)[2] \in T /\ LastTwo(T)[1] < LastTwo(T)[2]
  <1>1. IsFiniteSet(T)
    BY FS_Interval, FS_Subset
  <1>2. T # {} /\ T \subseteq Int /\ \A x \in T : x <= hi
    BY FS_EmptySet
  <1>3. Max(T) \in T /\ \A x \in T : x <= Max(T)
    BY <1>2, MaxOf
  <1> DEFINE U == T \ {Max(T)}
  <1>4. U # {}
    <2>1. Cardinality(U) = Cardinality(T) - 1
      BY <1>1, <1>3, FS_RemoveElement
    <2>2. Cardinality(T) \in Nat
      BY <1>1, FS_CardinalityType
    <2> QED  BY <2>1, <2>2, FS_EmptySet
  <1>5. Max(U) \in U
    BY <1>2, <1>4, MaxOf
  <1>6. Max(U) < Max(T)
    <2>1. Max(U) \in T /\ Max(U) # Max(T)
      BY <1>5
    <2>2. Max(U) \in Int /\ Max(T) \in Int /\ Max(U) <= Max(T)
      BY <1>2, <1>3, <2>1
    <2> HIDE DEF U
    <2> QED  BY <2>1, <2>2
  <1> QED  BY <1>3, <1>5, <1>6 DEF LastTwo

LEMMA SameWindows ==
    ASSUME NEW S, NEW a, NEW b, NEW i, AgreeTo(S, a, b, i), NEW w \in Nat \ {0}
    PROVE  /\ i >= w => Window(a, i, w) = Window(b, i, w)
           /\ i > w => Prior(a, i, w) = Prior(b, i, w)
  <1>1. i \in Nat
    BY AgreeFacts
  <1>2. ASSUME i >= w
        PROVE  SubSeq(a, i - w + 1, i) = SubSeq(b, i - w + 1, i)
    BY <1>1, <1>2, SameParts
  <1>3. ASSUME i > w
        PROVE  SubSeq(a, i - w, i - 1) = SubSeq(b, i - w, i - 1)
    BY <1>1, <1>3, SameParts
  <1> QED  BY <1>2, <1>3 DEF Window, Prior

LEMMA SameAverages ==
    ASSUME NEW S, NEW a, NEW b, NEW i, AgreeTo(S, a, b, i), NEW w \in Nat \ {0}
    PROVE  /\ \A k : VolumeAbove(a, i, w, k) = VolumeAbove(b, i, w, k)
           /\ \A k : VolumeBelow(a, i, w, k) = VolumeBelow(b, i, w, k)
           /\ \A k : RangeAbove(a, i, w, k) = RangeAbove(b, i, w, k)
           /\ \A k : RangeBelow(a, i, w, k) = RangeBelow(b, i, w, k)
  <1>1. i \in Nat /\ a[i] = b[i]
    BY AgreeFacts
  <1>2. i >= w => Window(a, i, w) = Window(b, i, w)
    BY SameWindows
  <1>3. CASE i >= w
    BY <1>1, <1>2, <1>3 DEF VolumeAbove, VolumeBelow, RangeAbove, RangeBelow
  <1>4. CASE ~(i >= w)
    BY <1>4 DEF VolumeAbove, VolumeBelow, RangeAbove, RangeBelow
  <1> QED  BY <1>3, <1>4

LEMMA SamePivots ==
    ASSUME NEW S, NEW a, NEW b, NEW i, AgreeTo(S, a, b, i), NEW w \in Nat \ {0},
           NEW p \in Int, p <= i - w
    PROVE  /\ HighPivot(a, p, w) = HighPivot(b, p, w)
           /\ LowPivot(a, p, w) = LowPivot(b, p, w)
  <1>1. /\ Len(a) \in Nat /\ Len(b) \in Nat
        /\ i \in Nat /\ 1 <= i /\ i <= Len(a) /\ i <= Len(b)
        /\ \A j \in Int : 1 <= j /\ j <= i => a[j] = b[j]
    BY AgreeFacts
  <1>2. p <= Len(a) - w /\ p <= Len(b) - w
    BY <1>1
  <1>3. CASE p > w
    <2>1. ASSUME NEW j \in (p - w)..(p + w)
          PROVE  a[j] = b[j]
      <3>1. j \in Int /\ 1 <= j /\ j <= i
        BY <1>1, <1>3
      <3> QED  BY <1>1, <3>1
    <2>2. a[p] = b[p]
      <3>1. p \in (p - w)..(p + w)
        OBVIOUS
      <3> QED  BY <2>1, <3>1
    <2> QED  BY <1>2, <2>1, <2>2 DEF HighPivot, LowPivot
  <1>4. CASE ~(p > w)
    BY <1>4 DEF HighPivot, LowPivot
  <1> QED  BY <1>3, <1>4

LEMMA SameSwings ==
    ASSUME NEW S, NEW a, NEW b, NEW i, AgreeTo(S, a, b, i), NEW w \in Nat \ {0},
           NEW j \in Int, j <= i
    PROVE  /\ SwingHighN(a, j, w) = SwingHighN(b, j, w)
           /\ SwingLowN(a, j, w) = SwingLowN(b, j, w)
  <1>1. j - w \in Int /\ i \in Nat /\ j - w <= i - w
    BY AgreeFacts
  <1> QED  BY <1>1, SamePivots DEF SwingHighN, SwingLowN

LEMMA SameStructure ==
    ASSUME NEW S, NEW a, NEW b, NEW i, AgreeTo(S, a, b, i)
    PROVE  /\ HhHlPattern(a, i) = HhHlPattern(b, i)
           /\ LhLlPattern(a, i) = LhLlPattern(b, i)
           /\ VolumeTrendConfirmation(a, i) = VolumeTrendConfirmation(b, i)
           /\ TrendPhase(a, i) = TrendPhase(b, i)
  <1>1. /\ i \in Nat /\ 1 <= i
        /\ \A j \in Int : 1 <= j /\ j <= i => a[j] = b[j]
        /\ Long \in Nat \ {0} /\ Swing \in Nat \ {0}
    BY AgreeFacts, PriceActionConstants
  <1>2. CASE i <= Long
    BY <1>1, <1>2 DEF HhHlPattern, LhLlPattern, VolumeTrendConfirmation, TrendPhase
  <1>3. CASE i > Long
    <2> DEFINE highs(f) == {j \in (i - Long)..i : SwingHighN(f, j, Swing)}
               lows(f) == {j \in (i - Long)..i : SwingLowN(f, j, Swing)}
    <2>1. \A j \in (i - Long)..i : /\ SwingHighN(a, j, Swing) = SwingHighN(b, j, Swing)
                                   /\ SwingLowN(a, j, Swing) = SwingLowN(b, j, Swing)
      BY <1>1, SameSwings
    <2>2. highs(a) = highs(b) /\ lows(a) = lows(b)
      BY <2>1
    <2>3. \A j \in (i - Long + 1)..i : Diff(a, j) = Diff(b, j) /\ a[j - 1] = b[j - 1]
      BY <1>1, <1>3 DEF Diff
    <2>4. /\ \A k : VolumeAbove(a, i, Long, k) = VolumeAbove(b, i, Long, k)
          /\ \A k : VolumeBelow(a, i, Long, k) = VolumeBelow(b, i, Long, k)
          /\ Window(a, i, Long) = Window(b, i, Long)
          /\ a[i] = b[i]
      BY <1>1, <1>3, SameAverages, SameWindows
    <2>5. HhHlPattern(a, i) = HhHlPattern(b, i) /\ LhLlPattern(a, i) = LhLlPattern(b, i)
      <3>1. /\ \A p \in highs(a) : a[p] = b[p]
            /\ \A p \in lows(a) : a[p] = b[p]
        BY <1>1, <1>3
      <3>2. /\ Cardinality(highs(a)) >= 2 => LastTwo(highs(a))[1] \in highs(a) /\ LastTwo(highs(a))[2] \in highs(a)
            /\ Cardinality(lows(a)) >= 2 => LastTwo(lows(a))[1] \in lows(a) /\ LastTwo(lows(a))[2] \in lows(a)
        <4>1. highs(a) \in SUBSET ((i - Long)..i) /\ lows(a) \in SUBSET ((i - Long)..i)
          OBVIOUS
        <4>2. i - Long \in Int /\ i \in Int
          BY <1>1
        <4> HIDE DEF highs, lows
        <4> QED  BY <4>1, <4>2, LastTwoIn
      <3> DEFINE Rising(f, H, L) ==
                    /\ i > Long /\ Cardinality(H) >= 2 /\ Cardinality(L) >= 2
                    /\ f[LastTwo(H)[2]].high > f[LastTwo(H)[1]].high
                    /\ f[LastTwo(L)[2]].low > f[LastTwo(L)[1]].low
                 Falling(f, H, L) ==
                    /\ i > Long /\ Cardinality(H) >= 2 /\ Cardinality(L) >= 2
                    /\ f[LastTwo(H)[2]].high < f[LastTwo(H)[1]].high
                    /\ f[LastTwo(L)[2]].low < f[LastTwo(L)[1]].low
      <3>3. /\ HhHlPattern(a, i) = Rising(a, highs(a), lows(a))
            /\ HhHlPattern(b, i) = Rising(b, highs(b), lows(b))
            /\ LhLlPattern(a, i) = Falling(a, highs(a), lows(a))
            /\ LhLlPattern(b, i) = Falling(b, highs(b), lows(b))
        BY DEF HhHlPattern, LhLlPattern
      <3> HIDE DEF highs, lows
      <3>4. /\ Rising(a, highs(a), lows(a)) = Rising(b, highs(a), lows(a))
            /\ Falling(a, highs(a), lows(a)) = Falling(b, highs(a), lows(a))
        BY <3>1, <3>2
      <3> QED  BY <2>2, <3>3, <3>4
    <2>6. VolumeTrendConfirmation(a, i) = VolumeTrendConfirmation(b, i)
      <3> DEFINE Moves(f, sign) == {j \in (i - Long + 1)..i : Sign(Diff(f, j)) = sign}
      <3>1. \A sign : Moves(a, sign) = Moves(b, sign)
        BY <2>3
      <3> QED  BY <2>4, <3>1 DEF VolumeTrendConfirmation
    <2>7. TrendPhase(a, i) = TrendPhase(b, i)
      <3> DEFINE Returns(f) == [k \in 1..Long |-> Rat(Diff(f, i - Long + k), f[(i - Long + k) - 1].close)]
      <3>1. Returns(a) = Returns(b)
        <4>1. ASSUME NEW k \in 1..Long
              PROVE  i - Long + k \in (i - Long + 1)..i
          BY <1>1
        <4> QED  BY <2>3, <4>1
      <3> DEFINE Phase(rows, returns, close, above10, above12, below) ==
                    LET mean == RMul(RSum(returns), Rat(1, Long))
                        closes == {rows[j].close : j \in DOMAIN rows}
                        Narrow(permille) ==
                            1000 * (Max(closes) - Min(closes)) < permille * close
                    IN  IF i <= Long \/ VolumeOf(rows) = 0 THEN "unknown"
                        ELSE IF RLess(Rat(1, 1000), mean) /\ above10 THEN "markup"
                        ELSE IF above12 /\ Narrow(20) /\ RLess(mean, Rat(1, 1000))
                        THEN "distribution"
                        ELSE IF below /\ Narrow(15) THEN "accumulation" ELSE "unknown"
                 PhaseOf(f) == Phase(Window(f, i, Long), Returns(f), f[i].close,
                                     VolumeAbove(f, i, Long, 10), VolumeAbove(f, i, Long, 12),
                                     VolumeBelow(f, i, Long, 7))
      <3>2. TrendPhase(a, i) = PhaseOf(a) /\ TrendPhase(b, i) = PhaseOf(b)
        BY DEF TrendPhase
      <3> HIDE DEF Phase, Returns
      <3>3. PhaseOf(a) = PhaseOf(b)
        BY <2>4, <3>1
      <3> QED  BY <3>2, <3>3
    <2> QED  BY <2>5, <2>6, <2>7
  <1> QED  BY <1>1, <1>2, <1>3
LEMMA SameZones ==
    ASSUME NEW S, NEW a, NEW b, NEW i, AgreeTo(S, a, b, i)
    PROVE  /\ DemandZoneLow(a, i) = DemandZoneLow(b, i)
           /\ DemandZoneHigh(a, i) = DemandZoneHigh(b, i)
           /\ SupplyZoneLow(a, i) = SupplyZoneLow(b, i)
           /\ SupplyZoneHigh(a, i) = SupplyZoneHigh(b, i)
           /\ DemandZoneScore(a, i) = DemandZoneScore(b, i)
           /\ SupplyZoneScore(a, i) = SupplyZoneScore(b, i)
           /\ ZoneFailureBullish(a, i) = ZoneFailureBullish(b, i)
           /\ ZoneFailureBearish(a, i) = ZoneFailureBearish(b, i)
  <1>1. /\ i \in Nat /\ 1 <= i
        /\ \A j \in Int : 1 <= j /\ j <= i => a[j] = b[j]
        /\ Short \in Nat \ {0} /\ Medium \in Nat \ {0} /\ Long \in Nat \ {0}
        /\ 2 * Short \in Nat \ {0}
    BY AgreeFacts, PriceActionConstants
  <1>2. /\ a[i] = b[i]
        /\ i > 1 => a[i - 1] = b[i - 1] /\ Diff(a, i) = Diff(b, i)
        /\ i > 2 => Diff(a, i - 1) = Diff(b, i - 1)
    BY <1>1 DEF Diff
  <1>3. /\ i > 2 * Short => Prior(a, i, 2 * Short) = Prior(b, i, 2 * Short)
        /\ i > Medium => Prior(a, i, Medium) = Prior(b, i, Medium)
        /\ \A k : VolumeAbove(a, i, Long, k) = VolumeAbove(b, i, Long, k)
        /\ \A k : RangeBelow(a, i, Long, k) = RangeBelow(b, i, Long, k)
    BY <1>1, SameWindows, SameAverages
  <1>4. InDemand(a, i) = InDemand(b, i) /\ InSupply(a, i) = InSupply(b, i)
    BY <1>2, <1>3 DEF InDemand, InSupply
  <1>5. /\ DemandZoneLow(a, i) = DemandZoneLow(b, i)
        /\ DemandZoneHigh(a, i) = DemandZoneHigh(b, i)
        /\ SupplyZoneLow(a, i) = SupplyZoneLow(b, i)
        /\ SupplyZoneHigh(a, i) = SupplyZoneHigh(b, i)
    <2>1. /\ InDemand(a, i) => i > 2 * Short
          /\ InSupply(a, i) => i > 2 * Short
      BY DEF InDemand, InSupply
    <2> QED  BY <1>3, <1>4, <2>1
                 DEF DemandZoneLow, DemandZoneHigh, SupplyZoneLow, SupplyZoneHigh
  <1>6. /\ DemandZoneScore(a, i) = DemandZoneScore(b, i)
        /\ SupplyZoneScore(a, i) = SupplyZoneScore(b, i)
    <2>1. CASE i <= 2 * Short
      BY <2>1 DEF DemandZoneScore, SupplyZoneScore
    <2>2. CASE i > 2 * Short
      <3>1. i > 2
        BY <1>1, <2>2
      <3>2. Diff(a, i) = Diff(b, i) /\ Diff(a, i - 1) = Diff(b, i - 1) /\ a[i - 1] = b[i - 1]
        BY <1>1, <1>2, <3>1
      <3> QED  BY <1>2, <1>3, <2>2, <3>1, <3>2 DEF DemandZoneScore, SupplyZoneScore
    <2> QED  BY <1>1, <2>1, <2>2
  <1>7. /\ ZoneFailureBullish(a, i) = ZoneFailureBullish(b, i)
        /\ ZoneFailureBearish(a, i) = ZoneFailureBearish(b, i)
    <2>1. i > 2 * Medium => i > Medium
      BY <1>1
    <2> QED  BY <1>2, <1>3, <2>1 DEF ZoneFailureBullish, ZoneFailureBearish
  <1> QED  BY <1>5, <1>6, <1>7

LEMMA SameMoves ==
    ASSUME NEW S, NEW a, NEW b, NEW i, AgreeTo(S, a, b, i),
           NEW w \in Nat \ {0}, i > w
    PROVE  MoveSum(a, i, w) = MoveSum(b, i, w)
  <1>1. /\ i \in Nat /\ \A j \in Int : 1 <= j /\ j <= i => a[j] = b[j]
    BY AgreeFacts
  <1>2. ASSUME NEW j \in 1..w
        PROVE  AbsInt(Diff(a, i - w + j)) = AbsInt(Diff(b, i - w + j))
    <2>1. /\ i - w + j \in Int /\ 1 <= i - w + j /\ i - w + j <= i
          /\ (i - w + j) - 1 \in Int /\ 1 <= (i - w + j) - 1 /\ (i - w + j) - 1 <= i
      BY <1>1
    <2> QED  BY <1>1, <2>1 DEF Diff
  <1> DEFINE Moves(f) == [j \in 1..w |-> AbsInt(Diff(f, i - w + j))]
  <1>3. Moves(a) = Moves(b)
    BY <1>2
  <1>4. MoveSum(a, i, w) = SumSeq(Moves(a)) /\ MoveSum(b, i, w) = SumSeq(Moves(b))
    BY DEF MoveSum
  <1> HIDE DEF Moves
  <1> QED  BY <1>3, <1>4

LEMMA SamePatterns ==
    ASSUME NEW S, NEW a, NEW b, NEW i, AgreeTo(S, a, b, i)
    PROVE  /\ BullishFvg(a, i) = BullishFvg(b, i)
           /\ BearishFvg(a, i) = BearishFvg(b, i)
           /\ BullishOrderBlock(a, i) = BullishOrderBlock(b, i)
           /\ BearishOrderBlock(a, i) = BearishOrderBlock(b, i)
           /\ BreakerBlockBullish(a, i) = BreakerBlockBullish(b, i)
           /\ BreakerBlockBearish(a, i) = BreakerBlockBearish(b, i)
           /\ LiquiditySweepHigh(a, i) = LiquiditySweepHigh(b, i)
           /\ LiquiditySweepLow(a, i) = LiquiditySweepLow(b, i)
           /\ PremiumDiscountZone(a, i) = PremiumDiscountZone(b, i)
  <1>1. /\ i \in Nat /\ 1 <= i
        /\ \A j \in Int : 1 <= j /\ j <= i => a[j] = b[j]
        /\ Short \in Nat \ {0} /\ Medium \in Nat \ {0}
        /\ Medium + 1 \in Nat \ {0}
    BY AgreeFacts, PriceActionConstants
  <1>2. /\ a[i] = b[i]
        /\ i > 1 => a[i - 1] = b[i - 1] /\ Diff(a, i) = Diff(b, i)
        /\ i > 2 => a[i - 2] = b[i - 2] /\ Diff(a, i - 1) = Diff(b, i - 1)
        /\ i > 3 => Diff(a, i - 2) = Diff(b, i - 2)
    BY <1>1 DEF Diff
  <1>3. /\ i > Short + 1 => i > 2 /\ i > Short
        /\ i > Short + 2 => i > 3 /\ i > Short
        /\ i > Medium + 2 => i > 3
    BY <1>1
  <1>4. BullishFvg(a, i) = BullishFvg(b, i) /\ BearishFvg(a, i) = BearishFvg(b, i)
    BY <1>1, <1>2 DEF BullishFvg, BearishFvg
  <1>5. /\ BullishOrderBlock(a, i) = BullishOrderBlock(b, i)
        /\ BearishOrderBlock(a, i) = BearishOrderBlock(b, i)
    <2>1. i > Short => MoveSum(a, i, Short) = MoveSum(b, i, Short)
      BY <1>1, SameMoves
    <2> QED  BY <1>1, <1>2, <1>3, <2>1 DEF BullishOrderBlock, BearishOrderBlock
  <1>6. /\ BreakerBlockBullish(a, i) = BreakerBlockBullish(b, i)
        /\ BreakerBlockBearish(a, i) = BreakerBlockBearish(b, i)
    BY <1>1, <1>2, <1>3 DEF BreakerBlockBullish, BreakerBlockBearish
  <1>7. /\ LiquiditySweepHigh(a, i) = LiquiditySweepHigh(b, i)
        /\ LiquiditySweepLow(a, i) = LiquiditySweepLow(b, i)
    <2>1. CASE i > Short + 2
      <3>1. SubSeq(a, i - Short, i - 2) = SubSeq(b, i - Short, i - 2)
        <4>1. i - Short \in Int /\ i - 2 \in Int /\ 1 <= i - Short /\ (i - Short) - 1 <= i - 2 /\ i - 2 <= i
          BY <1>1, <2>1
        <4>2. \A lo, hi \in Int : 1 <= lo /\ lo - 1 <= hi /\ hi <= i =>
                 SubSeq(a, lo, hi) = SubSeq(b, lo, hi)
          BY SameParts
        <4> QED  BY <4>1, <4>2
      <3>2. a[i] = b[i] /\ a[i - 1] = b[i - 1]
        BY <1>1, <1>2, <2>1
      <3> QED  BY <3>1, <3>2 DEF LiquiditySweepHigh, LiquiditySweepLow
    <2>2. CASE ~(i > Short + 2)
      BY <2>2 DEF LiquiditySweepHigh, LiquiditySweepLow
    <2> QED  BY <2>1, <2>2
  <1>8. PremiumDiscountZone(a, i) = PremiumDiscountZone(b, i)
    <2>1. CASE i <= Medium
      BY <2>1 DEF PremiumDiscountZone
    <2>2. CASE i > Medium
      <3>1. Window(a, i, Medium + 1) = Window(b, i, Medium + 1)
        BY <1>1, <2>2, SameWindows
      <3> QED  BY <1>2, <3>1 DEF PremiumDiscountZone
    <2> QED  BY <1>1, <2>1, <2>2
  <1> QED  BY <1>4, <1>5, <1>6, <1>7, <1>8

LEMMA SameVolumeSpread ==
    ASSUME NEW S, NEW a, NEW b, NEW i, AgreeTo(S, a, b, i)
    PROVE  /\ NoDemand(a, i) = NoDemand(b, i)
           /\ NoSupply(a, i) = NoSupply(b, i)
           /\ StoppingVolume(a, i) = StoppingVolume(b, i)
           /\ ClimaxVolume(a, i) = ClimaxVolume(b, i)
           /\ EffortToRise(a, i) = EffortToRise(b, i)
           /\ EffortToFall(a, i) = EffortToFall(b, i)
           /\ EffortResultDivergence(a, i) = EffortResultDivergence(b, i)
           /\ BagHolding(a, i) = BagHolding(b, i)
           /\ Shakeout(a, i) = Shakeout(b, i)
           /\ VsaTestSignal(a, i) = VsaTestSignal(b, i)
  <1>1. /\ i \in Nat /\ 1 <= i
        /\ \A j \in Int : 1 <= j /\ j <= i => a[j] = b[j]
        /\ Short \in Nat \ {0} /\ Medium \in Nat \ {0} /\ Long \in Nat \ {0}
    BY AgreeFacts, PriceActionConstants
  <1>2. /\ a[i] = b[i]
        /\ i > 1 => a[i - 1] = b[i - 1] /\ Diff(a, i) = Diff(b, i)
        /\ i > 2 => Diff(a, i - 1) = Diff(b, i - 1)
        /\ i > 3 => Diff(a, i - 2) = Diff(b, i - 2)
    BY <1>1 DEF Diff
  <1>3. /\ i > Short => i > 1
        /\ i > Long => i > 1 /\ i >= Long
        /\ i > Short + 2 => i > 3
        /\ i > Medium + 2 => i > 3
        /\ i > Long + Short => i > Long /\ i > Short
    BY <1>1
  <1>4. /\ \A k : VolumeAbove(a, i, Long, k) = VolumeAbove(b, i, Long, k)
        /\ \A k : VolumeBelow(a, i, Long, k) = VolumeBelow(b, i, Long, k)
        /\ \A k : RangeAbove(a, i, Long, k) = RangeAbove(b, i, Long, k)
        /\ \A k : RangeBelow(a, i, Long, k) = RangeBelow(b, i, Long, k)
        /\ i > Long => Prior(a, i, Long) = Prior(b, i, Long)
        /\ i > Short => Prior(a, i, Short) = Prior(b, i, Short)
        /\ i >= Long => Window(a, i, Long) = Window(b, i, Long)
    BY <1>1, SameWindows, SameAverages
  <1>5. i > 1 => \A k : VolumeAbove(a, i - 1, Long, k) = VolumeAbove(b, i - 1, Long, k)
    <2>1. i > 1 => AgreeTo(S, a, b, i - 1)
      BY <1>1, AgreeFacts
    <2> QED  BY <1>1, <2>1, SameAverages
  <1>6. NoDemand(a, i) = NoDemand(b, i) /\ NoSupply(a, i) = NoSupply(b, i)
    BY <1>2, <1>3, <1>4 DEF NoDemand, NoSupply
  <1>7. /\ StoppingVolume(a, i) = StoppingVolume(b, i)
        /\ ClimaxVolume(a, i) = ClimaxVolume(b, i)
    BY <1>2, <1>4 DEF StoppingVolume, ClimaxVolume
  <1>8. /\ EffortToRise(a, i) = EffortToRise(b, i)
        /\ EffortToFall(a, i) = EffortToFall(b, i)
    <2>1. Effort(a, i) = Effort(b, i) /\ (Effort(a, i) => i > Long)
      BY <1>2, <1>4 DEF Effort
    <2> QED  BY <1>2, <1>3, <2>1 DEF EffortToRise, EffortToFall
  <1>9. EffortResultDivergence(a, i) = EffortResultDivergence(b, i)
    <2>1. CASE i > Long
      BY <1>2, <1>3, <1>4, <2>1 DEF EffortResultDivergence
    <2>2. CASE ~(i > Long)
      BY <2>2 DEF EffortResultDivergence
    <2> QED  BY <2>1, <2>2
  <1>10. BagHolding(a, i) = BagHolding(b, i)
    <2>1. i > Short + 2 => i > 1 /\ i > 2 /\ i > 3
      BY <1>1
    <2> QED  BY <1>2, <1>5, <2>1 DEF BagHolding
  <1>11. Shakeout(a, i) = Shakeout(b, i)
    <2>1. CASE i > Medium + 2
      <3>1. SubSeq(a, i - Medium, i - 2) = SubSeq(b, i - Medium, i - 2)
        <4>1. i - Medium \in Int /\ i - 2 \in Int /\ 1 <= i - Medium /\ (i - Medium) - 1 <= i - 2 /\ i - 2 <= i
          BY <1>1, <2>1
        <4>2. \A lo, hi \in Int : 1 <= lo /\ lo - 1 <= hi /\ hi <= i =>
                 SubSeq(a, lo, hi) = SubSeq(b, lo, hi)
          BY SameParts
        <4> QED  BY <4>1, <4>2
      <3>2. a[i] = b[i] /\ a[i - 1] = b[i - 1] /\ i > 1
        BY <1>1, <1>2, <2>1
      <3> QED  BY <1>2, <1>5, <3>1, <3>2 DEF Shakeout
    <2>2. CASE ~(i > Medium + 2)
      BY <2>2 DEF Shakeout
    <2> QED  BY <2>1, <2>2
  <1>12. VsaTestSignal(a, i) = VsaTestSignal(b, i)
    BY <1>2, <1>3, <1>4 DEF VsaTestSignal
  <1> QED  BY <1>6, <1>7, <1>8, <1>9, <1>10, <1>11, <1>12

(* What has been broken before a row depends on the rows before it. *)
LEMMA LastBrokenEquation ==
    ASSUME NEW breaks, Len(breaks) \in Nat
    PROVE  \A k \in 0..Len(breaks) :
              LastBroken(breaks)[k]
                = IF k = 0 THEN 0
                  ELSE IF breaks[k] = 0 THEN LastBroken(breaks)[k - 1] ELSE breaks[k]
  <1> DEFINE Is(f, m) == f = [k \in 0..m |-> IF k = 0 THEN 0
                                ELSE IF breaks[k] = 0 THEN f[k - 1] ELSE breaks[k]]
             T == {m \in Nat : \E f : Is(f, m)}
  <1>1. 0 \in T
    <2>1. Is([k \in 0..0 |-> 0], 0)
      OBVIOUS
    <2> QED  BY <2>1
  <1>2. ASSUME NEW m \in Nat, m \in T
        PROVE  m + 1 \in T
    <2>1. PICK f : Is(f, m)
      BY <1>2
    <2> DEFINE g == [k \in 0..(m + 1) |->
                        IF k = m + 1 THEN (IF breaks[k] = 0 THEN f[m] ELSE breaks[k])
                                     ELSE f[k]]
    <2>2. ASSUME NEW k \in 0..(m + 1)
          PROVE  g[k] = IF k = 0 THEN 0 ELSE IF breaks[k] = 0 THEN g[k - 1] ELSE breaks[k]
      <3>1. CASE k = m + 1
        <4>1. k # 0 /\ k - 1 = m /\ k - 1 # m + 1 /\ k - 1 \in 0..(m + 1)
          BY <3>1
        <4>2. g[k - 1] = f[m]
          BY <4>1
        <4> QED  BY <3>1, <4>1, <4>2
      <3>2. CASE k # m + 1
        <4>1. k \in 0..m /\ (k # 0 => k - 1 \in 0..(m + 1) /\ k - 1 # m + 1)
          BY <3>2
        <4>2. f[k] = IF k = 0 THEN 0 ELSE IF breaks[k] = 0 THEN f[k - 1] ELSE breaks[k]
          BY <2>1, <4>1
        <4>3. k # 0 => g[k - 1] = f[k - 1]
          BY <4>1
        <4> QED  BY <3>2, <4>2, <4>3
      <3> QED  BY <3>1, <3>2
    <2>3. g = [k \in 0..(m + 1) |-> g[k]]
      OBVIOUS
    <2> HIDE DEF g
    <2>4. Is(g, m + 1)
      BY <2>2, <2>3
    <2> QED  BY <2>4
  <1> HIDE DEF T
  <1>3. Len(breaks) \in T
    BY <1>1, <1>2, SetInduction
  <1>4. Is(LastBroken(breaks), Len(breaks))
    BY <1>3 DEF T, LastBroken
  <1> QED  BY <1>4

LEMMA SameBreaks ==
    ASSUME NEW u, NEW v, Len(u) \in Nat, Len(v) \in Nat,
           NEW i \in Nat, 1 <= i, i <= Len(u), i <= Len(v),
           \A k \in 1..i : u[k] = v[k]
    PROVE  FiresOnce(u, i) = FiresOnce(v, i)
  <1> DEFINE T == {k \in Nat : k <= i => LastBroken(u)[k] = LastBroken(v)[k]}
  <1>1. 0 \in T
    <2>1. 0 \in 0..Len(u) /\ 0 \in 0..Len(v)
      OBVIOUS
    <2>2. LastBroken(u)[0] = 0 /\ LastBroken(v)[0] = 0
      BY <2>1, LastBrokenEquation
    <2> QED  BY <2>2
  <1>2. ASSUME NEW k \in Nat, k \in T
        PROVE  k + 1 \in T
    <2> SUFFICES ASSUME k + 1 <= i
                 PROVE  LastBroken(u)[k + 1] = LastBroken(v)[k + 1]
      OBVIOUS
    <2>1. /\ k + 1 \in 0..Len(u) /\ k + 1 \in 0..Len(v) /\ k + 1 \in 1..i
          /\ k + 1 # 0 /\ (k + 1) - 1 = k
      OBVIOUS
    <2>2. /\ LastBroken(u)[k + 1] = IF u[k + 1] = 0 THEN LastBroken(u)[k] ELSE u[k + 1]
          /\ LastBroken(v)[k + 1] = IF v[k + 1] = 0 THEN LastBroken(v)[k] ELSE v[k + 1]
      BY <2>1, LastBrokenEquation
    <2>3. LastBroken(u)[k] = LastBroken(v)[k]
      BY <1>2
    <2> QED  BY <2>1, <2>2, <2>3
  <1> HIDE DEF T
  <1>3. i - 1 \in T
    BY <1>1, <1>2, SetInduction
  <1>4. LastBroken(u)[i - 1] = LastBroken(v)[i - 1]
    BY <1>3 DEF T
  <1> QED  BY <1>4 DEF FiresOnce

LEMMA SameConfirmed ==
    ASSUME NEW S, NEW a, NEW b, NEW i, AgreeTo(S, a, b, i)
    PROVE  LET p == FindSwings(a)
               q == FindSwings(b)
           IN  /\ Confirmed(p.highs, i) = Confirmed(q.highs, i)
               /\ Confirmed(p.lows, i) = Confirmed(q.lows, i)
               /\ Confirmed(p.highs, i) \subseteq 1..i
               /\ Confirmed(p.lows, i) \subseteq 1..i
  <1>1. /\ i \in Nat /\ i <= Len(a) /\ i <= Len(b) /\ Len(a) \in Nat /\ Len(b) \in Nat
        /\ Swing \in Nat \ {0}
    BY AgreeFacts, PriceActionConstants
  <1>2. DOMAIN a = 1..Len(a) /\ DOMAIN b = 1..Len(b)
    BY DEF AgreeTo
  <1>3. \A p \in Int : p + Swing <= i =>
           /\ HighPivot(a, p, Swing) = HighPivot(b, p, Swing)
           /\ LowPivot(a, p, Swing) = LowPivot(b, p, Swing)
    BY <1>1, SamePivots
  <1>4. \A p \in Int : 1 <= p /\ p + Swing <= i => p \in 1..i /\ p \in DOMAIN a /\ p \in DOMAIN b
    BY <1>1, <1>2
  <1> QED  BY <1>1, <1>2, <1>3, <1>4 DEF Confirmed, FindSwings

LEMMA SameStructureBreaks ==
    ASSUME NEW S, NEW a, NEW b, NEW i, AgreeTo(S, a, b, i)
    PROVE  Bos(a, i) = Bos(b, i) /\ Choch(a, i) = Choch(b, i)
  <1>1. /\ i \in Nat /\ 1 <= i /\ i <= Len(a) /\ i <= Len(b) /\ Len(a) \in Nat /\ Len(b) \in Nat
        /\ \A j \in 1..i : a[j] = b[j] /\ AgreeTo(S, a, b, j)
    BY AgreeFacts
  <1> DEFINE p == FindSwings(a)
             q == FindSwings(b)
             High(f, s) == [k \in DOMAIN f |-> BrokenHigh(f, s, k)]
             Low(f, s) == [k \in DOMAIN f |-> BrokenLow(f, s, k)]
  <1>2. DOMAIN a = 1..Len(a) /\ DOMAIN b = 1..Len(b)
    BY DEF AgreeTo
  <1>3. ASSUME NEW k \in 1..i
        PROVE  BrokenHigh(a, p, k) = BrokenHigh(b, q, k) /\ BrokenLow(a, p, k) = BrokenLow(b, q, k)
    <2>1. AgreeTo(S, a, b, k)
      BY <1>1
    <2>2. /\ Confirmed(p.highs, k) = Confirmed(q.highs, k)
          /\ Confirmed(p.lows, k) = Confirmed(q.lows, k)
          /\ Confirmed(p.highs, k) \subseteq 1..k
          /\ Confirmed(p.lows, k) \subseteq 1..k
      BY <2>1, SameConfirmed
    <2> HIDE DEF p, q
    <2>3. \A T : T \subseteq 1..k /\ T # {} => Max(T) \in 1..k
      <3> SUFFICES ASSUME NEW T, T \subseteq 1..k, T # {}
                   PROVE  Max(T) \in T
        OBVIOUS
      <3>1. T \subseteq Int /\ k \in Int /\ \A x \in T : x <= k
        OBVIOUS
      <3> QED  BY <3>1, MaxOf
    <2>4. \A j \in 1..k : a[j] = b[j]
      BY <1>1
    <2>5. k \in 1..k
      OBVIOUS
    <2>6. BrokenHigh(a, p, k) = BrokenHigh(b, q, k)
      BY <2>2, <2>3, <2>4, <2>5 DEF BrokenHigh
    <2>7. BrokenLow(a, p, k) = BrokenLow(b, q, k)
      BY <2>2, <2>3, <2>4, <2>5 DEF BrokenLow
    <2> QED  BY <2>6, <2>7
  <1>4. /\ Len(High(a, p)) = Len(a) /\ Len(High(b, q)) = Len(b)
        /\ Len(Low(a, p)) = Len(a) /\ Len(Low(b, q)) = Len(b)
    BY <1>1, <1>2
  <1>5. \A k \in 1..i : High(a, p)[k] = High(b, q)[k] /\ Low(a, p)[k] = Low(b, q)[k]
    BY <1>1, <1>2, <1>3
  <1>6. Bos(a, i) = FiresOnce(High(a, p), i) /\ Bos(b, i) = FiresOnce(High(b, q), i)
    BY DEF Bos
  <1>7. Choch(a, i) = FiresOnce(Low(a, p), i) /\ Choch(b, i) = FiresOnce(Low(b, q), i)
    BY DEF Choch
  <1> HIDE DEF High, Low
  <1>8. FiresOnce(High(a, p), i) = FiresOnce(High(b, q), i)
    BY <1>1, <1>4, <1>5, SameBreaks
  <1>9. FiresOnce(Low(a, p), i) = FiresOnce(Low(b, q), i)
    BY <1>1, <1>4, <1>5, SameBreaks
  <1> QED  BY <1>6, <1>7, <1>8, <1>9

LEMMA SameOscillators ==
    ASSUME NEW S, NEW a, NEW b, NEW i, AgreeTo(S, a, b, i)
    PROVE  /\ AwesomeOscillator(a, i) = AwesomeOscillator(b, i)
           /\ AcceleratorOscillator(a, i) = AcceleratorOscillator(b, i)
  <1>1. /\ i \in Nat /\ 1 <= i
        /\ \A j \in Int : 1 <= j /\ j <= i => a[j] = b[j]
        /\ AoFast \in Nat \ {0} /\ AoSlow \in Nat \ {0}
    BY AgreeFacts, PriceActionConstants
  <1>2. ASSUME NEW k \in 1..i, NEW w \in Nat \ {0}
        PROVE  MedianMean(a, k, w) = MedianMean(b, k, w)
    <2>1. CASE k < w
      BY <2>1 DEF MedianMean
    <2>2. CASE ~(k < w)
      <3> DEFINE Medians(f) == [j \in 1..w |-> Median2(f, k - w + j)]
      <3>1. ASSUME NEW j \in 1..w
            PROVE  Median2(a, k - w + j) = Median2(b, k - w + j)
        <4>1. k - w + j \in Int /\ 1 <= k - w + j /\ k - w + j <= i
          BY <1>1, <2>2
        <4> QED  BY <1>1, <4>1 DEF Median2
      <3>2. Medians(a) = Medians(b)
        BY <3>1
      <3>3. /\ MedianMean(a, k, w) = Rat(SumSeq(Medians(a)), w)
            /\ MedianMean(b, k, w) = Rat(SumSeq(Medians(b)), w)
        BY <2>2 DEF MedianMean
      <3> HIDE DEF Medians
      <3> QED  BY <3>2, <3>3
    <2> QED  BY <2>1, <2>2
  <1>3. \A k \in 1..i : AwesomeOscillator(a, k) = AwesomeOscillator(b, k)
    BY <1>1, <1>2 DEF AwesomeOscillator
  <1>4. AcceleratorOscillator(a, i) = AcceleratorOscillator(b, i)
    <2> DEFINE Values(f) == [k \in 1..AoFast |->
                                IF i - AoFast + k < 1 THEN NaN
                                ELSE AwesomeOscillator(f, i - AoFast + k)]
    <2>1. ASSUME NEW k \in 1..AoFast, ~(i - AoFast + k < 1)
          PROVE  AwesomeOscillator(a, i - AoFast + k) = AwesomeOscillator(b, i - AoFast + k)
      <3>1. i - AoFast + k \in 1..i
        BY <1>1, <2>1
      <3> QED  BY <1>3, <3>1
    <2>2. Values(a) = Values(b)
      BY <2>1
    <2>3. /\ AcceleratorOscillator(a, i)
               = RSub(AwesomeOscillator(a, i), RMul(RSum(Values(a)), Rat(1, AoFast)))
          /\ AcceleratorOscillator(b, i)
               = RSub(AwesomeOscillator(b, i), RMul(RSum(Values(b)), Rat(1, AoFast)))
      BY DEF AcceleratorOscillator
    <2> HIDE DEF Values
    <2>4. i \in 1..i
      BY <1>1
    <2> QED  BY <1>3, <2>2, <2>3, <2>4
  <1>5. i \in 1..i
    BY <1>1
  <1> QED  BY <1>3, <1>4, <1>5

LEMMA SameWilliams ==
    ASSUME NEW S, NEW a, NEW b, NEW i, AgreeTo(S, a, b, i)
    PROVE  /\ AwesomeOscillator(a, i) = AwesomeOscillator(b, i)
           /\ AcceleratorOscillator(a, i) = AcceleratorOscillator(b, i)
           /\ AlligatorLines(a, i) = AlligatorLines(b, i)
           /\ WilliamsFractalHigh(a, i) = WilliamsFractalHigh(b, i)
           /\ WilliamsFractalLow(a, i) = WilliamsFractalLow(b, i)
           /\ ZoneSignal(a, i) = ZoneSignal(b, i)
  <1>1. /\ i \in Nat /\ 1 <= i
        /\ \A j \in Int : 1 <= j /\ j <= i => a[j] = b[j]
        /\ \A j \in 1..i : AgreeTo(S, a, b, j)
        /\ {Short, Medium, Long, Swing} \subseteq Nat \ {0}
    BY AgreeFacts, PriceActionConstants
  <1>2. \A j \in 1..i : /\ AwesomeOscillator(a, j) = AwesomeOscillator(b, j)
                         /\ AcceleratorOscillator(a, j) = AcceleratorOscillator(b, j)
    BY <1>1, SameOscillators
  <1>3. i \in 1..i /\ (i > 1 => i - 1 \in 1..i)
    BY <1>1
  <1>4. ZoneSignal(a, i) = ZoneSignal(b, i)
    BY <1>1, <1>2, <1>3 DEF ZoneSignal
  <1> DEFINE Line(f, period, shift) ==
               IF i <= shift THEN NaN ELSE Smma([j \in 1..(i - shift) |-> Median2(f, j)], period)
  <1>5. ASSUME NEW period, NEW shift \in Nat \ {0}
        PROVE  Line(a, period, shift) = Line(b, period, shift)
    <2> DEFINE Medians(f) == [j \in 1..(i - shift) |-> Median2(f, j)]
    <2>1. \A j \in 1..(i - shift) : Median2(a, j) = Median2(b, j)
      BY <1>1 DEF Median2
    <2>2. Medians(a) = Medians(b)
      BY <2>1
    <2>3. /\ Line(a, period, shift) = IF i <= shift THEN NaN ELSE Smma(Medians(a), period)
          /\ Line(b, period, shift) = IF i <= shift THEN NaN ELSE Smma(Medians(b), period)
      OBVIOUS
    <2> HIDE DEF Medians, Line
    <2> QED  BY <2>2, <2>3
  <1>6. AlligatorLines(a, i) = AlligatorLines(b, i)
    <2>2. /\ AlligatorLines(a, i) = [jaw |-> Line(a, Long, Medium),
                                     teeth |-> Line(a, Medium, Short), lips |-> Line(a, Short, 1)]
          /\ AlligatorLines(b, i) = [jaw |-> Line(b, Long, Medium),
                                     teeth |-> Line(b, Medium, Short), lips |-> Line(b, Short, 1)]
      BY DEF AlligatorLines
    <2>3. Medium \in Nat \ {0} /\ Short \in Nat \ {0} /\ 1 \in Nat \ {0}
      BY <1>1
    <2> HIDE DEF Line
    <2>4. /\ Line(a, Long, Medium) = Line(b, Long, Medium)
          /\ Line(a, Medium, Short) = Line(b, Medium, Short)
          /\ Line(a, Short, 1) = Line(b, Short, 1)
      BY <1>5, <2>3
    <2> QED  BY <2>2, <2>4
  <1>7. /\ WilliamsFractalHigh(a, i) = WilliamsFractalHigh(b, i)
        /\ WilliamsFractalLow(a, i) = WilliamsFractalLow(b, i)
    <2>1. Swing \in Nat \ {0} /\ i - Swing \in Int /\ i - Swing <= i - Swing
      BY <1>1
    <2> QED  BY <2>1, SamePivots DEF WilliamsFractalHigh, WilliamsFractalLow
  <1> QED  BY <1>2, <1>3, <1>4, <1>6, <1>7

LEMMA SameSignals ==
    ASSUME NEW S, NEW a, NEW b, NEW i, AgreeTo(S, a, b, i)
    PROVE  SignalRow(a, i) = SignalRow(b, i)
  <1>1. i \in Int /\ i <= i /\ Swing \in Nat \ {0}
    BY AgreeFacts, PriceActionConstants
  <1>2. SwingHighN(a, i, Swing) = SwingHighN(b, i, Swing) /\ SwingLowN(a, i, Swing) = SwingLowN(b, i, Swing)
    BY <1>1, SameSwings
  <1>3. AlligatorStatus(AlligatorLines(a, i)) = AlligatorStatus(AlligatorLines(b, i))
    BY SameWilliams
  <1> QED  BY <1>2, <1>3, SameStructure, SameZones, SamePatterns, SameStructureBreaks, SameVolumeSpread, SameWilliams
            DEF SignalRow

-----------------------------------------------------------------------------
(* Bars upside down. *)

(* b shows a turned upside down, the prices at a distance from c. *)
Mirror(a, b, c) ==
    /\ a \in Seq(FeedBars) /\ Len(b) = Len(a) /\ DOMAIN b = 1..Len(a) /\ c \in Int
    /\ \A j \in 1..Len(a) :
          /\ b[j].high = c - a[j].low /\ b[j].low = c - a[j].high
          /\ b[j].close = c - a[j].close /\ b[j].volume = a[j].volume

LEMMA MirrorFacts ==
    ASSUME NEW a, NEW b, NEW c, Mirror(a, b, c)
    PROVE  /\ Len(a) \in Nat /\ Len(b) = Len(a) /\ c \in Int
           /\ DOMAIN a = 1..Len(a) /\ DOMAIN b = 1..Len(a)
           /\ \A j \in Int : 1 <= j /\ j <= Len(a) =>
                 /\ a[j].high \in Int /\ a[j].low \in Int /\ a[j].close \in Int
                 /\ b[j].high = c - a[j].low /\ b[j].low = c - a[j].high
                 /\ b[j].close = c - a[j].close /\ b[j].volume = a[j].volume
                 /\ b[j].high \in Int /\ b[j].low \in Int /\ b[j].close \in Int
  <1>1. /\ Len(a) \in Nat /\ DOMAIN a = 1..Len(a) /\ \A j \in 1..Len(a) : a[j] \in FeedBars
    BY DEF Mirror
  <1>2. \A x \in FeedBars : x.high \in Int /\ x.low \in Int /\ x.close \in Int
    BY DEF FeedBars
  <1> QED  BY <1>1, <1>2 DEF Mirror

(* Higher becomes lower. *)
LEMMA OrderMirrors ==
    ASSUME NEW a, NEW b, NEW c, Mirror(a, b, c), NEW j \in 1..Len(a), NEW k \in 1..Len(a)
    PROVE  /\ (a[j].high < a[k].high) <=> (b[j].low > b[k].low)
           /\ (a[j].low > a[k].low) <=> (b[j].high < b[k].high)
           /\ (a[j].high < a[k].low) <=> (b[j].low > b[k].high)
           /\ (a[j].close > a[k].high) <=> (b[j].close < b[k].low)
           /\ (a[j].close > a[k].close) <=> (b[j].close < b[k].close)
           /\ (a[j].close < a[k].close) <=> (b[j].close > b[k].close)
  <1>1. \A x, y, z \in Int : (x < y) <=> (z - x > z - y)
    OBVIOUS
  <1>2. /\ Len(a) \in Nat /\ c \in Int
        /\ a[j].high \in Int /\ a[j].low \in Int /\ a[j].close \in Int
        /\ a[k].high \in Int /\ a[k].low \in Int /\ a[k].close \in Int
        /\ b[j].high = c - a[j].low /\ b[j].low = c - a[j].high
        /\ b[j].close = c - a[j].close
        /\ b[k].high = c - a[k].low /\ b[k].low = c - a[k].high
        /\ b[k].close = c - a[k].close
    <2>1. /\ Len(a) \in Nat /\ c \in Int
          /\ \A n \in Int : 1 <= n /\ n <= Len(a) =>
                 /\ a[n].high \in Int /\ a[n].low \in Int /\ a[n].close \in Int
                 /\ b[n].high = c - a[n].low /\ b[n].low = c - a[n].high
                 /\ b[n].close = c - a[n].close
      BY MirrorFacts
    <2>2. j \in Int /\ 1 <= j /\ j <= Len(a) /\ k \in Int /\ 1 <= k /\ k <= Len(a)
      BY <2>1
    <2> QED  BY <2>1, <2>2
  <1>3. (a[j].high < a[k].high) <=> (b[j].low > b[k].low)
    BY <1>2
  <1>4. (a[j].low > a[k].low) <=> (b[j].high < b[k].high)
    BY <1>1, <1>2
  <1>5. (a[j].high < a[k].low) <=> (b[j].low > b[k].high)
    BY <1>1, <1>2
  <1>6. (a[j].close > a[k].high) <=> (b[j].close < b[k].low)
    BY <1>1, <1>2
  <1>7. /\ (a[j].close > a[k].close) <=> (b[j].close < b[k].close)
        /\ (a[j].close < a[k].close) <=> (b[j].close > b[k].close)
    BY <1>1, <1>2
  <1> QED  BY <1>3, <1>4, <1>5, <1>6, <1>7

(* Finitely many numbers have bounds. *)
LEMMA HasBounds ==
    ASSUME NEW N \in Nat, NEW f, \A j \in 1..N : f[j] \in Int
    PROVE  \E lo, hi \in Int : \A j \in 1..N : lo <= f[j] /\ f[j] <= hi
  <1> DEFINE T == {n \in Nat : n <= N => \E lo, hi \in Int : \A j \in 1..n : lo <= f[j] /\ f[j] <= hi}
  <1>1. 0 \in T
    <2>1. \A j \in 1..0 : 0 <= f[j] /\ f[j] <= 0
      OBVIOUS
    <2> QED  BY <2>1
  <1>2. ASSUME NEW n \in Nat, n \in T
        PROVE  n + 1 \in T
    <2> SUFFICES ASSUME n + 1 <= N
                 PROVE  \E lo, hi \in Int : \A j \in 1..(n + 1) : lo <= f[j] /\ f[j] <= hi
      OBVIOUS
    <2>1. PICK lo \in Int, hi \in Int : \A j \in 1..n : lo <= f[j] /\ f[j] <= hi
      BY <1>2
    <2>2. f[n + 1] \in Int
      OBVIOUS
    <2> DEFINE low == IF f[n + 1] < lo THEN f[n + 1] ELSE lo
               high == IF f[n + 1] > hi THEN f[n + 1] ELSE hi
    <2>3. low \in Int /\ high \in Int /\ low <= lo /\ hi <= high /\ low <= f[n + 1] /\ f[n + 1] <= high
      BY <2>2
    <2> HIDE DEF low, high
    <2>4. \A j \in 1..(n + 1) : low <= f[j] /\ f[j] <= high
      BY <2>1, <2>3
    <2> QED  BY <2>3, <2>4
  <1> HIDE DEF T
  <1>3. \A n \in Nat : n \in T
    BY <1>1, <1>2, SetInduction
  <1>4. N \in T
    BY <1>3
  <1> QED  BY <1>4 DEF T

(* The numbers f[1], f[2], ..., f[N] as a set, and turned around. *)
Turned(N, f, c, T, U) ==
    /\ N \in Nat \ {0} /\ c \in Int /\ \A j \in 1..N : f[j] \in Int
    /\ \A x : x \in T <=> \E j \in 1..N : x = f[j]
    /\ \A x : x \in U <=> \E j \in 1..N : x = c - f[j]

(* The highest and the lowest of them. *)
LEMMA EndsMirror ==
    ASSUME NEW N, NEW f, NEW c, NEW T, NEW U, Turned(N, f, c, T, U)
    PROVE  /\ Max(T) \in Int /\ Min(T) \in Int
           /\ Max(U) = c - Min(T) /\ Min(U) = c - Max(T)
  <1> USE DEF Turned
  <1>1. PICK lo \in Int, hi \in Int : \A j \in 1..N : lo <= f[j] /\ f[j] <= hi
    BY HasBounds
  <1>2. 1 \in 1..N /\ f[1] \in T /\ c - f[1] \in U
    OBVIOUS
  <1>3. T \subseteq Int /\ U \subseteq Int /\ T # {} /\ U # {}
    BY <1>2
  <1>4. /\ \A x \in T : lo <= x /\ x <= hi
        /\ \A x \in U : c - hi <= x /\ x <= c - lo
    BY <1>1
  <1>5. /\ \A x \in T : c - x \in U
        /\ \A x \in U : c - x \in T
    OBVIOUS
  <1>6. c - hi \in Int /\ c - lo \in Int
    OBVIOUS
  <1>7. /\ Max(T) \in T /\ \A x \in T : x <= Max(T)
        /\ Min(T) \in T /\ \A x \in T : Min(T) <= x
    BY <1>3, <1>4, MaxOf, MinOf
  <1>8. /\ Max(U) \in U /\ \A x \in U : x <= Max(U)
        /\ Min(U) \in U /\ \A x \in U : Min(U) <= x
    BY <1>3, <1>4, <1>6, MaxOf, MinOf
  <1>9. Max(T) \in Int /\ Min(T) \in Int /\ Max(U) \in Int /\ Min(U) \in Int
    BY <1>3, <1>7, <1>8
  <1>10. c - Max(T) \in U /\ c - Min(T) \in U /\ c - Max(U) \in T /\ c - Min(U) \in T
    BY <1>5, <1>7, <1>8
  <1>11. /\ c - Min(T) <= Max(U) /\ Min(U) <= c - Max(T)
         /\ c - Max(U) <= Max(T) /\ Min(T) <= c - Max(U)
         /\ c - Min(U) <= Max(T)
    BY <1>7, <1>8, <1>10
  <1> QED  BY <1>9, <1>11

LEMMA ExtremesMirror ==
    ASSUME NEW a, NEW b, NEW c, Mirror(a, b, c), Len(a) > 0
    PROVE  /\ HighOf(a) \in Int /\ LowOf(a) \in Int /\ MaxLow(a) \in Int /\ MinHigh(a) \in Int
           /\ HighOf(b) = c - LowOf(a) /\ LowOf(b) = c - HighOf(a)
           /\ MaxLow(b) = c - MinHigh(a) /\ MinHigh(b) = c - MaxLow(a)
  <1> DEFINE N == Len(a)
             high == [j \in 1..N |-> a[j].high]
             low == [j \in 1..N |-> a[j].low]
             H == {a[j].high : j \in 1..N}
             L == {a[j].low : j \in 1..N}
             BH == {b[j].high : j \in 1..N}
             BL == {b[j].low : j \in 1..N}
  <1>1. /\ N \in Nat \ {0} /\ c \in Int /\ DOMAIN a = 1..N /\ DOMAIN b = 1..N
        /\ \A j \in 1..N : /\ high[j] \in Int /\ low[j] \in Int
                           /\ b[j].high = c - low[j] /\ b[j].low = c - high[j]
    BY MirrorFacts
  <1>2. /\ \A x : x \in H <=> \E j \in 1..N : x = high[j]
        /\ \A x : x \in L <=> \E j \in 1..N : x = low[j]
        /\ \A x : x \in BH <=> \E j \in 1..N : x = c - low[j]
        /\ \A x : x \in BL <=> \E j \in 1..N : x = c - high[j]
    BY <1>1
  <1>3. /\ HighOf(a) = Max(H) /\ MinHigh(a) = Min(H) /\ LowOf(a) = Min(L) /\ MaxLow(a) = Max(L)
        /\ HighOf(b) = Max(BH) /\ MinHigh(b) = Min(BH) /\ LowOf(b) = Min(BL) /\ MaxLow(b) = Max(BL)
    BY <1>1 DEF HighOf, LowOf, MaxLow, MinHigh
  <1> HIDE DEF N, high, low, H, L, BH, BL
  <1>4. Turned(N, high, c, H, BL) /\ Turned(N, low, c, L, BH)
    BY <1>1, <1>2 DEF Turned
  <1> QED  BY <1>3, <1>4, EndsMirror

(* A part of the bars, and what is read off it. *)
LEMMA PartMirrors ==
    ASSUME NEW a, NEW b, NEW c, Mirror(a, b, c),
           NEW lo \in Int, NEW hi \in Int, 1 <= lo, lo <= hi, hi <= Len(a)
    PROVE  /\ Mirror(SubSeq(a, lo, hi), SubSeq(b, lo, hi), c)
           /\ Len(SubSeq(a, lo, hi)) > 0
  <1>1. /\ Len(a) \in Nat /\ DOMAIN b = 1..Len(a) /\ Len(b) = Len(a) /\ a \in Seq(FeedBars)
    BY MirrorFacts DEF Mirror
  <1> DEFINE S == {b[j] : j \in 1..Len(a)}
             pa == SubSeq(a, lo, hi)
             pb == SubSeq(b, lo, hi)
  <1>2. \A j \in lo..hi : a[j] \in FeedBars /\ b[j] \in S /\ j \in 1..Len(a)
    BY <1>1
  <1>3. lo - 1 <= hi /\ hi - lo + 1 \in Nat /\ hi - lo + 1 > 0
    OBVIOUS
  <1>4. /\ pa \in Seq(FeedBars) /\ Len(pa) = hi - lo + 1
        /\ \A j \in 1..(hi - lo + 1) : pa[j] = a[lo + j - 1]
    BY <1>2, <1>3, SubSeqProperties
  <1> HIDE DEF S
  <1>5. /\ pb \in Seq(S) /\ Len(pb) = hi - lo + 1
        /\ \A j \in 1..(hi - lo + 1) : pb[j] = b[lo + j - 1]
    BY <1>2, <1>3, SubSeqProperties
  <1>6. DOMAIN pb = 1..Len(pa) /\ Len(pb) = Len(pa)
    BY <1>4, <1>5
  <1> HIDE DEF pa, pb
  <1>7. \A j \in 1..Len(pa) :
           /\ pb[j].high = c - pa[j].low /\ pb[j].low = c - pa[j].high
           /\ pb[j].close = c - pa[j].close /\ pb[j].volume = pa[j].volume
    <2>1. ASSUME NEW j \in 1..Len(pa)
          PROVE  lo + j - 1 \in 1..Len(a) /\ pa[j] = a[lo + j - 1] /\ pb[j] = b[lo + j - 1]
      BY <1>1, <1>4, <1>5
    <2> QED  BY <2>1 DEF Mirror
  <1>8. c \in Int
    BY DEF Mirror
  <1>9. Mirror(pa, pb, c) /\ Len(pa) > 0
    BY <1>3, <1>4, <1>6, <1>7, <1>8 DEF Mirror
  <1> QED  BY <1>9 DEF pa, pb

(* The extremes of a part. *)
LEMMA PartExtremes ==
    ASSUME NEW a, NEW b, NEW c, Mirror(a, b, c),
           NEW lo \in Int, NEW hi \in Int, 1 <= lo, lo <= hi, hi <= Len(a)
    PROVE  LET pa == SubSeq(a, lo, hi)
               pb == SubSeq(b, lo, hi)
           IN  /\ HighOf(pa) \in Int /\ LowOf(pa) \in Int
               /\ MaxLow(pa) \in Int /\ MinHigh(pa) \in Int
               /\ HighOf(pb) = c - LowOf(pa) /\ LowOf(pb) = c - HighOf(pa)
               /\ MaxLow(pb) = c - MinHigh(pa) /\ MinHigh(pb) = c - MaxLow(pa)
  <1>1. Mirror(SubSeq(a, lo, hi), SubSeq(b, lo, hi), c) /\ Len(SubSeq(a, lo, hi)) > 0
    BY PartMirrors
  <1> QED  BY <1>1, ExtremesMirror

LEMMA PivotsMirror ==
    ASSUME NEW a, NEW b, NEW c, Mirror(a, b, c), NEW p \in Int, NEW w \in Nat \ {0}
    PROVE  /\ HighPivot(a, p, w) <=> LowPivot(b, p, w)
           /\ LowPivot(a, p, w) <=> HighPivot(b, p, w)
  <1>1. /\ Len(a) \in Nat /\ Len(b) = Len(a) /\ c \in Int
        /\ \A j \in Int : 1 <= j /\ j <= Len(a) =>
                 /\ a[j].high \in Int /\ a[j].low \in Int
                 /\ b[j].high = c - a[j].low /\ b[j].low = c - a[j].high
    BY MirrorFacts
  <1>2. CASE p > w /\ p <= Len(a) - w
    <2>1. /\ \A j \in (p - w)..(p + w) : j \in Int /\ 1 <= j /\ j <= Len(a)
          /\ 1 <= p /\ p <= Len(a)
      BY <1>1, <1>2
    <2>2. \A j \in (p - w)..(p + w) :
             /\ (a[j].high < a[p].high) <=> (b[j].low > b[p].low)
             /\ (a[j].low > a[p].low) <=> (b[j].high < b[p].high)
      <3>1. p \in 1..Len(a) /\ \A j \in (p - w)..(p + w) : j \in 1..Len(a)
        BY <1>1, <2>1
      <3> QED  BY <3>1, OrderMirrors
    <2> QED  BY <1>1, <1>2, <2>2 DEF HighPivot, LowPivot
  <1>3. CASE ~(p > w /\ p <= Len(a) - w)
    BY <1>1, <1>3 DEF HighPivot, LowPivot
  <1> QED  BY <1>2, <1>3

LEMMA StructureMirrors ==
    ASSUME NEW a, NEW b, NEW c, Mirror(a, b, c), NEW i \in 1..Len(a)
    PROVE  /\ SwingHighN(a, i, Swing) <=> SwingLowN(b, i, Swing)
           /\ HhHlPattern(a, i) <=> LhLlPattern(b, i)
  <1>1. /\ Len(a) \in Nat /\ Len(b) = Len(a) /\ c \in Int /\ i \in Int
        /\ \A j \in Int : 1 <= j /\ j <= Len(a) =>
                 /\ a[j].high \in Int /\ a[j].low \in Int
                 /\ b[j].high = c - a[j].low /\ b[j].low = c - a[j].high
        /\ Long \in Nat \ {0} /\ Swing \in Nat \ {0}
    BY MirrorFacts, PriceActionConstants
  <1>2. \A j \in Int : /\ SwingHighN(a, j, Swing) <=> SwingLowN(b, j, Swing)
                       /\ SwingLowN(a, j, Swing) <=> SwingHighN(b, j, Swing)
    <2>1. ASSUME NEW j \in Int
          PROVE  /\ HighPivot(a, j - Swing, Swing) <=> LowPivot(b, j - Swing, Swing)
                 /\ LowPivot(a, j - Swing, Swing) <=> HighPivot(b, j - Swing, Swing)
      <3>1. j - Swing \in Int
        BY <1>1
      <3> QED  BY <1>1, <3>1, PivotsMirror
    <2> QED  BY <2>1 DEF SwingHighN, SwingLowN
  <1> DEFINE H == {j \in (i - Long)..i : SwingHighN(a, j, Swing)}
             L == {j \in (i - Long)..i : SwingLowN(a, j, Swing)}
  <1>3. /\ H = {j \in (i - Long)..i : SwingLowN(b, j, Swing)}
        /\ L = {j \in (i - Long)..i : SwingHighN(b, j, Swing)}
    BY <1>1, <1>2
  <1> DEFINE Enough == i > Long /\ Cardinality(H) >= 2 /\ Cardinality(L) >= 2
  <1>4. /\ HhHlPattern(a, i) = (/\ Enough
                                /\ a[LastTwo(H)[2]].high > a[LastTwo(H)[1]].high
                                /\ a[LastTwo(L)[2]].low > a[LastTwo(L)[1]].low)
        /\ LhLlPattern(b, i) = (/\ Enough
                                /\ b[LastTwo(L)[2]].high < b[LastTwo(L)[1]].high
                                /\ b[LastTwo(H)[2]].low < b[LastTwo(H)[1]].low)
    BY <1>3 DEF HhHlPattern, LhLlPattern
  <1>5. ASSUME Enough
        PROVE  /\ LastTwo(H)[1] \in 1..Len(a) /\ LastTwo(H)[2] \in 1..Len(a)
               /\ LastTwo(L)[1] \in 1..Len(a) /\ LastTwo(L)[2] \in 1..Len(a)
    <2>1. /\ H \in SUBSET ((i - Long)..i) /\ L \in SUBSET ((i - Long)..i)
          /\ H \subseteq 1..Len(a) /\ L \subseteq 1..Len(a)
      BY <1>1, <1>5
    <2>2. i - Long \in Int /\ i \in Int
      BY <1>1
    <2>3. Cardinality(H) >= 2 /\ Cardinality(L) >= 2
      BY <1>5
    <2> HIDE DEF H, L
    <2> QED  BY <2>1, <2>2, <2>3, LastTwoIn
  <1> HIDE DEF H, L, Enough
  <1>6. HhHlPattern(a, i) <=> LhLlPattern(b, i)
    <2>1. CASE Enough
      <3>1. /\ (a[LastTwo(H)[1]].high < a[LastTwo(H)[2]].high)
                 <=> (b[LastTwo(H)[1]].low > b[LastTwo(H)[2]].low)
            /\ (a[LastTwo(L)[2]].low > a[LastTwo(L)[1]].low)
                 <=> (b[LastTwo(L)[2]].high < b[LastTwo(L)[1]].high)
        <4>1. /\ LastTwo(H)[1] \in 1..Len(a) /\ LastTwo(H)[2] \in 1..Len(a)
              /\ LastTwo(L)[1] \in 1..Len(a) /\ LastTwo(L)[2] \in 1..Len(a)
          BY <1>5, <2>1
        <4> QED  BY <4>1, OrderMirrors
      <3> QED  BY <1>4, <3>1
    <2>2. CASE ~Enough
      BY <1>4, <2>2
    <2> QED  BY <2>1, <2>2
  <1> QED  BY <1>1, <1>2, <1>6

(* A bar keeps its volume and its range. *)
LEMMA RangesMirror ==
    ASSUME NEW a, NEW b, NEW c, Mirror(a, b, c), NEW j \in Int, 1 <= j, j <= Len(a)
    PROVE  b[j].volume = a[j].volume /\ RangeOf(b[j]) = RangeOf(a[j])
  <1>1. /\ c \in Int /\ a[j].high \in Int /\ a[j].low \in Int
        /\ b[j].high = c - a[j].low /\ b[j].low = c - a[j].high /\ b[j].volume = a[j].volume
    BY MirrorFacts
  <1> QED  BY <1>1 DEF RangeOf

(* Volumes and ranges stay, and with them their sums and means. *)
LEMMA AveragesMirror ==
    ASSUME NEW a, NEW b, NEW c, Mirror(a, b, c), NEW i \in 1..Len(a), NEW w \in Nat \ {0}, NEW k
    PROVE  /\ VolumeAbove(a, i, w, k) <=> VolumeAbove(b, i, w, k)
           /\ RangeAbove(a, i, w, k) <=> RangeAbove(b, i, w, k)
  <1>1. /\ Len(a) \in Nat /\ i \in Int /\ 1 <= i /\ i <= Len(a)
        /\ b[i].volume = a[i].volume /\ RangeOf(b[i]) = RangeOf(a[i])
    <2>1. Len(a) \in Nat
      BY MirrorFacts
    <2>2. i \in Int /\ 1 <= i /\ i <= Len(a)
      BY <2>1
    <2> QED  BY <2>1, <2>2, RangesMirror
  <1>2. CASE i >= w
    <2> DEFINE lo == i - w + 1
               pa == SubSeq(a, lo, i)
               pb == SubSeq(b, lo, i)
    <2>1. lo \in Int /\ 1 <= lo /\ lo <= i /\ i <= Len(a)
      BY <1>1, <1>2
    <2>2. Window(a, i, w) = pa /\ Window(b, i, w) = pb
      BY DEF Window
    <2> HIDE DEF lo
    <2>3. Mirror(pa, pb, c)
      BY <1>1, <2>1, PartMirrors
    <2> HIDE DEF pa, pb
    <2>4. VolumeOf(pb) = VolumeOf(pa) /\ RangeSum(pb) = RangeSum(pa)
      <3>1. /\ Len(pa) \in Nat /\ DOMAIN pa = 1..Len(pa) /\ DOMAIN pb = 1..Len(pa)
            /\ \A j \in 1..Len(pa) : pb[j].volume = pa[j].volume
            /\ \A j \in 1..Len(pa) : RangeOf(pb[j]) = RangeOf(pa[j])
        <4>1. Len(pa) \in Nat /\ DOMAIN pa = 1..Len(pa) /\ DOMAIN pb = 1..Len(pa)
          BY <2>3, MirrorFacts
        <4>2. \A j \in 1..Len(pa) : j \in Int /\ 1 <= j /\ j <= Len(pa)
          BY <4>1
        <4> QED  BY <2>3, <4>1, <4>2, RangesMirror
      <3>2. [j \in DOMAIN pb |-> pb[j].volume] = [j \in DOMAIN pa |-> pa[j].volume]
        BY <3>1
      <3>3. [j \in DOMAIN pb |-> RangeOf(pb[j])] = [j \in DOMAIN pa |-> RangeOf(pa[j])]
        BY <3>1
      <3> QED  BY <3>2, <3>3 DEF VolumeOf, RangeSum
    <2> QED  BY <1>1, <2>2, <2>4 DEF VolumeAbove, RangeAbove
  <1>3. CASE ~(i >= w)
    BY <1>3 DEF VolumeAbove, RangeAbove
  <1> QED  BY <1>2, <1>3

LEMMA ZonesMirror ==
    ASSUME NEW a, NEW b, NEW c, Mirror(a, b, c), NEW i \in 1..Len(a)
    PROVE  /\ InDemand(a, i) <=> InSupply(b, i)
           /\ ZoneFailureBullish(a, i) <=> ZoneFailureBearish(b, i)
  <1>1. /\ Len(a) \in Nat /\ c \in Int /\ i \in Int /\ 1 <= i /\ i <= Len(a)
        /\ a[i].high \in Int /\ a[i].low \in Int /\ a[i].close \in Int
        /\ b[i].high = c - a[i].low /\ b[i].low = c - a[i].high /\ b[i].close = c - a[i].close
    <2>1. Len(a) \in Nat /\ c \in Int
      BY MirrorFacts
    <2>2. i \in Int /\ 1 <= i /\ i <= Len(a)
      BY <2>1
    <2> QED  BY <2>1, <2>2, MirrorFacts
  <1>2. Short \in Nat \ {0} /\ Medium \in Nat \ {0} /\ Long \in Nat \ {0}
    BY PriceActionConstants
  <1>3. InDemand(a, i) <=> InSupply(b, i)
    <2>1. CASE i > 2 * Short
      <3> DEFINE lo == i - 2 * Short
                 hi == i - 1
                 top == MaxLow(SubSeq(a, lo, hi))
      <3>1. lo \in Int /\ hi \in Int /\ 1 <= lo /\ lo <= hi /\ hi <= Len(a)
        BY <1>1, <1>2, <2>1
      <3> HIDE DEF lo, hi
      <3>2. top \in Int /\ MinHigh(SubSeq(b, lo, hi)) = c - top
        BY <3>1, PartExtremes
      <3> HIDE DEF top
      <3>3. (a[i].close > top) <=> (b[i].close < c - top)
        BY <1>1, <3>2
      <3> QED  BY <2>1, <3>2, <3>3 DEF InDemand, InSupply, Prior, lo, hi, top
    <2>2. CASE ~(i > 2 * Short)
      BY <2>2 DEF InDemand, InSupply
    <2> QED  BY <2>1, <2>2
  <1>4. ZoneFailureBullish(a, i) <=> ZoneFailureBearish(b, i)
    <2>1. CASE i > 2 * Medium
      <3> DEFINE lo == i - Medium
                 hi == i - 1
                 top == HighOf(SubSeq(a, lo, hi))
      <3>1. lo \in Int /\ hi \in Int /\ 1 <= lo /\ lo <= hi /\ hi <= Len(a)
        BY <1>1, <1>2, <2>1
      <3> HIDE DEF lo, hi
      <3>2. top \in Int /\ LowOf(SubSeq(b, lo, hi)) = c - top
        BY <3>1, PartExtremes
      <3> HIDE DEF top
      <3>3. (a[i].close > top) <=> (b[i].close < c - top)
        BY <1>1, <3>2
      <3>4. VolumeAbove(a, i, Long, 12) <=> VolumeAbove(b, i, Long, 12)
        BY <1>2, AveragesMirror
      <3> QED  BY <2>1, <3>2, <3>3, <3>4 DEF ZoneFailureBullish, ZoneFailureBearish, Prior, lo, hi, top
    <2>2. CASE ~(i > 2 * Medium)
      BY <2>2 DEF ZoneFailureBullish, ZoneFailureBearish
    <2> QED  BY <2>1, <2>2
  <1> QED  BY <1>3, <1>4

(* A move turns around and keeps its size. *)
LEMMA DiffMirrors ==
    ASSUME NEW a, NEW b, NEW c, Mirror(a, b, c), NEW j \in Int, 1 < j, j <= Len(a)
    PROVE  /\ Diff(a, j) \in Int /\ Diff(b, j) = - Diff(a, j)
           /\ AbsInt(Diff(b, j)) = AbsInt(Diff(a, j))
  <1>1. j - 1 \in Int /\ 1 <= j - 1 /\ j - 1 <= Len(a) /\ 1 <= j
    <2>1. Len(a) \in Nat
      BY MirrorFacts
    <2> QED  BY <2>1
  <1>2. /\ c \in Int /\ a[j].close \in Int /\ a[j - 1].close \in Int
        /\ b[j].close = c - a[j].close /\ b[j - 1].close = c - a[j - 1].close
    BY <1>1, MirrorFacts
  <1>3. Diff(a, j) \in Int /\ Diff(b, j) = - Diff(a, j)
    BY <1>2 DEF Diff
  <1>4. \A x \in Int : AbsInt(- x) = AbsInt(x)
    BY DEF AbsInt
  <1> QED  BY <1>3, <1>4

LEMMA MovesMirror ==
    ASSUME NEW a, NEW b, NEW c, Mirror(a, b, c), NEW i \in 1..Len(a),
           NEW w \in Nat \ {0}, i > w
    PROVE  MoveSum(b, i, w) = MoveSum(a, i, w)
  <1>1. Len(a) \in Nat
    BY MirrorFacts
  <1>2. ASSUME NEW j \in 1..w
        PROVE  AbsInt(Diff(b, i - w + j)) = AbsInt(Diff(a, i - w + j))
    <2>1. i - w + j \in Int /\ 1 < i - w + j /\ i - w + j <= Len(a)
      BY <1>1
    <2> QED  BY <2>1, DiffMirrors
  <1> DEFINE Moves(f) == [j \in 1..w |-> AbsInt(Diff(f, i - w + j))]
  <1>3. Moves(b) = Moves(a)
    BY <1>2
  <1>4. MoveSum(a, i, w) = SumSeq(Moves(a)) /\ MoveSum(b, i, w) = SumSeq(Moves(b))
    BY DEF MoveSum
  <1> HIDE DEF Moves
  <1> QED  BY <1>3, <1>4

LEMMA PatternsMirrored ==
    ASSUME NEW a, NEW b, NEW c, Mirror(a, b, c), NEW i \in 1..Len(a)
    PROVE  /\ BullishFvg(a, i) <=> BearishFvg(b, i)
           /\ BullishOrderBlock(a, i) <=> BearishOrderBlock(b, i)
           /\ BreakerBlockBullish(a, i) <=> BreakerBlockBearish(b, i)
           /\ LiquiditySweepHigh(a, i) <=> LiquiditySweepLow(b, i)
           /\ EffortToRise(a, i) <=> EffortToFall(b, i)
  <1>1. Len(a) \in Nat /\ c \in Int
    BY MirrorFacts
  <1>2. i \in Int /\ 1 <= i /\ i <= Len(a)
    BY <1>1
  <1>3. /\ Short \in Nat \ {0} /\ Short > 1 /\ Medium \in Nat \ {0} /\ Long \in Nat \ {0}
    BY PriceActionConstants
  <1>4. BullishFvg(a, i) <=> BearishFvg(b, i)
    <2>1. CASE i > 2
      <3>1. i - 2 \in 1..Len(a)
        BY <1>1, <1>2, <2>1
      <3>2. (a[i - 2].high < a[i].low) <=> (b[i - 2].low > b[i].high)
        BY <3>1, OrderMirrors
      <3> QED  BY <2>1, <3>2 DEF BullishFvg, BearishFvg
    <2>2. CASE ~(i > 2)
      BY <2>2 DEF BullishFvg, BearishFvg
    <2> QED  BY <2>1, <2>2
  <1>5. BullishOrderBlock(a, i) <=> BearishOrderBlock(b, i)
    <2>1. CASE i > Short + 1
      <3>1. i > Short /\ 1 < i /\ i - 1 \in Int /\ 1 < i - 1 /\ i - 1 <= Len(a)
        BY <1>1, <1>2, <1>3, <2>1
      <3>2. MoveSum(b, i, Short) = MoveSum(a, i, Short)
        BY <1>3, <3>1, MovesMirror
      <3>3. Diff(a, i) \in Int /\ Diff(b, i) = - Diff(a, i)
        BY <1>2, <3>1, DiffMirrors
      <3>4. Diff(a, i - 1) \in Int /\ Diff(b, i - 1) = - Diff(a, i - 1)
        BY <3>1, DiffMirrors
      <3>5. - Diff(b, i) = Diff(a, i) /\ ((Diff(a, i - 1) < 0) <=> (Diff(b, i - 1) > 0))
        BY <3>3, <3>4
      <3> QED  BY <2>1, <3>2, <3>5 DEF BullishOrderBlock, BearishOrderBlock
    <2>2. CASE ~(i > Short + 1)
      BY <2>2 DEF BullishOrderBlock, BearishOrderBlock
    <2> QED  BY <2>1, <2>2
  <1>6. BreakerBlockBullish(a, i) <=> BreakerBlockBearish(b, i)
    <2>1. CASE i > Medium + 2
      <3>1. i - 2 \in Int /\ 1 < i - 2 /\ i - 2 <= Len(a) /\ i - 2 \in 1..Len(a)
        BY <1>1, <1>2, <1>3, <2>1
      <3>2. Diff(a, i - 2) \in Int /\ Diff(b, i - 2) = - Diff(a, i - 2)
        BY <3>1, DiffMirrors
      <3>3. (Diff(a, i - 2) < 0) <=> (Diff(b, i - 2) > 0)
        BY <3>2
      <3>4. (a[i].close > a[i - 2].high) <=> (b[i].close < b[i - 2].low)
        BY <3>1, OrderMirrors
      <3> QED  BY <2>1, <3>3, <3>4 DEF BreakerBlockBullish, BreakerBlockBearish
    <2>2. CASE ~(i > Medium + 2)
      BY <2>2 DEF BreakerBlockBullish, BreakerBlockBearish
    <2> QED  BY <2>1, <2>2
  <1>7. LiquiditySweepHigh(a, i) <=> LiquiditySweepLow(b, i)
    <2>1. CASE i > Short + 2
      <3> DEFINE lo == i - Short
                 hi == i - 2
                 level == HighOf(SubSeq(a, lo, hi))
      <3>1. lo \in Int /\ hi \in Int /\ 1 <= lo /\ lo <= hi /\ hi <= Len(a)
        BY <1>1, <1>2, <1>3, <2>1
      <3>2. i - 1 \in Int /\ 1 <= i - 1 /\ i - 1 <= Len(a)
        BY <1>1, <1>2, <1>3, <2>1
      <3> HIDE DEF lo, hi
      <3>3. level \in Int /\ LowOf(SubSeq(b, lo, hi)) = c - level
        BY <3>1, PartExtremes
      <3>4. /\ a[i - 1].high \in Int /\ b[i - 1].low = c - a[i - 1].high
            /\ a[i].close \in Int /\ b[i].close = c - a[i].close
        BY <1>2, <3>2, MirrorFacts
      <3> HIDE DEF level
      <3>5. /\ (a[i - 1].high > level) <=> (b[i - 1].low < c - level)
            /\ (a[i].close < level) <=> (b[i].close > c - level)
        BY <1>1, <3>3, <3>4
      <3> QED  BY <2>1, <3>3, <3>5 DEF LiquiditySweepHigh, LiquiditySweepLow, lo, hi, level
    <2>2. CASE ~(i > Short + 2)
      BY <2>2 DEF LiquiditySweepHigh, LiquiditySweepLow
    <2> QED  BY <2>1, <2>2
  <1>8. EffortToRise(a, i) <=> EffortToFall(b, i)
    <2>1. CASE i > Long
      <3>1. 1 < i
        BY <1>2, <1>3, <2>1
      <3>2. Diff(a, i) \in Int /\ Diff(b, i) = - Diff(a, i)
        BY <1>2, <3>1, DiffMirrors
      <3>3. (Diff(a, i) > 0) <=> (Diff(b, i) < 0)
        BY <3>2
      <3>4. /\ VolumeAbove(a, i, Long, 13) <=> VolumeAbove(b, i, Long, 13)
            /\ RangeAbove(a, i, Long, 13) <=> RangeAbove(b, i, Long, 13)
        BY <1>3, AveragesMirror
      <3>5. RangeOf(b[i]) = RangeOf(a[i])
        BY <1>2, RangesMirror
      <3>6. AbsInt(2 * b[i].close - b[i].high - b[i].low) = AbsInt(2 * a[i].close - a[i].high - a[i].low)
        <4>1. /\ a[i].high \in Int /\ a[i].low \in Int /\ a[i].close \in Int
              /\ b[i].high = c - a[i].low /\ b[i].low = c - a[i].high /\ b[i].close = c - a[i].close
          BY <1>2, MirrorFacts
        <4> DEFINE p == a[i].close
                   q == a[i].high
                   r == a[i].low
        <4>2. p \in Int /\ q \in Int /\ r \in Int /\ c \in Int
          BY <1>1, <4>1
        <4>3. b[i].close = c - p /\ b[i].high = c - r /\ b[i].low = c - q
          BY <4>1
        <4> HIDE DEF p, q, r
        <4> DEFINE x == 2 * p - q - r
                   y == 2 * (c - p) - (c - r) - (c - q)
        <4>4. x \in Int /\ y \in Int /\ y = - x
          BY <4>2
        <4> HIDE DEF x, y
        <4>5. AbsInt(y) = AbsInt(x)
          BY <4>4 DEF AbsInt
        <4> QED  BY <4>3, <4>5 DEF x, y, p, q, r
      <3>7. Effort(a, i) <=> Effort(b, i)
        BY <3>4, <3>5, <3>6 DEF Effort
      <3> QED  BY <3>3, <3>7 DEF EffortToRise, EffortToFall
    <2>2. CASE ~(i > Long)
      BY <2>2 DEF EffortToRise, EffortToFall, Effort
    <2> QED  BY <2>1, <2>2
  <1> QED  BY <1>4, <1>5, <1>6, <1>7, <1>8

(* The bars that Mirrored makes are the bars turned upside down. *)
LEMMA MirroredIs ==
    ASSUME NEW a \in Seq(FeedBars), a # <<>>
    PROVE  Mirror(a, Mirrored(a), HighOf(a) + LowOf(a))
  <1> DEFINE N == Len(a)
             c == HighOf(a) + LowOf(a)
             m == Mirrored(a)
  <1>1. N \in Nat \ {0} /\ DOMAIN a = 1..N /\ \A j \in 1..N : a[j] \in FeedBars
    BY EmptySeq, LenProperties
  <1>2. \A x \in FeedBars : x.high \in Int /\ x.low \in Int /\ x.close \in Int
    BY DEF FeedBars
  <1>3. HighOf(a) \in Int /\ LowOf(a) \in Int
    <2> DEFINE none == [j \in 1..N |-> [high |-> 0 - a[j].low, low |-> 0 - a[j].high,
                                        close |-> 0 - a[j].close, volume |-> a[j].volume]]
    <2>1. Len(none) = N /\ DOMAIN none = 1..N
      BY <1>1
    <2>2. Mirror(a, none, 0)
      BY <1>1, <2>1 DEF Mirror
    <2> QED  BY <1>1, <2>2, ExtremesMirror
  <1>4. c \in Int
    BY <1>3
  <1>5. m = [i \in DOMAIN a |->
               [a[i] EXCEPT !.open = c - @, !.close = c - @,
                            !.high = c - a[i].low, !.low = c - a[i].high]]
    BY DEF Mirrored
  <1> HIDE DEF c, m
  <1>6. DOMAIN m = 1..N /\ Len(m) = N
    <2> DEFINE Down(i) == [a[i] EXCEPT !.open = c - @, !.close = c - @,
                                       !.high = c - a[i].low, !.low = c - a[i].high]
    <2>1. m = [i \in 1..N |-> Down(i)]
      BY <1>1, <1>5
    <2> HIDE DEF Down
    <2> QED  BY <1>1, <2>1
  <1>7. \A x \in FeedBars : \A l, h \in Int :
           LET y == [x EXCEPT !.open = c - @, !.close = c - @, !.high = h, !.low = l]
           IN  y.high = h /\ y.low = l /\ y.close = c - x.close /\ y.volume = x.volume
    BY DEF FeedBars
  <1>8. \A j \in 1..N :
           /\ m[j].high = c - a[j].low /\ m[j].low = c - a[j].high
           /\ m[j].close = c - a[j].close /\ m[j].volume = a[j].volume
    <2> SUFFICES ASSUME NEW j \in 1..N
                 PROVE  /\ m[j].high = c - a[j].low /\ m[j].low = c - a[j].high
                        /\ m[j].close = c - a[j].close /\ m[j].volume = a[j].volume
      OBVIOUS
    <2>1. a[j] \in FeedBars /\ c - a[j].low \in Int /\ c - a[j].high \in Int
      BY <1>1, <1>2, <1>4
    <2>2. m[j] = [a[j] EXCEPT !.open = c - @, !.close = c - @,
                              !.high = c - a[j].low, !.low = c - a[j].high]
      BY <1>1, <1>5
    <2> QED  BY <1>7, <2>1, <2>2
  <1>9. Mirror(a, m, c)
    BY <1>1, <1>4, <1>6, <1>8 DEF Mirror
  <1> QED  BY <1>9 DEF c, m

-----------------------------------------------------------------------------
(* The bars since the last reset are bars of a feed. *)
HistoryTyped == clock \in Nat /\ history \in Seq(FeedBars)

LEMMA HistoryStaysTyped == Spec => []HistoryTyped
  <1>1. Init => HistoryTyped
    BY DEF Init, HistoryTyped
  <1>2. ASSUME HistoryTyped, [Next]_vars
        PROVE  HistoryTyped'
    <2>1. ASSUME clock < Len(PrimaryChoices),
                 NEW bar \in PrimaryChoices[clock + 1], UpdatePrimary(bar)
          PROVE  HistoryTyped'
      <3>1. PrimaryChoices \in Seq(SUBSET FeedBars)
        BY EnrichmentConstants
      <3>2. clock \in Nat /\ clock + 1 \in 1..Len(PrimaryChoices)
        BY <1>2, <2>1, <3>1 DEF HistoryTyped
      <3>3. bar \in FeedBars
        BY <2>1, <3>1, <3>2
      <3> QED  BY <1>2, <2>1, <3>2, <3>3 DEF HistoryTyped, UpdatePrimary
    <2>2. ASSUME NEW j \in DOMAIN InfoBars, UpdateInformative(j)
          PROVE  HistoryTyped'
      BY <1>2, <2>2 DEF HistoryTyped, UpdateInformative
    <2>3. CASE Reset
      BY <1>2, <2>3 DEF HistoryTyped, Reset
    <2>4. CASE UNCHANGED vars
      BY <1>2, <2>4 DEF HistoryTyped, vars
    <2> QED  BY <1>2, <2>1, <2>2, <2>3, <2>4 DEF Next
  <1> QED  BY <1>1, <1>2, PTL DEF Spec

(* The batch signals: none of a row's changes when later bars arrive, for  *)
(* any bars, windows and multiples (SignalsCausal).                        *)
THEOREM SignalsNeverRepaint == Spec => []SignalsCausal
  <1>1. ASSUME HistoryTyped
        PROVE  SignalsCausal
    <2> SUFFICES ASSUME NEW i \in 1..(Seen - 1), Seen > 1
                 PROVE  SignalRow(history, i) = SignalRow(SubSeq(history, 1, i), i)
      BY DEF SignalsCausal
    <2>1. /\ history \in Seq(FeedBars) /\ Seen \in Nat /\ Seen = Len(history)
          /\ i \in Nat /\ 1 <= i /\ i <= Len(history)
      BY <1>1 DEF HistoryTyped, Seen
    <2>2. \A j \in 1..i : history[j] \in FeedBars
      BY <2>1
    <2>3. /\ SubSeq(history, 1, i) \in Seq(FeedBars)
          /\ Len(SubSeq(history, 1, i)) = i
          /\ \A j \in 1..i : SubSeq(history, 1, i)[j] = history[j]
      <3>1. /\ SubSeq(history, 1, i) \in Seq(FeedBars)
            /\ Len(SubSeq(history, 1, i)) = i - 1 + 1
            /\ \A j \in 1..(i - 1 + 1) : SubSeq(history, 1, i)[j] = history[1 + j - 1]
        BY <2>1, <2>2, SubSeqProperties
      <3> QED  BY <2>1, <3>1
    <2>4. AgreeTo(FeedBars, history, SubSeq(history, 1, i), i)
      BY <2>1, <2>3 DEF AgreeTo
    <2> QED  BY <2>4, SameSignals
  <1> QED  BY <1>1, HistoryStaysTyped, PTL

(* Rises and falls are treated alike: every bullish pattern of the last    *)
(* bar is the bearish one of the bars turned upside down, for any bars,    *)
(* windows and multiples (PatternsMirror).                                 *)
THEOREM RisesMirrorFalls == Spec => []PatternsMirror
  <1>1. ASSUME HistoryTyped
        PROVE  PatternsMirror
    <2> SUFFICES ASSUME history # <<>>
                 PROVE  LET m == Mirrored(history) IN
                        /\ SwingHighN(history, Seen, Swing) <=> SwingLowN(m, Seen, Swing)
                        /\ HhHlPattern(history, Seen) <=> LhLlPattern(m, Seen)
                        /\ ZoneFailureBullish(history, Seen) <=> ZoneFailureBearish(m, Seen)
                        /\ InDemand(history, Seen) <=> InSupply(m, Seen)
                        /\ BullishFvg(history, Seen) <=> BearishFvg(m, Seen)
                        /\ BullishOrderBlock(history, Seen) <=> BearishOrderBlock(m, Seen)
                        /\ BreakerBlockBullish(history, Seen) <=> BreakerBlockBearish(m, Seen)
                        /\ LiquiditySweepHigh(history, Seen) <=> LiquiditySweepLow(m, Seen)
                        /\ EffortToRise(history, Seen) <=> EffortToFall(m, Seen)
      BY DEF PatternsMirror
    <2>1. history \in Seq(FeedBars)
      BY <1>1 DEF HistoryTyped
    <2>2. Mirror(history, Mirrored(history), HighOf(history) + LowOf(history))
      BY <2>1, MirroredIs
    <2>3. Seen \in 1..Len(history)
      BY <2>1, EmptySeq, LenProperties DEF Seen
    <2> QED  BY <2>2, <2>3, StructureMirrors, ZonesMirror, PatternsMirrored
  <1> QED  BY <1>1, HistoryStaysTyped, PTL

(* What the indicators run checks of the signals (SignalsSound).           *)
THEOREM SignalsAreSound == Spec => []SignalsSound
  <1>1. SignalsCausal /\ PatternsMirror => SignalsSound
    BY DEF SignalsSound
  <1> QED  BY <1>1, SignalsNeverRepaint, RisesMirrorFalls, PTL
=============================================================================
