---------------------- MODULE StrategyEvaluationProofs ----------------------
(***************************************************************************)
(* Proofs about StrategyEvaluation, for any definition and any bars: what  *)
(* the strategy remembers is what its bars say, and the prices of an entry *)
(* lie on their sides of the close.  And about StrategyBacktest, for any   *)
(* documents, overrides and bars: a run starts with the columns and the    *)
(* parameters its definition asks for, and claims live parity only where   *)
(* it has it.                                                              *)
(***************************************************************************)
EXTENDS StrategyEvaluation, StrategyBacktest, TLAPS

-----------------------------------------------------------------------------
(* Crossover memory. *)

(* Bar i is the last of the first n bars on which k can be read. *)
LastOf(bars, n, k, i) ==
    /\ i \in 1..n
    /\ Readable(k, bars[i])
    /\ \A m \in (i + 1)..n : ~Readable(k, bars[m])

(* What the first n bars say about k. *)
Recorded(bars, n, k) ==
    IF \E i \in 1..n : LastOf(bars, n, k, i)
    THEN PairOf(k, bars[CHOOSE i \in 1..n : LastOf(bars, n, k, i)])
    ELSE NotRecorded

(* The memory follows all bars shown, and the signal came from the memory  *)
(* before the last of them.                                                *)
IInv ==
    /\ history \in Seq(Bars)
    /\ previous = [k \in Keys |-> Recorded(history, Now, k)]
    /\ Now > 0 => signal = Evaluate(history[Now], seen,
                                    [k \in Keys |-> Recorded(history, Now - 1, k)])

(* One more bar: k is read from it where it can be, and stays otherwise.   *)
LEMMA OneMoreBar ==
    ASSUME NEW bars \in Seq(Bars), NEW bar \in Bars, NEW k
    PROVE  /\ Recorded(Append(bars, bar), Len(bars), k) = Recorded(bars, Len(bars), k)
           /\ Recorded(Append(bars, bar), Len(bars) + 1, k) =
                 IF Readable(k, bar) THEN PairOf(k, bar)
                 ELSE Recorded(bars, Len(bars), k)
  <1> DEFINE n == Len(bars)
             more == Append(bars, bar)
  <1>1. /\ n \in Nat /\ more[n + 1] = bar
        /\ \A i \in 1..n : more[i] = bars[i]
    OBVIOUS
  <1> HIDE DEF n, more
  <1>2. \A i : LastOf(more, n, k, i) <=> LastOf(bars, n, k, i)
    BY <1>1 DEF LastOf
  <1>3. Recorded(more, n, k) = Recorded(bars, n, k)
    <2>1. CASE \E i \in 1..n : LastOf(bars, n, k, i)
      <3>1. (CHOOSE i \in 1..n : LastOf(more, n, k, i))
               = (CHOOSE i \in 1..n : LastOf(bars, n, k, i))
        BY <1>2
      <3>2. (CHOOSE i \in 1..n : LastOf(bars, n, k, i)) \in 1..n
        BY <2>1
      <3> QED  BY <1>1, <1>2, <2>1, <3>1, <3>2 DEF Recorded
    <2>2. CASE ~ \E i \in 1..n : LastOf(bars, n, k, i)
      BY <1>2, <2>2 DEF Recorded
    <2> QED  BY <2>1, <2>2
  <1>4. CASE Readable(k, bar)
    <2>1. LastOf(more, n + 1, k, n + 1)
      BY <1>1, <1>4 DEF LastOf
    <2>2. \A i \in 1..(n + 1) : LastOf(more, n + 1, k, i) => i = n + 1
      <3> TAKE i \in 1..(n + 1)
      <3> SUFFICES ASSUME LastOf(more, n + 1, k, i), i # n + 1
                   PROVE  FALSE
        OBVIOUS
      <3>1. n + 1 \in (i + 1)..(n + 1)
        BY <1>1
      <3> QED  BY <1>1, <1>4, <3>1 DEF LastOf
    <2>3. n + 1 \in 1..(n + 1)
      BY <1>1
    <2>4. (CHOOSE i \in 1..(n + 1) : LastOf(more, n + 1, k, i)) = n + 1
      BY <2>1, <2>2, <2>3
    <2>5. Recorded(more, n + 1, k) = PairOf(k, bar)
      BY <1>1, <2>1, <2>3, <2>4 DEF Recorded
    <2> QED  BY <1>3, <1>4, <2>5 DEF n, more
  <1>5. CASE ~Readable(k, bar)
    <2>1. ASSUME NEW i \in 1..(n + 1)
          PROVE  LastOf(more, n + 1, k, i) <=> i \in 1..n /\ LastOf(bars, n, k, i)
      BY <1>1, <1>5 DEF LastOf
    <2>2. 1..n \subseteq 1..(n + 1)
      BY <1>1
    <2>3. CASE \E i \in 1..n : LastOf(bars, n, k, i)
      <3>1. \A i, j \in 1..n : LastOf(bars, n, k, i) /\ LastOf(bars, n, k, j) => i = j
        BY <1>1 DEF LastOf
      <3>2. PICK i \in 1..n : LastOf(bars, n, k, i)
        BY <2>3
      <3>3. (CHOOSE j \in 1..n : LastOf(bars, n, k, j)) = i
        BY <3>1, <3>2
      <3>4. (CHOOSE j \in 1..(n + 1) : LastOf(more, n + 1, k, j)) = i
        BY <2>1, <2>2, <3>1, <3>2
      <3>5. LastOf(more, n + 1, k, i) /\ i \in 1..(n + 1)
        BY <2>1, <2>2, <3>2
      <3> QED
        BY <1>1, <1>3, <1>5, <2>3, <3>2, <3>3, <3>4, <3>5 DEF Recorded, n, more
    <2>4. CASE ~ \E i \in 1..n : LastOf(bars, n, k, i)
      <3>1. ~ \E i \in 1..(n + 1) : LastOf(more, n + 1, k, i)
        BY <2>1, <2>4
      <3> QED  BY <1>3, <1>5, <2>4, <3>1 DEF Recorded, n, more
    <2> QED  BY <2>3, <2>4
  <1> QED  BY <1>4, <1>5

(* A strategy that has seen no bar remembers nothing. *)
LEMMA InitIInv == Init => IInv
  <1> SUFFICES ASSUME Init PROVE IInv
    OBVIOUS
  <1>1. history = <<>> /\ Len(history) = 0 /\ history \in Seq(Bars)
    BY DEF Init
  <1>2. \A k \in Keys : Recorded(history, 0, k) = NotRecorded
    BY DEF Recorded
  <1>3. previous = [k \in Keys |-> Recorded(history, Now, k)]
    BY <1>1, <1>2 DEF Init, Now
  <1> QED  BY <1>1, <1>3 DEF IInv, Now

(* on_bar adds what it records of its bar; on_reset forgets all of it. *)
LEMMA NextIInv == IInv /\ [Next]_vars => IInv'
  <1> SUFFICES ASSUME IInv, [Next]_vars PROVE IInv'
    OBVIOUS
  <1>1. ASSUME NEW bar \in Bars, NEW position \in Positions, OnBar(bar, position)
        PROVE  IInv'
    <2>1. history \in Seq(Bars) /\ Len(history) \in Nat
      BY DEF IInv
    <2>2. PICK bars \in Seq(Bars) : bars = history
      BY <2>1
    <2>3. /\ history' = Append(bars, bar) /\ seen' = position
          /\ signal' = Evaluate(bar, position, previous)
          /\ previous' = Collected(bar, position)
      BY <1>1, <2>2 DEF OnBar
    <2>4. /\ history' \in Seq(Bars) /\ Len(history') = Len(bars) + 1
          /\ history'[Len(bars) + 1] = bar /\ Len(bars) \in Nat
      BY <2>2, <2>3
    <2>5. previous = [k \in Keys |-> Recorded(bars, Len(bars), k)]
      BY <2>2 DEF IInv, Now
    <2>6. previous' = [k \in Keys |-> Recorded(Append(bars, bar), Len(bars) + 1, k)]
      <3>1. \A k \in Keys :
               (IF Readable(k, bar) THEN PairOf(k, bar) ELSE previous[k])
                  = Recorded(Append(bars, bar), Len(bars) + 1, k)
        BY <2>5, OneMoreBar
      <3> QED  BY <2>3, <3>1 DEF Collected
    <2>7. previous = [k \in Keys |-> Recorded(Append(bars, bar), Len(bars), k)]
      BY <2>5, OneMoreBar
    <2>8. Now' = Len(bars) + 1 /\ Now' - 1 = Len(bars)
      BY <2>3, <2>4 DEF Now
    <2>9. previous' = [k \in Keys |-> Recorded(history', Now', k)]
      BY <2>3, <2>6, <2>8
    <2>10. signal' = Evaluate(history'[Now'], seen',
                              [k \in Keys |-> Recorded(history', Now' - 1, k)])
      BY <2>3, <2>4, <2>7, <2>8
    <2> QED  BY <2>4, <2>9, <2>10 DEF IInv
  <1>2. CASE OnReset
    <2>1. /\ history' = <<>> /\ Len(history') = 0 /\ history' \in Seq(Bars)
          /\ previous' = [k \in Keys |-> NotRecorded]
      BY <1>2 DEF OnReset
    <2>2. \A k \in Keys : Recorded(<<>>, 0, k) = NotRecorded
      BY DEF Recorded
    <2>3. previous' = [k \in Keys |-> Recorded(history', Now', k)]
      BY <2>1, <2>2 DEF Now
    <2> QED  BY <2>1, <2>3 DEF IInv, Now
  <1>3. CASE UNCHANGED vars
    BY <1>3 DEF vars, IInv, Now
  <1> QED  BY <1>1, <1>2, <1>3 DEF Next

(* The memory is what recording the bars since the last reset makes it. *)
LEMMA InvariantHolds == Spec => []IInv
  BY InitIInv, NextIInv, PTL DEF Spec

(* For any definition, any bars and any way the caller's position may      *)
(* change: the signal of on_bar is what the bars since the reset and the   *)
(* position shown with the last of them determine, so a replay agrees.     *)
THEOREM ReplaysAgree == Spec => []SignalsReplayable
  <1>1. MemoryFromBars = [k \in Keys |-> Recorded(history, Now - 1, k)]
    BY DEF MemoryFromBars, Recorded, LastReadable, LastOf
  <1>2. IInv => SignalsReplayable
    BY <1>1 DEF IInv, SignalsReplayable
  <1> QED  BY <1>2, InvariantHolds, PTL

-----------------------------------------------------------------------------
(* The prices of an entry. *)

(* Rounding to cents stays on its side of a whole number of cents. *)
LEMMA RoundKeepsSide ==
    ASSUME NEW x \in Int, NEW c \in Int
    PROVE  /\ x <= (c - 1) * Unit => Round(<<x>>)[1] < c
           /\ x >= (c + 1) * Unit => Round(<<x>>)[1] > c
  <1> DEFINE d == x \div 10000
             m == x % 10000
  <1>1. /\ d \in Int /\ m \in 0..9999 /\ x = 10000 * d + m
    OBVIOUS
  <1>2. \/ Round(<<x>>) = <<d>>
        \/ Round(<<x>>) = <<d + 1>> /\ m # 0
    <2>1. Unit = 10000 /\ Unit \div 2 = 5000 /\ <<x>> # NaNPrice /\ <<x>>[1] = x
      BY DEF Unit, NaNPrice
    <2>2. Round(<<x>>) = <<IF m > 5000 \/ (m = 5000 /\ d % 2 = 1) THEN d + 1 ELSE d>>
      BY <2>1 DEF Round
    <2> HIDE DEF d, m
    <2> QED  BY <1>1, <2>2
  <1>3. Round(<<x>>)[1] = d \/ (Round(<<x>>)[1] = d + 1 /\ m # 0)
    BY <1>2
  <1> HIDE DEF d, m
  <1>4. ASSUME x <= (c - 1) * 10000
        PROVE  d < c /\ (m # 0 => d + 1 < c)
    <2>1. PICK D \in Int, M \in Int : /\ D = d /\ M = m /\ 0 <= M /\ M < 10000
                                      /\ x = 10000 * D + M
      BY <1>1
    <2>2. 10000 * D + M <= 10000 * c - 10000
      BY <1>4, <2>1
    <2>3. D <= c - 1 /\ (M # 0 => D < c - 1)
      BY <2>1, <2>2
    <2> QED  BY <2>1, <2>3
  <1>5. ASSUME x >= (c + 1) * 10000
        PROVE  d > c /\ d + 1 > c
    <2>1. PICK D \in Int, M \in Int : /\ D = d /\ M = m /\ 0 <= M /\ M < 10000
                                      /\ x = 10000 * D + M
      BY <1>1
    <2>2. 10000 * D + M >= 10000 * c + 10000
      BY <1>5, <2>1
    <2>3. D >= c + 1
      BY <2>1, <2>2
    <2> QED  BY <2>1, <2>3
  <1> QED  BY <1>1, <1>3, <1>4, <1>5 DEF Unit

(* A price or a distance that is there is a number. *)
IsPrice(p) == p = NaNPrice \/ \E x \in Int : p = <<x>>

(* Stop and target distances are numbers, or NaN, for every risk specification. *)
LEMMA DistancesArePrices ==
    ASSUME NEW bar \in Bars, NEW side \in {"long", "short"}
    PROVE  /\ IsPrice(StopDistance(bar, bar[Close].n))
           /\ IsPrice(TargetDistance(bar, bar[Close].n, Stop(bar, bar[Close].n, side)))
  <1> DEFINE close == bar[Close].n
  <1>1. /\ close \in Int /\ Risk.stop_multiplier \in Int /\ Risk.stop_pct \in Int
        /\ Risk.take_profit_multiplier \in Int /\ Risk.take_profit_pct \in Int
        /\ Risk.risk_reward_ratio \in Int
        /\ Risk.stop_loss_type = "atr" => bar[Risk.stop_indicator].n \in Int
        /\ Risk.take_profit_type = "atr" => bar[Risk.take_profit_indicator].n \in Int
    BY EvaluationAssumption
  <1> HIDE DEF close
  <1>2. IsPrice(NoPrice) /\ IsPrice(NaNPrice)
    BY DEF IsPrice, NoPrice
  <1>3. ASSUME NEW atr, atr.n \in Int, NEW multiplier \in Int
        PROVE  IsPrice(AtrDistance(atr, multiplier))
    <2>1. atr.n * multiplier * (Unit \div 100) \in Int
      BY <1>3 DEF Unit
    <2>2. IsPrice(<<atr.n * multiplier * (Unit \div 100)>>)
      BY <2>1 DEF IsPrice
    <2> QED  BY <1>2, <2>2 DEF AtrDistance
  <1>4. ASSUME NEW pct \in Int
        PROVE  IsPrice(PctDistance(close, pct))
    <2>1. close * pct * (Unit \div 100) \in Int
      BY <1>1 DEF Unit
    <2>2. IsPrice(<<close * pct * (Unit \div 100)>>)
      BY <2>1 DEF IsPrice
    <2> QED  BY <1>2, <2>2 DEF PctDistance
  <1>5. IsPrice(StopDistance(bar, close))
    BY <1>1, <1>2, <1>3, <1>4 DEF StopDistance
  <1>6. ASSUME NEW d, IsPrice(d), NEW sign \in {1, 0 - 1}
        PROVE  IsPrice(Moved(close, side, sign, d))
    <2>1. CASE d \in {NoPrice, NaNPrice}
      BY <1>2, <2>1 DEF Moved
    <2>2. CASE d \notin {NoPrice, NaNPrice}
      <3>1. PICK x \in Int : d = <<x>>
        BY <1>6, <2>2 DEF IsPrice
      <3>2. close * Unit + x \in Int /\ close * Unit - x \in Int /\ d[1] = x
        BY <1>1, <3>1 DEF Unit
      <3>3. IsPrice(<<close * Unit + x>>) /\ IsPrice(<<close * Unit - x>>)
        BY <3>2 DEF IsPrice
      <3> QED  BY <2>2, <3>2, <3>3 DEF Moved
    <2> QED  BY <2>1, <2>2
  <1>7. IsPrice(Stop(bar, close, side))
    BY <1>5, <1>6 DEF Stop
  <1>8. ASSUME NEW stop, IsPrice(stop)
        PROVE  IsPrice(RewardDistance(close, stop))
    <2>1. CASE stop = NaNPrice \/ Risk.risk_reward_ratio <= 0
      BY <1>2, <2>1 DEF RewardDistance
    <2>2. CASE ~ (stop = NaNPrice \/ Risk.risk_reward_ratio <= 0)
      <3>1. PICK x \in Int : stop = <<x>>
        BY <1>8, <2>2 DEF IsPrice
      <3>2. stop[1] = x
        BY <3>1
      <3> DEFINE risk == IF x < close * Unit THEN close * Unit - x ELSE x - close * Unit
                 scaled == risk * Risk.risk_reward_ratio
      <3>3. scaled \in Int
        BY <1>1 DEF Unit
      <3>4. scaled \div 100 \in Int
        <4> HIDE DEF scaled
        <4> QED  BY <3>3
      <3>5. IsPrice(<<scaled \div 100>>)
        BY <3>4 DEF IsPrice
      <3>6. RewardDistance(close, stop) = IF x <= 0 THEN NoPrice ELSE <<scaled \div 100>>
        BY <2>2, <3>2 DEF RewardDistance
      <3> QED  BY <1>2, <3>5, <3>6
    <2> QED  BY <2>1, <2>2
  <1>9. IsPrice(TargetDistance(bar, close, Stop(bar, close, side)))
    BY <1>1, <1>2, <1>3, <1>4, <1>7, <1>8 DEF TargetDistance
  <1> QED  BY <1>5, <1>9 DEF close

(* A price moved a cent or more from the close is still on that side of it *)
(* when it is rounded to cents.                                            *)
LEMMA MovedKeepsSide ==
    ASSUME NEW close \in Int, NEW side \in {"long", "short"},
           NEW sign \in {1, 0 - 1}, NEW d, IsPrice(d), d # NaNPrice, d[1] >= Unit
    PROVE  LET price == Round(Moved(close, side, sign, d))
           IN  IF (side = "long") = (sign = 1) THEN price[1] > close
                                               ELSE price[1] < close
  <1>1. PICK x \in Int : d = <<x>> /\ d[1] = x /\ x >= 10000
    BY DEF IsPrice, Unit
  <1>2. d \notin {NoPrice, NaNPrice}
    BY <1>1 DEF NoPrice
  <1>3. Moved(close, side, sign, d) =
           IF (side = "long") = (sign = 1) THEN <<close * Unit + x>>
                                           ELSE <<close * Unit - x>>
    BY <1>1, <1>2 DEF Moved
  <1>4. /\ close * Unit + x \in Int /\ close * Unit - x \in Int
        /\ close * Unit + x >= (close + 1) * Unit
        /\ close * Unit - x <= (close - 1) * Unit
    BY <1>1 DEF Unit
  <1>5. /\ Round(<<close * Unit + x>>)[1] > close
        /\ Round(<<close * Unit - x>>)[1] < close
    BY <1>4, RoundKeepsSide
  <1> QED  BY <1>3, <1>5

(* For any RiskSpec and any bars: the stop of an entry lies on its losing  *)
(* side of the close and the target on its winning side, once they are a   *)
(* cent away.                                                              *)
THEOREM BracketsHold == Spec => []BracketAroundClose
  <1>1. ASSUME IInv, Now > 0, signal.direction \in Sides
        PROVE  BracketAroundClose
    <2>1. PICK bar, side, memory :
             /\ bar = history[Now] /\ side = signal.direction
             /\ memory = [k \in Keys |-> Recorded(history, Now - 1, k)]
      OBVIOUS
    <2>2. bar \in Bars
      BY <1>1, <2>1 DEF IInv, Now
    <2>3. side \in {"long", "short"} /\ bar[Close].n \in Int
      BY <1>1, <2>1, <2>2, EvaluationAssumption
    <2>4. signal = Evaluate(bar, seen, memory)
      BY <1>1, <2>1 DEF IInv
    <2>5. signal = EntryOf(bar, side)
      BY <2>1, <2>3, <2>4 DEF Evaluate, EntrySignal, ExitSignal, EntryOf, Hold
    <2> DEFINE close == bar[Close].n
               d == StopDistance(bar, close)
               t == TargetDistance(bar, close, Stop(bar, close, side))
    <2>6. /\ signal.stop = Round(Moved(close, side, -1, d))
          /\ signal.target = Round(Moved(close, side, 1, t))
      BY <2>5 DEF EntryOf, Calculate, Stop, Target
    <2>7. IsPrice(d) /\ IsPrice(t)
      BY <2>2, <2>3, DistancesArePrices
    <2>8. close \in Int
      BY <2>3
    <2> HIDE DEF close, d, t
    <2>9. d # NaNPrice /\ d[1] >= Unit =>
             IF side = "long" THEN signal.stop[1] < close ELSE signal.stop[1] > close
      BY <2>3, <2>6, <2>7, <2>8, MovedKeepsSide
    <2>10. t # NaNPrice /\ t[1] >= Unit =>
             IF side = "long" THEN signal.target[1] > close ELSE signal.target[1] < close
      BY <2>3, <2>6, <2>7, <2>8, MovedKeepsSide
    <2> QED
      BY <2>1, <2>9, <2>10 DEF BracketAroundClose, close, d, t
  <1>2. IInv => BracketAroundClose
    BY <1>1 DEF BracketAroundClose
  <1> QED  BY <1>2, InvariantHolds, PTL

-----------------------------------------------------------------------------
(* The use case: from a definition to a run. *)

(* A definition that is valid has no section at fault, and runs with the   *)
(* resolved parameters.                                                    *)
LEMMA ValidIsFaultless ==
    ASSUME NEW doc, NEW overrides, Parse(doc, overrides).outcome = "valid"
    PROVE  LET p == ParseParameters(doc)
               o == ApplyOverrides(p.params, overrides)
           IN  /\ p.errors = {} /\ o.errors = {}
               /\ Parse(doc, overrides).def.resolved = o.resolved
  <1> DEFINE p == ParseParameters(doc)
             o == ApplyOverrides(p.params, overrides)
             t == ParseTimeframes(doc)
             i == ParseIndicators(doc, o.resolved, t.timeframes)
             f == ParseFeatures(doc, i.items, o.resolved)
             r == ParseRisk(doc, i.items, o.resolved)
             s == ParseSides(doc, o.resolved, i.items, f.items)
             d == [resolved |-> o.resolved, timeframes |-> t.timeframes,
                   indicators |-> i.items, features |-> f.items, risk |-> r.risk,
                   sides |-> doc.sides, tree |-> s.tree]
             errors == Fault("header", ~doc.header) \cup p.errors \cup o.errors
                       \cup t.errors \cup i.errors \cup f.errors \cup r.errors \cup s.errors
  <1>1. "document" \notin doc.broken
    BY DEF Parse, Invalid
  <1>2. Parse(doc, overrides) = Conclude(d, p.params, errors)
    BY <1>1, Zenon DEF Parse, ThenSections, ThenIndicators, ThenFeatures, ThenRules, Assemble
  <1> HIDE DEF errors, d, p, o
  <1>3. errors = {} /\ Parse(doc, overrides) = [outcome |-> "valid", def |-> d, warnings |-> Warnings(d)]
    BY <1>2 DEF Conclude, Invalid
  <1>4. p.errors = {} /\ o.errors = {}
    BY <1>3 DEF errors
  <1>5. d.resolved = o.resolved
    BY DEF d
  <1> QED  BY <1>3, <1>4, <1>5 DEF p, o

(* Parameters without a fault and overrides without one: what is resolved  *)
(* has its type and respects its bounds.                                   *)
LEMMA ResolvedBounded ==
    ASSUME NEW r \in Requests, r.use # "resolve",
           Parse(r.doc, r.overrides).outcome = "valid",
           NEW p \in DOMAIN Parse(r.doc, r.overrides).def.resolved
    PROVE  LET spec == r.doc.parameters[p]
               value == Parse(r.doc, r.overrides).def.resolved[p]
           IN  /\ TypeMatches(value, spec.type)
               /\ value.kind \in {"num", "float"} =>
                      /\ spec.minimum # Nothing =>
                             Hundredths(spec.minimum) <= Hundredths(value)
                      /\ spec.maximum # Nothing =>
                             Hundredths(value) <= Hundredths(spec.maximum)
  <1> DEFINE doc == r.doc
             parameters == ParseParameters(doc)
             spec == doc.parameters[p]
             value == Parse(doc, r.overrides).def.resolved[p]
  <1>1. /\ parameters.errors = {} /\ ApplyOverrides(parameters.params, r.overrides).errors = {}
        /\ Parse(doc, r.overrides).def.resolved
             = ApplyOverrides(parameters.params, r.overrides).resolved
    BY ValidIsFaultless
  <1>2. /\ "parameters" \notin doc.broken
        /\ \A q \in DOMAIN doc.parameters : ~Faulty(doc.parameters[q])
    BY <1>1 DEF ParseParameters, Fault
  <1>3. /\ DOMAIN parameters.params = {q \in DOMAIN doc.parameters : Keeps(doc.parameters[q])}
        /\ \A q \in DOMAIN parameters.params : parameters.params[q] = doc.parameters[q]
    BY <1>2 DEF ParseParameters
  <1> HIDE DEF parameters
  <1>4. p \in DOMAIN parameters.params
    BY <1>1 DEF ApplyOverrides
  <1>5. /\ p \in DOMAIN doc.parameters /\ parameters.params[p] = spec
        /\ TypeMatches(spec.default, spec.type)
        /\ ~BadBound(spec.minimum) /\ ~BadBound(spec.maximum)
        /\ ~OutOfRange(spec.default, spec.minimum, spec.maximum)
    BY <1>2, <1>3, <1>4 DEF Faulty, Keeps, Typed, Bound
  <1>6. \/ value = spec.default
        \/ /\ p \in DOMAIN r.overrides /\ value = r.overrides[p]
           /\ ~OverrideInvalid(spec, value)
    BY <1>1, <1>4, <1>5 DEF ApplyOverrides
  <1>7. TypeMatches(value, spec.type) /\ ~OutOfRange(value, spec.minimum, spec.maximum)
    BY <1>5, <1>6 DEF OverrideInvalid, Bound
  <1>8. /\ value.kind \in {"num", "float"} => value.n \in Int
        /\ spec.minimum.kind \in {"num", "float"} => spec.minimum.n \in Int
        /\ spec.maximum.kind \in {"num", "float"} => spec.maximum.n \in Int
        /\ spec.minimum.kind = "none" => spec.minimum = Nothing
        /\ spec.maximum.kind = "none" => spec.maximum = Nothing
    BY <1>5, <1>6, RequestAssumption
  <1>9. /\ spec.minimum # Nothing => spec.minimum.kind \in {"num", "float"}
        /\ spec.maximum # Nothing => spec.maximum.kind \in {"num", "float"}
    BY <1>5, <1>8 DEF BadBound
  <1> HIDE DEF value, spec, doc
  <1> QED  BY <1>7, <1>8, <1>9 DEF OutOfRange, Hundredths, value, spec, doc

(* What the conditions and the risk prices read is required. *)
LEMMA ReadIsRequired == ColumnsRead \subseteq RequiredColumns(def)
  BY DEF ColumnsRead, RequiredColumns, RiskColumns

(* The stages of a run whose bars have been looked at for coverage. *)
Enriched == {"guarded", "prepared", "framed", "complete", "running"}

(* A live run over raw bars streams only metrics labelled as correct. *)
Covered == Raw /\ mode = Live => \A n \in CoverageNames : StreamingCorrect(n)

(* What every stage may rely on of those before it. *)
StagesSound ==
    /\ request \in Requests
    /\ parsed.outcome = "valid" =>
          request.use # "resolve" /\ parsed = Parse(request.doc, request.overrides)
    /\ stage # "done" => outcome.code # "completed"
    /\ stage \notin {"received", "done"} => request.use # "resolve"
    /\ stage \in Enriched => Covered
    /\ stage \in {"complete", "running"} => RequiredColumns(def) \subseteq DOMAIN frame
    /\ stage = "running" =>
          \A c \in RequiredColumns(def) : frame[c] \notin {"nan", "text"}
    /\ outcome.code = "completed" => Covered /\ (outcome.safe => ParitySafe)

(* What depends only on the request and the definition stays as it is. *)
LEMMA DefinitionSame ==
    ASSUME UNCHANGED <<request, parsed>>
    PROVE  /\ Raw' <=> Raw /\ CoverageNames' = CoverageNames
           /\ RequiredColumns(def)' = RequiredColumns(def)
  <1>1. def' = def
    BY DEF def
  <1>2. Raw' <=> Raw
    BY <1>1 DEF Raw
  <1>3. CoverageNames' = CoverageNames
    BY <1>1 DEF CoverageNames
  <1>4. RequiredColumns(def)' = RequiredColumns(def)
    BY <1>1
  <1> QED  BY <1>2, <1>3, <1>4

(* So does, in the same mode, whether a run is safe. *)
LEMMA RunSame ==
    ASSUME UNCHANGED <<request, parsed, mode>>
    PROVE  (ParitySafe' <=> ParitySafe) /\ (Covered' <=> Covered)
  <1>1. def' = def
    BY DEF def
  <1>2. ParitySafe' <=> ParitySafe
    BY <1>1 DEF ParitySafe
  <1>3. Covered' <=> Covered
    <2>1. Raw' <=> Raw
      BY <1>1 DEF Raw
    <2>2. CoverageNames' = CoverageNames
      BY <1>1 DEF CoverageNames
    <2> QED  BY <2>1, <2>2 DEF Covered, StreamingCorrect
  <1> QED  BY <1>2, <1>3

(* Nothing has been done when a request arrives. *)
LEMMA InitStages == BacktestInit => StagesSound
  <1> SUFFICES ASSUME BacktestInit
               PROVE  StagesSound
    OBVIOUS
  <1>1. /\ request \in Requests /\ stage = "received" /\ parsed.outcome = ""
        /\ outcome.code = ""
    BY DEF BacktestInit, Pending
  <1> QED  BY <1>1 DEF StagesSound, Enriched

(* A run that ends early, or whose only change is its end. *)
LEMMA EndsEarly ==
    ASSUME StagesSound, UNCHANGED <<request, parsed>>,
           stage' = "done", outcome'.code # "completed"
    PROVE  StagesSound'
  BY DEF StagesSound, Enriched

(* The stages that build the frame, however it looks. *)
LEMMA FramesKeep ==
    ASSUME StagesSound, UNCHANGED <<request, parsed, mode>>,
           stage \in {"guarded", "prepared"},
           \/ stage' = "done" /\ outcome'.code \in {"bars", "raised"}
           \/ stage' \in {"prepared", "framed"} /\ outcome' = outcome
    PROVE  StagesSound'
  BY RunSame DEF StagesSound, Enriched

(* Every stage keeps what the next one relies on. *)
LEMMA NextStages ==
    ASSUME StagesSound, [BacktestNext]_backtestVars
    PROVE  StagesSound'
  <1>1. CASE ResolveMetric
    <2>1. UNCHANGED <<request, parsed, mode, frame>> /\ stage' = "done"
          /\ outcome'.code = "resolved" /\ request.use = "resolve"
      BY <1>1 DEF ResolveMetric
    <2> QED  BY <2>1 DEF StagesSound, Enriched
  <1>2. CASE CheckInput
    <2>1. UNCHANGED <<request, parsed, mode, frame>>
          /\ \/ stage' = "done" /\ outcome'.code \in {"no_bars", "invalid_bars"}
             \/ stage' = "input" /\ outcome' = outcome
          /\ stage = "received" /\ request.use # "resolve"
      BY <1>2 DEF CheckInput, Reject, End, Goto
    <2> QED  BY <2>1 DEF StagesSound, Enriched
  <1>3. CASE ParseDefinition
    <2>1. UNCHANGED <<request, mode, frame>> /\ stage = "input"
          /\ \/ stage' = "done" /\ outcome'.code \in {"definition", "raised"}
             \/ stage' = "parsed" /\ outcome' = outcome
          /\ parsed' = Parse(request.doc, request.overrides)
      BY <1>3 DEF ParseDefinition, Reject, End, Goto
    <2> QED  BY <2>1 DEF StagesSound, Enriched
  <1>4. CASE GuardCoverage
    <2>1. UNCHANGED <<request, parsed, frame>> /\ stage = "parsed"
          /\ \/ stage' = "done" /\ outcome'.code = "raised"
             \/ /\ stage' = "guarded" /\ outcome' = outcome
                /\ mode' = IF Raw /\ ~\A n \in CoverageNames : StreamingCorrect(n)
                             THEN Batch ELSE mode
      BY <1>4 DEF GuardCoverage, Reject, End, Goto
    <2>2. stage' = "guarded" => Covered'
      BY <2>1, DefinitionSame DEF Covered, Live, Batch
    <2> QED  BY <2>1, <2>2 DEF StagesSound, Enriched
  <1>5. CASE EnrichBatch \/ EnrichCausally \/ PrepareFrame \/ ComputeFeatures
    <2>1. CASE EnrichBatch
      <3>1. \/ stage' = "done" /\ outcome'.code = "bars"
            \/ stage' = "framed" /\ outcome' = outcome
        BY <2>1 DEF EnrichBatch, Framed, Reject, End, Goto
      <3> QED  BY <2>1, <3>1, FramesKeep DEF EnrichBatch
    <2>2. CASE EnrichCausally
      <3>1. PICK columns : Framed(columns, "framed")
        BY <2>2 DEF EnrichCausally
      <3>2. \/ stage' = "done" /\ outcome'.code = "bars"
            \/ stage' = "framed" /\ outcome' = outcome
        BY <3>1 DEF Framed, Reject, End, Goto
      <3> QED  BY <2>2, <3>2, FramesKeep DEF EnrichCausally
    <2>3. CASE PrepareFrame
      <3>1. Reject("bars") \/ Goto("prepared")
        BY <2>3, Zenon DEF PrepareFrame
      <3>2. \/ stage' = "done" /\ outcome'.code = "bars"
            \/ stage' = "prepared" /\ outcome' = outcome
        BY <3>1 DEF Reject, End, Goto
      <3> QED  BY <2>3, <3>2, FramesKeep DEF PrepareFrame
    <2>4. CASE ComputeFeatures
      <3>1. \/ stage' = "done" /\ outcome'.code = "raised"
            \/ stage' = "framed" /\ outcome' = outcome
        BY <2>4 DEF ComputeFeatures, Reject, End, Goto
      <3> QED  BY <2>4, <3>1, FramesKeep DEF ComputeFeatures
    <2> QED  BY <1>5, <2>1, <2>2, <2>3, <2>4
  <1>6. CASE CheckColumns
    <2>1. UNCHANGED <<request, parsed, mode, frame>> /\ stage = "framed"
          /\ \/ stage' = "done" /\ outcome'.code = "missing_columns"
             \/ /\ stage' = "complete" /\ outcome' = outcome
                /\ RequiredColumns(def) \subseteq DOMAIN frame
      BY <1>6 DEF CheckColumns, Reject, End, Goto
    <2> QED  BY <2>1, DefinitionSame, RunSame DEF StagesSound, Enriched
  <1>7. CASE CheckWarmup
    <2>1. UNCHANGED <<request, parsed, mode, frame>> /\ stage = "complete"
          /\ \/ /\ stage' = "done"
                /\ outcome'.code \in {"no_tradable_bars", "missing_after_warmup"}
             \/ /\ stage' = "running" /\ outcome' = outcome
                /\ \A c \in RequiredColumns(def) : frame[c] \notin {"nan", "text"}
      BY <1>7 DEF CheckWarmup, Reject, End, Goto
    <2> QED  BY <2>1, DefinitionSame, RunSame DEF StagesSound, Enriched
  <1>8. CASE RunEngine
    <2>1. /\ UNCHANGED <<request, parsed, mode, frame>>
          /\ stage = "running" /\ stage' = "done"
          /\ outcome'.code = "completed" => (outcome'.safe => ParitySafe)
      BY <1>8 DEF RunEngine, End
    <2>2. (Covered' <=> Covered) /\ (ParitySafe' <=> ParitySafe)
      BY <2>1, RunSame
    <2> QED  BY <2>1, <2>2 DEF StagesSound, Enriched
  <1>9. CASE ApplyFeatures
    <2>1. UNCHANGED <<request, parsed, mode>> /\ stage = "parsed" /\ stage' = "done"
          /\ outcome'.code \in {"missing_columns", "failed", "features"}
      BY <1>9 DEF ApplyFeatures, Reject, End
    <2> QED  BY <2>1, DefinitionSame, RunSame DEF StagesSound, Enriched
  <1>10. CASE UNCHANGED backtestVars
    BY <1>10, DefinitionSame, RunSame DEF backtestVars, StagesSound
  <1> QED
    BY <1>1, <1>2, <1>3, <1>4, <1>5, <1>6, <1>7, <1>8, <1>9, <1>10 DEF BacktestNext

(* Each stage of the use case leaves to the next what it relies on. *)
LEMMA StagesHold == BacktestSpec => []StagesSound
  BY InitStages, NextStages, PTL DEF BacktestSpec

(* execute, for any documents, overrides and bars: when the engine starts, *)
(* every column the conditions and the risk prices read is in the frame    *)
(* with numbers, and every parameter has the type and respects the bounds  *)
(* its definition gives (RunsAsDefined).                                   *)
THEOREM RunsStartAsDefined == BacktestSpec => []RunsAsDefined
  <1>1. StagesSound => RunsAsDefined
    <2> SUFFICES ASSUME StagesSound
                 PROVE  RunsAsDefined
      OBVIOUS
    <2>1. ReadyBeforeRun
      BY ReadIsRequired DEF StagesSound, ReadyBeforeRun
    <2>2. ASSUME parsed.outcome = "valid", NEW p \in DOMAIN def.resolved
          PROVE  LET spec == request.doc.parameters[p]
                     value == def.resolved[p]
                 IN  /\ TypeMatches(value, spec.type)
                     /\ value.kind \in {"num", "float"} =>
                            /\ spec.minimum # Nothing =>
                                   Hundredths(spec.minimum) <= Hundredths(value)
                            /\ spec.maximum # Nothing =>
                                   Hundredths(value) <= Hundredths(spec.maximum)
      <3>1. /\ request \in Requests /\ request.use # "resolve"
            /\ parsed = Parse(request.doc, request.overrides)
        BY <2>2 DEF StagesSound
      <3>2. /\ Parse(request.doc, request.overrides).outcome = "valid"
            /\ Parse(request.doc, request.overrides).def = def
            /\ p \in DOMAIN Parse(request.doc, request.overrides).def.resolved
        BY <2>2, <3>1 DEF def
      <3> QED  BY <3>1, <3>2, ResolvedBounded
    <2>3. OverridesBounded
      BY <2>2 DEF OverridesBounded
    <2> QED  BY <2>1, <2>3 DEF RunsAsDefined
  <1> QED  BY <1>1, StagesHold, PTL

(* execute and _annotate_parity_metadata: a completed result that claims   *)
(* live parity was computed in the mode the caller asked for, on metrics   *)
(* that stream, or in a batch without a declared indicator that depends on *)
(* the frame (ParityHonest).                                               *)
THEOREM ParityIsHonest == BacktestSpec => []ParityHonest
  <1>1. StagesSound => ParityHonest
    BY DEF StagesSound, ParityHonest, Covered, ParitySafe
  <1> QED  BY <1>1, StagesHold, PTL
=============================================================================
