--------------------------- MODULE SignalFamilies ---------------------------
(***************************************************************************)
(* The signal families that combine price with volume or with a profile:   *)
(* volume-spread analysis, Fibonacci levels, the Bill Williams             *)
(* indicators, session VWAP bands, coils, day types and Wyckoff phases.    *)
(* The conventions are those of PriceAction.                               *)
(***************************************************************************)
EXTENDS PriceAction

-----------------------------------------------------------------------------
(* Volume-spread analysis.                                                 *)

NoDemand(bars, i) ==
    /\ i > Short /\ Diff(bars, i) > 0
    /\ 200 * Diff(bars, i) < bars[i - 1].close
    /\ VolumeBelow(bars, i, Long, 7)
NoSupply(bars, i) ==
    /\ i > Short /\ Diff(bars, i) < 0
    /\ 200 * (-Diff(bars, i)) < bars[i - 1].close
    /\ VolumeBelow(bars, i, Long, 7)

StoppingVolume(bars, i) ==
    /\ i > Long
    /\ 10 * bars[i].low
         <= QuantileTimes10(LowsOf(Prior(bars, i, Long)), 2)
    /\ RangeBelow(bars, i, Long, 8)
    /\ VolumeAbove(bars, i, Long, 15)

ClimaxVolume(bars, i) ==
    i > Long /\ RangeAbove(bars, i, Long, 15) /\ VolumeAbove(bars, i, Long, 20)

(* A wide bar on high volume that closes near its middle.                  *)
Effort(bars, i) ==
    LET b == bars[i]
    IN  /\ i > Long
        /\ RangeAbove(bars, i, Long, 13) /\ VolumeAbove(bars, i, Long, 13)
        /\ 10 * AbsInt(2 * b.close - b.high - b.low) < 6 * RangeOf(b)
EffortToRise(bars, i) == Effort(bars, i) /\ Diff(bars, i) > 0
EffortToFall(bars, i) == Effort(bars, i) /\ Diff(bars, i) < 0

(* The averages are floored at 1 and at 0.01 before they divide.           *)
EffortResultDivergence(bars, i) ==
    LET volume == VolumeOf(Window(bars, i, Long))
        range == RangeSum(Window(bars, i, Long))
    IN  /\ i > Long
        /\ 10 * Long * bars[i].volume > 15 * Max({volume, Long})
        /\ IF range = 0 THEN RangeOf(bars[i]) = 0
           ELSE 10 * Long * RangeOf(bars[i]) < 7 * range

BagHolding(bars, i) ==
    /\ i > Short + 2
    /\ Diff(bars, i - 2) < 0 /\ Diff(bars, i - 1) > 0 /\ Diff(bars, i) < 0
    /\ VolumeAbove(bars, i - 1, Long, 13)

Shakeout(bars, i) ==
    /\ i > Medium + 2
    /\ LET support == LowOf(SubSeq(bars, i - Medium, i - 2))
       IN  bars[i - 1].low < support /\ bars[i].close > support
    /\ VolumeAbove(bars, i - 1, Long, 15)
    /\ Diff(bars, i) > 0

VsaTestSignal(bars, i) ==
    /\ i > Long + Short
    /\ VolumeBelow(bars, i, Long, 5) /\ RangeBelow(bars, i, Long, 6)
    /\ 10 * bars[i].close
         <= QuantileTimes10(LowsOf(Prior(bars, i, Short)), 3)

-----------------------------------------------------------------------------
(* Fibonacci levels of the last completed swing of the closes; the levels  *)
(* are shown from the end of the swing on.                                 *)

DetectSwings(bars) ==
    LET Beyond(p, Less(_, _)) ==
          \A j \in (p - Swing)..(p + Swing) :
             j /= p => Less(bars[j].close, bars[p].close)
        inner == {p \in DOMAIN bars : p > Swing /\ p <= Len(bars) - Swing}
    IN  [highs |-> {p \in inner : Beyond(p, LAMBDA a, b : a < b)},
         lows |-> {p \in inner : Beyond(p, LAMBDA a, b : a > b)}]

(* None when the last two swings are of one kind.                          *)
SwingBetween(bars, highs, last) ==
    LET ends == {bars[last[1]].close, bars[last[2]].close}
        up == last[2] \in highs
    IN  IF (last[1] \in highs) = up THEN <<>>
        ELSE <<[low |-> Min(ends), high |-> Max(ends), end |-> last[2],
                uptrend |-> up]>>
LastSwing(bars, swings) ==
    IF Cardinality(swings.highs \cup swings.lows) < 2 THEN <<>>
    ELSE SwingBetween(bars, swings.highs, LastTwo(swings.highs \cup swings.lows))
LastCompletedSwing(bars) == LastSwing(bars, DetectSwings(bars))

(* A ratio in thousandths of the move, back from its end or beyond it; the *)
(* level is in thousandths of a price, -1 where there is none.             *)
FibLevel(swing, i, back) ==
    IF swing = <<>> \/ i < swing[1].end THEN -1
    ELSE IF swing[1].uptrend
    THEN 1000 * swing[1].high - back * (swing[1].high - swing[1].low)
    ELSE 1000 * swing[1].low + back * (swing[1].high - swing[1].low)
FibRetrace(bars, i, ratio) == FibLevel(LastCompletedSwing(bars), i, ratio)
FibExtension(bars, i, ratio) == FibLevel(LastCompletedSwing(bars), i, -ratio)

(* Retracements within 0.5 % of the close, at most four.                   *)
FibConfluenceScore(bars, i) ==
    LET near == {r \in {236, 382, 500, 618, 786} :
                    AbsInt(1000 * bars[i].close - FibRetrace(bars, i, r))
                        < 5 * bars[i].close}
    IN  IF FibRetrace(bars, i, 500) = -1 \/ i <= Swing THEN 0
        ELSE Min({4, Cardinality(near)})

-----------------------------------------------------------------------------
(* Bill Williams.  The median price is kept doubled.                       *)

Median2(bars, i) == bars[i].high + bars[i].low
MedianMean(bars, i, w) ==
    IF i < w THEN NaN
    ELSE Rat(SumSeq([k \in 1..w |-> Median2(bars, i - w + k)]), w)

AwesomeOscillator(bars, i) ==
    RSub(MedianMean(bars, i, AoFast), MedianMean(bars, i, AoSlow))

AcceleratorOscillator(bars, i) ==
    LET values == [k \in 1..AoFast |->
                     IF i - AoFast + k < 1 THEN NaN
                     ELSE AwesomeOscillator(bars, i - AoFast + k)]
    IN  RSub(AwesomeOscillator(bars, i), RMul(RSum(values), Rat(1, AoFast)))

(* An exponential mean with weight 1 / period, seeded by the first row.    *)
Smma(values, period) ==
    LET mean[j \in 1..Len(values)] ==
          IF j = 1 THEN Num(values[1])
          ELSE RAdd(RMul(Rat(1, period), Num(values[j])),
                    RMul(Rat(period - 1, period), mean[j - 1]))
    IN  mean[Len(values)]

(* Each line is read some rows late: the classic 13/8, 8/5 and 5/3 become  *)
(* Long/Medium, Medium/Short and Short/1.                                  *)
AlligatorLines(bars, i) ==
    LET Line(period, shift) ==
          IF i <= shift THEN NaN
          ELSE Smma([j \in 1..(i - shift) |-> Median2(bars, j)], period)
    IN  [jaw |-> Line(Long, Medium), teeth |-> Line(Medium, Short),
         lips |-> Line(Short, 1)]

AlligatorStatus(line) ==
    LET all == {line.jaw, line.teeth, line.lips}
        spread == {RSub(p, q) : p, q \in all}
        widest == CHOOSE d \in spread : \A e \in spread : RLeq(e, d)
        mean == RMul(RSum(<<line.jaw, line.teeth, line.lips>>), Rat(1, 3))
    IN  IF NaN \in all THEN "unknown"
        ELSE IF RLess(Num(0), mean)
                  /\ RLess(widest, RMul(Rat(2, 1000), mean)) THEN "sleeping"
        ELSE IF \/ RLess(line.teeth, line.lips) /\ RLess(line.jaw, line.teeth)
                \/ RLess(line.lips, line.teeth) /\ RLess(line.teeth, line.jaw)
        THEN "eating" ELSE "waking"

(* Fractals are swing points of their own width, on the confirming row.    *)
WilliamsFractalHigh(bars, i) == HighPivot(bars, i - Swing, Swing)
WilliamsFractalLow(bars, i) == LowPivot(bars, i - Swing, Swing)

(* Without a value before it, a change is not up.                          *)
ZoneSignal(bars, i) ==
    LET ao == AwesomeOscillator(bars, i)
        ac == AcceleratorOscillator(bars, i)
        Up(Osc(_, _)) == i > 1 /\ RLess(Osc(bars, i - 1), Osc(bars, i))
        aoUp == Up(AwesomeOscillator)
        acUp == Up(AcceleratorOscillator)
    IN  IF RLess(Num(0), ao) /\ aoUp /\ RLess(Num(0), ac) /\ acUp
        THEN "green"
        ELSE IF RLess(ao, Num(0)) /\ ~aoUp /\ RLess(ac, Num(0)) /\ ~acUp
        THEN "red" ELSE "gray"

-----------------------------------------------------------------------------
(* Session VWAP bands.  The deviation is kept as its square; typical       *)
(* prices are kept tripled.                                                *)

Tp3(b) == b.high + b.low + b.close

VwapSessionBands(bars, i) ==
    LET session == SessionOf(bars, bars[i].day)
        seen == SessionOf(SubSeq(bars, 1, i), bars[i].day)
        n == Len(seen)
        volume == VolumeOf(seen)
        Total(F(_)) == FoldLeft(LAMBDA s, b : s + F(b), 0, seen)
        vwap == Rat(Total(LAMBDA b : Tp3(b) * b.volume), 3 * volume)
        mean == Rat(Total(Tp3), 3 * n)
        square == Rat(Total(LAMBDA b : Tp3(b) * Tp3(b)), 9 * n)
        variance == RAdd(RSub(square, RMul(Num(2), RMul(vwap, mean))),
                         RMul(vwap, vwap))
    IN  IF Len(session) < 2
        THEN [vwap |-> Rat(Tp3(bars[i]), 3), variance |-> Num(0)]
        ELSE IF volume <= 0 THEN [vwap |-> NaN, variance |-> NaN]
        ELSE [vwap |-> vwap,
              variance |-> IF RLess(variance, Num(0)) THEN Num(0)
                                                      ELSE variance]

-----------------------------------------------------------------------------
(* Coils: a value area narrower than most of the lookback's, with the      *)
(* close in it or at the point of control.                                 *)

WidthPct(l) ==
    IF l = NoLevels THEN NaN
    ELSE IF l.vah > 0 THEN Rat(100 * (l.vah - l.val), l.vah) ELSE Num(0)

Coiled(bars, levels, i) ==
    LET width == WidthPct(levels[i])
        below == {j \in (i - Long)..(i - 1) :
                    RLess(WidthPct(levels[j]), width)}
        a == AuctionState(bars[i].close, levels[i])
    IN  /\ i > Long /\ ~IsNaN(width)
        /\ \E j \in (i - Long)..(i - 1) : ~IsNaN(WidthPct(levels[j]))
        /\ 100 * Cardinality(below) < 20 * Long
        /\ a.inside_value \/ a.at_poc

-----------------------------------------------------------------------------
(* The day type compares the first rows of the frame with all of it.       *)

DayTypeClassification(bars, i) ==
    LET opening == SubSeq(bars, 1, 3)
        ib == HighOf(opening) - LowOf(opening)
        total == HighOf(bars) - LowOf(bars)
    IN  IF Len(bars) < 5 \/ i <= 3 THEN "NonTrend"
        ELSE IF 100 * ib < 15 * total THEN "NormalVariation"
        ELSE IF 2 * ib > total THEN "Trend"
        ELSE IF i > Short /\ 10 * MoveSum(bars, i, Short) > 3 * Short * ib
        THEN "DoubleDistribution" ELSE "Neutral"

-----------------------------------------------------------------------------
(* Wyckoff phases.  The slope compares the last point of control of a      *)
(* session with that of the session `window` sessions before it, and holds *)
(* for every row of the session.                                           *)

PocSlope(bars, levels, i, window) ==
    LET days == SessionWindow(bars, bars[i].day, window + 1)
        LastPoc(d) == levels[Max({j \in DOMAIN bars : bars[j].day = d})].poc
        old == LastPoc(days[1])
    IN  IF Len(days) <= window \/ old <= 0 THEN NaN
        ELSE Rat(100 * (LastPoc(bars[i].day) - old), old)

(* The later of two phases that both apply is the one that is kept.  rvol  *)
(* and shape are columns of the frame.                                     *)
ClassifyWyckoffPhase(bars, levels, balance, shape, rvol, i, window) ==
    LET slope == PocSlope(bars, levels, i, window)
        Width(j) == WidthPct(levels[j])
        direction == IF i <= Short THEN NaN ELSE RSub(Width(i), Width(i - Short))
        recent == SelectSeq([k \in 1..(IF i < Long THEN i ELSE Long) |->
                                Width(i - k + 1)], LAMBDA w : ~IsNaN(w))
        mean == IF Len(recent) < Short THEN NaN
                ELSE RMul(RSum(recent), Rat(1, Len(recent)))
        accumulation ==
            /\ RLess(RAbs(slope), Rat(2, 10)) /\ RLess(direction, Num(0))
            /\ balance[i] = "BALANCED" /\ shape[i] \in {"NORMAL", "B_SHAPE"}
            /\ RLess(rvol[i], Num(1))
        distribution ==
            /\ RLess(RAbs(slope), Num(1)) /\ RLess(Num(0), direction)
            /\ RLess(mean, Width(i)) /\ RLess(Num(1), rvol[i])
            /\ shape[i] \in {"D_SHAPE", "NORMAL"}
        markup == RLess(Rat(1, 2), slope) /\ balance[i] = "IMBALANCED_UP"
        markdown == RLess(slope, Rat(-1, 2)) /\ balance[i] = "IMBALANCED_DOWN"
    IN  IF markdown THEN "MARKDOWN"
        ELSE IF markup THEN "MARKUP"
        ELSE IF distribution THEN "DISTRIBUTION"
        ELSE IF accumulation THEN "ACCUMULATION"
        ELSE IF IsNaN(slope) THEN "NaN" ELSE "NEUTRAL"
=============================================================================
