----------------------------- MODULE PriceAction -----------------------------
(***************************************************************************)
(* The bar-pattern signals of the strategy runtime as operators on a frame *)
(* of bars and a row: swings and trend structure, supply and demand zones, *)
(* smart-money patterns, volume-spread signals, Fibonacci levels, the      *)
(* Bill Williams family, VWAP bands, coils, day types and Wyckoff phases.  *)
(*                                                                         *)
(* Rows are numbered from 1, so a loop over range(a, n) covers the rows    *)
(* i > a.  A rolling mean over w rows has no value before row w, and a     *)
(* comparison with it is then false.  Bullish and bearish forms are        *)
(* written out separately, as they are in the code.                        *)
(***************************************************************************)
EXTENDS VolumeProfile

CONSTANTS
    Short, Medium, Long,    \* the lookbacks 5, 10 and 20
    Swing,                  \* bars on each side of a swing point
    AoFast, AoSlow          \* the windows 5 and 34 of the oscillator

(* A sweep looks at the Short - 1 rows before the one that sweeps.         *)
ASSUME PriceActionConstants ==
    /\ {Short, Medium, Long, Swing, AoFast, AoSlow} \subseteq Nat \ {0}
    /\ Short > 1

(* The n rows before row i, and the n rows that end with it.               *)
Prior(bars, i, n) == SubSeq(bars, i - n, i - 1)
Window(bars, i, n) == SubSeq(bars, i - n + 1, i)

RangeOf(b) == b.high - b.low
RangeSum(bars) == SumSeq([i \in DOMAIN bars |-> RangeOf(bars[i])])
MaxLow(bars) == Max({bars[j].low : j \in DOMAIN bars})
MinHigh(bars) == Min({bars[j].high : j \in DOMAIN bars})
Diff(bars, i) == bars[i].close - bars[i - 1].close

(* volume[i] and range[i] against k / 10 of their mean over w rows.        *)
VolumeAbove(bars, i, w, k) ==
    i >= w /\ 10 * w * bars[i].volume > k * VolumeOf(Window(bars, i, w))
VolumeBelow(bars, i, w, k) ==
    i >= w /\ 10 * w * bars[i].volume < k * VolumeOf(Window(bars, i, w))
RangeAbove(bars, i, w, k) ==
    i >= w /\ 10 * w * RangeOf(bars[i]) > k * RangeSum(Window(bars, i, w))
RangeBelow(bars, i, w, k) ==
    i >= w /\ 10 * w * RangeOf(bars[i]) < k * RangeSum(Window(bars, i, w))

(* Ten times the q / 10 quantile of a sequence, interpolated linearly.     *)
QuantileTimes10(values, q) ==
    LET sorted == SortSeq(values, LAMBDA a, b : a < b)
        pos == (Len(values) - 1) * q
        k == (pos \div 10) + 1
    IN  (10 * sorted[k])
          + (IF k = Len(values) THEN 0
             ELSE (pos % 10) * (sorted[k + 1] - sorted[k]))

LowsOf(bars) == [j \in DOMAIN bars |-> bars[j].low]

-----------------------------------------------------------------------------
(* Swing points.  A pivot is strictly beyond the n rows on both sides; it  *)
(* is marked on the row that confirms it, n rows later.                    *)

HighPivot(bars, p, n) ==
    /\ p > n /\ p <= Len(bars) - n
    /\ \A j \in (p - n)..(p + n) : j /= p => bars[j].high < bars[p].high
LowPivot(bars, p, n) ==
    /\ p > n /\ p <= Len(bars) - n
    /\ \A j \in (p - n)..(p + n) : j /= p => bars[j].low > bars[p].low

SwingHighN(bars, i, n) == HighPivot(bars, i - n, n)
SwingLowN(bars, i, n) == LowPivot(bars, i - n, n)

(* The rows of the last two marks of the lookback; prices are those of the *)
(* marked rows, not of the pivots.                                         *)
LastTwo(rows) == <<Max(rows \ {Max(rows)}), Max(rows)>>

HhHlPattern(bars, i) ==
    LET highs == {j \in (i - Long)..i : SwingHighN(bars, j, Swing)}
        lows == {j \in (i - Long)..i : SwingLowN(bars, j, Swing)}
    IN  /\ i > Long /\ Cardinality(highs) >= 2 /\ Cardinality(lows) >= 2
        /\ bars[LastTwo(highs)[2]].high > bars[LastTwo(highs)[1]].high
        /\ bars[LastTwo(lows)[2]].low > bars[LastTwo(lows)[1]].low

LhLlPattern(bars, i) ==
    LET highs == {j \in (i - Long)..i : SwingHighN(bars, j, Swing)}
        lows == {j \in (i - Long)..i : SwingLowN(bars, j, Swing)}
    IN  /\ i > Long /\ Cardinality(highs) >= 2 /\ Cardinality(lows) >= 2
        /\ bars[LastTwo(highs)[2]].high < bars[LastTwo(highs)[1]].high
        /\ bars[LastTwo(lows)[2]].low < bars[LastTwo(lows)[1]].low

(* More than 60 % of the lookback's closes moved one way, on volume above  *)
(* the average.                                                            *)
VolumeTrendConfirmation(bars, i) ==
    LET Moves(sign) == {j \in (i - Long + 1)..i : Sign(Diff(bars, j)) = sign}
    IN  /\ i > Long
        /\ \E sign \in {1, -1} : 10 * Cardinality(Moves(sign)) > 6 * Long
        /\ VolumeAbove(bars, i, Long, 10)

TrendPhase(bars, i) ==
    LET rows == Window(bars, i, Long)
        Return(j) == Rat(Diff(bars, j), bars[j - 1].close)
        mean == RMul(RSum([k \in 1..Long |-> Return(i - Long + k)]),
                     Rat(1, Long))
        closes == {rows[j].close : j \in DOMAIN rows}
        Narrow(permille) ==
            1000 * (Max(closes) - Min(closes)) < permille * bars[i].close
    IN  IF i <= Long \/ VolumeOf(rows) = 0 THEN "unknown"
        ELSE IF RLess(Rat(1, 1000), mean) /\ VolumeAbove(bars, i, Long, 10)
        THEN "markup"
        ELSE IF VolumeAbove(bars, i, Long, 12) /\ Narrow(20)
                  /\ RLess(mean, Rat(1, 1000)) THEN "distribution"
        ELSE IF VolumeBelow(bars, i, Long, 7) /\ Narrow(15)
        THEN "accumulation" ELSE "unknown"

-----------------------------------------------------------------------------
(* Supply and demand zones; -1 where there is no zone.                     *)

InDemand(bars, i) ==
    i > 2 * Short /\ bars[i].close > MaxLow(Prior(bars, i, 2 * Short))
InSupply(bars, i) ==
    i > 2 * Short /\ bars[i].close < MinHigh(Prior(bars, i, 2 * Short))

DemandZoneLow(bars, i) ==
    IF InDemand(bars, i) THEN LowOf(Prior(bars, i, 2 * Short)) ELSE -1
DemandZoneHigh(bars, i) ==
    IF InDemand(bars, i) THEN HighOf(Prior(bars, i, 2 * Short)) ELSE -1
SupplyZoneLow(bars, i) ==
    IF InSupply(bars, i) THEN LowOf(Prior(bars, i, 2 * Short)) ELSE -1
SupplyZoneHigh(bars, i) ==
    IF InSupply(bars, i) THEN HighOf(Prior(bars, i, 2 * Short)) ELSE -1

Point(condition) == IF condition THEN 1 ELSE 0

(* A strong move counts twice; the score is capped at 6.                   *)
DemandZoneScore(bars, i) ==
    LET b == bars[i] IN
    IF i <= 2 * Short THEN 0
    ELSE Min({6, Point(Diff(bars, i) > 0)
                  + Point(100 * b.close > 101 * bars[i - 1].close)
                  + Point(VolumeAbove(bars, i, Long, 10))
                  + Point(RangeBelow(bars, i, Long, 10))
                  + Point(2 * b.close > b.high + b.low)
                  + Point(i > 2 /\ Diff(bars, i - 1) > 0)})
SupplyZoneScore(bars, i) ==
    LET b == bars[i] IN
    IF i <= 2 * Short THEN 0
    ELSE Min({6, Point(Diff(bars, i) < 0)
                  + Point(100 * b.close < 99 * bars[i - 1].close)
                  + Point(VolumeAbove(bars, i, Long, 10))
                  + Point(RangeBelow(bars, i, Long, 10))
                  + Point(2 * b.close < b.high + b.low)
                  + Point(i > 2 /\ Diff(bars, i - 1) < 0)})

ZoneFailureBullish(bars, i) ==
    /\ i > 2 * Medium
    /\ bars[i].close > HighOf(Prior(bars, i, Medium))
    /\ VolumeAbove(bars, i, Long, 12)
ZoneFailureBearish(bars, i) ==
    /\ i > 2 * Medium
    /\ bars[i].close < LowOf(Prior(bars, i, Medium))
    /\ VolumeAbove(bars, i, Long, 12)

-----------------------------------------------------------------------------
(* Smart-money patterns.                                                   *)

BullishFvg(bars, i) == i > 2 /\ bars[i - 2].high < bars[i].low
BearishFvg(bars, i) == i > 2 /\ bars[i - 2].low > bars[i].high

MoveSum(bars, i, n) ==
    SumSeq([j \in 1..n |-> AbsInt(Diff(bars, i - n + j))])

(* An impulse of twice the average move against the move before it.        *)
BullishOrderBlock(bars, i) ==
    /\ i > Short + 1
    /\ Short * Diff(bars, i) > 2 * MoveSum(bars, i, Short)
    /\ Diff(bars, i - 1) < 0
BearishOrderBlock(bars, i) ==
    /\ i > Short + 1
    /\ Short * (-Diff(bars, i)) > 2 * MoveSum(bars, i, Short)
    /\ Diff(bars, i - 1) > 0

BreakerBlockBullish(bars, i) ==
    /\ i > Medium + 2
    /\ Diff(bars, i - 2) < 0 /\ bars[i].close > bars[i - 2].high
BreakerBlockBearish(bars, i) ==
    /\ i > Medium + 2
    /\ Diff(bars, i - 2) > 0 /\ bars[i].close < bars[i - 2].low

(* The row before broke the extreme of the Short - 1 rows before it, and   *)
(* this close is back inside.                                              *)
LiquiditySweepHigh(bars, i) ==
    /\ i > Short + 2
    /\ LET level == HighOf(SubSeq(bars, i - Short, i - 2))
       IN  bars[i - 1].high > level /\ bars[i].close < level
LiquiditySweepLow(bars, i) ==
    /\ i > Short + 2
    /\ LET level == LowOf(SubSeq(bars, i - Short, i - 2))
       IN  bars[i - 1].low < level /\ bars[i].close > level

(* The swing points of the whole frame, and those confirmed by row i.      *)
FindSwings(bars) ==
    [highs |-> {p \in DOMAIN bars : HighPivot(bars, p, Swing)},
     lows |-> {p \in DOMAIN bars : LowPivot(bars, p, Swing)}]
(* Mutant: swings that are not confirmed yet are used. *)
ConfirmedUnfiltered(swings, i) == swings
Confirmed(swings, i) == {p \in swings : p + Swing <= i}

(* Break of structure: the last confirmed swing high is exceeded; 0 where  *)
(* none is.                                                                *)
BrokenHigh(bars, swings, i) ==
    LET known == Confirmed(swings.highs, i)
    IN  IF i > 2 * Swing /\ known /= {} /\ bars[i].high > bars[Max(known)].high
        THEN Max(known) ELSE 0

(* Change of character: after two confirmed highs, the last confirmed low  *)
(* gives way.                                                              *)
BrokenLow(bars, swings, i) ==
    LET lows == Confirmed(swings.lows, i)
    IN  IF /\ i > 2 * Swing /\ lows /= {}
           /\ Cardinality(Confirmed(swings.highs, i)) >= 2
           /\ bars[i].low < bars[Max(lows)].low
        THEN Max(lows) ELSE 0

(* The scan over the rows remembers the swing it broke last.               *)
LastBroken(breaks) ==
    LET last[i \in 0..Len(breaks)] ==
          IF i = 0 THEN 0
          ELSE IF breaks[i] = 0 THEN last[i - 1] ELSE breaks[i]
    IN  last

(* Each swing breaks once.                                                 *)
FiresOnce(breaks, i) == breaks[i] \notin {0, LastBroken(breaks)[i - 1]}

Bos(bars, i) ==
    LET swings == FindSwings(bars)
    IN  FiresOnce([k \in DOMAIN bars |-> BrokenHigh(bars, swings, k)], i)
Choch(bars, i) ==
    LET swings == FindSwings(bars)
    IN  FiresOnce([k \in DOMAIN bars |-> BrokenLow(bars, swings, k)], i)

(* The middle of the bar in the upper or lower quarter of the range of the *)
(* last Medium + 1 rows.                                                   *)
PremiumDiscountZone(bars, i) ==
    LET h == HighOf(Window(bars, i, Medium + 1))
        l == LowOf(Window(bars, i, Medium + 1))
        middle == 2 * (bars[i].high + bars[i].low)
    IN  IF i <= Medium THEN "equilibrium"
        ELSE IF middle > 3 * h + l THEN "premium"
        ELSE IF middle < h + 3 * l THEN "discount" ELSE "equilibrium"
=============================================================================
