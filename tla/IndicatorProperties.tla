------------------------- MODULE IndicatorProperties -------------------------
(***************************************************************************)
(* What the streaming values and the batch signals promise, stated over    *)
(* the primary bars since the last reset.  The references are written from *)
(* the definitions of the indicators, not from their online states.        *)
(***************************************************************************)
EXTENDS CausalEnrichment

Seen == Len(history)
Value(name) == IF name \in DOMAIN primary.latest.values
               THEN primary.latest.values[name] ELSE NaN
SumOf(F(_), bars) == FoldLeft(LAMBDA s, b : s + F(b), 0, bars)
Closes(bars) == SumOf(LAMBDA b : b.close, bars)
Today == SessionOf(history, history[Seen].day)

-----------------------------------------------------------------------------
(* References.                                                             *)

MeanClose(p) == IF Seen < p THEN NaN ELSE Rat(Closes(Lasts(history, p)), p)

(* The sample variance of the last p closes.                               *)
VarianceOf(p) ==
    LET window == Lasts(history, p)
        mean == Closes(window)
    IN  IF Seen < p THEN NaN
        ELSE Rat(SumOf(LAMBDA b : (p * b.close - mean) * (p * b.close - mean),
                       window), p * p * (p - 1))

(* Weighted sum over the past: the mean of the first p values and then     *)
(* every later one with its decayed weight.                                *)
Decayed(values, p, alpha) ==
    LET Power(k) == FoldLeft(LAMBDA q, i : RMul(q, RSub(Num(1), alpha)),
                             Num(1), [i \in 1..k |-> i])
        m == Len(values)
        seed == RMul(RSum(SubSeq(values, 1, p)), Rat(1, p))
    IN  IF m < p THEN NaN
        ELSE RAdd(RMul(Power(m - p), seed),
                  RSum([k \in 1..(m - p) |->
                     RMul(RMul(alpha, Power(m - p - k)), values[p + k])]))

TrueRangeAt(k) ==
    Num(TrueRange(history[k],
                  IF k = 1 THEN NaN ELSE Num(history[k - 1].close)))

(* Path over distance of the last p moves.                                 *)
Efficiency(p) ==
    LET path == MoveSum(history, Seen, p)
    IN  IF Seen <= p THEN NaN
        ELSE IF path = 0 THEN Num(0)
        ELSE Rat(AbsInt(history[Seen].close - history[Seen - p].close), path)

(* Gains and losses smoothed with weight 1 / p from the first change on.   *)
RelativeStrength(p) ==
    LET Gain(k) == Num(Max({Diff(history, k + 1), 0}))
        Loss(k) == Num(Max({-Diff(history, k + 1), 0}))
        Mean(F(_)) == Decayed([k \in 1..(Seen - 1) |-> F(k)], 1, Rat(1, p))
        total == RAdd(Mean(Gain), Mean(Loss))
    IN  IF Seen < 2 THEN NaN
        ELSE IF Mean(Loss)[1] = 0 THEN Num(100)
        ELSE RMul(Num(100), RDiv(Mean(Gain), total))

(* Every streaming value is what its definition gives on the bars since    *)
(* the last reset, so no window keeps a bar it should have dropped and no  *)
(* reset or session change leaves anything behind.                         *)
StreamMatchesDefinition ==
    history /= <<>> =>
        \A name \in Requested :
            LET p == IF name.n >= 2 THEN name.n
                     ELSE FamilyPeriod(CanonicalFamily(name))
            IN  CASE name.base = "sma" -> Value(name) = MeanClose(p)
                  [] name.base = "bb_middle" -> Value(name) = MeanClose(p)
                  [] name.base = "bb_upper" -> Value(name) = VarianceOf(p)
                  [] name.base = "rvol" ->
                        Value(name) =
                          IF Seen < p THEN NaN
                          ELSE Rat(p * history[Seen].volume,
                                   VolumeOf(Lasts(history, p)))
                  [] name.base = "ema" ->
                        Value(name) = Decayed([k \in 1..Seen |->
                                                 Num(history[k].close)],
                                              p, Rat(2, p + 1))
                  [] name.base = "atr" ->
                        Value(name) = Decayed([k \in 1..Seen |->
                                                 TrueRangeAt(k)],
                                              p, Rat(1, p))
                  [] name.base = "rsi" -> Value(name) = RelativeStrength(p)
                  [] name.base = "ker" -> Value(name) = Efficiency(p)
                  [] name.base = "vwap" ->
                        Value(name) = Rat(SumOf(LAMBDA b : Tp3(b) * b.volume,
                                                Today), 3 * VolumeOf(Today))
                  [] OTHER -> TRUE

(* Values stay in their ranges: oscillators in 0..100 and ratios in 0..1,  *)
(* averages between the lowest low and the highest high, and the value     *)
(* area around its point of control.                                       *)
ValuesBounded ==
    history /= <<>> =>
        /\ \A name \in Requested :
             LET v == Value(name)
                 Within(lo, hi) == IsNaN(v) \/ (/\ lo <= v[1] \div v[2]
                                                /\ (-v[1]) \div v[2] >= -hi)
             IN  CASE name.base \in {"rsi", "adx"} -> Within(0, 100)
                   [] name.base \in {"ker", "ibs"} -> Within(0, 1)
                   [] name.base \in {"sma", "ema", "kama", "vwap",
                                     "bb_middle"} ->
                        Within(LowOf(history), HighOf(history))
                   [] name.base = "bb_upper" -> IsNaN(v) \/ v[1] >= 0
                   [] OTHER -> TRUE
        /\ LET l == SessionVpLevels(primary.vp)
           IN  l /= NoLevels => l.val <= l.poc /\ l.poc <= l.vah
        /\ LET Level(r) == FibRetrace(history, Seen, r)
               swing == LastCompletedSwing(history)
           IN  Level(500) /= -1 =>
                 /\ \A r \in {382, 500, 618} :
                      /\ 1000 * swing[1].low <= Level(r)
                      /\ Level(r) <= 1000 * swing[1].high
                 /\ swing[1].uptrend <=> Level(618) < Level(382)
                 /\ swing[1].uptrend <=>
                      FibExtension(history, Seen, 618) > Level(382)
                 /\ FibConfluenceScore(history, Seen) \in 0..4

-----------------------------------------------------------------------------
(* Profiles.                                                               *)

(* The session profile grown bar by bar is the one of the whole session so *)
(* far, redistributed whenever a bar widens the range, and its levels are  *)
(* the batch ones wherever the session has range and volume.               *)
SessionStateExact ==
    HasSessionVp /\ history /= <<>> =>
        LET grid == SessionBucketGrid(HighOf(Today), LowOf(Today))
        IN  /\ primary.vp.bars = Today
            /\ HighOf(Today) > LowOf(Today) =>
                 /\ primary.vp.profile = AggregateSessionVolume(Today, grid)
                 /\ primary.vp.total = VolumeOf(Today)
                 /\ VolumeOf(Today) > 0 =>
                      SessionVpLevels(primary.vp)
                        = ExpandingSessionVolumeProfiles(history)[Seen]

(* Together, with the buffers within their limits: every value streamed on *)
(* a bar is the one its definition gives, and in its range.                *)
StreamExact ==
    TypeOK /\ StreamMatchesDefinition /\ ValuesBounded /\ SessionStateExact

(* A value area is an interval of buckets around the point of control that *)
(* holds its share of the total or the whole grid; shrunk by its last      *)
(* bucket, on the side it grew last, it would not.  It grows upwards when  *)
(* both neighbours are equal.                                              *)
AreaSound(profile, total) ==
    LET poc == ArgMax(profile)
        area == ExpandValueArea(profile, poc, total)
        Sum(lo, hi) == FoldLeft(LAMBDA s, k : s + profile[k], 0,
                                [k \in 1..(hi - lo + 1) |-> lo + k - 1])
        Enough(v) == 100 * v >= 68 * total
    IN  /\ area[1] <= poc /\ poc <= area[2]
        /\ area[3] = Sum(area[1], area[2])
        /\ Enough(area[3]) \/ area[2] - area[1] = NumBuckets - 1
        /\ area[1] < area[2] =>
             \/ area[1] < poc /\ ~Enough(Sum(area[1] + 1, area[2]))
             \/ area[2] > poc /\ ~Enough(Sum(area[1], area[2] - 1))
        /\ (area[1] = poc - 1 /\ area[2] = poc /\ poc < NumBuckets - 1) =>
             profile[poc - 1] > profile[poc + 1]
ValueAreaSound ==
    history /= <<>> /\ HighOf(Today) > LowOf(Today) =>
        LET grid == SessionBucketGrid(HighOf(Today), LowOf(Today))
        IN  /\ VolumeOf(Today) > 0 =>
                 AreaSound(AggregateSessionVolume(Today, grid),
                           VolumeOf(Today) * Grain)
            /\ \A minutes \in {5, 30, 60} :
                 AreaSound(TpoProfile(Today, grid,
                              IF TpoBarsPerPeriod(minutes) = 0 THEN 2 ELSE 1),
                           Len(Today))

(* After any number of evictions the ring holds the profile and the volume *)
(* of exactly the last bars of its window.                                 *)
RingExact ==
    history /= <<>> =>
        \A window \in {2, 3} :
            LET ring == RingAt(history, Seen, window)
                kept == Lasts(history, window)
            IN  /\ ring.profile = AggregateSessionVolume(kept,
                                     GlobalBucketGrid(history))
                /\ ring.volume = VolumeOf(kept)

-----------------------------------------------------------------------------
(* Signals.                                                                *)

(* The signals of one row, without those that look at the whole frame: the *)
(* Fibonacci levels, drawn from the last swing of the frame, and the day   *)
(* types, which describe a whole day.                                      *)
SignalRow(bars, i) ==
    <<SwingHighN(bars, i, Swing), SwingLowN(bars, i, Swing),
      HhHlPattern(bars, i), LhLlPattern(bars, i),
      VolumeTrendConfirmation(bars, i), TrendPhase(bars, i),
      <<DemandZoneLow(bars, i), DemandZoneHigh(bars, i),
        SupplyZoneLow(bars, i), SupplyZoneHigh(bars, i),
        DemandZoneScore(bars, i), SupplyZoneScore(bars, i)>>,
      ZoneFailureBullish(bars, i), ZoneFailureBearish(bars, i),
      BullishFvg(bars, i), BearishFvg(bars, i),
      BullishOrderBlock(bars, i), BearishOrderBlock(bars, i),
      BreakerBlockBullish(bars, i), BreakerBlockBearish(bars, i),
      LiquiditySweepHigh(bars, i), LiquiditySweepLow(bars, i),
      Bos(bars, i), Choch(bars, i), PremiumDiscountZone(bars, i),
      NoDemand(bars, i), NoSupply(bars, i), StoppingVolume(bars, i),
      ClimaxVolume(bars, i), EffortToRise(bars, i), EffortToFall(bars, i),
      EffortResultDivergence(bars, i), BagHolding(bars, i),
      Shakeout(bars, i), VsaTestSignal(bars, i),
      AwesomeOscillator(bars, i), AcceleratorOscillator(bars, i),
      AlligatorStatus(AlligatorLines(bars, i)),
      WilliamsFractalHigh(bars, i), WilliamsFractalLow(bars, i),
      ZoneSignal(bars, i)>>

(* No signal of a row changes when later bars arrive: what a backtest saw  *)
(* on a row is what it would have been shown live.                         *)
SignalsCausal ==
    Seen > 1 => \A i \in 1..(Seen - 1) :
                SignalRow(history, i) = SignalRow(SubSeq(history, 1, i), i)

(* Bullish and bearish forms are mirror images: on the bars turned upside  *)
(* down each gives what the other gives on the bars.                       *)
Mirrored(bars) ==
    LET c == HighOf(bars) + LowOf(bars)
    IN  [i \in DOMAIN bars |->
           [bars[i] EXCEPT !.open = c - @, !.close = c - @,
                           !.high = c - bars[i].low, !.low = c - bars[i].high]]
PatternsMirror ==
    history /= <<>> =>
        LET m == Mirrored(history) IN
        /\ SwingHighN(history, Seen, Swing) <=> SwingLowN(m, Seen, Swing)
        /\ HhHlPattern(history, Seen) <=> LhLlPattern(m, Seen)
        /\ ZoneFailureBullish(history, Seen) <=> ZoneFailureBearish(m, Seen)
        /\ InDemand(history, Seen) <=> InSupply(m, Seen)
        /\ BullishFvg(history, Seen) <=> BearishFvg(m, Seen)
        /\ BullishOrderBlock(history, Seen) <=> BearishOrderBlock(m, Seen)
        /\ BreakerBlockBullish(history, Seen) <=> BreakerBlockBearish(m, Seen)
        /\ LiquiditySweepHigh(history, Seen) <=> LiquiditySweepLow(m, Seen)
        /\ EffortToRise(history, Seen) <=> EffortToFall(m, Seen)

(* Together: a signal is settled when its row is, and treats rises and     *)
(* falls alike.                                                            *)
SignalsSound == SignalsCausal /\ PatternsMirror

-----------------------------------------------------------------------------
(* Signals and profiles over sessions.                                     *)

(* A column as the sequence of its values, each computed once.             *)
Column(rows) == SubSeq(rows, 1, Len(rows))

(* A rule says of bars and levels what it says of their mirror image.      *)
RulesMirror(m, up, down) ==
    LET atr == [j \in DOMAIN up |-> RangeOf(history[j]) * Unit]
        flip == [BALANCED |-> "BALANCED",
                 IMBALANCED_UP |-> "IMBALANCED_DOWN",
                 IMBALANCED_DOWN |-> "IMBALANCED_UP"]
        Same(Rule(_, _, _)) == Rule(history, up, Seen) = Rule(m, down, Seen)
    IN  /\ Same(AcceptanceIntoValue)
        /\ Same(AcceptanceOutsideValue)
        /\ Same(RejectionFromEdge)
        /\ Same(LAMBDA b, l, k : PocRejection(b, l, atr, k))
        /\ Same(LAMBDA b, l, k : EdgeVolumeBuilding(b, l,
                       [j \in DOMAIN b |-> b[j].volume > 1], k))
        /\ DetectBalance(m, down, atr, Seen)
             = flip[DetectBalance(history, up, atr, Seen)]

(* Levels turned upside down.                                              *)
LevelsOver(levels, c) ==
    [j \in DOMAIN levels |->
        [poc |-> c - levels[j].poc, vah |-> c - levels[j].val,
         val |-> c - levels[j].vah]]

(* The signals at the levels of a profile are mirror images too, with the  *)
(* levels turned upside down.                                              *)
LevelsMirror ==
    Seen > 1 =>
        LET up == Column(ExpandingSessionVolumeProfiles(history))
            c == (HighOf(history) + LowOf(history)) * Unit
        IN  RulesMirror(Mirrored(history), up, Column(LevelsOver(up, c)))

(* Shapes wait for a number of sessions, five in the code.  The slope of   *)
(* the phase needs at least as many: the window, twenty in the code, and   *)
(* the session itself.                                                     *)
MinSessions == 2
SlopeSessions == 1

(* What a batch says of a row in terms of sessions.                        *)
RowAt(bars, levels, shapes, i) ==
    LET atr == [j \in DOMAIN bars |-> RangeOf(bars[j]) * Unit]
        balance == [j \in DOMAIN bars |-> DetectBalance(bars, levels, atr, j)]
        rvol == [j \in DOMAIN bars |-> Rat(bars[j].volume, 2)]
    IN  [shape |-> shapes[i],
         others |->
           <<levels[i], AllSessionMarketProfiles(bars, 30)[i],
             RollingVp(bars, levels, 2)[i], CompositeVp(bars, 2)[i],
             ValueAreaMigration(bars, levels, i),
             PocSlope(bars, levels, i, SlopeSessions),
             VwapSessionBands(bars, i),
             ClassifyWyckoffPhase(bars, levels, balance, shapes, rvol, i,
                                  SlopeSessions)>>]
SessionRow(bars, i) ==
    RowAt(bars, Column(AllSessionVolumeProfiles(bars)),
          Column(AllProfileShapes(bars, MinSessions, 2, 2)), i)

(* Once a session is complete, what its last row says of it and of the     *)
(* sessions before is settled: profiles, their rolling and composite       *)
(* forms, migration, slope and phase do not change when later sessions     *)
(* arrive.  The shape is settled from the least number of sessions on;     *)
(* before, the row has none, and is given one when the last of them        *)
(* arrives.                                                                *)
Settled(then, now, sessions) ==
    /\ then.others = now.others
    /\ then.shape = IF sessions < MinSessions THEN "NaN" ELSE now.shape
SessionsSettle ==
    history /= <<>> =>
        \A i \in 1..(Seen - 1) :
            LET known == SubSeq(history, 1, i)
            IN  history[i].day < history[i + 1].day =>
                  Settled(SessionRow(known, i), SessionRow(history, i),
                          Cardinality(DaysOf(known)))

(* Together: profiles hold the volume they should and do not change once   *)
(* their session is over, shapes after their least number of sessions, and *)
(* levels are read alike from both sides.                                  *)
ProfileSound == ValueAreaSound /\ RingExact /\ SessionsSettle /\ LevelsMirror
=============================================================================
