--------------------------- MODULE VolumeProfile ---------------------------
(***************************************************************************)
(* The profile arithmetic of the strategy runtime as operators on          *)
(* sequences of bars: volume and market (TPO) profiles of a session, their *)
(* value areas, the rolling, composite and expanding variants, and the     *)
(* auction-state and AMT signals read off them.                            *)
(*                                                                         *)
(* A bar is [open, high, low, close, volume, day]; prices and volumes are  *)
(* integers.  Grid prices are integers in units of 1 / Unit of a price, so *)
(* that bucket centres and typical prices are exact.  The weight of a      *)
(* bucket is a tent instead of the normal density: it falls with the       *)
(* distance to the typical price, and it is zero where the double-         *)
(* precision exponential is (beyond about 38.6 sigma).  Profile volumes    *)
(* are integers in units of 1 / Grain.                                     *)
(***************************************************************************)
EXTENDS Rational, FiniteSets, FiniteSetsExt

CONSTANTS
    NumBuckets,       \* price buckets per profile
    Grain             \* fixed-point unit of distributed volume

ASSUME ProfileConstants == NumBuckets \in Nat \ {0} /\ Grain \in Nat \ {0}

NoLevels == [poc |-> -1, vah |-> -1, val |-> -1]

HighOf(bars) == Max({bars[i].high : i \in DOMAIN bars})
LowOf(bars) == Min({bars[i].low : i \in DOMAIN bars})
VolumeOf(bars) == SumSeq([i \in DOMAIN bars |-> bars[i].volume])
Lasts(s, n) == SubSeq(s, IF Len(s) < n THEN 1 ELSE Len(s) - n + 1, Len(s))

-----------------------------------------------------------------------------
(* The bucket grid: a session range widened by 2 % at both ends.           *)

Buckets == 0..(NumBuckets - 1)
Unit == 600 * NumBuckets

SessionBucketGrid(high, low) ==
    [size |-> 624 * (high - low),
     center |-> [k \in Buckets |->
         low * Unit - 12 * (high - low) * NumBuckets
            + 624 * (high - low) * k + 312 * (high - low)]]

(* Where the bar's density is not zero: 38.6 Parkinson sigmas, the         *)
(* logarithm of high / low by its first-order form.  The code divides a    *)
(* distance in price by this volatility, which has no price unit.          *)
ParkinsonReach(bar) ==
    (46 * Unit * (bar.high - bar.low)) \div (bar.high + bar.low)

TypicalPrice(bar) == (bar.high + bar.low + bar.close) * (Unit \div 3)

ArgMax(profile) ==
    Min({k \in Buckets : \A m \in Buckets : profile[m] <= profile[k]})

NearestBucket(grid, price) ==
    Min({k \in Buckets : \A m \in Buckets :
            AbsInt(grid.center[k] - price) <= AbsInt(grid.center[m] - price)})

ZeroProfile == [k \in Buckets |-> 0]

(* A bucket that the bar's range does not overlap keeps a tenth of its     *)
(* weight.                                                                 *)
DistributeBarVolume(bar, grid) ==
    LET tp == TypicalPrice(bar)
        Outside(k) == \/ 2 * grid.center[k] + grid.size < 2 * bar.low * Unit
                      \/ 2 * grid.center[k] - grid.size > 2 * bar.high * Unit
        weight == [k \in Buckets |->
            LET tent == ParkinsonReach(bar) - AbsInt(grid.center[k] - tp)
            IN  IF tent <= 0 THEN 0
                ELSE IF Outside(k) THEN tent \div 10 ELSE tent]
        total == FoldLeft(LAMBDA s, k : s + weight[k - 1], 0,
                          [k \in 1..NumBuckets |-> k])
    IN  IF bar.high <= bar.low \/ bar.low <= 0
        THEN [ZeroProfile EXCEPT ![NearestBucket(grid, tp)] =
                                     bar.volume * Grain]
        ELSE IF total <= 0 THEN ZeroProfile
        ELSE [k \in Buckets |->
                (weight[k] * bar.volume * Grain) \div total]

AddProfiles(a, b) == [k \in Buckets |-> a[k] + b[k]]

(* Each bar's volume lands on the grid; bars without volume are skipped.   *)
AggregateSessionVolume(bars, grid) ==
    FoldLeft(LAMBDA p, b : IF b.volume <= 0 THEN p
                           ELSE AddProfiles(p, DistributeBarVolume(b, grid)),
             ZeroProfile, bars)

-----------------------------------------------------------------------------
(* The value area: from the bucket of the point of control outwards, the   *)
(* larger neighbour first and upwards on a tie, until 68 % of the total.   *)

ExpandValueArea(profile, pocIdx, total) ==
    LET step[n \in 0..NumBuckets] ==
          IF n = 0 THEN <<pocIdx, pocIdx, profile[pocIdx]>>
          ELSE LET prev == step[n - 1]
                   lo == prev[1]
                   hi == prev[2]
                   acc == prev[3]
                   below == IF lo > 0 THEN profile[lo - 1] ELSE -1
                   above == IF hi < NumBuckets - 1 THEN profile[hi + 1]
                                                   ELSE -1
               IN  IF 100 * acc >= 68 * total
                        \/ (lo = 0 /\ hi = NumBuckets - 1)
                   THEN prev
                   ELSE IF below > above
                   THEN <<lo - 1, hi, acc + below>>
                   ELSE <<lo, hi + 1, acc + above>>
    IN  step[NumBuckets]

(* POC, VAH and VAL of an aggregated profile.                              *)
BuildVolumeProfileResult(profile, grid, total) ==
    LET poc == ArgMax(profile)
        area == ExpandValueArea(profile, poc, total)
    IN  [poc |-> grid.center[poc],
         vah |-> grid.center[area[2]] + grid.size \div 2,
         val |-> grid.center[area[1]] - grid.size \div 2]

(* A session without a range or without volume has levels of its own.      *)
SessionVolumeProfile(bars) ==
    LET high == HighOf(bars)
        low == LowOf(bars)
        grid == SessionBucketGrid(high, low)
    IN  IF bars = <<>> THEN [poc |-> 0, vah |-> 0, val |-> 0]
        ELSE IF high <= low
        THEN [poc |-> high * Unit, vah |-> high * Unit, val |-> low * Unit]
        ELSE IF VolumeOf(bars) <= 0
        THEN [poc |-> Last(bars).close * Unit, vah |-> high * Unit,
              val |-> low * Unit]
        ELSE BuildVolumeProfileResult(AggregateSessionVolume(bars, grid),
                                      grid, VolumeOf(bars) * Grain)

-----------------------------------------------------------------------------
(* Frames.  A column is a function from rows to values.                    *)

DaysOf(bars) == {bars[i].day : i \in DOMAIN bars}
SessionOf(bars, d) == SelectSeq(bars, LAMBDA b : b.day = d)

(* One profile per completed session, on all its rows.                     *)
AllSessionVolumeProfiles(bars) ==
    [i \in DOMAIN bars |-> SessionVolumeProfile(SessionOf(bars, bars[i].day))]

(* The live-parity form: the session from its open to the row.             *)
ExpandingSessionVolumeProfiles(bars) ==
    [i \in DOMAIN bars |->
        SessionVolumeProfile(SessionOf(SubSeq(bars, 1, i), bars[i].day))]

(* The sessions of the window of n that ends at day d, oldest first.       *)
SessionWindow(bars, d, n) ==
    Lasts(SetToSortSeq({e \in DaysOf(bars) : e <= d}, LAMBDA a, b : a < b), n)

Median(s) ==
    LET sorted == SortSeq(s, LAMBDA a, b : a < b)
        n == Len(s)
    IN  IF n % 2 = 1 THEN sorted[(n + 1) \div 2]
        ELSE (sorted[n \div 2] + sorted[n \div 2 + 1]) \div 2

(* Median over the last levels of the sessions of the window.              *)
RollingVp(bars, levels, window) ==
    [i \in DOMAIN bars |->
        LET days == SessionWindow(bars, bars[i].day, window)
            LastRow(d) == Max({j \in DOMAIN bars : bars[j].day = d})
            Med(F(_)) == Median([k \in DOMAIN days |->
                                    F(levels[LastRow(days[k])])])
        IN  IF Len(days) < window THEN NoLevels
            ELSE [poc |-> Med(LAMBDA l : l.poc),
                  vah |-> Med(LAMBDA l : l.vah),
                  val |-> Med(LAMBDA l : l.val)]]

(* All bars of the sessions of the window in one profile.                  *)
CompositeVp(bars, window) ==
    [i \in DOMAIN bars |->
        LET days == SessionWindow(bars, bars[i].day, window)
        IN  IF Len(days) < window THEN NoLevels
            ELSE SessionVolumeProfile(SelectSeq(bars,
                    LAMBDA b : \E k \in DOMAIN days : b.day = days[k]))]

(* The trailing window by ring buffer: the slot of the bar that leaves is  *)
(* subtracted before the new contribution takes it.                        *)
RingStepStale(ring, i, contribution, volume, window) ==
    LET slot == i % window
    IN  [profile |-> AddProfiles(ring.profile, contribution),
         volume |-> ring.volume + volume,
         contributions |-> [ring.contributions EXCEPT ![slot] = contribution],
         volumes |-> [ring.volumes EXCEPT ![slot] = volume]]
RingStep(ring, i, contribution, volume, window) ==
    LET slot == i % window
        gone == IF i >= window THEN ring.contributions[slot] ELSE ZeroProfile
        lost == IF i >= window THEN ring.volumes[slot] ELSE 0
    IN  [profile |-> [k \in Buckets |->
                        ring.profile[k] - gone[k] + contribution[k]],
         volume |-> ring.volume - lost + volume,
         contributions |-> [ring.contributions EXCEPT ![slot] = contribution],
         volumes |-> [ring.volumes EXCEPT ![slot] = volume]]

EmptyRing(window) ==
    [profile |-> ZeroProfile, volume |-> 0,
     contributions |-> [s \in 0..(window - 1) |-> ZeroProfile],
     volumes |-> [s \in 0..(window - 1) |-> 0]]

(* The one grid of the whole frame.                                        *)
GlobalBucketGrid(bars) == SessionBucketGrid(HighOf(bars), LowOf(bars))

RingAt(bars, i, window) ==
    LET grid == GlobalBucketGrid(bars)
        ring[n \in 0..Len(bars)] ==
          IF n = 0 THEN EmptyRing(window)
          ELSE RingStep(ring[n - 1], n - 1,
                        DistributeBarVolume(bars[n], grid), bars[n].volume,
                        window)
    IN  ring[i]

(* POC, VAH and VAL of a running profile; none without volume.             *)
ExtractPocVahVal(profile, grid, total) ==
    IF total <= 0 THEN NoLevels
    ELSE BuildVolumeProfileResult(profile, grid, total)

RollingWindowVp(bars, window) ==
    LET grid == GlobalBucketGrid(bars)
        flat == bars[1].close * Unit
    IN  [i \in DOMAIN bars |->
            IF Len(bars) < window \/ i < window THEN NoLevels
            ELSE IF HighOf(bars) <= LowOf(bars)
            THEN [poc |-> flat, vah |-> flat, val |-> flat]
            ELSE LET ring == RingAt(bars, i, window)
                 IN  ExtractPocVahVal(ring.profile, grid,
                                      ring.volume * Grain)]

-----------------------------------------------------------------------------
(* Market profile: a bar counts one TPO, or two when it lasts an hour, in  *)
(* every bucket its range overlaps; the total counts periods.              *)

CountTpos(bar, grid, perBar) ==
    [k \in Buckets |->
        IF /\ 2 * grid.center[k] + grid.size >= 2 * bar.low * Unit
           /\ 2 * grid.center[k] - grid.size <= 2 * bar.high * Unit
        THEN perBar ELSE 0]

(* Bars per TPO period from the distance of the first two bars in minutes; *)
(* 0 stands for hourly and longer bars.                                    *)
TpoBarsPerPeriod(minutes) ==
    CASE AbsInt(minutes - 5) < 2 -> 6
      [] AbsInt(minutes - 15) < 2 -> 2
      [] AbsInt(minutes - 30) < 2 -> 1
      [] minutes >= 55 -> 0
      [] OTHER -> 2

TpoProfile(bars, grid, perBar) ==
    FoldLeft(LAMBDA p, b : AddProfiles(p, CountTpos(b, grid, perBar)),
             ZeroProfile, bars)

SessionMarketProfile(bars, minutes) ==
    LET high == HighOf(bars)
        low == LowOf(bars)
        grid == SessionBucketGrid(high, low)
        perBar == IF TpoBarsPerPeriod(minutes) = 0 THEN 2 ELSE 1
        profile == TpoProfile(bars, grid, perBar)
    IN  IF high <= low
        THEN [poc |-> high * Unit, vah |-> high * Unit, val |-> low * Unit]
        ELSE BuildVolumeProfileResult(profile, grid, perBar * Len(bars))

AllSessionMarketProfiles(bars, minutes) ==
    [i \in DOMAIN bars |->
        SessionMarketProfile(SessionOf(bars, bars[i].day), minutes)]

-----------------------------------------------------------------------------
(* Where a close stands relative to its row's value area; without levels   *)
(* every comparison is false.                                              *)

AuctionState(close, l) ==
    LET c == close * Unit
        width == l.vah - l.val
        known == l /= NoLevels
    IN  [inside_value |-> known /\ c >= l.val /\ c <= l.vah,
         above_value |-> known /\ c > l.vah,
         below_value |-> known /\ c < l.val,
         at_poc |-> known /\ 100 * AbsInt(c - l.poc) <= 2 * width,
         near_vah |-> known /\ 10 * AbsInt(l.vah - c) <= width,
         near_val |-> known /\ 10 * AbsInt(c - l.val) <= width]

(* atr is a column of values in grid units, -1 where it is missing; the    *)
(* direction is the change over five rows.                                 *)
DetectBalance(bars, levels, atr, i) ==
    LET a == AuctionState(bars[i].close, levels[i])
        wide == /\ atr[i] >= 0
                /\ 2 * (levels[i].vah - levels[i].val) > 3 * atr[i]
                /\ i > 5
        trend == bars[i].close - bars[i - 5].close
    IN  CASE a.above_value -> "IMBALANCED_UP"
          [] a.below_value -> "IMBALANCED_DOWN"
          [] a.inside_value /\ wide /\ trend > 0 -> "IMBALANCED_UP"
          [] a.inside_value /\ wide /\ trend < 0 -> "IMBALANCED_DOWN"
          [] OTHER -> "BALANCED"

(* (C - L) / (H - L) against n / 10; a bar without range counts as 0.5.    *)
IbsBelow(b, n) == IF b.high > b.low THEN 10 * (b.close - b.low) < n * (b.high - b.low)
                                    ELSE 5 < n
IbsAbove(b, n) == IF b.high > b.low THEN 10 * (b.close - b.low) > n * (b.high - b.low)
                                    ELSE 5 > n

(* Rule 1: the previous close was outside its own value area, this one is  *)
(* inside.                                                                 *)
AcceptanceIntoValue(bars, levels, i) ==
    /\ i > 1
    /\ LET before == AuctionState(bars[i - 1].close, levels[i - 1])
       IN  before.above_value \/ before.below_value
    /\ AuctionState(bars[i].close, levels[i]).inside_value

(* Rule 2: near an edge and closed away from it.                           *)
RejectionFromEdge(bars, levels, i) ==
    LET a == AuctionState(bars[i].close, levels[i])
    IN  \/ a.near_vah /\ IbsBelow(bars[i], 3)
        \/ a.near_val /\ IbsAbove(bars[i], 7)

(* Rule 3: inside before, outside now.                                     *)
AcceptanceOutsideValue(bars, levels, i) ==
    /\ i > 1
    /\ AuctionState(bars[i - 1].close, levels[i - 1]).inside_value
    /\ LET a == AuctionState(bars[i].close, levels[i])
       IN  a.above_value \/ a.below_value

Sign(x) == IF x > 0 THEN 1 ELSE IF x < 0 THEN -1 ELSE 0

(* Rule 4: a strong move towards the POC on the previous row, reversed on  *)
(* this one.                                                               *)
PocRejection(bars, levels, atr, i) ==
    LET Change(j) == bars[j].close - bars[j - 1].close
        Strong(j) == /\ j > 1 /\ atr[j] >= 0
                     /\ Sign(Change(j))
                          = Sign(levels[j].poc - bars[j - 1].close * Unit)
                     /\ 2 * AbsInt(Change(j)) * Unit > atr[j]
        fromBelow == i > 2 /\ Change(i - 1) > 0
    IN  /\ AuctionState(bars[i].close, levels[i]).at_poc
        /\ i > 1 /\ Strong(i - 1)
        /\ \/ fromBelow /\ IbsBelow(bars[i], 3)
           \/ ~fromBelow /\ IbsAbove(bars[i], 7)

(* Rule 5: near an edge on two rows running, with elevated volume.         *)
EdgeVolumeBuilding(bars, levels, elevated, i) ==
    LET Near(j) == LET a == AuctionState(bars[j].close, levels[j])
                   IN  a.near_vah \/ a.near_val
    IN  i > 1 /\ Near(i) /\ Near(i - 1) /\ elevated[i]

(* The first row of a session against the row before it; the label holds   *)
(* for the session, and the first session has none.                        *)
ValueAreaMigration(bars, levels, i) ==
    LET first == Min({j \in 1..i : bars[j].day = bars[i].day})
        move == levels[first].poc - levels[first - 1].poc
    IN  IF first = 1 THEN "UNKNOWN"
        ELSE IF move > 0 THEN "HIGHER"
        ELSE IF move < 0 THEN "LOWER" ELSE "STABLE"

-----------------------------------------------------------------------------
(* The shape of a session's profile.  Buckets without volume are dropped   *)
(* before the shape is read, so positions are those of the rest.           *)

NonEmpty(profile) ==
    SelectSeq([k \in 1..NumBuckets |-> profile[k - 1]], LAMBDA v : v > 0)

ProfileShape(volumes, total, average, MinBuckets) ==
    LET n == Len(volumes)
        poc == Min({k \in 1..n : \A m \in 1..n : volumes[m] <= volumes[k]})
        bimodal == \E k \in 1..n :
                      /\ k /= poc /\ AbsInt(k - poc) >= (n * 15) \div 100
                      /\ 2 * volumes[k] > volumes[poc]
    IN  IF total <= 0 \/ n < MinBuckets \/ 2 * total < average
        THEN "NEUTRAL"
        ELSE IF bimodal THEN "B_SHAPE"
        ELSE IF 10 * (poc - 1) < 3 * (n - 1) THEN "P_SHAPE"
        ELSE IF 10 * (poc - 1) > 7 * (n - 1) THEN "D_SHAPE"
        ELSE "NORMAL"

(* One shape per session once there are MinSessions of them; the average   *)
(* is over the sessions before.                                            *)
AllProfileShapes(bars, MinSessions, Lookback, MinBuckets) ==
    [i \in DOMAIN bars |->
        LET session == SessionOf(bars, bars[i].day)
            days == SessionWindow(bars, bars[i].day - 1, Lookback)
            recent == [k \in DOMAIN days |->
                        VolumeOf(SessionOf(bars, days[k]))]
            average == IF recent = <<>> THEN 0
                       ELSE FoldLeft(LAMBDA s, v : s + v, 0, recent)
                                \div Len(recent)
            grid == SessionBucketGrid(HighOf(session), LowOf(session))
            volumes == NonEmpty(AggregateSessionVolume(session, grid))
        IN  IF \/ Cardinality(DaysOf(bars)) < MinSessions
               \/ HighOf(session) <= LowOf(session)
               \/ VolumeOf(session) <= 0 \/ volumes = <<>>
            THEN "NaN"
            ELSE ProfileShape(volumes, VolumeOf(session), average,
                              MinBuckets)]
=============================================================================
