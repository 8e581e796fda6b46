--------------------------- MODULE StreamingStates ---------------------------
(***************************************************************************)
(* The online states of the streaming indicators: one record per state     *)
(* object, one operator per `update`, one per value read from it.          *)
(*                                                                         *)
(* Values are exact rationals.  A deque of bounded length is a sequence;   *)
(* appending to a full one drops its oldest entry.  The Bollinger          *)
(* deviation is kept as its square.                                        *)
(***************************************************************************)
EXTENDS Rational, FiniteSetsExt

CONSTANTS
    MacdFast, MacdSlow, MacdSignal,   \* the three EMA periods of MACD
    KamaFast, KamaSlow                \* the smoothing periods of KAMA

ASSUME StreamingConstants ==
    /\ {MacdFast, MacdSlow, MacdSignal} \subseteq Nat \ {0, 1}
    /\ {KamaFast, KamaSlow} \subseteq Nat \ {0}

-----------------------------------------------------------------------------
(* What the states share.                                                  *)

(* alpha * x + (1 - alpha) * y, the smoothing step every state shares.     *)
Blend(alpha, x, y) == RAdd(RMul(alpha, x), RMul(RSub(Num(1), alpha), y))

Push(deque, x, maxlen) ==
    IF Len(deque) = maxlen THEN Append(Tail(deque), x) ELSE Append(deque, x)

AtLeast(n, period) == IF period < n THEN n ELSE period

-----------------------------------------------------------------------------
(* Running sums over a window: SMA, relative volume, Bollinger bands.      *)

SmaInit(period) == [period |-> AtLeast(1, period), buffer |-> <<>>, sum |-> 0]

SmaUpdate(s, bar) ==
    LET old == IF Len(s.buffer) = s.period THEN s.buffer[1] ELSE 0
    IN  [s EXCEPT !.buffer = Push(s.buffer, bar.close, s.period),
                  !.sum = s.sum - old + bar.close]
SmaValue(s) ==
    IF Len(s.buffer) < s.period THEN NaN ELSE Rat(s.sum, Len(s.buffer))

RvolInit(period) == [period |-> AtLeast(1, period), buffer |-> <<>>, sum |-> 0]
RvolUpdate(s, bar) ==
    LET old == IF Len(s.buffer) = s.period THEN s.buffer[1] ELSE 0
    IN  [s EXCEPT !.buffer = Push(s.buffer, bar.volume, s.period),
                  !.sum = s.sum - old + bar.volume]
RvolValue(s) ==
    IF Len(s.buffer) < s.period \/ s.sum = 0 THEN NaN
    ELSE Rat(Last(s.buffer) * Len(s.buffer), s.sum)

BbInit(period) ==
    [period |-> AtLeast(2, period), buffer |-> <<>>, sum |-> 0, sumSq |-> 0]
BbUpdate(s, bar) ==
    LET old == IF Len(s.buffer) = s.period THEN s.buffer[1] ELSE 0
    IN  [s EXCEPT !.buffer = Push(s.buffer, bar.close, s.period),
                  !.sum = s.sum - old + bar.close,
                  !.sumSq = s.sumSq - old * old + bar.close * bar.close]

BbMiddle(s) ==
    IF Len(s.buffer) < s.period THEN NaN ELSE Rat(s.sum, Len(s.buffer))

(* The population variance from the two sums, turned into the sample one;  *)
(* the bands are the middle plus and minus twice its root.                 *)
BbVariance(s) ==
    LET n == Len(s.buffer)
        mean == Rat(s.sum, n)
        population == RSub(Rat(s.sumSq, n), RMul(mean, mean))
    IN  IF n < s.period THEN NaN
        ELSE IF population[1] < 0 THEN Num(0)
        ELSE RMul(population, Rat(n, n - 1))

-----------------------------------------------------------------------------
(* Recursive averages: EMA, RSI, ATR, ADX.                                 *)

EmaInit(period) ==
    [period |-> AtLeast(2, period), seed |-> <<>>, seeded |-> FALSE,
     ema |-> NaN]

(* The first `period` values are averaged, the next ones smoothed.         *)
EmaUpdate(s, x) ==
    IF s.seeded
    THEN [s EXCEPT !.ema = Blend(Rat(2, s.period + 1), x, s.ema)]
    ELSE LET seed == Append(s.seed, x)
             full == Len(seed) = s.period
         IN  [s EXCEPT !.seed = seed,
                       !.seeded = full,
                       !.ema = IF full THEN RMul(RSum(seed), Rat(1, s.period))
                               ELSE @]

RsiInit(period) ==
    [period |-> AtLeast(2, period), prevClose |-> NaN, avgGain |-> NaN,
     avgLoss |-> NaN]

RsiUpdate(s, bar) ==
    LET close == Num(bar.close)
        change == RSub(close, s.prevClose)
        gain == IF change[1] > 0 THEN change ELSE Num(0)
        loss == IF change[1] < 0 THEN RNeg(change) ELSE Num(0)
        alpha == Rat(1, s.period)
    IN  IF IsNaN(s.prevClose) THEN [s EXCEPT !.prevClose = close]
        ELSE IF IsNaN(s.avgGain)
        THEN [s EXCEPT !.prevClose = close, !.avgGain = gain, !.avgLoss = loss]
        ELSE [s EXCEPT !.prevClose = close,
                       !.avgGain = Blend(alpha, gain, s.avgGain),
                       !.avgLoss = Blend(alpha, loss, s.avgLoss)]

RsiValue(s) ==
    IF IsNaN(s.avgGain) THEN NaN
    ELSE IF s.avgLoss[1] = 0 THEN Num(100)
    ELSE LET rs == RDiv(s.avgGain, s.avgLoss)
         IN  RSub(Num(100), RDiv(Num(100), RAdd(Num(1), rs)))

(* prevClose is NaN before the first bar, whose range stands alone.        *)
TrueRange(bar, prevClose) ==
    IF IsNaN(prevClose) THEN bar.high - bar.low
    ELSE Max({bar.high - bar.low, AbsInt(bar.high - prevClose[1]),
              AbsInt(bar.low - prevClose[1])})

AtrInit(period) ==
    [period |-> AtLeast(1, period), prevClose |-> NaN, seed |-> <<>>,
     seeded |-> FALSE, atr |-> NaN]

(* The first bar only fills the seed buffer, whatever the period.          *)
AtrUpdate(s, bar) ==
    LET tr == Num(TrueRange(bar, s.prevClose))
        seed == Push(s.seed, tr, s.period)
        full == ~IsNaN(s.prevClose) /\ Len(seed) = s.period
    IN  IF s.seeded
        THEN [s EXCEPT !.prevClose = Num(bar.close),
                       !.atr = Blend(Rat(1, s.period), tr, s.atr)]
        ELSE [s EXCEPT !.prevClose = Num(bar.close),
                       !.seed = seed,
                       !.seeded = full,
                       !.atr = IF full THEN RMul(RSum(seed), Rat(1, s.period))
                               ELSE @]

AdxInit(period) ==
    [period |-> AtLeast(2, period), prev |-> <<>>, seed |-> <<>>,
     smooth |-> <<NaN, NaN, NaN>>, dx |-> <<>>, adx |-> NaN]

Share(s, k) == IF s.smooth[3][1] = 0 THEN Num(0)
               ELSE RDiv(RMul(Num(100), s.smooth[k]), s.smooth[3])
Dx(plus, minus) ==
    IF RAdd(plus, minus)[1] = 0 THEN Num(0)
    ELSE RDiv(RMul(Num(100), RAbs(RSub(plus, minus))), RAdd(plus, minus))

(* The DX of the smoothed movements and its average: a mean of the first   *)
(* `period` values, smoothed from then on.                                 *)
AverageDx(s, dx) ==
    LET values == Push(s.dx, dx, s.period)
    IN  [s EXCEPT !.dx = values,
                  !.adx = IF ~IsNaN(@) THEN Blend(Rat(1, s.period), dx, @)
                          ELSE IF Len(values) = s.period
                          THEN RMul(RSum(values), Rat(1, s.period))
                          ELSE @]
UpdateAdx(s) ==
    AverageDx(s, Dx(Share(s, 1), Share(s, 2)))

(* prev is the bar before; seed holds <<+DM, -DM, TR>> until `period` of   *)
(* them are averaged.                                                      *)
AdxUpdate(s, bar) ==
    LET last == s.prev[1]
        up == bar.high - last.high
        down == last.low - bar.low
        moves == <<IF up > down /\ up > 0 THEN up ELSE 0,
                   IF down > up /\ down > 0 THEN down ELSE 0,
                   TrueRange(bar, Num(last.close))>>
        seed == Append(s.seed, moves)
        Mean(k) == Rat(FoldLeft(LAMBDA a, m : a + m[k], 0, seed), s.period)
        next == [s EXCEPT !.prev = <<bar>>]
        smoothing == Len(s.seed) = s.period
    IN  IF s.prev = <<>> THEN next
        ELSE IF ~smoothing /\ Len(seed) < s.period
        THEN [next EXCEPT !.seed = seed]
        ELSE UpdateAdx([next EXCEPT
                 !.seed = IF smoothing THEN @ ELSE seed,
                 !.smooth = [k \in 1..3 |->
                     IF smoothing
                     THEN Blend(Rat(1, s.period), Num(moves[k]), @[k])
                     ELSE Mean(k)]])

-----------------------------------------------------------------------------
(* Efficiency ratio and what is built on it; MACD on three EMAs.           *)

KerInit(period) ==
    [period |-> AtLeast(2, period), closes |-> <<>>, changes |-> <<>>,
     sum |-> 0]

KerUpdate(s, bar) ==
    LET change == AbsInt(bar.close - Last(s.closes))
        old == IF Len(s.changes) = s.period THEN s.changes[1] ELSE 0
    IN  IF s.closes = <<>> THEN [s EXCEPT !.closes = <<bar.close>>]
        ELSE [s EXCEPT !.closes = Push(s.closes, bar.close, s.period + 1),
                       !.changes = Push(s.changes, change, s.period),
                       !.sum = s.sum - old + change]
KerValue(s) ==
    LET move == AbsInt(Last(s.closes) - s.closes[1])
    IN  IF Len(s.closes) < s.period + 1 THEN NaN
        ELSE IF s.sum = 0 THEN (IF move = 0 THEN Num(0) ELSE NaN)
        ELSE Rat(move, s.sum)

KamaInit(period) == [ker |-> KerInit(period), kama |-> NaN]
KamaUpdate(s, bar) ==
    LET ker == KerUpdate(s.ker, bar)
        er == KerValue(ker)
        fast == Rat(2, KamaFast + 1)
        slow == Rat(2, KamaSlow + 1)
        root == RAdd(RMul(er, RSub(fast, slow)), slow)
        close == Num(bar.close)
    IN  [ker |-> ker,
         kama |-> IF IsNaN(er) THEN s.kama
                  ELSE IF IsNaN(s.kama) THEN close
                  ELSE Blend(RMul(root, root), close, s.kama)]

MacdInit ==
    [fast |-> EmaInit(MacdFast), slow |-> EmaInit(MacdSlow),
     signal |-> EmaInit(MacdSignal), macd |-> NaN, signalVal |-> NaN]

(* The signal line only sees bars on which both averages are warm.         *)
MacdSignalled(s, macd, signal) ==
    [s EXCEPT !.signal = signal, !.macd = macd, !.signalVal = signal.ema]
MacdLines(s) ==
    LET macd == RSub(s.fast.ema, s.slow.ema)
    IN  IF IsNaN(s.fast.ema) \/ IsNaN(s.slow.ema) THEN s
        ELSE MacdSignalled(s, macd, EmaUpdate(s.signal, macd))
MacdUpdate(s, bar) ==
    MacdLines([s EXCEPT !.fast = EmaUpdate(@, Num(bar.close)),
                        !.slow = EmaUpdate(@, Num(bar.close))])
MacdHist(s) == IF IsNaN(s.macd) \/ IsNaN(s.signalVal) THEN NaN
               ELSE RSub(s.macd, s.signalVal)

-----------------------------------------------------------------------------
(* Session VWAP: cumulative over the bars of one date.                     *)

VwapInit == [pv |-> 0, vol |-> 0, lastDate |-> 0]

VwapUpdate(s, bar) ==
    LET new == s.lastDate /= 0 /\ bar.day /= s.lastDate
        pv == IF new THEN 0 ELSE s.pv
        vol == IF new THEN 0 ELSE s.vol
    IN  IF bar.volume <= 0
        THEN [pv |-> pv, vol |-> vol, lastDate |-> bar.day]
        ELSE [pv |-> pv + (bar.high + bar.low + bar.close) * bar.volume,
              vol |-> vol + bar.volume, lastDate |-> bar.day]
VwapValue(s) == IF s.vol = 0 THEN NaN ELSE Rat(s.pv, 3 * s.vol)

IbsUpdate(bar) ==
    IF bar.high = bar.low THEN NaN
    ELSE Rat(bar.close - bar.low, bar.high - bar.low)
=============================================================================
