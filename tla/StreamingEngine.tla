--------------------------- MODULE StreamingEngine ---------------------------
(***************************************************************************)
(* StreamingIndicatorEngine: one engine is a record that holds the state   *)
(* objects of the indicators it was built for, and EngineUpdate and        *)
(* EngineReset are its `update` and `reset`.                               *)
(*                                                                         *)
(* An indicator name is a record [base, n]: sma_20 is [base |-> "sma",     *)
(* n |-> 20], and n is 0 where the name carries no number.  Every value    *)
(* read from the engine is a rational; flags are 0 and 1, labels are       *)
(* coded, levels are in grid units.                                        *)
(***************************************************************************)
EXTENDS StreamingStates, SignalFamilies

CONSTANTS
    Indicators,          \* the requested names, in order
    MinBars,             \* 10 in the code
    WindowFloor,         \* 50 in the code
    SessionCountWindow,  \* 500 in the code
    BarsPerSession,      \* of the engine's window resolver; 0 without one
    WyckoffSessions,     \* 20 in the code
    DefaultPeriod,       \* of the states without a number in their name
    KerPeriod            \* of ker and kama; 10 in the code

ASSUME EngineConstants ==
    /\ Indicators \in Seq([base : STRING, n : Nat])
    /\ {MinBars, WindowFloor, SessionCountWindow, WyckoffSessions,
        DefaultPeriod, KerPeriod} \subseteq Nat \ {0}
    /\ BarsPerSession \in Nat

Requested == {Indicators[k] : k \in DOMAIN Indicators}

-----------------------------------------------------------------------------
(* Names.  Each set holds representatives of the code's: one name per      *)
(* shape of computation.                                                   *)

VpRootNames == {"vp_poc", "vp_vah", "vp_val"}
MacdNames == {"macd", "macd_signal", "macd_hist"}
BbNames == {"bb_upper", "bb_middle", "bb_lower"}

MicroNames ==
    {"near_val", "near_vah", "above_value", "below_value", "inside_value",
     "at_poc", "rejection_from_edge", "acceptance_into_value",
     "acceptance_outside_value", "value_area_migration"}
VolNames == {"stopping_volume", "climax_volume"}
VpDerivedNames == MicroNames \cup VolNames \cup {"poc_slope"}

PrefixNames == {"day_type_classification", "premium_discount_zone"}
RvpNames == {"rvp_poc", "rvp_vah", "rvp_val"}

(* Handlers whose chain of requirements reaches a vp_ column.  is_coiled   *)
(* reads the columns when they are there and requires none.                *)
DependsOnVp(name) ==
    name.base \in MicroNames \cup {"poc_slope"}

HandlerNames ==
    VpDerivedNames \cup PrefixNames \cup VpRootNames \cup
        {"bullish_fvg", "bearish_fvg", "bos", "is_coiled", "wyckoff_phase"}

(* bb_upper, bb_middle and bb_lower share one state, whatever their period *)
(* says.                                                                   *)
CanonicalFamily(name) ==
    IF name.base \in MacdNames THEN [base |-> "macd", n |-> 0]
    ELSE IF name.base \in BbNames THEN [base |-> "bb", n |-> 0]
    ELSE name

IsDynamic(name) ==
    name.base \in {"sma", "ema", "rsi", "atr", "adx"} \cup BbNames
        /\ name.n >= 2

HandStreaming ==
    MacdNames \cup BbNames
        \cup {"atr", "adx", "ker", "kama", "vwap", "ibs", "rvol"}

ClassifyIndicator(name) ==
    CASE name.base \in HandStreaming /\ name.n = 0 -> "STREAMING"
      [] IsDynamic(name) -> "STREAMING"
      [] name.base \in RvpNames /\ name.n >= 1 -> "WINDOWED"
      [] name.base \in HandlerNames -> "WINDOWED"
      [] OTHER -> "UNKNOWN"

-----------------------------------------------------------------------------
(* Windows.  Session-count metrics look back sessions; an engine is built  *)
(* with a resolver that knows the bars of a session, or without one (0).   *)

LookbackSessions(name) ==
    CASE name.base = "poc_slope" -> name.n
      [] name.base = "value_area_migration" -> 1
      [] name.base = "wyckoff_phase" -> WyckoffSessions
      [] OTHER -> 0

(* IntervalAwareWindowResolver: one session more than the metric looks     *)
(* back on.                                                                *)
SessionsInBars(name, barsPerSession) ==
    Max({(LookbackSessions(name) + 1) * barsPerSession, MinBars})

ResolveWindow(name, barsPerSession) ==
    IF name.base \in RvpNames THEN Max({name.n, MinBars})
    ELSE IF LookbackSessions(name) = 0 THEN WindowFloor
    ELSE IF barsPerSession > 0 THEN SessionsInBars(name, barsPerSession)
    ELSE SessionCountWindow

-----------------------------------------------------------------------------
(* Batch computation of a windowed metric on the last row of a frame with  *)
(* its level columns.                                                      *)

Flag(b) == IF b THEN Num(1) ELSE Num(0)
LevelValue(x) == IF x = -1 THEN NaN ELSE Num(x)

Labels == <<"NonTrend", "NormalVariation", "Trend", "DoubleDistribution",
            "Neutral", "equilibrium", "premium", "discount", "UNKNOWN">>
Code(label) == Num(CHOOSE k \in DOMAIN Labels : Labels[k] = label)

RvpLevel(levels, base) == CASE base = "rvp_poc" -> levels.poc
                            [] base = "rvp_vah" -> levels.vah
                            [] OTHER -> levels.val

(* The last value is converted to a number; where it is text that fails,   *)
(* and the failure is logged and read as NaN.                              *)
LastValue(name, bars, levels) ==
    LET i == Len(bars)
        a == AuctionState(bars[i].close, levels[i])
    IN  CASE name.base = "near_val" -> Flag(a.near_val)
          [] name.base = "near_vah" -> Flag(a.near_vah)
          [] name.base = "above_value" -> Flag(a.above_value)
          [] name.base = "below_value" -> Flag(a.below_value)
          [] name.base = "inside_value" -> Flag(a.inside_value)
          [] name.base = "at_poc" -> Flag(a.at_poc)
          [] name.base = "rejection_from_edge" ->
                Flag(RejectionFromEdge(bars, levels, i))
          [] name.base = "acceptance_into_value" ->
                Flag(AcceptanceIntoValue(bars, levels, i))
          [] name.base = "acceptance_outside_value" ->
                Flag(AcceptanceOutsideValue(bars, levels, i))
          [] name.base \in {"value_area_migration", "wyckoff_phase"} -> NaN
          [] name.base = "stopping_volume" -> Flag(StoppingVolume(bars, i))
          [] name.base = "climax_volume" -> Flag(ClimaxVolume(bars, i))
          [] name.base = "poc_slope" -> PocSlope(bars, levels, i, name.n)
          [] name.base = "is_coiled" -> Flag(Coiled(bars, levels, i))
          [] name.base = "bullish_fvg" -> Flag(BullishFvg(bars, i))
          [] name.base = "bearish_fvg" -> Flag(BearishFvg(bars, i))
          [] name.base = "bos" -> Flag(Bos(bars, i))
          [] name.base = "day_type_classification" ->
                Code(DayTypeClassification(bars, i))
          [] name.base = "premium_discount_zone" ->
                Code(PremiumDiscountZone(bars, i))
          [] OTHER ->
                LevelValue(RvpLevel(RollingWindowVp(bars, name.n)[i], name.base))

(* A requirement that is not injected is computed on the frame itself.     *)
NoColumn(frame) == [i \in DOMAIN frame |-> NoLevels]
OnFrame(name, frame) ==
    LastValue(name, frame, IF DependsOnVp(name)
                           THEN AllSessionVolumeProfiles(frame)
                           ELSE NoColumn(frame))

-----------------------------------------------------------------------------
(* The session volume profile, grown bar by bar.                           *)

SessionVpInit ==
    [bars |-> <<>>, day |-> 0, high |-> 0, low |-> 0,
     profile |-> ZeroProfile, total |-> 0, pocs |-> <<>>]

(* The date and the history of session-end POCs survive a reset.           *)
SessionVpReset(s) == [SessionVpInit EXCEPT !.day = s.day, !.pocs = s.pocs]

SessionVpLevels(s) ==
    IF s.bars = <<>> THEN NoLevels
    ELSE ExtractPocVahVal(s.profile, SessionBucketGrid(s.high, s.low),
                          s.total * Grain)

CapSession(s) ==
    IF SessionVpLevels(s) = NoLevels THEN s
    ELSE [s EXCEPT !.pocs = Push(@, SessionVpLevels(s).poc, 21)]

AddBar(s, bar) ==
    LET grid == SessionBucketGrid(s.high, s.low)
    IN  IF bar.volume <= 0 \/ grid.size <= 0 THEN s
        ELSE [s EXCEPT !.profile =
                            AddProfiles(@, DistributeBarVolume(bar, grid)),
                       !.total = @ + bar.volume]

(* The grid is rebuilt, and every bar of the session distributed again,    *)
(* when the bar leaves the session's range.                                *)
UpdateIncrementalNoRedistribute(s, bar) ==
    IF Len(s.bars) = 1
    THEN AddBar([s EXCEPT !.high = bar.high, !.low = bar.low,
                          !.profile = ZeroProfile, !.total = 0], bar)
    ELSE AddBar([s EXCEPT !.high = Max({@, bar.high}),
                          !.low = Min({@, bar.low})], bar)
UpdateIncremental(s, bar) ==
    IF Len(s.bars) = 1
    THEN AddBar([s EXCEPT !.high = bar.high, !.low = bar.low,
                          !.profile = ZeroProfile, !.total = 0], bar)
    ELSE IF bar.high > s.high \/ bar.low < s.low
    THEN FoldLeft(AddBar,
                  [s EXCEPT !.high = Max({@, bar.high}),
                            !.low = Min({@, bar.low}),
                            !.profile = ZeroProfile, !.total = 0],
                  s.bars)
    ELSE AddBar(s, bar)

SessionVpUpdate(s, bar) ==
    LET base == IF s.day /= 0 /\ bar.day /= s.day
                THEN SessionVpReset(CapSession(s)) ELSE s
    IN  UpdateIncremental([base EXCEPT !.day = bar.day,
                                       !.bars = Append(@, bar)], bar)

(* POC change over the last n completed sessions, in percent.              *)
SessionPocSlope(s, n) ==
    LET k == Len(s.pocs)
        older == s.pocs[k - n + 1]
    IN  IF k < Max({n, 1}) THEN NaN
        ELSE IF older <= 0 THEN NaN
        ELSE Rat(100 * (s.pocs[k] - older), older)

-----------------------------------------------------------------------------
(* AMT metrics on a two-bar buffer, volume metrics on a longer one; both   *)
(* frames carry the current levels on every row.                           *)

MicroWindow == 2
VolWindow == Long

VpDerivedInit(names) ==
    [names |-> names, micro |-> <<>>, vol |-> <<>>,
     values |-> [n \in names |-> NaN]]

OnBuffer(name, buf, levels) ==
    IF Len(buf) < 2 THEN NaN
    ELSE LastValue(name, buf, [i \in DOMAIN buf |-> levels])
VpDerivedUpdate(s, bar, vp, levels) ==
    LET micro == Push(s.micro, bar, MicroWindow)
        vol == Push(s.vol, bar, VolWindow)
    IN  [s EXCEPT !.micro = micro, !.vol = vol,
                  !.values = [n \in s.names |->
                      IF n.base = "poc_slope" THEN SessionPocSlope(vp, n.n)
                      ELSE OnBuffer(n, IF n.base \in VolNames THEN vol ELSE micro,
                                    levels)]]

-----------------------------------------------------------------------------
(* The bounded ring buffer: a frame is kept beside the deque and trimmed   *)
(* to the same length.                                                     *)

GrowFrame(frame, buffer, maxlen) ==
    Lasts(IF frame = <<>> THEN buffer ELSE Append(frame, Last(buffer)), maxlen)

WindowedInit(name, maxlen) ==
    [name |-> name, maxlen |-> maxlen, buffer |-> <<>>, frame |-> <<>>,
     current |-> NaN]
WindowedUpdate(s, bar) ==
    LET buffer == Push(s.buffer, bar, s.maxlen)
        frame == GrowFrame(s.frame, buffer, s.maxlen)
    IN  IF Len(buffer) < 2 THEN [s EXCEPT !.buffer = buffer]
        ELSE [s EXCEPT !.buffer = buffer, !.frame = frame,
                       !.current = OnFrame(s.name, frame)]

(* One buffer for several metrics, with level columns from outside.        *)
BatchedInit(names, maxlen) ==
    [names |-> names, maxlen |-> maxlen, buffer |-> <<>>, frame |-> <<>>,
     injected |-> <<>>, values |-> [n \in names |-> NaN]]
BatchedUpdate(s, bar, injecting, levels) ==
    LET buffer == Push(s.buffer, bar, s.maxlen)
        frame == GrowFrame(s.frame, buffer, s.maxlen)
        injected == IF injecting THEN Push(s.injected, levels, s.maxlen)
                                 ELSE s.injected
        column == IF injecting /\ Len(injected) = Len(frame) THEN injected
                  ELSE NoColumn(frame)
        next == [s EXCEPT !.buffer = buffer, !.injected = injected]
    IN  IF Len(buffer) < 2 THEN next
        ELSE [next EXCEPT !.frame = frame,
                          !.values = [n \in s.names |->
                                        LastValue(n, frame, column)]]

(* The whole prefix, recomputed on every bar.  Rolling-window profiles     *)
(* wait for a full window.                                                 *)
LeastBars(name) == IF name.base \in RvpNames THEN name.n ELSE 2
PrefixInit(name) == [name |-> name, bars |-> <<>>, current |-> NaN]
PrefixUpdate(s, bar) ==
    LET bars == Append(s.bars, bar)
    IN  [s EXCEPT !.bars = bars,
                  !.current = IF Len(bars) < LeastBars(s.name) THEN NaN
                              ELSE OnFrame(s.name, bars)]

-----------------------------------------------------------------------------
(* The engine.  The requested names are partitioned over the session       *)
(* profile, the metrics read directly off it, one batched window, and one  *)
(* state per remaining family.                                             *)

HasSessionVp ==
    \E name \in Requested : name.base \in VpRootNames \/ DependsOnVp(name)

WindowedNames ==
    {name \in Requested :
        /\ name.base \notin PrefixNames \cup RvpNames \cup VpRootNames
        /\ ClassifyIndicator(name) = "WINDOWED"}
DirectNames ==
    {name \in WindowedNames : HasSessionVp /\ name.base \in VpDerivedNames}
TrulyWindowed == {name \in WindowedNames : name.base \notin VpDerivedNames}

(* A single windowed metric is batched only where it needs the injected    *)
(* levels.                                                                 *)
BatchedNames ==
    IF \/ Cardinality(TrulyWindowed) >= 2
       \/ Cardinality(TrulyWindowed) = 1 /\ HasSessionVp /\ DirectNames = {}
    THEN TrulyWindowed ELSE {}

Families ==
    {CanonicalFamily(name) : name \in
        {m \in Requested : m.base \notin VpRootNames}
            \ (DirectNames \cup BatchedNames)}

(* A family takes the period of the first of its names.                    *)
FamilyPeriod(family) ==
    LET first == Indicators[Min({k \in DOMAIN Indicators :
                        CanonicalFamily(Indicators[k]) = family})].n
    IN  IF first >= 2 THEN first
        ELSE IF family.base \in {"ker", "kama"} THEN KerPeriod
        ELSE DefaultPeriod

BuildState(family, barsPerSession) ==
    LET p == FamilyPeriod(family) IN
    CASE family.base = "sma" -> SmaInit(p)
      [] family.base = "rvol" -> RvolInit(p)
      [] family.base = "bb" -> BbInit(p)
      [] family.base = "ema" -> EmaInit(p)
      [] family.base = "rsi" -> RsiInit(p)
      [] family.base = "atr" -> AtrInit(p)
      [] family.base = "adx" -> AdxInit(p)
      [] family.base = "ker" -> KerInit(p)
      [] family.base = "kama" -> KamaInit(p)
      [] family.base = "macd" -> MacdInit
      [] family.base = "vwap" -> VwapInit
      [] family.base = "ibs" -> NaN
      [] family.base \in PrefixNames \cup RvpNames -> PrefixInit(family)
      [] OTHER -> WindowedInit(family, ResolveWindow(family, barsPerSession))

UpdateState(family, s, bar) ==
    CASE family.base = "sma" -> SmaUpdate(s, bar)
      [] family.base = "rvol" -> RvolUpdate(s, bar)
      [] family.base = "bb" -> BbUpdate(s, bar)
      [] family.base = "ema" -> EmaUpdate(s, Num(bar.close))
      [] family.base = "rsi" -> RsiUpdate(s, bar)
      [] family.base = "atr" -> AtrUpdate(s, bar)
      [] family.base = "adx" -> AdxUpdate(s, bar)
      [] family.base = "ker" -> KerUpdate(s, bar)
      [] family.base = "kama" -> KamaUpdate(s, bar)
      [] family.base = "macd" -> MacdUpdate(s, bar)
      [] family.base = "vwap" -> VwapUpdate(s, bar)
      [] family.base = "ibs" -> IbsUpdate(bar)
      [] family.base \in PrefixNames \cup RvpNames -> PrefixUpdate(s, bar)
      [] OTHER -> WindowedUpdate(s, bar)

(* The bands are read as their middle and the square of their width.       *)
ReadOutput(e, name) ==
    LET s == e.families[CanonicalFamily(name)]
        levels == SessionVpLevels(e.vp)
    IN  CASE name.base = "vp_poc" -> LevelValue(levels.poc)
          [] name.base = "vp_vah" -> LevelValue(levels.vah)
          [] name.base = "vp_val" -> LevelValue(levels.val)
          [] name \in e.direct.names -> e.direct.values[name]
          [] name \in e.batched.names -> e.batched.values[name]
          [] name.base = "sma" -> SmaValue(s)
          [] name.base = "rvol" -> RvolValue(s)
          [] name.base = "bb_middle" -> BbMiddle(s)
          [] name.base \in {"bb_upper", "bb_lower"} -> BbVariance(s)
          [] name.base = "ema" -> s.ema
          [] name.base = "rsi" -> RsiValue(s)
          [] name.base = "atr" -> s.atr
          [] name.base = "adx" -> s.adx
          [] name.base = "ker" -> KerValue(s)
          [] name.base = "kama" -> s.kama
          [] name.base = "macd" -> s.macd
          [] name.base = "macd_signal" -> s.signalVal
          [] name.base = "macd_hist" -> MacdHist(s)
          [] name.base = "vwap" -> VwapValue(s)
          [] name.base = "ibs" -> s
          [] OTHER -> s.current

NoLatest == [values |-> [n \in {} |-> NaN], is_ready |-> FALSE, bars_seen |-> 0]

(* The batched window is the largest of its metrics', which the others     *)
(* share.                                                                  *)
EngineWith(barsPerSession) ==
    [bars_seen |-> 0, latest |-> NoLatest, vp |-> SessionVpInit,
     direct |-> VpDerivedInit(DirectNames),
     batched |-> BatchedInit(BatchedNames,
                             Max({ResolveWindow(n, barsPerSession) :
                                    n \in BatchedNames} \cup {1})),
     families |-> [f \in Families |-> BuildState(f, barsPerSession)]]
EngineInit == EngineWith(BarsPerSession)

(* The values that are not NaN, after the bar.                             *)
Present(row) == [n \in {m \in DOMAIN row : ~IsNaN(row[m])} |-> row[n]]
Snapshot(e) ==
    [e EXCEPT !.latest =
        [values |-> Present([n \in Requested |-> ReadOutput(e, n)]),
         is_ready |-> e.bars_seen >= MinBars,
         bars_seen |-> e.bars_seen]]

(* The session profile first: the metrics read off it see this bar.        *)
Advanced(e, bar, vp) ==
    [e EXCEPT !.bars_seen = @ + 1,
              !.vp = vp,
              !.direct = IF e.direct.names = {} THEN @
                         ELSE VpDerivedUpdate(@, bar, vp, SessionVpLevels(vp)),
              !.batched = IF e.batched.names = {} THEN @
                          ELSE BatchedUpdate(@, bar, HasSessionVp,
                                             SessionVpLevels(vp)),
              !.families = [f \in DOMAIN @ |-> UpdateState(f, @[f], bar)]]
EngineUpdate(e, bar) ==
    Snapshot(Advanced(e, bar, IF HasSessionVp THEN SessionVpUpdate(e.vp, bar)
                              ELSE e.vp))

(* The direct metrics are not reset, and the session profile keeps its     *)
(* date and its points of control.                                         *)
EngineReset(e) ==
    [EngineInit EXCEPT !.vp = SessionVpReset(e.vp), !.direct = e.direct]
=============================================================================
