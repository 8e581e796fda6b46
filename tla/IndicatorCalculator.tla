-------------------------- MODULE IndicatorCalculator --------------------------
(***************************************************************************)
(* PandasTaIndicatorCalculator: which columns a request for indicators     *)
(* adds to a frame.  Names are closed under the handlers' requirements,    *)
(* sorted topologically, and computed one after the other; families of     *)
(* columns are computed at once, the first time one of them is wanted,     *)
(* and remembered in a cache.                                              *)
(*                                                                         *)
(* A frame maps the columns it has to what is in them:                     *)
(*   "value", "text"  computed, as numbers (or booleans) or as strings     *)
(*   "nan"            nothing but missing values                           *)
(*   "partial"        computed without a column it should have used        *)
(* What the numbers are is the subject of VolumeProfile, PriceAction,      *)
(* SignalFamilies and StreamingStates.                                     *)
(***************************************************************************)
EXTENDS MetricCatalog, SequencesExt

RawBarColumns == Plains({"open", "high", "low", "close", "volume"})

\* How many bars there are: fewer than MIN_BARS, fewer than a lookback, or
\* enough for all of them.
Amounts == {"short", "scarce", "ample"}

-----------------------------------------------------------------------------
(* Families of columns *)

Vp == Plains(VpBases)
MarketProfile == Plains({"mp_poc", "mp_vah", "mp_val"})
Auction == Plains(AuctionStates)
Amt == Plains(AmtSignals)
Shape == {Plain("profile_shape")}
ShapeWrappers == Plains(ShapeFlags)
Coil == Plains({"is_coiled", "coil_intensity"})
Wyckoff == Plains({"wyckoff_phase", "poc_slope_5", "poc_slope_20"})
WyckoffWrappers == Plains(PhaseFlags)
VwapBands ==
    Plains({"vwap_session", "vwap_upper_1", "vwap_lower_1", "vwap_upper_2",
            "vwap_lower_2"})
InitialBalance == Plains({"ib_high", "ib_low", "ib_range", "ib_midpoint"})

\* The three levels of one window: _compute_rolling_vp,
\* _compute_rolling_window_vp and _compute_composite_vp.
WindowOf(name) ==
    Named(CHOOSE bases \in {VpBases, BarBases, CvpBases} : name.base \in bases,
          {name.n})

\* The columns that come with a name.
FamilyOf(name) ==
    LET shared == {f \in {Vp, MarketProfile, Auction, Amt, ShapeWrappers, Coil,
                          Wyckoff, WyckoffWrappers, VwapBands, InitialBalance} :
                      name \in f}
    IN  CASE IsWindow(name) -> WindowOf(name)
          [] shared # {} -> CHOOSE f \in shared : TRUE
          [] OTHER -> {name}

Texts ==
    Plains({"price_vs_sma20", "trend_direction", "trend_strength", "trend_status",
            "breakout_signal", "breakout_quality", "balance_status",
            "value_area_migration", "profile_shape", "wyckoff_phase",
            "fractal_regime", "market_regime", "day_type_classification"})

\* Columns a computation uses if they are there, without requiring them.
Optional(name) ==
    CASE name = Plain("poc_rejection") \/ name = Plain("balance_status") ->
             {Plain("atr")}
      [] name = Plain("edge_volume_building") -> {Plain("rvol")}
      [] name \in Plains({"breakout_level", "is_power_zone"}) -> {Plain("bb_upper")}
      [] name \in Coil -> Vp
      [] name = Plain("wyckoff_phase") ->
             Plains({"balance_status", "profile_shape", "rvol",
                     "value_area_width_pct"})
      [] OTHER -> {}

\* Columns that are missing throughout until there is enough history, and
\* those that are then not written at all.
NeedsHistory(name) ==
    name.n # NoPeriod \/ name.base \in {"atr", "rvol", "ker", "kama",
                                        "vol_buffer_high", "vol_buffer_low"}
NotWritten(name) ==
    \/ name.base \in {"macd", "macd_signal", "macd_hist", "adx", "bb_upper",
                      "bb_middle", "bb_lower"}
    \/ name.base = "atr" /\ name.n # NoPeriod

\* What a computation finds for a column, given the frame it works on.
Computed(frame, name, amount) ==
    CASE name \in Plains({m.name.base : m \in DerivativesMetrics}) -> "nan"
      [] ~(Optional(name) \subseteq DOMAIN frame) ->
             IF name = Plain("wyckoff_phase") THEN "nan" ELSE "partial"
      [] name \in WyckoffWrappers /\ frame[Plain("wyckoff_phase")] = "nan" ->
             "partial"
      [] amount = "scarce" /\ NeedsHistory(name) -> "nan"
      [] OTHER -> IF name \in Texts THEN "text" ELSE "value"

Put(frame, columns) == columns @@ frame

-----------------------------------------------------------------------------
(* Computing one name; s holds the frame, the families done and the error *)

\* The columns of a family, the first time.
Fill(s, family, amount) ==
    LET written == IF amount = "scarce" THEN {n \in family : ~NotWritten(n)}
                                        ELSE family
    IN  IF family \in s.done THEN s
        ELSE [s EXCEPT !.frame = Put(@, [n \in written |->
                                             Computed(s.frame, n, amount)]),
                       !.done = @ \cup {family}]

\* _profile_shape, where a family needs it.
WithShape(s, amount) ==
    IF Shape \in s.done \/ Shape \subseteq DOMAIN s.frame THEN s
    ELSE Fill(s, Shape, amount)

\* _compute_auction_state: the levels must be there.
WithAuction(s, amount) ==
    IF Auction \in s.done THEN s
    ELSE IF ~(Vp \subseteq DOMAIN s.frame) THEN [s EXCEPT !.raised = TRUE]
    ELSE Fill(s, Auction, amount)

\* _compute_wyckoff
WithWyckoff(s, amount) ==
    IF Wyckoff \in s.done THEN s
    ELSE LET t == WithShape(s, amount)
         IN  IF Plain("vp_poc") \notin DOMAIN t.frame THEN [t EXCEPT !.raised = TRUE]
             ELSE Fill(t, Wyckoff, amount)

\* What a family computes before itself: _compute_amt_signals,
\* _compute_wyckoff_wrappers and _compute_shape_wrappers.
Prepared(s, family, amount) ==
    CASE family \in s.done -> s
      [] family \in {Auction, Amt} -> WithAuction(s, amount)
      [] family = Wyckoff -> WithWyckoff(s, amount)
      [] family = WyckoffWrappers ->
             IF Plain("wyckoff_phase") \in DOMAIN s.frame THEN s
             ELSE WithWyckoff(s, amount)
      [] family = ShapeWrappers -> WithShape(s, amount)
      [] OTHER -> s

\* The part of _compute_all for a registered name: a requirement that is not
\* there, or an exception, leaves a column of missing values.
Handle(s, name, amount) ==
    LET nan == Put(s.frame, name :> "nan")
        family == FamilyOf(name)
        ready == Prepared(s, family, amount)
    IN  IF ~(Requires(name) \subseteq DOMAIN s.frame)
          THEN [s EXCEPT !.frame = nan]
        ELSE IF name \in DOMAIN s.frame /\ name.base \in
                    {m.name.base : m \in DerivativesMetrics} THEN s
        ELSE IF ready.raised
          THEN [ready EXCEPT !.frame = Put(@, name :> "nan"), !.raised = FALSE]
        ELSE Fill(ready, family, amount)

\* _is_dynamic
IsDynamic(name) ==
    /\ name.iv = "" /\ name.n >= 2
    /\ name.base \in DOMAIN RequiredPeriods \cup DOMAIN OptionalPeriods

\* _compute_rolling_vp_dynamic: other windows of sessions need the levels of
\* the session to be there by then.
Window(s, name, amount) ==
    IF name.base \in VpBases /\ ~(Plains({"vp_poc", "vp_vah"}) \subseteq DOMAIN s.frame)
      THEN s ELSE Fill(s, FamilyOf(name), amount)

\* One name of _compute_all.  A name nobody computes is only logged.
Compute(s, name, amount) ==
    CASE name \in Handled -> Handle(s, name, amount)
      [] name \notin Handled /\ IsDynamic(name) -> Fill(s, {name}, amount)
      [] name \notin Handled /\ IsWindow(name) -> Window(s, name, amount)
      [] OTHER -> s

-----------------------------------------------------------------------------
(* The request *)

\* _expand_transitive_deps: requirements of requirements, three deep at most.
ExpandTransitive(names) ==
    LET with(s) == s \cup UNION {Dependencies(n) : n \in s}
    IN  with(with(with(names \ RawBarColumns)))

\* Mutant: names that become ready are computed next.
MutEnqueue(waiting, freed) == freed \o waiting

\* queue.append
Enqueue(waiting, freed) == waiting \o freed

\* _topological_sort: Kahn's algorithm with a queue.  No requirement is
\* circular, so that nothing is left over.
TopologicalSort(names) ==
    LET wanted == ToSet(names)
        needs == [n \in wanted |-> Dependencies(n) \cap wanted]
        step(s, i) ==
            IF s.queue = <<>> THEN s
            ELSE LET done == s.sorted \o <<Head(s.queue)>>
                     freed == SelectSeq(names, LAMBDA n :
                                  /\ Head(s.queue) \in needs[n]
                                  /\ needs[n] \subseteq ToSet(done))
                 IN  [queue |-> Enqueue(Tail(s.queue), freed), sorted |-> done]
    IN  FoldLeft(step, [queue |-> SelectSeq(names, LAMBDA n : needs[n] = {}),
                        sorted |-> <<>>], names).sorted

\* The orders in which a Python set of strings may be walked: any of them, the
\* hash of a string changes from process to process.
HashOrders(names) ==
    LET s == SetToSeq(names)
    IN  {[i \in DOMAIN s |-> p[s[i]]] : p \in Permutations(names)}

\* _compute_all, with the set of expanded names walked in this order.
ComputeAll(frame, order, amount) ==
    FoldLeft(LAMBDA s, name : Compute(s, name, amount),
             [frame |-> frame, done |-> {}, raised |-> FALSE],
             TopologicalSort(order)).frame

\* calculate: the frames it may return, whatever the order.
CalculateIndicators(frame, indicators, amount) ==
    IF indicators = {} \/ amount = "short" THEN {frame}
    ELSE {ComputeAll(frame, order, amount) :
             order \in HashOrders(ExpandTransitive(indicators))}
=============================================================================
