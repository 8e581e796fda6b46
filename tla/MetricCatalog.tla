----------------------------- MODULE MetricCatalog -----------------------------
(***************************************************************************)
(* The indicators a strategy may use: the fixed and parameterised names of *)
(* StrategyIndicatorCatalog, the market metrics of the registry with the   *)
(* data they need, and UnifiedMetricCatalog, which answers from both what  *)
(* a name resolves to and whether a metric can be computed.                *)
(***************************************************************************)
EXTENDS StrategyValues, FiniteSets

Plains(names) == {Plain(n) : n \in names}
Named(bases, ns) == {Name(b, n) : b \in bases, n \in ns}

-----------------------------------------------------------------------------
(* StrategyIndicatorCatalog *)

RequiredPeriods ==
    [sma |-> [min |-> 2, max |-> 500], ema |-> [min |-> 2, max |-> 500],
     rsi |-> [min |-> 2, max |-> 100]]

OptionalPeriods ==
    [atr |-> [min |-> 2, max |-> 200], adx |-> [min |-> 2, max |-> 100],
     bb_upper |-> [min |-> 2, max |-> 200], bb_middle |-> [min |-> 2, max |-> 200],
     bb_lower |-> [min |-> 2, max |-> 200]]

VpBases == {"vp_poc", "vp_vah", "vp_val"}
CvpBases == {"cvp_poc", "cvp_vah", "cvp_val"}
AuctionStates ==
    {"inside_value", "above_value", "below_value", "at_poc", "near_vah", "near_val",
     "distance_to_vah_pct", "distance_to_val_pct", "value_area_width_pct",
     "balance_status"}
AmtSignals ==
    {"acceptance_into_value", "rejection_from_edge", "acceptance_outside_value",
     "poc_rejection", "edge_volume_building", "value_area_migration"}
ShapeFlags ==
    {"is_normal_shape", "is_b_shape", "is_p_shape", "is_d_shape", "is_neutral_shape"}
PhaseFlags ==
    {"is_accumulation", "is_markup", "is_distribution", "is_markdown",
     "is_wyckoff_neutral"}

\* _FIXED: the names that are columns as they stand.
Fixed ==
    Plains({"atr", "adx", "vwap", "vwap_upper_1", "vwap_lower_1", "vwap_upper_2",
            "vwap_lower_2", "profile_shape", "is_coiled", "coil_intensity",
            "wyckoff_phase", "poc_slope_5", "poc_slope_20", "mp_poc", "mp_vah",
            "mp_val", "rvol", "ibs", "ker", "kama", "macd", "macd_signal",
            "macd_hist", "bb_upper", "bb_middle", "bb_lower", "vol_buffer_high",
            "vol_buffer_low", "swing_high_20", "swing_low_20", "breakout_level",
            "breakout_signal", "is_power_zone", "breakout_quality",
            "price_vs_sma20", "trend_direction", "trend_strength", "trend_status"}
           \cup VpBases \cup AuctionStates \cup AmtSignals \cup ShapeFlags
           \cup PhaseFlags)
    \cup Named(VpBases, {5, 20})
    \cup Named(BarBases, {48, 96, 336})
    \cup Named(CvpBases, {5, 10, 20})

\* _match_rolling_vp: any window of at least one session or bar.
IsWindow(name) ==
    name.iv = "" /\ name.base \in SessionBases \cup BarBases /\ name.n >= 1

RequiresPeriod(type) == type.n = NoPeriod /\ type.base \in DOMAIN RequiredPeriods

AcceptsPeriod(type) ==
    RequiresPeriod(type) \/ (type.n = NoPeriod /\ type.base \in DOMAIN OptionalPeriods)

Within(ranges, type, period) ==
    period.kind = "num" /\ ranges[type.base].min <= period.n
                        /\ period.n <= ranges[type.base].max

\* StrategyIndicatorCatalog.resolve: the column of a type with a period, or
\* NoName.
ResolveParameterised(type, period) ==
    CASE RequiresPeriod(type) ->
             IF Within(RequiredPeriods, type, period)
               THEN Name(type.base, period.n) ELSE NoName
      [] AcceptsPeriod(type) /\ ~RequiresPeriod(type) ->
             IF period = Nothing THEN type
             ELSE IF Within(OptionalPeriods, type, period)
               THEN Name(type.base, period.n) ELSE NoName
      [] OTHER -> IF IsWindow(type) \/ type \in Fixed THEN type ELSE NoName

\* The timeframe suffixes it takes off a name.
KnownSuffixes == {"1d", "1h", "30min", "5min", "1w"}

\* StrategyIndicatorCatalog.supports_concrete: here a period has no range.
SupportsParameterised(name) ==
    LET bare == [name EXCEPT !.iv = ""]
    IN  /\ name.iv \in KnownSuffixes \cup {""}
        /\ \/ bare \in Fixed
           \/ IsWindow(bare)
           \/ /\ bare.n # NoPeriod
              /\ bare.base \in DOMAIN RequiredPeriods \cup DOMAIN OptionalPeriods

\* supported_concrete_names of it: the first periods of each range stand for
\* all of them.
ListedNames ==
    Fixed \cup Named(DOMAIN RequiredPeriods, 2..6)
          \cup Named(DOMAIN OptionalPeriods, 2..4)

-----------------------------------------------------------------------------
(* The registry of market metrics: the columns and the data each declares *)

Daily == "daily_ohlcv"
Intraday == "intraday_ohlcv"
BothClasses == {Daily, Intraday}
C == {"close"}
V == {"volume"}
CV == {"close", "volume"}
HL == {"high", "low"}
HLC == {"high", "low", "close"}
HLV == {"high", "low", "volume"}
OHLC == {"open", "high", "low", "close"}
HLCV == {"high", "low", "close", "volume"}

Metric(names, columns, classes, confidence) ==
    {[name |-> n, columns |-> columns, classes |-> classes,
      confidence |-> confidence, providers |-> {}] : n \in Plains(names)}
Proxy(names, columns) == Metric(names, columns, BothClasses, "proxy")
Actual(names, columns) == Metric(names, columns, BothClasses, "actual")
Session(names, columns) == Metric(names, columns, {Intraday}, "actual")

SpreadMetrics ==
    Proxy({"roll_spread", "effective_tick_spread", "lot_zero_return_spread"}, C)
    \cup Proxy({"fong_holden_tran_spread"}, OHLC)

VolatilityMetrics ==
    Actual({"close_to_close_vol", "daily_return_skewness", "daily_return_kurtosis"}, C)
    \cup Proxy({"parkinson_vol"}, HL)
    \cup Proxy({"garman_klass_vol", "rogers_satchell_vol", "yang_zhang_vol",
                "gk_plus_overnight_vol", "meilijson_vol"}, OHLC)
    \cup Session({"realized_vol_5m", "realized_vol_15m", "realized_vol_1h",
                  "bipower_variation", "realized_skewness", "realized_kurtosis"}, {})

ProxyMetrics ==
    Proxy({"proxy_atr", "proxy_vwap", "proxy_ibs", "proxy_iv",
           "proxy_typical_price"}, HLC)
    \cup Proxy({"proxy_parkinson"}, HL)
    \cup Proxy({"proxy_ib_high", "proxy_ib_low", "proxy_expected_move",
                "proxy_garman_klass", "proxy_rogers_satchell", "proxy_ohlc4"}, OHLC)

LiquidityMetrics ==
    Proxy({"amihud_illiq", "amivest_liquidity", "florackis_lambda",
           "hasbrouck_daily_lambda"}, CV)
    \cup Proxy({"liu_illiq"}, V) \cup Proxy({"bao_pan_zhou_cost"}, C)

OrderFlowMetrics ==
    Proxy({"signed_sqrt_volume_ofi", "cumulative_signed_volume_ofi",
           "bvc_buy_volume", "bvc_sell_volume", "bvc_ofi",
           "return_volume_correlation", "daily_vpin", "spread_based_pin_proxy"}, CV)

JumpMetrics ==
    Proxy({"jump_gap_proxy", "cc_rs_jump_proxy", "overnight_gap_proxy"}, OHLC)
    \cup Proxy({"extreme_return_flag", "resiliency_autocorr"}, C)
    \cup Proxy({"resiliency_spread_to_impact", "inverse_amihud_resiliency"}, CV)

SeasonalityMetrics ==
    Proxy({"overnight_return", "intraday_return"}, OHLC)
    \cup Proxy({"parametric_u_shape", "volume_to_trade_count_proxy"}, V)
    \cup Metric({"first_last_hour_vol_fraction"}, V, {Intraday}, "proxy")
    \cup Session({"intraday_volume_curve", "lee_mykland_jump",
                  "empirical_volume_curve"}, {})

SessionMetrics ==
    Session({"ib_high", "ib_low", "ib_midpoint", "ib_range"}, HL)
    \cup Session({"vwap_session"}, HLCV)

OscillatorMetrics ==
    Proxy({"fib_382_retrace", "fib_500_retrace", "fib_618_retrace",
           "fib_1618_extension", "fib_confluence_score"}, C)
    \cup Actual({"awesome_oscillator", "accelerator_oscillator", "alligator_jaw",
                 "alligator_teeth", "alligator_lips"}, HL)
    \cup Proxy({"alligator_status", "zone_signal"}, HL)
    \cup Proxy({"williams_fractal_high"}, {"high"})
    \cup Proxy({"williams_fractal_low"}, {"low"})

TrendMetrics ==
    Proxy({"swing_high_n"}, {"high"}) \cup Proxy({"swing_low_n"}, {"low"})
    \cup Proxy({"hh_hl_pattern", "lh_ll_pattern"}, HL)
    \cup Proxy({"volume_trend_confirmation", "trend_phase"}, CV)

SmartMoneyMetrics ==
    Proxy({"bullish_fvg", "bearish_fvg", "bos", "choch", "premium_discount_zone"}, HL)
    \cup Proxy({"bullish_order_block", "bearish_order_block"}, C)
    \cup Proxy({"breaker_block_bullish", "breaker_block_bearish",
                "liquidity_sweep_high", "liquidity_sweep_low"}, HLC)

VsaMetrics ==
    Proxy({"no_demand", "no_supply", "bag_holding"}, CV)
    \cup Proxy({"stopping_volume", "climax_volume"}, HLV)
    \cup Proxy({"effort_to_rise", "effort_to_fall", "effort_result_divergence",
                "vsa_test_signal"}, HLCV)
    \cup Proxy({"shakeout"}, {"low", "close", "volume"})

ZoneMetrics ==
    Proxy({"demand_zone_low", "demand_zone_high", "demand_zone_score",
           "supply_zone_low", "supply_zone_high", "supply_zone_score",
           "zone_failure_bullish", "zone_failure_bearish",
           "day_type_classification"}, HLC)
    \cup Proxy({"hurst_exponent", "fractal_regime"}, C)
    \cup Proxy({"market_regime"}, HLCV)

DerivativesMetrics ==
    {[m EXCEPT !.providers = {"coinglass"}] :
        m \in Actual({"funding_rate", "open_interest", "open_interest_delta_1h",
                      "open_interest_delta_24h", "cumulative_volume_delta",
                      "long_short_ratio", "liquidations_long_1h",
                      "liquidations_short_1h", "liquidations_long_24h",
                      "liquidations_short_24h", "funding_rate_annualised"}, {})}

Metrics ==
    SpreadMetrics \cup VolatilityMetrics \cup ProxyMetrics \cup LiquidityMetrics
    \cup OrderFlowMetrics \cup JumpMetrics \cup SeasonalityMetrics
    \cup SessionMetrics \cup OscillatorMetrics \cup TrendMetrics
    \cup SmartMoneyMetrics \cup VsaMetrics \cup ZoneMetrics \cup DerivativesMetrics

Definition == [n \in {m.name : m \in Metrics} |-> CHOOSE m \in Metrics : m.name = n]

\* CONCEPTUAL_METRICS: the ways to compute a concept, the best one first.
Path(metric, class, confidence, minutes) ==
    [metric |-> Plain(metric), class |-> class, confidence |-> confidence,
     minutes |-> minutes]
AnyInterval == 0
ConceptPaths ==
    [volatility |->
        <<Path("realized_vol_5m", Intraday, "actual", 5),
          Path("realized_vol_1h", Intraday, "approximation", 60),
          Path("yang_zhang_vol", Daily, "proxy", AnyInterval)>>,
     spread |->
        <<Path("fong_holden_tran_spread", Daily, "proxy", AnyInterval),
          Path("roll_spread", Daily, "proxy", AnyInterval)>>,
     jump_detection |->
        <<Path("bipower_variation", Intraday, "actual", 5),
          Path("cc_rs_jump_proxy", Daily, "proxy", AnyInterval)>>,
     intraday_seasonality |->
        <<Path("empirical_volume_curve", Intraday, "actual", 5),
          Path("parametric_u_shape", Daily, "proxy", AnyInterval)>>,
     order_flow_imbalance |-> <<Path("bvc_ofi", Daily, "proxy", AnyInterval)>>,
     price_impact |-> <<Path("amihud_illiq", Daily, "proxy", AnyInterval)>>]

Concepts == Plains(DOMAIN ConceptPaths)

-----------------------------------------------------------------------------
(* The handler registry *)

\* What a handler's "requires" holds beyond bar columns, for the names that
\* are not market metrics.
Dependencies(name) ==
    CASE name = Plain("above_value") \/ name = Plain("distance_to_vah_pct") ->
             {Plain("vp_vah")}
      [] name = Plain("below_value") \/ name = Plain("distance_to_val_pct") ->
             {Plain("vp_val")}
      [] name = Plain("at_poc") -> Plains(VpBases)
      [] name = Plain("poc_rejection") -> Plains({"vp_poc", "atr"})
      [] name = Plain("edge_volume_building") -> Plains({"vp_vah", "vp_val", "rvol"})
      [] name \in Plains({"value_area_migration", "poc_slope_5", "poc_slope_20"}) ->
             {Plain("vp_poc")}
      [] name = Plain("wyckoff_phase") -> {Plain("profile_shape")}
      [] name = Plain("price_vs_sma20") -> {Name("sma", 20)}
      [] name = Plain("trend_direction") -> Named({"sma"}, {20, 50, 200})
      [] name = Plain("trend_strength") -> {Plain("adx")}
      [] name = Plain("trend_status") -> Plains({"adx", "trend_direction"})
      [] name \in Plains({"breakout_level", "is_power_zone"}) ->
             {Plain("swing_high_20")}
      [] name = Plain("breakout_signal") -> Plains({"breakout_level", "swing_low_20"})
      [] name = Plain("breakout_quality") -> Plains({"breakout_signal", "ibs", "rvol"})
      [] name \in Plains({"vol_buffer_high", "vol_buffer_low"}) -> {Plain("atr")}
      [] name \in Named(VpBases, {5, 20}) -> Plains(VpBases)
      [] name \in Plains(AuctionStates \cup AmtSignals) -> Plains({"vp_vah", "vp_val"})
      [] OTHER -> {}

\* The bar columns it holds: those of the metric's definition, with the
\* exceptions below.
BarColumns(name) ==
    CASE name \in Plains({"bb_upper", "bb_middle", "bb_lower"}) -> Plains(C)
      [] name \notin DOMAIN Definition -> {}
      [] name \in Plains({"ib_high", "ib_low", "ib_midpoint", "ib_range",
                          "vwap_session"}) -> {}
      [] name \in Plains({"intraday_volume_curve", "empirical_volume_curve"}) ->
             Plains(V)
      [] name.base \in {"lee_mykland_jump", "realized_vol_5m", "realized_vol_15m",
                        "realized_vol_1h", "bipower_variation", "realized_skewness",
                        "realized_kurtosis"} -> Plains(C)
      [] name.base \in {"demand_zone_score", "supply_zone_score",
                        "zone_failure_bullish", "zone_failure_bearish"} -> Plains(HLCV)
      [] name = Plain("proxy_expected_move") -> Plains(HLC)
      [] OTHER -> Plains(Definition[name].columns)

Requires(name) == BarColumns(name) \cup Dependencies(name)

\* HandlerRegistry.names: every fixed name and every metric has a handler, and
\* so have a few periods.
Handled ==
    Fixed \cup DOMAIN Definition
    \cup Named({"rsi"}, {7, 14}) \cup Named({"sma"}, {10, 20, 30, 50, 200})
    \cup Named({"ema"}, {12, 26})

-----------------------------------------------------------------------------
(* UnifiedMetricCatalog *)

Catalogued == DOMAIN Definition \cup Concepts

\* UsableMetricSet: catalogued and handled.
Usable == Catalogued \cap Handled

\* resolve
ResolveType(type, period) ==
    IF period = Nothing /\ type \in Usable THEN type
    ELSE ResolveParameterised(type, period)

\* supports_concrete
SupportsConcrete(name) ==
    IF name \in Catalogued THEN name \in Usable ELSE SupportsParameterised(name)

\* validate_consistency, which the catalogue's construction runs: it raises
\* unless this holds.
Consistent ==
    \A n \in Catalogued :
        /\ (ResolveType(n, Nothing) # NoName) = (n \in Handled)
        /\ SupportsConcrete(n) = (n \in Handled)

\* all_metric_names
AllMetricNames == Catalogued \cup ListedNames \cup Fixed

Answer(supported, computable, confidence, selected) ==
    [supported |-> supported, computable |-> computable, confidence |-> confidence,
     selected |-> selected]
Unavailable(supported) == Answer(supported, FALSE, "unavailable", NoName)

\* check_data_class: a conceptual metric is never handled and does not get here.
CheckDataClass(metric, class) ==
    IF class \notin metric.classes \/ ~(metric.columns \subseteq HLCV \cup OHLC)
      THEN Unavailable(TRUE)
      ELSE Answer(TRUE, TRUE, metric.confidence, metric.name)

\* check_definition
CheckDefinition(name, class) ==
    IF name \notin Usable THEN Unavailable(TRUE)
    ELSE CheckDataClass(Definition[name], class)

\* check_parser_indicator
CheckParserIndicator(name) ==
    IF ~SupportsParameterised(name) THEN Unavailable(FALSE)
    ELSE IF name \notin Handled THEN Unavailable(TRUE)
    ELSE Answer(TRUE, TRUE, "actual", name)

\* check; a class it does not know is taken for daily bars.
Check(name, class) ==
    IF name \in Catalogued THEN CheckDefinition(name, class)
    ELSE CheckParserIndicator(name)

\* _add_dependency_warning: the columns a caller is told to compute as well.
DependencyWarning(name) == IF name \in Handled THEN Dependencies(name) ELSE {}

\* _interval_matches
FineEnough(minutes, path) == path.minutes = AnyInterval \/ minutes <= path.minutes

\* The paths select_best_path may take, of those that come before it none.
Eligible(path, class, minutes, forceProxy) ==
    IF forceProxy THEN path.confidence \notin {"actual", "approximation"}
    ELSE /\ path.class = class
         /\ class = Intraday => FineEnough(minutes, path)

\* select_best_path
SelectBestPath(concept, class, minutes, forceProxy) ==
    LET paths == ConceptPaths[concept.base]
        may == {i \in DOMAIN paths : Eligible(paths[i], class, minutes, forceProxy)}
        best == paths[CHOOSE i \in may : \A j \in may : i <= j]
    IN  IF may = {} THEN Unavailable(TRUE)
        ELSE Answer(TRUE, TRUE, best.confidence, best.metric)

\* resolve_best
ResolveBest(name, class, minutes, forceProxy) ==
    CASE name \in Concepts -> SelectBestPath(name, class, minutes, forceProxy)
      [] name \in DOMAIN Definition -> Check(name, class)
      [] OTHER -> Unavailable(FALSE)
=============================================================================
