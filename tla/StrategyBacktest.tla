--------------------------- MODULE StrategyBacktest ---------------------------
(***************************************************************************)
(* BacktestStrategyDefinitionUseCase.execute: from a definition and bars   *)
(* to a backtest, or to the reason why there is none.  The definition is   *)
(* parsed, the bars are enriched (in a batch, causally, or not at all if   *)
(* they come enriched), features are computed, the required columns and    *)
(* the warm-up are checked, and the engine runs.  Also                     *)
(* ApplyStrategyFeaturesUseCase, which stops after the features, and the   *)
(* question which metric computes a concept.                               *)
(*                                                                         *)
(* One action is one stage.  Between two stages nothing is shared: what    *)
(* varies is the request, the order in which a set of names is walked, and *)
(* what the data holds.                                                    *)
(***************************************************************************)
EXTENDS StrategyParser, IndicatorCalculator

CONSTANTS
    Requests,   \* the requests that may arrive
    Uncovered   \* metrics the coverage matrix does not label as streaming-correct

\* The numbers in a document are numbers (floats in hundredths), and there is
\* one null.
ASSUME RequestAssumption ==
    \A r \in {q \in Requests : q.use # "resolve"} :
        LET Proper(v) == /\ v.kind \in {"num", "float"} => v.n \in Int
                         /\ v.kind = "none" => v = Nothing
        IN  /\ \A p \in DOMAIN r.overrides : Proper(r.overrides[p])
            /\ \A p \in DOMAIN r.doc.parameters :
                   LET spec == r.doc.parameters[p]
                   IN  Proper(spec.default) /\ Proper(spec.minimum)
                                            /\ Proper(spec.maximum)

VARIABLES
    request,    \* [use, doc, overrides, mode, columns, amount, stamped, sound,
                \*  informative], or [use, mode, concept, class, minutes, forced]
    stage,      \* the stage that is next, "running", or "done"
    parsed,     \* the StrategyValidationResult
    mode,       \* enrichment_mode, after the fallback
    frame,      \* column -> what is in it (see IndicatorCalculator)
    outcome     \* [code, safe]: why it ended, and live_parity_safe; or [code, answer]

backtestVars == <<request, stage, parsed, mode, frame, outcome>>

Pending == [code |-> "", safe |-> FALSE]
EmptyFrame == <<>>
NoBars == "none"
Live == "live_parity_streaming"
Batch == "batch_full_frame"
def == parsed.def

BacktestInit ==
    /\ request \in Requests
    /\ stage = "received"
    /\ parsed = [outcome |-> ""]
    /\ mode = request.mode
    /\ frame = EmptyFrame
    /\ outcome = Pending

\* The use case returns, or an exception leaves it ("raised").
End(code, safe) ==
    /\ stage' = "done"
    /\ outcome' = [code |-> code, safe |-> safe]

Reject(code) == End(code, FALSE)

Goto(next) == stage' = next /\ UNCHANGED outcome

-----------------------------------------------------------------------------
(* Input and definition *)

\* No bars, and DefaultBacktestInputValidator: every bar has a timestamp.
CheckInput ==
    /\ stage = "received" /\ request.use # "resolve"
    /\ IF request.amount = NoBars THEN Reject("no_bars")
       ELSE IF request.use = "backtest" /\ ~request.stamped THEN Reject("invalid_bars")
       ELSE Goto("input")
    /\ UNCHANGED <<request, parsed, mode, frame>>

\* parser.parse, which no handler surrounds.
ParseDefinition ==
    /\ stage = "input"
    /\ parsed' = Parse(request.doc, request.overrides)
    /\ CASE parsed'.outcome = "invalid" -> Reject("definition")
         [] parsed'.outcome = "raised" -> Reject("raised")
         [] OTHER -> Goto("parsed")
    /\ UNCHANGED <<request, mode, frame>>

\* _bars_are_raw
Raw == (RequiredColumns(def) \ OhlcvFields) \cap request.columns = {}

\* The matrix has an entry for what has a handler; for other names
\* _classify_dynamic_or_raise decides.
Streamable(name) == name \in Handled \/ IsDynamic(name) \/ IsWindow(name)

\* The label of a metric in the coverage matrix.
StreamingCorrect(name) == name \notin Uncovered

\* _coverage_indicator_names
CoverageNames ==
    PrimaryRequired(def)
    \cup UNION {InformativeRequired(def, t.alias) : t \in Informative(def.timeframes)}

\* Mutant: the mode of a run that falls back stays the one asked for.
MutGuardCoverage ==
    /\ stage = "parsed" /\ request.use = "backtest"
    /\ IF Raw /\ mode = Live /\ \E n \in CoverageNames : ~Streamable(n)
         THEN Reject("raised")
         ELSE Goto("guarded")
    /\ UNCHANGED <<request, parsed, frame, mode>>

\* _apply_streaming_coverage_guard: a metric that is not streaming-correct
\* makes the run a batch run, a name nobody knows raises UnknownMetricError.
GuardCoverage ==
    /\ stage = "parsed" /\ request.use = "backtest"
    /\ IF Raw /\ mode = Live /\ \E n \in CoverageNames : ~Streamable(n)
         THEN Reject("raised") /\ UNCHANGED mode
         ELSE /\ Goto("guarded")
              /\ mode' = IF Raw /\ ~\A n \in CoverageNames : StreamingCorrect(n)
                          THEN Batch ELSE mode
    /\ UNCHANGED <<request, parsed, frame>>

-----------------------------------------------------------------------------
(* Features *)

\* What FeatureInputColumnCollector takes for the inputs of a feature.
SourceTypes == RollingTypes \cup {"shift"}
FeatureInputs(f) ==
    CASE f.type \in SourceTypes -> {f.source}
      [] f.type \in {"body_pct", "ohlc4"} -> Plains(OHLC)
      [] f.type \in {"range_pct", "typical_price"} -> Plains(HLC)
      [] OTHER -> {}

\* _calculate_feature: a source that is not there raises KeyError, a rolling
\* window over strings DataError.
SimpleFeature(s, f) ==
    IF \/ ~(FeatureInputs(f) \subseteq DOMAIN s.frame)
       \/ f.type \in RollingTypes /\ s.frame[f.source] = "text"
      THEN [s EXCEPT !.raised = TRUE]
      ELSE [s EXCEPT !.frame =
               Put(@, f.name :> IF f.type \in SourceTypes THEN @[f.source] ELSE "value")]

Comparisons == {">", "<", ">=", "<=", "==", "!="}
Logical == {"and", "or", "not"}
Arithmetic == {"+", "-", "*", "/", "abs", "neg"}

\* PandasFormulaFeatureCalculator: a column that is not there, or holds
\* strings, reads as missing; a comparison with a missing value is false.
FormulaFeature(s, f) ==
    LET blind == \E c \in ExprColumns(f.expr) :
                     c \notin DOMAIN s.frame \/ s.frame[c] \in {"nan", "text"}
        found == CASE f.expr.op \in Comparisons \cup Logical ->
                          IF blind THEN "partial" ELSE "value"
                   [] f.expr.op \in Arithmetic -> IF blind THEN "nan" ELSE "value"
                   [] OTHER -> "nan"
    IN  [s EXCEPT !.frame = Put(@, f.name :> found)]

\* PandasStrategyFeatureCalculator.calculate: the formulas come last.
WithFeatures(columns) ==
    LET isFormula(f) == f.type = "formula"
        isSimple(f) == ~isFormula(f)
        simple == FoldLeft(SimpleFeature, [frame |-> columns, raised |-> FALSE],
                           SelectSeq(def.features, isSimple))
    IN  IF simple.raised THEN simple
        ELSE FoldLeft(FormulaFeature, simple, SelectSeq(def.features, isFormula))

-----------------------------------------------------------------------------
(* Frames *)

\* bars_to_frame: the timestamp becomes the index.
FrameOf(columns) == [n \in RawBarColumns \cup columns |-> "value"]

\* The strings indicator_value_mapper turns into numbers.
MappedTexts == Plains({"trend_direction", "trend_strength"})

\* merge_timeframes: the columns beyond the bar's own, with a suffix.  An
\* informative frame of nothing but missing values is dropped.
Merged(primary, info, interval) ==
    LET numeric == [n \in DOMAIN info \ OhlcvFields |->
                       IF info[n] = "text"
                         THEN IF n \in MappedTexts THEN "value" ELSE "nan"
                         ELSE info[n]]
        suffixed == {Suffixed(n, interval) : n \in DOMAIN numeric}
    IN  IF \A n \in DOMAIN numeric : numeric[n] = "nan" THEN primary
        ELSE Put(primary, [c \in suffixed |->
                     numeric[CHOOSE n \in DOMAIN numeric : Suffixed(n, interval) = c]])

NoInformative == [kind |-> "none", aliases |-> {}, columns |-> {}]

\* _resolve_informative_bars and _check_no_informative_supplied; also
\* _select_informative_bars and _validate_informative_payload_shape.
PayloadFits ==
    LET declared == def.timeframes.informative
        given == request.informative
    IN  IF declared = <<>> THEN given = NoInformative
        ELSE \/ given.kind = "list" /\ Len(declared) = 1
             \/ given.kind = "map" /\ \A i \in DOMAIN declared :
                                          declared[i].alias \in given.aliases

\* The frames MultiTimeframeBarEnricher.enrich may build before the features.
BatchFrames ==
    LET merge(frames, t) ==
            {Merged(f, i, t.interval) :
                f \in frames,
                i \in CalculateIndicators(FrameOf(request.informative.columns),
                                          InformativeRequired(def, t.alias),
                                          request.amount)}
    IN  FoldLeft(merge,
                 CalculateIndicators(FrameOf(request.columns), PrimaryRequired(def),
                                     request.amount),
                 def.timeframes.informative)

\* _compute_features on one of them; an exception is answered as bad bars.
Framed(columns, next) ==
    LET s == WithFeatures(columns)
    IN  IF s.raised THEN Reject("bars") /\ UNCHANGED frame
                    ELSE Goto(next) /\ frame' = s.frame

EnrichBatch ==
    /\ stage = "guarded" /\ Raw /\ mode = Batch
    /\ IF PayloadFits
         THEN \E columns \in BatchFrames : Framed(columns, "framed")
         ELSE Reject("bars") /\ UNCHANGED frame
    /\ UNCHANGED <<request, parsed, mode>>

\* _normalise_informative: a list is the timeframe "h1".
Supplied == IF request.informative.kind = "list" THEN {"h1"}
            ELSE request.informative.aliases

\* The columns causal_enrich_bars merges of the declared timeframes that have
\* bars.
CausalColumns ==
    UNION {{Suffixed(n, t.interval) :
               n \in request.informative.columns \cup InformativeRequired(def, t.alias)} :
              t \in {u \in Informative(def.timeframes) : u.alias \in Supplied}}

\* build_causal_frame: every requested column is there, with or without
\* values; which ones is the subject of CausalEnrichment.
EnrichCausally ==
    /\ stage = "guarded" /\ Raw /\ mode = Live
    /\ \E found \in [PrimaryRequired(def) \cup CausalColumns -> BOOLEAN] :
           Framed(Put(FrameOf(request.columns),
                      [n \in DOMAIN found |->
                          IF ~found[n] THEN "nan"
                          ELSE IF [n EXCEPT !.iv = ""] \in Texts THEN "text"
                          ELSE "value"]),
                  "framed")
    /\ UNCHANGED <<request, parsed, mode>>

\* _prepare_frame: bars that come enriched, and may come merged as well.
PrepareFrame ==
    /\ stage = "guarded" /\ ~Raw
    /\ LET declared == def.timeframes.informative
           merged == \E c \in request.columns : OfInformative(def, c)
           merge(columns, t) ==
               Merged(columns, FrameOf(request.informative.columns), t.interval)
       IN  IF declared # <<>> /\ merged
             THEN Goto("prepared") /\ frame' = FrameOf(request.columns)
           ELSE IF PayloadFits
             THEN /\ Goto("prepared")
                  /\ frame' = FoldLeft(merge, FrameOf(request.columns), declared)
           ELSE Reject("bars") /\ UNCHANGED frame
    /\ UNCHANGED <<request, parsed, mode>>

\* _resolve_and_compute_signals on such bars: outside the handler.
ComputeFeatures ==
    /\ stage = "prepared"
    /\ LET s == WithFeatures(frame)
       IN  IF s.raised THEN Reject("raised") /\ UNCHANGED frame
                       ELSE Goto("framed") /\ frame' = s.frame
    /\ UNCHANGED <<request, parsed, mode>>

-----------------------------------------------------------------------------
(* Checks and the run *)

CheckColumns ==
    /\ stage = "framed"
    /\ IF RequiredColumns(def) \subseteq DOMAIN frame THEN Goto("complete")
                                                      ELSE Reject("missing_columns")
    /\ UNCHANGED <<request, parsed, mode, frame>>

\* RequiredDataValidator: strings count as missing.  Whether values that are
\* there leave gaps is up to the data.
CheckWarmup ==
    /\ stage = "complete"
    /\ \/ /\ \A c \in RequiredColumns(def) : frame[c] \notin {"nan", "text"}
          /\ Goto("running")
       \/ Reject("no_tradable_bars")
       \/ /\ \A c \in RequiredColumns(def) : frame[c] \notin {"nan", "text"}
          /\ ~(RequiredColumns(def) \subseteq EngineColumns)
          /\ Reject("missing_after_warmup")
    /\ UNCHANGED <<request, parsed, mode, frame>>

\* is_frame_dependent_indicator, of the names as they stand.
FrameDependent(name) ==
    \/ name.base \in VpBases \cup CvpBases \cup {"mp_poc", "mp_vah", "mp_val",
                                                 "poc_slope_5", "poc_slope_20"}
    \/ /\ name.iv = ""
       /\ name.base \in AuctionStates \cup AmtSignals
                        \cup {"wyckoff_phase", "profile_shape"}

\* _annotate_parity_metadata looks at the declared indicators.
ParitySafe ==
    /\ mode = Live \/ \A i \in ToSet(def.indicators) : ~FrameDependent(i.column)
    /\ mode = request.mode

\* _run_backtest: prices that contradict each other give a result with an
\* error; so does an exception of the engine, whose result is not annotated.
RunEngine ==
    /\ stage = "running"
    /\ \/ request.sound /\ End("completed", ParitySafe)
       \/ ~request.sound /\ End("failed", ParitySafe)
       \/ End("failed", TRUE)
    /\ UNCHANGED <<request, parsed, mode, frame>>

\* ApplyStrategyFeaturesUseCase.execute, after the definition.
ApplyFeatures ==
    /\ stage = "parsed" /\ request.use = "features"
    /\ LET given == FrameOf(request.columns)
           s == WithFeatures(given)
           inputs == UNION {FeatureInputs(f) : f \in ToSet(def.features)}
       IN  IF ~(inputs \subseteq DOMAIN given)
             THEN Reject("missing_columns") /\ UNCHANGED frame
           ELSE IF s.raised THEN Reject("failed") /\ UNCHANGED frame
           ELSE End("features", FALSE) /\ frame' = s.frame
    /\ UNCHANGED <<request, parsed, mode>>

\* A caller asks the catalogue for the best metric of a concept.
ResolveMetric ==
    /\ stage = "received" /\ request.use = "resolve"
    /\ stage' = "done"
    /\ outcome' = [code |-> "resolved",
                   answer |-> ResolveBest(request.concept, request.class,
                                          request.minutes, request.forced)]
    /\ UNCHANGED <<request, parsed, mode, frame>>

BacktestNext ==
    \/ ResolveMetric
    \/ CheckInput \/ ParseDefinition \/ GuardCoverage
    \/ EnrichBatch \/ EnrichCausally \/ PrepareFrame \/ ComputeFeatures
    \/ CheckColumns \/ CheckWarmup \/ RunEngine
    \/ ApplyFeatures

BacktestSpec == BacktestInit /\ [][BacktestNext]_backtestVars

-----------------------------------------------------------------------------
(***************************************************************************)
(* Properties                                                              *)
(***************************************************************************)
\* The columns on_bar reads unless a first column is missing on a bar.
ColumnsRead ==
    {o.columns[1] : o \in {p \in UNION {{def.tree[n].left, def.tree[n].right} :
                                           n \in ConditionsOf(def)} :
                              p.columns # <<>>}}
    \cup (IF def.risk.stop_loss_type = "atr" THEN {def.risk.stop_indicator} ELSE {})
    \cup (IF def.risk.take_profit_type = "atr"
            THEN {def.risk.take_profit_indicator} ELSE {})

\* When the engine starts, every column the conditions and the risk prices
\* read is in the frame and holds numbers, whichever way the bars were
\* enriched: no condition is false, and no stop NaN, for want of a column.
ReadyBeforeRun ==
    stage = "running" =>
        \A c \in ColumnsRead : c \in DOMAIN frame /\ frame[c] \notin {"nan", "text"}

\* Names a batch computes only in part or not at all: metrics of a provider,
\* names without a computation, windows of sessions without a handler, and
\* columns that use others they do not require.
HasGap(name) ==
    \/ name \in Plains({m.name.base : m \in DerivativesMetrics})
    \/ ~Streamable(name)
    \/ name \notin Handled /\ name.base \in VpBases
    \/ ~(Optional(name) \subseteq Dependencies(name))
    \/ name \in WyckoffWrappers

\* A batch over enough raw bars computes every indicator the parser accepted,
\* but for the gaps above, in whatever order the set of names is walked: the
\* families computed at once find all their inputs.
AcceptedIsComputed ==
    (stage = "framed" /\ Raw /\ mode = Batch /\ request.amount = "ample") =>
        \A n \in PrimaryRequired(def) :
            HasGap(n) \/ (n \in DOMAIN frame /\ frame[n] \in {"value", "text"})

\* A parameter the strategy runs with has the type and respects the bounds its
\* definition gives, whether it is the default or an override.
OverridesBounded ==
    (stage \notin {"received", "input"} /\ parsed.outcome = "valid") =>
        \A p \in DOMAIN def.resolved :
            LET spec == request.doc.parameters[p]
                value == def.resolved[p]
            IN  /\ TypeMatches(value, spec.type)
                /\ value.kind \in {"num", "float"} =>
                       /\ spec.minimum # Nothing =>
                              Hundredths(spec.minimum) <= Hundredths(value)
                       /\ spec.maximum # Nothing =>
                              Hundredths(value) <= Hundredths(spec.maximum)

\* Both: the engine starts with the columns and the parameters the definition
\* asks for.
RunsAsDefined == ReadyBeforeRun /\ OverridesBounded

\* A result that claims live parity was computed in the mode the caller asked
\* for, and if that was a batch without a declared frame-dependent indicator.
ParityHonest ==
    (outcome.code = "completed" /\ outcome.safe) =>
        /\ mode = Live \/ ~\E i \in ToSet(def.indicators) : FrameDependent(i.column)
        /\ Raw /\ mode = Live => \A n \in CoverageNames : StreamingCorrect(n)

\* The metric the catalogue recommends for a concept is one a strategy may
\* declare, and one the class of bars it was asked for can compute, unless the
\* caller forced a proxy.
ConceptsComputable ==
    (outcome.code = "resolved" /\ outcome.answer.computable) =>
        /\ SupportsConcrete(outcome.answer.selected)
        /\ request.forced \/ Check(outcome.answer.selected, request.class).computable

\* Both: what the parser and the catalogue accept can be computed.
CatalogueHonest == AcceptedIsComputed /\ ConceptsComputable

\* A strategy may be written with the groups the schema and the capabilities
\* offer, "all", "any" and "not": no document makes the parser raise.
NotGroupsAccepted == parsed.outcome # "raised"
=============================================================================
