----------------------------- MODULE StrategyParser -----------------------------
(***************************************************************************)
(* StrategyDefinitionParser: from a JSON document and parameter overrides  *)
(* to a definition, the columns it requires and the indicators to compute, *)
(* or errors.                                                              *)
(*                                                                         *)
(* A document is a record of its sections; "broken" names the parts whose  *)
(* JSON type is wrong.  A condition tree is a table of nodes, 0 for none.  *)
(* The errors are the sections that have one.                              *)
(***************************************************************************)
EXTENDS MetricCatalog, SequencesExt

OhlcvFields == Plains({"timestamp", "open", "high", "low", "close", "volume"})
EngineColumns == Plains(OHLC)
BinaryOperators ==
    {"<", ">", "<=", ">=", "==", "!=", "crosses_above", "crosses_below",
     "between", "not_between"}
UnaryOperators == {"is_true", "is_false", "exists", "missing"}
KnownIntervals == {"5min", "30min", "1h", "1d", "1w"}
None == 0

\* {"x"} if a fault in section x is there.
Fault(section, there) == IF there THEN {section} ELSE {}

\* resolve_expression: a reference to a parameter that is not there is an
\* error and resolves to None.
Dangling(v, params) ==
    LET bad(w) == w.kind = "ref" /\ w.parameter \notin DOMAIN params
    IN  bad(v) \/ (v.kind = "list" /\ \E i \in DOMAIN v.items : bad(v.items[i]))
ResolveExpression(v, params) ==
    LET of(w) == IF w.kind # "ref" THEN w
                 ELSE IF w.parameter \in DOMAIN params THEN params[w.parameter]
                 ELSE Nothing
    IN  IF v.kind = "list" THEN List([i \in DOMAIN v.items |-> of(v.items[i])])
        ELSE of(v)

-----------------------------------------------------------------------------
(* Parameters *)

\* value_matches_type
TypeMatches(value, type) ==
    \/ type = "bool" /\ value.kind = "bool"
    \/ type = "int" /\ value.kind = "num"
    \/ type = "float" /\ value.kind \in {"num", "float"}
    \/ type = "string" /\ value.kind = "text"

\* _parse_bound: a bound that is no number is an error and then no bound.
BadBound(b) == b.kind \notin {"none", "num", "float"}
Bound(b) == IF BadBound(b) THEN Nothing ELSE b

\* _validate_range
OutOfRange(value, minimum, maximum) ==
    /\ value.kind \in {"num", "float"}
    /\ \/ minimum # Nothing /\ Hundredths(value) < Hundredths(minimum)
       \/ maximum # Nothing /\ Hundredths(value) > Hundredths(maximum)

\* _bounds_invalid
BoundsInvalid(minimum, maximum) ==
    minimum # Nothing /\ maximum # Nothing /\ Hundredths(minimum) > Hundredths(maximum)

\* _parse_one: what is kept of a spec, in spite of some of its faults.
Typed(spec) ==
    /\ spec.type \in {"int", "float", "bool", "string"}
    /\ TypeMatches(spec.default, spec.type)
Keeps(spec) ==
    Typed(spec) /\ ~BoundsInvalid(Bound(spec.minimum), Bound(spec.maximum))
Faulty(spec) ==
    \/ ~Keeps(spec)
    \/ BadBound(spec.minimum) \/ BadBound(spec.maximum)
    \/ OutOfRange(spec.default, Bound(spec.minimum), Bound(spec.maximum))

ParseParameters(doc) ==
    LET raw == IF "parameters" \in doc.broken THEN <<>> ELSE doc.parameters
    IN  [params |-> [p \in {q \in DOMAIN raw : Keeps(raw[q])} |-> raw[p]],
         errors |-> Fault("parameters", \/ "parameters" \in doc.broken
                                        \/ \E p \in DOMAIN raw : Faulty(raw[p]))]

\* _override_invalid
OverrideInvalid(param, value) ==
    \/ ~TypeMatches(value, param.type)
    \/ OutOfRange(value, Bound(param.minimum), Bound(param.maximum))

\* apply_overrides
ApplyOverrides(params, overrides) ==
    LET valid(p) == p \in DOMAIN params /\ ~OverrideInvalid(params[p], overrides[p])
    IN  [resolved |-> [p \in DOMAIN params |->
                          IF p \in DOMAIN overrides /\ valid(p) THEN overrides[p]
                          ELSE params[p].default],
         errors |-> Fault("overrides", \E p \in DOMAIN overrides : ~valid(p))]

-----------------------------------------------------------------------------
(* Timeframes *)

\* _parse_one_informative, after those before it.
AddInformative(s, item) ==
    LET taken == {t.alias : t \in ToSet(s.items)}
        used == {<<t.interval, t.symbol>> : t \in ToSet(s.items)}
        ok == /\ item.alias \notin taken \cup {"", "primary"}
              /\ Plain(item.alias) \notin OhlcvFields
              /\ <<item.interval, item.symbol>> \notin used
              /\ item.interval \in KnownIntervals
    IN  IF ok THEN [s EXCEPT !.items = Append(@, item)]
        ELSE [s EXCEPT !.errors = @ \cup {"timeframes"}]

MaxInformative == 3
NoTimeframes == [primary |-> "", informative |-> <<>>]

ParseTimeframes(doc) ==
    LET raw == doc.timeframes
        parsed == FoldLeft(AddInformative, [items |-> <<>>, errors |-> {}],
                           raw.informative)
    IN  IF raw = NoTimeframes \/ "timeframes" \in doc.broken
          THEN [timeframes |-> NoTimeframes,
                errors |-> Fault("timeframes", "timeframes" \in doc.broken)]
          ELSE [timeframes |-> [primary |-> raw.primary, informative |-> parsed.items],
                errors |-> parsed.errors
                           \cup Fault("timeframes",
                                   \/ raw.primary \notin KnownIntervals
                                   \/ Len(raw.informative) > MaxInformative)]

Informative(tf) == ToSet(tf.informative)
InformativeIntervals(tf) == {t.interval : t \in Informative(tf)}

-----------------------------------------------------------------------------
(* Indicators *)

Fallback == Plain("fallback")

\* _parse_sources
Sources(item) == IF item.type = Fallback /\ Len(item.sources) >= 2
                   THEN item.sources ELSE <<>>
BadSources(item) ==
    IF item.type # Fallback THEN item.sources # <<>>
    ELSE \/ Len(item.sources) < 2
         \/ \E i \in DOMAIN item.sources : ~SupportsConcrete(item.sources[i])

\* _period_invalid
PeriodInvalid(type, period) ==
    IF RequiresPeriod(type) THEN period.kind # "num"
    ELSE period # Nothing /\ ~AcceptsPeriod(type)

\* The concrete name, or NoName.
Concrete(item, period) ==
    IF item.type = Fallback
      THEN IF Sources(item) = <<>> THEN NoName ELSE Sources(item)[1]
    ELSE IF PeriodInvalid(item.type, period) THEN NoName
    ELSE ResolveType(item.type, period)

\* _expected_column
ExpectedColumn(concrete, timeframe, tf) ==
    IF timeframe = "primary" THEN concrete
    ELSE Suffixed(concrete, (CHOOSE t \in Informative(tf) : t.alias = timeframe).interval)

\* _parse_one; a fallback keeps the sources after its first.
AddResolved(s, item, concrete, wrong, tf) ==
    LET known == {"primary"} \cup {t.alias : t \in Informative(tf)}
        taken == {i.name : i \in ToSet(s.items)} \cup OhlcvFields \cup {NoName}
        kept == item.name \notin taken /\ concrete # NoName /\ item.timeframe \in known
    IN  [items |-> IF ~kept THEN s.items
                   ELSE Append(s.items,
                            [name |-> item.name, concrete |-> concrete,
                             timeframe |-> item.timeframe,
                             column |-> ExpectedColumn(concrete, item.timeframe, tf),
                             sources |-> SubSeq(Sources(item), 2, Len(Sources(item)))]),
         errors |-> s.errors \cup Fault("indicators", ~kept \/ wrong)]
AddIndicator(s, item, params, tf) ==
    AddResolved(s, item, Concrete(item, ResolveExpression(item.period, params)),
                Dangling(item.period, params) \/ BadSources(item), tf)

ParseIndicators(doc, params, tf) ==
    IF "indicators" \in doc.broken
      THEN [items |-> <<>>, errors |-> {"indicators"}]
      ELSE FoldLeft(LAMBDA s, item : AddIndicator(s, item, params, tf),
                    [items |-> <<>>, errors |-> {}], doc.indicators)

\* aliases: the column of an indicator's name.
Aliases(indicators) == {i.name : i \in ToSet(indicators)}
ColumnOf(indicators, alias) ==
    (CHOOSE i \in ToSet(indicators) : i.name = alias).column

-----------------------------------------------------------------------------
(* Features *)

RollingTypes == {"rolling_max", "rolling_min", "rolling_mean", "rolling_std"}
FeatureTypes ==
    RollingTypes \cup {"body_pct", "range_pct", "typical_price", "ohlc4", "shift",
                       "formula"}
NoExpr == [op |-> "", leaves |-> <<>>, children |-> <<>>]

\* _resolve_source
ResolveSource(source, indicators) ==
    IF source \in Aliases(indicators) THEN ColumnOf(indicators, source) ELSE source
KnownSource(source, indicators) ==
    source \in Aliases(indicators) \cup OhlcvFields \/ SupportsConcrete(source)

\* _window_invalid and the check of the shift
WindowInvalid(type, window) ==
    type \in RollingTypes /\ (window.kind # "num" \/ window.n < 1)
ShiftInvalid(shift) == shift.kind # "num" \/ shift.n < 0

\* _resolve_expr_params: references are resolved in left and right, not in a
\* list of children.  The leaves of nested expressions count as left or right.
ResolveExpr(expr, params) ==
    [expr EXCEPT !.leaves = [i \in DOMAIN @ |-> ResolveExpression(@[i], params)]]

AddFeature(s, item, indicators, params) ==
    LET named == item.name \notin {f.name : f \in ToSet(s.items)}
                         \cup Aliases(indicators) \cup OhlcvFields \cup {NoName}
        typed == item.type \in FeatureTypes
        formula == item.type = "formula"
        window == ResolveExpression(item.window, params)
        shift == ResolveExpression(item.shift, params)
        formed == IF formula THEN item.expr # NoExpr
                  ELSE ~WindowInvalid(item.type, window) /\ ~ShiftInvalid(shift)
        dangling == IF formula
                      THEN \E i \in DOMAIN item.expr.leaves :
                               Dangling(item.expr.leaves[i], params)
                      ELSE \/ Dangling(item.window, params)
                           \/ Dangling(item.shift, params)
                           \/ ~KnownSource(item.source, indicators)
    IN  [items |-> IF ~named \/ ~typed \/ ~formed THEN s.items
                   ELSE Append(s.items,
                            [name |-> item.name, type |-> item.type,
                             source |-> ResolveSource(item.source, indicators),
                             expr |-> ResolveExpr(item.expr, params)]),
         errors |-> s.errors
                    \cup Fault("features", ~named \/ ~typed \/ ~formed \/ dangling)]

ParseFeatures(doc, indicators, params) ==
    IF "features" \in doc.broken
      THEN [items |-> <<>>, errors |-> {"features"}]
      ELSE FoldLeft(LAMBDA s, item : AddFeature(s, item, indicators, params),
                    [items |-> <<>>, errors |-> {}], doc.features)

-----------------------------------------------------------------------------
(* Risk *)

NoRisk == [stop_loss_type |-> "none", take_profit_type |-> "none"]
NoRiskSection == [type |-> "absent"]

\* _positive_float: in hundredths, 0 where it is none or at fault.
NotPositive(v) ==
    v.kind \in {"text", "ref", "list"} \/ (v.kind # "none" /\ Hundredths(v) < 0)
PositiveFloat(v) == IF v.kind = "none" \/ NotPositive(v) THEN 0 ELSE Hundredths(v)

\* _resolve_atr_indicator: "atr" is the first indicator called "atr_..." if
\* there is one.
NamedAtr(indicators) ==
    SelectSeq(indicators, LAMBDA i : i.name.base = "atr" /\ SupportsConcrete(i.name))
FirstColumn(named, name) == IF named = <<>> THEN name ELSE Head(named).column
ResolveAtr(type, name, indicators) ==
    IF type # "atr" THEN name
    ELSE IF name \in Aliases(indicators) THEN ColumnOf(indicators, name)
    ELSE IF name = Plain("atr") THEN FirstColumn(NamedAtr(indicators), name)
    ELSE name
UnknownAtr(type, name, indicators) ==
    /\ type = "atr"
    /\ name \notin Aliases(indicators)
    /\ ~SupportsConcrete(name)

\* _build_spec
BuildSpec(stop, target, indicators, params) ==
    LET of(v) == PositiveFloat(ResolveExpression(v, params))
    IN  [stop_loss_type |-> stop.type,
         stop_indicator |-> ResolveAtr(stop.type, stop.indicator, indicators),
         stop_multiplier |-> of(stop.multiplier),
         stop_pct |-> of(stop.pct),
         take_profit_type |-> target.type,
         take_profit_indicator |-> ResolveAtr(target.type, target.indicator, indicators),
         take_profit_multiplier |-> of(target.multiplier),
         take_profit_pct |-> of(target.pct),
         risk_reward_ratio |-> of(target.ratio)]

\* _validate_types, and _validate_required_values: what a type needs is there.
RiskComplete(spec) ==
    /\ \/ spec.stop_loss_type = "none"
       \/ spec.stop_loss_type = "atr" /\ spec.stop_multiplier > 0
       \/ spec.stop_loss_type = "fixed_pct" /\ spec.stop_pct > 0
    /\ \/ spec.take_profit_type = "none"
       \/ spec.take_profit_type = "atr" /\ spec.take_profit_multiplier > 0
       \/ spec.take_profit_type = "fixed_pct" /\ spec.take_profit_pct > 0
       \/ spec.take_profit_type = "risk_reward" /\ spec.risk_reward_ratio > 0

CheckedRisk(spec, stop, target, indicators, params) ==
    LET values == {stop.multiplier, stop.pct, target.multiplier, target.pct,
                   target.ratio}
    IN  [risk |-> spec,
         errors |-> Fault("risk",
                        \/ ~RiskComplete(spec)
                        \/ \E v \in values :
                               \/ Dangling(v, params)
                               \/ NotPositive(ResolveExpression(v, params))
                        \/ \E leg \in {stop, target} :
                               UnknownAtr(leg.type, leg.indicator, indicators))]
ParseRisk(doc, indicators, params) ==
    IF doc.risk = NoRiskSection \/ "risk" \in doc.broken
      THEN [risk |-> NoRisk, errors |-> Fault("risk", "risk" \in doc.broken)]
      ELSE CheckedRisk(BuildSpec(doc.risk.stop_loss, doc.risk.take_profit,
                                 indicators, params),
                       doc.risk.stop_loss, doc.risk.take_profit, indicators, params)

-----------------------------------------------------------------------------
(* Conditions *)

\* StrategyOperandParser: a name is an indicator, a feature, a field of the
\* bar or a concrete column, in this order.
KnownName(name, indicators, features) ==
    \/ name \in Aliases(indicators) \cup {f.name : f \in ToSet(features)} \cup OhlcvFields
    \/ SupportsConcrete(name)

BadOperand(raw, params, indicators, features) ==
    LET value == ResolveExpression(raw, params)
    IN  \/ Dangling(raw, params)
        \/ value.kind = "none"
        \/ value.kind = "text" /\ ~KnownName(value.name, indicators, features)

\* The fallback columns of an operand are those of its column.
OperandOf(raw, params, indicators, features) ==
    LET value == ResolveExpression(raw, params)
        column == ColumnOf(indicators, value.name)
        sharing == SelectSeq(indicators, LAMBDA i :
                                 i.column = column /\ i.sources # <<>>)
    IN  IF value.kind # "text" THEN Literal(value)
        ELSE IF value.name \in Aliases(indicators)
          THEN Column(column, IF sharing = <<>> THEN <<>> ELSE Last(sharing).sources)
        ELSE Column(value.name, <<>>)

\* StrategyConditionGroupParser
BadNode(node, params, indicators, features) ==
    CASE node.kind \in {"all", "any"} -> node.children = {}
      [] node.kind = "not" -> FALSE
      [] node.kind = "condition" ->
             \/ node.op \notin BinaryOperators \cup UnaryOperators
             \/ BadOperand(node.left, params, indicators, features)
             \/ /\ node.op \in BinaryOperators
                /\ BadOperand(node.right, params, indicators, features)
      [] OTHER -> TRUE

ParsedNode(node, params, indicators, features) ==
    IF node.kind # "condition"
      THEN [kind |-> node.kind, children |-> node.children]
      ELSE [kind |-> "condition", op |-> node.op,
            left |-> OperandOf(node.left, params, indicators, features),
            right |-> IF node.op \in BinaryOperators
                        THEN OperandOf(node.right, params, indicators, features)
                        ELSE Absent]

\* The nodes of a tree, and how deep it is: a condition alone has depth 0.
Children(node) == IF node.kind \in {"all", "any", "not"} THEN node.children ELSE {}
NodesOf(tree, root) ==
    LET below[n \in DOMAIN tree] ==
            {n} \cup UNION {below[c] : c \in Children(tree[n])}
    IN  IF root = None THEN {} ELSE below[root]
Depth(tree, root) ==
    LET depth[n \in DOMAIN tree] ==
            LET under == {depth[c] : c \in Children(tree[n])}
            IN  IF tree[n].kind = "condition" THEN 0
                ELSE 1 + (IF under = {} THEN 0
                          ELSE CHOOSE d \in under : \A e \in under : e <= d)
    IN  IF root = None THEN 0 ELSE depth[root]

\* parse_sides
ParseSides(doc, params, indicators, features) ==
    LET roots == UNION {{s.entry, s.exit} : s \in {doc.sides[d] : d \in DOMAIN doc.sides}}
        nodes == UNION {NodesOf(doc.tree, r) : r \in roots}
        bad == {n \in nodes : BadNode(doc.tree[n], params, indicators, features)}
    IN  IF "sides" \in doc.broken THEN [tree |-> <<>>, nodes |-> {}, errors |-> {"sides"}]
        ELSE [tree |-> [n \in nodes \ bad |->
                           ParsedNode(doc.tree[n], params, indicators, features)],
              nodes |-> nodes,
              errors |-> Fault("sides",
                             \/ DOMAIN doc.sides = {}
                             \/ ~(DOMAIN doc.sides \subseteq {"long", "short"})
                             \/ \E d \in DOMAIN doc.sides : doc.sides[d].entry = None
                             \/ bad # {})]

-----------------------------------------------------------------------------
(* What a definition requires *)

ConditionsOf(def) == {n \in DOMAIN def.tree : def.tree[n].kind = "condition"}

ExprColumns(expr) ==
    {v.name : v \in {w \in ToSet(expr.leaves) \cup ToSet(expr.children) :
                        w.kind = "text"}}

\* Mutant: the columns of the risk prices are left out.
MutRiskColumns(risk) == {}

\* _add_risk_columns
RiskColumns(risk) ==
    (IF risk.stop_loss_type = "atr" THEN {risk.stop_indicator} ELSE {})
    \cup (IF risk.take_profit_type = "atr" THEN {risk.take_profit_indicator} ELSE {})

\* RequiredColumnCollector: of an operand only its first column.
RequiredColumns(def) ==
    LET operands == UNION {{def.tree[n].left, def.tree[n].right} :
                              n \in ConditionsOf(def)}
    IN  EngineColumns
        \cup {o.columns[1] : o \in {p \in operands : p.columns # <<>>}}
        \cup RiskColumns(def.risk)
        \cup UNION {ExprColumns(f.expr) :
                       f \in {g \in ToSet(def.features) : g.type = "formula"}}

FeatureNames(def) == {f.name : f \in ToSet(def.features)}
OfInformative(def, column) ==
    \E interval \in InformativeIntervals(def.timeframes) : EndsWith(column, interval)

\* _primary_required_indicators
PrimaryRequired(def) ==
    {i.concrete : i \in {j \in ToSet(def.indicators) : j.timeframe = "primary"}}
    \cup {c \in RequiredColumns(def) \ (OhlcvFields \cup FeatureNames(def)) :
             ~OfInformative(def, c) /\ SupportsConcrete(c)}

\* _unknown_required_columns
UnknownRequired(def) ==
    {c \in RequiredColumns(def) \ (OhlcvFields \cup FeatureNames(def)
                                   \cup PrimaryRequired(def)) :
        ~OfInformative(def, c)}

\* _informative_required_indicators
InformativeRequired(def, alias) ==
    {i.concrete : i \in {j \in ToSet(def.indicators) : j.timeframe = alias}}

-----------------------------------------------------------------------------
(* Limits, warnings and the normalised form *)

MaxItems == 20
MaxDepth == 5

\* The limit rules.
OverLimit(def, params) ==
    \/ Cardinality(DOMAIN params) > MaxItems
    \/ Len(def.indicators) > MaxItems
    \/ Len(def.features) > MaxItems
    \/ \E d \in DOMAIN def.sides :
           \/ Depth(def.tree, def.sides[d].entry) > MaxDepth
           \/ Depth(def.tree, def.sides[d].exit) > MaxDepth

\* The warning rules.
Warnings(def) ==
    Fault("no_exit", \E d \in DOMAIN def.sides : def.sides[d].exit = None)
    \cup Fault("no_stop", def.risk.stop_loss_type = "none")

\* SerializeGroupVisitor appends the child of a node to the list in it; the
\* node of a "not" holds an object, which has no append.
Serializable(def) == \A n \in DOMAIN def.tree : def.tree[n].kind # "not"

-----------------------------------------------------------------------------
(* parse *)

Invalid(errors) == [outcome |-> "invalid", errors |-> errors]

\* What parse makes of a definition: the limits and the required columns are
\* looked at only where no section is at fault.
Conclude(def, params, errors) ==
    IF errors # {} THEN Invalid(errors)
    ELSE IF OverLimit(def, params) THEN Invalid({"limits"})
    ELSE IF UnknownRequired(def) # {} THEN Invalid({"sides"})
    ELSE IF ~Serializable(def) THEN [outcome |-> "raised"]
    ELSE [outcome |-> "valid", def |-> def, warnings |-> Warnings(def)]

\* The definition and the errors of its sections: parameters, overrides,
\* timeframes, indicators, features, risk and sides.
Assemble(doc, p, o, t, i, f, r, s) ==
    Conclude([resolved |-> o.resolved, timeframes |-> t.timeframes,
              indicators |-> i.items, features |-> f.items, risk |-> r.risk,
              sides |-> doc.sides, tree |-> s.tree],
             p.params,
             Fault("header", ~doc.header) \cup p.errors \cup o.errors
             \cup t.errors \cup i.errors \cup f.errors \cup r.errors \cup s.errors)

\* parse: each section with the results of those before it.
ThenRules(doc, p, o, t, i, f) ==
    Assemble(doc, p, o, t, i, f, ParseRisk(doc, i.items, o.resolved),
             ParseSides(doc, o.resolved, i.items, f.items))
ThenFeatures(doc, p, o, t, i) ==
    ThenRules(doc, p, o, t, i, ParseFeatures(doc, i.items, o.resolved))
ThenIndicators(doc, p, o, t) ==
    ThenFeatures(doc, p, o, t, ParseIndicators(doc, o.resolved, t.timeframes))
ThenSections(doc, p, overrides) ==
    ThenIndicators(doc, p, ApplyOverrides(p.params, overrides), ParseTimeframes(doc))
Parse(doc, overrides) ==
    IF "document" \in doc.broken THEN Invalid({"document"})
    ELSE ThenSections(doc, ParseParameters(doc), overrides)
=============================================================================
