------------------------ MODULE MCStrategyEvaluation ------------------------
(***************************************************************************)
(* Definitions, from the document to the signals.  Every request runs      *)
(* through the stages of StrategyBacktest; the strategy that is parsed     *)
(* from the document Crossover is then run on bars.                        *)
(*                                                                         *)
(* Crossover has both sides.  Long: enter when the fast average crosses    *)
(* above the slow one outside the value area; leave when it crosses below. *)
(* Short: enter when it crosses below, or on a low fast average without    *)
(* a value area; no exit rule.  The fast average has a fallback column,    *)
(* and every column may be missing on a bar.                               *)
(***************************************************************************)
EXTENDS StrategyEvaluation, StrategyBacktest

-----------------------------------------------------------------------------
(* Documents *)

Group(kind, children) == [kind |-> kind, children |-> children]
Leaf(left, op, right) ==
    [kind |-> "condition", left |-> left, op |-> op, right |-> right]

Ref(name) == Text(Plain(name))
Parameter(type, default, minimum, maximum) ==
    [type |-> type, default |-> default, minimum |-> minimum, maximum |-> maximum]
Indicator(name, type, period) ==
    [name |-> Plain(name), type |-> type, period |-> period, sources |-> <<>>,
     timeframe |-> "primary"]
Feature(name, type, source) ==
    [name |-> Plain(name), type |-> type, source |-> source, window |-> Num(3),
     shift |-> Num(0), expr |-> NoExpr]
Formula(name, op, leaves) ==
    [Feature(name, "formula", NoName) EXCEPT
        !.expr = [op |-> op, leaves |-> leaves, children |-> <<>>]]

StopSection(type, indicator, multiplier, pct) ==
    [type |-> type, indicator |-> Plain(indicator), multiplier |-> multiplier,
     pct |-> pct]
TargetSection(type, indicator, multiplier, pct, ratio) ==
    [type |-> type, indicator |-> Plain(indicator), multiplier |-> multiplier,
     pct |-> pct, ratio |-> ratio]

Crossover ==
    [broken |-> {}, header |-> TRUE,
     parameters |-> [slow |-> Parameter("int", Num(50), Num(10), Num(200)),
                     stop |-> Parameter("float", Decimal(150), Nothing, Num(5))],
     timeframes |-> NoTimeframes,
     indicators |->
        <<[Indicator("fast", Fallback, Nothing) EXCEPT
              !.sources = <<Name("sma", 20), Name("ema", 12)>>],
          Indicator("slow", Plain("sma"), Reference("slow"))>>,
     features |-> <<>>,
     risk |-> [stop_loss |-> StopSection("atr", "atr", Reference("stop"), Nothing),
               take_profit |-> TargetSection("risk_reward", "", Nothing, Nothing,
                                             Decimal(250))],
     tree |-> << Group("all", {2, 3}),
                 Leaf(Ref("fast"), "crosses_above", Ref("slow")),
                 Leaf(Ref("inside_value"), "is_false", Nothing),
                 Leaf(Ref("fast"), "crosses_below", Ref("slow")),
                 Group("any", {6, 7}),
                 Leaf(Ref("fast"), "crosses_below", Ref("slow")),
                 Group("all", {8, 9}),
                 Leaf(Ref("inside_value"), "missing", Nothing),
                 Leaf(Ref("fast"), "<", Num(1)) >>,
     sides |-> [long |-> [entry |-> 1, exit |-> 4],
                short |-> [entry |-> 5, exit |-> None]]]

\* A definition that declares indicators and looks at its first name.
NoSections == StopSection("none", "", Nothing, Nothing)
Simple ==
    [Crossover EXCEPT
        !.parameters = <<>>, !.indicators = <<>>, !.risk = NoRiskSection,
        !.tree = <<Leaf(Ref("close"), "exists", Nothing)>>,
        !.sides = [long |-> [entry |-> 1, exit |-> None]]]

Declares(types) ==
    [Simple EXCEPT
        !.indicators = [i \in DOMAIN types |->
                           [Indicator(<<"a", "b", "c">>[i], types[i], Nothing) EXCEPT
                               !.type = [types[i] EXCEPT !.iv = ""]]],
        !.tree = <<Leaf(Ref("a"), "exists", Nothing)>>]

\* A definition that uses a column without declaring it.
Uses(name, op) == [Simple EXCEPT !.tree = <<Leaf(Text(name), op, Num(1))>>]

Tf(alias, interval) == [alias |-> alias, interval |-> interval, symbol |-> ""]
Framing(items) == [primary |-> "1h", informative |-> items]
OnTimeframe(alias, type, items) ==
    [Declares(<<type>>) EXCEPT !.indicators[1].timeframe = alias,
                               !.timeframes = Framing(items)]

Catalogue == Handled \cup Concepts
Periods == {Name("sma", 37), Name("atr", 21), Name("vp_poc", 7), Name("rvp_vah", 60)}

PairDocs ==
    {Declares(types) :
        types \in {<<Plain("acceptance_into_value"), Plain("poc_rejection")>>,
                   <<Plain("rejection_from_edge"), Plain("edge_volume_building")>>,
                   <<Plain("vp_poc"), Plain("is_coiled")>>,
                   <<Name("vp_poc", 5), Plain("vp_val"), Plain("is_b_shape")>>}}

BrokenDocs ==
    {[Crossover EXCEPT !.broken = {s}] :
        s \in {"document", "parameters", "timeframes", "indicators", "features",
               "risk", "sides"}}
    \cup {[Crossover EXCEPT !.header = FALSE]}

\* One more than MaxItems.
ManyNames ==
    {"a", "b", "c", "d", "e", "f", "g", "h", "i", "j", "k", "l", "m", "n", "o", "p",
     "q", "r", "s", "t", "u"}

ParameterDocs ==
    {[Crossover EXCEPT !.parameters["slow"] = p] :
        p \in {Parameter("int", Decimal(150), Nothing, Nothing),
               Parameter("date", Num(50), Nothing, Nothing),
               Parameter("int", Num(50), Num(60), Num(20)),
               Parameter("int", Num(50), Num(60), Nothing),
               Parameter("int", Num(50), Ref("x"), Num(200)),
               Parameter("string", Ref("x"), Nothing, Nothing),
               Parameter("bool", Flag(TRUE), Nothing, Nothing)}}
    \cup {[Simple EXCEPT !.parameters =
              [p \in ManyNames |-> Parameter("int", Num(1), Nothing, Nothing)]]}

TimeframeDocs ==
    {OnTimeframe("h1", Plain("ibs"), items) :
        items \in {<<Tf("h1", "1d")>>, <<Tf("h1", "1d"), Tf("w1", "1w")>>,
                   <<Tf("h1", "1d"), Tf("h1", "1w")>>, <<Tf("h1", "2y")>>,
                   <<Tf("close", "1d")>>, <<Tf("h1", "1d"), Tf("h2", "1d")>>,
                   <<Tf("h1", "1d"), Tf("a", "1w"), Tf("b", "30min"),
                     Tf("c", "5min")>>}}
    \cup {OnTimeframe("h1", type, <<Tf("h1", "1d")>>) :
             type \in Plains({"trend_direction", "price_vs_sma20", "funding_rate",
                              "vp_poc", "inside_value"})}
    \cup {[OnTimeframe("h1", Plain("ibs"), <<Tf("h1", "1d")>>) EXCEPT
              !.timeframes.primary = "fast"],
          OnTimeframe("h9", Plain("ibs"), <<Tf("h1", "1d")>>)}

IndicatorDocs ==
    {[Crossover EXCEPT !.indicators[2] = i] :
        i \in {Indicator("slow", Plain("sma"), Nothing),
               Indicator("slow", Plain("sma"), Num(1)),
               Indicator("slow", Plain("sma"), Reference("gone")),
               Indicator("slow", Plain("ibs"), Num(3)),
               Indicator("slow", Plain("unheard_of"), Nothing),
               Indicator("slow", Plain("atr"), Num(21)),
               Indicator("fast", Plain("sma"), Num(50)),
               Indicator("close", Plain("sma"), Num(50)),
               [Indicator("slow", Plain("sma"), Num(50)) EXCEPT
                   !.sources = <<Plain("ibs")>>],
               [Indicator("slow", Fallback, Nothing) EXCEPT
                   !.sources = <<Plain("ibs")>>],
               [Indicator("slow", Fallback, Nothing) EXCEPT
                   !.sources = <<Plain("ibs"), Plain("unheard_of")>>]}}

FeatureDocs ==
    {[Uses(Plain("f"), ">") EXCEPT !.features = <<f>>] :
        f \in {Feature("f", type, Close) : type \in FeatureTypes \cup {"median"}}
              \cup {Feature("f", "shift", Plain(s)) :
                       s \in {"ibs", "trend_direction", "unheard_of"}}
              \cup {Feature("f", "rolling_max", Plain("trend_direction")),
                    Feature("close", "shift", Close),
                    [Feature("f", "rolling_min", Close) EXCEPT !.window = Num(0)],
                    [Feature("f", "shift", Close) EXCEPT !.shift = Num(-1)],
                    [Feature("f", "shift", Close) EXCEPT !.shift = Reference("gone")]}
              \cup {Formula("f", op, <<Text(Plain("ibs")), Text(n)>>) :
                       op \in {">", "+", "and", "pow"},
                       n \in {Close, Plain("trend_direction"), Plain("unheard_of")}}}
    \cup {[Uses(Plain("f"), ">") EXCEPT
              !.features = <<Formula("f", ">", <<Ref("g"), Num(1)>>),
                             Formula("g", "+", <<Ref("close"), Num(1)>>)>>]}

RiskDocs ==
    {[Crossover EXCEPT !.risk.stop_loss = s] :
        s \in {StopSection("fixed_pct", "", Nothing, Decimal(2)),
               StopSection("fixed_pct", "", Nothing, Nothing),
               StopSection("atr", "unheard_of", Num(2), Nothing),
               StopSection("atr", "slow", Num(2), Nothing),
               StopSection("atr", "atr", Num(-2), Nothing),
               StopSection("atr", "atr", Ref("x"), Nothing),
               StopSection("trailing", "", Nothing, Nothing),
               StopSection("none", "", Nothing, Nothing)}}
    \cup {[Crossover EXCEPT !.risk.take_profit = t] :
             t \in {TargetSection("atr", "atr", Num(3), Nothing, Nothing),
                    TargetSection("fixed_pct", "", Nothing, Decimal(4), Nothing),
                    TargetSection("risk_reward", "", Nothing, Nothing, Nothing),
                    TargetSection("none", "", Nothing, Nothing, Nothing)}}
    \cup {[Crossover EXCEPT
              !.indicators = Append(@, [Indicator("", Plain("atr"), Num(21)) EXCEPT
                                           !.name = Name("atr", 21)])]}

NotDoc == [Simple EXCEPT !.tree = <<Group("not", {2}),
                                    Leaf(Ref("close"), "<", Num(1))>>]

ConditionDocs ==
    {NotDoc}
    \cup {[Simple EXCEPT !.tree = t] :
             t \in {<<Group("all", {})>>, <<Group("some", {})>>,
                    <<Group("all", {2}), Group("any", {3}), Group("all", {4}),
                      Group("any", {5}), Group("all", {6}), Group("any", {7}),
                      Leaf(Ref("close"), "exists", Nothing)>>,
                    <<Leaf(Ref("close"), "~", Num(1))>>,
                    <<Leaf(Ref("close"), "<", Nothing)>>,
                    <<Leaf(Ref("close"), "<", Reference("gone"))>>,
                    <<Leaf(Ref("close"), "between", List(<<Num(1), Num(2)>>))>>}}
    \cup {Uses(name, ">") :
             name \in {Plain("unheard_of"), Plain("timestamp"), Plain("vp_poc"),
                       Name("sma", 1), Suffixed(Name("sma", 20), "1d")}}
    \cup {[Simple EXCEPT !.sides = s] :
             s \in {<<>>, [both |-> [entry |-> 1, exit |-> None]],
                    [long |-> [entry |-> None, exit |-> 1]]}}

-----------------------------------------------------------------------------
(* Requests *)

Request(doc, m) ==
    [use |-> "backtest", doc |-> doc, overrides |-> <<>>, mode |-> m,
     columns |-> {}, amount |-> "ample", stamped |-> TRUE, sound |-> TRUE,
     informative |-> NoInformative]

CrossoverColumns ==
    {Name("sma", 20), Name("sma", 50), Plain("inside_value"), Plain("atr")}

Payloads ==
    {NoInformative, [kind |-> "list", aliases |-> {}, columns |-> {}],
     [kind |-> "map", aliases |-> {"h1"}, columns |-> {}],
     [kind |-> "map", aliases |-> {"h1", "h2", "w1"}, columns |-> {Plain("ibs")}]}

Overrides ==
    {[slow |-> v] : v \in {Num(9), Num(10), Num(200), Num(201), Decimal(1050),
                           Flag(TRUE), Ref("x")}}
    \cup {[stop |-> v] : v \in {Num(2), Decimal(-100), Decimal(501)}}
    \cup {[gone |-> Num(1)]}

Backtests ==
    {Request(d, Batch) : d \in {Declares(<<n>>) : n \in Catalogue \cup Periods}}
    \cup {Request(d, m) :
             d \in PairDocs \cup BrokenDocs \cup ParameterDocs \cup IndicatorDocs
                   \cup FeatureDocs \cup RiskDocs \cup ConditionDocs
                   \cup {Crossover, Declares(<<Plain("swing_high_n")>>)},
             m \in {Batch, Live}}
    \cup {[Request(d, m) EXCEPT !.informative = p, !.columns = c] :
             d \in TimeframeDocs, m \in {Batch, Live}, p \in Payloads,
             c \in {{}, {Suffixed(Plain("ibs"), "1d")}}}
    \cup {[Request(Crossover, Batch) EXCEPT !.overrides = o] : o \in Overrides}
    \cup {[Request(Crossover, m) EXCEPT !.columns = c] :
             m \in {Batch, Live},
             c \in {CrossoverColumns, CrossoverColumns \ {Plain("atr")}}}
    \cup {[Request(Crossover, Batch) EXCEPT !.amount = a] :
             a \in {NoBars, "short", "scarce"}}
    \cup {[Request(Crossover, Batch) EXCEPT !.stamped = FALSE],
          [Request(Crossover, Batch) EXCEPT !.sound = FALSE]}
    \cup {[Request(d, Batch) EXCEPT !.use = "features", !.columns = c] :
             d \in FeatureDocs, c \in {{}, {Plain("ibs")}}}
    \cup {[Request(d, Batch) EXCEPT !.columns = {Plain("f")}] : d \in FeatureDocs}

Questions ==
    [use : {"resolve"}, mode : {Batch}, concept : Concepts \cup Plains({"ibs", "bos"}),
     class : BothClasses, minutes : {5, 60, 1440}, forced : BOOLEAN]

MCRequests == Backtests \cup Questions

\* The bundled matrix labels every metric as correct.  One that is not makes
\* the fallback happen.
MCUncovered == {Plain("swing_high_n")}

-----------------------------------------------------------------------------
(* The strategy the parser makes of Crossover *)

Fast == Column(Name("sma", 20), <<Name("ema", 12)>>)
Slow == Column(Name("sma", 50), <<>>)
Inside == Column(Plain("inside_value"), <<>>)

MCTree ==
    << Group("all", {2, 3}),
       Leaf(Fast, "crosses_above", Slow),
       Leaf(Inside, "is_false", Absent),
       Leaf(Fast, "crosses_below", Slow),
       Group("any", {6, 7}),
       Leaf(Fast, "crosses_below", Slow),
       Group("all", {8, 9}),
       Leaf(Inside, "missing", Absent),
       Leaf(Fast, "<", Literal(Num(1))) >>

MCNodes == 1..9
MCEntry == [long |-> 1, short |-> 5]
MCExit == [long |-> 4, short |-> NoTree]

MCRisk ==
    [stop_loss_type |-> "atr", stop_indicator |-> Plain("atr"),
     stop_multiplier |-> 150, stop_pct |-> 0,
     take_profit_type |-> "risk_reward", take_profit_indicator |-> NoName,
     take_profit_multiplier |-> 0, take_profit_pct |-> 0, risk_reward_ratio |-> 250]

Bar(f, b, s, t, a, c) ==
    (Name("sma", 20) :> f) @@ (Name("ema", 12) :> b) @@ (Name("sma", 50) :> s)
    @@ (Plain("inside_value") :> t) @@ (Plain("atr") :> a) @@ (Close :> Num(c))

MCBars ==
    {Bar(f, b, s, t, Num(1), 40) :
         f \in {NaN, Num(0), Num(3)}, b \in {Nothing, Num(3)},
         s \in {Nothing, Num(1)}, t \in {Nothing, Flag(TRUE)}}
    \cup
    {Bar(f, Nothing, Num(1), Flag(FALSE), a, c) :
         f \in {Num(0), Num(3)}, a \in {NaN, Num(30)}, c \in {3, 40}}

-----------------------------------------------------------------------------
(* The composition: the engine shows bars to the strategy while it runs *)

MCInit == BacktestInit /\ Init

\* strategy_factory.create, of this definition.
Traded ==
    /\ stage = "running"
    /\ request = Request(Crossover, Batch)
    /\ def.tree = Tree
    /\ def.risk = Risk
    /\ \A d \in Sides : def.sides[d] = [entry |-> Entry[d], exit |-> Exit[d]]

MCNext ==
    \/ BacktestNext /\ history = <<>> /\ UNCHANGED vars
    \/ Traded /\ Next /\ UNCHANGED backtestVars

MCSpec == MCInit /\ [][MCNext]_<<vars, backtestVars>>
=============================================================================
