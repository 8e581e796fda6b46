-------------------------- MODULE StrategyEvaluation --------------------------
(***************************************************************************)
(* A JSON strategy at work: JsonRuleBasedStrategy.on_bar evaluates the     *)
(* condition trees of its sides against one bar after another              *)
(* (condition_evaluator.py), remembers the operands of its crossovers, and *)
(* prices the stop and the target of an entry                              *)
(* (json_risk_price_calculator.py).                                        *)
(*                                                                         *)
(* The position it is shown is the caller's: it may change in any way      *)
(* between two bars.  A condition tree is a table of nodes.                *)
(***************************************************************************)
EXTENDS Integers, Sequences, StrategyValues

CONSTANTS
    Nodes,      \* the nodes of all condition trees of the definition
    Tree,       \* Nodes -> [kind, children] or [kind, left, op, right]
    Entry,      \* side -> root of its entry tree
    Exit,       \* side -> root of its exit tree, or NoTree
    NoTree,
    Risk,       \* the RiskSpec, in hundredths (see Calculate)
    Bars,       \* the bars a caller may show: column -> value
    MaxBars     \* bound: bars between two resets

Sides == DOMAIN Entry
Positions == {"flat", "long", "short"}

(* A definition trades long, short or both.  Prices and the numbers of the *)
(* RiskSpec are numbers, and so is a value of the column an ATR distance   *)
(* is read from, unless it is missing.                                     *)
ASSUME EvaluationAssumption ==
    /\ Sides \subseteq {"long", "short"}
    /\ \A bar \in Bars : bar[Close].n \in Int
    /\ \A field \in {"stop_multiplier", "stop_pct", "take_profit_multiplier",
                     "take_profit_pct", "risk_reward_ratio"} : Risk[field] \in Int
    /\ \A bar \in Bars :
          /\ Risk.stop_loss_type = "atr" => bar[Risk.stop_indicator].n \in Int
          /\ Risk.take_profit_type = "atr" => bar[Risk.take_profit_indicator].n \in Int

VARIABLES
    previous,   \* _previous_values: crossover key -> pair, where recorded
    history,    \* observer: the bars seen since the last reset
    seen,       \* observer: the position shown with the last bar
    signal      \* the SignalResult of the last bar

vars == <<previous, history, seen, signal>>

-----------------------------------------------------------------------------
(* Operands on a bar *)

\* _resolve_operand: the first column that holds something.
Resolve(o, bar) ==
    LET present == {i \in DOMAIN o.columns : bar[o.columns[i]] \notin {Nothing, NaN}}
    IN  IF o.columns = <<>> THEN o.value
        ELSE IF present = {} THEN Nothing
        ELSE bar[o.columns[CHOOSE i \in present : \A k \in present : i <= k]]

\* _to_float: booleans, lists and missing values are no numbers.
IsNumber(v) == v.kind = "num"

Truthy(v) == v.kind # "none" /\ v.n # 0

\* _between
Between(v, span) ==
    /\ IsNumber(v)
    /\ span.kind = "list"
    /\ Len(span.items) = 2
    /\ \A i \in 1..2 : IsNumber(span.items[i])
    /\ span.items[1].n <= v.n /\ v.n <= span.items[2].n

\* _compare
Compare(a, op, b) ==
    \/ op = "<" /\ a < b
    \/ op = ">" /\ a > b
    \/ op = "<=" /\ a <= b
    \/ op = ">=" /\ a >= b
    \/ op = "==" /\ a = b
    \/ op = "!=" /\ a # b

Crossovers == {"crosses_above", "crosses_below"}

-----------------------------------------------------------------------------
(* Crossover memory *)

\* Operands stand for their labels: a definition gives one label to each.
KeyOf(n) == <<Tree[n].left, Tree[n].right, Tree[n].op>>

Keys ==
    {KeyOf(n) : n \in {m \in Nodes : /\ Tree[m].kind = "condition"
                                     /\ Tree[m].op \in Crossovers
                                     /\ Tree[m].right # Absent}}

NotRecorded == <<>>

\* Both operands of a key are numbers on this bar.
Readable(k, bar) == IsNumber(Resolve(k[1], bar)) /\ IsNumber(Resolve(k[2], bar))

PairOf(k, bar) == <<Resolve(k[1], bar).n, Resolve(k[2], bar).n>>

\* Mutant: crossovers are recorded only while the strategy has no position.
MutCollected(bar, position) ==
    [k \in Keys |-> IF Readable(k, bar) /\ position = "flat"
                      THEN PairOf(k, bar) ELSE previous[k]]

\* collect_state over the entry and exit trees of every side, and commit.
Collected(bar, position) ==
    [k \in Keys |-> IF Readable(k, bar) THEN PairOf(k, bar) ELSE previous[k]]

\* _crossed, given the pair recorded before.
Crossed(k, before, bar) ==
    /\ before # NotRecorded
    /\ LET now == PairOf(k, bar)
       IN  \/ k[3] = "crosses_above" /\ before[1] <= before[2] /\ now[1] > now[2]
           \/ k[3] = "crosses_below" /\ before[1] >= before[2] /\ now[1] < now[2]

-----------------------------------------------------------------------------
(* Condition trees *)

\* _evaluate_condition, with the memory of the crossovers.
ConditionHolds(n, bar, memory) ==
    LET c == Tree[n]
        left == Resolve(c.left, bar)
        right == Resolve(c.right, bar)
    IN  \/ c.op = "exists" /\ left # Nothing
        \/ c.op = "missing" /\ left = Nothing
        \/ c.op = "is_true" /\ Truthy(left)
        \/ c.op = "is_false" /\ ~Truthy(left)
        \/ /\ c.right # Absent
           /\ \/ c.op = "between" /\ Between(left, right)
              \/ c.op = "not_between" /\ ~Between(left, right)
              \/ /\ IsNumber(left) /\ IsNumber(right)
                 /\ \/ Compare(left.n, c.op, right.n)
                    \/ c.op \in Crossovers /\ Crossed(KeyOf(n), memory[KeyOf(n)], bar)

\* _evaluate_bool; a group "not" has one child.
Holds(root, bar, memory) ==
    LET h[n \in Nodes] ==
            CASE Tree[n].kind = "all" -> \A c \in Tree[n].children : h[c]
              [] Tree[n].kind = "any" -> \E c \in Tree[n].children : h[c]
              [] Tree[n].kind = "not" -> \E c \in Tree[n].children : ~h[c]
              [] OTHER -> ConditionHolds(n, bar, memory)
    IN  h[root]

-----------------------------------------------------------------------------
(***************************************************************************)
(* Risk prices.  A price or a distance is <<n>>, or <<>> where the float   *)
(* is NaN; 0 stands for none.  Bars have whole cents; percentages,         *)
(* multipliers and the reward ratio are in hundredths.  Between the two,   *)
(* n is in ten-thousandths of a cent.                                      *)
(***************************************************************************)
Unit == 10000
NoPrice == <<0>>
NaNPrice == <<>>

\* round(x, 2): to the nearest cent, a half to the even one.
Round(price) ==
    LET down == price[1] \div Unit
        rest == price[1] % Unit
        up == rest > Unit \div 2 \/ (rest = Unit \div 2 /\ down % 2 = 1)
    IN  IF price = NaNPrice THEN price ELSE <<IF up THEN down + 1 ELSE down>>

\* The close moved by a distance, for (1) or against (-1) a side.
Moved(close, side, sign, distance) ==
    IF distance \in {NoPrice, NaNPrice} THEN distance
    ELSE IF (side = "long") = (sign = 1) THEN <<close * Unit + distance[1]>>
    ELSE <<close * Unit - distance[1]>>

\* The ATR handlers.  float(None or 0) is 0, but float(nan or 0) is NaN, and
\* NaN <= 0 does not hold.
AtrDistance(atr, multiplier) ==
    IF multiplier <= 0 \/ (atr # NaN /\ atr.n <= 0) THEN NoPrice
    ELSE IF atr = NaN THEN NaNPrice
    ELSE <<atr.n * multiplier * (Unit \div 100)>>

PctDistance(close, pct) ==
    IF pct > 0 THEN <<close * pct * (Unit \div 100)>> ELSE NoPrice

StopDistance(bar, close) ==
    CASE Risk.stop_loss_type = "atr" ->
             AtrDistance(bar[Risk.stop_indicator], Risk.stop_multiplier)
      [] Risk.stop_loss_type = "fixed_pct" -> PctDistance(close, Risk.stop_pct)
      [] OTHER -> NoPrice

\* Mutant: the stop of a short is placed as that of a long.
MutStop(bar, close, side) == Moved(close, "long", -1, StopDistance(bar, close))

\* _calculate_stop
Stop(bar, close, side) == Moved(close, side, -1, StopDistance(bar, close))

\* _target_risk_reward
RewardDistance(close, stop) ==
    LET risk == IF stop[1] < close * Unit THEN close * Unit - stop[1]
                                          ELSE stop[1] - close * Unit
    IN  IF Risk.risk_reward_ratio <= 0 THEN NoPrice
        ELSE IF stop = NaNPrice THEN NaNPrice
        ELSE IF stop[1] <= 0 THEN NoPrice
        ELSE <<(risk * Risk.risk_reward_ratio) \div 100>>

TargetDistance(bar, close, stop) ==
    CASE Risk.take_profit_type = "atr" ->
             AtrDistance(bar[Risk.take_profit_indicator], Risk.take_profit_multiplier)
      [] Risk.take_profit_type = "fixed_pct" -> PctDistance(close, Risk.take_profit_pct)
      [] Risk.take_profit_type = "risk_reward" -> RewardDistance(close, stop)
      [] OTHER -> NoPrice

\* _calculate_target
Target(bar, close, side, stop) ==
    Moved(close, side, 1, TargetDistance(bar, close, stop))

\* JsonRiskPriceCalculator.calculate
Calculate(bar, side) ==
    LET close == bar[Close].n
        stop == Stop(bar, close, side)
    IN  [stop |-> Round(stop), target |-> Round(Target(bar, close, side, stop))]

-----------------------------------------------------------------------------
(* The strategy *)

Hold == [action |-> "hold", direction |-> "", stop |-> NoPrice, target |-> NoPrice]

EntryOf(bar, side) ==
    [action |-> IF side = "long" THEN "buy" ELSE "sell", direction |-> side,
     stop |-> Calculate(bar, side).stop, target |-> Calculate(bar, side).target]

\* _entry_signal: the long side is asked first.
EntrySignal(bar, memory) ==
    LET open == {s \in Sides : Holds(Entry[s], bar, memory)}
    IN  IF "long" \in open THEN EntryOf(bar, "long")
        ELSE IF "short" \in open THEN EntryOf(bar, "short")
        ELSE Hold

\* _exit_signal: the rules of the side that is held.
ExitSignal(bar, side, memory) ==
    IF /\ side \in Sides
       /\ Exit[side] # NoTree
       /\ Holds(Exit[side], bar, memory)
      THEN [action |-> IF side = "long" THEN "sell" ELSE "buy",
            direction |-> "exit", stop |-> NoPrice, target |-> NoPrice]
      ELSE Hold

Evaluate(bar, position, memory) ==
    IF position = "flat" THEN EntrySignal(bar, memory)
                         ELSE ExitSignal(bar, position, memory)

Init ==
    /\ previous = [k \in Keys |-> NotRecorded]
    /\ history = <<>>
    /\ seen = "flat"
    /\ signal = Hold

\* on_bar
OnBar(bar, position) ==
    /\ Len(history) < MaxBars
    /\ signal' = Evaluate(bar, position, previous)
    /\ previous' = Collected(bar, position)
    /\ history' = Append(history, bar)
    /\ seen' = position

\* on_reset
OnReset ==
    /\ history # <<>>
    /\ previous' = [k \in Keys |-> NotRecorded]
    /\ history' = <<>>
    /\ seen' = "flat"
    /\ signal' = Hold

Next ==
    \/ \E bar \in Bars, position \in Positions : OnBar(bar, position)
    \/ OnReset

Spec == Init /\ [][Next]_vars

-----------------------------------------------------------------------------
(***************************************************************************)
(* Properties                                                              *)
(***************************************************************************)
Now == Len(history)

\* Bar i is the last bar before the current one on which both operands of k
\* could be read.
LastReadable(k, i) ==
    /\ i \in 1..(Now - 1)
    /\ Readable(k, history[i])
    /\ \A m \in (i + 1)..(Now - 1) : ~Readable(k, history[m])

\* What a strategy that only looks at its bars would remember.
MemoryFromBars ==
    [k \in Keys |->
        IF \E i \in 1..(Now - 1) : LastReadable(k, i)
          THEN PairOf(k, history[CHOOSE i \in 1..(Now - 1) : LastReadable(k, i)])
          ELSE NotRecorded]

\* The signal on a bar is determined by the bars since the reset and by the
\* position shown with that bar.  Earlier positions, trees that were not
\* evaluated while a position was held, and runs before the reset leave no
\* trace in it: a backtest and a live replay of the same bars agree.
SignalsReplayable ==
    Now > 0 => signal = Evaluate(history[Now], seen, MemoryFromBars)

\* The stop of an entry lies strictly on its losing side and the target on
\* its winning side of the close, once they are a cent or more away from it:
\* rounding to cents and the reward ratio keep them apart.
BracketAroundClose ==
    LET bar == history[Now]
        close == bar[Close].n
        side == signal.direction
        far(distance) == distance # NaNPrice /\ distance[1] >= Unit
    IN  (Now > 0 /\ side \in Sides) =>
            /\ far(StopDistance(bar, close)) =>
                   IF side = "long" THEN signal.stop[1] < close
                                    ELSE signal.stop[1] > close
            /\ far(TargetDistance(bar, close, Stop(bar, close, side))) =>
                   IF side = "long" THEN signal.target[1] > close
                                    ELSE signal.target[1] < close

=============================================================================
