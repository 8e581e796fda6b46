--------------------------- MODULE ParameterSearch ---------------------------
(***************************************************************************)
(* The pure part of the optimizers: the grid of parameter values, the      *)
(* random draw from it, the ranking of results and the train/test windows  *)
(* of a walk-forward run.                                                  *)
(*                                                                         *)
(* Numbers are integers in the smallest unit of the quantity (a step of    *)
(* 0.1 is 1), so a grid point, a score and a return are exact.  A list of  *)
(* ranges is a sequence of [min, max, step], a combination the tuple of    *)
(* its values, in the order of the ranges.                                 *)
(***************************************************************************)
EXTENDS Integers, Sequences, FiniteSets, FiniteSetsExt, SequencesExt

MaxOf(a, b) == IF a >= b THEN a ELSE b
MinOf(a, b) == IF a <= b THEN a ELSE b

-----------------------------------------------------------------------------
(* The grid. *)

(* _parse_ranges raises on the first range that fails this. *)
ValidRange(r) == r.step > 0 /\ r.min <= r.max
ValidRanges(ranges) == \A k \in DOMAIN ranges : ValidRange(ranges[k])

(* _range_count: the grid points of a valid range, without listing them. *)
RangeCount(r) == IF r.min > r.max THEN 0 ELSE ((r.max - r.min) \div r.step) + 1

(* ParamRange.values: min, min + step, ... while it does not pass max. *)
Values(r) == [k \in 1..RangeCount(r) |-> r.min + (k - 1) * r.step]

(* The grid points of the first k ranges, counted and listed for every k:  *)
(* each is extended by every value of the next range, so the last range    *)
(* varies fastest.                                                         *)
Sizes(ranges) ==
    LET size[k \in 0..Len(ranges)] ==
            IF k = 0 THEN 1 ELSE size[k - 1] * RangeCount(ranges[k])
    IN  size

Products(ranges) ==
    LET product[k \in 0..Len(ranges)] ==
            IF k = 0 THEN << <<>> >>
            ELSE [n \in 1..(Len(product[k - 1]) * RangeCount(ranges[k])) |->
                     Append(product[k - 1][((n - 1) \div RangeCount(ranges[k])) + 1],
                            Values(ranges[k])[((n - 1) % RangeCount(ranges[k])) + 1])]
    IN  product

(* _generate_combinations, and the length it has. *)
MaxUnique(ranges) == Sizes(ranges)[Len(ranges)]
GenerateCombinations(ranges) == Products(ranges)[Len(ranges)]

(* _generate_random_combinations: distinct points of the grid.  The draws  *)
(* that repeat are thrown away; when the attempts run out and the grid is  *)
(* small the missing ones are taken from it in order, so only a grid above *)
(* the limit can leave the list short.  Without a range there is the empty *)
(* combination, whatever the count.                                        *)
RandomTarget(ranges, count, limit) ==
    IF ranges = <<>> THEN 1
    ELSE MaxOf(0, MinOf(MinOf(count, limit), MaxUnique(ranges)))

RandomDraw(combos, ranges, count, limit) ==
    LET grid   == ToSet(GenerateCombinations(ranges))
        target == RandomTarget(ranges, count, limit)
    IN  /\ ToSet(combos) \subseteq grid
        /\ Cardinality(ToSet(combos)) = Len(combos)
        /\ IF MaxUnique(ranges) <= limit THEN Len(combos) = target
           ELSE Len(combos) \in MinOf(1, target)..target

-----------------------------------------------------------------------------
(* One backtest of the search, and the ranking.  What the engine reports   *)
(* for the chosen metric is an integer, or None: the profit factor of a    *)
(* run without a losing trade.                                             *)

None == 0 - 1000000
Infinity == 1000000

(* _parse_profit_factor, and float(raw or 0) for the other metrics. *)
ParseMetric(raw) == IF raw = None THEN Infinity ELSE raw

(* _normalize_result: infinity is reported as no value. *)
Reported(score) == IF score = Infinity THEN None ELSE score

(* _backtest_one and _backtest_with_bars: each of the four ways to stop    *)
(* early, and an exception, leaves the metrics at their default of zero.   *)
Rejected(combo) == [params |-> combo, score |-> 0, error |-> TRUE]

BacktestOne(combo, outcome) ==
    IF outcome.stopped \in {"invalid", "missing", "warmup", "raised"}
    THEN Rejected(combo)
    ELSE [params |-> combo, score |-> ParseMetric(outcome.raw), error |-> FALSE]

(* results.sort(key, reverse): descending, equal keys keep their order. *)
SortPosition(results, k) ==
    Cardinality({j \in DOMAIN results :
        \/ results[j].score > results[k].score
        \/ results[j].score = results[k].score /\ j <= k})

Sorted(results) ==
    LET position == [k \in DOMAIN results |-> SortPosition(results, k)]
    IN  [p \in DOMAIN results |->
            results[CHOOSE k \in DOMAIN results : position[k] = p]]

(* The results are rebuilt with their rank. *)
WithRank(row, rank) ==
    [rank |-> rank, params |-> row.params, score |-> row.score, error |-> row.error]

RankedUnsorted(results) == [p \in DOMAIN results |-> WithRank(results[p], p)]

Ranked(results) ==
    LET sorted == Sorted(results)
    IN  [p \in DOMAIN results |-> WithRank(sorted[p], p)]

-----------------------------------------------------------------------------
(* Walk-forward windows.  A fold is [trainStart, trainEnd, testStart,      *)
(* testEnd], each window including its start and excluding its end.        *)

TrainCount(f) == f.trainEnd - f.trainStart
TestCount(f) == MaxOf(0, f.testEnd - f.testStart)

AnchoredFold(total, size, i) ==
    [trainStart |-> 0, trainEnd |-> (i + 1) * size, testStart |-> (i + 1) * size,
     testEnd |-> MinOf((i + 2) * size, total)]

(* train_ratio is given in tenths. *)
RollingFold(total, size, ratio, i) ==
    LET start == i * (size \div 2)
        train == start + (size * ratio) \div 10
    IN  [trainStart |-> start, trainEnd |-> train, testStart |-> train,
         testEnd |-> MinOf(train + size, total)]

(* The bars left after the last rolling window are tested once more, from  *)
(* the start of that window.                                               *)
TailFold(total, size, last) ==
    [trainStart |-> MaxOf(0, last.testStart - size), trainEnd |-> last.testStart,
     testStart |-> last.testStart, testEnd |-> MinOf(total, last.testEnd + size)]

ComputeFoldIndices(total, folds, ratio, anchor) ==
    LET size    == total \div folds
        rolling == [i \in 1..(folds - 1) |-> RollingFold(total, size, ratio, i - 1)]
    IN  IF total < 3 \/ folds < 2 THEN <<>>
        ELSE IF anchor = "anchored"
             THEN [i \in 1..folds |-> AnchoredFold(total, size, i - 1)]
             ELSE IF Last(rolling).testEnd < total
                  THEN Append(rolling, TailFold(total, size, Last(rolling)))
                  ELSE rolling

(* The folds announced as the total of the job, and the folds the loop     *)
(* runs: the loop reads the fold's own min_test, which is always 1.        *)
Announced(f, minTrain, minTest) ==
    TrainCount(f) >= minTrain /\ TestCount(f) >= MaxOf(1, minTest)

Runnable(f, minTrain) == TrainCount(f) >= minTrain /\ TestCount(f) >= 1

=============================================================================
