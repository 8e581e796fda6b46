--------------------------- MODULE ResultProjection ---------------------------
(***************************************************************************)
(* backtest_result_projection: the views a client gets of a stored result. *)
(* A trade is the value of the field it is sorted by, Missing if it has    *)
(* none; an equity point is its day and its drawdown in percent.           *)
(***************************************************************************)
EXTENDS Integers, SequencesExt, FiniteSets

CONSTANT IsoDays    \* days written with ten characters or more

Missing == -1000

(* A sort by counting: the members of the domain in the order of their     *)
(* ranks 1, 2, ....                                                        *)
ByRank(rank) ==
    [p \in 1..Cardinality(DOMAIN rank) |-> CHOOSE x \in DOMAIN rank : rank[x] = p]

(* _sort_value: missing values come last.                                  *)
SortValue(trade) == IF trade = Missing THEN <<1, 0>> ELSE <<0, trade>>
Less(a, b) == a[1] < b[1] \/ (a[1] = b[1] /\ a[2] < b[2])

(* sorted_trades: a stable sort of the positions by _sort_value; missing   *)
(* values come first when descending, and ties keep their order either way.*)
Before(trades, dir, i, k) ==
    LET a == SortValue(trades[i])
        b == SortValue(trades[k])
    IN  \/ IF dir = "desc" THEN Less(b, a) ELSE Less(a, b)
        \/ a = b /\ i < k
SortedTrades(trades, dir) ==
    ByRank([k \in DOMAIN trades |->
              Cardinality({i \in DOMAIN trades : i = k \/ Before(trades, dir, i, k)})])

TotalPages(total, size) == (total + size - 1) \div size

(* page_items: the size is clamped, then the page. *)
PageSize(size) == IF size < 1 THEN 1 ELSE IF size > 1000 THEN 1000 ELSE size

PageItems(items, page, size) ==
    LET total == Len(items)
        n     == PageSize(size)
        last  == TotalPages(total, n) - 1
        at    == IF total = 0 \/ page < 0 THEN 0 ELSE IF page > last THEN last ELSE page
        end   == IF (at + 1) * n < total THEN (at + 1) * n ELSE total
    IN  SubSeq(items, at * n + 1, end)

(* _downsample_by_prefix: a dictionary keyed by day.  The first point of a *)
(* day gives the place, later ones overwrite it.                           *)
DownsampleByPrefix(curve) ==
    LET firsts    == {k \in DOMAIN curve : \A j \in 1..(k - 1) : curve[j].day # curve[k].day}
        place     == ByRank([k \in firsts |-> Cardinality({j \in firsts : j <= k})])
        LastOn(day) == CHOOSE k \in DOMAIN curve :
                        /\ curve[k].day = day
                        /\ \A j \in (k + 1)..Len(curve) : curve[j].day # day
    IN  [p \in DOMAIN place |-> curve[LastOn(curve[place[p]].day)]]

(* _drawdown_events: per day the first of the deepest points under water,  *)
(* in the order of the days.                                               *)
DrawdownEvents(curve) ==
    LET deeper(k, j) == \/ curve[k].drawdown < curve[j].drawdown
                        \/ curve[k].drawdown = curve[j].drawdown /\ k <= j
        worst == {k \in DOMAIN curve :
                     /\ curve[k].drawdown < 0
                     /\ \A j \in DOMAIN curve : curve[j].day = curve[k].day => deeper(k, j)}
        place == ByRank([k \in worst |-> Cardinality({j \in worst : curve[j].day <= curve[k].day})])
    IN  [p \in DOMAIN place |-> curve[place[p]]]

(* _has_iso_dates looks at the first point only. *)
HasIsoDates(curve) == curve = <<>> \/ curve[1].day \in IsoDays

(* equity_points: "weekly" cuts the date at the same ten characters as     *)
(* "daily" and every unknown mode do, but without a look at the dates; a   *)
(* prefix of no characters is the whole curve.                             *)
EquityPoints(curve, mode) ==
    CASE mode \in {"full", "page"}   -> curve
      [] mode = "none"               -> <<>>
      [] mode = "weekly"             -> DownsampleByPrefix(curve)
      [] mode = "drawdown_events"    -> DrawdownEvents(curve)
      [] OTHER -> IF HasIsoDates(curve) THEN DownsampleByPrefix(curve) ELSE curve

=============================================================================
