--------------------------- MODULE MCResultStore ---------------------------
(* More results than the cache holds, one under a lower-case symbol and    *)
(* without trades, its equity curve dated by bar numbers.                  *)
EXTENDS ResultStore

MCSymbol == <<"BTC", "btc", "ETH">>
MCTrades == <<<<3, 1, Missing, 1>>, <<>>, <<2, 2, 2, -5, 4>>>>
Pt(d, x) == [day |-> d, drawdown |-> x]
MCEquity == <<<<Pt(1, 0), Pt(1, -2), Pt(1, -1), Pt(2, 0)>>,
              <<Pt(7, 0), Pt(7, -1), Pt(8, 0)>>,
              <<Pt(1, -1), Pt(2, -3), Pt(2, -4), Pt(2, 0), Pt(3, -4)>>>>
MCPageSizes == 0..3
MCUpper == [s \in {"BTC", "btc", "ETH"} |-> IF s = "ETH" THEN s ELSE "BTC"]

=============================================================================
