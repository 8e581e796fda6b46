------------------------- MODULE MCStrategyPipeline -------------------------
(* Two pipelines, the first with an informative timeframe. *)
EXTENDS StrategyPipeline

MCChildren == <<2, 1>>
MCSymbol == <<"BTC", "BTC">>
MCTrades == <<<<>>, <<>>>>
MCEquity == <<<<>>, <<>>>>
MCPageSizes == {1}
MCDeletable == {<<1, 1>>}
MCUpper == [s \in {"BTC"} |-> s]

=============================================================================
