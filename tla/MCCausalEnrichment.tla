------------------------- MODULE MCCausalEnrichment -------------------------
(* Seven primary bars over three days, informative bars of two of them; and a *)
(* course of five bars for the two disagreements.                            *)
EXTENDS IndicatorProperties

Bar(o, h, l, c, v, d) ==
    [open |-> o, high |-> h, low |-> l, close |-> c, volume |-> v, day |-> d]

(* Rising, falling, inside and flat bars, with volume from none to heavy.  *)
MCPrimaryChoices ==
    <<{Bar(10, 12, 8, 11, 2, 1), Bar(10, 10, 10, 10, 0, 1)},
      {Bar(11, 14, 11, 13, 1, 1)},
      {Bar(12, 12, 10, 11, 1, 2), Bar(9, 15, 9, 14, 4, 2)},
      {Bar(11, 13, 8, 10, 1, 2), Bar(14, 18, 11, 15, 9, 2)},
      {Bar(9, 16, 9, 14, 2, 2), Bar(5, 6, 5, 6, 9, 2)},
      {Bar(14, 14, 4, 9, 1, 3), Bar(13, 22, 12, 21, 9, 3)},
      {Bar(8, 17, 8, 13, 9, 3), Bar(4, 5, 3, 3, 0, 3)}>>
MCInfoBars == <<Bar(10, 14, 8, 12, 5, 1), Bar(12, 18, 8, 16, 7, 1)>>

Name(base, k) == [base |-> base, n |-> k]
MCIndicators ==
    <<Name("sma", 3), Name("ema", 2), Name("rsi", 2), Name("atr", 2),
      Name("adx", 3), Name("bb_upper", 3), Name("bb_middle", 3),
      Name("bb_lower", 3), Name("macd", 0), Name("macd_signal", 0),
      Name("macd_hist", 0), Name("ker", 0), Name("kama", 0),
      Name("rvol", 0), Name("vwap", 0), Name("ibs", 0), Name("vp_poc", 0),
      Name("near_val", 0), Name("inside_value", 0),
      Name("acceptance_into_value", 0), Name("stopping_volume", 0),
      Name("poc_slope", 1), Name("bos", 0), Name("bullish_fvg", 0),
      Name("is_coiled", 0), Name("rvp_poc", 2),
      Name("day_type_classification", 0), Name("premium_discount_zone", 0)>>
MCInfoIndicators == <<Name("sma", 2), Name("rvol", 0), Name("bos", 0)>>

(* One course of five bars with a high that the fourth breaks, and         *)
(* informative bars like it, with a metric that asks for sessions.         *)
MCBreak ==
    <<Bar(10, 12, 8, 11, 2, 1), Bar(11, 16, 10, 12, 1, 1),
      Bar(12, 13, 9, 10, 2, 1), Bar(10, 18, 10, 17, 5, 1),
      Bar(17, 18, 14, 15, 1, 1)>>
MCBreakChoices == [k \in DOMAIN MCBreak |-> {MCBreak[k]}]
MCBreakIndicators == <<Name("ibs", 0)>>
MCSessionIndicators == <<Name("wyckoff_phase", 0), Name("bos", 0)>>
=============================================================================
