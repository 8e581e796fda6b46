---------------------------- MODULE StrategyValues ----------------------------
(***************************************************************************)
(* What a strategy definition is written with: column names, JSON values   *)
(* and the operands of conditions.                                         *)
(*                                                                         *)
(* A name is a record of its parts, as the catalogue takes it apart: sma   *)
(* with period 20 of the 1d timeframe is "sma_20_1d".  Two names are equal *)
(* exactly when the strings are.                                           *)
(***************************************************************************)
EXTENDS Integers, Sequences

NoPeriod == -1
Plain(base) == [base |-> base, n |-> NoPeriod, iv |-> ""]
Name(base, n) == [base |-> base, n |-> n, iv |-> ""]
Close == Plain("close")
\* The empty string.
NoName == Plain("")

\* vp_poc_5d and cvp_poc_5d count sessions, rvp_poc_48 counts bars.
SessionBases == {"vp_poc", "vp_vah", "vp_val", "cvp_poc", "cvp_vah", "cvp_val"}
BarBases == {"rvp_poc", "rvp_vah", "rvp_val"}

\* f"{column}_{interval}".  "vp_poc" of the timeframe 1d is also the string
\* of the one-session window.
Suffixed(name, interval) ==
    IF name.base \in SessionBases /\ name.n = NoPeriod /\ interval = "1d"
      THEN Name(name.base, 1)
      ELSE [name EXCEPT !.iv = interval]

\* Bases that end as the name of an hourly column does.
HourBases ==
    {"open_interest_delta_1h", "liquidations_long_1h", "liquidations_short_1h",
     "realized_vol_1h"}

\* name.endswith(f"_{interval}")
EndsWith(name, interval) ==
    \/ name.iv = interval
    \/ name.iv = "" /\ name.base \in HourBases /\ interval = "1h"
    \/ name.iv = "" /\ name.base \in SessionBases /\ name.n = 1 /\ interval = "1d"

-----------------------------------------------------------------------------
(* Values: what a column or a field of the JSON document holds *)

Num(n) == [kind |-> "num", n |-> n]
\* A float, in hundredths.
Decimal(n) == [kind |-> "float", n |-> n]
Flag(b) == [kind |-> "bool", n |-> IF b THEN 1 ELSE 0]
Nothing == [kind |-> "none", n |-> 0]
NaN == [kind |-> "nan", n |-> 0]
Text(name) == [kind |-> "text", name |-> name]
\* The string "{{ parameter }}".
Reference(parameter) == [kind |-> "ref", parameter |-> parameter]
List(items) == [kind |-> "list", items |-> items]

\* float(value), in hundredths, of a number or a boolean.
Hundredths(v) == IF v.kind = "float" THEN v.n ELSE 100 * v.n

-----------------------------------------------------------------------------
(* Operands: a column with fallback columns, or a literal *)

Column(c, sources) == [columns |-> <<c>> \o sources]
Literal(v) == [columns |-> <<>>, value |-> v]
\* The right operand of a unary condition.
Absent == [columns |-> <<>>, value |-> Nothing]
=============================================================================
