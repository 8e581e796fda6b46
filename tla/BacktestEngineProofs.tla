------------------------ MODULE BacktestEngineProofs ------------------------
(***************************************************************************)
(* Proofs about BacktestEngine.  The safety invariants of the module hold  *)
(* for every market (BarSet), strategy (SignalSet) and configuration that  *)
(* the assumptions admit.  The argument is one induction:                  *)
(*                                                                         *)
(*   1. arithmetic and typing of the helper operators;                     *)
(*   2. CloseLemma and EnterLemma: every exit and every entry keeps the    *)
(*      books (Booked), whatever action it is called from;                 *)
(*   3. one lemma per action for the inductive invariant IInv;             *)
(*   4. the theorems, read off IInv.                                       *)
(***************************************************************************)
EXTENDS BacktestEngine, TLAPS

-----------------------------------------------------------------------------
(* Arithmetic. *)

(* Integer division by a positive divisor is closed on the integers. *)
LEMMA DivInt == \A x \in Int, y \in Nat \ {0} : x \div y \in Int
  OBVIOUS

(* Products of integers are integers. *)
LEMMA TimesInt == \A x, y \in Int : x * y \in Int
  OBVIOUS

(* Products of positive numbers are positive: the divisor of the           *)
(* affordability cap (_max_affordable_size) never vanishes.                *)
LEMMA TimesPos == \A x, y \in Nat \ {0} : x * y \in Nat \ {0}
  OBVIOUS

(* A rate below 100% takes less than the whole of a positive amount. *)
LEMMA PctBound ==
    \A x \in Nat \ {0}, p \in 0..99 : Pct(x, p) \in 0 .. x - 1
  <1> SUFFICES ASSUME NEW x \in Nat \ {0}, NEW p \in 0..99
               PROVE  Pct(x, p) \in 0 .. x - 1
    OBVIOUS
  <1>1. x * p <= x * 99 /\ x * p >= 0 /\ x * p \in Int
    OBVIOUS
  <1>2. x * p < x * 100
    BY <1>1
  <1> QED
    BY <1>1, <1>2 DEF Pct

(* A percentage of an amount is an amount. *)
LEMMA PctInt == \A x \in Int, p \in Nat : Pct(x, p) \in Int
  BY DEF Pct

(* _apply_slippage: a positive price stays positive after slippage. *)
LEMMA FillPositive ==
    ASSUME NEW price \in Prices, NEW d, NEW side
    PROVE  ApplySlippage(price, d, side) \in Prices
  <1>1. price \in Nat \ {0} /\ SlippagePct \in 0..99
    BY ConfigAssumption DEF Prices
  <1>2. Pct(price, SlippagePct) \in 0 .. price - 1
    BY <1>1, PctBound
  <1> QED
    BY <1>1, <1>2 DEF ApplySlippage, Prices

(* round(x, 2) moves an amount by at most half a cent (TradeRecord.pnl). *)
LEMMA RoundCentsBound ==
    \A x \in Int : /\ RoundCents(x) \in Int
                   /\ 2 * (RoundCents(x) - x) <= TicksPerCent
                   /\ 2 * (x - RoundCents(x)) <= TicksPerCent
  BY DEF RoundCents, TicksPerCent

(* The two forms of gross profit in calc_pnl are the same difference of    *)
(* notional values.                                                        *)
LEMMA Distribute ==
    \A a, b, n \in Int : /\ (a - b) * n = n * a - n * b
                         /\ (b - a) * (-n) = n * a - n * b
  OBVIOUS

-----------------------------------------------------------------------------
(* Exits. *)

(* _apply_slippage is closed on the integers, whatever the price. *)
LEMMA SlippageInt ==
    ASSUME NEW price \in Int, NEW d, NEW side
    PROVE  ApplySlippage(price, d, side) \in Int
  <1>1. Pct(price, SlippagePct) \in Int
    BY ConfigAssumption DEF Pct
  <1> QED
    BY <1>1 DEF ApplySlippage

(* Absolute values are natural numbers. *)
LEMMA AbsNat == \A x \in Int : Abs(x) \in Nat /\ (x # 0 => Abs(x) > 0)
  BY DEF Abs

(* _commission is an amount. *)
LEMMA CommissionInt == \A x \in Int : Commission(x) \in Int
  BY ConfigAssumption DEF Commission, Pct, Abs

(* margin_required is an amount. *)
LEMMA MarginInt == \A x \in Int : MarginRequired(x) \in Int
  BY ConfigAssumption DEF MarginRequired

(* margin_required of a notional value is not negative. *)
LEMMA MarginNat == \A x \in Nat : MarginRequired(x) \in Nat
  BY ConfigAssumption DEF MarginRequired

(* _time_held is a number of bars. *)
LEMMA TimeHeldInt ==
    ASSUME NEW a \in Nat, NEW b \in Nat
    PROVE  TimeHeld(a, b) \in Int
  BY MarketAssumption DEF TimeHeld, Day, AtLeast

(* borrow_cost is an amount. *)
LEMMA BorrowInt ==
    ASSUME NEW p \in Positions, NEW date \in Nat
    PROVE  BorrowCost(p, date) \in Int
  <1>1. TimeHeld(p.entry_date, date) \in Int
    BY TimeHeldInt DEF Positions
  <1>2. /\ Abs(p.size) \in Int /\ p.entry_price \in Int /\ BorrowPct \in Int
    BY AbsNat, ConfigAssumption DEF Positions
  <1>4. Abs(p.size) * p.entry_price * BorrowPct * TimeHeld(p.entry_date, date)
            \in Int
    BY <1>1, <1>2, TimesInt
  <1>3. 36500 * BarsPerDay \in Nat \ {0}
    BY MarketAssumption
  <1> QED
    BY <1>3, <1>4, DivInt DEF BorrowCost

(* A long position pays no borrow fee. *)
LEMMA BorrowLong ==
    ASSUME NEW p, p.direction = "long", NEW date
    PROVE  BorrowCost(p, date) = 0
  BY DEF BorrowCost

(* A position has the direction of its size and a positive entry price; a  *)
(* flat one has no cost.                                                   *)
Sided(p) ==
    /\ p.size > 0 => p.direction = "long"
    /\ p.size < 0 => p.direction = "short"
    /\ p.size = 0 => p.entry_price = 0 /\ p.entry_commission = 0
    /\ p.size # 0 => p.entry_price > 0

(* The reported result is within half a cent per trade of the exact one.   *)
Rounded(s) ==
    /\ 2 * (s.trades.pnl - s.trades.net) <= TicksPerCent * s.trades.count
    /\ 2 * (s.trades.net - s.trades.pnl) <= TicksPerCent * s.trades.count

(* The books of a simulation state are in order. *)
Booked(s) ==
    /\ Sided(s.position)
    /\ Ledger(s)
    /\ Costs(s)
    /\ Mirror(s)
    /\ MarginBooked(s)
    /\ Rounded(s)

(* The flat position of SimulatedPosition is a position. *)
LEMMA FlatPositionType == FlatPosition \in Positions
  BY DEF FlatPosition, Positions, NoDate

(* The margin of a position is an amount. *)
LEMMA PositionMarginInt ==
    ASSUME NEW p \in Positions
    PROVE  MarginRequired(Abs(p.size) * p.entry_price) \in Int
  <1>1. Abs(p.size) \in Int /\ p.entry_price \in Int
    BY AbsNat DEF Positions
  <1> QED
    BY <1>1, TimesInt, MarginInt

(* settle_exit returns an account. *)
LEMMA SettleExitType ==
    ASSUME NEW a \in [cash : Int, margin_book : Int], NEW p \in Positions,
           NEW cash \in Int
    PROVE  SettleExit(a, p, cash) \in [cash : Int, margin_book : Int]
  <1>1. MarginRequired(Abs(p.size) * p.entry_price) \in Int
    BY PositionMarginInt
  <1> QED
    BY <1>1 DEF SettleExit, AtMost

(* release_margin returns an amount. *)
LEMMA ReleaseMarginType ==
    ASSUME NEW u \in Int, NEW p \in Positions
    PROVE  ReleaseMargin(u, p) \in Int
  <1>1. MarginRequired(Abs(p.size) * p.entry_price) \in Int
    BY PositionMarginInt
  <1> QED
    BY <1>1 DEF ReleaseMargin, AtLeast

(* Every exit, whatever its price, reason and date. *)
LEMMA CloseLemma ==
    ASSUME NEW s \in States, NEW price \in Int, NEW date \in Nat,
           NEW reason \in ExitReasons, s.position.size # 0, Booked(s)
    PROVE  LET c == Close(s, price, date, reason)
           IN  /\ c \in States
               /\ Booked(c)
               /\ c.position = FlatPosition
               /\ c.trades.count = s.trades.count + 1
               /\ c.last_trade.exit_date = date
               /\ c.last_trade.exit_reason = reason
               /\ c.pending_entry = s.pending_entry
               /\ c.pending_exit = s.pending_exit
               /\ c.equity = s.equity
               /\ c.total_funding = s.total_funding
  <1> DEFINE p      == s.position
             fill   == ApplySlippage(price, p.direction, "exit")
             cost   == Abs(p.size) * fill
             fee    == Commission(cost)
             gross  == CalcPnl(p.size, p.entry_price, fill)
             borrow == BorrowCost(p, date)
             net    == NetPnl(p, gross, fee, borrow)
             settle == CashSettlement(p.size, cost, fee, borrow)
             slip   == Abs(fill - price) * Abs(p.size)
             c      == Close(s, price, date, reason)
  <1> HIDE DEF p, fill, cost, fee, gross, borrow, net, settle, slip, c
  <1>p. p \in Positions
    BY DEF p, States
  <1>t. /\ p.size \in Int /\ p.entry_price \in Int
        /\ p.entry_commission \in Int /\ p.bars_held \in Nat
        /\ p.direction \in {"none", "long", "short"} /\ p.size # 0
    BY <1>p DEF p, Positions
  <1>a. Abs(p.size) \in Int
    BY <1>t, AbsNat
  <1>1. fill \in Int
    BY SlippageInt DEF fill
  <1>2. cost \in Int /\ slip \in Int
    <2>1. Abs(fill - price) \in Int
      BY <1>1, AbsNat
    <2> QED
      BY <1>a, <1>1, <2>1, TimesInt DEF cost, slip
  <1>3. fee \in Int
    BY <1>2, CommissionInt DEF fee
  <1>4. gross \in Int
    <2>1. (fill - p.entry_price) * Abs(p.size) \in Int
      BY <1>t, <1>1, <1>a, TimesInt
    <2>2. (p.entry_price - fill) * Abs(p.size) \in Int
      BY <1>t, <1>1, <1>a, TimesInt
    <2> QED
      BY <2>1, <2>2 DEF gross, CalcPnl
  <1>5. borrow \in Int
    BY <1>p, BorrowInt DEF borrow
  <1>6. net = gross - p.entry_commission - fee - borrow /\ net \in Int
    BY <1>t, <1>3, <1>4, <1>5 DEF net, NetPnl
  <1>7. settle \in Int
    BY <1>2, <1>3, <1>5 DEF settle, CashSettlement
  <1>8. RoundCents(net) \in Int /\ 2 * (RoundCents(net) - net) <= TicksPerCent
        /\ 2 * (net - RoundCents(net)) <= TicksPerCent
    BY <1>6, RoundCentsBound
  <1>s. /\ s.cash \in Int /\ s.account \in [cash : Int, margin_book : Int]
        /\ s.trades \in [count : Nat, gross : Int, net : Int, pnl : Int]
        /\ s.used_margin \in Int /\ s.total_commission \in Int
        /\ s.total_slippage \in Int /\ s.total_borrow_cost \in Int
        /\ s.total_funding \in Int
    BY DEF States
  <1>9. SettleExit(s.account, p, s.cash + settle) \in [cash : Int, margin_book : Int]
    <2>1. s.cash + settle \in Int
      BY <1>7, <1>s
    <2> QED
      BY <2>1, <1>p, <1>s, SettleExitType
  <1>10. ReleaseMargin(s.used_margin, p) \in Int
    BY <1>p, <1>s, ReleaseMarginType
  <1>c. c = [s EXCEPT
              !.total_commission = s.total_commission + fee,
              !.total_slippage = s.total_slippage + slip,
              !.total_borrow_cost = s.total_borrow_cost + borrow,
              !.cash = s.cash + settle,
              !.used_margin = ReleaseMargin(s.used_margin, p),
              !.account = SettleExit(s.account, p, s.cash + settle),
              !.trades = [count |-> s.trades.count + 1,
                          gross |-> s.trades.gross + gross,
                          net |-> s.trades.net + net,
                          pnl |-> s.trades.pnl + RoundCents(net)],
              !.last_trade = [exit_date |-> date, exit_price |-> fill,
                              direction |-> p.direction,
                              duration_bars |-> p.bars_held,
                              exit_reason |-> reason],
              !.position = FlatPosition]
    BY DEF Close, c, fill, cost, fee, gross, borrow, net, settle, slip, p, States
  <1>f. /\ c.cash = s.cash + settle
        /\ c.position = FlatPosition
        /\ c.trades = [count |-> s.trades.count + 1,
                       gross |-> s.trades.gross + gross,
                       net |-> s.trades.net + net,
                       pnl |-> s.trades.pnl + RoundCents(net)]
        /\ c.total_commission = s.total_commission + fee
        /\ c.total_borrow_cost = s.total_borrow_cost + borrow
        /\ c.total_funding = s.total_funding
        /\ c.account = SettleExit(s.account, p, s.cash + settle)
        /\ c.used_margin = ReleaseMargin(s.used_margin, p)
        /\ c.pending_entry = s.pending_entry
        /\ c.pending_exit = s.pending_exit
        /\ c.equity = s.equity
        /\ c.last_trade.exit_date = date
        /\ c.last_trade.exit_reason = reason
    BY <1>c DEF States
  <1>11. c \in States
    <2>1. /\ s.cash + settle \in Int
          /\ s.total_commission + fee \in Int
          /\ s.total_slippage + slip \in Int
          /\ s.total_borrow_cost + borrow \in Int
      BY <1>s, <1>2, <1>3, <1>5, <1>7
    <2>2. [count |-> s.trades.count + 1, gross |-> s.trades.gross + gross,
           net |-> s.trades.net + net, pnl |-> s.trades.pnl + RoundCents(net)]
              \in [count : Nat, gross : Int, net : Int, pnl : Int]
      BY <1>s, <1>4, <1>6, <1>8
    <2>3. [exit_date |-> date, exit_price |-> fill, direction |-> p.direction,
           duration_bars |-> p.bars_held, exit_reason |-> reason]
              \in [exit_date : Nat, exit_price : Int,
                   direction : {"none", "long", "short"}, duration_bars : Nat,
                   exit_reason : ExitReasons]
      BY <1>t, <1>1
    <2> QED
      BY <1>c, <2>1, <2>2, <2>3, <1>9, <1>10, FlatPositionType DEF States
  <1>12. Sided(c.position)
    BY <1>f DEF Sided, FlatPosition
  <1>13. gross = p.size * fill - p.size * p.entry_price
    <2>1. CASE p.size > 0
      <3>1. gross = (fill - p.entry_price) * p.size
        BY <2>1, <1>t DEF gross, CalcPnl, Abs
      <3> QED
        BY <3>1, <1>1, <1>t, Distribute
    <2>2. CASE p.size < 0
      <3>1. gross = (p.entry_price - fill) * (-p.size)
        BY <2>2, <1>t DEF gross, CalcPnl, Abs
      <3> QED
        BY <3>1, <1>1, <1>t, Distribute
    <2> QED
      BY <2>1, <2>2, <1>t
  <1>14. settle = p.size * fill - fee - borrow
    <2>1. CASE p.size > 0
      <3>1. borrow = 0
        BY <2>1, BorrowLong DEF borrow, Booked, Sided, p
      <3> QED
        BY <3>1, <2>1, <1>1, <1>t, <1>3 DEF settle, cost, CashSettlement, Abs
    <2>2. CASE p.size < 0
      BY <2>2, <1>1, <1>t, <1>3, <1>5 DEF settle, cost, CashSettlement, Abs
    <2> QED
      BY <2>1, <2>2, <1>t
  <1>15. Ledger(c)
    <2> DEFINE v == p.size * p.entry_price
               w == p.size * fill
    <2>1. s.cash + v + p.entry_commission
            = InitialCash + s.trades.net - s.total_funding
      BY DEF Booked, Ledger, p
    <2>2. v \in Int /\ w \in Int /\ InitialCash \in Int
      BY <1>t, <1>1, ConfigAssumption
    <2>3. settle = w - fee - borrow /\ net = w - v - p.entry_commission - fee - borrow
      BY <1>6, <1>13, <1>14
    <2>4. c.cash + c.position.size * c.position.entry_price
                 + c.position.entry_commission = s.cash + settle
      BY <1>f, <1>s, <1>7 DEF FlatPosition
    <2>5. InitialCash + c.trades.net - c.total_funding
            = InitialCash + (s.trades.net + net) - s.total_funding
      BY <1>f
    <2> HIDE DEF v, w
    <2>6. s.cash + settle
            = InitialCash + (s.trades.net + net) - s.total_funding
      <3>1. /\ s.cash \in Int /\ s.trades.net \in Int
            /\ s.total_funding \in Int /\ p.entry_commission \in Int
        BY <1>s, <1>t
      <3> QED
        BY <2>1, <2>2, <2>3, <3>1, <1>3, <1>5
    <2> QED
      BY <2>4, <2>5, <2>6 DEF Ledger
  <1>16. Costs(c)
    <2>1. s.trades.gross - s.trades.net
             = s.total_commission - p.entry_commission + s.total_borrow_cost
      BY DEF Booked, Costs, p
    <2> QED
      BY <2>1, <1>f, <1>6, <1>t, <1>s, <1>3, <1>4, <1>5 DEF Costs, FlatPosition
  <1>17. Mirror(c)
    BY <1>f DEF Mirror, SettleExit
  <1>18. MarginBooked(c)
    <2> DEFINE m == MarginRequired(Abs(p.size) * p.entry_price)
    <2>1. p.entry_price \in Nat /\ p.entry_price > 0
      BY <1>t DEF Booked, Sided, p
    <2>2. m \in Nat
      BY <2>1, <1>a, <1>t, AbsNat, MarginNat
    <2>3. /\ s.account.margin_book =
                IF FullMargin /\ p.size > 0
                THEN MarginRequired(p.size * p.entry_price) ELSE 0
          /\ ~Spot => s.used_margin = m
      BY DEF Booked, MarginBooked, p
    <2>4. p.size > 0 => MarginRequired(p.size * p.entry_price) = m
      BY <1>t DEF Abs
    <2> HIDE DEF m
    <2>5. c.account.margin_book = 0
      BY <1>f, <1>s, <2>2, <2>3, <2>4 DEF SettleExit, AtMost, m
    <2>6. ~Spot => c.used_margin = 0
      BY <1>f, <1>s, <2>1, <2>2, <2>3 DEF ReleaseMargin, AtLeast, m
    <2>7. MarginRequired(Abs(0) * 0) = 0
      BY ConfigAssumption DEF MarginRequired, Abs
    <2> QED
      BY <1>f, <2>5, <2>6, <2>7 DEF MarginBooked, FlatPosition
  <1>19. Rounded(c)
    BY <1>f, <1>8, <1>6, <1>s DEF Booked, Rounded, TicksPerCent
  <1> QED
    BY <1>f, <1>11, <1>12, <1>15, <1>16, <1>17, <1>18, <1>19 DEF c, Booked
-----------------------------------------------------------------------------
(* Entries. *)

(* _rebase_risk_prices returns an entry on the same side. *)
LEMMA RebaseType ==
    ASSUME NEW e \in Entries, NEW fill \in Prices
    PROVE  /\ RebaseRiskPrices(e, fill) \in Entries
           /\ RebaseRiskPrices(e, fill).direction = e.direction
  <1>1. e.signal_close \in Nat /\ e.stop_price \in Int /\ e.target_price \in Int
        /\ fill \in Nat
    BY DEF Entries, Prices
  <1>2. ASSUME e.signal_close > 0, NEW old \in Int
        PROVE  ScalePrice(old, e.signal_close, fill) \in Int
    <2>1. (old - e.signal_close) * fill \in Int
      BY <1>1
    <2>2. ((old - e.signal_close) * fill) \div e.signal_close \in Int
      BY <2>1, <1>1, <1>2, DivInt
    <2> QED
      BY <2>2, <1>1 DEF ScalePrice
  <1>3. CASE RiskPriceBasis # "entry_fill" \/ e.signal_close <= 0
    BY <1>3 DEF RebaseRiskPrices
  <1>4. CASE RiskPriceBasis = "entry_fill" /\ e.signal_close > 0
    <2> DEFINE a == ScalePrice(e.stop_price, e.signal_close, fill)
               b == ScalePrice(e.target_price, e.signal_close, fill)
    <2>1. a \in Int /\ b \in Int
      BY <1>1, <1>2, <1>4
    <2> HIDE DEF a, b
    <2>2. RebaseRiskPrices(e, fill)
            = [e EXCEPT !.stop_price = a, !.target_price = b]
      BY <1>4, <1>1 DEF RebaseRiskPrices, Entries, a, b
    <2> QED
      BY <2>1, <2>2 DEF Entries
  <1> QED
    BY <1>1, <1>3, <1>4

(* _max_affordable_size is defined for every cash balance. *)
LEMMA MaxAffordableInt ==
    ASSUME NEW cash \in Int, NEW price \in Prices
    PROVE  MaxAffordableSize(cash, price) \in Int
  <1>1. cash * Leverage * 100 \in Int /\ price \in Nat \ {0}
        /\ 100 + CommissionPct \in Nat \ {0}
    BY ConfigAssumption DEF Prices
  <1>2. price * (100 + CommissionPct) \in Nat \ {0}
    BY <1>1, TimesPos
  <1>3. (cash * Leverage * 100) \div (price * (100 + CommissionPct)) \in Int
    BY <1>1, <1>2, DivInt
  <1> QED
    BY <1>3 DEF MaxAffordableSize, AtLeast

(* _raw_size is defined: it never divides by a zero stop distance. *)
LEMMA RawSizeInt ==
    ASSUME NEW e \in Entries, NEW price \in Prices, NEW v \in Int
    PROVE  RawSize(e, price, v) \in Int
  <1>1. e.position_size \in Nat /\ e.stop_price \in Int /\ price \in Nat
    BY DEF Entries, Prices
  <1>2. Abs(price - e.stop_price) \in Nat
    BY <1>1 DEF Abs
  <1>3. RiskBudget(v) \in Int
    <2>1. Pct(v, RiskPct) \in Int
      BY ConfigAssumption DEF Pct
    <2> QED
      BY <2>1, ConfigAssumption DEF RiskBudget, AtLeast
  <1>4. Abs(price - e.stop_price) > MinStopDistance =>
          RiskBudget(v) \div Abs(price - e.stop_price) \in Int
    BY <1>2, <1>3, DivInt, ConfigAssumption
  <1> QED
    BY <1>1, <1>4, ConfigAssumption DEF RawSize

(* The cases of _apply_affordability_cap cover every outcome. *)
LEMMA CapType ==
    ASSUME NEW s \in States, NEW e \in Entries, NEW size \in Int,
           NEW price \in Prices
    PROVE  AffordabilityCap(s, e, size, price)
              \in [size : Int, codes : SUBSET Codes]
  <1>1. s.cash \in Int
    BY DEF States
  <1>2. MaxAffordableSize(s.cash, price) \in Int
    BY <1>1, MaxAffordableInt
  <1> DEFINE cap == MaxAffordableSize(s.cash, price)
  <1> HIDE DEF cap
  <1>3. cap \in Int
    BY <1>2 DEF cap
  <1>4. \/ AllowNegativeCash \/ (cap > 0 /\ size <= cap)
        \/ ~AllowNegativeCash /\ cap <= 0
        \/ ~AllowNegativeCash /\ cap > 0 /\ size > cap
    BY <1>3
  <1> QED
    BY <1>3, <1>4 DEF AffordabilityCap, Codes, cap

(* PositionSizer.resolve returns a size and known diagnostic codes. *)
LEMMA ResolveSizeType ==
    ASSUME NEW s \in States, NEW e \in Entries, NEW price \in Prices
    PROVE  ResolveSize(s, e, price) \in [size : Int, codes : SUBSET Codes]
  <1>1. s.cash \in Int /\ s.position.size \in Int /\ price \in Int
    BY DEF States, Positions, Prices
  <1>2. PortfolioValue(s, price) \in Int
    BY <1>1 DEF PortfolioValue
  <1> DEFINE raw == RawSize(e, price, PortfolioValue(s, price))
  <1>3. raw \in Int
    BY <1>2, RawSizeInt
  <1> HIDE DEF raw
  <1>4. AffordabilityCap(s, e, raw, price) \in [size : Int, codes : SUBSET Codes]
    BY <1>3, CapType
  <1>5. RawSizeWarnings(e, price) \subseteq Codes
    BY DEF RawSizeWarnings, Codes
  <1> QED
    BY <1>4, <1>5 DEF ResolveSize, raw

(* add_diagnostic changes nothing but the diagnostics. *)
LEMMA DiagnoseType ==
    ASSUME NEW s \in States, NEW codes \in SUBSET Codes, NEW date \in Nat
    PROVE  /\ Diagnose(s, codes, date) \in States
           /\ \E d : Diagnose(s, codes, date) = [s EXCEPT !.diagnostics = d]
  BY DEF Diagnose, States

(* liquidation_price is a price level. *)
LEMMA LiquidationInt ==
    ASSUME NEW price \in Int, NEW d
    PROVE  LiquidationPrice(price, d) \in Int
  <1>1. price \div Leverage \in Int /\ Pct(price, MaintenancePct) \in Int
    BY ConfigAssumption DEF Pct
  <1> QED
    BY <1>1 DEF LiquidationPrice

(* A state that differs in its orders, equity curve, diagnostics or in the *)
(* protective prices only is booked as before.                             *)
LEMMA BookedSame ==
    ASSUME NEW s, NEW t, Booked(s),
           t.cash = s.cash, t.account = s.account, t.trades = s.trades,
           t.total_commission = s.total_commission,
           t.total_borrow_cost = s.total_borrow_cost,
           t.total_funding = s.total_funding, t.used_margin = s.used_margin,
           t.position.size = s.position.size,
           t.position.direction = s.position.direction,
           t.position.entry_price = s.position.entry_price,
           t.position.entry_commission = s.position.entry_commission
    PROVE  Booked(t)
  BY DEF Booked, Sided, Ledger, Costs, Mirror, MarginBooked, Rounded

(* PositionOpener.open keeps the books: in a flat book it opens a position *)
(* on the side of its order, protected by a valid stop, at no change of    *)
(* net worth.                                                              *)
LEMMA OpenLemma ==
    ASSUME NEW s \in States, NEW e \in Entries, NEW size \in Nat \ {0},
           NEW price \in Prices, NEW fill \in Prices, NEW date \in Nat,
           e.direction \in {"long", "short"}, s.position.size = 0, Booked(s),
           StopValid(e, fill)
    PROVE  LET o == Open(s, e, size, price, fill, date)
           IN  /\ o \in States
               /\ Booked(o)
               /\ Protected(o.position)
               /\ o.position.size # 0
               /\ o.trades = s.trades /\ o.last_trade = s.last_trade
               /\ o.pending_entry = s.pending_entry
               /\ o.pending_exit = s.pending_exit
               /\ o.equity = s.equity
               /\ o.total_funding = s.total_funding
  <1> DEFINE cost  == size * fill
             fee   == Commission(cost)
             slip  == Abs(fill - price) * size
             delta == IF e.direction = "long" THEN -(cost + fee) ELSE cost - fee
             acct  == MirrorEntry(s.account, e.direction, s.cash + delta, cost, delta)
             n     == IF e.direction = "long" THEN size ELSE -size
             pos   == [size |-> n, direction |-> e.direction,
                       entry_price |-> fill, entry_date |-> date,
                       stop_price |-> e.stop_price,
                       target_price |-> e.target_price,
                       liquidation_price |-> LiquidationPrice(fill, e.direction),
                       bars_held |-> 0,
                       entry_commission |-> fee, entry_slippage |-> slip]
             o     == Open(s, e, size, price, fill, date)
  <1> HIDE DEF cost, fee, slip, delta, acct, n, pos, o
  <1>t. /\ s.cash \in Int /\ s.account \in [cash : Int, margin_book : Int]
        /\ s.account.cash \in Int /\ s.account.margin_book \in Int
        /\ s.used_margin \in Int /\ s.total_commission \in Int
        /\ s.total_slippage \in Int /\ s.total_borrow_cost \in Int
        /\ s.total_funding \in Int /\ s.trades.net \in Int
        /\ s.trades.gross \in Int
        /\ fill \in Nat /\ fill > 0 /\ price \in Int /\ InitialCash \in Int
        /\ e.stop_price \in Int /\ e.target_price \in Int
    BY ConfigAssumption DEF States, Prices, Entries
  <1>1. cost \in Int
    BY <1>t DEF cost
  <1>2. fee \in Int
    BY <1>1, CommissionInt DEF fee
  <1>3. slip \in Int
    <2>1. Abs(fill - price) \in Int
      BY <1>t DEF Abs
    <2> QED
      BY <2>1 DEF slip
  <1>4. delta \in Int /\ n \in Int /\ s.cash + delta \in Int
    BY <1>1, <1>2, <1>t DEF delta, n
  <1>m. MarginRequired(cost) \in Int
    BY <1>1, MarginInt
  <1>5. acct \in [cash : Int, margin_book : Int]
    BY <1>t, <1>4, <1>m DEF acct, MirrorEntry
  <1>6. LiquidationPrice(fill, e.direction) \in Int
    BY <1>t, LiquidationInt
  <1>7. pos \in Positions
    BY <1>t, <1>2, <1>3, <1>4, <1>6 DEF pos, Positions
  <1>c. o = [s EXCEPT
              !.total_commission = s.total_commission + fee,
              !.total_slippage = s.total_slippage + slip,
              !.cash = s.cash + delta,
              !.account = acct,
              !.position = pos,
              !.used_margin = s.used_margin + MarginRequired(cost)]
    BY DEF o, Open, cost, fee, slip, delta, acct, n, pos, States
  <1>f. /\ o.cash = s.cash + delta /\ o.account = acct /\ o.position = pos
        /\ o.total_commission = s.total_commission + fee
        /\ o.total_borrow_cost = s.total_borrow_cost
        /\ o.total_funding = s.total_funding
        /\ o.used_margin = s.used_margin + MarginRequired(cost)
        /\ o.trades = s.trades /\ o.last_trade = s.last_trade
        /\ o.pending_entry = s.pending_entry
        /\ o.pending_exit = s.pending_exit
        /\ o.equity = s.equity
    BY <1>c DEF States
  <1>p. /\ pos.size = n /\ pos.direction = e.direction
        /\ pos.entry_price = fill /\ pos.entry_commission = fee
        /\ pos.stop_price = e.stop_price
        /\ pos.liquidation_price = LiquidationPrice(fill, e.direction)
    BY DEF pos
  <1>8. o \in States
    <2>1. /\ s.total_commission + fee \in Int
          /\ s.total_slippage + slip \in Int
          /\ s.used_margin + MarginRequired(cost) \in Int
      BY <1>t, <1>2, <1>3, <1>m
    <2> QED
      BY <1>c, <2>1, <1>4, <1>5, <1>7 DEF States
  <1>9. Sided(o.position) /\ o.position.size # 0
    BY <1>f, <1>p, <1>t DEF Sided, n
  <1>z. s.position.entry_commission = 0 /\ s.position.entry_price = 0
    BY DEF Booked, Sided
  <1>10. Ledger(o)
    <2>1. s.cash = InitialCash + s.trades.net - s.total_funding
      BY <1>z, <1>t DEF Booked, Ledger
    <2>2. n * fill = IF e.direction = "long" THEN cost ELSE -cost
      BY <1>t DEF n, cost
    <2>3. s.cash + delta + n * fill + fee = s.cash
      BY <2>2, <1>t, <1>1, <1>2 DEF delta
    <2> QED
      BY <2>1, <2>3, <1>f, <1>p DEF Ledger
  <1>11. Costs(o)
    BY <1>z, <1>f, <1>p, <1>t, <1>2 DEF Booked, Costs
  <1>12. Mirror(o)
    BY <1>f, <1>t, <1>4 DEF Booked, Mirror, MirrorEntry, acct
  <1>13. MarginBooked(o)
    <2>1. Abs(n) * fill = cost /\ (n > 0 => n * fill = cost)
          /\ (n > 0 <=> e.direction = "long")
      BY <1>t DEF n, cost, Abs
    <2>2. MarginRequired(Abs(0) * 0) = 0
      BY ConfigAssumption DEF MarginRequired, Abs
    <2>3. s.account.margin_book = 0 /\ (~Spot => s.used_margin = 0)
      BY <2>2, <1>z DEF Booked, MarginBooked
    <2>4. FullMargin => acct.margin_book =
             IF e.direction = "long" THEN MarginRequired(cost) ELSE 0
      BY <2>3, <1>m DEF acct, MirrorEntry
    <2>5. ~FullMargin => acct.margin_book = 0
      BY <2>3 DEF acct, MirrorEntry
    <2> QED
      BY <1>f, <1>p, <1>m, <2>1, <2>3, <2>4, <2>5, ConfigAssumption
         DEF MarginBooked
  <1>14. Rounded(o)
    BY <1>f DEF Booked, Rounded
  <1>15. Protected(o.position)
    BY <1>f, <1>p, <1>t, <1>9 DEF Protected, StopValid, ValidateStop, n
  <1> QED
    BY <1>f, <1>8, <1>9, <1>10, <1>11, <1>12, <1>13, <1>14, <1>15
       DEF Booked, o

(* Every entry attempt: it opens a protected position or leaves the book   *)
(* as it was.                                                              *)
LEMMA EnterLemma ==
    ASSUME NEW s \in States, NEW entry \in Entries, NEW price \in Prices,
           NEW date \in Nat, entry.direction \in {"long", "short"},
           s.position.size = 0, Booked(s)
    PROVE  LET r == Enter(s, entry, price, date)
           IN  /\ r \in States
               /\ Booked(r)
               /\ Protected(r.position)
               /\ r.trades = s.trades /\ r.last_trade = s.last_trade
               /\ r.pending_entry = s.pending_entry
               /\ r.pending_exit = s.pending_exit
               /\ r.equity = s.equity
               /\ r.total_funding = s.total_funding
  <1> DEFINE fill  == ApplySlippage(price, entry.direction, "entry")
             e     == RebaseRiskPrices(entry, fill)
             sized == ResolveSize(s, e, fill)
             r     == Enter(s, entry, price, date)
  <1> HIDE DEF fill, e, sized, r
  <1>1. fill \in Prices
    BY FillPositive DEF fill
  <1>2. e \in Entries /\ e.direction \in {"long", "short"}
    BY <1>1, RebaseType DEF e
  <1>3. sized \in [size : Int, codes : SUBSET Codes]
    BY <1>1, <1>2, ResolveSizeType DEF sized
  <1>4. r = IF ~StopValid(e, fill) THEN s
            ELSE IF sized.size <= 0
                 THEN Diagnose(s, sized.codes \cup {"entry_size_zero"}, date)
                 ELSE Open(Diagnose(s, sized.codes, date),
                           e, sized.size, price, fill, date)
    BY DEF r, Enter, fill, e, sized
  <1>5. CASE ~StopValid(e, fill)
    BY <1>4, <1>5 DEF Protected, r
  <1>6. CASE StopValid(e, fill) /\ sized.size <= 0
    <2>1. sized.codes \cup {"entry_size_zero"} \in SUBSET Codes
      BY <1>3 DEF Codes
    <2> DEFINE d == Diagnose(s, sized.codes \cup {"entry_size_zero"}, date)
    <2>2. /\ d \in States
          /\ \E x : d = [s EXCEPT !.diagnostics = x]
      BY <2>1, DiagnoseType
    <2>3. r = d
      BY <1>4, <1>6
    <2> HIDE DEF d
    <2>4. /\ d.cash = s.cash /\ d.account = s.account /\ d.trades = s.trades
          /\ d.total_commission = s.total_commission
          /\ d.total_borrow_cost = s.total_borrow_cost
          /\ d.total_funding = s.total_funding
          /\ d.used_margin = s.used_margin
          /\ d.position = s.position /\ d.last_trade = s.last_trade
          /\ d.pending_entry = s.pending_entry
          /\ d.pending_exit = s.pending_exit /\ d.equity = s.equity
      BY <2>2 DEF States
    <2>5. Booked(d)
      BY <2>4, BookedSame
    <2> QED
      BY <2>2, <2>3, <2>4, <2>5 DEF Protected, r
  <1>7. CASE StopValid(e, fill) /\ ~(sized.size <= 0)
    <2> DEFINE d == Diagnose(s, sized.codes, date)
    <2>1. /\ d \in States
          /\ \E x : d = [s EXCEPT !.diagnostics = x]
      BY <1>3, DiagnoseType
    <2>2. r = Open(d, e, sized.size, price, fill, date)
      BY <1>4, <1>7
    <2> HIDE DEF d
    <2>3. /\ d.cash = s.cash /\ d.account = s.account /\ d.trades = s.trades
          /\ d.total_commission = s.total_commission
          /\ d.total_borrow_cost = s.total_borrow_cost
          /\ d.total_funding = s.total_funding
          /\ d.used_margin = s.used_margin
          /\ d.position = s.position /\ d.last_trade = s.last_trade
          /\ d.pending_entry = s.pending_entry
          /\ d.pending_exit = s.pending_exit /\ d.equity = s.equity
      BY <2>1 DEF States
    <2>4. Booked(d)
      BY <2>3, BookedSame
    <2>5. sized.size \in Nat \ {0}
      BY <1>3, <1>7
    <2>6. d.position.size = 0
      BY <2>3
    <2>7. /\ r \in States /\ Booked(r) /\ Protected(r.position)
          /\ r.trades = d.trades /\ r.last_trade = d.last_trade
          /\ r.pending_entry = d.pending_entry
          /\ r.pending_exit = d.pending_exit
          /\ r.equity = d.equity
          /\ r.total_funding = d.total_funding
      <3>1. d \in States
        BY <2>1
      <3>2. e \in Entries /\ e.direction \in {"long", "short"}
        BY <1>2
      <3>3. StopValid(e, fill)
        BY <1>7
      <3> QED
        BY <1>1, <2>2, <2>4, <2>5, <2>6, <3>1, <3>2, <3>3, OpenLemma
    <2> QED
      BY <2>3, <2>7 DEF r
  <1> QED
    BY <1>5, <1>6, <1>7

-----------------------------------------------------------------------------
(* The inductive invariant. *)

(* Orders as OrdersLiveOneBar states them, and a queued entry has a side.  *)
Orders(p, s) ==
    /\ p \in {"check_exits", "margin_call", "funding", "signal"} =>
          s.pending_entry = NoEntry /\ ~s.pending_exit
    /\ p # "done" =>
          /\ s.pending_exit => ~Flat(s)
          /\ s.pending_entry # NoEntry => Flat(s)
    /\ s.pending_entry # NoEntry =>
          s.pending_entry.direction \in {"long", "short"}

(* No trade was closed by the margin call; each carries the date of a bar. *)
Dated(s, n) ==
    /\ s.last_trade.exit_reason # "margin_call"
    /\ s.trades.count > 0 => s.last_trade.exit_date \in 1..n

(* Nothing has happened to the book. *)
Untouched(s) ==
    /\ s.position.size = 0 /\ s.trades.count = 0
    /\ s.trades.pnl = 0 /\ s.total_funding = 0

(* Between two bars the last equity point is the value of the book; before *)
(* the first point nothing was traded.                                     *)
Curve(p, n, s, close) ==
    p \in {"next_bar", "done"} =>
        /\ s.equity.count > 0 => s.equity.value = PortfolioValue(s, close)
        /\ s.equity.count = 0 => Untouched(s)
        /\ p = "next_bar" /\ n <= FirstTradable => s.equity.count = 0

(* None of the invariants is inductive alone: the ledgers need the side    *)
(* and price of the position, the trade dates need the bar's liquidation   *)
(* check, the reconciliation needs the curve of the bars before.           *)
IInv ==
    /\ TypeOK
    /\ Booked(state)
    /\ Protected(state.position)
    /\ Orders(pc, state)
    /\ Dated(state, i)
    /\ pc = "margin_call" => ~Liquidated(state.position, bar)
    /\ Curve(pc, i, state, bar.close)
    /\ pc = "done" => Flat(state)
    /\ pc \notin {"next_bar", "done"} => i > FirstTradable

(* The state a run starts from has its type. *)
LEMMA InitialStateType == InitialState \in States
  BY ConfigAssumption, FlatPositionType
     DEF InitialState, States, NoEntry, Entries, NoTrade, NoDate, ExitReasons

(* The inductive invariant holds when the loop of _run_loop starts. *)
LEMMA InitInvariant == Init => IInv
  <1> SUFFICES ASSUME Init PROVE IInv
    OBVIOUS
  <1> USE DEF Init
  <1>1. TypeOK
    BY InitialStateType, MarketAssumption DEF TypeOK, Phases
  <1>2. Booked(state)
    <2>1. MarginRequired(Abs(0) * 0) = 0
      BY ConfigAssumption DEF MarginRequired, Abs
    <2> QED
      BY <2>1, ConfigAssumption
         DEF Booked, Sided, Ledger, Costs, Mirror, MarginBooked, Rounded,
             InitialState, FlatPosition, TicksPerCent
  <1>3. Protected(state.position) /\ Orders(pc, state) /\ Dated(state, i)
    BY DEF Protected, Orders, Dated, InitialState, FlatPosition, NoEntry, NoTrade
  <1>4. Curve(pc, i, state, bar.close)
    BY DEF Curve, Untouched, InitialState, FlatPosition
  <1> QED
    BY <1>1, <1>2, <1>3, <1>4 DEF IInv

(* Reading a bar preserves the invariant: warmup bars precede every equity *)
(* point.                                                                  *)
LEMMA NextBarStep == IInv /\ NextBar => IInv'
  <1> SUFFICES ASSUME IInv, NextBar PROVE IInv'
    OBVIOUS
  <1> USE DEF NextBar
  <1>1. TypeOK'
    BY MarketAssumption DEF IInv, TypeOK, Phases
  <1>2. Booked(state)' /\ Protected(state.position)'
    BY DEF IInv
  <1>3. Orders(pc, state)'
    BY DEF IInv, Orders
  <1>4. Dated(state, i)'
    BY DEF IInv, Dated, TypeOK
  <1>5. Curve(pc, i, state, bar.close)'
    BY MarketAssumption DEF IInv, Curve, Untouched, TypeOK
  <1>6. pc' \notin {"next_bar", "done"} => i' > FirstTradable
    BY MarketAssumption DEF IInv, TypeOK
  <1>7. pc' \notin {"margin_call", "done"}
    OBVIOUS
  <1> QED
    BY <1>1, <1>2, <1>3, <1>4, <1>5, <1>6, <1>7 DEF IInv

(* What the data validator guarantees of the bar being processed. *)
LEMMA BarFacts ==
    ASSUME bar \in BarSet
    PROVE  /\ bar.open \in Prices /\ bar.high \in Prices
           /\ bar.low \in Prices /\ bar.close \in Prices
           /\ bar.low <= bar.close /\ bar.close <= bar.high
  BY MarketAssumption DEF Bars

(* _execute_pending preserves the invariant: an exit and an entry are      *)
(* never executed on one open, and both orders are used up.                *)
LEMMA ExecutePendingStep == IInv /\ ExecutePending => IInv'
  <1> SUFFICES ASSUME IInv, ExecutePending PROVE IInv'
    OBVIOUS
  <1>t. /\ pc = "execute_pending" /\ pc' = "check_exits"
        /\ i' = i /\ bar' = bar /\ i \in Nat /\ i >= 1 /\ i \in 0..NBars
        /\ bar \in BarSet /\ state \in States /\ Booked(state)
        /\ bar.open \in Prices /\ bar.open \in Int
    BY BarFacts, MarketAssumption DEF IInv, TypeOK, ExecutePending, Prices
  <1>o. /\ state.pending_exit => state.position.size # 0
        /\ state.pending_entry # NoEntry => state.position.size = 0
        /\ state.pending_entry # NoEntry =>
              state.pending_entry.direction \in {"long", "short"}
        /\ state.pending_entry \in Entries /\ state.pending_exit \in BOOLEAN
    BY <1>t DEF IInv, Orders, Flat, States
  <1>s. /\ state' \in States /\ Booked(state') /\ Protected(state'.position)
        /\ state'.pending_entry = NoEntry /\ ~state'.pending_exit
        /\ Dated(state', i)
    <2>1. CASE state.pending_exit
      <3> DEFINE c == Close(state, bar.open, i, "signal_exit_next_open")
      <3>1. /\ c \in States /\ Booked(c) /\ c.position = FlatPosition
            /\ c.last_trade.exit_date = i
            /\ c.last_trade.exit_reason = "signal_exit_next_open"
            /\ c.pending_entry = state.pending_entry
        BY <2>1, <1>t, <1>o, CloseLemma DEF ExitReasons
      <3>2. state.pending_entry = NoEntry
        BY <2>1, <1>o
      <3>3. state' = [c EXCEPT !.pending_exit = FALSE]
        BY <2>1, <1>o, <3>1, <3>2 DEF ExecutePending, States
      <3> HIDE DEF c
      <3>4. /\ state' \in States /\ state'.position = FlatPosition
            /\ state'.pending_entry = NoEntry /\ state'.pending_exit = FALSE
            /\ state'.last_trade = c.last_trade
            /\ state'.cash = c.cash /\ state'.account = c.account
            /\ state'.trades = c.trades /\ state'.position = c.position
            /\ state'.total_commission = c.total_commission
            /\ state'.total_borrow_cost = c.total_borrow_cost
            /\ state'.total_funding = c.total_funding
            /\ state'.used_margin = c.used_margin
        BY <3>1, <3>2, <3>3 DEF States
      <3>5. Booked(state')
        BY <3>1, <3>4, BookedSame
      <3> QED
        BY <1>t, <3>1, <3>4, <3>5 DEF Protected, FlatPosition, Dated
    <2>2. CASE ~state.pending_exit /\ state.pending_entry = NoEntry
      <3>1. state' = state
        BY <2>2 DEF ExecutePending
      <3> QED
        BY <3>1, <2>2, <1>t DEF IInv
    <2>3. CASE ~state.pending_exit /\ state.pending_entry # NoEntry
      <3> DEFINE s == [state EXCEPT !.pending_entry = NoEntry]
      <3>1. state' = Enter(s, state.pending_entry, bar.open, i)
        BY <2>3, <1>o DEF ExecutePending
      <3>2. NoEntry \in Entries
        BY DEF NoEntry, Entries
      <3>3. /\ s \in States /\ s.pending_entry = NoEntry
            /\ s.pending_exit = state.pending_exit
            /\ s.last_trade = state.last_trade
            /\ s.cash = state.cash /\ s.account = state.account
            /\ s.trades = state.trades /\ s.position = state.position
            /\ s.total_commission = state.total_commission
            /\ s.total_borrow_cost = state.total_borrow_cost
            /\ s.total_funding = state.total_funding
            /\ s.used_margin = state.used_margin
        BY <1>t, <3>2 DEF States
      <3> HIDE DEF s
      <3>4. Booked(s)
        BY <1>t, <3>3, BookedSame
      <3>5. s.position.size = 0 /\ state.pending_entry \in Entries
            /\ state.pending_entry.direction \in {"long", "short"}
        BY <2>3, <3>3, <1>o
      <3>6. /\ state' \in States /\ Booked(state') /\ Protected(state'.position)
            /\ state'.trades = s.trades /\ state'.last_trade = s.last_trade
            /\ state'.pending_entry = s.pending_entry
            /\ state'.pending_exit = s.pending_exit
        BY <1>t, <3>1, <3>3, <3>4, <3>5, EnterLemma
      <3> QED
        BY <2>3, <3>3, <3>6 DEF IInv, Dated
    <2> QED
      BY <2>1, <2>2, <2>3
  <1>1. TypeOK'
    BY <1>t, <1>s DEF TypeOK, Phases
  <1>2. Orders(pc', state')
    BY <1>t, <1>s DEF Orders, NoEntry
  <1> QED
    BY <1>t, <1>s, <1>1, <1>2 DEF IInv, Curve

(* What the liquidation check and the intrabar resolver may return. *)
LEMMA ExitFillType ==
    ASSUME NEW p \in Positions, bar \in BarSet
    PROVE  /\ ExitFill(p, bar) # NoFill =>
                 /\ ExitFill(p, bar).price \in Int
                 /\ ExitFill(p, bar).reason \in ExitReasons \ {"margin_call"}
                 /\ p.size # 0
           /\ Liquidated(p, bar) => ExitFill(p, bar) # NoFill
  <1>1. /\ p.size \in Int /\ p.stop_price \in Int /\ p.target_price \in Int
        /\ p.liquidation_price \in Int
        /\ bar.open \in Int /\ bar.low \in Int /\ bar.high \in Int
    BY BarFacts DEF Positions, Prices
  <1>2. CASE Liquidated(p, bar)
    <2>1. ExitFill(p, bar)
            = [price |-> p.liquidation_price, reason |-> "liquidation"]
      BY <1>2 DEF ExitFill, Fill
    <2> QED
      BY <1>1, <1>2, <2>1 DEF Liquidated, NoFill, ExitReasons
  <1>3. CASE ~Liquidated(p, bar)
    <2>1. ExitFill(p, bar) = ResolveIntrabar(p, bar)
      BY <1>3 DEF ExitFill
    <2> QED
      BY <1>1, <1>3, <2>1
         DEF ResolveIntrabar, ResolveLong, ResolveShort, Fill, NoFill, ExitReasons
  <1> QED
    BY <1>2, <1>3

(* check_exit_conditions preserves the invariant and leaves no position    *)
(* the bar would have liquidated.                                          *)
LEMMA CheckExitConditionsStep == IInv /\ CheckExitConditions => IInv'
  <1> SUFFICES ASSUME IInv, CheckExitConditions PROVE IInv'
    OBVIOUS
  <1>t. /\ pc = "check_exits" /\ pc' = "margin_call"
        /\ i' = i /\ bar' = bar /\ i \in Nat /\ i >= 1 /\ i \in 0..NBars
        /\ bar \in BarSet /\ state \in States /\ Booked(state)
        /\ state.pending_entry = NoEntry /\ ~state.pending_exit
        /\ state.position \in Positions
    BY MarketAssumption DEF IInv, TypeOK, CheckExitConditions, Orders, States
  <1> DEFINE held == [state EXCEPT !.position.bars_held = @ + 1]
             fill == ExitFill(state.position, bar)
  <1>h. /\ held \in States
        /\ held.position = [state.position EXCEPT
                               !.bars_held = state.position.bars_held + 1]
        /\ held.pending_entry = NoEntry /\ held.pending_exit = state.pending_exit
        /\ held.last_trade = state.last_trade
        /\ held.cash = state.cash /\ held.account = state.account
        /\ held.trades = state.trades
        /\ held.total_commission = state.total_commission
        /\ held.total_borrow_cost = state.total_borrow_cost
        /\ held.total_funding = state.total_funding
        /\ held.used_margin = state.used_margin
    BY <1>t DEF States, Positions
  <1>p. /\ held.position.size = state.position.size
        /\ held.position.direction = state.position.direction
        /\ held.position.entry_price = state.position.entry_price
        /\ held.position.entry_commission = state.position.entry_commission
        /\ held.position.stop_price = state.position.stop_price
        /\ held.position.liquidation_price = state.position.liquidation_price
    BY <1>t, <1>h DEF Positions
  <1>n. state' = IF fill = NoFill THEN held
                 ELSE Close(held, fill.price, i, fill.reason)
    BY DEF CheckExitConditions
  <1>f. /\ fill # NoFill => /\ fill.price \in Int
                            /\ fill.reason \in ExitReasons \ {"margin_call"}
                            /\ state.position.size # 0
        /\ Liquidated(state.position, bar) => fill # NoFill
    BY <1>t, ExitFillType
  <1> HIDE DEF held, fill
  <1>b. Booked(held)
    BY <1>t, <1>h, <1>p, BookedSame
  <1>s. /\ state' \in States /\ Booked(state') /\ Protected(state'.position)
        /\ state'.pending_entry = NoEntry /\ ~state'.pending_exit
        /\ Dated(state', i) /\ ~Liquidated(state'.position, bar)
    <2>1. CASE fill = NoFill
      <3>1. state' = held
        BY <2>1, <1>n
      <3>2. Protected(held.position) /\ ~Liquidated(held.position, bar)
        BY <2>1, <1>p, <1>f DEF IInv, Protected, Liquidated
      <3> QED
        BY <3>1, <3>2, <1>t, <1>h, <1>b DEF IInv, Dated
    <2>2. CASE fill # NoFill
      <3>1. held.position.size # 0
        BY <2>2, <1>f, <1>p
      <3>2. fill.price \in Int /\ fill.reason \in ExitReasons
            /\ fill.reason # "margin_call"
        BY <2>2, <1>f
      <3>3. state' = Close(held, fill.price, i, fill.reason)
        BY <2>2, <1>n
      <3>4. /\ state' \in States /\ Booked(state')
            /\ state'.position = FlatPosition
            /\ state'.last_trade.exit_date = i
            /\ state'.last_trade.exit_reason = fill.reason
            /\ state'.pending_entry = held.pending_entry
            /\ state'.pending_exit = held.pending_exit
        <4> DEFINE x == fill.price
                   y == fill.reason
        <4>1. held \in States /\ i \in Nat /\ x \in Int /\ y \in ExitReasons
          BY <1>t, <1>h, <3>2
        <4>2. state' = Close(held, x, i, y)
          BY <3>3
        <4> HIDE DEF x, y
        <4>3. /\ state' \in States /\ Booked(state')
              /\ state'.position = FlatPosition
              /\ state'.last_trade.exit_date = i
              /\ state'.last_trade.exit_reason = y
              /\ state'.pending_entry = held.pending_entry
              /\ state'.pending_exit = held.pending_exit
          BY <1>b, <3>1, <4>1, <4>2, CloseLemma
        <4> QED
          BY <4>3 DEF y
      <3>5. Protected(state'.position) /\ ~Liquidated(state'.position, bar)
        BY <3>4 DEF Protected, FlatPosition, Liquidated
      <3>6. Dated(state', i)
        BY <1>t, <3>2, <3>4 DEF Dated
      <3> QED
        BY <1>t, <1>h, <3>4, <3>5, <3>6
    <2> QED
      BY <2>1, <2>2
  <1>1. TypeOK'
    BY <1>t, <1>s DEF TypeOK, Phases
  <1>2. Orders(pc', state')
    BY <1>t, <1>s DEF Orders, NoEntry
  <1> QED
    BY <1>t, <1>s, <1>1, <1>2 DEF IInv, Curve

(* The margin call is dead code behind the liquidation check. *)
LEMMA CheckMarginCallStep == IInv /\ CheckMarginCall => IInv' /\ state' = state
  <1> SUFFICES ASSUME IInv, CheckMarginCall PROVE IInv' /\ state' = state
    OBVIOUS
  <1>1. /\ pc = "margin_call" /\ pc' = "funding" /\ i' = i /\ bar' = bar
        /\ bar \in BarSet /\ state \in States
        /\ ~Liquidated(state.position, bar)
    BY DEF IInv, TypeOK, CheckMarginCall
  <1>2. ~MarginCalled(state.position, bar.close)
    <2>1. /\ state.position.size \in Int
          /\ state.position.liquidation_price \in Int
          /\ bar.low \in Int /\ bar.close \in Int /\ bar.high \in Int
          /\ bar.low <= bar.close /\ bar.close <= bar.high
      BY <1>1, BarFacts DEF States, Positions, Prices
    <2> QED
      BY <1>1, <2>1, ConfigAssumption DEF MarginCalled, Liquidated, Spot
  <1>3. state' = state
    BY <1>2 DEF CheckMarginCall
  <1>4. TypeOK' /\ Orders(pc', state')
    BY <1>1, <1>3 DEF IInv, TypeOK, Phases, Orders
  <1> QED
    BY <1>1, <1>3, <1>4 DEF IInv, Curve

(* apply_funding preserves the invariant: what it takes from the account   *)
(* it reports as funding.                                                  *)
LEMMA ApplyFundingStep == IInv /\ ApplyFunding => IInv'
  <1> SUFFICES ASSUME IInv, ApplyFunding PROVE IInv'
    OBVIOUS
  <1>t. /\ pc = "funding" /\ pc' = "signal" /\ i' = i /\ bar' = bar
        /\ i \in 0..NBars /\ bar \in BarSet /\ state \in States /\ Booked(state)
        /\ state.position \in Positions
    BY DEF IInv, TypeOK, ApplyFunding, States
  <1>1. CASE ~FullMargin
    <2>1. state' = state
      BY <1>1 DEF ApplyFunding
    <2> QED
      BY <1>t, <2>1 DEF IInv, TypeOK, Phases, Orders, Curve
  <1>2. CASE FullMargin
    <2> DEFINE payment == FundingPayment(state.position)
               balance == state.account.cash - payment
    <2>1. payment \in Int
      <3>1. state.position.size \in Int /\ state.position.entry_price \in Int
        BY <1>t DEF Positions
      <3>2. Abs(state.position.size) * state.position.entry_price \in Int
        BY <3>1 DEF Abs
      <3>3. Pct(Abs(state.position.size) * state.position.entry_price, FundingPct)
              \in Int
        BY <3>2, PctInt, ConfigAssumption
      <3> QED
        BY <3>1, <3>3 DEF FundingPayment
    <2>2. /\ state.account.cash \in Int /\ state.cash \in Int
          /\ state.total_funding \in Int /\ state.account.cash = state.cash
          /\ state.account.margin_book \in Int
      BY <1>t, <1>2 DEF States, Booked, Mirror
    <2>3. state' = [state EXCEPT !.account.cash = balance,
                                 !.total_funding = @ + payment,
                                 !.cash = balance]
      BY <1>2 DEF ApplyFunding
    <2> HIDE DEF payment
    <2>4. balance \in Int /\ state.total_funding + payment \in Int
          /\ balance = state.cash - payment
      BY <2>1, <2>2
    <2> HIDE DEF balance
    <2>5. /\ state' \in States
          /\ state'.cash = balance /\ state'.account.cash = balance
          /\ state'.account.margin_book = state.account.margin_book
          /\ state'.total_funding = state.total_funding + payment
          /\ state'.trades = state.trades /\ state'.position = state.position
          /\ state'.total_commission = state.total_commission
          /\ state'.total_borrow_cost = state.total_borrow_cost
          /\ state'.used_margin = state.used_margin
          /\ state'.last_trade = state.last_trade
          /\ state'.pending_entry = state.pending_entry
          /\ state'.pending_exit = state.pending_exit
      BY <1>t, <2>3, <2>4 DEF States
    <2>6. Ledger(state')
      <3> DEFINE v == state.position.size * state.position.entry_price
      <3>1. v \in Int /\ state.position.entry_commission \in Int
            /\ state.trades.net \in Int /\ InitialCash \in Int
        BY <1>t, ConfigAssumption DEF Positions, States
      <3>2. state.cash + v + state.position.entry_commission
              = InitialCash + state.trades.net - state.total_funding
        BY <1>t DEF Booked, Ledger
      <3> HIDE DEF v
      <3>3. balance + v + state.position.entry_commission
              = InitialCash + state.trades.net - (state.total_funding + payment)
        BY <2>1, <2>2, <2>4, <3>1, <3>2
      <3> QED
        BY <2>5, <3>3 DEF Ledger, v
    <2>7. Booked(state')
      BY <1>t, <2>5, <2>6 DEF Booked, Costs, Mirror, MarginBooked, Rounded
    <2>8. TypeOK' /\ Orders(pc', state') /\ Dated(state', i')
      BY <1>t, <2>5 DEF IInv, TypeOK, Phases, Orders, Dated, Flat
    <2> QED
      BY <1>t, <2>5, <2>7, <2>8 DEF IInv, Curve
  <1> QED
    BY <1>1, <1>2

(* _process_signal preserves the invariant: it queues an exit only beside  *)
(* a position and an entry only without one.                               *)
LEMMA ProcessSignalStep == IInv /\ ProcessSignal => IInv'
  <1> SUFFICES ASSUME IInv, ProcessSignal PROVE IInv'
    OBVIOUS
  <1>t. /\ pc = "signal" /\ pc' = "equity" /\ i' = i /\ bar' = bar
        /\ i \in 0..NBars /\ bar \in BarSet /\ state \in States /\ Booked(state)
        /\ state.pending_entry = NoEntry /\ ~state.pending_exit
    BY DEF IInv, TypeOK, ProcessSignal, Orders
  <1>1. PICK sig \in SignalSet : state' = HandleSignal(state, sig, bar.close)
    BY DEF ProcessSignal
  <1>2. /\ sig.stop_price \in Int /\ sig.target_price \in Int
        /\ sig.position_size \in Nat /\ bar.close \in Nat
    BY <1>t, BarFacts, MarketAssumption DEF Signals, Prices
  <1> DEFINE e == [direction |-> sig.direction,
                   stop_price |-> sig.stop_price,
                   target_price |-> sig.target_price,
                   position_size |-> sig.position_size,
                   explicit_size |-> sig.position_size > 0,
                   signal_close |-> bar.close]
  <1>3. \/ state' = state
        \/ /\ state' = [state EXCEPT !.pending_exit = TRUE]
           /\ state.position.size # 0
        \/ /\ state' = [state EXCEPT !.pending_entry = e]
           /\ sig.direction \in {"long", "short"} /\ state.position.size = 0
    BY <1>1 DEF HandleSignal, QueueEntry
  <1>4. sig.direction \in {"long", "short"} => e \in Entries
    BY <1>2 DEF Entries
  <1>5. e.direction = sig.direction
    OBVIOUS
  <1> HIDE DEF e
  <1>6. /\ state' \in States /\ state'.position = state.position
        /\ state'.cash = state.cash /\ state'.account = state.account
        /\ state'.trades = state.trades
        /\ state'.total_commission = state.total_commission
        /\ state'.total_borrow_cost = state.total_borrow_cost
        /\ state'.total_funding = state.total_funding
        /\ state'.used_margin = state.used_margin
        /\ state'.last_trade = state.last_trade
    <2>1. CASE state' = state
      BY <2>1, <1>t
    <2>2. CASE state' = [state EXCEPT !.pending_exit = TRUE]
      BY <2>2, <1>t DEF States
    <2>3. CASE /\ state' = [state EXCEPT !.pending_entry = e]
               /\ sig.direction \in {"long", "short"}
      BY <2>3, <1>t, <1>4 DEF States
    <2> QED
      BY <1>3, <2>1, <2>2, <2>3
  <1>o. /\ state'.pending_exit => state.position.size # 0
        /\ state'.pending_entry # NoEntry =>
              /\ state.position.size = 0
              /\ state'.pending_entry.direction \in {"long", "short"}
    <2>1. CASE state' = state
      BY <2>1, <1>t
    <2>2. CASE /\ state' = [state EXCEPT !.pending_exit = TRUE]
               /\ state.position.size # 0
      BY <2>2, <1>t DEF States
    <2>3. CASE /\ state' = [state EXCEPT !.pending_entry = e]
               /\ sig.direction \in {"long", "short"} /\ state.position.size = 0
      BY <2>3, <1>t, <1>5 DEF States
    <2> QED
      BY <1>3, <2>1, <2>2, <2>3
  <1>7. Booked(state')
    BY <1>t, <1>6, BookedSame
  <1>8. TypeOK' /\ Orders(pc', state') /\ Dated(state', i')
    BY <1>t, <1>6, <1>o DEF IInv, TypeOK, Phases, Orders, Dated, Flat
  <1> QED
    BY <1>t, <1>6, <1>7, <1>8 DEF IInv, Curve

(* _track_equity preserves the invariant: syncing cash from the margin     *)
(* account moves no money.                                                 *)
LEMMA TrackEquityStep == IInv /\ TrackEquity => IInv'
  <1> SUFFICES ASSUME IInv, TrackEquity PROVE IInv'
    OBVIOUS
  <1>t. /\ pc = "equity" /\ pc' = "next_bar" /\ i' = i /\ bar' = bar
        /\ i \in 0..NBars /\ bar \in BarSet /\ state \in States /\ Booked(state)
        /\ i > FirstTradable
    BY DEF IInv, TypeOK, TrackEquity
  <1> DEFINE value == PortfolioValue(state, bar.close)
             peak  == AtLeast(value, state.peak_value)
             point == [count |-> state.equity.count + 1, value |-> value,
                       drawdown |-> Drawdown(peak, value),
                       position |-> state.position.size]
  <1>1. /\ state.cash \in Int /\ state.position.size \in Int
        /\ bar.close \in Int /\ state.peak_value \in Int
        /\ state.equity.count \in Nat
        /\ FullMargin => state.account.cash = state.cash
    BY <1>t, BarFacts DEF States, Positions, Prices, Booked, Mirror
  <1>2. value \in Int
    BY <1>1 DEF PortfolioValue
  <1>3. peak \in Int
    BY <1>1, <1>2 DEF AtLeast
  <1>4. point \in [count : Nat, value : Int, drawdown : Int, position : Int]
        /\ point.value = value /\ point.count > 0
    BY <1>1, <1>2, <1>3 DEF Drawdown
  <1>5. state' = [state EXCEPT
                     !.peak_value = peak,
                     !.equity = point,
                     !.cash = IF FullMargin THEN state.account.cash
                              ELSE state.cash]
    BY <1>t DEF TrackEquity, States
  <1> HIDE DEF peak, point, value
  <1>6. /\ state' \in States /\ state'.position = state.position
        /\ state'.cash = state.cash /\ state'.account = state.account
        /\ state'.trades = state.trades
        /\ state'.total_commission = state.total_commission
        /\ state'.total_borrow_cost = state.total_borrow_cost
        /\ state'.total_funding = state.total_funding
        /\ state'.used_margin = state.used_margin
        /\ state'.last_trade = state.last_trade
        /\ state'.pending_exit = state.pending_exit
        /\ state'.pending_entry = state.pending_entry
        /\ state'.equity = point
    BY <1>t, <1>1, <1>3, <1>4, <1>5 DEF States
  <1>7. Booked(state')
    BY <1>t, <1>6, BookedSame
  <1>8. TypeOK' /\ Orders(pc', state') /\ Dated(state', i')
    BY <1>t, <1>6 DEF IInv, TypeOK, Phases, Orders, Dated, Flat
  <1>9. Curve(pc', i', state', bar'.close)
    BY <1>t, <1>4, <1>6, MarketAssumption DEF Curve, PortfolioValue, value
  <1> QED
    BY <1>t, <1>6, <1>7, <1>8, <1>9 DEF IInv

(* liquidate_open preserves the invariant: the rewritten last equity point *)
(* is the value of the closed book.                                        *)
LEMMA LiquidateOpenStep == IInv /\ LiquidateOpen => IInv'
  <1> SUFFICES ASSUME IInv, LiquidateOpen PROVE IInv'
    OBVIOUS
  <1>t. /\ pc = "next_bar" /\ pc' = "done" /\ i' = i /\ bar' = bar
        /\ i \in 0..NBars /\ i \in Nat /\ bar \in BarSet /\ state \in States
        /\ Booked(state) /\ bar.close \in Int
        /\ state.equity.count > 0 =>
              state.equity.value = PortfolioValue(state, bar.close)
        /\ state.equity.count = 0 => Untouched(state)
        /\ i <= FirstTradable => state.equity.count = 0
    BY BarFacts, MarketAssumption
       DEF IInv, TypeOK, LiquidateOpen, Prices, Curve
  <1>1. CASE state.position.size = 0
    <2>1. state' = state
      BY <1>1 DEF LiquidateOpen
    <2>2. TypeOK' /\ Orders(pc', state') /\ Curve(pc', i', state', bar'.close)
      BY <1>t, <2>1 DEF IInv, TypeOK, Phases, Orders, Curve
    <2> QED
      BY <1>t, <1>1, <2>1, <2>2 DEF IInv, Flat
  <1>2. CASE state.position.size # 0
    <2> DEFINE c     == Close(state, bar.close, i, "end_of_backtest")
               value == PortfolioValue(c, bar.close)
               peak  == AtLeast(value, c.peak_value)
               point == [c.equity EXCEPT !.value = value,
                                         !.drawdown = Drawdown(peak, value),
                                         !.position = 0]
    <2> HIDE DEF c, value, peak, point
    <2>1. "end_of_backtest" \in ExitReasons
      BY DEF ExitReasons
    <2>2. /\ c \in States /\ Booked(c) /\ c.position = FlatPosition
          /\ c.last_trade.exit_date = i
          /\ c.last_trade.exit_reason = "end_of_backtest"
          /\ c.pending_entry = state.pending_entry
          /\ c.equity = state.equity
      BY <1>t, <1>2, <2>1, CloseLemma DEF c
    <2>3. state.equity.count # 0 /\ state.equity.count > 0
      BY <1>t, <1>2 DEF Untouched, States
    <2>4. value \in Int /\ peak \in Int
          /\ c.equity \in [count : Nat, value : Int, drawdown : Int,
                           position : Int]
      BY <1>t, <2>2 DEF value, peak, PortfolioValue, AtLeast, FlatPosition, States
    <2>5. point \in [count : Nat, value : Int, drawdown : Int, position : Int]
          /\ point.value = value /\ point.count = state.equity.count
      <3>1. Drawdown(peak, value) \in Int
        BY <2>4 DEF Drawdown
      <3>2. c.equity.count = state.equity.count
        BY <2>2
      <3> DEFINE q == c.equity
                 dd == Drawdown(peak, value)
      <3>3. q \in [count : Nat, value : Int, drawdown : Int, position : Int]
            /\ dd \in Int /\ q.count = state.equity.count
        BY <2>4, <3>1, <3>2
      <3>4. point = [q EXCEPT !.value = value, !.drawdown = dd, !.position = 0]
        BY DEF point
      <3> HIDE DEF q, dd
      <3>5. point \in [count : Nat, value : Int, drawdown : Int, position : Int]
        <4>1. value \in Int
          BY <2>4
        <4>2. point = [count |-> q.count, value |-> value, drawdown |-> dd,
                       position |-> 0]
          BY <3>3, <3>4
        <4>3. q.count \in Nat
          BY <3>3
        <4> QED
          BY <3>3, <4>1, <4>2, <4>3
      <3>6. point.value = value
        BY <3>3, <3>4
      <3>7. point.count = q.count
        BY <3>3, <3>4
      <3> QED
        BY <3>3, <3>5, <3>6, <3>7
    <2>6. state' = [c EXCEPT !.peak_value = peak, !.equity = point]
      <3>1. state' = [c EXCEPT
                         !.peak_value = peak,
                         !.equity = [@ EXCEPT !.value = value,
                                              !.drawdown = Drawdown(peak, value),
                                              !.position = 0]]
        BY <1>2, <2>3 DEF LiquidateOpen, c, value, peak
      <3> QED
        BY <2>2, <3>1 DEF point, States
    <2>7. /\ state' \in States /\ state'.position = c.position
          /\ state'.cash = c.cash /\ state'.account = c.account
          /\ state'.trades = c.trades
          /\ state'.total_commission = c.total_commission
          /\ state'.total_borrow_cost = c.total_borrow_cost
          /\ state'.total_funding = c.total_funding
          /\ state'.used_margin = c.used_margin
          /\ state'.last_trade = c.last_trade
          /\ state'.pending_entry = c.pending_entry
          /\ state'.equity = point
      BY <2>2, <2>4, <2>5, <2>6 DEF States
    <2>8. Booked(state')
      BY <2>2, <2>7, BookedSame
    <2>9. TypeOK' /\ Orders(pc', state')
      BY <1>t, <2>2, <2>7 DEF IInv, TypeOK, Phases, Orders
    <2>10. Dated(state', i')
      <3>1. i >= 1
        BY <1>t, <2>3, MarketAssumption
      <3> QED
        BY <1>t, <2>2, <2>7, <3>1 DEF Dated
    <2>11. Curve(pc', i', state', bar'.close)
      BY <1>t, <2>3, <2>5, <2>7 DEF Curve, PortfolioValue, value
    <2>12. Protected(state'.position) /\ Flat(state')
      BY <2>2, <2>7 DEF Protected, Flat, FlatPosition
    <2> QED
      BY <1>t, <2>8, <2>9, <2>10, <2>11, <2>12 DEF IInv
  <1> QED
    BY <1>1, <1>2

(* Every step of the loop, and stuttering, preserves the invariant. *)
LEMMA InductiveStep == IInv /\ [Next]_vars => IInv'
  <1> SUFFICES ASSUME IInv, [Next]_vars PROVE IInv'
    OBVIOUS
  <1>1. CASE NextBar
    BY <1>1, NextBarStep
  <1>2. CASE ExecutePending
    BY <1>2, ExecutePendingStep
  <1>3. CASE CheckExitConditions
    BY <1>3, CheckExitConditionsStep
  <1>4. CASE CheckMarginCall
    BY <1>4, CheckMarginCallStep
  <1>5. CASE ApplyFunding
    BY <1>5, ApplyFundingStep
  <1>6. CASE ProcessSignal
    BY <1>6, ProcessSignalStep
  <1>7. CASE TrackEquity
    BY <1>7, TrackEquityStep
  <1>8. CASE LiquidateOpen
    BY <1>8, LiquidateOpenStep
  <1>9. CASE UNCHANGED vars
    BY <1>9 DEF vars, IInv, TypeOK, Orders, Dated, Curve
  <1> QED
    BY <1>1, <1>2, <1>3, <1>4, <1>5, <1>6, <1>7, <1>8, <1>9 DEF Next, Done

(* The inductive invariant holds throughout every backtest, for every      *)
(* market, strategy and execution configuration.                           *)
THEOREM Invariance == Spec => []IInv
  BY InitInvariant, InductiveStep, PTL DEF Spec

(* Every field of SimulationState keeps its type on every path through the *)
(* loop.                                                                   *)
THEOREM TypeCorrect == Spec => []TypeOK
  <1>1. IInv => TypeOK
    BY DEF IInv
  <1> QED
    BY <1>1, Invariance, PTL

(* No money appears or vanishes in PositionOpener.open,                    *)
(* PositionCloser.close or apply_funding, and every fee is charged to      *)
(* exactly one trade.                                                      *)
THEOREM MoneyConserved == Spec => []MoneyAccounted
  <1>1. IInv => MoneyAccounted
    BY DEF IInv, Booked, MoneyAccounted, CashLedger, CostLedger
  <1> QED
    BY <1>1, Invariance, PTL

(* The margin account mirrors the cash of SimulationState and the margin   *)
(* booked is that of the open position (MarginAccountManager).             *)
THEOREM MarginConsistent == Spec => []MarginAccounted
  <1>1. IInv => MarginAccounted
    BY DEF IInv, Booked, MarginAccounted, AccountMirror,
           MarginFollowsPosition
  <1> QED
    BY <1>1, Invariance, PTL

(* A pending order of _process_signal never outlives the next open and     *)
(* never conflicts with the book.                                          *)
THEOREM OrdersBounded == Spec => []OrdersLiveOneBar
  <1>1. IInv => OrdersLiveOneBar
    BY DEF IInv, Orders, OrdersLiveOneBar
  <1> QED
    BY <1>1, Invariance, PTL

(* An open position has its stop on the losing side of the fill and inside *)
(* the liquidation boundary (stop_valid after _rebase_risk_prices).        *)
THEOREM StopsProtect == Spec => []StopProtects
  <1>1. IInv => StopProtects
    BY DEF IInv, StopProtects
  <1> QED
    BY <1>1, Invariance, PTL

(* The margin call with its empty date never closes a trade:               *)
(* check_liquidation is always there before it.                            *)
THEOREM EveryTradeDated == Spec => []TradesDated
  <1>1. IInv => TradesDated
    BY DEF IInv, Dated, TradesDated
  <1> QED
    BY <1>1, Invariance, PTL

(* The report of a finished run adds up to half a cent per trade           *)
(* (_compute_reconciliation, TradeRecord).                                 *)
THEOREM ResultReconciles == Spec => []Reconciles
  <1>1. IInv => Reconciles
    <2> SUFFICES ASSUME IInv, pc = "done"
                 PROVE  /\ Flat(state)
                        /\ state.equity.count > 0 => FinalValue = state.cash
                        /\ 2 * Abs(UnroundedReconciliation)
                              <= TicksPerCent * state.trades.count
      BY DEF Reconciles
    <2>t. /\ state.cash \in Int /\ state.position.size = 0
          /\ state.position.entry_commission = 0
          /\ state.position.entry_price = 0
          /\ state.trades.net \in Int /\ state.trades.pnl \in Int
          /\ state.trades.count \in Nat /\ state.total_funding \in Int
          /\ state.equity.count \in Nat /\ InitialCash \in Int
          /\ bar.close \in Int
      BY BarFacts, ConfigAssumption
         DEF IInv, TypeOK, States, Flat, Booked, Sided, Prices
    <2>1. state.cash = InitialCash + state.trades.net - state.total_funding
      BY <2>t DEF IInv, Booked, Ledger
    <2>2. CASE state.equity.count > 0
      <3>1. state.equity.value = state.cash + 0 * bar.close
        BY <2>2, <2>t DEF IInv, Curve, PortfolioValue
      <3>2. FinalValue = state.cash
        BY <2>2, <2>t, <3>1 DEF FinalValue
      <3>3. UnroundedReconciliation = state.trades.net - state.trades.pnl
        BY <2>t, <2>1, <3>2 DEF UnroundedReconciliation
      <3> QED
        BY <2>t, <3>2, <3>3
           DEF IInv, Booked, Rounded, Abs, TicksPerCent, Flat
    <2>3. CASE state.equity.count = 0
      <3>1. state.trades.count = 0 /\ state.trades.pnl = 0
            /\ state.total_funding = 0
        BY <2>3 DEF IInv, Curve, Untouched
      <3>2. UnroundedReconciliation = 0
        BY <2>3, <2>t, <3>1 DEF UnroundedReconciliation, FinalValue
      <3> QED
        BY <2>3, <2>t, <3>1, <3>2 DEF Abs, Flat, TicksPerCent
    <2> QED
      BY <2>2, <2>3, <2>t
  <1> QED
    BY <1>1, Invariance, PTL
-----------------------------------------------------------------------------
(* Fills. *)

(* Slippage keeps the order of two prices: against the same trader the     *)
(* higher one stays the higher one (_apply_slippage).                      *)
LEMMA SlippageMonotone ==
    ASSUME NEW x \in Int, NEW y \in Int, x <= y, NEW d, NEW side
    PROVE  ApplySlippage(x, d, side) <= ApplySlippage(y, d, side)
  <1>1. SlippagePct \in 0..99
    BY ConfigAssumption
  <1> DEFINE g == y - x
             a == x * SlippagePct
             b == g * SlippagePct
  <1>2. g \in Nat /\ a \in Int /\ b \in Int /\ 0 <= b /\ b <= 100 * g
    BY <1>1
  <1>3. y * SlippagePct = a + b
    BY <1>1
  <1> HIDE DEF a, b
  <1>4. /\ a \div 100 <= (a + b) \div 100
        /\ (a + b) \div 100 <= a \div 100 + g
    BY <1>2
  <1>5. /\ Pct(x, SlippagePct) = a \div 100
        /\ Pct(y, SlippagePct) = (a + b) \div 100
    BY <1>3 DEF Pct, a
  <1> QED
    BY <1>2, <1>4, <1>5 DEF ApplySlippage

(* A fill of the book s at a price the bar b traded. *)
TradedWithin(s, b) ==
    LET t == s.last_trade
    IN  /\ ApplySlippage(b.low, t.direction, "exit") <= t.exit_price
        /\ t.exit_price <= ApplySlippage(b.high, t.direction, "exit")

(* An exit at a price within a range is a trade within it. *)
LEMMA CloseWithin ==
    ASSUME NEW s \in States, NEW b \in Bars, NEW price \in Int,
           b.low <= price, price <= b.high, NEW date, NEW reason
    PROVE  TradedWithin(Close(s, price, date, reason), b)
  <1> DEFINE c == Close(s, price, date, reason)
  <1>1. /\ c.last_trade.exit_price = ApplySlippage(price, s.position.direction, "exit")
        /\ c.last_trade.direction = s.position.direction
    BY DEF Close, States
  <1> HIDE DEF c
  <1>2. b.low \in Int /\ b.high \in Int
    BY DEF Bars, Prices
  <1> QED
    BY <1>1, <1>2, SlippageMonotone DEF TradedWithin, c

(* Without leverage what the resolver fills is a price of the bar: the     *)
(* open when the bar gaps through a level, else the level it touched.      *)
LEMMA FillsAreTraded ==
    ASSUME NEW p \in Positions, NEW b \in Bars, Spot, ExitFill(p, b) # NoFill
    PROVE  /\ ExitFill(p, b).price \in Int
           /\ b.low <= ExitFill(p, b).price /\ ExitFill(p, b).price <= b.high
  <1>1. /\ p.size \in Int /\ p.stop_price \in Int /\ p.target_price \in Int
        /\ b.open \in Int /\ b.low \in Int /\ b.high \in Int
        /\ b.low <= b.open /\ b.open <= b.high
    BY DEF Positions, Bars, Prices
  <1>2. ExitFill(p, b) = ResolveIntrabar(p, b)
    BY DEF ExitFill, Liquidated
  <1> QED
    BY <1>1, <1>2 DEF ResolveIntrabar, ResolveLong, ResolveShort, Fill, NoFill

(* An entry closes nothing. *)
LEMMA EnterTrades ==
    ASSUME NEW s \in States, NEW entry \in Entries, NEW price, NEW date
    PROVE  Enter(s, entry, price, date).trades = s.trades
  BY DEF Enter, Open, Diagnose, States

(* Each step that closes a trade without leverage fills it within its bar. *)
LEMMA ExitStep ==
    IInv /\ [Next]_vars =>
        (state'.trades.count > state.trades.count /\ Spot
            => TradedWithin(state', bar))
  <1> SUFFICES ASSUME IInv, [Next]_vars, Spot,
                      state'.trades.count > state.trades.count
               PROVE  TradedWithin(state', bar)
    OBVIOUS
  <1>t. /\ state \in States /\ bar \in BarSet /\ bar \in Bars
        /\ state.trades.count \in Nat /\ state.position \in Positions
        /\ bar.open \in Int /\ bar.close \in Int
        /\ bar.low <= bar.open /\ bar.open <= bar.high
        /\ bar.low <= bar.close /\ bar.close <= bar.high
    BY MarketAssumption DEF IInv, TypeOK, States, Bars, Prices
  <1>n. state'.trades # state.trades
    BY <1>t
  <1>1. CASE ExecutePending
    <2> DEFINE c == Close(state, bar.open, i, "signal_exit_next_open")
    <2>1. TradedWithin(c, bar)
      BY <1>t, CloseWithin
    <2>2. CASE state.pending_exit /\ state.position.size # 0
      <3>1. state.pending_entry = NoEntry /\ c.pending_entry = state.pending_entry
        BY <2>2, <1>1, <1>t DEF IInv, Orders, Flat, ExecutePending, Close, States
      <3>2. DOMAIN c = DOMAIN state /\ "last_trade" \in DOMAIN c
        BY <1>t DEF Close, States
      <3> HIDE DEF c
      <3>3. [c EXCEPT !.pending_exit = FALSE].pending_entry = NoEntry
        BY <3>1, <3>2
      <3>4. state' = [c EXCEPT !.pending_exit = FALSE]
        BY <2>2, <1>1, <3>3 DEF ExecutePending, c
      <3>5. state'.last_trade = c.last_trade
        BY <3>2, <3>4
      <3> QED
        BY <2>1, <3>5 DEF TradedWithin
    <2>3. CASE ~(state.pending_exit /\ state.position.size # 0)
      <3> DEFINE s == [state EXCEPT !.pending_entry = NoEntry]
      <3>1. \/ state' = state
            \/ state' = Enter(s, state.pending_entry, bar.open, i)
        BY <2>3, <1>1 DEF ExecutePending
      <3>2. /\ s \in States /\ s.trades = state.trades
            /\ state.pending_entry \in Entries
        <4>1. NoEntry \in Entries
          BY DEF NoEntry, Entries
        <4> QED
          BY <1>t, <4>1 DEF States
      <3> HIDE DEF s
      <3>3. Enter(s, state.pending_entry, bar.open, i).trades = s.trades
        BY <3>2, EnterTrades
      <3> QED
        BY <1>n, <3>1, <3>2, <3>3
    <2> QED
      BY <2>2, <2>3
  <1>2. CASE CheckExitConditions
    <2> DEFINE held == [state EXCEPT !.position.bars_held = @ + 1]
               fill == ExitFill(state.position, bar)
    <2>1. held \in States /\ held.trades = state.trades
      BY <1>t DEF States, Positions
    <2>2. state' = IF fill = NoFill THEN held
                   ELSE Close(held, fill.price, i, fill.reason)
      BY <1>2 DEF CheckExitConditions
    <2> HIDE DEF held
    <2>3. fill # NoFill
      BY <1>n, <2>1, <2>2
    <2>4. fill.price \in Int /\ bar.low <= fill.price /\ fill.price <= bar.high
      BY <1>t, <2>3, FillsAreTraded
    <2> HIDE DEF fill
    <2> DEFINE x == fill.price
               y == fill.reason
    <2>5. x \in Int /\ bar.low <= x /\ x <= bar.high
      BY <2>4
    <2>6. state' = Close(held, x, i, y)
      BY <2>2, <2>3
    <2> HIDE DEF x, y
    <2> QED
      BY <1>t, <2>1, <2>5, <2>6, CloseWithin
  <1>3. CASE LiquidateOpen
    <2> DEFINE c == Close(state, bar.close, i, "end_of_backtest")
    <2>1. TradedWithin(c, bar)
      BY <1>t, CloseWithin
    <2>2. state.position.size # 0
      BY <1>3, <1>n DEF LiquidateOpen
    <2>3. state'.last_trade = c.last_trade
      BY <1>3, <2>2, <1>t DEF LiquidateOpen, Close, States
    <2> QED
      BY <2>1, <2>3 DEF TradedWithin
  <1>4. CASE CheckMarginCall
    BY <1>4, <1>n, CheckMarginCallStep
  <1>5. CASE ApplyFunding
    BY <1>5, <1>n, <1>t DEF ApplyFunding, States
  <1>6. CASE ProcessSignal
    BY <1>6, <1>n, <1>t DEF ProcessSignal, HandleSignal, QueueEntry, States
  <1>7. CASE TrackEquity
    BY <1>7, <1>n, <1>t DEF TrackEquity, States
  <1>8. CASE NextBar \/ Done \/ UNCHANGED vars
    BY <1>8, <1>n DEF NextBar, Done, vars
  <1> QED
    BY <1>1, <1>2, <1>3, <1>4, <1>5, <1>6, <1>7, <1>8 DEF Next

(* For every market, strategy and unlevered configuration, whatever gaps   *)
(* a bar has: stops, targets, signal exits and the final liquidation are   *)
(* priced, before slippage, where their bar traded (IntrabarExitResolver,  *)
(* PositionCloser.close).                                                  *)
THEOREM ExitsAreTraded == Spec => ExitWithinBar
  <1>1. IInv /\ [Next]_vars =>
            [TradeClosed /\ Spot =>
               LET t == state'.last_trade
               IN  /\ ApplySlippage(bar.low, t.direction, "exit") <= t.exit_price
                   /\ t.exit_price <= ApplySlippage(bar.high, t.direction, "exit")
            ]_vars
    BY ExitStep DEF TradeClosed, TradedWithin
  <1> QED
    BY <1>1, Invariance, PTL DEF Spec, ExitWithinBar
-----------------------------------------------------------------------------
(* Sizes. *)

(* What _apply_affordability_cap answers when it does not refuse: the size *)
(* asked for, or the cap with its diagnostic.                              *)
LEMMA CapOutcome ==
    ASSUME NEW s \in States, NEW e \in Entries, NEW size \in Int,
           NEW price \in Prices, AffordabilityCap(s, e, size, price).size > 0
    PROVE  LET out == AffordabilityCap(s, e, size, price)
               cap == MaxAffordableSize(s.cash, price)
           IN  /\ CapExplicit /\ ~AllowNegativeCash => out.size <= cap
               /\ e.explicit_size =>
                     \/ out.size = size
                     \/ /\ CapExplicit /\ ~RejectOversized
                        /\ "affordability_cap" \in out.codes
  <1> DEFINE out == AffordabilityCap(s, e, size, price)
             cap == MaxAffordableSize(s.cash, price)
  <1>1. cap \in Int
    BY MaxAffordableInt DEF States
  <1> HIDE DEF cap
  <1>2. CASE AllowNegativeCash \/ (cap > 0 /\ size <= cap)
    <2>1. out = [size |-> size, codes |-> {}]
      BY <1>1, <1>2 DEF AffordabilityCap, cap
    <2> QED
      BY <1>2, <2>1 DEF cap
  <1>3. CASE ~AllowNegativeCash /\ cap <= 0
    <2>1. out = [size |-> 0, codes |-> {"insufficient_cash"}]
      BY <1>1, <1>3 DEF AffordabilityCap, cap
    <2> QED
      BY <2>1
  <1>4. CASE ~AllowNegativeCash /\ cap > 0 /\ size > cap
    <2>1. out = IF e.explicit_size /\ RejectOversized
                THEN [size |-> 0, codes |-> {"explicit_size_rejected"}]
                ELSE IF e.explicit_size /\ ~CapExplicit
                THEN [size |-> size, codes |-> {}]
                ELSE [size |-> cap, codes |-> {"affordability_cap"}]
      BY <1>1, <1>4 DEF AffordabilityCap, cap
    <2> QED
      BY <1>1, <1>4, <2>1 DEF cap
  <1> QED
    BY <1>1, <1>2, <1>3, <1>4

(* A size within _max_affordable_size costs, commission included, no more  *)
(* than the buying power, for all its roundings.                           *)
LEMMA CapIsAffordable ==
    ASSUME NEW cash \in Int, NEW price \in Prices, NEW size \in Nat \ {0},
           size <= MaxAffordableSize(cash, price)
    PROVE  size * price + Commission(size * price) <= cash * Leverage
  <1> DEFINE unit == price * (100 + CommissionPct)
             power == cash * Leverage
             cost == size * price
             cap == (power * 100) \div unit
  <1>1. /\ price \in Nat \ {0} /\ CommissionPct \in Nat
        /\ 100 + CommissionPct \in Nat \ {0} /\ Leverage \in Nat
    BY ConfigAssumption DEF Prices
  <1>2. /\ unit \in Nat \ {0} /\ power \in Int /\ cost \in Nat
        /\ size * unit = cost * (100 + CommissionPct)
    <2>1. unit \in Nat \ {0}
      BY <1>1, TimesPos
    <2>2. power \in Int /\ cost \in Nat
      BY <1>1, TimesInt, TimesPos
    <2>3. size * unit = cost * (100 + CommissionPct)
      BY <1>1
    <2> QED
      BY <2>1, <2>2, <2>3
  <1>3. MaxAffordableSize(cash, price) = AtLeast(0, cap)
    BY DEF MaxAffordableSize
  <1> HIDE DEF unit, power
  <1>4. cap \in Int /\ cap * unit <= power * 100
    BY <1>2
  <1>5. size <= cap
    BY <1>3, <1>4 DEF AtLeast
  <1> HIDE DEF cap
  <1>6. size * unit <= cap * unit
    BY <1>2, <1>4, <1>5
  <1> DEFINE f == cost * CommissionPct
  <1>7. f \in Nat /\ cost * (100 + CommissionPct) = 100 * cost + f
    BY <1>1, <1>2
  <1>8. Commission(cost) = f \div 100
    BY <1>2 DEF Commission, Pct, Abs
  <1> HIDE DEF cost, f
  <1>9. 100 * cost + f <= power * 100
    <2>1. size * unit \in Int /\ cap * unit \in Int
      BY <1>2, <1>4, TimesInt
    <2> QED
      BY <1>2, <1>4, <1>6, <1>7, <2>1
  <1>10. cost + f \div 100 <= power
    BY <1>2, <1>7, <1>9
  <1> QED
    BY <1>8, <1>10 DEF cost, power

(* What a filled order leaves in the book r when it found s: within the    *)
(* buying power, and of the size it asked for or with a diagnostic.        *)
EntryHonest(s, e, r, date) ==
    /\ CapExplicit /\ ~AllowNegativeCash =>
          Abs(r.position.size) * r.position.entry_price
                + r.position.entry_commission <= s.cash * Leverage
    /\ e.explicit_size =>
          \/ Abs(r.position.size) = e.position_size
          \/ /\ CapExplicit /\ ~RejectOversized
             /\ <<"affordability_cap", date>> \in r.diagnostics

(* PositionExecutor.enter: whatever it opens in a flat book is honest. *)
LEMMA EnterHonest ==
    ASSUME NEW s \in States, NEW entry \in Entries, NEW price \in Prices,
           NEW date \in Nat, s.position.size = 0,
           Enter(s, entry, price, date).position.size # 0
    PROVE  EntryHonest(s, entry, Enter(s, entry, price, date), date)
  <1> DEFINE fill  == ApplySlippage(price, entry.direction, "entry")
             e     == RebaseRiskPrices(entry, fill)
             raw   == RawSize(e, fill, PortfolioValue(s, fill))
             sized == ResolveSize(s, e, fill)
             d     == Diagnose(s, sized.codes, date)
             r     == Enter(s, entry, price, date)
  <1>1. fill \in Prices
    BY FillPositive
  <1>2. /\ e \in Entries
        /\ e.explicit_size = entry.explicit_size
        /\ e.position_size = entry.position_size
    <2>1. e \in Entries
      BY <1>1, RebaseType
    <2> QED
      BY <2>1 DEF RebaseRiskPrices, Entries
  <1>3. sized \in [size : Int, codes : SUBSET Codes]
    BY <1>1, <1>2, ResolveSizeType
  <1>4. raw \in Int
    <2>1. PortfolioValue(s, fill) \in Int
      BY <1>1 DEF PortfolioValue, States, Positions, Prices
    <2> QED
      BY <1>1, <1>2, <2>1, RawSizeInt
  <1>5. e.explicit_size => raw = e.position_size
    BY DEF RawSize
  <1> HIDE DEF fill, e
  <1>6. r = IF ~StopValid(e, fill) THEN s
            ELSE IF sized.size <= 0
                 THEN Diagnose(s, sized.codes \cup {"entry_size_zero"}, date)
                 ELSE Open(d, e, sized.size, price, fill, date)
    BY DEF Enter, fill, e
  <1> HIDE DEF r, d
  <1>7. r = Open(d, e, sized.size, price, fill, date) /\ sized.size \in Nat \ {0}
    <2>1. Diagnose(s, sized.codes \cup {"entry_size_zero"}, date).position
              = s.position
      BY DEF Diagnose, States
    <2> QED
      BY <1>3, <1>6, <2>1 DEF r
  <1>8. /\ Abs(r.position.size) = sized.size
        /\ r.position.entry_price = fill
        /\ r.position.entry_commission = Commission(sized.size * fill)
        /\ sized.codes \X {date} \subseteq r.diagnostics
    <2>1. d \in States /\ sized.codes \X {date} \subseteq d.diagnostics
      <3>1. d \in States
        BY <1>3, DiagnoseType DEF d
      <3> QED
        BY <3>1 DEF d, Diagnose, States
    <2>2. /\ r.position.size \in {sized.size, -sized.size}
          /\ r.position.entry_price = fill
          /\ r.position.entry_commission = Commission(sized.size * fill)
          /\ r.diagnostics = d.diagnostics
      BY <1>7, <2>1 DEF Open, States
    <2> QED
      BY <1>7, <2>1, <2>2 DEF Abs
  <1>9. /\ AffordabilityCap(s, e, raw, fill).size = sized.size
        /\ AffordabilityCap(s, e, raw, fill).codes \subseteq sized.codes
    BY <1>4, <1>7 DEF ResolveSize
  <1> HIDE DEF sized, raw
  <1>10. /\ CapExplicit /\ ~AllowNegativeCash =>
               sized.size <= MaxAffordableSize(s.cash, fill)
         /\ e.explicit_size =>
               \/ sized.size = raw
               \/ /\ CapExplicit /\ ~RejectOversized
                  /\ "affordability_cap" \in sized.codes
    BY <1>1, <1>2, <1>4, <1>7, <1>9, CapOutcome
  <1>11. CapExplicit /\ ~AllowNegativeCash =>
             sized.size * fill + Commission(sized.size * fill) <= s.cash * Leverage
    BY <1>1, <1>7, <1>10, CapIsAffordable DEF States
  <1> QED
    BY <1>2, <1>5, <1>8, <1>10, <1>11 DEF EntryHonest, r

(* A position is opened by ExecutePending alone, and then honestly. *)
LEMMA EntryStep ==
    IInv /\ [Next]_vars =>
        (Opened => EntryHonest(state, state.pending_entry, state', i))
  <1> SUFFICES ASSUME IInv, [Next]_vars, Opened
               PROVE  EntryHonest(state, state.pending_entry, state', i)
    OBVIOUS
  <1>t. /\ state \in States /\ i \in Nat /\ bar.open \in Prices
        /\ state.position.size = 0 /\ state'.position.size # 0
    BY BarFacts, MarketAssumption DEF IInv, TypeOK, Opened, Flat
  <1>1. CASE ExecutePending
    <2> DEFINE s == [state EXCEPT !.pending_entry = NoEntry]
    <2>1. state' = Enter(s, state.pending_entry, bar.open, i)
      BY <1>1, <1>t DEF ExecutePending
    <2>2. /\ s \in States /\ s.position = state.position /\ s.cash = state.cash
          /\ state.pending_entry \in Entries
      <3>1. NoEntry \in Entries
        BY DEF NoEntry, Entries
      <3> QED
        BY <1>t, <3>1 DEF States
    <2> HIDE DEF s
    <2>3. EntryHonest(s, state.pending_entry, state', i)
      BY <1>t, <2>1, <2>2, EnterHonest
    <2> QED
      BY <2>2, <2>3 DEF EntryHonest
  <1>2. CASE CheckExitConditions
    <2>1. ExitFill(state.position, bar) = NoFill
      BY <1>t DEF ExitFill, Liquidated, ResolveIntrabar
    <2>2. state' = [state EXCEPT !.position.bars_held = @ + 1]
      BY <1>2, <2>1 DEF CheckExitConditions
    <2> QED
      BY <1>t, <2>2 DEF States, Positions
  <1>3. CASE LiquidateOpen \/ CheckMarginCall
    BY <1>3, <1>t, CheckMarginCallStep DEF LiquidateOpen
  <1>4. CASE ApplyFunding
    BY <1>4, <1>t DEF ApplyFunding, States
  <1>5. CASE ProcessSignal
    BY <1>5, <1>t DEF ProcessSignal, HandleSignal, QueueEntry, States
  <1>6. CASE TrackEquity
    BY <1>6, <1>t DEF TrackEquity, States
  <1>7. CASE NextBar \/ Done \/ UNCHANGED vars
    BY <1>7, <1>t DEF NextBar, Done, vars
  <1> QED
    BY <1>1, <1>2, <1>3, <1>4, <1>5, <1>6, <1>7 DEF Next

(* For every configuration, cash balance and price: a fill never costs     *)
(* more than the buying power, commission included, and an explicit order  *)
(* is never cut without a diagnostic (PositionSizer, PositionOpener).      *)
THEOREM EntriesAreHonest == Spec => OrdersWithinMeans
  <1>1. IInv /\ [Next]_vars =>
            [Opened /\ CapExplicit /\ ~AllowNegativeCash =>
               LET p == state'.position
               IN  Abs(p.size) * p.entry_price + p.entry_commission
                       <= state.cash * Leverage]_vars
    BY EntryStep DEF EntryHonest
  <1>2. IInv /\ [Next]_vars =>
            [Opened /\ state.pending_entry.explicit_size =>
               \/ Abs(state'.position.size) = state.pending_entry.position_size
               \/ /\ CapExplicit /\ ~RejectOversized
                  /\ <<"affordability_cap", i>> \in state'.diagnostics]_vars
    BY EntryStep DEF EntryHonest
  <1> QED
    BY <1>1, <1>2, Invariance, PTL
       DEF Spec, OrdersWithinMeans, WithinBuyingPower, ExplicitSizeHonoured
=============================================================================
