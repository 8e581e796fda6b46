--------------------------- MODULE BacktestEngine ---------------------------
(***************************************************************************)
(* The bar-by-bar backtest engine: backtest_runner.py drives the loop and  *)
(* PositionExecutor / PositionSizer / PositionOpener / PositionCloser /    *)
(* MarginAccountManager change one SimulationState.                        *)
(*                                                                         *)
(* Data abstraction.  Prices are integer ticks and sizes integer lots, so  *)
(* money is a whole number of ticks and divisions round down; percentages  *)
(* are whole per cents.  A date is the number of its bar, NoDate is the    *)
(* empty string.  The list of trades is kept as its running sums and its   *)
(* last record, the equity curve as its length and last record.            *)
(***************************************************************************)
EXTENDS Integers, FiniteSets

CONSTANTS
    InitialCash,            \* starting capital
    BarSet,                 \* validated OHLC bars the market may print
    SignalSet,              \* what a strategy may return from on_bar
    NBars,                  \* bound: bars in the data frame
    FirstTradable,          \* warmup bars before trading starts
    CommissionPct, SlippagePct,
    Leverage, MaintenancePct, FullMargin,
    EnableFunding, FundingPct,
    BorrowPct, BorrowTimeBasis, BarsPerDay,
    RiskPct, LeverageScaledRisk, RiskPriceBasis,
    CapExplicit, RejectOversized, AllowNegativeCash,
    DefaultPositionSize, MinStopDistance

TicksPerCent == 10          \* one money tick is a tenth of a cent
NoDate == 0

Prices == Nat \ {0}

Bars ==
    {b \in [open : Prices, high : Prices, low : Prices, close : Prices] :
        /\ b.low <= b.open  /\ b.open  <= b.high
        /\ b.low <= b.close /\ b.close <= b.high}

Signals ==
    [action : {"buy", "sell", "hold"},
     direction : {"long", "short", "exit", "flat"},
     stop_price : Nat, target_price : Nat, position_size : Nat]

ASSUME MarketAssumption ==
    /\ BarSet \subseteq Bars
    /\ SignalSet \subseteq Signals
    /\ NBars \in Nat /\ FirstTradable \in Nat
    /\ BarsPerDay \in Nat \ {0}

ASSUME ConfigAssumption ==
    /\ InitialCash \in Nat
    /\ CommissionPct \in Nat /\ SlippagePct \in 0..99
    /\ Leverage \in Nat \ {0} /\ MaintenancePct \in Nat
    /\ FundingPct \in Nat /\ BorrowPct \in Nat /\ RiskPct \in Nat
    /\ FullMargin \in BOOLEAN /\ EnableFunding \in BOOLEAN
    /\ LeverageScaledRisk \in BOOLEAN /\ CapExplicit \in BOOLEAN
    /\ RejectOversized \in BOOLEAN /\ AllowNegativeCash \in BOOLEAN
    /\ BorrowTimeBasis \in {"calendar_day", "timestamp_delta"}
    /\ RiskPriceBasis \in {"signal_close", "entry_fill"}
    /\ DefaultPositionSize \in Nat \ {0} /\ MinStopDistance \in Nat

VARIABLES
    pc,       \* which call of the loop body runs next
    i,        \* bars read so far: the 1-based index, and date, of the bar
    bar,      \* the current bar
    state     \* SimulationState, with the margin account beside it

vars == <<pc, i, bar, state>>

-----------------------------------------------------------------------------
(* Arithmetic and configuration helpers. *)

Abs(x) == IF x < 0 THEN -x ELSE x
AtLeast(x, y) == IF x > y THEN x ELSE y
AtMost(x, y) == IF x < y THEN x ELSE y
Pct(x, p) == (x * p) \div 100

Spot == Leverage <= 1

(* round(x, 2): nearest cent, ties to the even cent. *)
RoundCents(x) ==
    LET q == x \div TicksPerCent
        r == x % TicksPerCent
    IN  IF 2 * r < TicksPerCent \/ (2 * r = TicksPerCent /\ q % 2 = 0)
        THEN q * TicksPerCent
        ELSE (q + 1) * TicksPerCent

(* Slippage always moves the fill against the trader. *)
ApplySlippage(price, direction, side) ==
    IF (direction = "long") = (side = "entry")
    THEN price + Pct(price, SlippagePct)
    ELSE price - Pct(price, SlippagePct)

Commission(gross) == Pct(Abs(gross), CommissionPct)

MarginRequired(value) == value \div Leverage

LiquidationPrice(price, direction) ==
    IF Spot THEN price
    ELSE IF direction = "long"
         THEN price - price \div Leverage + Pct(price, MaintenancePct)
         ELSE price + price \div Leverage - Pct(price, MaintenancePct)

ValidateStop(stop, price, direction) ==
    \/ Spot
    \/ IF direction = "long" THEN stop > LiquidationPrice(price, direction)
                             ELSE stop < LiquidationPrice(price, direction)

PortfolioValue(s, close) == s.cash + s.position.size * close

-----------------------------------------------------------------------------
(* The flat position, the absent pending entry and the initial state. *)

FlatPosition ==
    [size |-> 0, direction |-> "none", entry_price |-> 0, entry_date |-> NoDate,
     stop_price |-> 0, target_price |-> 0, liquidation_price |-> 0,
     bars_held |-> 0, entry_commission |-> 0, entry_slippage |-> 0]

NoEntry ==
    [direction |-> "none", stop_price |-> 0, target_price |-> 0,
     position_size |-> 0, explicit_size |-> FALSE, signal_close |-> 0]

NoTrade ==
    [exit_date |-> NoDate, exit_price |-> 0, direction |-> "none",
     duration_bars |-> 0, exit_reason |-> "none"]

InitialState ==
    [cash |-> InitialCash,
     account |-> [cash |-> InitialCash, margin_book |-> 0],
     position |-> FlatPosition,
     pending_entry |-> NoEntry,
     pending_exit |-> FALSE,
     trades |-> [count |-> 0, gross |-> 0, net |-> 0, pnl |-> 0],
     last_trade |-> NoTrade,
     equity |-> [count |-> 0, value |-> 0, drawdown |-> 0, position |-> 0],
     peak_value |-> InitialCash,
     total_commission |-> 0, total_slippage |-> 0,
     total_borrow_cost |-> 0, total_funding |-> 0,
     used_margin |-> 0,
     diagnostics |-> {}]

Diagnose(s, codes, date) ==
    [s EXCEPT !.diagnostics = @ \cup (codes \X {date})]

-----------------------------------------------------------------------------
(* PositionCloser.close and the borrow fee. *)

Day(date) == (date - 1) \div BarsPerDay

(* Holding time in bars; calendar_day truncates both ends to their day. *)
TimeHeld(entry_date, exit_date) ==
    AtLeast(0, IF BorrowTimeBasis = "calendar_day"
               THEN (Day(exit_date) - Day(entry_date)) * BarsPerDay
               ELSE exit_date - entry_date)

(* The unparsable empty date costs nothing. *)
BorrowCost(p, date) ==
    IF p.direction # "short" \/ BorrowPct = 0 \/ date = NoDate THEN 0
    ELSE (Abs(p.size) * p.entry_price * BorrowPct
              * TimeHeld(p.entry_date, date)) \div (36500 * BarsPerDay)

CalcPnl(size, entry_price, exit_price) ==
    IF size > 0 THEN (exit_price - entry_price) * Abs(size)
                ELSE (entry_price - exit_price) * Abs(size)

(* Mutant: the exit forgets to collect the borrow fee. *)
CashSettlementNoBorrow(size, fill_cost, commission, borrow) ==
    IF size > 0 THEN fill_cost - commission ELSE -(fill_cost + commission)

CashSettlement(size, fill_cost, commission, borrow) ==
    IF size > 0 THEN fill_cost - commission
                ELSE -(fill_cost + commission + borrow)

NetPnl(p, gross, fee, borrow) == gross - p.entry_commission - fee - borrow

ReleaseMargin(used, p) ==
    IF Spot \/ p.entry_price = 0 THEN used
    ELSE AtLeast(0, used - MarginRequired(Abs(p.size) * p.entry_price))

(* Mutant: the booked margin stays. *)
SettleExitNoRelease(account, p, cash) ==
    IF FullMargin THEN [account EXCEPT !.cash = cash] ELSE account

(* settle_exit: release what the entry locked, mirror the settled cash. *)
SettleExit(account, p, cash) ==
    IF ~FullMargin THEN account
    ELSE LET locked == MarginRequired(Abs(p.size) * p.entry_price)
         IN  [cash |-> cash,
              margin_book |-> account.margin_book
                                - AtMost(locked, account.margin_book)]

Close(s, exit_price, date, reason) ==
    LET p       == s.position
        fill    == ApplySlippage(exit_price, p.direction, "exit")
        cost    == Abs(p.size) * fill
        fee     == Commission(cost)
        gross   == CalcPnl(p.size, p.entry_price, fill)
        borrow  == BorrowCost(p, date)
        net     == NetPnl(p, gross, fee, borrow)
        cash    == s.cash + CashSettlement(p.size, cost, fee, borrow)
    IN [s EXCEPT
          !.total_commission = @ + fee,
          !.total_slippage = @ + Abs(fill - exit_price) * Abs(p.size),
          !.total_borrow_cost = @ + borrow,
          !.cash = cash,
          !.used_margin = ReleaseMargin(@, p),
          !.account = SettleExit(@, p, cash),
          !.trades = [count |-> @.count + 1, gross |-> @.gross + gross,
                      net |-> @.net + net, pnl |-> @.pnl + RoundCents(net)],
          !.last_trade = [exit_date |-> date, exit_price |-> fill,
                          direction |-> p.direction,
                          duration_bars |-> p.bars_held,
                          exit_reason |-> reason],
          !.position = FlatPosition]

-----------------------------------------------------------------------------
(* PositionExecutor.enter: rebase, validate the stop, size, open. *)

ScalePrice(old, signal_close, fill) ==
    IF old <= 0 THEN old
    ELSE fill + ((old - signal_close) * fill) \div signal_close

RebaseRiskPrices(e, fill) ==
    IF RiskPriceBasis # "entry_fill" \/ e.signal_close <= 0 THEN e
    ELSE [e EXCEPT !.stop_price = ScalePrice(@, e.signal_close, fill),
                   !.target_price = ScalePrice(@, e.signal_close, fill)]

StopValid(e, price) ==
    \/ e.stop_price <= 0
    \/ /\ IF e.direction = "long" THEN e.stop_price < price
                                  ELSE e.stop_price > price
       /\ ValidateStop(e.stop_price, price, e.direction)

RiskBudget(portfolio) ==
    Pct(portfolio, RiskPct) * (IF LeverageScaledRisk THEN AtLeast(Leverage, 1)
                                                     ELSE 1)

RiskSized(e) == ~e.explicit_size /\ e.stop_price > 0

(* _raw_size: explicit, else risk based, else the default size. *)
RawSize(e, price, portfolio) ==
    LET risk_per_share == Abs(price - e.stop_price)
    IN  IF e.explicit_size THEN e.position_size
        ELSE IF RiskSized(e) /\ risk_per_share > MinStopDistance
             THEN RiskBudget(portfolio) \div risk_per_share
             ELSE DefaultPositionSize

RawSizeWarnings(e, price) ==
    {c \in {"stop_distance_too_small"} :
        RiskSized(e) /\ Abs(price - e.stop_price) <= MinStopDistance}

(* Mutant: the cap ignores the commission of the entry itself. *)
MaxAffordableSizeNoFee(cash, price) ==
    AtLeast(0, (cash * Leverage) \div price)

MaxAffordableSize(cash, price) ==
    AtLeast(0, (cash * Leverage * 100) \div (price * (100 + CommissionPct)))

(* _apply_affordability_cap: the filled size and its diagnostic codes. *)
AffordabilityCap(s, e, size, price) ==
    LET cap == MaxAffordableSize(s.cash, price)
    IN  CASE AllowNegativeCash \/ (cap > 0 /\ size <= cap) ->
                 [size |-> size, codes |-> {}]
          [] ~AllowNegativeCash /\ cap <= 0 ->
                 [size |-> 0, codes |-> {"insufficient_cash"}]
          [] ~AllowNegativeCash /\ cap > 0 /\ size > cap ->
                 IF e.explicit_size /\ RejectOversized
                 THEN [size |-> 0, codes |-> {"explicit_size_rejected"}]
                 ELSE IF e.explicit_size /\ ~CapExplicit
                 THEN [size |-> size, codes |-> {}]
                 ELSE [size |-> cap, codes |-> {"affordability_cap"}]

ResolveSize(s, e, price) ==
    LET raw == RawSize(e, price, PortfolioValue(s, price))
        out == IF raw <= 0 THEN [size |-> 0, codes |-> {}]
               ELSE AffordabilityCap(s, e, raw, price)
    IN  [size |-> out.size, codes |-> out.codes \cup RawSizeWarnings(e, price)]

(* lock_entry_margin / credit_entry_short: a short entry locks no margin,  *)
(* and cash already moved by the opener is mirrored, not applied twice.    *)
MirrorEntry(account, direction, cash, cost, delta) ==
    IF ~FullMargin THEN account
    ELSE [cash |-> IF cash = account.cash THEN account.cash + delta ELSE cash,
          margin_book |-> account.margin_book
                + IF direction = "long" THEN MarginRequired(cost) ELSE 0]

Open(s, e, size, price, fill, date) ==
    LET cost  == size * fill
        fee   == Commission(cost)
        slip  == Abs(fill - price) * size
        delta == IF e.direction = "long" THEN -(cost + fee) ELSE cost - fee
    IN [s EXCEPT
          !.total_commission = @ + fee,
          !.total_slippage = @ + slip,
          !.cash = @ + delta,
          !.account = MirrorEntry(@, e.direction, s.cash + delta, cost, delta),
          !.position =
             [size |-> IF e.direction = "long" THEN size ELSE -size,
              direction |-> e.direction,
              entry_price |-> fill, entry_date |-> date,
              stop_price |-> e.stop_price, target_price |-> e.target_price,
              liquidation_price |-> LiquidationPrice(fill, e.direction),
              bars_held |-> 0,
              entry_commission |-> fee, entry_slippage |-> slip],
          !.used_margin = @ + MarginRequired(cost)]

(* Mutant: the stop is validated before it is rebased to the fill. *)
EnterValidateFirst(s, entry, price, date) ==
    LET fill  == ApplySlippage(price, entry.direction, "entry")
        e     == RebaseRiskPrices(entry, fill)
        sized == ResolveSize(s, e, fill)
    IN  IF ~StopValid(entry, fill) \/ sized.size <= 0 THEN s
        ELSE Open(s, e, sized.size, price, fill, date)

Enter(s, entry, price, date) ==
    LET fill  == ApplySlippage(price, entry.direction, "entry")
        e     == RebaseRiskPrices(entry, fill)
        sized == ResolveSize(s, e, fill)
    IN  IF ~StopValid(e, fill) THEN s
        ELSE IF sized.size <= 0
             THEN Diagnose(s, sized.codes \cup {"entry_size_zero"}, date)
             ELSE Open(Diagnose(s, sized.codes, date),
                       e, sized.size, price, fill, date)

-----------------------------------------------------------------------------
(* IntrabarExitResolver and check_liquidation. *)

NoFill == [price |-> 0, reason |-> "none"]
Fill(price, reason) == [price |-> price, reason |-> reason]

(* Mutant: a gap through a level still fills at the level. *)
ResolveLongNoGap(b, stop, target) ==
    IF      stop > 0 /\ b.low <= stop      THEN Fill(stop, "stop_loss")
    ELSE IF target > 0 /\ b.high >= target THEN Fill(target, "take_profit")
    ELSE NoFill

ResolveLong(b, stop, target) ==
    IF      stop > 0 /\ b.open <= stop     THEN Fill(b.open, "stop_loss_gap")
    ELSE IF target > 0 /\ b.open >= target THEN Fill(b.open, "take_profit_gap")
    ELSE IF stop > 0 /\ b.low <= stop      THEN Fill(stop, "stop_loss")
    ELSE IF target > 0 /\ b.high >= target THEN Fill(target, "take_profit")
    ELSE NoFill

ResolveShort(b, stop, target) ==
    IF      stop > 0 /\ b.open >= stop     THEN Fill(b.open, "stop_loss_gap")
    ELSE IF target > 0 /\ b.open <= target THEN Fill(b.open, "take_profit_gap")
    ELSE IF stop > 0 /\ b.high >= stop     THEN Fill(stop, "stop_loss")
    ELSE IF target > 0 /\ b.low <= target  THEN Fill(target, "take_profit")
    ELSE NoFill

ResolveIntrabar(p, b) ==
    IF p.size > 0 THEN ResolveLong(b, p.stop_price, p.target_price)
    ELSE IF p.size < 0 THEN ResolveShort(b, p.stop_price, p.target_price)
    ELSE NoFill

(* Mutant: liquidation looks at the open instead of the bar's range. *)
LiquidatedAtOpen(p, b) ==
    /\ ~Spot
    /\ \/ p.size > 0 /\ b.open <= p.liquidation_price
       \/ p.size < 0 /\ b.open >= p.liquidation_price

Liquidated(p, b) ==
    /\ ~Spot
    /\ \/ p.size > 0 /\ b.low <= p.liquidation_price
       \/ p.size < 0 /\ b.high >= p.liquidation_price

ExitFill(p, b) ==
    IF Liquidated(p, b) THEN Fill(p.liquidation_price, "liquidation")
                        ELSE ResolveIntrabar(p, b)

MarginCalled(p, close) ==
    /\ FullMargin /\ Leverage > 1
    /\ p.liquidation_price > 0
    /\ \/ p.size > 0 /\ close <= p.liquidation_price
       \/ p.size < 0 /\ close >= p.liquidation_price

-----------------------------------------------------------------------------
(* The loop body of _run_loop, one action per call. *)

Init ==
    /\ pc = "next_bar"
    /\ i = 0
    /\ bar \in BarSet
    /\ state = InitialState

(* Read the next bar.  A warmup bar only feeds the strategy. *)
NextBar ==
    /\ pc = "next_bar" /\ i < NBars
    /\ i' = i + 1
    /\ bar' \in BarSet
    /\ pc' = IF i < FirstTradable THEN "next_bar" ELSE "execute_pending"
    /\ UNCHANGED state

ExecutePending ==
    /\ pc = "execute_pending"
    /\ LET exiting == state.pending_exit /\ state.position.size # 0
           s1 == IF exiting
                 THEN [Close(state, bar.open, i, "signal_exit_next_open")
                          EXCEPT !.pending_exit = FALSE]
                 ELSE state
       IN  state' = IF s1.pending_entry = NoEntry \/ s1.position.size # 0
                    THEN s1
                    ELSE Enter([s1 EXCEPT !.pending_entry = NoEntry],
                               s1.pending_entry, bar.open, i)
    /\ pc' = "check_exits"
    /\ UNCHANGED <<i, bar>>

CheckExitConditions ==
    /\ pc = "check_exits"
    /\ LET held == [state EXCEPT !.position.bars_held = @ + 1]
           fill == ExitFill(state.position, bar)
       IN  state' = IF fill = NoFill THEN held
                    ELSE Close(held, fill.price, i, fill.reason)
    /\ pc' = "margin_call"
    /\ UNCHANGED <<i, bar>>

(* The margin-call exit passes an empty date. *)
CheckMarginCall ==
    /\ pc = "margin_call"
    /\ state' = IF MarginCalled(state.position, bar.close)
                THEN Close(state, bar.close, NoDate, "margin_call")
                ELSE state
    /\ pc' = "funding"
    /\ UNCHANGED <<i, bar>>

(* Longs pay and shorts receive; state.cash is re-read from the account. *)
FundingPayment(p) ==
    IF ~EnableFunding THEN 0
    ELSE LET due == Pct(Abs(p.size) * p.entry_price, FundingPct)
         IN  IF p.size < 0 THEN -due ELSE due

ApplyFunding ==
    /\ pc = "funding"
    /\ LET payment == FundingPayment(state.position)
           balance == state.account.cash - payment
       IN  state' = IF ~FullMargin THEN state
                    ELSE [state EXCEPT !.account.cash = balance,
                                       !.total_funding = @ + payment,
                                       !.cash = balance]
    /\ pc' = "signal"
    /\ UNCHANGED <<i, bar>>

(* What _process_signal makes of a signal; None is covered by "hold". *)
QueueEntry(s, sig, close) ==
    [s EXCEPT !.pending_entry =
        [direction |-> sig.direction,
         stop_price |-> sig.stop_price, target_price |-> sig.target_price,
         position_size |-> sig.position_size,
         explicit_size |-> sig.position_size > 0,
         signal_close |-> close]]

(* Mutants: any acting signal queues an entry; entries need no flat book. *)
HandleSignalAnyDirection(s, sig, close) ==
    IF sig.action # "hold" /\ s.position.size = 0
    THEN QueueEntry(s, sig, close) ELSE s

HandleSignalPyramiding(s, sig, close) ==
    IF sig.action # "hold" /\ sig.direction \in {"long", "short"}
    THEN QueueEntry(s, sig, close) ELSE s

HandleSignal(s, sig, close) ==
    LET acts == sig.action \in {"buy", "sell"}
    IN  IF acts /\ sig.direction = "exit" /\ s.position.size # 0
        THEN [s EXCEPT !.pending_exit = TRUE]
        ELSE IF acts /\ sig.direction \in {"long", "short"}
                /\ s.position.size = 0
        THEN QueueEntry(s, sig, close)
        ELSE s

ProcessSignal ==
    /\ pc = "signal"
    /\ \E sig \in SignalSet : state' = HandleSignal(state, sig, bar.close)
    /\ pc' = "equity"
    /\ UNCHANGED <<i, bar>>

Drawdown(peak, value) == IF peak > 0 THEN peak - value ELSE 0

(* _track_equity, then sync_margin_equity. *)
TrackEquity ==
    /\ pc = "equity"
    /\ LET value == PortfolioValue(state, bar.close)
           peak  == AtLeast(value, state.peak_value)
       IN  state' = [state EXCEPT
                        !.peak_value = peak,
                        !.equity = [count |-> @.count + 1, value |-> value,
                                    drawdown |-> Drawdown(peak, value),
                                    position |-> state.position.size],
                        !.cash = IF FullMargin THEN state.account.cash ELSE @]
    /\ pc' = "next_bar"
    /\ UNCHANGED <<i, bar>>

(* Mutants: the loop state is returned as it is; the curve keeps the value *)
(* recorded before the closing fill paid its costs.                        *)
LiquidateOpenSkipped ==
    /\ pc = "next_bar" /\ i = NBars
    /\ pc' = "done"
    /\ UNCHANGED <<i, bar, state>>

LiquidateOpenKeepCurve ==
    /\ pc = "next_bar" /\ i = NBars
    /\ state' = IF state.position.size = 0 THEN state
                ELSE Close(state, bar.close, i, "end_of_backtest")
    /\ pc' = "done"
    /\ UNCHANGED <<i, bar>>

(* After the loop: close what is open at the final close and rewrite the   *)
(* last point of the equity curve.                                         *)
LiquidateOpen ==
    /\ pc = "next_bar" /\ i = NBars
    /\ LET closed == Close(state, bar.close, i, "end_of_backtest")
           value  == PortfolioValue(closed, bar.close)
           peak   == AtLeast(value, closed.peak_value)
       IN  state' =
             IF state.position.size = 0 THEN state
             ELSE IF state.equity.count = 0 THEN closed
             ELSE [closed EXCEPT
                      !.peak_value = peak,
                      !.equity = [@ EXCEPT !.value = value,
                                           !.drawdown = Drawdown(peak, value),
                                           !.position = 0]]
    /\ pc' = "done"
    /\ UNCHANGED <<i, bar>>

(* The result has been returned. *)
Done == pc = "done" /\ UNCHANGED vars

Next ==
    \/ NextBar \/ ExecutePending \/ CheckExitConditions \/ CheckMarginCall
    \/ ApplyFunding \/ ProcessSignal \/ TrackEquity \/ LiquidateOpen \/ Done

Spec == Init /\ [][Next]_vars

(* The loop runs to its end: one thread executes it without blocking. *)
FairSpec == Spec /\ WF_vars(Next)

-----------------------------------------------------------------------------
(* BacktestResultBuilder._compute_reconciliation. *)

FinalValue == IF state.equity.count = 0 THEN InitialCash ELSE state.equity.value

UnroundedReconciliation ==
    FinalValue - InitialCash - state.trades.pnl + state.total_funding

-----------------------------------------------------------------------------
(* The type invariant. *)

Positions ==
    [size : Int, direction : {"none", "long", "short"}, entry_price : Int,
     entry_date : Nat, stop_price : Int, target_price : Int,
     liquidation_price : Int, bars_held : Nat,
     entry_commission : Int, entry_slippage : Int]

Entries ==
    [direction : {"none", "long", "short"}, stop_price : Int, target_price : Int,
     position_size : Nat, explicit_size : BOOLEAN, signal_close : Nat]

ExitReasons ==
    {"none", "signal_exit_next_open", "stop_loss_gap", "take_profit_gap",
     "stop_loss", "take_profit", "liquidation", "margin_call",
     "end_of_backtest"}

Codes ==
    {"stop_distance_too_small", "insufficient_cash", "explicit_size_rejected",
     "affordability_cap", "entry_size_zero"}

States ==
    [cash : Int,
     account : [cash : Int, margin_book : Int],
     position : Positions,
     pending_entry : Entries,
     pending_exit : BOOLEAN,
     trades : [count : Nat, gross : Int, net : Int, pnl : Int],
     last_trade : [exit_date : Nat, exit_price : Int,
                   direction : {"none", "long", "short"}, duration_bars : Nat,
                   exit_reason : ExitReasons],
     equity : [count : Nat, value : Int, drawdown : Int, position : Int],
     peak_value : Int,
     total_commission : Int, total_slippage : Int,
     total_borrow_cost : Int, total_funding : Int,
     used_margin : Int,
     diagnostics : SUBSET (Codes \X Nat)]

Phases ==
    {"next_bar", "execute_pending", "check_exits", "margin_call", "funding",
     "signal", "equity", "done"}

(* Every field of the loop state keeps its type; the loop counter stays in *)
(* range.                                                                  *)
TypeOK ==
    /\ pc \in Phases
    /\ i \in 0..NBars
    /\ bar \in BarSet
    /\ state \in States

-----------------------------------------------------------------------------
(* Safety. *)

Flat(s) == s.position.size = 0

(* No money appears or vanishes.  Whatever mixture of fills, fees, borrow  *)
(* and funding the run has seen, cash plus the open position at cost is    *)
(* the initial cash plus the exact net result of the closed trades less    *)
(* the funding paid (PositionOpener.open, PositionCloser.close,            *)
(* MarginAccountManager.apply_funding and sync_state_equity).              *)
Ledger(s) ==
    s.cash + s.position.size * s.position.entry_price
           + s.position.entry_commission
        = InitialCash + s.trades.net - s.total_funding

CashLedger == Ledger(state)

(* Every commission and borrow fee the totals report is charged to exactly *)
(* one trade, or is the entry commission of the open position.             *)
Costs(s) ==
    s.trades.gross - s.trades.net
        = s.total_commission - s.position.entry_commission
            + s.total_borrow_cost

CostLedger == Costs(state)

(* Both: cash and costs balance at every phase of every bar.               *)
MoneyAccounted == CashLedger /\ CostLedger

(* In full-margin mode the margin account is a mirror: at every call       *)
(* boundary it holds the cash the simulation state holds, so the per-bar   *)
(* sync never moves money.                                                 *)
Mirror(s) == FullMargin => s.account.cash = s.cash

AccountMirror == Mirror(state)

(* The margin booked is the margin of the open position and nothing stays  *)
(* locked after an exit.  (used_margin is only released with leverage.)    *)
MarginBooked(s) ==
    /\ s.account.margin_book
          = IF FullMargin /\ s.position.size > 0
            THEN MarginRequired(s.position.size * s.position.entry_price)
            ELSE 0
    /\ ~Spot => s.used_margin =
          MarginRequired(Abs(s.position.size) * s.position.entry_price)

MarginFollowsPosition == MarginBooked(state)

(* Both: the margin account has the cash of the run and the margin of the  *)
(* open position, and nothing else.                                        *)
MarginAccounted == AccountMirror /\ MarginFollowsPosition

(* A deferred order lives from the signal to the next bar's open.  It is   *)
(* gone once the open has been handled, a pending exit always has its      *)
(* position and a pending entry is never held beside one.                  *)
OrdersLiveOneBar ==
    /\ pc \in {"check_exits", "margin_call", "funding", "signal"} =>
          state.pending_entry = NoEntry /\ ~state.pending_exit
    /\ pc # "done" =>
          /\ state.pending_exit => ~Flat(state)
          /\ state.pending_entry # NoEntry => Flat(state)

(* An open position's stop is on its losing side of the fill and inside    *)
(* the liquidation boundary, after slippage and after rebasing.            *)
Protected(p) ==
    p.size # 0 /\ p.stop_price > 0 =>
        /\ IF p.size > 0 THEN p.stop_price < p.entry_price
                         ELSE p.stop_price > p.entry_price
        /\ ~Spot => IF p.size > 0 THEN p.stop_price > p.liquidation_price
                                  ELSE p.stop_price < p.liquidation_price

StopProtects == Protected(state.position)

(* The margin call, which would record an empty exit date and drop the     *)
(* borrow fee, never fires: the bar's liquidation check ran before it on a *)
(* range that contains the close.  Every trade is dated with its bar.      *)
TradesDated ==
    /\ state.last_trade.exit_reason # "margin_call"
    /\ state.trades.count > 0 => state.last_trade.exit_date \in 1..i

(* The result ends flat, and what it reports adds up: the final equity     *)
(* differs from initial cash plus reported trade results less funding by   *)
(* no more than half a cent per trade, the rounding of TradeRecord.        *)
Reconciles ==
    pc = "done" =>
        /\ Flat(state)
        /\ state.equity.count > 0 => FinalValue = state.cash
        /\ 2 * Abs(UnroundedReconciliation)
              <= TicksPerCent * state.trades.count

-----------------------------------------------------------------------------
(* Action properties. *)

Opened == Flat(state) /\ ~Flat(state')
TradeClosed == state'.trades.count > state.trades.count

(* An entry commits no more than the buying power there was, commission    *)
(* included, unless the configuration lets explicit sizes or overdrafts    *)
(* through.                                                                *)
WithinBuyingPower ==
    [][ Opened /\ CapExplicit /\ ~AllowNegativeCash =>
          LET p == state'.position
          IN  Abs(p.size) * p.entry_price + p.entry_commission
                  <= state.cash * Leverage ]_vars

(* Without leverage every exit is priced where the bar traded: the fill    *)
(* before slippage lies between the bar's low and high, gaps included.     *)
ExitWithinBar ==
    [][ TradeClosed /\ Spot =>
          LET t == state'.last_trade
          IN  /\ ApplySlippage(bar.low, t.direction, "exit") <= t.exit_price
              /\ t.exit_price <= ApplySlippage(bar.high, t.direction, "exit")
      ]_vars

(* An explicit order is filled at the size the strategy asked for, or is   *)
(* cut with an affordability_cap diagnostic on its bar; a configuration    *)
(* that rejects oversized orders never fills a part of one.                *)
ExplicitSizeHonoured ==
    [][ Opened /\ state.pending_entry.explicit_size =>
          \/ Abs(state'.position.size) = state.pending_entry.position_size
          \/ /\ CapExplicit /\ ~RejectOversized
             /\ <<"affordability_cap", i>> \in state'.diagnostics ]_vars

(* Both: every fill is affordable, and none is silently smaller than the   *)
(* order it fills (MaxAffordableSize, PositionSizer, PositionOpener).      *)
OrdersWithinMeans == WithinBuyingPower /\ ExplicitSizeHonoured

-----------------------------------------------------------------------------
(* Liveness. *)

(* A position that is opened is closed and reported, at the latest by the  *)
(* liquidation after the loop.                                             *)
PositionsClose == ~Flat(state) ~> (Flat(state) /\ state.trades.count > 0)

=============================================================================
