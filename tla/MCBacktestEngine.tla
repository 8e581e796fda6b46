-------------------------- MODULE MCBacktestEngine --------------------------
(***************************************************************************)
(* Small markets and strategies for BacktestEngine.  The bars contain a    *)
(* quiet bar, a wide bar that touches stop and target alike, and gaps      *)
(* through every level in both directions; the signals contain orders with *)
(* and without a stop, explicit sizes above buying power, and stops the    *)
(* next open has already passed.                                           *)
(***************************************************************************)
EXTENDS BacktestEngine

MCBar(o, h, l, c) == [open |-> o, high |-> h, low |-> l, close |-> c]

MCSignal(a, d, stop, target, size) ==
    [action |-> a, direction |-> d, stop_price |-> stop,
     target_price |-> target, position_size |-> size]

MCBars ==
    {MCBar(1003, 1040, 960, 1010),      \* quiet
     MCBar(1000, 1207, 887, 1200),      \* stop and target in one bar
     MCBar(770, 800, 700, 733),         \* gap down
     MCBar(1301, 1400, 1290, 1350)}     \* gap up

MCHold == MCSignal("hold", "flat", 0, 0, 0)
MCExit == MCSignal("sell", "exit", 0, 0, 0)

(* Risk-sized, explicit and oversized orders, and a stop within            *)
(* MinStopDistance of the open.                                            *)
MCPolicySignals ==
    {MCHold, MCExit,
     MCSignal("buy", "long", 905, 1150, 0),     \* risk sized
     MCSignal("buy", "long", 1001, 0, 0),       \* stop too near
     MCSignal("buy", "long", 0, 0, 5),          \* explicit, fits
     MCSignal("buy", "long", 600, 0, 12),       \* just above the cap
     MCSignal("sell", "short", 1300, 0, 4)}

MCMixedSignals ==
    {MCHold, MCExit,
     MCSignal("buy", "long", 905, 1150, 0),
     MCSignal("sell", "short", 1105, 790, 50),  \* explicit, oversized
     MCSignal("sell", "short", 0, 0, 0)}        \* default size
=============================================================================
