--------------------------- MODULE TradingLedger ---------------------------
(***************************************************************************)
(* What the trading pipeline promises about the portfolio: every fill      *)
(* behaves as if the guards had been evaluated against the portfolio at    *)
(* the very moment the fill was recorded.  There is no snapshot, no await  *)
(* and no broker here: the position guard, the cool-down guard and the     *)
(* portfolio update are one atomic step.                                   *)
(*                                                                         *)
(* TradingPipeline implements this specification when every symbol is fed  *)
(* by one publisher (TradingPipelineProofs, theorem ImplementsLedger).     *)
(***************************************************************************)
EXTENDS Integers

CONSTANTS
  Symbols,    \* traded symbols
  MaxShares,  \* MaxPositionSizeGuard.max_shares
  MaxQty,     \* the largest quantity the sizer returns
  Cooldown    \* CoolDownGuard.cooldown_seconds

VARIABLES
  clock,      \* wall clock, datetime.now(timezone.utc)
  pos,        \* Portfolio._positions
  lastTrade   \* Portfolio._last_trade_at

vars == <<clock, pos, lastTrade>>

Never == -1   \* no last_trade_at entry for the symbol

\* Faulty variant: a SELL larger than the holding goes short.
AfterFillUnclamped(held, action, qty) == IF action = "BUY" THEN held + qty ELSE held - qty

\* Long-only: a SELL larger than the holding clamps to 0.
AfterFill(held, action, qty) ==
  CASE action = "BUY"  -> held + qty
    [] action = "SELL" -> IF held > qty THEN held - qty ELSE 0

Init ==
  /\ clock = 0
  /\ pos = [s \in Symbols |-> 0]
  /\ lastTrade = [s \in Symbols |-> Never]

TimePasses ==
  /\ clock' = clock + 1
  /\ UNCHANGED <<pos, lastTrade>>

\* A fill decided at time ts <= clock, recorded now.
Fill(s, action, qty, ts) ==
  /\ ts <= clock
  /\ action = "BUY" => pos[s] < MaxShares
  /\ lastTrade[s] = Never \/ ts - lastTrade[s] >= Cooldown
  /\ pos' = [pos EXCEPT ![s] = AfterFill(@, action, qty)]
  /\ lastTrade' = [lastTrade EXCEPT ![s] = ts]
  /\ UNCHANGED clock

Next ==
  \/ TimePasses
  \/ \E s \in Symbols, action \in {"BUY", "SELL"}, qty \in 1..MaxQty, ts \in 0..clock :
       Fill(s, action, qty, ts)

Spec == Init /\ [][Next]_vars
=============================================================================
