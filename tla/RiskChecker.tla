------------------------------ MODULE RiskChecker ------------------------------
(***************************************************************************)
(* The pre-trade checks of src/engine/risk/checker.go as operators on the  *)
(* checker's state, a record. The calls to the halt store and to the risk  *)
(* event stream are made by the module that holds the state; risk events   *)
(* are observability only and are left out.                                *)
(***************************************************************************)
EXTENDS Blotter

CONSTANTS
  Symbols,          \* the traded symbols
  InitialCapital,   \* cfg.InitialCapital
  MaxDrawdownPct,   \* cfg.MaxDrawdownPct, 0 = disabled
  RunLossLimitPct,  \* cfg.RunLossLimitPct, 0 = disabled
  MaxPositionQty    \* cfg.MaxPositionQty: limits of some of the symbols

ASSUME CapitalAssumption == InitialCapital \in Nat
ASSUME DrawdownAssumption == MaxDrawdownPct \in 0 .. 100
ASSUME RunLossAssumption == RunLossLimitPct \in 0 .. 100
ASSUME LimitAssumption == /\ DOMAIN MaxPositionQty \subseteq Symbols
                          /\ \A s \in DOMAIN MaxPositionQty : MaxPositionQty[s] \in Nat

(* New, NewWithLogger. *)
NewChecker ==
  [positions |-> [s \in Symbols |-> 0],
   equity    |-> InitialCapital,
   peak      |-> InitialCapital,
   halted    |-> FALSE,
   probed    |-> FALSE]

(* The answer is not kept. *)
BugProbe(r, answer) == [r EXCEPT !.probed = TRUE]

(* probePersistedHalt: the halt store is asked once, on the first check;   *)
(* answer is what it says, FALSE when asking fails.                        *)
Probe(r, answer) ==
  IF r.halted \/ r.probed THEN r ELSE [r EXCEPT !.probed = TRUE, !.halted = answer]

DrawdownBreached(r) ==
  MaxDrawdownPct > 0 /\ r.equity * 100 < r.peak * (100 - MaxDrawdownPct)

RunLossBreached(r) ==
  RunLossLimitPct > 0 /\ r.equity * 100 < InitialCapital * (100 - RunLossLimitPct)

PositionLimitBreached(r, symbol, side, qty) ==
  /\ symbol \in DOMAIN MaxPositionQty
  /\ Magnitude(r.positions[symbol] + Signed(side, qty)) > MaxPositionQty[symbol]

(* A breached global rule is reported, and the order goes on.              *)
BugVerdict(r, symbol, side, qty) ==
  IF r.halted THEN "halted"
  ELSE IF PositionLimitBreached(r, symbol, side, qty) THEN "limit"
  ELSE "ok"

(* CanTrade after the probe: "halted" before, "trip" when a global rule    *)
(* halts the checker now, "limit" when only this order is refused.         *)
Verdict(r, symbol, side, qty) ==
  IF r.halted THEN "halted"
  ELSE IF DrawdownBreached(r) \/ RunLossBreached(r) THEN "trip"
  ELSE IF PositionLimitBreached(r, symbol, side, qty) THEN "limit"
  ELSE "ok"

(* RecordFill: the position, the cash flow of the trade and its peak.      *)
RiskRecordFill(r, symbol, side, qty, price, fee) ==
  LET equity == r.equity - Signed(side, qty * price) - fee
  IN  [r EXCEPT !.positions[symbol] = r.positions[symbol] + Signed(side, qty),
                !.equity = equity,
                !.peak = IF equity > r.peak THEN equity ELSE r.peak]

===============================================================================
