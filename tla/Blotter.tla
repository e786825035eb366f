-------------------------------- MODULE Blotter --------------------------------
(***************************************************************************)
(* The arithmetic of paper fills: src/engine/fillmath and the position     *)
(* updates of src/engine/execution/blotter.                                *)
(*                                                                         *)
(* Money is counted in units so small that the code's exact decimals are   *)
(* integers: a quoted price is a number of ticks, and a fill price or an   *)
(* amount a number of ticks / BasisPoints^2. BasisPoints is 10000 in the   *)
(* code; a smaller one keeps the numbers of a TLC run small.               *)
(***************************************************************************)
EXTENDS Integers

CONSTANTS
  BasisPoints,   \* basis points in a unit (ten4)
  SlippageBps,   \* stratCfg.SlippageBps
  TakerFeeBps    \* stratCfg.TakerFeeBps

ASSUME BasisPointsAssumption == BasisPoints \in Nat \ {0}
ASSUME SlippageAssumption == SlippageBps \in 0 .. BasisPoints
ASSUME FeeAssumption == TakerFeeBps \in Nat

Sides == {"buy", "sell"}

(* What a trade of qty adds to a net position. *)
Signed(side, qty) == IF side = "buy" THEN qty ELSE -qty

Magnitude(n) == IF n < 0 THEN -n ELSE n

(* ComputeFillPrice on the side of the quote that a taker crosses. *)
FillPrice(side, quote) ==
  BasisPoints * (IF side = "buy" THEN quote.ask * (BasisPoints + SlippageBps)
                                 ELSE quote.bid * (BasisPoints - SlippageBps))

(* ComputeFee; fill prices are multiples of BasisPoints. *)
Fee(qty, price) == (qty * price * TakerFeeBps) \div BasisPoints

(* No position; the code also keeps rows of net quantity zero. *)
FlatPosition == [net |-> 0, avg |-> 0]

(* A fill that extends the position, or opens one. *)
Extends(pos, fill) == IF fill.side = "buy" THEN pos.net >= 0 ELSE pos.net <= 0

(* openOrExtendLong, openOrExtendShort: average entry weighted by size     *)
(* (rounded to 16 digits in the code when a position is extended).         *)
Extend(pos, fill) ==
  [net |-> pos.net + Signed(fill.side, fill.qty),
   avg |-> IF pos.net = 0 THEN fill.price
           ELSE (Magnitude(pos.net) * pos.avg + fill.qty * fill.price)
                  \div (Magnitude(pos.net) + fill.qty)]

(* closeLong, closeShort: the average entry is kept while the position     *)
(* keeps its direction.                                                    *)
Reduce(pos, fill) ==
  LET left == pos.net + Signed(fill.side, fill.qty)
  IN  [net |-> left, avg |-> IF pos.net * left > 0 THEN pos.avg ELSE 0]

(* applyFill, the position. *)
ApplyFill(pos, fill) == IF Extends(pos, fill) THEN Extend(pos, fill) ELSE Reduce(pos, fill)

(* Both directions are paid as if they were long. *)
BugRealisedPnL(pos, fill) ==
  IF Extends(pos, fill) THEN 0 ELSE (fill.price - pos.avg) * fill.qty

(* applyFill, the realised profit or loss before fees. *)
RealisedPnL(pos, fill) ==
  IF Extends(pos, fill) THEN 0
  ELSE IF fill.side = "sell" THEN (fill.price - pos.avg) * fill.qty
  ELSE (pos.avg - fill.price) * fill.qty

(* Undoing adds the fill once more. *)
BugUndoFill(pos, fill) == [pos EXCEPT !.net = pos.net + Signed(fill.side, fill.qty)]

(* undoFill, on the position that applyFill left: the quantity is put      *)
(* back, the average entry stays what it became.                           *)
UndoFill(pos, fill) == [pos EXCEPT !.net = pos.net - Signed(fill.side, fill.qty)]

===============================================================================
