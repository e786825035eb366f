----------------------------- MODULE MCBacktestRun -----------------------------
(***************************************************************************)
(* Instances of BacktestRun for TLC.                                       *)
(***************************************************************************)
EXTENDS BacktestRun

(* A cheap book and a dear one to buy, one to sell, and one that asks for  *)
(* a purchase and has nobody to buy from.                                  *)
MCEntries ==
  {[wants |-> "buy", bid |-> 1, ask |-> 2],
   [wants |-> "buy", bid |-> 3, ask |-> 4],
   [wants |-> "sell", bid |-> 2, ask |-> 3],
   [wants |-> "buy", bid |-> 4, ask |-> 0]}

(* One symbol has more to say than the other. *)
CONSTANTS btc, eth

MCMaxEntries == [s \in Symbols |-> IF s = btc THEN 3 ELSE 1]

NoLimits == [s \in {} |-> 0]

===============================================================================
