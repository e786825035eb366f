--------------------------- MODULE MCPaperExecution ----------------------------
(***************************************************************************)
(* Instances of PaperExecution for TLC.                                    *)
(***************************************************************************)
EXTENDS PaperExecution

MCWants == {{}, {"buy"}, {"sell"}}

(* The market moves by more than the spread and the slippage. *)
MCQuotes == {[bid |-> 9, ask |-> 10], [bid |-> 15, ask |-> 16]}

MCOneQuote == {[bid |-> 9, ask |-> 10]}

MCLimits == [s \in Symbols |-> TradeQty]

MCNoLimits == [s \in {} |-> TradeQty]

===============================================================================
