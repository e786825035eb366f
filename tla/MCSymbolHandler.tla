---------------------------- MODULE MCSymbolHandler ----------------------------
(***************************************************************************)
(* Instances of SymbolHandler for TLC: a market of three prices in which   *)
(* every update changes one level to a quantity never seen before, or      *)
(* removes it, so that a lost, repeated or misplaced change of a level     *)
(* shows in the book.                                                      *)
(***************************************************************************)
EXTENDS SymbolHandler

MCPrices == 1 .. 3

(* The level each update touches, and the quantity it leaves there. *)
MCChange ==
  <<<<2, 1>>, <<3, 2>>, <<1, 3>>, <<3, 4>>, <<1, 0>>, <<2, 6>>, <<3, 0>>, <<1, 8>>>>

MCMarket ==
  [u \in 1 .. MaxId |->
     [p \in MCPrices |->
        LET touching == {v \in 1 .. u : MCChange[v][1] = p}
        IN  IF touching = {} THEN 0
            ELSE LET last == CHOOSE v \in touching : \A w \in touching : w <= v
                 IN  MCChange[last][2]]]

===============================================================================
