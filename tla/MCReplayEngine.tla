---------------------------- MODULE MCReplayEngine ----------------------------
(***************************************************************************)
(* Instances of ReplayEngine for TLC: a market of two prices in which      *)
(* every update leaves one level with a quantity never seen before, or     *)
(* removes it.                                                             *)
(***************************************************************************)
EXTENDS ReplayEngine

MCPrices == 1 .. 2

(* The level each update touches, and the quantity it leaves there. *)
MCChange == <<<<1, 1>>, <<2, 2>>, <<1, 3>>, <<2, 0>>, <<1, 0>>, <<2, 6>>>>

MCMarket ==
  [u \in 1 .. MaxId |->
     [p \in MCPrices |->
        LET touching == {v \in 1 .. u : MCChange[v][1] = p}
        IN  IF touching = {} THEN 0
            ELSE LET last == CHOOSE v \in touching : \A w \in touching : w <= v
                 IN  MCChange[last][2]]]

(* Captured before the exchange's clock says it happened, at once, or      *)
(* after the next update.                                                  *)
MCDelays == {-1, 0, 2}

===============================================================================
