------------------------------- MODULE OrderBook -------------------------------
(***************************************************************************)
(* One side of the exchange's order book for one symbol, the diff events   *)
(* Binance sends about it, and the local copy kept by src/engine/book.     *)
(* Bids and asks are two maps handled by the same code (applyLevel,        *)
(* sortedLevels), so one side stands for both: a smaller price is a better *)
(* price, as on the ask side.                                              *)
(*                                                                         *)
(* Quantities are abstracted to numbers, 0 being "no such level": a level  *)
(* of quantity zero is absent from the code's map (applyLevel deletes it,  *)
(* LoadSnapshot skips it).                                                 *)
(***************************************************************************)
EXTENDS Integers, FiniteSets

CONSTANTS
  MaxId,       \* bound: the last update id the exchange reaches
  Prices,      \* the price grid
  Market,      \* Market[u][p]: quantity at price p after update u at the exchange
  DepthLimit   \* cfg.DepthLimit: levels per side of a snapshot

UpdateIds == 1 .. MaxId

Levels == [Prices -> Nat]

(* A book, a REST snapshot, a checkpoint and a published L2 entry are all  *)
(* a set of levels stamped with the update id they belong to.              *)
Snapshots == [id : 0 .. MaxId, levels : Levels]

Events == {ev \in [first : UpdateIds, final : UpdateIds] : ev.first <= ev.final}

ASSUME MaxIdAssumption == MaxId \in Nat \ {0}
ASSUME PricesAssumption == Prices \subseteq Nat /\ IsFiniteSet(Prices)
ASSUME MarketAssumption == Market \in [UpdateIds -> Levels]
ASSUME DepthAssumption == DepthLimit \in Nat \ {0}

NoLevels == [p \in Prices |-> 0]

(* book.New and Book.Reset: no level, lastUpdateID = 0. *)
EmptyBook == [id |-> 0, levels |-> NoLevels]

(* The prices a diff event lists: everything that changed in its range of  *)
(* update ids (the first event of the stream may list anything).           *)
Touched(ev) ==
  {p \in Prices : \E u \in ev.first .. ev.final :
                     u = 1 \/ Market[u][p] # Market[u - 1][p]}

(* Definitions whose name starts with Bug are plausible faults of the code *)
(* that the mutants of PROJECT.json put in the place of the definition     *)
(* after them; no specification uses them.                                 *)

(* A level of quantity zero is skipped instead of deleted. *)
BugApply(bk, ev) ==
  [id     |-> ev.final,
   levels |-> [p \in Prices |-> IF p \in Touched(ev) /\ Market[ev.final][p] # 0
                                THEN Market[ev.final][p]
                                ELSE bk.levels[p]]]

(* Book.Apply: each listed level takes the absolute quantity in the event, *)
(* and a listed level of quantity zero disappears.                         *)
Apply(bk, ev) ==
  [id     |-> ev.final,
   levels |-> [p \in Prices |-> IF p \in Touched(ev) THEN Market[ev.final][p]
                                                     ELSE bk.levels[p]]]

(* The levels of lv better than p. *)
Better(lv, p) == {q \in Prices : q < p /\ lv[q] # 0}

(* sortedLevels: the DepthLimit best levels present. *)
TopLevels(lv) ==
  [p \in Prices |-> IF Cardinality(Better(lv, p)) < DepthLimit THEN lv[p] ELSE 0]

(* Book.Snapshot(depth), also what the REST endpoint computes from the     *)
(* exchange's own book.                                                    *)
Snapshot(bk) == [id |-> bk.id, levels |-> TopLevels(bk.levels)]

(* The answer of GET /api/v3/depth?limit=DepthLimit computed at update u. *)
RestSnapshot(u) == [id |-> u, levels |-> TopLevels(Market[u])]

-------------------------------------------------------------------------------
(* A book that shows no quantity the market did not have at the book's     *)
(* update id. Levels may be missing: a truncated snapshot does not list    *)
(* the deep ones.                                                          *)
Sound(bk) ==
  /\ bk.id \in UpdateIds
  /\ \A p \in Prices : bk.levels[p] \in {0, Market[bk.id][p]}

(* A book equal to the market's. *)
Exact(bk) == bk.id \in UpdateIds /\ bk.levels = Market[bk.id]

(* Sound, and exact when the depth limit truncates nothing. *)
Tracks(bk) == Sound(bk) /\ (Cardinality(Prices) <= DepthLimit => Exact(bk))

===============================================================================
