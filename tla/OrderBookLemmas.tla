---------------------------- MODULE OrderBookLemmas ----------------------------
(***************************************************************************)
(* Facts about the operators of OrderBook, for every market, price grid    *)
(* and depth limit.                                                        *)
(***************************************************************************)
EXTENDS OrderBook, NatLemmas

(* A price no update of an event touched has one quantity from the update  *)
(* before the event to its last one: what a diff does not list is          *)
(* unchanged (Binance's contract, on which Book.Apply relies).             *)
LEMMA UntouchedStays ==
  ASSUME NEW ev \in Events, NEW p \in Prices, p \notin Touched(ev),
         NEW u \in UpdateIds, ev.first <= u + 1, u <= ev.final
  PROVE  Market[u][p] = Market[ev.final][p]
<1> USE MaxIdAssumption, MarketAssumption
<1> DEFINE S == {k \in Nat : /\ u <= ev.final - k
                             /\ Market[ev.final - k][p] # Market[ev.final][p]}
<1>1. ev.first \in UpdateIds /\ ev.final \in UpdateIds /\ u \in Int
  BY DEF Events, UpdateIds
<1>2. \A v \in ev.first .. ev.final : v # 1 /\ Market[v][p] = Market[v - 1][p]
  BY DEF Touched
<1>3. S = {}
  <2> SUFFICES ASSUME S # {}
               PROVE  FALSE
    OBVIOUS
  <2>1. PICK m \in S : \A k \in S : m <= k
    <3> HIDE DEF S
    <3>1. S \in SUBSET Nat
      BY DEF S
    <3> QED BY <3>1, LeastElement
  <2>2. m # 0
    BY <1>1, <2>1 DEF UpdateIds
  <2>3. m - 1 \in Nat /\ m - 1 \notin S
    BY <2>1, <2>2
  <2> DEFINE back == ev.final - (m - 1)
  <2>8. m \in Nat /\ u <= ev.final - m /\ ev.final \in Int /\ ev.first \in Int
    BY <1>1, <2>1 DEF UpdateIds
  <2>9. u <= back /\ back <= ev.final /\ back >= ev.first
    <3> HIDE DEF S
    <3> QED BY <1>1, <2>2, <2>8
  <2>4. Market[ev.final - (m - 1)][p] = Market[ev.final][p]
    BY <2>3, <2>9
  <2>5. ev.final - (m - 1) \in ev.first .. ev.final
    <3> HIDE DEF S
    <3> QED BY <2>2, <2>8, <2>9
  <2>6. Market[ev.final - (m - 1)][p] = Market[(ev.final - (m - 1)) - 1][p]
    BY <1>2, <2>5
  <2>7. (ev.final - (m - 1)) - 1 = ev.final - m
    <3>1. m \in Int /\ ev.final \in Int
      BY <1>1, <2>1 DEF UpdateIds
    <3> HIDE DEF S
    <3> QED BY <3>1
  <2> QED BY <2>1, <2>4, <2>6, <2>7
<1>4. ev.final - u \in Nat /\ ev.final - (ev.final - u) = u
  BY <1>1 DEF UpdateIds
<1> QED BY <1>1, <1>3, <1>4

(* Applying an event yields a book. *)
LEMMA ApplyType ==
  ASSUME NEW bk \in Snapshots, NEW ev \in Events
  PROVE  Apply(bk, ev) \in Snapshots
BY MaxIdAssumption, MarketAssumption DEF Apply, Snapshots, Events, UpdateIds, Levels

(* So does truncating one to its best levels. *)
LEMMA SnapshotType ==
  ASSUME NEW bk \in Snapshots
  PROVE  Snapshot(bk) \in Snapshots
BY DEF Snapshot, TopLevels, Snapshots, Levels

LEMMA RestSnapshotType ==
  ASSUME NEW u \in UpdateIds
  PROVE  RestSnapshot(u) \in Snapshots
BY MaxIdAssumption, MarketAssumption DEF RestSnapshot, TopLevels, Snapshots, Levels, UpdateIds

(* When the grid has no more prices than the depth limit, truncation       *)
(* keeps everything.                                                       *)
LEMMA TopLevelsKeepAll ==
  ASSUME NEW lv \in Levels, Cardinality(Prices) <= DepthLimit
  PROVE  TopLevels(lv) = lv
<1>1. ASSUME NEW p \in Prices
      PROVE  Cardinality(Better(lv, p)) < DepthLimit
  <2>1. Better(lv, p) \in SUBSET Prices /\ p \notin Better(lv, p)
    BY PricesAssumption DEF Better
  <2>2. /\ Cardinality(Better(lv, p)) <= Cardinality(Prices)
        /\ Cardinality(Better(lv, p)) # Cardinality(Prices)
        /\ IsFiniteSet(Better(lv, p))
    BY <2>1, PricesAssumption, FS_Subset
  <2>3. Cardinality(Better(lv, p)) \in Nat /\ Cardinality(Prices) \in Nat
    BY <2>2, PricesAssumption, FS_CardinalityType
  <2> QED BY <2>2, <2>3, DepthAssumption
<1>2. TopLevels(lv) = [p \in Prices |-> lv[p]]
  BY <1>1 DEF TopLevels
<1> QED BY <1>2 DEF Levels

(* Truncation never invents a level. *)
LEMMA SnapshotTracks ==
  ASSUME NEW bk \in Snapshots, Tracks(bk)
  PROVE  Tracks(Snapshot(bk))
<1>1. Sound(Snapshot(bk))
  BY DEF Tracks, Sound, Snapshot, TopLevels, Snapshots, Levels
<1>2. Cardinality(Prices) <= DepthLimit => Exact(Snapshot(bk))
  BY TopLevelsKeepAll DEF Tracks, Exact, Snapshot, Snapshots
<1> QED BY <1>1, <1>2 DEF Tracks

LEMMA RestSnapshotTracks ==
  ASSUME NEW u \in UpdateIds
  PROVE  Tracks(RestSnapshot(u))
<1>1. Market[u] \in Levels
  BY MarketAssumption
<1>2. Sound(RestSnapshot(u))
  BY <1>1 DEF Sound, RestSnapshot, TopLevels, Levels
<1>3. Cardinality(Prices) <= DepthLimit => Exact(RestSnapshot(u))
  BY <1>1, TopLevelsKeepAll DEF Exact, RestSnapshot
<1> QED BY <1>2, <1>3 DEF Tracks

(* An event that continues a true book, or overlaps its id, leaves a true  *)
(* book.                                                                   *)
LEMMA ApplyTracks ==
  ASSUME NEW bk \in Snapshots, Tracks(bk), NEW ev \in Events,
         ev.first <= bk.id + 1, bk.id < ev.final
  PROVE  Tracks(Apply(bk, ev))
<1>1. bk.id \in UpdateIds /\ ev.final \in UpdateIds /\ bk.id <= ev.final
  BY MaxIdAssumption DEF Tracks, Sound, Events, UpdateIds
<1>2. \A p \in Prices : p \notin Touched(ev) => Market[bk.id][p] = Market[ev.final][p]
  BY <1>1, UntouchedStays
<1>3. Sound(Apply(bk, ev))
  BY <1>1, <1>2 DEF Tracks, Sound, Apply
<1>4. ASSUME Cardinality(Prices) <= DepthLimit
      PROVE  Exact(Apply(bk, ev))
  <2>1. bk.levels = Market[bk.id]
    BY <1>4 DEF Tracks, Exact
  <2>2. [p \in Prices |-> IF p \in Touched(ev) THEN Market[ev.final][p] ELSE bk.levels[p]]
          = [p \in Prices |-> Market[ev.final][p]]
    BY <1>2, <2>1
  <2>3. Market[ev.final] = [p \in Prices |-> Market[ev.final][p]]
    BY <1>1, MarketAssumption DEF Levels
  <2> QED BY <1>1, <2>2, <2>3 DEF Exact, Apply
<1> QED BY <1>3, <1>4 DEF Tracks

===============================================================================
