-------------------------------- MODULE L2Feed --------------------------------
(***************************************************************************)
(* What the ingest service promises the readers of its live L2 stream: a   *)
(* sequence of book snapshots whose update ids only grow and whose levels  *)
(* are those of the exchange's book at that id, all of them when the depth *)
(* limit truncates nothing. How the service keeps that promise across      *)
(* gaps, resyncs, late and failed snapshot fetches is not visible here.    *)
(* SymbolHandler implements this specification.                            *)
(***************************************************************************)
EXTENDS OrderBook, Sequences

VARIABLE feed   \* the entries of the stream, oldest first

(* The update id of the newest entry; 0 before the first. *)
NewestId(f) == IF f = << >> THEN 0 ELSE f[Len(f)].id

(* The entry of update u that shows the market's levels at these prices. *)
Entry(u, shown) ==
  [id |-> u, levels |-> [p \in Prices |-> IF p \in shown THEN Market[u][p] ELSE 0]]

Init == feed = << >>

(* One more entry, of a later update than every entry before it. *)
Publish ==
  \E u \in UpdateIds, shown \in SUBSET Prices :
    /\ u > NewestId(feed)
    /\ Cardinality(Prices) <= DepthLimit => shown = Prices
    /\ feed' = Append(feed, Entry(u, shown))

Next == Publish

Spec == Init /\ [][Next]_feed

===============================================================================
