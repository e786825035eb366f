--------------------------- MODULE BacktestRunProofs ---------------------------
(***************************************************************************)
(* What TLAPS proves of BacktestRun, for every set of symbols, number of   *)
(* entries, set of faults and risk limits: that nothing is lost at the end *)
(* of a run, that the status it ends with is true, that the executors, the *)
(* risk checker and the collector agree on what is held and on the cash,   *)
(* that a limit on losses is overshot by one fill for each symbol at most, *)
(* and that the metrics add up to what the run has earned.                 *)
(***************************************************************************)
EXTENDS BacktestRun, NatLemmas

(* Types of what the stages hand to each other. *)
HandoverInv ==
  /\ faults \in Nat
  /\ pc \in BeforeStop \cup {"executor", "collector", "report", "metrics", "mark", "ended"}
  /\ engine \in [Symbols -> {"off", "running", "done", "failed"}]
  /\ reader \in [Symbols -> {"off", "running", "stopped"}]
  /\ colReader \in {"off", "running", "stopped"}
  /\ l2 \in [Symbols -> Nat] /\ read \in [Symbols -> Nat]
  /\ fill \in [Symbols -> Fills \cup {None}]
  /\ orders \in Seq(Orders) /\ trades \in Seq(Orders)
  /\ collected \in 0 .. Len(orders)

AllOff ==
  /\ engine = [s \in Symbols |-> "off"]
  /\ reader = [s \in Symbols |-> "off"]
  /\ colReader = "off"

AllStopped == EnginesEnded /\ ExecutorsStopped /\ CollectorStopped

(* How far the stages are, by the point the runner has reached: each stops *)
(* only when the one before it is over.                                    *)
StageInv ==
  /\ pc \in {"create", "start", "announce"} => AllOff
  /\ pc \in {"replay", "executor", "collector", "report", "metrics", "mark"} =>
       (\A s \in Symbols : engine[s] # "off" /\ reader[s] # "off") /\ colReader # "off"
  /\ pc \in {"executor", "collector", "report", "metrics", "mark"} => EnginesEnded
  /\ pc \in {"collector", "report", "metrics", "mark"} => ExecutorsStopped
  /\ pc \in {"report", "metrics", "mark"} => CollectorStopped
  /\ pc = "ended" => AllOff \/ AllStopped
  /\ \A s \in Symbols : reader[s] = "stopped" => EnginesEnded
  /\ \A s \in Symbols : reader[s] # "running" => fill[s] = None
  /\ colReader = "stopped" => ExecutorsStopped

(* What has stopped without a fault has handled everything.                *)
DrainInv ==
  faults = 0 =>
    /\ \A s \in Symbols : reader[s] = "stopped" => read[s] = l2[s]
    /\ colReader = "stopped" => collected = Len(orders)
    /\ Len(trades) = collected
    /\ \A i \in 1 .. collected : trades[i] = orders[i]

(* What the runner has made of the end of its stages is true and stays so. *)
StatusInv ==
  /\ outcome \in Terminal \cup {"none"}
  /\ pc \in BeforeStop \cup {"executor", "collector"} => outcome = "none"
  /\ pc \in {"report", "metrics", "mark"} => outcome # "none"
  /\ outcome # "none" => EnginesEnded
  /\ outcome = "COMPLETED" => \A s \in Symbols : engine[s] = "done"
  /\ outcome = "FAILED" => \E s \in Symbols : engine[s] = "failed"
  /\ outcome = "CANCELLED" => cancelled
  /\ status \in Terminal => status = outcome /\ pc = "ended"
  /\ pc = "metrics" => outcome = "COMPLETED"
  /\ pc = "ended" /\ faults = 0 /\ status \notin Terminal => cancelled /\ AllOff
  /\ \A i \in DOMAIN control : control[i] = "REPLAY_COMPLETE" => outcome = "COMPLETED"

-------------------------------------------------------------------------------
(* Prices, fees and faults.                                                *)

LEMMA OrderType ==
  ASSUME NEW s \in Symbols, NEW side \in Sides, NEW entry \in Entries
  PROVE  NewOrder(s, side, entry) \in Orders
<1>1. entry.bid \in Nat /\ entry.ask \in Nat
  BY EntriesAssumption
<1>2. BasisPoints + SlippageBps \in Nat /\ BasisPoints - SlippageBps \in Nat /\ BasisPoints \in Nat
  BY BasisPointsAssumption, SlippageAssumption
<1> DEFINE price == FillPrice(side, entry)
<1>3. price \in Nat
  <2>1. entry.ask * (BasisPoints + SlippageBps) \in Nat /\ entry.bid * (BasisPoints - SlippageBps) \in Nat
    BY <1>1, <1>2
  <2> QED BY <1>2, <2>1 DEF FillPrice
<1> HIDE DEF price
<1>4. Fee(TradeQty, price) \in Nat
  <2>1. TradeQty * price \in Nat
    BY <1>3, QtyAssumption
  <2>2. TradeQty * price * TakerFeeBps \in Nat
    BY <2>1, FeeAssumption
  <2> QED BY <2>2, BasisPointsAssumption DEF Fee
<1> QED BY <1>3, <1>4 DEF NewOrder, Orders, price

LEMMA DecisionType ==
  ASSUME NEW wants, NEW held, TradeDecision(wants, held) # "none"
  PROVE  TradeDecision(wants, held) \in Sides
BY DEF TradeDecision, Sides

(* One more element. *)
LEMMA Appends ==
  ASSUME NEW S, NEW q \in Seq(S), NEW x \in S
  PROVE  /\ Append(q, x) \in Seq(S) /\ Len(q) \in Nat /\ Len(Append(q, x)) = Len(q) + 1
         /\ \A i \in 1 .. Len(q) : Append(q, x)[i] = q[i]
         /\ Append(q, x)[Len(q) + 1] = x
OBVIOUS

(* A call that suffers a fault leaves a trace. *)
LEMMA FaultCounts ==
  ASSUME faults \in Nat, NEW kind, Suffering(kind)
  PROVE  faults' \in Nat /\ faults' # 0
BY DEF Suffering

(* Handling an order with no fault so far persists its trade and a point. *)
LEMMA OrderHandled ==
  ASSUME HandoverInv, HandleOrder
  PROVE  /\ faults' \in Nat /\ (faults' = 0 => faults = 0)
         /\ collected' = collected + 1 /\ collected < Len(orders)
         /\ trades' \in {trades, Append(trades, orders[collected + 1])}
         /\ points' \in {points, Append(points, Equity(tracker'))}
         /\ faults' = 0 => /\ trades' = Append(trades, orders[collected + 1])
                           /\ points' = Append(points, Equity(tracker'))
<1>1. PICK lost \in SUBSET ({"trade", "point"} \cap Faults) :
        /\ faults' = faults + Cardinality(lost)
        /\ trades' = IF "trade" \in lost THEN trades ELSE Append(trades, orders[collected + 1])
        /\ points' = IF "point" \in lost THEN points ELSE Append(points, Equity(tracker'))
  BY DEF HandleOrder
<1>2. IsFiniteSet(lost)
  <2>1. IsFiniteSet({"trade", "point"})
    <3>1. IsFiniteSet({} \cup {"trade"})
      BY FS_EmptySet, FS_AddElement
    <3>2. IsFiniteSet(({} \cup {"trade"}) \cup {"point"})
      BY <3>1, FS_AddElement
    <3>3. ({} \cup {"trade"}) \cup {"point"} = {"trade", "point"}
      OBVIOUS
    <3> QED BY <3>2, <3>3
  <2> QED BY <2>1, FS_Subset
<1>3. Cardinality(lost) \in Nat /\ (Cardinality(lost) = 0 <=> lost = {})
  BY <1>2, FS_CardinalityType, FS_EmptySet
<1>4. collected' = collected + 1 /\ collected < Len(orders) /\ faults \in Nat
  BY DEF HandleOrder, HandoverInv
<1>5. faults' \in Nat /\ (faults' = 0 => faults = 0 /\ lost = {})
  BY <1>1, <1>3, <1>4
<1> QED BY <1>1, <1>4, <1>5

LEMMA HandoverInit == Init => HandoverInv
BY DEF Init, HandoverInv, BeforeStop

LEMMA HandoverStep == HandoverInv /\ [Next]_vars => HandoverInv'
<1> SUFFICES ASSUME HandoverInv, [Next]_vars PROVE HandoverInv'
  OBVIOUS
<1> USE DEF HandoverInv
<1>1. CASE Cancel
  BY <1>1 DEF Cancel, database, streams, executor, collector
<1>2. CASE CreateRun \/ MarkRunning
  BY <1>2, FaultCounts DEF CreateRun, MarkRunning, Records, RunSucceeds, RunFails, BeforeStop,
                           streams, executor, collector
<1>3. CASE StartReplay
  BY <1>3, FaultCounts DEF StartReplay, RunSucceeds, RunFails, BeforeStop, database
<1>4. CASE AwaitEngines \/ AwaitExecutor
  BY <1>4 DEF AwaitEngines, AwaitExecutor, Wait, database, streams, executor, collector
<1>5. CASE AwaitCollector
  BY <1>5 DEF AwaitCollector, database, streams, executor, collector
<1>6. CASE Report
  BY <1>6, FaultCounts DEF Report, RunSucceeds, RunFails, Succeeds, database, executor, collector
<1>7. CASE ComputeMetrics \/ MarkEnd
  BY <1>7, FaultCounts DEF ComputeMetrics, MarkEnd, Succeeds, streams, executor, collector
<1>8. ASSUME NEW s \in Symbols, PublishL2(s) PROVE HandoverInv'
  BY <1>8 DEF PublishL2, database, runner, executor, collector
<1>9. ASSUME NEW s \in Symbols, EndEngine(s) PROVE HandoverInv'
  BY <1>9 DEF EndEngine, database, streams, runner, executor, collector
<1>10. ASSUME NEW s \in Symbols, HandleL2(s) PROVE HandoverInv'
  <2>1. fill' \in [Symbols -> Fills \cup {None}]
    <3>1. PICK entry \in Entries :
            LET side    == TradeDecision(entry.wants, pos[s])
                verdict == IF side = "none" THEN "none" ELSE Verdict(risk, s, side, TradeQty)
            IN  IF verdict = "ok" /\ Fillable(side, entry)
                THEN fill' = [fill EXCEPT ![s] = [order |-> NewOrder(s, side, entry), sent  |-> FALSE]]
                ELSE UNCHANGED fill
      BY <1>10 DEF HandleL2
    <3> DEFINE side == TradeDecision(entry.wants, pos[s])
    <3>2. CASE side = "none"
      BY <3>1, <3>2
    <3>3. CASE side # "none"
      <4>1. NewOrder(s, side, entry) \in Orders
        BY <3>3, DecisionType, OrderType
      <4>2. [order |-> NewOrder(s, side, entry), sent  |-> FALSE] \in Fills
        BY <4>1 DEF Fills
      <4> HIDE DEF side
      <4> QED BY <3>1, <4>2 DEF side
    <3> QED BY <3>2, <3>3
  <2>2. /\ read' = [read EXCEPT ![s] = @ + 1]
        /\ UNCHANGED <<database, streams, runner, engine, reader, collector, faults>>
    BY <1>10 DEF HandleL2
  <2>3. read' \in [Symbols -> Nat]
    BY <2>2
  <2> QED BY <2>1, <2>2, <2>3 DEF database, streams, runner, collector
<1>11. ASSUME NEW s \in Symbols, PublishOrder(s) PROVE HandoverInv'
  <2>1. fill[s] \in Fills
    BY <1>11 DEF PublishOrder
  <2>2. fill' \in [Symbols -> Fills \cup {None}]
    BY <1>11, <2>1 DEF PublishOrder, Fills
  <2>3. orders' \in Seq(Orders) /\ Len(orders') \in Nat /\ Len(orders) <= Len(orders')
    <3>1. fill[s].order \in Orders
      BY <2>1 DEF Fills
    <3> DEFINE order == fill[s].order
    <3>2. orders' = orders \/ orders' = Append(orders, order)
      BY <1>11 DEF PublishOrder
    <3> HIDE DEF order
    <3>3. orders \in Seq(Orders) /\ order \in Orders
      BY <3>1 DEF order
    <3> HIDE DEF HandoverInv
    <3>4. Append(orders, order) \in Seq(Orders) /\ Len(orders) \in Nat /\ Len(Append(orders, order)) = Len(orders) + 1
      BY <3>3, Appends
    <3>5. CASE orders' = orders
      BY <3>3, <3>4, <3>5
    <3>6. CASE orders' = Append(orders, order)
      BY <3>4, <3>6
    <3> QED BY <3>2, <3>5, <3>6
  <2> QED BY <1>11, <2>2, <2>3, FaultCounts DEF PublishOrder, Succeeds, database, runner, collector
<1>12. ASSUME NEW s \in Symbols, RecordFill(s) PROVE HandoverInv'
  BY <1>12 DEF RecordFill, database, streams, runner, collector
<1>13. ASSUME NEW s \in Symbols, StopExecutor(s) PROVE HandoverInv'
  BY <1>13, FaultCounts DEF StopExecutor, Succeeds, database, streams, runner, collector
<1>14. CASE HandleOrder
  <2>1. orders[collected + 1] \in Orders
    BY <1>14, OrderHandled
  <2>2. faults' \in Nat /\ collected' \in 0 .. Len(orders)
    <3>1. collected' = collected + 1 /\ collected < Len(orders) /\ Len(orders) \in Nat
      BY <1>14, OrderHandled DEF HandoverInv
    <3> QED BY <1>14, <3>1, OrderHandled
  <2>3. trades' \in Seq(Orders)
    <3>1. Append(trades, orders[collected + 1]) \in Seq(Orders)
      BY <2>1 DEF HandoverInv
    <3> QED BY <1>14, <3>1, OrderHandled
  <2>4. UNCHANGED <<pc, engine, reader, colReader, l2, read, fill, orders>>
    BY <1>14 DEF HandleOrder, streams, runner, executor
  <2> QED BY <2>2, <2>3, <2>4
<1>15. CASE StopCollector
  BY <1>15, FaultCounts DEF StopCollector, Succeeds, database, streams, runner, executor
<1>16. CASE UNCHANGED vars
  BY <1>16 DEF vars, database, streams, runner, executor, collector
<1> QED BY <1>1, <1>2, <1>3, <1>4, <1>5, <1>6, <1>7, <1>8, <1>9, <1>10, <1>11, <1>12, <1>13, <1>14,
           <1>15, <1>16
        DEF Next, Runner, Engine, Executor, Collector

-------------------------------------------------------------------------------
(* The stages stop in order, and drain.                                    *)

LEMMA StageInit == Init => StageInv
BY DEF Init, StageInv, AllOff

LEMMA StageStep == HandoverInv /\ StageInv /\ [Next]_vars => StageInv'
<1> SUFFICES ASSUME HandoverInv, StageInv, [Next]_vars PROVE StageInv'
  OBVIOUS
<1> USE DEF StageInv, AllOff, AllStopped, EnginesEnded, ExecutorsStopped, CollectorStopped
<1>1. CASE Cancel
  BY <1>1 DEF Cancel, executor, collector
<1>2. CASE CreateRun \/ MarkRunning
  <2>1. UNCHANGED <<engine, reader, fill, colReader>>
    BY <1>2 DEF CreateRun, MarkRunning, executor, collector
  <2>2. AllOff /\ pc' \in {"start", "announce", "ended"}
    BY <1>2 DEF CreateRun, MarkRunning, Records
  <2> QED BY <2>1, <2>2
<1>3. CASE StartReplay
  <2>1. /\ AllOff /\ pc' = "replay" /\ colReader' = "running" /\ fill' = fill
        /\ reader' = [s \in Symbols |-> "running"] /\ engine' = [s \in Symbols |-> "running"]
    BY <1>3 DEF StartReplay
  <2> QED BY <2>1
<1>4. CASE AwaitEngines \/ AwaitExecutor
  BY <1>4 DEF AwaitEngines, AwaitExecutor, Wait, executor, collector
<1>5. CASE AwaitCollector
  BY <1>5 DEF AwaitCollector, executor, collector
<1>6. CASE Report
  BY <1>6 DEF Report, executor, collector
<1>7. CASE ComputeMetrics \/ MarkEnd
  BY <1>7 DEF ComputeMetrics, MarkEnd, executor, collector
<1>8. ASSUME NEW s \in Symbols, PublishL2(s) PROVE StageInv'
  BY <1>8 DEF PublishL2, runner, executor, collector
<1>9. ASSUME NEW s \in Symbols, EndEngine(s) PROVE StageInv'
  <2>1. /\ engine[s] = "running"
        /\ \E end \in {"done", "failed"} : engine' = [engine EXCEPT ![s] = end]
        /\ UNCHANGED <<pc, reader, fill, colReader>>
    BY <1>9 DEF EndEngine, runner, executor, collector
  <2>2. pc = "replay"
    BY <2>1 DEF HandoverInv, BeforeStop
  <2>3. \A r \in Symbols : engine'[r] # "off"
    BY <2>1, <2>2 DEF HandoverInv
  <2>4. \A r \in Symbols : reader[r] # "stopped"
    BY <2>1
  <2> QED BY <2>1, <2>2, <2>3, <2>4
<1>10. ASSUME NEW s \in Symbols, HandleL2(s) PROVE StageInv'
  <2>1. reader[s] = "running" /\ UNCHANGED <<pc, engine, reader, colReader>>
    BY <1>10 DEF HandleL2, Handling, runner, collector
  <2>2. \A r \in Symbols \ {s} : fill'[r] = fill[r]
    BY <1>10 DEF HandleL2, HandoverInv
  <2> QED BY <2>1, <2>2
<1>11. ASSUME NEW s \in Symbols, PublishOrder(s) \/ RecordFill(s) PROVE StageInv'
  <2>1. /\ fill[s] # None /\ UNCHANGED <<pc, engine, reader, colReader>>
        /\ \A r \in Symbols \ {s} : fill'[r] = fill[r]
    BY <1>11 DEF PublishOrder, RecordFill, HandoverInv, runner, collector
  <2> QED BY <2>1
<1>12. ASSUME NEW s \in Symbols, StopExecutor(s) PROVE StageInv'
  <2>1. /\ fill[s] = None /\ reader[s] = "running" /\ pc \notin BeforeStop
        /\ reader' = [reader EXCEPT ![s] = "stopped"]
        /\ UNCHANGED <<pc, engine, fill, colReader>>
    BY <1>12 DEF StopExecutor, Handling, ExecStopping, runner, collector
  <2>2. pc = "executor"
    BY <2>1 DEF HandoverInv, BeforeStop
  <2>3. \A r \in Symbols : reader'[r] = IF r = s THEN "stopped" ELSE reader[r]
    BY <2>1 DEF HandoverInv
  <2>4. colReader # "stopped"
    BY <2>1
  <2> QED BY <2>1, <2>2, <2>3, <2>4
<1>13. CASE HandleOrder
  BY <1>13 DEF HandleOrder, runner, executor
<1>14. CASE StopCollector
  <2>1. /\ colReader = "running" /\ pc \notin BeforeStop \cup {"executor"}
        /\ colReader' = "stopped" /\ UNCHANGED <<pc, engine, reader, fill>>
    BY <1>14 DEF StopCollector, ColStopping, runner, executor
  <2>2. pc = "collector"
    BY <2>1 DEF HandoverInv, BeforeStop
  <2> QED BY <2>1, <2>2
<1>15. CASE UNCHANGED vars
  BY <1>15 DEF vars, runner, executor, collector
<1> QED BY <1>1, <1>2, <1>3, <1>4, <1>5, <1>6, <1>7, <1>8, <1>9, <1>10, <1>11, <1>12, <1>13, <1>14,
           <1>15
        DEF Next, Runner, Engine, Executor, Collector

LEMMA DrainInit == Init => DrainInv
BY DEF Init, DrainInv

LEMMA DrainStep == HandoverInv /\ StageInv /\ DrainInv /\ [Next]_vars => DrainInv'
<1> SUFFICES ASSUME HandoverInv, StageInv, DrainInv, [Next]_vars PROVE DrainInv'
  OBVIOUS
<1>1. ASSUME UNCHANGED <<reader, read, l2, colReader, collected, orders, trades>>,
             faults' = 0 => faults = 0
      PROVE  DrainInv'
  BY <1>1 DEF DrainInv
<1>2. CASE Cancel \/ Runner \/ UNCHANGED vars
  <2>1. CASE StartReplay
    <3>1. /\ reader' = [s \in Symbols |-> "running"] /\ colReader' = "running"
          /\ UNCHANGED <<read, l2, collected, orders, trades>>
      BY <2>1 DEF StartReplay, database
    <3>2. faults' = 0 => faults = 0
      BY <2>1, FaultCounts DEF StartReplay, RunSucceeds, RunFails, HandoverInv
    <3> QED BY <3>1, <3>2 DEF DrainInv
  <2>2. CASE Cancel \/ CreateRun \/ MarkRunning \/ AwaitEngines \/ AwaitExecutor \/ AwaitCollector
             \/ Report \/ ComputeMetrics \/ MarkEnd \/ UNCHANGED vars
    <3>1. UNCHANGED <<reader, read, l2, colReader, collected, orders, trades>>
      BY <2>2 DEF Cancel, CreateRun, MarkRunning, AwaitEngines, AwaitExecutor, AwaitCollector,
                  Report, ComputeMetrics, MarkEnd, Wait, vars, database, streams, executor, collector
    <3>2. faults' = 0 => faults = 0
      BY <2>2, FaultCounts
         DEF Cancel, CreateRun, MarkRunning, Records, AwaitEngines, AwaitExecutor, AwaitCollector,
             Report, ComputeMetrics, MarkEnd, Wait, vars, RunSucceeds, RunFails, Succeeds, HandoverInv
    <3> QED BY <1>1, <3>1, <3>2
  <2> QED BY <1>2, <2>1, <2>2 DEF Runner
<1>3. ASSUME NEW s \in Symbols, PublishL2(s) PROVE DrainInv'
  <2>1. /\ engine[s] = "running" /\ UNCHANGED <<reader, read, colReader, collected, orders, trades, faults>>
    BY <1>3 DEF PublishL2, database, executor, collector
  <2>2. \A r \in Symbols : reader[r] # "stopped"
    BY <2>1 DEF StageInv, EnginesEnded
  <2> QED BY <2>1, <2>2 DEF DrainInv
<1>4. ASSUME NEW s \in Symbols, EndEngine(s) \/ RecordFill(s) PROVE DrainInv'
  BY <1>1, <1>4 DEF EndEngine, RecordFill, database, streams, executor, collector
<1>5. ASSUME NEW s \in Symbols, HandleL2(s) PROVE DrainInv'
  <2>1. /\ reader[s] = "running" /\ read' = [read EXCEPT ![s] = @ + 1]
        /\ UNCHANGED <<reader, l2, colReader, collected, orders, trades, faults>>
    BY <1>5 DEF HandleL2, Handling, database, streams, collector
  <2>2. \A r \in Symbols : reader[r] = "stopped" => read'[r] = read[r]
    BY <2>1 DEF HandoverInv
  <2> QED BY <2>1, <2>2 DEF DrainInv
<1>6. ASSUME NEW s \in Symbols, PublishOrder(s) PROVE DrainInv'
  <2>1. /\ fill[s] # None /\ (faults' = 0 => faults = 0)
        /\ orders' = orders \/ orders' = Append(orders, fill[s].order)
        /\ UNCHANGED <<reader, read, l2, colReader, collected, trades>>
    BY <1>6, FaultCounts DEF PublishOrder, Succeeds, HandoverInv, database, collector
  <2>2. colReader # "stopped"
    BY <2>1 DEF StageInv, ExecutorsStopped
  <2>3. \A i \in 1 .. collected : orders'[i] = orders[i]
    <3>1. CASE orders' = orders
      BY <3>1
    <3> DEFINE order == fill[s].order
    <3>2. CASE orders' = Append(orders, order)
      <4>1. order \in Orders /\ orders \in Seq(Orders)
        BY <2>1 DEF HandoverInv, Fills
      <4>2. collected \in Nat /\ collected <= Len(orders)
        BY DEF HandoverInv
      <4> HIDE DEF order
      <4>3. Len(orders) \in Nat /\ \A i \in 1 .. Len(orders) : Append(orders, order)[i] = orders[i]
        BY <4>1, Appends
      <4> QED BY <3>2, <4>2, <4>3
    <3> QED BY <2>1, <3>1, <3>2
  <2> QED BY <2>1, <2>2, <2>3 DEF DrainInv
<1>7. ASSUME NEW s \in Symbols, StopExecutor(s) PROVE DrainInv'
  <2>1. /\ faults' = 0 => faults = 0 /\ read[s] = l2[s]
        /\ reader' = [reader EXCEPT ![s] = "stopped"]
        /\ UNCHANGED <<read, l2, colReader, collected, orders, trades>>
    BY <1>7, FaultCounts DEF StopExecutor, Drained, Succeeds, HandoverInv, database, streams, collector
  <2>2. \A r \in Symbols \ {s} : reader'[r] = reader[r]
    BY <2>1 DEF HandoverInv
  <2> QED BY <2>1, <2>2 DEF DrainInv
<1>8. CASE HandleOrder
  <2>1. /\ colReader = "running" /\ UNCHANGED <<reader, read, l2, colReader, orders>>
    BY <1>8 DEF HandleOrder, streams, executor
  <2> SUFFICES ASSUME faults' = 0
               PROVE  Len(trades') = collected' /\ \A i \in 1 .. collected' : trades'[i] = orders[i]
    BY <2>1, <1>8, OrderHandled DEF DrainInv
  <2> DEFINE order == orders[collected + 1]
  <2>2. /\ faults = 0 /\ collected' = collected + 1 /\ trades' = Append(trades, order)
        /\ collected < Len(orders)
    BY <1>8, OrderHandled
  <2>3. /\ Len(trades) = collected /\ \A i \in 1 .. collected : trades[i] = orders[i]
    BY <2>2 DEF DrainInv
  <2>4. order \in Orders /\ trades \in Seq(Orders)
    BY <2>2 DEF HandoverInv
  <2>5. /\ Len(trades) \in Nat /\ Len(Append(trades, order)) = Len(trades) + 1
        /\ \A i \in 1 .. Len(trades) : Append(trades, order)[i] = trades[i]
        /\ Append(trades, order)[Len(trades) + 1] = order
    <3> HIDE DEF order
    <3> QED BY <2>4, Appends
  <2> QED BY <2>2, <2>3, <2>5
<1>9. CASE StopCollector
  <2>1. /\ faults' = 0 => faults = 0 /\ collected = Len(orders)
        /\ UNCHANGED <<reader, read, l2, collected, orders, trades>>
    BY <1>9, FaultCounts DEF StopCollector, Succeeds, HandoverInv, database, streams, executor
  <2> QED BY <2>1 DEF DrainInv
<1> QED BY <1>2, <1>3, <1>4, <1>5, <1>6, <1>7, <1>8, <1>9 DEF Next, Engine, Executor, Collector

LEMMA StagesAlways == Spec => [](HandoverInv /\ StageInv /\ DrainInv)
<1>1. Init => HandoverInv /\ StageInv /\ DrainInv
  BY HandoverInit, StageInit, DrainInit
<1>2. HandoverInv /\ StageInv /\ DrainInv /\ [Next]_vars => (HandoverInv /\ StageInv /\ DrainInv)'
  BY HandoverStep, StageStep, DrainStep
<1> QED BY <1>1, <1>2, PTL DEF Spec

(* However a run that was launched ends, the executors have handled every  *)
(* entry of the L2 streams and every published order has its trade, unless *)
(* a call failed (runner.go, Run: the stages are stopped in order, and     *)
(* each drains its stream).                                                *)
THEOREM NothingLostHolds == Spec => []NothingLost
<1>1. HandoverInv /\ StageInv /\ DrainInv => NothingLost
  <2> SUFFICES ASSUME HandoverInv, StageInv, DrainInv, pc = "ended", Launched, faults = 0
               PROVE  /\ \A s \in Symbols : read[s] = l2[s] /\ fill[s] = None
                      /\ trades = orders
    BY DEF NothingLost
  <2>1. ExecutorsStopped /\ CollectorStopped
    BY DEF StageInv, AllOff, AllStopped, Launched
  <2>2. \A s \in Symbols : read[s] = l2[s] /\ fill[s] = None
    BY <2>1 DEF StageInv, DrainInv, ExecutorsStopped
  <2>3. /\ Len(trades) = Len(orders) /\ \A i \in 1 .. Len(trades) : trades[i] = orders[i]
        /\ trades \in Seq(Orders) /\ orders \in Seq(Orders)
    BY <2>1 DEF DrainInv, HandoverInv, CollectorStopped
  <2> QED BY <2>2, <2>3
<1> QED BY <1>1, StagesAlways, PTL

-------------------------------------------------------------------------------
(* The status is true.                                                     *)

(* The control events. *)
Announcements == {"REPLAY_START", "REPLAY_COMPLETE", "CANCELLED"}

(* One more of them. *)
LEMMA Announced ==
  ASSUME StatusInv, NEW type, control' = control \/ control' = Append(control, type),
         control \in Seq(Announcements), type \in Announcements,
         outcome' = outcome, type = "REPLAY_COMPLETE" => outcome = "COMPLETED"
  PROVE  (\A i \in DOMAIN control : control[i] = "REPLAY_COMPLETE" => outcome = "COMPLETED")'
<1>1. CASE control' = control
  BY <1>1 DEF StatusInv
<1>2. CASE control' = Append(control, type)
  <2>1. /\ DOMAIN control = 1 .. Len(control) /\ Len(control) \in Nat
        /\ DOMAIN control' = 1 .. Len(control) + 1
        /\ \A i \in 1 .. Len(control) : control'[i] = control[i]
        /\ control'[Len(control) + 1] = type
    BY <1>2
  <2>2. \A i \in DOMAIN control' : i \in DOMAIN control \/ i = Len(control) + 1
    BY <2>1
  <2> QED BY <2>1, <2>2 DEF StatusInv
<1> QED BY <1>1, <1>2

ControlInv == control \in Seq(Announcements)

LEMMA ControlStep == ControlInv /\ [Next]_vars => ControlInv'
<1> SUFFICES ASSUME ControlInv, [Next]_vars PROVE ControlInv'
  OBVIOUS
<1>1. \/ control' = control
      \/ control' = Append(control, "REPLAY_START")
      \/ control' = Append(control, "REPLAY_COMPLETE")
      \/ control' = Append(control, "CANCELLED")
  <2>1. CASE StartReplay
    BY <2>1 DEF StartReplay
  <2>2. CASE Report
    BY <2>2 DEF Report
  <2>3. CASE Cancel \/ CreateRun \/ MarkRunning \/ AwaitEngines \/ AwaitExecutor \/ AwaitCollector
             \/ ComputeMetrics \/ MarkEnd \/ Collector \/ UNCHANGED vars
    BY <2>3 DEF Cancel, CreateRun, MarkRunning, AwaitEngines, AwaitExecutor, AwaitCollector,
                ComputeMetrics, MarkEnd, Wait, Collector, HandleOrder, StopCollector, vars, streams
  <2>4. ASSUME NEW s \in Symbols, Engine(s) \/ Executor(s)
        PROVE  control' = control
    BY <2>4 DEF Engine, PublishL2, EndEngine, Executor, HandleL2, PublishOrder, RecordFill,
                StopExecutor, streams
  <2> QED BY <2>1, <2>2, <2>3, <2>4 DEF Next, Runner
<1>2. ASSUME NEW type \in Announcements, control' = Append(control, type)
      PROVE  ControlInv'
  <2>1. Append(control, type) \in Seq(Announcements)
    BY Appends DEF ControlInv
  <2> QED BY <1>2, <2>1 DEF ControlInv
<1>3. CASE control' = control
  BY <1>3 DEF ControlInv
<1>4. CASE control' = Append(control, "REPLAY_START")
  BY <1>2, <1>4 DEF Announcements
<1>5. CASE control' = Append(control, "REPLAY_COMPLETE")
  BY <1>2, <1>5 DEF Announcements
<1>6. CASE control' = Append(control, "CANCELLED")
  BY <1>2, <1>6 DEF Announcements
<1> QED BY <1>1, <1>3, <1>4, <1>5, <1>6

LEMMA StatusInit == Init => StatusInv /\ ControlInv
BY DEF Init, StatusInv, ControlInv, Terminal, BeforeStop

LEMMA StatusStep ==
  HandoverInv /\ StageInv /\ ControlInv /\ StatusInv /\ [Next]_vars => StatusInv'
<1> SUFFICES ASSUME HandoverInv, StageInv, ControlInv, StatusInv, [Next]_vars PROVE StatusInv'
  OBVIOUS
<1> USE DEF StatusInv, Terminal, BeforeStop
<1>1. CASE Cancel
  BY <1>1 DEF Cancel, EnginesEnded, AllOff, database, streams, executor, collector
<1>2. CASE CreateRun \/ MarkRunning
  <2>1. /\ pc \in {"create", "start"} /\ outcome = "none" /\ AllOff
        /\ UNCHANGED <<outcome, cancelled, control, engine, reader, colReader>>
    BY <1>2 DEF CreateRun, MarkRunning, streams, executor, collector, StageInv
  <2>2. /\ status' \in {status, "PENDING", "RUNNING"}
        /\ pc' \in {"start", "announce", "ended"}
        /\ pc' = "ended" => cancelled \/ faults' # 0
    BY <1>2, FaultCounts
       DEF CreateRun, MarkRunning, Records, RunSucceeds, RunFails, HandoverInv
  <2> QED BY <2>1, <2>2 DEF EnginesEnded, AllOff
<1>3. CASE StartReplay
  <2>1. /\ pc = "announce" /\ pc' = "replay" /\ UNCHANGED <<status, outcome, cancelled>>
        /\ control' = control \/ control' = Append(control, "REPLAY_START")
    BY <1>3 DEF StartReplay, database
  <2>2. (\A i \in DOMAIN control : control[i] = "REPLAY_COMPLETE" => outcome = "COMPLETED")'
    BY <2>1, Announced DEF ControlInv, Announcements
  <2> QED BY <2>1, <2>2
<1>4. CASE AwaitEngines \/ AwaitExecutor
  BY <1>4 DEF AwaitEngines, AwaitExecutor, Wait, EnginesEnded, database, streams, executor, collector
<1>5. CASE AwaitCollector
  <2>1. /\ pc = "collector" /\ pc' = "report" /\ outcome' = Judgement /\ outcome = "none"
        /\ EnginesEnded
        /\ UNCHANGED <<status, control, cancelled, engine>>
    BY <1>5 DEF AwaitCollector, database, streams, StageInv
  <2>2. /\ outcome' \in Terminal
        /\ outcome' = "COMPLETED" => \A s \in Symbols : engine[s] = "done"
        /\ outcome' = "FAILED" => \E s \in Symbols : engine[s] = "failed"
        /\ outcome' = "CANCELLED" => cancelled
    BY <2>1 DEF Judgement, EnginesEnded
  <2> QED BY <2>1, <2>2 DEF EnginesEnded
<1>6. CASE Report
  <2>1. /\ pc = "report" /\ pc' \in {"metrics", "mark"}
        /\ pc' = "metrics" => outcome = "COMPLETED"
        /\ UNCHANGED <<status, outcome, cancelled, engine>>
    BY <1>6 DEF Report, database
  <2>2. \E type \in {"REPLAY_COMPLETE", "CANCELLED"} :
          /\ control' = control \/ control' = Append(control, type)
          /\ type = "REPLAY_COMPLETE" => outcome = "COMPLETED"
    BY <1>6 DEF Report
  <2>3. (\A i \in DOMAIN control : control[i] = "REPLAY_COMPLETE" => outcome = "COMPLETED")'
    BY <2>1, <2>2, Announced DEF ControlInv, Announcements
  <2> QED BY <2>1, <2>3 DEF EnginesEnded
<1>7. CASE ComputeMetrics
  BY <1>7 DEF ComputeMetrics, EnginesEnded, streams
<1>8. CASE MarkEnd
  <2>1. /\ pc = "mark" /\ pc' = "ended" /\ outcome # "none"
        /\ UNCHANGED <<outcome, cancelled, control, engine>>
        /\ status' = outcome \/ (status' = status /\ faults' # 0)
    BY <1>8, FaultCounts DEF MarkEnd, HandoverInv, streams
  <2> QED BY <2>1 DEF EnginesEnded
<1>9. ASSUME NEW s \in Symbols, EndEngine(s) PROVE StatusInv'
  <2>1. engine[s] = "running" /\ UNCHANGED <<status, control, pc, outcome, cancelled>>
    BY <1>9 DEF EndEngine, database, streams, runner
  <2>2. pc = "replay"
    BY <2>1 DEF HandoverInv, StageInv, AllOff, AllStopped, EnginesEnded
  <2> QED BY <2>1, <2>2
<1>10. ASSUME UNCHANGED <<status, control, pc, outcome, cancelled, engine>>,
              AllOff => reader' = reader /\ colReader' = colReader,
              faults' = 0 => faults = 0
       PROVE  StatusInv'
  BY <1>10 DEF EnginesEnded, AllOff
<1>11. ASSUME NEW s \in Symbols,
              PublishL2(s) \/ HandleL2(s) \/ PublishOrder(s) \/ RecordFill(s) \/ StopExecutor(s)
       PROVE  StatusInv'
  <2>1. UNCHANGED <<status, control, pc, outcome, cancelled, engine>> /\ UNCHANGED colReader
    BY <1>11 DEF PublishL2, HandleL2, PublishOrder, RecordFill, StopExecutor,
                 database, streams, runner, collector
  <2>2. StopExecutor(s) => reader[s] = "running"
    BY DEF StopExecutor, Handling
  <2>3. ~StopExecutor(s) => reader' = reader
    BY <1>11 DEF PublishL2, HandleL2, PublishOrder, RecordFill, executor
  <2>4. faults' = 0 => faults = 0
    BY <1>11, FaultCounts DEF PublishL2, HandleL2, PublishOrder, RecordFill, StopExecutor, Succeeds, HandoverInv
  <2> QED BY <1>10, <2>1, <2>2, <2>3, <2>4 DEF AllOff
<1>12. CASE HandleOrder
  BY <1>10, <1>12, OrderHandled DEF HandleOrder, streams, runner, executor
<1>13. CASE StopCollector
  <2>1. /\ colReader = "running" /\ (faults' = 0 => faults = 0)
        /\ UNCHANGED <<status, control, pc, outcome, cancelled, engine>>
    BY <1>13, FaultCounts DEF StopCollector, Succeeds, HandoverInv, database, streams, runner
  <2> QED BY <1>10, <2>1 DEF AllOff
<1>14. CASE UNCHANGED vars
  BY <1>10, <1>14 DEF vars, database, streams, runner, executor, collector
<1> QED BY <1>1, <1>2, <1>3, <1>4, <1>5, <1>6, <1>7, <1>8, <1>9, <1>11, <1>12, <1>13, <1>14
        DEF Next, Runner, Engine, Executor, Collector

(* The status a run ends with is true of its engines and its cancellation, *)
(* REPLAY_COMPLETE is announced of completed runs only, and a run in which *)
(* no call failed has such a status unless it was cancelled before it was  *)
(* marked RUNNING (runner.go, Run).                                        *)
THEOREM StatusIsTrueHolds == Spec => []StatusIsTrue
<1>1. Init => StatusInv /\ ControlInv
  BY StatusInit
<1>2. StatusInv /\ StageInv /\ HandoverInv => StatusIsTrue
  BY DEF StatusInv, StatusIsTrue, AllOff, Launched, Terminal
<1> QED BY <1>1, <1>2, StatusStep, ControlStep, StagesAlways, PTL DEF Spec

-------------------------------------------------------------------------------
(* Executors and risk checker agree.                                       *)

(* An executor holds at most one lot, and the checker is behind it by the  *)
(* order it is about to record.                                            *)
LotInv ==
  /\ pos \in [Symbols -> Held]
  /\ risk \in [positions : [Symbols -> Int], equity : Int, peak : Int,
               halted : BOOLEAN, probed : BOOLEAN]
  /\ \A s \in Symbols : fill[s] = None => risk.positions[s] = pos[s]
  /\ \A s \in Symbols : fill[s] # None =>
       risk.positions[s] = pos[s] - Signed(fill[s].order.side, TradeQty)

LEMMA LotInit == Init => LotInv
BY CapitalAssumption DEF Init, LotInv, Held, NewChecker

(* The decision leaves at most one lot. *)
LEMMA DecisionKeepsLot ==
  ASSUME NEW wants, NEW held \in Held, TradeDecision(wants, held) # "none"
  PROVE  held + Signed(TradeDecision(wants, held), TradeQty) \in Held
BY QtyAssumption DEF TradeDecision, Held, Signed

LEMMA LotStep == HandoverInv /\ LotInv /\ [Next]_vars => LotInv'
<1> SUFFICES ASSUME HandoverInv, LotInv, [Next]_vars PROVE LotInv'
  OBVIOUS
<1>1. ASSUME UNCHANGED <<pos, risk, fill>>
      PROVE  LotInv'
  BY <1>1 DEF LotInv
<1>2. CASE Cancel \/ Runner \/ Collector \/ UNCHANGED vars
  BY <1>1, <1>2
     DEF Cancel, Runner, CreateRun, MarkRunning, StartReplay, AwaitEngines, AwaitExecutor,
         AwaitCollector, Report, ComputeMetrics, MarkEnd, Wait, Collector, HandleOrder,
         StopCollector, vars, executor
<1>3. ASSUME NEW s \in Symbols, Engine(s) \/ StopExecutor(s) PROVE LotInv'
  BY <1>1, <1>3 DEF Engine, PublishL2, EndEngine, StopExecutor, executor
<1>4. ASSUME NEW s \in Symbols, HandleL2(s) PROVE LotInv'
  <2>1. PICK entry \in Entries :
          LET side    == TradeDecision(entry.wants, pos[s])
              verdict == IF side = "none" THEN "none" ELSE Verdict(risk, s, side, TradeQty)
          IN  /\ risk' = [risk EXCEPT !.halted = @ \/ verdict = "trip"]
              /\ IF verdict = "ok" /\ Fillable(side, entry)
                 THEN /\ pos' = [pos EXCEPT ![s] = @ + Signed(side, TradeQty)]
                      /\ fill' = [fill EXCEPT ![s] = [order |-> NewOrder(s, side, entry),
                                                      sent  |-> FALSE]]
                 ELSE UNCHANGED <<pos, fill>>
    BY <1>4 DEF HandleL2
  <2>2. fill[s] = None
    BY <1>4 DEF HandleL2, Handling
  <2>3. /\ risk' \in [positions : [Symbols -> Int], equity : Int, peak : Int,
                      halted : BOOLEAN, probed : BOOLEAN]
        /\ risk'.positions = risk.positions
    BY <2>1 DEF LotInv
  <2> DEFINE side == TradeDecision(entry.wants, pos[s])
  <2>4. CASE UNCHANGED <<pos, fill>>
    BY <2>3, <2>4 DEF LotInv
  <2>5. CASE /\ side # "none"
             /\ pos' = [pos EXCEPT ![s] = @ + Signed(side, TradeQty)]
             /\ fill' = [fill EXCEPT ![s] = [order |-> NewOrder(s, side, entry), sent |-> FALSE]]
    <3>1. NewOrder(s, side, entry) \in Orders
      BY <2>5, DecisionType, OrderType
    <3> DEFINE new == [order |-> NewOrder(s, side, entry), sent |-> FALSE]
    <3>2. new \in Fills /\ new # None
      <4>1. new \in Fills
        BY <3>1 DEF Fills
      <4> HIDE DEF new
      <4> QED BY <4>1, NoneAssumption
    <3>3. new.order.side = side
      BY DEF NewOrder
    <3>4. side \in Sides /\ pos[s] + Signed(side, TradeQty) \in Held
      BY <2>5, DecisionType, DecisionKeepsLot DEF LotInv
    <3> HIDE DEF new, side
    <3>5. fill' = [fill EXCEPT ![s] = new]
      BY <2>5 DEF new, side
    <3>6. fill'[s] = new /\ \A r \in Symbols \ {s} : fill'[r] = fill[r]
      BY <3>5 DEF HandoverInv
    <3>7. pos' = [pos EXCEPT ![s] = pos[s] + Signed(side, TradeQty)]
      BY <2>5 DEF side
    <3>8. pos' \in [Symbols -> Held]
      BY <3>4, <3>7 DEF LotInv
    <3>9. pos'[s] - Signed(side, TradeQty) = pos[s] /\ \A r \in Symbols \ {s} : pos'[r] = pos[r]
      BY <3>7, QtyAssumption DEF LotInv, Held, Signed
    <3> QED BY <2>2, <2>3, <3>2, <3>3, <3>6, <3>8, <3>9 DEF LotInv
  <2> QED BY <2>1, <2>4, <2>5
<1>5. ASSUME NEW s \in Symbols, PublishOrder(s) PROVE LotInv'
  <2>1. /\ fill[s] # None /\ fill' = [fill EXCEPT ![s].sent = TRUE] /\ UNCHANGED <<pos, risk>>
    BY <1>5 DEF PublishOrder
  <2>2. fill[s] \in Fills
    BY <2>1 DEF HandoverInv
  <2>3. fill'[s] \in Fills /\ fill'[s].order = fill[s].order
        /\ \A r \in Symbols \ {s} : fill'[r] = fill[r]
    BY <2>1, <2>2 DEF HandoverInv, Fills
  <2>4. fill'[s] # None
    BY <2>3, NoneAssumption
  <2> QED BY <2>1, <2>3, <2>4 DEF LotInv
<1>6. ASSUME NEW s \in Symbols, RecordFill(s) PROVE LotInv'
  <2> DEFINE o == fill[s].order
  <2>1. /\ fill[s] # None /\ fill' = [fill EXCEPT ![s] = None] /\ UNCHANGED pos
        /\ risk' = RiskRecordFill(risk, s, o.side, TradeQty, o.price, o.fee)
    BY <1>6 DEF RecordFill
  <2>2. o.side \in Sides /\ o.price \in Nat /\ o.fee \in Nat
    BY <2>1 DEF HandoverInv, Fills, Orders
  <2>3. risk.positions[s] = pos[s] - Signed(o.side, TradeQty) /\ pos[s] \in Int
    BY <2>1, QtyAssumption DEF LotInv, Held
  <2> HIDE DEF o
  <2>4. Signed(o.side, TradeQty * o.price) \in Int /\ Signed(o.side, TradeQty) \in Int
    BY <2>2, QtyAssumption DEF Signed
  <2>5. /\ risk' \in [positions : [Symbols -> Int], equity : Int, peak : Int,
                      halted : BOOLEAN, probed : BOOLEAN]
        /\ risk'.positions = [risk.positions EXCEPT ![s] = risk.positions[s] + Signed(o.side, TradeQty)]
    <3> DEFINE equity == risk.equity - Signed(o.side, TradeQty * o.price) - o.fee
               peak == IF equity > risk.peak THEN equity ELSE risk.peak
               net == [risk.positions EXCEPT ![s] = risk.positions[s] + Signed(o.side, TradeQty)]
    <3>1. risk' = [risk EXCEPT !.positions = net, !.equity = equity, !.peak = peak]
      BY <2>1 DEF RiskRecordFill, LotInv
    <3>2. equity \in Int /\ peak \in Int /\ net \in [Symbols -> Int]
      BY <2>2, <2>4 DEF LotInv
    <3> HIDE DEF equity, peak, net
    <3>3. risk' \in [positions : [Symbols -> Int], equity : Int, peak : Int,
                    halted : BOOLEAN, probed : BOOLEAN]
          /\ risk'.positions = net
      BY <3>1, <3>2 DEF LotInv
    <3> QED BY <3>3 DEF net
  <2>6. risk'.positions[s] = pos[s] /\ \A r \in Symbols \ {s} : risk'.positions[r] = risk.positions[r]
    BY <2>3, <2>4, <2>5 DEF LotInv
  <2>7. fill'[s] = None /\ \A r \in Symbols \ {s} : fill'[r] = fill[r]
    BY <2>1 DEF HandoverInv
  <2> QED BY <2>1, <2>5, <2>6, <2>7 DEF LotInv
<1> QED BY <1>2, <1>3, <1>4, <1>5, <1>6 DEF Next, Executor

RiskAgrees ==
  /\ pos \in [Symbols -> Held]
  /\ \A s \in Symbols : fill[s] = None => risk.positions[s] = pos[s]
  /\ pc = "ended" /\ Launched => risk.positions = pos

(* An executor never holds more than one lot, the risk checker knows its   *)
(* position whenever no order is under way, and at the end of a run the    *)
(* two agree for every symbol, whatever failed in between (executor.go,    *)
(* handleL2; checker.go, RecordFill).                                      *)
THEOREM RiskAgreesHolds == Spec => []RiskAgrees
<1>1. HandoverInv /\ StageInv /\ LotInv => RiskAgrees
  <2> SUFFICES ASSUME HandoverInv, StageInv, LotInv, pc = "ended", Launched
               PROVE  risk.positions = pos
    BY DEF RiskAgrees, LotInv
  <2>1. \A s \in Symbols : fill[s] = None
    BY DEF StageInv, AllOff, AllStopped, ExecutorsStopped, Launched
  <2>2. \A s \in Symbols : risk.positions[s] = pos[s]
    BY <2>1 DEF LotInv
  <2>3. risk.positions \in [Symbols -> Int] /\ pos \in [Symbols -> Int]
    BY QtyAssumption DEF LotInv, Held
  <2> QED BY <2>2, <2>3
<1> QED BY <1>1, LotInit, LotStep, StagesAlways, PTL DEF Spec

-------------------------------------------------------------------------------
(* Losses beyond a limit.                                                  *)

(* The symbols that have seen an entry, and those with an order that was   *)
(* let through and is not recorded yet.                                    *)
Traded == {s \in Symbols : read[s] > 0}

Underway == {s \in Symbols : fill[s] # None}

(* What was recorded since an order was last let through: at most one fill *)
(* for each of this many symbols.                                          *)
Spent == Cardinality(Traded) - Cardinality(Underway)

Cost(o) == Signed(o.side, TradeQty * o.price) + o.fee

Within(limit) == risk.equity * 100 >= limit - 100 * Spent * DearestFill

OvershootInv ==
  /\ IsFiniteSet(Traded) /\ Underway \subseteq Traded
  /\ \A s \in Underway : Cost(fill[s].order) <= DearestFill
  /\ risk.peak >= 0
  /\ RunLossLimitPct > 0 => Within(InitialCapital * (100 - RunLossLimitPct))
  /\ MaxDrawdownPct > 0 => Within(risk.peak * (100 - MaxDrawdownPct))

(* The dearest purchase exists: prices are bounded.                        *)
PricesBounded == \E e \in Entries : \A f \in Entries : BuyCost(f) <= BuyCost(e)

(* A fee is at most the value of the trade, so that a sale costs nothing.  *)
FeesBounded == TakerFeeBps <= BasisPoints

LEMMA BuyCostType ==
  ASSUME NEW e \in Entries
  PROVE  BuyCost(e) \in Nat
<1>2. e.bid \in Nat /\ e.ask \in Nat
  BY EntriesAssumption
<1> DEFINE price == FillPrice("buy", e)
<1>3. price \in Nat
  <2>1. BasisPoints + SlippageBps \in Nat /\ BasisPoints \in Nat
    BY BasisPointsAssumption, SlippageAssumption
  <2>2. e.ask * (BasisPoints + SlippageBps) \in Nat
    BY <1>2, <2>1
  <2> QED BY <2>1, <2>2 DEF FillPrice
<1> HIDE DEF price
<1>4. TradeQty * price \in Nat /\ Fee(TradeQty, price) \in Nat
  <2>1. TradeQty * price \in Nat
    BY <1>3, QtyAssumption
  <2>2. TradeQty * price * TakerFeeBps \in Nat
    BY <2>1, FeeAssumption
  <2> QED BY <2>1, <2>2, BasisPointsAssumption DEF Fee
<1> QED BY <1>4 DEF BuyCost, price

LEMMA DearestIs ==
  ASSUME PricesBounded
  PROVE  DearestFill \in Nat /\ \A e \in Entries : BuyCost(e) <= DearestFill
<1> DEFINE costs == {BuyCost(e) : e \in Entries}
<1>1. PICK e \in Entries : \A f \in Entries : BuyCost(f) <= BuyCost(e)
  BY DEF PricesBounded
<1>2. BuyCost(e) \in costs /\ \A d \in costs : d <= BuyCost(e)
  BY <1>1
<1>3. DearestFill \in costs /\ \A d \in costs : d <= DearestFill
  <2> HIDE DEF costs
  <2>1. DearestFill = CHOOSE c \in costs : \A d \in costs : d <= c
    BY DEF DearestFill, costs
  <2> QED BY <1>2, <2>1
<1> QED BY <1>3, BuyCostType

(* No fill costs more than the dearest.                                    *)
LEMMA FillCost ==
  ASSUME PricesBounded, FeesBounded, NEW s \in Symbols, NEW side \in Sides, NEW e \in Entries
  PROVE  Cost(NewOrder(s, side, e)) <= DearestFill
<1> DEFINE price == FillPrice(side, e)
           value == TradeQty * price
<1>1. NewOrder(s, side, e).side = side /\ NewOrder(s, side, e).price = price
      /\ NewOrder(s, side, e).fee = Fee(TradeQty, price)
  BY DEF NewOrder
<1>2. price \in Nat /\ Fee(TradeQty, price) \in Nat
  BY OrderType DEF NewOrder, Orders
<1>3. CASE side = "buy"
  BY <1>1, <1>3, DearestIs DEF Cost, Signed, BuyCost
<1>4. CASE side = "sell"
  <2>1. value \in Nat
    BY <1>2, QtyAssumption
  <2>2. Fee(TradeQty, price) <= value
    <3>1. Fee(TradeQty, price) = (value * TakerFeeBps) \div BasisPoints
      BY DEF Fee
    <3>2. BasisPoints \in Nat \ {0} /\ TakerFeeBps \in Nat /\ TakerFeeBps <= BasisPoints
      BY BasisPointsAssumption, FeeAssumption DEF FeesBounded
    <3> HIDE DEF value
    <3>3. value * TakerFeeBps <= value * BasisPoints /\ value * TakerFeeBps \in Nat
      BY <2>1, <3>2
    <3> DEFINE q == (value * TakerFeeBps) \div BasisPoints
    <3>4. q \in Nat /\ q * BasisPoints <= value * TakerFeeBps
      BY <3>2, <3>3
    <3> HIDE DEF q
    <3>5. q * BasisPoints <= value * BasisPoints
      BY <2>1, <3>2, <3>3, <3>4
    <3>6. q <= value
      BY <2>1, <3>2, <3>4, <3>5
    <3> QED BY <3>1, <3>6 DEF q
  <2>3. Cost(NewOrder(s, side, e)) <= 0
    BY <1>1, <1>2, <1>4, <2>1, <2>2 DEF Cost, Signed
  <2>4. Cost(NewOrder(s, side, e)) \in Int
    BY <1>1, <1>2, <1>4, <2>1 DEF Cost, Signed
  <2> QED BY <2>3, <2>4, DearestIs
<1> QED BY <1>3, <1>4 DEF Sides

LEMMA Slack ==
  ASSUME NEW n \in Int, NEW m \in Int, NEW d \in Nat
  PROVE  /\ 100 * n * d \in Int /\ 100 * (n + 1) * d = 100 * n * d + 100 * d
         /\ n <= m => 100 * n * d <= 100 * m * d
<1>1. n * d \in Int /\ m * d \in Int /\ (n + 1) * d = n * d + d
  OBVIOUS
<1>2. n <= m => n * d <= m * d
  OBVIOUS
<1>3. 100 * n * d = 100 * (n * d) /\ 100 * m * d = 100 * (m * d)
      /\ 100 * (n + 1) * d = 100 * ((n + 1) * d)
  OBVIOUS
<1> QED BY <1>1, <1>2, <1>3

(* What the accounts of a step do to how far equity may be below a limit.  *)
LEMMA WithinKept ==
  ASSUME PricesBounded, NEW limit \in Int, NEW old \in Int, NEW n \in Int, NEW m \in Int, n <= m,
         old * 100 >= limit - 100 * n * DearestFill
  PROVE  old * 100 >= limit - 100 * m * DearestFill
<1> DEFINE a == 100 * n * DearestFill
           b == 100 * m * DearestFill
<1>1. a \in Int /\ b \in Int /\ a <= b
  BY DearestIs, Slack
<1> HIDE DEF a, b
<1>2. old * 100 >= limit - a => old * 100 >= limit - b
  BY <1>1
<1> QED BY <1>2 DEF a, b

LEMMA WithinLimit ==
  ASSUME PricesBounded, NEW limit \in Int, NEW old \in Int, NEW m \in Nat, old * 100 >= limit
  PROVE  old * 100 >= limit - 100 * m * DearestFill
<1> DEFINE a == 100 * m * DearestFill
<1>1. a \in Nat
  BY DearestIs
<1> HIDE DEF a
<1>2. old * 100 >= limit - a
  BY <1>1
<1> QED BY <1>2 DEF a

LEMMA WithinSpent ==
  ASSUME PricesBounded, NEW limit \in Int, NEW old \in Int, NEW new \in Int, NEW n \in Int,
         new >= old - DearestFill, old * 100 >= limit - 100 * n * DearestFill
  PROVE  new * 100 >= limit - 100 * (n + 1) * DearestFill
<1> DEFINE a == 100 * n * DearestFill
           b == 100 * (n + 1) * DearestFill
<1>1. a \in Int /\ b = a + 100 * DearestFill /\ DearestFill \in Nat
  BY DearestIs, Slack
<1> HIDE DEF a, b
<1>2. old * 100 >= limit - a => new * 100 >= limit - b
  BY <1>1
<1> QED BY <1>2 DEF a, b

LEMMA SpentType ==
  ASSUME IsFiniteSet(Traded), Underway \subseteq Traded
  PROVE  /\ IsFiniteSet(Underway) /\ Cardinality(Traded) \in Nat /\ Cardinality(Underway) \in Nat
         /\ Spent \in Nat
<1>1. IsFiniteSet(Underway) /\ Cardinality(Underway) <= Cardinality(Traded)
  BY FS_Subset
<1>2. Cardinality(Traded) \in Nat /\ Cardinality(Underway) \in Nat
  BY <1>1, FS_CardinalityType
<1> QED BY <1>1, <1>2 DEF Spent

LEMMA LimitTypes ==
  ASSUME LotInv
  PROVE  /\ risk.equity \in Int /\ risk.peak \in Int
         /\ InitialCapital * (100 - RunLossLimitPct) \in Int
         /\ risk.peak * (100 - MaxDrawdownPct) \in Int
<1>1. risk.equity \in Int /\ risk.peak \in Int
  BY DEF LotInv
<1>2. 100 - RunLossLimitPct \in Int /\ 100 - MaxDrawdownPct \in Int /\ InitialCapital \in Int
  BY RunLossAssumption, DrawdownAssumption, CapitalAssumption
<1> QED BY <1>1, <1>2

(* An order is let through only while equity is at the limits or above. *)
LEMMA OvershootHandled ==
  ASSUME PricesBounded, FeesBounded, HandoverInv, LotInv, OvershootInv,
         NEW s \in Symbols, HandleL2(s)
  PROVE  OvershootInv'
<1>1. PICK entry \in Entries :
        LET side    == TradeDecision(entry.wants, pos[s])
            verdict == IF side = "none" THEN "none" ELSE Verdict(risk, s, side, TradeQty)
        IN  /\ risk' = [risk EXCEPT !.halted = @ \/ verdict = "trip"]
            /\ IF verdict = "ok" /\ Fillable(side, entry)
               THEN fill' = [fill EXCEPT ![s] = [order |-> NewOrder(s, side, entry),
                                                 sent  |-> FALSE]]
               ELSE UNCHANGED fill
  BY DEF HandleL2
<1>2. risk'.equity = risk.equity /\ risk'.peak = risk.peak
  BY <1>1 DEF LotInv
<1>3. /\ fill[s] = None /\ read' = [read EXCEPT ![s] = @ + 1]
      /\ fill \in [Symbols -> Fills \cup {None}] /\ read \in [Symbols -> Nat]
  BY DEF HandleL2, Handling, HandoverInv
<1>4. Traded' = Traded \cup {s}
  <2>1. \A r \in Symbols : read'[r] = IF r = s THEN read[s] + 1 ELSE read[r]
    BY <1>3
  <2>2. \A r \in Symbols : read'[r] > 0 <=> (read[r] > 0 \/ r = s)
    BY <1>3, <2>1
  <2> QED BY <2>2 DEF Traded
<1>5. IsFiniteSet(Traded') /\ Cardinality(Traded') \in Nat /\ Cardinality(Traded) <= Cardinality(Traded')
  BY <1>4, FS_AddElement, SpentType DEF OvershootInv
<1>6. CASE UNCHANGED fill
  <2>1. Underway' = Underway /\ Spent \in Int
    BY <1>6, SpentType DEF Underway, OvershootInv
  <2>2. Spent' \in Int /\ Spent <= Spent'
    BY <1>5, <2>1, SpentType DEF Spent, OvershootInv
  <2>3. RunLossLimitPct > 0 => Within(InitialCapital * (100 - RunLossLimitPct))'
    BY <1>2, <2>1, <2>2, WithinKept, LimitTypes DEF Within, OvershootInv
  <2>4. MaxDrawdownPct > 0 => Within(risk.peak * (100 - MaxDrawdownPct))'
    BY <1>2, <2>1, <2>2, WithinKept, LimitTypes DEF Within, OvershootInv
  <2> QED BY <1>2, <1>4, <1>5, <1>6, <2>1, <2>3, <2>4 DEF OvershootInv
<1>7. ASSUME NEW side \in Sides, Verdict(risk, s, side, TradeQty) = "ok",
             fill' = [fill EXCEPT ![s] = [order |-> NewOrder(s, side, entry), sent |-> FALSE]]
      PROVE  OvershootInv'
  <2> DEFINE new == [order |-> NewOrder(s, side, entry), sent |-> FALSE]
  <2>1. new # None /\ new.order = NewOrder(s, side, entry)
    <3>1. new \in Fills
      BY OrderType DEF Fills
    <3> HIDE DEF new
    <3>2. new # None
      BY <3>1, NoneAssumption
    <3> QED BY <3>2 DEF new
  <2> HIDE DEF new
  <2>2. \A r \in Symbols : fill'[r] = IF r = s THEN new ELSE fill[r]
    BY <1>3, <1>7 DEF new
  <2>3. Underway' = Underway \cup {s}
    BY <2>1, <2>2 DEF Underway
  <2>4. Underway' \subseteq Traded'
    BY <1>4, <2>3 DEF OvershootInv
  <2>5. Spent' \in Nat
    <3>1. IsFiniteSet(Underway') /\ Cardinality(Underway') <= Cardinality(Traded')
      BY <1>5, <2>4, FS_Subset
    <3>2. Cardinality(Underway') \in Nat
      BY <3>1, FS_CardinalityType
    <3> QED BY <1>5, <3>1, <3>2 DEF Spent
  <2>6. \A r \in Underway' : Cost(fill'[r].order) <= DearestFill
    <3>1. Cost(new.order) <= DearestFill
      BY <1>7, <2>1, FillCost
    <3>2. ASSUME NEW r \in Underway', r # s PROVE Cost(fill'[r].order) <= DearestFill
      <4>1. r \in Underway /\ fill'[r] = fill[r] 
        BY <2>2, <2>3, <3>2 DEF Underway
      <4> QED BY <4>1 DEF OvershootInv
    <3> QED BY <2>2, <3>1, <3>2
  <2>7. ~DrawdownBreached(risk) /\ ~RunLossBreached(risk)
    BY <1>7 DEF Verdict
  <2>8. RunLossLimitPct > 0 => Within(InitialCapital * (100 - RunLossLimitPct))'
    <3> SUFFICES ASSUME RunLossLimitPct > 0
                 PROVE  risk.equity * 100 >= InitialCapital * (100 - RunLossLimitPct) - 100 * Spent' * DearestFill
      BY <1>2 DEF Within
    <3> DEFINE limit == InitialCapital * (100 - RunLossLimitPct)
               spent == Spent'
    <3>1. limit \in Int /\ spent \in Nat /\ risk.equity \in Int
      BY <2>5, LimitTypes
    <3>2. risk.equity * 100 >= limit
      BY <2>7, LimitTypes DEF RunLossBreached
    <3> HIDE DEF limit, spent
    <3>3. risk.equity * 100 >= limit - 100 * spent * DearestFill
      BY <3>1, <3>2, WithinLimit
    <3> QED BY <3>3 DEF limit, spent
  <2>9. MaxDrawdownPct > 0 => Within(risk.peak * (100 - MaxDrawdownPct))'
    <3> SUFFICES ASSUME MaxDrawdownPct > 0
                 PROVE  risk.equity * 100 >= risk.peak * (100 - MaxDrawdownPct) - 100 * Spent' * DearestFill
      BY <1>2 DEF Within
    <3> DEFINE limit == risk.peak * (100 - MaxDrawdownPct)
               spent == Spent'
    <3>1. limit \in Int /\ spent \in Nat /\ risk.equity \in Int
      BY <2>5, LimitTypes
    <3>2. risk.equity * 100 >= limit
      BY <2>7, LimitTypes DEF DrawdownBreached
    <3> HIDE DEF limit, spent
    <3>3. risk.equity * 100 >= limit - 100 * spent * DearestFill
      BY <3>1, <3>2, WithinLimit
    <3> QED BY <3>3 DEF limit, spent
  <2> QED BY <1>2, <1>5, <2>4, <2>6, <2>8, <2>9 DEF OvershootInv
<1> DEFINE decided == TradeDecision(entry.wants, pos[s])
<1>8. CASE decided = "none"
  BY <1>1, <1>6, <1>8
<1>9. CASE decided # "none"
  <2>1. decided \in Sides
    BY <1>9, DecisionType
  <2> HIDE DEF decided
  <2> QED BY <1>1, <1>6, <1>7, <1>9, <2>1 DEF decided
<1> QED BY <1>8, <1>9

LEMMA OvershootRecorded ==
  ASSUME PricesBounded, HandoverInv, LotInv, OvershootInv, NEW s \in Symbols, RecordFill(s)
  PROVE  OvershootInv'
<1> DEFINE o == fill[s].order
<1>1. /\ fill[s] # None /\ fill' = [fill EXCEPT ![s] = None] /\ read' = read
      /\ risk' = RiskRecordFill(risk, s, o.side, TradeQty, o.price, o.fee)
      /\ fill \in [Symbols -> Fills \cup {None}]
  BY DEF RecordFill, HandoverInv
<1>2. o.side \in Sides /\ o.price \in Nat /\ o.fee \in Nat
  BY <1>1 DEF HandoverInv, Fills, Orders
<1>3. s \in Underway /\ Cost(o) <= DearestFill
  BY <1>1 DEF Underway, OvershootInv
<1> HIDE DEF o
<1>4. Signed(o.side, TradeQty * o.price) \in Int
  BY <1>2, QtyAssumption DEF Signed
<1> DEFINE equity == risk.equity - Signed(o.side, TradeQty * o.price) - o.fee
<1>5. /\ equity \in Int /\ equity >= risk.equity - DearestFill
      /\ risk'.equity = equity /\ risk'.peak = IF equity > risk.peak THEN equity ELSE risk.peak
  <2>1. equity \in Int /\ equity = risk.equity - Cost(o) /\ Cost(o) \in Int
    BY <1>2, <1>4, LimitTypes DEF Cost
  <2>2. risk'.equity = equity /\ risk'.peak = IF equity > risk.peak THEN equity ELSE risk.peak
    BY <1>1 DEF RiskRecordFill, LotInv
  <2> HIDE DEF equity
  <2> QED BY <1>3, <2>1, <2>2, DearestIs, LimitTypes
<1> HIDE DEF equity
<1>6. Traded' = Traded /\ Underway' = Underway \ {s}
  BY <1>1 DEF Traded, Underway
<1>7. Spent \in Nat /\ Spent' = Spent + 1
  <2>1. Cardinality(Underway') = Cardinality(Underway) - 1
    BY <1>3, <1>6, SpentType, FS_RemoveElement DEF OvershootInv
  <2> QED BY <1>6, <2>1, SpentType DEF Spent, OvershootInv
<1>8. RunLossLimitPct > 0 => Within(InitialCapital * (100 - RunLossLimitPct))'
  BY <1>5, <1>7, WithinSpent, LimitTypes DEF Within, OvershootInv
<1>9. MaxDrawdownPct > 0 => Within(risk.peak * (100 - MaxDrawdownPct))'
  <2> SUFFICES ASSUME MaxDrawdownPct > 0
               PROVE  equity * 100 >= risk'.peak * (100 - MaxDrawdownPct) - 100 * (Spent + 1) * DearestFill
    BY <1>5, <1>7 DEF Within
  <2>1. CASE risk'.peak = risk.peak
    BY <1>5, <1>7, <2>1, WithinSpent, LimitTypes DEF Within, OvershootInv
  <2>2. CASE risk'.peak = equity /\ equity > risk.peak
    <3>1. equity \in Nat
      BY <1>5, <2>2, LimitTypes DEF OvershootInv
    <3>2. MaxDrawdownPct \in 0 .. 100
      BY DrawdownAssumption
    <3>3. equity * 100 >= equity * (100 - MaxDrawdownPct)
      BY <3>1, <3>2
    <3>4. 100 * (Spent + 1) * DearestFill \in Nat
      BY <1>7, DearestIs
    <3>5. equity * (100 - MaxDrawdownPct) \in Int
      BY <3>1, <3>2
    <3> QED BY <2>2, <3>1, <3>3, <3>4, <3>5
  <2> QED BY <1>5, <2>1, <2>2
<1>10. risk'.peak >= 0
  BY <1>5, LimitTypes DEF OvershootInv
<1>11. \A r \in Underway' : Cost(fill'[r].order) <= DearestFill
  BY <1>1, <1>6 DEF OvershootInv, Underway
<1> QED BY <1>6, <1>8, <1>9, <1>10, <1>11 DEF OvershootInv

LEMMA OvershootStep ==
  ASSUME PricesBounded, FeesBounded, HandoverInv, LotInv, OvershootInv, [Next]_vars
  PROVE  OvershootInv'
<1>1. ASSUME UNCHANGED <<read, risk>>, Underway' = Underway,
             \A s \in Underway : fill'[s].order = fill[s].order
      PROVE  OvershootInv'
  <2>1. Traded' = Traded /\ Spent' = Spent
    BY <1>1 DEF Traded, Spent
  <2> QED BY <1>1, <2>1 DEF OvershootInv, Within
<1>2. CASE Cancel \/ Runner \/ Collector \/ UNCHANGED vars
  <2>1. UNCHANGED <<read, risk, fill>>
    BY <1>2
       DEF Cancel, Runner, CreateRun, MarkRunning, StartReplay, AwaitEngines, AwaitExecutor,
           AwaitCollector, Report, ComputeMetrics, MarkEnd, Wait, Collector, HandleOrder,
           StopCollector, vars, executor
  <2> QED BY <1>1, <2>1 DEF Underway
<1>3. ASSUME NEW s \in Symbols, Engine(s) \/ StopExecutor(s) PROVE OvershootInv'
  <2>1. UNCHANGED <<read, risk, fill>>
    BY <1>3 DEF Engine, PublishL2, EndEngine, StopExecutor, executor
  <2> QED BY <1>1, <2>1 DEF Underway
<1>4. ASSUME NEW s \in Symbols, PublishOrder(s) PROVE OvershootInv'
  <2>1. /\ fill[s] # None /\ fill' = [fill EXCEPT ![s].sent = TRUE] /\ UNCHANGED <<read, risk>>
        /\ fill \in [Symbols -> Fills \cup {None}]
    BY <1>4 DEF PublishOrder, HandoverInv
  <2>2. fill'[s] \in Fills /\ fill'[s].order = fill[s].order
        /\ \A r \in Symbols \ {s} : fill'[r] = fill[r]
    BY <2>1 DEF Fills
  <2>3. fill'[s] # None
    BY <2>2, NoneAssumption
  <2> QED BY <1>1, <2>1, <2>2, <2>3 DEF Underway
<1> QED BY <1>2, <1>3, <1>4, OvershootHandled, OvershootRecorded DEF Next, Executor

(* Equity falls below a limit on losses by at most the dearest fill for    *)
(* each symbol that trades, however the executors interleave: an order is  *)
(* let through only at or above the limits, and each executor has one      *)
(* under way (executor.go, handleL2; checker.go, CanTrade, RecordFill). It *)
(* is assumed that prices are bounded and that a fee is not above the      *)
(* value it is charged on.                                                 *)
THEOREM OvershootBoundedHolds ==
  ASSUME PricesBounded, FeesBounded
  PROVE  Spec => []OvershootBounded
<1>1. Init => OvershootInv
  <2> SUFFICES ASSUME Init PROVE OvershootInv
    OBVIOUS
  <2>1. Traded = {} /\ Underway = {} /\ risk.equity = InitialCapital /\ risk.peak = InitialCapital
    BY DEF Init, Traded, Underway, NewChecker
  <2>2. Spent = 0 /\ IsFiniteSet({})
    BY <2>1, FS_EmptySet DEF Spent
  <2>3. 100 * 0 * DearestFill = 0
    BY DearestIs
  <2>4. /\ RunLossLimitPct > 0 => InitialCapital * 100 >= InitialCapital * (100 - RunLossLimitPct)
        /\ MaxDrawdownPct > 0 => InitialCapital * 100 >= InitialCapital * (100 - MaxDrawdownPct)
    BY CapitalAssumption, RunLossAssumption, DrawdownAssumption
  <2>5. InitialCapital * (100 - RunLossLimitPct) \in Int /\ InitialCapital * (100 - MaxDrawdownPct) \in Int
    BY CapitalAssumption, RunLossAssumption, DrawdownAssumption
  <2> QED BY <2>1, <2>2, <2>3, <2>4, <2>5, CapitalAssumption DEF OvershootInv, Within
<1>2. LotInv /\ OvershootInv => OvershootBounded
  <2> SUFFICES ASSUME LotInv, OvershootInv PROVE OvershootBounded
    OBVIOUS
  <2> DEFINE all == Cardinality(Traded)
  <2>1. all \in Int /\ Spent \in Int /\ Spent <= all
    BY SpentType DEF Spent, OvershootInv
  <2> HIDE DEF all
  <2>2. /\ RunLossLimitPct > 0 =>
             risk.equity * 100 >= InitialCapital * (100 - RunLossLimitPct) - 100 * all * DearestFill
        /\ MaxDrawdownPct > 0 =>
             risk.equity * 100 >= risk.peak * (100 - MaxDrawdownPct) - 100 * all * DearestFill
    BY <2>1, WithinKept, LimitTypes DEF OvershootInv, Within
  <2> QED BY <2>2 DEF OvershootBounded, Traded, all
<1>3. HandoverInv /\ LotInv /\ OvershootInv /\ [Next]_vars => OvershootInv'
  BY OvershootStep
<1> QED BY <1>1, <1>2, <1>3, LotInit, LotStep, StagesAlways, PTL DEF Spec

-------------------------------------------------------------------------------
(* The three accounts of a run.                                            *)

(* What the first n of a sequence of orders add up to, each weighed by w.  *)
Total(w, q, n) == SumFunction([i \in 1 .. n |-> w[q[i]]])

Costs == [o \in Orders |-> Cost(o)]

Lots == [s \in Symbols |-> [o \in Orders |-> IF o.symbol = s THEN Signed(o.side, TradeQty) ELSE 0]]

(* What the risk checker is still to be told of the orders published.      *)
Unrecorded(fs) ==
  [s \in Symbols |-> IF fs[s] # None /\ fs[s].sent THEN Cost(fs[s].order) ELSE 0]

(* What an executor holds and has not published yet. *)
Unsent(s) == IF fill[s] # None /\ ~fill[s].sent THEN Signed(fill[s].order.side, TradeQty) ELSE 0

(* The accounts follow the orders: the collector's those it has handled,   *)
(* whatever fails; the others those published, but for what is under way.  *)
TrackerInv ==
  /\ tracker \in [cash : Int, positions : [Symbols -> Int], marks : [Symbols -> Int]]
  /\ tracker.cash = InitialCapital - Total(Costs, orders, collected)
  /\ \A s \in Symbols : tracker.positions[s] = Total(Lots[s], orders, collected)

BooksInv ==
  /\ \A s \in Symbols : fill[s] # None => fill[s].order.symbol = s
  /\ faults = 0 =>
       /\ risk.equity = InitialCapital - Total(Costs, orders, Len(orders)) + SumFunction(Unrecorded(fill))
       /\ \A s \in Symbols : pos[s] = Total(Lots[s], orders, Len(orders)) + Unsent(s)

LEMMA WeightTypes == Costs \in [Orders -> Int] /\ \A s \in Symbols : Lots[s] \in [Orders -> Int]
<1>1. ASSUME NEW o \in Orders PROVE Cost(o) \in Int
  <2>1. TradeQty * o.price \in Int /\ o.fee \in Int
    BY QtyAssumption DEF Orders
  <2> QED BY <2>1 DEF Cost, Signed
<1>2. ASSUME NEW o \in Orders PROVE Signed(o.side, TradeQty) \in Int
  BY QtyAssumption DEF Signed
<1> QED BY <1>1, <1>2 DEF Costs, Lots

LEMMA Totals ==
  ASSUME NEW w \in [Orders -> Int], NEW q \in Seq(Orders), NEW n \in 0 .. Len(q)
  PROVE  /\ Total(w, q, n) \in Int /\ Total(w, q, 0) = 0
         /\ n < Len(q) => Total(w, q, n + 1) = Total(w, q, n) + w[q[n + 1]]
<1>1. n \in Nat /\ \A i \in 1 .. n : q[i] \in Orders
  OBVIOUS
<1> DEFINE f == [i \in 1 .. n |-> w[q[i]]]
<1>2. f \in [1 .. n -> Int] /\ IsFiniteSet(1 .. n)
  BY <1>1, FS_Interval
<1>3. Total(w, q, n) \in Int
  <2> HIDE DEF f
  <2>1. SumFunction(f) \in Int
    BY <1>2, SumType
  <2> QED BY <2>1 DEF Total, f
<1>4. Total(w, q, 0) = 0
  <2> DEFINE g == [i \in 1 .. 0 |-> w[q[i]]]
  <2>1. DOMAIN g = {}
    OBVIOUS
  <2> HIDE DEF g
  <2>2. SumFunction(g) = 0
    BY <2>1, SumOfNone
  <2> QED BY <2>2 DEF Total, g
<1>5. ASSUME n < Len(q)
      PROVE  Total(w, q, n + 1) = Total(w, q, n) + w[q[n + 1]]
  <2> DEFINE g == [i \in 1 .. n + 1 |-> w[q[i]]]
  <2>1. \A i \in 1 .. n + 1 : q[i] \in Orders
    BY <1>1, <1>5
  <2>2. g \in [1 .. n + 1 -> Int] /\ (\A i \in 1 .. n : f[i] = g[i]) /\ g[n + 1] = w[q[n + 1]]
    BY <1>1, <2>1
  <2> HIDE DEF f, g
  <2>3. SumFunction(g) = SumFunction(f) + g[n + 1]
    BY <1>1, <1>2, <2>2, SumAppended
  <2> QED BY <2>2, <2>3 DEF Total, f, g
<1> QED BY <1>3, <1>4, <1>5

(* An order published at the end of the stream.                            *)
LEMMA TotalAppended ==
  ASSUME NEW w \in [Orders -> Int], NEW q \in Seq(Orders), NEW x \in Orders
  PROVE  /\ \A n \in 0 .. Len(q) : Total(w, Append(q, x), n) = Total(w, q, n)
         /\ Total(w, Append(q, x), Len(Append(q, x))) = Total(w, q, Len(q)) + w[x]
<1> DEFINE r == Append(q, x)
<1>1. /\ r \in Seq(Orders) /\ Len(q) \in Nat /\ Len(r) = Len(q) + 1
      /\ (\A i \in 1 .. Len(q) : r[i] = q[i]) /\ r[Len(q) + 1] = x
  BY Appends
<1> HIDE DEF r
<1>2. ASSUME NEW n \in 0 .. Len(q) PROVE Total(w, r, n) = Total(w, q, n)
  <2>1. \A i \in 1 .. n : r[i] = q[i]
    BY <1>1
  <2>2. [i \in 1 .. n |-> w[r[i]]] = [i \in 1 .. n |-> w[q[i]]]
    BY <2>1
  <2> QED BY <2>2 DEF Total
<1>3. Total(w, r, Len(q) + 1) = Total(w, r, Len(q)) + w[r[Len(q) + 1]]
  <2>1. Len(q) \in 0 .. Len(r) /\ Len(q) < Len(r)
    BY <1>1
  <2> QED BY <1>1, <2>1, Totals
<1> QED BY <1>1, <1>2, <1>3 DEF r

LEMMA UnrecordedChanges ==
  ASSUME NEW f \in [Symbols -> Fills \cup {None}], NEW g \in [Symbols -> Fills \cup {None}],
         NEW s \in Symbols, \A r \in Symbols \ {s} : f[r] = g[r]
  PROVE  /\ SumFunction(Unrecorded(f)) \in Int
         /\ SumFunction(Unrecorded(g)) = SumFunction(Unrecorded(f)) - Unrecorded(f)[s] + Unrecorded(g)[s]
<1>1. ASSUME NEW h \in [Symbols -> Fills \cup {None}]
      PROVE  Unrecorded(h) \in [Symbols -> Int]
  <2>1. ASSUME NEW r \in Symbols, h[r] # None PROVE Cost(h[r].order) \in Int
    <3>1. h[r] \in Fills
      BY <2>1
    <3>2. h[r].order \in Orders
      BY <3>1 DEF Fills
    <3> QED BY <3>2, WeightTypes DEF Costs
  <2> QED BY <2>1 DEF Unrecorded
<1>2. Unrecorded(f) \in [Symbols -> Int] /\ Unrecorded(g) \in [Symbols -> Int]
  BY <1>1
<1>3. \A r \in Symbols \ {s} : Unrecorded(f)[r] = Unrecorded(g)[r]
  BY DEF Unrecorded
<1> QED BY <1>2, <1>3, SumType, SumChanged, SymbolsAssumption

(* The stream of orders grows by one when a call succeeds.                 *)
LEMMA OrderPublished ==
  ASSUME HandoverInv, NEW s \in Symbols, PublishOrder(s)
  PROVE  /\ fill[s] \in Fills /\ ~fill[s].sent /\ fill[s].order \in Orders
         /\ orders' = orders \/ orders' = Append(orders, fill[s].order)
         /\ faults' = 0 => faults = 0 /\ orders' = Append(orders, fill[s].order)
         /\ fill'[s] = [order |-> fill[s].order, sent |-> TRUE] /\ fill'[s] \in Fills /\ fill'[s] # None
         /\ \A r \in Symbols \ {s} : fill'[r] = fill[r]
<1>1. fill[s] \in Fills /\ fill \in [Symbols -> Fills \cup {None}]
  BY DEF PublishOrder, HandoverInv
<1>2. fill' = [fill EXCEPT ![s].sent = TRUE] /\ ~fill[s].sent
  BY DEF PublishOrder
<1>3. fill'[s] = [order |-> fill[s].order, sent |-> TRUE]
  BY <1>1, <1>2 DEF Fills
<1>4. fill[s].order \in Orders
  BY <1>1 DEF Fills
<1>5. fill'[s] \in Fills
  BY <1>3, <1>4 DEF Fills
<1>6. fill'[s] # None
  BY <1>5, NoneAssumption
<1>7. \A r \in Symbols \ {s} : fill'[r] = fill[r]
  BY <1>1, <1>2
<1>8. /\ orders' = orders \/ orders' = Append(orders, fill[s].order)
      /\ faults' = 0 => faults = 0 /\ orders' = Append(orders, fill[s].order)
  BY FaultCounts DEF PublishOrder, Succeeds, HandoverInv
<1> QED BY <1>1, <1>2, <1>3, <1>4, <1>5, <1>6, <1>7, <1>8

LEMMA TrackerStep == HandoverInv /\ TrackerInv /\ [Next]_vars => TrackerInv'
<1> SUFFICES ASSUME HandoverInv, TrackerInv, [Next]_vars PROVE TrackerInv'
  OBVIOUS
<1>1. ASSUME UNCHANGED <<orders, collected, tracker>>
      PROVE  TrackerInv'
  BY <1>1 DEF TrackerInv
<1>2. CASE Cancel \/ Runner \/ StopCollector \/ UNCHANGED vars
  BY <1>1, <1>2
     DEF Cancel, Runner, CreateRun, MarkRunning, StartReplay, AwaitEngines, AwaitExecutor,
         AwaitCollector, Report, ComputeMetrics, MarkEnd, Wait, StopCollector, vars, streams, collector
<1>3. ASSUME NEW s \in Symbols, Engine(s) \/ HandleL2(s) \/ RecordFill(s) \/ StopExecutor(s)
      PROVE  TrackerInv'
  BY <1>1, <1>3 DEF Engine, PublishL2, EndEngine, HandleL2, RecordFill, StopExecutor, streams, collector
<1>4. ASSUME NEW s \in Symbols, PublishOrder(s) PROVE TrackerInv'
  <2>1. UNCHANGED <<collected, tracker>>
    BY <1>4 DEF PublishOrder, collector
  <2>2. CASE orders' = orders
    BY <1>1, <2>1, <2>2
  <2> DEFINE o == fill[s].order
  <2>3. o \in Orders /\ orders \in Seq(Orders) /\ collected \in 0 .. Len(orders)
    BY <1>4, OrderPublished DEF HandoverInv
  <2> HIDE DEF o
  <2>4. CASE orders' = Append(orders, o)
    <3>1. \A w \in [Orders -> Int] : Total(w, orders', collected') = Total(w, orders, collected)
      BY <2>1, <2>3, <2>4, TotalAppended
    <3> QED BY <2>1, <3>1, WeightTypes DEF TrackerInv
  <2> QED BY <1>4, <2>2, <2>4, OrderPublished DEF o
<1>5. CASE HandleOrder
  <2> DEFINE o == orders[collected + 1]
  <2>1. /\ collected < Len(orders) /\ collected' = collected + 1 /\ orders' = orders
        /\ tracker' = Track(tracker, o)
    BY <1>5 DEF HandleOrder, streams
  <2>2. orders \in Seq(Orders) /\ collected \in 0 .. Len(orders) /\ o \in Orders
    BY <2>1 DEF HandoverInv
  <2> HIDE DEF o
  <2>3. \A w \in [Orders -> Int] :
          Total(w, orders', collected') = Total(w, orders, collected) + w[o]
    BY <2>1, <2>2, Totals DEF o
  <2>4. /\ \A w \in [Orders -> Int] : Total(w, orders, collected) \in Int
        /\ InitialCapital \in Int
    BY <2>2, Totals, CapitalAssumption
  <2>5. /\ Costs[o] = Cost(o) /\ Cost(o) \in Int
        /\ \A s \in Symbols : Lots[s][o] = IF o.symbol = s THEN Signed(o.side, TradeQty) ELSE 0
    BY <2>2, WeightTypes DEF Costs, Lots
  <2>6. o.symbol \in Symbols /\ o.price \in Nat /\ o.fee \in Nat
    BY <2>2 DEF Orders
  <2>7. Signed(o.side, TradeQty * o.price) \in Int /\ Signed(o.side, TradeQty) \in Int
    BY <2>6, QtyAssumption DEF Signed
  <2> DEFINE cash == tracker.cash - Signed(o.side, TradeQty * o.price) - o.fee
             net == [tracker.positions EXCEPT ![o.symbol] = @ + Signed(o.side, TradeQty)]
             marks == [tracker.marks EXCEPT ![o.symbol] = o.price]
  <2>8. cash \in Int /\ cash = tracker.cash - Cost(o) /\ tracker.cash \in Int
    BY <2>6, <2>7 DEF TrackerInv, Cost
  <2>9. net \in [Symbols -> Int] /\ marks \in [Symbols -> Int]
        /\ \A s \in Symbols : net[s] = tracker.positions[s]
                                + IF o.symbol = s THEN Signed(o.side, TradeQty) ELSE 0
    BY <2>6, <2>7 DEF TrackerInv
  <2>10. tracker' = [tracker EXCEPT !.cash = cash, !.positions = net, !.marks = marks]
    BY <2>1, <2>6 DEF Track, TrackerInv
  <2> HIDE DEF cash, net, marks
  <2>11. tracker' = [cash |-> cash, positions |-> net, marks |-> marks]
    BY <2>10 DEF TrackerInv
  <2>12. tracker'.cash = InitialCapital - Total(Costs, orders', collected')
    BY <2>3, <2>4, <2>5, <2>8, <2>11, WeightTypes DEF TrackerInv
  <2>13. \A s \in Symbols : tracker'.positions[s] = Total(Lots[s], orders', collected')
    BY <2>3, <2>5, <2>9, <2>11, WeightTypes DEF TrackerInv
  <2> QED BY <2>8, <2>9, <2>11, <2>12, <2>13 DEF TrackerInv
<1> QED BY <1>2, <1>3, <1>4, <1>5 DEF Next, Executor, Collector

LEMMA BooksStep == HandoverInv /\ LotInv /\ BooksInv /\ [Next]_vars => BooksInv'
<1> SUFFICES ASSUME HandoverInv, LotInv, BooksInv, [Next]_vars PROVE BooksInv'
  OBVIOUS
<1> DEFINE all == Len(orders)
<1>0. /\ orders \in Seq(Orders) /\ all \in 0 .. Len(orders)
      /\ fill \in [Symbols -> Fills \cup {None}] /\ fill' \in [Symbols -> Fills \cup {None}]
      /\ risk.equity \in Int /\ pos \in [Symbols -> Int] /\ InitialCapital \in Int
  <2>1. pos \in [Symbols -> Int]
    BY QtyAssumption DEF LotInv, Held
  <2>2. fill' \in [Symbols -> Fills \cup {None}]
    BY HandoverStep DEF HandoverInv
  <2>3. orders \in Seq(Orders) /\ fill \in [Symbols -> Fills \cup {None}] /\ all \in 0 .. Len(orders)
    BY DEF HandoverInv
  <2> QED BY <2>1, <2>2, <2>3, LimitTypes, CapitalAssumption
<1>1. ASSUME UNCHANGED <<orders, risk, pos, fill>>, faults' = 0 => faults = 0
      PROVE  BooksInv'
  BY <1>1 DEF BooksInv, Unsent
<1>2. CASE Cancel \/ Runner \/ UNCHANGED vars
  <2>1. UNCHANGED <<orders, risk, pos, fill>>
    BY <1>2
       DEF Cancel, Runner, CreateRun, MarkRunning, StartReplay, AwaitEngines, AwaitExecutor,
           AwaitCollector, Report, ComputeMetrics, MarkEnd, Wait, vars, streams, executor
  <2>2. faults' = 0 => faults = 0
    BY <1>2, FaultCounts
       DEF Cancel, Runner, CreateRun, MarkRunning, Records, StartReplay, AwaitEngines, AwaitExecutor,
           AwaitCollector, Report, ComputeMetrics, MarkEnd, Wait, vars, RunSucceeds, RunFails, Succeeds,
           HandoverInv
  <2> QED BY <1>1, <2>1, <2>2
<1>3. CASE Collector
  <2>1. UNCHANGED <<orders, risk, pos, fill>>
    BY <1>3 DEF Collector, HandleOrder, StopCollector, streams, executor
  <2>2. faults' = 0 => faults = 0
    BY <1>3, OrderHandled, FaultCounts DEF Collector, StopCollector, Succeeds, HandoverInv
  <2> QED BY <1>1, <2>1, <2>2
<1>4. ASSUME NEW s \in Symbols, Engine(s) \/ StopExecutor(s) PROVE BooksInv'
  <2>1. UNCHANGED <<orders, risk, pos, fill>>
    BY <1>4 DEF Engine, PublishL2, EndEngine, StopExecutor, streams, executor
  <2>2. faults' = 0 => faults = 0
    BY <1>4, FaultCounts DEF Engine, PublishL2, EndEngine, StopExecutor, Succeeds, HandoverInv
  <2> QED BY <1>1, <2>1, <2>2
<1>5. ASSUME NEW s \in Symbols, HandleL2(s) PROVE BooksInv'
  <2>1. PICK entry \in Entries, side \in Sides :
          /\ \/ UNCHANGED <<pos, fill>>
             \/ /\ pos' = [pos EXCEPT ![s] = @ + Signed(side, TradeQty)]
                /\ fill' = [fill EXCEPT ![s] = [order |-> NewOrder(s, side, entry), sent  |-> FALSE]]
    <3>1. PICK entry \in Entries :
            LET side    == TradeDecision(entry.wants, pos[s])
                verdict == IF side = "none" THEN "none" ELSE Verdict(risk, s, side, TradeQty)
            IN  IF verdict = "ok" /\ Fillable(side, entry)
                THEN /\ pos' = [pos EXCEPT ![s] = @ + Signed(side, TradeQty)]
                     /\ fill' = [fill EXCEPT ![s] = [order |-> NewOrder(s, side, entry),
                                                     sent  |-> FALSE]]
                ELSE UNCHANGED <<pos, fill>>
      BY <1>5 DEF HandleL2
    <3> DEFINE decided == TradeDecision(entry.wants, pos[s])
    <3>2. CASE decided = "none"
      BY <3>1, <3>2 DEF Sides
    <3>3. CASE decided # "none"
      <4>1. decided \in Sides
        BY <3>3, DecisionType
      <4> HIDE DEF decided
      <4> QED BY <3>1, <4>1 DEF decided
    <3> QED BY <3>2, <3>3
  <2>2. /\ orders' = orders /\ faults' = faults /\ fill[s] = None
        /\ risk'.equity = risk.equity
    BY <1>5 DEF HandleL2, Handling, streams, LotInv
  <2>3. CASE UNCHANGED <<pos, fill>>
    BY <2>2, <2>3 DEF BooksInv, Unsent
  <2>4. CASE /\ pos' = [pos EXCEPT ![s] = @ + Signed(side, TradeQty)]
             /\ fill' = [fill EXCEPT ![s] = [order |-> NewOrder(s, side, entry), sent  |-> FALSE]]
    <3> DEFINE new == [order |-> NewOrder(s, side, entry), sent |-> FALSE]
    <3>1. new \in Fills /\ new.order.symbol = s /\ new.order.side = side /\ ~new.sent
      BY OrderType DEF Fills, NewOrder
    <3> HIDE DEF new
    <3>2. new # None
      BY <3>1, NoneAssumption
    <3>3. fill'[s] = new /\ \A r \in Symbols \ {s} : fill'[r] = fill[r]
      BY <1>0, <2>4 DEF new
    <3>4. SumFunction(Unrecorded(fill')) = SumFunction(Unrecorded(fill))
      <4>1. Unrecorded(fill)[s] = 0 /\ Unrecorded(fill')[s] = 0
        BY <2>2, <3>1, <3>3 DEF Unrecorded
      <4>2. /\ SumFunction(Unrecorded(fill)) \in Int
            /\ SumFunction(Unrecorded(fill'))
                 = SumFunction(Unrecorded(fill)) - Unrecorded(fill)[s] + Unrecorded(fill')[s]
        BY <1>0, <3>3, UnrecordedChanges
      <4> QED BY <4>1, <4>2
    <3>5. ASSUME faults = 0, NEW r \in Symbols
          PROVE  pos'[r] = Total(Lots[r], orders, all) + Unsent(r)'
      <4>1. pos[r] = Total(Lots[r], orders, all) + Unsent(r)
        BY <3>5 DEF BooksInv
      <4>2. CASE r = s
        <5>1. pos'[r] = pos[r] + Signed(side, TradeQty)
          BY <1>0, <2>4, <4>2
        <5>2. Unsent(r) = 0 /\ Unsent(r)' = Signed(side, TradeQty)
          BY <2>2, <3>1, <3>2, <3>3, <4>2 DEF Unsent
        <5>3. Total(Lots[r], orders, all) \in Int /\ Signed(side, TradeQty) \in Int
          <6>1. \A w \in [Orders -> Int] : Total(w, orders, all) \in Int
            BY <1>0, Totals
          <6>2. Signed(side, TradeQty) \in Int
            BY QtyAssumption DEF Signed
          <6> QED BY <6>1, <6>2, WeightTypes
        <5> QED BY <4>1, <5>1, <5>2, <5>3
      <4>3. CASE r # s
        <5>1. pos'[r] = pos[r] /\ Unsent(r)' = Unsent(r)
          BY <1>0, <2>4, <3>3, <4>3 DEF Unsent
        <5> QED BY <4>1, <5>1
      <4> QED BY <4>2, <4>3
    <3> QED BY <2>2, <3>1, <3>3, <3>4, <3>5 DEF BooksInv
  <2> QED BY <2>1, <2>3, <2>4
<1>6. ASSUME NEW s \in Symbols, PublishOrder(s) PROVE BooksInv'
  <2> DEFINE o == fill[s].order
  <2>1. /\ fill[s] \in Fills /\ ~fill[s].sent /\ o \in Orders /\ fill[s] # None
        /\ faults' = 0 => faults = 0 /\ orders' = Append(orders, o)
        /\ fill'[s].order = o /\ fill'[s].sent /\ fill'[s] # None
        /\ \A r \in Symbols \ {s} : fill'[r] = fill[r]
        /\ UNCHANGED <<pos, risk>>
    <3>1. fill'[s] = [order |-> o, sent |-> TRUE]
      BY <1>6, OrderPublished
    <3>2. fill'[s].order = o /\ fill'[s].sent
      BY <3>1
    <3>3. fill[s] # None /\ UNCHANGED <<pos, risk>>
      BY <1>6 DEF PublishOrder
    <3>4. /\ fill[s] \in Fills /\ ~fill[s].sent /\ o \in Orders
          /\ faults' = 0 => faults = 0 /\ orders' = Append(orders, o)
          /\ fill'[s] # None
          /\ \A r \in Symbols \ {s} : fill'[r] = fill[r]
      BY <1>6, OrderPublished
    <3> QED BY <3>2, <3>3, <3>4
  <2>2. o.symbol = s
    BY <2>1 DEF BooksInv
  <2>3. \A r \in Symbols : fill'[r] # None => fill'[r].order.symbol = r
    BY <2>1, <2>2 DEF BooksInv
  <2>4. /\ SumFunction(Unrecorded(fill)) \in Int
        /\ SumFunction(Unrecorded(fill')) = SumFunction(Unrecorded(fill)) + Cost(o)
    <3>1. Unrecorded(fill)[s] = 0 /\ Unrecorded(fill')[s] = Cost(o)
      BY <2>1 DEF Unrecorded
    <3>2. Cost(o) \in Int
      BY <2>1, WeightTypes DEF Costs
    <3>3. /\ SumFunction(Unrecorded(fill)) \in Int
          /\ SumFunction(Unrecorded(fill'))
               = SumFunction(Unrecorded(fill)) - Unrecorded(fill)[s] + Unrecorded(fill')[s]
      BY <1>0, <2>1, UnrecordedChanges
    <3> QED BY <3>1, <3>2, <3>3
  <2> HIDE DEF o
  <2>5. ASSUME faults' = 0
        PROVE  /\ faults = 0
               /\ \A w \in [Orders -> Int] :
                    /\ Total(w, orders', Len(orders')) = Total(w, orders, all) + w[o]
                    /\ Total(w, orders, all) \in Int
    <3>1. faults = 0 /\ orders' = Append(orders, o)
      BY <2>1, <2>5
    <3>2. \A w \in [Orders -> Int] : Total(w, orders, all) \in Int
      BY <1>0, Totals
    <3>3. \A w \in [Orders -> Int] :
            Total(w, Append(orders, o), Len(Append(orders, o))) = Total(w, orders, all) + w[o]
      BY <1>0, <2>1, TotalAppended
    <3> QED BY <3>1, <3>2, <3>3
  <2>6. /\ Costs[o] = Cost(o) /\ Cost(o) \in Int
        /\ \A r \in Symbols : Lots[r][o] = IF r = s THEN Signed(o.side, TradeQty) ELSE 0
    BY <2>1, <2>2, WeightTypes DEF Costs, Lots
  <2>7. ASSUME faults' = 0
        PROVE  risk'.equity = InitialCapital - Total(Costs, orders', Len(orders'))
                                + SumFunction(Unrecorded(fill'))
    <3>1. risk.equity = InitialCapital - Total(Costs, orders, all) + SumFunction(Unrecorded(fill))
      BY <2>5, <2>7 DEF BooksInv
    <3>2. /\ Total(Costs, orders', Len(orders')) = Total(Costs, orders, all) + Cost(o)
          /\ Total(Costs, orders, all) \in Int
      BY <2>5, <2>6, <2>7, WeightTypes
    <3>3. risk'.equity = risk.equity /\ InitialCapital \in Int
      BY <2>1, CapitalAssumption
    <3> HIDE DEF all
    <3> QED BY <2>4, <2>6, <3>1, <3>2, <3>3
  <2>8. ASSUME faults' = 0, NEW r \in Symbols
        PROVE  pos'[r] = Total(Lots[r], orders', Len(orders')) + Unsent(r)'
    <3>1. pos[r] = Total(Lots[r], orders, all) + Unsent(r) /\ Total(Lots[r], orders, all) \in Int
          /\ Total(Lots[r], orders', Len(orders')) = Total(Lots[r], orders, all) + Lots[r][o]
      BY <2>5, <2>8, WeightTypes DEF BooksInv
    <3>2. CASE r = s
      <4>1. Unsent(r) = Signed(o.side, TradeQty) /\ Unsent(r)' = 0
        BY <2>1, <3>2 DEF Unsent, o
      <4>2. Signed(o.side, TradeQty) \in Int
        BY QtyAssumption DEF Signed
      <4> QED BY <2>1, <2>6, <3>1, <3>2, <4>1, <4>2
    <3>3. CASE r # s
      BY <2>1, <2>6, <3>1, <3>3 DEF Unsent
    <3> QED BY <3>2, <3>3
  <2> QED BY <2>3, <2>7, <2>8 DEF BooksInv
<1>7. ASSUME NEW s \in Symbols, RecordFill(s) PROVE BooksInv'
  <2> DEFINE o == fill[s].order
  <2>1. /\ fill[s] # None /\ fill[s].sent /\ fill' = [fill EXCEPT ![s] = None] /\ UNCHANGED <<pos, orders, faults>>
        /\ risk' = RiskRecordFill(risk, s, o.side, TradeQty, o.price, o.fee)
    BY <1>7 DEF RecordFill, streams
  <2>2. o \in Orders
    BY <1>0, <2>1 DEF Fills
  <2>3. fill'[s] = None /\ \A r \in Symbols \ {s} : fill'[r] = fill[r]
    BY <1>0, <2>1
  <2>4. /\ SumFunction(Unrecorded(fill)) \in Int /\ Cost(o) \in Int
        /\ SumFunction(Unrecorded(fill')) = SumFunction(Unrecorded(fill)) - Cost(o)
    <3>1. Unrecorded(fill)[s] = Cost(o) /\ Unrecorded(fill')[s] = 0
      BY <2>1, <2>3 DEF Unrecorded
    <3>2. Cost(o) \in Int
      BY <2>2, WeightTypes DEF Costs
    <3>3. /\ SumFunction(Unrecorded(fill)) \in Int
          /\ SumFunction(Unrecorded(fill'))
               = SumFunction(Unrecorded(fill)) - Unrecorded(fill)[s] + Unrecorded(fill')[s]
      BY <1>0, <2>3, UnrecordedChanges
    <3> QED BY <3>1, <3>2, <3>3
  <2> HIDE DEF o
  <2>5. risk'.equity = risk.equity - Cost(o)
    <3>1. TradeQty * o.price \in Int /\ o.fee \in Int
      BY <2>2, QtyAssumption DEF Orders
    <3>2. risk'.equity = risk.equity - Signed(o.side, TradeQty * o.price) - o.fee
      BY <2>1 DEF RiskRecordFill, LotInv
    <3>3. Signed(o.side, TradeQty * o.price) \in Int
      BY <3>1 DEF Signed
    <3> QED BY <1>0, <3>1, <3>2, <3>3 DEF Cost
  <2>6. Total(Costs, orders, all) \in Int
    BY <1>0, Totals, WeightTypes
  <2>7. \A r \in Symbols : Unsent(r)' = Unsent(r)
    BY <2>1, <2>3 DEF Unsent
  <2>8. \A r \in Symbols : fill'[r] # None => fill'[r].order.symbol = r
    BY <2>3 DEF BooksInv
  <2> QED BY <1>0, <2>1, <2>4, <2>5, <2>6, <2>7, <2>8 DEF BooksInv
<1> QED BY <1>2, <1>3, <1>4, <1>5, <1>6, <1>7 DEF Next, Executor

LEMMA BooksInit == Init => TrackerInv /\ BooksInv
<1> SUFFICES ASSUME Init PROVE TrackerInv /\ BooksInv
  OBVIOUS
<1>1. /\ orders = << >> /\ collected = 0 /\ risk = NewChecker /\ tracker = NewTracker
      /\ pos = [s \in Symbols |-> 0] /\ fill = [s \in Symbols |-> None]
  BY DEF Init
<1>2. orders \in Seq(Orders) /\ Len(orders) = 0 /\ 0 \in 0 .. Len(orders)
  BY <1>1
<1>3. \A w \in [Orders -> Int] : Total(w, orders, 0) = 0
  BY <1>2, Totals
<1>4. SumFunction(Unrecorded(fill)) = 0
  <2> DEFINE f == Unrecorded(fill)
  <2>1. f \in [Symbols -> Int] /\ \A s \in Symbols : f[s] = 0
    BY <1>1 DEF Unrecorded
  <2> HIDE DEF f
  <2>2. SumFunction(f) = 0
    BY <2>1, SumOfZeros, SymbolsAssumption
  <2> QED BY <2>2 DEF f
<1>5. tracker \in [cash : Int, positions : [Symbols -> Int], marks : [Symbols -> Int]]
  BY <1>1, CapitalAssumption DEF NewTracker
<1>6. TrackerInv
  BY <1>1, <1>3, <1>5, WeightTypes, CapitalAssumption DEF TrackerInv, NewTracker
<1>7. \A s \in Symbols : fill[s] = None /\ pos[s] = 0 /\ Unsent(s) = 0
  BY <1>1 DEF Unsent
<1>8. /\ Total(Costs, orders, Len(orders)) = 0
      /\ \A s \in Symbols : Total(Lots[s], orders, Len(orders)) = 0
  BY <1>2, <1>3, WeightTypes
<1>9. risk.equity = InitialCapital - 0 + 0
  BY <1>1, CapitalAssumption DEF NewChecker
<1>10. BooksInv
  BY <1>4, <1>7, <1>8, <1>9 DEF BooksInv
<1> QED BY <1>6, <1>10

(* At the end of a run without a failed call executors, risk checker and   *)
(* collector agree: the one lot of each symbol, and the cash, which is the *)
(* initial capital less what the published orders cost (executor.go,       *)
(* handleL2; checker.go, RecordFill; collector.go, applyFill).             *)
THEOREM BooksAgreeHolds == Spec => []BooksAgree
<1>1. Init => TrackerInv /\ BooksInv
  BY BooksInit
<1>2. HandoverInv /\ StageInv /\ DrainInv /\ LotInv /\ TrackerInv /\ BooksInv => BooksAgree
  <2> SUFFICES ASSUME HandoverInv, StageInv, DrainInv, LotInv, TrackerInv, BooksInv,
                      pc = "ended", Launched, faults = 0
               PROVE  /\ risk.positions = pos /\ tracker.positions = pos
                      /\ tracker.cash = risk.equity
    BY DEF BooksAgree
  <2>1. ExecutorsStopped /\ CollectorStopped
    BY DEF StageInv, AllOff, AllStopped, Launched
  <2>2. (\A s \in Symbols : fill[s] = None) /\ collected = Len(orders)
    BY <2>1 DEF StageInv, DrainInv, ExecutorsStopped, CollectorStopped
  <2>3. risk.positions = pos
    BY <2>2, QtyAssumption DEF LotInv, Held
  <2>4. SumFunction(Unrecorded(fill)) = 0
    <3> DEFINE f == Unrecorded(fill)
    <3>1. f \in [Symbols -> Int] /\ \A s \in Symbols : f[s] = 0
      BY <2>2 DEF Unrecorded
    <3> HIDE DEF f
    <3>2. SumFunction(f) = 0
      BY <3>1, SumOfZeros, SymbolsAssumption
    <3> QED BY <3>2 DEF f
  <2>5. /\ \A w \in [Orders -> Int] : Total(w, orders, Len(orders)) \in Int
        /\ InitialCapital \in Int
    <3>1. orders \in Seq(Orders) /\ Len(orders) \in 0 .. Len(orders)
      BY DEF HandoverInv
    <3> QED BY <3>1, Totals, CapitalAssumption
  <2>6. tracker.cash = risk.equity
    BY <2>2, <2>4, <2>5, WeightTypes DEF TrackerInv, BooksInv
  <2>7. \A s \in Symbols : tracker.positions[s] = pos[s]
    BY <2>2, <2>5, WeightTypes DEF TrackerInv, BooksInv, Unsent
  <2>8. tracker.positions \in [Symbols -> Int] /\ pos \in [Symbols -> Int]
    BY QtyAssumption DEF TrackerInv, LotInv, Held
  <2> QED BY <2>3, <2>6, <2>7, <2>8
<1> QED BY <1>1, <1>2, LotInit, LotStep, TrackerStep, BooksStep, StagesAlways, PTL DEF Spec

-------------------------------------------------------------------------------
(* The metrics of a run.                                                   *)

(* What the pairing of buys and sells goes through.                        *)
Accumulators == [open : [Symbols -> Seq(Int)], pnls : Seq(Int)]

NoPairs == [open |-> [s \in Symbols |-> << >>], pnls |-> << >>]

LEMMA PairType ==
  ASSUME NEW acc \in Accumulators, NEW t \in Orders
  PROVE  Pair(acc, t) \in Accumulators
<1> DEFINE queue == acc.open[t.symbol]
<1>1. acc.open \in [Symbols -> Seq(Int)] /\ acc.pnls \in Seq(Int)
  BY DEF Accumulators
<1>2. t.symbol \in Symbols /\ TradeQty * t.price \in Int /\ t.fee \in Int
  BY QtyAssumption DEF Orders
<1>3. queue \in Seq(Int)
  BY <1>1, <1>2
<1>4. ASSUME NEW op \in [Symbols -> Seq(Int)], NEW l \in Seq(Int)
      PROVE  [acc EXCEPT !.open = op, !.pnls = l] \in Accumulators
             /\ [acc EXCEPT !.open = op] \in Accumulators
  BY <1>1 DEF Accumulators
<1> HIDE DEF queue
<1>5. CASE t.side = "buy"
  <2> DEFINE q == Append(queue, TradeQty * t.price + t.fee)
  <2>1. q \in Seq(Int)
    BY <1>2, <1>3
  <2> DEFINE op == [acc.open EXCEPT ![t.symbol] = q]
  <2>2. Pair(acc, t) = [acc EXCEPT !.open = op]
    BY <1>5 DEF Pair, queue
  <2> HIDE DEF q
  <2>3. op \in [Symbols -> Seq(Int)]
    BY <1>1, <2>1
  <2> HIDE DEF op
  <2>4. << >> \in Seq(Int)
    OBVIOUS
  <2> QED BY <1>4, <2>2, <2>3, <2>4, Zenon
<1>6. CASE t.side # "buy" /\ queue # << >>
  <2> DEFINE q == Tail(queue)
             l == Append(acc.pnls, TradeQty * t.price - t.fee - Head(queue))
  <2>1. q \in Seq(Int) /\ Head(queue) \in Int
    BY <1>3, <1>6
  <2>2. l \in Seq(Int)
    BY <1>1, <1>2, <2>1
  <2> DEFINE op == [acc.open EXCEPT ![t.symbol] = q]
  <2>3. Pair(acc, t) = [acc EXCEPT !.open = op, !.pnls = l]
    BY <1>6 DEF Pair, queue
  <2> HIDE DEF q, l
  <2>4. op \in [Symbols -> Seq(Int)]
    BY <1>1, <2>1
  <2> HIDE DEF op
  <2> QED BY <1>4, <2>2, <2>3, <2>4, Zenon
<1>7. CASE t.side # "buy" /\ queue = << >>
  BY <1>7 DEF Pair, queue
<1> QED BY <1>5, <1>6, <1>7

(* The pairing, one trade after the other.                                 *)
Steps(p, q) ==
  /\ p \in [0 .. Len(q) -> Accumulators]
  /\ p[0] = NoPairs
  /\ \A i \in 1 .. Len(q) : p[i] = Pair(p[i - 1], q[i])

(* The fold over the indices of the trades, as the library computes it.    *)
IsPairing(it, q) ==
  it = [s \in SUBSET (DOMAIN q) |->
          IF s = {} THEN NoPairs ELSE Pair(it[s \ {Max(s)}], q[Max(s)])]

Pairing(q) == CHOOSE it : IsPairing(it, q)

LEMMA MetricsUnfolded == TradeMetrics = Pairing(trades)[DOMAIN trades].pnls
BY DEF TradeMetrics, FoldLeft, MapThenFoldSet, IsPairing, Pairing, NoPairs

LEMMA MaxIs ==
  ASSUME NEW n \in Nat, NEW S \in SUBSET (1 .. n), S # {}
  PROVE  Max(S) \in S /\ \A k \in S : k <= Max(S)
<1>1. S \in SUBSET (0 .. n)
  OBVIOUS
<1>2. \E m \in S : \A k \in S : m >= k
  BY <1>1, GreatestElement
<1> QED BY <1>2 DEF Max

LEMMA PairingExists ==
  ASSUME NEW q \in Seq(Orders)
  PROVE  IsPairing(Pairing(q), q)
<1> DEFINE D == DOMAIN q
           G == [p \in D \X Accumulators |-> Pair(p[2], q[p[1]])]
           last == [s \in SUBSET D |-> Max(s)]
<1>1. Len(q) \in Nat /\ D = 1 .. Len(q) /\ IsFiniteSet(D)
  BY FS_Interval
<1>2. \A s \in SUBSET D : s # {} => last[s] \in s
  BY <1>1, MaxIs
<1>3. G \in [D \X Accumulators -> Accumulators]
  <2>1. ASSUME NEW p \in D \X Accumulators PROVE Pair(p[2], q[p[1]]) \in Accumulators
    <3>1. p[2] \in Accumulators /\ q[p[1]] \in Orders
      BY <1>1
    <3> QED BY <3>1, PairType
  <2> QED BY <2>1
<1>4. NoPairs \in Accumulators
  BY DEF NoPairs, Accumulators
<1>5. PICK it \in [SUBSET D -> Accumulators] :
        \A s \in SUBSET D : Unfolds(it, s, NoPairs, G, last)
  <2> HIDE DEF D, G, last
  <2> QED BY <1>1, <1>2, <1>3, <1>4, FoldExists
<1>6. ASSUME NEW s \in SUBSET D, s # {}
      PROVE  it[s] = Pair(it[s \ {Max(s)}], q[Max(s)])
  <2> DEFINE x == Max(s)
             left == it[s \ {x}]
  <2>1. x \in D /\ left \in Accumulators
    <3>1. x \in s
      BY <1>2, <1>6
    <3> HIDE DEF x
    <3> QED BY <3>1
  <2>2. it[s] = G[<<x, left>>]
    BY <1>5, <1>6 DEF Unfolds
  <2> HIDE DEF x, left
  <2>3. G[<<x, left>>] = Pair(left, q[x])
    BY <2>1
  <2> QED BY <2>2, <2>3 DEF x, left
<1>7. it[{}] = NoPairs
  BY <1>5 DEF Unfolds
<1>8. it = [s \in SUBSET D |-> IF s = {} THEN NoPairs ELSE Pair(it[s \ {Max(s)}], q[Max(s)])]
  <2> HIDE DEF G, last
  <2> QED BY <1>5, <1>6, <1>7
<1>9. IsPairing(it, q)
  BY <1>8 DEF IsPairing
<1> QED BY <1>9 DEF Pairing

LEMMA PairingSteps ==
  ASSUME NEW q \in Seq(Orders)
  PROVE  \E p : Steps(p, q) /\ p[Len(q)] = Pairing(q)[DOMAIN q]
<1> DEFINE it == Pairing(q)
           p == [i \in 0 .. Len(q) |-> it[1 .. i]]
<1>1. Len(q) \in Nat /\ DOMAIN q = 1 .. Len(q)
  OBVIOUS
<1>2. /\ it[{}] = NoPairs
      /\ \A s \in SUBSET (1 .. Len(q)) : s # {} => it[s] = Pair(it[s \ {Max(s)}], q[Max(s)])
  BY <1>1, PairingExists DEF IsPairing
<1> HIDE DEF it
<1>3. p[0] = NoPairs
  <2>1. 1 .. 0 = {}
    OBVIOUS
  <2> QED BY <1>1, <1>2, <2>1
<1>4. ASSUME NEW i \in 1 .. Len(q)
      PROVE  p[i] = Pair(p[i - 1], q[i])
  <2>1. 1 .. i \in SUBSET (1 .. Len(q)) /\ 1 .. i # {} /\ i \in 1 .. i
    <3>1. i \in Int /\ 1 <= i /\ i <= Len(q) /\ Len(q) \in Int
      BY <1>1
    <3>2. \A k \in 1 .. i : k \in 1 .. Len(q)
      BY <3>1
    <3>3. i \in 1 .. i
      BY <3>1
    <3> QED BY <3>2, <3>3
  <2>2. Max(1 .. i) \in 1 .. i /\ i <= Max(1 .. i)
    BY <1>1, <2>1, MaxIs
  <2>3. Max(1 .. i) = i
    BY <2>2
  <2>4. (1 .. i) \ {i} = 1 .. i - 1
    BY <1>1
  <2>5. p[i] = it[1 .. i] /\ p[i - 1] = it[1 .. i - 1]
    BY <1>1
  <2> HIDE DEF p
  <2> QED BY <1>2, <2>1, <2>3, <2>4, <2>5
<1>5. \A i \in 0 .. Len(q) : p[i] \in Accumulators
  <2> HIDE DEF p
  <2> DEFINE T == {k \in Nat : k <= Len(q) => p[k] \in Accumulators}
  <2>1. 0 \in T /\ T \in SUBSET Nat
    <3>1. NoPairs \in Accumulators
      BY DEF NoPairs, Accumulators
    <3> QED BY <1>3, <3>1
  <2>2. ASSUME NEW k \in T PROVE k + 1 \in T
    <3> SUFFICES ASSUME k + 1 <= Len(q) PROVE p[k + 1] \in Accumulators
      OBVIOUS
    <3>1. k + 1 \in 1 .. Len(q) /\ (k + 1) - 1 = k /\ p[k] \in Accumulators
      BY <1>1
    <3>2. q[k + 1] \in Orders
      BY <3>1
    <3>3. p[k + 1] = Pair(p[k], q[k + 1])
      BY <1>4, <3>1
    <3> QED BY <3>1, <3>2, <3>3, PairType
  <2>3. T = Nat
    <3> HIDE DEF T
    <3> QED BY <2>1, <2>2, NatSetInduction
  <2> QED BY <1>1, <2>3
<1>6. p \in [0 .. Len(q) -> Accumulators]
  BY <1>5
<1>7. p[Len(q)] = it[DOMAIN q]
  BY <1>1
<1> QED BY <1>3, <1>4, <1>6, <1>7 DEF Steps, it

(* What the open buys have cost.                                           *)
OpenCosts(open) == [s \in Symbols |-> SumFunction(open[s])]

(* After n trades: every open buy is a lot held, and what the pairs have   *)
(* earned, less what the open buys have cost, is what the trades have.     *)
PairInv(acc, q, n) ==
  /\ \A s \in Symbols : Len(acc.open[s]) * TradeQty = Total(Lots[s], q, n)
  /\ SumFunction(acc.pnls) - SumFunction(OpenCosts(acc.open)) = -Total(Costs, q, n)

LEMMA SequenceSum ==
  ASSUME NEW q \in Seq(Int)
  PROVE  /\ SumFunction(q) \in Int
         /\ \A x \in Int : SumFunction(Append(q, x)) = SumFunction(q) + x
         /\ q # << >> => SumFunction(q) = Head(q) + SumFunction(Tail(q))
<1>1. Len(q) \in Nat /\ q \in [1 .. Len(q) -> Int]
  OBVIOUS
<1>2. SumFunction(q) \in Int
  BY <1>1, SumType, FS_Interval
<1>3. ASSUME NEW x \in Int PROVE SumFunction(Append(q, x)) = SumFunction(q) + x
  <2> DEFINE r == Append(q, x)
  <2>1. r \in [1 .. Len(q) + 1 -> Int] /\ (\A i \in 1 .. Len(q) : q[i] = r[i]) /\ r[Len(q) + 1] = x
    <3>1. r \in Seq(Int) /\ Len(r) = Len(q) + 1
      BY Appends
    <3>2. (\A i \in 1 .. Len(q) : r[i] = q[i]) /\ r[Len(q) + 1] = x
      BY Appends
    <3> HIDE DEF r
    <3>3. r \in [1 .. Len(r) -> Int]
      BY <3>1
    <3> QED BY <3>1, <3>2, <3>3
  <2> HIDE DEF r
  <2>2. SumFunction(r) = SumFunction(q) + r[Len(q) + 1]
    BY <1>1, <2>1, SumAppended
  <2> QED BY <2>1, <2>2 DEF r
<1>4. ASSUME q # << >> PROVE SumFunction(q) = Head(q) + SumFunction(Tail(q))
  <2> DEFINE r == Tail(q)
             n == Len(q) - 1
  <2>1. n \in Nat /\ q \in [1 .. n + 1 -> Int] /\ r \in [1 .. n -> Int]
        /\ (\A i \in 1 .. n : r[i] = q[i + 1]) /\ Head(q) = q[1]
    <3>1. Len(q) # 0
      BY <1>4
    <3>2. n \in Nat /\ Len(q) = n + 1
      BY <1>1, <3>1
    <3>3. r \in Seq(Int) /\ Len(r) = n
      BY <1>4
    <3>4. (\A i \in 1 .. n : r[i] = q[i + 1]) /\ Head(q) = q[1]
      BY <1>4
    <3> HIDE DEF r, n
    <3>5. r \in [1 .. Len(r) -> Int]
      BY <3>3
    <3> QED BY <1>1, <3>2, <3>3, <3>4, <3>5
  <2> HIDE DEF r, n
  <2>2. SumFunction(q) = q[1] + SumFunction(r)
    BY <2>1, SumOfTail
  <2> QED BY <2>1, <2>2 DEF r
<1> QED BY <1>2, <1>3, <1>4

LEMMA OpenCostsType ==
  ASSUME NEW open \in [Symbols -> Seq(Int)]
  PROVE  OpenCosts(open) \in [Symbols -> Int] /\ SumFunction(OpenCosts(open)) \in Int
<1>1. OpenCosts(open) \in [Symbols -> Int]
  BY SequenceSum DEF OpenCosts
<1> QED BY <1>1, SumType, SymbolsAssumption

(* The queue of one symbol changes.                                        *)
LEMMA OpenCostsChange ==
  ASSUME NEW open \in [Symbols -> Seq(Int)], NEW s \in Symbols, NEW q \in Seq(Int)
  PROVE  SumFunction(OpenCosts([open EXCEPT ![s] = q]))
           = SumFunction(OpenCosts(open)) - SumFunction(open[s]) + SumFunction(q)
<1> DEFINE new == [open EXCEPT ![s] = q]
           f == OpenCosts(open)
           g == OpenCosts(new)
<1>1. new \in [Symbols -> Seq(Int)] /\ new[s] = q /\ \A r \in Symbols \ {s} : new[r] = open[r]
  OBVIOUS
<1> HIDE DEF new
<1>2. f \in [Symbols -> Int] /\ g \in [Symbols -> Int]
  BY <1>1, OpenCostsType
<1>3. /\ f[s] = SumFunction(open[s]) /\ g[s] = SumFunction(q)
      /\ \A r \in Symbols \ {s} : f[r] = g[r]
  BY <1>1 DEF OpenCosts
<1> HIDE DEF f, g
<1>4. SumFunction(g) = SumFunction(f) - f[s] + g[s]
  <2>1. \A r \in Symbols \ {s} : f[r] = g[r]
    BY <1>3
  <2> QED BY <1>2, <2>1, SumChanged, SymbolsAssumption
<1> QED BY <1>3, <1>4 DEF f, g, new

(* A trade that leaves nothing short keeps the account.                    *)
LEMMA PairKeeps ==
  ASSUME NEW q \in Seq(Orders), NEW n \in 0 .. Len(q), n < Len(q),
         NEW acc \in Accumulators, PairInv(acc, q, n),
         \A s \in Symbols : Total(Lots[s], q, n + 1) >= 0
  PROVE  PairInv(Pair(acc, q[n + 1]), q, n + 1)
<1> DEFINE t == q[n + 1]
           sym == t.symbol
           queue == acc.open[sym]
           new == Pair(acc, t)
           value == TradeQty * t.price
<1>1. t \in Orders
  OBVIOUS
<1>2. sym \in Symbols /\ value \in Int /\ t.fee \in Int /\ t.side \in Sides
  BY <1>1, QtyAssumption DEF Orders
<1>3. acc.open \in [Symbols -> Seq(Int)] /\ acc.pnls \in Seq(Int) /\ queue \in Seq(Int)
  BY <1>2 DEF Accumulators
<1>4. /\ \A s \in Symbols : Total(Lots[s], q, n + 1) = Total(Lots[s], q, n) + Lots[s][t]
      /\ Total(Costs, q, n + 1) = Total(Costs, q, n) + Costs[t]
      /\ \A s \in Symbols : Total(Lots[s], q, n) \in Int
      /\ Total(Costs, q, n) \in Int
  BY Totals, WeightTypes
<1>5. /\ Costs[t] = Signed(t.side, value) + t.fee
      /\ \A s \in Symbols : Lots[s][t] = IF sym = s THEN Signed(t.side, TradeQty) ELSE 0
  BY <1>1 DEF Costs, Cost, Lots
<1>6. SumFunction(acc.pnls) \in Int /\ SumFunction(OpenCosts(acc.open)) \in Int
  BY <1>3, SequenceSum, OpenCostsType
<1>7. SumFunction(queue) \in Int /\ Len(queue) \in Nat
  <2> HIDE DEF queue
  <2> QED BY <1>3, SequenceSum
<1>8. CASE t.side = "buy"
  <2> DEFINE x == value + t.fee
             open == [acc.open EXCEPT ![sym] = Append(queue, x)]
  <2>1. new.open = open /\ new.pnls = acc.pnls
    BY <1>8 DEF Pair, Accumulators
  <2>2. x \in Int /\ Append(queue, x) \in Seq(Int) /\ Len(Append(queue, x)) = Len(queue) + 1
        /\ SumFunction(Append(queue, x)) = SumFunction(queue) + x
    <3>1. x \in Int
      BY <1>2
    <3> HIDE DEF x, queue
    <3>2. SumFunction(Append(queue, x)) = SumFunction(queue) + x
      BY <1>3, <3>1, SequenceSum
    <3> QED BY <1>3, <3>1, <3>2
  <2> HIDE DEF x, new, queue, t, sym, value
  <2>3. SumFunction(OpenCosts(open)) = SumFunction(OpenCosts(acc.open)) + x
    <3>1. SumFunction(OpenCosts(open))
            = SumFunction(OpenCosts(acc.open)) - SumFunction(queue) + SumFunction(Append(queue, x))
      BY <1>2, <1>3, <2>2, OpenCostsChange DEF queue
    <3> QED BY <1>6, <1>7, <2>2, <3>1
  <2>4. Costs[t] = x /\ \A s \in Symbols : Lots[s][t] = IF sym = s THEN TradeQty ELSE 0
    BY <1>5, <1>8 DEF Signed, x
  <2>5. SumFunction(new.pnls) - SumFunction(OpenCosts(new.open)) = -Total(Costs, q, n + 1)
    <3>1. SumFunction(acc.pnls) - SumFunction(OpenCosts(acc.open)) = -Total(Costs, q, n)
      BY DEF PairInv
    <3>2. /\ SumFunction(new.pnls) = SumFunction(acc.pnls)
          /\ SumFunction(OpenCosts(new.open)) = SumFunction(OpenCosts(acc.open)) + x
          /\ Total(Costs, q, n + 1) = Total(Costs, q, n) + x
      BY <1>4, <2>1, <2>3, <2>4
    <3> DEFINE pnl == SumFunction(acc.pnls)
               cost == Total(Costs, q, n)
               left == SumFunction(OpenCosts(acc.open))
    <3>3. pnl \in Int /\ cost \in Int /\ left \in Int /\ pnl - left = -cost
      BY <1>4, <1>6, <3>1
    <3> HIDE DEF pnl, cost, left
    <3>4. pnl - (left + x) = -(cost + x)
      BY <2>2, <3>3
    <3> QED BY <3>2, <3>4 DEF pnl, cost, left
  <2>6. ASSUME NEW s \in Symbols
        PROVE  Len(new.open[s]) * TradeQty = Total(Lots[s], q, n + 1)
    <3>1. Len(acc.open[s]) * TradeQty = Total(Lots[s], q, n) /\ TradeQty \in Nat
      BY QtyAssumption DEF PairInv
    <3>2. CASE s = sym
      <4>1. new.open[s] = Append(queue, x)
        BY <1>2, <1>3, <2>1, <3>2
      <4>2. (Len(queue) + 1) * TradeQty = Len(queue) * TradeQty + TradeQty
        BY <1>7, <3>1
      <4> QED BY <1>4, <2>2, <2>4, <3>1, <3>2, <4>1, <4>2 DEF queue
    <3>3. CASE s # sym
      <4>1. new.open[s] = acc.open[s]
        BY <1>3, <2>1, <3>3
      <4> QED BY <1>4, <2>4, <3>1, <3>3, <4>1
    <3> QED BY <3>2, <3>3
  <2> QED BY <2>5, <2>6 DEF PairInv, new, t
<1>9. CASE t.side # "buy"
  <2>1. queue # << >>
    <3>1. Total(Lots[sym], q, n) = Len(queue) * TradeQty
      BY <1>2 DEF PairInv
    <3>2. Total(Lots[sym], q, n + 1) = Total(Lots[sym], q, n) - TradeQty
      BY <1>2, <1>4, <1>5, <1>9, QtyAssumption DEF Signed
    <3>3. Len(queue) # 0
      <4> DEFINE before == Total(Lots[sym], q, n)
                 after == Total(Lots[sym], q, n + 1)
                 size == Len(queue)
      <4>1. before = size * TradeQty /\ after = before - TradeQty /\ after >= 0
        BY <1>2, <3>1, <3>2
      <4> HIDE DEF before, after, size
      <4> SUFFICES ASSUME size = 0 PROVE FALSE
        BY DEF size
      <4>2. before = 0
        BY <4>1, QtyAssumption
      <4> QED BY <4>1, <4>2, QtyAssumption
    <3> QED BY <3>3
  <2> DEFINE x == value - t.fee - Head(queue)
             open == [acc.open EXCEPT ![sym] = Tail(queue)]
  <2>2. new.open = open /\ new.pnls = Append(acc.pnls, x)
    BY <1>9, <2>1 DEF Pair, Accumulators
  <2>3. Head(queue) \in Int /\ Tail(queue) \in Seq(Int) /\ Len(Tail(queue)) = Len(queue) - 1
        /\ SumFunction(queue) = Head(queue) + SumFunction(Tail(queue))
        /\ SumFunction(Tail(queue)) \in Int
    <3> HIDE DEF queue
    <3>1. Head(queue) \in Int /\ Tail(queue) \in Seq(Int) /\ Len(Tail(queue)) = Len(queue) - 1
      BY <1>3, <2>1
    <3> QED BY <1>3, <2>1, <3>1, SequenceSum
  <2>4. x \in Int
    <3> DEFINE h == Head(queue)
               fee == t.fee
    <3>1. h \in Int /\ value \in Int /\ fee \in Int
      BY <1>2, <2>3
    <3> HIDE DEF h, fee, value
    <3>2. value - fee - h \in Int
      BY <3>1
    <3> QED BY <3>2 DEF h, fee
  <2> HIDE DEF x, new, queue, t, sym, value
  <2>5. SumFunction(Append(acc.pnls, x)) = SumFunction(acc.pnls) + x
    BY <1>3, <2>4, SequenceSum
  <2> DEFINE h == Head(queue)
             rest == Tail(queue)
  <2>6. SumFunction(OpenCosts(open)) = SumFunction(OpenCosts(acc.open)) - h
    <3>1. SumFunction(OpenCosts(open))
            = SumFunction(OpenCosts(acc.open)) - SumFunction(queue) + SumFunction(rest)
      BY <1>2, <1>3, <2>3, OpenCostsChange DEF queue
    <3>2. h \in Int /\ SumFunction(rest) \in Int /\ SumFunction(queue) = h + SumFunction(rest)
      BY <2>3
    <3> HIDE DEF h, rest, open
    <3> QED BY <1>6, <1>7, <3>1, <3>2
  <2>7. Costs[t] = -(x + h) /\ \A s \in Symbols : Lots[s][t] = IF sym = s THEN -TradeQty ELSE 0
    <3>1. Costs[t] = -value + t.fee
      BY <1>2, <1>5, <1>9 DEF Signed
    <3>2. \A s \in Symbols : Lots[s][t] = IF sym = s THEN -TradeQty ELSE 0
      BY <1>5, <1>9 DEF Signed
    <3>3. -value + t.fee = -(x + h)
      <4> DEFINE fee == t.fee
      <4>1. h \in Int /\ fee \in Int /\ value \in Int /\ x = value - fee - h
        BY <1>2, <2>3 DEF x
      <4> HIDE DEF h, fee
      <4>2. -value + fee = -(x + h)
        BY <4>1
      <4> QED BY <4>2 DEF fee
    <3> QED BY <3>1, <3>2, <3>3
  <2>8. SumFunction(new.pnls) - SumFunction(OpenCosts(new.open)) = -Total(Costs, q, n + 1)
    <3>1. SumFunction(acc.pnls) - SumFunction(OpenCosts(acc.open)) = -Total(Costs, q, n)
      BY DEF PairInv
    <3>2. /\ SumFunction(new.pnls) = SumFunction(acc.pnls) + x
          /\ SumFunction(OpenCosts(new.open)) = SumFunction(OpenCosts(acc.open)) - h
          /\ Total(Costs, q, n + 1) = Total(Costs, q, n) - (x + h)
      <4> DEFINE c == Total(Costs, q, n)
      <4>1. c \in Int /\ Total(Costs, q, n + 1) = c + Costs[t] /\ h \in Int
        BY <1>4, <2>3
      <4> HIDE DEF c, h
      <4>2. c + Costs[t] = c - (x + h)
        BY <2>4, <2>7, <4>1
      <4> QED BY <2>2, <2>5, <2>6, <4>1, <4>2 DEF c
    <3>3. h \in Int
      BY <2>3
    <3> HIDE DEF h
    <3> DEFINE pnl == SumFunction(acc.pnls)
               cost == Total(Costs, q, n)
               left == SumFunction(OpenCosts(acc.open))
    <3>4. pnl \in Int /\ cost \in Int /\ left \in Int /\ pnl - left = -cost
      BY <1>4, <1>6, <3>1
    <3> HIDE DEF pnl, cost, left
    <3>5. (pnl + x) - (left - h) = -(cost - (x + h))
      BY <2>4, <3>3, <3>4
    <3> QED BY <3>2, <3>5 DEF pnl, cost, left
  <2>9. ASSUME NEW s \in Symbols
        PROVE  Len(new.open[s]) * TradeQty = Total(Lots[s], q, n + 1)
    <3>1. Len(acc.open[s]) * TradeQty = Total(Lots[s], q, n) /\ TradeQty \in Nat
      BY QtyAssumption DEF PairInv
    <3>2. CASE s = sym
      <4>1. new.open[s] = Tail(queue)
        BY <1>2, <1>3, <2>2, <3>2
      <4>2. (Len(queue) - 1) * TradeQty = Len(queue) * TradeQty - TradeQty
        BY <1>7, <3>1
      <4> QED BY <1>4, <2>3, <2>7, <3>1, <3>2, <4>1, <4>2 DEF queue
    <3>3. CASE s # sym
      <4>1. new.open[s] = acc.open[s]
        BY <1>3, <2>2, <3>3
      <4> QED BY <1>4, <2>7, <3>1, <3>3, <4>1
    <3> QED BY <3>2, <3>3
  <2> QED BY <2>8, <2>9 DEF PairInv, new, t
<1> QED BY <1>8, <1>9

MetricsOf(q) == Pairing(q)[DOMAIN q].pnls

(* Without a short position, and with none open at the end, the metrics    *)
(* add up to what the trades have earned.                                  *)
LEMMA MetricsAreCosts ==
  ASSUME NEW q \in Seq(Orders),
         \A s \in Symbols : \A n \in 0 .. Len(q) : Total(Lots[s], q, n) >= 0,
         \A s \in Symbols : Total(Lots[s], q, Len(q)) = 0
  PROVE  SumFunction(MetricsOf(q)) = -Total(Costs, q, Len(q))
<1>1. PICK p : Steps(p, q) /\ p[Len(q)] = Pairing(q)[DOMAIN q]
  BY PairingSteps
<1>2. Len(q) \in Nat /\ \A n \in 0 .. Len(q) : p[n] \in Accumulators
  <2>1. Len(q) \in Nat
    OBVIOUS
  <2>2. p \in [0 .. Len(q) -> Accumulators]
    BY <1>1 DEF Steps
  <2> QED BY <2>1, <2>2
<1> DEFINE T == {n \in Nat : n <= Len(q) => PairInv(p[n], q, n)}
<1>3. 0 \in T
  <2>1. Total(Costs, q, 0) = 0 /\ \A s \in Symbols : Total(Lots[s], q, 0) = 0
    <3>1. 0 \in 0 .. Len(q)
      BY <1>2
    <3> QED BY <3>1, Totals, WeightTypes
  <2>2. p[0].pnls = << >> /\ \A s \in Symbols : p[0].open[s] = << >>
    BY <1>1 DEF Steps, NoPairs
  <2> DEFINE pnls == p[0].pnls
             costs == OpenCosts(p[0].open)
  <2>3. SumFunction(<< >>) = 0
    BY SumOfNone
  <2>4. SumFunction(pnls) = 0
    BY <2>2, <2>3
  <2>5. costs \in [Symbols -> Int] /\ \A s \in Symbols : costs[s] = 0
    BY <2>2, <2>3 DEF OpenCosts
  <2> HIDE DEF costs, pnls
  <2>6. SumFunction(costs) = 0
    BY <2>5, SumOfZeros, SymbolsAssumption
  <2>7. \A s \in Symbols : Len(p[0].open[s]) * TradeQty = 0
    BY <2>2, QtyAssumption
  <2> QED BY <2>1, <2>4, <2>6, <2>7 DEF PairInv, costs, pnls
<1>4. ASSUME NEW n \in T PROVE n + 1 \in T
  <2> SUFFICES ASSUME n + 1 <= Len(q) PROVE PairInv(p[n + 1], q, n + 1)
    OBVIOUS
  <2>1. n \in 0 .. Len(q) /\ n < Len(q) /\ n + 1 \in 1 .. Len(q) /\ n + 1 \in 0 .. Len(q)
        /\ (n + 1) - 1 = n /\ PairInv(p[n], q, n)
    BY <1>2
  <2>2. p[n + 1] = Pair(p[n], q[n + 1])
    BY <1>1, <2>1 DEF Steps
  <2>3. PairInv(Pair(p[n], q[n + 1]), q, n + 1)
    BY <1>2, <2>1, PairKeeps
  <2> QED BY <2>2, <2>3
<1>5. PairInv(p[Len(q)], q, Len(q))
  <2>1. T \in SUBSET Nat
    OBVIOUS
  <2>2. T = Nat
    <3> HIDE DEF T
    <3> QED BY <1>3, <1>4, <2>1, NatSetInduction
  <2> QED BY <1>2, <2>2
<1> DEFINE acc == p[Len(q)]
           costs == OpenCosts(acc.open)
<1>6. acc \in Accumulators
  BY <1>2
<1>7. \A s \in Symbols : acc.open[s] = << >>
  <2> SUFFICES ASSUME NEW s \in Symbols PROVE acc.open[s] = << >>
    OBVIOUS
  <2> DEFINE queue == acc.open[s]
  <2>1. queue \in Seq(Int)
    BY <1>6 DEF Accumulators
  <2>2. Len(queue) * TradeQty = 0
    BY <1>5 DEF PairInv
  <2> HIDE DEF queue
  <2>3. Len(queue) \in Nat
    BY <2>1
  <2>4. Len(queue) = 0
    BY <2>2, <2>3, QtyAssumption
  <2> QED BY <2>1, <2>4 DEF queue
<1>8. costs \in [Symbols -> Int] /\ \A s \in Symbols : costs[s] = 0
  <2>1. SumFunction(<< >>) = 0
    BY SumOfNone
  <2> QED BY <1>7, <2>1 DEF OpenCosts
<1> HIDE DEF costs
<1>9. SumFunction(costs) = 0
  BY <1>8, SumOfZeros, SymbolsAssumption
<1>10. SumFunction(acc.pnls) \in Int
  BY <1>6, SequenceSum DEF Accumulators
<1> QED BY <1>1, <1>5, <1>9, <1>10 DEF PairInv, costs, MetricsOf

PointsInv ==
  /\ points \in Seq(Int)
  /\ faults = 0 =>
       /\ Len(points) = collected
       /\ points # << >> => Last(points) = Equity(tracker)

MetricsInv ==
  metrics # None =>
    /\ pc \in {"mark", "ended"} /\ ExecutorsStopped /\ CollectorStopped
    /\ metrics = MetricsOf(trades)

LEMMA EquityType ==
  ASSUME NEW t \in [cash : Int, positions : [Symbols -> Int], marks : [Symbols -> Int]]
  PROVE  /\ Equity(t) \in Int
         /\ (\A s \in Symbols : t.positions[s] = 0) => Equity(t) = t.cash
<1> DEFINE f == [s \in Symbols |-> t.positions[s] * t.marks[s]]
<1>1. f \in [Symbols -> Int]
  OBVIOUS
<1>2. ASSUME \A s \in Symbols : t.positions[s] = 0
      PROVE  \A s \in Symbols : f[s] = 0
  <2>1. \A s \in Symbols : t.marks[s] \in Int
    OBVIOUS
  <2> QED BY <1>2, <2>1
<1> HIDE DEF f
<1>3. SumFunction(f) \in Int /\ ((\A s \in Symbols : f[s] = 0) => SumFunction(f) = 0)
  BY <1>1, SumType, SumOfZeros, SymbolsAssumption
<1>4. Equity(t) = t.cash + SumFunction(f) /\ t.cash \in Int
  BY DEF Equity, f
<1> QED BY <1>2, <1>3, <1>4

LEMMA PointsStep == HandoverInv /\ TrackerInv /\ PointsInv /\ [Next]_vars => PointsInv'
<1> SUFFICES ASSUME HandoverInv, TrackerInv, PointsInv, [Next]_vars PROVE PointsInv'
  OBVIOUS
<1>1. ASSUME UNCHANGED <<points, collected, tracker>>, faults' = 0 => faults = 0
      PROVE  PointsInv'
  BY <1>1 DEF PointsInv, Equity
<1>2. CASE Cancel \/ Runner \/ UNCHANGED vars
  <2>1. UNCHANGED <<points, collected, tracker>>
    BY <1>2 DEF Cancel, Runner, CreateRun, MarkRunning, StartReplay, AwaitEngines, AwaitExecutor,
                AwaitCollector, Report, ComputeMetrics, MarkEnd, Wait, vars, database, collector
  <2>2. faults' = 0 => faults = 0
    BY <1>2, FaultCounts
       DEF Cancel, Runner, CreateRun, MarkRunning, StartReplay, AwaitEngines, AwaitExecutor,
           AwaitCollector, Report, ComputeMetrics, MarkEnd, Wait, Records, RunSucceeds, RunFails,
           Succeeds, HandoverInv, vars
  <2> QED BY <1>1, <2>1, <2>2
<1>3. CASE StopCollector
  BY <1>1, <1>3, FaultCounts DEF StopCollector, Succeeds, HandoverInv, database
<1>4. ASSUME NEW s \in Symbols, Engine(s) \/ Executor(s) PROVE PointsInv'
  BY <1>1, <1>4, FaultCounts
     DEF Engine, PublishL2, EndEngine, Executor, HandleL2, PublishOrder, RecordFill, StopExecutor,
         Succeeds, HandoverInv, database, collector
<1>5. CASE HandleOrder
  <2> DEFINE x == Equity(tracker')
  <2>1. x \in Int
    <3>1. tracker' \in [cash : Int, positions : [Symbols -> Int], marks : [Symbols -> Int]]
      BY TrackerStep DEF TrackerInv
    <3> QED BY <3>1, EquityType
  <2>2. /\ points' = points \/ points' = Append(points, x)
        /\ faults' = 0 => faults = 0 /\ points' = Append(points, x)
        /\ collected' = collected + 1
    BY <1>5, OrderHandled
  <2> HIDE DEF x
  <2>3. /\ Append(points, x) \in Seq(Int) /\ Len(Append(points, x)) = Len(points) + 1
        /\ Last(Append(points, x)) = x
    <3>1. points \in Seq(Int)
      BY DEF PointsInv
    <3>2. /\ Append(points, x) \in Seq(Int) /\ Len(Append(points, x)) = Len(points) + 1
          /\ Append(points, x)[Len(points) + 1] = x
      BY <2>1, <3>1, Appends
    <3> QED BY <3>2 DEF Last
  <2>4. points' \in Seq(Int)
    BY <2>2, <2>3 DEF PointsInv
  <2>5. ASSUME faults' = 0 PROVE Len(points') = collected' /\ Last(points') = x
    BY <2>2, <2>3, <2>5 DEF PointsInv
  <2>6. x = Equity(tracker)'
    BY DEF x, Equity
  <2> QED BY <2>4, <2>5, <2>6 DEF PointsInv
<1> QED BY <1>2, <1>3, <1>4, <1>5 DEF Next, Collector

LEMMA MetricsStep == HandoverInv /\ StageInv /\ MetricsInv /\ [Next]_vars => MetricsInv'
<1> SUFFICES ASSUME HandoverInv, StageInv, MetricsInv, [Next]_vars PROVE MetricsInv'
  OBVIOUS
<1>1. CASE ComputeMetrics
  <2>1. UNCHANGED <<trades, reader, colReader>> /\ pc = "metrics" /\ pc' = "mark"
        /\ (metrics' = TradeMetrics \/ metrics' = metrics)
    BY <1>1 DEF ComputeMetrics, executor, collector
  <2>2. ExecutorsStopped' /\ CollectorStopped' /\ metrics = None
    BY <2>1 DEF StageInv, MetricsInv, ExecutorsStopped, CollectorStopped
  <2>3. TradeMetrics = MetricsOf(trades)
    BY MetricsUnfolded DEF MetricsOf
  <2> QED BY <2>1, <2>2, <2>3 DEF MetricsInv
<1>2. ASSUME metrics' = metrics,
             metrics # None => /\ pc' \in {"mark", "ended"} /\ trades' = trades
                               /\ reader' = reader /\ colReader' = colReader
      PROVE  MetricsInv'
  BY <1>2 DEF MetricsInv, ExecutorsStopped, CollectorStopped
<1>3. CASE Cancel \/ UNCHANGED vars
  BY <1>2, <1>3 DEF MetricsInv, Cancel, vars, database, runner, executor, collector
<1>4. CASE CreateRun \/ MarkRunning \/ StartReplay \/ AwaitEngines \/ AwaitExecutor \/ AwaitCollector
           \/ Report
  <2>1. metrics' = metrics /\ pc \notin {"mark", "ended"}
    BY <1>4 DEF CreateRun, MarkRunning, StartReplay, AwaitEngines, AwaitExecutor, AwaitCollector,
                Report, Wait, database
  <2> QED BY <1>2, <2>1 DEF MetricsInv
<1>5. CASE MarkEnd
  BY <1>2, <1>5 DEF MarkEnd, executor, collector
<1>6. ASSUME NEW s \in Symbols, Engine(s) PROVE MetricsInv'
  BY <1>2, <1>6 DEF MetricsInv, Engine, PublishL2, EndEngine, database, runner, executor, collector
<1>7. ASSUME NEW s \in Symbols, Executor(s) PROVE MetricsInv'
  <2>1. metrics' = metrics /\ trades' = trades /\ pc' = pc /\ colReader' = colReader
    BY <1>7 DEF Executor, HandleL2, PublishOrder, RecordFill, StopExecutor, database, runner, collector
  <2>2. metrics # None => reader' = reader
    <3> SUFFICES ASSUME metrics # None PROVE reader' = reader
      OBVIOUS
    <3>1. reader[s] = "stopped"
      BY DEF MetricsInv, ExecutorsStopped
    <3> QED BY <1>7, <3>1 DEF Executor, HandleL2, PublishOrder, RecordFill, StopExecutor, Handling
  <2> QED BY <1>2, <2>1, <2>2 DEF MetricsInv
<1>8. CASE Collector
  <2>1. metrics' = metrics /\ colReader = "running"
    BY <1>8 DEF Collector, HandleOrder, StopCollector, database
  <2> QED BY <1>2, <2>1 DEF MetricsInv, CollectorStopped
<1> QED BY <1>1, <1>3, <1>4, <1>5, <1>6, <1>7, <1>8 DEF Next, Runner

(* The profits and losses in the metrics of a run add up to what it        *)
(* earned, if no call failed, nothing is held at its end and nothing was   *)
(* ever short (metrics.go, Compute, against collector.go, applyFill).      *)
THEOREM ProfitsAddUpHolds == Spec => []ProfitsAddUp
<1>1. Init => PointsInv /\ MetricsInv
  BY DEF Init, PointsInv, MetricsInv
<1>2. HandoverInv /\ StageInv /\ DrainInv /\ TrackerInv /\ BooksInv /\ PointsInv /\ MetricsInv
        => ProfitsAddUp
  <2> SUFFICES ASSUME HandoverInv, StageInv, DrainInv, TrackerInv, BooksInv, PointsInv, MetricsInv,
                      metrics # None, faults = 0, \A s \in Symbols : pos[s] = 0, NeverShort
               PROVE  InitialCapital + SumFunction(metrics)
                        = (IF points = << >> THEN InitialCapital ELSE Last(points))
    BY DEF ProfitsAddUp
  <2> DEFINE all == Len(orders)
  <2>1. /\ metrics = MetricsOf(trades) /\ collected = all
        /\ \A s \in Symbols : fill[s] = None
    BY DEF MetricsInv, StageInv, DrainInv, ExecutorsStopped, CollectorStopped
  <2>2. trades = orders
    <3>1. trades \in Seq(Orders) /\ orders \in Seq(Orders) /\ Len(trades) = Len(orders)
          /\ \A i \in 1 .. Len(orders) : trades[i] = orders[i]
      BY <2>1 DEF HandoverInv, DrainInv
    <3> QED BY <3>1
  <2>3. /\ orders \in Seq(Orders) /\ all \in 0 .. all /\ 0 \in 0 .. all
        /\ \A w \in [Orders -> Int] : Total(w, orders, all) \in Int /\ Total(w, orders, 0) = 0
    <3>1. orders \in Seq(Orders) /\ all \in 0 .. Len(orders) /\ 0 \in 0 .. all
      BY DEF HandoverInv
    <3> QED BY <3>1, Totals
  <2>4. \A s \in Symbols : Total(Lots[s], orders, all) = 0 /\ tracker.positions[s] = 0
    <3> SUFFICES ASSUME NEW s \in Symbols
                 PROVE  Total(Lots[s], orders, all) = 0 /\ tracker.positions[s] = 0
      OBVIOUS
    <3>1. pos[s] = Total(Lots[s], orders, all) + 0 /\ tracker.positions[s] = Total(Lots[s], orders, all)
      BY <2>1 DEF BooksInv, TrackerInv, Unsent
    <3>2. Total(Lots[s], orders, all) \in Int
      BY <2>3, WeightTypes
    <3> HIDE DEF all
    <3> QED BY <3>1, <3>2
  <2>5. \A s \in Symbols : \A n \in 0 .. all : Total(Lots[s], orders, n) >= 0
    <3> SUFFICES ASSUME NEW s \in Symbols, NEW n \in 0 .. all
                 PROVE  Total(Lots[s], orders, n) >= 0
      OBVIOUS
    <3>1. CASE n = 0
      BY <2>3, <3>1, WeightTypes
    <3>2. CASE n # 0
      <4>1. n \in DOMAIN trades /\ \A i \in 1 .. n : trades[i] \in Orders /\ orders[i] = trades[i]
        BY <2>2, <2>3, <3>2
      <4>2. [i \in 1 .. n |-> Lots[s][orders[i]]]
              = [i \in 1 .. n |-> IF trades[i].symbol = s THEN Signed(trades[i].side, TradeQty) ELSE 0]
        BY <4>1 DEF Lots
      <4>3. Total(Lots[s], orders, n) = Left(s, n)
        BY <4>2 DEF Total, Left
      <4> QED BY <4>1, <4>3 DEF NeverShort
    <3> QED BY <3>1, <3>2
  <2>6. SumFunction(metrics) = -Total(Costs, orders, all)
    BY <2>1, <2>2, <2>3, <2>4, <2>5, MetricsAreCosts
  <2>7. Equity(tracker) = tracker.cash
    BY <2>4, EquityType DEF TrackerInv
  <2>8. tracker.cash = InitialCapital - Total(Costs, orders, all) /\ InitialCapital \in Int
    BY <2>1, CapitalAssumption DEF TrackerInv
  <2>9. CASE points = << >>
    <3>1. all = 0
      BY <2>1, <2>9 DEF PointsInv
    <3>2. Total(Costs, orders, all) = 0
      BY <2>3, <3>1, WeightTypes
    <3> QED BY <2>6, <2>8, <2>9, <3>2
  <2>10. CASE points # << >>
    <3>1. Last(points) = InitialCapital - Total(Costs, orders, all)
      BY <2>7, <2>8, <2>10 DEF PointsInv
    <3> QED BY <2>3, <2>6, <2>8, <2>10, <3>1, WeightTypes
  <2> QED BY <2>9, <2>10
<1> QED BY <1>1, <1>2, BooksInit, LotInit, LotStep, TrackerStep, BooksStep, PointsStep, MetricsStep,
           StagesAlways, PTL DEF Spec

-------------------------------------------------------------------------------
(* Types and bounds.                                                       *)

BoundsInv ==
  /\ status \in {"none", "PENDING", "RUNNING"} \cup Terminal
  /\ cancelled \in BOOLEAN
  /\ \A s \in Symbols : l2[s] <= MaxEntries[s] /\ read[s] <= l2[s] /\ risk.positions[s] \in Held
  /\ faults <= MaxFaults

LEMMA BoundsStep ==
  HandoverInv /\ StageInv /\ StatusInv /\ LotInv /\ LotInv' /\ BoundsInv /\ [Next]_vars => BoundsInv'
<1> SUFFICES ASSUME HandoverInv, StageInv, StatusInv, LotInv, LotInv', BoundsInv, [Next]_vars
             PROVE  BoundsInv'
  OBVIOUS
<1>1. faults \in Nat /\ MaxFaults \in Nat
      /\ \A kind : Suffering(kind) \/ UNCHANGED faults => faults' <= MaxFaults
  BY BoundsAssumption DEF Suffering, HandoverInv, BoundsInv
<1>2. ASSUME UNCHANGED <<l2, read, risk>>, cancelled' \in BOOLEAN, faults' <= MaxFaults,
             status' \in {"none", "PENDING", "RUNNING"} \cup Terminal
      PROVE  BoundsInv'
  BY <1>2 DEF BoundsInv
<1>3. CASE Cancel \/ UNCHANGED vars
  BY <1>2, <1>3 DEF BoundsInv, Cancel, vars, database, streams, runner, executor
<1>4. CASE Runner
  <2>1. UNCHANGED <<l2, read, risk, cancelled>>
    BY <1>4 DEF Runner, CreateRun, MarkRunning, StartReplay, AwaitEngines, AwaitExecutor,
                AwaitCollector, Report, ComputeMetrics, MarkEnd, Wait, streams, executor
  <2>2. faults' <= MaxFaults
    BY <1>1, <1>4
       DEF Runner, CreateRun, MarkRunning, StartReplay, AwaitEngines, AwaitExecutor, AwaitCollector,
           Report, ComputeMetrics, MarkEnd, Wait, Records, RunSucceeds, RunFails, Succeeds
  <2>3. status' \in {status, "PENDING", "RUNNING"} \/ (MarkEnd /\ status' = outcome)
    BY <1>4 DEF Runner, CreateRun, MarkRunning, StartReplay, AwaitEngines, AwaitExecutor,
                AwaitCollector, Report, ComputeMetrics, MarkEnd, Wait, Records, database
  <2>4. MarkEnd => outcome \in Terminal
    BY DEF MarkEnd, StatusInv
  <2> QED BY <1>2, <2>1, <2>2, <2>3, <2>4 DEF BoundsInv
<1>5. CASE Collector
  <2>1. UNCHANGED <<l2, read, risk, cancelled, status>>
    BY <1>5 DEF Collector, HandleOrder, StopCollector, streams, executor, runner, database
  <2>2. faults' <= MaxFaults
    BY <1>1, <1>5 DEF Collector, HandleOrder, StopCollector, Succeeds
  <2> QED BY <1>2, <2>1, <2>2 DEF BoundsInv
<1>6. ASSUME NEW s \in Symbols, Engine(s) PROVE BoundsInv'
  <2>1. UNCHANGED <<read, risk, cancelled, status, faults>>
    BY <1>6 DEF Engine, PublishL2, EndEngine, executor, runner, database
  <2>2. l2' = l2 \/ (l2[s] < MaxEntries[s] /\ l2' = [l2 EXCEPT ![s] = @ + 1])
    BY <1>6 DEF Engine, PublishL2, EndEngine, streams
  <2>3. \A t \in Symbols : l2[t] \in Nat /\ read[t] \in Nat /\ MaxEntries[t] \in Nat
    BY BoundsAssumption DEF HandoverInv
  <2>4. \A t \in Symbols : l2'[t] <= MaxEntries[t] /\ l2[t] <= l2'[t]
    <3>1. \A t \in Symbols : l2[t] <= MaxEntries[t]
      BY DEF BoundsInv
    <3>2. l2 \in [Symbols -> Nat]
      BY DEF HandoverInv
    <3>3. \A t \in Symbols : l2'[t] = l2[t] \/ (t = s /\ l2[s] < MaxEntries[s] /\ l2'[t] = l2[s] + 1)
      BY <2>2, <3>2
    <3> QED BY <2>3, <3>1, <3>3
  <2>5. \A t \in Symbols : l2'[t] \in Nat
    BY <2>2, <2>3 DEF HandoverInv
  <2>6. \A t \in Symbols : read[t] <= l2'[t]
    BY <2>3, <2>4, <2>5 DEF BoundsInv
  <2> QED BY <2>1, <2>4, <2>6 DEF BoundsInv
<1>7. ASSUME NEW s \in Symbols, Executor(s) PROVE BoundsInv'
  <2>1. UNCHANGED <<l2, cancelled, status>> /\ faults' <= MaxFaults
    BY <1>1, <1>7 DEF Executor, HandleL2, PublishOrder, RecordFill, StopExecutor, Succeeds,
                      streams, runner, database
  <2>2. \A t \in Symbols : l2[t] \in Nat /\ read[t] \in Nat
    BY DEF HandoverInv
  <2>3. \A t \in Symbols : read'[t] <= l2[t]
    <3>1. read' = read \/ (read[s] < l2[s] /\ read' = [read EXCEPT ![s] = @ + 1])
      BY <1>7 DEF Executor, HandleL2, PublishOrder, RecordFill, StopExecutor
    <3>2. read \in [Symbols -> Nat] /\ \A t \in Symbols : read[t] <= l2[t]
      BY DEF BoundsInv, HandoverInv
    <3>3. \A t \in Symbols : read'[t] = read[t] \/ (t = s /\ read[s] < l2[s] /\ read'[t] = read[s] + 1)
      BY <3>1, <3>2
    <3> QED BY <2>2, <3>2, <3>3
  <2>4. \A t \in Symbols : risk'.positions[t] \in Held
    <3>1. CASE RecordFill(s)
      <4>1. fill'[s] = None /\ \A t \in Symbols : t # s => risk'.positions[t] = risk.positions[t]
        BY <3>1 DEF RecordFill, RiskRecordFill, HandoverInv, LotInv
      <4>2. risk'.positions[s] = pos'[s] /\ pos'[s] \in Held
        BY <4>1 DEF LotInv
      <4> QED BY <4>1, <4>2 DEF BoundsInv
    <3>2. CASE HandleL2(s) \/ PublishOrder(s) \/ StopExecutor(s)
      <4>1. risk'.positions = risk.positions
        BY <3>2 DEF HandleL2, PublishOrder, StopExecutor, LotInv
      <4> QED BY <4>1 DEF BoundsInv
    <3> QED BY <1>7, <3>1, <3>2 DEF Executor
  <2> QED BY <2>1, <2>3, <2>4 DEF BoundsInv
<1> QED BY <1>3, <1>4, <1>5, <1>6, <1>7 DEF Next

(* The state has its types and keeps its bounds; executors and the risk    *)
(* checker never hold more than a lot, though the checker is told of a     *)
(* fill after the executor has changed its position (executor.go,          *)
(* handleL2).                                                              *)
THEOREM RunTypeCorrect == Spec => []TypeOK
<1>1. Init => BoundsInv /\ PointsInv /\ MetricsInv
  <2> SUFFICES ASSUME Init PROVE BoundsInv /\ PointsInv /\ MetricsInv
    OBVIOUS
  <2>1. PointsInv /\ MetricsInv
    BY DEF Init, PointsInv, MetricsInv
  <2>2. \A s \in Symbols : l2[s] = 0 /\ read[s] = 0 /\ MaxEntries[s] \in Nat
    BY BoundsAssumption DEF Init
  <2>3. \A s \in Symbols : risk.positions[s] \in Held
    BY DEF Init, NewChecker, Held
  <2>4. status = "none" /\ cancelled = FALSE /\ faults <= MaxFaults
    <3>1. faults = 0 /\ MaxFaults \in Nat
      BY BoundsAssumption DEF Init
    <3> QED BY <3>1 DEF Init
  <2>5. \A s \in Symbols : l2[s] <= MaxEntries[s] /\ read[s] <= l2[s]
    BY <2>2
  <2>6. cancelled \in BOOLEAN
    BY <2>4, Zenon
  <2>7. BoundsInv
    BY <2>3, <2>4, <2>5, <2>6, Zenon DEF BoundsInv
  <2> QED BY <2>1, <2>7
<1>2. HandoverInv /\ StatusInv /\ ControlInv /\ LotInv /\ TrackerInv /\ PointsInv /\ MetricsInv
        /\ BoundsInv => TypeOK
  <2> SUFFICES ASSUME HandoverInv, StatusInv, ControlInv, LotInv, TrackerInv, PointsInv, MetricsInv,
                      BoundsInv
               PROVE  TypeOK
    OBVIOUS
  <2>1. metrics = None \/ metrics \in Seq(Int)
    <3> SUFFICES ASSUME metrics # None PROVE metrics \in Seq(Int)
      OBVIOUS
    <3>1. trades \in Seq(Orders) /\ Len(trades) \in 0 .. Len(trades)
      BY DEF HandoverInv
    <3>2. PICK p : Steps(p, trades) /\ p[Len(trades)] = Pairing(trades)[DOMAIN trades]
      BY <3>1, PairingSteps
    <3>3. p[Len(trades)] \in Accumulators
      BY <3>1, <3>2 DEF Steps
    <3> QED BY <3>2, <3>3 DEF MetricsInv, MetricsOf, Accumulators
  <2>2. \A s \in Symbols : l2[s] \in 0 .. MaxEntries[s] /\ read[s] \in 0 .. l2[s]
    BY BoundsAssumption DEF HandoverInv, BoundsInv
  <2>3. risk.positions \in [Symbols -> Held] /\ pos \in [Symbols -> Held]
    BY DEF LotInv, BoundsInv
  <2>4. faults \in 0 .. MaxFaults
    BY BoundsAssumption DEF HandoverInv, BoundsInv
  <2>5. /\ points \in Seq(Int) /\ control \in Seq(Announcements)
        /\ tracker.positions \in [Symbols -> Int]
    BY DEF PointsInv, ControlInv, TrackerInv
  <2>6. /\ status \in {"none", "PENDING", "RUNNING"} \cup Terminal /\ cancelled \in BOOLEAN
        /\ outcome \in Terminal \cup {"none"}
    BY DEF BoundsInv, StatusInv
  <2> QED BY <2>1, <2>2, <2>3, <2>4, <2>5, <2>6
          DEF TypeOK, HandoverInv, Terminal, Announcements
<1> QED BY <1>1, <1>2, BooksInit, LotInit, StatusInit, LotStep, TrackerStep, PointsStep, MetricsStep,
           StatusStep, ControlStep, BoundsStep, StagesAlways, PTL DEF Spec

===============================================================================
