------------------------------ MODULE BacktestRun ------------------------------
(***************************************************************************)
(* One run of erebor-backtest, src/engine/backtest: the runner that starts *)
(* and stops the stages in order, the executor (a goroutine per symbol     *)
(* that trades on the L2 stream of the symbol), the collector of the       *)
(* published orders, and the metrics of the trades.                        *)
(*                                                                         *)
(* A replay engine writes entries and ends, well or badly, as in L2Source; *)
(* ReplayEngine shows that the real one does no more. An entry is what the *)
(* executor can tell of it: what its imbalance asks for and its best       *)
(* prices, 0 for an empty side; it is chosen when the executor handles the *)
(* entry, the only one to look at it. Event times are left out: they grow  *)
(* with the entries of a symbol, so that the trades of one come back from  *)
(* QueryTrades in stream order. Batches are read entry by entry.           *)
(*                                                                         *)
(* Faults of the kinds in the constant Faults happen at most MaxFaults     *)
(* times.                                                                  *)
(***************************************************************************)
EXTENDS RiskChecker, Sequences, FiniteSets, FiniteSetsExt, SequencesExt

CONSTANTS
  TradeQty,    \* cfg.TradeQty
  Entries,     \* what an L2 entry may be, [wants, bid, ask]
  MaxEntries,  \* bound: L2 entries of each symbol
  MaxTotal,    \* bound: L2 entries of all symbols
  Faults,      \* the kinds of faults that happen
  MaxFaults,   \* bound: how many of them
  None         \* no fill, no metrics

FaultKinds ==
  {"status",    \* a statement on backtest_runs fails
   "control",   \* XADD of a control event fails
   "order",     \* XADD of an order fails
   "trade", "point", "metrics",   \* the INSERT of a result fails
   "drain"}     \* XRANGE fails while a stream is drained

Orders == [symbol : Symbols, side : Sides, price : Nat, fee : Nat]

(* An order the executor is about to publish, or has sent. *)
Fills == [order : Orders, sent : BOOLEAN]

ASSUME SymbolsAssumption == IsFiniteSet(Symbols)
ASSUME NoneAssumption == None \notin Fills
ASSUME QtyAssumption == TradeQty \in Nat \ {0}
ASSUME EntriesAssumption == Entries \subseteq [wants : Sides \cup {"none"}, bid : Nat, ask : Nat]
ASSUME BoundsAssumption ==
  MaxEntries \in [Symbols -> Nat] /\ MaxTotal \in Nat /\ MaxFaults \in Nat
ASSUME FaultsAssumption == Faults \subseteq FaultKinds

VARIABLES
  \* TimescaleDB
  status,     \* backtest_runs.status, "none" without a row
  trades,     \* backtest_trades
  points,     \* backtest_equity, in the order of insertion
  metrics,    \* backtest_metrics
  \* Redis
  l2,         \* the number of entries of each symbol's L2 stream
  orders,     \* the orders stream
  control,    \* the control stream: the types of the events
  \* the process
  cancelled,  \* the context of the run is cancelled
  pc,         \* what the runner does next
  outcome,    \* the status the run is to end with
  engine,     \* of each symbol: "off", "running", "done", "failed"
  reader,     \* of each symbol's executor: "off", "running", "stopped"
  read,       \* the entries it has handled
  pos,        \* its positionState
  fill,       \* the order it is about to publish or has published, None between entries
  risk,       \* the risk checker, shared by the executors
  colReader,  \* the collector's reader
  collected,  \* the orders it has handled
  tracker,    \* its equityTracker
  faults      \* faults so far

database == <<status, trades, points, metrics>>
streams == <<l2, orders, control>>
runner == <<cancelled, pc, outcome>>
executor == <<reader, read, pos, fill, risk>>
collector == <<colReader, collected, tracker>>
vars == <<database, streams, runner, engine, executor, collector, faults>>

-------------------------------------------------------------------------------
(* Outside calls.                                                          *)

Suffering(kind) == kind \in Faults /\ faults < MaxFaults /\ faults' = faults + 1

(* A call made with the context of the run fails once that is cancelled.   *)
RunSucceeds == ~cancelled /\ UNCHANGED faults

RunFails(kind) == IF cancelled THEN UNCHANGED faults ELSE Suffering(kind)

(* A call made with a background context. *)
Succeeds == UNCHANGED faults

-------------------------------------------------------------------------------
(* newEquityTracker *)
NewTracker ==
  [cash      |-> InitialCapital,
   positions |-> [s \in Symbols |-> 0],
   marks     |-> [s \in Symbols |-> 0]]

Init ==
  /\ status = "none"
  /\ trades = << >>
  /\ points = << >>
  /\ metrics = None
  /\ l2 = [s \in Symbols |-> 0]
  /\ orders = << >>
  /\ control = << >>
  /\ cancelled = FALSE
  /\ pc = "create"
  /\ outcome = "none"
  /\ engine = [s \in Symbols |-> "off"]
  /\ reader = [s \in Symbols |-> "off"]
  /\ read = [s \in Symbols |-> 0]
  /\ pos = [s \in Symbols |-> 0]
  /\ fill = [s \in Symbols |-> None]
  /\ risk = NewChecker
  /\ colReader = "off"
  /\ collected = 0
  /\ tracker = NewTracker
  /\ faults = 0

(* SIGINT or SIGTERM. *)
Cancel ==
  /\ ~cancelled
  /\ pc # "ended"
  /\ cancelled' = TRUE
  /\ UNCHANGED <<database, streams, pc, outcome, engine, executor, collector, faults>>

-------------------------------------------------------------------------------
(* The runner.                                                             *)

(* A statement of Run that ends it when it fails; it may have been carried *)
(* out all the same.                                                       *)
Records(new, next) ==
  \/ /\ RunSucceeds
     /\ status' = new
     /\ pc' = next
  \/ /\ RunFails("status")
     /\ status' \in {status, new}
     /\ pc' = "ended"

CreateRun ==
  /\ pc = "create"
  /\ Records("PENDING", "start")
  /\ UNCHANGED <<trades, points, metrics, streams, cancelled, outcome, engine, executor, collector>>

MarkRunning ==
  /\ pc = "start"
  /\ Records("RUNNING", "announce")
  /\ UNCHANGED <<trades, points, metrics, streams, cancelled, outcome, engine, executor, collector>>

(* REPLAY_START, then the collector, the executors and the engines.        *)
StartReplay ==
  /\ pc = "announce"
  /\ \/ RunSucceeds /\ control' = Append(control, "REPLAY_START")
     \/ RunFails("control") /\ UNCHANGED control
  /\ colReader' = "running"
  /\ reader' = [s \in Symbols |-> "running"]
  /\ engine' = [s \in Symbols |-> "running"]
  /\ pc' = "replay"
  /\ UNCHANGED <<database, l2, orders, cancelled, outcome, read, pos, fill, risk,
                 collected, tracker>>

Wait(here, finished, next) ==
  /\ pc = here
  /\ finished
  /\ pc' = next
  /\ UNCHANGED <<database, streams, cancelled, outcome, engine, executor, collector, faults>>

EnginesEnded == \A s \in Symbols : engine[s] \in {"done", "failed"}

(* The executor is told to stop and not waited for. *)
BugExecutorsStopped == TRUE

ExecutorsStopped == \A s \in Symbols : reader[s] = "stopped"

CollectorStopped == colReader = "stopped"

(* g.Wait, then execCancel. *)
AwaitEngines == Wait("replay", EnginesEnded, "executor")

(* exec.Wait, then colCancel. *)
AwaitExecutor == Wait("executor", ExecutorsStopped, "collector")

(* The error of an engine is looked at first. *)
BugJudgement ==
  IF \E s \in Symbols : engine[s] = "failed" THEN "FAILED"
  ELSE IF cancelled THEN "CANCELLED" ELSE "COMPLETED"

(* The error of the engines is dropped. *)
BugNoJudgement == IF cancelled THEN "CANCELLED" ELSE "COMPLETED"

(* ctx.Err, then the error of the first engine that failed. *)
Judgement ==
  IF cancelled THEN "CANCELLED"
  ELSE IF \E s \in Symbols : engine[s] = "failed" THEN "FAILED" ELSE "COMPLETED"

(* col.Wait, and the look at what has happened. *)
AwaitCollector ==
  /\ pc = "collector"
  /\ CollectorStopped
  /\ outcome' = Judgement
  /\ pc' = "report"
  /\ UNCHANGED <<database, streams, cancelled, engine, executor, collector, faults>>

(* CANCELLED is published with a background context, REPLAY_COMPLETE with  *)
(* the context of the run; a failure is only logged.                       *)
Report ==
  /\ pc = "report"
  /\ IF outcome = "COMPLETED"
     THEN /\ \/ RunSucceeds /\ control' = Append(control, "REPLAY_COMPLETE")
             \/ RunFails("control") /\ UNCHANGED control
          /\ pc' = "metrics"
     ELSE /\ \/ Succeeds /\ control' = Append(control, "CANCELLED")
             \/ Suffering("control") /\ UNCHANGED control
          /\ pc' = "mark"
  /\ UNCHANGED <<database, l2, orders, cancelled, outcome, engine, executor, collector>>

(* The fee of the sell is forgotten. *)
BugPair(acc, t) ==
  LET open == acc.open[t.symbol]
  IN  IF t.side = "buy"
      THEN [acc EXCEPT !.open[t.symbol] = Append(open, TradeQty * t.price + t.fee)]
      ELSE IF open = << >> THEN acc
      ELSE [acc EXCEPT !.open[t.symbol] = Tail(open),
                       !.pnls = Append(@, TradeQty * t.price - Head(open))]

(* A sell is paired with the oldest open buy of its symbol, and left out   *)
(* when there is none.                                                     *)
Pair(acc, t) ==
  LET open == acc.open[t.symbol]
  IN  IF t.side = "buy"
      THEN [acc EXCEPT !.open[t.symbol] = Append(open, TradeQty * t.price + t.fee)]
      ELSE IF open = << >> THEN acc
      ELSE [acc EXCEPT !.open[t.symbol] = Tail(open),
                       !.pnls = Append(@, TradeQty * t.price - t.fee - Head(open))]

(* tradeMetrics: the profits and losses of the pairs, from which it takes  *)
(* the hit rate and the averages.                                          *)
TradeMetrics ==
  FoldLeft(Pair, [open |-> [s \in Symbols |-> << >>], pnls |-> << >>], trades).pnls

(* Compute; a failure is only logged. *)
ComputeMetrics ==
  /\ pc = "metrics"
  /\ \/ Succeeds /\ metrics' = TradeMetrics
     \/ Suffering("metrics") /\ UNCHANGED metrics
  /\ pc' = "mark"
  /\ UNCHANGED <<status, trades, points, streams, cancelled, outcome, engine, executor, collector>>

(* The terminal status; a failure is only logged, or not even that.        *)
MarkEnd ==
  /\ pc = "mark"
  /\ \/ Succeeds /\ status' = outcome
     \/ Suffering("status") /\ UNCHANGED status
  /\ pc' = "ended"
  /\ UNCHANGED <<trades, points, metrics, streams, cancelled, outcome, engine, executor, collector>>

-------------------------------------------------------------------------------
(* The replay engine of a symbol, as in L2Source: it may fail by itself or *)
(* because the run is cancelled or another engine has failed.              *)

PublishL2(s) ==
  /\ engine[s] = "running"
  /\ l2[s] < MaxEntries[s]
  /\ MapThenSumSet(LAMBDA sym : l2[sym], Symbols) < MaxTotal
  /\ l2' = [l2 EXCEPT ![s] = @ + 1]
  /\ UNCHANGED <<database, orders, control, runner, engine, executor, collector, faults>>

EndEngine(s) ==
  /\ engine[s] = "running"
  /\ \E end \in {"done", "failed"} : engine' = [engine EXCEPT ![s] = end]
  /\ UNCHANGED <<database, streams, runner, executor, collector, faults>>

-------------------------------------------------------------------------------
(* The executor of a symbol.                                               *)

BeforeStop == {"create", "start", "announce", "replay"}

(* execCtx, cancelled when the engines have ended. *)
ExecStopping == pc \notin BeforeStop

(* tradeDecision: one position per symbol at a time. *)
TradeDecision(wants, held) ==
  CASE wants = "buy"  /\ held <= 0 -> "buy"
    [] wants = "sell" /\ held >= 0 -> "sell"
    [] OTHER                       -> "none"

(* computeFillPrice's condition: the side to cross is not empty. *)
Fillable(side, entry) == IF side = "buy" THEN entry.ask > 0 ELSE entry.bid > 0

NewOrder(s, side, entry) ==
  LET price == FillPrice(side, entry)
  IN  [symbol |-> s, side |-> side, price |-> price, fee |-> Fee(TradeQty, price)]

(* Between two entries of runL2Reader's loop or of drainL2's. *)
Handling(s) == fill[s] = None /\ reader[s] = "running"

(* handleL2 up to the order: decide, CanTrade, the fill price, and the     *)
(* position. Only CanTrade touches what is shared.                         *)
HandleL2(s) ==
  /\ Handling(s)
  /\ read[s] < l2[s]
  /\ read' = [read EXCEPT ![s] = @ + 1]
  /\ \E entry \in Entries :
     LET side    == TradeDecision(entry.wants, pos[s])
         verdict == IF side = "none" THEN "none" ELSE Verdict(risk, s, side, TradeQty)
     IN  /\ risk' = [risk EXCEPT !.halted = @ \/ verdict = "trip"]
         /\ IF verdict = "ok" /\ Fillable(side, entry)
            THEN /\ pos' = [pos EXCEPT ![s] = @ + Signed(side, TradeQty)]
                 /\ fill' = [fill EXCEPT ![s] = [order |-> NewOrder(s, side, entry),
                                                 sent  |-> FALSE]]
            ELSE UNCHANGED <<pos, fill>>
  /\ UNCHANGED <<database, streams, runner, engine, reader, collector, faults>>

(* handleL2, publishOrder: a failure is only logged. *)
PublishOrder(s) ==
  /\ fill[s] # None
  /\ ~fill[s].sent
  /\ fill' = [fill EXCEPT ![s].sent = TRUE]
  /\ \/ Succeeds /\ orders' = Append(orders, fill[s].order)
     \/ Suffering("order") /\ UNCHANGED orders
  /\ UNCHANGED <<database, l2, control, runner, engine, reader, read, pos, risk, collector>>

(* handleL2, RecordFill: also of an order that could not be published.     *)
RecordFill(s) ==
  /\ fill[s] # None
  /\ fill[s].sent
  /\ LET o == fill[s].order
     IN  risk' = RiskRecordFill(risk, s, o.side, TradeQty, o.price, o.fee)
  /\ fill' = [fill EXCEPT ![s] = None]
  /\ UNCHANGED <<database, streams, runner, engine, reader, read, pos, collector, faults>>

(* The drain waits for one entry more. *)
BugDrained(s) == read[s] > l2[s]

Drained(s) == read[s] = l2[s]

(* When its context is cancelled runL2Reader gives way to drainL2, which   *)
(* ends at the end of the stream, or at an error, which is not even logged. *)
StopExecutor(s) ==
  /\ Handling(s)
  /\ ExecStopping
  /\ \/ Drained(s) /\ Succeeds
     \/ Suffering("drain")
  /\ reader' = [reader EXCEPT ![s] = "stopped"]
  /\ UNCHANGED <<database, streams, runner, engine, read, pos, fill, risk, collector>>

-------------------------------------------------------------------------------
(* The collector.                                                          *)

ColStopping == pc \notin BeforeStop \cup {"executor"}

(* The fee of a sell is forgotten. *)
BugTrack(t, o) ==
  [t EXCEPT !.cash = @ - Signed(o.side, TradeQty * o.price) - (IF o.side = "buy" THEN o.fee ELSE 0),
            !.positions[o.symbol] = @ + Signed(o.side, TradeQty),
            !.marks[o.symbol] = o.price]

(* equityTracker.applyFill *)
Track(t, o) ==
  [t EXCEPT !.cash = @ - Signed(o.side, TradeQty * o.price) - o.fee,
            !.positions[o.symbol] = @ + Signed(o.side, TradeQty),
            !.marks[o.symbol] = o.price]

(* What applyFill returns: cash, and every position at its last price.     *)
Equity(t) == t.cash + SumFunction([s \in Symbols |-> t.positions[s] * t.marks[s]])

(* handleOrder; a failed INSERT is only logged. *)
HandleOrder ==
  /\ colReader = "running"
  /\ collected < Len(orders)
  /\ collected' = collected + 1
  /\ LET o == orders[collected + 1]
     IN  /\ tracker' = Track(tracker, o)
         /\ \E lost \in SUBSET ({"trade", "point"} \cap Faults) :
              /\ faults' = faults + Cardinality(lost)
              /\ faults' <= MaxFaults
              /\ trades' = IF "trade" \in lost THEN trades ELSE Append(trades, o)
              /\ points' = IF "point" \in lost THEN points ELSE Append(points, Equity(tracker'))
  /\ UNCHANGED <<status, metrics, streams, runner, engine, executor, colReader>>

(* runOrdersReader gives way to drainOrders, as in the executor. *)
StopCollector ==
  /\ colReader = "running"
  /\ ColStopping
  /\ \/ collected = Len(orders) /\ Succeeds
     \/ Suffering("drain")
  /\ colReader' = "stopped"
  /\ UNCHANGED <<database, streams, runner, engine, executor, collected, tracker>>

-------------------------------------------------------------------------------
Runner ==
  \/ CreateRun \/ MarkRunning \/ StartReplay
  \/ AwaitEngines \/ AwaitExecutor \/ AwaitCollector
  \/ Report \/ ComputeMetrics \/ MarkEnd

Engine(s) == PublishL2(s) \/ EndEngine(s)

Executor(s) ==
  HandleL2(s) \/ PublishOrder(s) \/ RecordFill(s) \/ StopExecutor(s)

Collector == HandleOrder \/ StopCollector

Next ==
  \/ Cancel
  \/ Runner
  \/ \E s \in Symbols : Engine(s) \/ Executor(s)
  \/ Collector

(* Every goroutine runs, the calls it makes return, and every engine comes *)
(* to its end (ReplayEngine!ReplayEnds).                                   *)
Spec ==
  /\ Init /\ [][Next]_vars
  /\ WF_vars(Runner)
  /\ \A s \in Symbols : WF_vars(Engine(s)) /\ WF_vars(Executor(s))
  /\ WF_vars(Collector)

-------------------------------------------------------------------------------
(* Properties.                                                             *)

Held == {-TradeQty, 0, TradeQty}

(* The state has its types; the executor and the risk checker never hold   *)
(* more than one position of TradeQty in a symbol.                         *)
TypeOK ==
  /\ status \in {"none", "PENDING", "RUNNING", "COMPLETED", "FAILED", "CANCELLED"}
  /\ trades \in Seq(Orders) /\ points \in Seq(Int)
  /\ metrics = None \/ metrics \in Seq(Int)
  /\ \A s \in Symbols : l2[s] \in 0 .. MaxEntries[s]
  /\ orders \in Seq(Orders)
  /\ control \in Seq({"REPLAY_START", "REPLAY_COMPLETE", "CANCELLED"})
  /\ cancelled \in BOOLEAN
  /\ pc \in BeforeStop \cup {"executor", "collector", "report", "metrics", "mark", "ended"}
  /\ outcome \in {"none", "COMPLETED", "FAILED", "CANCELLED"}
  /\ engine \in [Symbols -> {"off", "running", "done", "failed"}]
  /\ reader \in [Symbols -> {"off", "running", "stopped"}]
  /\ \A s \in Symbols : read[s] \in 0 .. l2[s]
  /\ pos \in [Symbols -> Held]
  /\ fill \in [Symbols -> Fills \cup {None}]
  /\ risk.positions \in [Symbols -> Held]
  /\ colReader \in {"off", "running", "stopped"}
  /\ collected \in 0 .. Len(orders)
  /\ tracker.positions \in [Symbols -> Int]
  /\ faults \in 0 .. MaxFaults

Launched == pc \notin {"create", "start", "announce"} /\ engine # [s \in Symbols |-> "off"]

(* However a run ends, every entry the engines wrote has been handled and  *)
(* every published order has its trade, unless a call failed ("drains all  *)
(* L2 events and finishes publishing orders", "persists all trades").      *)
NothingLost ==
  pc = "ended" /\ Launched /\ faults = 0 =>
    /\ \A s \in Symbols : read[s] = l2[s] /\ fill[s] = None
    /\ trades = orders

(* The three accounts of a run agree at its end, unless a call failed: the *)
(* executors' positions, the risk checker's positions and equity, and the  *)
(* collector's positions and cash.                                         *)
BooksAgree ==
  pc = "ended" /\ Launched /\ faults = 0 =>
    /\ risk.positions = pos
    /\ tracker.positions = pos
    /\ tracker.cash = risk.equity

(* What buying at an entry costs, the fee included. *)
BuyCost(entry) ==
  LET price == FillPrice("buy", entry) IN TradeQty * price + Fee(TradeQty, price)

DearestFill ==
  LET costs == {BuyCost(e) : e \in Entries} IN CHOOSE c \in costs : \A d \in costs : d <= c

(* The limits on losses are checked before a fill and the fill is recorded *)
(* after it, while the executors of other symbols go on: equity falls      *)
(* below a limit by at most one fill for each symbol that trades.          *)
OvershootBounded ==
  LET slack == 100 * Cardinality({s \in Symbols : read[s] > 0}) * DearestFill
  IN  /\ RunLossLimitPct > 0 =>
           risk.equity * 100 >= InitialCapital * (100 - RunLossLimitPct) - slack
      /\ MaxDrawdownPct > 0 =>
           risk.equity * 100 >= risk.peak * (100 - MaxDrawdownPct) - slack

Terminal == {"COMPLETED", "FAILED", "CANCELLED"}

(* The status a run ends with is true: COMPLETED only if every engine got  *)
(* to the end of its range, FAILED only if one did not, CANCELLED only if  *)
(* the run was; REPLAY_COMPLETE is never announced otherwise; and without  *)
(* a failed call only a cancellation before RUNNING leaves a run without   *)
(* one of the three.                                                       *)
StatusIsTrue ==
  /\ status = "COMPLETED" => \A s \in Symbols : engine[s] = "done"
  /\ status = "FAILED" => \E s \in Symbols : engine[s] = "failed"
  /\ status = "CANCELLED" => cancelled
  /\ pc = "ended" /\ faults = 0 /\ status \notin Terminal => cancelled /\ ~Launched
  /\ \A i \in DOMAIN control : control[i] = "REPLAY_COMPLETE" => status \notin {"FAILED", "CANCELLED"}

(* What the first n trades leave of a symbol. *)
Left(s, n) ==
  SumFunction([i \in 1 .. n |->
                 IF trades[i].symbol = s THEN Signed(trades[i].side, TradeQty) ELSE 0])

NeverShort == \A s \in Symbols, n \in DOMAIN trades : Left(s, n) >= 0

(* The profits and losses of the metrics add up to what the run earned,    *)
(* fees included, if no position is open at its end and none was ever      *)
(* short: the pairing takes every sell for the end of a long.              *)
ProfitsAddUp ==
  /\ metrics # None
  /\ faults = 0
  /\ \A s \in Symbols : pos[s] = 0
  /\ NeverShort
  => InitialCapital + SumFunction(metrics)
       = (IF points = << >> THEN InitialCapital ELSE Last(points))

(* A run cancelled while it replays ends CANCELLED, although the engines   *)
(* then fail ("SIGTERM path"), unless that cannot be written.              *)
CancelledAreMarked ==
  (pc = "replay" /\ cancelled) ~> (status = "CANCELLED" \/ faults > 0)

(* The run comes to an end: every stage sees that the one before it is     *)
(* over, drains and stops, whatever is cancelled or fails.                 *)
RunEnds == <>(pc = "ended")

===============================================================================
