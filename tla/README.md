# Erebor: TLA+ verification

Erebor records Binance order books, computes signals from them, trades on the
signals on paper, and replays the recorded books to backtest the same trading.
This directory holds TLA+ specifications of its engine (`src/engine`, Go), TLC
configurations for small instances of them, and TLAPS proofs for every value of
the constants.

## 1. The system

```
 Binance WS ──> stream ──> channel ──> dispatcher ──> symbol.Handler ──> order_book_diffs, order_book_snapshots
 Binance REST ─> fetcher ─────────────────────────────────┘   └──> erebor:l2:<SYM> (live stream)
                                                                        │
                              ┌─────────────────────────────────────────┤
                              v                                         v
                      signals service ──> erebor:signals:… ──> paper execution ──> trades, positions, orders
                                                           (L2 cache, risk checker, blotter, session)

 order_book_* ──> replay engine ──> <run>:l2:<SYM> ──> executor ──> <run>:orders ──> collector ──> trades, equity ──> metrics
                  (one per symbol)                (risk checker)                    (backtest runner starts and stops all)
```

| Part | State it keeps | Operations | What is hard | What makes it correct |
|---|---|---|---|---|
| `stream`, `dispatch`, `cmd/erebor-ingest` | connection, event channel, shutdown | Connect, runLoop, Run, Close, runShutdown | redial loses events; a full channel; the close order | every diff read is handled in order; the process ends; nothing works after it |
| `book` | bids, asks, last update id | Apply, Snapshot, LoadSnapshot, Reset | absolute quantities, deletes, depth cut | equals the exchange's book at its id |
| `symbol.Handler` | state, bootstrap buffer, snapshot, two flags, last id, checkpoint counters | HandleDiff, fetch goroutine's answer, error path | a fetch racing events, overflow, gaps, late and stale snapshots, failing sinks | a book in use is true; never stranded; buffer bounded; live stream only moves forward |
| `fetcher`, `repository`, `publisher` | none | REST call; INSERTs, queries; XADD | fail, lag | see the handler and the replay |
| `signals` | consumer-group position | read, compute, publish, acknowledge | entries read but not acknowledged; publish failures | each L2 entry yields its signals, once and in order |
| `execution/l2cache` | best prices and position per symbol | read batch, update | one-sided books, malformed entries, trimming | the price only moves forward, and gets there |
| `risk.Checker` | positions, equity, peak, halt flag, whether the persisted halt was asked for | CanTrade, RecordFill, halt persistence | halt store unavailable; restart; shared by executors | no order passes a breached limit; halts survive |
| `execution` (consumer, blotter, session, repository) | positions, average entries, realised P&L, session row, pending list | handle signal, fill, transaction, resume, stop, halt | redelivery, crash between commit and acknowledgement, undo | memory equals the database; accounts add up; a signal is filled once; a halt holds |
| `backtest/replay` | book, position in the log | seek, load, replay, gap handling, reseed | gaps, early and late checkpoints, rows older than the book | books published are true where the recording is unbroken; nothing left out; holes on record |
| `backtest/runner`, `execution`, `collector`, `metrics` | goroutines, positions, control messages, trades, equity | Run, drain, collect, compute | end-of-run ordering across stages, cancellation, drain errors | nothing lost at the end; the accounts agree; the status is true |
| `signals/compute`, `fillmath` | none | formulas | – | equal their definitions |
| `src/dashboard`, `src/infra` | none of the trading state | queries, deployment | – | not modelled |

The hazards this gives rise to are listed, each at its line, in `PROJECT.json`
under `hazards`.

## 2. Modules

| Module | What it is |
|---|---|
| `IngestProcess` | the goroutines around the handlers: connection loop, channel, dispatcher, fetches, main and its shutdown |
| `OrderBook` | the book, diff events, snapshots, the exchange's market; what "true book" means (`Tracks`) |
| `L2Feed` | abstract specification: what readers of the live stream are promised |
| `SymbolHandler` | the ingest state machine between exchange, fetch goroutine and sinks |
| `LiveReaders` | the two readers of the live stream: signals service and price cache |
| `Blotter` | fill price, fee and average-entry arithmetic, apply and undo |
| `RiskChecker` | the pre-trade rules as operators on the checker's state |
| `PaperExecution` | the paper execution service: consumer group, session, blotter, risk, database, crashes |
| `PaperAccount` | abstract specification: what the service promises of the account of each session |
| `ReplayEngine` | the replay of one symbol's recording in a backtest |
| `L2Source` | abstract specification: what a replay engine promises the stages behind it |
| `BacktestRun` | one backtest run: runner, executors with a shared risk checker, collector, metrics |
| `MCSymbolHandler`, `MCPaperExecution`, `MCReplayEngine`, `MCBacktestRun` | instances for TLC |
| `NatLemmas` | least and greatest elements, sequences, induction over finite sets, sums over finite sets and sequences, folds |
| `OrderBookLemmas` | applying events to books, truncation |
| `SymbolHandlerProofs`, `PaperExecutionProofs`, `LiveReadersProofs`, `IngestProcessProofs`, `ReplayEngineProofs`, `BacktestRunProofs` | inductive invariants, theorems, refinements |

How they compose. `SymbolHandler` is the environment of `ReplayEngine` (which starts
from what the former may have left in the database) and of `LiveReaders` (which
read what it publishes); `IngestProcess` justifies what `SymbolHandler` assumes of
the dispatcher: events come one at a time, in order, and a stop waits for the
fetch. `ReplayEngine` implements `L2Source`, and the engines of `BacktestRun` do
what `L2Source` allows. `PaperExecution` and `BacktestRun` share `RiskChecker` and
`Blotter`, as the programs share `risk` and `fillmath`.

Definitions whose name starts with `Bug` are plausible faults of the code. No
specification uses them; `PROJECT.json` lists, under `mutants`, which definition
each takes the place of and which property then fails.

### IngestProcess

| Code | Model |
|---|---|
| `Manager.runLoop`, `runOnce` | `Dial`, `ReadFrame`, `SessionEnds`, `Send`, `Backoff`, by `loop` |
| `Manager.events` | `events`, `closed`; `Enqueue` and `GivesUp` are the two cases of the select |
| `Dispatcher.Run` with `convertRaw` | `TakeEvent`, `HandlerReturns`, `DispatcherEnds`, by `disp` |
| a handler's `runSnapshotFetch` | `fetching`: any of them is in flight |
| `main`, `runShutdown`, `Manager.Close`, `Handler.Stop` | `Cancel`, `BeginShutdown`, `CloseStream`, `AwaitDispatcher`, `StopHandlers` |

A step of a goroutine that blocks, on the connection, the channel, a handler or
another goroutine, ends an action. A frame is a diff, an event the dispatcher skips
(`alien`), or noise that the loop skips. Redialling loses what was sent
meanwhile. The shutdown deadline may pass at any time (`late`), but it only
covers the wait for the dispatcher: `wg.Wait` of `Close` and of `Stop` have none.

### OrderBook

`Market[u]` is the exchange's book after update `u`. A diff event is the pair
of its first and last update ids; the levels it lists are those that `Market`
changed in between (`Touched`), each with its absolute quantity, as Binance
documents and `applyLevel` relies on. One side of the book is modelled: the two
maps are handled by the same code. A quantity is a number and 0 is a missing
level. `TopLevels` is `sortedLevels` with the depth cut. `Sound` says that a book
shows nothing the market did not have at its id; `Exact` that it is the market;
`Tracks` asks for the first always and for the second when the depth limit cuts
nothing off.

### SymbolHandler

| Code | Model |
|---|---|
| exchange, WebSocket | `ExchangeUpdate` moves the market; `NextEvents` are the events the stream may carry next; `LoseEvent` is a redial or an undecodable frame |
| `HandleDiff` | `HandleDiff`: one disjunct per state and branch (`DiffDisconnected`, `DiffWithSnapshot`, `DiffNoSnapshot`, `DiffInSequence`, `DiffAfterGap`) |
| `tryAlignLocked`, `discardPreSnapshot`, `findAlignmentIndex` | `TryAlign`, `KeepAfter`, `Aligns`, `FromAlignment` |
| `replayAlignedBufferLocked` | loading the snapshot is part of `TryAlign`; each iteration of the loop is `ReplayEvent` |
| `runSnapshotFetch` | `FetchSucceeds` (the answer is the book at any earlier update), `FetchIsStale`, `FetchFails` |
| `enterResyncLocked` | `DiffAfterGap` |
| `shouldCheckpointLocked` | `CheckpointDue`: the count, or the interval at any moment |
| live stream, `order_book_diffs`, `order_book_snapshots` | `published`, `diffLog`, `checkpoints` |

Atomicity: each method holds `h.mu` throughout, so each is one action, except the
replay loop, which does I/O for every event under the lock: `toReplay # {}`
means that the lock is held, and only the exchange, losses and cancellation may
interleave. `Resyncing` is never visible outside the lock and is no value of
`state`. The branches for an error from `Book.Apply` cannot be taken.

`LossyBootstrap` says whether the stream may lose events while a handler is
bootstrapping. With it the code has a defect (section 5); the statements about
books are checked and proved without it, all others with both values.

### LiveReaders

| Code | Model |
|---|---|
| the stream with its MAXLEN | `stream`, `trimmed`; `EntryArrives` may trim anything beyond `MaxLen` entries, or leave it |
| `signals` `Consumer.Start` | `StartService`: an existing group is kept (BUSYGROUP) |
| `readLoop` | `ReadEntries`; a lost reply leaves its entries pending |
| `handleMessage`, `compute.All`, `Publish`, `ack` | `PublishSignal`, once for each of the three names, then `AckEntry` |
| SIGTERM, the end of the loop, any other end | `StopService`, `ServiceEnds`, `CrashService` |
| `l2cache.readOnce`, `handleMessage` | `ReadCache`, `CacheEntry`; a new process starts from "0" (`RestartCache`) |

An entry is `quoted`, `one_sided` or `garbled`: that is all its readers can tell. The
loops serve all symbols and share nothing else between them, so one symbol stands
for all. Entries that are pending and trimmed stay pending, as in Redis.

### PaperExecution, RiskChecker, Blotter

| Code | Model |
|---|---|
| signal stream, consumer group, `erebor:live:halt`, order stream (Redis) | `stream`, `delivered`, `pending`, `haltHash`, `orders`; a stream id is an index |
| `paper_sessions`, `paper_positions`, `paper_equity`, `paper_trades` (TimescaleDB) | `sessions` (status, `rows`, `points`), `trades` |
| `session.Manager.Start`, recovery in `main` | `Resume`, `CreateSession`, `Refused`, `Launch`, `SeedRisk` |
| `readLoop` | `ReadPending` (`drainPEL`) and `ReadNew` in turn; each takes a batch, whose signals are handled oldest first |
| `handleMessage` and the handler of `main` | `Decide`, `CheckRisk`, `HaltSession`, `NoQuote`, `Fill`, `PublishOrder`, `Acknowledge`, sequenced by `step` |
| `blotter.RecordFill` with its transaction and rollback | `FillAt`, one action: nothing else in the process reads a position in between |
| `risk.CanTrade`, `RecordFill`, `RedisHaltStore` | `Probe`, `Verdict`, `RiskRecordFill`, the halt store's answers in `CheckRisk` |
| SIGTERM, the end of `main`, any other end | `Terminate`, `Shutdown`, `Crash` |

A step of the handler is an action for each call to Redis or the database that
has a lasting effect, so that a crash may hit between any two. Memory, and only
memory, is lost in a crash (`Exit`).

Failures. An action says which of its calls fail (`failed`) and `Suffering` counts
them against `MaxFaults`; `Faults` names the kinds a run allows. The fault
`unknown` is a commit that happens and reports an error. Once SIGTERM has
cancelled the consumer's context, every call made with it fails (`ConsumerCall`)
until the batch has been walked through; the halt store is called with
`context.Background()` and goes on working, as does `sessionMgr.Stop`.

Data. A signal is the set of sides its name and value ask for (`Wants`): the
decider reads nothing else of it, and an empty set stands for every signal that
it ignores. The L2 cache is `quoted`: no quote of a symbol before the first one,
then any of `Quotes` at each fill, since the cache may be arbitrarily old. Money is
in units of 1/`BasisPoints`² of a price, so that slippage and fees are exact.
Each symbol's event times grow; across symbols they do if `SkewedTimes` is
FALSE. `CrashAfterCommit` says whether a crash may hit between a fill's commit
and its acknowledgement: with it the code has a defect (finding 2).

`PaperAccount` has one account per session and four actions, `Open`, `Trade`,
`Flag` and `Close`. `Account` maps status, net positions, filled signals and halt
flags of the database and Redis to it; the process, its reads and its failures do
not show.

### ReplayEngine, L2Source

| Code | Model |
|---|---|
| `order_book_diffs`, `order_book_snapshots` | `diffs`: any set of events that do not overlap; `snapshots`: any true books, captured `Delays` after their update |
| `replay`, steps 1 and 2: `QueryNearestCheckpoint`, `Reset`, `LoadSnapshot` | `Seek`, `Nearest`, `Loaded` |
| step 3: `QueryDiffs` | `LoadDiffs`, `InRange`; the order by event time is `IsNext` |
| `maybeHandleGap`, `handleGap` | `GapBefore`, `HandleGap`: the control event, the reseed and the row of `backtest_data_gaps`, each of which may fail |
| `applyAndPublish`, the look at the context | `ReplayRow`, `AfterRow`, `AfterFailure` |

The recording is chosen at the start and covers what the ingest service may have
left: holes from lost events and failed writes, checkpoints whose capture time, by
the clock of the ingest process, lies before or after the events it contains. An
iteration of the loop is two actions when it crosses a gap and one otherwise;
nothing else works on the engine's state. The length of the waits of
`SpeedController` is left out, being cancelled in one is not. `Source` maps the
stream to `L2Source`.

### BacktestRun

| Code | Model |
|---|---|
| `BacktestRunner.Run` | `CreateRun`, `MarkRunning`, `StartReplay`, `AwaitEngines`, `AwaitExecutor`, `AwaitCollector`, `Report`, `ComputeMetrics`, `MarkEnd`, by `pc` |
| a symbol's replay engine | `PublishL2`, `EndEngine`, as in `L2Source` |
| `Executor.handleL2` | `HandleL2` (decision, `CanTrade`, position), `PublishOrder`, `RecordFill`: other symbols' executors share the risk checker and go on in between |
| `runL2Reader`, `drainL2` | `StopExecutor`: the drain is the same handling, after `execCtx` is cancelled, to the end of the stream or a failed XRANGE |
| `ResultCollector.handleOrder`, `equityTracker` | `HandleOrder`, `Track`, `Equity` |
| `ordersLoop`, `drainOrders` | `StopCollector` |
| `tradeMetrics` | `TradeMetrics`, `Pair` |

The calls made with the context of the run fail once it is cancelled (`RunFails`);
those with a background context go on (`Succeeds`). What an L2 entry says is
chosen when the executor handles it, the only one to look at it.

## 3. What TLC checks

| Run | Instance | Shows |
|---|---|---|
| `handler` | 6 updates, 3 prices, events of 1–2 updates, depth limit 2, buffer of 2; fetches, publishes and checkpoints may fail, and every write after cancellation | `BookTracksMarket`, `NeverStranded`, `NoMissedAlignment`, `BufferBounded`, `CheckpointsTrackMarket`, `PublishedIsLogged`; the live stream implements `L2Feed`; `SnapshotArrives`, `HopelessSnapshotDropped`, `FetchesEnd` |
| `handler_lossy_bootstrap` | 6 updates, losses in a bootstrap | finding 1 |
| `exec_ledger` | 1 symbol, 3 signals, a market that moves, 3 sessions, slippage and fees; 3 faults among crash, stop, lost order, lost halt flag; no crash after a commit | `PositionsAgree`, `LedgerConsistent`, `ProfitIsCashFlow`, `EquityIsLedger`; the service implements `PaperAccount` |
| `exec_faults` | 1 symbol, 3 signals, position limit, drawdown limit, 3 sessions, 2 faults of any kind but a failing halt probe | `PositionBounded`, `OrdersArePersisted`, `HaltedTradesNoMore`, `EverySignalSettles` |
| `exec_redelivery` | 3 signals, 1 crash, after a commit too | finding 2 |
| `exec_undo` | 3 signals, 1 failed transaction | finding 3 |
| `exec_risk_restart` | 3 signals, 1 crash | finding 4 |
| `exec_halt_stopped` | 3 signals, drawdown limit, 1 stop | finding 5 |
| `ingest` | 5 frames, a channel of 2, a shutdown at any moment | `Conveyed`, `QuietAtExit`, `ShutdownEnds`, `DiffsArrive` |
| `live_readers` | 3 entries of any kind, 2 kept after trimming, batches of 2, 1 fault of any kind | `SignalsInOrder`, `AckedAreSignalled`, `SignalsCome`, `PriceMovesForward`, `QuotesReachCache` |
| `replay` | every recording of 6 updates in events of 1–2 with up to 2 checkpoints captured early, at once or late; the range 2 to 5; any call may fail, the insert of a gap included, cancellation at any moment | `TrueWhereUnbroken`, `NothingLeftOut`, `HolesAreRecorded`; the stream implements `L2Source`; `ReplayEnds` |
| `backtest` | 2 symbols with up to 3 entries together, 4 kinds of entries, slippage and fees, a run-loss and a drawdown limit, 1 fault among a statement on the run's row, a control event, an order, the insert of the metrics and a drain, cancellation at any moment | `NothingLost`, `BooksAgree`, `OvershootBounded`, `StatusIsTrue`, `ProfitsAddUp`, `CancelledAreMarked`, `RunEnds` |

Every run ends with its bounded inputs (updates, signals, frames, entries), or
because the process or the replay does, so deadlock is not checked.

Bounds. For the handler, six updates are enough for a bootstrap, a gap, a resync
whose buffer overflows while the fetch is in flight, a stale answer, and a second
sync. The market changes every price to quantities it never had before and removes
two, so that a missed, repeated or misplaced event shows. A buffer of two events
overflows easily. The checkpoint threshold is reached and missed.

For the execution service, three signals open a position, close or reverse it and
act on the outcome; three sessions allow a stop or a halt, a new session and one
more; a batch of two is read while a third signal waits; and two faults are a
failure together with the crash that comes while it is being retried. `exec_ledger`
has three, which is what it takes to halt a session, lose its flag and start again;
and with three of them two kinds that it used to have broke the properties
(section 5), so they are left out, here as in the theorems. The risk limits are set
so that a single position trips them.

For the ingest process, five frames fill a channel of two, one in the dispatcher's
hands and one in the loop's, and leave one to be lost in a redial. For the readers,
three entries make a batch, one behind it, and a trimmed one. For the replay, the
range begins after the first checkpoint may have been made and ends before the
recording does; six updates have room for two holes with a reseed between them.
For the backtest, two symbols are the least with which fills race on the risk
checker, and a limit of a quarter of the capital is what two dear purchases break. The drawdown
limit of 30% trips on its own where sales came first and raised the peak; no three
fills overshoot it by more than the slack, so that a missing drawdown check is beyond
this run, and `OvershootBoundedHolds` proves both halves. The inserts of a trade and
of an equity point are left to the theorems: they are failed calls like the others, and
with them the run takes nearly twice as long.

Fairness of `SymbolHandler` (`Fairness`). The market moves and the stream delivers
while the service lives; the goroutine in the replay loop is scheduled; a fetch
that is repeated gets an answer sometimes while the service lives (the HTTP client
has a timeout, and the retry loop has no bound), and returns an error once its
context is cancelled. Nothing forces an alignment, a checkpoint or a write to
succeed.

Fairness of `PaperExecution` (`Fairness`). A process that is down is started again,
by its supervisor or an operator; the read loop, a single goroutine that blocks
in nothing but its calls, goes on; a shutdown that began ends. Signals need not
arrive, and faults are finitely many in the model: a call that fails for ever
settles nothing. `EverySignalSettles` excepts a refused startup, which waits for a
human to clear the halt.

Fairness of the others is weak fairness of each goroutine: the connection's loop,
the dispatcher, a cancelled fetch and main (`IngestProcess`); the two loops
and the start of a service that is down, by whoever runs it, without which there is
nothing to promise (`LiveReaders`); the engine (`ReplayEngine`); the runner, each engine, each executor
and the collector (`BacktestRun`). The Go scheduler runs what can run, and every
call has a timeout or a context. No cancellation and no fault is ever assumed to
come, and none to stay away but by `MaxFaults`. That an engine ends, which
`BacktestRun` assumes, is what `ReplayEnds` shows of `ReplayEngine`.

## 4. What TLAPS proves

For every market, price grid, depth limit, buffer size, event size, threshold and
set of faulty sinks, from the named assumptions on the constants:

- `TypeCorrect`, `NeverStrandedHolds`, `FetchMeetsBootstrapHolds`,
  `NoMissedAlignmentHolds`, `BufferBoundedHolds`, `PublishedIsLoggedHolds`,
  whatever the stream loses;
- `BookTracksMarketHolds`, `CheckpointsTrackMarketHolds` and
  `HandlerImplementsFeed` (`Spec => FeedSpec`) when the stream loses nothing
  during a bootstrap (`LosslessBootstrap`).

The argument. `IInv` strengthens the properties by what each relies on: the
buffer is a stretch of the stream, its events do not overlap and, without losses,
each is followed by the next up to the newest event carried (`OnWire`,
`Contiguous`); the replay set is a tail of the buffer that lies beyond the book
and whose oldest event continues it (`ReplayInv`); the newest published id lies
before everything buffered (`PublishedInv`), which is why a resync with an old
snapshot cannot publish backwards; books in use, snapshots in waiting and
checkpoints are true (`BooksInv`). `AlignStepInv` serves both callers of
`tryAlignLocked`. `ApplyTracks` is the heart of the book's correctness: an event
that overlaps or continues a true book leaves a true book, because a price it does
not list did not change since the book's id (`UntouchedStays`, by the least
number principle `LeastElement`).

For every finite set of symbols, lot, set of quotes, risk limits, batch size, and
any number and kinds of faults, crashes after a commit included:

- `ServiceTypeCorrect`, `PositionBoundedHolds`, `SingleRunningHolds`,
  `OrdersArePersistedHolds`;
- `HaltedTradesNoMoreHolds`, assuming that the halt flag can be read
  (`"probe" \notin Faults`);
- `PositionsAgreeHolds`, assuming that commits answer (`"unknown" \notin Faults`);
- `LedgerConsistentHolds`, assuming `HandledOnce`: commits, acknowledgements and
  status changes answer, and no crash separates a commit from its acknowledgement,
  so that no filled signal is handled again in its session. Failed transactions, stops, other
  crashes, lost reads, lost orders, lost halt flags and failed probes are allowed;
- `ServiceImplementsAccount` (`Spec => AccountSpec`), assuming `Reliable`:
  `HandledOnce`, and the halt flag can be read. The account promises that a signal
  trades at most once in each session; across sessions it does not hold (section 5);
- `ProfitIsCashFlowHolds`, assuming `HandledOnce` and that transactions succeed
  (`"db" \notin Faults`);
- `EquityIsLedgerHolds` (`Spec /\ []NoZeroPoint => []EquityIsLedger`), assuming
  `InSequence`: `HandledOnce`, no failed transaction or read, and event times that
  grow across symbols, so that signals are filled in the order of their event
  times. `NoZeroPoint` says that no stored equity is exactly zero, which a restart
  would take for an account without points.

Each assumption is one that the code needs: without it the property does not hold
of the model, by finding 2 (`HandledOnce`), by finding 3 (`"db"`), or by the
divergences of section 5.

The argument. `LotInv` says that every position, in memory and in the database,
is a lot long, flat, or a lot short (`LotRows`), that what is being handled is in
the stream, and, in `IntentInv`, that a decision taken is still what the position
calls for when the fill happens: only the single consumer changes the blotter,
and a batch in progress keeps its first signal. `FillKeepsLot` is the arithmetic:
a fill that `Decide` asks for, and its undoing, stay within a lot. `OrderInv` adds
that an order about to be published has its trade. `HaltInv` relates the checker's
memory to what is stored: a session with a halt flag finds the checker halted or
not yet asked, a session with status HALTED finds it halted, and a fill is only
reached with the store asked and no halt; that is why it holds across restarts,
for `Start` resumes running sessions only and a new process asks before its first
fill. For the refinement, `IdInv` says that signals are delivered before they are
filled, so that what is read for the first time was never traded (`FreshIds`), and
`OnceInv` that the only filled signal a process has pending is the one it is about
to acknowledge, and that a process leaves no filled signal pending to a session
that will be resumed: a stop between fill and acknowledgement does leave one, but
ends the session.

For the accounts, a sum over trades is that of a function on a finite set;
`NatLemmas` has what a sum becomes when the set grows by one element, which is
all that an action does to it, and gets it by induction over subsets. `FillBooks`
is the heart: a fill changes positions, trades and points together (`Books`) or,
rolled back, none of them. With `IdInv` and `OnceInv` the inserted trade is never
one that is ignored, and `LedgerGrows` carries the sums over. `RowsAgree` extends
`PositionsAgree` to the average entries, on which profit depends, and `ProfitLedger`
is then preserved by the four ways in which a fill opens, adds to, closes or turns a
position. For the equity, `SequenceInv` says that what is pending is handled oldest
first and that no trade of the newest session is newer than a signal still pending;
so the point written last is the latest by event time, and `EquityInv` has it equal
to the ledger, and memory equal to it. The types rest on `LotInv` and on two parts
of their own: `RecordInv`, that what Redis and the database keep is of sessions and
signals that exist, and `ProcessInv`, which has the checker's fields be integers also
after `SeedRisk` has summed the rows of a resumed session.

For every number of entries, bound on the stream, batch sizes, and any number and
kinds of faults, `ReadersTypeCorrect`, `SignalsInOrderHolds`,
`AckedAreSignalledHolds` and `PriceMovesForwardHolds`. `GroupInv` says that the group
gives out entries once and in order: every signal published is of an entry before
the batch in hand, or of the oldest of the batch and of a name already tried.
`CacheInv` has every entry in the reader's hands newer than the remembered id, which
is the price's. `unsent` remembers the publishes that failed while the service was
not stopping; no action reads it. `MissingInv` says that the signals missing of
acknowledged entries, and, while the service is up, those missing of the entry in
hand (`Partly`), are among them: an entry whose handling a stop, a crash or a lost
reply cuts short stays pending, and a service that is stopping acknowledges nothing.

For every number of frames and every capacity of the channel, `ProcessTypeCorrect`,
`QuietAtExitHolds` and `ConveyedHolds`. `ShutdownInv` says that what main has closed
or waited for has ended. `OrderInv` says that what was handled, what is on the
channel and what the loop has in hand follow one another on the wire; `HoldInv`, that
nothing read is missing from these while the loop goes on, and that what it drops at
its end is newer than all of it. Reading a sequence after an append or a tail
(`SentIsLast`, `TakenIsFirst`, `QueuedBySend`, `QueuedByTake`) is most of the work.

For every market, depth limit, recording, range, delay of checkpoints, and whatever
calls fail, `ReplayTypeCorrect`, `NothingLeftOutHolds`, `HolesAreRecordedHolds`,
`TrueWhereUnbrokenHolds` and `ImplementsSource` (`Spec => SourceSpec`). `OrderInv` says
that the rows still to be replayed are exactly those of the range that are later than
the last one, and that the newest entry published has that row's time; from it the
stream is in order. `RowsInv` relates the entries to the rows replayed; `HolesInv` says
that a hole has its row, or its insert has failed (`unwritten`, which no action reads),
before the row behind it is applied. `BookInv` says what
the book is: each level is that of the checkpoint loaded last, or that of the last
row applied since which touched it (`LevelsFrom`). It holds on every recording,
broken or not. Where the recording is unbroken from the checkpoint to the entry, a
level that no row touched did not change in the market (`StaysWhereCovered`), and the
book is true (`BookIsTrue`).

For every set of symbols, number of entries, limits, and any number and kinds of
faults, `RunTypeCorrect`, `NothingLostHolds`, `StatusIsTrueHolds`, `RiskAgreesHolds`, `BooksAgreeHolds`,
`ProfitsAddUpHolds` and, if prices are bounded (`PricesBounded`) and a fee is not above
the value it is charged on (`FeesBounded`), `OvershootBoundedHolds`. `StageInv` says
that a stage stops only when the one before it is over, and how far each is at
each point of the runner; `DrainInv`, that what stopped without a fault has handled
everything, and that the trades are the orders collected so far; `StatusInv`, that
the outcome the runner has noted is what its engines made of the run. `LotInv`, as in
the execution service, keeps a position within a lot, and has the shared risk
checker behind an executor by exactly the order that executor is about to record.

`OvershootInv` counts the fills that may still come: equity lies below a limit by no
more than the dearest fill for each symbol that has traded and has no order under
way, and an order is let through only at or above the limit. `BooksInv` relates the
risk checker's equity to the cost of the orders published or about to be, and
`TrackerInv` the collector's cash and positions to the orders it has collected; at the
end of a run both are all orders. The pairing of trades in `tradeMetrics` is a fold over
a sequence. `FoldExists` shows, by induction over the length, that the iterates of a
fold exist, so that the result can be reasoned about step by step (`IsPairing`);
`PairInv` then says of each prefix of the trades that the profits booked are the cash
flow plus the cost of the buys still open.

Model-checked only: all liveness, and with it `HopelessSnapshotDropped`,
`CancelledAreMarked` and the other leads-to properties; and what happens under the
faults that a theorem excludes, of which the runs of section 5 show a case each.

## 5. Findings

1. `handler_lossy_bootstrap`. An event lost between two buffered ones is found in
   the replay, logged and ignored (`handler.go:308`); the book goes into use
   without it. ADR-001 line 193: "A corrupted book must never be used."
2. `exec_redelivery`. A signal whose fill was committed and not acknowledged is
   handled again after a crash. Only the trade row is ignored the second time;
   position and equity are written (`execution/repository/repository.go:209`,
   comment at line 195: "makes this idempotent on XREADGROUP redelivery").
3. `exec_undo`. A rolled-back closing fill leaves an average entry of zero
   (`execution/blotter/blotter.go:226`); the retry books the whole sale as profit.
   Line 138: "so a retry sees the pre-fill state".
4. `exec_risk_restart`. Recovery tells the risk checker of each position as a buy
   of its absolute size (`execution/cmd/erebor-execution/main.go:128`): a short
   becomes a long. Paper-trading spec line 316: "a restart does not reset the
   position state".
5. `exec_halt_stopped`. Stopping a halted process overwrites HALTED with STOPPED
   (`execution/session/manager.go:125`), and the next start trades in a new
   session. Paper-trading spec line 523: "it does not create a new session unless
   the halt is cleared".

Divergences seen while modelling that have no run of their own. Ingest and readers:

- A book bootstrapped from a depth-limited snapshot never learns the levels below
  the cut, so a later checkpoint does not hold the "Top N levels" of ADR-001 lines
  264–265 (`book/book.go:74`). `CheckpointsTrackMarket` allows it.
- The shutdown cancels the dispatcher's context before it closes the channel, so
  the dispatcher may end with events left on it (`dispatch/dispatcher.go:37`), where
  `main.go:179` waits for it "to finish processing whatever was already on the events
  channel". `Conveyed` is about this cut-off end only in that nothing else is lost.
- What the signals service had read and not acknowledged when it stopped or crashed
  is never read again (`signals/consumer/consumer.go:126`): `SignalsCome` excepts
  such an entry (`LeftPending`).
- An entry is acknowledged although publishing one of its signals failed
  (`signals/consumer/consumer.go:190`), which is then lost, where the signals spec (line 16)
  has "Exactly-once delivery per group": `AckedAreSignalled` and `SignalsCome` except
  that signal.
- A batch of entries without both best prices leaves the cache's position where it
  was, and if the batch is full the same entries are read for ever
  (`execution/l2cache/cache.go:167`), where the paper-trading spec (line 305) has it
  update "the cache on every event". `QuotesReachCache` excepts such runs of entries.
- A new execution process reads the L2 stream from its oldest entry
  (`l2cache/cache.go:64`) and may fill at those prices until it has caught up.

Paper execution:

- A commit that reports an error is undone in memory and stands in the database
  (`blotter.go:140`), although undoing is there "to keep in-memory state
  consistent with DB" (line 225): with the fault `unknown`, `PositionsAgree`
  does not hold. `exec_ledger` leaves that fault out.
- The last equity point is the one with the latest event time
  (`execution/repository/repository.go:159`), not the last written, where the comment
  (line 153) says "most recent". With two symbols, `SkewedTimes` and a crash,
  `EquityIsLedger` does not hold. Nor with one symbol and two failed reads: `drainPEL`
  returns on an error and the loop goes on to `readNew`
  (`execution/consumer/consumer.go:112`), a newer signal is filled before an older
  pending one, and after a crash the service resumes with an equity that misses the
  late fill. A failed transaction in a batch has the same effect.
- A stored equity of exactly zero is taken for none
  (`execution/cmd/erebor-execution/main.go:116`), and the service resumes with the
  initial capital: `NoZeroPoint` in `EquityIsLedgerHolds`.
- A stop between a fill and its acknowledgement cancels the context that `ack` uses
  (`execution/consumer/consumer.go:201`): the signal stays pending, the next start
  creates a new session, reads the pending list and may fill it again, since a trade is
  unique by session and signal (`execution/repository/repository.go:209`). The spec
  (line 362) has "Fill idempotency" guaranteed by that constraint. `PaperAccount`
  promises it within a session only.
- After a graceful stop the next start creates a new, flat session
  (`session/manager.go:73`), where the paper-trading spec (line 519) says that open
  positions "are left as-is and recovered on the next run".
- The risk checker's equity is a cash balance, reduced by the whole value of a
  purchase (`risk/checker.go:298`), where the risk spec (line 69) has the initial
  capital plus realised profit; an opened long may trip the drawdown rule by its
  size alone. The model follows the code.
- An error of the halt store on the first check counts as no halt for the life of
  the process (`risk/checker.go:153`): with the fault `probe`, `HaltedTradesNoMore`
  does not hold, nor, with three faults, does `AccountSpec`.

Backtest:

- A gap reseeds the book from the newest checkpoint before it
  (`backtest/replay/engine.go:251`), which may be older than the book that was in
  use; the rows between it and the gap are not applied again, and entries are
  published from that book until the recording is unbroken again, where the
  backtest spec (line 207) continues from a checkpoint "at the gap boundary".
  `TrueWhereUnbroken` says when an entry is true.
- A failed insert of a gap is only logged (`backtest/replay/engine.go:247`): the run
  ends COMPLETED and the hole is missing in `backtest_data_gaps`, where the backtest
  spec (line 208) has the engine record "the gap in `backtest_data_gaps` table".
  `HolesAreRecorded` excepts a hole whose own insert failed, and no other.
- `tradeMetrics` pairs a sell with the oldest buy (`backtest/metrics/computer.go:169`),
  but executors open shorts: a short's round trip is left out or paired with a later
  sell. `ProfitsAddUp` is about runs that were never short.
- A failed XRANGE ends a drain (`collector.go:272`, and the executor's), and the run
  is marked COMPLETED without what was left. `NothingLost` is about runs without a
  failed call.
- A cancellation before RUNNING is written leaves the row PENDING, and a crash leaves
  it as it is: nothing repairs it. Only completed runs have a time to live set on
  their streams.
- REPLAY_COMPLETE is published when executor and collector have already stopped, and
  neither reads the control stream, where the spec (line 335) has consumers drain on
  receiving it.

## 6. Not modelled

- `signals/compute`, and in `backtest/metrics` all but the pairing of trades: stateless
  formulas, one expression each, partly in floating point; a model would be a second
  copy of them.
- `SpeedController`: the length of its waits.
- That the Redis client sends a command again after a lost reply: a XADD may then be
  carried out twice.
- The streams' time to live, `started_at` and `completed_at`, the count of signals in
  the collector (nothing writes to that stream in a backtest).
- Configuration, HTTP and JSON, SQL, logging, metrics and health endpoints; the
  dashboard and the deployment files, which hold no state of the trading system.
