---------------------------- MODULE PaperExecution ----------------------------
(***************************************************************************)
(* The paper execution service, src/engine/execution: a consumer of the    *)
(* signal stream that decides, asks the risk checker, fills on paper at    *)
(* the cached quote, stores the fill in one transaction, publishes the     *)
(* order and acknowledges the signal.                                      *)
(*                                                                         *)
(* Signals, the consumer group and the halt flags live in Redis; sessions, *)
(* positions, equity points and trades in TimescaleDB; both survive the    *)
(* process, which may be stopped or crash between any two steps. Every     *)
(* call to either may fail. Faults of the kinds in the constant Faults     *)
(* happen at most MaxFaults times.                                         *)
(***************************************************************************)
EXTENDS RiskChecker, Sequences, FiniteSets, FiniteSetsExt

CONSTANTS
  TradeQty,          \* stratCfg.TradeQty
  Wants,             \* sets of sides a signal may ask for: {} unless it is a
                     \* book_imbalance beyond a threshold
  Quotes,            \* the best prices the L2 cache may hold, [bid, ask]
  BatchSize,         \* batchSize of XREADGROUP
  SkewedTimes,       \* whether event times of different symbols may be out of order
  CrashAfterCommit,  \* whether a crash may hit between a fill's commit and its XACK
  Faults,            \* the kinds of faults that happen
  MaxFaults,         \* bound: how many of them
  MaxSignals,        \* bound: signals that arrive
  MaxSessions        \* bound: sessions that are created

FaultKinds ==
  {"db",       \* the fill's transaction fails
   "unknown",  \* the fill's transaction commits and its answer is lost
   "status",   \* UPDATE of a session's status fails
   "ack", "order", "read",     \* XACK, XADD, XREADGROUP fail
   "haltset", "probe",         \* HSET, HGET of the halt flag fail
   "crash", "stop"}            \* kill -9, SIGTERM

ASSUME SymbolsAssumption == IsFiniteSet(Symbols)
ASSUME TradeQtyAssumption == TradeQty \in Nat \ {0}
ASSUME WantsAssumption == Wants \subseteq SUBSET Sides
ASSUME QuotesAssumption ==
  Quotes \subseteq [bid : Nat \ {0}, ask : Nat \ {0}]
ASSUME BatchAssumption == BatchSize \in Nat \ {0}
ASSUME FlagsAssumption == SkewedTimes \in BOOLEAN /\ CrashAfterCommit \in BOOLEAN
ASSUME FaultsAssumption == Faults \subseteq FaultKinds /\ MaxFaults \in Nat
ASSUME BoundsAssumption == MaxSignals \in Nat /\ MaxSessions \in Nat

VARIABLES
  \* Redis
  stream,     \* the signals, oldest first; an id is an index
  delivered,  \* the group's last delivered id
  pending,    \* the ids delivered and not acknowledged
  haltHash,   \* the sessions with a field in erebor:live:halt
  orders,     \* the published orders
  \* TimescaleDB
  sessions,   \* oldest first: status, position rows and equity points
  trades,     \* paper_trades
  \* the process
  proc,       \* "down", "up", "stopping" (its context is cancelled)
  session,    \* the session it works for
  blotter,    \* positions and equity in memory
  risk,       \* the risk checker
  quoted,     \* the symbols whose quote the cache is known to hold
  batch,      \* the ids that were read and are still to be handled, in order
  step,       \* what handleMessage does next with the first of them
  draining,   \* the next read is of the pending list
  faults      \* faults so far

redis == <<stream, delivered, pending, haltHash, orders>>
database == <<sessions, trades>>
memory == <<session, blotter, risk, quoted>>
loop == <<batch, step, draining>>
vars == <<redis, database, proc, memory, loop, faults>>

-------------------------------------------------------------------------------
(* Outside calls: an action says which of the calls it makes fail.         *)

Suffering(failed) ==
  /\ failed \subseteq Faults
  /\ faults' = faults + Cardinality(failed)
  /\ faults' =< MaxFaults

(* A call made with the consumer's context: it fails when that is          *)
(* cancelled, and otherwise unless the fault happens.                      *)
ConsumerCall(kind, failed) ==
  IF proc = "stopping" THEN failed = {} ELSE failed \in {{}, {kind}}

Succeeded(failed) == proc = "up" /\ failed = {}

-------------------------------------------------------------------------------
(* The signal stream.                                                      *)

Ids == 1 .. Len(stream)

(* Event times of a symbol grow. *)
TimesFor(symbol) ==
  LET after == {stream[i].time : i \in {j \in Ids : stream[j].symbol = symbol}}
  IN  IF SkewedTimes THEN {t \in 1 .. MaxSignals : \A u \in after : u < t}
                     ELSE {Len(stream) + 1}

SignalArrives ==
  /\ Len(stream) < MaxSignals
  /\ \E symbol \in Symbols, wants \in Wants :
       \E time \in TimesFor(symbol) :
         stream' = Append(stream, [symbol |-> symbol, wants |-> wants, time |-> time])
  /\ UNCHANGED <<delivered, pending, haltHash, orders, database, proc, memory, loop, faults>>

-------------------------------------------------------------------------------
(* Startup: session.Manager.Start and the wiring in main.                  *)

NoRows == [symbol \in {} |-> FlatPosition]

Row(rows, symbol) == IF symbol \in DOMAIN rows THEN rows[symbol] ELSE FlatPosition

(* A row takes the place of the one its symbol had, if any. *)
Upsert(rows, symbol, position) ==
  [s \in DOMAIN rows \cup {symbol} |-> IF s = symbol THEN position ELSE rows[s]]

(* RecordFill of every loaded position row as a buy of its absolute size   *)
(* at its average entry; that never raises the equity above its peak.      *)
SeedRisk(rows) ==
  [NewChecker EXCEPT
     !.positions = [symbol \in Symbols |-> Magnitude(Row(rows, symbol).net)],
     !.equity = @ - SumFunction([symbol \in DOMAIN rows |->
                                   Magnitude(rows[symbol].net) * rows[symbol].avg])]

(* ORDER BY event_time without DESC. *)
BugLatestEquity(points) ==
  IF points = {} THEN {0}
  ELSE {p.equity : p \in {q \in points : \A r \in points : q.time =< r.time}}

(* LoadLatestEquity: a point with the greatest event time, 0 without any.  *)
LatestEquity(points) ==
  IF points = {} THEN {0}
  ELSE {p.equity : p \in {q \in points : \A r \in points : r.time =< q.time}}

NoBlotter == [positions |-> NoRows, equity |-> 0]

(* The blotter of a resumed session is not seeded. *)
BugLaunch(id, seeded, equity) ==
  /\ proc' = "up"
  /\ session' = id
  /\ blotter' = [positions |-> NoRows, equity |-> equity]
  /\ risk' = SeedRisk(seeded)
  /\ quoted' = {}
  /\ batch' = {}
  /\ step' = "decide"
  /\ draining' = TRUE

(* The process starts to work for a session. *)
Launch(id, seeded, equity) ==
  /\ proc' = "up"
  /\ session' = id
  /\ blotter' = [positions |-> seeded, equity |-> equity]
  /\ risk' = SeedRisk(seeded)
  /\ quoted' = {}
  /\ batch' = {}
  /\ step' = "decide"
  /\ draining' = TRUE

Running == {s \in DOMAIN sessions : sessions[s].status = "RUNNING"}

(* Any session that is not running gives way to a new one. *)
BugRefused == FALSE

(* Startup fails until an operator steps in. *)
Refused ==
  /\ Running = {}
  /\ sessions # <<>>
  /\ sessions[Len(sessions)].status = "HALTED"

MayCreate == Running = {} /\ ~Refused

Resume ==
  /\ proc = "down"
  /\ Running # {}
  /\ LET id == Max(Running)
     IN  \E equity \in LatestEquity(sessions[id].points) :
           Launch(id, sessions[id].rows, IF equity = 0 THEN InitialCapital ELSE equity)
  /\ UNCHANGED <<redis, database, faults>>

CreateSession ==
  /\ proc = "down"
  /\ MayCreate
  /\ Len(sessions) < MaxSessions
  /\ sessions' = Append(sessions, [status |-> "RUNNING", rows |-> NoRows, points |-> {}])
  /\ Launch(Len(sessions) + 1, NoRows, InitialCapital)
  /\ UNCHANGED <<redis, trades, faults>>

-------------------------------------------------------------------------------
(* The read loop of the consumer.                                          *)

(* COUNT: the oldest of the ids. *)
Oldest(ids) == {i \in ids : Cardinality({j \in ids : j < i}) < BatchSize}

Reading == proc = "up" /\ batch = {}

(* Signals left pending are never read again. *)
BugReadPending ==
  /\ Reading
  /\ draining
  /\ draining' = FALSE
  /\ UNCHANGED <<redis, database, proc, memory, batch, step, faults>>

(* drainPEL: the oldest pending signals are read again. *)
ReadPending ==
  /\ Reading
  /\ draining
  /\ \E failed \in {{}, {"read"}} :
       /\ Suffering(failed)
       /\ batch' = IF failed = {} THEN Oldest(pending) ELSE {}
  /\ draining' = FALSE
  /\ UNCHANGED <<redis, database, proc, memory, step>>

LastDelivered(fresh) == IF fresh = {} THEN delivered ELSE Max(fresh)

(* readNew: signals never delivered before; if the answer is lost they are *)
(* pending all the same.                                                   *)
ReadNew ==
  /\ Reading
  /\ ~draining
  /\ \E failed \in {{}, {"read"}} :
       LET fresh == Oldest({i \in Ids : i > delivered})
       IN  /\ Suffering(failed)
           /\ batch' = IF failed = {} THEN fresh ELSE {}
           /\ pending' = pending \cup fresh
           /\ delivered' = LastDelivered(fresh)
  /\ draining' = TRUE
  /\ UNCHANGED <<stream, haltHash, orders, database, proc, memory, step>>

-------------------------------------------------------------------------------
(* handleMessage on the first signal of the batch, step by step.           *)

At(s) == proc # "down" /\ batch # {} /\ step = s

Current == Min(batch)

Signal == stream[Current]

Position(symbol) == Row(blotter.positions, symbol)

(* Decide on the position that the blotter holds in memory. *)
Decision(wants, net) ==
  IF "buy" \in wants /\ net =< 0 THEN "buy"
  ELSE IF "sell" \in wants /\ net >= 0 THEN "sell"
  ELSE "none"

SideNow == Decision(Signal.wants, Position(Signal.symbol).net)

Decide ==
  /\ At("decide")
  /\ step' = IF SideNow = "none" THEN "ack" ELSE "check"
  /\ UNCHANGED <<redis, database, proc, memory, batch, draining, faults>>

(* risk.CanTrade; the halt store is called with a context of its own. *)
CheckRisk ==
  /\ At("check")
  /\ \E failed \in SUBSET {"probe", "haltset"} :
       LET asked   == Probe(risk, session \in haltHash /\ "probe" \notin failed)
           verdict == Verdict(asked, Signal.symbol, SideNow, TradeQty)
       IN  /\ Suffering(failed)
           /\ "probe" \in failed => ~risk.halted /\ ~risk.probed
           /\ "haltset" \in failed => verdict = "trip"
           /\ risk' = [asked EXCEPT !.halted = verdict \in {"halted", "trip"}]
           /\ haltHash' = IF verdict = "trip" /\ "haltset" \notin failed
                          THEN haltHash \cup {session} ELSE haltHash
           /\ step' = CASE verdict = "ok"    -> "fill"
                        [] verdict = "limit" -> "ack"
                        [] OTHER             -> "halt"
  /\ UNCHANGED <<stream, delivered, pending, orders, database, proc,
                 session, blotter, quoted, batch, draining>>

(* sessionMgr.Halt, called for every signal refused by a halted checker. *)
HaltSession ==
  /\ At("halt")
  /\ \E failed \in SUBSET {"status"} :
       /\ ConsumerCall("status", failed)
       /\ Suffering(failed)
       /\ sessions' = IF Succeeded(failed)
                      THEN [sessions EXCEPT ![session].status = "HALTED"] ELSE sessions
  /\ step' = "ack"
  /\ UNCHANGED <<redis, trades, proc, memory, batch, draining>>

(* The cache has had no quote of the symbol yet: the signal is dropped. *)
NoQuote ==
  /\ At("fill")
  /\ Signal.symbol \notin quoted
  /\ step' = "ack"
  /\ UNCHANGED <<redis, database, proc, memory, batch, draining, faults>>

(* UNIQUE (signal_stream_id). *)
BugInsertTrade(trade) ==
  IF \E t \in trades : t.signal = trade.signal
  THEN trades ELSE trades \cup {trade}

(* The rows one transaction writes; a second trade of a session for the    *)
(* same signal is ignored, the position and the equity point are not.      *)
InsertTrade(trade) ==
  IF \E t \in trades : t.session = trade.session /\ t.signal = trade.signal
  THEN trades ELSE trades \cup {trade}

StoreFill(trade, position, equity) ==
  /\ trades' = InsertTrade(trade)
  /\ LET account == [sessions[session] EXCEPT
                      !.rows = Upsert(@, trade.symbol, position),
                      !.points = @ \cup {[time |-> Signal.time, equity |-> equity]}]
     IN  sessions' = [sessions EXCEPT ![session] = account]

(* The blotter's error is logged and dropped. *)
BugProceed(recorded) == step' = "publish" /\ batch' = batch

(* executeFill goes on to the order, or leaves the signal pending. *)
Proceed(recorded) ==
  IF recorded THEN step' = "publish" /\ batch' = batch
  ELSE step' = "decide" /\ batch' = batch \ {Current}

FillOf(quote) ==
  [side |-> SideNow, price |-> FillPrice(SideNow, quote), qty |-> TradeQty]

(* executeFill up to the order: the blotter's state is changed, stored,    *)
(* and put back when storing fails; then the risk checker is told.         *)
FillAt(quote, failed) ==
  LET fill   == FillOf(quote)
      fee    == Fee(TradeQty, fill.price)
      before == Position(Signal.symbol)
      after  == ApplyFill(before, fill)
      pnl    == RealisedPnL(before, fill)
      equity == blotter.equity + pnl - fee
      trade  == [session |-> session, signal |-> Current,
                 symbol |-> Signal.symbol, side |-> fill.side, price |-> fill.price,
                 qty |-> TradeQty, fee |-> fee, pnl |-> pnl]
      left   == IF Succeeded(failed) THEN after ELSE UndoFill(after, fill)
  IN  /\ IF Succeeded(failed) \/ failed = {"unknown"}
         THEN StoreFill(trade, after, equity)
         ELSE UNCHANGED database
      /\ blotter' = [positions |-> Upsert(blotter.positions, Signal.symbol, left),
                     equity |-> IF Succeeded(failed) THEN equity ELSE blotter.equity]
      /\ risk' = IF Succeeded(failed)
                 THEN RiskRecordFill(risk, Signal.symbol, fill.side, TradeQty, fill.price, fee)
                 ELSE risk
      /\ Proceed(Succeeded(failed))

Fill ==
  /\ At("fill")
  /\ \E quote \in Quotes, failed \in {{}, {"db"}, {"unknown"}} :
       /\ failed # {"unknown"} => ConsumerCall("db", failed)
       /\ Suffering(failed)
       /\ FillAt(quote, failed)
  /\ quoted' = quoted \cup {Signal.symbol}
  /\ UNCHANGED <<redis, proc, session, draining>>

(* publishOrder: a failure is logged and the fill stands. *)
PublishOrder ==
  /\ At("publish")
  /\ \E failed \in SUBSET {"order"} :
       /\ ConsumerCall("order", failed)
       /\ Suffering(failed)
       /\ orders' = IF Succeeded(failed)
                    THEN orders \cup {[session |-> session, signal |-> Current]}
                    ELSE orders
  /\ step' = "ack"
  /\ UNCHANGED <<stream, delivered, pending, haltHash, database, proc, memory, batch, draining>>

(* XACK; a failure is logged and the signal is read again later. *)
Acknowledge ==
  /\ At("ack")
  /\ \E failed \in SUBSET {"ack"} :
       /\ ConsumerCall("ack", failed)
       /\ Suffering(failed)
       /\ pending' = IF Succeeded(failed) THEN pending \ {Current} ELSE pending
  /\ batch' = batch \ {Current}
  /\ step' = "decide"
  /\ UNCHANGED <<stream, delivered, haltHash, orders, database, proc, memory, draining>>

-------------------------------------------------------------------------------
(* The end of the process.                                                 *)

Exit ==
  /\ proc' = "down"
  /\ session' = 0
  /\ blotter' = NoBlotter
  /\ risk' = NewChecker
  /\ quoted' = {}
  /\ batch' = {}
  /\ step' = "decide"
  /\ draining' = TRUE

(* SIGTERM cancels the context of everything the consumer calls. *)
Terminate ==
  /\ proc = "up"
  /\ Suffering({"stop"})
  /\ proc' = "stopping"
  /\ UNCHANGED <<redis, database, memory, loop>>

(* The read loop has returned: sessionMgr.Stop, with a context of its own. *)
Shutdown ==
  /\ proc = "stopping"
  /\ batch = {}
  /\ \E failed \in {{}, {"status"}} :
       /\ Suffering(failed)
       /\ sessions' = IF failed = {}
                      THEN [sessions EXCEPT ![session].status = "STOPPED"] ELSE sessions
  /\ Exit
  /\ UNCHANGED <<redis, trades>>

(* A signal of the session is filled and not acknowledged. *)
Unacknowledged == \E t \in trades : t.session = session /\ t.signal \in pending

Crash ==
  /\ proc # "down"
  /\ Unacknowledged => CrashAfterCommit
  /\ Suffering({"crash"})
  /\ Exit
  /\ UNCHANGED <<redis, database>>

-------------------------------------------------------------------------------

(* Nothing of a process is left. *)
Gone ==
  /\ proc = "down"
  /\ session = 0
  /\ blotter = NoBlotter
  /\ risk = NewChecker
  /\ quoted = {}
  /\ batch = {}
  /\ step = "decide"
  /\ draining = TRUE

Init ==
  /\ stream = <<>>
  /\ delivered = 0
  /\ pending = {}
  /\ haltHash = {}
  /\ orders = {}
  /\ sessions = <<>>
  /\ trades = {}
  /\ faults = 0
  /\ Gone

Startup == Resume \/ CreateSession

HandleMessage ==
  Decide \/ CheckRisk \/ HaltSession \/ NoQuote \/ Fill \/ PublishOrder \/ Acknowledge

Consumer == ReadPending \/ ReadNew \/ HandleMessage

Next == SignalArrives \/ Startup \/ Consumer \/ Terminate \/ Shutdown \/ Crash

Fairness == WF_vars(Startup) /\ WF_vars(Consumer) /\ WF_vars(Shutdown)

Spec == Init /\ [][Next]_vars /\ Fairness

-------------------------------------------------------------------------------
(* Properties.                                                             *)

PositionType == [net : Int, avg : Int]

IsRows(rows) ==
  DOMAIN rows \subseteq Symbols /\ \A symbol \in DOMAIN rows : rows[symbol] \in PositionType

TradesOf(s) == {t \in trades : t.session = s}

TradesIn(s, symbol) == {t \in TradesOf(s) : t.symbol = symbol}

CashFlow(t) == -Signed(t.side, t.qty * t.price)

(* The state has its types; what the process remembers of ids, sessions    *)
(* and orders exists.                                                      *)
TypeOK ==
  /\ \A i \in Ids : stream[i] \in [symbol : Symbols, wants : Wants, time : 1 .. MaxSignals]
  /\ delivered \in 0 .. Len(stream)
  /\ pending \subseteq 1 .. delivered
  /\ haltHash \subseteq DOMAIN sessions
  /\ orders \subseteq [session : DOMAIN sessions, signal : Ids]
  /\ \A s \in DOMAIN sessions :
       /\ sessions[s].status \in {"RUNNING", "STOPPED", "HALTED"}
       /\ IsRows(sessions[s].rows)
       /\ \A p \in sessions[s].points : p.time \in 1 .. MaxSignals /\ p.equity \in Int
  /\ \A t \in trades :
       /\ t.session \in DOMAIN sessions /\ t.signal \in Ids
       /\ t.symbol \in Symbols /\ t.side \in Sides
       /\ {t.price, t.qty, t.fee, t.pnl} \subseteq Int
  /\ proc \in {"down", "up", "stopping"}
  /\ IF proc = "down" THEN Gone ELSE session \in DOMAIN sessions
  /\ IsRows(blotter.positions) /\ blotter.equity \in Int
  /\ risk \in [positions : [Symbols -> Int], equity : Int, peak : Int,
               halted : BOOLEAN, probed : BOOLEAN]
  /\ quoted \subseteq Symbols
  /\ batch \subseteq 1 .. delivered
  /\ step \in {"decide", "check", "fill", "halt", "publish", "ack"}
  /\ batch = {} => step = "decide"
  /\ draining \in BOOLEAN
  /\ faults \in 0 .. MaxFaults

(* No symbol is ever held beyond one lot, in memory or in the database,    *)
(* whatever fails and is handled again: the position is read, changed and  *)
(* put back by handlers of signals that may be handled twice.              *)
PositionBounded ==
  \A symbol \in Symbols :
    /\ Magnitude(Position(symbol).net) =< TradeQty
    /\ \A s \in DOMAIN sessions : Magnitude(Row(sessions[s].rows, symbol).net) =< TradeQty

(* A process decides on the position the database has: blotter.RecordFill  *)
(* and undoFill change both or neither.                                    *)
PositionsAgree ==
  proc # "down" =>
    \A symbol \in Symbols : Position(symbol).net = Row(sessions[session].rows, symbol).net

(* A session's positions are the sum of its trades: the transaction        *)
(* upserts the one and inserts the other, but ignores a trade that is      *)
(* already there.                                                          *)
LedgerConsistent ==
  \A s \in DOMAIN sessions, symbol \in Symbols :
    Row(sessions[s].rows, symbol).net =
      SumFunction([t \in TradesIn(s, symbol) |-> Signed(t.side, t.qty)])

(* The realised profit of a session's trades is the cash they brought in,  *)
(* the open position counted at its average entry.                         *)
ProfitIsCashFlow ==
  \A s \in DOMAIN sessions, symbol \in Symbols :
    LET position == Row(sessions[s].rows, symbol)
    IN  SumFunction([t \in TradesIn(s, symbol) |-> t.pnl])
          = SumFunction([t \in TradesIn(s, symbol) |-> CashFlow(t)]) + position.net * position.avg

(* The blotter's equity is the initial capital, plus realised profit, less *)
(* fees, of its session, restarts included.                                *)
EquityIsLedger ==
  proc # "down" =>
    blotter.equity =
      InitialCapital + SumFunction([t \in TradesOf(session) |-> t.pnl - t.fee])

(* An order is only seen by subscribers once its trade is stored.          *)
OrdersArePersisted ==
  \A o \in orders : \E t \in trades : t.session = o.session /\ t.signal = o.signal

(* Start resumes a running session before it creates one: there is never   *)
(* a second, and only the newest can be traded.                            *)
SingleRunning ==
  /\ Running \subseteq {Len(sessions)}
  /\ proc # "down" => session = Len(sessions)

(* No trade enters a session whose halt is on record, in Redis or in the   *)
(* database, whichever of the two writes failed and however often the      *)
(* process restarts.                                                       *)
HaltedTradesNoMore ==
  [][\A t \in trades' \ trades :
       t.session \notin haltHash /\ sessions[t.session].status # "HALTED"]_vars

(* The risk checker judges the position the blotter holds.                 *)
RiskPositionsAgree ==
  proc # "down" => \A symbol \in Symbols : risk.positions[symbol] = Position(symbol).net

(* No new session while one is halted.                                     *)
HaltBlocksSessions ==
  [][Len(sessions') > Len(sessions) => haltHash = {}]_vars

Settled(i) == i =< delivered /\ i \notin pending

(* Every signal is acknowledged in the end, unless startup is refused.     *)
EverySignalSettles ==
  \A i \in 1 .. MaxSignals : i \in Ids ~> (Settled(i) \/ Refused)

-------------------------------------------------------------------------------
(* What is stored of a session, seen as an account. *)

StatusOf == [s \in DOMAIN sessions |-> sessions[s].status]

NetsOf ==
  [s \in DOMAIN sessions |-> [symbol \in Symbols |-> Row(sessions[s].rows, symbol).net]]

FilledOf == [s \in DOMAIN sessions |-> {t.signal : t \in TradesOf(s)}]

Account == INSTANCE PaperAccount
             WITH Lot <- TradeQty, Signals <- 1 .. MaxSignals,
                  status <- StatusOf, nets <- NetsOf, filled <- FilledOf, halted <- haltHash

(* The service implements the account: a step of it trades, opens, halts   *)
(* or closes one, or does not touch any.                                   *)
AccountSpec == Account!Spec

===============================================================================
