-------------------------- MODULE PaperExecutionProofs -------------------------
(***************************************************************************)
(* Proofs about PaperExecution for every set of symbols, lot, quotes, risk *)
(* limits, batch size, and every number and kind of faults; the statement  *)
(* about halts assumes that the halt flag can be read.                     *)
(***************************************************************************)
EXTENDS PaperExecution, NatLemmas, SequenceTheorems

-------------------------------------------------------------------------------
(* The inductive invariant, in named parts. *)

(* A position of at most one lot. *)
LotPosition == [net : {-TradeQty, 0, TradeQty}, avg : Int]

LotRows == UNION {[S -> LotPosition] : S \in SUBSET Symbols}

SignalType == [symbol : Symbols, wants : Wants, time : Int]

SessionType ==
  [status : {"RUNNING", "STOPPED", "HALTED"}, rows : LotRows,
   points : SUBSET [time : Int, equity : Int]]

StreamInv ==
  /\ stream \in Seq(SignalType)
  /\ pending \subseteq Ids
  /\ batch \subseteq Ids

StoreInv == sessions \in Seq(SessionType)

MemoryInv ==
  /\ blotter \in [positions : LotRows, equity : Int]
  /\ proc \in {"down", "up", "stopping"}
  /\ proc # "down" => session \in DOMAIN sessions

(* The decision that led to a check or a fill is still what the position   *)
(* calls for.                                                              *)
IntentInv ==
  /\ batch = {} => step = "decide"
  /\ At("check") \/ At("fill") => SideNow \in Sides

(* An order is about to be published for a stored trade. *)
OrderInv ==
  /\ OrdersArePersisted
  /\ At("publish") => \E t \in trades : t.session = session /\ t.signal = Current

(* What the risk checker knows of its session's halt. *)
HaltInv ==
  /\ DOMAIN risk = {"positions", "equity", "peak", "halted", "probed"}
  /\ risk.halted \in BOOLEAN /\ risk.probed \in BOOLEAN
  /\ proc # "down" =>
       /\ session \in haltHash => risk.halted \/ ~risk.probed
       /\ sessions[session].status = "HALTED" => risk.halted
       /\ At("fill") => risk.probed /\ ~risk.halted
       /\ At("halt") => risk.halted

LotInv == StreamInv /\ StoreInv /\ MemoryInv /\ SingleRunning /\ IntentInv

-------------------------------------------------------------------------------
(* Fills. *)

LEMMA PriceType ==
  ASSUME NEW side \in Sides, NEW quote \in Quotes
  PROVE  /\ FillPrice(side, quote) \in Int
         /\ Fee(TradeQty, FillPrice(side, quote)) \in Int
<1>1. quote.ask \in Int /\ quote.bid \in Int
  BY QuotesAssumption
<1>2. BasisPoints \in Int /\ BasisPoints > 0 /\ SlippageBps \in Int /\ TakerFeeBps \in Int
      /\ TradeQty \in Int
  BY BasisPointsAssumption, SlippageAssumption, FeeAssumption, TradeQtyAssumption
<1>3. FillPrice(side, quote) \in Int
  BY <1>1, <1>2 DEF FillPrice
<1>4. TradeQty * FillPrice(side, quote) * TakerFeeBps \in Int
  BY <1>2, <1>3
<1> QED BY <1>2, <1>3, <1>4 DEF Fee

(* A fill that Decide asks for leaves at most one lot, and undoing it      *)
(* leaves what was there before.                                           *)
LEMMA FillKeepsLot ==
  ASSUME NEW pos \in LotPosition, NEW wants, NEW price \in Int,
         Decision(wants, pos.net) \in Sides
  PROVE  LET fill == [side |-> Decision(wants, pos.net), price |-> price, qty |-> TradeQty]
         IN  /\ ApplyFill(pos, fill) \in LotPosition
             /\ ApplyFill(pos, fill).net = pos.net + Signed(fill.side, TradeQty)
             /\ UndoFill(ApplyFill(pos, fill), fill) \in LotPosition
             /\ UndoFill(ApplyFill(pos, fill), fill).net = pos.net
             /\ RealisedPnL(pos, fill) \in Int
<1> DEFINE fill == [side |-> Decision(wants, pos.net), price |-> price, qty |-> TradeQty]
           after == ApplyFill(pos, fill)
<1>1. TradeQty \in Int /\ TradeQty > 0
  BY TradeQtyAssumption
<1>2. pos.net \in {-TradeQty, 0, TradeQty} /\ pos.avg \in Int
  BY DEF LotPosition
<1>3. CASE fill.side = "buy"
  <2>1. pos.net \in {-TradeQty, 0}
    BY <1>1, <1>2, <1>3 DEF Decision
  <2>2. after \in LotPosition /\ after.net = pos.net + TradeQty
    <3>1. CASE pos.net = 0
      BY <1>1, <1>3, <3>1
         DEF ApplyFill, Extends, Extend, Signed, LotPosition
    <3>2. CASE pos.net = -TradeQty
      BY <1>1, <1>2, <1>3, <3>2
         DEF ApplyFill, Extends, Reduce, Signed, LotPosition
    <3> QED BY <2>1, <3>1, <3>2
  <2>3. UndoFill(after, fill) = [after EXCEPT !.net = pos.net]
    BY <1>1, <1>2, <1>3, <2>2 DEF UndoFill, Signed, LotPosition
  <2>4. RealisedPnL(pos, fill) \in Int
    BY <1>1, <1>2, <1>3 DEF RealisedPnL
  <2> HIDE DEF after, fill
  <2>5. UndoFill(after, fill) \in LotPosition /\ UndoFill(after, fill).net = pos.net
    BY <1>2, <2>2, <2>3 DEF LotPosition
  <2> QED BY <1>1, <1>2, <1>3, <2>2, <2>4, <2>5 DEF after, fill, Signed
<1>4. CASE fill.side = "sell"
  <2>1. pos.net \in {TradeQty, 0}
    BY <1>1, <1>2, <1>4 DEF Decision
  <2>2. after \in LotPosition /\ after.net = pos.net - TradeQty
    <3>1. CASE pos.net = 0
      BY <1>1, <1>4, <3>1
         DEF ApplyFill, Extends, Extend, Signed, LotPosition
    <3>2. CASE pos.net = TradeQty
      BY <1>1, <1>2, <1>4, <3>2
         DEF ApplyFill, Extends, Reduce, Signed, LotPosition
    <3> QED BY <2>1, <3>1, <3>2
  <2>3. UndoFill(after, fill) = [after EXCEPT !.net = pos.net]
    BY <1>1, <1>2, <1>4, <2>2 DEF UndoFill, Signed, LotPosition
  <2>4. RealisedPnL(pos, fill) \in Int
    BY <1>1, <1>2, <1>4 DEF RealisedPnL
  <2> HIDE DEF after, fill
  <2>5. UndoFill(after, fill) \in LotPosition /\ UndoFill(after, fill).net = pos.net
    BY <1>2, <2>2, <2>3 DEF LotPosition
  <2> QED BY <1>1, <1>2, <1>4, <2>2, <2>4, <2>5 DEF after, fill, Signed
<1> QED BY <1>3, <1>4 DEF Sides

(* The row of a symbol, and a row written over others. *)
LEMMA RowType ==
  ASSUME NEW rows \in LotRows, NEW symbol \in Symbols
  PROVE  Row(rows, symbol) \in LotPosition
<1>1. PICK S \in SUBSET Symbols : rows \in [S -> LotPosition]
  BY DEF LotRows
<1>2. FlatPosition \in LotPosition
  BY DEF FlatPosition, LotPosition
<1> QED BY <1>1, <1>2 DEF Row

LEMMA RowsType ==
  ASSUME NEW rows \in LotRows, NEW symbol \in Symbols, NEW pos \in LotPosition
  PROVE  Upsert(rows, symbol, pos) \in LotRows
<1>1. PICK S \in SUBSET Symbols : rows \in [S -> LotPosition]
  BY DEF LotRows
<1>2. Upsert(rows, symbol, pos) \in [S \cup {symbol} -> LotPosition]
  BY <1>1 DEF Upsert
<1>3. S \cup {symbol} \in SUBSET Symbols
  BY <1>1
<1> QED BY <1>2, <1>3 DEF LotRows

LEMMA NoRowsType == NoRows \in LotRows /\ NoBlotter \in [positions : LotRows, equity : Int]
<1>1. NoRows \in [{} -> LotPosition]
  BY DEF NoRows
<1>2. NoRows \in LotRows
  BY <1>1 DEF LotRows
<1> QED BY <1>2 DEF NoBlotter

-------------------------------------------------------------------------------
(* Positions: LotInv is inductive. *)

LEMMA CurrentInBatch ==
  ASSUME StreamInv, batch # {}
  PROVE  /\ Current \in batch
         /\ Current \in Ids
         /\ Signal \in SignalType
<1>1. Ids \subseteq Nat
  BY LenProperties DEF Ids, StreamInv
<1>2. PICK m \in batch : \A k \in batch : m <= k
  BY <1>1, LeastElement DEF StreamInv
<1>3. Current \in batch
  BY <1>2 DEF Current, Min
<1>4. Current \in DOMAIN stream
  BY <1>3, LenProperties DEF StreamInv, Ids
<1> QED BY <1>3, <1>4, ElementOfSeq DEF Signal, StreamInv, Ids

LEMMA LotInit == Init => LotInv
<1> SUFFICES ASSUME Init PROVE LotInv
  OBVIOUS
<1>1. StreamInv
  BY DEF Init, Gone, StreamInv
<1>2. StoreInv
  BY DEF Init, StoreInv
<1>3. MemoryInv
  BY NoRowsType DEF Init, Gone, MemoryInv
<1>4. SingleRunning
  BY DEF Init, Gone, SingleRunning, Running
<1>5. IntentInv
  BY DEF Init, Gone, IntentInv, At
<1> QED BY <1>1, <1>2, <1>3, <1>4, <1>5 DEF LotInv

(* The store's rows and statuses, changed at the newest session. *)
LEMMA StoreTypes ==
  ASSUME StoreInv, NEW s \in DOMAIN sessions
  PROVE  /\ sessions[s] \in SessionType
         /\ Len(sessions) \in Nat
         /\ DOMAIN sessions = 1 .. Len(sessions)
BY LenProperties, ElementOfSeq DEF StoreInv

(* A session other than the newest is left alone, the newest one gets a    *)
(* new value.                                                              *)
LEMMA StoreChanges ==
  ASSUME StoreInv, NEW s \in DOMAIN sessions, NEW new \in SessionType,
         sessions' = [sessions EXCEPT ![s] = new]
  PROVE  /\ StoreInv'
         /\ DOMAIN sessions' = DOMAIN sessions
         /\ Len(sessions') = Len(sessions)
         /\ sessions'[s] = new
         /\ \A i \in DOMAIN sessions : i # s => sessions'[i] = sessions[i]
<1>1. sessions \in [1 .. Len(sessions) -> SessionType] /\ Len(sessions) \in Nat
  BY LenProperties, SeqDef DEF StoreInv
<1>2. sessions' \in [1 .. Len(sessions) -> SessionType]
  BY <1>1
<1>3. sessions' \in Seq(SessionType)
  BY <1>1, <1>2, SeqDef
<1>4. Len(sessions') = Len(sessions)
  BY <1>1, <1>2, <1>3, LenProperties
<1> QED BY <1>1, <1>2, <1>3, <1>4 DEF StoreInv

(* What a step leaves alone keeps its part of the invariant. *)
LEMMA SingleRunningKept ==
  ASSUME StoreInv, SingleRunning, proc # "down",
         NEW new \in SessionType, new.status = "RUNNING" => sessions[session].status = "RUNNING",
         session \in DOMAIN sessions,
         sessions' = [sessions EXCEPT ![session] = new],
         proc' = "down" \/ session' = session
  PROVE  SingleRunning'
<1>1. \A s \in DOMAIN sessions' : sessions'[s].status = "RUNNING" => sessions[s].status = "RUNNING"
  BY StoreChanges
<1> QED BY <1>1, StoreChanges DEF SingleRunning, Running

(* Steps that leave the signals, the sessions and the process alone.       *)
LEMMA SignalArrivesLot ==
  ASSUME LotInv, SignalArrives
  PROVE  LotInv'
<1>1. PICK symbol \in Symbols, wants \in Wants :
        \E time \in TimesFor(symbol) :
          stream' = Append(stream, [symbol |-> symbol, wants |-> wants, time |-> time])
  BY DEF SignalArrives
<1>2. PICK time \in TimesFor(symbol) :
        stream' = Append(stream, [symbol |-> symbol, wants |-> wants, time |-> time])
  BY <1>1
<1>3. stream \in Seq(SignalType) /\ Len(stream) \in Nat
  BY LenProperties DEF LotInv, StreamInv
<1>4. time \in Int
  BY <1>2, <1>3, BoundsAssumption DEF TimesFor
<1>5. [symbol |-> symbol, wants |-> wants, time |-> time] \in SignalType
  BY <1>1, <1>4 DEF SignalType
<1>6. /\ stream' \in Seq(SignalType)
      /\ Len(stream') = Len(stream) + 1
      /\ \A i \in 1 .. Len(stream) : stream'[i] = stream[i]
  BY <1>2, <1>3, <1>5, AppendProperties
<1>7. StreamInv'
  BY <1>3, <1>6 DEF SignalArrives, loop, LotInv, StreamInv, Ids
<1>8. batch # {} => SideNow' = SideNow
  <2> SUFFICES ASSUME batch # {} PROVE SideNow' = SideNow
    OBVIOUS
  <2>1. Current \in Ids
    BY CurrentInBatch DEF LotInv
  <2>2. Current' = Current
    BY DEF Current, SignalArrives, loop
  <2>3. Signal' = Signal
    BY <1>6, <2>1, <2>2 DEF Signal, Ids
  <2> QED BY <2>3 DEF SideNow, Position, SignalArrives, memory
<1>9. IntentInv'
  BY <1>8 DEF IntentInv, LotInv, At, SignalArrives, loop
<1>10. StoreInv' /\ MemoryInv' /\ SingleRunning'
  BY DEF SignalArrives, LotInv, StoreInv, MemoryInv, SingleRunning, Running, database, memory
<1> QED BY <1>7, <1>9, <1>10 DEF LotInv

LEMMA LaunchLot ==
  ASSUME LotInv, NEW id, NEW rows \in LotRows, NEW equity \in Int,
         Launch(id, rows, equity), UNCHANGED redis
  PROVE  StreamInv' /\ IntentInv' /\ blotter' \in [positions : LotRows, equity : Int]
BY DEF Launch, redis, LotInv, StreamInv, Ids, IntentInv, At

LEMMA ResumeLot ==
  ASSUME LotInv, Resume
  PROVE  LotInv'
<1> DEFINE id == Max(Running)
<1>1. id \in Running /\ id = Len(sessions) /\ id \in DOMAIN sessions
  BY DEF Resume, LotInv, SingleRunning, Running, Max
<1>2. sessions[id] \in SessionType
  BY <1>1, StoreTypes DEF LotInv
<1> HIDE DEF id
<1>3. PICK equity \in LatestEquity(sessions[id].points) :
        Launch(id, sessions[id].rows, IF equity = 0 THEN InitialCapital ELSE equity)
  BY DEF Resume, id
<1>4. equity \in Int
  BY <1>2, <1>3 DEF LatestEquity, SessionType
<1>5. sessions[id].rows \in LotRows
  BY <1>2 DEF SessionType
<1>6. (IF equity = 0 THEN InitialCapital ELSE equity) \in Int
  BY <1>4, CapitalAssumption
<1>7. StreamInv' /\ IntentInv' /\ blotter' \in [positions : LotRows, equity : Int]
  BY <1>3, <1>5, <1>6, LaunchLot DEF Resume
<1>8. StoreInv' /\ proc' = "up" /\ session' = id /\ sessions' = sessions
  BY <1>3 DEF Resume, Launch, database, LotInv, StoreInv
<1>9. MemoryInv'
  BY <1>1, <1>7, <1>8 DEF MemoryInv
<1>10. SingleRunning'
  BY <1>1, <1>8 DEF LotInv, SingleRunning, Running
<1> QED BY <1>7, <1>8, <1>9, <1>10 DEF LotInv

LEMMA CreateSessionLot ==
  ASSUME LotInv, CreateSession
  PROVE  LotInv'
<1> DEFINE new == [status |-> "RUNNING", rows |-> NoRows, points |-> {}]
<1>1. new \in SessionType
  BY NoRowsType DEF SessionType
<1>2. sessions \in Seq(SessionType) /\ sessions' = Append(sessions, new)
  BY DEF CreateSession, LotInv, StoreInv
<1>3. /\ sessions' \in Seq(SessionType)
      /\ Len(sessions) \in Nat
      /\ Len(sessions') = Len(sessions) + 1
      /\ \A i \in 1 .. Len(sessions) : sessions'[i] = sessions[i]
      /\ DOMAIN sessions = 1 .. Len(sessions)
      /\ DOMAIN sessions' = 1 .. Len(sessions')
  BY <1>1, <1>2, AppendProperties, LenProperties
<1>4. StreamInv' /\ IntentInv' /\ blotter' \in [positions : LotRows, equity : Int]
  BY LaunchLot, NoRowsType, CapitalAssumption DEF CreateSession
<1>5. proc' = "up" /\ session' = Len(sessions')
  BY <1>3 DEF CreateSession, Launch
<1>6. MemoryInv'
  BY <1>3, <1>4, <1>5 DEF MemoryInv
<1>7. Running' \subseteq {Len(sessions')}
  BY <1>3 DEF CreateSession, MayCreate, Running
<1>8. SingleRunning'
  BY <1>5, <1>7 DEF SingleRunning
<1> QED BY <1>3, <1>4, <1>6, <1>8 DEF LotInv, StoreInv

LEMMA ReadLot ==
  ASSUME LotInv, ReadPending \/ ReadNew
  PROVE  LotInv'
<1>1. batch = {} /\ step = "decide" /\ step' = step
  BY DEF LotInv, IntentInv, ReadPending, ReadNew, Reading
<1>2. IntentInv'
  BY <1>1 DEF IntentInv, At
<1>3. stream' = stream /\ batch' \subseteq Ids /\ pending' \subseteq Ids
  BY DEF LotInv, StreamInv, ReadPending, ReadNew, Oldest, redis
<1>4. StreamInv'
  BY <1>3 DEF LotInv, StreamInv, Ids
<1>5. UNCHANGED <<database, proc, memory>>
  BY DEF ReadPending, ReadNew
<1>6. StoreInv' /\ MemoryInv' /\ SingleRunning'
  BY <1>5 DEF LotInv, StoreInv, MemoryInv, SingleRunning, Running, database, memory
<1> QED BY <1>2, <1>4, <1>6 DEF LotInv

(* The decision does not change while signals, batch and blotter do not.   *)
LEMMA SideKept ==
  ASSUME UNCHANGED <<stream, batch, blotter>>
  PROVE  SideNow' = SideNow /\ Current' = Current
BY DEF SideNow, Signal, Current, Position

LEMMA DecideLot ==
  ASSUME LotInv, Decide \/ CheckRisk \/ NoQuote \/ PublishOrder
  PROVE  LotInv'
<1>1. UNCHANGED <<stream, pending, batch, sessions, blotter, proc, session>> /\ batch # {}
  BY DEF Decide, CheckRisk, NoQuote, PublishOrder, At, redis, database, memory
<1>2. StreamInv' /\ StoreInv' /\ MemoryInv' /\ SingleRunning'
  BY <1>1 DEF LotInv, StreamInv, Ids, StoreInv, MemoryInv, SingleRunning, Running
<1>3. IntentInv'
  <2>1. SideNow' = SideNow
    BY <1>1, SideKept
  <2>2. CASE Decide
    BY <1>1, <2>1, <2>2 DEF Decide, IntentInv, At, SideNow, Decision, Sides
  <2>3. CASE CheckRisk
    BY <1>1, <2>1, <2>3 DEF CheckRisk, LotInv, IntentInv, At
  <2>4. CASE NoQuote \/ PublishOrder
    BY <1>1, <2>4 DEF NoQuote, PublishOrder, IntentInv, At
  <2> QED BY <2>2, <2>3, <2>4
<1> QED BY <1>2, <1>3 DEF LotInv

LEMMA HaltSessionLot ==
  ASSUME LotInv, HaltSession
  PROVE  LotInv'
<1>1. /\ UNCHANGED <<stream, pending, batch, blotter, proc, session>>
      /\ batch # {} /\ proc # "down" /\ step' = "ack"
  BY DEF HaltSession, At, redis, memory
<1>2. StreamInv' /\ IntentInv'
  BY <1>1 DEF LotInv, StreamInv, Ids, IntentInv, At
<1>3. session \in DOMAIN sessions /\ sessions[session] \in SessionType
  BY <1>1, StoreTypes DEF LotInv, MemoryInv
<1>4. StoreInv' /\ DOMAIN sessions' = DOMAIN sessions /\ SingleRunning'
  <2>1. CASE sessions' = sessions
    BY <1>1, <2>1 DEF LotInv, StoreInv, SingleRunning, Running
  <2>2. CASE sessions' = [sessions EXCEPT ![session].status = "HALTED"]
    <3> DEFINE new == [sessions[session] EXCEPT !.status = "HALTED"]
    <3>1. new \in SessionType /\ new.status = "HALTED"
      BY <1>3 DEF SessionType
    <3>2. sessions' = [sessions EXCEPT ![session] = new]
      BY <2>2
    <3> HIDE DEF new
    <3> QED BY <1>1, <1>3, <3>1, <3>2, StoreChanges, SingleRunningKept DEF LotInv
  <2> QED BY <2>1, <2>2 DEF HaltSession
<1>5. MemoryInv'
  BY <1>1, <1>4 DEF LotInv, MemoryInv
<1> QED BY <1>2, <1>4, <1>5 DEF LotInv

LEMMA AcknowledgeLot ==
  ASSUME LotInv, Acknowledge
  PROVE  LotInv'
<1>1. /\ UNCHANGED <<stream, sessions, blotter, proc, session>>
      /\ batch' \subseteq batch /\ pending' \subseteq pending /\ step' = "decide"
  BY DEF Acknowledge, database, memory
<1> QED BY <1>1 DEF LotInv, StreamInv, Ids, StoreInv, MemoryInv, SingleRunning, Running,
                    IntentInv, At

LEMMA TerminateLot ==
  ASSUME LotInv, Terminate
  PROVE  LotInv'
<1>1. /\ UNCHANGED <<stream, pending, batch, step, sessions, blotter, session>>
      /\ proc = "up" /\ proc' = "stopping"
  BY DEF Terminate, redis, database, memory, loop
<1>2. SideNow' = SideNow
  BY <1>1, SideKept
<1> QED BY <1>1, <1>2 DEF LotInv, StreamInv, Ids, StoreInv, MemoryInv, SingleRunning, Running,
                    IntentInv, At

LEMMA ExitLot ==
  ASSUME LotInv, Shutdown \/ Crash
  PROVE  LotInv'
<1>1. /\ UNCHANGED <<stream, pending>> /\ batch' = {} /\ step' = "decide"
      /\ proc # "down" /\ proc' = "down" /\ blotter' = NoBlotter
  BY DEF Shutdown, Crash, Exit, redis
<1>2. StreamInv' /\ IntentInv'
  BY <1>1 DEF LotInv, StreamInv, Ids, IntentInv, At
<1>3. MemoryInv'
  BY <1>1, NoRowsType DEF MemoryInv
<1>4. session \in DOMAIN sessions /\ sessions[session] \in SessionType
  BY <1>1, StoreTypes DEF LotInv, MemoryInv
<1>5. StoreInv' /\ SingleRunning'
  <2>1. CASE sessions' = sessions
    BY <1>1, <2>1 DEF LotInv, StoreInv, SingleRunning, Running
  <2>2. CASE sessions' = [sessions EXCEPT ![session].status = "STOPPED"]
    <3> DEFINE new == [sessions[session] EXCEPT !.status = "STOPPED"]
    <3>1. new \in SessionType /\ new.status = "STOPPED"
      BY <1>4 DEF SessionType
    <3>2. sessions' = [sessions EXCEPT ![session] = new]
      BY <2>2
    <3> HIDE DEF new
    <3> QED BY <1>1, <1>4, <3>1, <3>2, StoreChanges, SingleRunningKept DEF LotInv
  <2> QED BY <2>1, <2>2 DEF Shutdown, Crash, database
<1> QED BY <1>2, <1>3, <1>5 DEF LotInv

(* What a fill does to the position, in memory and in the database.        *)
LEMMA FillEffect ==
  ASSUME LotInv, Fill
  PROVE  \E failed \in {{}, {"db"}, {"unknown"}},
            after \in LotPosition, left \in LotPosition, account \in SessionType :
           /\ Suffering(failed)
           /\ after.net = Position(Signal.symbol).net + Signed(SideNow, TradeQty)
           /\ left.net = IF Succeeded(failed) THEN after.net ELSE Position(Signal.symbol).net
           /\ account.rows = Upsert(sessions[session].rows, Signal.symbol, after)
           /\ account.status = sessions[session].status
           /\ IF Succeeded(failed) \/ failed = {"unknown"}
              THEN sessions' = [sessions EXCEPT ![session] = account]
              ELSE UNCHANGED database
           /\ blotter'.positions = Upsert(blotter.positions, Signal.symbol, left)
           /\ blotter' \in [positions : LotRows, equity : Int]
           /\ Proceed(Succeeded(failed))
<1>1. At("fill")
  BY DEF Fill
<1>2. SideNow \in Sides /\ Signal \in SignalType
  BY <1>1, CurrentInBatch DEF LotInv, IntentInv, At
<1>3. Signal.symbol \in Symbols /\ Signal.time \in Int
  BY <1>2 DEF SignalType
<1>4. PICK quote \in Quotes, failed \in {{}, {"db"}, {"unknown"}} :
        Suffering(failed) /\ FillAt(quote, failed)
  BY DEF Fill
<1> DEFINE fill == FillOf(quote)
           before == Position(Signal.symbol)
           after == ApplyFill(before, fill)
           fee == Fee(TradeQty, fill.price)
           equity == blotter.equity + RealisedPnL(before, fill) - fee
           left == IF Succeeded(failed) THEN after ELSE UndoFill(after, fill)
           account == [sessions[session] EXCEPT
                         !.rows = Upsert(@, Signal.symbol, after),
                         !.points = @ \cup {[time |-> Signal.time, equity |-> equity]}]
<1>5. fill.price \in Int /\ fee \in Int
  BY <1>2, PriceType DEF FillOf
<1>6. blotter.positions \in LotRows /\ blotter.equity \in Int
  BY DEF LotInv, MemoryInv
<1>7. before \in LotPosition
  BY <1>3, <1>6, RowType DEF Position
<1>8. /\ after \in LotPosition
      /\ after.net = before.net + Signed(SideNow, TradeQty)
      /\ UndoFill(after, fill) \in LotPosition
      /\ UndoFill(after, fill).net = before.net
      /\ RealisedPnL(before, fill) \in Int
  <2>1. SideNow = Decision(Signal.wants, before.net)
    BY DEF SideNow
  <2>2. fill = [side |-> Decision(Signal.wants, before.net), price |-> fill.price,
                qty |-> TradeQty]
    BY <2>1 DEF FillOf
  <2> HIDE DEF fill, before
  <2> QED BY <1>2, <1>5, <1>7, <2>1, <2>2, FillKeepsLot
<1>9. /\ equity \in Int
      /\ left \in LotPosition
      /\ left.net = IF Succeeded(failed) THEN after.net ELSE before.net
  <2> HIDE DEF fill, before, fee
  <2>1. left \in LotPosition /\ left.net = IF Succeeded(failed) THEN after.net ELSE before.net
    BY <1>8
  <2>2. equity \in Int
    BY <1>5, <1>6, <1>8
  <2> QED BY <2>1, <2>2
<1>10. /\ blotter' = [positions |-> Upsert(blotter.positions, Signal.symbol, left),
                      equity |-> IF Succeeded(failed) THEN equity ELSE blotter.equity]
       /\ IF Succeeded(failed) \/ failed = {"unknown"}
          THEN sessions' = [sessions EXCEPT ![session] = account]
          ELSE UNCHANGED database
       /\ Proceed(Succeeded(failed))
  BY <1>4 DEF FillAt, StoreFill
<1> HIDE DEF fill, before, after, fee, equity, left
<1>11. blotter' \in [positions : LotRows, equity : Int]
  <2>1. Upsert(blotter.positions, Signal.symbol, left) \in LotRows
    BY <1>3, <1>6, <1>9, RowsType
  <2> QED BY <1>6, <1>9, <1>10, <2>1
<1>12. session \in DOMAIN sessions /\ sessions[session] \in SessionType
  BY <1>1, StoreTypes DEF LotInv, MemoryInv, At
<1>13. /\ account \in SessionType
       /\ account.rows = Upsert(sessions[session].rows, Signal.symbol, after)
       /\ account.status = sessions[session].status
  <2>1. Upsert(sessions[session].rows, Signal.symbol, after) \in LotRows
    BY <1>3, <1>8, <1>12, RowsType DEF SessionType
  <2>2. [time |-> Signal.time, equity |-> equity] \in [time : Int, equity : Int]
    BY <1>3, <1>9
  <2> QED BY <1>12, <2>1, <2>2 DEF SessionType
<1> HIDE DEF account
<1>14. blotter'.positions = Upsert(blotter.positions, Signal.symbol, left)
  BY <1>10
<1> USE <1>8, <1>9, <1>13
<1> WITNESS failed \in {{}, {"db"}, {"unknown"}}
<1> WITNESS after \in LotPosition, left \in LotPosition, account \in SessionType
<1> QED BY <1>4, <1>8, <1>9, <1>10, <1>11, <1>13, <1>14 DEF before

LEMMA FillLot ==
  ASSUME LotInv, Fill
  PROVE  LotInv'
<1>1. /\ UNCHANGED <<stream, pending, proc, session>>
      /\ batch # {} /\ proc # "down" /\ step = "fill"
  BY DEF Fill, At, redis
<1>2. PICK failed \in {{}, {"db"}, {"unknown"}}, account \in SessionType :
        /\ account.status = sessions[session].status
        /\ sessions' = sessions \/ sessions' = [sessions EXCEPT ![session] = account]
        /\ blotter' \in [positions : LotRows, equity : Int]
        /\ Proceed(Succeeded(failed))
  BY FillEffect DEF database
<1>3. session \in DOMAIN sessions
  BY <1>1 DEF LotInv, MemoryInv
<1>4. StoreInv' /\ DOMAIN sessions' = DOMAIN sessions /\ SingleRunning'
  <2>1. CASE sessions' = sessions
    BY <1>1, <2>1 DEF LotInv, StoreInv, SingleRunning, Running
  <2>2. CASE sessions' = [sessions EXCEPT ![session] = account]
    BY <1>1, <1>2, <1>3, <2>2, StoreChanges, SingleRunningKept DEF LotInv
  <2> QED BY <1>2, <2>1, <2>2
<1>5. MemoryInv'
  BY <1>1, <1>2, <1>4 DEF LotInv, MemoryInv
<1>6. batch' \subseteq batch /\ (batch' # {} \/ step' = "decide") /\ step' \in {"publish", "decide"}
  BY <1>1, <1>2 DEF Proceed
<1>7. StreamInv' /\ IntentInv'
  BY <1>1, <1>6 DEF LotInv, StreamInv, Ids, IntentInv, At
<1> QED BY <1>4, <1>5, <1>7 DEF LotInv

LEMMA LotStep == LotInv /\ [Next]_vars => LotInv'
<1> SUFFICES ASSUME LotInv, [Next]_vars PROVE LotInv'
  OBVIOUS
<1>1. CASE SignalArrives
  BY <1>1, SignalArrivesLot
<1>2. CASE Startup
  BY <1>2, ResumeLot, CreateSessionLot DEF Startup
<1>3. CASE Consumer
  BY <1>3, ReadLot, DecideLot, HaltSessionLot, FillLot, AcknowledgeLot DEF Consumer, HandleMessage
<1>4. CASE Terminate
  BY <1>4, TerminateLot
<1>5. CASE Shutdown \/ Crash
  BY <1>5, ExitLot
<1>6. CASE UNCHANGED vars
  <2>1. UNCHANGED <<stream, pending, batch, step, sessions, blotter, session, proc>>
    BY <1>6 DEF vars, redis, database, memory, loop
  <2>2. SideNow' = SideNow
    BY <2>1, SideKept
  <2> QED BY <2>1, <2>2 DEF LotInv, StreamInv, Ids, StoreInv, MemoryInv, SingleRunning,
                            Running, IntentInv, At
<1> QED BY <1>1, <1>2, <1>3, <1>4, <1>5, <1>6 DEF Next

LEMMA LotAlways == Spec => []LotInv
BY LotInit, LotStep, PTL DEF Spec

-------------------------------------------------------------------------------
(* Theorems about positions and sessions. *)

LEMMA LotIsBounded == LotInv => PositionBounded
<1> SUFFICES ASSUME LotInv, NEW symbol \in Symbols
             PROVE  /\ Magnitude(Position(symbol).net) =< TradeQty
                    /\ \A s \in DOMAIN sessions :
                         Magnitude(Row(sessions[s].rows, symbol).net) =< TradeQty
  BY DEF PositionBounded
<1>1. ASSUME NEW pos \in LotPosition PROVE Magnitude(pos.net) =< TradeQty
  BY TradeQtyAssumption DEF LotPosition, Magnitude
<1>2. blotter.positions \in LotRows
  BY DEF LotInv, MemoryInv
<1>3. Magnitude(Position(symbol).net) =< TradeQty
  BY <1>1, <1>2, RowType DEF Position
<1>4. ASSUME NEW s \in DOMAIN sessions
      PROVE  Magnitude(Row(sessions[s].rows, symbol).net) =< TradeQty
  <2>1. sessions[s].rows \in LotRows
    BY <1>4, StoreTypes DEF LotInv, SessionType
  <2> QED BY <1>1, <2>1, RowType
<1> QED BY <1>3, <1>4

(* No symbol is ever held beyond one lot, in memory or in the database,    *)
(* whatever fails and is handled again: handleMessage decides on the       *)
(* blotter's position, and undoFill takes back what applyFill did.         *)
THEOREM PositionBoundedHolds == Spec => []PositionBounded
BY LotAlways, LotIsBounded, PTL

(* At most the newest session is running, and a process works for none but *)
(* it: session.Manager.Start resumes before it creates.                    *)
THEOREM SingleRunningHolds == Spec => []SingleRunning
<1>1. LotInv => SingleRunning
  BY DEF LotInv
<1> QED BY <1>1, LotAlways, PTL

-------------------------------------------------------------------------------
(* Orders. *)

(* What a fill adds to the trades. *)
LEMMA FillTrades ==
  ASSUME Fill
  PROVE  /\ trades \subseteq trades'
         /\ \A t \in trades' \ trades : t.session = session /\ t.signal = Current
         /\ step' = "publish" =>
              /\ batch' = batch
              /\ \E t \in trades' : t.session = session /\ t.signal = Current
<1>1. PICK quote \in Quotes, failed \in {{}, {"db"}, {"unknown"}} : FillAt(quote, failed)
  BY DEF Fill
<1> DEFINE fill == FillOf(quote)
           fee == Fee(TradeQty, fill.price)
           pnl == RealisedPnL(Position(Signal.symbol), fill)
           trade == [session |-> session, signal |-> Current,
                     symbol |-> Signal.symbol, side |-> fill.side, price |-> fill.price,
                     qty |-> TradeQty, fee |-> fee, pnl |-> pnl]
<1>2. trade.session = session /\ trade.signal = Current
  OBVIOUS
<1>3. trades' = InsertTrade(trade) \/ (~Succeeded(failed) /\ trades' = trades)
  BY <1>1 DEF FillAt, StoreFill, database
<1>4. Proceed(Succeeded(failed))
  BY <1>1 DEF FillAt
<1> HIDE DEF trade
<1>5. /\ trades \subseteq InsertTrade(trade)
      /\ InsertTrade(trade) \subseteq trades \cup {trade}
      /\ \E t \in InsertTrade(trade) : t.session = session /\ t.signal = Current
  BY <1>2 DEF InsertTrade
<1>6. step' = "publish" => Succeeded(failed) /\ batch' = batch
  BY <1>4 DEF Proceed
<1> QED BY <1>2, <1>3, <1>5, <1>6

LEMMA OrderStep == LotInv /\ OrderInv /\ [Next]_vars => OrderInv'
<1> SUFFICES ASSUME LotInv, OrderInv, [Next]_vars PROVE OrderInv'
  OBVIOUS
<1> USE DEF OrderInv, OrdersArePersisted
<1>1. CASE Fill
  <2>1. UNCHANGED <<orders, session>>
    BY <1>1 DEF Fill, redis
  <2>2. step' = "publish" => Current' = Current
    BY <1>1, FillTrades DEF Current
  <2> QED BY <1>1, <2>1, <2>2, FillTrades DEF At
<1>2. CASE PublishOrder
  <2>1. PICK t \in trades : t.session = session /\ t.signal = Current
    BY <1>2 DEF PublishOrder
  <2>2. /\ orders' \subseteq orders \cup {[session |-> session, signal |-> Current]}
        /\ trades' = trades /\ step' = "ack"
    BY <1>2 DEF PublishOrder, database
  <2> QED BY <2>1, <2>2 DEF At
<1>3. CASE \/ SignalArrives \/ Terminate \/ UNCHANGED vars
  <2>1. UNCHANGED <<orders, trades, session, batch, step>> /\ (proc' # "down" => proc # "down")
    BY <1>3 DEF SignalArrives, Terminate, vars, redis, database, memory, loop
  <2>2. Current' = Current
    BY <2>1 DEF Current
  <2> QED BY <2>1, <2>2 DEF At
<1>4. CASE Startup \/ ReadPending \/ ReadNew \/ Shutdown \/ Crash
  <2>1. UNCHANGED <<orders, trades>>
    BY <1>4 DEF Startup, Resume, CreateSession, ReadPending, ReadNew, Shutdown, Crash,
                redis, database
  <2>2. step' = "decide"
    BY <1>4 DEF Startup, Resume, CreateSession, Launch, ReadPending, ReadNew, Reading,
                Shutdown, Crash, Exit, LotInv, IntentInv
  <2> QED BY <2>1, <2>2 DEF At
<1>5. CASE Decide \/ CheckRisk \/ HaltSession \/ NoQuote \/ Acknowledge
  <2>1. UNCHANGED <<orders, trades>> /\ step' # "publish"
    BY <1>5 DEF Decide, CheckRisk, HaltSession, NoQuote, Acknowledge, redis, database
  <2> QED BY <2>1 DEF At
<1> QED BY <1>1, <1>2, <1>3, <1>4, <1>5 DEF Next, Consumer, HandleMessage

(* An order only reaches subscribers once its trade is stored: executeFill *)
(* publishes after the blotter's transaction, and leaves otherwise.        *)
THEOREM OrdersArePersistedHolds == Spec => []OrdersArePersisted
<1>1. Init => OrderInv
  BY DEF Init, Gone, OrderInv, OrdersArePersisted, At
<1>2. OrderInv => OrdersArePersisted
  BY DEF OrderInv
<1> QED BY <1>1, <1>2, OrderStep, LotAlways, PTL DEF Spec

-------------------------------------------------------------------------------
(* Halts. *)

LEMMA HaltInit == Init => HaltInv
BY DEF Init, Gone, NewChecker, HaltInv

(* The store asked, the checker answers "ok" only for a session that has   *)
(* no halt flag.                                                           *)
LEMMA CheckRiskHalt ==
  ASSUME "probe" \notin Faults, HaltInv, CheckRisk
  PROVE  HaltInv'
<1>1. PICK failed \in SUBSET {"probe", "haltset"} :
        LET asked   == Probe(risk, session \in haltHash /\ "probe" \notin failed)
            verdict == Verdict(asked, Signal.symbol, SideNow, TradeQty)
        IN  /\ Suffering(failed)
            /\ risk' = [asked EXCEPT !.halted = verdict \in {"halted", "trip"}]
            /\ haltHash' = IF verdict = "trip" /\ "haltset" \notin failed
                           THEN haltHash \cup {session} ELSE haltHash
            /\ step' = CASE verdict = "ok"    -> "fill"
                         [] verdict = "limit" -> "ack"
                         [] OTHER             -> "halt"
  BY DEF CheckRisk
<1> DEFINE asked == Probe(risk, session \in haltHash)
           verdict == Verdict(asked, Signal.symbol, SideNow, TradeQty)
<1>2. "probe" \notin failed
  BY <1>1 DEF Suffering
<1>3. (session \in haltHash /\ "probe" \notin failed) = (session \in haltHash)
  BY <1>2
<1>4. /\ risk' = [asked EXCEPT !.halted = verdict \in {"halted", "trip"}]
      /\ haltHash' = haltHash \/ (verdict = "trip" /\ haltHash' = haltHash \cup {session})
      /\ step' = CASE verdict = "ok"    -> "fill"
                   [] verdict = "limit" -> "ack"
                   [] OTHER             -> "halt"
  BY <1>1, <1>3
<1>5. /\ DOMAIN asked = {"positions", "equity", "peak", "halted", "probed"}
      /\ asked.halted \in BOOLEAN /\ asked.probed \in BOOLEAN
      /\ asked.halted \/ asked.probed
      /\ risk.halted => asked.halted
      /\ session \in haltHash /\ proc # "down" => asked.halted
  <2>1. CASE risk.halted \/ risk.probed
    <3>1. asked = risk
      BY <2>1 DEF Probe
    <3> QED BY <2>1, <3>1 DEF HaltInv
  <2>2. CASE ~risk.halted /\ ~risk.probed
    <3>1. asked = [risk EXCEPT !.probed = TRUE, !.halted = session \in haltHash]
      BY <2>2 DEF Probe
    <3> HIDE DEF asked
    <3>2. /\ DOMAIN asked = DOMAIN risk
          /\ asked.halted = (session \in haltHash)
          /\ asked.probed = TRUE
      BY <3>1 DEF HaltInv
    <3>3. CASE session \in haltHash
      <4>1. asked.halted = TRUE
        BY <3>2, <3>3
      <4> QED BY <2>2, <3>2, <4>1 DEF HaltInv
    <3>4. CASE session \notin haltHash
      <4>0. (session \in haltHash) = FALSE
        BY <3>4
      <4>1. asked.halted = FALSE
        BY <3>2, <4>0, Zenon
      <4> QED BY <2>2, <3>2, <3>4, <4>1 DEF HaltInv
    <3> QED BY <3>3, <3>4
  <2> QED BY <2>1, <2>2 DEF HaltInv
<1>6. /\ verdict \in {"halted", "trip", "limit", "ok"}
      /\ asked.halted => verdict = "halted"
  BY DEF Verdict
<1> HIDE DEF asked, verdict
<1>7. /\ DOMAIN risk' = DOMAIN asked
      /\ risk'.halted = (verdict \in {"halted", "trip"})
      /\ risk'.probed = asked.probed
  BY <1>4, <1>5
<1>8. UNCHANGED <<proc, session, sessions, batch>>
  BY DEF CheckRisk, database
<1>9. step' = "fill" => verdict = "ok"
  BY <1>4, <1>6
<1>10. step' = "halt" => verdict \in {"halted", "trip"}
  BY <1>4, <1>6
<1>11. verdict \in {"halted", "trip"} \/ (~asked.halted /\ asked.probed)
  BY <1>5, <1>6
<1> QED BY <1>4, <1>5, <1>6, <1>7, <1>8, <1>9, <1>10, <1>11 DEF HaltInv, At

(* Other steps that change the checker, the sessions or what comes next.   *)
LEMMA FillHalt ==
  ASSUME LotInv, HaltInv, Fill
  PROVE  HaltInv'
<1>1. PICK quote \in Quotes, failed \in {{}, {"db"}, {"unknown"}} : FillAt(quote, failed)
  BY DEF Fill
<1>2. /\ UNCHANGED <<proc, session, haltHash>> /\ proc # "down"
      /\ step' \in {"publish", "decide"}
  BY <1>1 DEF Fill, FillAt, Proceed, At, redis
<1>3. session \in DOMAIN sessions /\ sessions[session] \in SessionType
  BY <1>2, StoreTypes DEF LotInv, MemoryInv
<1>4. sessions'[session].status = sessions[session].status
  <2>1. PICK account \in SessionType :
          /\ account.status = sessions[session].status
          /\ sessions' = sessions \/ sessions' = [sessions EXCEPT ![session] = account]
    BY FillEffect DEF database
  <2> QED BY <1>3, <2>1
<1>5. /\ DOMAIN risk' = DOMAIN risk
      /\ risk'.halted = risk.halted
      /\ risk'.probed = risk.probed
  <2>1. CASE Succeeded(failed)
    <3> DEFINE fill == FillOf(quote)
    <3>1. risk' = RiskRecordFill(risk, Signal.symbol, fill.side, TradeQty, fill.price,
                                 Fee(TradeQty, fill.price))
      BY <1>1, <2>1 DEF FillAt
    <3> HIDE DEF fill
    <3> QED BY <3>1 DEF RiskRecordFill, HaltInv
  <2>2. CASE ~Succeeded(failed)
    BY <1>1, <2>2 DEF FillAt
  <2> QED BY <2>1, <2>2
<1> QED BY <1>2, <1>4, <1>5 DEF HaltInv, At

LEMMA HaltStep ==
  ASSUME "probe" \notin Faults, LotInv, HaltInv, [Next]_vars
  PROVE  HaltInv'
<1>1. CASE CheckRisk
  BY <1>1, CheckRiskHalt
<1>2. CASE Fill
  BY <1>2, FillHalt
<1>3. CASE HaltSession
  <2>1. /\ UNCHANGED <<proc, session, haltHash, risk>> /\ step' = "ack" /\ At("halt")
    BY <1>3 DEF HaltSession, redis, memory
  <2> QED BY <2>1 DEF HaltInv, At
<1>4. CASE \/ SignalArrives \/ Terminate \/ UNCHANGED vars
  <2>1. /\ UNCHANGED <<haltHash, sessions, session, risk, batch, step>>
        /\ proc' # "down" => proc # "down"
    BY <1>4 DEF SignalArrives, Terminate, vars, redis, database, memory, loop
  <2> QED BY <2>1 DEF HaltInv, At
<1>5. CASE ReadPending \/ ReadNew \/ Decide \/ NoQuote \/ PublishOrder \/ Acknowledge
  <2>1. UNCHANGED <<haltHash, sessions, session, risk, proc>>
    BY <1>5 DEF ReadPending, ReadNew, Decide, NoQuote, PublishOrder, Acknowledge,
                redis, database, memory
  <2>2. step' \notin {"fill", "halt"}
    BY <1>5 DEF ReadPending, ReadNew, Reading, Decide, NoQuote, PublishOrder, Acknowledge,
                LotInv, IntentInv
  <2> QED BY <2>1, <2>2 DEF HaltInv, At
<1>6. CASE Shutdown \/ Crash
  <2>1. risk' = NewChecker /\ proc' = "down"
    BY <1>6 DEF Shutdown, Crash, Exit
  <2> QED BY <2>1 DEF NewChecker, HaltInv
<1>7. CASE Startup
  <2>1. /\ risk'.halted = FALSE /\ risk'.probed = FALSE
        /\ DOMAIN risk' = {"positions", "equity", "peak", "halted", "probed"}
        /\ step' = "decide"
    BY <1>7 DEF Startup, Resume, CreateSession, Launch, SeedRisk, NewChecker
  <2>2. sessions'[session'].status = "RUNNING"
    <3>1. CASE Resume
      <4>1. Max(Running) \in Running
        BY <3>1 DEF Resume, LotInv, SingleRunning, Running, Max
      <4> QED BY <3>1, <4>1 DEF Resume, Launch, Running, database
    <3>2. CASE CreateSession
      BY <3>2, LenProperties, AppendProperties, CreateSessionLot, StoreTypes
         DEF CreateSession, Launch, LotInv, StoreInv, SessionType
    <3> QED BY <1>7, <3>1, <3>2 DEF Startup
  <2> QED BY <2>1, <2>2 DEF HaltInv, At
<1> QED BY <1>1, <1>2, <1>3, <1>4, <1>5, <1>6, <1>7 DEF Next, Consumer, HandleMessage

(* A step that adds a trade does so for a session without a halt.          *)
LEMMA HaltBlocksFill ==
  ASSUME LotInv, HaltInv, [Next]_vars
  PROVE  \A t \in trades' \ trades :
           t.session \notin haltHash /\ sessions[t.session].status # "HALTED"
<1>1. CASE Fill
  <2>1. session \notin haltHash /\ sessions[session].status # "HALTED"
    BY <1>1 DEF Fill, At, HaltInv
  <2> QED BY <1>1, <2>1, FillTrades
<1>2. CASE ~Fill
  <2>1. trades' = trades
    BY <1>2 DEF Next, Consumer, HandleMessage, SignalArrives, Startup, Resume, CreateSession,
                ReadPending, ReadNew, Decide, CheckRisk, HaltSession, NoQuote, PublishOrder,
                Acknowledge, Terminate, Shutdown, Crash, vars, database
  <2> QED BY <2>1
<1> QED BY <1>1, <1>2

(* As long as the halt flag can be read, no trade enters a session whose   *)
(* halt is on record in Redis or in the database: CanTrade asks the store  *)
(* before the first fill of a process and remembers the answer.            *)
THEOREM HaltedTradesNoMoreHolds ==
  ASSUME "probe" \notin Faults
  PROVE  Spec => HaltedTradesNoMore
<1>1. LotInv /\ HaltInv /\ [Next]_vars => HaltInv'
  BY HaltStep
<1>2. LotInv /\ HaltInv /\ [Next]_vars =>
        [\A t \in trades' \ trades :
           t.session \notin haltHash /\ sessions[t.session].status # "HALTED"]_vars
  BY HaltBlocksFill
<1> QED BY <1>1, <1>2, HaltInit, LotAlways, PTL DEF Spec, HaltedTradesNoMore

-------------------------------------------------------------------------------
(* The paper execution service keeps memory and database together, and     *)
(* implements PaperAccount, for every value of the constants under which   *)
(* no filled signal is handled again in its session: commits,              *)
(* acknowledgements and status changes answer, and no crash separates a    *)
(* commit from its acknowledgement. Stops, other crashes, lost reads,      *)
(* failed transactions and lost orders remain; a stop between the two      *)
(* leaves a filled signal to the next session.                             *)

HandledOnce ==
  /\ ~CrashAfterCommit
  /\ Faults \cap {"unknown", "ack", "status"} = {}

(* Nor is a halt flag taken for absent because it could not be read.       *)
Reliable == HandledOnce /\ "probe" \notin Faults

-------------------------------------------------------------------------------
(* Memory and database. *)

(* A row written over others is the only one that changes.                 *)
LEMMA RowOfUpsert ==
  ASSUME NEW rows \in LotRows, NEW symbol, NEW pos, NEW other
  PROVE  Row(Upsert(rows, symbol, pos), other) = IF other = symbol THEN pos ELSE Row(rows, other)
<1>1. PICK S \in SUBSET Symbols : rows \in [S -> LotPosition]
  BY DEF LotRows
<1> QED BY <1>1 DEF Row, Upsert

(* What memory and database hold of the session's positions.               *)
LEMMA HeldRows ==
  ASSUME LotInv, proc # "down"
  PROVE  /\ blotter.positions \in LotRows
         /\ session \in DOMAIN sessions
         /\ sessions[session] \in SessionType
         /\ sessions[session].rows \in LotRows
BY StoreTypes DEF LotInv, MemoryInv, SessionType

LEMMA FillAgrees ==
  ASSUME "unknown" \notin Faults, LotInv, PositionsAgree, Fill
  PROVE  PositionsAgree'
<1>1. PICK failed \in {{}, {"db"}, {"unknown"}},
           after \in LotPosition, left \in LotPosition, account \in SessionType :
        /\ Suffering(failed)
        /\ left.net = IF Succeeded(failed) THEN after.net ELSE Position(Signal.symbol).net
        /\ account.rows = Upsert(sessions[session].rows, Signal.symbol, after)
        /\ IF Succeeded(failed) \/ failed = {"unknown"}
           THEN sessions' = [sessions EXCEPT ![session] = account]
           ELSE UNCHANGED database
        /\ blotter'.positions = Upsert(blotter.positions, Signal.symbol, left)
  BY FillEffect
<1>2. failed # {"unknown"}
  BY <1>1 DEF Suffering
<1>3. proc # "down" /\ UNCHANGED <<proc, session>>
  BY DEF Fill, At
<1>4. /\ blotter.positions \in LotRows
      /\ session \in DOMAIN sessions
      /\ sessions[session].rows \in LotRows
  BY <1>3, HeldRows
<1> SUFFICES ASSUME NEW symbol \in Symbols
             PROVE  Position(symbol)'.net = Row(sessions'[session].rows, symbol).net
  BY <1>3 DEF PositionsAgree
<1>5. Position(symbol).net = Row(sessions[session].rows, symbol).net
  BY <1>3 DEF PositionsAgree
<1>6. Position(symbol)' = IF symbol = Signal.symbol THEN left ELSE Position(symbol)
  BY <1>1, <1>4, RowOfUpsert DEF Position
<1>7. CASE Succeeded(failed)
  <2>1. sessions'[session].rows = Upsert(sessions[session].rows, Signal.symbol, after)
    BY <1>1, <1>4, <1>7
  <2>2. Row(sessions'[session].rows, symbol) =
          IF symbol = Signal.symbol THEN after ELSE Row(sessions[session].rows, symbol)
    BY <1>4, <2>1, RowOfUpsert
  <2> QED BY <1>1, <1>5, <1>6, <1>7, <2>2
<1>8. CASE ~Succeeded(failed)
  <2>1. sessions' = sessions
    BY <1>1, <1>2, <1>8 DEF database
  <2>2. symbol = Signal.symbol => left.net = Position(symbol).net
    BY <1>1, <1>8
  <2> QED BY <1>5, <1>6, <2>1, <2>2
<1> QED BY <1>7, <1>8

LEMMA AgreeStep ==
  ASSUME "unknown" \notin Faults, LotInv, PositionsAgree, [Next]_vars
  PROVE  PositionsAgree'
<1>1. CASE Fill
  BY <1>1, FillAgrees
<1>2. CASE Resume
  <2>1. PICK equity : Launch(Max(Running), sessions[Max(Running)].rows, equity)
    BY <1>2 DEF Resume
  <2>2. sessions' = sessions
    BY <1>2 DEF Resume, database
  <2> QED BY <2>1, <2>2 DEF Launch, PositionsAgree, Position
<1>3. CASE CreateSession
  <2>1. /\ sessions \in Seq(SessionType)
        /\ sessions' = Append(sessions, [status |-> "RUNNING", rows |-> NoRows, points |-> {}])
        /\ session' = Len(sessions) + 1
        /\ blotter'.positions = NoRows
    BY <1>3 DEF CreateSession, Launch, LotInv, StoreInv
  <2>2. sessions'[session'].rows = NoRows
    BY <2>1, LenProperties
  <2> QED BY <2>1, <2>2 DEF PositionsAgree, Position
<1>4. CASE HaltSession
  <2>1. /\ proc # "down" /\ UNCHANGED <<proc, session, blotter>>
        /\ \/ sessions' = sessions
           \/ sessions' = [sessions EXCEPT ![session].status = "HALTED"]
    BY <1>4 DEF HaltSession, At, memory
  <2>2. sessions'[session].rows = sessions[session].rows
    BY <2>1, HeldRows DEF SessionType
  <2> QED BY <2>1, <2>2 DEF PositionsAgree, Position
<1>5. CASE Shutdown \/ Crash
  BY <1>5 DEF Shutdown, Crash, Exit, PositionsAgree
<1>6. CASE \/ SignalArrives \/ ReadPending \/ ReadNew \/ Decide \/ CheckRisk \/ NoQuote
           \/ PublishOrder \/ Acknowledge \/ Terminate \/ UNCHANGED vars
  <2>1. UNCHANGED <<sessions, session, blotter>> /\ (proc' # "down" => proc # "down")
    BY <1>6 DEF SignalArrives, ReadPending, ReadNew, Decide, CheckRisk, NoQuote, PublishOrder,
                Acknowledge, Terminate, Reading, At, vars, database, memory
  <2> QED BY <2>1 DEF PositionsAgree, Position
<1> QED BY <1>1, <1>2, <1>3, <1>4, <1>5, <1>6
        DEF Next, Startup, Consumer, HandleMessage

(* As long as commits answer, a process decides on the positions that the  *)
(* database has: blotter.RecordFill and undoFill change both or neither,   *)
(* and a resumed session is seeded from its rows.                          *)
THEOREM PositionsAgreeHolds ==
  ASSUME "unknown" \notin Faults
  PROVE  Spec => []PositionsAgree
<1>1. Init => PositionsAgree
  BY DEF Init, Gone, PositionsAgree
<1>2. LotInv /\ PositionsAgree /\ [Next]_vars => PositionsAgree'
  BY AgreeStep
<1> QED BY <1>1, <1>2, LotAlways, PTL DEF Spec

-------------------------------------------------------------------------------
(* No filled signal is handled again. *)

(* Ids are delivered before they are pending, and pending before they are  *)
(* handled; sessions at work are running or halted.                        *)
IdInv ==
  /\ delivered \in Nat
  /\ Len(stream) =< MaxSignals
  /\ pending \subseteq 1 .. delivered
  /\ batch \subseteq pending
  /\ \A t \in trades : t.session \in DOMAIN sessions /\ t.signal \in 1 .. delivered
  /\ proc # "down" => sessions[session].status \in {"RUNNING", "HALTED"}

(* A pending signal that is filled is the one being acknowledged; a        *)
(* process that is gone leaves none to a session that will be resumed.     *)
OnceInv ==
  /\ proc = "up" =>
       \A t \in trades : t.session = session /\ t.signal \in pending =>
         t.signal = Current /\ step \in {"publish", "ack"}
  /\ proc = "down" =>
       \A t \in trades : t.signal \in pending => sessions[t.session].status # "RUNNING"

(* Signals that are read for the first time are newer than all delivered   *)
(* before.                                                                 *)
LEMMA FreshIds ==
  ASSUME LotInv, IdInv, NEW fresh \in SUBSET {i \in Ids : i > delivered}
  PROVE  /\ LastDelivered(fresh) \in Nat
         /\ LastDelivered(fresh) >= delivered
         /\ fresh \subseteq 1 .. LastDelivered(fresh)
<1>1. Len(stream) \in Nat /\ delivered \in Nat
  BY LenProperties DEF LotInv, StreamInv, IdInv
<1>2. fresh \in SUBSET (0 .. Len(stream))
  BY DEF Ids
<1>3. CASE fresh = {}
  BY <1>1, <1>3 DEF LastDelivered
<1>4. CASE fresh # {}
  <2>1. PICK m \in fresh : \A k \in fresh : m >= k
    BY <1>1, <1>2, <1>4, GreatestElement
  <2>2. Max(fresh) \in fresh /\ \A k \in fresh : Max(fresh) >= k
    BY <2>1 DEF Max
  <2>3. \A k \in fresh : k \in Nat /\ k > delivered
    BY <1>1 DEF Ids
  <2> QED BY <1>1, <1>4, <2>2, <2>3 DEF LastDelivered
<1> QED BY <1>3, <1>4

(* The status of the session after a step that keeps it at work.           *)
LEMMA FillIds ==
  ASSUME LotInv, IdInv, Fill
  PROVE  IdInv'
<1>1. /\ UNCHANGED <<stream, delivered, pending, proc, session>>
      /\ batch # {} /\ proc # "down"
  BY DEF Fill, At, redis
<1>2. PICK failed \in {{}, {"db"}, {"unknown"}}, account \in SessionType :
        /\ account.status = sessions[session].status
        /\ sessions' = sessions \/ sessions' = [sessions EXCEPT ![session] = account]
        /\ Proceed(Succeeded(failed))
  BY FillEffect DEF database
<1>3. session \in DOMAIN sessions
  BY <1>1, HeldRows
<1>4. DOMAIN sessions' = DOMAIN sessions /\ sessions'[session].status = sessions[session].status
  BY <1>2, <1>3
<1>5. batch' \subseteq batch
  BY <1>2 DEF Proceed
<1>6. Current \in 1 .. delivered
  BY <1>1, CurrentInBatch DEF LotInv, IdInv
<1>7. \A t \in trades' : t.session \in DOMAIN sessions' /\ t.signal \in 1 .. delivered'
  BY <1>1, <1>3, <1>4, <1>6, FillTrades DEF IdInv
<1> QED BY <1>1, <1>4, <1>5, <1>7 DEF IdInv

LEMMA IdStep ==
  ASSUME LotInv, IdInv, [Next]_vars
  PROVE  IdInv'
<1>1. CASE Fill
  BY <1>1, FillIds
<1>2. CASE SignalArrives
  <2>1. Len(stream') =< MaxSignals
    <3>1. PICK signal : stream' = Append(stream, signal)
      BY <1>2 DEF SignalArrives
    <3>2. Len(stream') = Len(stream) + 1 /\ Len(stream) \in Nat
      BY <3>1, LenProperties DEF LotInv, StreamInv
    <3> QED BY <1>2, <3>2, BoundsAssumption DEF SignalArrives
  <2> QED BY <1>2, <2>1 DEF SignalArrives, IdInv, database, memory, loop
<1>3. CASE Resume
  <2>1. PICK equity : Launch(Max(Running), sessions[Max(Running)].rows, equity)
    BY <1>3 DEF Resume
  <2>2. Max(Running) \in Running
    BY <1>3 DEF Resume, LotInv, SingleRunning, Running, Max
  <2> QED BY <1>3, <2>1, <2>2 DEF Resume, Launch, Running, IdInv, redis, database
<1>4. CASE CreateSession
  <2> DEFINE new == [status |-> "RUNNING", rows |-> NoRows, points |-> {}]
  <2>1. sessions \in Seq(SessionType) /\ sessions' = Append(sessions, new)
    BY <1>4 DEF CreateSession, LotInv, StoreInv
  <2>2. /\ DOMAIN sessions \subseteq DOMAIN sessions'
        /\ sessions'[Len(sessions) + 1].status = "RUNNING"
    BY <2>1, LenProperties
  <2> QED BY <1>4, <2>2 DEF CreateSession, Launch, IdInv, redis
<1>5. CASE ReadPending
  <2>1. batch' \subseteq pending
    BY <1>5 DEF ReadPending, Oldest
  <2> QED BY <1>5, <2>1 DEF ReadPending, IdInv, redis, database, memory
<1>6. CASE ReadNew
  <2> DEFINE fresh == Oldest({i \in Ids : i > delivered})
  <2>1. /\ pending' = pending \cup fresh
        /\ delivered' = LastDelivered(fresh)
        /\ batch' \subseteq fresh
    BY <1>6 DEF ReadNew
  <2>2. fresh \in SUBSET {i \in Ids : i > delivered}
    BY DEF Oldest
  <2> HIDE DEF fresh
  <2>3. delivered' \in Nat /\ delivered' >= delivered /\ fresh \subseteq 1 .. delivered'
    BY <2>1, <2>2, FreshIds
  <2>4. UNCHANGED <<stream, sessions, trades, proc, session>>
    BY <1>6 DEF ReadNew, database, memory
  <2>5. 1 .. delivered \subseteq 1 .. delivered'
    BY <2>3 DEF IdInv
  <2> QED BY <2>1, <2>3, <2>4, <2>5 DEF IdInv
<1>7. CASE Decide \/ CheckRisk \/ NoQuote \/ PublishOrder \/ Terminate \/ UNCHANGED vars
  <2>1. /\ UNCHANGED <<stream, delivered, pending, batch, sessions, trades, session>>
        /\ proc' # "down" => proc # "down"
    BY <1>7 DEF Decide, CheckRisk, NoQuote, PublishOrder, Terminate, At, vars, redis, database,
                memory, loop
  <2> QED BY <2>1 DEF IdInv
<1>8. CASE HaltSession
  <2>1. /\ UNCHANGED <<stream, delivered, pending, batch, trades, session, proc>> /\ proc # "down"
        /\ \/ sessions' = sessions
           \/ sessions' = [sessions EXCEPT ![session].status = "HALTED"]
    BY <1>8 DEF HaltSession, At, redis, memory
  <2>2. /\ DOMAIN sessions' = DOMAIN sessions
        /\ sessions'[session].status \in {"RUNNING", "HALTED"}
    BY <2>1, HeldRows DEF SessionType, IdInv
  <2> QED BY <2>1, <2>2 DEF IdInv
<1>9. CASE Acknowledge
  <2>1. /\ UNCHANGED <<stream, delivered, sessions, trades, session, proc>>
        /\ pending' \in {pending, pending \ {Current}}
        /\ batch' = batch \ {Current}
    BY <1>9 DEF Acknowledge, database, memory
  <2> QED BY <2>1 DEF IdInv
<1>10. CASE Shutdown \/ Crash
  <2>1. /\ UNCHANGED <<stream, delivered, pending, trades>>
        /\ batch' = {} /\ proc' = "down" /\ DOMAIN sessions' = DOMAIN sessions
    BY <1>10 DEF Shutdown, Crash, Exit, redis, database
  <2> QED BY <2>1 DEF IdInv
<1> QED BY <1>1, <1>2, <1>3, <1>4, <1>5, <1>6, <1>7, <1>8, <1>9, <1>10
        DEF Next, Startup, Consumer, HandleMessage

LEMMA OnceStep ==
  ASSUME HandledOnce, LotInv, IdInv, OnceInv, [Next]_vars
  PROVE  OnceInv'
<1>1. CASE Fill
  <2>1. PICK failed \in {{}, {"db"}, {"unknown"}} :
          /\ Suffering(failed)
          /\ Succeeded(failed) \/ failed = {"unknown"} \/ UNCHANGED database
          /\ Proceed(Succeeded(failed))
    BY <1>1, FillEffect
  <2>2. proc # "down" /\ UNCHANGED <<pending, proc, session>> /\ At("fill")
    BY <1>1 DEF Fill, At, redis
  <2>3. failed # {"unknown"}
    BY <2>1 DEF Suffering, HandledOnce
  <2>4. \A t \in trades : proc = "up" /\ t.session = session => t.signal \notin pending
    BY <2>2 DEF OnceInv, At
  <2>5. CASE Succeeded(failed)
    <3>1. step' = "publish" /\ Current' = Current
      BY <2>1, <2>5 DEF Proceed, Current
    <3> QED BY <1>1, <2>2, <2>4, <3>1, FillTrades DEF OnceInv
  <2>6. CASE ~Succeeded(failed)
    <3>1. trades' = trades
      BY <2>1, <2>3, <2>6 DEF database
    <3> QED BY <2>2, <2>4, <3>1 DEF OnceInv
  <2> QED BY <2>5, <2>6
<1>2. CASE SignalArrives \/ UNCHANGED vars
  <2>1. UNCHANGED <<pending, batch, step, sessions, trades, proc, session>>
    BY <1>2 DEF SignalArrives, vars, redis, database, memory, loop
  <2>2. Current' = Current
    BY <2>1 DEF Current
  <2> QED BY <2>1, <2>2 DEF OnceInv
<1>3. CASE Resume
  <2>1. PICK equity : Launch(Max(Running), sessions[Max(Running)].rows, equity)
    BY <1>3 DEF Resume
  <2>2. Max(Running) \in Running
    BY <1>3 DEF Resume, LotInv, SingleRunning, Running, Max
  <2> QED BY <1>3, <2>1, <2>2 DEF Resume, Launch, Running, OnceInv, redis, database
<1>4. CASE CreateSession
  <2>1. /\ UNCHANGED <<pending, trades>> /\ session' = Len(sessions) + 1 /\ proc' = "up"
    BY <1>4 DEF CreateSession, Launch, redis
  <2>2. session' \notin DOMAIN sessions
    BY <2>1, LenProperties DEF LotInv, StoreInv
  <2> QED BY <2>1, <2>2 DEF OnceInv, IdInv
<1>5. CASE ReadPending \/ ReadNew
  <2>1. /\ proc = "up" /\ step = "decide"
        /\ UNCHANGED <<trades, proc, session>>
    BY <1>5 DEF ReadPending, ReadNew, Reading, LotInv, IntentInv, database, memory
  <2>2. \A t \in trades : t.session = session => t.signal \notin pending
    BY <2>1 DEF OnceInv
  <2>3. \A i \in pending' : i \in pending \/ i > delivered
    BY <1>5 DEF ReadPending, ReadNew, Oldest, redis
  <2>4. \A t \in trades : t.session = session => t.signal \notin pending'
    BY <2>2, <2>3 DEF IdInv
  <2> QED BY <2>1, <2>4 DEF OnceInv
<1>6. CASE Decide \/ CheckRisk \/ NoQuote \/ HaltSession
  <2>1. /\ proc # "down" /\ UNCHANGED <<pending, trades, proc, session>>
        /\ step \in {"decide", "check", "fill", "halt"}
    BY <1>6 DEF Decide, CheckRisk, NoQuote, HaltSession, At, redis, database, memory
  <2> QED BY <2>1 DEF OnceInv
<1>7. CASE PublishOrder
  <2>1. /\ proc # "down" /\ UNCHANGED <<pending, trades, proc, session, batch>> /\ step' = "ack"
    BY <1>7 DEF PublishOrder, At, database, memory
  <2>2. Current' = Current
    BY <2>1 DEF Current
  <2> QED BY <2>1, <2>2 DEF OnceInv
<1>8. CASE Acknowledge
  <2>1. /\ proc # "down" /\ UNCHANGED <<trades, proc, session>>
        /\ proc = "up" => pending' = pending \ {Current}
    BY <1>8 DEF Acknowledge, At, ConsumerCall, Succeeded, Suffering, HandledOnce, database, memory
  <2> QED BY <2>1 DEF OnceInv
<1>9. CASE Terminate
  BY <1>9 DEF Terminate, OnceInv
<1>10. CASE Shutdown
  <2>1. /\ proc # "down" /\ proc' = "down" /\ UNCHANGED <<pending, trades>>
        /\ sessions' = [sessions EXCEPT ![session].status = "STOPPED"]
    BY <1>10 DEF Shutdown, Exit, Suffering, HandledOnce, redis
  <2>2. /\ \A s \in DOMAIN sessions : sessions[s].status = "RUNNING" => s = session
        /\ session \in DOMAIN sessions /\ sessions[session] \in SessionType
    BY <2>1, HeldRows DEF LotInv, SingleRunning, Running
  <2>3. \A s \in DOMAIN sessions : sessions'[s].status # "RUNNING"
    BY <2>1, <2>2 DEF SessionType
  <2> QED BY <2>1, <2>3 DEF OnceInv, IdInv
<1>11. CASE Crash
  <2>1. /\ proc # "down" /\ proc' = "down" /\ UNCHANGED <<pending, trades, sessions>>
        /\ ~Unacknowledged
    BY <1>11 DEF Crash, Exit, HandledOnce, redis, database
  <2>2. \A s \in DOMAIN sessions : sessions[s].status = "RUNNING" => s = session
    BY <2>1 DEF LotInv, SingleRunning, Running
  <2> QED BY <2>1, <2>2 DEF OnceInv, IdInv, Unacknowledged
<1> QED BY <1>1, <1>2, <1>3, <1>4, <1>5, <1>6, <1>7, <1>8, <1>9, <1>10, <1>11
        DEF Next, Startup, Consumer, HandleMessage

-------------------------------------------------------------------------------
(* The service implements the account. *)

(* A sequence given as a function, and what appending to it gives.         *)
LEMMA AppendFunction ==
  ASSUME NEW n \in Nat, NEW S, NEW f \in [1 .. n -> S], NEW x \in S,
         NEW g \in [1 .. n + 1 -> S], \A i \in 1 .. n : g[i] = f[i], g[n + 1] = x
  PROVE  Len(f) = n /\ g = Append(f, x)
<1>1. f \in Seq(S) /\ Len(f) = n
  <2>1. f \in Seq(S)
    BY SeqDef
  <2> QED BY <2>1, LenProperties
<1>2. /\ Append(f, x) \in Seq(S)
      /\ Len(Append(f, x)) = n + 1
      /\ \A i \in 1 .. n : Append(f, x)[i] = f[i]
      /\ Append(f, x)[n + 1] = x
  BY <1>1, AppendProperties
<1>3. Append(f, x) \in [1 .. n + 1 -> S]
  BY <1>2, LenProperties
<1> QED BY <1>1, <1>2, <1>3

(* The mapped variables are sequences, one element per session.            *)
AccountShape ==
  /\ Len(sessions) \in Nat /\ DOMAIN sessions = 1 .. Len(sessions)
  /\ StatusOf \in [1 .. Len(sessions) -> {"RUNNING", "STOPPED", "HALTED"}]
  /\ NetsOf \in [1 .. Len(sessions) -> [Symbols -> {-TradeQty, 0, TradeQty}]]
  /\ FilledOf = [s \in 1 .. Len(sessions) |-> {t.signal : t \in TradesOf(s)}]
  /\ Len(StatusOf) = Len(sessions)
  /\ StatusOf # <<>> <=> Len(sessions) # 0

LEMMA AccountShaped == StoreInv => AccountShape
<1> SUFFICES ASSUME StoreInv PROVE AccountShape
  OBVIOUS
<1>1. Len(sessions) \in Nat /\ DOMAIN sessions = 1 .. Len(sessions)
  BY LenProperties DEF StoreInv
<1>2. \A s \in DOMAIN sessions : sessions[s] \in SessionType
  BY StoreTypes
<1>3. StatusOf \in [1 .. Len(sessions) -> {"RUNNING", "STOPPED", "HALTED"}]
  BY <1>1, <1>2 DEF StatusOf, SessionType
<1>4. NetsOf \in [1 .. Len(sessions) -> [Symbols -> {-TradeQty, 0, TradeQty}]]
  <2>1. \A s \in DOMAIN sessions, symbol \in Symbols :
          Row(sessions[s].rows, symbol).net \in {-TradeQty, 0, TradeQty}
    BY <1>2, RowType DEF SessionType, LotPosition
  <2> QED BY <1>1, <2>1 DEF NetsOf
<1>5. FilledOf = [s \in 1 .. Len(sessions) |-> {t.signal : t \in TradesOf(s)}]
  BY <1>1 DEF FilledOf
<1>6. StatusOf \in Seq({"RUNNING", "STOPPED", "HALTED"})
  BY <1>1, <1>3, SeqDef
<1>7. Len(StatusOf) = Len(sessions)
  BY <1>1, <1>3, <1>6, LenProperties
<1>8. StatusOf # <<>> <=> Len(sessions) # 0
  BY <1>1, <1>6, <1>7, EmptySeq
<1> QED BY <1>1, <1>3, <1>4, <1>5, <1>7, <1>8 DEF AccountShape

LEMMA AccountInit == Init => Account!Init
BY DEF Init, Account!Init, StatusOf, NetsOf, FilledOf

(* A step that touches no account.                                         *)
LEMMA AccountStutters ==
  ASSUME UNCHANGED <<sessions, trades, haltHash>>
  PROVE  UNCHANGED Account!vars
BY DEF Account!vars, StatusOf, NetsOf, FilledOf, TradesOf

LEMMA CreateOpens ==
  ASSUME LotInv, IdInv, CreateSession
  PROVE  Account!Open
<1> DEFINE n == Len(sessions)
           new == [status |-> "RUNNING", rows |-> NoRows, points |-> {}]
<1>1. /\ n \in Nat /\ DOMAIN sessions = 1 .. n /\ sessions \in Seq(SessionType)
      /\ StatusOf \in [1 .. n -> {"RUNNING", "STOPPED", "HALTED"}]
      /\ NetsOf \in [1 .. n -> [Symbols -> {-TradeQty, 0, TradeQty}]]
      /\ FilledOf = [s \in 1 .. n |-> {t.signal : t \in TradesOf(s)}]
      /\ Len(StatusOf) = n
      /\ StatusOf # <<>> <=> n # 0
  BY AccountShaped DEF AccountShape, LotInv, StoreInv
<1>2. /\ sessions' = Append(sessions, new)
      /\ UNCHANGED <<trades, haltHash>> /\ Running = {} /\ ~Refused
  BY DEF CreateSession, MayCreate, redis
<1>3. StoreInv'
  BY CreateSessionLot DEF LotInv
<1>4. /\ Len(sessions') = n + 1
      /\ \A s \in 1 .. n : sessions'[s] = sessions[s]
      /\ sessions'[n + 1] = new
  BY <1>1, <1>2, AppendProperties
<1>5. /\ StatusOf' \in [1 .. n + 1 -> {"RUNNING", "STOPPED", "HALTED"}]
      /\ NetsOf' \in [1 .. n + 1 -> [Symbols -> {-TradeQty, 0, TradeQty}]]
      /\ FilledOf' = [s \in 1 .. n + 1 |-> {t.signal : t \in TradesOf(s)'}]
      /\ DOMAIN sessions' = 1 .. n + 1
  <2>1. AccountShape'
    BY <1>3, AccountShaped, PTL
  <2> QED BY <1>4, <2>1 DEF AccountShape
<1> HIDE DEF n
<1>6. StatusOf' = Append(StatusOf, "RUNNING")
  <2>1. (\A s \in 1 .. n : StatusOf'[s] = StatusOf[s]) /\ StatusOf'[n + 1] = "RUNNING"
    BY <1>1, <1>4, <1>5 DEF StatusOf
  <2> QED BY <1>1, <1>5, <2>1, AppendFunction
<1>7. NetsOf' = Append(NetsOf, [symbol \in Symbols |-> 0])
  <2>1. \A s \in 1 .. n : NetsOf'[s] = NetsOf[s]
    <3> SUFFICES ASSUME NEW s \in 1 .. n PROVE NetsOf'[s] = NetsOf[s]
      OBVIOUS
    <3>1. sessions'[s] = sessions[s] /\ s \in DOMAIN sessions /\ s \in DOMAIN sessions'
      BY <1>1, <1>4, <1>5
    <3> QED BY <3>1 DEF NetsOf
  <2>2. NetsOf'[n + 1] = [symbol \in Symbols |-> 0]
    BY <1>1, <1>4, <1>5 DEF NetsOf, Row, NoRows, FlatPosition
  <2>3. [symbol \in Symbols |-> 0] \in [Symbols -> {-TradeQty, 0, TradeQty}]
    OBVIOUS
  <2> QED BY <1>1, <1>5, <2>1, <2>2, <2>3, AppendFunction
<1>8. FilledOf' = Append(FilledOf, {})
  <2> DEFINE S == SUBSET (1 .. delivered)
  <2>1. \A s : TradesOf(s)' = TradesOf(s) /\ {t.signal : t \in TradesOf(s)} \in S
    BY <1>2 DEF TradesOf, IdInv
  <2>2. TradesOf(n + 1) = {}
    BY <1>1 DEF TradesOf, IdInv
  <2>3. FilledOf \in [1 .. n -> S] /\ FilledOf' \in [1 .. n + 1 -> S]
    BY <1>1, <1>5, <2>1
  <2>4. (\A s \in 1 .. n : FilledOf'[s] = FilledOf[s]) /\ FilledOf'[n + 1] = {}
    BY <1>1, <1>5, <2>1, <2>2
  <2>5. {} \in S
    OBVIOUS
  <2> HIDE DEF S
  <2> QED BY <1>1, <2>3, <2>4, <2>5, AppendFunction
<1>9. /\ \A s \in DOMAIN StatusOf : StatusOf[s] # "RUNNING"
      /\ StatusOf # <<>> => StatusOf[Len(StatusOf)] # "HALTED"
  <2>1. \A s \in 1 .. n : StatusOf[s] = sessions[s].status
    BY <1>1 DEF StatusOf
  <2>2. n # 0 => sessions[n].status # "HALTED"
    BY <1>1, <1>2 DEF Refused, n
  <2>3. \A s \in 1 .. n : sessions[s].status # "RUNNING"
    BY <1>1, <1>2 DEF Running
  <2>4. DOMAIN StatusOf = 1 .. n
    BY <1>1
  <2>5. n # 0 => n \in 1 .. n
    BY <1>1
  <2> QED BY <1>1, <2>1, <2>2, <2>3, <2>4, <2>5
<1> QED BY <1>2, <1>6, <1>7, <1>8, <1>9 DEF Account!Open

(* A fill that is recorded trades its signal in the newest account.        *)
LEMMA FillIsTrade ==
  ASSUME Reliable, LotInv, IdInv, OnceInv, HaltInv, PositionsAgree, Fill
  PROVE  Account!Trade \/ UNCHANGED Account!vars
<1> DEFINE n == Len(sessions)
<1>1. PICK failed \in {{}, {"db"}, {"unknown"}},
           after \in LotPosition, left \in LotPosition, account \in SessionType :
        /\ Suffering(failed)
        /\ after.net = Position(Signal.symbol).net + Signed(SideNow, TradeQty)
        /\ account.rows = Upsert(sessions[session].rows, Signal.symbol, after)
        /\ account.status = sessions[session].status
        /\ IF Succeeded(failed) \/ failed = {"unknown"}
           THEN sessions' = [sessions EXCEPT ![session] = account]
           ELSE UNCHANGED database
        /\ Proceed(Succeeded(failed))
  BY FillEffect
<1>2. failed # {"unknown"} /\ UNCHANGED haltHash
  BY <1>1 DEF Suffering, Reliable, HandledOnce, Fill, redis
<1>3. CASE ~Succeeded(failed)
  BY <1>1, <1>2, <1>3, AccountStutters DEF database
<1>4. CASE Succeeded(failed)
  <2>1. /\ At("fill") /\ proc = "up" /\ step = "fill" /\ batch # {}
        /\ session = n /\ n \in DOMAIN sessions
    BY <1>4, HeldRows DEF Fill, At, Succeeded, LotInv, SingleRunning
  <2>2. /\ n \in Nat /\ DOMAIN sessions = 1 .. n
        /\ StatusOf \in [1 .. n -> {"RUNNING", "STOPPED", "HALTED"}]
        /\ NetsOf \in [1 .. n -> [Symbols -> {-TradeQty, 0, TradeQty}]]
        /\ FilledOf = [s \in 1 .. n |-> {t.signal : t \in TradesOf(s)}]
        /\ Len(StatusOf) = n
        /\ StatusOf # <<>>
    BY <2>1, AccountShaped DEF AccountShape, LotInv
  <2>3. /\ AccountShape'
        /\ sessions'[n] = account
        /\ Len(sessions') = n
        /\ \A s \in 1 .. n : s # n => sessions'[s] = sessions[s]
    <3>1. sessions' = [sessions EXCEPT ![n] = account]
      BY <1>1, <1>4, <2>1
    <3>2. /\ StoreInv' /\ Len(sessions') = n /\ sessions'[n] = account
          /\ \A s \in DOMAIN sessions : s # n => sessions'[s] = sessions[s]
      BY <2>1, <3>1, StoreChanges DEF LotInv
    <3>3. AccountShape'
      BY <3>2, AccountShaped, PTL
    <3> QED BY <2>2, <3>2, <3>3
  <2>4. /\ StatusOf' \in [1 .. n -> {"RUNNING", "STOPPED", "HALTED"}]
        /\ NetsOf' \in [1 .. n -> [Symbols -> {-TradeQty, 0, TradeQty}]]
        /\ FilledOf' = [s \in 1 .. n |-> {t.signal : t \in TradesOf(s)'}]
        /\ DOMAIN sessions' = 1 .. n
    BY <2>3 DEF AccountShape
  <2>5. Current \in batch /\ Signal \in SignalType /\ Signal.symbol \in Symbols
    BY <2>1, CurrentInBatch DEF LotInv, SignalType
  <2> HIDE DEF n
  <2>6. sessions[n].status = "RUNNING" /\ n \notin haltHash
    BY <2>1 DEF HaltInv, IdInv
  <2>7. StatusOf' = StatusOf /\ StatusOf[n] = "RUNNING"
    <3>1. \A s \in 1 .. n : sessions'[s].status = sessions[s].status
      BY <1>1, <2>1, <2>2, <2>3
    <3> QED BY <2>1, <2>2, <2>4, <2>6, <3>1 DEF StatusOf
  <2> DEFINE lot == Signed(SideNow, TradeQty)
             net == NetsOf[n][Signal.symbol] + lot
  <2>8. NetsOf[n][Signal.symbol] = Position(Signal.symbol).net
    BY <2>1, <2>5 DEF NetsOf, PositionsAgree
  <2>9. /\ lot \in {TradeQty, -TradeQty}
        /\ net = after.net
        /\ net \in -TradeQty .. TradeQty
    <3>1. SideNow \in Sides
      BY <2>1 DEF LotInv, IntentInv
    <3>2. lot \in {TradeQty, -TradeQty} /\ net = after.net
      BY <1>1, <2>8, <3>1 DEF Signed, Sides
    <3> HIDE DEF lot, net
    <3> QED BY <3>2, TradeQtyAssumption DEF LotPosition
  <2>10. NetsOf' = [NetsOf EXCEPT ![n][Signal.symbol] = net]
    <3> HIDE DEF net, lot
    <3>1. \A s \in 1 .. n : s # n => NetsOf'[s] = NetsOf[s]
      <4> SUFFICES ASSUME NEW s \in 1 .. n, s # n PROVE NetsOf'[s] = NetsOf[s]
        OBVIOUS
      <4>1. sessions'[s] = sessions[s] /\ s \in DOMAIN sessions /\ s \in DOMAIN sessions'
        BY <2>2, <2>3, <2>4
      <4> QED BY <4>1 DEF NetsOf
    <3>2. NetsOf'[n] = [NetsOf[n] EXCEPT ![Signal.symbol] = net]
      <4>1. sessions[n].rows \in LotRows
        BY <2>1, HeldRows
      <4>2. \A symbol \in Symbols :
              NetsOf'[n][symbol] = IF symbol = Signal.symbol THEN net ELSE NetsOf[n][symbol]
        <5> SUFFICES ASSUME NEW symbol \in Symbols
                     PROVE  NetsOf'[n][symbol] =
                              IF symbol = Signal.symbol THEN net ELSE NetsOf[n][symbol]
          OBVIOUS
        <5>1. NetsOf'[n][symbol] = Row(account.rows, symbol).net
          BY <2>1, <2>2, <2>3, <2>4 DEF NetsOf
        <5>2. NetsOf[n][symbol] = Row(sessions[n].rows, symbol).net
          BY <2>1 DEF NetsOf
        <5>3. Row(account.rows, symbol) =
                IF symbol = Signal.symbol THEN after ELSE Row(sessions[n].rows, symbol)
          BY <1>1, <2>1, <4>1, RowOfUpsert
        <5> QED BY <2>9, <5>1, <5>2, <5>3
      <4> QED BY <2>1, <2>2, <2>4, <4>2
    <3> QED BY <2>1, <2>2, <2>4, <3>1, <3>2
  <2>11. FilledOf' = [FilledOf EXCEPT ![n] = @ \cup {Current}]
    <3>1. step' = "publish"
      BY <1>1, <1>4 DEF Proceed
    <3>2. /\ trades \subseteq trades'
          /\ \A t \in trades' : t \in trades \/ (t.session = n /\ t.signal = Current)
          /\ \E t \in trades' : t.session = n /\ t.signal = Current
      BY <2>1, <3>1, FillTrades
    <3>3. ASSUME NEW s \in 1 .. n, s # n PROVE FilledOf'[s] = FilledOf[s]
      <4>1. TradesOf(s)' = TradesOf(s)
        BY <3>2, <3>3 DEF TradesOf
      <4> QED BY <2>2, <2>4, <4>1
    <3>4. FilledOf'[n] = FilledOf[n] \cup {Current}
      <4> SUFFICES ASSUME NEW s \in 1 .. n, s = n
                   PROVE  FilledOf'[s] = FilledOf[s] \cup {Current}
        BY <2>1, <2>2
      <4>1. /\ TradesOf(s) \subseteq TradesOf(s)'
            /\ \A t \in TradesOf(s)' : t \in TradesOf(s) \/ t.signal = Current
            /\ \E t \in TradesOf(s)' : t.signal = Current
        BY <3>2 DEF TradesOf
      <4>2. {t.signal : t \in TradesOf(s)'} = {t.signal : t \in TradesOf(s)} \cup {Current}
        BY <4>1
      <4> QED BY <2>2, <2>4, <4>2
    <3>5. /\ FilledOf = [s \in 1 .. n |-> FilledOf[s]]
          /\ FilledOf' = [s \in 1 .. n |-> FilledOf'[s]]
      BY <2>2, <2>4
    <3> QED BY <2>1, <2>2, <3>3, <3>4, <3>5
  <2>12. Current \in (1 .. MaxSignals) \ FilledOf[n]
    <3>1. Current \in 1 .. MaxSignals
      BY <2>5, LenProperties, BoundsAssumption DEF LotInv, StreamInv, Ids, IdInv
    <3>2. \A t \in TradesOf(n) : t.signal # Current
      BY <2>1, <2>5 DEF TradesOf, OnceInv, IdInv
    <3>3. FilledOf[n] = {t.signal : t \in TradesOf(n)}
      BY <2>1, <2>2
    <3> QED BY <3>1, <3>2, <3>3
  <2> HIDE DEF net
  <2>13. Account!Trade
    <3>1. /\ lot \in {TradeQty, -TradeQty}
          /\ LET held == NetsOf[n][Signal.symbol] + lot
             IN  /\ held \in -TradeQty .. TradeQty
                 /\ NetsOf' = [NetsOf EXCEPT ![n][Signal.symbol] = held]
      BY <2>9, <2>10 DEF net
    <3> HIDE DEF lot
    <3> QED BY <1>2, <2>2, <2>5, <2>6, <2>7, <2>11, <2>12, <3>1
            DEF Account!Trade, Account!Newest
  <2> QED BY <2>13
<1> QED BY <1>3, <1>4

(* Another status for the newest session closes its account.               *)
LEMMA StatusCloses ==
  ASSUME LotInv, IdInv, proc # "down", UNCHANGED <<trades, haltHash>>,
         NEW end \in {"HALTED", "STOPPED"},
         sessions' = [sessions EXCEPT ![session].status = end]
  PROVE  Account!Close
<1> DEFINE n == Len(sessions)
           account == [sessions[session] EXCEPT !.status = end]
<1>1. /\ session = n /\ session \in DOMAIN sessions /\ sessions[session] \in SessionType
      /\ sessions[session].status \in {"RUNNING", "HALTED"}
  BY HeldRows DEF LotInv, SingleRunning, IdInv
<1>2. /\ n \in Nat /\ DOMAIN sessions = 1 .. n
      /\ StatusOf \in [1 .. n -> {"RUNNING", "STOPPED", "HALTED"}]
      /\ Len(StatusOf) = n
      /\ StatusOf # <<>>
  BY <1>1, AccountShaped DEF AccountShape, LotInv
<1>3. /\ account \in SessionType /\ account.status = end
      /\ account.rows = sessions[session].rows
      /\ sessions' = [sessions EXCEPT ![session] = account]
  BY <1>1 DEF SessionType
<1> HIDE DEF account, n
<1>4. /\ DOMAIN sessions' = 1 .. n
      /\ sessions'[n] = account
      /\ \A s \in 1 .. n : s # n => sessions'[s] = sessions[s]
  BY <1>1, <1>2, <1>3
<1>5. StatusOf' = [StatusOf EXCEPT ![n] = end]
  BY <1>1, <1>2, <1>3, <1>4 DEF StatusOf
<1>6. NetsOf' = NetsOf
  <2>1. \A s \in 1 .. n : sessions'[s].rows = sessions[s].rows
    BY <1>1, <1>3, <1>4
  <2> QED BY <1>2, <1>4, <2>1 DEF NetsOf
<1>7. FilledOf' = FilledOf
  BY <1>2, <1>4 DEF FilledOf, TradesOf
<1>8. StatusOf[n] # "STOPPED"
  BY <1>1, <1>2 DEF StatusOf
<1> QED BY <1>2, <1>5, <1>6, <1>7, <1>8 DEF Account!Close, Account!Newest

LEMMA CheckFlags ==
  ASSUME LotInv, CheckRisk
  PROVE  Account!Flag \/ UNCHANGED Account!vars
<1>1. UNCHANGED <<sessions, trades>> /\ proc # "down"
  BY DEF CheckRisk, At, database
<1>2. haltHash' = haltHash \/ haltHash' = haltHash \cup {session}
  BY DEF CheckRisk
<1>3. CASE haltHash' = haltHash
  BY <1>1, <1>3, AccountStutters
<1>4. CASE haltHash' = haltHash \cup {session}
  <2>1. session = Len(StatusOf) /\ StatusOf # <<>>
    BY <1>1, HeldRows, AccountShaped DEF AccountShape, LotInv, SingleRunning
  <2>2. StatusOf' = StatusOf /\ NetsOf' = NetsOf /\ FilledOf' = FilledOf
    BY <1>1 DEF StatusOf, NetsOf, FilledOf, TradesOf
  <2> QED BY <1>4, <2>1, <2>2 DEF Account!Flag, Account!Newest
<1> QED BY <1>2, <1>3, <1>4

LEMMA AccountStep ==
  ASSUME Reliable, LotInv, IdInv, OnceInv, HaltInv, PositionsAgree, [Next]_vars
  PROVE  [Account!Next]_Account!vars
<1>1. CASE Fill
  BY <1>1, FillIsTrade DEF Account!Next
<1>2. CASE CreateSession
  BY <1>2, CreateOpens DEF Account!Next
<1>3. CASE CheckRisk
  BY <1>3, CheckFlags DEF Account!Next
<1>4. CASE HaltSession \/ Shutdown
  <2>1. proc # "down" /\ UNCHANGED <<trades, haltHash>>
    BY <1>4 DEF HaltSession, Shutdown, At, redis
  <2>2. \/ sessions' = sessions
        \/ \E end \in {"HALTED", "STOPPED"} :
             sessions' = [sessions EXCEPT ![session].status = end]
    BY <1>4 DEF HaltSession, Shutdown
  <2> QED BY <2>1, <2>2, StatusCloses, AccountStutters DEF Account!Next
<1>5. CASE \/ SignalArrives \/ Resume \/ ReadPending \/ ReadNew \/ Decide \/ NoQuote
           \/ PublishOrder \/ Acknowledge \/ Terminate \/ Crash \/ UNCHANGED vars
  <2>1. UNCHANGED <<sessions, trades, haltHash>>
    BY <1>5 DEF SignalArrives, Resume, ReadPending, ReadNew, Decide, NoQuote, PublishOrder,
                Acknowledge, Terminate, Crash, vars, redis, database
  <2> QED BY <2>1, AccountStutters
<1> QED BY <1>1, <1>2, <1>3, <1>4, <1>5 DEF Next, Startup, Consumer, HandleMessage

(* Where no session handles a filled signal again and the halt flag can be *)
(* read, the sessions in the database and the halt flags in Redis change   *)
(* as PaperAccount allows: in each session a signal trades one lot at most *)
(* once; only the newest session trades, within one lot and not after a    *)
(* halt; whatever else fails, stops or is read twice. A stop between fill  *)
(* and acknowledgement leaves the signal to the next session, in which it  *)
(* may trade again (execution/consumer/consumer.go, handleMessage, ack;    *)
(* the trade row is unique in its session only).                           *)
THEOREM ServiceImplementsAccount ==
  ASSUME Reliable
  PROVE  Spec => AccountSpec
<1>1. "unknown" \notin Faults /\ "probe" \notin Faults /\ HandledOnce
  BY DEF Reliable, HandledOnce
<1>2. Init => IdInv /\ OnceInv /\ HaltInv /\ PositionsAgree
  BY BoundsAssumption, HaltInit DEF Init, Gone, IdInv, OnceInv, PositionsAgree
<1>3. /\ LotInv /\ IdInv /\ [Next]_vars => IdInv'
      /\ LotInv /\ IdInv /\ OnceInv /\ [Next]_vars => OnceInv'
      /\ LotInv /\ HaltInv /\ [Next]_vars => HaltInv'
      /\ LotInv /\ PositionsAgree /\ [Next]_vars => PositionsAgree'
  BY <1>1, IdStep, OnceStep, HaltStep, AgreeStep
<1>4. LotInv /\ IdInv /\ OnceInv /\ HaltInv /\ PositionsAgree /\ [Next]_vars
        => [Account!Next]_Account!vars
  BY AccountStep
<1> QED BY <1>2, <1>3, <1>4, AccountInit, LotAlways, PTL DEF Spec, AccountSpec, Account!Spec

-------------------------------------------------------------------------------
(* The ledgers: what the trades of a session add up to.                    *)

TradeType ==
  [session : Nat, signal : Nat, symbol : Symbols, side : Sides, price : Int,
   qty : {TradeQty}, fee : Int, pnl : Int]

TradesInv == trades \in SUBSET TradeType /\ IsFiniteSet(trades)

(* What a trade counts for in each ledger.                                 *)
Lots == [t \in TradeType |-> Signed(t.side, t.qty)]

Flows == [t \in TradeType |-> CashFlow(t)]

Profits == [t \in TradeType |-> t.pnl]

Gains == [t \in TradeType |-> t.pnl - t.fee]

SumOver(w, S) == SumFunction([t \in S |-> w[t]])

LEMMA WeightTypes ==
  /\ Lots \in [TradeType -> Int] /\ Flows \in [TradeType -> Int]
  /\ Profits \in [TradeType -> Int] /\ Gains \in [TradeType -> Int]
<1>1. ASSUME NEW t \in TradeType
      PROVE  /\ Signed(t.side, t.qty) \in Int /\ CashFlow(t) \in Int
             /\ t.pnl \in Int /\ t.pnl - t.fee \in Int
  <2>1. t.qty \in Int /\ t.price \in Int /\ t.pnl \in Int /\ t.fee \in Int
    BY TradeQtyAssumption DEF TradeType
  <2>2. t.qty * t.price \in Int
    BY <2>1
  <2> QED BY <2>1, <2>2 DEF Signed, CashFlow
<1> QED BY <1>1 DEF Lots, Flows, Profits, Gains

LEMMA SumsOver ==
  ASSUME NEW w \in [TradeType -> Int], NEW S \in SUBSET TradeType, IsFiniteSet(S)
  PROVE  /\ SumOver(w, S) \in Int /\ SumOver(w, {}) = 0
         /\ \A x \in TradeType \ S : SumOver(w, S \cup {x}) = SumOver(w, S) + w[x]
<1> DEFINE f == [t \in S |-> w[t]]
<1>1. f \in [S -> Int]
  OBVIOUS
<1>2. SumOver(w, S) \in Int
  <2> HIDE DEF f
  <2>1. SumFunction(f) \in Int
    BY <1>1, SumType
  <2> QED BY <2>1 DEF SumOver, f
<1>3. SumOver(w, {}) = 0
  <2> DEFINE g == [t \in {} |-> w[t]]
  <2>1. DOMAIN g = {}
    OBVIOUS
  <2> HIDE DEF g
  <2>2. SumFunction(g) = 0
    BY <2>1, SumOfNone
  <2> QED BY <2>2 DEF SumOver, g
<1>4. ASSUME NEW x \in TradeType \ S
      PROVE  SumOver(w, S \cup {x}) = SumOver(w, S) + w[x]
  <2> DEFINE E == S \cup {x}
             g == [t \in E |-> w[t]]
  <2>1. x \notin S /\ E = S \cup {x} /\ g[x] = w[x]
    OBVIOUS
  <2>2. g \in [E -> Int]
    OBVIOUS
  <2>3. \A t \in S : f[t] = g[t]
    OBVIOUS
  <2>4. SumOver(w, S \cup {x}) = SumFunction(g) /\ SumOver(w, S) = SumFunction(f)
    BY DEF SumOver
  <2> HIDE DEF f, g, E
  <2>5. SumFunction(g) = SumFunction(f) + g[x]
    <3>1. ASSUME NEW D, IsFiniteSet(D), f \in [D -> Int], x \notin D, E = D \cup {x},
                 g \in [E -> Int], \A t \in D : f[t] = g[t]
          PROVE  SumFunction(g) = SumFunction(f) + g[x]
      BY ONLY <3>1, SumExtended
    <3> QED BY <1>1, <2>1, <2>2, <2>3, <3>1
  <2> QED BY <2>1, <2>4, <2>5
<1> QED BY <1>2, <1>3, <1>4

LEMMA TradesFinite ==
  ASSUME TradesInv, NEW s, NEW symbol
  PROVE  /\ TradesOf(s) \in SUBSET TradeType /\ IsFiniteSet(TradesOf(s))
         /\ TradesIn(s, symbol) \in SUBSET TradeType /\ IsFiniteSet(TradesIn(s, symbol))
BY FS_Subset DEF TradesInv, TradesOf, TradesIn

(* The properties in terms of the ledgers.                                 *)
LEMMA LedgersAre ==
  ASSUME NEW S \in SUBSET TradeType
  PROVE  /\ SumFunction([t \in S |-> Signed(t.side, t.qty)]) = SumOver(Lots, S)
         /\ SumFunction([t \in S |-> t.pnl]) = SumOver(Profits, S)
         /\ SumFunction([t \in S |-> CashFlow(t)]) = SumOver(Flows, S)
         /\ SumFunction([t \in S |-> t.pnl - t.fee]) = SumOver(Gains, S)
<1>1. /\ [t \in S |-> Signed(t.side, t.qty)] = [t \in S |-> Lots[t]]
      /\ [t \in S |-> t.pnl] = [t \in S |-> Profits[t]]
      /\ [t \in S |-> CashFlow(t)] = [t \in S |-> Flows[t]]
      /\ [t \in S |-> t.pnl - t.fee] = [t \in S |-> Gains[t]]
  BY DEF Lots, Profits, Flows, Gains
<1> QED BY <1>1 DEF SumOver

(* What a fill earns is the cash it brings in, and what it changes in the  *)
(* value of the position at its average entry.                             *)
LEMMA FillEarns ==
  ASSUME NEW pos \in LotPosition, NEW fill, fill.side \in Sides, fill.qty = TradeQty,
         fill.price \in Int, Decision({fill.side}, pos.net) = fill.side
  PROVE  LET after == ApplyFill(pos, fill)
         IN  RealisedPnL(pos, fill)
               = -Signed(fill.side, fill.qty * fill.price) + after.net * after.avg - pos.net * pos.avg
<1> DEFINE after == ApplyFill(pos, fill)
           p == fill.price
           a == pos.avg
           q == TradeQty
<1>1. q \in Int /\ q > 0 /\ p \in Int /\ a \in Int /\ pos.net \in {-q, 0, q}
  BY TradeQtyAssumption DEF LotPosition
<1>2. q * p \in Int /\ q * a \in Int /\ (-q) * a = -(q * a) /\ (-q) * p = -(q * p)
      /\ (p - a) * q = q * p - q * a /\ (a - p) * q = q * a - q * p
      /\ 0 * a = 0 /\ 0 * p = 0 /\ 0 * 0 = 0
  BY <1>1
<1>3. fill.qty * fill.price = q * p
  OBVIOUS
<1>4. CASE fill.side = "buy" /\ pos.net = 0
  <2>1. after.net = q /\ after.avg = p /\ RealisedPnL(pos, fill) = 0
    BY <1>1, <1>4 DEF ApplyFill, Extends, Extend, Signed, RealisedPnL
  <2> QED BY <1>1, <1>2, <1>3, <1>4, <2>1 DEF Signed
<1>5. CASE fill.side = "buy" /\ pos.net = -q
  <2>1. after.net = 0 /\ after.avg = 0 /\ RealisedPnL(pos, fill) = (a - p) * q
    BY <1>1, <1>5 DEF ApplyFill, Extends, Reduce, Signed, RealisedPnL
  <2> QED BY <1>1, <1>2, <1>3, <1>5, <2>1 DEF Signed
<1>6. CASE fill.side = "sell" /\ pos.net = 0
  <2>1. after.net = -q /\ after.avg = p /\ RealisedPnL(pos, fill) = 0
    BY <1>1, <1>6 DEF ApplyFill, Extends, Extend, Signed, RealisedPnL
  <2> QED BY <1>1, <1>2, <1>3, <1>6, <2>1 DEF Signed
<1>7. CASE fill.side = "sell" /\ pos.net = q
  <2>1. after.net = 0 /\ after.avg = 0 /\ RealisedPnL(pos, fill) = (p - a) * q
    BY <1>1, <1>7 DEF ApplyFill, Extends, Reduce, Signed, RealisedPnL
  <2> QED BY <1>1, <1>2, <1>3, <1>7, <2>1 DEF Signed
<1>8. /\ fill.side = "buy" => pos.net \in {-q, 0}
      /\ fill.side = "sell" => pos.net \in {q, 0}
  BY <1>1 DEF Decision
<1> QED BY <1>4, <1>5, <1>6, <1>7, <1>8 DEF Sides

(* A trade that was not there is one more in the ledgers of its session    *)
(* and symbol, and in no other.                                            *)
LEMMA LedgerGrows ==
  ASSUME TradesInv, NEW trade \in TradeType, trade \notin trades, trades' = trades \cup {trade},
         NEW w \in [TradeType -> Int], NEW s, NEW symbol
  PROVE  /\ SumOver(w, TradesOf(s)') =
              SumOver(w, TradesOf(s)) + (IF trade.session = s THEN w[trade] ELSE 0)
         /\ SumOver(w, TradesIn(s, symbol)') =
              SumOver(w, TradesIn(s, symbol))
                + (IF trade.session = s /\ trade.symbol = symbol THEN w[trade] ELSE 0)
<1> DEFINE Of == TradesOf(s)
           In == TradesIn(s, symbol)
<1>1. /\ Of \in SUBSET TradeType /\ IsFiniteSet(Of)
      /\ In \in SUBSET TradeType /\ IsFiniteSet(In)
  BY TradesFinite
<1>2. /\ TradesOf(s)' = IF trade.session = s THEN Of \cup {trade} ELSE Of
      /\ TradesIn(s, symbol)' = IF trade.session = s /\ trade.symbol = symbol
                                THEN In \cup {trade} ELSE In
      /\ trade \notin Of /\ trade \notin In
  BY DEF TradesOf, TradesIn
<1> HIDE DEF Of, In
<1>3. /\ SumOver(w, Of) \in Int /\ SumOver(w, Of \cup {trade}) = SumOver(w, Of) + w[trade]
      /\ SumOver(w, In) \in Int /\ SumOver(w, In \cup {trade}) = SumOver(w, In) + w[trade]
  BY <1>1, <1>2, SumsOver
<1> QED BY <1>2, <1>3 DEF Of, In

(* What is booked in memory and stored, all or nothing, by a fill whose    *)
(* transaction answers.                                                    *)
Books(trade, after) ==
  /\ proc = "up"
  /\ trade.session = session /\ trade.signal = Current /\ trade.symbol = Signal.symbol
  /\ after.net = Position(trade.symbol).net + Lots[trade]
  /\ Profits[trade] = Flows[trade] + after.net * after.avg
                        - Position(trade.symbol).net * Position(trade.symbol).avg
  /\ trades' = InsertTrade(trade)
  /\ blotter' = [positions |-> Upsert(blotter.positions, trade.symbol, after),
                 equity |-> blotter.equity + Gains[trade]]
  /\ sessions' = [sessions EXCEPT ![session] =
                    [sessions[session] EXCEPT
                       !.rows = Upsert(@, trade.symbol, after),
                       !.points = @ \cup {[time |-> Signal.time, equity |-> blotter'.equity]}]]
  /\ step' = "publish" /\ batch' = batch

LEMMA FillBooks ==
  ASSUME "unknown" \notin Faults, LotInv, Fill
  PROVE  \/ /\ UNCHANGED <<sessions, trades>> /\ blotter'.equity = blotter.equity
            /\ proc = "up" => "db" \in Faults
         \/ \E trade \in TradeType, after \in LotPosition : Books(trade, after)
<1>1. At("fill")
  BY DEF Fill
<1>2. /\ SideNow \in Sides /\ Signal \in SignalType /\ Current \in Ids
      /\ Current \in Nat /\ session \in Nat
  <2>1. SideNow \in Sides /\ Signal \in SignalType /\ Current \in Ids
    BY <1>1, CurrentInBatch DEF LotInv, IntentInv, At
  <2>2. Current \in Nat
    BY <2>1, LenProperties DEF Ids, LotInv, StreamInv
  <2>3. session \in Nat
    BY <1>1, HeldRows, LenProperties DEF At, LotInv, StoreInv
  <2> QED BY <2>1, <2>2, <2>3
<1>3. Signal.symbol \in Symbols
  BY <1>2 DEF SignalType
<1>4. PICK quote \in Quotes, failed \in {{}, {"db"}, {"unknown"}} :
        Suffering(failed) /\ FillAt(quote, failed)
  BY DEF Fill
<1>5. failed # {"unknown"} /\ (proc = "up" /\ ~Succeeded(failed) => "db" \in Faults)
  BY <1>4 DEF Suffering, Succeeded
<1> DEFINE fill == FillOf(quote)
           before == Position(Signal.symbol)
           after == ApplyFill(before, fill)
           fee == Fee(TradeQty, fill.price)
           pnl == RealisedPnL(before, fill)
           equity == blotter.equity + pnl - fee
           trade == [session |-> session, signal |-> Current,
                     symbol |-> Signal.symbol, side |-> fill.side, price |-> fill.price,
                     qty |-> TradeQty, fee |-> fee, pnl |-> pnl]
<1>6. /\ fill.price \in Int /\ fee \in Int /\ fill.side = SideNow /\ fill.qty = TradeQty
      /\ fill = [side |-> SideNow, price |-> fill.price, qty |-> TradeQty]
  BY <1>2, PriceType DEF FillOf
<1>7. blotter.positions \in LotRows /\ blotter.equity \in Int
  BY DEF LotInv, MemoryInv
<1>8. before \in LotPosition
  BY <1>3, <1>7, RowType DEF Position
<1>9. SideNow = Decision(Signal.wants, before.net)
  BY DEF SideNow
<1>10. /\ after \in LotPosition
       /\ after.net = before.net + Signed(SideNow, TradeQty)
       /\ pnl \in Int
  <2> HIDE DEF fill, before
  <2> QED BY <1>2, <1>6, <1>8, <1>9, FillKeepsLot
<1>11. pnl = -Signed(SideNow, TradeQty * fill.price) + after.net * after.avg - before.net * before.avg
  <2>1. Decision({fill.side}, before.net) = fill.side
    BY <1>2, <1>6, <1>9 DEF Decision, Sides
  <2> HIDE DEF fill, before
  <2> QED BY <1>2, <1>6, <1>8, <2>1, FillEarns
<1>12. CASE Succeeded(failed)
  <2>1. /\ StoreFill(trade, after, equity)
        /\ blotter' = [positions |-> Upsert(blotter.positions, Signal.symbol, after), equity |-> equity]
        /\ step' = "publish" /\ batch' = batch /\ proc = "up"
    BY <1>4, <1>12 DEF FillAt, Proceed, Succeeded
  <2>2. /\ trade.session = session /\ trade.signal = Current /\ trade.symbol = Signal.symbol
        /\ trade.side = SideNow /\ trade.price = fill.price /\ trade.qty = TradeQty
        /\ trade.fee = fee /\ trade.pnl = pnl
    BY <1>6
  <2>3. trade \in TradeType
    <3> HIDE DEF fill, before, after, fee, pnl
    <3> QED BY <1>2, <1>3, <1>6, <1>10 DEF TradeType
  <2> HIDE DEF fill, before, after, fee, pnl, equity, trade
  <2>4. /\ Lots[trade] = Signed(SideNow, TradeQty)
        /\ Flows[trade] = -Signed(SideNow, TradeQty * fill.price)
        /\ Profits[trade] = pnl /\ Gains[trade] = pnl - fee
    BY <2>2, <2>3 DEF Lots, Flows, Profits, Gains, CashFlow
  <2>5. equity = blotter.equity + Gains[trade]
    BY <1>6, <1>7, <1>10, <2>4 DEF equity
  <2>6. Position(trade.symbol) = before
    BY <2>2 DEF before
  <2>7. Books(trade, after)
    BY <1>10, <1>11, <2>1, <2>2, <2>4, <2>5, <2>6 DEF Books, StoreFill
  <2> QED BY <1>10, <2>3, <2>7
<1>13. CASE ~Succeeded(failed)
  <2>1. UNCHANGED database /\ blotter'.equity = blotter.equity
    BY <1>4, <1>5, <1>13 DEF FillAt
  <2> QED BY <1>5, <1>13, <2>1 DEF database
<1> QED BY <1>12, <1>13

(* The account that a fill leaves.                                         *)
LEMMA BooksStored ==
  ASSUME LotInv, IdInv, OnceInv, At("fill"),
         NEW trade \in TradeType, NEW after \in LotPosition, Books(trade, after)
  PROVE  /\ trade \notin trades /\ trades' = trades \cup {trade}
         /\ session \in DOMAIN sessions /\ DOMAIN sessions' = DOMAIN sessions
         /\ \A s \in DOMAIN sessions : s # session => sessions'[s] = sessions[s]
         /\ sessions'[session].rows = Upsert(sessions[session].rows, trade.symbol, after)
         /\ sessions'[session].points =
              sessions[session].points \cup {[time |-> Signal.time, equity |-> blotter'.equity]}
         /\ \A other : Row(sessions'[session].rows, other) =
              IF other = trade.symbol THEN after ELSE Row(sessions[session].rows, other)
<1>1. /\ session \in DOMAIN sessions /\ sessions[session] \in SessionType
      /\ sessions[session].rows \in LotRows
  BY HeldRows DEF At
<1>2. Current \in pending
  BY CurrentInBatch DEF At, LotInv, IdInv
<1>3. ~\E t \in trades : t.session = trade.session /\ t.signal = trade.signal
  BY <1>2 DEF Books, OnceInv, At
<1>4. trade \notin trades /\ trades' = trades \cup {trade}
  BY <1>3 DEF Books, InsertTrade
<1>5. /\ DOMAIN sessions' = DOMAIN sessions
      /\ \A s \in DOMAIN sessions : s # session => sessions'[s] = sessions[s]
      /\ sessions'[session].rows = Upsert(sessions[session].rows, trade.symbol, after)
      /\ sessions'[session].points =
           sessions[session].points \cup {[time |-> Signal.time, equity |-> blotter'.equity]}
  BY <1>1 DEF Books, SessionType
<1>6. \A other : Row(sessions'[session].rows, other) =
              IF other = trade.symbol THEN after ELSE Row(sessions[session].rows, other)
  BY <1>1, <1>5, RowOfUpsert
<1> QED BY <1>1, <1>4, <1>5, <1>6

(* Other steps leave what is stored of the sessions alone, but for their   *)
(* statuses; a new session has neither positions nor trades.               *)
LEMMA StoreFrame ==
  ASSUME LotInv, [Next]_vars, ~Fill, ~CreateSession
  PROVE  /\ trades' = trades /\ DOMAIN sessions' = DOMAIN sessions
         /\ \A s \in DOMAIN sessions :
              sessions'[s].rows = sessions[s].rows /\ sessions'[s].points = sessions[s].points
<1>1. CASE HaltSession \/ Shutdown
  <2>1. proc # "down" /\ trades' = trades
    BY <1>1 DEF HaltSession, Shutdown, At
  <2>2. \/ sessions' = sessions
        \/ \E end \in {"HALTED", "STOPPED"} :
             sessions' = [sessions EXCEPT ![session].status = end]
    BY <1>1 DEF HaltSession, Shutdown
  <2> QED BY <2>1, <2>2, HeldRows DEF SessionType
<1>2. CASE ~HaltSession /\ ~Shutdown
  <2>1. UNCHANGED <<sessions, trades>>
    BY <1>2 DEF Next, Startup, Consumer, HandleMessage, SignalArrives, Resume, ReadPending,
                ReadNew, Decide, CheckRisk, NoQuote, PublishOrder, Acknowledge, Terminate, Crash,
                vars, database
  <2> QED BY <2>1
<1> QED BY <1>1, <1>2

LEMMA CreateFrame ==
  ASSUME LotInv, IdInv, CreateSession
  PROVE  /\ trades' = trades
         /\ session' \notin DOMAIN sessions /\ DOMAIN sessions' = DOMAIN sessions \cup {session'}
         /\ \A s \in DOMAIN sessions : sessions'[s] = sessions[s]
         /\ sessions'[session'].rows = NoRows /\ sessions'[session'].points = {}
         /\ \A other : Row(sessions'[session'].rows, other) = FlatPosition
         /\ \A t \in trades : t.session # session'
<1> DEFINE new == [status |-> "RUNNING", rows |-> NoRows, points |-> {}]
<1>1. /\ sessions \in Seq(SessionType) /\ sessions' = Append(sessions, new)
      /\ session' = Len(sessions) + 1 /\ trades' = trades
  BY DEF CreateSession, Launch, LotInv, StoreInv
<1>2. /\ session' \notin DOMAIN sessions /\ DOMAIN sessions' = DOMAIN sessions \cup {session'}
      /\ \A s \in DOMAIN sessions : sessions'[s] = sessions[s]
      /\ sessions'[session'] = new
  BY <1>1, LenProperties
<1>3. \A t \in trades : t.session # session'
  BY <1>2 DEF IdInv
<1> QED BY <1>1, <1>2, <1>3 DEF Row, NoRows

LEMMA TradesStep ==
  ASSUME "unknown" \notin Faults, LotInv, TradesInv, [Next]_vars
  PROVE  TradesInv'
<1>1. CASE Fill
  <2>1. \/ trades' = trades
        \/ \E trade \in TradeType : trades' = trades \/ trades' = trades \cup {trade}
    <3>1. \/ trades' = trades
          \/ \E trade \in TradeType : trades' = InsertTrade(trade)
      <4>1. \A trade, after : Books(trade, after) => trades' = InsertTrade(trade)
        BY Zenon DEF Books
      <4> QED BY <1>1, <4>1, FillBooks
    <3>2. \A trade : InsertTrade(trade) = trades \/ InsertTrade(trade) = trades \cup {trade}
      BY DEF InsertTrade
    <3> QED BY <3>1, <3>2
  <2> QED BY <2>1, FS_AddElement DEF TradesInv
<1>2. CASE CreateSession
  BY <1>2 DEF CreateSession, TradesInv
<1>3. CASE ~Fill /\ ~CreateSession
  BY <1>3, StoreFrame DEF TradesInv
<1> QED BY <1>1, <1>2, <1>3

(* What the database holds of a session and symbol after a step: the       *)
(* ledgers and the row of the symbol that a fill trades, and no other,     *)
(* change.                                                                 *)
LEMMA FillLedger ==
  ASSUME LotInv, IdInv, OnceInv, TradesInv, At("fill"),
         NEW trade \in TradeType, NEW after \in LotPosition, Books(trade, after),
         NEW w \in [TradeType -> Int], NEW s \in DOMAIN sessions', NEW symbol
  PROVE  /\ SumOver(w, TradesIn(s, symbol)') =
              SumOver(w, TradesIn(s, symbol))
                + (IF s = session /\ symbol = trade.symbol THEN w[trade] ELSE 0)
         /\ Row(sessions'[s].rows, symbol) =
              IF s = session /\ symbol = trade.symbol THEN after ELSE Row(sessions[s].rows, symbol)
         /\ s \in DOMAIN sessions
         /\ TradesIn(s, symbol)' \in SUBSET TradeType
<1>1. trade \notin trades /\ trades' = trades \cup {trade} /\ trade.session = session
  <2>1. trade.session = session
    BY Zenon DEF Books
  <2> QED BY <2>1, BooksStored
<1>2. /\ s \in DOMAIN sessions
      /\ Row(sessions'[s].rows, symbol) =
           IF s = session /\ symbol = trade.symbol THEN after ELSE Row(sessions[s].rows, symbol)
  BY BooksStored
<1>3. TradesIn(s, symbol)' \in SUBSET TradeType
  BY <1>1 DEF TradesIn, TradesOf, TradesInv
<1> QED BY <1>1, <1>2, <1>3, LedgerGrows

(* In other steps each session keeps what it had, or has just been created *)
(* and has nothing.                                                        *)
LEMMA OtherLedger ==
  ASSUME LotInv, IdInv, TradesInv, [Next]_vars, ~Fill, NEW s \in DOMAIN sessions', NEW symbol
  PROVE  /\ TradesIn(s, symbol)' \in SUBSET TradeType
         /\ \/ /\ s \in DOMAIN sessions
               /\ TradesIn(s, symbol)' = TradesIn(s, symbol)
               /\ Row(sessions'[s].rows, symbol) = Row(sessions[s].rows, symbol)
            \/ /\ TradesIn(s, symbol)' = {}
               /\ Row(sessions'[s].rows, symbol) = FlatPosition
<1>1. TradesIn(s, symbol) \in SUBSET TradeType
  BY TradesFinite
<1>2. CASE CreateSession
  <2>1. CASE s = session'
    <3>1. /\ trades' = trades /\ \A t \in trades : t.session # s
          /\ Row(sessions'[s].rows, symbol) = FlatPosition
      BY <1>2, <2>1, CreateFrame
    <3>2. TradesIn(s, symbol)' = {}
      BY <3>1 DEF TradesIn, TradesOf
    <3> QED BY <3>1, <3>2
  <2>2. CASE s # session'
    <3>1. trades' = trades /\ s \in DOMAIN sessions /\ sessions'[s] = sessions[s]
      BY <1>2, <2>2, CreateFrame
    <3> QED BY <1>1, <3>1 DEF TradesIn, TradesOf
  <2> QED BY <2>1, <2>2
<1>3. CASE ~CreateSession
  <2>1. trades' = trades /\ s \in DOMAIN sessions /\ sessions'[s].rows = sessions[s].rows
    BY <1>3, StoreFrame
  <2> QED BY <1>1, <2>1 DEF TradesIn, TradesOf
<1> QED BY <1>2, <1>3

LEMMA ConsistentStep ==
  ASSUME HandledOnce, LotInv, IdInv, OnceInv, PositionsAgree, TradesInv, LedgerConsistent,
         [Next]_vars
  PROVE  LedgerConsistent'
<1>1. "unknown" \notin Faults /\ Lots \in [TradeType -> Int]
  BY WeightTypes DEF HandledOnce
<1> SUFFICES ASSUME NEW s \in DOMAIN sessions', NEW symbol \in Symbols
             PROVE  Row(sessions'[s].rows, symbol).net =
                      SumFunction([t \in TradesIn(s, symbol)' |-> Signed(t.side, t.qty)])
  BY DEF LedgerConsistent
<1> DEFINE Old == TradesIn(s, symbol)
           New == TradesIn(s, symbol)'
<1>2. s \in DOMAIN sessions => Row(sessions[s].rows, symbol).net = SumOver(Lots, Old)
  BY TradesFinite, LedgersAre DEF LedgerConsistent
<1>3. CASE ~Fill
  <2>1. /\ New \in SUBSET TradeType
        /\ \/ s \in DOMAIN sessions /\ New = Old
              /\ Row(sessions'[s].rows, symbol) = Row(sessions[s].rows, symbol)
           \/ New = {} /\ Row(sessions'[s].rows, symbol) = FlatPosition
    BY <1>3, OtherLedger
  <2>2. SumOver(Lots, {}) = 0 /\ FlatPosition.net = 0
    BY <1>1, SumsOver, FS_EmptySet DEF FlatPosition
  <2>3. SumFunction([t \in New |-> Signed(t.side, t.qty)]) = SumOver(Lots, New)
    BY <2>1, LedgersAre
  <2> HIDE DEF Old, New
  <2> QED BY <1>2, <2>1, <2>2, <2>3 DEF New
<1>4. CASE Fill
  <2>1. CASE UNCHANGED <<sessions, trades>>
    <3>1. New = Old /\ s \in DOMAIN sessions /\ Old \in SUBSET TradeType
      BY <2>1, TradesFinite DEF TradesIn, TradesOf
    <3>2. SumFunction([t \in New |-> Signed(t.side, t.qty)]) = SumOver(Lots, New)
      BY <3>1, LedgersAre
    <3> HIDE DEF Old, New
    <3> QED BY <1>2, <2>1, <3>1, <3>2 DEF New
  <2>2. ASSUME NEW trade \in TradeType, NEW after \in LotPosition, Books(trade, after)
        PROVE  Row(sessions'[s].rows, symbol).net =
                 SumFunction([t \in TradesIn(s, symbol)' |-> Signed(t.side, t.qty)])
    <3>1. At("fill") /\ proc # "down"
      BY <1>4 DEF Fill, At
    <3>2. /\ SumOver(Lots, New) = SumOver(Lots, Old)
                + (IF s = session /\ symbol = trade.symbol THEN Lots[trade] ELSE 0)
          /\ Row(sessions'[s].rows, symbol) =
               IF s = session /\ symbol = trade.symbol THEN after
               ELSE Row(sessions[s].rows, symbol)
          /\ s \in DOMAIN sessions
          /\ New \in SUBSET TradeType
      BY <1>1, <2>2, <3>1, FillLedger
    <3>3. symbol = trade.symbol =>
            after.net = Row(sessions[session].rows, symbol).net + Lots[trade]
      BY <2>2, <3>1 DEF Books, PositionsAgree
    <3>4. SumFunction([t \in New |-> Signed(t.side, t.qty)]) = SumOver(Lots, New)
      BY <3>2, LedgersAre
    <3>5. SumOver(Lots, Old) \in Int
      BY <1>1, TradesFinite, SumsOver
    <3> HIDE DEF Old, New
    <3> QED BY <1>2, <3>2, <3>3, <3>4, <3>5 DEF New
  <2> QED BY <1>1, <1>4, <2>1, <2>2, FillBooks
<1> QED BY <1>3, <1>4

(* As long as commits answer and no filled signal is handled again, a      *)
(* session's positions are the sum of its trades, whatever transactions    *)
(* fail: the upserts of one transaction agree with the trade it inserts,   *)
(* which is never one that is ignored.                                     *)
THEOREM LedgerConsistentHolds ==
  ASSUME HandledOnce
  PROVE  Spec => []LedgerConsistent
<1>1. "unknown" \notin Faults
  BY DEF HandledOnce
<1>2. Init => IdInv /\ OnceInv /\ PositionsAgree /\ TradesInv /\ LedgerConsistent
  BY BoundsAssumption, FS_EmptySet
     DEF Init, Gone, IdInv, OnceInv, PositionsAgree, TradesInv, LedgerConsistent
<1>3. /\ LotInv /\ IdInv /\ [Next]_vars => IdInv'
      /\ LotInv /\ IdInv /\ OnceInv /\ [Next]_vars => OnceInv'
      /\ LotInv /\ PositionsAgree /\ [Next]_vars => PositionsAgree'
      /\ LotInv /\ TradesInv /\ [Next]_vars => TradesInv'
  BY <1>1, IdStep, OnceStep, AgreeStep, TradesStep
<1>4. LotInv /\ IdInv /\ OnceInv /\ PositionsAgree /\ TradesInv /\ LedgerConsistent
        /\ [Next]_vars => LedgerConsistent'
  BY ConsistentStep
<1> QED BY <1>2, <1>3, <1>4, LotAlways, PTL DEF Spec

(* As long as transactions succeed while the consumer runs, memory and     *)
(* database agree on average entries too. A fill that fails after SIGTERM  *)
(* leaves them apart in a process that will fill no more.                  *)
RowsAgree ==
  proc = "up" =>
    \A symbol \in Symbols : Position(symbol) = Row(sessions[session].rows, symbol)

LEMMA RowsStep ==
  ASSUME HandledOnce, "db" \notin Faults, LotInv, IdInv, OnceInv, RowsAgree, [Next]_vars
  PROVE  RowsAgree'
<1>1. CASE Fill
  <2> SUFFICES ASSUME proc = "up", NEW symbol \in Symbols
               PROVE  Position(symbol)' = Row(sessions'[session].rows, symbol)
    BY <1>1 DEF Fill, RowsAgree
  <2>1. PICK trade \in TradeType, after \in LotPosition : Books(trade, after)
    BY <1>1, FillBooks DEF HandledOnce
  <2>2. At("fill") /\ blotter.positions \in LotRows
    BY <1>1, HeldRows DEF Fill, At
  <2>3. Row(sessions'[session].rows, symbol) =
          IF symbol = trade.symbol THEN after ELSE Row(sessions[session].rows, symbol)
    BY <2>1, <2>2, BooksStored
  <2>4. blotter'.positions = Upsert(blotter.positions, trade.symbol, after)
    BY <2>1 DEF Books
  <2>5. Position(symbol)' = IF symbol = trade.symbol THEN after ELSE Position(symbol)
    BY <2>2, <2>4, RowOfUpsert DEF Position
  <2> QED BY <2>3, <2>5 DEF RowsAgree
<1>2. CASE Resume
  <2>1. PICK equity : Launch(Max(Running), sessions[Max(Running)].rows, equity)
    BY <1>2 DEF Resume
  <2>2. sessions' = sessions
    BY <1>2 DEF Resume, database
  <2> QED BY <2>1, <2>2 DEF Launch, RowsAgree, Position
<1>3. CASE CreateSession
  <2>1. blotter'.positions = NoRows
    BY <1>3 DEF CreateSession, Launch
  <2>2. \A symbol : Row(sessions'[session'].rows, symbol) = FlatPosition
    BY <1>3, CreateFrame
  <2> QED BY <2>1, <2>2 DEF RowsAgree, Position, Row, NoRows
<1>4. CASE HaltSession
  <2>1. UNCHANGED <<proc, session, blotter>> /\ proc # "down"
    BY <1>4 DEF HaltSession, At, memory
  <2>2. sessions'[session].rows = sessions[session].rows
    BY <1>4, <2>1, HeldRows, StoreFrame DEF HaltSession, CreateSession, Fill, At
  <2> QED BY <2>1, <2>2 DEF RowsAgree, Position
<1>5. CASE Terminate \/ Shutdown \/ Crash
  BY <1>5 DEF Terminate, Shutdown, Crash, Exit, RowsAgree
<1>6. CASE \/ SignalArrives \/ ReadPending \/ ReadNew \/ Decide \/ CheckRisk \/ NoQuote
           \/ PublishOrder \/ Acknowledge \/ UNCHANGED vars
  <2>1. UNCHANGED <<sessions, session, blotter, proc>>
    BY <1>6 DEF SignalArrives, ReadPending, ReadNew, Decide, CheckRisk, NoQuote, PublishOrder,
                Acknowledge, vars, database, memory
  <2> QED BY <2>1 DEF RowsAgree, Position
<1> QED BY <1>1, <1>2, <1>3, <1>4, <1>5, <1>6
        DEF Next, Startup, Consumer, HandleMessage

(* The property, in terms of the ledgers.                                  *)
ProfitLedger ==
  \A s \in DOMAIN sessions, symbol \in Symbols :
    SumOver(Profits, TradesIn(s, symbol)) =
      SumOver(Flows, TradesIn(s, symbol))
        + Row(sessions[s].rows, symbol).net * Row(sessions[s].rows, symbol).avg

LEMMA ProfitLedgerIs ==
  ASSUME TradesInv
  PROVE  ProfitLedger <=> ProfitIsCashFlow
BY TradesFinite, LedgersAre DEF ProfitLedger, ProfitIsCashFlow

LEMMA ProfitStep ==
  ASSUME HandledOnce, LotInv, IdInv, OnceInv, RowsAgree, TradesInv, ProfitLedger, [Next]_vars
  PROVE  ProfitLedger'
<1>1. "unknown" \notin Faults /\ Profits \in [TradeType -> Int] /\ Flows \in [TradeType -> Int]
  BY WeightTypes DEF HandledOnce
<1> SUFFICES ASSUME NEW s \in DOMAIN sessions', NEW symbol \in Symbols
             PROVE  SumOver(Profits, TradesIn(s, symbol)') =
                      SumOver(Flows, TradesIn(s, symbol)')
                        + Row(sessions'[s].rows, symbol).net * Row(sessions'[s].rows, symbol).avg
  BY DEF ProfitLedger
<1> DEFINE Old == TradesIn(s, symbol)
           New == TradesIn(s, symbol)'
           held == Row(sessions[s].rows, symbol)
           left == Row(sessions'[s].rows, symbol)
<1>2. s \in DOMAIN sessions =>
        SumOver(Profits, Old) = SumOver(Flows, Old) + held.net * held.avg
  BY DEF ProfitLedger
<1>3. SumOver(Profits, Old) \in Int /\ SumOver(Flows, Old) \in Int
  BY <1>1, TradesFinite, SumsOver
<1>4. CASE ~Fill
  <2>1. /\ New \in SUBSET TradeType
        /\ \/ s \in DOMAIN sessions /\ New = Old /\ left = held
           \/ New = {} /\ left = FlatPosition
    BY <1>4, OtherLedger
  <2>2. /\ SumOver(Profits, {}) = 0 /\ SumOver(Flows, {}) = 0
        /\ FlatPosition.net = 0 /\ FlatPosition.avg = 0
    BY <1>1, SumsOver, FS_EmptySet DEF FlatPosition
  <2> HIDE DEF Old, New, held, left
  <2>3. SumOver(Profits, New) = SumOver(Flows, New) + left.net * left.avg
    BY <1>2, <2>1, <2>2
  <2> QED BY <2>3 DEF New, left
<1>5. CASE Fill
  <2>1. CASE UNCHANGED <<sessions, trades>>
    <3>1. New = Old /\ s \in DOMAIN sessions /\ Old \in SUBSET TradeType /\ left = held
      BY <2>1, TradesFinite DEF TradesIn, TradesOf
    <3> HIDE DEF Old, New, held, left
    <3> QED BY <1>2, <3>1 DEF New, left
  <2>2. ASSUME NEW trade \in TradeType, NEW after \in LotPosition, Books(trade, after)
        PROVE  SumOver(Profits, New) = SumOver(Flows, New) + left.net * left.avg
    <3> DEFINE before == Position(trade.symbol)
    <3>1. At("fill") /\ proc # "down"
      BY <1>5 DEF Fill, At
    <3>2. /\ SumOver(Profits, New) = SumOver(Profits, Old)
                + (IF s = session /\ symbol = trade.symbol THEN Profits[trade] ELSE 0)
          /\ SumOver(Flows, New) = SumOver(Flows, Old)
                + (IF s = session /\ symbol = trade.symbol THEN Flows[trade] ELSE 0)
          /\ left = IF s = session /\ symbol = trade.symbol THEN after ELSE held
          /\ s \in DOMAIN sessions
          /\ New \in SUBSET TradeType
      BY <1>1, <2>2, <3>1, FillLedger
    <3>3. s = session /\ symbol = trade.symbol => before = held
      BY <2>2 DEF Books, RowsAgree
    <3>4. Profits[trade] = Flows[trade] + after.net * after.avg - before.net * before.avg
      BY <2>2 DEF Books
    <3>5. Profits[trade] \in Int /\ Flows[trade] \in Int
      BY <1>1
    <3>6. /\ after.net * after.avg \in Int
          /\ before.net * before.avg \in Int
      <4>1. before \in LotPosition
        BY <2>2, <3>1, HeldRows, RowType DEF Position, TradeType
      <4>2. \A pos \in LotPosition : pos.net * pos.avg \in Int
        BY TradeQtyAssumption DEF LotPosition
      <4> HIDE DEF before
      <4> QED BY <4>1, <4>2
    <3> HIDE DEF Old, New, held, left, before
    <3>7. SumOver(Profits, New) = SumOver(Flows, New) + left.net * left.avg
      <4>1. CASE s = session /\ symbol = trade.symbol
        <5> DEFINE a == after.net * after.avg
                   b == before.net * before.avg
        <5>1. SumOver(Profits, Old) = SumOver(Flows, Old) + b /\ left = after
          BY <1>2, <3>2, <3>3, <4>1
        <5>2. Profits[trade] = Flows[trade] + a - b /\ a \in Int /\ b \in Int
          BY <3>4, <3>6
        <5>3. SumOver(Profits, New) = SumOver(Flows, New) + a
          <6> HIDE DEF a, b
          <6> QED BY <1>3, <3>2, <3>5, <4>1, <5>1, <5>2
        <5> QED BY <5>1, <5>3
      <4>2. CASE ~(s = session /\ symbol = trade.symbol)
        <5>1. /\ SumOver(Profits, New) = SumOver(Profits, Old)
              /\ SumOver(Flows, New) = SumOver(Flows, Old) /\ left = held
          BY <1>3, <3>2, <4>2
        <5> QED BY <1>2, <3>2, <5>1
      <4> QED BY <4>1, <4>2
    <3> QED BY <3>7 DEF New, left
  <2> QED BY <1>1, <1>5, <2>1, <2>2, FillBooks
<1> QED BY <1>4, <1>5

(* As long as transactions succeed and no filled signal is handled again,  *)
(* the realised profit of a session's trades is the cash they brought in,  *)
(* the open position counted at its average entry.                         *)
THEOREM ProfitIsCashFlowHolds ==
  ASSUME HandledOnce, "db" \notin Faults
  PROVE  Spec => []ProfitIsCashFlow
<1>1. "unknown" \notin Faults
  BY DEF HandledOnce
<1>2. Init => IdInv /\ OnceInv /\ RowsAgree /\ TradesInv /\ ProfitLedger
  BY BoundsAssumption, FS_EmptySet
     DEF Init, Gone, IdInv, OnceInv, RowsAgree, TradesInv, ProfitLedger
<1>3. /\ LotInv /\ IdInv /\ [Next]_vars => IdInv'
      /\ LotInv /\ IdInv /\ OnceInv /\ [Next]_vars => OnceInv'
      /\ LotInv /\ IdInv /\ OnceInv /\ RowsAgree /\ [Next]_vars => RowsAgree'
      /\ LotInv /\ TradesInv /\ [Next]_vars => TradesInv'
  BY <1>1, IdStep, OnceStep, RowsStep, TradesStep
<1>4. LotInv /\ IdInv /\ OnceInv /\ RowsAgree /\ TradesInv /\ ProfitLedger
        /\ [Next]_vars => ProfitLedger'
  BY ProfitStep
<1>5. TradesInv /\ ProfitLedger => ProfitIsCashFlow
  BY ProfitLedgerIs
<1> QED BY <1>2, <1>3, <1>4, <1>5, LotAlways, PTL DEF Spec

-------------------------------------------------------------------------------
(* The equity. What a restarted process takes for it is the stored point   *)
(* with the greatest event time, which is the one of the last fill as long *)
(* as signals are filled in the order of their event times.                *)

LEMMA OldestBounded ==
  ASSUME NEW n \in Nat, NEW S \in SUBSET (1 .. n)
  PROVE  /\ Oldest(S) \subseteq S
         /\ IsFiniteSet(Oldest(S)) /\ Cardinality(Oldest(S)) =< BatchSize
         /\ Cardinality(S) =< BatchSize => Oldest(S) = S
<1> DEFINE T == Oldest(S)
           Before(i) == {j \in S : j < i}
<1>1. /\ T \subseteq S /\ IsFiniteSet(S) /\ Cardinality(S) \in Nat
      /\ IsFiniteSet(T) /\ Cardinality(T) \in Nat
  <2>1. IsFiniteSet(S)
    <3>1. IsFiniteSet(1 .. n)
      BY FS_Interval
    <3> QED BY <3>1, FS_Subset
  <2>2. T \subseteq S
    BY DEF Oldest
  <2> HIDE DEF T
  <2> QED BY <2>1, <2>2, FS_Subset, FS_CardinalityType
<1>2. \A i \in S : i \in T <=> Cardinality(Before(i)) < BatchSize
  BY DEF Oldest
<1>3. \A i : IsFiniteSet(Before(i)) /\ Cardinality(Before(i)) \in Nat
  <2> SUFFICES ASSUME NEW i PROVE IsFiniteSet(Before(i)) /\ Cardinality(Before(i)) \in Nat
    OBVIOUS
  <2>1. Before(i) \in SUBSET S
    OBVIOUS
  <2> HIDE DEF Before
  <2> QED BY <1>1, <2>1, FS_Subset, FS_CardinalityType
<1>4. Cardinality(T) =< BatchSize
  <2>1. CASE T = {}
    BY <2>1, FS_EmptySet, BatchAssumption
  <2>2. CASE T # {}
    <3> HIDE DEF T
    <3>1. T \in SUBSET (0 .. n)
      BY <1>1
    <3>2. PICK m \in T : \A k \in T : m >= k
      BY <2>2, <3>1, GreatestElement
    <3>3. Cardinality(T \ {m}) = Cardinality(T) - 1
      BY <1>1, FS_RemoveElement
    <3>4. T \ {m} \in SUBSET Before(m)
      BY <1>1, <3>1, <3>2
    <3>5. Cardinality(Before(m)) < BatchSize
      BY <1>1, <1>2
    <3> HIDE DEF Before
    <3>6. Cardinality(T \ {m}) =< Cardinality(Before(m))
      BY <1>3, <3>4, FS_Subset
    <3> QED BY <1>1, <1>3, <3>3, <3>5, <3>6, BatchAssumption
  <2> QED BY <2>1, <2>2
<1>5. ASSUME Cardinality(S) =< BatchSize PROVE T = S
  <2> SUFFICES ASSUME NEW i \in S PROVE i \in T
    BY <1>1
  <2>1. Before(i) \in SUBSET S /\ Before(i) # S
    OBVIOUS
  <2> HIDE DEF Before
  <2>2. Cardinality(Before(i)) =< Cardinality(S) /\ Cardinality(Before(i)) # Cardinality(S)
    BY <1>1, <2>1, FS_Subset
  <2> QED BY <1>1, <1>2, <1>3, <1>5, <2>2, BatchAssumption
<1> QED BY <1>1, <1>4, <1>5

(* Event times are the order of arrival. A process that runs handles all   *)
(* pending signals, oldest first, before it reads new ones; so what the    *)
(* newest session has traded is older than what is pending.                *)
SequenceInv ==
  /\ \A i \in Ids : stream[i].time = i
  /\ IsFiniteSet(pending) /\ Cardinality(pending) =< BatchSize
  /\ proc = "up" => batch = pending \/ (batch = {} /\ draining)
  /\ \A t \in TradesOf(Len(sessions)), i \in pending : t.signal =< i

(* No fill fails in a running process, no read is lost, and signals arrive *)
(* in the order of their event times.                                      *)
InSequence == HandledOnce /\ {"db", "read"} \cap Faults = {} /\ ~SkewedTimes

LEMMA SameNewest ==
  ASSUME LotInv, LotInv', DOMAIN sessions' = DOMAIN sessions
  PROVE  Len(sessions') = Len(sessions)
<1>1. /\ Len(sessions) \in Nat /\ DOMAIN sessions = 1 .. Len(sessions)
      /\ Len(sessions') \in Nat /\ DOMAIN sessions' = 1 .. Len(sessions')
  BY LenProperties DEF LotInv, StoreInv
<1> QED BY <1>1

(* The signal being handled is the oldest of the batch.                    *)
LEMMA CurrentIsOldest ==
  ASSUME StreamInv, batch # {}
  PROVE  Current \in batch /\ \A i \in batch : Current =< i
<1>1. Ids \subseteq Nat
  BY LenProperties DEF Ids, StreamInv
<1>2. PICK m \in batch : \A k \in batch : m <= k
  BY <1>1, LeastElement DEF StreamInv
<1> QED BY <1>2 DEF Current, Min

LEMMA SequenceStep ==
  ASSUME InSequence, LotInv, LotInv', IdInv, OnceInv, SequenceInv, [Next]_vars
  PROVE  SequenceInv'
<1> DEFINE n == Len(sessions)
<1>1. CASE SignalArrives
  <2>1. UNCHANGED <<pending, batch, draining, proc, sessions, trades>>
    BY <1>1 DEF SignalArrives, database, loop
  <2>2. \A i \in Ids' : stream'[i].time = i
    <3>1. PICK symbol, wants : \E time \in TimesFor(symbol) :
            stream' = Append(stream, [symbol |-> symbol, wants |-> wants, time |-> time])
      BY <1>1 DEF SignalArrives
    <3>2. /\ stream' = Append(stream, [symbol |-> symbol, wants |-> wants, time |-> Len(stream) + 1])
          /\ stream \in Seq(SignalType)
      BY <3>1 DEF TimesFor, InSequence, LotInv, StreamInv
    <3>3. /\ Len(stream) \in Nat
          /\ Len(stream') = Len(stream) + 1
          /\ stream'[Len(stream) + 1].time = Len(stream) + 1
          /\ \A i \in 1 .. Len(stream) : stream'[i] = stream[i]
      BY <3>2, LenProperties
    <3> QED BY <3>3 DEF Ids, SequenceInv
  <2> QED BY <2>1, <2>2 DEF SequenceInv, TradesOf
<1>2. CASE Resume
  <2>1. /\ UNCHANGED <<stream, pending, sessions, trades>>
        /\ batch' = {} /\ draining' = TRUE
    BY <1>2 DEF Resume, Launch, redis, database
  <2> QED BY <2>1 DEF SequenceInv, TradesOf, Ids
<1>3. CASE CreateSession
  <2>1. UNCHANGED <<stream, pending>> /\ batch' = {} /\ draining' = TRUE /\ proc' = "up"
    BY <1>3 DEF CreateSession, Launch, redis
  <2>2. Len(sessions') = session'
    BY <2>1 DEF LotInv, SingleRunning
  <2>3. \A t \in trades' : t.session # session'
    BY <1>3, CreateFrame
  <2>4. TradesOf(Len(sessions))' = {}
    BY <2>2, <2>3 DEF TradesOf
  <2> QED BY <2>1, <2>4 DEF SequenceInv, Ids
<1>4. CASE ReadPending
  <2>1. /\ UNCHANGED <<stream, pending, sessions, trades, proc>> /\ batch' = Oldest(pending)
    BY <1>4 DEF ReadPending, Suffering, InSequence, redis, database
  <2>2. Oldest(pending) = pending
    BY OldestBounded DEF SequenceInv, IdInv
  <2> QED BY <2>1, <2>2 DEF SequenceInv, TradesOf, Ids
<1>5. CASE ReadNew
  <2> DEFINE fresh == {i \in Ids : i > delivered}
             read == Oldest(fresh)
  <2>1. /\ UNCHANGED <<stream, sessions, trades, proc>> /\ proc = "up" /\ batch = {} /\ ~draining
        /\ batch' = read /\ pending' = pending \cup read
    BY <1>5 DEF ReadNew, Reading, Suffering, InSequence, database
  <2>2. pending = {}
    BY <2>1 DEF SequenceInv
  <2>3. fresh \in SUBSET (1 .. Len(stream)) /\ Len(stream) \in Nat
    BY LenProperties DEF Ids, LotInv, StreamInv
  <2>4. read \subseteq fresh /\ IsFiniteSet(read) /\ Cardinality(read) =< BatchSize
    <3> HIDE DEF fresh
    <3> QED BY <2>3, OldestBounded
  <2>5. \A i \in read, t \in trades : t.signal =< i
    BY <2>3, <2>4 DEF IdInv
  <2> HIDE DEF read
  <2>6. pending' = read /\ batch' = read
    BY <2>1, <2>2
  <2> QED BY <2>1, <2>4, <2>5, <2>6 DEF SequenceInv, TradesOf, Ids
<1>6. CASE Fill
  <2>1. UNCHANGED <<stream, pending, proc, session>> /\ At("fill") /\ proc # "down"
    BY <1>6 DEF Fill, At, redis
  <2>2. CASE UNCHANGED <<sessions, trades>> /\ (proc = "up" => "db" \in Faults)
    BY <2>1, <2>2 DEF SequenceInv, InSequence, TradesOf, Ids
  <2>3. ASSUME NEW trade \in TradeType, NEW after \in LotPosition, Books(trade, after)
        PROVE  SequenceInv'
    <3>1. /\ proc = "up" /\ batch' = batch /\ batch # {}
          /\ trade.signal = Current
      BY <2>1, <2>3 DEF Books, At
    <3>2. trades' = trades \cup {trade} /\ DOMAIN sessions' = DOMAIN sessions
      BY <2>1, <2>3, BooksStored
    <3>3. Len(sessions') = Len(sessions)
      BY <3>2, SameNewest
    <3>4. \A i \in pending : Current =< i
      BY <3>1, CurrentIsOldest DEF SequenceInv, LotInv
    <3>5. draining' = draining
      BY <1>6 DEF Fill
    <3> QED BY <2>1, <3>1, <3>2, <3>3, <3>4, <3>5 DEF SequenceInv, TradesOf, Ids
  <2> QED BY <1>6, <2>2, <2>3, FillBooks DEF InSequence, HandledOnce
<1>7. CASE Acknowledge
  <2>1. /\ UNCHANGED <<stream, sessions, trades, proc, draining>>
        /\ batch # {} /\ batch' = batch \ {Current}
        /\ pending' \in SUBSET pending
        /\ proc = "up" => pending' = pending \ {Current}
    BY <1>7 DEF Acknowledge, At, ConsumerCall, Succeeded, Suffering, InSequence, HandledOnce,
                database, memory, loop
  <2>2. IsFiniteSet(pending') /\ Cardinality(pending') =< Cardinality(pending)
        /\ Cardinality(pending) \in Nat /\ Cardinality(pending') \in Nat
    BY <2>1, FS_Subset, FS_CardinalityType DEF SequenceInv
  <2>3. Cardinality(pending') =< BatchSize
    BY <2>2, BatchAssumption DEF SequenceInv
  <2> QED BY <2>1, <2>2, <2>3 DEF SequenceInv, TradesOf, Ids
<1>8. CASE Terminate \/ Shutdown \/ Crash
  <2>1. /\ UNCHANGED <<stream, pending, trades>> /\ proc' # "up" /\ DOMAIN sessions' = DOMAIN sessions
    BY <1>8 DEF Terminate, Shutdown, Crash, Exit, redis, database
  <2> QED BY <2>1, SameNewest DEF SequenceInv, TradesOf, Ids
<1>9. CASE HaltSession
  <2>1. /\ UNCHANGED <<stream, pending, trades, proc, batch, draining>>
        /\ DOMAIN sessions' = DOMAIN sessions
    BY <1>9 DEF HaltSession, redis
  <2> QED BY <2>1, SameNewest DEF SequenceInv, TradesOf, Ids
<1>10. CASE Decide \/ CheckRisk \/ NoQuote \/ PublishOrder \/ UNCHANGED vars
  <2>1. UNCHANGED <<stream, pending, trades, sessions, proc, batch, draining>>
    BY <1>10 DEF Decide, CheckRisk, NoQuote, PublishOrder, vars, redis, database, loop
  <2> QED BY <2>1 DEF SequenceInv, TradesOf, Ids
<1> QED BY <1>1, <1>2, <1>3, <1>4, <1>5, <1>6, <1>7, <1>8, <1>9, <1>10
        DEF Next, Startup, Consumer, HandleMessage

(* What the trades of a session leave of the initial capital.              *)
Ledger(s) == InitialCapital + SumOver(Gains, TradesOf(s))

PointsOf(s) == sessions[s].points

(* The latest equity point of the newest session is its ledger, and so is  *)
(* the equity in memory.                                                   *)
EquityInv ==
  /\ \A s \in DOMAIN sessions : s = Len(sessions) =>
       /\ PointsOf(s) = {} => TradesOf(s) = {}
       /\ \A p \in PointsOf(s) : \E t \in TradesOf(s) : t.signal = p.time
       /\ \A p \in PointsOf(s) :
            (\A q \in PointsOf(s) : q.time =< p.time) => p.equity = Ledger(s)
  /\ proc # "down" => blotter.equity = Ledger(session)

(* A stored equity of zero is taken for none by main.                      *)
NoZeroPoint == \A s \in DOMAIN sessions : \A p \in PointsOf(s) : p.equity # 0

(* A resumed session starts from its ledger.                               *)
LEMMA ResumeEquity ==
  ASSUME LotInv, LotInv', TradesInv, EquityInv, NoZeroPoint, Resume
  PROVE  EquityInv'
<1> DEFINE n == Len(sessions)
<1>1. PICK equity \in LatestEquity(sessions[Max(Running)].points) :
        Launch(Max(Running), sessions[Max(Running)].rows,
               IF equity = 0 THEN InitialCapital ELSE equity)
  BY DEF Resume
<1>2. /\ UNCHANGED <<sessions, trades>> /\ session' = Max(Running)
      /\ blotter'.equity = IF equity = 0 THEN InitialCapital ELSE equity
      /\ proc' # "down"
  BY <1>1 DEF Resume, Launch, database
<1>3. session' = n /\ n \in DOMAIN sessions
  BY <1>2 DEF LotInv, MemoryInv, SingleRunning
<1>4. equity \in LatestEquity(PointsOf(n))
  BY <1>1, <1>2, <1>3 DEF PointsOf
<1>5. (IF equity = 0 THEN InitialCapital ELSE equity) = Ledger(n)
  <2>1. CASE PointsOf(n) = {}
    <3>1. TradesOf(n) = {} /\ equity = 0
      BY <1>3, <1>4, <2>1 DEF EquityInv, LatestEquity
    <3>2. SumOver(Gains, {}) = 0
      BY SumsOver, WeightTypes, FS_EmptySet
    <3> QED BY <3>1, <3>2, CapitalAssumption DEF Ledger
  <2>2. CASE PointsOf(n) # {}
    <3>1. PICK p \in PointsOf(n) : equity = p.equity /\ \A q \in PointsOf(n) : q.time =< p.time
      BY <1>4, <2>2 DEF LatestEquity
    <3> QED BY <1>3, <3>1 DEF EquityInv, NoZeroPoint
  <2> QED BY <2>1, <2>2
<1>6. blotter'.equity = Ledger(session')
  BY <1>2, <1>3, <1>5
<1>7. \A s : TradesOf(s)' = TradesOf(s) /\ Ledger(s)' = Ledger(s) /\ PointsOf(s)' = PointsOf(s)
  BY <1>2 DEF TradesOf, Ledger, PointsOf
<1>8. blotter'.equity = Ledger(session)'
  BY <1>2, <1>6 DEF Ledger, TradesOf
<1> QED BY <1>2, <1>7, <1>8 DEF EquityInv

(* A fill is later than all before in its session: its point is the latest.*)
LEMMA FillEquity ==
  ASSUME InSequence, LotInv, LotInv', IdInv, OnceInv, TradesInv, SequenceInv, EquityInv, Fill
  PROVE  EquityInv'
<1> DEFINE n == Len(sessions)
<1>1. At("fill") /\ proc # "down" /\ UNCHANGED <<proc, session>> /\ session = n
  BY DEF Fill, At, LotInv, SingleRunning
<1>2. CASE UNCHANGED <<sessions, trades>> /\ blotter'.equity = blotter.equity
  <2>1. \A s : TradesOf(s)' = TradesOf(s) /\ Ledger(s)' = Ledger(s) /\ PointsOf(s)' = PointsOf(s)
    BY <1>2 DEF TradesOf, Ledger, PointsOf
  <2>2. Ledger(session)' = Ledger(session)
    BY <1>1, <1>2 DEF TradesOf, Ledger
  <2> QED BY <1>1, <1>2, <2>1, <2>2 DEF EquityInv
<1>3. ASSUME NEW trade \in TradeType, NEW after \in LotPosition, Books(trade, after)
      PROVE  EquityInv'
  <2> DEFINE new == [time |-> Signal.time, equity |-> blotter'.equity]
  <2>1. /\ trades' = trades \cup {trade} /\ trade \notin trades
        /\ DOMAIN sessions' = DOMAIN sessions
        /\ PointsOf(n)' = PointsOf(n) \cup {new}
    <3>1. sessions'[n].points = PointsOf(n) \cup {new}
      BY <1>1, <1>3, BooksStored DEF PointsOf
    <3>2. Len(sessions') = n
      BY <1>1, <1>3, BooksStored, SameNewest
    <3> QED BY <1>1, <1>3, <3>1, <3>2, BooksStored DEF PointsOf
  <2>2. Len(sessions') = n
    BY <2>1, SameNewest
  <2>3. /\ trade.session = n /\ trade.signal = Current
        /\ blotter'.equity = blotter.equity + Gains[trade]
    BY <1>1, <1>3 DEF Books
  <2>4. Ledger(n)' = Ledger(n) + Gains[trade] /\ Ledger(n) = blotter.equity
    <3>1. Gains \in [TradeType -> Int] /\ Gains[trade] \in Int
      BY WeightTypes
    <3>2. SumOver(Gains, TradesOf(session)') = SumOver(Gains, TradesOf(session)) + Gains[trade]
      BY <1>1, <2>1, <2>3, <3>1, LedgerGrows
    <3>3. SumOver(Gains, TradesOf(session)) \in Int
      BY <3>1, TradesFinite, SumsOver
    <3>4. Ledger(n)' = InitialCapital + SumOver(Gains, TradesOf(session)')
      BY <1>1, <2>2 DEF Ledger, TradesOf
    <3> QED BY <1>1, <3>1, <3>2, <3>3, <3>4, CapitalAssumption DEF Ledger, EquityInv
  <2>5. Signal.time = Current /\ Current \in pending /\ Current \in Nat
    <3>1. Current \in batch /\ Current \in Ids
      BY <1>1, CurrentInBatch DEF At, LotInv
    <3>2. Current \in Nat
      BY <3>1, LenProperties DEF Ids, LotInv, StreamInv
    <3> QED BY <3>1, <3>2 DEF Signal, SequenceInv, IdInv
  <2>6. \A t \in TradesOf(n) : t.signal < Current
    <3>1. \A t \in TradesOf(n) : t.signal =< Current
      BY <2>5 DEF SequenceInv
    <3>2. \A t \in TradesOf(n) : t.signal # Current
      BY <1>1, <1>3, <2>5 DEF OnceInv, TradesOf, Books, At
    <3>3. \A t \in TradesOf(n) : t.signal \in Nat
      BY DEF TradesOf, TradesInv, TradeType
    <3> QED BY <2>5, <3>1, <3>2, <3>3
  <2>7. \A p \in PointsOf(n) : p.time < Current
    BY <1>1, <2>6, HeldRows DEF EquityInv
  <2>8. TradesOf(n)' = TradesOf(n) \cup {trade}
    BY <2>1, <2>2, <2>3 DEF TradesOf
  <2>9. new.time = Current /\ new.equity = Ledger(n)'
    BY <2>3, <2>4, <2>5
  <2>10. n \in DOMAIN sessions
    BY <1>1, HeldRows
  <2> HIDE DEF new
  <2>11. /\ PointsOf(n)' # {}
         /\ \A p \in PointsOf(n)' : \E t \in TradesOf(n)' : t.signal = p.time
         /\ \A p \in PointsOf(n)' :
              (\A q \in PointsOf(n)' : q.time =< p.time) => p.equity = Ledger(n)'
    <3>1. PointsOf(n)' = PointsOf(n) \cup {new}
      BY <2>1
    <3>2. \A p \in PointsOf(n) : \E t \in TradesOf(n)' : t.signal = p.time
      BY <2>8, <2>10 DEF EquityInv
    <3>3. trade \in TradesOf(n)' /\ trade.signal = new.time
      BY <2>3, <2>8, <2>9
    <3>4. \A p \in PointsOf(n) : ~(new.time =< p.time)
      <4>1. \A p \in PointsOf(n) : p.time \in Nat
        <5>1. \A t \in TradesOf(n) : t.signal \in Nat
          BY DEF TradesOf, TradesInv, TradeType
        <5> QED BY <2>10, <5>1 DEF EquityInv
      <4> QED BY <2>5, <2>7, <2>9, <4>1
    <3> QED BY <2>9, <3>1, <3>2, <3>3, <3>4
  <2>12. blotter'.equity = Ledger(session)'
    BY <1>1, <2>2, <2>3, <2>4 DEF Ledger, TradesOf
  <2>13. ASSUME NEW s \in DOMAIN sessions', s = Len(sessions')
         PROVE  /\ PointsOf(s)' = PointsOf(n)' /\ TradesOf(s)' = TradesOf(n)'
                /\ Ledger(s)' = Ledger(n)'
    BY <2>2, <2>13 DEF PointsOf, TradesOf, Ledger
  <2> QED BY <2>11, <2>12, <2>13 DEF EquityInv
<1> QED BY <1>2, <1>3, FillBooks DEF InSequence, HandledOnce

LEMMA EquityStep ==
  ASSUME InSequence, LotInv, LotInv', IdInv, OnceInv, TradesInv, SequenceInv, EquityInv,
         NoZeroPoint, [Next]_vars
  PROVE  EquityInv'
<1>1. CASE Fill
  BY <1>1, FillEquity
<1>2. CASE Resume
  BY <1>2, ResumeEquity
<1>3. CASE CreateSession
  <2>1. /\ session' = Len(sessions')
        /\ blotter'.equity = InitialCapital
        /\ sessions'[session'].points = {}
        /\ trades' = trades /\ \A t \in trades : t.session # session'
    BY <1>3, CreateFrame DEF CreateSession, Launch, LotInv, SingleRunning
  <2>2. SumOver(Gains, {}) = 0
    BY SumsOver, WeightTypes, FS_EmptySet
  <2>3. \A s : s = session' => PointsOf(s)' = {} /\ TradesOf(s)' = {}
    BY <2>1 DEF PointsOf, TradesOf
  <2>4. TradesOf(session)' = {}
    BY <2>1 DEF TradesOf
  <2>5. Ledger(session)' = InitialCapital
    BY <2>2, <2>4, CapitalAssumption DEF Ledger
  <2> QED BY <2>1, <2>3, <2>5 DEF EquityInv
<1>4. CASE ~Fill /\ ~Resume /\ ~CreateSession
  <2>1. /\ trades' = trades /\ DOMAIN sessions' = DOMAIN sessions
        /\ \A s \in DOMAIN sessions : PointsOf(s)' = PointsOf(s)
    BY <1>4, StoreFrame DEF PointsOf
  <2>2. Len(sessions') = Len(sessions)
    BY <2>1, SameNewest
  <2>3. proc' # "down" => proc # "down" /\ UNCHANGED <<session, blotter>>
    BY <1>4 DEF Next, Startup, Consumer, HandleMessage, SignalArrives, ReadPending, ReadNew, Decide,
                CheckRisk, HaltSession, NoQuote, PublishOrder, Acknowledge, Terminate, Shutdown,
                Crash, Exit, Reading, At, vars, memory
  <2>4. \A s : TradesOf(s)' = TradesOf(s) /\ Ledger(s)' = Ledger(s)
    BY <2>1 DEF TradesOf, Ledger
  <2>5. proc' # "down" => Ledger(session)' = Ledger(session)
    BY <2>1, <2>3 DEF TradesOf, Ledger
  <2> QED BY <2>1, <2>2, <2>3, <2>4, <2>5 DEF EquityInv
<1> QED BY <1>1, <1>2, <1>3, <1>4

(* Where signals are filled in the order of their event times (no fill     *)
(* fails in a running process, no read is lost, no filled signal is        *)
(* handled again) and no stored equity is zero, the equity in memory is    *)
(* the initial capital plus realised profit less fees of the session,      *)
(* restarts included.                                                      *)
THEOREM EquityIsLedgerHolds ==
  ASSUME InSequence
  PROVE  Spec /\ []NoZeroPoint => []EquityIsLedger
<1>1. HandledOnce /\ "unknown" \notin Faults
  BY DEF InSequence, HandledOnce
<1>2. Init => IdInv /\ OnceInv /\ TradesInv /\ SequenceInv /\ EquityInv
  <2> SUFFICES ASSUME Init PROVE IdInv /\ OnceInv /\ TradesInv /\ SequenceInv /\ EquityInv
    OBVIOUS
  <2>1. IdInv /\ OnceInv /\ TradesInv
    BY BoundsAssumption, FS_EmptySet DEF Init, Gone, IdInv, OnceInv, TradesInv
  <2>2. SequenceInv
    BY BatchAssumption, FS_EmptySet DEF Init, Gone, SequenceInv, TradesOf, Ids
  <2>3. EquityInv
    BY DEF Init, Gone, EquityInv
  <2> QED BY <2>1, <2>2, <2>3
<1>3. /\ LotInv /\ IdInv /\ [Next]_vars => IdInv'
      /\ LotInv /\ IdInv /\ OnceInv /\ [Next]_vars => OnceInv'
      /\ LotInv /\ TradesInv /\ [Next]_vars => TradesInv'
  BY <1>1, IdStep, OnceStep, TradesStep
<1>4. LotInv /\ LotInv' /\ IdInv /\ OnceInv /\ SequenceInv /\ [Next]_vars => SequenceInv'
  BY SequenceStep
<1>5. LotInv /\ LotInv' /\ IdInv /\ OnceInv /\ TradesInv /\ SequenceInv /\ EquityInv
        /\ NoZeroPoint /\ [Next]_vars => EquityInv'
  BY EquityStep
<1>6. TradesInv /\ EquityInv => EquityIsLedger
  <2> SUFFICES ASSUME TradesInv, EquityInv, proc # "down"
               PROVE  blotter.equity =
                        InitialCapital + SumFunction([t \in TradesOf(session) |-> t.pnl - t.fee])
    BY DEF EquityIsLedger
  <2>1. SumFunction([t \in TradesOf(session) |-> t.pnl - t.fee]) = SumOver(Gains, TradesOf(session))
    BY TradesFinite, LedgersAre
  <2> QED BY <2>1 DEF EquityInv, Ledger
<1> QED BY <1>2, <1>3, <1>4, <1>5, <1>6, LotAlways, PTL DEF Spec

-------------------------------------------------------------------------------
(* Types. *)

SignalInv ==
  /\ delivered =< Len(stream)
  /\ \A i \in Ids : stream[i].time \in 1 .. MaxSignals

(* What is stored is of sessions and signals that exist. *)
RecordInv ==
  /\ haltHash \subseteq DOMAIN sessions
  /\ orders \subseteq [session : DOMAIN sessions, signal : Ids]
  /\ trades \subseteq TradeType
  /\ \A s \in DOMAIN sessions : \A p \in sessions[s].points : p.time \in 1 .. MaxSignals

RiskType ==
  [positions : [Symbols -> Int], equity : Int, peak : Int, halted : BOOLEAN, probed : BOOLEAN]

ProcessInv ==
  /\ risk \in RiskType
  /\ quoted \subseteq Symbols
  /\ step \in {"decide", "check", "fill", "halt", "publish", "ack"}
  /\ draining \in BOOLEAN
  /\ faults \in 0 .. MaxFaults
  /\ proc = "down" => Gone

LEMMA SignalStep ==
  ASSUME LotInv, IdInv, SignalInv, [Next]_vars
  PROVE  SignalInv'
<1>1. Len(stream) \in Nat /\ MaxSignals \in Nat /\ delivered \in Nat
  BY LenProperties, BoundsAssumption DEF LotInv, StreamInv, IdInv
<1>2. CASE SignalArrives
  <2>1. PICK symbol \in Symbols, wants \in Wants :
          \E time \in TimesFor(symbol) :
            stream' = Append(stream, [symbol |-> symbol, wants |-> wants, time |-> time])
    BY <1>2 DEF SignalArrives
  <2>2. PICK time \in TimesFor(symbol) :
          stream' = Append(stream, [symbol |-> symbol, wants |-> wants, time |-> time])
    BY <2>1
  <2>3. /\ Len(stream') = Len(stream) + 1
        /\ \A i \in 1 .. Len(stream) : stream'[i] = stream[i]
        /\ stream'[Len(stream) + 1].time = time
    BY <2>2, AppendProperties DEF LotInv, StreamInv
  <2>4. time \in 1 .. MaxSignals
    BY <1>1, <1>2, <2>2 DEF TimesFor, SignalArrives
  <2>5. \A i \in 1 .. Len(stream) + 1 : i \in 1 .. Len(stream) \/ i = Len(stream) + 1
    BY <1>1
  <2>6. \A i \in Ids' : stream'[i].time \in 1 .. MaxSignals
    BY <2>3, <2>4, <2>5 DEF SignalInv, Ids
  <2>7. delivered' = delivered
    BY <1>2 DEF SignalArrives
  <2> QED BY <1>1, <2>3, <2>6, <2>7 DEF SignalInv
<1>3. CASE ReadNew
  <2> DEFINE fresh == Oldest({i \in Ids : i > delivered})
  <2>1. stream' = stream /\ delivered' = LastDelivered(fresh)
    BY <1>3 DEF ReadNew
  <2>2. fresh \in SUBSET {i \in Ids : i > delivered}
    BY DEF Oldest
  <2> HIDE DEF fresh
  <2>3. delivered' \in Nat /\ fresh \subseteq 1 .. delivered'
    BY <2>1, <2>2, FreshIds
  <2>4. delivered' =< Len(stream)
    <3>1. CASE fresh = {}
      BY <2>1, <3>1 DEF LastDelivered, SignalInv
    <3>2. CASE fresh # {}
      <4>1. fresh \in SUBSET (0 .. Len(stream))
        BY <2>2 DEF Ids
      <4>2. PICK m \in fresh : \A k \in fresh : m >= k
        BY <1>1, <3>2, <4>1, GreatestElement
      <4>3. Max(fresh) \in fresh
        BY <4>2 DEF Max
      <4>4. delivered' = Max(fresh)
        BY <2>1, <3>2 DEF LastDelivered
      <4>5. delivered' \in 0 .. Len(stream)
        BY <4>1, <4>3, <4>4
      <4> QED BY <1>1, <4>5
    <3> QED BY <3>1, <3>2
  <2> QED BY <2>1, <2>4 DEF SignalInv, Ids
<1>4. CASE ~SignalArrives /\ ~ReadNew
  <2>1. UNCHANGED <<stream, delivered>>
    BY <1>4 DEF Next, Startup, Resume, CreateSession, Consumer, ReadPending, HandleMessage, Decide,
                CheckRisk, HaltSession, NoQuote, Fill, PublishOrder, Acknowledge, Terminate,
                Shutdown, Crash, vars, redis
  <2> QED BY <2>1 DEF SignalInv, Ids
<1> QED BY <1>2, <1>3, <1>4

(* What a fill writes, whatever becomes of its transaction. *)
LEMMA FillWrites ==
  ASSUME LotInv, Fill
  PROVE  /\ DOMAIN sessions' = DOMAIN sessions /\ trades' \ trades \subseteq TradeType
         /\ \A s \in DOMAIN sessions : \A p \in sessions'[s].points :
              p \in sessions[s].points \/ p.time = Signal.time
         /\ step' \in {"publish", "decide"} /\ batch # {} /\ Signal.symbol \in Symbols
         /\ \/ risk' = risk
            \/ \E side \in Sides, price \in Int, fee \in Int :
                 risk' = RiskRecordFill(risk, Signal.symbol, side, TradeQty, price, fee)
<1>1. At("fill")
  BY DEF Fill
<1>2. SideNow \in Sides /\ Signal \in SignalType /\ Signal.symbol \in Symbols
  BY <1>1, CurrentInBatch DEF LotInv, IntentInv, At, SignalType
<1>3. Current \in Nat /\ session \in Nat /\ session \in DOMAIN sessions
      /\ sessions[session] \in SessionType
  <2>1. Current \in Ids /\ session \in DOMAIN sessions /\ sessions[session] \in SessionType
    BY <1>1, CurrentInBatch, HeldRows DEF LotInv, At
  <2> QED BY <2>1, LenProperties DEF Ids, LotInv, StreamInv, StoreInv
<1>4. PICK quote \in Quotes, failed \in {{}, {"db"}, {"unknown"}} : FillAt(quote, failed)
  BY DEF Fill
<1> DEFINE fill == FillOf(quote)
           before == Position(Signal.symbol)
           after == ApplyFill(before, fill)
           fee == Fee(TradeQty, fill.price)
           pnl == RealisedPnL(before, fill)
           equity == blotter.equity + pnl - fee
           trade == [session |-> session, signal |-> Current,
                     symbol |-> Signal.symbol, side |-> fill.side, price |-> fill.price,
                     qty |-> TradeQty, fee |-> fee, pnl |-> pnl]
           point == [time |-> Signal.time, equity |-> equity]
           account == [sessions[session] EXCEPT
                         !.rows = Upsert(@, trade.symbol, after), !.points = @ \cup {point}]
<1>5. /\ fill.price \in Int /\ fee \in Int /\ fill.side = SideNow
      /\ fill = [side |-> SideNow, price |-> fill.price, qty |-> TradeQty]
  BY <1>2, PriceType DEF FillOf
<1>6. pnl \in Int
  <2>1. before \in LotPosition /\ SideNow = Decision(Signal.wants, before.net)
    BY <1>2, RowType DEF Position, LotInv, MemoryInv, SideNow
  <2> HIDE DEF fill, before
  <2> QED BY <1>2, <1>5, <2>1, FillKeepsLot
<1>7. /\ \/ UNCHANGED database
         \/ /\ trades' = InsertTrade(trade)
            /\ sessions' = [sessions EXCEPT ![session] = account]
      /\ \/ risk' = risk
         \/ risk' = RiskRecordFill(risk, Signal.symbol, fill.side, TradeQty, fill.price, fee)
      /\ Proceed(Succeeded(failed))
  BY <1>4 DEF FillAt, StoreFill
<1>8. trade \in TradeType
  <2> HIDE DEF fill, fee, pnl
  <2> QED BY <1>2, <1>3, <1>5, <1>6 DEF TradeType
<1>9. account.points = sessions[session].points \cup {point} /\ point.time = Signal.time
  BY <1>3 DEF SessionType
<1> HIDE DEF fill, fee, pnl, trade, account, point
<1>10. trades' \ trades \subseteq TradeType
  BY <1>7, <1>8 DEF InsertTrade, database
<1>11. /\ DOMAIN sessions' = DOMAIN sessions
       /\ \A s \in DOMAIN sessions : \A p \in sessions'[s].points :
            p \in sessions[s].points \/ p.time = Signal.time
  BY <1>7, <1>9 DEF database
<1>12. step' \in {"publish", "decide"} /\ batch # {}
  BY <1>1, <1>7 DEF Proceed, At
<1> QED BY <1>2, <1>5, <1>7, <1>10, <1>11, <1>12

LEMMA RecordStep ==
  ASSUME LotInv, LotInv', SignalInv, RecordInv, [Next]_vars
  PROVE  RecordInv'
<1>1. Ids \subseteq Ids'
  <2>1. CASE SignalArrives
    <3>1. PICK signal : stream' = Append(stream, signal)
      BY <2>1 DEF SignalArrives
    <3> QED BY <3>1, LenProperties DEF Ids, LotInv, StreamInv
  <2>2. CASE ~SignalArrives
    <3>1. stream' = stream
      BY <2>2 DEF Next, Startup, Resume, CreateSession, Consumer, ReadPending, ReadNew,
                  HandleMessage, Decide, CheckRisk, HaltSession, NoQuote, Fill, PublishOrder,
                  Acknowledge, Terminate, Shutdown, Crash, vars, redis
    <3> QED BY <3>1 DEF Ids
  <2> QED BY <2>1, <2>2
<1>2. DOMAIN sessions \subseteq DOMAIN sessions'
  <2>1. CASE CreateSession
    <3>1. PICK new : sessions' = Append(sessions, new)
      BY <2>1 DEF CreateSession
    <3> QED BY <3>1, LenProperties DEF LotInv, StoreInv
  <2>2. CASE Fill
    BY <2>2, FillWrites
  <2>3. CASE ~CreateSession /\ ~Fill
    BY <2>3, StoreFrame
  <2> QED BY <2>1, <2>2, <2>3
<1>3. haltHash' \subseteq DOMAIN sessions'
  <2>1. CASE CheckRisk
    <3>1. haltHash' \subseteq haltHash \cup {session} /\ session \in DOMAIN sessions
      BY <2>1, HeldRows DEF CheckRisk, At
    <3> QED BY <1>2, <3>1 DEF RecordInv
  <2>2. CASE ~CheckRisk
    <3>1. haltHash' = haltHash
      BY <2>2 DEF Next, Startup, Resume, CreateSession, Consumer, ReadPending, ReadNew,
                  HandleMessage, Decide, HaltSession, NoQuote, Fill, PublishOrder, SignalArrives,
                  Acknowledge, Terminate, Shutdown, Crash, vars, redis
    <3> QED BY <1>2, <3>1 DEF RecordInv
  <2> QED BY <2>1, <2>2
<1>4. orders' \subseteq [session : DOMAIN sessions', signal : Ids']
  <2>1. orders \subseteq [session : DOMAIN sessions', signal : Ids']
    BY <1>1, <1>2 DEF RecordInv
  <2>2. CASE PublishOrder
    <3>1. /\ session \in DOMAIN sessions /\ Current \in Ids
          /\ orders' \subseteq orders \cup {[session |-> session, signal |-> Current]}
      BY <2>2, HeldRows, CurrentInBatch DEF PublishOrder, At, LotInv
    <3> QED BY <1>1, <1>2, <2>1, <3>1
  <2>3. CASE ~PublishOrder
    <3>1. orders' = orders
      BY <2>3 DEF Next, Startup, Resume, CreateSession, Consumer, ReadPending, ReadNew,
                  HandleMessage, Decide, CheckRisk, HaltSession, NoQuote, Fill, SignalArrives,
                  Acknowledge, Terminate, Shutdown, Crash, vars, redis
    <3> QED BY <2>1, <3>1
  <2> QED BY <2>2, <2>3
<1>5. CASE Fill
  <2>1. /\ DOMAIN sessions' = DOMAIN sessions /\ trades' \ trades \subseteq TradeType
        /\ \A s \in DOMAIN sessions : \A p \in sessions'[s].points :
             p \in sessions[s].points \/ p.time = Signal.time
        /\ Signal.time \in 1 .. MaxSignals
    <3>1. batch # {}
      BY <1>5 DEF Fill, At
    <3>2. Signal.time \in 1 .. MaxSignals
      BY <3>1, CurrentInBatch DEF LotInv, SignalInv, Signal
    <3> QED BY <1>5, <3>2, FillWrites
  <2> QED BY <1>3, <1>4, <2>1 DEF RecordInv
<1>6. CASE CreateSession
  <2> DEFINE new == [status |-> "RUNNING", rows |-> NoRows, points |-> {}]
  <2>1. /\ sessions \in Seq(SessionType) /\ sessions' = Append(sessions, new)
        /\ new.points = {} /\ trades' = trades
    BY <1>6 DEF CreateSession, LotInv, StoreInv
  <2> HIDE DEF new
  <2>2. \A s \in DOMAIN sessions' : \/ s \in DOMAIN sessions /\ sessions'[s] = sessions[s]
                                    \/ sessions'[s] = new
    BY <2>1, LenProperties
  <2> QED BY <1>3, <1>4, <2>1, <2>2 DEF RecordInv
<1>7. CASE ~Fill /\ ~CreateSession
  BY <1>3, <1>4, <1>7, StoreFrame DEF RecordInv
<1> QED BY <1>5, <1>6, <1>7

(* The checker of a process that starts, and after a fill. *)
LEMMA RiskTypes ==
  /\ NewChecker \in RiskType
  /\ \A rows \in LotRows : SeedRisk(rows) \in RiskType
  /\ \A r \in RiskType, symbol \in Symbols, side \in Sides, price \in Int, fee \in Int :
       RiskRecordFill(r, symbol, side, TradeQty, price, fee) \in RiskType
<1>1. NewChecker \in RiskType
  BY CapitalAssumption DEF NewChecker, RiskType
<1>2. ASSUME NEW rows \in LotRows PROVE SeedRisk(rows) \in RiskType
  <2> DEFINE value == [symbol \in DOMAIN rows |-> Magnitude(rows[symbol].net) * rows[symbol].avg]
             seeded == [symbol \in Symbols |-> Magnitude(Row(rows, symbol).net)]
  <2>1. ASSUME NEW pos \in LotPosition
        PROVE  Magnitude(pos.net) \in Int /\ Magnitude(pos.net) * pos.avg \in Int
    <3>1. pos.net \in Int /\ pos.avg \in Int
      BY TradeQtyAssumption DEF LotPosition
    <3> QED BY <3>1 DEF Magnitude
  <2>2. PICK S \in SUBSET Symbols : rows \in [S -> LotPosition]
    BY DEF LotRows
  <2>3. value \in [S -> Int]
    BY <2>1, <2>2
  <2>4. IsFiniteSet(S)
    BY <2>2, SymbolsAssumption, FS_Subset
  <2>5. SumFunction(value) \in Int
    <3> HIDE DEF value
    <3> QED BY <2>3, <2>4, SumType
  <2>6. seeded \in [Symbols -> Int]
    BY <2>1, RowType
  <2> DEFINE equity == InitialCapital - SumFunction(value)
  <2>7. SeedRisk(rows) = [NewChecker EXCEPT !.positions = seeded, !.equity = equity]
    BY DEF SeedRisk, NewChecker
  <2>8. equity \in Int
    BY <2>5, CapitalAssumption
  <2> HIDE DEF equity, seeded
  <2>9. [NewChecker EXCEPT !.positions = seeded, !.equity = equity] \in RiskType
    BY <1>1, <2>6, <2>8 DEF RiskType
  <2> QED BY <2>7, <2>9
<1>3. ASSUME NEW r \in RiskType, NEW symbol \in Symbols, NEW side \in Sides,
             NEW price \in Int, NEW fee \in Int
      PROVE  RiskRecordFill(r, symbol, side, TradeQty, price, fee) \in RiskType
  <2> DEFINE equity == r.equity - Signed(side, TradeQty * price) - fee
             held == [r.positions EXCEPT ![symbol] = r.positions[symbol] + Signed(side, TradeQty)]
             peak == IF equity > r.peak THEN equity ELSE r.peak
  <2>1. TradeQty \in Int /\ TradeQty * price \in Int /\ r.equity \in Int /\ r.peak \in Int
        /\ r.positions \in [Symbols -> Int]
    BY TradeQtyAssumption DEF RiskType
  <2>2. equity \in Int /\ held \in [Symbols -> Int]
    BY <2>1 DEF Signed
  <2>3. peak \in Int
    BY <2>1, <2>2
  <2>4. RiskRecordFill(r, symbol, side, TradeQty, price, fee)
          = [r EXCEPT !.positions = held, !.equity = equity, !.peak = peak]
    BY DEF RiskRecordFill
  <2> HIDE DEF equity, held, peak
  <2>5. [r EXCEPT !.positions = held, !.equity = equity, !.peak = peak] \in RiskType
    BY <1>3, <2>2, <2>3 DEF RiskType
  <2> QED BY <2>4, <2>5
<1> QED BY <1>1, <1>2, <1>3

(* An action's failed calls are at most two. *)
LEMMA FaultsBounded ==
  ASSUME faults \in 0 .. MaxFaults, NEW a, NEW b, NEW failed \in SUBSET {a, b}, Suffering(failed)
  PROVE  faults' \in 0 .. MaxFaults
<1>1. IsFiniteSet({a, b})
  <2>1. IsFiniteSet({a}) /\ {a, b} = {a} \cup {b}
    BY FS_Singleton
  <2> QED BY <2>1, FS_AddElement
<1>2. Cardinality(failed) \in Nat
  BY <1>1, FS_Subset, FS_CardinalityType
<1> QED BY <1>2, FaultsAssumption DEF Suffering

LEMMA FaultsStep ==
  ASSUME faults \in 0 .. MaxFaults, [Next]_vars
  PROVE  faults' \in 0 .. MaxFaults
<1>1. CASE UNCHANGED faults
  BY <1>1
<1>2. CASE ReadPending \/ ReadNew
  <2>1. PICK failed \in SUBSET {"read", "read"} : Suffering(failed)
    BY <1>2 DEF ReadPending, ReadNew
  <2> QED BY <2>1, FaultsBounded
<1>3. CASE CheckRisk
  <2>1. PICK failed \in SUBSET {"probe", "haltset"} : Suffering(failed)
    BY <1>3 DEF CheckRisk
  <2> QED BY <2>1, FaultsBounded
<1>4. CASE HaltSession \/ Shutdown
  <2>1. PICK failed \in SUBSET {"status", "status"} : Suffering(failed)
    BY <1>4 DEF HaltSession, Shutdown
  <2> QED BY <2>1, FaultsBounded
<1>5. CASE Fill
  <2>1. PICK failed \in SUBSET {"db", "unknown"} : Suffering(failed)
    BY <1>5 DEF Fill
  <2> QED BY <2>1, FaultsBounded
<1>6. CASE PublishOrder \/ Acknowledge
  <2>1. PICK failed \in SUBSET {"order", "ack"} : Suffering(failed)
    BY <1>6 DEF PublishOrder, Acknowledge
  <2> QED BY <2>1, FaultsBounded
<1>7. CASE Terminate \/ Crash
  <2>1. PICK failed \in SUBSET {"stop", "crash"} : Suffering(failed)
    BY <1>7 DEF Terminate, Crash
  <2> QED BY <2>1, FaultsBounded
<1> QED BY <1>1, <1>2, <1>3, <1>4, <1>5, <1>6, <1>7
        DEF Next, SignalArrives, Startup, Resume, CreateSession, Consumer, HandleMessage,
            Decide, NoQuote, vars

LEMMA ProcessStep ==
  ASSUME LotInv, LotInv', ProcessInv, [Next]_vars
  PROVE  ProcessInv'
<1>1. faults' \in 0 .. MaxFaults
  BY FaultsStep DEF ProcessInv
<1>2. ASSUME UNCHANGED <<risk, quoted, proc>>, proc # "down",
             step' \in {"decide", "check", "fill", "halt", "publish", "ack"}, draining' \in BOOLEAN
      PROVE  ProcessInv'
  BY <1>1, <1>2 DEF ProcessInv
<1>3. CASE UNCHANGED <<proc, memory, loop>>
  BY <1>1, <1>3 DEF ProcessInv, Gone, memory, loop
<1>4. CASE Startup
  <2>1. PICK rows \in LotRows : \E id, equity : Launch(id, rows, equity)
    <3>1. CASE Resume
      <4>1. PICK equity : Launch(Max(Running), sessions[Max(Running)].rows, equity)
        BY <3>1 DEF Resume
      <4>2. Max(Running) \in Running
        BY <3>1 DEF Resume, LotInv, SingleRunning, Running, Max
      <4>3. sessions[Max(Running)].rows \in LotRows
        BY <4>2, StoreTypes DEF Running, LotInv, SessionType
      <4> QED BY <4>1, <4>3
    <3>2. CASE CreateSession
      BY <3>2, NoRowsType DEF CreateSession
    <3> QED BY <1>4, <3>1, <3>2 DEF Startup
  <2>2. risk' \in RiskType
    BY <2>1, RiskTypes DEF Launch
  <2> QED BY <1>1, <2>1, <2>2 DEF Launch, ProcessInv
<1>5. CASE ReadPending \/ ReadNew
  <2>1. UNCHANGED <<proc, memory, step>> /\ proc = "up" /\ draining' \in BOOLEAN
    BY <1>5 DEF ReadPending, ReadNew, Reading
  <2> QED BY <1>2, <2>1 DEF ProcessInv, memory
<1>6. CASE Decide \/ HaltSession \/ NoQuote \/ PublishOrder \/ Acknowledge
  <2>1. /\ UNCHANGED <<proc, memory, draining>> /\ proc # "down"
        /\ step' \in {"ack", "check", "decide"}
    BY <1>6 DEF Decide, HaltSession, NoQuote, PublishOrder, Acknowledge, At
  <2> QED BY <1>2, <2>1 DEF ProcessInv, memory
<1>7. CASE CheckRisk
  <2>1. PICK failed \in SUBSET {"probe", "haltset"} :
          LET asked   == Probe(risk, session \in haltHash /\ "probe" \notin failed)
              verdict == Verdict(asked, Signal.symbol, SideNow, TradeQty)
          IN  /\ risk' = [asked EXCEPT !.halted = verdict \in {"halted", "trip"}]
              /\ step' = CASE verdict = "ok"    -> "fill"
                           [] verdict = "limit" -> "ack"
                           [] OTHER             -> "halt"
    BY <1>7 DEF CheckRisk
  <2> DEFINE answer == session \in haltHash /\ "probe" \notin failed
             asked == Probe(risk, answer)
             verdict == Verdict(asked, Signal.symbol, SideNow, TradeQty)
             halted == verdict \in {"halted", "trip"}
  <2>2. answer \in BOOLEAN /\ halted \in BOOLEAN
    OBVIOUS
  <2>3. asked \in RiskType
    <3> HIDE DEF answer
    <3>1. [risk EXCEPT !.probed = TRUE, !.halted = answer] \in RiskType
      BY <2>2 DEF RiskType, ProcessInv
    <3> QED BY <3>1 DEF Probe, ProcessInv
  <2>4. risk' = [asked EXCEPT !.halted = halted]
    BY <2>1
  <2>5. step' \in {"fill", "ack", "halt"}
    <3> HIDE DEF asked
    <3>1. verdict \in {"halted", "trip", "limit", "ok"}
      BY DEF Verdict
    <3>2. step' = CASE verdict = "ok"    -> "fill"
                    [] verdict = "limit" -> "ack"
                    [] OTHER             -> "halt"
      BY <2>1 DEF asked
    <3> HIDE DEF verdict
    <3> QED BY <3>1, <3>2
  <2> HIDE DEF asked, halted
  <2>6. risk' \in RiskType
    BY <2>2, <2>3, <2>4 DEF RiskType
  <2>7. UNCHANGED <<quoted, proc, draining>> /\ proc # "down"
    BY <1>7 DEF CheckRisk, At
  <2> QED BY <1>1, <2>5, <2>6, <2>7 DEF ProcessInv
<1>8. CASE Fill
  <2>1. /\ UNCHANGED <<proc, draining>> /\ proc # "down" /\ quoted' = quoted \cup {Signal.symbol}
    BY <1>8 DEF Fill, At
  <2>2. risk' \in RiskType
    BY <1>8, FillWrites, RiskTypes DEF ProcessInv
  <2>3. step' \in {"publish", "decide"} /\ Signal.symbol \in Symbols
    BY <1>8, FillWrites
  <2> QED BY <1>1, <2>1, <2>2, <2>3 DEF ProcessInv
<1>9. CASE Shutdown \/ Crash
  <2>1. Exit
    BY <1>9 DEF Shutdown, Crash
  <2> QED BY <1>1, <2>1, RiskTypes DEF Exit, Gone, ProcessInv
<1>10. CASE Terminate
  <2>1. proc # "down" /\ proc' # "down" /\ UNCHANGED <<memory, loop>>
    BY <1>10 DEF Terminate
  <2> QED BY <1>1, <2>1 DEF ProcessInv, memory, loop
<1>11. CASE SignalArrives \/ UNCHANGED vars
  BY <1>3, <1>11 DEF SignalArrives, vars
<1> QED BY <1>4, <1>5, <1>6, <1>7, <1>8, <1>9, <1>10, <1>11 DEF Next, Consumer, HandleMessage

(* The state has its types, and ids, sessions and orders that Redis, the   *)
(* database and the process refer to exist, whatever fails; a process that *)
(* is gone leaves nothing of its memory.                                   *)
THEOREM ServiceTypeCorrect == Spec => []TypeOK
<1>1. Init => IdInv /\ SignalInv /\ RecordInv /\ ProcessInv
  <2> SUFFICES ASSUME Init PROVE IdInv /\ SignalInv /\ RecordInv /\ ProcessInv
    OBVIOUS
  <2>1. IdInv /\ SignalInv
    BY BoundsAssumption DEF Init, Gone, IdInv, SignalInv, Ids
  <2>2. RecordInv
    BY DEF Init, RecordInv
  <2>3. ProcessInv
    BY FaultsAssumption, RiskTypes DEF Init, Gone, ProcessInv
  <2> QED BY <2>1, <2>2, <2>3
<1>2. LotInv /\ IdInv /\ SignalInv /\ RecordInv /\ ProcessInv => TypeOK
  <2> SUFFICES ASSUME LotInv, IdInv, SignalInv, RecordInv, ProcessInv PROVE TypeOK
    OBVIOUS
  <2>1. ASSUME NEW i \in Ids
        PROVE  stream[i] \in [symbol : Symbols, wants : Wants, time : 1 .. MaxSignals]
    <3>1. stream[i] \in SignalType
      BY ElementOfSeq DEF Ids, LotInv, StreamInv
    <3> QED BY <3>1 DEF SignalType, SignalInv
  <2>2. delivered \in 0 .. Len(stream) /\ 1 .. delivered \subseteq Ids
    BY LenProperties DEF LotInv, StreamInv, IdInv, SignalInv, Ids
  <2>3. ASSUME NEW rows \in LotRows PROVE IsRows(rows)
    <3>1. PICK S \in SUBSET Symbols : rows \in [S -> LotPosition]
      BY DEF LotRows
    <3>2. LotPosition \subseteq PositionType
      BY TradeQtyAssumption DEF LotPosition, PositionType
    <3> QED BY <3>1, <3>2 DEF IsRows
  <2>4. ASSUME NEW s \in DOMAIN sessions
        PROVE  /\ sessions[s].status \in {"RUNNING", "STOPPED", "HALTED"}
               /\ IsRows(sessions[s].rows)
               /\ \A p \in sessions[s].points : p.time \in 1 .. MaxSignals /\ p.equity \in Int
    BY <2>3, StoreTypes DEF LotInv, SessionType, RecordInv
  <2>5. ASSUME NEW t \in trades
        PROVE  /\ t.session \in DOMAIN sessions /\ t.signal \in Ids
               /\ t.symbol \in Symbols /\ t.side \in Sides
               /\ {t.price, t.qty, t.fee, t.pnl} \subseteq Int
    <3>1. t \in TradeType /\ TradeQty \in Int
      BY TradeQtyAssumption DEF RecordInv
    <3>2. t.session \in DOMAIN sessions /\ t.signal \in Ids
      BY <2>2 DEF IdInv
    <3> QED BY <3>1, <3>2 DEF TradeType
  <2>6. IsRows(blotter.positions) /\ blotter.equity \in Int
    BY <2>3 DEF LotInv, MemoryInv
  <2>7. IF proc = "down" THEN Gone ELSE session \in DOMAIN sessions
    BY DEF ProcessInv, LotInv, MemoryInv
  <2>8. /\ pending \subseteq 1 .. delivered /\ batch \subseteq 1 .. delivered
        /\ haltHash \subseteq DOMAIN sessions
        /\ orders \subseteq [session : DOMAIN sessions, signal : Ids]
    BY DEF IdInv, RecordInv
  <2>9. proc \in {"down", "up", "stopping"} /\ (batch = {} => step = "decide")
    BY DEF LotInv, MemoryInv, IntentInv
  <2>10. /\ risk \in [positions : [Symbols -> Int], equity : Int, peak : Int,
                      halted : BOOLEAN, probed : BOOLEAN]
         /\ quoted \subseteq Symbols
         /\ step \in {"decide", "check", "fill", "halt", "publish", "ack"}
         /\ draining \in BOOLEAN /\ faults \in 0 .. MaxFaults
    BY DEF ProcessInv, RiskType
  <2> QED BY <2>1, <2>2, <2>4, <2>5, <2>6, <2>7, <2>8, <2>9, <2>10 DEF TypeOK
<1> QED BY <1>1, <1>2, IdStep, SignalStep, RecordStep, ProcessStep, LotAlways, PTL DEF Spec

===============================================================================
