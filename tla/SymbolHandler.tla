----------------------------- MODULE SymbolHandler -----------------------------
(***************************************************************************)
(* The per-symbol ingest state machine of src/engine/symbol/handler.go,    *)
(* between its environment (the Binance diff stream and REST endpoint, the *)
(* snapshot-fetch goroutine) and what it writes: the live L2 stream, the   *)
(* diff log and the checkpoints.                                           *)
(*                                                                         *)
(* Granularity. Every handler method runs under h.mu, so a method that     *)
(* does not block inside is one action. The replay of the aligned buffer   *)
(* does I/O per event while it holds h.mu: it is one action per event, and *)
(* while toReplay is non-empty the lock is held and no other method of the *)
(* handler runs. Resyncing never outlives the critical section that enters *)
(* it (enterResyncLocked), so it is not a value of state here.             *)
(*                                                                         *)
(* The buffer is a set: one connection at a time feeds one channel read by *)
(* one dispatcher goroutine, so events arrive in the order of their update *)
(* ids and the order of the slice is the order of the ids.                 *)
(***************************************************************************)
EXTENDS OrderBook, Sequences

CONSTANTS
  MaxEvent,                \* bound: update ids one diff event may cover
  MaxBufferSize,           \* cfg.MaxBufferSize
  CheckpointDiffThreshold, \* cfg.CheckpointDiffThreshold
  Faulty,                  \* the sinks whose writes may fail
  LossyBootstrap,          \* may the stream lose events during a bootstrap
  None                     \* nil snapshot

ASSUME MaxEventAssumption == MaxEvent \in Nat \ {0}
ASSUME MaxBufferAssumption == MaxBufferSize \in Nat \ {0}
ASSUME ThresholdAssumption == CheckpointDiffThreshold \in Nat \ {0}
ASSUME FaultyAssumption == Faulty \subseteq {"l2", "diff", "checkpoint"}
ASSUME LossyAssumption == LossyBootstrap \in BOOLEAN
ASSUME NoneAssumption == None \notin Snapshots

VARIABLES
  exchangeID,           \* the exchange's newest update id
  wireID,               \* the newest update id the stream has carried or lost
  cancelled,            \* the service's context is cancelled
  state,                \* h.state
  buffer,               \* h.buffer
  snapshot,             \* h.snapshot
  snapshotPending,      \* h.snapshotPending: a fetch goroutine is running
  snapshotStale,        \* h.snapshotStale
  lastFinalUpdateID,    \* h.lastFinalUpdateID
  book,                 \* h.book
  diffsSinceCheckpoint, \* h.diffsSinceCheckpoint
  toReplay,             \* aligned events still to apply; non-empty: h.mu is held
  published,            \* entries XADDed to the live stream
  diffLog,              \* rows of order_book_diffs
  checkpoints           \* rows of order_book_snapshots

envVars == <<exchangeID, wireID, cancelled>>
fetchVars == <<snapshot, snapshotPending, snapshotStale>>
bookVars == <<lastFinalUpdateID, book, diffsSinceCheckpoint, toReplay>>
sinkVars == <<published, diffLog, checkpoints>>
vars == <<envVars, state, buffer, fetchVars, bookVars, sinkVars>>

(* A write to a sink that may fail, as every write may once the context it *)
(* is bound to is cancelled: the code logs the error and goes on.          *)
WriteOutcomes(sink) ==
  IF sink \in Faulty \/ cancelled THEN {TRUE, FALSE} ELSE {TRUE}

LockFree == toReplay = {}

Init ==
  /\ exchangeID = 1
  /\ wireID = 0
  /\ cancelled = FALSE
  /\ state = "Disconnected"
  /\ buffer = {}
  /\ snapshot = None
  /\ snapshotPending = FALSE
  /\ snapshotStale = FALSE
  /\ lastFinalUpdateID = 0
  /\ book = EmptyBook
  /\ diffsSinceCheckpoint = 0
  /\ toReplay = {}
  /\ published = << >>
  /\ diffLog = {}
  /\ checkpoints = {}

-------------------------------------------------------------------------------
(* The exchange's book changes.                                            *)
ExchangeUpdate ==
  /\ exchangeID < MaxId
  /\ exchangeID' = exchangeID + 1
  /\ UNCHANGED <<wireID, cancelled, state, buffer, fetchVars, bookVars, sinkVars>>

(* The events the stream may carry next: the ids after the last one it     *)
(* carried, up to what the exchange has done.                              *)
NextEvents ==
  {ev \in Events : /\ ev.first = wireID + 1
                   /\ ev.final <= exchangeID
                   /\ ev.final - ev.first < MaxEvent}

(* An event no handler sees: the connection drops and is dialled again     *)
(* (runOnce returns, runLoop redials), or the frame or one of its levels   *)
(* does not decode.                                                        *)
LoseEvent ==
  \E ev \in NextEvents :
    /\ LossyBootstrap \/ state # "Bootstrapping"
    /\ wireID' = ev.final
    /\ UNCHANGED <<exchangeID, cancelled, state, buffer, fetchVars, bookVars, sinkVars>>

(* The service is told to stop. *)
Cancel ==
  /\ ~cancelled
  /\ cancelled' = TRUE
  /\ UNCHANGED <<exchangeID, wireID, state, buffer, fetchVars, bookVars, sinkVars>>

-------------------------------------------------------------------------------
(* Definitions whose name starts with Bug are plausible faults of the code *)
(* that the mutants of PROJECT.json put in the place of the definition     *)
(* after them; no specification uses them.                                 *)

(* The first half of the alignment condition is forgotten. *)
BugAligns(ev, L) == ev.final >= L + 1

(* findAlignmentIndex's condition on an event, for a snapshot at update L. *)
Aligns(ev, L) == ev.first <= L + 1 /\ ev.final >= L + 1

(* discardPreSnapshot. *)
KeepAfter(buf, L) == {ev \in buf : ev.final > L}

(* The buffered events from alignIdx on; none if nothing aligns. *)
FromAlignment(buf, L) ==
  {ev \in buf : \E a \in buf : Aligns(a, L) /\ a.first <= ev.first}

(* The buffer is never found too long. *)
BugOverflows(buf) == FALSE

(* len(h.buffer) > h.cfg.MaxBufferSize. *)
Overflows(buf) == Cardinality(buf) > MaxBufferSize

(* tryAlignLocked on buffer buf with snapshot snap, up to the start of the *)
(* replay loop. pendingNow is h.snapshotPending as the caller left it.     *)
TryAlign(buf, snap, pendingNow) ==
  LET kept == KeepAfter(buf, snap.id)
      aligned == FromAlignment(kept, snap.id)
  IN  \/ /\ aligned # {}
         /\ book' = snap
         /\ lastFinalUpdateID' = snap.id
         /\ toReplay' = aligned
         /\ buffer' = kept
         /\ snapshot' = snap
         /\ snapshotPending' = pendingNow
      \/ /\ aligned = {}
         /\ Overflows(kept)
         /\ buffer' = {}
         /\ snapshot' = None
         /\ snapshotPending' = TRUE
         /\ UNCHANGED <<book, lastFinalUpdateID, toReplay>>
      \/ /\ aligned = {}
         /\ ~Overflows(kept)
         /\ buffer' = kept
         /\ snapshot' = snap
         /\ snapshotPending' = pendingNow
         /\ UNCHANGED <<book, lastFinalUpdateID, toReplay>>

(* HandleDiff, case Disconnected: the first diff starts the bootstrap. *)
DiffDisconnected(ev) ==
  /\ state = "Disconnected"
  /\ state' = "Bootstrapping"
  /\ snapshotPending' = TRUE
  /\ buffer' = buffer \cup {ev}
  /\ UNCHANGED <<snapshot, snapshotStale, bookVars, sinkVars>>

(* The event is buffered without looking at the waiting snapshot. *)
BugDiffWithSnapshot(ev) ==
  /\ state = "Bootstrapping"
  /\ snapshot # None
  /\ buffer' = buffer \cup {ev}
  /\ UNCHANGED <<state, fetchVars, bookVars, sinkVars>>

(* HandleDiff, case Bootstrapping with a snapshot that awaits its          *)
(* alignment event.                                                        *)
DiffWithSnapshot(ev) ==
  /\ state = "Bootstrapping"
  /\ snapshot # None
  /\ TryAlign(buffer \cup {ev}, snapshot, snapshotPending)
  /\ UNCHANGED <<state, snapshotStale, diffsSinceCheckpoint, sinkVars>>

(* HandleDiff, case Bootstrapping with no snapshot yet. On overflow the    *)
(* buffer is dropped and the fetch in flight is marked stale, or started.  *)
DiffNoSnapshot(ev) ==
  /\ state = "Bootstrapping"
  /\ snapshot = None
  /\ \/ /\ ~Overflows(buffer \cup {ev})
        /\ buffer' = buffer \cup {ev}
        /\ UNCHANGED fetchVars
     \/ /\ Overflows(buffer \cup {ev})
        /\ buffer' = {}
        /\ snapshotStale' = IF snapshotPending THEN TRUE ELSE snapshotStale
        /\ snapshotPending' = TRUE
        /\ UNCHANGED snapshot
  /\ UNCHANGED <<state, bookVars, sinkVars>>

(* shouldCheckpointLocked: enough diffs, or the interval may have elapsed. *)
CheckpointDue(diffs) == IF diffs >= CheckpointDiffThreshold THEN {TRUE} ELSE {TRUE, FALSE}

(* publishL2Locked for the book after an event. *)
PublishL2(bk) ==
  \E ok \in WriteOutcomes("l2") :
    published' = IF ok THEN Append(published, Snapshot(bk)) ELSE published

(* The diffs replayed during a bootstrap are not persisted. *)
BugWriteDiff(ev) ==
  diffLog' = IF state = "Synced" THEN diffLog \cup {ev} ELSE diffLog

(* repo.WriteDiff; a row that exists already is left alone. *)
WriteDiff(ev) ==
  \E ok \in WriteOutcomes("diff") :
    diffLog' = IF ok THEN diffLog \cup {ev} ELSE diffLog

(* Only an event from the past counts as out of sequence. *)
BugInSequence(ev) == ev.first >= lastFinalUpdateID + 1

(* The sequence check of handleSyncedLocked. *)
InSequence(ev) == ev.first = lastFinalUpdateID + 1

(* handleSyncedLocked, event in sequence: apply, publish, persist, and     *)
(* checkpoint when due. A failed checkpoint keeps the counters.            *)
DiffInSequence(ev) ==
  /\ state = "Synced"
  /\ InSequence(ev)
  /\ book' = Apply(book, ev)
  /\ lastFinalUpdateID' = ev.final
  /\ PublishL2(book')
  /\ WriteDiff(ev)
  /\ \E due \in CheckpointDue(diffsSinceCheckpoint + 1), ok \in WriteOutcomes("checkpoint") :
       IF due /\ ok
       THEN /\ checkpoints' = checkpoints \cup {Snapshot(book')}
            /\ diffsSinceCheckpoint' = 0
       ELSE /\ diffsSinceCheckpoint' = diffsSinceCheckpoint + 1
            /\ UNCHANGED checkpoints
  /\ UNCHANGED <<state, buffer, fetchVars, toReplay>>

(* handleSyncedLocked, sequence gap: enterResyncLocked drops the book,     *)
(* keeps the event that revealed the gap and fetches a new snapshot.       *)
DiffAfterGap(ev) ==
  /\ state = "Synced"
  /\ ~InSequence(ev)
  /\ book' = EmptyBook
  /\ lastFinalUpdateID' = 0
  /\ diffsSinceCheckpoint' = 0
  /\ buffer' = {ev}
  /\ snapshot' = None
  /\ state' = "Bootstrapping"
  /\ snapshotPending' = TRUE
  /\ UNCHANGED <<snapshotStale, toReplay, sinkVars>>

(* Dispatcher.Run hands the next event of the channel to HandleDiff. After *)
(* cancellation its select may still pick events that are waiting.         *)
HandleDiff ==
  \E ev \in NextEvents :
    /\ LockFree
    /\ wireID' = ev.final
    /\ UNCHANGED <<exchangeID, cancelled>>
    /\ \/ DiffDisconnected(ev)
       \/ DiffWithSnapshot(ev)
       \/ DiffNoSnapshot(ev)
       \/ DiffInSequence(ev)
       \/ DiffAfterGap(ev)

-------------------------------------------------------------------------------
(* One iteration of the loop of replayAlignedBufferLocked on the oldest    *)
(* event left; the last iteration falls through to the end of the method.  *)
(* A gap between two buffered events is only logged, so it is no guard.    *)
ReplayEvent ==
  \E ev \in toReplay :
    /\ \A other \in toReplay : ev.first <= other.first
    /\ book' = Apply(book, ev)
    /\ lastFinalUpdateID' = ev.final
    /\ PublishL2(book')
    /\ WriteDiff(ev)
    /\ toReplay' = toReplay \ {ev}
    /\ \/ /\ toReplay' # {}
          /\ UNCHANGED <<state, buffer, snapshot, diffsSinceCheckpoint>>
       \/ /\ toReplay' = {}
          /\ state' = "Synced"
          /\ buffer' = {}
          /\ snapshot' = None
          /\ diffsSinceCheckpoint' = 0
    /\ UNCHANGED <<envVars, snapshotPending, snapshotStale, checkpoints>>

(* runSnapshotFetch with an answer computed at any update up to now (the   *)
(* endpoint may lag behind the stream, and the answer may wait for h.mu).  *)
FetchSucceeds ==
  \E u \in 1 .. exchangeID :
    /\ LockFree
    /\ snapshotPending
    /\ ~snapshotStale
    /\ TryAlign(buffer, RestSnapshot(u), FALSE)
    /\ UNCHANGED <<envVars, state, snapshotStale, diffsSinceCheckpoint, sinkVars>>

(* A discarded or failed fetch is the last one. *)
BugNoRefetch == FALSE

(* After a stale answer: fetch again while still bootstrapping. *)
RefetchAfterStale == state = "Bootstrapping"

(* runSnapshotFetch, an answer overtaken by a buffer overflow: discarded,  *)
(* and fetched again while still bootstrapping.                            *)
FetchIsStale ==
  /\ LockFree
  /\ snapshotPending
  /\ snapshotStale
  /\ snapshotStale' = FALSE
  /\ snapshotPending' = RefetchAfterStale
  /\ UNCHANGED <<envVars, state, buffer, snapshot, bookVars, sinkVars>>

(* The retry does not look at the context. *)
BugRefetchForever == state = "Bootstrapping"

(* After an error: fetch again while bootstrapping and not shutting down. *)
RefetchAfterError == ~cancelled /\ state = "Bootstrapping"

(* handleSnapshotErrorLocked: fetch again while bootstrapping, unless the  *)
(* context is cancelled.                                                   *)
FetchFails ==
  /\ LockFree
  /\ snapshotPending
  /\ snapshotPending' = RefetchAfterError
  /\ UNCHANGED <<envVars, state, buffer, snapshot, snapshotStale, bookVars, sinkVars>>

-------------------------------------------------------------------------------
Next ==
  \/ ExchangeUpdate
  \/ LoseEvent
  \/ Cancel
  \/ HandleDiff
  \/ ReplayEvent
  \/ FetchSucceeds
  \/ FetchIsStale
  \/ FetchFails

Spec == Init /\ [][Next]_vars

(* What keeps running: the market moves and the stream delivers; the       *)
(* goroutine that holds h.mu finishes its loop; a fetch returns, with an   *)
(* answer sometimes as long as the context lives and with an error once it *)
(* is cancelled (the request is bound to it).                              *)
Fairness ==
  /\ WF_vars(ExchangeUpdate)
  /\ WF_vars(~cancelled /\ HandleDiff)
  /\ WF_vars(ReplayEvent)
  /\ WF_vars(~cancelled /\ (FetchSucceeds \/ FetchIsStale))
  /\ WF_vars(cancelled /\ FetchFails)

FairSpec == Spec /\ Fairness

-------------------------------------------------------------------------------
(* The handler never reaches states outside these sets. One row of         *)
(* diffLog per event; published is the whole stream.                       *)
TypeOK ==
  /\ exchangeID \in UpdateIds
  /\ wireID \in 0 .. MaxId
  /\ cancelled \in BOOLEAN
  /\ state \in {"Disconnected", "Bootstrapping", "Synced"}
  /\ buffer \in SUBSET Events
  /\ snapshot \in Snapshots \cup {None}
  /\ snapshotPending \in BOOLEAN
  /\ snapshotStale \in BOOLEAN
  /\ lastFinalUpdateID \in 0 .. MaxId
  /\ book \in Snapshots
  /\ diffsSinceCheckpoint \in Nat
  /\ toReplay \in SUBSET Events
  /\ published \in Seq(Snapshots)
  /\ diffLog \in SUBSET Events
  /\ checkpoints \in SUBSET Snapshots

(* A book the handler works with: it is synced, or replaying its buffer.   *)
BookInUse == state = "Synced" \/ toReplay # {}

(* A book in use is the exchange's book at lastFinalUpdateID, through any  *)
(* number of gaps, resyncs, overflows and late snapshots ("A corrupted     *)
(* book must never be used").                                              *)
BookTracksMarket ==
  BookInUse => book.id = lastFinalUpdateID /\ Tracks(book)

(* A handler that is bootstrapping always has a fetch under way or a       *)
(* snapshot to align, whatever failed, went stale or overflowed before;    *)
(* otherwise no later event but an overflow would wake it up               *)
(* (handleSnapshotErrorLocked: "doesn't strand the handler").              *)
NeverStranded ==
  state = "Bootstrapping" /\ ~cancelled => snapshotPending \/ snapshot # None

(* A fetch in flight can only meet a bootstrapping handler that holds no   *)
(* snapshot: its result never replaces one that is being aligned, and      *)
(* never reaches a synced book, which tryAlignLocked does not guard.       *)
FetchMeetsBootstrap ==
  snapshotPending => state = "Bootstrapping" /\ snapshot = None /\ LockFree

(* While a snapshot waits, what is buffered lies beyond it and does not    *)
(* align: neither the arrival of an event nor that of the snapshot misses  *)
(* the moment to sync.                                                     *)
NoMissedAlignment ==
  snapshot # None /\ LockFree =>
    \A ev \in buffer : ev.final > snapshot.id /\ ~Aligns(ev, snapshot.id)

(* No interleaving of arrivals, overflows and fetches grows the buffer     *)
(* past MaxBufferSize between two critical sections.                       *)
BufferBounded == LockFree => Cardinality(buffer) <= MaxBufferSize

(* Every checkpoint a backtest may start from is a true book at its id.    *)
CheckpointsTrackMarket == \A c \in checkpoints : Tracks(c)

(* Every entry of the live stream is the state after a diff that is in the *)
(* log, so that a backtest meets each book that was ever published, those  *)
(* of a bootstrap's replay included (as long as log writes do not fail).   *)
PublishedIsLogged ==
  "diff" \notin Faulty /\ ~cancelled =>
    \A i \in 1 .. Len(published) : \E ev \in diffLog : ev.final = published[i].id

(* The live stream is an L2Feed: later ids only, true levels only.         *)
Feed == INSTANCE L2Feed WITH feed <- published
FeedSpec == Feed!Spec

(* Bootstrapping without a snapshot ends in having one, as long as the     *)
(* service lives: failures and stale answers are retried.                  *)
SnapshotArrives ==
  (state = "Bootstrapping" /\ snapshot = None)
    ~> (snapshot # None \/ state = "Synced" \/ cancelled)

(* A snapshot too old to align with anything still to come. *)
Hopeless ==
  /\ state = "Bootstrapping"
  /\ snapshot # None
  /\ LockFree
  /\ wireID > snapshot.id
  /\ \A ev \in buffer : ev.first > snapshot.id + 1

(* A handler holding a snapshot it can never align does not wait for ever  *)
(* for "an alignment event that already passed": when the stream still     *)
(* carries enough events to overflow the buffer, it lets go of it.         *)
HopelessSnapshotDropped ==
  (Hopeless /\ MaxId - wireID > MaxEvent * (MaxBufferSize - Cardinality(buffer)))
    ~> (~Hopeless \/ cancelled)

(* After cancellation the fetch goroutines come to an end and Handler.Stop *)
(* returns.                                                                *)
FetchesEnd == cancelled ~> []~snapshotPending

===============================================================================
