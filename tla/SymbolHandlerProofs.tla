-------------------------- MODULE SymbolHandlerProofs --------------------------
(***************************************************************************)
(* Proofs about SymbolHandler for every market, depth, buffer size, event  *)
(* size and number of updates. Statements about the book assume that the   *)
(* stream loses nothing while a bootstrap is under way; the others hold    *)
(* without that.                                                           *)
(***************************************************************************)
EXTENDS SymbolHandler, OrderBookLemmas, SequenceTheorems

-------------------------------------------------------------------------------
(* The inductive invariant, in named parts. It speaks of the book only     *)
(* under LosslessBootstrap.                                                *)

LosslessBootstrap == ~LossyBootstrap

(* What is buffered was carried by the stream, one event after the other.  *)
OnWire(buf, w) ==
  /\ \A ev \in buf : ev.final <= w
  /\ \A ev, other \in buf :
       ev = other \/ ev.final < other.first \/ other.final < ev.first

(* A stretch of the stream that reaches up to id w. *)
Contiguous(buf, w) ==
  \A ev \in buf : ev.final = w \/ \E nxt \in buf : nxt.first = ev.final + 1

(* The oldest event of a replay continues a book at id L. *)
Continues(events, L) == events # {} => \E ev \in events : ev.first <= L + 1

Newest == Feed!NewestId(published)

BufferInv ==
  /\ OnWire(buffer, wireID)
  /\ LosslessBootstrap => Contiguous(buffer, wireID)
  /\ IsFiniteSet(buffer)
  /\ BufferBounded

(* The flags of each state. *)
FlagsInv ==
  /\ state # "Bootstrapping" => /\ buffer = {}
                                /\ snapshot = None
                                /\ toReplay = {}
  /\ BookInUse => book.id = lastFinalUpdateID /\ lastFinalUpdateID <= wireID
  /\ state = "Disconnected" => published = << >>

(* The replay loop runs on a tail of the buffer, beyond the book. *)
ReplayInv ==
  /\ toReplay \subseteq buffer
  /\ \A ev \in toReplay, other \in buffer : ev.first <= other.first => other \in toReplay
  /\ \A ev \in toReplay : ev.final > lastFinalUpdateID
  /\ toReplay # {} => snapshot # None
  /\ LosslessBootstrap => Continues(toReplay, lastFinalUpdateID)

(* What has been published lies before everything that is still to come.   *)
PublishedInv ==
  /\ Newest <= wireID
  /\ BookInUse => Newest <= lastFinalUpdateID
  /\ LockFree => \A ev \in buffer : Newest < ev.first

(* The books in use, in waiting and on disk are true. *)
BooksInv ==
  LosslessBootstrap => /\ BookInUse => Tracks(book)
                       /\ snapshot # None => Tracks(snapshot)
                       /\ CheckpointsTrackMarket

IInv ==
  /\ TypeOK
  /\ BufferInv
  /\ FlagsInv
  /\ ReplayInv
  /\ FetchMeetsBootstrap
  /\ NeverStranded
  /\ NoMissedAlignment
  /\ PublishedInv
  /\ BooksInv

-------------------------------------------------------------------------------
(* Type correctness.                                                       *)

(* The next event of the stream is an event. *)
LEMMA NextEventsType ==
  ASSUME NEW ev \in NextEvents, TypeOK
  PROVE  /\ ev \in Events
         /\ ev.first = wireID + 1
         /\ ev.first <= ev.final
         /\ ev.final \in 0 .. MaxId
         /\ ev.final <= exchangeID
BY MaxIdAssumption DEF NextEvents, Events, TypeOK, UpdateIds

(* The alignment routine keeps the types of what it writes. *)
LEMMA TryAlignType ==
  ASSUME TypeOK, NEW buf \in SUBSET Events, NEW snap \in Snapshots,
         NEW pnow \in BOOLEAN, TryAlign(buf, snap, pnow)
  PROVE  /\ book' \in Snapshots
         /\ lastFinalUpdateID' \in 0 .. MaxId
         /\ toReplay' \in SUBSET Events
         /\ buffer' \in SUBSET Events
         /\ snapshot' \in Snapshots \cup {None}
         /\ snapshotPending' \in BOOLEAN
<1>1. KeepAfter(buf, snap.id) \in SUBSET Events
  BY DEF KeepAfter
<1>2. FromAlignment(KeepAfter(buf, snap.id), snap.id) \in SUBSET Events
  BY <1>1 DEF FromAlignment
<1>3. snap.id \in 0 .. MaxId
  BY DEF Snapshots
<1> QED BY <1>1, <1>2, <1>3 DEF TryAlign, TypeOK

(* Publishing keeps the type of the stream. *)
LEMMA PublishType ==
  ASSUME TypeOK, NEW bk \in Snapshots, PublishL2(bk)
  PROVE  published' \in Seq(Snapshots)
BY SnapshotType DEF PublishL2, TypeOK

(* TypeOK holds initially. *)
LEMMA TypeInit == Init => TypeOK
<1> SUFFICES ASSUME Init PROVE TypeOK
  OBVIOUS
<1>1. book \in Snapshots
  BY MaxIdAssumption DEF Init, EmptyBook, NoLevels, Snapshots, Levels
<1>2. exchangeID \in UpdateIds /\ wireID \in 0 .. MaxId /\ lastFinalUpdateID \in 0 .. MaxId
  BY MaxIdAssumption DEF Init, UpdateIds
<1>3. published \in Seq(Snapshots)
  BY DEF Init
<1> QED BY <1>1, <1>2, <1>3 DEF Init, TypeOK

(* Every action preserves TypeOK. *)
LEMMA TypeNext == TypeOK /\ [Next]_vars => TypeOK'
<1> SUFFICES ASSUME TypeOK, [Next]_vars
             PROVE  TypeOK'
  OBVIOUS
<1> USE DEF TypeOK
<1>1. CASE ExchangeUpdate
  BY <1>1, MaxIdAssumption
     DEF ExchangeUpdate, UpdateIds, fetchVars, bookVars, sinkVars
<1>2. CASE LoseEvent
  <2>1. PICK ev \in NextEvents : wireID' = ev.final
    BY <1>2 DEF LoseEvent
  <2> QED BY <1>2, <2>1, NextEventsType DEF LoseEvent, fetchVars, bookVars, sinkVars
<1>3. CASE Cancel
  BY <1>3 DEF Cancel, fetchVars, bookVars, sinkVars
<1>4. CASE HandleDiff
  <2>1. PICK ev \in NextEvents :
          /\ wireID' = ev.final
          /\ UNCHANGED <<exchangeID, cancelled>>
          /\ \/ DiffDisconnected(ev)
             \/ DiffWithSnapshot(ev)
             \/ DiffNoSnapshot(ev)
             \/ DiffInSequence(ev)
             \/ DiffAfterGap(ev)
    BY <1>4 DEF HandleDiff
  <2>2. ev \in Events /\ ev.final \in 0 .. MaxId
    BY NextEventsType
  <2>3. wireID' \in 0 .. MaxId /\ exchangeID' \in UpdateIds /\ cancelled' \in BOOLEAN
    BY <2>1, <2>2
  <2>4. CASE DiffDisconnected(ev)
    BY <2>2, <2>3, <2>4 DEF DiffDisconnected, bookVars, sinkVars
  <2>5. CASE DiffWithSnapshot(ev)
    <3>1. snapshot \in Snapshots /\ buffer \cup {ev} \in SUBSET Events
      BY <2>2, <2>5 DEF DiffWithSnapshot
    <3>2. TryAlign(buffer \cup {ev}, snapshot, snapshotPending)
      BY <2>5 DEF DiffWithSnapshot
    <3> HIDE DEF TypeOK
    <3>3. snapshotPending \in BOOLEAN
      BY DEF TypeOK
    <3>4. /\ book' \in Snapshots
          /\ lastFinalUpdateID' \in 0 .. MaxId
          /\ toReplay' \in SUBSET Events
          /\ buffer' \in SUBSET Events
          /\ snapshot' \in Snapshots \cup {None}
          /\ snapshotPending' \in BOOLEAN
      BY <3>1, <3>2, <3>3, TryAlignType
    <3> QED BY <2>3, <2>5, <3>4 DEF DiffWithSnapshot, sinkVars, TypeOK
  <2>6. CASE DiffNoSnapshot(ev)
    BY <2>2, <2>3, <2>6 DEF DiffNoSnapshot, bookVars, sinkVars, fetchVars
  <2>7. CASE DiffInSequence(ev)
    <3>1. Apply(book, ev) \in Snapshots
      BY <2>2, ApplyType
    <3>2. published' \in Seq(Snapshots)
      BY <2>7, <3>1, PublishType DEF DiffInSequence
    <3>3. diffLog' \in SUBSET Events
      BY <2>2, <2>7 DEF DiffInSequence, WriteDiff
    <3>4. checkpoints' \in SUBSET Snapshots /\ diffsSinceCheckpoint' \in Nat
      BY <2>7, <3>1, SnapshotType DEF DiffInSequence
    <3> QED BY <2>2, <2>3, <2>7, <3>1, <3>2, <3>3, <3>4 DEF DiffInSequence, fetchVars
  <2>8. CASE DiffAfterGap(ev)
    <3>1. EmptyBook \in Snapshots
      BY MaxIdAssumption DEF EmptyBook, NoLevels, Snapshots, Levels
    <3> QED BY <2>2, <2>3, <2>8, <3>1, MaxIdAssumption DEF DiffAfterGap, sinkVars
  <2> QED BY <2>1, <2>4, <2>5, <2>6, <2>7, <2>8
<1>5. CASE ReplayEvent
  <2>1. PICK ev \in toReplay :
          /\ book' = Apply(book, ev)
          /\ lastFinalUpdateID' = ev.final
          /\ PublishL2(book')
          /\ WriteDiff(ev)
          /\ toReplay' = toReplay \ {ev}
    BY <1>5 DEF ReplayEvent
  <2>2. ev \in Events /\ ev.final \in 0 .. MaxId
    BY MaxIdAssumption DEF Events, UpdateIds
  <2>3. book' \in Snapshots
    BY <2>1, <2>2, ApplyType
  <2>4. published' \in Seq(Snapshots)
    BY <2>1, <2>3, PublishType
  <2>5. diffLog' \in SUBSET Events
    BY <2>1, <2>2 DEF WriteDiff
  <2>6. /\ state' \in {"Disconnected", "Bootstrapping", "Synced"}
        /\ buffer' \in SUBSET Events
        /\ snapshot' \in Snapshots \cup {None}
        /\ diffsSinceCheckpoint' \in Nat
    BY <1>5 DEF ReplayEvent
  <2> QED BY <1>5, <2>1, <2>2, <2>3, <2>4, <2>5, <2>6 DEF ReplayEvent, envVars
<1>6. CASE FetchSucceeds
  <2>1. PICK u \in 1 .. exchangeID : TryAlign(buffer, RestSnapshot(u), FALSE)
    BY <1>6 DEF FetchSucceeds
  <2>2. RestSnapshot(u) \in Snapshots
    BY MaxIdAssumption, RestSnapshotType DEF UpdateIds
  <2>3. buffer \in SUBSET Events
    OBVIOUS
  <2> HIDE DEF TypeOK
  <2>4. /\ book' \in Snapshots
        /\ lastFinalUpdateID' \in 0 .. MaxId
        /\ toReplay' \in SUBSET Events
        /\ buffer' \in SUBSET Events
        /\ snapshot' \in Snapshots \cup {None}
        /\ snapshotPending' \in BOOLEAN
    BY <2>1, <2>2, <2>3, TryAlignType
  <2> QED BY <1>6, <2>4 DEF FetchSucceeds, envVars, sinkVars, TypeOK
<1>7. CASE FetchIsStale
  BY <1>7 DEF FetchIsStale, RefetchAfterStale, envVars, bookVars, sinkVars
<1>8. CASE FetchFails
  BY <1>8 DEF FetchFails, RefetchAfterError, envVars, bookVars, sinkVars
<1>9. CASE UNCHANGED vars
  BY <1>9 DEF vars, envVars, fetchVars, bookVars, sinkVars
<1> QED BY <1>1, <1>2, <1>3, <1>4, <1>5, <1>6, <1>7, <1>8, <1>9 DEF Next

(* The handler's state and what it writes always have their types.         *)
THEOREM TypeCorrect == Spec => []TypeOK
<1>1. Init => TypeOK
  BY TypeInit
<1>2. TypeOK /\ [Next]_vars => TypeOK'
  BY TypeNext
<1> QED BY <1>1, <1>2, PTL DEF Spec

-------------------------------------------------------------------------------
(* The inductive invariant.                                                *)

(* The newest entry of a stream just extended, and its value before. *)
LEMMA NewestAfterPublish ==
  ASSUME TypeOK, NEW bk \in Snapshots, PublishL2(bk)
  PROVE  Newest' = bk.id \/ Newest' = Newest
<1>1. CASE published' = published
  BY <1>1 DEF Newest, Feed!NewestId
<1>2. CASE published' = Append(published, Snapshot(bk))
  <2>1. /\ published' # << >>
        /\ published'[Len(published')] = Snapshot(bk)
    BY <1>2, SnapshotType DEF TypeOK
  <2> QED BY <2>1 DEF Newest, Feed!NewestId, Snapshot
<1> QED BY <1>1, <1>2 DEF PublishL2

LEMMA NewestType ==
  ASSUME TypeOK
  PROVE  Newest \in 0 .. MaxId
<1>1. CASE published = << >>
  BY <1>1, MaxIdAssumption DEF Newest, Feed!NewestId
<1>2. CASE published # << >>
  <2>1. published \in Seq(Snapshots) /\ Len(published) \in 1 .. Len(published)
    BY <1>2 DEF TypeOK
  <2>2. published[Len(published)] \in Snapshots
    BY <2>1, ElementOfSeq
  <2> QED BY <1>2, <2>2 DEF Newest, Feed!NewestId, Snapshots
<1> QED BY <1>1, <1>2

(* The event that arrives goes behind everything buffered: the buffer      *)
(* stays ordered, and contiguous if it was.                                *)
LEMMA BufferArrival ==
  ASSUME TypeOK, BufferInv, NEW ev \in NextEvents
  PROVE  /\ OnWire(buffer \cup {ev}, ev.final)
         /\ LosslessBootstrap => Contiguous(buffer \cup {ev}, ev.final)
         /\ IsFiniteSet(buffer \cup {ev})
<1>1. /\ ev \in Events
      /\ ev.first = wireID + 1
      /\ ev.first <= ev.final
      /\ wireID \in Nat /\ ev.final \in Nat
  BY MaxIdAssumption, NextEventsType DEF TypeOK
<1>2. \A e \in buffer : e.final \in Nat /\ e.first \in Nat /\ e.first <= e.final
  BY MaxIdAssumption DEF TypeOK, Events, UpdateIds
<1>3. OnWire(buffer \cup {ev}, ev.final)
  BY <1>1, <1>2 DEF BufferInv, OnWire
<1>4. LosslessBootstrap => Contiguous(buffer \cup {ev}, ev.final)
  BY <1>1, <1>2 DEF BufferInv, Contiguous
<1>5. IsFiniteSet(buffer \cup {ev})
  BY FS_AddElement DEF BufferInv
<1> QED BY <1>3, <1>4, <1>5

(* What the alignment routine establishes, on a buffer of the stream up to *)
(* id w and a true snapshot.                                               *)
LEMMA TryAlignInv ==
  ASSUME TypeOK, LockFree, NEW buf \in SUBSET Events, NEW snap \in Snapshots,
         NEW w \in 0 .. MaxId, NEW pnow \in BOOLEAN,
         OnWire(buf, w), LosslessBootstrap => Contiguous(buf, w), IsFiniteSet(buf),
         \A ev \in buf : Newest < ev.first,
         TryAlign(buf, snap, pnow)
  PROVE  /\ OnWire(buffer', w)
         /\ LosslessBootstrap => Contiguous(buffer', w)
         /\ IsFiniteSet(buffer')
         /\ toReplay' = {} => Cardinality(buffer') <= MaxBufferSize
         /\ \A ev \in buffer' : Newest < ev.first
         /\ toReplay' \subseteq buffer'
         /\ \A ev \in toReplay', other \in buffer' :
              ev.first <= other.first => other \in toReplay'
         /\ \A ev \in toReplay' : ev.final > lastFinalUpdateID'
         /\ toReplay' # {} => /\ snapshot' # None
                              /\ book' = snap
                              /\ lastFinalUpdateID' = snap.id
                              /\ lastFinalUpdateID' <= w
                              /\ Newest <= lastFinalUpdateID'
         /\ LosslessBootstrap => Continues(toReplay', lastFinalUpdateID')
         /\ snapshot' # None => snapshotPending' = pnow
         /\ snapshot' # None /\ toReplay' = {} =>
              \A ev \in buffer' : ev.final > snapshot'.id /\ ~Aligns(ev, snapshot'.id)
         /\ snapshot' = None => snapshotPending' = TRUE /\ toReplay' = {}
         /\ snapshot' \in {None, snap}
<1> DEFINE kept == KeepAfter(buf, snap.id)
           aligned == FromAlignment(kept, snap.id)
<1>1. /\ snap # None
      /\ snap.id \in Nat
      /\ w \in Nat
      /\ \A ev \in buf : ev.final \in Nat /\ ev.first \in Nat /\ ev.first <= ev.final
  BY NoneAssumption, MaxIdAssumption DEF Snapshots, Events, UpdateIds
<1>2. /\ kept \in SUBSET buf
      /\ OnWire(kept, w)
      /\ LosslessBootstrap => Contiguous(kept, w)
      /\ \A ev \in kept : ev.final > snap.id
  BY <1>1 DEF KeepAfter, OnWire, Contiguous
<1>3. IsFiniteSet(kept) /\ Cardinality(kept) \in Nat
  BY <1>2, FS_Subset, FS_CardinalityType
<1>4. /\ aligned \in SUBSET kept
      /\ \A ev \in aligned, other \in kept : ev.first <= other.first => other \in aligned
  BY <1>1, <1>2 DEF FromAlignment
<1>5. \A ev \in kept : Aligns(ev, snap.id) => ev \in aligned
  BY <1>1, <1>2 DEF FromAlignment
<1>6. aligned # {} => \E ev \in aligned : Aligns(ev, snap.id)
  BY <1>1, <1>2 DEF FromAlignment
<1>7. toReplay = {}
  BY DEF LockFree
<1>8. Newest \in Nat
  BY NewestType, MaxIdAssumption
<1> HIDE DEF kept, aligned
<1>9. CASE /\ aligned # {}
           /\ book' = snap
           /\ lastFinalUpdateID' = snap.id
           /\ toReplay' = aligned
           /\ buffer' = kept
           /\ snapshot' = snap
           /\ snapshotPending' = pnow
  <2>1. PICK ev \in aligned : Aligns(ev, snap.id)
    BY <1>6, <1>9
  <2>2. ev \in buf /\ ev.first <= snap.id + 1 /\ snap.id + 1 <= ev.final
    BY <1>1, <1>2, <1>4, <2>1 DEF Aligns
  <2>3. snap.id <= w /\ Newest <= snap.id
    BY <1>1, <1>8, <2>2 DEF OnWire
  <2>4. Continues(aligned, snap.id)
    BY <2>1, <2>2 DEF Continues
  <2> QED BY <1>1, <1>2, <1>3, <1>4, <1>9, <2>3, <2>4
<1>10. CASE /\ aligned = {}
            /\ Overflows(kept)
            /\ buffer' = {}
            /\ snapshot' = None
            /\ snapshotPending' = TRUE
            /\ UNCHANGED <<book, lastFinalUpdateID, toReplay>>
  <2>1. IsFiniteSet({}) /\ Cardinality({}) = 0
    BY FS_EmptySet
  <2> QED BY <1>7, <1>10, <2>1, MaxBufferAssumption DEF OnWire, Contiguous, Continues
<1>11. CASE /\ aligned = {}
            /\ ~Overflows(kept)
            /\ buffer' = kept
            /\ snapshot' = snap
            /\ snapshotPending' = pnow
            /\ UNCHANGED <<book, lastFinalUpdateID, toReplay>>
  <2>1. Cardinality(kept) <= MaxBufferSize
    BY <1>3, <1>11, MaxBufferAssumption DEF Overflows
  <2>2. \A ev \in kept : ~Aligns(ev, snap.id)
    BY <1>5, <1>11
  <2> QED BY <1>1, <1>2, <1>3, <1>7, <1>11, <2>1, <2>2 DEF Continues
<1> QED BY <1>9, <1>10, <1>11 DEF TryAlign, kept, aligned

LEMMA InitInv == Init => IInv
<1> SUFFICES ASSUME Init PROVE IInv
  OBVIOUS
<1>1. TypeOK
  BY TypeInit
<1>2. IsFiniteSet({}) /\ Cardinality({}) = 0
  BY FS_EmptySet
<1>3. BufferInv
  BY <1>2, MaxBufferAssumption DEF Init, BufferInv, OnWire, Contiguous, BufferBounded
<1>4. FlagsInv /\ ReplayInv
  BY DEF Init, FlagsInv, ReplayInv, BookInUse, Continues
<1>5. FetchMeetsBootstrap /\ NeverStranded /\ NoMissedAlignment
  BY DEF Init, FetchMeetsBootstrap, NeverStranded, NoMissedAlignment
<1>6. PublishedInv
  BY DEF Init, PublishedInv, BookInUse, Newest, Feed!NewestId
<1>7. BooksInv
  BY DEF Init, BooksInv, BookInUse, CheckpointsTrackMarket
<1> QED BY <1>1, <1>3, <1>4, <1>5, <1>6, <1>7 DEF IInv

(* Steps of the environment that leave the handler alone.                  *)
LEMMA EnvironmentInv ==
  ASSUME IInv, TypeOK', ExchangeUpdate \/ LoseEvent \/ Cancel
  PROVE  IInv'
<1>1. UNCHANGED <<state, buffer, fetchVars, bookVars, sinkVars>>
  BY DEF ExchangeUpdate, LoseEvent, Cancel
<1> USE <1>1 DEF fetchVars, bookVars, sinkVars
<1>2. /\ wireID \in Nat /\ wireID' \in Nat
      /\ wireID <= wireID'
      /\ LosslessBootstrap /\ buffer # {} => wireID' = wireID
  <2>1. CASE ExchangeUpdate \/ Cancel
    BY <2>1, MaxIdAssumption DEF ExchangeUpdate, Cancel, IInv, TypeOK
  <2>2. CASE LoseEvent
    <3>1. PICK ev \in NextEvents : /\ LossyBootstrap \/ state # "Bootstrapping"
                                   /\ wireID' = ev.final
      BY <2>2 DEF LoseEvent
    <3>2. TypeOK
      BY DEF IInv
    <3>3. wireID' >= wireID + 1 /\ wireID \in Nat /\ wireID' \in Nat
      BY <3>1, <3>2, NextEventsType, MaxIdAssumption DEF TypeOK, Events, UpdateIds
    <3> QED BY <3>1, <3>3 DEF IInv, FlagsInv, LosslessBootstrap
  <2> QED BY <2>1, <2>2
<1>3. \A ev \in buffer : ev.final \in Nat
  BY MaxIdAssumption DEF IInv, TypeOK, Events, UpdateIds
<1>4. BufferInv'
  BY <1>2, <1>3 DEF IInv, BufferInv, OnWire, Contiguous, BufferBounded, LockFree
<1>5. FlagsInv'
  BY <1>2, MaxIdAssumption DEF IInv, TypeOK, FlagsInv, BookInUse
<1>6. ReplayInv'
  BY DEF IInv, ReplayInv, Continues
<1>7. FetchMeetsBootstrap' /\ NoMissedAlignment'
  BY DEF IInv, FetchMeetsBootstrap, NoMissedAlignment, LockFree, Aligns
<1>8. NeverStranded'
  BY DEF IInv, NeverStranded, ExchangeUpdate, LoseEvent, Cancel
<1>9. PublishedInv'
  <2>1. Newest' = Newest
    BY DEF Newest, Feed!NewestId
  <2>2. Newest \in Nat
    BY NewestType, MaxIdAssumption DEF IInv
  <2> QED BY <1>2, <2>1, <2>2 DEF IInv, PublishedInv, BookInUse, LockFree
<1>10. BooksInv'
  BY DEF IInv, BooksInv, BookInUse, CheckpointsTrackMarket
<1> QED BY <1>4, <1>5, <1>6, <1>7, <1>8, <1>9, <1>10 DEF IInv

(* A step in which the alignment routine runs, in a bootstrapping handler  *)
(* that has no fetch left in flight.                                       *)
LEMMA AlignStepInv ==
  ASSUME IInv, TypeOK', LockFree, state = "Bootstrapping",
         NEW buf \in SUBSET Events, NEW snap \in Snapshots,
         OnWire(buf, wireID'), LosslessBootstrap => Contiguous(buf, wireID'),
         IsFiniteSet(buf), \A ev \in buf : Newest < ev.first,
         LosslessBootstrap => Tracks(snap),
         TryAlign(buf, snap, FALSE),
         wireID <= wireID',
         UNCHANGED <<state, sinkVars>>
  PROVE  IInv'
<1> USE DEF sinkVars
<1>1. wireID' \in 0 .. MaxId /\ FALSE \in BOOLEAN /\ TypeOK
  BY DEF IInv, TypeOK
<1>2. /\ OnWire(buffer', wireID')
      /\ LosslessBootstrap => Contiguous(buffer', wireID')
      /\ IsFiniteSet(buffer')
      /\ toReplay' = {} => Cardinality(buffer') <= MaxBufferSize
      /\ \A ev \in buffer' : Newest < ev.first
      /\ toReplay' \subseteq buffer'
      /\ \A ev \in toReplay', other \in buffer' :
           ev.first <= other.first => other \in toReplay'
      /\ \A ev \in toReplay' : ev.final > lastFinalUpdateID'
      /\ toReplay' # {} => /\ snapshot' # None
                           /\ book' = snap
                           /\ lastFinalUpdateID' = snap.id
                           /\ lastFinalUpdateID' <= wireID'
                           /\ Newest <= lastFinalUpdateID'
      /\ LosslessBootstrap => Continues(toReplay', lastFinalUpdateID')
      /\ snapshot' # None => snapshotPending' = FALSE
      /\ snapshot' # None /\ toReplay' = {} =>
           \A ev \in buffer' : ev.final > snapshot'.id /\ ~Aligns(ev, snapshot'.id)
      /\ snapshot' = None => snapshotPending' = TRUE /\ toReplay' = {}
      /\ snapshot' \in {None, snap}
  BY <1>1, TryAlignInv
<1>3. BufferInv'
  BY <1>2 DEF BufferInv, BufferBounded, LockFree
<1>4. FlagsInv'
  BY <1>2 DEF FlagsInv, BookInUse
<1>5. ReplayInv'
  BY <1>2 DEF ReplayInv
<1>6. FetchMeetsBootstrap' /\ NeverStranded' /\ NoMissedAlignment'
  BY <1>2 DEF FetchMeetsBootstrap, NeverStranded, NoMissedAlignment, LockFree, Aligns
<1>7. PublishedInv'
  <2>1. Newest' = Newest
    BY DEF Newest, Feed!NewestId
  <2>2. Newest \in Nat /\ wireID \in Nat /\ wireID' \in Nat
    BY <1>1, NewestType, MaxIdAssumption DEF TypeOK
  <2> QED BY <1>2, <2>1, <2>2 DEF IInv, PublishedInv, BookInUse, LockFree
<1>8. BooksInv'
  BY <1>2 DEF IInv, BooksInv, BookInUse, CheckpointsTrackMarket
<1> QED BY <1>3, <1>4, <1>5, <1>6, <1>7, <1>8 DEF IInv

(* HandleDiff on an idle or bootstrapping handler.                         *)
LEMMA DiffBootstrappingInv ==
  ASSUME IInv, TypeOK', LockFree, NEW ev \in NextEvents, wireID' = ev.final,
         UNCHANGED <<exchangeID, cancelled>>,
         \/ DiffDisconnected(ev) \/ DiffWithSnapshot(ev) \/ DiffNoSnapshot(ev)
  PROVE  IInv'
<1>1. TypeOK /\ BufferInv
  BY DEF IInv
<1>2. /\ ev \in Events
      /\ ev.first = wireID + 1
      /\ ev.first <= ev.final
      /\ wireID \in Nat /\ ev.final \in Nat
  BY <1>1, MaxIdAssumption, NextEventsType DEF TypeOK
<1>3. /\ OnWire(buffer \cup {ev}, ev.final)
      /\ LosslessBootstrap => Contiguous(buffer \cup {ev}, ev.final)
      /\ IsFiniteSet(buffer \cup {ev})
  BY <1>1, BufferArrival
<1>4. Newest \in Nat /\ Newest <= wireID /\ \A e \in buffer \cup {ev} : Newest < e.first
  BY <1>1, <1>2, NewestType, MaxIdAssumption DEF IInv, PublishedInv
<1>5. Cardinality(buffer \cup {ev}) \in Nat
  BY <1>3, FS_CardinalityType
<1>6. toReplay = {}
  BY DEF LockFree
<1>7. IsFiniteSet({}) /\ Cardinality({}) = 0
  BY FS_EmptySet
<1>8. CASE DiffWithSnapshot(ev)
  <2>1. /\ state = "Bootstrapping" /\ snapshot \in Snapshots
        /\ TryAlign(buffer \cup {ev}, snapshot, snapshotPending)
        /\ UNCHANGED <<state, sinkVars>>
    BY <1>1, <1>8 DEF DiffWithSnapshot, TypeOK
  <2>2. snapshotPending = FALSE
    BY <1>1, <1>8 DEF DiffWithSnapshot, IInv, FetchMeetsBootstrap, TypeOK
  <2>3. buffer \cup {ev} \in SUBSET Events
    BY <1>1, <1>2 DEF TypeOK
  <2>4. LosslessBootstrap => Tracks(snapshot)
    BY <1>8 DEF DiffWithSnapshot, IInv, BooksInv
  <2>5. TryAlign(buffer \cup {ev}, snapshot, FALSE)
    BY <2>1, <2>2
  <2>6. /\ OnWire(buffer \cup {ev}, wireID')
        /\ LosslessBootstrap => Contiguous(buffer \cup {ev}, wireID')
        /\ wireID <= wireID'
    BY <1>2, <1>3
  <2>7. IsFiniteSet(buffer \cup {ev}) /\ \A e \in buffer \cup {ev} : Newest < e.first
    BY <1>3, <1>4
  <2> HIDE <1>8
  <2> QED BY <2>1, <2>3, <2>4, <2>5, <2>6, <2>7, AlignStepInv
<1>9. CASE DiffDisconnected(ev) \/ DiffNoSnapshot(ev)
  <2>1. /\ state' = "Bootstrapping"
        /\ snapshot = None /\ snapshot' = None
        /\ toReplay' = {}
        /\ buffer' \in {buffer \cup {ev}, {}}
        /\ Cardinality(buffer') <= MaxBufferSize
        /\ snapshotPending' \/ (state = "Bootstrapping" /\ snapshotPending' = snapshotPending)
        /\ UNCHANGED <<book, lastFinalUpdateID, published, checkpoints>>
    <3>1. CASE DiffDisconnected(ev)
      <4>1. buffer = {} /\ snapshot = None
        BY <3>1 DEF DiffDisconnected, IInv, FlagsInv
      <4>2. /\ state' = "Bootstrapping" /\ snapshotPending' = TRUE
            /\ buffer' = buffer \cup {ev} /\ snapshot' = None
            /\ UNCHANGED <<toReplay, book, lastFinalUpdateID, published, checkpoints>>
        BY <3>1, <4>1 DEF DiffDisconnected, bookVars, sinkVars
      <4>3. buffer \cup {ev} = {ev}
        BY <4>1
      <4>4. Cardinality(buffer') = 1
        BY <4>2, <4>3, FS_Singleton
      <4> QED BY <1>6, <4>1, <4>2, <4>4, MaxBufferAssumption
    <3>2. CASE DiffNoSnapshot(ev)
      <4>1. /\ state = "Bootstrapping" /\ state' = state
            /\ snapshot = None /\ snapshot' = snapshot
            /\ UNCHANGED <<toReplay, book, lastFinalUpdateID, published, checkpoints>>
        BY <3>2 DEF DiffNoSnapshot, fetchVars, bookVars, sinkVars
      <4>2. CASE Overflows(buffer \cup {ev})
        <5>1. buffer' = {} /\ snapshotPending' = TRUE
          BY <3>2, <4>2 DEF DiffNoSnapshot
        <5> QED BY <1>6, <1>7, <4>1, <5>1, MaxBufferAssumption
      <4>3. CASE ~Overflows(buffer \cup {ev})
        <5>1. buffer' = buffer \cup {ev} /\ snapshotPending' = snapshotPending
          BY <3>2, <4>3 DEF DiffNoSnapshot, fetchVars
        <5>2. Cardinality(buffer') <= MaxBufferSize
          BY <1>5, <4>3, <5>1, MaxBufferAssumption DEF Overflows
        <5> QED BY <1>6, <4>1, <5>1, <5>2
      <4> QED BY <4>2, <4>3
    <3> QED BY <1>9, <3>1, <3>2
  <2>2. BufferInv'
    BY <1>3, <1>7, <2>1 DEF BufferInv, BufferBounded, OnWire, Contiguous
  <2>3. FlagsInv' /\ ReplayInv'
    BY <2>1 DEF FlagsInv, ReplayInv, BookInUse, Continues
  <2>4. FetchMeetsBootstrap' /\ NoMissedAlignment'
    BY <2>1 DEF FetchMeetsBootstrap, NoMissedAlignment, LockFree
  <2>5. NeverStranded'
    BY <2>1 DEF IInv, NeverStranded
  <2>6. PublishedInv'
    <3>1. Newest' = Newest
      BY <2>1 DEF Newest, Feed!NewestId
    <3> QED BY <1>2, <1>4, <2>1, <3>1 DEF PublishedInv, BookInUse
  <2>7. BooksInv'
    BY <2>1 DEF IInv, BooksInv, BookInUse, CheckpointsTrackMarket
  <2> QED BY <2>2, <2>3, <2>4, <2>5, <2>6, <2>7 DEF IInv
<1> QED BY <1>8, <1>9

(* HandleDiff on a synced handler.                                         *)
LEMMA DiffSyncedInv ==
  ASSUME IInv, TypeOK', LockFree, NEW ev \in NextEvents, wireID' = ev.final,
         UNCHANGED <<exchangeID, cancelled>>,
         DiffInSequence(ev) \/ DiffAfterGap(ev)
  PROVE  IInv'
<1>1. TypeOK
  BY DEF IInv
<1>2. /\ ev \in Events
      /\ ev.first = wireID + 1
      /\ ev.first <= ev.final
      /\ wireID \in Nat /\ ev.final \in Nat
  BY <1>1, MaxIdAssumption, NextEventsType DEF TypeOK
<1>3. /\ state = "Synced"
      /\ buffer = {} /\ snapshot = None /\ toReplay = {} /\ ~snapshotPending
      /\ book.id = lastFinalUpdateID /\ lastFinalUpdateID <= wireID
      /\ lastFinalUpdateID \in Nat
  BY <1>1, MaxIdAssumption
     DEF DiffInSequence, DiffAfterGap, IInv, FlagsInv, FetchMeetsBootstrap, BookInUse, TypeOK
<1>4. Newest \in Nat /\ Newest <= lastFinalUpdateID
  BY <1>1, <1>3, NewestType, MaxIdAssumption DEF IInv, PublishedInv, BookInUse
<1>5. /\ IsFiniteSet({}) /\ Cardinality({}) = 0
      /\ IsFiniteSet({ev}) /\ Cardinality({ev}) = 1
  BY FS_EmptySet, FS_Singleton
<1>6. CASE DiffInSequence(ev)
  <2>1. /\ UNCHANGED <<state, buffer, snapshot, snapshotPending, toReplay>>
        /\ ev.first = lastFinalUpdateID + 1
        /\ book' = Apply(book, ev)
        /\ lastFinalUpdateID' = ev.final
        /\ PublishL2(book')
        /\ \/ checkpoints' = checkpoints \cup {Snapshot(book')}
           \/ checkpoints' = checkpoints
    BY <1>6 DEF DiffInSequence, InSequence, fetchVars
  <2>2. book' \in Snapshots /\ book'.id = ev.final
    BY <1>1, <1>2, <2>1, ApplyType DEF TypeOK, Apply
  <2>3. Newest' = ev.final \/ Newest' = Newest
    BY <1>1, <2>1, <2>2, NewestAfterPublish
  <2>4. BufferInv'
    BY <1>3, <1>5, <2>1, MaxBufferAssumption
       DEF BufferInv, BufferBounded, OnWire, Contiguous
  <2>5. FlagsInv' /\ ReplayInv'
    BY <1>2, <1>3, <2>1, <2>2 DEF FlagsInv, ReplayInv, BookInUse, Continues
  <2>6. FetchMeetsBootstrap' /\ NoMissedAlignment' /\ NeverStranded'
    BY <1>3, <2>1 DEF FetchMeetsBootstrap, NoMissedAlignment, NeverStranded
  <2>7. PublishedInv'
    BY <1>2, <1>3, <1>4, <2>1, <2>3 DEF PublishedInv, BookInUse
  <2>8. BooksInv'
    <3>1. LosslessBootstrap => Tracks(book)
      BY <1>3 DEF IInv, BooksInv, BookInUse
    <3>2. LosslessBootstrap => Tracks(book')
      BY <1>1, <1>2, <1>3, <2>1, <3>1, ApplyTracks DEF TypeOK
    <3>3. LosslessBootstrap => Tracks(Snapshot(book'))
      BY <2>2, <3>2, SnapshotTracks
    <3> QED BY <1>3, <2>1, <3>2, <3>3 DEF IInv, BooksInv, CheckpointsTrackMarket
  <2> QED BY <2>4, <2>5, <2>6, <2>7, <2>8 DEF IInv
<1>7. CASE DiffAfterGap(ev)
  <2>1. /\ state' = "Bootstrapping" /\ snapshot' = None /\ snapshotPending' = TRUE
        /\ buffer' = {ev} /\ toReplay' = {}
        /\ UNCHANGED <<published, checkpoints>>
    BY <1>3, <1>7 DEF DiffAfterGap, sinkVars
  <2>2. BufferInv'
    <3>1. OnWire({ev}, wireID') /\ Contiguous({ev}, wireID')
      BY <1>2 DEF OnWire, Contiguous
    <3> QED BY <1>5, <2>1, <3>1, MaxBufferAssumption DEF BufferInv, BufferBounded
  <2>3. FlagsInv' /\ ReplayInv'
    BY <2>1 DEF FlagsInv, ReplayInv, BookInUse, Continues
  <2>4. FetchMeetsBootstrap' /\ NoMissedAlignment' /\ NeverStranded'
    BY <2>1 DEF FetchMeetsBootstrap, NoMissedAlignment, NeverStranded, LockFree
  <2>5. PublishedInv'
    <3>1. Newest' = Newest
      BY <2>1 DEF Newest, Feed!NewestId
    <3> QED BY <1>2, <1>3, <1>4, <2>1, <3>1 DEF PublishedInv, BookInUse
  <2>6. BooksInv'
    BY <2>1 DEF IInv, BooksInv, BookInUse, CheckpointsTrackMarket
  <2> QED BY <2>2, <2>3, <2>4, <2>5, <2>6 DEF IInv
<1> QED BY <1>6, <1>7

(* One event of the replay of an aligned buffer.                           *)
LEMMA ReplayInvStep ==
  ASSUME IInv, TypeOK', ReplayEvent
  PROVE  IInv'
<1>1. TypeOK
  BY DEF IInv
<1>2. PICK ev \in toReplay :
        /\ \A other \in toReplay : ev.first <= other.first
        /\ book' = Apply(book, ev)
        /\ lastFinalUpdateID' = ev.final
        /\ PublishL2(book')
        /\ toReplay' = toReplay \ {ev}
        /\ \/ /\ toReplay' # {}
              /\ UNCHANGED <<state, buffer, snapshot, diffsSinceCheckpoint>>
           \/ /\ toReplay' = {}
              /\ state' = "Synced"
              /\ buffer' = {}
              /\ snapshot' = None
              /\ diffsSinceCheckpoint' = 0
        /\ UNCHANGED <<envVars, snapshotPending, snapshotStale, checkpoints>>
  BY DEF ReplayEvent
<1>3. UNCHANGED <<exchangeID, wireID, cancelled, snapshotPending, checkpoints>>
  BY <1>2 DEF envVars
<1>4. \A e \in buffer : /\ e \in Events /\ e.first \in Nat /\ e.final \in Nat
                        /\ e.first <= e.final
  BY <1>1, MaxIdAssumption DEF TypeOK, Events, UpdateIds
<1>5. wireID \in Nat /\ lastFinalUpdateID \in Nat
  BY <1>1, MaxIdAssumption DEF TypeOK
<1>6. /\ toReplay # {} /\ toReplay \subseteq buffer /\ ev \in buffer
      /\ state = "Bootstrapping"
      /\ snapshot # None
      /\ ~snapshotPending
      /\ book.id = lastFinalUpdateID
      /\ ev.final > lastFinalUpdateID
      /\ ev.final <= wireID
  BY <1>1, <1>2 DEF IInv, TypeOK, FlagsInv, ReplayInv, BufferInv, OnWire, BookInUse,
                    FetchMeetsBootstrap, LockFree
<1>7. \A e \in toReplay' : e \in buffer /\ e \in toReplay /\ ev.final < e.first
  <2> SUFFICES ASSUME NEW e \in toReplay'
               PROVE  e \in buffer /\ e \in toReplay /\ ev.final < e.first
    OBVIOUS
  <2>1. e \in toReplay /\ e \in buffer /\ e # ev /\ ev.first <= e.first
    BY <1>2, <1>6
  <2>2. ev.final < e.first \/ e.final < ev.first
    BY <1>6, <2>1 DEF IInv, BufferInv, OnWire
  <2> QED BY <1>4, <1>6, <2>1, <2>2
<1>8. book' \in Snapshots /\ book'.id = ev.final
  BY <1>1, <1>2, <1>4, <1>6, ApplyType DEF TypeOK, Apply
<1>9. Newest' \in Nat /\ Newest' <= ev.final
  <2>1. Newest' = ev.final \/ Newest' = Newest
    BY <1>1, <1>2, <1>8, NewestAfterPublish
  <2>2. Newest \in Nat /\ Newest <= lastFinalUpdateID
    BY <1>1, <1>6, NewestType, MaxIdAssumption DEF IInv, PublishedInv, BookInUse
  <2> QED BY <1>4, <1>5, <1>6, <2>1, <2>2
<1>10. LosslessBootstrap => Tracks(book')
  <2> SUFFICES ASSUME LosslessBootstrap PROVE Tracks(book')
    OBVIOUS
  <2>1. Tracks(book)
    BY <1>6 DEF IInv, BooksInv, BookInUse
  <2>2. PICK e \in toReplay : e.first <= lastFinalUpdateID + 1
    BY <1>6 DEF IInv, ReplayInv, Continues
  <2>3. ev.first <= book.id + 1
    BY <1>2, <1>4, <1>5, <1>6, <2>2
  <2> QED BY <1>1, <1>2, <1>4, <1>6, <2>1, <2>3, ApplyTracks DEF TypeOK
<1>11. LosslessBootstrap => Continues(toReplay', ev.final)
  <2> SUFFICES ASSUME LosslessBootstrap, NEW e \in toReplay'
               PROVE  \E nxt \in toReplay' : nxt.first <= ev.final + 1
    BY DEF Continues
  <2>1. e \in buffer /\ ev.final < e.final /\ e.final <= wireID
    BY <1>4, <1>6, <1>7 DEF IInv, BufferInv, OnWire
  <2>2. ev.final # wireID
    BY <1>4, <1>5, <1>6, <2>1
  <2>3. PICK nxt \in buffer : nxt.first = ev.final + 1
    BY <1>6, <2>2 DEF IInv, BufferInv, Contiguous
  <2>4. nxt \in toReplay
    BY <1>4, <1>6, <2>3 DEF IInv, ReplayInv
  <2>5. nxt # ev
    BY <1>4, <1>6, <2>3
  <2> QED BY <1>2, <1>4, <2>3, <2>4, <2>5
<1>12. CASE toReplay' # {}
  <2>1. UNCHANGED <<state, buffer, snapshot>>
    BY <1>2, <1>12
  <2>2. BufferInv'
    BY <1>3, <1>12, <2>1 DEF IInv, BufferInv, BufferBounded, LockFree
  <2>3. FlagsInv'
    BY <1>2, <1>3, <1>6, <1>8, <2>1 DEF FlagsInv, BookInUse
  <2>4. ReplayInv'
    <3>1. \A e \in toReplay', other \in buffer' : e.first <= other.first => other \in toReplay'
      <4> SUFFICES ASSUME NEW e \in toReplay', NEW other \in buffer, e.first <= other.first
                   PROVE  other \in toReplay'
        BY <2>1
      <4>1. other \in toReplay
        BY <1>7 DEF IInv, ReplayInv
      <4>2. other # ev
        BY <1>4, <1>6, <1>7
      <4> QED BY <1>2, <4>1, <4>2
    <3>2. \A e \in toReplay' : e.final > lastFinalUpdateID'
      BY <1>2, <1>4, <1>6, <1>7
    <3> QED BY <1>2, <1>6, <1>11, <2>1, <3>1, <3>2 DEF ReplayInv
  <2>5. FetchMeetsBootstrap' /\ NeverStranded' /\ NoMissedAlignment'
    BY <1>3, <1>6, <1>12, <2>1 DEF FetchMeetsBootstrap, NeverStranded, NoMissedAlignment, LockFree
  <2>6. PublishedInv'
    BY <1>2, <1>3, <1>4, <1>5, <1>6, <1>9, <1>12 DEF PublishedInv, LockFree
  <2>7. BooksInv'
    BY <1>3, <1>10, <2>1 DEF IInv, BooksInv, CheckpointsTrackMarket
  <2> QED BY <2>2, <2>3, <2>4, <2>5, <2>6, <2>7 DEF IInv
<1>13. CASE toReplay' = {}
  <2>1. state' = "Synced" /\ buffer' = {} /\ snapshot' = None
    BY <1>2, <1>13
  <2>2. IsFiniteSet({}) /\ Cardinality({}) = 0
    BY FS_EmptySet
  <2>3. BufferInv'
    BY <2>1, <2>2, MaxBufferAssumption DEF BufferInv, BufferBounded, OnWire, Contiguous
  <2>4. FlagsInv' /\ ReplayInv'
    BY <1>2, <1>3, <1>6, <1>8, <1>13, <2>1 DEF FlagsInv, ReplayInv, BookInUse, Continues
  <2>5. FetchMeetsBootstrap' /\ NeverStranded' /\ NoMissedAlignment'
    BY <1>3, <1>6, <2>1 DEF FetchMeetsBootstrap, NeverStranded, NoMissedAlignment
  <2>6. PublishedInv'
    BY <1>2, <1>3, <1>4, <1>5, <1>6, <1>9, <2>1 DEF PublishedInv
  <2>7. BooksInv'
    BY <1>3, <1>10, <2>1 DEF IInv, BooksInv, CheckpointsTrackMarket
  <2> QED BY <2>3, <2>4, <2>5, <2>6, <2>7 DEF IInv
<1> QED BY <1>12, <1>13

(* The answers of the fetch goroutine.                                     *)
LEMMA FetchInv ==
  ASSUME IInv, TypeOK', FetchSucceeds \/ FetchIsStale \/ FetchFails
  PROVE  IInv'
<1>1. TypeOK /\ BufferInv
  BY DEF IInv
<1>2. snapshotPending /\ LockFree /\ state = "Bootstrapping" /\ snapshot = None
  BY DEF FetchSucceeds, FetchIsStale, FetchFails, IInv, FetchMeetsBootstrap
<1>3. CASE FetchSucceeds
  <2>1. PICK u \in 1 .. exchangeID : TryAlign(buffer, RestSnapshot(u), FALSE)
    BY <1>3 DEF FetchSucceeds
  <2>2. UNCHANGED <<state, sinkVars>> /\ wireID' = wireID
    BY <1>3 DEF FetchSucceeds, envVars
  <2>3. u \in UpdateIds
    BY <1>1, MaxIdAssumption DEF TypeOK, UpdateIds
  <2>4. RestSnapshot(u) \in Snapshots /\ Tracks(RestSnapshot(u))
    BY <2>3, RestSnapshotType, RestSnapshotTracks
  <2>5. /\ OnWire(buffer, wireID')
        /\ LosslessBootstrap => Contiguous(buffer, wireID')
        /\ IsFiniteSet(buffer)
        /\ wireID <= wireID'
        /\ buffer \in SUBSET Events
    BY <1>1, <2>2, MaxIdAssumption DEF BufferInv, TypeOK
  <2>6. \A ev \in buffer : Newest < ev.first
    BY <1>2 DEF IInv, PublishedInv
  <2> HIDE <1>3
  <2> QED BY <1>2, <2>1, <2>2, <2>4, <2>5, <2>6, AlignStepInv
<1>4. CASE FetchIsStale \/ FetchFails
  <2>1. /\ UNCHANGED <<exchangeID, wireID, cancelled, state, buffer, snapshot, bookVars, sinkVars>>
        /\ snapshotPending' = TRUE \/ cancelled
        /\ snapshotPending' \in BOOLEAN
    BY <1>2, <1>4
       DEF FetchIsStale, FetchFails, RefetchAfterStale, RefetchAfterError, envVars
  <2>2. UNCHANGED <<book, lastFinalUpdateID, toReplay, published, checkpoints>>
    BY <2>1 DEF bookVars, sinkVars
  <2>3. BufferInv' /\ FlagsInv' /\ ReplayInv'
    BY <2>1, <2>2 DEF IInv, BufferInv, BufferBounded, LockFree, FlagsInv, ReplayInv, BookInUse
  <2>4. FetchMeetsBootstrap' /\ NeverStranded' /\ NoMissedAlignment'
    BY <1>2, <2>1, <2>2 DEF FetchMeetsBootstrap, NeverStranded, NoMissedAlignment, LockFree
  <2>5. PublishedInv'
    <3>1. Newest' = Newest
      BY <2>2 DEF Newest, Feed!NewestId
    <3> QED BY <2>1, <2>2, <3>1 DEF IInv, PublishedInv, BookInUse, LockFree
  <2>6. BooksInv'
    BY <2>1, <2>2 DEF IInv, BooksInv, BookInUse, CheckpointsTrackMarket
  <2> QED BY <2>3, <2>4, <2>5, <2>6 DEF IInv
<1> QED BY <1>3, <1>4

(* Every step preserves the inductive invariant.                           *)
LEMMA NextInv == IInv /\ [Next]_vars => IInv'
<1> SUFFICES ASSUME IInv, [Next]_vars
             PROVE  IInv'
  OBVIOUS
<1>1. TypeOK'
  BY TypeNext DEF IInv
<1>2. CASE ExchangeUpdate \/ LoseEvent \/ Cancel
  BY <1>1, <1>2, EnvironmentInv
<1>3. CASE HandleDiff
  <2>1. LockFree
    BY <1>3 DEF HandleDiff
  <2>2. PICK ev \in NextEvents :
          /\ wireID' = ev.final
          /\ UNCHANGED <<exchangeID, cancelled>>
          /\ \/ DiffDisconnected(ev)
             \/ DiffWithSnapshot(ev)
             \/ DiffNoSnapshot(ev)
             \/ DiffInSequence(ev)
             \/ DiffAfterGap(ev)
    BY <1>3 DEF HandleDiff
  <2>3. CASE DiffDisconnected(ev) \/ DiffWithSnapshot(ev) \/ DiffNoSnapshot(ev)
    BY <1>1, <2>1, <2>2, <2>3, DiffBootstrappingInv
  <2>4. CASE DiffInSequence(ev) \/ DiffAfterGap(ev)
    BY <1>1, <2>1, <2>2, <2>4, DiffSyncedInv
  <2> QED BY <2>2, <2>3, <2>4
<1>4. CASE ReplayEvent
  BY <1>1, <1>4, ReplayInvStep
<1>5. CASE FetchSucceeds \/ FetchIsStale \/ FetchFails
  BY <1>1, <1>5, FetchInv
<1>6. CASE UNCHANGED vars
  <2>1. UNCHANGED <<exchangeID, wireID, cancelled, state, buffer, snapshot, snapshotPending,
                    book, lastFinalUpdateID, toReplay, published, checkpoints>>
    BY <1>6 DEF vars, envVars, fetchVars, bookVars, sinkVars
  <2>2. BufferInv' /\ FlagsInv' /\ ReplayInv'
    BY <2>1 DEF IInv, BufferInv, BufferBounded, LockFree, FlagsInv, ReplayInv, BookInUse
  <2>3. FetchMeetsBootstrap' /\ NeverStranded' /\ NoMissedAlignment'
    BY <2>1 DEF IInv, FetchMeetsBootstrap, NeverStranded, NoMissedAlignment, LockFree
  <2>4. PublishedInv'
    <3>1. Newest' = Newest
      BY <2>1 DEF Newest, Feed!NewestId
    <3> QED BY <2>1, <3>1 DEF IInv, PublishedInv, BookInUse, LockFree
  <2>5. BooksInv'
    BY <2>1 DEF IInv, BooksInv, BookInUse, CheckpointsTrackMarket
  <2> QED BY <1>1, <2>2, <2>3, <2>4, <2>5 DEF IInv
<1> QED BY <1>2, <1>3, <1>4, <1>5, <1>6 DEF Next

LEMMA HandlerInvariant == Spec => []IInv
<1>1. Init => IInv
  BY InitInv
<1>2. IInv /\ [Next]_vars => IInv'
  BY NextInv
<1> QED BY <1>1, <1>2, PTL DEF Spec

-------------------------------------------------------------------------------
(* What the invariant is for.                                              *)

(* No failed, stale or overtaken fetch leaves a bootstrapping handler with *)
(* neither a snapshot nor a fetch under way (handleSnapshotErrorLocked,    *)
(* runSnapshotFetch), whatever the stream loses.                           *)
THEOREM NeverStrandedHolds == Spec => []NeverStranded
<1>1. IInv => NeverStranded
  BY DEF IInv
<1> QED BY <1>1, HandlerInvariant, PTL

(* A fetch never delivers to a handler that is synced, is replaying or     *)
(* holds a snapshot already (tryAlignLocked relies on it).                 *)
THEOREM FetchMeetsBootstrapHolds == Spec => []FetchMeetsBootstrap
<1>1. IInv => FetchMeetsBootstrap
  BY DEF IInv
<1> QED BY <1>1, HandlerInvariant, PTL

(* A buffered event that aligns with the snapshot is never left waiting    *)
(* (HandleDiff and runSnapshotFetch both run tryAlignLocked).              *)
THEOREM NoMissedAlignmentHolds == Spec => []NoMissedAlignment
<1>1. IInv => NoMissedAlignment
  BY DEF IInv
<1> QED BY <1>1, HandlerInvariant, PTL

(* The buffer never outgrows cfg.MaxBufferSize.                            *)
THEOREM BufferBoundedHolds == Spec => []BufferBounded
<1>1. IInv => BufferBounded
  BY DEF IInv, BufferInv
<1> QED BY <1>1, HandlerInvariant, PTL

(* When no event is lost during a bootstrap, a book in use is the          *)
(* exchange's book, through any gap, resync and overflow (ADR-001: "A      *)
(* corrupted book must never be used").                                    *)
THEOREM BookTracksMarketHolds ==
  ASSUME LosslessBootstrap
  PROVE  Spec => []BookTracksMarket
<1>1. IInv => BookTracksMarket
  BY DEF IInv, FlagsInv, BooksInv, BookTracksMarket
<1> QED BY <1>1, HandlerInvariant, PTL

(* Under the same assumption every checkpoint ever stored is a true book.  *)
THEOREM CheckpointsTrackMarketHolds ==
  ASSUME LosslessBootstrap
  PROVE  Spec => []CheckpointsTrackMarket
<1>1. IInv => CheckpointsTrackMarket
  BY DEF IInv, BooksInv
<1> QED BY <1>1, HandlerInvariant, PTL

(* Publishing a true book of a later update is a step of the feed.         *)
LEMMA PublishIsFeedStep ==
  ASSUME TypeOK, NEW bk \in Snapshots, Tracks(bk), bk.id > Newest, PublishL2(bk)
  PROVE  [Feed!Next]_published
<1>1. CASE published' = published
  BY <1>1
<1>2. CASE published' = Append(published, Snapshot(bk))
  <2> DEFINE top == TopLevels(bk.levels)
             shown == IF Cardinality(Prices) <= DepthLimit THEN Prices
                      ELSE {p \in Prices : top[p] # 0}
  <2>1. bk.id \in UpdateIds /\ shown \in SUBSET Prices
    BY DEF Tracks, Sound
  <2>2. top = [p \in Prices |-> IF p \in shown THEN Market[bk.id][p] ELSE 0]
    <3>1. CASE Cardinality(Prices) <= DepthLimit
      <4>1. top = bk.levels /\ bk.levels = Market[bk.id]
        BY <3>1, TopLevelsKeepAll DEF Tracks, Exact, Snapshots
      <4>2. Market[bk.id] = [p \in Prices |-> Market[bk.id][p]]
        BY <2>1, MarketAssumption DEF Levels
      <4> QED BY <3>1, <4>1, <4>2
    <3>2. CASE ~(Cardinality(Prices) <= DepthLimit)
      BY <3>2 DEF Tracks, Sound, TopLevels
    <3> QED BY <3>1, <3>2
  <2>3. Snapshot(bk) = Feed!Entry(bk.id, shown)
    BY <2>2 DEF Snapshot, Feed!Entry
  <2>4. Feed!Cardinality(Prices) <= DepthLimit => shown = Prices
    <3>1. Feed!Cardinality(Prices) = Cardinality(Prices)
      BY DEF Cardinality, Feed!Cardinality
    <3> QED BY <3>1
  <2> HIDE DEF shown, top
  <2>5. bk.id > Feed!NewestId(published)
    BY DEF Newest
  <2>6. published' = Append(published, Feed!Entry(bk.id, shown))
    BY <1>2, <2>3
  <2> QED BY <2>1, <2>4, <2>5, <2>6
             DEF UpdateIds, Feed!Next, Feed!Publish, Feed!UpdateIds
<1> QED BY <1>1, <1>2 DEF PublishL2

(* Every step of the handler is a step of the feed or leaves it alone.     *)
LEMMA StepRefines ==
  ASSUME LosslessBootstrap, IInv, IInv', [Next]_vars
  PROVE  [Feed!Next]_published
<1>1. TypeOK
  BY DEF IInv
<1>2. CASE published' = published
  BY <1>2
<1>3. CASE HandleDiff
  <2>1. PICK ev \in NextEvents : \/ DiffDisconnected(ev) \/ DiffWithSnapshot(ev)
                                \/ DiffNoSnapshot(ev) \/ DiffInSequence(ev)
                                \/ DiffAfterGap(ev)
    BY <1>3 DEF HandleDiff
  <2>2. CASE DiffInSequence(ev)
    <3>1. /\ state = "Synced" /\ state' = "Synced"
          /\ ev.first = lastFinalUpdateID + 1
          /\ book' = Apply(book, ev)
          /\ PublishL2(book')
      BY <2>2 DEF DiffInSequence, InSequence
    <3>2. Tracks(book')
      BY <3>1 DEF IInv, BooksInv, BookInUse
    <3>3. /\ ev \in Events /\ ev.first \in Nat /\ ev.final \in Nat
          /\ ev.first <= ev.final
      BY <1>1, NextEventsType, MaxIdAssumption DEF Events, UpdateIds
    <3>4. book' \in Snapshots /\ book'.id = ev.final
      BY <1>1, <3>1, <3>3, ApplyType DEF TypeOK, Apply
    <3>5. Newest \in Nat /\ Newest <= lastFinalUpdateID /\ lastFinalUpdateID \in Nat
      BY <1>1, <3>1, NewestType, MaxIdAssumption
         DEF IInv, PublishedInv, BookInUse, TypeOK
    <3>6. book'.id > Newest
      BY <3>1, <3>3, <3>4, <3>5
    <3> QED BY <1>1, <3>1, <3>2, <3>4, <3>6, PublishIsFeedStep
  <2>3. CASE \/ DiffDisconnected(ev) \/ DiffWithSnapshot(ev)
             \/ DiffNoSnapshot(ev) \/ DiffAfterGap(ev)
    <3>1. published' = published
      BY <2>3 DEF DiffDisconnected, DiffWithSnapshot, DiffNoSnapshot, DiffAfterGap, sinkVars
    <3> QED BY <3>1
  <2> QED BY <2>1, <2>2, <2>3
<1>4. CASE ReplayEvent
  <2>1. PICK ev \in toReplay :
          /\ book' = Apply(book, ev)
          /\ PublishL2(book')
          /\ toReplay' # {} \/ state' = "Synced"
    BY <1>4 DEF ReplayEvent
  <2>2. ev \in Events /\ ev.final \in Nat
    BY <1>1, MaxIdAssumption DEF TypeOK, Events, UpdateIds
  <2>3. book' \in Snapshots /\ book'.id = ev.final
    BY <1>1, <2>1, <2>2, ApplyType DEF TypeOK, Apply
  <2>4. Tracks(book')
    BY <2>1 DEF IInv, BooksInv, BookInUse
  <2>5. /\ Newest \in Nat /\ lastFinalUpdateID \in Nat
        /\ Newest <= lastFinalUpdateID /\ lastFinalUpdateID < ev.final
    BY <1>1, <2>2, NewestType, MaxIdAssumption
       DEF IInv, PublishedInv, ReplayInv, BookInUse, TypeOK
  <2>6. book'.id > Newest
    BY <2>2, <2>3, <2>5
  <2> QED BY <1>1, <2>1, <2>3, <2>4, <2>6, PublishIsFeedStep
<1>5. CASE ExchangeUpdate \/ LoseEvent \/ Cancel \/ FetchSucceeds \/ FetchIsStale
           \/ FetchFails \/ UNCHANGED vars
  <2>1. published' = published
    BY <1>5 DEF ExchangeUpdate, LoseEvent, Cancel, FetchSucceeds, FetchIsStale,
                FetchFails, sinkVars, vars
  <2> QED BY <2>1
<1> QED BY <1>3, <1>4, <1>5 DEF Next

(* When no event is lost during a bootstrap, the live stream is an L2Feed: *)
(* ids only grow and every level shown is the exchange's, whatever gaps,   *)
(* resyncs, stale snapshots and failed writes lie between two entries      *)
(* (publishL2Locked after every event of handleSyncedLocked and of         *)
(* replayAlignedBufferLocked).                                             *)
THEOREM HandlerImplementsFeed ==
  ASSUME LosslessBootstrap
  PROVE  Spec => FeedSpec
<1>1. Init => Feed!Init
  BY DEF Init, Feed!Init
<1>2. IInv /\ IInv' /\ [Next]_vars => [Feed!Next]_published
  BY StepRefines
<1> QED BY <1>1, <1>2, HandlerInvariant, PTL DEF Spec, FeedSpec, Feed!Spec

-------------------------------------------------------------------------------
(* Every published entry is the state after a diff that is in the log.     *)

(* A step that publishes the book after ev also logs ev, when the log      *)
(* cannot fail.                                                            *)
LEMMA PublishAndLog ==
  ASSUME TypeOK, PublishedIsLogged, NEW ev \in Events,
         NEW bk \in Snapshots, bk.id = ev.final,
         PublishL2(bk), WriteDiff(ev), UNCHANGED cancelled
  PROVE  PublishedIsLogged'
<1> SUFFICES ASSUME "diff" \notin Faulty, ~cancelled,
                    NEW i \in 1 .. Len(published')
             PROVE  \E e \in diffLog' : e.final = published'[i].id
  BY DEF PublishedIsLogged
<1>1. diffLog' = diffLog \cup {ev}
  BY DEF WriteDiff, WriteOutcomes
<1>2. published' = published \/ published' = Append(published, Snapshot(bk))
  BY DEF PublishL2
<1>3. CASE i \in 1 .. Len(published) /\ published'[i] = published[i]
  BY <1>1, <1>3 DEF PublishedIsLogged
<1>4. CASE published'[i] = Snapshot(bk)
  BY <1>1, <1>4 DEF Snapshot
<1> QED BY <1>2, <1>3, <1>4, SnapshotType DEF TypeOK

LEMMA PublishedIsLoggedNext ==
  TypeOK /\ PublishedIsLogged /\ [Next]_vars => PublishedIsLogged'
<1> SUFFICES ASSUME TypeOK, PublishedIsLogged, [Next]_vars
             PROVE  PublishedIsLogged'
  OBVIOUS
<1>1. cancelled' = cancelled \/ cancelled' = TRUE
  BY DEF Next, ExchangeUpdate, LoseEvent, Cancel, HandleDiff, ReplayEvent, FetchSucceeds,
         FetchIsStale, FetchFails, vars, envVars
<1>2. CASE UNCHANGED <<published, diffLog>>
  BY <1>1, <1>2 DEF PublishedIsLogged, TypeOK
<1>3. CASE HandleDiff
  <2>1. PICK ev \in NextEvents : /\ UNCHANGED <<exchangeID, cancelled>>
                                /\ \/ DiffDisconnected(ev) \/ DiffWithSnapshot(ev)
                                   \/ DiffNoSnapshot(ev) \/ DiffInSequence(ev)
                                   \/ DiffAfterGap(ev)
    BY <1>3 DEF HandleDiff
  <2>2. CASE DiffInSequence(ev)
    <3>1. ev \in Events
      BY NextEventsType
    <3>2. book' = Apply(book, ev) /\ PublishL2(book') /\ WriteDiff(ev)
      BY <2>2 DEF DiffInSequence
    <3>3. book' \in Snapshots /\ book'.id = ev.final
      BY <3>1, <3>2, ApplyType DEF TypeOK, Apply
    <3> QED BY <2>1, <3>1, <3>2, <3>3, PublishAndLog
  <2>3. CASE \/ DiffDisconnected(ev) \/ DiffWithSnapshot(ev)
             \/ DiffNoSnapshot(ev) \/ DiffAfterGap(ev)
    BY <1>2, <2>3 DEF DiffDisconnected, DiffWithSnapshot, DiffNoSnapshot, DiffAfterGap, sinkVars
  <2> QED BY <2>1, <2>2, <2>3
<1>4. CASE ReplayEvent
  <2>1. PICK ev \in toReplay : /\ book' = Apply(book, ev)
                              /\ PublishL2(book')
                              /\ WriteDiff(ev)
                              /\ UNCHANGED cancelled
    BY <1>4 DEF ReplayEvent, envVars
  <2>2. ev \in Events
    BY DEF TypeOK
  <2>3. book' \in Snapshots /\ book'.id = ev.final
    BY <2>1, <2>2, ApplyType DEF TypeOK, Apply
  <2> QED BY <2>1, <2>2, <2>3, PublishAndLog
<1>5. CASE ExchangeUpdate \/ LoseEvent \/ Cancel \/ FetchSucceeds \/ FetchIsStale
           \/ FetchFails \/ UNCHANGED vars
  BY <1>2, <1>5 DEF ExchangeUpdate, LoseEvent, Cancel, FetchSucceeds, FetchIsStale,
                    FetchFails, sinkVars, vars
<1> QED BY <1>3, <1>4, <1>5 DEF Next

(* The log keeps up with the live stream: WriteDiff follows every publish, *)
(* in sync and in the replay of a bootstrap's buffer.                      *)
THEOREM PublishedIsLoggedHolds == Spec => []PublishedIsLogged
<1>1. Init => PublishedIsLogged
  BY DEF Init, PublishedIsLogged
<1>2. TypeOK /\ PublishedIsLogged /\ [Next]_vars => PublishedIsLogged'
  BY PublishedIsLoggedNext
<1> QED BY <1>1, <1>2, TypeCorrect, PTL DEF Spec

===============================================================================
