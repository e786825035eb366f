--------------------------- MODULE LiveReadersProofs ---------------------------
(***************************************************************************)
(* Proofs about LiveReaders, for every number of entries, length of the    *)
(* stream, size of the batches, and number and kinds of faults.            *)
(*                                                                         *)
(* TypeInv is TypeOK without the bounds of the model. GroupInv says what   *)
(* the signal stream holds of the entry in hand and of those behind it,    *)
(* MissingInv what is missing of it, CacheInv where the cache stands.      *)
(***************************************************************************)
EXTENDS LiveReaders, NatLemmas, TLAPS

Signals == [entry : Nat \ {0}, name : {Names[n] : n \in DOMAIN Names}]

TypeInv ==
  /\ stream \in Seq(Kinds)
  /\ trimmed \in 0 .. Len(stream)
  /\ delivered \in 0 .. Len(stream)
  /\ pending \subseteq 1 .. delivered
  /\ signals \in Seq(Signals)
  /\ proc \in {"down", "up", "stopping"}
  /\ batch \subseteq pending
  /\ tried \in 0 .. 3
  /\ ids \in 0 .. Len(stream)
  /\ price \in 0 .. Len(stream)
  /\ cacheBatch \subseteq 1 .. Len(stream)
  /\ unsent \subseteq (1 .. delivered) \X (1 .. 3)
  /\ faults \in 0 .. MaxFaults

LEMMA NamesOfSignals ==
  /\ Len(Names) = 3 /\ DOMAIN Names = 1 .. 3
  /\ \A n \in 1 .. 3 : Names[n] \in {Names[m] : m \in DOMAIN Names}
BY DEF Names

LEMMA LeastOf ==
  ASSUME NEW S \in SUBSET Nat, S # {}
  PROVE  Least(S) \in S /\ \A m \in S : Least(S) <= m
BY LeastElement DEF Least

LEMMA GreatestOf ==
  ASSUME NEW n \in Nat, NEW S \in SUBSET (0 .. n), S # {}
  PROVE  Greatest(S) \in S /\ \A m \in S : m <= Greatest(S)
<1>1. PICK m \in S : \A k \in S : m >= k
  BY GreatestElement
<1>2. \A k \in S : k <= m
  BY <1>1
<1> QED BY <1>2 DEF Greatest

LEMMA EntryInHand ==
  ASSUME TypeInv, batch # {}
  PROVE  /\ Least(batch) \in batch /\ Least(batch) \in 1 .. delivered
         /\ \A i \in batch : Least(batch) <= i
<1>1. batch \in SUBSET Nat
  BY DEF TypeInv
<1> QED BY <1>1, LeastOf DEF TypeInv

LEMMA EntryOfCache ==
  ASSUME TypeInv, cacheBatch # {}
  PROVE  /\ InHand \in cacheBatch /\ InHand \in 1 .. Len(stream)
         /\ \A i \in cacheBatch : InHand <= i
<1>1. cacheBatch \in SUBSET Nat
  BY DEF TypeInv
<1> QED BY <1>1, LeastOf DEF TypeInv, InHand

(* What a read gives the group: the entries that follow on what it had, as *)
(* far as they are still there.                                            *)
LEMMA ReadNext ==
  ASSUME TypeInv, NEW id \in 0 .. Len(stream), NEW count \in Nat, ReadAfter(id, count) # {}
  PROVE  /\ ReadAfter(id, count) \subseteq 1 .. Len(stream)
         /\ \A i \in ReadAfter(id, count) : i > id /\ i > trimmed
         /\ Greatest(ReadAfter(id, count)) \in ReadAfter(id, count)
         /\ \A i \in ReadAfter(id, count) : i <= Greatest(ReadAfter(id, count))
         /\ \A i \in 1 .. Greatest(ReadAfter(id, count)) :
              i > id /\ i > trimmed => i \in ReadAfter(id, count)
<1>1. DOMAIN stream = 1 .. Len(stream) /\ Len(stream) \in Nat
  BY DEF TypeInv
<1>2. ReadAfter(id, count) \subseteq 1 .. Len(stream)
  BY <1>1 DEF ReadAfter
<1>3. ReadAfter(id, count) \in SUBSET (0 .. Len(stream))
  BY <1>2
<1>4. /\ Greatest(ReadAfter(id, count)) \in ReadAfter(id, count)
      /\ \A i \in ReadAfter(id, count) : i <= Greatest(ReadAfter(id, count))
  BY <1>1, <1>3, GreatestOf
<1>5. Later(id, trimmed) \in Nat
  BY <1>1 DEF Later, TypeInv
<1>6. ASSUME NEW i \in 1 .. Greatest(ReadAfter(id, count)), i > id, i > trimmed
      PROVE  i \in ReadAfter(id, count)
  <2> DEFINE top == Greatest(ReadAfter(id, count))
  <2>1. top \in 1 .. Len(stream) /\ top <= Later(id, trimmed) + count
    BY <1>2, <1>4, <1>1 DEF ReadAfter
  <2> HIDE DEF top
  <2>2. i \in 1 .. Len(stream) /\ i <= Later(id, trimmed) + count
    BY <1>5, <2>1, <1>6, <1>1 DEF top
  <2> QED BY <1>1, <1>6, <2>2 DEF ReadAfter
<1> QED BY <1>2, <1>4, <1>6 DEF ReadAfter

LEMMA TypeInit == Init => TypeInv
BY FaultsAssumption DEF Init, TypeInv, Signals

LEMMA SuffersType ==
  ASSUME TypeInv, NEW kind, Suffering(kind)
  PROVE  faults' \in 0 .. MaxFaults
BY FaultsAssumption DEF Suffering, TypeInv

LEMMA TypeStep == TypeInv /\ [Next]_vars => TypeInv'
<1> SUFFICES ASSUME TypeInv, [Next]_vars PROVE TypeInv'
  OBVIOUS
<1> USE FaultsAssumption, NamesOfSignals
<1>1. CASE EntryArrives
  <2>1. PICK kind \in Kinds : stream' = Append(stream, kind)
    BY <1>1 DEF EntryArrives
  <2>2. stream' \in Seq(Kinds) /\ Len(stream') = Len(stream) + 1 /\ Len(stream) \in Nat
    BY <2>1 DEF TypeInv
  <2>3. trimmed' \in 0 .. Len(stream')
    BY <1>1, <2>2, EntriesAssumption DEF EntryArrives, Later, TypeInv
  <2> QED BY <1>1, <2>2, <2>3 DEF EntryArrives, TypeInv, group, service, cache
<1>2. CASE StartService
  BY <1>2 DEF StartService, GroupStart, cache, TypeInv
<1>3. CASE ReadEntries
  <2>1. /\ NewEntries \subseteq 1 .. Len(stream)
        /\ Greatest(NewEntries) \in NewEntries
        /\ \A i \in NewEntries : i > delivered /\ i <= Greatest(NewEntries)
    BY <1>3, ReadNext, BatchAssumption DEF ReadEntries, NewEntries, TypeInv
  <2>2. delivered' \in 0 .. Len(stream') /\ delivered' >= delivered
    BY <1>3, <2>1 DEF ReadEntries, TypeInv
  <2>3. pending' \subseteq 1 .. delivered' /\ batch' \subseteq pending'
    BY <1>3, <2>1, <2>2 DEF ReadEntries, TypeInv
  <2>4. faults' \in 0 .. MaxFaults
    BY <1>3 DEF ReadEntries, TypeInv, Suffering
  <2>5. unsent' \subseteq (1 .. delivered') \X (1 .. 3)
    <3>1. unsent' = unsent /\ 1 .. delivered \subseteq 1 .. delivered'
      BY <1>3, <2>2 DEF ReadEntries, TypeInv
    <3> QED BY <3>1 DEF TypeInv
  <2> QED BY <1>3, <2>2, <2>3, <2>4, <2>5 DEF ReadEntries, TypeInv, cache
<1>4. CASE PublishSignal
  <2>1. tried' \in 0 .. 3 /\ tried + 1 \in 1 .. 3
    BY <1>4 DEF PublishSignal, TypeInv
  <2>2. [entry |-> Least(batch), name |-> Names[tried + 1]] \in Signals
    <3>1. Least(batch) \in Nat \ {0}
      BY <1>4, EntryInHand DEF PublishSignal, TypeInv
    <3> QED BY <2>1, <3>1 DEF Signals
  <2> DEFINE new == [entry |-> Least(batch), name |-> Names[tried + 1]]
  <2>3. signals' = signals \/ signals' = Append(signals, new)
    BY <1>4 DEF PublishSignal
  <2>6. new \in Signals
    BY <2>2
  <2> HIDE DEF new
  <2>5. signals' \in Seq(Signals)
    <3>1. signals \in Seq(Signals)
      BY DEF TypeInv
    <3>2. Append(signals, new) \in Seq(Signals)
      BY <2>6, <3>1
    <3> QED BY <2>3, <3>1, <3>2
  <2>4. faults' \in 0 .. MaxFaults
    BY <1>4 DEF PublishSignal, TypeInv, Succeeds, Fails, Suffering
  <2>7. unsent' \subseteq (1 .. delivered') \X (1 .. 3)
    <3>1. /\ delivered' = delivered /\ Least(batch) \in 1 .. delivered
          /\ unsent' \subseteq unsent \cup {<<Least(batch), tried + 1>>}
      BY <1>4, EntryInHand DEF PublishSignal
    <3> QED BY <2>1, <3>1 DEF TypeInv
  <2> QED BY <1>4, <2>1, <2>4, <2>5, <2>7 DEF PublishSignal, TypeInv, cache
<1>5. CASE AckEntry
  <2>1. batch' \subseteq pending' /\ pending' \subseteq pending
    BY <1>5, EntryInHand DEF AckEntry, Acknowledged, TypeInv
  <2>2. faults' \in 0 .. MaxFaults
    BY <1>5 DEF AckEntry, TypeInv, AckSucceeds, Succeeds, Fails, Suffering
  <2>3. pending' \subseteq 1 .. delivered'
    BY <1>5, <2>1 DEF AckEntry, TypeInv
  <2>4. UNCHANGED <<stream, trimmed, delivered, signals, unsent, proc, ids, price, cacheBatch>> /\ tried' = 0
    BY <1>5 DEF AckEntry, cache
  <2> QED BY <2>1, <2>2, <2>3, <2>4 DEF TypeInv
<1>6. CASE ServiceEnds
  BY <1>6 DEF ServiceEnds, TypeInv, group, cache
<1>7. CASE StopService
  BY <1>7 DEF StopService, TypeInv, group, cache, Suffering
<1>8. CASE CrashService
  BY <1>8 DEF CrashService, TypeInv, group, cache, Suffering
<1>9. CASE ReadCache
  <2>1. cacheBatch' \subseteq 1 .. Len(stream')
    BY <1>9, ReadNext, BatchAssumption DEF ReadCache, TypeInv
  <2> QED BY <1>9, <2>1 DEF ReadCache, TypeInv, group, service
<1>10. CASE CacheEntry
  <2>1. InHand \in 0 .. Len(stream)
    BY <1>10, EntryOfCache DEF CacheEntry
  <2> QED BY <1>10, <2>1 DEF CacheEntry, TypeInv, group, service, Remember
<1>11. CASE RestartCache
  BY <1>11 DEF RestartCache, TypeInv, group, service, Suffering
<1>12. CASE UNCHANGED vars
  BY <1>12 DEF vars, TypeInv, group, service, cache
<1> QED BY <1>1, <1>2, <1>3, <1>4, <1>5, <1>6, <1>7, <1>8, <1>9, <1>10, <1>11, <1>12
        DEF Next, Service, Cache

LEMMA TypeAlways == Spec => []TypeInv
BY TypeInit, TypeStep, PTL DEF Spec

-------------------------------------------------------------------------------
(* The order of the signals.                                               *)

LEMMA RankOf == \A n \in 1 .. 3 : Rank(Names[n]) = n
BY DEF Rank, Names

LEMMA SignalOf ==
  ASSUME TypeInv, NEW k \in DOMAIN signals
  PROVE  signals[k].entry \in Nat /\ Rank(signals[k].name) \in 1 .. 3
<1>1. signals[k] \in Signals
  BY DEF TypeInv
<1>2. signals[k].entry \in Nat /\ signals[k].name \in {Names[n] : n \in DOMAIN Names}
  BY <1>1 DEF Signals
<1>3. PICK n \in 1 .. 3 : signals[k].name = Names[n]
  BY <1>2, NamesOfSignals
<1> QED BY <1>2, <1>3, RankOf

GroupInv ==
  /\ batch = {} => tried = 0
  /\ \A k \in DOMAIN signals : signals[k].entry <= delivered
  /\ \A k \in DOMAIN signals, i \in batch :
       \/ signals[k].entry < i
       \/ i = Least(batch) /\ signals[k].entry = i /\ Rank(signals[k].name) <= tried
  /\ SignalsInOrder

LEMMA GroupInit == Init => GroupInv
BY DEF Init, GroupInv, SignalsInOrder

LEMMA GroupStep == TypeInv /\ GroupInv /\ [Next]_vars => GroupInv'
<1> SUFFICES ASSUME TypeInv, GroupInv, [Next]_vars PROVE GroupInv'
  OBVIOUS
<1> USE NamesOfSignals DEF SignalsInOrder, Before
<1>0. \A k \in DOMAIN signals : signals[k].entry \in Nat
  BY SignalOf
<1>1. CASE ReadEntries
  <2>1. /\ NewEntries \subseteq 1 .. Len(stream)
        /\ Greatest(NewEntries) \in NewEntries
        /\ \A i \in NewEntries : i > delivered /\ i <= Greatest(NewEntries)
    BY <1>1, ReadNext, BatchAssumption DEF ReadEntries, NewEntries, TypeInv
  <2>2. delivered' \in Nat /\ delivered' >= delivered /\ signals' = signals /\ tried' = 0
    <3>1. signals' = signals /\ tried' = 0
      BY <1>1 DEF ReadEntries, GroupInv
    <3>2. delivered' \in NewEntries /\ delivered' > delivered
      BY <1>1, <2>1 DEF ReadEntries
    <3> QED BY <2>1, <3>1, <3>2 DEF TypeInv
  <2>3. \A i \in batch' : i \in Nat /\ i > delivered
    <3>1. batch' \in {NewEntries, {}}
      BY <1>1 DEF ReadEntries
    <3>2. \A i \in NewEntries : i \in Nat /\ i > delivered
      BY <2>1
    <3> QED BY <3>1, <3>2
  <2>4. \A k \in DOMAIN signals : signals[k].entry <= delivered'
    BY <1>0, <2>2 DEF GroupInv, TypeInv
  <2>5. \A k \in DOMAIN signals, i \in batch' : signals[k].entry < i
    BY <1>0, <2>3 DEF GroupInv, TypeInv
  <2> QED BY <2>2, <2>4, <2>5 DEF GroupInv
<1>2. CASE PublishSignal
  <2> DEFINE e == Least(batch)
             new == [entry |-> e, name |-> Names[tried + 1]]
  <2>1. /\ e \in batch /\ e \in Nat /\ e <= delivered /\ \A i \in batch : e <= i /\ i \in Nat
        /\ tried \in 0 .. 2 /\ tried' = tried + 1 /\ batch' = batch /\ delivered' = delivered
    BY <1>2, EntryInHand DEF PublishSignal, TypeInv
  <2>2. CASE signals' = signals
    <3>1. ASSUME NEW k \in DOMAIN signals, NEW i \in batch
          PROVE  \/ signals[k].entry < i
                 \/ i = e /\ signals[k].entry = i /\ Rank(signals[k].name) <= tried'
      <4>1. Rank(signals[k].name) \in 1 .. 3
        BY SignalOf
      <4> QED BY <2>1, <4>1 DEF GroupInv
    <3> HIDE DEF e
    <3>2. batch' # {}
      BY <2>1
    <3> QED BY <2>1, <2>2, <3>1, <3>2 DEF GroupInv, e
  <2>3. CASE signals' = Append(signals, new)
    <3>1. /\ Len(signals) \in Nat /\ DOMAIN signals = 1 .. Len(signals)
          /\ DOMAIN signals' = 1 .. Len(signals) + 1
          /\ \A k \in DOMAIN signals : signals'[k] = signals[k]
          /\ signals'[Len(signals) + 1] = new
      BY <2>3 DEF TypeInv
    <3>2. new.entry = e /\ Rank(new.name) = tried + 1
      BY <2>1, RankOf
    <3> HIDE DEF new, e
    <3>3. \A k \in DOMAIN signals : Before(signals[k], new)
      <4> SUFFICES ASSUME NEW k \in DOMAIN signals PROVE Before(signals[k], new)
        OBVIOUS
      <4>1. signals[k].entry < e \/ (signals[k].entry = e /\ Rank(signals[k].name) <= tried)
        BY <2>1 DEF GroupInv
      <4>2. Rank(signals[k].name) \in 1 .. 3
        BY SignalOf
      <4> QED BY <2>1, <3>2, <4>1, <4>2
    <3>4. \A k \in DOMAIN signals' : signals'[k].entry <= delivered'
      BY <2>1, <3>1, <3>2 DEF GroupInv
    <3>5. \A k \in DOMAIN signals', i \in batch' :
            \/ signals'[k].entry < i
            \/ i = e /\ signals'[k].entry = i /\ Rank(signals'[k].name) <= tried'
      <4> SUFFICES ASSUME NEW k \in DOMAIN signals', NEW i \in batch
                   PROVE  \/ signals'[k].entry < i
                          \/ i = e /\ signals'[k].entry = i /\ Rank(signals'[k].name) <= tried'
        BY <2>1
      <4>1. CASE k = Len(signals) + 1
        BY <2>1, <3>1, <3>2, <4>1
      <4>2. CASE k \in DOMAIN signals
        <5>1. Rank(signals[k].name) \in 1 .. 3
          BY <4>2, SignalOf
        <5> QED BY <2>1, <3>1, <4>2, <5>1 DEF GroupInv, e
      <4> QED BY <3>1, <4>1, <4>2
    <3>6. \A i, j \in DOMAIN signals' : i < j => Before(signals'[i], signals'[j])
      <4> SUFFICES ASSUME NEW i \in DOMAIN signals', NEW j \in DOMAIN signals', i < j
                   PROVE  Before(signals'[i], signals'[j])
        OBVIOUS
      <4>1. i \in DOMAIN signals
        BY <3>1
      <4>2. CASE j = Len(signals) + 1
        BY <3>1, <3>3, <4>1, <4>2
      <4>3. CASE j \in DOMAIN signals
        BY <3>1, <4>1, <4>3 DEF GroupInv
      <4> QED BY <3>1, <4>2, <4>3
    <3> QED BY <2>1, <3>4, <3>5, <3>6 DEF GroupInv, e
  <2> QED BY <1>2, <2>2, <2>3 DEF PublishSignal
<1>3. CASE AckEntry
  <2> DEFINE e == Least(batch)
  <2>1. /\ e \in batch /\ \A i \in batch : e <= i /\ i \in Nat
        /\ batch' = batch \ {e} /\ tried' = 0 /\ delivered' = delivered /\ signals' = signals
    BY <1>3, EntryInHand DEF AckEntry, TypeInv
  <2>2. \A k \in DOMAIN signals, i \in batch' : signals[k].entry < i
    BY <1>0, <2>1 DEF GroupInv
  <2> QED BY <2>1, <2>2 DEF GroupInv
<1>4. CASE CrashService
  BY <1>4 DEF CrashService, GroupInv, group
<1>5. CASE EntryArrives \/ StartService \/ ServiceEnds \/ StopService \/ ReadCache
           \/ CacheEntry \/ RestartCache \/ UNCHANGED vars
  <2>1. UNCHANGED <<batch, tried, delivered, signals>>
    BY <1>5 DEF EntryArrives, StartService, GroupStart, ServiceEnds, StopService, ReadCache,
                CacheEntry, RestartCache, vars, group, service
  <2> QED BY <2>1 DEF GroupInv
<1> QED BY <1>1, <1>2, <1>3, <1>4, <1>5 DEF Next, Service, Cache

(* No signal is published twice or out of order, whatever replies are      *)
(* lost and however often the service stops, crashes and starts: the group *)
(* never gives out an entry twice, and a batch is handled oldest first     *)
(* (signals/consumer/consumer.go, readLoop, handleMessage).                *)
THEOREM SignalsInOrderHolds == Spec => []SignalsInOrder
<1>1. TypeInv /\ GroupInv => SignalsInOrder
  BY DEF GroupInv
<1> QED BY <1>1, GroupInit, GroupStep, TypeAlways, PTL DEF Spec

-------------------------------------------------------------------------------
(* The price cache.                                                        *)

CacheInv ==
  /\ ids = price
  /\ \A i \in cacheBatch : i > ids

LEMMA CacheStep == TypeInv /\ CacheInv /\ [Next]_vars => CacheInv'
<1> SUFFICES ASSUME TypeInv, CacheInv, [Next]_vars PROVE CacheInv'
  OBVIOUS
<1>1. CASE ReadCache
  <2>1. \A i \in ReadAfter(ids, CacheBatch) : i > ids
    BY DEF ReadAfter
  <2> QED BY <1>1, <2>1 DEF ReadCache, CacheInv
<1>2. CASE CacheEntry
  <2>1. \A i \in cacheBatch' : i > InHand /\ i > ids
    <3> SUFFICES ASSUME NEW i \in cacheBatch' PROVE i > InHand /\ i > ids
      OBVIOUS
    <3>1. i \in cacheBatch /\ i # InHand /\ i \in Nat /\ InHand \in Nat /\ InHand <= i
      BY <1>2, EntryOfCache DEF CacheEntry, TypeInv
    <3> QED BY <3>1 DEF CacheInv
  <2>2. \/ ids' = InHand /\ price' = InHand
        \/ ids' = ids /\ price' = price
    BY <1>2 DEF CacheEntry, Remember
  <2> QED BY <2>1, <2>2 DEF CacheInv
<1>3. CASE RestartCache
  BY <1>3 DEF RestartCache, CacheInv
<1>4. CASE EntryArrives \/ StartService \/ ReadEntries \/ PublishSignal \/ AckEntry \/ ServiceEnds
           \/ StopService \/ CrashService \/ UNCHANGED vars
  <2>1. UNCHANGED cache
    BY <1>4 DEF EntryArrives, StartService, ReadEntries, PublishSignal, AckEntry, ServiceEnds,
                StopService, CrashService, vars
  <2> QED BY <2>1 DEF CacheInv, cache
<1> QED BY <1>1, <1>2, <1>3, <1>4 DEF Next, Service, Cache

LEMMA CacheAlways == Spec => [](TypeInv /\ CacheInv)
<1>1. Init => CacheInv
  BY DEF Init, CacheInv
<1> QED BY <1>1, CacheStep, TypeAlways, PTL DEF Spec

(* The cached price never gets older within the life of a process: the     *)
(* entry in hand is newer than the remembered id, which only moves with    *)
(* the price (execution/l2cache/cache.go, readOnce, handleMessage).        *)
THEOREM PriceMovesForwardHolds == Spec => PriceMovesForward
<1>1. TypeInv /\ CacheInv /\ [Next]_vars => [price' >= price \/ RestartCache]_vars
  <2> SUFFICES ASSUME TypeInv, CacheInv, [Next]_vars, ~ RestartCache, ~ UNCHANGED vars
               PROVE  price' >= price
    OBVIOUS
  <2>1. CASE CacheEntry
    <3>1. InHand > price /\ InHand \in Nat /\ price \in Nat
      BY <2>1, EntryOfCache DEF CacheEntry, CacheInv, TypeInv
    <3> QED BY <2>1, <3>1 DEF CacheEntry, Remember
  <2>2. CASE EntryArrives \/ Service \/ StopService \/ CrashService \/ ReadCache
    <3>1. price' = price
      BY <2>2 DEF EntryArrives, Service, StartService, ReadEntries, PublishSignal, AckEntry,
                  ServiceEnds, StopService, CrashService, ReadCache, cache
    <3> QED BY <3>1 DEF TypeInv
  <2> QED BY <2>1, <2>2 DEF Next, Cache
<1> QED BY <1>1, CacheAlways, PTL DEF Spec, PriceMovesForward

(* The price is one of a quoted entry, and the stream within its bound. *)
QuoteInv ==
  /\ Len(stream) <= MaxEntries
  /\ price # 0 => stream[price] = "quoted"

LEMMA QuoteStep == TypeInv /\ QuoteInv /\ [Next]_vars => QuoteInv'
<1> SUFFICES ASSUME TypeInv, QuoteInv, [Next]_vars PROVE QuoteInv'
  OBVIOUS
<1>1. CASE EntryArrives
  <2>1. PICK kind \in Kinds : stream' = Append(stream, kind)
    BY <1>1 DEF EntryArrives
  <2>2. stream \in Seq(Kinds) /\ Len(stream) + 1 <= MaxEntries
    BY <1>1, EntriesAssumption DEF EntryArrives, TypeInv
  <2>3. Len(stream') <= MaxEntries
    BY <2>1, <2>2
  <2>4. price' # 0 => stream'[price'] = "quoted"
    <3>1. price' = price /\ price \in 0 .. Len(stream)
      BY <1>1 DEF EntryArrives, cache, TypeInv
    <3> QED BY <2>1, <2>2, <3>1 DEF QuoteInv
  <2> QED BY <2>3, <2>4 DEF QuoteInv
<1>2. CASE CacheEntry \/ RestartCache
  BY <1>2 DEF CacheEntry, RestartCache, HasPrices, Remember, QuoteInv
<1>3. CASE Service \/ StopService \/ CrashService \/ ReadCache \/ UNCHANGED vars
  <2>1. stream' = stream /\ price' = price
    BY <1>3 DEF Service, StartService, ReadEntries, PublishSignal, AckEntry, ServiceEnds,
                StopService, CrashService, ReadCache, vars, cache
  <2> QED BY <2>1 DEF QuoteInv
<1> QED BY <1>1, <1>2, <1>3 DEF Next, Cache

(* The state has its types; a signal and the cached price are those of     *)
(* entries of the stream, and what a consumer holds is pending.            *)
THEOREM ReadersTypeCorrect == Spec => []TypeOK
<1>1. Init => QuoteInv
  BY EntriesAssumption DEF Init, QuoteInv
<1>2. TypeInv /\ GroupInv /\ QuoteInv => TypeOK
  <2> SUFFICES ASSUME TypeInv, GroupInv, QuoteInv PROVE TypeOK
    OBVIOUS
  <2>1. signals \in Seq([entry : DOMAIN stream, name : {Names[n] : n \in DOMAIN Names}])
    <3>1. /\ signals \in Seq(Signals) /\ delivered \in 0 .. Len(stream)
          /\ DOMAIN stream = 1 .. Len(stream) /\ Len(stream) \in Nat
          /\ \A k \in DOMAIN signals : signals[k].entry <= delivered
      BY DEF TypeInv, GroupInv
    <3>2. ASSUME NEW k \in DOMAIN signals
          PROVE  signals[k] \in [entry : DOMAIN stream, name : {Names[n] : n \in DOMAIN Names}]
      <4> DEFINE N == {Names[n] : n \in DOMAIN Names}
      <4>1. signals[k] \in [entry : Nat \ {0}, name : N]
        <5>1. signals[k] \in Signals
          BY <3>1
        <5> QED BY <5>1 DEF Signals
      <4>2. signals[k].entry \in DOMAIN stream
        <5>1. signals[k].entry \in Nat \ {0} /\ signals[k].entry <= delivered
          BY <3>1, <4>1
        <5> QED BY <3>1, <5>1
      <4> HIDE DEF N
      <4> QED BY <4>1, <4>2 DEF N
    <3> DEFINE S == [entry : DOMAIN stream, name : {Names[n] : n \in DOMAIN Names}]
    <3>3. \A k \in DOMAIN signals : signals[k] \in S
      BY <3>2
    <3>4. Len(signals) \in Nat /\ signals = [k \in 1 .. Len(signals) |-> signals[k]]
      BY <3>1
    <3>5. DOMAIN signals = 1 .. Len(signals)
      BY <3>1
    <3> HIDE DEF S
    <3>6. signals \in Seq(S)
      BY <3>3, <3>4, <3>5
    <3> QED BY <3>6 DEF S
  <2>2. price \in {i \in DOMAIN stream : stream[i] = "quoted"} \cup {0}
    BY DEF TypeInv, QuoteInv
  <2> QED BY <2>1, <2>2, NamesOfSignals DEF TypeInv, QuoteInv, TypeOK
<1> QED BY <1>1, <1>2, QuoteStep, GroupInit, GroupStep, TypeAlways, PTL DEF Spec

-------------------------------------------------------------------------------
(* Acknowledged entries and their signals.                                 *)

(* Signals of the entry in hand that were tried and are not there. *)
Partly == {m \in {Least(batch)} \X (1 .. 3) : m[2] <= tried /\ IsMissing(m[1], m[2])}

(* The publishes that fail while the service is stopping are not among the *)
(* unsent, but then it does not acknowledge any more.                      *)
MissingInv ==
  /\ MissingSignals \subseteq unsent
  /\ proc = "up" => Partly \subseteq unsent
  /\ proc = "down" => batch = {}

(* What is missing after a step was missing before it. *)
LEMMA MissesLess ==
  ASSUME TypeInv, NEW i \in 1 .. delivered, NEW n \in 1 .. 3, IsMissing(i, n)',
         \/ stream' = stream
         \/ \E kind \in Kinds : stream' = Append(stream, kind),
         \/ signals' = signals
         \/ \E new \in Signals : signals' = Append(signals, new)
  PROVE  IsMissing(i, n)
<1>1. stream'[i] = stream[i]
  <2>1. i \in 1 .. Len(stream) /\ stream \in Seq(Kinds)
    BY DEF TypeInv
  <2> QED BY <2>1
<1>2. ASSUME NEW k \in DOMAIN signals
      PROVE  k \in DOMAIN signals' /\ signals'[k] = signals[k]
  <2>1. CASE \E new \in Signals : signals' = Append(signals, new)
    BY <1>2, <2>1 DEF TypeInv
  <2> QED BY <1>2, <2>1
<1> QED BY <1>1, <1>2 DEF IsMissing

(* A step that answers no entry and tries no signal. *)
LEMMA NothingAnswered ==
  ASSUME TypeInv, GroupInv, MissingInv, [Next]_vars,
         Answered' \subseteq Answered,
         \/ stream' = stream
         \/ \E kind \in Kinds : stream' = Append(stream, kind),
         signals' = signals, unsent' = unsent,
         tried' = 0 \/ (tried' = tried /\ batch' = batch /\ (proc' = "up" => proc = "up")),
         proc' = "down" => batch' = {}
  PROVE  MissingInv'
<1>1. MissingSignals' \subseteq MissingSignals
  <2> SUFFICES ASSUME NEW i \in Answered', NEW n \in 1 .. 3, IsMissing(i, n)'
               PROVE  IsMissing(i, n)
    BY NamesOfSignals DEF MissingSignals
  <2>1. i \in 1 .. delivered
    BY DEF Answered, TypeInv
  <2> QED BY <2>1, MissesLess
<1>2. ASSUME proc' = "up", NEW m \in Partly'
      PROVE  proc = "up" /\ m \in Partly
  <2>1. m[2] <= tried' /\ m[2] \in 1 .. 3
    BY DEF Partly
  <2>2. proc = "up" /\ tried' = tried /\ batch' = batch
    BY <1>2, <2>1
  <2>3. m \in {Least(batch)} \X (1 .. 3) /\ m[2] <= tried /\ IsMissing(m[1], m[2])'
    BY <2>2 DEF Partly
  <2>4. Least(batch) \in 1 .. delivered
    <3>1. batch # {}
      BY <2>1, <2>2 DEF GroupInv
    <3> QED BY <3>1, EntryInHand
  <2>5. m[1] = Least(batch) /\ m[2] \in 1 .. 3
    BY <2>3
  <2>6. IsMissing(m[1], m[2])
    BY <2>3, <2>4, <2>5, MissesLess
  <2> QED BY <2>2, <2>3, <2>6 DEF Partly
<1> QED BY <1>1, <1>2 DEF MissingInv

(* The signals of the entry in hand are tried one after the other. *)
LEMMA MissingPublished ==
  TypeInv /\ GroupInv /\ MissingInv /\ PublishSignal => MissingInv'
<1> SUFFICES ASSUME TypeInv, GroupInv, MissingInv, PublishSignal
             PROVE  MissingInv'
  OBVIOUS
<1> DEFINE e == Least(batch)
           new == [entry |-> e, name |-> Names[tried + 1]]
<1>1. /\ e \in 1 .. delivered /\ tried \in 0 .. 2 /\ tried' = tried + 1
      /\ batch' = batch /\ batch # {} /\ stream' = stream /\ Answered' = Answered /\ proc' = proc
  BY EntryInHand, NamesOfSignals DEF PublishSignal, Answered, TypeInv
<1>2. new \in Signals
  BY <1>1, NamesOfSignals DEF Signals, TypeInv
<1>3. /\ \/ signals' = Append(signals, new)
         \/ signals' = signals /\ (proc = "up" => <<e, tried + 1>> \in unsent')
      /\ unsent \subseteq unsent'
  BY DEF PublishSignal
<1>4. ASSUME NEW i \in 1 .. delivered, NEW n \in 1 .. 3, IsMissing(i, n)'
      PROVE  IsMissing(i, n)
  BY <1>1, <1>2, <1>3, <1>4, MissesLess
<1>5. MissingSignals' \subseteq MissingSignals
  <2>1. Answered \subseteq 1 .. delivered
    BY DEF Answered, TypeInv
  <2> QED BY <1>1, <1>4, <2>1, NamesOfSignals DEF MissingSignals
<1>6. Partly' \subseteq Partly \cup {<<e, tried + 1>>}
  <2> SUFFICES ASSUME NEW m \in Partly', m # <<e, tried + 1>>
               PROVE  m \in Partly
    OBVIOUS
  <2>1. m \in {e} \X (1 .. 3) /\ m[2] <= tried + 1 /\ IsMissing(m[1], m[2])'
    BY <1>1 DEF Partly
  <2>2. m[1] = e /\ m[2] \in 1 .. 3 /\ m = <<m[1], m[2]>>
    BY <2>1
  <2>3. m[2] <= tried
    BY <1>1, <2>1, <2>2
  <2>4. IsMissing(m[1], m[2])
    BY <1>1, <1>4, <2>1, <2>2
  <2> QED BY <2>1, <2>3, <2>4 DEF Partly
<1>7. ASSUME signals' = Append(signals, new)
      PROVE  <<e, tried + 1>> \notin Partly'
  <2>1. Len(signals) + 1 \in DOMAIN signals' /\ signals'[Len(signals) + 1] = new
    BY <1>2, <1>7 DEF TypeInv
  <2>2. ASSUME NEW m \in Partly', m = <<e, tried + 1>> PROVE FALSE
    <3>1. IsMissing(m[1], m[2])'
      BY DEF Partly
    <3>2. new = [entry |-> m[1], name |-> Names[m[2]]]
      BY <2>2
    <3> QED BY <2>1, <3>1, <3>2 DEF IsMissing
  <2> QED BY <2>2
<1>8. ASSUME proc = "up" PROVE Partly' \subseteq unsent'
  <2>1. Partly \subseteq unsent'
    BY <1>3, <1>8 DEF MissingInv
  <2>2. Partly' \subseteq Partly \/ <<e, tried + 1>> \in unsent'
    BY <1>3, <1>6, <1>7, <1>8
  <2> QED BY <1>6, <2>1, <2>2
<1>9. MissingSignals' \subseteq unsent'
  BY <1>3, <1>5 DEF MissingInv
<1> QED BY <1>1, <1>8, <1>9 DEF MissingInv

(* Once all its signals were tried the entry in hand is answered. *)
LEMMA MissingAnswered ==
  TypeInv /\ GroupInv /\ MissingInv /\ AckEntry /\ AckSucceeds => MissingInv'
<1> SUFFICES ASSUME TypeInv, GroupInv, MissingInv, AckEntry, AckSucceeds
             PROVE  MissingInv'
  OBVIOUS
<1> DEFINE e == Least(batch)
<1>1. /\ stream' = stream /\ signals' = signals /\ trimmed' = trimmed /\ delivered' = delivered
      /\ unsent' = unsent /\ proc = "up" /\ proc' = "up" /\ tried' = 0
      /\ stream[e] = "garbled" \/ tried = 3
      /\ pending \ {e} \subseteq pending'
  BY NamesOfSignals DEF AckEntry, AckSucceeds, Succeeds, Acknowledged
<1>2. MissingSignals' \subseteq MissingSignals \cup Partly
  <2> SUFFICES ASSUME NEW i \in Answered', NEW n \in 1 .. 3, IsMissing(i, n)'
               PROVE  <<i, n>> \in MissingSignals \cup Partly
    <3>1. \A m \in MissingSignals' :
            m = <<m[1], m[2]>> /\ m[1] \in Answered' /\ m[2] \in 1 .. 3 /\ IsMissing(m[1], m[2])'
      BY NamesOfSignals DEF MissingSignals
    <3> QED BY <3>1
  <2>1. IsMissing(i, n)
    BY <1>1 DEF IsMissing
  <2>2. i \in Answered \/ i = e
    BY <1>1 DEF Answered
  <2>3. CASE i \in Answered
    BY <2>1, <2>3, NamesOfSignals DEF MissingSignals
  <2>4. CASE i = e
    <3>1. tried = 3
      BY <1>1, <2>1, <2>4 DEF IsMissing
    <3> QED BY <2>1, <2>4, <3>1 DEF Partly
  <2> QED BY <2>2, <2>3, <2>4
<1>3. Partly' = {}
  BY <1>1 DEF Partly
<1> QED BY <1>1, <1>2, <1>3 DEF MissingInv

LEMMA MissingStep == TypeInv /\ GroupInv /\ MissingInv /\ [Next]_vars => MissingInv'
<1> SUFFICES ASSUME TypeInv, GroupInv, MissingInv, [Next]_vars PROVE MissingInv'
  OBVIOUS
<1>1. CASE EntryArrives
  <2>1. Answered' \subseteq Answered
    BY <1>1, EntriesAssumption DEF EntryArrives, Answered, group, TypeInv, Later
  <2> QED BY <1>1, <2>1, NothingAnswered
          DEF EntryArrives, group, service, MissingInv
<1>2. CASE StartService
  <2>1. tried' = 0
    BY <1>2 DEF StartService, MissingInv, GroupInv
  <2> QED BY <1>2, <2>1, NothingAnswered DEF StartService, GroupStart, Answered
<1>3. CASE ReadEntries
  <2>1. Answered' \subseteq Answered
    <3> SUFFICES ASSUME NEW i \in Answered' PROVE i \in Answered
      OBVIOUS
    <3>1. /\ i \in trimmed + 1 .. delivered' /\ i \notin pending /\ i \notin NewEntries
          /\ delivered' = Greatest(NewEntries) /\ NewEntries # {}
      BY <1>3 DEF ReadEntries, Answered
    <3>2. /\ Greatest(NewEntries) \in Nat /\ trimmed \in Nat /\ delivered \in Nat
          /\ \A j \in 1 .. Greatest(NewEntries) : j > delivered /\ j > trimmed => j \in NewEntries
      <4>1. delivered \in 0 .. Len(stream) /\ delivered \in Nat /\ trimmed \in Nat /\ SignalBatch \in Nat
        BY BatchAssumption DEF TypeInv
      <4>2. /\ Greatest(NewEntries) \in 1 .. Len(stream)
            /\ \A j \in 1 .. Greatest(NewEntries) : j > delivered /\ j > trimmed => j \in NewEntries
        BY <3>1, <4>1, ReadNext DEF NewEntries
      <4> QED BY <4>1, <4>2
    <3>3. i <= delivered
      BY <3>1, <3>2
    <3> QED BY <3>1, <3>2, <3>3 DEF Answered
  <2>2. tried' = 0
    BY <1>3 DEF ReadEntries, GroupInv
  <2> QED BY <1>3, <2>1, <2>2, NothingAnswered DEF ReadEntries
<1>4. CASE PublishSignal
  BY <1>4, MissingPublished
<1>5. CASE AckEntry
  <2>1. CASE AckSucceeds
    BY <1>5, <2>1, MissingAnswered
  <2>2. CASE pending' = pending
    <3>1. Answered' = Answered
      BY <1>5, <2>2 DEF AckEntry, Answered
    <3>2. proc # "down"
      BY <1>5 DEF AckEntry, MissingInv
    <3> QED BY <1>5, <3>1, <3>2, NothingAnswered DEF AckEntry
  <2> QED BY <1>5, <2>1, <2>2 DEF AckEntry
<1>6. CASE ServiceEnds \/ CrashService
  <2>1. tried' = 0 /\ batch' = {} /\ proc' = "down"
    BY <1>6 DEF ServiceEnds, CrashService, GroupInv
  <2> QED BY <1>6, <2>1, NothingAnswered DEF ServiceEnds, CrashService, group, Answered
<1>7. CASE StopService
  BY <1>7, NothingAnswered DEF StopService, group, Answered
<1>8. CASE Cache \/ RestartCache \/ UNCHANGED vars
  <2>1. /\ stream' = stream /\ trimmed' = trimmed /\ delivered' = delivered /\ pending' = pending
        /\ signals' = signals /\ unsent' = unsent /\ proc' = proc /\ batch' = batch /\ tried' = tried
    BY <1>8 DEF Cache, ReadCache, CacheEntry, RestartCache, vars, group, service
  <2> QED BY <2>1, NothingAnswered DEF Answered, MissingInv
<1> QED BY <1>1, <1>2, <1>3, <1>4, <1>5, <1>6, <1>7, <1>8 DEF Next, Service

(* What is acknowledged has its three signals, but for those whose own     *)
(* publish failed while the service was not stopping: an entry whose       *)
(* handling a stop or a crash cuts short stays pending                     *)
(* (signals/consumer/consumer.go, handleMessage, ack).                     *)
THEOREM AckedAreSignalledHolds == Spec => []AckedAreSignalled
<1>1. Init => MissingInv
  BY DEF Init, MissingInv, MissingSignals, Answered, Partly
<1>2. MissingInv => AckedAreSignalled
  BY DEF MissingInv, AckedAreSignalled
<1> QED BY <1>1, <1>2, GroupInit, GroupStep, MissingStep, TypeAlways, PTL DEF Spec

===============================================================================
