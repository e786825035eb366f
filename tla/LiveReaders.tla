------------------------------ MODULE LiveReaders ------------------------------
(***************************************************************************)
(* The two readers of the live L2 stream of a symbol: the signals service  *)
(* (src/engine/signals), a consumer group that turns every entry into      *)
(* three signals, and the price cache of the paper execution service       *)
(* (src/engine/execution/l2cache). Both serve all symbols with one loop;   *)
(* nothing but the loop is shared between symbols, so one stands for all.  *)
(*                                                                         *)
(* An entry is what its readers can tell of it: it has a best bid and a    *)
(* best ask, lacks one of them, or does not decode. Its id is its index.   *)
(* Faults of the kinds in the constant Faults happen at most MaxFaults     *)
(* times. A command is carried out at most once: that the Redis client may *)
(* send one again is not modelled.                                         *)
(***************************************************************************)
EXTENDS Integers, Sequences, FiniteSets

CONSTANTS
  MaxEntries,   \* bound: entries of the stream
  MaxLen,       \* WithMaxLen of the ingest service's publisher
  SignalBatch,  \* batchSize of XREADGROUP
  CacheBatch,   \* Count of XREAD
  Faults,       \* the kinds of faults that happen
  MaxFaults     \* bound: how many of them

FaultKinds ==
  {"read",     \* the reply to an XREADGROUP is lost
   "publish",  \* XADD of a signal fails
   "ack",      \* XACK fails
   "crash", "stop",   \* the signals service: kill -9, SIGTERM
   "restart"}  \* the process of the cache starts again

ASSUME EntriesAssumption == MaxEntries \in Nat /\ MaxLen \in Nat \ {0}
ASSUME BatchAssumption == SignalBatch \in Nat \ {0} /\ CacheBatch \in Nat \ {0}
ASSUME FaultsAssumption == Faults \subseteq FaultKinds /\ MaxFaults \in Nat

VARIABLES
  \* Redis
  stream,      \* the entries, oldest first
  trimmed,     \* the entries up to this one have been trimmed away
  delivered,   \* the group's last delivered id
  pending,     \* the ids delivered and not acknowledged
  signals,     \* the signal stream: source entry and name
  \* the signals service
  proc,        \* "down", "up", "stopping" (its context is cancelled)
  batch,       \* the ids that were read and are still to be handled, in order
  tried,       \* signals of the first of them that were published, or failed to
  \* the cache
  ids,         \* c.ids[symbol]
  price,       \* the entry c.prices[symbol] was taken from, 0 for none
  cacheBatch,  \* the ids that were read and are still to be handled, in order
  \* history
  unsent,      \* the entries and numbers of the signals whose publish failed
               \* while the service was not stopping
  faults       \* faults so far

group == <<delivered, pending, signals, unsent>>
service == <<proc, batch, tried>>
cache == <<ids, price, cacheBatch>>
vars == <<stream, trimmed, group, service, cache, faults>>

Kinds == {"quoted", "one_sided", "garbled"}

(* compute.All *)
Names == <<"book_imbalance", "spread_bps", "mid_price">>

Least(ns) == CHOOSE n \in ns : \A m \in ns : n <= m

Greatest(ns) == CHOOSE n \in ns : \A m \in ns : m <= n

Later(m, n) == IF m < n THEN n ELSE m

(* What a read of at most count entries after an id returns. *)
ReadAfter(id, count) ==
  {i \in DOMAIN stream : /\ i > id /\ i > trimmed
                         /\ i <= Later(id, trimmed) + count}

Suffering(kind) == kind \in Faults /\ faults < MaxFaults /\ faults' = faults + 1

(* The outcomes of a call with the consumer's context: it fails once that  *)
(* is cancelled, and otherwise when the fault happens.                     *)
Succeeds == proc = "up" /\ UNCHANGED faults

Fails(kind) == IF proc = "stopping" THEN UNCHANGED faults ELSE Suffering(kind)

Init ==
  /\ stream = << >>
  /\ trimmed = 0
  /\ delivered = 0
  /\ pending = {}
  /\ signals = << >>
  /\ unsent = {}
  /\ proc = "down"
  /\ batch = {}
  /\ tried = 0
  /\ ids = 0
  /\ price = 0
  /\ cacheBatch = {}
  /\ faults = 0

(* The ingest service publishes; MAXLEN is approximate, so that more than  *)
(* MaxLen entries may stay.                                                *)
EntryArrives ==
  /\ Len(stream) < MaxEntries
  /\ \E kind \in Kinds : stream' = Append(stream, kind)
  /\ trimmed' \in trimmed .. Later(trimmed, Len(stream') - MaxLen)
  /\ UNCHANGED <<group, service, cache, faults>>

-------------------------------------------------------------------------------
(* The signals service.                                                    *)

(* The group is made at "$" whenever the service starts. *)
BugGroupStart == Len(stream)

(* Consumer.Start: the group is created at "0"; an existing one is kept    *)
(* (BUSYGROUP).                                                            *)
GroupStart == delivered

StartService ==
  /\ proc = "down"
  /\ proc' = "up"
  /\ delivered' = GroupStart
  /\ UNCHANGED <<stream, trimmed, pending, signals, unsent, batch, tried, cache, faults>>

(* The pending entries are read again with the new ones. *)
BugNewEntries == pending \cup ReadAfter(delivered, SignalBatch)

(* XREADGROUP ">": entries no consumer has been given. *)
NewEntries == ReadAfter(delivered, SignalBatch)

(* readLoop: what is read is pending from now on, whether or not the reply *)
(* arrives. What a read that was blocked when the context was cancelled    *)
(* still returns counts as read before.                                    *)
ReadEntries ==
  /\ proc = "up"
  /\ batch = {}
  /\ NewEntries # {}
  /\ delivered' = Greatest(NewEntries)
  /\ pending' = pending \cup NewEntries
  /\ \/ batch' = NewEntries /\ UNCHANGED faults
     \/ batch' = {} /\ Suffering("read")
  /\ UNCHANGED <<stream, trimmed, signals, unsent, proc, tried, cache>>

(* handleMessage, the next signal of the entry: an error is only logged.   *)
PublishSignal ==
  /\ batch # {}
  /\ stream[Least(batch)] # "garbled"
  /\ tried < Len(Names)
  /\ tried' = tried + 1
  /\ \/ /\ Succeeds
        /\ signals' = Append(signals, [entry |-> Least(batch), name |-> Names[tried + 1]])
        /\ UNCHANGED unsent
     \/ /\ Fails("publish")
        /\ unsent' = IF proc = "up" THEN unsent \cup {<<Least(batch), tried + 1>>} ELSE unsent
        /\ UNCHANGED signals
  /\ UNCHANGED <<stream, trimmed, delivered, pending, proc, batch, cache>>

(* ack, also of an entry that does not decode. *)
Acknowledged(i) == {i}

(* The acknowledgement is sent with a context of its own. *)
BugAckSucceeds == UNCHANGED faults

(* ack uses the context of the loop. *)
AckSucceeds == Succeeds

(* handleMessage, end. *)
AckEntry ==
  /\ batch # {}
  /\ stream[Least(batch)] = "garbled" \/ tried = Len(Names)
  /\ batch' = batch \ {Least(batch)}
  /\ tried' = 0
  /\ \/ /\ AckSucceeds
        /\ pending' = pending \ Acknowledged(Least(batch))
     \/ /\ Fails("ack")
        /\ UNCHANGED pending
  /\ UNCHANGED <<stream, trimmed, delivered, signals, unsent, proc, cache>>

(* readLoop returns on the first read after cancellation. *)
ServiceEnds ==
  /\ proc = "stopping"
  /\ batch = {}
  /\ proc' = "down"
  /\ UNCHANGED <<stream, trimmed, group, batch, tried, cache, faults>>

StopService ==
  /\ proc = "up"
  /\ Suffering("stop")
  /\ proc' = "stopping"
  /\ UNCHANGED <<stream, trimmed, group, batch, tried, cache>>

CrashService ==
  /\ proc # "down"
  /\ Suffering("crash")
  /\ proc' = "down"
  /\ batch' = {}
  /\ tried' = 0
  /\ UNCHANGED <<stream, trimmed, group, cache>>

-------------------------------------------------------------------------------
(* The price cache.                                                        *)

(* readOnce, the read: from the remembered id on. *)
ReadCache ==
  /\ cacheBatch = {}
  /\ ReadAfter(ids, CacheBatch) # {}
  /\ cacheBatch' = ReadAfter(ids, CacheBatch)
  /\ UNCHANGED <<stream, trimmed, group, service, ids, price, faults>>

(* The messages of a batch are handled from the last to the first. *)
BugInHand == Greatest(cacheBatch)

InHand == Least(cacheBatch)

(* The price is stored and the position forgotten. *)
BugRemember(i) == price' = i /\ UNCHANGED ids

Remember(i) == price' = i /\ ids' = i

(* bestPrice of both sides succeeds. *)
HasPrices(i) == stream[i] = "quoted"

(* handleMessage: an entry without both best prices is skipped, and the    *)
(* remembered id stays what it was.                                        *)
CacheEntry ==
  /\ cacheBatch # {}
  /\ cacheBatch' = cacheBatch \ {InHand}
  /\ IF HasPrices(InHand) THEN Remember(InHand) ELSE UNCHANGED <<ids, price>>
  /\ UNCHANGED <<stream, trimmed, group, service, faults>>

(* New: the process starts again, reading from "0". *)
RestartCache ==
  /\ Suffering("restart")
  /\ ids' = 0
  /\ price' = 0
  /\ cacheBatch' = {}
  /\ UNCHANGED <<stream, trimmed, group, service>>

-------------------------------------------------------------------------------
Service == StartService \/ ReadEntries \/ PublishSignal \/ AckEntry \/ ServiceEnds

Cache == ReadCache \/ CacheEntry

Next ==
  \/ EntryArrives
  \/ Service
  \/ StopService
  \/ CrashService
  \/ Cache
  \/ RestartCache

(* Both loops run: a service that went down is started again by whoever    *)
(* runs it, and the calls they make return.                                *)
Spec == Init /\ [][Next]_vars /\ WF_vars(Service) /\ WF_vars(Cache)

-------------------------------------------------------------------------------
(* Properties.                                                             *)

(* The state has its types, and a batch is part of what is pending. *)
TypeOK ==
  /\ stream \in Seq(Kinds) /\ Len(stream) <= MaxEntries
  /\ trimmed \in 0 .. Len(stream)
  /\ delivered \in 0 .. Len(stream)
  /\ pending \subseteq 1 .. delivered
  /\ signals \in Seq([entry : DOMAIN stream, name : {Names[n] : n \in DOMAIN Names}])
  /\ proc \in {"down", "up", "stopping"}
  /\ batch \subseteq pending
  /\ tried \in 0 .. Len(Names)
  /\ ids \in 0 .. Len(stream)
  /\ price \in {i \in DOMAIN stream : stream[i] = "quoted"} \cup {0}
  /\ cacheBatch \subseteq DOMAIN stream
  /\ unsent \subseteq (1 .. delivered) \X DOMAIN Names
  /\ faults \in 0 .. MaxFaults

Rank(name) == CHOOSE n \in DOMAIN Names : Names[n] = name

Before(a, b) == a.entry < b.entry \/ (a.entry = b.entry /\ Rank(a.name) < Rank(b.name))

(* No signal is published twice or out of order, through lost replies,     *)
(* stops, crashes and restarts ("Exactly-once delivery per group").        *)
SignalsInOrder ==
  \A i, j \in DOMAIN signals : i < j => Before(signals[i], signals[j])

(* Read and acknowledged, as far as the stream still has it. *)
Answered == {i \in trimmed + 1 .. delivered : i \notin pending}

IsMissing(i, n) ==
  /\ stream[i] # "garbled"
  /\ \A k \in DOMAIN signals : signals[k] # [entry |-> i, name |-> Names[n]]

MissingSignals == {m \in Answered \X DOMAIN Names : IsMissing(m[1], m[2])}

(* What is acknowledged has its three signals, but for those whose own     *)
(* publish failed while the service was not stopping: no stop amid an      *)
(* entry, no crash, no lost reply and no failed acknowledgement            *)
(* acknowledges an entry without its signals ("XACKs every message after   *)
(* publish").                                                              *)
AckedAreSignalled == MissingSignals \subseteq unsent

Signalled(i) ==
  \A n \in DOMAIN Names : \E k \in DOMAIN signals : signals[k] = [entry |-> i, name |-> Names[n]]

(* An entry that was in the hands of a service that stopped or crashed, or *)
(* in a reply that was lost.                                               *)
LeftPending(i) == i \in pending \ batch

(* Every entry that decodes gets all its signals, over stops, crashes and  *)
(* restarts, unless it is trimmed before it is read, is itself left        *)
(* pending, or one of its own publishes fails: a fault costs no entry but  *)
(* those it hits, and a service that comes back goes on without a hole.    *)
SignalsCome ==
  \A i \in 1 .. MaxEntries :
    (i \in DOMAIN stream /\ stream[i] # "garbled") ~>
      (Signalled(i) \/ trimmed >= i \/ LeftPending(i) \/ \E n \in DOMAIN Names : <<i, n>> \in unsent)

(* Within the life of a process the cached price never gets older, also    *)
(* when entries are read again.                                            *)
PriceMovesForward == [][price' >= price \/ RestartCache]_vars

Quoted(i) == i \in DOMAIN stream /\ stream[i] = "quoted"

(* As many entries in a row as the cache reads at once lack a price. *)
LongRun(i) ==
  /\ i + CacheBatch - 1 <= Len(stream)
  /\ \A j \in i .. i + CacheBatch - 1 : ~Quoted(j)

(* As long as no such run exists, the price of every entry, or a newer     *)
(* one, gets into the cache ("updates the cache on every event"). With one *)
(* it need not: a read that finds no price leaves the remembered id where  *)
(* it was, and the same entries are read over and over.                    *)
QuotesReachCache ==
  \A i \in 1 .. MaxEntries :
    Quoted(i) ~> (price >= i \/ trimmed >= i \/ \E j \in DOMAIN stream : LongRun(j))

===============================================================================
