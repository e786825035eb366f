--------------------------- MODULE ReplayEngineProofs ---------------------------
(***************************************************************************)
(* What TLAPS proves of ReplayEngine, for every market, recording, range,  *)
(* depth and set of failing calls: its types, that the stream is an        *)
(* L2Source, that no row is left out, that holes are recorded, and that    *)
(* what is published is true wherever the recording is unbroken.           *)
(***************************************************************************)
EXTENDS ReplayEngine, OrderBookLemmas, TLAPS

(* TypeOK, and what the phases say of the state. *)
TypeInv ==
  /\ TypeOK
  /\ diffs \in Logs
  /\ phase \in {"seek", "load"} => stream = << >> /\ prev = None
  /\ phase \in {"load", "replay", "crossed", "done"} => seed.id \in UpdateIds
  /\ phase = "crossed" => prev # None

Replaying == phase \in {"replay", "crossed", "done"}

(* What the rows still to be replayed are, and where the stream stands.    *)
OrderInv ==
  /\ phase = "load" => seed.from <= From
  /\ phase = "done" => pending = {}
  /\ Replaying =>
       /\ pending \subseteq InRange(seed.from)
       /\ prev = None => pending = InRange(seed.from) /\ stream = << >>
       /\ prev # None =>
            /\ prev.final <= To
            /\ \A ev \in pending : prev.final < ev.final
            /\ \A ev \in diffs : prev.final < ev.final /\ ev.final <= To => ev \in pending
            /\ stream # << >> /\ stream[Len(stream)].time = prev.final

-------------------------------------------------------------------------------
(* Types.                                                                  *)

LEMMA LogRows ==
  ASSUME diffs \in Logs
  PROVE  /\ diffs \subseteq Events
         /\ \A ev \in diffs : /\ ev.first \in UpdateIds /\ ev.final \in UpdateIds
                              /\ ev.first <= ev.final
         /\ \A a, b \in diffs : a = b \/ a.final < b.first \/ b.final < a.first
<1>1. diffs \subseteq Events
  BY DEF Logs
<1>2. \A ev \in Events : ev.first \in UpdateIds /\ ev.final \in UpdateIds /\ ev.first <= ev.final
  BY DEF Events
<1> QED BY <1>1, <1>2 DEF Logs

(* Rows with the same time are the same row. *)
LEMMA OneRowAtATime ==
  ASSUME diffs \in Logs, NEW a \in diffs, NEW b \in diffs, a.final = b.final
  PROVE  a = b
BY LogRows, MaxIdAssumption DEF UpdateIds

(* A checkpoint is a true book of some update, captured at some time.      *)
LEMMA CheckpointType ==
  ASSUME NEW c \in Checkpoints
  PROVE  /\ c.at \in Int /\ c.book.id \in UpdateIds
         /\ c.book = RestSnapshot(c.book.id) /\ c.book \in Snapshots
<1>1. PICK u \in UpdateIds, d \in Delays : c = [at |-> u + d, book |-> RestSnapshot(u)]
  BY DEF Checkpoints
<1>2. u + d \in Int
  BY MaxIdAssumption, DelaysAssumption DEF UpdateIds
<1>3. c.book = RestSnapshot(u) /\ c.book.id = u
  BY <1>1 DEF RestSnapshot
<1> QED BY <1>1, <1>2, <1>3, RestSnapshotType

LEMMA TypeInit == Init => TypeInv
<1> SUFFICES ASSUME Init PROVE TypeInv
  OBVIOUS
<1>1. diffs \in SUBSET Events /\ diffs \in Logs /\ snapshots \in SUBSET Checkpoints
  BY DEF Init, Logs
<1>2. book \in Snapshots
  BY MaxIdAssumption DEF Init, EmptyBook, NoLevels, Snapshots, Levels
<1>3. seed \in [id : 0 .. MaxId, from : Int]
  BY MaxIdAssumption DEF Init
<1>4. /\ stream \in Seq([time : UpdateIds, id : UpdateIds, levels : Levels])
      /\ \A i \in DOMAIN stream :
           \E ev \in diffs : stream[i].time = EventTime(ev) /\ stream[i].id = ev.final
  BY DEF Init
<1> QED BY <1>1, <1>2, <1>3, <1>4 DEF Init, TypeInv, TypeOK

(* One more entry for the row ev.                                          *)
LEMMA EntryType ==
  ASSUME TypeInv, NEW ev \in diffs, NEW bk \in Snapshots, bk.id = ev.final
  PROVE  /\ PublishedEntry(ev, bk) \in [time : UpdateIds, id : UpdateIds, levels : Levels]
         /\ PublishedEntry(ev, bk).time = EventTime(ev)
         /\ PublishedEntry(ev, bk).id = ev.final
<1>1. ev.final \in UpdateIds
  BY LogRows DEF TypeInv
<1>2. Snapshot(bk).levels \in Levels
  BY SnapshotType DEF Snapshots
<1> QED BY <1>1, <1>2 DEF PublishedEntry, EventTime

LEMMA TypeStep == TypeInv /\ [Next]_vars => TypeInv'
<1> SUFFICES ASSUME TypeInv, [Next]_vars PROVE TypeInv'
  OBVIOUS
<1>1. CASE Cancel
  BY <1>1 DEF TypeInv, TypeOK, Cancel, recording
<1>2. CASE Seek
  <2>1. CASE UNCHANGED <<book, seed>> /\ phase' = "failed"
    BY <1>2, <2>1 DEF TypeInv, TypeOK, Seek, recording
  <2>2. ASSUME NEW c \in Nearest(From), book' = Loaded(c),
               seed' = [id |-> c.book.id, from |-> c.at], phase' = "load"
        PROVE  TypeInv'
    <3>1. c \in Checkpoints
      BY DEF Nearest, TypeInv, TypeOK
    <3>2. book' \in Snapshots /\ seed' \in [id : 0 .. MaxId, from : Int] /\ seed'.id \in UpdateIds
      BY <2>2, <3>1, CheckpointType DEF Loaded, UpdateIds
    <3> QED BY <1>2, <2>2, <3>2 DEF TypeInv, TypeOK, Seek, recording
  <2> QED BY <1>2, <2>1, <2>2 DEF Seek
<1>3. CASE LoadDiffs
  BY <1>3 DEF TypeInv, TypeOK, LoadDiffs, InRange, recording
<1>4. CASE HandleGap
  <2>1. PICK ev \in pending :
          /\ GapBefore(ev)
          /\ \E ok \in Outcomes("control") :
               notices' = IF ok THEN notices \cup {Gap(ev)} ELSE notices
          /\ \E ok \in Outcomes("gap") :
               IF ok THEN gaps' = gaps \cup {Gap(ev)} /\ UNCHANGED unwritten
                     ELSE unwritten' = unwritten \cup {Gap(ev)} /\ UNCHANGED gaps
          /\ \/ \E c \in Nearest(EventTime(ev)) :
                  /\ book' = Loaded(c)
                  /\ seed' = [id |-> c.book.id, from |-> EventTime(ev)]
             \/ UNCHANGED <<book, seed>>
    BY <1>4 DEF HandleGap
  <2>2. prev # None /\ prev \in diffs /\ ev \in diffs
    BY <2>1 DEF GapBefore, TypeInv, TypeOK
  <2>3. Gap(ev) \in [from : UpdateIds, to : UpdateIds]
    BY <2>2, LogRows DEF Gap, EventTime, TypeInv
  <2>4. /\ notices' \subseteq [from : UpdateIds, to : UpdateIds]
        /\ gaps' \subseteq [from : UpdateIds, to : UpdateIds]
        /\ unwritten' \subseteq [from : UpdateIds, to : UpdateIds]
    BY <2>1, <2>3, Zenon DEF TypeInv, TypeOK
  <2>5. seed.id \in UpdateIds
    BY <1>4 DEF HandleGap, TypeInv
  <2>6. book' \in Snapshots /\ seed' \in [id : 0 .. MaxId, from : Int] /\ seed'.id \in UpdateIds
    <3>1. CASE UNCHANGED <<book, seed>>
      BY <2>5, <3>1 DEF TypeInv, TypeOK
    <3>2. ASSUME NEW c \in Nearest(EventTime(ev)), book' = Loaded(c),
                 seed' = [id |-> c.book.id, from |-> EventTime(ev)]
          PROVE  book' \in Snapshots /\ seed' \in [id : 0 .. MaxId, from : Int] /\ seed'.id \in UpdateIds
      <4>1. c \in Checkpoints
        BY DEF Nearest, TypeInv, TypeOK
      <4>2. EventTime(ev) \in Int
        BY <2>2, LogRows DEF EventTime, TypeInv, UpdateIds
      <4> QED BY <3>2, <4>1, <4>2, CheckpointType DEF Loaded, UpdateIds
    <3> QED BY <2>1, <3>1, <3>2
  <2> QED BY <1>4, <2>2, <2>4, <2>6 DEF HandleGap, TypeInv, TypeOK, recording
<1>5. CASE ReplayRow
  <2>1. PICK ev \in pending :
          /\ phase = "crossed" \/ (phase = "replay" /\ ~GapBefore(ev))
          /\ book' = Apply(book, ev)
          /\ \/ /\ stream' = Append(stream, PublishedEntry(ev, book'))
                /\ pending' = pending \ {ev}
                /\ prev' = ev
                /\ phase' = AfterRow
             \/ /\ stream' \in {stream, Append(stream, PublishedEntry(ev, book'))}
                /\ phase' = AfterFailure
                /\ UNCHANGED <<pending, prev>>
    BY <1>5 DEF ReplayRow
  <2>2. ev \in diffs /\ ev \in Events
    BY DEF TypeInv, TypeOK
  <2>3. book' \in Snapshots /\ book'.id = ev.final
    BY <2>1, <2>2, ApplyType DEF Apply, TypeInv, TypeOK
  <2>4. /\ stream' \in Seq([time : UpdateIds, id : UpdateIds, levels : Levels])
        /\ \A i \in DOMAIN stream' :
             \E row \in diffs : stream'[i].time = EventTime(row) /\ stream'[i].id = row.final
    <3>1. stream' = stream \/ stream' = Append(stream, PublishedEntry(ev, book'))
      BY <2>1
    <3> DEFINE entry == PublishedEntry(ev, book')
    <3>2. /\ entry \in [time : UpdateIds, id : UpdateIds, levels : Levels]
          /\ entry.time = EventTime(ev) /\ entry.id = ev.final
      BY <2>2, <2>3, EntryType
    <3> HIDE DEF entry
    <3>3. ASSUME stream' = Append(stream, entry)
          PROVE  /\ stream' \in Seq([time : UpdateIds, id : UpdateIds, levels : Levels])
                 /\ \A i \in DOMAIN stream' :
                      \E row \in diffs : stream'[i].time = EventTime(row) /\ stream'[i].id = row.final
      <4>1. /\ stream \in Seq([time : UpdateIds, id : UpdateIds, levels : Levels])
            /\ \A i \in DOMAIN stream :
                 \E row \in diffs : stream[i].time = EventTime(row) /\ stream[i].id = row.final
        BY DEF TypeInv, TypeOK
      <4>2. /\ stream' \in Seq([time : UpdateIds, id : UpdateIds, levels : Levels])
            /\ DOMAIN stream' = 1 .. Len(stream) + 1
            /\ DOMAIN stream = 1 .. Len(stream)
            /\ \A i \in DOMAIN stream : stream'[i] = stream[i]
            /\ stream'[Len(stream) + 1] = entry
        BY <3>2, <3>3, <4>1
      <4>3. \A i \in DOMAIN stream' : i \in DOMAIN stream \/ i = Len(stream) + 1
        BY <4>1, <4>2
      <4> QED BY <2>2, <3>2, <4>1, <4>2, <4>3
    <3> QED BY <3>1, <3>3 DEF TypeInv, TypeOK, entry
  <2>5. prev' \in diffs \cup {None} /\ pending' \in SUBSET diffs
    BY <2>1, <2>2 DEF TypeInv, TypeOK
  <2>6. phase' \in {"failed", "done", "replay"} /\ seed.id \in UpdateIds
    BY <2>1 DEF AfterRow, AfterFailure, TypeInv
  <2> QED BY <1>5, <2>3, <2>4, <2>5, <2>6 DEF ReplayRow, TypeInv, TypeOK, recording
<1>6. CASE UNCHANGED vars
  BY <1>6 DEF TypeInv, TypeOK, vars, recording
<1> QED BY <1>1, <1>2, <1>3, <1>4, <1>5, <1>6 DEF Next, Engine

-------------------------------------------------------------------------------
(* The order of the rows.                                                  *)

(* One iteration of the loop: its row comes before all others, and either  *)
(* its entry is in the stream and the row is done with, or the replay has  *)
(* failed.                                                                 *)
LEMMA RowReplayed ==
  ASSUME TypeInv, OrderInv, ReplayRow
  PROVE  \E ev \in pending :
           /\ ev \in diffs /\ ev \in Events
           /\ EventTime(ev) = ev.final /\ ev.final <= To
           /\ prev # None => prev.final < ev.final
           /\ \A other \in pending : other = ev \/ ev.final < other.final
           /\ phase = "crossed" \/ (phase = "replay" /\ ~GapBefore(ev))
           /\ book' = Apply(book, ev)
           /\ \/ /\ stream' = Append(stream, PublishedEntry(ev, book'))
                 /\ pending' = pending \ {ev}
                 /\ prev' = ev
                 /\ phase' \in {"failed", "done", "replay"}
                 /\ phase' = "done" => pending' = {}
              \/ /\ stream' = stream \/ stream' = Append(stream, PublishedEntry(ev, book'))
                 /\ phase' = "failed"
           /\ UNCHANGED <<recording, cancelled, seed, notices, gaps, unwritten>>
<1>1. PICK ev \in pending :
        /\ IsNext(ev)
        /\ phase = "crossed" \/ (phase = "replay" /\ ~GapBefore(ev))
        /\ book' = Apply(book, ev)
        /\ \/ /\ stream' = Append(stream, PublishedEntry(ev, book'))
              /\ pending' = pending \ {ev}
              /\ prev' = ev
              /\ phase' = AfterRow
           \/ /\ stream' \in {stream, Append(stream, PublishedEntry(ev, book'))}
              /\ phase' = AfterFailure
        /\ UNCHANGED <<recording, cancelled, seed, notices, gaps, unwritten>>
  BY DEF ReplayRow
<1>2. Replaying
  BY <1>1 DEF Replaying
<1>3. ev \in diffs /\ ev \in Events
  BY DEF TypeInv, TypeOK
<1>4. ev.final <= To /\ (prev # None => prev.final < ev.final)
  BY <1>2 DEF OrderInv, InRange, EventTime
<1>5. ASSUME NEW other \in pending
      PROVE  other = ev \/ ev.final < other.final
  <2>1. other \in diffs /\ ev.final <= other.final
    BY <1>1 DEF IsNext, EventTime, TypeInv, TypeOK
  <2>2. ev.final \in Int /\ other.final \in Int
    BY <1>3, <2>1, LogRows, MaxIdAssumption DEF TypeInv, UpdateIds
  <2>3. ev.final = other.final => other = ev
    BY <1>3, <2>1, OneRowAtATime DEF TypeInv
  <2> QED BY <2>1, <2>2, <2>3
<1>6. /\ AfterRow \in {"failed", "done", "replay"} /\ AfterFailure = "failed"
      /\ AfterRow = "done" => pending' = {}
  BY DEF AfterRow, AfterFailure
<1> QED BY <1>1, <1>3, <1>4, <1>5, <1>6 DEF EventTime

LEMMA OrderInit == Init => OrderInv
BY DEF Init, OrderInv, Replaying

LEMMA OrderStep == TypeInv /\ OrderInv /\ [Next]_vars => OrderInv'
<1> SUFFICES ASSUME TypeInv, OrderInv, [Next]_vars PROVE OrderInv'
  OBVIOUS
<1>1. CASE Cancel
  BY <1>1 DEF OrderInv, Replaying, InRange, EventTime, Cancel, recording
<1>2. CASE Seek
  <2>1. CASE phase' = "failed"
    BY <2>1 DEF OrderInv, Replaying
  <2>2. ASSUME NEW c \in Nearest(From), seed' = [id |-> c.book.id, from |-> c.at], phase' = "load"
        PROVE  OrderInv'
    <3>1. seed'.from <= From
      BY <2>2 DEF Nearest
    <3> QED BY <2>2, <3>1 DEF OrderInv, Replaying
  <2> QED BY <1>2, <2>1, <2>2 DEF Seek
<1>3. CASE LoadDiffs
  <2>1. prev' = None /\ stream' = << >> /\ phase = "load"
    BY <1>3 DEF LoadDiffs, TypeInv
  <2> QED BY <1>3, <2>1 DEF OrderInv, Replaying, InRange, EventTime, LoadDiffs, recording
<1>4. CASE HandleGap
  <2>1. PICK ev \in pending :
          /\ IsNext(ev)
          /\ GapBefore(ev)
          /\ seed' = seed \/ seed'.from = EventTime(ev)
    <3>1. PICK ev \in pending :
            /\ IsNext(ev)
            /\ GapBefore(ev)
            /\ \/ \E c \in Nearest(EventTime(ev)) : seed' = [id |-> c.book.id, from |-> EventTime(ev)]
               \/ UNCHANGED seed
      BY <1>4 DEF HandleGap
    <3>2. ASSUME NEW c, seed' = [id |-> c.book.id, from |-> EventTime(ev)]
          PROVE  seed'.from = EventTime(ev)
      BY <3>2
    <3> QED BY <3>1, <3>2
  <2>2. Replaying /\ prev # None
    BY <1>4, <2>1 DEF HandleGap, Replaying, GapBefore
  <2>3. pending \subseteq InRange(seed'.from)
    BY <2>1, <2>2 DEF OrderInv, InRange, IsNext
  <2> QED BY <1>4, <2>2, <2>3 DEF OrderInv, Replaying, InRange, EventTime, HandleGap, recording
<1>5. CASE ReplayRow
  <2>1. PICK ev \in pending :
           /\ ev \in diffs /\ ev.final <= To
           /\ prev # None => prev.final < ev.final
           /\ \A other \in pending : other = ev \/ ev.final < other.final
           /\ phase = "crossed" \/ phase = "replay"
           /\ book' = Apply(book, ev)
           /\ \/ /\ stream' = Append(stream, PublishedEntry(ev, book'))
                 /\ pending' = pending \ {ev}
                 /\ prev' = ev
                 /\ phase' = "done" => pending' = {}
              \/ phase' = "failed"
           /\ phase' \in {"failed", "done", "replay"}
           /\ UNCHANGED <<diffs, seed>>
    BY <1>5, RowReplayed DEF recording
  <2>2. CASE phase' = "failed"
    BY <2>2 DEF OrderInv, Replaying
  <2>3. CASE /\ stream' = Append(stream, PublishedEntry(ev, book'))
             /\ pending' = pending \ {ev}
             /\ prev' = ev
             /\ phase' = "done" => pending' = {}
    <3>1. Replaying
      BY <2>1 DEF Replaying
    <3>2. prev' # None
      BY <2>1, <2>3, NoneAssumption DEF TypeInv, TypeOK
    <3>3. stream' # << >> /\ stream'[Len(stream')].time = prev'.final
      <4>1. /\ stream \in Seq([time : UpdateIds, id : UpdateIds, levels : Levels])
        BY DEF TypeInv, TypeOK
      <4>2. PublishedEntry(ev, book').time = ev.final
        BY DEF PublishedEntry, EventTime
      <4> HIDE DEF TypeInv, OrderInv
      <4> QED BY <2>3, <4>1, <4>2
    <3>4. \A row \in diffs : ev.final < row.final /\ row.final <= To => row \in pending'
      <4> SUFFICES ASSUME NEW row \in diffs, ev.final < row.final, row.final <= To
                   PROVE  row \in pending
        BY <2>1, <2>3, LogRows, MaxIdAssumption DEF TypeInv, UpdateIds
      <4>1. row.final \in Int /\ ev.final \in Int
        BY <2>1, LogRows, MaxIdAssumption DEF TypeInv, UpdateIds
      <4>2. CASE prev = None
        <5>1. pending = InRange(seed.from) /\ seed.from <= ev.final /\ seed.from \in Int
          BY <3>1, <4>2 DEF OrderInv, InRange, EventTime, TypeInv, TypeOK
        <5> QED BY <4>1, <5>1 DEF InRange, EventTime
      <4>3. CASE prev # None
        <5>1. prev.final \in Int /\ prev.final < ev.final
          BY <2>1, <4>3, LogRows, MaxIdAssumption DEF TypeInv, TypeOK, UpdateIds
        <5> QED BY <3>1, <4>1, <4>3, <5>1 DEF OrderInv
      <4> QED BY <4>2, <4>3
    <3>5. pending' \subseteq InRange(seed.from)' /\ (\A row \in pending' : ev.final < row.final)
      BY <2>1, <2>3, <3>1 DEF OrderInv, InRange, EventTime
    <3>6. phase' # "load"
      BY <2>1
    <3> QED BY <2>1, <2>3, <3>2, <3>3, <3>4, <3>5, <3>6 DEF OrderInv
  <2> QED BY <2>1, <2>2, <2>3
<1>6. CASE UNCHANGED vars
  BY <1>6 DEF OrderInv, Replaying, InRange, EventTime, vars, recording
<1> QED BY <1>1, <1>2, <1>3, <1>4, <1>5, <1>6 DEF Next, Engine

(* The types and the order of rows hold in every reachable state.          *)
LEMMA OrderAlways == Spec => [](TypeInv /\ OrderInv)
<1>1. Init => TypeInv /\ OrderInv
  BY TypeInit, OrderInit
<1>2. TypeInv /\ OrderInv /\ [Next]_vars => (TypeInv /\ OrderInv)'
  BY TypeStep, OrderStep
<1> QED BY <1>1, <1>2, PTL DEF Spec

(* Every entry of the stream of a backtest has its types, and the time and *)
(* the id of a row of the recording (replay/engine.go, applyAndPublish).   *)
THEOREM ReplayTypeCorrect == Spec => []TypeOK
<1>1. TypeInv => TypeOK
  BY DEF TypeInv
<1> QED BY <1>1, OrderAlways, PTL

-------------------------------------------------------------------------------
(* The refinement of L2Source.                                             *)

LEMMA SourceInit == Init => Source!Init
BY DEF Init, Source!Init, SourceTimes, SourceStatus, Ended

LEMMA TimesOfStream ==
  ASSUME TypeInv
  PROVE  /\ SourceTimes \in Seq(UpdateIds) /\ Len(SourceTimes) = Len(stream)
         /\ \A i \in 1 .. Len(stream) : SourceTimes[i] = stream[i].time
<1>1. stream \in Seq([time : UpdateIds, id : UpdateIds, levels : Levels])
  BY DEF TypeInv, TypeOK
<1>2. DOMAIN stream = 1 .. Len(stream) /\ Len(stream) \in Nat
  BY <1>1
<1>3. \A i \in 1 .. Len(stream) : stream[i].time \in UpdateIds
  BY <1>2, LogRows DEF TypeInv, TypeOK, EventTime
<1> QED BY <1>2, <1>3 DEF SourceTimes

(* An entry later than the newest is a step of the source.                 *)
LEMMA SourcePublishes ==
  ASSUME TypeInv, OrderInv, NEW ev \in diffs, NEW bk \in Snapshots, Replaying,
         phase # "done", prev # None => prev.final < ev.final,
         stream' = Append(stream, PublishedEntry(ev, bk))
  PROVE  Source!Publish
<1>1. stream \in Seq([time : UpdateIds, id : UpdateIds, levels : Levels])
  BY DEF TypeInv, TypeOK
<1> DEFINE entry == PublishedEntry(ev, bk)
<1>2. entry.time = ev.final /\ ev.final \in UpdateIds
  BY LogRows DEF PublishedEntry, EventTime, TypeInv
<1> HIDE DEF entry
<1>3. SourceTimes' = Append(SourceTimes, ev.final)
  <2>1. /\ Len(stream) \in Nat /\ DOMAIN stream' = 1 .. Len(stream) + 1
        /\ \A i \in 1 .. Len(stream) : stream'[i] = stream[i]
        /\ stream'[Len(stream) + 1] = entry
    <3>1. stream' = Append(stream, entry)
      BY DEF entry
    <3> QED BY <1>1, <3>1
  <2>2. SourceTimes' = [i \in 1 .. Len(stream) + 1 |-> stream'[i].time]
    BY <2>1 DEF SourceTimes
  <2>3. SourceTimes' = [i \in 1 .. Len(stream) + 1 |->
                          IF i = Len(stream) + 1 THEN ev.final ELSE SourceTimes[i]]
    BY <1>2, <2>1, <2>2, TimesOfStream
  <2> HIDE DEF SourceTimes
  <2> QED BY <1>2, <2>1, <2>3, TimesOfStream
<1>4. ev.final \in Source!LastTime(SourceTimes) + 1 .. MaxId
  <2>1. ev.final \in Int /\ 1 <= ev.final /\ ev.final <= MaxId
    BY <1>2, MaxIdAssumption DEF UpdateIds
  <2>2. CASE prev = None
    <3>1. stream = << >>
      BY <2>2 DEF OrderInv
    <3>2. SourceTimes = << >>
      BY <3>1 DEF SourceTimes
    <3> QED BY <2>1, <3>2, MaxIdAssumption DEF Source!LastTime
  <2>3. CASE prev # None
    <3>1. /\ stream # << >> /\ stream[Len(stream)].time = prev.final
          /\ prev.final \in UpdateIds
      BY <2>3, LogRows DEF OrderInv, TypeInv, TypeOK
    <3>2. SourceTimes # << >> /\ SourceTimes[Len(SourceTimes)] = prev.final
      BY <1>1, <3>1, TimesOfStream
    <3> HIDE DEF SourceTimes
    <3> QED BY <2>1, <2>3, <3>1, <3>2, MaxIdAssumption DEF Source!LastTime, UpdateIds
  <2> QED BY <2>2, <2>3
<1>5. SourceStatus = "running" /\ SourceStatus' \in {"running", "done", "failed"}
  BY DEF SourceStatus, Ended, Replaying
<1> QED BY <1>3, <1>4, <1>5 DEF Source!Publish

LEMMA SourceStep ==
  TypeInv /\ OrderInv /\ [Next]_vars => [Source!Next]_<<SourceTimes, SourceStatus>>
<1> SUFFICES ASSUME TypeInv, OrderInv, [Next]_vars
             PROVE  Source!Next \/ UNCHANGED <<SourceTimes, SourceStatus>>
  OBVIOUS
<1>1. ASSUME UNCHANGED stream, phase \notin {"done", "failed"}
      PROVE  Source!Next \/ UNCHANGED <<SourceTimes, SourceStatus>>
  BY <1>1 DEF Source!Next, Source!End, SourceTimes, SourceStatus, Ended
<1>2. CASE Cancel
  BY <1>2 DEF Cancel, SourceTimes, SourceStatus, Ended
<1>3. CASE Seek \/ LoadDiffs \/ HandleGap
  BY <1>1, <1>3 DEF Seek, LoadDiffs, HandleGap
<1>4. CASE ReplayRow
  <2>1. PICK ev \in pending :
          /\ ev \in diffs /\ ev \in Events
          /\ prev # None => prev.final < ev.final
          /\ phase = "crossed" \/ phase = "replay"
          /\ book' = Apply(book, ev)
          /\ stream' = stream \/ stream' = Append(stream, PublishedEntry(ev, book'))
    BY <1>4, RowReplayed
  <2>2. book' \in Snapshots
    BY <2>1, ApplyType DEF TypeInv, TypeOK
  <2>3. CASE stream' = stream
    BY <1>1, <2>1, <2>3
  <2>4. CASE stream' = Append(stream, PublishedEntry(ev, book'))
    BY <2>1, <2>2, <2>4, SourcePublishes DEF Source!Next, Replaying
  <2> QED BY <2>1, <2>3, <2>4
<1>5. CASE UNCHANGED vars
  BY <1>5 DEF vars, SourceTimes, SourceStatus, Ended
<1> QED BY <1>2, <1>3, <1>4, <1>5 DEF Next, Engine

(* The stream of a replay engine is an L2Source, whatever is missing in    *)
(* the recording, fails or is cancelled: event times only grow and nothing *)
(* is published after the engine has ended (replay/engine.go, replay).     *)
THEOREM ImplementsSource == Spec => SourceSpec
<1>1. Init => Source!Init
  BY SourceInit
<1>2. TypeInv /\ OrderInv /\ [Next]_vars => [Source!Next]_<<SourceTimes, SourceStatus>>
  BY SourceStep
<1> QED BY <1>1, <1>2, OrderAlways, PTL DEF Spec, SourceSpec, Source!Spec

-------------------------------------------------------------------------------
(* No row is left out.                                                     *)

Published(time) == \E i \in DOMAIN stream : stream[i].time = time

(* Every row of the range is still to be replayed or has its entry.        *)
RowsInv ==
  Replaying =>
    \A ev \in diffs : From <= ev.final /\ ev.final <= To =>
      ev \in pending \/ Published(ev.final)

(* An entry stays, and the new one is there.                               *)
LEMMA Appended ==
  ASSUME TypeInv, NEW ev, NEW bk, stream' = Append(stream, PublishedEntry(ev, bk))
  PROVE  /\ \A time : Published(time) => Published(time)'
         /\ Published(ev.final)'
         /\ stream'[Len(stream')].time = ev.final
         /\ stream'[1].time = IF stream = << >> THEN ev.final ELSE stream[1].time
<1>1. stream \in Seq([time : UpdateIds, id : UpdateIds, levels : Levels])
  BY DEF TypeInv, TypeOK
<1> DEFINE entry == PublishedEntry(ev, bk)
<1>2. entry.time = ev.final
  BY DEF PublishedEntry, EventTime
<1>3. stream' = Append(stream, entry)
  OBVIOUS
<1> HIDE DEF entry
<1>4. /\ Len(stream) \in Nat /\ Len(stream') = Len(stream) + 1
      /\ DOMAIN stream = 1 .. Len(stream) /\ DOMAIN stream' = 1 .. Len(stream) + 1
      /\ \A i \in 1 .. Len(stream) : stream'[i] = stream[i]
      /\ stream'[Len(stream) + 1] = entry
      /\ stream = << >> <=> Len(stream) = 0
  BY <1>1, <1>3
<1>5. \A time : Published(time) => Published(time)'
  BY <1>4 DEF Published
<1>6. Published(ev.final)'
  BY <1>2, <1>4 DEF Published
<1>7. stream'[Len(stream')].time = ev.final
  BY <1>2, <1>4
<1>8. stream'[1].time = IF stream = << >> THEN ev.final ELSE stream[1].time
  <2>1. CASE Len(stream) = 0
    BY <1>2, <1>4, <2>1
  <2>2. CASE Len(stream) # 0
    BY <1>4, <2>2
  <2> QED BY <2>1, <2>2
<1> QED BY <1>5, <1>6, <1>7, <1>8

LEMMA RowsStep == TypeInv /\ OrderInv /\ RowsInv /\ [Next]_vars => RowsInv'
<1> SUFFICES ASSUME TypeInv, OrderInv, RowsInv, [Next]_vars PROVE RowsInv'
  OBVIOUS
<1>1. CASE Cancel
  BY <1>1 DEF RowsInv, Replaying, Published, Cancel, recording
<1>2. CASE Seek
  BY <1>2 DEF RowsInv, Replaying, Seek
<1>3. CASE LoadDiffs
  <2>1. CASE phase' = "failed"
    BY <2>1 DEF RowsInv, Replaying
  <2>2. CASE pending' = InRange(seed.from)
    <3>1. seed.from <= From /\ seed.from \in Int /\ diffs' = diffs
      BY <1>3 DEF LoadDiffs, OrderInv, TypeInv, TypeOK, recording
    <3>2. \A ev \in diffs : ev.final \in Int
      BY LogRows, MaxIdAssumption DEF TypeInv, UpdateIds
    <3> QED BY <2>2, <3>1, <3>2, RangeAssumption DEF RowsInv, InRange, EventTime
  <2> QED BY <1>3, <2>1, <2>2 DEF LoadDiffs
<1>4. CASE HandleGap
  BY <1>4 DEF RowsInv, Replaying, Published, HandleGap, recording
<1>5. CASE ReplayRow
  <2>1. PICK ev \in pending :
          /\ phase = "crossed" \/ phase = "replay"
          /\ \/ /\ stream' = Append(stream, PublishedEntry(ev, book'))
                /\ pending' = pending \ {ev}
             \/ phase' = "failed"
          /\ UNCHANGED diffs
    BY <1>5, RowReplayed DEF recording
  <2>2. CASE phase' = "failed"
    BY <2>2 DEF RowsInv, Replaying
  <2>3. CASE /\ stream' = Append(stream, PublishedEntry(ev, book'))
             /\ pending' = pending \ {ev}
    <3>1. Replaying
      BY <2>1 DEF Replaying
    <3>2. (\A time : Published(time) => Published(time)') /\ Published(ev.final)'
      BY <2>3, Appended
    <3> QED BY <2>1, <2>3, <3>1, <3>2 DEF RowsInv
  <2> QED BY <2>1, <2>2, <2>3
<1>6. CASE UNCHANGED vars
  BY <1>6 DEF RowsInv, Replaying, Published, vars, recording
<1> QED BY <1>1, <1>2, <1>3, <1>4, <1>5, <1>6 DEF Next, Engine

(* A replay that ends well has published an entry for every recorded row   *)
(* of its range, whatever gaps it crossed and reseeds it made on the way   *)
(* (replay/engine.go, replay).                                             *)
THEOREM NothingLeftOutHolds == Spec => []NothingLeftOut
<1>1. Init => RowsInv
  BY DEF Init, RowsInv, Replaying
<1>2. OrderInv /\ RowsInv => NothingLeftOut
  BY DEF OrderInv, RowsInv, Replaying, NothingLeftOut, Published, EventTime
<1> QED BY <1>1, <1>2, RowsStep, OrderAlways, PTL DEF Spec

-------------------------------------------------------------------------------
(* Holes are recorded.                                                     *)

InPublishedRow(u) == \E ev \in diffs : u \in ev.first .. ev.final /\ Published(EventTime(ev))
InRecordedGap(u) == \E gap \in gaps \cup unwritten : gap.from < u /\ u < gap.to

(* HolesAreRecorded, and that a gap's row is written, or its insert has    *)
(* failed, before the gap is crossed.                                      *)
HolesInv ==
  /\ stream # << >> =>
       \A u \in stream[1].time .. stream[Len(stream)].time :
         InPublishedRow(u) \/ InRecordedGap(u)
  /\ phase = "crossed" => \A ev \in pending : IsNext(ev) => Gap(ev) \in gaps \cup unwritten

LEMMA TimesAreIds ==
  ASSUME TypeInv, stream # << >>
  PROVE  stream[1].time \in UpdateIds /\ stream[Len(stream)].time \in UpdateIds
<1>1. 1 \in DOMAIN stream /\ Len(stream) \in DOMAIN stream
  BY DEF TypeInv, TypeOK
<1>2. \A i \in DOMAIN stream : stream[i].time \in UpdateIds
  BY LogRows DEF TypeInv, TypeOK, EventTime
<1> QED BY <1>1, <1>2

LEMMA HolesStep == TypeInv /\ OrderInv /\ HolesInv /\ [Next]_vars => HolesInv'
<1> SUFFICES ASSUME TypeInv, OrderInv, HolesInv, [Next]_vars PROVE HolesInv'
  OBVIOUS
<1>1. ASSUME UNCHANGED <<diffs, stream, gaps, unwritten>>, phase' # "crossed"
      PROVE  HolesInv'
  BY <1>1 DEF HolesInv, InPublishedRow, InRecordedGap, Published, EventTime
<1>2. CASE Cancel \/ UNCHANGED vars
  <2>1. UNCHANGED <<diffs, stream, phase, pending, prev, gaps, unwritten>>
    BY <1>2 DEF Cancel, vars, recording
  <2> QED BY <2>1 DEF HolesInv, InPublishedRow, InRecordedGap, Published, EventTime, IsNext, Gap
<1>3. CASE Seek \/ LoadDiffs
  BY <1>1, <1>3 DEF Seek, LoadDiffs, recording
<1>4. CASE HandleGap
  <2>1. PICK ev \in pending :
          /\ IsNext(ev)
          /\ (gaps \cup unwritten)' = gaps \cup unwritten \cup {Gap(ev)}
    <3>1. PICK ev \in pending :
            /\ IsNext(ev)
            /\ \E ok \in Outcomes("gap") :
                 IF ok THEN gaps' = gaps \cup {Gap(ev)} /\ UNCHANGED unwritten
                       ELSE unwritten' = unwritten \cup {Gap(ev)} /\ UNCHANGED gaps
      BY <1>4 DEF HandleGap
    <3>2. (gaps \cup unwritten)' = gaps \cup unwritten \cup {Gap(ev)}
      BY <3>1
    <3> QED BY <3>1, <3>2
  <2>2. \A other \in pending : IsNext(other) => Gap(other) \in (gaps \cup unwritten)'
    <3> SUFFICES ASSUME NEW other \in pending, IsNext(other)
                 PROVE  EventTime(other) = EventTime(ev)
      BY <2>1 DEF Gap
    <3>1. ev \in diffs /\ other \in diffs
      BY DEF TypeInv, TypeOK
    <3>2. EventTime(ev) \in Int /\ EventTime(other) \in Int
      BY <3>1, LogRows, MaxIdAssumption DEF TypeInv, UpdateIds, EventTime
    <3> QED BY <2>1, <3>2 DEF IsNext
  <2>3. /\ UNCHANGED <<diffs, stream, pending, prev>>
        /\ gaps \cup unwritten \subseteq (gaps \cup unwritten)'
    BY <1>4, <2>1 DEF HandleGap, recording
  <2>4. (\A other \in pending : IsNext(other) => Gap(other) \in gaps \cup unwritten)'
    BY <2>2, <2>3 DEF IsNext, Gap, EventTime
  <2>5. (stream # << >> =>
           \A u \in stream[1].time .. stream[Len(stream)].time :
             InPublishedRow(u) \/ InRecordedGap(u))'
    BY <2>3 DEF HolesInv, InPublishedRow, InRecordedGap, Published, EventTime
  <2> QED BY <2>4, <2>5 DEF HolesInv
<1>5. CASE ReplayRow
  <2>1. PICK ev \in pending :
          /\ ev \in diffs
          /\ prev # None => prev.final < ev.final
          /\ \A other \in pending : other = ev \/ ev.final < other.final
          /\ phase = "crossed" \/ (phase = "replay" /\ ~GapBefore(ev))
          /\ stream' = stream \/ stream' = Append(stream, PublishedEntry(ev, book'))
          /\ phase' # "crossed"
          /\ UNCHANGED <<diffs, gaps, unwritten>>
    BY <1>5, RowReplayed DEF recording
  <2>2. CASE stream' = stream
    BY <1>1, <2>1, <2>2
  <2>3. CASE stream' = Append(stream, PublishedEntry(ev, book'))
    <3>1. /\ \A time : Published(time) => Published(time)'
          /\ Published(ev.final)'
          /\ stream'[Len(stream')].time = ev.final
          /\ stream'[1].time = IF stream = << >> THEN ev.final ELSE stream[1].time
      BY <2>3, Appended
    <3>2. ev.first \in Int /\ ev.final \in Int /\ ev.first <= ev.final
      BY <2>1, LogRows, MaxIdAssumption DEF TypeInv, UpdateIds
    <3>3. \A u \in ev.first .. ev.final : InPublishedRow(u)'
      BY <2>1, <3>1 DEF InPublishedRow, EventTime
    <3>4. \A u : InPublishedRow(u) \/ InRecordedGap(u) => (InPublishedRow(u) \/ InRecordedGap(u))'
      BY <2>1, <3>1 DEF InPublishedRow, InRecordedGap, EventTime
    <3>5. ASSUME NEW u \in Int, stream'[1].time <= u, u <= ev.final
          PROVE  (InPublishedRow(u) \/ InRecordedGap(u))'
      <4>1. CASE stream = << >>
        BY <3>1, <3>2, <3>3, <3>5, <4>1
      <4>2. CASE stream # << >>
        <5>1. prev # None /\ prev.final = stream[Len(stream)].time /\ prev.final < ev.final
          BY <2>1, <4>2 DEF OrderInv, Replaying
        <5>2. prev.final \in Int /\ stream[1].time \in Int
          BY <4>2, <5>1, TimesAreIds, MaxIdAssumption DEF UpdateIds
        <5>3. CASE u <= prev.final
          <6>1. u \in stream[1].time .. stream[Len(stream)].time
            BY <3>1, <3>5, <4>2, <5>1, <5>2, <5>3
          <6>2. InPublishedRow(u) \/ InRecordedGap(u)
            BY <4>2, <6>1 DEF HolesInv
          <6> QED BY <3>4, <6>2
        <5>4. CASE prev.final < u /\ ev.first <= u
          BY <3>2, <3>3, <3>5, <5>4
        <5>5. CASE prev.final < u /\ u < ev.first
          <6>1. phase = "crossed"
            BY <2>1, <3>2, <5>1, <5>2, <5>5 DEF GapBefore
          <6>2. IsNext(ev)
            <7>1. \A other \in pending : other.final \in Int
              BY LogRows, MaxIdAssumption DEF TypeInv, TypeOK, UpdateIds
            <7> QED BY <2>1, <3>2, <7>1 DEF IsNext, EventTime
          <6>3. Gap(ev) \in (gaps \cup unwritten)'
            BY <2>1, <6>1, <6>2 DEF HolesInv
          <6>4. Gap(ev).from = prev.final /\ Gap(ev).to = ev.final
            BY DEF Gap, EventTime
          <6>5. u < ev.final
            BY <3>2, <5>5
          <6> QED BY <5>5, <6>3, <6>4, <6>5 DEF InRecordedGap
        <5> QED BY <3>2, <5>2, <5>3, <5>4, <5>5
      <4> QED BY <4>1, <4>2
    <3>6. stream'[1].time \in Int
      <4>1. CASE stream = << >>
        BY <3>1, <3>2, <4>1
      <4>2. CASE stream # << >>
        BY <3>1, <4>2, TimesAreIds, MaxIdAssumption DEF UpdateIds
      <4> QED BY <4>1, <4>2
    <3> QED BY <2>1, <3>1, <3>2, <3>5, <3>6 DEF HolesInv
  <2> QED BY <2>1, <2>2, <2>3
<1> QED BY <1>2, <1>3, <1>4, <1>5 DEF Next, Engine

(* Every update between the first and the last entry is in a published row *)
(* or inside a gap for which the engine wrote a row of backtest_data_gaps  *)
(* or tried to: only a hole whose own insert failed is missing there,      *)
(* whatever else fails and whenever the run is cancelled                   *)
(* (replay/engine.go, handleGap).                                          *)
THEOREM HolesAreRecordedHolds == Spec => []HolesAreRecorded
<1>1. Init => HolesInv
  BY DEF Init, HolesInv
<1>2. HolesInv => HolesAreRecorded
  BY DEF HolesInv, HolesAreRecorded, InPublishedRow, InRecordedGap, Published, EventTime
<1> QED BY <1>1, <1>2, HolesStep, OrderAlways, PTL DEF Spec

-------------------------------------------------------------------------------
(* The book is true where the recording is unbroken.                       *)

(* The rows applied since the book was loaded. *)
Since == InRange(seed.from) \ pending

(* No row of these touches a price; a row is the last of these to do so.   *)
Untouched(rows, p) == \A ev \in rows : p \notin Touched(ev)
LastToTouch(rows, p, ev) ==
  /\ ev \in rows /\ p \in Touched(ev)
  /\ \A later \in rows : ev.final < later.final => p \notin Touched(later)

(* Each level is the checkpoint's, or that of the last row that touched it. *)
LevelsFrom(rows) ==
  \A p \in Prices :
    \/ Untouched(rows, p) /\ book.levels[p] = RestSnapshot(seed.id).levels[p]
    \/ \E ev \in rows : LastToTouch(rows, p, ev) /\ book.levels[p] = Market[ev.final][p]

BookInv ==
  /\ phase = "load" => book = RestSnapshot(seed.id)
  /\ Replaying => LevelsFrom(Since)
  /\ phase \in {"replay", "done"} /\ prev # None =>
       book.id = prev.final /\ stream[Len(stream)] = PublishedEntry(prev, book)

(* A book just loaded, with no row applied to it. *)
LEMMA JustLoaded ==
  ASSUME book = RestSnapshot(seed.id)
  PROVE  LevelsFrom({})
BY DEF LevelsFrom, Untouched

(* Applying a row that is later than those before.                         *)
LEMMA LevelsAfterRow ==
  ASSUME TypeInv, NEW rows \in SUBSET diffs, LevelsFrom(rows), NEW ev \in diffs,
         \A row \in rows : row.final < ev.final,
         book' = Apply(book, ev), UNCHANGED seed
  PROVE  LevelsFrom(rows \cup {ev})'
<1> SUFFICES ASSUME NEW p \in Prices
             PROVE  \/ /\ Untouched(rows \cup {ev}, p)
                       /\ book'.levels[p] = RestSnapshot(seed.id).levels[p]
                    \/ \E row \in rows \cup {ev} :
                         /\ LastToTouch(rows \cup {ev}, p, row)
                         /\ book'.levels[p] = Market[row.final][p]
  BY DEF LevelsFrom, Untouched, LastToTouch
<1>1. book'.levels[p] = IF p \in Touched(ev) THEN Market[ev.final][p] ELSE book.levels[p]
  BY DEF Apply
<1>2. \A row \in rows : row.final \in Int /\ ev.final \in Int
  BY LogRows, MaxIdAssumption DEF TypeInv, UpdateIds
<1>3. CASE p \in Touched(ev)
  <2>1. LastToTouch(rows \cup {ev}, p, ev)
    <3>1. \A later \in rows \cup {ev} : ~(ev.final < later.final)
      BY <1>2, LogRows, MaxIdAssumption DEF TypeInv, UpdateIds
    <3> QED BY <1>3, <3>1 DEF LastToTouch
  <2> QED BY <1>1, <1>3, <2>1
<1>4. CASE p \notin Touched(ev)
  <2>1. CASE Untouched(rows, p) /\ book.levels[p] = RestSnapshot(seed.id).levels[p]
    BY <1>1, <1>4, <2>1 DEF Untouched
  <2>2. ASSUME NEW row \in rows, LastToTouch(rows, p, row), book.levels[p] = Market[row.final][p]
        PROVE  LastToTouch(rows \cup {ev}, p, row) /\ book'.levels[p] = Market[row.final][p]
    BY <1>1, <1>4, <2>2 DEF LastToTouch
  <2> QED BY <2>1, <2>2 DEF LevelsFrom
<1> QED BY <1>3, <1>4

LEMMA BookStep == TypeInv /\ OrderInv /\ BookInv /\ [Next]_vars => BookInv'
<1> SUFFICES ASSUME TypeInv, OrderInv, BookInv, [Next]_vars PROVE BookInv'
  OBVIOUS
<1>1. CASE phase' = "failed"
  BY <1>1 DEF BookInv, Replaying
<1>2. CASE Cancel \/ UNCHANGED vars
  <2>1. UNCHANGED <<diffs, snapshots, phase, book, seed, pending, prev, stream>>
    BY <1>2 DEF Cancel, vars, recording
  <2>2. UNCHANGED Since
    BY <2>1 DEF Since, InRange, EventTime
  <2> QED BY <2>1, <2>2
       DEF BookInv, Replaying, LevelsFrom, Untouched, LastToTouch, PublishedEntry, EventTime
<1>3. CASE Seek
  <2>1. CASE UNCHANGED <<book, seed>> /\ phase' = "failed"
    BY <1>1, <2>1
  <2>2. ASSUME NEW c \in Nearest(From), book' = Loaded(c),
               seed' = [id |-> c.book.id, from |-> c.at], phase' = "load"
        PROVE  BookInv'
    <3>1. c \in Checkpoints
      BY DEF Nearest, TypeInv, TypeOK
    <3>2. book' = RestSnapshot(seed'.id)
      BY <2>2, <3>1, CheckpointType DEF Loaded
    <3> QED BY <2>2, <3>2 DEF BookInv, Replaying
  <2> QED BY <1>3, <2>1, <2>2 DEF Seek
<1>4. CASE LoadDiffs
  <2>1. /\ book = RestSnapshot(seed.id) /\ prev' = None
        /\ UNCHANGED <<diffs, book, seed>> /\ phase' # "load"
    BY <1>4 DEF LoadDiffs, BookInv, TypeInv, recording
  <2>2. CASE pending' = InRange(seed.from)
    <3>1. Since' = {}
      BY <2>1, <2>2 DEF Since, InRange, EventTime
    <3>2. (book = RestSnapshot(seed.id))'
      BY <2>1
    <3>3. LevelsFrom({})'
      BY <3>2 DEF LevelsFrom, Untouched
    <3> QED BY <2>1, <3>1, <3>3 DEF BookInv
  <2> QED BY <1>1, <1>4, <2>2 DEF LoadDiffs
<1>5. CASE HandleGap
  <2>1. PICK ev \in pending :
          /\ GapBefore(ev)
          /\ IsNext(ev)
          /\ \/ \E c \in Nearest(EventTime(ev)) :
                  /\ book' = Loaded(c)
                  /\ seed' = [id |-> c.book.id, from |-> EventTime(ev)]
             \/ UNCHANGED <<book, seed>>
    BY <1>5 DEF HandleGap
  <2>2. UNCHANGED <<diffs, pending>> /\ phase' = "crossed" /\ Replaying
    BY <1>5 DEF HandleGap, recording, Replaying
  <2>3. LevelsFrom(Since)'
    <3>1. CASE UNCHANGED <<book, seed>>
      <4>1. UNCHANGED Since
        BY <2>2, <3>1 DEF Since, InRange, EventTime
      <4> QED BY <2>2, <3>1, <4>1 DEF BookInv, LevelsFrom, Untouched, LastToTouch
    <3>2. ASSUME NEW c \in Nearest(EventTime(ev)), book' = Loaded(c),
                 seed' = [id |-> c.book.id, from |-> EventTime(ev)]
          PROVE  LevelsFrom(Since)'
      <4>1. c \in Checkpoints
        BY DEF Nearest, TypeInv, TypeOK
      <4>2. (book = RestSnapshot(seed.id))' /\ seed'.from = ev.final
        BY <3>2, <4>1, CheckpointType DEF Loaded, EventTime
      <4>3. ASSUME NEW row \in diffs, ev.final <= row.final, row.final <= To
            PROVE  row \in pending
        <5>1. prev # None /\ prev \in diffs /\ ev \in diffs
          BY <2>1 DEF GapBefore, TypeInv, TypeOK
        <5>2. prev.final \in Int /\ row.final \in Int /\ ev.final \in Int
          BY <5>1, LogRows, MaxIdAssumption DEF TypeInv, UpdateIds
        <5>3. prev.final < ev.final
          BY <2>2, <5>1 DEF OrderInv
        <5> QED BY <2>2, <4>3, <5>1, <5>2, <5>3 DEF OrderInv
      <4>4. Since' = {}
        BY <2>2, <4>2, <4>3 DEF Since, InRange, EventTime
      <4> QED BY <4>2, <4>4 DEF LevelsFrom, Untouched
    <3> QED BY <2>1, <3>1, <3>2
  <2> QED BY <2>2, <2>3 DEF BookInv
<1>6. CASE ReplayRow
  <2>1. PICK ev \in pending :
          /\ ev \in diffs /\ ev \in Events
          /\ prev # None => prev.final < ev.final
          /\ \A other \in pending : other = ev \/ ev.final < other.final
          /\ phase = "crossed" \/ phase = "replay"
          /\ book' = Apply(book, ev)
          /\ \/ /\ stream' = Append(stream, PublishedEntry(ev, book'))
                /\ pending' = pending \ {ev}
                /\ prev' = ev
                /\ phase' \in {"failed", "done", "replay"}
             \/ phase' = "failed"
          /\ UNCHANGED <<diffs, seed>>
    BY <1>6, RowReplayed DEF recording
  <2>2. CASE /\ stream' = Append(stream, PublishedEntry(ev, book'))
             /\ pending' = pending \ {ev}
             /\ prev' = ev
             /\ phase' \in {"failed", "done", "replay"}
    <3>1. Replaying
      BY <2>1 DEF Replaying
    <3>2. \A row \in Since : row \in diffs /\ row.final < ev.final
      <4> SUFFICES ASSUME NEW row \in Since PROVE row \in diffs /\ row.final < ev.final
        OBVIOUS
      <4>1. row \in diffs /\ row.final <= To /\ row \notin pending
        BY DEF Since, InRange, EventTime
      <4>2. prev # None
        BY <3>1 DEF OrderInv, Since
      <4>3. prev.final \in Int /\ row.final \in Int /\ ev.final \in Int
        BY <2>1, <4>1, <4>2, LogRows, MaxIdAssumption DEF TypeInv, TypeOK, UpdateIds
      <4> QED BY <2>1, <3>1, <4>1, <4>2, <4>3 DEF OrderInv
    <3>3. Since' = Since \cup {ev}
      BY <2>1, <2>2, <3>1 DEF OrderInv, Since, InRange, EventTime
    <3>4. LevelsFrom(Since)'
      <4>1. PICK rows : rows = Since
        OBVIOUS
      <4>2. rows \in SUBSET diffs /\ LevelsFrom(rows) /\ (\A row \in rows : row.final < ev.final)
        BY <3>1, <3>2, <4>1 DEF BookInv
      <4>3. LevelsFrom(rows \cup {ev})'
        BY <2>1, <4>2, LevelsAfterRow
      <4>4. Since' = rows \cup {ev}
        BY <3>3, <4>1
      <4> HIDE DEF Since
      <4> QED BY <4>3, <4>4 DEF LevelsFrom, Untouched, LastToTouch
    <3>5. book'.id = ev.final
      BY <2>1 DEF Apply
    <3>6. stream'[Len(stream')] = PublishedEntry(ev, book')
      <4>1. stream \in Seq([time : UpdateIds, id : UpdateIds, levels : Levels])
        BY DEF TypeInv, TypeOK
      <4> DEFINE entry == PublishedEntry(ev, book')
      <4>2. stream' = Append(stream, entry)
        BY <2>2
      <4> HIDE DEF entry
      <4>3. stream'[Len(stream')] = entry
        BY <4>1, <4>2
      <4> QED BY <4>3 DEF entry
    <3>7. (PublishedEntry(prev, book))' = PublishedEntry(ev, book')
      BY <2>2 DEF PublishedEntry, EventTime, Snapshot
    <3> QED BY <2>2, <3>4, <3>5, <3>6, <3>7 DEF BookInv
  <2> QED BY <1>1, <2>1, <2>2
<1> QED BY <1>2, <1>3, <1>4, <1>5, <1>6 DEF Next, Engine

(* A price that no row touches in a range covered by rows has one quantity *)
(* from the update before the range to its last.                           *)
LEMMA StaysWhereCovered ==
  ASSUME NEW rows \in SUBSET Events, NEW p \in Prices,
         NEW u \in UpdateIds, NEW w \in UpdateIds, u <= w,
         Covers(rows, (u + 1) .. w),
         \A row \in rows : u < row.final => p \notin Touched(row)
  PROVE  Market[u][p] = Market[w][p]
<1>1. CASE u = w
  BY <1>1
<1>2. CASE u < w
  <2> DEFINE span == [first |-> u + 1, final |-> w]
  <2>1. u \in Int /\ w \in Int /\ 1 <= u /\ w <= MaxId
    BY MaxIdAssumption DEF UpdateIds
  <2>2. span \in Events
    BY <1>2, <2>1, MaxIdAssumption DEF Events, UpdateIds
  <2>3. ASSUME NEW v \in (u + 1) .. w
        PROVE  v # 1 /\ Market[v][p] = Market[v - 1][p]
    <3>1. PICK row \in rows : v \in row.first .. row.final
      BY DEF Covers
    <3>2. row.final \in Int
      BY MaxIdAssumption DEF Events, UpdateIds
    <3>3. u < row.final
      BY <2>1, <3>1, <3>2
    <3> QED BY <3>1, <3>3 DEF Touched
  <2>4. p \notin Touched(span)
    BY <2>3 DEF Touched
  <2>5. span.first = u + 1 /\ span.final = w
    OBVIOUS
  <2> HIDE DEF span
  <2>6. span.first <= u + 1 /\ u <= span.final
    BY <1>2, <2>1, <2>5
  <2> QED BY <2>2, <2>4, <2>5, <2>6, UntouchedStays
<1> QED BY <1>1, <1>2, MaxIdAssumption DEF UpdateIds

LEMMA BookIsTrue == TypeInv /\ OrderInv /\ BookInv => TrueWhereUnbroken
<1> SUFFICES ASSUME TypeInv, OrderInv, BookInv, phase # "failed", Unbroken, phase # "crossed"
             PROVE  Tracks(book) /\ stream[Len(stream)] = PublishedEntry(prev, book)
  BY DEF TrueWhereUnbroken
<1>1. /\ prev # None /\ prev \in diffs /\ phase \in {"replay", "done"} /\ Replaying
      /\ seed.id <= prev.final /\ Covers(Applied, (seed.id + 1) .. prev.final)
      /\ \A ev \in Applied : Covers(Applied, ev.final .. prev.final)
  BY DEF Unbroken, TypeInv, TypeOK, Replaying
<1>2. /\ book.id = prev.final /\ stream[Len(stream)] = PublishedEntry(prev, book)
      /\ LevelsFrom(Since)
  BY <1>1 DEF BookInv
<1>3. diffs \subseteq Events /\ \A ev \in diffs : ev.final \in UpdateIds /\ ev.final \in Int
  BY LogRows, MaxIdAssumption DEF TypeInv, UpdateIds
<1>4. Since = Applied
  <2>1. prev.final <= To /\ To \in Int
    BY <1>1, RangeAssumption DEF OrderInv
  <2>2. \A ev \in diffs : ev \in pending <=> seed.from <= ev.final /\ ev.final <= To /\ prev.final < ev.final
    BY <1>1, <1>3 DEF OrderInv, InRange, EventTime
  <2> QED BY <1>1, <1>3, <2>1, <2>2 DEF Since, Applied, InRange, EventTime
<1>5. seed.id \in UpdateIds /\ prev.final \in UpdateIds
  BY <1>1, <1>3 DEF TypeInv
<1>6. ASSUME NEW p \in Prices
      PROVE  /\ book.levels[p] \in {0, Market[prev.final][p]}
             /\ Cardinality(Prices) <= DepthLimit => book.levels[p] = Market[prev.final][p]
  <2>1. CASE Untouched(Applied, p) /\ book.levels[p] = RestSnapshot(seed.id).levels[p]
    <3>1. Market[seed.id][p] = Market[prev.final][p]
      BY <1>1, <1>3, <1>5, <2>1, StaysWhereCovered DEF Untouched, Applied
    <3>2. Tracks(RestSnapshot(seed.id)) /\ RestSnapshot(seed.id).id = seed.id
      BY <1>5, RestSnapshotTracks DEF RestSnapshot
    <3> QED BY <2>1, <3>1, <3>2 DEF Tracks, Sound, Exact
  <2>2. ASSUME NEW ev \in Applied, LastToTouch(Applied, p, ev), book.levels[p] = Market[ev.final][p]
        PROVE  book.levels[p] = Market[prev.final][p]
    <3>1. ev \in diffs /\ ev.final <= prev.final
      BY DEF Applied, EventTime
    <3>2. Covers(Applied, (ev.final + 1) .. prev.final)
      BY <1>1, <1>3, <3>1 DEF Covers
    <3>3. \A row \in Applied : ev.final < row.final => p \notin Touched(row)
      BY <2>2 DEF LastToTouch
    <3>4. Market[ev.final][p] = Market[prev.final][p]
      <4>1. Applied \in SUBSET Events /\ ev.final \in UpdateIds
        BY <1>3, <3>1 DEF Applied
      <4> DEFINE rows == Applied
                 from == ev.final
                 to   == prev.final
      <4>2. /\ rows \in SUBSET Events /\ from \in UpdateIds /\ to \in UpdateIds /\ from <= to
            /\ Covers(rows, (from + 1) .. to)
            /\ \A row \in rows : from < row.final => p \notin Touched(row)
        BY <1>5, <3>1, <3>2, <3>3, <4>1
      <4> HIDE DEF rows, from, to
      <4>3. Market[from][p] = Market[to][p]
        BY <4>2, StaysWhereCovered
      <4> QED BY <4>3 DEF from, to
    <3> QED BY <2>2, <3>4
  <2> QED BY <1>2, <1>4, <2>1, <2>2 DEF LevelsFrom
<1>7. Sound(book)
  BY <1>2, <1>5, <1>6 DEF Sound
<1>8. ASSUME Cardinality(Prices) <= DepthLimit
      PROVE  Exact(book)
  <2>1. book.levels \in Levels /\ Market[prev.final] \in Levels
    BY <1>5, MarketAssumption DEF TypeInv, TypeOK, Snapshots
  <2>2. \A p \in Prices : book.levels[p] = Market[prev.final][p]
    BY <1>6, <1>8
  <2>3. book.levels = Market[prev.final]
    BY <2>1, <2>2 DEF Levels
  <2> QED BY <1>2, <1>5, <2>3 DEF Exact
<1> QED BY <1>2, <1>7, <1>8 DEF Tracks

(* Wherever the rows applied since the book was loaded leave out no update *)
(* up to the newest, the book is the exchange's and so is what has been    *)
(* published of it, whatever the order of checkpoint, rows older than it   *)
(* and reseeds was (replay/engine.go; ADR-001: "a corrupted book must      *)
(* never be used").                                                        *)
THEOREM TrueWhereUnbrokenHolds == Spec => []TrueWhereUnbroken
<1>1. Init => BookInv
  BY DEF Init, BookInv, Replaying
<1> QED BY <1>1, BookStep, BookIsTrue, OrderAlways, PTL DEF Spec

===============================================================================
