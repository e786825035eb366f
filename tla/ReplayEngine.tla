----------------------------- MODULE ReplayEngine ------------------------------
(***************************************************************************)
(* The replay of one symbol in a backtest, src/engine/backtest/replay:     *)
(* seek a checkpoint, load the diffs recorded since, and publish the book  *)
(* after each of them.                                                     *)
(*                                                                         *)
(* The recording is what the ingest service left in TimescaleDB: some of   *)
(* the events of the stream (an event may be missing because the stream or *)
(* its row was lost) and some true books, stamped by the ingest service's  *)
(* clock. Time is counted in update ids: an event happens at the id of its *)
(* last update, and a checkpoint of update u is captured at u + d for a d  *)
(* in Delays, negative if the exchange's clock is ahead.                   *)
(*                                                                         *)
(* DepthLimit stands for the depth of the checkpoints and for cfg.Depth of *)
(* the replay. Waiting for the pace of the replay is not modelled, being   *)
(* interrupted while waiting is.                                           *)
(***************************************************************************)
EXTENDS OrderBook, Sequences

CONSTANTS
  From,            \* cfg.From
  To,              \* cfg.To
  MaxEvent,        \* bound: update ids one diff event may cover
  Delays,          \* from an event to the capture of the book after it
  MaxCheckpoints,  \* bound: checkpoints in the recording
  Faulty,          \* the calls that may fail
  None             \* no row

ASSUME RangeAssumption == From \in Nat /\ To \in Nat /\ From < To
ASSUME MaxEventAssumption == MaxEvent \in Nat \ {0}
ASSUME DelaysAssumption == Delays \subseteq Int
ASSUME MaxCheckpointsAssumption == MaxCheckpoints \in Nat
ASSUME FaultyAssumption == Faulty \subseteq {"checkpoint", "diffs", "publish", "control", "gap"}
ASSUME NoneAssumption == None \notin Events

VARIABLES
  diffs,      \* order_book_diffs
  snapshots,  \* order_book_snapshots
  cancelled,  \* the context of the run is cancelled
  phase,      \* what the engine does next
  book,       \* e.book
  seed,       \* the update id the book was loaded at, and the time from which
              \* rows have been applied to it since
  pending,    \* the loaded diffs still to be replayed
  prev,       \* diffs[i-1], None in the first iteration
  stream,     \* the L2 stream of the run
  notices,    \* DATA_GAP control events
  gaps,       \* backtest_data_gaps
  unwritten   \* history: the gaps whose row could not be written

recording == <<diffs, snapshots>>
vars == <<recording, cancelled, phase, book, seed, pending, prev, stream, notices, gaps, unwritten>>

(* The outcomes of a call made with the context of the run. *)
Outcomes(call) == IF cancelled \/ call \in Faulty THEN {TRUE, FALSE} ELSE {TRUE}

EventTime(ev) == ev.final

(* What WriteDiff may have left: events that do not overlap. *)
Logs ==
  {log \in SUBSET {ev \in Events : ev.final - ev.first < MaxEvent} :
     \A a, b \in log : a = b \/ a.final < b.first \/ b.final < a.first}

(* What WriteCheckpoint may have left: books of the market. *)
Checkpoints == {[at |-> u + d, book |-> RestSnapshot(u)] : u \in UpdateIds, d \in Delays}

Init ==
  /\ diffs \in Logs
  /\ snapshots \in {cps \in SUBSET Checkpoints : Cardinality(cps) <= MaxCheckpoints}
  /\ cancelled = FALSE
  /\ phase = "seek"
  /\ book = EmptyBook
  /\ seed = [id |-> 0, from |-> 0]
  /\ pending = {}
  /\ prev = None
  /\ stream = << >>
  /\ notices = {}
  /\ gaps = {}
  /\ unwritten = {}

(* SIGTERM, or the engine of another symbol has failed (errgroup). *)
Cancel ==
  /\ ~cancelled
  /\ cancelled' = TRUE
  /\ UNCHANGED <<recording, phase, book, seed, pending, prev, stream, notices, gaps, unwritten>>

-------------------------------------------------------------------------------
(* The newest checkpoint of all. *)
BugNearest(time) == {c \in snapshots : \A d \in snapshots : d.at <= c.at}

(* QueryNearestCheckpoint: the newest captured at or before a time. *)
Nearest(time) ==
  {c \in snapshots : c.at <= time /\ \A d \in snapshots : d.at <= time => d.at <= c.at}

(* Neither Reset nor LoadSnapshot clears the maps: the levels that were there stay. *)
BugLoaded(c) ==
  [id     |-> c.book.id,
   levels |-> [p \in Prices |-> IF c.book.levels[p] # 0 THEN c.book.levels[p]
                                                        ELSE book.levels[p]]]

(* Reset, LoadSnapshot. *)
Loaded(c) == c.book

(* Step 1 and 2 of replay: no checkpoint, or an error, ends it. *)
Seek ==
  /\ phase = "seek"
  /\ \/ \E c \in Nearest(From) :
          /\ book' = Loaded(c)
          /\ seed' = [id |-> c.book.id, from |-> c.at]
          /\ phase' = "load"
     \/ /\ Nearest(From) = {} \/ FALSE \in Outcomes("checkpoint")
        /\ phase' = "failed"
        /\ UNCHANGED <<book, seed>>
  /\ UNCHANGED <<recording, cancelled, pending, prev, stream, notices, gaps, unwritten>>

(* event_time < $3. *)
BugInRange(time) == {ev \in diffs : time <= EventTime(ev) /\ EventTime(ev) < To}

(* QueryDiffs. *)
InRange(time) == {ev \in diffs : time <= EventTime(ev) /\ EventTime(ev) <= To}

(* Step 3 of replay: nothing to replay is a good end. *)
LoadDiffs ==
  /\ phase = "load"
  /\ \/ /\ pending' = InRange(seed.from)
        /\ phase' = IF pending' = {} THEN "done" ELSE "replay"
     \/ /\ FALSE \in Outcomes("diffs")
        /\ phase' = "failed"
        /\ UNCHANGED pending
  /\ UNCHANGED <<recording, cancelled, book, seed, prev, stream, notices, gaps, unwritten>>

(* ORDER BY is forgotten. *)
BugIsNext(ev) == ev \in pending

(* diffs[i]: ORDER BY event_time, final_update_id. *)
IsNext(ev) == ev \in pending /\ \A other \in pending : EventTime(ev) <= EventTime(other)

(* Only a gap of more than one update counts. *)
BugGapBefore(ev) == prev # None /\ ev.first > prev.final + 2

(* maybeHandleGap's condition. *)
GapBefore(ev) == prev # None /\ ev.first # prev.final + 1

Gap(ev) == [from |-> EventTime(prev), to |-> EventTime(ev)]

(* handleGap: the two reports may fail, which is only logged, and the book *)
(* is reseeded from the checkpoint nearest to the row after the gap, if    *)
(* there is one.                                                           *)
HandleGap ==
  /\ phase = "replay"
  /\ \E ev \in pending :
       /\ IsNext(ev)
       /\ GapBefore(ev)
       /\ \E ok \in Outcomes("control") :
            notices' = IF ok THEN notices \cup {Gap(ev)} ELSE notices
       /\ \E ok \in Outcomes("gap") :
            IF ok THEN gaps' = gaps \cup {Gap(ev)} /\ UNCHANGED unwritten
                  ELSE unwritten' = unwritten \cup {Gap(ev)} /\ UNCHANGED gaps
       /\ \/ \E c \in Nearest(EventTime(ev)) :
               /\ book' = Loaded(c)
               /\ seed' = [id |-> c.book.id, from |-> EventTime(ev)]
          \/ /\ Nearest(EventTime(ev)) = {} \/ FALSE \in Outcomes("checkpoint")
             /\ UNCHANGED <<book, seed>>
  /\ phase' = "crossed"
  /\ UNCHANGED <<recording, cancelled, pending, prev, stream>>

(* L2Publisher.Publish: the event time of the diff, the top of the book.   *)
PublishedEntry(ev, bk) ==
  [time |-> EventTime(ev), id |-> bk.id, levels |-> Snapshot(bk).levels]

(* A row whose entry could not be written is tried again. *)
BugAfterFailure == "replay"

(* An error of the speed controller or of the publisher ends the replay. *)
AfterFailure == "failed"

(* The end of an iteration: a cancelled context ends the replay, and so    *)
(* does the last row.                                                      *)
AfterRow == IF cancelled THEN "failed" ELSE IF pending' = {} THEN "done" ELSE "replay"

(* One iteration: applyAndPublish and the look at the context after it. A  *)
(* failed XADD may have been carried out; a cancelled context may end the  *)
(* wait before it.                                                         *)
ReplayRow ==
  \E ev \in pending :
    /\ IsNext(ev)
    /\ phase = "crossed" \/ (phase = "replay" /\ ~GapBefore(ev))
    /\ book' = Apply(book, ev)
    /\ \/ /\ stream' = Append(stream, PublishedEntry(ev, book'))
          /\ pending' = pending \ {ev}
          /\ prev' = ev
          /\ phase' = AfterRow
       \/ /\ FALSE \in Outcomes("publish")
          /\ stream' \in {stream, Append(stream, PublishedEntry(ev, book'))}
          /\ phase' = AfterFailure
          /\ UNCHANGED <<pending, prev>>
    /\ UNCHANGED <<recording, cancelled, seed, notices, gaps, unwritten>>

-------------------------------------------------------------------------------
Engine == Seek \/ LoadDiffs \/ HandleGap \/ ReplayRow

Next == Cancel \/ Engine

(* The goroutine of the engine runs, and the calls it makes return. *)
Spec == Init /\ [][Next]_vars /\ WF_vars(Engine)

-------------------------------------------------------------------------------
Ended == phase \in {"done", "failed"}

(* The state has its types, and every entry carries the time and the id of *)
(* a recorded row.                                                         *)
TypeOK ==
  /\ diffs \in SUBSET Events
  /\ snapshots \in SUBSET Checkpoints
  /\ cancelled \in BOOLEAN
  /\ phase \in {"seek", "load", "replay", "crossed", "done", "failed"}
  /\ book \in Snapshots
  /\ seed \in [id : 0 .. MaxId, from : Int]
  /\ pending \in SUBSET diffs
  /\ prev \in diffs \cup {None}
  /\ stream \in Seq([time : UpdateIds, id : UpdateIds, levels : Levels])
  /\ \A i \in DOMAIN stream :
       \E ev \in diffs : stream[i].time = EventTime(ev) /\ stream[i].id = ev.final
  /\ notices \subseteq [from : UpdateIds, to : UpdateIds]
  /\ gaps \subseteq [from : UpdateIds, to : UpdateIds]
  /\ unwritten \subseteq [from : UpdateIds, to : UpdateIds]

(* The rows applied to the book since it was loaded. *)
Applied == {ev \in diffs : seed.from <= EventTime(ev) /\ EventTime(ev) <= EventTime(prev)}

Covers(rows, ids) == \A u \in ids : \E ev \in rows : u \in ev.first .. ev.final

(* The rows applied since the book was loaded, rows older than it that     *)
(* were applied once more included, leave out no update up to the newest.  *)
Unbroken ==
  /\ prev # None
  /\ Applied # {}
  /\ prev.final >= seed.id
  /\ Covers(Applied, (seed.id + 1) .. prev.final)
  /\ \A ev \in Applied : Covers(Applied, ev.final .. prev.final)

(* Wherever the recording is unbroken, the book is the market's, and so is *)
(* what is published: whatever gaps, reseeds from earlier or later         *)
(* checkpoints and rows replayed over a newer book lie before ("a          *)
(* corrupted book must never be used").                                    *)
TrueWhereUnbroken ==
  phase # "failed" /\ Unbroken /\ phase # "crossed" =>
    /\ Tracks(book)
    /\ stream[Len(stream)] = PublishedEntry(prev, book)

(* A replay that ends well has published one entry for every recorded row  *)
(* of the range that was asked for.                                        *)
NothingLeftOut ==
  phase = "done" =>
    \A ev \in diffs : From <= EventTime(ev) /\ EventTime(ev) <= To =>
      \E i \in DOMAIN stream : stream[i].time = EventTime(ev)

(* Every update between the first entry and the newest that is in no row   *)
(* published is inside a gap for which the engine wrote a row ("Records    *)
(* the gap in backtest_data_gaps table"), or tried to: only a hole whose   *)
(* own insert failed is missing there, whatever else fails, however the    *)
(* gaps before it were crossed and whenever the run is cancelled.          *)
HolesAreRecorded ==
  stream # << >> =>
    \A u \in stream[1].time .. stream[Len(stream)].time :
      \/ \E ev \in diffs : /\ u \in ev.first .. ev.final
                           /\ \E i \in DOMAIN stream : stream[i].time = EventTime(ev)
      \/ \E gap \in gaps \cup unwritten : gap.from < u /\ u < gap.to

(* The stream of the engine is an L2Source: its event times grow, and      *)
(* nothing is written after its end.                                       *)
SourceStatus == IF Ended THEN phase ELSE "running"
SourceTimes == [i \in DOMAIN stream |-> stream[i].time]
Source == INSTANCE L2Source WITH MaxTime <- MaxId, times <- SourceTimes, status <- SourceStatus
SourceSpec == Source!Spec

(* The replay comes to an end, whatever is cancelled or fails. *)
ReplayEnds == <>Ended

===============================================================================
