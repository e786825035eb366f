----------------------------- MODULE IngestProcess -----------------------------
(***************************************************************************)
(* The goroutines of the ingest process around the symbol handlers: the    *)
(* WebSocket loop of src/engine/stream, the dispatcher of                  *)
(* src/engine/dispatch, and main with its shutdown                         *)
(* (src/engine/cmd/erebor-ingest). What a handler does with an event is    *)
(* SymbolHandler's subject; here it takes the event and may start the      *)
(* fetch of a snapshot.                                                    *)
(*                                                                         *)
(* A frame of the exchange is a diff, noise that the loop skips (it does   *)
(* not decode, or is no event), or alien: a malformed diff or one of a     *)
(* symbol without a handler, which the dispatcher skips. All symbols share *)
(* the connection, the channel and the dispatcher.                         *)
(***************************************************************************)
EXTENDS Integers, Sequences

CONSTANTS
  MaxFrames,  \* bound: frames the exchange sends
  BufferSize  \* cfg.BufferSize, the capacity of the channel

ASSUME BoundsAssumption == MaxFrames \in Nat /\ BufferSize \in Nat \ {0}

VARIABLES
  wire,       \* the newest frame the exchange has sent and the loop cannot read again
  accepted,   \* the diffs read from the connection
  loop,       \* Manager.runLoop: "dial", "read", "send", "backoff", "ended"
  inHand,     \* the frame read, to be sent on the channel
  events,     \* the channel
  closed,     \* the channel is closed
  disp,       \* Dispatcher.Run: "select", "handling", "ended"
  handled,    \* the diffs given to handlers, the one in HandleDiff included
  fetching,   \* a handler's snapshot fetch is in flight
  cancelled,  \* the context of the process is cancelled
  main,       \* "serving", "closing", "draining", "stopping", "exited"
  late        \* the shutdown deadline has passed

manager == <<wire, accepted, loop, inHand>>
channel == <<events, closed>>
dispatcher == <<disp, handled>>
process == <<cancelled, main, late>>
vars == <<manager, channel, dispatcher, fetching, process>>

Frames == [id : 1 .. MaxFrames, alien : BOOLEAN]

NoFrame == [id |-> 0, alien |-> FALSE]

Init ==
  /\ wire = 0
  /\ accepted = {}
  /\ loop = "dial"
  /\ inHand = NoFrame
  /\ events = << >>
  /\ closed = FALSE
  /\ disp = "select"
  /\ handled = << >>
  /\ fetching = FALSE
  /\ cancelled = FALSE
  /\ main = "serving"
  /\ late = FALSE

(* Nothing runs after main has returned. *)
Alive == main # "exited"

-------------------------------------------------------------------------------
(* Manager.runLoop.                                                        *)

(* The end of runOnce: the loop looks at its context before anything else. *)
AfterSession == IF cancelled THEN "ended" ELSE "backoff"

(* runOnce, Dial: what was sent while there was no connection is lost.     *)
Dial ==
  /\ Alive
  /\ loop = "dial"
  /\ \/ /\ wire' \in wire .. MaxFrames
        /\ loop' = "read"
     \/ /\ loop' = AfterSession
        /\ UNCHANGED wire
  /\ UNCHANGED <<accepted, inHand, channel, dispatcher, fetching, process>>

(* runOnce, Read: a frame, which is skipped if it is noise.                *)
ReadFrame ==
  /\ Alive
  /\ loop = "read"
  /\ wire < MaxFrames
  /\ wire' = wire + 1
  /\ \/ UNCHANGED <<accepted, loop, inHand>>
     \/ \E alien \in BOOLEAN :
          /\ inHand' = [id |-> wire', alien |-> alien]
          /\ accepted' = IF alien THEN accepted ELSE accepted \cup {wire'}
          /\ loop' = "send"
  /\ UNCHANGED <<channel, dispatcher, fetching, process>>

(* runOnce, Read: the connection is lost or closed, or the context is      *)
(* cancelled.                                                              *)
SessionEnds ==
  /\ Alive
  /\ loop = "read"
  /\ loop' = AfterSession
  /\ UNCHANGED <<wire, accepted, inHand, channel, dispatcher, fetching, process>>

HasRoom == Len(events) < BufferSize

(* A frame that finds the channel full is dropped. *)
BugEnqueue == events' = IF HasRoom THEN Append(events, inHand) ELSE events

(* m.events <- raw: a full channel makes the loop wait.                    *)
Enqueue == HasRoom /\ events' = Append(events, inHand)

(* The send waits for room and for nothing else. *)
BugGivesUp == FALSE

(* ctx.Done is the other case of the select. *)
GivesUp == cancelled

(* runOnce, the select. *)
Send ==
  /\ Alive
  /\ loop = "send"
  /\ inHand' = NoFrame
  /\ \/ /\ Enqueue
        /\ loop' = "read"
     \/ /\ GivesUp
        /\ loop' = "ended"
        /\ UNCHANGED events
  /\ UNCHANGED <<wire, accepted, closed, dispatcher, fetching, process>>

(* Whichever case of the select ends the wait, the loop looks at its       *)
(* context before it dials.                                                *)
Backoff ==
  /\ Alive
  /\ loop = "backoff"
  /\ loop' = IF cancelled THEN "ended" ELSE "dial"
  /\ UNCHANGED <<wire, accepted, inHand, channel, dispatcher, fetching, process>>

-------------------------------------------------------------------------------
(* Dispatcher.Run.                                                         *)

(* The loop ends with the first event it cannot use. *)
BugAfterAlien == "ended"

AfterAlien == "select"

(* select, an event: it is converted and given to the handler of its       *)
(* symbol, or skipped.                                                     *)
TakeEvent ==
  /\ Alive
  /\ disp = "select"
  /\ events # << >>
  /\ events' = Tail(events)
  /\ IF Head(events).alien
     THEN disp' = AfterAlien /\ UNCHANGED handled
     ELSE disp' = "handling" /\ handled' = Append(handled, Head(events).id)
  /\ UNCHANGED <<manager, closed, fetching, process>>

(* HandleDiff returns; it may have started the fetch of a snapshot.        *)
HandlerReturns ==
  /\ Alive
  /\ disp = "handling"
  /\ disp' = "select"
  /\ fetching' \in {fetching, TRUE}
  /\ UNCHANGED <<manager, channel, handled, process>>

(* select, ctx.Done, which may win over an event that is there; or the     *)
(* channel is closed and empty.                                            *)
DispatcherEnds ==
  /\ Alive
  /\ disp = "select"
  /\ cancelled \/ (closed /\ events = << >>)
  /\ disp' = "ended"
  /\ UNCHANGED <<manager, channel, handled, fetching, process>>

(* runSnapshotFetch returns. *)
FetchEnds ==
  /\ Alive
  /\ fetching
  /\ fetching' = FALSE
  /\ UNCHANGED <<manager, channel, dispatcher, process>>

-------------------------------------------------------------------------------
(* main and runShutdown.                                                   *)

(* SIGINT or SIGTERM. *)
Cancel ==
  /\ Alive
  /\ ~cancelled
  /\ cancelled' = TRUE
  /\ UNCHANGED <<manager, channel, dispatcher, fetching, main, late>>

(* The health server is stopped, and Manager.Close called. *)
BeginShutdown ==
  /\ main = "serving"
  /\ cancelled
  /\ main' = "closing"
  /\ UNCHANGED <<manager, channel, dispatcher, fetching, cancelled, late>>

(* Close does not wait for the loop. *)
BugLoopEnded == TRUE

(* wg.Wait *)
LoopEnded == loop = "ended"

CloseStream ==
  /\ main = "closing"
  /\ LoopEnded
  /\ closed' = TRUE
  /\ main' = "draining"
  /\ UNCHANGED <<manager, events, dispatcher, fetching, cancelled, late>>

DispatchDone == disp = "ended"

AwaitDispatcher ==
  /\ main = "draining"
  /\ \/ DispatchDone /\ UNCHANGED late
     \/ late' = TRUE
  /\ main' = "stopping"
  /\ UNCHANGED <<manager, channel, dispatcher, fetching, cancelled>>

(* Handler.Stop of every handler, and the end of main.                     *)
StopHandlers ==
  /\ main = "stopping"
  /\ ~fetching
  /\ main' = "exited"
  /\ UNCHANGED <<manager, channel, dispatcher, fetching, cancelled, late>>

-------------------------------------------------------------------------------
Manager == Dial \/ ReadFrame \/ SessionEnds \/ Send \/ Backoff

Dispatcher == TakeEvent \/ HandlerReturns \/ DispatcherEnds

Main == BeginShutdown \/ CloseStream \/ AwaitDispatcher \/ StopHandlers

Next == Manager \/ Dispatcher \/ FetchEnds \/ Cancel \/ Main

(* The goroutines run; a session that is cancelled returns from its read;  *)
(* HandleDiff returns, and so does a cancelled fetch                       *)
(* (SymbolHandler!FetchesEnd).                                             *)
Spec ==
  /\ Init /\ [][Next]_vars
  /\ WF_vars(Manager)
  /\ WF_vars(Dispatcher)
  /\ WF_vars(cancelled /\ FetchEnds)
  /\ WF_vars(Main)

-------------------------------------------------------------------------------
(* Properties.                                                             *)

(* The state has its types; the channel holds no more than its capacity.   *)
TypeOK ==
  /\ wire \in 0 .. MaxFrames
  /\ accepted \subseteq 1 .. wire
  /\ loop \in {"dial", "read", "send", "backoff", "ended"}
  /\ inHand \in Frames \cup {NoFrame}
  /\ events \in Seq(Frames) /\ Len(events) <= BufferSize
  /\ closed \in BOOLEAN
  /\ disp \in {"select", "handling", "ended"}
  /\ handled \in Seq(1 .. MaxFrames)
  /\ fetching \in BOOLEAN
  /\ cancelled \in BOOLEAN
  /\ main \in {"serving", "closing", "draining", "stopping", "exited"}
  /\ late \in BOOLEAN

Given == {handled[i] : i \in DOMAIN handled}

Queued == {events[i].id : i \in {j \in DOMAIN events : ~events[j].alien}}

OnItsWay == Queued \cup (IF loop = "send" /\ ~inHand.alien THEN {inHand.id} ELSE {})

(* Handlers are given every diff that was read, in the order of the wire   *)
(* and without a hole, however slow they are: the channel makes the loop   *)
(* wait. A shutdown cuts off the end and leaves out nothing else.          *)
Conveyed ==
  /\ \A i, j \in DOMAIN handled : i < j => handled[i] < handled[j]
  /\ \A done \in Given, waiting \in OnItsWay : done < waiting
  /\ Given \cup OnItsWay \subseteq accepted
  /\ \A lost \in accepted \ (Given \cup OnItsWay) :
       cancelled /\ \A id \in Given \cup OnItsWay : id < lost

(* The loop never sends on a closed channel, which would panic; and when   *)
(* main returns, and the connection pool is closed behind it, no goroutine *)
(* still works, unless the deadline has passed ("After this, no new        *)
(* HandleDiff calls will run").                                            *)
QuietAtExit ==
  /\ closed => loop = "ended"
  /\ main = "exited" /\ ~late => loop = "ended" /\ disp = "ended" /\ ~fetching

(* SIGTERM ends the process: a loop that waits for room in the channel, or *)
(* a dispatcher that is gone, does not hold up the rest.                   *)
ShutdownEnds == cancelled ~> main = "exited"

(* A diff that was read gets to its handler, unless the process is ended. *)
DiffsArrive ==
  \A id \in 1 .. MaxFrames : id \in accepted ~> (cancelled \/ id \in Given)

===============================================================================
