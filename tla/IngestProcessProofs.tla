-------------------------- MODULE IngestProcessProofs --------------------------
(***************************************************************************)
(* What TLAPS proves of IngestProcess, for every number of frames and      *)
(* every capacity of the channel: the types, that the diffs read are       *)
(* conveyed in order and without a hole, and that nothing works after main *)
(* has returned.                                                           *)
(***************************************************************************)
EXTENDS IngestProcess, TLAPS

(* The shutdown goes in order: what is closed or waited for has ended.     *)
ShutdownInv ==
  /\ main # "serving" => cancelled
  /\ loop = "ended" => cancelled
  /\ closed => loop = "ended"
  /\ main \in {"draining", "stopping", "exited"} => closed
  /\ main \in {"stopping", "exited"} /\ ~late => disp = "ended"
  /\ main = "exited" /\ ~late => ~fetching

(* What was handled, what is on the channel and what is in hand follow one *)
(* another on the wire.                                                    *)
OrderInv ==
  /\ \A i, j \in DOMAIN handled : i < j => handled[i] < handled[j]
  /\ \A i, j \in DOMAIN events : i < j => events[i].id < events[j].id
  /\ \A i \in DOMAIN handled, j \in DOMAIN events : handled[i] < events[j].id
  /\ \A i \in DOMAIN handled : handled[i] <= wire
  /\ \A j \in DOMAIN events : events[j].id <= wire
  /\ loop = "send" =>
       /\ inHand.id = wire
       /\ \A i \in DOMAIN handled : handled[i] < wire
       /\ \A j \in DOMAIN events : events[j].id < wire

(* Nothing that was read is missing while the loop goes on; what it drops  *)
(* when it ends is newer than everything else.                             *)
HoldInv ==
  /\ Given \cup OnItsWay \subseteq accepted
  /\ loop # "ended" => accepted \subseteq Given \cup OnItsWay
  /\ \A lost \in accepted \ (Given \cup OnItsWay), id \in Given \cup OnItsWay : id < lost

-------------------------------------------------------------------------------
(* Types.                                                                  *)

(* TypeOK, and a frame in hand is a frame. *)
TypeInv == TypeOK /\ (loop = "send" => inHand \in Frames)

LEMMA TypeInit == Init => TypeInv
<1> SUFFICES ASSUME Init PROVE TypeInv
  OBVIOUS
<1>1. wire \in 0 .. MaxFrames /\ accepted \subseteq 1 .. wire /\ Len(events) <= BufferSize
  BY BoundsAssumption DEF Init
<1>2. events \in Seq(Frames) /\ handled \in Seq(1 .. MaxFrames)
  BY DEF Init
<1> QED BY <1>1, <1>2 DEF Init, TypeInv, TypeOK

LEMMA TypeStep == TypeInv /\ [Next]_vars => TypeInv'
<1> SUFFICES ASSUME TypeInv, [Next]_vars PROVE TypeInv'
  OBVIOUS
<1> USE BoundsAssumption DEF TypeInv
<1>1. CASE Dial
  BY <1>1 DEF TypeOK, Dial, AfterSession, channel, dispatcher, process
<1>2. CASE ReadFrame
  <2>1. wire' \in 1 .. MaxFrames
    BY <1>2 DEF ReadFrame, TypeOK
  <2>2. accepted' \subseteq 1 .. wire'
    <3>1. accepted' \subseteq accepted \cup {wire'}
      BY <1>2 DEF ReadFrame
    <3>2. 1 .. wire \subseteq 1 .. wire' /\ wire' \in 1 .. wire'
      BY <1>2, <2>1 DEF ReadFrame, TypeOK
    <3> QED BY <3>1, <3>2 DEF TypeOK
  <2>3. /\ inHand' \in Frames \cup {NoFrame} /\ loop' \in {"read", "send"}
        /\ loop' = "send" => inHand' \in Frames
    BY <1>2, <2>1 DEF ReadFrame, TypeOK, Frames
  <2> QED BY <1>2, <2>1, <2>2, <2>3 DEF ReadFrame, TypeOK, channel, dispatcher, process
<1>3. CASE SessionEnds
  BY <1>3 DEF TypeOK, SessionEnds, AfterSession, channel, dispatcher, process
<1>4. CASE Send
  <2>1. events' \in Seq(Frames) /\ Len(events') <= BufferSize
    BY <1>4 DEF Send, Enqueue, HasRoom, TypeOK
  <2> QED BY <1>4, <2>1 DEF Send, TypeOK, NoFrame, dispatcher, process
<1>5. CASE Backoff
  BY <1>5 DEF TypeOK, Backoff, channel, dispatcher, process
<1>6. CASE TakeEvent
  <2>1. events' \in Seq(Frames) /\ Len(events') <= BufferSize
    BY <1>6 DEF TakeEvent, TypeOK
  <2>2. Head(events) \in Frames
    BY <1>6 DEF TakeEvent, TypeOK
  <2>3. Head(events).id \in 1 .. MaxFrames
    BY <2>2 DEF Frames
  <2>4. handled' \in Seq(1 .. MaxFrames)
    <3>1. handled' = handled \/ handled' = Append(handled, Head(events).id)
      BY <1>6 DEF TakeEvent
    <3>2. \A n \in 1 .. MaxFrames : Append(handled, n) \in Seq(1 .. MaxFrames)
      BY DEF TypeOK
    <3> QED BY <3>1, <3>2, <2>3, Zenon DEF TypeOK
  <2> QED BY <1>6, <2>1, <2>4 DEF TakeEvent, AfterAlien, TypeOK, manager, process
<1>7. CASE HandlerReturns \/ DispatcherEnds \/ FetchEnds \/ Cancel
  <2>1. fetching' \in BOOLEAN
    BY <1>7, Zenon DEF TypeOK, HandlerReturns, DispatcherEnds, FetchEnds, Cancel
  <2>2. cancelled' \in BOOLEAN
    BY <1>7, Zenon DEF TypeOK, HandlerReturns, DispatcherEnds, FetchEnds, Cancel, process
  <2>3. UNCHANGED <<wire, accepted, loop, inHand, events, handled, main, late>>
    BY <1>7 DEF HandlerReturns, DispatcherEnds, FetchEnds, Cancel, manager, channel, dispatcher, process
  <2>4. disp' \in {"select", "handling", "ended"} /\ closed' \in BOOLEAN
    BY <1>7 DEF TypeOK, HandlerReturns, DispatcherEnds, FetchEnds, Cancel, channel, dispatcher
  <2> QED BY <2>1, <2>2, <2>3, <2>4 DEF TypeOK
<1>8. CASE Main
  <2>1. CASE BeginShutdown
    BY <2>1 DEF TypeOK, BeginShutdown, manager, channel, dispatcher
  <2>2. CASE CloseStream
    BY <2>2 DEF TypeOK, CloseStream, manager, channel, dispatcher
  <2>3. CASE AwaitDispatcher
    BY <2>3 DEF TypeOK, AwaitDispatcher, manager, channel, dispatcher
  <2>4. CASE StopHandlers
    BY <2>4 DEF TypeOK, StopHandlers, manager, channel, dispatcher
  <2> QED BY <1>8, <2>1, <2>2, <2>3, <2>4 DEF Main
<1>9. CASE UNCHANGED vars
  BY <1>9 DEF TypeOK, vars, manager, channel, dispatcher, process
<1> QED
  BY <1>1, <1>2, <1>3, <1>4, <1>5, <1>6, <1>7, <1>8, <1>9 DEF Next, Manager, Dispatcher

(* The state always has its types, and the channel never holds more than   *)
(* its capacity (stream.New, Manager.runOnce).                             *)
THEOREM ProcessTypeCorrect == Spec => []TypeOK
<1>1. TypeInv => TypeOK
  BY DEF TypeInv
<1> QED BY <1>1, TypeInit, TypeStep, PTL DEF Spec

-------------------------------------------------------------------------------
(* The shutdown.                                                           *)

LEMMA ShutdownStep == ShutdownInv /\ [Next]_vars => ShutdownInv'
<1> SUFFICES ASSUME ShutdownInv, [Next]_vars PROVE ShutdownInv'
  OBVIOUS
<1> USE DEF ShutdownInv
<1>1. CASE Manager
  BY <1>1 DEF Manager, Dial, ReadFrame, SessionEnds, Send, Backoff, AfterSession, GivesUp,
     Alive, channel, dispatcher, process
<1>2. CASE Dispatcher \/ FetchEnds
  <2>1. main' = main /\ late' = late /\ cancelled' = cancelled /\ closed' = closed /\ loop' = loop
    BY <1>2 DEF Dispatcher, TakeEvent, HandlerReturns, DispatcherEnds, FetchEnds, manager,
       channel, process
  <2>2. main # "exited"
    BY <1>2 DEF Dispatcher, TakeEvent, HandlerReturns, DispatcherEnds, FetchEnds, Alive
  <2>3. disp = "ended" => disp' = "ended"
    BY <1>2 DEF Dispatcher, TakeEvent, HandlerReturns, DispatcherEnds, FetchEnds, dispatcher
  <2> QED BY <2>1, <2>2, <2>3
<1>3. CASE Cancel
  BY <1>3 DEF Cancel, manager, channel, dispatcher
<1>4. CASE Main
  BY <1>4 DEF Main, BeginShutdown, CloseStream, AwaitDispatcher, StopHandlers, LoopEnded,
     DispatchDone, manager, channel, dispatcher
<1>5. CASE UNCHANGED vars
  BY <1>5 DEF vars, manager, channel, dispatcher, process
<1> QED BY <1>1, <1>2, <1>3, <1>4, <1>5 DEF Next

(* The loop sends on no closed channel, and when main returns before its   *)
(* deadline nothing works any more (runShutdown, Manager.Close).           *)
THEOREM QuietAtExitHolds == Spec => []QuietAtExit
<1>1. Init => ShutdownInv
  BY DEF Init, ShutdownInv
<1>2. ShutdownInv => QuietAtExit
  BY DEF ShutdownInv, QuietAtExit
<1> QED BY <1>1, <1>2, ShutdownStep, PTL DEF Spec

-------------------------------------------------------------------------------
(* The order and the completeness of what is conveyed.                     *)

(* A frame that is sent becomes the last of the channel (m.events <- raw). *)
LEMMA SentIsLast ==
  ASSUME TypeInv, Enqueue
  PROVE  /\ DOMAIN events' = DOMAIN events \cup {Len(events) + 1}
         /\ \A i \in DOMAIN events : events'[i] = events[i] /\ i < Len(events) + 1
         /\ events'[Len(events) + 1] = inHand
BY DEF TypeInv, TypeOK, Enqueue

(* A frame that is taken was the first of the channel (<-events).          *)
LEMMA TakenIsFirst ==
  ASSUME TypeInv, events # << >>, events' = Tail(events)
  PROVE  /\ 1 \in DOMAIN events /\ Head(events) = events[1]
         /\ \A i \in DOMAIN events' : i + 1 \in DOMAIN events /\ events'[i] = events[i + 1]
         /\ \A i \in DOMAIN events : i = 1 \/ (i - 1 \in DOMAIN events' /\ events'[i - 1] = events[i])
         /\ \A i \in DOMAIN events' : i \in Nat \ {0}
BY DEF TypeInv, TypeOK

(* A diff given to a handler is the last one given.                        *)
LEMMA GivenIsLast ==
  ASSUME TypeInv, NEW id \in 1 .. MaxFrames, handled' = Append(handled, id)
  PROVE  /\ DOMAIN handled' = DOMAIN handled \cup {Len(handled) + 1}
         /\ \A i \in DOMAIN handled : handled'[i] = handled[i] /\ i < Len(handled) + 1
         /\ handled'[Len(handled) + 1] = id
         /\ Given' = Given \cup {id}
<1>1. /\ DOMAIN handled' = DOMAIN handled \cup {Len(handled) + 1}
      /\ \A i \in DOMAIN handled : handled'[i] = handled[i] /\ i < Len(handled) + 1
      /\ handled'[Len(handled) + 1] = id
  BY DEF TypeInv, TypeOK
<1> QED BY <1>1 DEF Given

(* The ids of the frames and of the diffs are numbers.                     *)
LEMMA IdsAreNumbers ==
  ASSUME TypeInv
  PROVE  /\ wire \in Int
         /\ \A i \in DOMAIN handled : handled[i] \in Int /\ i \in Int
         /\ \A i \in DOMAIN events : events[i] \in Frames /\ events[i].id \in Int /\ i \in Int
<1>1. wire \in Int /\ \A i \in DOMAIN handled : handled[i] \in Int /\ i \in Int
  BY BoundsAssumption DEF TypeInv, TypeOK
<1>2. \A i \in DOMAIN events : events[i] \in Frames /\ i \in Int
  BY DEF TypeInv, TypeOK
<1>3. \A frame \in Frames : frame.id \in Int
  BY BoundsAssumption DEF Frames
<1> QED BY <1>1, <1>2, <1>3

LEMMA OrderStep == TypeInv /\ OrderInv /\ [Next]_vars => OrderInv'
<1> SUFFICES ASSUME TypeInv, OrderInv, [Next]_vars PROVE OrderInv'
  OBVIOUS
<1>1. CASE Dial \/ ReadFrame \/ SessionEnds \/ Backoff
  <2>1. handled' = handled /\ events' = events
    BY <1>1 DEF Dial, ReadFrame, SessionEnds, Backoff, channel, dispatcher
  <2>2. wire' \in Int /\ wire <= wire'
    BY <1>1 DEF Dial, ReadFrame, SessionEnds, Backoff, TypeInv, TypeOK
  <2>3. loop' = "send" => wire' = wire + 1 /\ inHand'.id = wire'
    BY <1>1 DEF Dial, ReadFrame, SessionEnds, Backoff, AfterSession
  <2> QED BY <2>1, <2>2, <2>3, IdsAreNumbers DEF OrderInv
<1>2. CASE Send
  <2>1. handled' = handled /\ wire' = wire /\ loop' # "send"
    BY <1>2 DEF Send, dispatcher
  <2>2. CASE UNCHANGED events
    BY <2>1, <2>2 DEF OrderInv
  <2>3. CASE Enqueue
    <3>1. loop = "send"
      BY <1>2 DEF Send
    <3> QED BY <2>1, <2>3, <3>1, SentIsLast, IdsAreNumbers DEF OrderInv
  <2> QED BY <1>2, <2>2, <2>3 DEF Send
<1>3. CASE TakeEvent
  <2>1. events # << >> /\ events' = Tail(events) /\ wire' = wire /\ loop' = loop /\ inHand' = inHand
    BY <1>3 DEF TakeEvent, manager
  <2>2. CASE UNCHANGED handled
    BY <2>1, <2>2, TakenIsFirst, IdsAreNumbers DEF OrderInv
  <2>3. CASE handled' = Append(handled, Head(events).id)
    <3>1. Head(events).id \in 1 .. MaxFrames
      BY <2>1, TakenIsFirst, IdsAreNumbers DEF Frames
    <3> QED BY <2>1, <2>3, <3>1, TakenIsFirst, GivenIsLast, IdsAreNumbers DEF OrderInv
  <2> QED BY <1>3, <2>2, <2>3 DEF TakeEvent
<1>4. CASE HandlerReturns \/ DispatcherEnds \/ FetchEnds \/ Cancel \/ Main \/ UNCHANGED vars
  <2>1. UNCHANGED <<wire, loop, inHand, events, handled>>
    BY <1>4 DEF HandlerReturns, DispatcherEnds, FetchEnds, Cancel, Main, BeginShutdown,
       CloseStream, AwaitDispatcher, StopHandlers, vars, manager, channel, dispatcher
  <2> QED BY <2>1 DEF OrderInv
<1> QED BY <1>1, <1>2, <1>3, <1>4 DEF Next, Manager, Dispatcher

(* What is in hand after a step that neither sends nor takes.              *)
LEMMA QueuedIs ==
  \A id : id \in Queued <=> \E i \in DOMAIN events : ~events[i].alien /\ events[i].id = id
BY Zenon DEF Queued

(* Sending moves a diff from the hand to the channel.                      *)
LEMMA QueuedBySend ==
  ASSUME TypeInv, Enqueue
  PROVE  Queued' = Queued \cup (IF ~inHand.alien THEN {inHand.id} ELSE {})
<1>1. \A id : id \in Queued' <=> \E i \in DOMAIN events' : ~events'[i].alien /\ events'[i].id = id
  BY Zenon DEF Queued
<1>2. ASSUME NEW id PROVE id \in Queued' <=> id \in Queued \/ (~inHand.alien /\ id = inHand.id)
  <2>1. ASSUME NEW i \in DOMAIN events', events'[i].id = id, ~events'[i].alien
        PROVE  id \in Queued \/ (~inHand.alien /\ id = inHand.id)
    <3>1. i \in DOMAIN events \/ i = Len(events) + 1
      BY SentIsLast
    <3> QED BY <2>1, <3>1, SentIsLast, QueuedIs, Zenon
  <2>2. DOMAIN events \subseteq DOMAIN events' /\ Len(events) + 1 \in DOMAIN events'
    BY SentIsLast
  <2>3. id \in Queued => id \in Queued'
    <3>1. \A i \in DOMAIN events : i \in DOMAIN events' /\ events'[i] = events[i]
      BY <2>2, SentIsLast
    <3>2. ASSUME NEW i \in DOMAIN events, ~events[i].alien, events[i].id = id
          PROVE  id \in Queued'
      <4>1. i \in DOMAIN events' /\ ~events'[i].alien /\ events'[i].id = id
        BY <3>1, <3>2
      <4> QED BY <1>1, <4>1
    <3> QED BY <3>2, QueuedIs, Zenon
  <2>4. ~inHand.alien /\ id = inHand.id => id \in Queued'
    BY <1>1, <2>2, SentIsLast, Zenon
  <2> QED BY <1>1, <2>1, <2>3, <2>4, Zenon
<1> QED BY <1>2, Zenon

(* Taking a diff moves it from the channel to its handler; taking anything *)
(* else moves nothing.                                                     *)
LEMMA QueuedByTake ==
  ASSUME TypeInv, events # << >>, events' = Tail(events)
  PROVE  Queued' \cup (IF Head(events).alien THEN {} ELSE {Head(events).id}) = Queued
<1>1. \A id : id \in Queued' <=> \E i \in DOMAIN events' : ~events'[i].alien /\ events'[i].id = id
  BY Zenon DEF Queued
<1>2. ASSUME NEW id \in Queued' PROVE id \in Queued
  <2>1. PICK i \in DOMAIN events' : ~events'[i].alien /\ events'[i].id = id
    BY <1>1, <1>2, Zenon
  <2>2. i + 1 \in DOMAIN events /\ events'[i] = events[i + 1]
    BY TakenIsFirst
  <2> QED BY <2>1, <2>2, QueuedIs, Zenon
<1>3. ASSUME NEW id \in Queued PROVE id \in Queued' \/ (~Head(events).alien /\ id = Head(events).id)
  <2>1. PICK i \in DOMAIN events : ~events[i].alien /\ events[i].id = id
    BY <1>3, QueuedIs, Zenon
  <2>2. i = 1 \/ (i - 1 \in DOMAIN events' /\ events'[i - 1] = events[i])
    BY TakenIsFirst
  <2>3. i = 1 => events[i] = Head(events)
    BY TakenIsFirst
  <2> QED BY <1>1, <2>1, <2>2, <2>3, Zenon
<1>4. ASSUME ~Head(events).alien PROVE Head(events).id \in Queued
  BY <1>4, TakenIsFirst, QueuedIs, Zenon
<1> QED BY <1>2, <1>3, <1>4, Zenon

LEMMA HoldStep == TypeInv /\ OrderInv /\ HoldInv /\ [Next]_vars => HoldInv'
<1> SUFFICES ASSUME TypeInv, OrderInv, HoldInv, [Next]_vars PROVE HoldInv'
  OBVIOUS
<1> DEFINE Known == Given \cup OnItsWay
<1>1. CASE Dial \/ SessionEnds \/ Backoff
  <2>1. UNCHANGED <<accepted, handled, events>> /\ loop # "ended" /\ loop # "send" /\ loop' # "send"
    BY <1>1 DEF Dial, SessionEnds, Backoff, AfterSession, channel, dispatcher
  <2>2. Known' = Known
    BY <2>1 DEF Given, OnItsWay, Queued
  <2> QED BY <2>1, <2>2 DEF HoldInv
<1>2. CASE ReadFrame
  <2>1. handled' = handled /\ events' = events /\ loop = "read" /\ loop' \in {"read", "send"}
    BY <1>2 DEF ReadFrame, channel, dispatcher
  <2>2. Given' = Given /\ Queued' = Queued /\ OnItsWay = Queued
    BY <2>1 DEF Given, Queued, OnItsWay
  <2>3. accepted = Known
    BY <2>1 DEF HoldInv
  <2>4. accepted' = Known'
    <3>1. CASE UNCHANGED <<accepted, loop, inHand>>
      BY <2>1, <2>2, <2>3, <3>1 DEF OnItsWay
    <3>2. ASSUME NEW alien \in BOOLEAN,
                 inHand' = [id |-> wire', alien |-> alien],
                 accepted' = IF alien THEN accepted ELSE accepted \cup {wire'},
                 loop' = "send"
          PROVE  accepted' = Known'
      BY <2>2, <2>3, <3>2 DEF OnItsWay
    <3> QED BY <1>2, <3>1, <3>2 DEF ReadFrame
  <2> QED BY <2>4 DEF HoldInv
<1>3. CASE Send
  <2>1. Given' = Given /\ accepted' = accepted /\ loop = "send" /\ loop' # "send"
    BY <1>3 DEF Send, dispatcher, Given
  <2>2. CASE Enqueue /\ loop' = "read"
    <3>1. Known' = Known
      BY <2>1, <2>2, QueuedBySend DEF OnItsWay
    <3> QED BY <2>1, <3>1 DEF HoldInv
  <2>3. CASE loop' = "ended" /\ UNCHANGED events
    <3>1. Known' = Given \cup Queued
      BY <2>1, <2>3 DEF OnItsWay, Queued
    <3>2. accepted \subseteq Given \cup Queued \cup {inHand.id}
      BY <2>1 DEF HoldInv, OnItsWay
    <3>3. \A id \in Given \cup Queued : id < inHand.id
      BY <2>1, QueuedIs DEF OrderInv, Given
    <3>4. Given \cup Queued \subseteq accepted
      BY DEF HoldInv, OnItsWay
    <3> QED BY <2>1, <2>3, <3>1, <3>2, <3>3, <3>4 DEF HoldInv
  <2> QED BY <1>3, <2>2, <2>3 DEF Send
<1>4. CASE TakeEvent
  <2>1. events # << >> /\ events' = Tail(events) /\ UNCHANGED <<accepted, loop, inHand>>
    BY <1>4 DEF TakeEvent, manager
  <2>2. Given' = Given \cup (IF Head(events).alien THEN {} ELSE {Head(events).id})
    <3>1. Head(events).id \in 1 .. MaxFrames
      BY <2>1, TakenIsFirst, IdsAreNumbers DEF Frames
    <3> QED BY <1>4, <3>1, GivenIsLast DEF TakeEvent, Given
  <2>3. Known' = Known
    BY <2>1, <2>2, QueuedByTake DEF OnItsWay
  <2> QED BY <2>1, <2>3 DEF HoldInv
<1>5. CASE HandlerReturns \/ DispatcherEnds \/ FetchEnds \/ Cancel \/ Main \/ UNCHANGED vars
  <2>1. UNCHANGED <<accepted, loop, inHand, events, handled>>
    BY <1>5 DEF HandlerReturns, DispatcherEnds, FetchEnds, Cancel, Main, BeginShutdown,
       CloseStream, AwaitDispatcher, StopHandlers, vars, manager, channel, dispatcher
  <2>2. Known' = Known
    BY <2>1 DEF Given, OnItsWay, Queued
  <2> QED BY <2>1, <2>2 DEF HoldInv
<1> QED BY <1>1, <1>2, <1>3, <1>4, <1>5 DEF Next, Manager, Dispatcher

(* The diffs that the connection yields reach the handlers in their order  *)
(* and without a hole, through a full channel, skipped events, lost        *)
(* connections and shutdowns (Manager.runOnce, Dispatcher.Run).            *)
THEOREM ConveyedHolds == Spec => []Conveyed
<1>1. Init => OrderInv /\ HoldInv /\ ShutdownInv
  BY DEF Init, OrderInv, HoldInv, ShutdownInv, Given, OnItsWay, Queued
<1>2. TypeInv /\ OrderInv /\ HoldInv /\ ShutdownInv => Conveyed
  <2> SUFFICES ASSUME TypeInv, OrderInv, HoldInv, ShutdownInv PROVE Conveyed
    OBVIOUS
  <2>1. \A done \in Given, waiting \in Queued : done < waiting
    BY QueuedIs DEF OrderInv, Given
  <2>2. loop = "send" => \A done \in Given : done < inHand.id
    BY DEF OrderInv, Given
  <2>3. \A done \in Given, waiting \in OnItsWay : done < waiting
    BY <2>1, <2>2 DEF OnItsWay
  <2>4. \A lost \in accepted \ (Given \cup OnItsWay) : cancelled
    BY DEF HoldInv, ShutdownInv
  <2> QED BY <2>3, <2>4 DEF Conveyed, OrderInv, HoldInv
<1> QED BY <1>1, <1>2, TypeInit, TypeStep, OrderStep, HoldStep, ShutdownStep, PTL DEF Spec

===============================================================================
