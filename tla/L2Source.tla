------------------------------- MODULE L2Source --------------------------------
(***************************************************************************)
(* What a replay engine of a backtest promises the readers of its L2       *)
(* stream: entries whose event times only grow, and an end, good or bad,   *)
(* after which nothing more is written. ReplayEngine implements this       *)
(* specification; the engines of BacktestRun do no more than it says.      *)
(***************************************************************************)
EXTENDS Integers, Sequences

CONSTANT MaxTime   \* bound: the last event time

VARIABLES
  times,   \* the event times of the entries of the stream, oldest first
  status   \* "running", then "done" or "failed"

(* The event time of the newest entry; 0 before the first. *)
LastTime(entries) == IF entries = << >> THEN 0 ELSE entries[Len(entries)]

Init == times = << >> /\ status = "running"

(* One more entry; the engine may reach its end in the same step. *)
Publish ==
  /\ status = "running"
  /\ \E t \in LastTime(times) + 1 .. MaxTime : times' = Append(times, t)
  /\ status' \in {"running", "done", "failed"}

End ==
  /\ status = "running"
  /\ status' \in {"done", "failed"}
  /\ UNCHANGED times

Next == Publish \/ End

Spec == Init /\ [][Next]_<<times, status>>

===============================================================================
