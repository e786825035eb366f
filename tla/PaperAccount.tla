----------------------------- MODULE PaperAccount -----------------------------
(***************************************************************************)
(* What the paper execution service promises of the accounts it keeps, one *)
(* per session: at most one is open, the newest; a signal trades in it at  *)
(* most once, by one lot, and never beyond one lot; once its halt is on    *)
(* record it trades no more. It promises nothing across sessions: the next *)
(* one may trade a signal again that the last one filled and did not       *)
(* acknowledge. How signals are read, stored and acknowledged, and what    *)
(* crashes, does not show.                                                 *)
(***************************************************************************)
EXTENDS Integers, Sequences

CONSTANTS
  Symbols,   \* the traded symbols
  Signals,   \* the signals that may be filled
  Lot        \* what a trade buys or sells

VARIABLES
  status,   \* of each session, oldest first
  nets,     \* each session's net positions
  filled,   \* each session's filled signals
  halted    \* the sessions whose halt flag is set

vars == <<status, nets, filled, halted>>

Init ==
  /\ status = <<>>
  /\ nets = <<>>
  /\ filled = <<>>
  /\ halted = {}

Open ==
  /\ \A s \in DOMAIN status : status[s] # "RUNNING"
  /\ status # <<>> => status[Len(status)] # "HALTED"
  /\ status' = Append(status, "RUNNING")
  /\ nets' = Append(nets, [symbol \in Symbols |-> 0])
  /\ filled' = Append(filled, {})
  /\ UNCHANGED halted

(* Only the newest account changes. *)
Newest == Len(status)

Trade ==
  /\ status # <<>>
  /\ status[Newest] = "RUNNING"
  /\ Newest \notin halted
  /\ \E symbol \in Symbols, signal \in Signals \ filled[Newest], lot \in {Lot, -Lot} :
       LET net == nets[Newest][symbol] + lot
       IN  /\ net \in -Lot .. Lot
           /\ nets' = [nets EXCEPT ![Newest][symbol] = net]
           /\ filled' = [filled EXCEPT ![Newest] = @ \cup {signal}]
  /\ UNCHANGED <<status, halted>>

(* The flag and the status are written one after the other; either may     *)
(* fail.                                                                   *)
Flag ==
  /\ status # <<>>
  /\ halted' = halted \cup {Newest}
  /\ UNCHANGED <<status, nets, filled>>

Close ==
  /\ status # <<>>
  /\ status[Newest] # "STOPPED"
  /\ \E end \in {"HALTED", "STOPPED"} : status' = [status EXCEPT ![Newest] = end]
  /\ UNCHANGED <<nets, filled, halted>>

Next == Open \/ Trade \/ Flag \/ Close

Spec == Init /\ [][Next]_vars

===============================================================================
