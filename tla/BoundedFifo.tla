---------------------------- MODULE BoundedFifo ----------------------------
(***************************************************************************)
(* What a service queue promises to the dispenser, the operators and the   *)
(* director: at most Capacity tickets, handed out in the order they came   *)
(* in.  answer is what the last call returned.                             *)
(***************************************************************************)
EXTENDS Integers, Sequences

CONSTANTS
  Tickets,     (* the tickets users may hold                               *)
  NoTicket,    (* what pop returns when nobody waits                       *)
  Capacity     (* how many tickets may wait                                *)

VARIABLES
  waiting,     (* the tickets that wait, oldest first                      *)
  answer       (* 0 or -1 from push, a ticket or NoTicket from pop         *)

Init == waiting = <<>> /\ answer = 0

Accept(t) ==
  /\ Len(waiting) < Capacity
  /\ waiting' = Append(waiting, t)
  /\ answer' = 0

Refuse ==
  /\ Len(waiting) = Capacity
  /\ answer' = -1
  /\ UNCHANGED waiting

Serve ==
  /\ waiting # <<>>
  /\ waiting' = Tail(waiting)
  /\ answer' = Head(waiting)

NobodyWaits ==
  /\ waiting = <<>>
  /\ answer' = NoTicket
  /\ UNCHANGED waiting

Clear ==
  /\ waiting' = <<>>
  /\ UNCHANGED answer

Next == (\E t \in Tickets : Accept(t)) \/ Refuse \/ Serve \/ NobodyWaits \/ Clear

Spec == Init /\ [][Next]_<<waiting, answer>>
=============================================================================
