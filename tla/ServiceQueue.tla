---------------------------- MODULE ServiceQueue ----------------------------
(***************************************************************************)
(* struct service_queue and its operations (commons.h): a ring buffer of   *)
(* MAX_COUNT_QUEUE tickets.  A call is one step: every caller holds the    *)
(* mutex of the queue, except for the reset in the morning, which takes    *)
(* none (director.c:376) and runs when nobody is at work on the queues     *)
(* (DayBarrier and QueuesStayFlushed of PostOffice).  PostOffice uses the  *)
(* sequence of waiting tickets instead; this module shows that the ring    *)
(* buffer is one.                                                          *)
(***************************************************************************)
EXTENDS Integers, Sequences

CONSTANTS Tickets, NoTicket, MAX_COUNT_QUEUE

ASSUME RingAssumption == MAX_COUNT_QUEUE \in Nat \ {0} /\ NoTicket \notin Tickets

Slots == 0 .. MAX_COUNT_QUEUE - 1

VARIABLES
  entries,     (* a popped slot is blanked, and so is a zeroed one: the    *)
               (* callers take every user_pid below 1 for "no ticket"      *)
  head, tail, length,
  result       (* what the last push or pop returned                       *)

vars == <<entries, head, tail, length, result>>

TypeOK ==
  /\ entries \in [Slots -> Tickets \cup {NoTicket}]
  /\ head \in Slots
  /\ tail \in Slots
  /\ length \in 0 .. MAX_COUNT_QUEUE
  /\ result \in Tickets \cup {NoTicket, 0, -1}

Init ==
  /\ entries = [i \in Slots |-> NoTicket]
  /\ head = 0 /\ tail = 0 /\ length = 0
  /\ result = 0

(* Mutant: tail stays where it is. *)
ResetKeepsTail ==
  /\ entries' = [i \in Slots |-> NoTicket]
  /\ head' = 0 /\ length' = 0
  /\ UNCHANGED <<tail, result>>

(* service_queue_reset *)
Reset ==
  /\ entries' = [i \in Slots |-> NoTicket]
  /\ head' = 0 /\ tail' = 0 /\ length' = 0
  /\ UNCHANGED result

(* service_queue_is_full *)
IsFull == length >= MAX_COUNT_QUEUE

(* Mutant: no wrap around. *)
NextSlotUnwrapped(i) == i + 1

NextSlot(i) == (i + 1) % MAX_COUNT_QUEUE

(* service_queue_push *)
Push(t) ==
  /\ ~IsFull
  /\ entries' = [entries EXCEPT ![tail] = t]
  /\ tail' = NextSlot(tail)
  /\ length' = length + 1
  /\ result' = 0
  /\ UNCHANGED head

PushRefused ==
  /\ IsFull
  /\ result' = -1
  /\ UNCHANGED <<entries, head, tail, length>>

(* Mutant: head is advanced before it is read. *)
PopSecond ==
  /\ length > 0
  /\ result' = entries[NextSlot(head)]
  /\ entries' = [entries EXCEPT ![head] = NoTicket]
  /\ head' = NextSlot(head)
  /\ length' = length - 1
  /\ UNCHANGED tail

(* service_queue_pop *)
Pop ==
  /\ length > 0
  /\ result' = entries[head]
  /\ entries' = [entries EXCEPT ![head] = NoTicket]
  /\ head' = NextSlot(head)
  /\ length' = length - 1
  /\ UNCHANGED tail

PopEmpty ==
  /\ length <= 0
  /\ result' = NoTicket
  /\ UNCHANGED <<entries, head, tail, length>>

Next == Reset \/ (\E t \in Tickets : Push(t)) \/ PushRefused \/ Pop \/ PopEmpty

Spec == Init /\ [][Next]_vars

-----------------------------------------------------------------------------

(* The i-th slot from the head, wrapping around the end of the array. *)
SlotAt(i) == (head + i) % MAX_COUNT_QUEUE

(* head, tail and length, which are updated separately, stay consistent,   *)
(* and the slots in use are exactly those that hold a ticket.              *)
RingConsistent ==
  /\ tail = SlotAt(length)
  /\ \A i \in Slots : entries[SlotAt(i)] \in Tickets <=> i < length

(* The tickets between head and tail, oldest first. *)
WaitingTickets == [i \in 1 .. length |-> entries[SlotAt(i - 1)]]

Fifo == INSTANCE BoundedFifo
          WITH Capacity <- MAX_COUNT_QUEUE, waiting <- WaitingTickets, answer <- result

(* The ring buffer implements a bounded first-in first-out queue: it hands *)
(* out each ticket once, in order, and refuses exactly when it is full,    *)
(* however often head and tail have wrapped around.                        *)
ImplementsFifo == Fifo!Spec
=============================================================================
