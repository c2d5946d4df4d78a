------------------------- MODULE ServiceQueueProofs -------------------------
(***************************************************************************)
(* The ring buffer of commons.h is a bounded first-in first-out queue, for *)
(* every capacity and every set of tickets.                                *)
(***************************************************************************)
EXTENDS ServiceQueue, SequenceTheorems, TLAPS

(* Indices of the ring: % M on the numbers the code applies it to. *)
LEMMA ModSmall ==
  ASSUME NEW M \in Nat \ {0}, NEW a \in 0 .. M - 1
  PROVE  a % M = a
  BY SMT

LEMMA ModWrap ==
  ASSUME NEW M \in Nat \ {0}, NEW a \in M .. M + M - 1
  PROVE  a % M = a - M
  BY SMT

LEMMA WrapValue ==
  ASSUME NEW M \in Nat \ {0}, NEW a \in 0 .. M + M - 1
  PROVE  a % M = IF a < M THEN a ELSE a - M
<1>1. CASE a < M
  BY <1>1, ModSmall
<1>2. CASE a >= M
  BY <1>2, ModWrap
<1>3. QED  BY <1>1, <1>2

(* SlotAt without %: the slot lies before or after the end of the array. *)
LEMMA SlotAtValue ==
  ASSUME MAX_COUNT_QUEUE \in Nat \ {0}, NEW h \in Slots,
         NEW i \in 0 .. MAX_COUNT_QUEUE
  PROVE  (h + i) % MAX_COUNT_QUEUE
           = IF h + i < MAX_COUNT_QUEUE THEN h + i ELSE h + i - MAX_COUNT_QUEUE
<1> DEFINE a == h + i
<1>1. a \in 0 .. MAX_COUNT_QUEUE + MAX_COUNT_QUEUE - 1
  BY DEF Slots
<1> HIDE DEF a
<1>2. a % MAX_COUNT_QUEUE = IF a < MAX_COUNT_QUEUE THEN a ELSE a - MAX_COUNT_QUEUE
  BY <1>1, WrapValue
<1>3. QED  BY <1>2 DEF a, Slots

LEMMA NextSlotValue ==
  ASSUME MAX_COUNT_QUEUE \in Nat \ {0}, NEW i \in Slots
  PROVE  NextSlot(i) = IF i + 1 < MAX_COUNT_QUEUE THEN i + 1 ELSE 0
<1> DEFINE a == i + 1
<1>1. a \in 0 .. MAX_COUNT_QUEUE + MAX_COUNT_QUEUE - 1 /\ a <= MAX_COUNT_QUEUE
  BY DEF Slots
<1> HIDE DEF a
<1>2. a % MAX_COUNT_QUEUE = IF a < MAX_COUNT_QUEUE THEN a ELSE a - MAX_COUNT_QUEUE
  BY <1>1, WrapValue
<1>3. a % MAX_COUNT_QUEUE = IF a < MAX_COUNT_QUEUE THEN a ELSE 0
  BY <1>1, <1>2
<1>4. QED  BY <1>3 DEF a, NextSlot, Slots

LEMMA SlotAtInjective ==
  ASSUME MAX_COUNT_QUEUE \in Nat \ {0}, NEW h \in Slots,
         NEW i \in Slots, NEW j \in Slots, i # j
  PROVE  (h + i) % MAX_COUNT_QUEUE # (h + j) % MAX_COUNT_QUEUE
<1> DEFINE At(k) == (h + k) % MAX_COUNT_QUEUE
<1>1. \A k \in 0 .. MAX_COUNT_QUEUE :
        At(k) = IF h + k < MAX_COUNT_QUEUE THEN h + k ELSE h + k - MAX_COUNT_QUEUE
  BY SlotAtValue
<1> HIDE DEF At
<1>2. At(i) # At(j)
  BY <1>1 DEF Slots
<1>3. QED  BY <1>2 DEF At

(* Moving the head one slot on shifts every position by one. *)
LEMMA SlotAtNext ==
  ASSUME MAX_COUNT_QUEUE \in Nat \ {0}, NEW h \in Slots, NEW i \in Slots
  PROVE  (NextSlot(h) + i) % MAX_COUNT_QUEUE = (h + (i + 1)) % MAX_COUNT_QUEUE
<1> DEFINE n == NextSlot(h)
           a == (n + i) % MAX_COUNT_QUEUE
           b == (h + (i + 1)) % MAX_COUNT_QUEUE
<1>1. n = IF h + 1 < MAX_COUNT_QUEUE THEN h + 1 ELSE 0
  BY NextSlotValue
<1>2. n \in Slots
  BY <1>1 DEF Slots
<1>i. i \in 0 .. MAX_COUNT_QUEUE /\ i + 1 \in 0 .. MAX_COUNT_QUEUE
  BY DEF Slots
<1> HIDE DEF n
<1>3. a = IF n + i < MAX_COUNT_QUEUE THEN n + i ELSE n + i - MAX_COUNT_QUEUE
  BY <1>2, <1>i, SlotAtValue
<1>4. b = IF h + (i + 1) < MAX_COUNT_QUEUE THEN h + (i + 1)
          ELSE h + (i + 1) - MAX_COUNT_QUEUE
  BY <1>i, SlotAtValue
<1> HIDE DEF a, b
<1>5. a = b
  BY <1>1, <1>3, <1>4 DEF Slots
<1>6. QED  BY <1>5 DEF a, b, n

(* The invariant of the proofs; it is inductive as it stands. *)
IInv == TypeOK /\ RingConsistent

LEMMA InitIInv == Init => IInv
<1> SUFFICES ASSUME Init PROVE IInv
  OBVIOUS
<1>1. TypeOK
  BY RingAssumption DEF Init, TypeOK, Slots
<1>2. \A i \in 0 .. MAX_COUNT_QUEUE :
        SlotAt(i) = IF i < MAX_COUNT_QUEUE THEN i ELSE 0
  <2>1. SUFFICES ASSUME NEW i \in 0 .. MAX_COUNT_QUEUE
                 PROVE  SlotAt(i) = IF i < MAX_COUNT_QUEUE THEN i ELSE 0
    OBVIOUS
  <2>2. (head + i) % MAX_COUNT_QUEUE
          = IF head + i < MAX_COUNT_QUEUE THEN head + i ELSE head + i - MAX_COUNT_QUEUE
    BY <1>1, RingAssumption, SlotAtValue DEF TypeOK
  <2>3. head + i = i
    BY DEF Init
  <2>4. QED  BY <2>2, <2>3, RingAssumption DEF SlotAt
<1>3. RingConsistent
  BY <1>2, RingAssumption DEF Init, RingConsistent, Slots
<1>4. QED  BY <1>1, <1>3 DEF IInv

LEMMA NextTypeOK == TypeOK /\ [Next]_vars => TypeOK'
<1> SUFFICES ASSUME TypeOK, [Next]_vars PROVE TypeOK'
  OBVIOUS
<1> USE RingAssumption DEF TypeOK
<1>1. CASE Reset            BY <1>1 DEF Reset, Slots
<1>2. ASSUME NEW t \in Tickets, Push(t) PROVE TypeOK'
  BY <1>2, NextSlotValue DEF Push, IsFull, Slots
<1>3. CASE PushRefused      BY <1>3 DEF PushRefused
<1>4. CASE Pop              BY <1>4, NextSlotValue DEF Pop, Slots
<1>5. CASE PopEmpty         BY <1>5 DEF PopEmpty
<1>6. CASE UNCHANGED vars   BY <1>6 DEF vars
<1>7. QED  BY <1>1, <1>2, <1>3, <1>4, <1>5, <1>6 DEF Next

LEMMA NextRingConsistent == IInv /\ [Next]_vars => RingConsistent'
<1> SUFFICES ASSUME TypeOK, RingConsistent, TypeOK', [Next]_vars
             PROVE  RingConsistent'
  BY NextTypeOK DEF IInv
<1> DEFINE M == MAX_COUNT_QUEUE
           At(h, i) == (h + i) % M
<1>m. M \in Nat \ {0}
  BY RingAssumption
<1>v. \A h \in Slots, i \in 0 .. M : At(h, i) = IF h + i < M THEN h + i ELSE h + i - M
  BY <1>m, SlotAtValue
<1>x. \A i \in 0 .. M : At(head, i) = IF head + i < M THEN head + i ELSE head + i - M
  BY <1>v DEF TypeOK
<1>r. /\ tail = At(head, length)
      /\ \A i \in Slots : entries[At(head, i)] \in Tickets <=> i < length
  BY DEF RingConsistent, SlotAt
<1>s. SUFFICES /\ tail' = At(head', length')
               /\ \A i \in Slots : entries'[At(head', i)] \in Tickets <=> i < length'
  BY DEF RingConsistent, SlotAt
<1>n. \A i \in Slots : NextSlot(i) = IF i + 1 < M THEN i + 1 ELSE 0
  BY <1>m, NextSlotValue
<1> HIDE DEF At
<1>1. CASE Reset
  BY <1>1, <1>m, <1>v, RingAssumption DEF Reset, Slots
<1>2. ASSUME NEW t \in Tickets, Push(t)
      PROVE  /\ tail' = At(head', length')
             /\ \A i \in Slots : entries'[At(head', i)] \in Tickets <=> i < length'
  <2>1. tail' = At(head, length + 1)
    <3>1. tail = IF head + length < M THEN head + length ELSE head + length - M
      BY <1>2, <1>v, <1>r, <1>m DEF Push, IsFull, TypeOK
    <3>2. tail' = IF tail + 1 < M THEN tail + 1 ELSE 0
      BY <1>2, <1>n DEF Push, TypeOK
    <3>3. At(head, length + 1) = IF head + (length + 1) < M THEN head + (length + 1)
                                 ELSE head + (length + 1) - M
      BY <1>2, <1>x, <1>m DEF Push, IsFull, TypeOK
    <3>4. QED  BY <3>1, <3>2, <3>3, <1>2, <1>m DEF Push, IsFull, TypeOK, Slots
  <2>2. \A i \in Slots : At(head, i) = tail <=> i = length
    <3>1. length \in Slots
      BY <1>2, <1>m DEF Push, IsFull, TypeOK, Slots
    <3>2. \A i \in Slots : At(head, i) = IF head + i < M THEN head + i ELSE head + i - M
      BY <1>x, <1>m DEF Slots
    <3>3. QED  BY <3>1, <3>2, <1>r, <1>m DEF TypeOK, Slots
  <2>3. ASSUME NEW i \in Slots
        PROVE  entries'[At(head, i)] \in Tickets <=> i < length'
    <3>1. At(head, i) \in Slots
      BY <1>x, <1>m DEF TypeOK, Slots
    <3>2. CASE i = length
      BY <1>2, <3>1, <3>2, <2>2 DEF Push, TypeOK
    <3>3. CASE i # length
      BY <1>2, <1>r, <3>1, <3>3, <2>2 DEF Push, TypeOK, Slots
    <3>4. QED  BY <3>2, <3>3
  <2>4. QED  BY <1>2, <2>1, <2>3 DEF Push
<1>3. CASE PushRefused
  BY <1>3, <1>r DEF PushRefused
<1>4. CASE Pop
  <2>1. \A i \in 0 .. M - 1 : At(head', i) = At(head, i + 1)
    <3>1. SUFFICES ASSUME NEW i \in 0 .. M - 1
                   PROVE  At(head', i) = At(head, i + 1)
      OBVIOUS
    <3>2. head' = IF head + 1 < M THEN head + 1 ELSE 0
      BY <1>4, <1>n DEF Pop, TypeOK
    <3>3. At(head', i) = IF head' + i < M THEN head' + i ELSE head' + i - M
      BY <1>v, <1>m DEF TypeOK
    <3>4. At(head, i + 1) = IF head + (i + 1) < M THEN head + (i + 1)
                            ELSE head + (i + 1) - M
      BY <1>x, <1>m
    <3>5. QED  BY <3>2, <3>3, <3>4, <1>m DEF TypeOK, Slots
  <2>2. At(head, M) = head
    BY <1>m, <1>x DEF TypeOK, Slots
  <2>3. tail' = At(head', length')
    BY <1>4, <1>m, <2>1, <1>r DEF Pop, TypeOK
  <2>4. ASSUME NEW i \in Slots
        PROVE  entries'[At(head', i)] \in Tickets <=> i < length'
    <3>1. CASE i = M - 1
      <4>1. At(head', i) = head
        BY <3>1, <2>1, <2>2, <1>m DEF Slots
      <4>2. QED  BY <4>1, <1>4, <3>1, RingAssumption DEF Pop, TypeOK
    <3>2. CASE i # M - 1
      <4>1. i + 1 \in Slots /\ At(head', i) = At(head, i + 1)
        BY <3>2, <2>1, <1>m DEF Slots
      <4>2. At(head, i + 1) # head /\ At(head, i + 1) \in Slots
        BY <4>1, <1>x, <1>m DEF TypeOK, Slots
      <4>3. entries'[At(head, i + 1)] = entries[At(head, i + 1)]
        BY <4>2, <1>4 DEF Pop, TypeOK
      <4>4. QED  BY <4>1, <4>3, <1>4, <1>r DEF Pop, TypeOK, Slots
    <3>3. QED  BY <3>1, <3>2
  <2>5. QED  BY <2>3, <2>4
<1>5. CASE PopEmpty
  BY <1>5, <1>r DEF PopEmpty
<1>6. CASE UNCHANGED vars
  BY <1>6, <1>r DEF vars
<1>7. QED  BY <1>1, <1>2, <1>3, <1>4, <1>5, <1>6 DEF Next

(* The fields of struct service_queue stay consistent, whatever the        *)
(* sequence of calls: the slots between head and tail hold the tickets.    *)
THEOREM RingIsConsistent == Spec => [](TypeOK /\ RingConsistent)
<1>1. IInv /\ [Next]_vars => IInv'
  BY NextTypeOK, NextRingConsistent DEF IInv
<1>2. QED  BY InitIInv, <1>1, PTL DEF Spec, IInv

(* The indices stay inside the ring and the length never exceeds the       *)
(* capacity, though they are kept by hand (commons.h:241-262).             *)
THEOREM RingTypeCorrect == Spec => []TypeOK
  BY RingIsConsistent, PTL

-----------------------------------------------------------------------------

(* The abstract queue that a consistent ring stands for. *)
LEMMA WaitingFacts ==
  IInv => /\ WaitingTickets \in Seq(Tickets)
          /\ Len(WaitingTickets) = length
          /\ \A i \in 1 .. length : WaitingTickets[i] = entries[SlotAt(i - 1)]
<1> SUFFICES ASSUME IInv
             PROVE  /\ WaitingTickets \in [1 .. length -> Tickets]
                    /\ length \in Nat
  BY DEF WaitingTickets, IInv, TypeOK
<1>1. ASSUME NEW i \in 1 .. length PROVE entries[SlotAt(i - 1)] \in Tickets
  BY RingAssumption DEF IInv, TypeOK, RingConsistent, Slots
<1>2. QED  BY <1>1, RingAssumption DEF WaitingTickets, IInv, TypeOK

LEMMA InitRefines == Init => Fifo!Init
<1> SUFFICES ASSUME Init PROVE WaitingTickets = <<>>
  BY DEF Init, Fifo!Init
<1>1. WaitingTickets \in Seq(Tickets) /\ Len(WaitingTickets) = 0
  BY InitIInv, WaitingFacts DEF Init
<1>2. QED  BY <1>1, EmptySeq

LEMMA NextRefines ==
  IInv /\ IInv' /\ [Next]_vars => [Fifo!Next]_<<WaitingTickets, result>>
<1> SUFFICES ASSUME IInv, IInv', [Next]_vars
             PROVE  [Fifo!Next]_<<WaitingTickets, result>>
  OBVIOUS
<1> DEFINE Old == WaitingTickets
           New == WaitingTickets'
<1>1. /\ Old \in Seq(Tickets) /\ Len(Old) = length
      /\ \A i \in 1 .. length : Old[i] = entries[(head + (i - 1)) % MAX_COUNT_QUEUE]
  BY WaitingFacts DEF SlotAt
<1>2. /\ New \in Seq(Tickets) /\ Len(New) = length'
      /\ \A i \in 1 .. length' : New[i] = entries'[(head' + (i - 1)) % MAX_COUNT_QUEUE]
  <2>1. ( /\ WaitingTickets \in Seq(Tickets)
          /\ Len(WaitingTickets) = length
          /\ \A i \in 1 .. length : WaitingTickets[i] = entries[SlotAt(i - 1)] )'
    BY WaitingFacts, PTL
  <2>2. QED  BY <2>1 DEF SlotAt
<1>m. MAX_COUNT_QUEUE \in Nat \ {0} /\ head \in Slots /\ length \in 0 .. MAX_COUNT_QUEUE
  BY RingAssumption DEF IInv, TypeOK
<1> HIDE DEF Old, New
<1> SUFFICES Fifo!Next \/ (New = Old /\ result' = result)
  BY DEF Old, New
<1>3. CASE Reset
  <2>1. New = <<>> /\ result' = result
    BY <1>3, <1>2, EmptySeq DEF Reset
  <2>2. QED  BY <2>1 DEF New, Fifo!Next, Fifo!Clear
<1>4. ASSUME NEW t \in Tickets, Push(t) PROVE Fifo!Next
  <2>1. length \in Slots /\ head' = head /\ length' = length + 1 /\ result' = 0
    BY <1>4, <1>m DEF Push, IsFull, Slots
  <2>2. entries' = [entries EXCEPT ![(head + length) % MAX_COUNT_QUEUE] = t]
    BY <1>4 DEF Push, IInv, RingConsistent, SlotAt
  <2>3. entries \in [Slots -> Tickets \cup {NoTicket}]
        /\ (head + length) % MAX_COUNT_QUEUE \in Slots
    BY DEF IInv, TypeOK, RingConsistent, SlotAt
  <2>4. ASSUME NEW i \in 1 .. length PROVE New[i] = Old[i]
    <3> DEFINE k == i - 1
    <3>1. k \in Slots /\ k # length
      BY <2>1, <1>m DEF Slots
    <3> DEFINE a == (head + k) % MAX_COUNT_QUEUE
               b == (head + length) % MAX_COUNT_QUEUE
    <3>2. New[i] = entries'[a] /\ Old[i] = entries[a]
      BY <1>1, <1>2, <2>1
    <3> HIDE DEF k
    <3>3. a # b
      BY <3>1, <2>1, <1>m, SlotAtInjective
    <3> HIDE DEF a
    <3>4. entries'[a] = entries[a]
      BY <3>3, <2>2, <2>3
    <3>5. QED  BY <3>2, <3>4
  <2>5. New[length + 1] = t
    <3>1. New[length + 1] = entries'[(head + length) % MAX_COUNT_QUEUE]
      BY <1>2, <2>1, <1>m
    <3>2. QED  BY <3>1, <2>2, <2>3
  <2>6. New = Append(Old, t)
    <3>1. /\ Append(Old, t) \in Seq(Tickets)
          /\ Len(Append(Old, t)) = length + 1
          /\ \A i \in 1 .. length : Append(Old, t)[i] = Old[i]
          /\ Append(Old, t)[length + 1] = t
      BY <1>1, AppendProperties
    <3>2. \A i \in 1 .. Len(New) : New[i] = Append(Old, t)[i]
      BY <3>1, <2>4, <2>5, <1>2, <2>1, <1>m
    <3>3. QED  BY <3>1, <3>2, <1>2, <2>1, SeqEqual
  <2>7. Len(Old) < MAX_COUNT_QUEUE
    BY <1>1, <2>1, <1>m DEF Slots
  <2>8. QED  BY <2>1, <2>6, <2>7 DEF Old, New, Fifo!Next, Fifo!Accept
<1>5. CASE PushRefused
  <2>1. New = Old
    BY <1>5, <1>1, <1>2, SeqEqual DEF PushRefused
  <2>2. Len(Old) = MAX_COUNT_QUEUE /\ result' = -1
    BY <1>5, <1>1, <1>m DEF PushRefused, IsFull
  <2>3. QED  BY <2>1, <2>2 DEF Old, New, Fifo!Next, Fifo!Refuse
<1>6. CASE Pop
  <2>1. length \in 1 .. MAX_COUNT_QUEUE /\ length' = length - 1
        /\ head' = NextSlot(head) /\ result' = entries[head]
    BY <1>6, <1>m DEF Pop
  <2>2. Old # <<>>
    BY <1>1, <2>1, EmptySeq
  <2>3. (head + 0) % MAX_COUNT_QUEUE = head
    <3>1. head + 0 = head /\ head \in 0 .. MAX_COUNT_QUEUE - 1
      BY <1>m DEF Slots
    <3>2. head % MAX_COUNT_QUEUE = head
      BY <3>1, <1>m, ModSmall
    <3>3. QED  BY <3>1, <3>2
  <2>4. result' = Head(Old)
    <3>1. Old[1] = entries[(head + 0) % MAX_COUNT_QUEUE]
      BY <1>1, <2>1
    <3>2. QED  BY <3>1, <2>1, <2>2, <2>3, <1>1
  <2>5. ASSUME NEW i \in 1 .. length - 1 PROVE New[i] = Old[i + 1]
    <3> DEFINE k == i - 1
               a == (head + (k + 1)) % MAX_COUNT_QUEUE
    <3>1. k \in Slots /\ k + 1 \in Slots /\ k + 1 # 0 /\ 0 \in Slots
      BY <2>1, <1>m DEF Slots
    <3>2. New[i] = entries'[(head' + k) % MAX_COUNT_QUEUE]
      BY <1>2, <2>1
    <3>3. Old[i + 1] = entries[a]
      <4>1. (i + 1) - 1 = k + 1 /\ i + 1 \in 1 .. length
        BY <2>1
      <4>2. QED  BY <1>1, <4>1
    <3> HIDE DEF k
    <3>4. (head' + k) % MAX_COUNT_QUEUE = a
      BY <3>1, <2>1, <1>m, SlotAtNext
    <3>5. a # (head + 0) % MAX_COUNT_QUEUE
      BY <3>1, <1>m, SlotAtInjective
    <3> HIDE DEF a
    <3>6. entries'[a] = entries[a]
      BY <3>5, <2>3, <1>6 DEF Pop, IInv, TypeOK
    <3>7. QED  BY <3>2, <3>3, <3>4, <3>6
  <2>6. New = Tail(Old)
    <3>1. /\ Tail(Old) \in Seq(Tickets)
          /\ Len(Tail(Old)) = length - 1
          /\ \A i \in 1 .. length - 1 : Tail(Old)[i] = Old[i + 1]
      BY <1>1, <2>2, HeadTailProperties
    <3>2. \A i \in 1 .. Len(New) : New[i] = Tail(Old)[i]
      BY <3>1, <2>5, <1>2, <2>1
    <3>3. QED  BY <3>1, <3>2, <1>2, <2>1, SeqEqual
  <2>7. QED  BY <2>2, <2>4, <2>6 DEF Old, New, Fifo!Next, Fifo!Serve
<1>7. CASE PopEmpty
  <2>1. New = Old
    BY <1>7, <1>1, <1>2, SeqEqual DEF PopEmpty
  <2>2. Old = <<>> /\ result' = NoTicket
    BY <1>7, <1>1, <1>m, EmptySeq DEF PopEmpty
  <2>3. QED  BY <2>1, <2>2 DEF Old, New, Fifo!Next, Fifo!NobodyWaits
<1>8. CASE UNCHANGED vars
  <2>1. New = Old
    BY <1>8, <1>1, <1>2, SeqEqual DEF vars
  <2>2. QED  BY <2>1, <1>8 DEF vars
<1>9. QED  BY <1>3, <1>4, <1>5, <1>6, <1>7, <1>8 DEF Next

(* The ring buffer implements the bounded queue: every call returns what   *)
(* the abstract queue would return and leaves it in the same order.        *)
THEOREM RingImplementsFifo == Spec => ImplementsFifo
<1>1. Spec => []IInv
  BY RingIsConsistent DEF IInv
<1>2. QED  BY <1>1, InitRefines, NextRefines, PTL DEF Spec, ImplementsFifo, Fifo!Spec
=============================================================================
