---------------------------- MODULE TicketProofs ----------------------------
(***************************************************************************)
(* The tickets of PostOffice and its books, for any number of processes:   *)
(* no ticket is lost or doubled, an answer is about what was asked, the    *)
(* counts of the day add up, and the messages stay few.                    *)
(***************************************************************************)
EXTENDS PostOfficeProofs, TallyProofs

-----------------------------------------------------------------------------
LEMMA ServicesFinite == IsFiniteSet(Services)
  BY ConfigAssumption, FS_Interval DEF Services

(* The tickets of user u in queues q. *)
InQueues(q, u) == Cardinality(Pairs([s \in Services |-> Places(q[s], {u})]))

LEMMA QueueFamily ==
  ASSUME NEW q \in [Services -> Seq(Users)], NEW V
  PROVE  Family([s \in Services |-> Places(q[s], V)], Services)
  BY PlacesFinite DEF Family

LEMMA InQueuesNatural ==
  ASSUME NEW q \in [Services -> Seq(Users)], NEW u
  PROVE  InQueues(q, u) \in Nat
  BY QueueFamily, PairsFinite, ServicesFinite DEF InQueues

LEMMA InNoQueue ==
  ASSUME NEW q \in [Services -> Seq(Users)], NEW u
  PROVE  InQueues(q, u) = 0 <=> \A s \in Services : \A i \in DOMAIN q[s] : q[s][i] # u
<1> DEFINE f == [s \in Services |-> Places(q[s], {u})]
<1>1. Family(f, Services)
  BY QueueFamily
<1>2. \A s \in Services : f[s] = {} <=> \A i \in DOMAIN q[s] : q[s][i] # u
  BY DEF Places
<1>3. InQueues(q, u) = Cardinality(Pairs(f))
  BY DEF InQueues
<1> HIDE DEF f
<1>4. Cardinality(Pairs(f)) = 0 <=> \A s \in Services : f[s] = {}
  BY <1>1, ServicesFinite, PairsNone
<1>q. QED  BY <1>2, <1>3, <1>4

(* One queue changes. *)
LEMMA InQueuesStep ==
  ASSUME NEW q \in [Services -> Seq(Users)], NEW r \in [Services -> Seq(Users)],
         NEW a \in Services, \A s \in Services \ {a} : r[s] = q[s], NEW u
  PROVE  InQueues(r, u) + Cardinality(Places(q[a], {u}))
           = InQueues(q, u) + Cardinality(Places(r[a], {u}))
<1> DEFINE f == [s \in Services |-> Places(q[s], {u})]
           g == [s \in Services |-> Places(r[s], {u})]
<1>2. Family(f, Services) /\ Family(g, Services)
  BY QueueFamily
<1>3. \A s \in Services \ {a} : g[s] = f[s]
  OBVIOUS
<1>4. f[a] = Places(q[a], {u}) /\ g[a] = Places(r[a], {u})
  OBVIOUS
<1>5. InQueues(q, u) = Cardinality(Pairs(f)) /\ InQueues(r, u) = Cardinality(Pairs(g))
  BY DEF InQueues
<1> HIDE DEF f, g
<1>6. Cardinality(Pairs(g)) + Cardinality(f[a]) = Cardinality(Pairs(f)) + Cardinality(g[a])
  BY <1>2, <1>3, ServicesFinite, PairsStep
<1>q. QED  BY <1>4, <1>5, <1>6

(* A ticket joins a queue, or leaves it. *)
Pushed(q, r, a, x) == r = [q EXCEPT ![a] = Append(@, x)]
Popped(q, r, a) == r = [q EXCEPT ![a] = Tail(@)]

LEMMA InQueuesPush ==
  ASSUME NEW q \in [Services -> Seq(Users)], NEW a \in Services, NEW x \in Users, NEW u,
         NEW r, Pushed(q, r, a, x)
  PROVE  InQueues(r, u) = InQueues(q, u) + (IF x = u THEN 1 ELSE 0)
<1>1. q[a] \in Seq(Users) /\ Append(q[a], x) \in Seq(Users)
  BY AppendProperties
<1>2. /\ r \in [Services -> Seq(Users)] /\ r[a] = Append(q[a], x)
      /\ \A s \in Services \ {a} : r[s] = q[s]
  BY <1>1 DEF Pushed
<1>3. InQueues(r, u) + Cardinality(Places(q[a], {u}))
        = InQueues(q, u) + Cardinality(Places(Append(q[a], x), {u}))
  <2>1. InQueues(r, u) + Cardinality(Places(q[a], {u}))
          = InQueues(q, u) + Cardinality(Places(r[a], {u}))
    BY ONLY <1>2, InQueuesStep, q \in [Services -> Seq(Users)], a \in Services, ZenonT(60)
  <2>q. QED  BY <1>2, <2>1
<1>4. /\ Cardinality(Places(Append(q[a], x), {u}))
           = Cardinality(Places(q[a], {u})) + (IF x = u THEN 1 ELSE 0)
      /\ Cardinality(Places(q[a], {u})) \in Nat
  BY <1>1, PlacesAppend, PlacesFinite
<1>5. InQueues(q, u) \in Nat /\ InQueues(r, u) \in Nat
  BY <1>2, InQueuesNatural
<1>q. QED  BY <1>3, <1>4, <1>5

LEMMA InQueuesPop ==
  ASSUME NEW q \in [Services -> Seq(Users)], NEW a \in Services, q[a] # <<>>, NEW u,
         NEW r, Popped(q, r, a)
  PROVE  InQueues(q, u) = InQueues(r, u) + (IF Head(q[a]) = u THEN 1 ELSE 0)
<1>1. q[a] \in Seq(Users) /\ Tail(q[a]) \in Seq(Users)
  BY HeadTailProperties
<1>2. /\ r \in [Services -> Seq(Users)] /\ r[a] = Tail(q[a])
      /\ \A s \in Services \ {a} : r[s] = q[s]
  BY <1>1 DEF Popped
<1>3. InQueues(r, u) + Cardinality(Places(q[a], {u}))
        = InQueues(q, u) + Cardinality(Places(Tail(q[a]), {u}))
  <2>1. InQueues(r, u) + Cardinality(Places(q[a], {u}))
          = InQueues(q, u) + Cardinality(Places(r[a], {u}))
    BY ONLY <1>2, InQueuesStep, q \in [Services -> Seq(Users)], a \in Services, ZenonT(60)
  <2>q. QED  BY <1>2, <2>1
<1>4. /\ Cardinality(Places(q[a], {u}))
           = Cardinality(Places(Tail(q[a]), {u})) + (IF Head(q[a]) = u THEN 1 ELSE 0)
      /\ Cardinality(Places(Tail(q[a]), {u})) \in Nat
  BY <1>1, PlacesTail, PlacesFinite
<1>5. InQueues(q, u) \in Nat /\ InQueues(r, u) \in Nat
  BY <1>2, InQueuesNatural
<1>q. QED  BY <1>3, <1>4, <1>5

-----------------------------------------------------------------------------
(* The requests of user u in mailbox b, and the hands that hold ticket u. *)
InBox(b, u) == Cardinality(Places(b, [user : {u}, service : Services]))
InHands(t, u) == Cardinality({w \in Workers : t[w] = u})

LEMMA InBoxNatural ==
  ASSUME NEW b \in Seq(TicketMessage), NEW u
  PROVE  /\ InBox(b, u) \in Nat
         /\ InBox(b, u) = 0 <=> \A i \in DOMAIN b : b[i].user # u
<1>1. \A i \in DOMAIN b : b[i] \in TicketMessage
  OBVIOUS
<1>2. \A i \in DOMAIN b : b[i] \in [user : {u}, service : Services] <=> b[i].user = u
  BY <1>1 DEF TicketMessage
<1>q. QED  BY <1>2, PlacesFinite, PlacesNone DEF InBox

LEMMA InBoxSend ==
  ASSUME NEW b \in Seq(TicketMessage), NEW v \in Users, NEW s \in Services, NEW u
  PROVE  InBox(Append(b, [user |-> v, service |-> s]), u) = InBox(b, u) + (IF v = u THEN 1 ELSE 0)
<1> DEFINE m == [user |-> v, service |-> s]
           V == [user : {u}, service : Services]
<1>1. m \in TicketMessage
  BY DEF TicketMessage
<1>2. m \in V <=> v = u
  OBVIOUS
<1>3. InBox(b, u) = Cardinality(Places(b, V)) /\ InBox(Append(b, m), u) = Cardinality(Places(Append(b, m), V))
  BY DEF InBox
<1> HIDE DEF m, V
<1>4. Cardinality(Places(Append(b, m), V)) = Cardinality(Places(b, V)) + (IF m \in V THEN 1 ELSE 0)
  BY <1>1, PlacesAppend
<1>5. InBox(Append(b, m), u) = InBox(b, u) + (IF v = u THEN 1 ELSE 0)
  BY <1>2, <1>3, <1>4
<1>q. QED  BY <1>5 DEF m

LEMMA InBoxReceive ==
  ASSUME NEW b \in Seq(TicketMessage), b # <<>>, NEW u
  PROVE  InBox(b, u) = InBox(Tail(b), u) + (IF Head(b).user = u THEN 1 ELSE 0)
<1>1. Head(b) \in TicketMessage
  BY HeadTailProperties
<1>2. Head(b) \in [user : {u}, service : Services] <=> Head(b).user = u
  BY <1>1 DEF TicketMessage
<1>q. QED  BY <1>2, PlacesTail DEF InBox

LEMMA InHandsNatural ==
  ASSUME NEW t, NEW u
  PROVE  /\ InHands(t, u) \in Nat
         /\ InHands(t, u) = 0 <=> \A w \in Workers : t[w] # u
<1>1. IsFiniteSet({w \in Workers : t[w] = u})
  BY ProcessAssumption, FS_Subset
<1>q. QED  BY <1>1, FS_CardinalityType, FS_EmptySet DEF InHands

(* An operator takes a ticket, or lets it go. *)
LEMMA InHandsStep ==
  ASSUME NEW t, NEW r, NEW w \in Workers, \A v \in Workers \ {w} : r[v] = t[v], NEW u
  PROVE  InHands(r, u) + (IF t[w] = u THEN 1 ELSE 0) = InHands(t, u) + (IF r[w] = u THEN 1 ELSE 0)
<1> DEFINE S == {v \in Workers : t[v] = u}
           T == {v \in Workers : r[v] = u}
<1>1. IsFiniteSet(S) /\ IsFiniteSet(T)
  BY ProcessAssumption, FS_Subset
<1>2. \A v : v # w => (v \in S <=> v \in T)
  OBVIOUS
<1>3. (w \in S <=> t[w] = u) /\ (w \in T <=> r[w] = u)
  OBVIOUS
<1>4. InHands(t, u) = Cardinality(S) /\ InHands(r, u) = Cardinality(T)
  BY DEF InHands
<1> HIDE DEF S, T
<1>5. S \ {w} = T \ {w}
  BY <1>2
<1>6. ASSUME NEW A, IsFiniteSet(A)
      PROVE  /\ Cardinality(A) = Cardinality(A \ {w}) + (IF w \in A THEN 1 ELSE 0)
             /\ Cardinality(A \ {w}) \in Nat
  <2>1. IsFiniteSet(A \ {w}) /\ Cardinality(A) \in Nat
    BY <1>6, FS_RemoveElement, FS_CardinalityType
  <2>2. Cardinality(A \ {w}) = IF w \in A THEN Cardinality(A) - 1 ELSE Cardinality(A)
    BY <1>6, FS_RemoveElement
  <2>3. Cardinality(A \ {w}) \in Nat
    BY <2>1, FS_CardinalityType
  <2>q. QED  BY <2>1, <2>2, <2>3
<1>q. QED  BY <1>1, <1>3, <1>4, <1>5, <1>6

-----------------------------------------------------------------------------
(* Tickets.  TicketConservation is not inductive: an operator that holds a *)
(* ticket must be one that will answer it (InHand), and before the shutdown*)
(* nobody may have been told to stop, or it would drop a request           *)
(* (Undisturbed).  TicketInv adds both, and that a user waits for as long  *)
(* as it has a ticket.                                                     *)

(* What one step of an operator does to the tickets: serve_ticket takes one*)
(* from a queue, send_user_reply makes it an answer.                       *)

(* Who holds a ticket, and for how long.                                   *)
Holding(w) ==
  /\ opc[w] \in {"serve", "served", "reply"} => ticket[w] # None
  /\ ticket[w] # None => opc[w] \in {"serve", "served", "reply", "failed"}

FlushHand == {"flush_reply", "flush_lock", "flush_stat"}

FlushHeld ==
  /\ dpc \in FlushHand => flushTicket # None
  /\ flushTicket # None => dpc \in FlushHand \cup {"failed"}

InHand == FlushHeld /\ \A w \in Workers : Holding(w)

(* Before the shutdown nobody else has been told to stop. *)
Undisturbed ==
  ~Stopping =>
    /\ pending[Dispenser] = {}
    /\ \A u \in Users : "TERM" \notin pending[u] /\ ~terminate[u]

(* A user has at most one ticket, and waits for it unless it gave up at    *)
(* the shutdown.                                                           *)
AtMostOne(u) ==
  /\ TicketsOf(u) <= 1
  /\ TicketsOf(u) = 1 => upc[u] = "await" \/ (terminate[u] /\ upc[u] \in {"idle", "exited"})

TicketInv ==
  /\ InHand
  /\ Undisturbed
  /\ ~ipcRemoved => \A u \in Users : AtMostOne(u)
  /\ ~Stopping => \A u \in Users : upc[u] = "await" => TicketsOf(u) = 1

LEMMA TicketsNatural ==
  ASSUME TypeOK, NEW u \in Users
  PROVE  /\ InBox(ticketBox, u) \in Nat /\ InQueues(queue, u) \in Nat /\ InHands(ticket, u) \in Nat
         /\ Handled(u) \in Nat /\ Flushing(u) \in Nat /\ Len(replyBox[u]) \in Nat
         /\ TicketsOf(u) \in Nat
         /\ TicketsOf(u) = InBox(ticketBox, u) + Handled(u) + InQueues(queue, u)
                             + InHands(ticket, u) + Flushing(u) + Len(replyBox[u])
<1>1. /\ ticketBox \in Seq(TicketMessage) /\ queue \in [Services -> Seq(Users)]
      /\ replyBox \in [Users -> Seq(ReplyMessage)]
  BY DEF TypeOK, SharedTypeOK, MsgTypeOK, QueueTypeOK
<1>2. /\ InBox(ticketBox, u) \in Nat /\ InQueues(queue, u) \in Nat /\ InHands(ticket, u) \in Nat
  BY <1>1, InBoxNatural, InQueuesNatural, InHandsNatural
<1>3. Handled(u) \in Nat /\ Flushing(u) \in Nat
  BY DEF Handled, Flushing
<1>4. Len(replyBox[u]) \in Nat
  BY <1>1, LenProperties
<1>5. TicketsOf(u) = InBox(ticketBox, u) + Handled(u) + InQueues(queue, u)
                             + InHands(ticket, u) + Flushing(u) + Len(replyBox[u])
  BY DEF TicketsOf, Asked, Waiting, AtCounter, InBox, InQueues, InHands
<1>q. QED  BY <1>2, <1>3, <1>4, <1>5

LEMMA TicketsNaturalNext ==
  ASSUME TypeOK', NEW u \in Users
  PROVE  TicketsOf(u)' \in Nat
<1>1. TicketsOf(u)' = InBox(ticketBox', u) + Handled(u)' + InQueues(queue', u)
                          + InHands(ticket', u) + Flushing(u)' + Len(replyBox'[u])
  BY DEF TicketsOf, Asked, Waiting, AtCounter, InBox, InQueues, InHands
<1>2. /\ ticketBox' \in Seq(TicketMessage) /\ queue' \in [Services -> Seq(Users)]
      /\ replyBox' \in [Users -> Seq(ReplyMessage)]
  BY DEF TypeOK, SharedTypeOK, MsgTypeOK, QueueTypeOK
<1>3. /\ InBox(ticketBox', u) \in Nat /\ InQueues(queue', u) \in Nat
      /\ InHands(ticket', u) \in Nat /\ Len(replyBox'[u]) \in Nat
  BY <1>2, InBoxNatural, InQueuesNatural, InHandsNatural, LenProperties
<1>4. Handled(u)' \in Nat /\ Flushing(u)' \in Nat
  BY DEF Handled, Flushing
<1>q. QED  BY <1>1, <1>3, <1>4

(* An answer is one more for its user. *)
LEMMA AnswerSent ==
  ASSUME MsgTypeOK, NEW v \in Users, NEW status, NEW s, SendUserReply(v, status, s), NEW u \in Users
  PROVE  Len(replyBox'[u]) = Len(replyBox[u]) + (IF v = u THEN 1 ELSE 0)
<1>1. \A x \in Users : replyBox[x] \in Seq(ReplyMessage)
  BY DEF MsgTypeOK
<1>2. replyBox \in [Users -> Seq(ReplyMessage)]
  BY DEF MsgTypeOK
<1>3. CASE v = u
  <2>1. replyBox'[u] = Append(replyBox[u], [status |-> status, service |-> s])
    BY <1>2, <1>3 DEF SendUserReply
  <2>2. Len(replyBox[u]) \in Nat
    BY <1>1, LenProperties
  <2>3. Len(Append(replyBox[u], [status |-> status, service |-> s])) = Len(replyBox[u]) + 1
    OBVIOUS
  <2>q. QED  BY <1>3, <2>1, <2>2, <2>3
<1>4. CASE v # u
  <2>1. replyBox'[u] = replyBox[u] /\ Len(replyBox[u]) \in Nat
    BY <1>1, <1>2, <1>4, LenProperties DEF SendUserReply
  <2>q. QED  BY <1>4, <2>1
<1>q. QED  BY <1>3, <1>4

(* Signals of users and dispenser that an operator leaves alone. *)
OthersHear(P) ==
  \A p \in P : pending'[p] = pending[p] /\ terminate'[p] = terminate[p]

OthersHold(w) ==
  /\ workerService' = workerService
  /\ \A v \in Workers \ {w} : opc'[v] = opc[v] /\ ticket'[v] = ticket[v]

NoTicketMoves == UNCHANGED <<ticketBox, queue, ticket, replyBox>>

LEMMA OperatorHolds ==
  ASSUME NEW w \in Workers, TypeOK, Holding(w), OperatorStep(w) \/ OperatorSignal(w)
  PROVE  /\ OthersHold(w)
         /\ Holding(w)'
         /\ PopTicket(w) \/ ReplyServed(w) \/ NoTicketMoves
         /\ OthersHear(Users \cup {Dispenser})
<1>0. /\ opc \in [Workers -> OperatorPC] /\ ticket \in [Workers -> Users \cup {None}]
      /\ queue \in [Services -> Seq(Users)] /\ workerService[w] \in Services
  BY DEF TypeOK, SharedTypeOK, OperatorTypeOK, QueueTypeOK, WorkerTypeOK
<1>t. /\ pending \in [Children -> SUBSET Signals] /\ terminate \in [Children -> BOOLEAN]
      /\ \A p \in Users \cup {Dispenser} : p \in Children /\ p # w
  BY ProcessAssumption DEF TypeOK, SharedTypeOK, SigTypeOK, Children
<1> USE DEF OthersHold, Holding, NoTicketMoves, OthersHear, OperatorJump, sharedVars, cfgVars,
            workerVars, queueVars, msgVars, sigVars, flagVars
<1>1. CASE PopTicket(w)
  <2>1. Head(queue[workerService[w]]) \in Users /\ None \notin Users
    BY <1>0, <1>1, HeadOfQueue, ProcessAssumption DEF PopTicket, TypeOK, SharedTypeOK, Children
  <2>q. QED  BY <1>0, <1>1, <2>1 DEF PopTicket
<1>2. CASE ReplyServed(w)
  BY <1>0, <1>2 DEF ReplyServed
<1>3. CASE WaitForTicket(w) \/ PopNothing(w) \/ TakeToken(w) \/ HandBackToken(w) \/ StartScan(w)
  BY <1>0, <1>3 DEF WaitForTicket, PopNothing, TakeToken, HandBackToken, StartScan
<1>4. CASE SkipCounter(w) \/ ClaimCounter(w) \/ ReleaseCounter(w) \/ PostToken(w) \/ FindCounter(w)
  BY <1>0, <1>4 DEF SkipCounter, ClaimCounter, ReleaseCounter, PostToken, FindCounter
<1>5. CASE OperatorSendInit(w) \/ OperatorSuspend(w) \/ OperatorExit(w) \/ TestClaimLoop(w)
           \/ OperatorStartDay(w)
  BY <1>0, <1>5 DEF OperatorSendInit, OperatorSuspend, OperatorExit, TestClaimLoop, OperatorStartDay
<1>6. CASE LockScanned(w) \/ TestServeLoop(w) \/ OperatorLockQueue(w) \/ ServeTicket(w)
  BY <1>0, <1>6 DEF LockScanned, LockCounter, TestServeLoop, OperatorLockQueue, LockQueue,
     ServeTicket, LockStats
<1>7. CASE CountServed(w) \/ StopAfterService(w) \/ KeepWorking(w) \/ CountPause(w)
  BY <1>0, <1>7 DEF CountServed, StopAfterService, KeepWorking, CountPause
<1>8. CASE TakePause(w) \/ LockStatsForPause(w) \/ LockRelease(w) \/ ReportDayFinished(w)
  BY <1>0, <1>8 DEF TakePause, LockStatsForPause, LockStats, LockRelease, LockCounter,
     ReportDayFinished
<1>9. CASE OperatorSignal(w)
  <2>1. /\ NoTicketMoves /\ workerService' = workerService
        /\ \A v \in Workers \ {w} : opc'[v] = opc[v]
    BY <1>0, <1>9 DEF OperatorSignal
  <2>2. OthersHear(Users \cup {Dispenser})
    BY <1>t, <1>9 DEF OperatorSignal
  <2>3. \/ opc'[w] = opc[w]
        \/ opc[w] \notin {"serve", "served", "reply"} /\ opc'[w] \notin {"serve", "served", "reply"}
        \/ opc[w] = "serve" /\ opc'[w] = "failed"
    BY <1>0, <1>9 DEF OperatorSignal, OperatorBlocked, AfterInterrupt
  <2>4. opc[w] # "failed"
    BY <1>9 DEF OperatorSignal
  <2>5. Holding(w)'
    BY <2>1, <2>3, <2>4
  <2>q. QED  BY <2>1, <2>2, <2>5
<1>q. QED
  BY <1>1, <1>2, <1>3, <1>4, <1>5, <1>6, <1>7, <1>8, <1>9 DEF OperatorStep

LEMMA OperatorCarries ==
  ASSUME NEW w \in Workers, TypeOK, TypeOK', Holding(w), OperatorStep(w) \/ OperatorSignal(w),
         UNCHANGED <<dispenserVars, directorVars>>, NEW u \in Users
  PROVE  TicketsOf(u)' = TicketsOf(u)
<1>0. /\ Handled(u)' = Handled(u) /\ Flushing(u)' = Flushing(u)
  BY DEF Handled, Flushing, dispenserVars, directorVars
<1>1. /\ opc \in [Workers -> OperatorPC] /\ ticket \in [Workers -> Users \cup {None}]
      /\ queue \in [Services -> Seq(Users)] /\ workerService[w] \in Services
      /\ None \notin Users /\ SharedTypeOK /\ MsgTypeOK
  BY ProcessAssumption
     DEF TypeOK, SharedTypeOK, OperatorTypeOK, QueueTypeOK, WorkerTypeOK, Children
<1>s. /\ TicketsOf(u) = InBox(ticketBox, u) + Handled(u) + InQueues(queue, u)
                          + InHands(ticket, u) + Flushing(u) + Len(replyBox[u])
      /\ TicketsOf(u)' = InBox(ticketBox', u) + Handled(u)' + InQueues(queue', u)
                          + InHands(ticket', u) + Flushing(u)' + Len(replyBox'[u])
  BY DEF TicketsOf, Asked, Waiting, AtCounter, InBox, InQueues, InHands
<1>n. /\ InBox(ticketBox, u) \in Nat /\ InQueues(queue, u) \in Nat /\ InHands(ticket, u) \in Nat
      /\ Handled(u) \in Nat /\ Flushing(u) \in Nat /\ Len(replyBox[u]) \in Nat
  BY TicketsNatural
<1>m. queue' \in [Services -> Seq(Users)] /\ InQueues(queue', u) \in Nat
      /\ InHands(ticket', u) \in Nat
  <2>1. queue' \in [Services -> Seq(Users)]
    BY DEF TypeOK, SharedTypeOK, QueueTypeOK
  <2>q. QED  BY <2>1, InQueuesNatural, InHandsNatural
<1>3. CASE PopTicket(w)
  <2> DEFINE s == workerService[w]
  <2>1. /\ queue' = [queue EXCEPT ![s] = Tail(@)] /\ queue[s] # <<>>
        /\ ticket' = [ticket EXCEPT ![w] = Head(queue[s])]
        /\ opc[w] = "pop" /\ ticketBox' = ticketBox /\ replyBox' = replyBox
        /\ Popped(queue, queue', s)
    BY <1>3 DEF Popped, PopTicket, PopQueue, OperatorJump, msgVars
  <2>2. ticket[w] = None
    BY <2>1 DEF Holding
  <2>3. InQueues(queue, u) = InQueues(queue', u) + (IF Head(queue[s]) = u THEN 1 ELSE 0)
    BY <1>1, <1>m, <2>1, InQueuesPop
  <2>4. /\ ticket'[w] = Head(queue[s]) /\ \A v \in Workers \ {w} : ticket'[v] = ticket[v]
    BY <1>1, <2>1
  <2>5. InHands(ticket', u) + (IF ticket[w] = u THEN 1 ELSE 0)
          = InHands(ticket, u) + (IF ticket'[w] = u THEN 1 ELSE 0)
    BY <2>4, InHandsStep
  <2>6. InHands(ticket', u) = InHands(ticket, u) + (IF Head(queue[s]) = u THEN 1 ELSE 0)
    BY <1>1, <1>n, <1>m, <2>2, <2>4, <2>5
  <2> HIDE DEF s
  <2>7. InBox(ticketBox', u) = InBox(ticketBox, u) /\ Len(replyBox'[u]) = Len(replyBox[u])
    BY <2>1
  <2>q. QED  BY <1>0, <1>n, <1>m, <1>s, <2>3, <2>6, <2>7
<1>4. CASE ReplyServed(w)
  <2>1. /\ SendUserReply(ticket[w], "SERVED", workerService[w]) /\ opc[w] = "reply"
        /\ ticket' = [ticket EXCEPT ![w] = None] /\ UNCHANGED <<ticketBox, queue>>
    BY <1>4 DEF ReplyServed, OperatorJump, queueVars
  <2>2. ticket[w] \in Users
    BY <1>1, <2>1 DEF Holding
  <2>3. Len(replyBox'[u]) = Len(replyBox[u]) + (IF ticket[w] = u THEN 1 ELSE 0)
    BY <1>1, <2>1, <2>2, AnswerSent
  <2>4. ticket'[w] = None /\ \A v \in Workers \ {w} : ticket'[v] = ticket[v]
    BY <1>1, <2>1
  <2>5. InHands(ticket', u) + (IF ticket[w] = u THEN 1 ELSE 0)
          = InHands(ticket, u) + (IF ticket'[w] = u THEN 1 ELSE 0)
    BY <2>4, InHandsStep
  <2>6. InHands(ticket', u) + (IF ticket[w] = u THEN 1 ELSE 0) = InHands(ticket, u)
    BY <1>1, <1>n, <2>4, <2>5
  <2>7. InBox(ticketBox', u) = InBox(ticketBox, u) /\ InQueues(queue', u) = InQueues(queue, u)
    BY <2>1
  <2> DEFINE one == IF ticket[w] = u THEN 1 ELSE 0
  <2>9. one \in Nat /\ Len(replyBox'[u]) = Len(replyBox[u]) + one
        /\ InHands(ticket', u) + one = InHands(ticket, u)
    BY <2>3, <2>6
  <2> HIDE DEF one
  <2>q. QED  BY <1>0, <1>n, <1>m, <1>s, <2>7, <2>9
<1>5. CASE NoTicketMoves
  BY <1>0, <1>5 DEF NoTicketMoves, TicketsOf, Asked, Waiting, AtCounter
<1>q. QED  BY <1>3, <1>4, <1>5, OperatorHolds

(* The hands of the others. *)
LEMMA OperatorKeepsTickets ==
  ASSUME NEW w \in Workers, TypeOK, TypeOK', TicketInv, OperatorStep(w) \/ OperatorSignal(w),
         UNCHANGED <<userVars, dispenserVars, directorVars>>
  PROVE  TicketInv'
<1>1. /\ Holding(w) /\ OthersHold(w) /\ Holding(w)' /\ OthersHear(Users \cup {Dispenser})
  BY OperatorHolds DEF TicketInv, InHand
<1>2. InHand'
  BY <1>1 DEF TicketInv, InHand, FlushHeld, FlushHand, Holding, OthersHold, dispenserVars, directorVars
<1>3. Undisturbed'
  BY <1>1 DEF TicketInv, Undisturbed, Stopping, OthersHear, directorVars
<1>4. ASSUME NEW u \in Users
      PROVE  TicketsOf(u)' = TicketsOf(u) /\ (AtMostOne(u) => AtMostOne(u)')
  <2>1. TicketsOf(u)' = TicketsOf(u)
    BY <1>1, OperatorCarries
  <2>q. QED  BY <1>1, <2>1 DEF AtMostOne, OthersHear, userVars
<1>q. QED  BY <1>2, <1>3, <1>4 DEF TicketInv, Stopping, userVars, directorVars

-----------------------------------------------------------------------------
(* The dispenser: requests become tickets in a queue, or refusals.         *)

(* Told to stop while it handles a request, the dispenser drops it. *)
DispenserDrops ==
  NoTicketMoves /\ tpc' \notin HandlingPC /\ pending[Dispenser] # {}

DispenserKeeps ==
  /\ NoTicketMoves
  /\ tpc' \in HandlingPC \ {"post"} <=> tpc \in HandlingPC \ {"post"}
  /\ tpc \in HandlingPC \ {"post"} => request' = request

LEMMA DispenserHolds ==
  ASSUME TypeOK, DispenserStep \/ DispenserSignal, UNCHANGED operatorVars
  PROVE  /\ OthersHear(Workers \cup Users)
         /\ pending[Dispenser] = {} => pending'[Dispenser] = {}
         /\ ~ipcRemoved => \/ ReceiveRequest \/ PushTicket \/ ReplyRefusal
                           \/ DispenserKeeps \/ DispenserDrops
<1>0. /\ pending \in [Children -> SUBSET Signals] /\ terminate \in [Children -> BOOLEAN]
      /\ Dispenser \in Children
      /\ \A p \in Workers \cup Users : p \in Children /\ p # Dispenser
  BY ProcessAssumption DEF TypeOK, SharedTypeOK, SigTypeOK, Children
<1> USE DEF operatorVars, HandlingPC, NoTicketMoves, OthersHear, DispenserKeeps, DispenserDrops,
            DispenserJump, sharedVars, cfgVars, queueVars, msgVars, sigVars, flagVars
<1>1. CASE ReceiveRequest
  BY <1>1 DEF ReceiveRequest
<1>2. CASE PushTicket \/ ReplyRefusal
  BY <1>2 DEF PushTicket, ReplyRefusal
<1>3. CASE DispenserSendInit \/ LockStatsForRequest \/ CountRequest \/ CheckDayActive
           \/ CheckOffered
  BY <1>3 DEF DispenserSendInit, LockStatsForRequest, LockStats, CountRequest, CheckDayActive,
     CheckOffered
<1>4. CASE DispenserLockQueue \/ RefuseLocked \/ AcceptLocked \/ LockStatsForRefusal
           \/ CountRefusal \/ DispenserTestLoop
  BY <1>4 DEF DispenserLockQueue, LockQueue, RefuseLocked, AcceptLocked,
     LockStatsForRefusal, LockStats, CountRefusal, DispenserTestLoop
<1>5. CASE PostJob
  BY <1>5 DEF PostJob
<1>6. CASE DispenserLosesIpc
  BY <1>6 DEF DispenserLosesIpc
<1>7. CASE DispenserSignal
  <2>1. NoTicketMoves /\ pending[Dispenser] # {} /\ pending'[Dispenser] = {}
    BY <1>0, <1>7 DEF DispenserSignal
  <2>2. OthersHear(Workers \cup Users)
    BY <1>0, <1>7 DEF DispenserSignal
  <2>3. DispenserKeeps \/ DispenserDrops
    BY <1>7, <2>1 DEF DispenserSignal, DispenserInterrupted, dispenserVars
  <2>q. QED  BY <2>1, <2>2, <2>3
<1>q. QED
  BY <1>1, <1>2, <1>3, <1>4, <1>5, <1>6, <1>7 DEF DispenserStep, DispenserIpcStep

LEMMA DispenserCarries ==
  ASSUME TypeOK, TypeOK', ~ipcRemoved, DispenserStep \/ DispenserSignal,
         UNCHANGED <<operatorVars, directorVars>>, NEW u \in Users
  PROVE  \/ TicketsOf(u)' = TicketsOf(u)
         \/ pending[Dispenser] # {} /\ TicketsOf(u)' <= TicketsOf(u)
<1>0. /\ Flushing(u)' = Flushing(u) /\ InHands(ticket', u) = InHands(ticket, u)
  BY DEF Flushing, operatorVars, directorVars
<1>1. /\ ticketBox \in Seq(TicketMessage) /\ queue \in [Services -> Seq(Users)] /\ MsgTypeOK
      /\ tpc \in HandlingPC => request.user \in Users /\ request.service \in Services
  BY DEF TypeOK, SharedTypeOK, MsgTypeOK, QueueTypeOK, DispenserTypeOK, TicketMessage
<1>s. /\ TicketsOf(u) = InBox(ticketBox, u) + Handled(u) + InQueues(queue, u)
                          + InHands(ticket, u) + Flushing(u) + Len(replyBox[u])
      /\ TicketsOf(u)' = InBox(ticketBox', u) + Handled(u)' + InQueues(queue', u)
                          + InHands(ticket', u) + Flushing(u)' + Len(replyBox'[u])
  BY DEF TicketsOf, Asked, Waiting, AtCounter, InBox, InQueues, InHands
<1>n. /\ InBox(ticketBox, u) \in Nat /\ InQueues(queue, u) \in Nat /\ InHands(ticket, u) \in Nat
      /\ Handled(u) \in Nat /\ Flushing(u) \in Nat /\ Len(replyBox[u]) \in Nat
  BY TicketsNatural
<1>m. Handled(u)' \in Nat
  BY DEF Handled
<1> USE DEF DispenserJump
<1>2. CASE ReceiveRequest
  <2> DEFINE one == IF Head(ticketBox).user = u THEN 1 ELSE 0
  <2>1. /\ tpc = "recv" /\ tpc' = "req_lock" /\ ticketBox # <<>> /\ request' = Head(ticketBox)
        /\ ticketBox' = Tail(ticketBox) /\ UNCHANGED <<queue, replyBox>>
    BY <1>2 DEF ReceiveRequest, queueVars
  <2>2. InBox(ticketBox, u) = InBox(ticketBox', u) + one
    BY <1>1, <2>1, InBoxReceive
  <2>3. Handled(u) = 0 /\ Handled(u)' = one
    BY <2>1 DEF Handled, HandlingPC
  <2>4. InQueues(queue', u) = InQueues(queue, u) /\ Len(replyBox'[u]) = Len(replyBox[u])
    BY <2>1
  <2>5. one \in Nat /\ InBox(ticketBox', u) \in Nat
    <3>1. ticketBox' \in Seq(TicketMessage)
      BY DEF TypeOK, SharedTypeOK, MsgTypeOK
    <3>q. QED  BY <3>1, InBoxNatural
  <2> HIDE DEF one
  <2>q. QED  BY <1>0, <1>s, <1>n, <2>2, <2>3, <2>4, <2>5
<1>3. CASE PushTicket
  <2> DEFINE one == IF request.user = u THEN 1 ELSE 0
  <2>1. /\ tpc = "push" /\ tpc' = "post" /\ UNCHANGED <<ticketBox, replyBox>>
        /\ Pushed(queue, queue', request.service, request.user)
    BY <1>3 DEF PushTicket, PushQueue, Pushed, msgVars
  <2>2. InQueues(queue', u) = InQueues(queue, u) + one
    BY <1>1, <2>1, InQueuesPush DEF HandlingPC
  <2>3. Handled(u) = one /\ Handled(u)' = 0
    BY <2>1 DEF Handled, HandlingPC
  <2>4. InBox(ticketBox', u) = InBox(ticketBox, u) /\ Len(replyBox'[u]) = Len(replyBox[u])
    BY <2>1
  <2>5. one \in Nat
    OBVIOUS
  <2> HIDE DEF one
  <2>q. QED  BY <1>0, <1>s, <1>n, <2>2, <2>3, <2>4, <2>5
<1>4. CASE ReplyRefusal
  <2> DEFINE one == IF request.user = u THEN 1 ELSE 0
  <2>1. /\ tpc = "ns_reply" /\ tpc' = "loop" /\ UNCHANGED <<ticketBox, queue>>
        /\ SendUserReply(request.user, "NOT_SERVED", request.service)
    BY <1>4 DEF ReplyRefusal, queueVars
  <2>2. Len(replyBox'[u]) = Len(replyBox[u]) + one
    BY <1>1, <2>1, AnswerSent DEF HandlingPC
  <2>3. Handled(u) = one /\ Handled(u)' = 0
    BY <2>1 DEF Handled, HandlingPC
  <2>4. InBox(ticketBox', u) = InBox(ticketBox, u) /\ InQueues(queue', u) = InQueues(queue, u)
    BY <2>1
  <2>5. one \in Nat
    OBVIOUS
  <2> HIDE DEF one
  <2>q. QED  BY <1>0, <1>s, <1>n, <2>2, <2>3, <2>4, <2>5
<1>k. ASSUME DispenserKeeps PROVE NoTicketMoves /\ Handled(u)' = Handled(u)
  BY <1>k DEF DispenserKeeps, Handled
<1>5. ASSUME NoTicketMoves,
             Handled(u)' = Handled(u) \/ (tpc' \notin HandlingPC /\ pending[Dispenser] # {})
      PROVE  \/ TicketsOf(u)' = TicketsOf(u)
             \/ pending[Dispenser] # {} /\ TicketsOf(u)' <= TicketsOf(u)
  <2>1. TicketsOf(u)' = TicketsOf(u) - Handled(u) + Handled(u)'
    <3>1. /\ InBox(ticketBox', u) = InBox(ticketBox, u)
          /\ InQueues(queue', u) = InQueues(queue, u)
          /\ Len(replyBox'[u]) = Len(replyBox[u])
      BY <1>5 DEF NoTicketMoves
    <3> DEFINE rest == InBox(ticketBox, u) + InQueues(queue, u)
                        + InHands(ticket, u) + Flushing(u) + Len(replyBox[u])
    <3>2. rest \in Nat
      BY <1>n
    <3>3. TicketsOf(u) = rest + Handled(u)
      BY <1>s, <1>n
    <3>4. TicketsOf(u)' = rest + Handled(u)'
      <4>1. TicketsOf(u)' = InBox(ticketBox, u) + Handled(u)' + InQueues(queue, u)
                              + InHands(ticket, u) + Flushing(u) + Len(replyBox[u])
        BY <1>0, <1>s, <3>1, Zenon
      <4>q. QED  BY <1>n, <1>m, <4>1
    <3> HIDE DEF rest
    <3>q. QED  BY <1>n, <1>m, <3>2, <3>3, <3>4
  <2>2. TicketsOf(u) \in Nat
    BY TicketsNatural
  <2>3. CASE Handled(u)' = Handled(u)
    BY <1>n, <2>1, <2>2, <2>3
  <2>4. CASE tpc' \notin HandlingPC /\ pending[Dispenser] # {}
    <3>1. Handled(u)' = 0
      BY <2>4 DEF Handled
    <3>q. QED  BY <1>n, <2>1, <2>2, <2>4, <3>1
  <2>q. QED  BY <1>5, <2>3, <2>4
<1>q. QED  BY <1>2, <1>3, <1>4, <1>5, <1>k, DispenserHolds DEF DispenserDrops

LEMMA DispenserKeepsTickets ==
  ASSUME TypeOK, TypeOK', BarrierInv, TicketInv, DispenserStep \/ DispenserSignal,
         UNCHANGED <<operatorVars, userVars, directorVars>>
  PROVE  TicketInv'
<1>1. /\ OthersHear(Workers \cup Users)
      /\ pending[Dispenser] = {} => pending'[Dispenser] = {}
  BY DispenserHolds
<1>2. InHand'
  BY DEF TicketInv, InHand, FlushHeld, FlushHand, Holding, operatorVars, directorVars
<1>3. Undisturbed'
  BY <1>1 DEF TicketInv, Undisturbed, Stopping, OthersHear, directorVars
<1>4. ASSUME NEW u \in Users, ~ipcRemoved
      PROVE  /\ AtMostOne(u) => AtMostOne(u)'
             /\ ~Stopping => TicketsOf(u)' = TicketsOf(u)
  <2>1. TicketsOf(u) \in Nat /\ TicketsOf(u)' \in Nat
    BY TicketsNatural, TicketsNaturalNext
  <2>2. \/ TicketsOf(u)' = TicketsOf(u)
        \/ pending[Dispenser] # {} /\ TicketsOf(u)' <= TicketsOf(u)
    BY <1>4, DispenserCarries
  <2>3. UNCHANGED <<upc, dpc>> /\ terminate'[u] = terminate[u]
    BY <1>1 DEF OthersHear, userVars, directorVars
  <2>4. AtMostOne(u) => AtMostOne(u)'
    BY <2>1, <2>2, <2>3 DEF AtMostOne
  <2>q. QED  BY <2>2, <2>4 DEF TicketInv, Undisturbed
<1>5. UNCHANGED <<upc, dpc, ipcRemoved>> /\ (ipcRemoved => Stopping)
  BY DEF userVars, directorVars, BarrierInv, RemovedAtEnd, Stopping
<1>6. ~ipcRemoved' => \A u \in Users : AtMostOne(u)'
  BY <1>4, <1>5 DEF TicketInv
<1>7. ~Stopping' => \A u \in Users : upc'[u] = "await" => TicketsOf(u)' = 1
  BY <1>4, <1>5 DEF TicketInv, Stopping
<1>q. QED  BY <1>2, <1>3, <1>6, <1>7 DEF TicketInv

-----------------------------------------------------------------------------
UserTurns(u) ==
  /\ NoTicketMoves
  /\ upc'[u] = "await" => upc[u] = "await"
  /\ upc[u] = "await" /\ ~ipcRemoved =>
       upc'[u] = "await" \/ (terminate'[u] /\ upc'[u] = "idle")
  /\ upc[u] \in {"idle", "exited"} /\ terminate[u] => upc'[u] \in {"idle", "exited"}
  /\ terminate[u] => terminate'[u]
  /\ wants'[u] = wants[u] \/ upc[u] \in {"idle", "arrive"} \/ terminate'[u]

LEMMA UserHolds ==
  ASSUME NEW u \in Users, TypeOK, UserStep(u) \/ UserSignal(u), UNCHANGED operatorVars
  PROVE  /\ \A v \in Users \ {u} : upc'[v] = upc[v] /\ wants'[v] = wants[v]
         /\ OthersHear(Children \ {u})
         /\ "TERM" \notin pending[u] /\ ~terminate[u] =>
              "TERM" \notin pending'[u] /\ ~terminate'[u]
         /\ UserAsks(u) \/ UserGetsReply(u) \/ UserTurns(u)
<1>0. /\ pending \in [Children -> SUBSET Signals] /\ terminate \in [Children -> BOOLEAN]
      /\ upc \in [Users -> UserPC] /\ wants \in [Users -> Services \cup {None}]
      /\ u \in Children
  BY DEF TypeOK, SharedTypeOK, SigTypeOK, UserTypeOK, Children
<1> USE DEF operatorVars, NoTicketMoves, OthersHear, UserTurns, UserJump, sharedVars, cfgVars,
            queueVars, msgVars, sigVars, flagVars
<1>1. CASE UserAsks(u) \/ UserGetsReply(u)
  BY <1>0, <1>1 DEF UserAsks, UserGetsReply
<1>2. CASE UserSendInit(u) \/ UserSuspend(u) \/ UserExit(u) \/ UserLosesIpc(u)
  BY <1>0, <1>2 DEF UserSendInit, UserSuspend, UserExit, UserLosesIpc
<1>3. CASE UserStaysHome(u) \/ UserSetsOut(u) \/ UserArrives(u)
  BY <1>0, <1>3 DEF UserStaysHome, UserSetsOut, UserWakesUp, UserArrives
<1>4. CASE UserSignal(u)
  <2>1. /\ NoTicketMoves /\ OthersHear(Children \ {u}) /\ pending'[u] = {}
        /\ terminate'[u] = (terminate[u] \/ "TERM" \in pending[u])
    BY <1>0, <1>4 DEF UserSignal
  <2>2. \/ UNCHANGED userVars
        \/ UserJump(u, "suspend", "idle") /\ UNCHANGED wants
        \/ /\ UserGivesUp(u)
           /\ upc' = [upc EXCEPT ![u] = "idle"]
           /\ wants' = [wants EXCEPT ![u] = None]
    BY <1>4 DEF UserSignal
  <2>3. \A v \in Users \ {u} : upc'[v] = upc[v] /\ wants'[v] = wants[v]
    BY <1>0, <2>2 DEF userVars
  <2>4. UserTurns(u)
    BY <1>0, <2>1, <2>2 DEF userVars, UserGivesUp
  <2>q. QED  BY <2>1, <2>3, <2>4
<1>q. QED  BY <1>1, <1>2, <1>3, <1>4 DEF UserStep

(* A step that moves no ticket. *)
LEMMA TicketsRest ==
  ASSUME NoTicketMoves, UNCHANGED <<tpc, request, dpc, flushTicket>>, NEW u
  PROVE  TicketsOf(u)' = TicketsOf(u)
  BY DEF NoTicketMoves, TicketsOf, Asked, Handled, Waiting, AtCounter, Flushing

LEMMA UserCarries ==
  ASSUME NEW u \in Users, TypeOK, TypeOK', UserStep(u) \/ UserSignal(u),
         UNCHANGED <<operatorVars, dispenserVars, directorVars>>, NEW v \in Users
  PROVE  /\ UserAsks(u) => TicketsOf(v)' = TicketsOf(v) + (IF v = u THEN 1 ELSE 0)
         /\ UserGetsReply(u) => TicketsOf(v) = TicketsOf(v)' + (IF v = u THEN 1 ELSE 0)
         /\ UserTurns(u) => TicketsOf(v)' = TicketsOf(v)
<1>0. /\ Handled(v)' = Handled(v) /\ Flushing(v)' = Flushing(v)
      /\ InHands(ticket', v) = InHands(ticket, v)
  BY DEF Handled, Flushing, operatorVars, dispenserVars, directorVars
<1>1. /\ ticketBox \in Seq(TicketMessage) /\ replyBox \in [Users -> Seq(ReplyMessage)]
      /\ upc[u] = "ask" => wants[u] \in Services
  BY DEF TypeOK, SharedTypeOK, MsgTypeOK, UserTypeOK
<1>s. /\ TicketsOf(v) = InBox(ticketBox, v) + Handled(v) + InQueues(queue, v)
                          + InHands(ticket, v) + Flushing(v) + Len(replyBox[v])
      /\ TicketsOf(v)' = InBox(ticketBox', v) + Handled(v)' + InQueues(queue', v)
                          + InHands(ticket', v) + Flushing(v)' + Len(replyBox'[v])
  BY DEF TicketsOf, Asked, Waiting, AtCounter, InBox, InQueues, InHands
<1>n. /\ InBox(ticketBox, v) \in Nat /\ InQueues(queue, v) \in Nat /\ InHands(ticket, v) \in Nat
      /\ Handled(v) \in Nat /\ Flushing(v) \in Nat /\ Len(replyBox[v]) \in Nat
  BY TicketsNatural
<1> DEFINE one == IF v = u THEN 1 ELSE 0
<1>o. one \in Nat
  OBVIOUS
<1>2. ASSUME UserAsks(u) PROVE TicketsOf(v)' = TicketsOf(v) + one
  <2>1. /\ upc[u] = "ask" /\ UNCHANGED <<queue, replyBox>>
        /\ ticketBox' = Append(ticketBox, [user |-> u, service |-> wants[u]])
    BY <1>2 DEF UserAsks, UserJump, queueVars
  <2>2. InBox(ticketBox', v) = InBox(ticketBox, v) + one
    BY <1>1, <2>1, InBoxSend
  <2>3. InQueues(queue', v) = InQueues(queue, v) /\ Len(replyBox'[v]) = Len(replyBox[v])
    BY <2>1
  <2> HIDE DEF one
  <2>q. QED  BY <1>0, <1>s, <1>n, <1>o, <2>2, <2>3
<1>3. ASSUME UserGetsReply(u) PROVE TicketsOf(v) = TicketsOf(v)' + one
  <2>1. /\ replyBox[u] # <<>> /\ UNCHANGED <<queue, ticketBox>>
        /\ replyBox' = [replyBox EXCEPT ![u] = Tail(@)]
    BY <1>3 DEF UserGetsReply, queueVars
  <2>2. Len(replyBox[v]) = Len(replyBox'[v]) + one /\ Len(replyBox'[v]) \in Nat
    <3>1. replyBox[u] \in Seq(ReplyMessage)
      BY <1>1
    <3>2. Len(replyBox[u]) = Len(Tail(replyBox[u])) + 1 /\ Len(Tail(replyBox[u])) \in Nat
      BY <2>1, <3>1
    <3>q. QED  BY <1>1, <1>n, <2>1, <3>2
  <2>3. InQueues(queue', v) = InQueues(queue, v) /\ InBox(ticketBox', v) = InBox(ticketBox, v)
    BY <2>1
  <2> HIDE DEF one
  <2>q. QED  BY <1>0, <1>s, <1>n, <1>o, <2>2, <2>3
<1>4. UserTurns(u) => TicketsOf(v)' = TicketsOf(v)
  BY TicketsRest DEF UserTurns, dispenserVars, directorVars
<1>q. QED  BY <1>2, <1>3, <1>4

LEMMA UserKeepsTickets ==
  ASSUME NEW u \in Users, TypeOK, TypeOK', BarrierInv, TicketInv, UserStep(u) \/ UserSignal(u),
         UNCHANGED <<operatorVars, dispenserVars, directorVars>>
  PROVE  TicketInv'
<1>1. /\ \A v \in Users \ {u} : upc'[v] = upc[v]
      /\ OthersHear(Children \ {u})
      /\ "TERM" \notin pending[u] /\ ~terminate[u] =>
           "TERM" \notin pending'[u] /\ ~terminate'[u]
  BY UserHolds
<1>2. InHand'
  BY DEF TicketInv, InHand, FlushHeld, FlushHand, Holding, operatorVars, directorVars
<1>3. Dispenser \in Children \ {u} /\ \A v \in Users \ {u} : v \in Children \ {u}
  BY ProcessAssumption DEF Children
<1>4. Undisturbed'
  BY <1>1, <1>3 DEF TicketInv, Undisturbed, Stopping, OthersHear, directorVars
<1>5. \A v \in Users : TicketsOf(v) \in Nat /\ TicketsOf(v)' \in Nat
  BY TicketsNatural, TicketsNaturalNext
<1>6. ASSUME NEW v \in Users \ {u}
      PROVE  TicketsOf(v)' = TicketsOf(v) /\ (AtMostOne(v) => AtMostOne(v)')
  <2>1. TicketsOf(v)' = TicketsOf(v)
    <3>1. v # u /\ v \in Users /\ TicketsOf(v) \in Nat /\ TicketsOf(v)' \in Nat
      BY <1>5
    <3>2. UserAsks(u) => TicketsOf(v)' = TicketsOf(v) + 0
      BY <3>1, UserCarries
    <3>3. UserGetsReply(u) => TicketsOf(v) = TicketsOf(v)' + 0
      BY <3>1, UserCarries
    <3>4. UserTurns(u) => TicketsOf(v)' = TicketsOf(v)
      BY <3>1, UserCarries
    <3>5. UserAsks(u) \/ UserGetsReply(u) \/ UserTurns(u)
      BY UserHolds
    <3>6. TicketsOf(v) + 0 = TicketsOf(v) /\ TicketsOf(v)' + 0 = TicketsOf(v)'
      BY <3>1
    <3>q. QED  BY <3>2, <3>3, <3>4, <3>5, <3>6
  <2>q. QED  BY <1>1, <1>3, <2>1 DEF AtMostOne, OthersHear
<1>7. ASSUME ~ipcRemoved PROVE AtMostOne(u)' /\ (upc'[u] = "await" => (~Stopping => TicketsOf(u)' = 1))
  <2>0. AtMostOne(u) /\ (~Stopping => (upc[u] = "await" => TicketsOf(u) = 1))
    BY <1>7 DEF TicketInv
  <2>1. CASE UserAsks(u)
    <3>1. upc[u] = "ask" /\ upc'[u] = "await"
      BY <2>1 DEF UserAsks, UserJump, TypeOK, UserTypeOK
    <3>2. TicketsOf(u) = 0
      BY <1>5, <2>0, <3>1 DEF AtMostOne
    <3>3. TicketsOf(u)' = 1
      BY <2>1, <3>2, UserCarries
    <3>q. QED  BY <3>1, <3>3 DEF AtMostOne
  <2>2. CASE UserGetsReply(u)
    <3>1. upc'[u] = "idle"
      BY <2>2 DEF UserGetsReply, UserJump, TypeOK, UserTypeOK
    <3>2. TicketsOf(u) = TicketsOf(u)' + 1
      BY <2>2, UserCarries
    <3>3. TicketsOf(u)' = 0
      BY <1>5, <2>0, <3>2 DEF AtMostOne
    <3>q. QED  BY <3>1, <3>3 DEF AtMostOne
  <2>3. CASE UserTurns(u)
    <3>1. TicketsOf(u)' = TicketsOf(u)
      BY <2>3, UserCarries
    <3>2. TicketsOf(u)' <= 1
      BY <2>0, <3>1 DEF AtMostOne
    <3>3. TicketsOf(u) = 1 => upc'[u] = "await" \/ (terminate'[u] /\ upc'[u] \in {"idle", "exited"})
      <4>1. TicketsOf(u) = 1 => upc[u] = "await" \/ (terminate[u] /\ upc[u] \in {"idle", "exited"})
        BY <2>0 DEF AtMostOne
      <4>2. upc[u] = "await" => upc'[u] = "await" \/ (terminate'[u] /\ upc'[u] = "idle")
        BY <1>7, <2>3 DEF UserTurns
      <4>3. terminate[u] /\ upc[u] \in {"idle", "exited"} =>
              terminate'[u] /\ upc'[u] \in {"idle", "exited"}
        BY <2>3 DEF UserTurns
      <4>q. QED  BY <4>1, <4>2, <4>3
    <3>4. upc'[u] = "await" => (~Stopping => TicketsOf(u)' = 1)
      BY <2>0, <2>3, <3>1 DEF UserTurns
    <3>q. QED  BY <3>1, <3>2, <3>3, <3>4 DEF AtMostOne
  <2>q. QED  BY <2>1, <2>2, <2>3, UserHolds
<1>8. UNCHANGED <<dpc, ipcRemoved>> /\ (ipcRemoved => Stopping)
  BY DEF directorVars, BarrierInv, RemovedAtEnd, Stopping
<1>9. ~ipcRemoved' => \A v \in Users : AtMostOne(v)'
  BY <1>6, <1>7, <1>8 DEF TicketInv
<1>10. ~Stopping' => \A v \in Users : upc'[v] = "await" => TicketsOf(v)' = 1
  BY <1>1, <1>6, <1>7, <1>8 DEF TicketInv, Stopping
<1>q. QED  BY <1>2, <1>4, <1>9, <1>10 DEF TicketInv

-----------------------------------------------------------------------------
(* The director: flush_pending_users makes the tickets left in the queues  *)
(* refusals, the clean-up removes the message queue.                       *)

DirectorKeeps ==
  /\ NoTicketMoves
  /\ dpc' = "flush_reply" <=> dpc = "flush_reply"
  /\ dpc = "flush_reply" => flushTicket' = flushTicket

LEMMA DirectorHolds ==
  ASSUME NEW gone, TypeOK, SweepInv, FlushHeld, UNCHANGED operatorVars,
         DirectorStep(gone) \/ Terminate(gone) \/ CtrlC(gone)
  PROVE  /\ FlushHeld'
         /\ Stopping => Stopping'
         /\ ipcRemoved => ipcRemoved'
         /\ UNCHANGED terminate
         /\ ~Stopping' => /\ pending'[Dispenser] = pending[Dispenser]
                          /\ \A u \in Users : "TERM" \in pending'[u] => "TERM" \in pending[u]
         /\ FlushPop \/ FlushReply \/ DirectorKeeps
<1>0. /\ pending \in [Children -> SUBSET Signals] /\ queue \in [Services -> Seq(Users)]
      /\ Dispenser \in Children /\ Dispenser \notin Workers \cup Users
      /\ \A u \in Users : u \in Children
      /\ flushTicket \in Users \cup {None} /\ None \notin Users
      /\ dpc \in EveningPC => cursor \in Services
  BY ProcessAssumption DEF TypeOK, SharedTypeOK, SigTypeOK, QueueTypeOK, DirectorTypeOK, Children,
     EveningPC
<1> USE DEF FlushHeld, FlushHand, Stopping, DirectorKeeps, NoTicketMoves, DirectorJump,
            operatorVars, sharedVars, queueVars, msgVars, sigVars, flagVars, directorLocals,
            envVars
<1>1. CASE FlushPop
  <2>1. Head(queue[cursor]) \in Users
    BY <1>0, <1>1, HeadOfQueue DEF FlushPop, EveningPC, TypeOK, SharedTypeOK
  <2>q. QED  BY <1>0, <1>1, <2>1 DEF FlushPop
<1>2. CASE FlushReply
  BY <1>2 DEF FlushReply
<1>3. CASE ReceiveInit \/ NextDay \/ LastDayDone \/ LockStatsForReset \/ ResetDay \/ AssignCounter
  BY <1>3 DEF ReceiveInit, NextDay, LastDayDone, LockStatsForReset, LockStats, ResetDay,
     AssignCounter
<1>4. CASE OpenDay
  <2>1. \A s \in Services : queue[s] = <<>>
    BY <1>4 DEF OpenDay, SweepInv, Swept, SweepPC, DayPC
  <2>2. queue' = queue
    BY <1>0, <1>4, <2>1 DEF OpenDay
  <2>q. QED  BY <1>0, <1>4, <2>2 DEF OpenDay, Signal
<1>5. CASE CloseDay
  BY <1>0, <1>5 DEF CloseDay, Signal
<1>6. CASE ReceiveFinished \/ CountQueue \/ FlushLockQueue
  BY <1>6 DEF ReceiveFinished, CountQueue, FlushLockQueue, LockQueue
<1>7. CASE LockStatsForFlush \/ CountFlushed \/ FlushUnlockQueue
  BY <1>7 DEF LockStatsForFlush, LockStats, CountFlushed, FlushUnlockQueue
<1>8. CASE PrintDay \/ DecideCause \/ PrintFinal \/ CleanUp(gone)
  BY <1>8 DEF PrintDay, DecideCause, PrintFinal, CleanUp
<1>9. CASE StopChildren
  BY <1>9 DEF StopChildren
<1>10. CASE Terminate(gone) \/ CtrlC(gone)
  BY <1>10 DEF Terminate, CtrlC, DirectorInterrupted, DirectorBlocked
<1>q. QED
  BY <1>1, <1>2, <1>3, <1>4, <1>5, <1>6, <1>7, <1>8, <1>9, <1>10 DEF DirectorStep

LEMMA DirectorCarries ==
  ASSUME NEW gone, TypeOK, TypeOK', SweepInv, FlushHeld,
         DirectorStep(gone) \/ Terminate(gone) \/ CtrlC(gone),
         UNCHANGED <<operatorVars, dispenserVars>>, NEW u \in Users
  PROVE  TicketsOf(u)' = TicketsOf(u)
<1>0. Handled(u)' = Handled(u) /\ InHands(ticket', u) = InHands(ticket, u)
  BY DEF Handled, operatorVars, dispenserVars
<1>1. /\ queue \in [Services -> Seq(Users)] /\ MsgTypeOK
      /\ flushTicket \in Users \cup {None} /\ None \notin Users
      /\ dpc \in EveningPC => cursor \in Services
  BY ProcessAssumption
     DEF TypeOK, SharedTypeOK, QueueTypeOK, DirectorTypeOK, Children, EveningPC
<1>s. /\ TicketsOf(u) = InBox(ticketBox, u) + Handled(u) + InQueues(queue, u)
                          + InHands(ticket, u) + Flushing(u) + Len(replyBox[u])
      /\ TicketsOf(u)' = InBox(ticketBox', u) + Handled(u)' + InQueues(queue', u)
                          + InHands(ticket', u) + Flushing(u)' + Len(replyBox'[u])
  BY DEF TicketsOf, Asked, Waiting, AtCounter, InBox, InQueues, InHands
<1>n. /\ InBox(ticketBox, u) \in Nat /\ InQueues(queue, u) \in Nat /\ InHands(ticket, u) \in Nat
      /\ Handled(u) \in Nat /\ Flushing(u) \in Nat /\ Len(replyBox[u]) \in Nat
  BY TicketsNatural
<1> USE DEF DirectorJump
<1>2. CASE FlushPop
  <2> DEFINE one == IF Head(queue[cursor]) = u THEN 1 ELSE 0
  <2>1. /\ dpc = "flush_next" /\ dpc' = "flush_reply" /\ flushTicket' = Head(queue[cursor])
        /\ queue[cursor] # <<>> /\ Popped(queue, queue', cursor)
        /\ UNCHANGED <<ticketBox, replyBox>>
    BY <1>2 DEF FlushPop, PopQueue, Popped, msgVars
  <2>2. InQueues(queue, u) = InQueues(queue', u) + one
    BY <1>1, <2>1, InQueuesPop DEF EveningPC
  <2>3. Flushing(u) = 0 /\ Flushing(u)' = one
    BY <2>1 DEF Flushing
  <2>4. InBox(ticketBox', u) = InBox(ticketBox, u) /\ Len(replyBox'[u]) = Len(replyBox[u])
    BY <2>1
  <2>5. one \in Nat /\ InQueues(queue', u) \in Nat
    <3>1. queue' \in [Services -> Seq(Users)]
      BY DEF TypeOK, SharedTypeOK, QueueTypeOK
    <3>q. QED  BY <3>1, InQueuesNatural
  <2> HIDE DEF one
  <2>q. QED  BY <1>0, <1>s, <1>n, <2>2, <2>3, <2>4, <2>5
<1>3. CASE FlushReply
  <2> DEFINE one == IF flushTicket = u THEN 1 ELSE 0
  <2>1. /\ dpc = "flush_reply" /\ dpc' = "flush_lock" /\ UNCHANGED <<ticketBox, queue>>
        /\ SendUserReply(flushTicket, "NOT_SERVED", cursor)
    BY <1>3 DEF FlushReply, queueVars
  <2>2. flushTicket \in Users
    BY <1>1, <2>1 DEF FlushHeld, FlushHand
  <2>3. Len(replyBox'[u]) = Len(replyBox[u]) + one
    BY <1>1, <2>1, <2>2, AnswerSent
  <2>4. Flushing(u) = one /\ Flushing(u)' = 0
    BY <2>1 DEF Flushing
  <2>5. InBox(ticketBox', u) = InBox(ticketBox, u) /\ InQueues(queue', u) = InQueues(queue, u)
    BY <2>1
  <2>6. one \in Nat
    OBVIOUS
  <2> HIDE DEF one
  <2>q. QED  BY <1>0, <1>s, <1>n, <2>3, <2>4, <2>5, <2>6
<1>4. CASE DirectorKeeps
  <2>1. Flushing(u)' = Flushing(u)
    BY <1>4 DEF DirectorKeeps, Flushing
  <2>2. /\ InBox(ticketBox', u) = InBox(ticketBox, u) /\ InQueues(queue', u) = InQueues(queue, u)
        /\ Len(replyBox'[u]) = Len(replyBox[u])
    BY <1>4 DEF DirectorKeeps, NoTicketMoves
  <2>q. QED  BY <1>0, <1>s, <2>1, <2>2
<1>q. QED  BY <1>2, <1>3, <1>4, DirectorHolds

LEMMA DirectorKeepsTickets ==
  ASSUME NEW gone, TypeOK, TypeOK', SweepInv, TicketInv,
         DirectorStep(gone) \/ Terminate(gone) \/ CtrlC(gone),
         UNCHANGED <<operatorVars, userVars, dispenserVars>>
  PROVE  TicketInv'
<1>1. /\ FlushHeld'
      /\ Stopping => Stopping'
      /\ ipcRemoved => ipcRemoved'
      /\ UNCHANGED <<terminate, upc>>
      /\ ~Stopping' => /\ pending'[Dispenser] = pending[Dispenser]
                       /\ \A u \in Users : "TERM" \in pending'[u] => "TERM" \in pending[u]
  BY DirectorHolds DEF TicketInv, InHand, userVars
<1>2. InHand'
  BY <1>1 DEF TicketInv, InHand, Holding, operatorVars
<1>3. Undisturbed'
  BY <1>1 DEF TicketInv, Undisturbed
<1>4. ASSUME NEW u \in Users
      PROVE  TicketsOf(u)' = TicketsOf(u) /\ (AtMostOne(u) => AtMostOne(u)')
  <2>1. TicketsOf(u)' = TicketsOf(u)
    BY DirectorCarries DEF TicketInv, InHand
  <2>q. QED  BY <1>1, <2>1 DEF AtMostOne
<1>q. QED  BY <1>1, <1>2, <1>3, <1>4 DEF TicketInv

LEMMA InitTickets == Init => TicketInv
<1> SUFFICES ASSUME Init PROVE TicketInv
  OBVIOUS
<1>0. TypeOK
  BY InitTypeOK
<1>1. /\ opc = [w \in Workers |-> "init"] /\ ticket = [w \in Workers |-> None]
      /\ upc = [u \in Users |-> "init"] /\ tpc = "init" /\ dpc = "wait_init"
      /\ flushTicket = None /\ ticketBox = <<>> /\ queue = [s \in Services |-> <<>>]
      /\ replyBox = [u \in Users |-> <<>>] /\ pending = [p \in Children |-> {}]
      /\ terminate = [p \in Children |-> FALSE]
  BY DEF Init, SharedStateInit, OperatorInit, UserInit, DispenserInit, DirectorInit
<1>2. InHand /\ Undisturbed
  BY <1>1 DEF InHand, Holding, FlushHeld, FlushHand, Undisturbed, Children
<1>3. ASSUME NEW u \in Users PROVE TicketsOf(u) = 0
  <2>1. InBox(ticketBox, u) = 0
    BY <1>1, PlacesEmpty DEF InBox
  <2>2. InQueues(queue, u) = 0
    <3>1. queue \in [Services -> Seq(Users)]
      BY <1>0 DEF TypeOK, SharedTypeOK, QueueTypeOK
    <3>2. \A s \in Services : queue[s] = <<>>
      BY <1>1
    <3>q. QED  BY <3>1, <3>2, InNoQueue
  <2>3. InHands(ticket, u) = 0
    <3>1. \A w \in Workers : ticket[w] # u
      BY <1>1, ProcessAssumption DEF Children
    <3>q. QED  BY <3>1, InHandsNatural
  <2>4. Handled(u) = 0 /\ Flushing(u) = 0 /\ Len(replyBox[u]) = 0
    BY <1>1, LenProperties DEF Handled, Flushing, HandlingPC
  <2>5. TicketsOf(u) = InBox(ticketBox, u) + Handled(u) + InQueues(queue, u)
                         + InHands(ticket, u) + Flushing(u) + Len(replyBox[u])
    BY DEF TicketsOf, Asked, Waiting, AtCounter, InBox, InQueues, InHands
  <2>q. QED  BY ONLY <2>1, <2>2, <2>3, <2>4, <2>5
<1>4. \A u \in Users : AtMostOne(u) /\ upc[u] # "await"
  BY <1>1, <1>3 DEF AtMostOne
<1>q. QED  BY <1>2, <1>4 DEF TicketInv

LEMMA NextTickets ==
  TypeOK /\ TypeOK' /\ BarrierInv /\ SweepInv /\ TicketInv /\ [Next]_vars => TicketInv'
<1> SUFFICES ASSUME TypeOK, TypeOK', BarrierInv, SweepInv, TicketInv, [Next]_vars
             PROVE  TicketInv'
  OBVIOUS
<1>1. ASSUME NEW w \in Workers, OperatorRuns(w) \/ OperatorIsSignalled(w) PROVE TicketInv'
  BY <1>1, OperatorKeepsTickets DEF OperatorRuns, OperatorIsSignalled
<1>2. ASSUME NEW u \in Users, UserRuns(u) \/ UserIsSignalled(u) PROVE TicketInv'
  BY <1>2, UserKeepsTickets DEF UserRuns, UserIsSignalled
<1>3. CASE DispenserRuns \/ DispenserIsSignalled
  BY <1>3, DispenserKeepsTickets DEF DispenserRuns, DispenserIsSignalled
<1>4. CASE DirectorRuns \/ DirectorIsSignalled
  BY <1>4, DirectorKeepsTickets DEF DirectorRuns, DirectorIsSignalled
<1>5. CASE UNCHANGED vars
  <2>1. /\ NoTicketMoves
        /\ UNCHANGED <<opc, upc, tpc, request, dpc, flushTicket, pending, terminate, ipcRemoved>>
    BY <1>5 DEF vars, NoTicketMoves, msgVars, queueVars, operatorVars, userVars, dispenserVars,
       directorVars, sigVars, flagVars
  <2>2. InHand' /\ Undisturbed'
    BY <2>1 DEF TicketInv, InHand, Holding, FlushHeld, FlushHand, Undisturbed, Stopping,
       NoTicketMoves
  <2>3. \A u \in Users : TicketsOf(u)' = TicketsOf(u)
    BY <2>1, TicketsRest
  <2>q. QED  BY <2>1, <2>2, <2>3 DEF TicketInv, AtMostOne, Stopping
<1>q. QED  BY <1>1, <1>2, <1>3, <1>4, <1>5 DEF Next

LEMMA Ticketed == Spec => []TicketInv
  BY InitTickets, NextTickets, TypeCorrect, Barriers, SweptAlways, PTL DEF Spec

(* No ticket is lost, served twice or answered twice: until the SIGTERMs a *)
(* user that waits in msgrcv has exactly one request, ticket or answer     *)
(* somewhere, and any other user none (user.c:85-107;                      *)
(* erogatore_ticket.c:113-158; operator.c:224-249; director.c:538-560).    *)
THEOREM TicketConservationHolds == Spec => []TicketConservation
<1>1. TypeOK /\ BarrierInv /\ TicketInv => TicketConservation
  <2> SUFFICES ASSUME TypeOK, BarrierInv, TicketInv, ~Stopping, NEW u \in Users
               PROVE  TicketsOf(u) = (IF upc[u] = "await" THEN 1 ELSE 0)
    BY DEF TicketConservation
  <2>1. /\ AtMostOne(u) /\ ~terminate[u] /\ (upc[u] = "await" => TicketsOf(u) = 1)
    BY DEF TicketInv, Undisturbed, BarrierInv, RemovedAtEnd, Stopping
  <2>2. TicketsOf(u) \in Nat
    BY TicketsNatural
  <2>q. QED  BY <2>1, <2>2 DEF AtMostOne
<1>q. QED  BY <1>1, TypeCorrect, Barriers, Ticketed, PTL

-----------------------------------------------------------------------------
(* Answers.  ReplyMatches speaks of the answers alone; MatchInv says of    *)
(* every place a ticket passes through that it is there for the service its*)
(* user asked for: the request, the hands of the dispenser, the queue, the *)
(* counter, the flush, the answer.                                         *)

(* Wherever the ticket of user u is, it is about what the user asked for.  *)
AskedMatches(u) ==
  \A i \in DOMAIN ticketBox : ticketBox[i].user = u => ticketBox[i].service = wants[u]
HandledMatches(u) ==
  tpc \in HandlingPC \ {"post"} /\ request.user = u => request.service = wants[u]
WaitingMatches(u) ==
  \A s \in Services : \A i \in DOMAIN queue[s] : queue[s][i] = u => s = wants[u]
AtCounterMatches(u) ==
  \A w \in Workers : ticket[w] = u => workerService[w] = wants[u]
FlushingMatches(u) ==
  dpc = "flush_reply" /\ flushTicket = u => cursor = wants[u]
AnswerMatches(u) ==
  \A i \in DOMAIN replyBox[u] : replyBox[u][i].service = wants[u]

MatchOf(u) ==
  /\ AskedMatches(u) /\ HandledMatches(u) /\ WaitingMatches(u)
  /\ AtCounterMatches(u) /\ FlushingMatches(u) /\ AnswerMatches(u)

MatchInv == ~Stopping => \A u \in Users : MatchOf(u)

(* No ticket, nothing that could be about something else. *)
LEMMA NothingToMatch ==
  ASSUME TypeOK', NEW u \in Users, TicketsOf(u)' = 0
  PROVE  MatchOf(u)'
<1>1. TicketsOf(u)' = InBox(ticketBox', u) + Handled(u)' + InQueues(queue', u)
                          + InHands(ticket', u) + Flushing(u)' + Len(replyBox'[u])
  BY DEF TicketsOf, Asked, Waiting, AtCounter, InBox, InQueues, InHands
<1>2. /\ ticketBox' \in Seq(TicketMessage) /\ queue' \in [Services -> Seq(Users)]
      /\ replyBox' \in [Users -> Seq(ReplyMessage)]
  BY DEF TypeOK, SharedTypeOK, MsgTypeOK, QueueTypeOK
<1>3. /\ InBox(ticketBox', u) \in Nat /\ InQueues(queue', u) \in Nat
      /\ InHands(ticket', u) \in Nat /\ Len(replyBox'[u]) \in Nat
  BY <1>2, InBoxNatural, InQueuesNatural, InHandsNatural, LenProperties
<1>4. Handled(u)' \in Nat /\ Flushing(u)' \in Nat
  BY DEF Handled, Flushing
<1>5. /\ InBox(ticketBox', u) = 0 /\ Handled(u)' = 0 /\ InQueues(queue', u) = 0
      /\ InHands(ticket', u) = 0 /\ Flushing(u)' = 0 /\ Len(replyBox'[u]) = 0
  BY <1>1, <1>3, <1>4
<1>6. AskedMatches(u)'
  BY <1>2, <1>5, InBoxNatural DEF AskedMatches
<1>7. WaitingMatches(u)'
  BY <1>2, <1>5, InNoQueue DEF WaitingMatches
<1>8. AtCounterMatches(u)'
  BY <1>5, InHandsNatural DEF AtCounterMatches
<1>9. AnswerMatches(u)'
  <2>1. replyBox'[u] \in Seq(ReplyMessage)
    BY <1>2
  <2>2. DOMAIN replyBox'[u] = {}
    BY <1>5, <2>1
  <2>q. QED  BY <2>2 DEF AnswerMatches
<1>10. HandledMatches(u)' /\ FlushingMatches(u)'
  BY <1>5 DEF Handled, HandledMatches, Flushing, FlushingMatches
<1>q. QED  BY <1>6, <1>7, <1>8, <1>9, <1>10 DEF MatchOf

(* An answer about what its user asked for. *)
LEMMA AnswerMatchesKept ==
  ASSUME MsgTypeOK, NEW v \in Users, NEW status, NEW s, SendUserReply(v, status, s),
         NEW u \in Users, v = u => s = wants[u], AnswerMatches(u), wants'[u] = wants[u]
  PROVE  AnswerMatches(u)'
<1>1. replyBox \in [Users -> Seq(ReplyMessage)]
  BY DEF MsgTypeOK
<1>2. CASE v = u
  <2> DEFINE a == [status |-> status, service |-> s]
  <2>1. replyBox'[u] = Append(replyBox[u], a) /\ a.service = s
    BY <1>1, <1>2 DEF SendUserReply
  <2>2. \A i \in DOMAIN replyBox[u] : replyBox[u][i].service = wants[u]
    BY DEF AnswerMatches
  <2> HIDE DEF a
  <2>3. replyBox[u] \in Seq(ReplyMessage)
    BY <1>1
  <2>4. \A i \in DOMAIN Append(replyBox[u], a) :
          \/ i \in DOMAIN replyBox[u] /\ Append(replyBox[u], a)[i] = replyBox[u][i]
          \/ Append(replyBox[u], a)[i] = a
    BY <2>3
  <2>q. QED  BY <1>2, <2>1, <2>2, <2>4 DEF AnswerMatches
<1>3. CASE v # u
  <2>1. replyBox'[u] = replyBox[u]
    BY <1>1, <1>3 DEF SendUserReply
  <2>q. QED  BY <2>1 DEF AnswerMatches
<1>q. QED  BY <1>2, <1>3

(* What is left of a queue matches if the queue did. *)
LEMMA WaitingMatchesPopped ==
  ASSUME NEW a \in Services, queue \in [Services -> Seq(Users)], queue[a] # <<>>,
         Popped(queue, queue', a), NEW u, WaitingMatches(u), wants'[u] = wants[u]
  PROVE  WaitingMatches(u)' /\ (Head(queue[a]) = u => a = wants[u])
<1>1. queue[a] \in Seq(Users)
  OBVIOUS
<1>2. /\ Head(queue[a]) = queue[a][1] /\ 1 \in DOMAIN queue[a]
      /\ \A i \in DOMAIN Tail(queue[a]) :
           i + 1 \in DOMAIN queue[a] /\ Tail(queue[a])[i] = queue[a][i + 1]
  BY <1>1
<1>3. queue'[a] = Tail(queue[a]) /\ \A s \in Services \ {a} : queue'[s] = queue[s]
  BY DEF Popped
<1>4. Head(queue[a]) = u => a = wants[u]
  BY <1>2 DEF WaitingMatches
<1>5. ASSUME NEW s \in Services, NEW i \in DOMAIN queue'[s], queue'[s][i] = u PROVE s = wants'[u]
  <2>1. CASE s = a
    <3>1. i + 1 \in DOMAIN queue[a] /\ queue[a][i + 1] = u
      BY <1>2, <1>3, <1>5, <2>1
    <3>q. QED  BY <2>1, <3>1 DEF WaitingMatches
  <2>2. CASE s # a
    BY <1>3, <1>5, <2>2 DEF WaitingMatches
  <2>q. QED  BY <2>1, <2>2
<1>q. QED  BY <1>4, <1>5 DEF WaitingMatches

LEMMA OperatorMatches ==
  ASSUME NEW w \in Workers, TypeOK, Holding(w), OperatorStep(w) \/ OperatorSignal(w),
         UNCHANGED <<userVars, dispenserVars, directorVars>>, NEW u \in Users, MatchOf(u)
  PROVE  MatchOf(u)'
<1>1. /\ opc \in [Workers -> OperatorPC] /\ ticket \in [Workers -> Users \cup {None}]
      /\ queue \in [Services -> Seq(Users)] /\ workerService[w] \in Services
      /\ None \notin Users /\ MsgTypeOK
  BY ProcessAssumption
     DEF TypeOK, SharedTypeOK, OperatorTypeOK, QueueTypeOK, WorkerTypeOK, Children
<1>2. HandledMatches(u)' /\ FlushingMatches(u)' /\ wants' = wants /\ workerService' = workerService
  BY OperatorHolds DEF MatchOf, HandledMatches, FlushingMatches, userVars, dispenserVars,
     directorVars, OthersHold
<1>3. CASE PopTicket(w)
  <2> DEFINE s == workerService[w]
  <2>1. /\ queue' = [queue EXCEPT ![s] = Tail(@)] /\ queue[s] # <<>>
        /\ ticket' = [ticket EXCEPT ![w] = Head(queue[s])]
        /\ ticketBox' = ticketBox /\ replyBox' = replyBox
        /\ Popped(queue, queue', s)
    BY <1>3 DEF Popped, PopTicket, PopQueue, OperatorJump, msgVars
  <2>2. WaitingMatches(u)' /\ (Head(queue[s]) = u => s = wants[u])
    BY <1>1, <1>2, <2>1, WaitingMatchesPopped DEF MatchOf
  <2>3. AtCounterMatches(u)'
    BY <1>1, <1>2, <2>1, <2>2 DEF MatchOf, AtCounterMatches
  <2>4. AskedMatches(u)' /\ AnswerMatches(u)'
    BY <1>2, <2>1 DEF MatchOf, AskedMatches, AnswerMatches
  <2>q. QED  BY <1>2, <2>2, <2>3, <2>4 DEF MatchOf
<1>4. CASE ReplyServed(w)
  <2>1. /\ SendUserReply(ticket[w], "SERVED", workerService[w]) /\ opc[w] = "reply"
        /\ ticket' = [ticket EXCEPT ![w] = None] /\ UNCHANGED <<ticketBox, queue>>
    BY <1>4 DEF ReplyServed, OperatorJump, queueVars
  <2>2. ticket[w] \in Users
    BY <1>1, <2>1 DEF Holding
  <2>3. AnswerMatches(u)'
    BY <1>1, <1>2, <2>1, <2>2, AnswerMatchesKept DEF MatchOf, AtCounterMatches
  <2>4. AtCounterMatches(u)'
    BY <1>1, <1>2, <2>1 DEF MatchOf, AtCounterMatches
  <2>5. AskedMatches(u)' /\ WaitingMatches(u)'
    BY <1>2, <2>1 DEF MatchOf, AskedMatches, WaitingMatches
  <2>q. QED  BY <1>2, <2>3, <2>4, <2>5 DEF MatchOf
<1>5. CASE NoTicketMoves
  BY <1>2, <1>5 DEF NoTicketMoves, MatchOf, AskedMatches, WaitingMatches, AtCounterMatches,
     AnswerMatches
<1>q. QED  BY <1>3, <1>4, <1>5, OperatorHolds

LEMMA DispenserMatches ==
  ASSUME TypeOK, ~ipcRemoved, DispenserStep \/ DispenserSignal,
         UNCHANGED <<operatorVars, userVars, directorVars, workerService>>, NEW u \in Users, MatchOf(u)
  PROVE  MatchOf(u)'
<1>1. /\ ticketBox \in Seq(TicketMessage) /\ queue \in [Services -> Seq(Users)] /\ MsgTypeOK
      /\ tpc \in HandlingPC => request.user \in Users /\ request.service \in Services
  BY DEF TypeOK, SharedTypeOK, MsgTypeOK, QueueTypeOK, DispenserTypeOK, TicketMessage
<1>2. wants' = wants /\ FlushingMatches(u)' /\ ticket' = ticket
  BY DEF MatchOf, FlushingMatches, userVars, directorVars, operatorVars
<1>3. AtCounterMatches(u)'
  BY <1>2 DEF MatchOf, AtCounterMatches
<1> USE DEF DispenserJump
<1>4. CASE ReceiveRequest
  <2>1. /\ tpc' = "req_lock" /\ ticketBox # <<>> /\ request' = Head(ticketBox)
        /\ ticketBox' = Tail(ticketBox) /\ UNCHANGED <<queue, replyBox>>
    BY <1>4 DEF ReceiveRequest, queueVars
  <2>2. /\ Head(ticketBox) = ticketBox[1] /\ 1 \in DOMAIN ticketBox
        /\ \A i \in DOMAIN Tail(ticketBox) :
             i + 1 \in DOMAIN ticketBox /\ Tail(ticketBox)[i] = ticketBox[i + 1]
    BY <1>1, <2>1
  <2>3. AskedMatches(u)' /\ HandledMatches(u)'
    BY <1>2, <2>1, <2>2 DEF MatchOf, AskedMatches, HandledMatches
  <2>4. WaitingMatches(u)' /\ AnswerMatches(u)'
    BY <1>2, <2>1 DEF MatchOf, WaitingMatches, AnswerMatches
  <2>q. QED  BY <1>2, <1>3, <2>3, <2>4 DEF MatchOf
<1>5. CASE PushTicket
  <2> DEFINE s == request.service
  <2>1. /\ tpc = "push" /\ tpc' = "post" /\ UNCHANGED <<ticketBox, replyBox>>
        /\ queue' = [queue EXCEPT ![s] = Append(@, request.user)]
    BY <1>5 DEF PushTicket, PushQueue, msgVars
  <2>2. s \in Services /\ request.user \in Users
    BY <1>1, <2>1 DEF HandlingPC
  <2>3. \A i \in DOMAIN Append(queue[s], request.user) :
          \/ i \in DOMAIN queue[s] /\ Append(queue[s], request.user)[i] = queue[s][i]
          \/ Append(queue[s], request.user)[i] = request.user
    <3>1. queue[s] \in Seq(Users)
      BY <1>1, <2>2
    <3>q. QED  BY <2>2, <3>1
  <2>4. /\ queue'[s] = Append(queue[s], request.user)
        /\ \A t \in Services \ {s} : queue'[t] = queue[t]
    BY <1>1, <2>1, <2>2
  <2>5. request.user = u => s = wants[u]
    BY <2>1 DEF MatchOf, HandledMatches, HandlingPC
  <2> HIDE DEF s
  <2>6. WaitingMatches(u)'
    BY <1>2, <2>3, <2>4, <2>5 DEF MatchOf, WaitingMatches
  <2>7. AskedMatches(u)' /\ AnswerMatches(u)' /\ HandledMatches(u)'
    BY <1>2, <2>1 DEF MatchOf, AskedMatches, AnswerMatches, HandledMatches
  <2>q. QED  BY <1>2, <1>3, <2>6, <2>7 DEF MatchOf
<1>6. CASE ReplyRefusal
  <2>1. /\ tpc = "ns_reply" /\ tpc' = "loop" /\ UNCHANGED <<ticketBox, queue>>
        /\ SendUserReply(request.user, "NOT_SERVED", request.service)
    BY <1>6 DEF ReplyRefusal, queueVars
  <2>2. AnswerMatches(u)'
    BY <1>1, <1>2, <2>1, AnswerMatchesKept DEF MatchOf, HandledMatches, HandlingPC
  <2>3. AskedMatches(u)' /\ WaitingMatches(u)' /\ HandledMatches(u)'
    BY <1>2, <2>1 DEF MatchOf, AskedMatches, WaitingMatches, HandledMatches, HandlingPC
  <2>q. QED  BY <1>2, <1>3, <2>2, <2>3 DEF MatchOf
<1>7. CASE DispenserKeeps \/ DispenserDrops
  <2>1. HandledMatches(u)'
    BY <1>2, <1>7 DEF DispenserKeeps, DispenserDrops, MatchOf, HandledMatches
  <2>2. AskedMatches(u)' /\ WaitingMatches(u)' /\ AnswerMatches(u)'
    BY <1>2, <1>7 DEF DispenserKeeps, DispenserDrops, NoTicketMoves, MatchOf, AskedMatches,
       WaitingMatches, AnswerMatches
  <2>q. QED  BY <1>2, <1>3, <2>1, <2>2 DEF MatchOf
<1>q. QED  BY <1>4, <1>5, <1>6, <1>7, DispenserHolds

LEMMA DirectorMatches ==
  ASSUME NEW gone, TypeOK, SweepInv, FlushHeld,
         DirectorStep(gone) \/ Terminate(gone) \/ CtrlC(gone),
         UNCHANGED <<operatorVars, userVars, dispenserVars, workerService>>,
         NEW u \in Users, MatchOf(u)
  PROVE  MatchOf(u)'
<1>1. /\ queue \in [Services -> Seq(Users)] /\ MsgTypeOK
      /\ flushTicket \in Users \cup {None} /\ None \notin Users
      /\ dpc \in EveningPC => cursor \in Services
  BY ProcessAssumption
     DEF TypeOK, SharedTypeOK, QueueTypeOK, DirectorTypeOK, Children, EveningPC
<1>2. wants' = wants /\ HandledMatches(u)' /\ ticket' = ticket
  BY DEF MatchOf, HandledMatches, userVars, dispenserVars, operatorVars
<1>3. AtCounterMatches(u)'
  BY <1>2 DEF MatchOf, AtCounterMatches
<1> USE DEF DirectorJump
<1>4. CASE FlushPop
  <2>1. /\ dpc = "flush_next" /\ flushTicket' = Head(queue[cursor]) /\ cursor' = cursor
        /\ queue[cursor] # <<>> /\ Popped(queue, queue', cursor)
        /\ UNCHANGED <<ticketBox, replyBox>>
    BY <1>4 DEF FlushPop, PopQueue, Popped, msgVars
  <2>2. WaitingMatches(u)' /\ (Head(queue[cursor]) = u => cursor = wants[u])
    BY <1>1, <1>2, <2>1, WaitingMatchesPopped DEF MatchOf, EveningPC
  <2>3. FlushingMatches(u)'
    BY <1>2, <2>1, <2>2 DEF FlushingMatches
  <2>4. AskedMatches(u)' /\ AnswerMatches(u)'
    BY <1>2, <2>1 DEF MatchOf, AskedMatches, AnswerMatches
  <2>q. QED  BY <1>2, <1>3, <2>2, <2>3, <2>4 DEF MatchOf
<1>5. CASE FlushReply
  <2>1. /\ dpc = "flush_reply" /\ dpc' = "flush_lock" /\ UNCHANGED <<ticketBox, queue>>
        /\ SendUserReply(flushTicket, "NOT_SERVED", cursor)
    BY <1>5 DEF FlushReply, queueVars
  <2>2. flushTicket \in Users
    BY <1>1, <2>1 DEF FlushHeld, FlushHand
  <2>3. AnswerMatches(u)'
    BY <1>1, <1>2, <2>1, <2>2, AnswerMatchesKept DEF MatchOf, FlushingMatches
  <2>4. AskedMatches(u)' /\ WaitingMatches(u)' /\ FlushingMatches(u)'
    BY <1>2, <2>1 DEF MatchOf, AskedMatches, WaitingMatches, FlushingMatches
  <2>q. QED  BY <1>2, <1>3, <2>3, <2>4 DEF MatchOf
<1>6. CASE DirectorKeeps /\ ~FlushPop /\ ~FlushReply
  <2>1. dpc = "flush_reply" => cursor' = cursor
    <3>1. dpc = "flush_reply" => Terminate(gone) \/ CtrlC(gone)
      BY <1>6 DEF DirectorStep, ReceiveInit, NextDay, LastDayDone, LockStatsForReset, ResetDay,
         AssignCounter, OpenDay, CloseDay, ReceiveFinished, CountQueue, FlushLockQueue,
         LockStatsForFlush, CountFlushed, FlushUnlockQueue, PrintDay, DecideCause, PrintFinal,
         StopChildren, CleanUp
    <3>q. QED  BY <3>1 DEF Terminate, CtrlC, DirectorInterrupted
  <2>2. FlushingMatches(u)'
    BY <1>2, <1>6, <2>1 DEF DirectorKeeps, MatchOf, FlushingMatches
  <2>3. AskedMatches(u)' /\ WaitingMatches(u)' /\ AnswerMatches(u)'
    BY <1>2, <1>6 DEF DirectorKeeps, NoTicketMoves, MatchOf, AskedMatches, WaitingMatches,
       AnswerMatches
  <2>q. QED  BY <1>2, <1>3, <2>2, <2>3 DEF MatchOf
<1>q. QED  BY <1>4, <1>5, <1>6, DirectorHolds

LEMMA UserMatches ==
  ASSUME NEW u \in Users, TypeOK, TypeOK', ~ipcRemoved, ~Stopping, TicketInv, TicketInv',
         UserStep(u) \/ UserSignal(u),
         UNCHANGED <<operatorVars, dispenserVars, directorVars, workerService>>,
         NEW v \in Users, MatchOf(v)
  PROVE  MatchOf(v)'
<1>1. /\ ticketBox \in Seq(TicketMessage) /\ replyBox \in [Users -> Seq(ReplyMessage)]
      /\ upc[u] = "ask" => wants[u] \in Services
      /\ upc \in [Users -> UserPC] /\ wants \in [Users -> Services \cup {None}]
  BY DEF TypeOK, SharedTypeOK, MsgTypeOK, UserTypeOK
<1>2. ASSUME wants'[v] = wants[v]
      PROVE  HandledMatches(v)' /\ FlushingMatches(v)' /\ AtCounterMatches(v)'
  BY <1>2 DEF MatchOf, HandledMatches, FlushingMatches, AtCounterMatches, operatorVars,
     dispenserVars, directorVars
<1>3. \A x \in Users \ {u} : wants'[x] = wants[x]
  BY UserHolds
<1>4. CASE UserAsks(u)
  <2> DEFINE m == [user |-> u, service |-> wants[u]]
  <2>1. /\ upc[u] = "ask" /\ UNCHANGED <<queue, replyBox, wants>>
        /\ ticketBox' = Append(ticketBox, m)
    BY <1>4 DEF UserAsks, UserJump, queueVars
  <2>2. m \in TicketMessage /\ m.user = u /\ m.service = wants[u]
    BY <1>1, <2>1 DEF TicketMessage
  <2> HIDE DEF m
  <2>3. \A i \in DOMAIN Append(ticketBox, m) :
          \/ i \in DOMAIN ticketBox /\ Append(ticketBox, m)[i] = ticketBox[i]
          \/ Append(ticketBox, m)[i] = m
    BY <1>1, <2>2
  <2>4. AskedMatches(v)'
    BY <2>1, <2>2, <2>3 DEF MatchOf, AskedMatches
  <2>5. WaitingMatches(v)' /\ AnswerMatches(v)'
    BY <2>1 DEF MatchOf, WaitingMatches, AnswerMatches
  <2>q. QED  BY <1>2, <2>1, <2>4, <2>5 DEF MatchOf
<1>5. CASE UserGetsReply(u)
  <2>1. /\ upc'[u] = "idle" /\ UNCHANGED <<queue, ticketBox>>
        /\ replyBox' = [replyBox EXCEPT ![u] = Tail(@)]
    BY <1>1, <1>5 DEF UserGetsReply, UserJump, queueVars
  <2>2. CASE v = u
    <3>1. TicketsOf(u) = TicketsOf(u)' + 1
      BY <1>5, UserCarries
    <3>2. TicketsOf(u) \in Nat /\ TicketsOf(u)' \in Nat /\ TicketsOf(u) <= 1
      BY TicketsNatural, TicketsNaturalNext DEF TicketInv, AtMostOne
    <3>3. TicketsOf(u)' = 0
      BY <3>1, <3>2
    <3>q. QED  BY <2>2, <3>3, NothingToMatch
  <2>3. CASE v # u
    <3>1. wants'[v] = wants[v] /\ replyBox'[v] = replyBox[v]
      BY <1>1, <1>3, <2>1, <2>3
    <3>2. AskedMatches(v)' /\ WaitingMatches(v)' /\ AnswerMatches(v)'
      BY <2>1, <3>1 DEF MatchOf, AskedMatches, WaitingMatches, AnswerMatches
    <3>q. QED  BY <1>2, <3>1, <3>2 DEF MatchOf
  <2>q. QED  BY <2>2, <2>3
<1>6. CASE UserTurns(u)
  <2>1. CASE wants'[v] = wants[v]
    <3>1. AskedMatches(v)' /\ WaitingMatches(v)' /\ AnswerMatches(v)'
      BY <1>6, <2>1 DEF UserTurns, NoTicketMoves, MatchOf, AskedMatches, WaitingMatches,
         AnswerMatches
    <3>q. QED  BY <1>2, <2>1, <3>1 DEF MatchOf
  <2>2. CASE wants'[v] # wants[v]
    <3>1. v = u
      BY <1>3, <2>2
    <3>2. ~terminate[u] /\ ~terminate'[u]
      BY DEF TicketInv, Undisturbed, Stopping, directorVars
    <3>3. upc[u] \in {"idle", "arrive"}
      BY <1>6, <2>2, <3>1, <3>2 DEF UserTurns
    <3>4. TicketsOf(u) <= 1 /\ TicketsOf(u) # 1 /\ TicketsOf(u) \in Nat
      BY <3>2, <3>3, TicketsNatural DEF TicketInv, AtMostOne
    <3>5. TicketsOf(u)' = TicketsOf(u) /\ TicketsOf(u) = 0
      BY <1>6, <3>4, UserCarries
    <3>q. QED  BY <3>1, <3>5, NothingToMatch
  <2>q. QED  BY <2>1, <2>2
<1>q. QED  BY <1>4, <1>5, <1>6, UserHolds

LEMMA InitMatches == Init => MatchInv
<1> SUFFICES ASSUME Init, NEW u \in Users PROVE MatchOf(u)
  BY DEF MatchInv
<1>1. /\ ticket = [w \in Workers |-> None] /\ tpc = "init" /\ dpc = "wait_init"
      /\ ticketBox = <<>> /\ queue = [s \in Services |-> <<>>]
      /\ replyBox = [x \in Users |-> <<>>] /\ None \notin Users
  BY ProcessAssumption
     DEF Init, SharedStateInit, OperatorInit, DispenserInit, DirectorInit, Children
<1>2. AskedMatches(u) /\ WaitingMatches(u) /\ AnswerMatches(u)
  BY <1>1 DEF AskedMatches, WaitingMatches, AnswerMatches
<1>3. HandledMatches(u) /\ FlushingMatches(u) /\ AtCounterMatches(u)
  BY <1>1 DEF HandledMatches, FlushingMatches, AtCounterMatches, HandlingPC
<1>q. QED  BY <1>2, <1>3 DEF MatchOf

LEMMA NextMatches ==
  TypeOK /\ TypeOK' /\ BarrierInv /\ SweepInv /\ TicketInv /\ TicketInv' /\ MatchInv
    /\ [Next]_vars => MatchInv'
<1> SUFFICES ASSUME TypeOK, TypeOK', BarrierInv, SweepInv, TicketInv, TicketInv', MatchInv,
                    [Next]_vars, ~Stopping', NEW u \in Users
             PROVE  MatchOf(u)'
  BY DEF MatchInv
<1>1. ~Stopping /\ ~ipcRemoved
  <2>1. CASE DirectorRuns \/ DirectorIsSignalled
    <3>1. Stopping => Stopping'
      BY <2>1, DirectorHolds DEF DirectorRuns, DirectorIsSignalled, TicketInv, InHand
    <3>q. QED  BY <3>1 DEF BarrierInv, RemovedAtEnd, Stopping
  <2>2. CASE UNCHANGED dpc
    BY <2>2 DEF BarrierInv, RemovedAtEnd, Stopping
  <2>q. QED
    BY <2>1, <2>2 DEF Next, OperatorRuns, OperatorIsSignalled, UserRuns, UserIsSignalled,
       DispenserRuns, DispenserIsSignalled, directorVars, vars
<1>2. MatchOf(u)
  BY <1>1 DEF MatchInv
<1>3. ASSUME NEW w \in Workers, OperatorRuns(w) \/ OperatorIsSignalled(w) PROVE MatchOf(u)'
  BY <1>2, <1>3, OperatorMatches DEF OperatorRuns, OperatorIsSignalled, TicketInv, InHand
<1>4. ASSUME NEW v \in Users, UserRuns(v) \/ UserIsSignalled(v) PROVE MatchOf(u)'
  <2>1. UNCHANGED workerService
    BY <1>4, UserMutexes DEF UserRuns, UserIsSignalled, workerVars
  <2>q. QED  BY <1>1, <1>2, <1>4, <2>1, UserMatches DEF UserRuns, UserIsSignalled
<1>5. CASE DispenserRuns \/ DispenserIsSignalled
  <2>1. UNCHANGED workerService
    BY <1>5, DispenserMutexes DEF DispenserRuns, DispenserIsSignalled, DispenserUsesMutexes, TypeOK
  <2>q. QED  BY <1>1, <1>2, <1>5, <2>1, DispenserMatches DEF DispenserRuns, DispenserIsSignalled
<1>6. CASE DirectorRuns \/ DirectorIsSignalled
  <2>1. UNCHANGED workerService
    BY <1>6, DirectorMutexes DEF DirectorRuns, DirectorIsSignalled, DirectorUsesMutexes, TypeOK
  <2>q. QED  BY <1>2, <1>6, <2>1, DirectorMatches DEF DirectorRuns, DirectorIsSignalled, TicketInv, InHand
<1>7. CASE UNCHANGED vars
  BY <1>2, <1>7 DEF vars, MatchOf, AskedMatches, HandledMatches, WaitingMatches, AtCounterMatches,
     FlushingMatches, AnswerMatches, msgVars, queueVars, workerVars, operatorVars, userVars,
     dispenserVars, directorVars
<1>q. QED  BY <1>3, <1>4, <1>5, <1>6, <1>7 DEF Next

LEMMA Matched == Spec => []MatchInv
  BY InitMatches, NextMatches, TypeCorrect, Barriers, SweptAlways, Ticketed, PTL DEF Spec

(* The answer a user receives is about the service it asked for, whichever *)
(* of the three programs sends it (operator.c:249,                         *)
(* erogatore_ticket.c:125-156, director.c:552).                            *)
THEOREM ReplyMatchesHolds == Spec => []ReplyMatches
<1>1. MatchInv => ReplyMatches
  BY DEF MatchInv, MatchOf, AnswerMatches, ReplyMatches
<1>q. QED  BY <1>1, Matched, PTL

-----------------------------------------------------------------------------
(* Statistics.  An update is a step of its own, some steps after the one it*)
(* counts: BooksInv is the balance with what is on its way to be counted.  *)

(* The books of a service: what was asked, what was done about it, and in  *)
(* whose hands the rest is.                                                *)
AskedPC == {"check", "offered", "q_lock", "q_check", "push", "ns_lock", "ns"}
InDispenser(s) == IF tpc \in AskedPC /\ request.service = s THEN 1 ELSE 0
OwesService(w) == ticket[w] # None /\ opc[w] # "reply"
InService(s) == {w \in Workers : workerService[w] = s /\ ticket[w] # None /\ opc[w] # "reply"}
InFlush(s) == IF flushTicket # None /\ cursor = s THEN 1 ELSE 0

Balanced(s) == requests[s] = served[s] + notServed[s] + Outstanding(s)

PauseDue(w) == opc[w] \in {"pause_lock", "pause"} \/ (opc[w] = "failed" /\ ticket[w] = None)
Pausing == {w \in Workers : opc[w] \in {"pause_lock", "pause"}
                            \/ (opc[w] = "failed" /\ ticket[w] = None)}
PausesTaken(p) == Cardinality(Pairs([w \in Workers |-> 1 .. p[w]]))

LEMMA OutstandingSum ==
  ASSUME NEW s
  PROVE  Outstanding(s) = InDispenser(s) + Len(queue[s]) + Cardinality(InService(s)) + InFlush(s)
  BY DEF Outstanding, InDispenser, AskedPC, InService, InFlush

LEMMA OutstandingSumNext ==
  ASSUME NEW s
  PROVE  Outstanding(s)' = InDispenser(s)' + Len(queue'[s]) + Cardinality(InService(s)') + InFlush(s)'
  BY DEF Outstanding, InDispenser, AskedPC, InService, InFlush

LEMMA BooksNatural ==
  ASSUME TypeOK, NEW s \in Services
  PROVE  /\ requests[s] \in Nat /\ served[s] \in Nat /\ notServed[s] \in Nat
         /\ InDispenser(s) \in Nat /\ Len(queue[s]) \in Nat /\ InFlush(s) \in Nat
         /\ Cardinality(InService(s)) \in Nat /\ IsFiniteSet(InService(s))
<1>1. IsFiniteSet(InService(s))
  BY ProcessAssumption, FS_Subset DEF InService
<1>2. queue[s] \in Seq(Users)
  BY DEF TypeOK, SharedTypeOK, QueueTypeOK
<1>q. QED  BY <1>1, <1>2, FS_CardinalityType, LenProperties
     DEF TypeOK, SharedTypeOK, StatTypeOK, InDispenser, InFlush

(* One member of a finite set changes. *)
LEMMA MemberStep ==
  ASSUME NEW S, NEW T, NEW w, IsFiniteSet(S), \A v : v # w => (v \in S <=> v \in T)
  PROVE  /\ IsFiniteSet(T) /\ Cardinality(S) \in Nat /\ Cardinality(T) \in Nat
         /\ Cardinality(T) + (IF w \in S THEN 1 ELSE 0) = Cardinality(S) + (IF w \in T THEN 1 ELSE 0)
<1>1. S \ {w} = T \ {w} /\ IsFiniteSet(S \ {w})
  BY FS_RemoveElement
<1>2. T = (S \ {w}) \cup (IF w \in T THEN {w} ELSE {})
  BY <1>1
<1>3. IsFiniteSet(T)
  BY <1>1, <1>2, FS_AddElement
<1>4. ASSUME NEW A, IsFiniteSet(A)
      PROVE  /\ Cardinality(A) = Cardinality(A \ {w}) + (IF w \in A THEN 1 ELSE 0)
             /\ Cardinality(A \ {w}) \in Nat
  <2>1. IsFiniteSet(A \ {w}) /\ Cardinality(A) \in Nat
    BY <1>4, FS_RemoveElement, FS_CardinalityType
  <2>2. Cardinality(A \ {w}) = IF w \in A THEN Cardinality(A) - 1 ELSE Cardinality(A)
    BY <1>4, FS_RemoveElement
  <2>3. Cardinality(A \ {w}) \in Nat
    BY <2>1, FS_CardinalityType
  <2>q. QED  BY <2>1, <2>2, <2>3
<1>5. Cardinality(S) \in Nat /\ Cardinality(T) \in Nat
  BY <1>3, FS_CardinalityType
<1>q. QED  BY <1>1, <1>3, <1>4, <1>5

BooksRest(w) ==
  UNCHANGED <<requests, served, notServed, queue>> /\ (OwesService(w)' <=> OwesService(w))
PausesRest(w) ==
  UNCHANGED <<pausesTaken, pauseTotal>> /\ (PauseDue(w)' <=> PauseDue(w))

LEMMA OperatorBooks ==
  ASSUME NEW w \in Workers, TypeOK, Holding(w), OperatorStep(w) \/ OperatorSignal(w)
  PROVE  /\ PopTicket(w) \/ CountServed(w) \/ BooksRest(w)
         /\ TakePause(w) \/ CountPause(w) \/ PausesRest(w)
<1>0. /\ opc \in [Workers -> OperatorPC] /\ ticket \in [Workers -> Users \cup {None}]
      /\ queue \in [Services -> Seq(Users)] /\ workerService[w] \in Services
  BY DEF TypeOK, SharedTypeOK, OperatorTypeOK, QueueTypeOK, WorkerTypeOK
<1> USE DEF BooksRest, PausesRest, OwesService, PauseDue, Holding, OperatorJump, sharedVars,
            workerVars, queueVars, statVars
<1>1. CASE PopTicket(w)
  <2>1. Head(queue[workerService[w]]) \in Users /\ None \notin Users
    BY <1>0, <1>1, HeadOfQueue, ProcessAssumption DEF PopTicket, TypeOK, SharedTypeOK, Children
  <2>q. QED  BY <1>0, <1>1, <2>1 DEF PopTicket
<1>2. CASE ReplyServed(w)
  BY <1>0, <1>2 DEF ReplyServed
<1>3. CASE WaitForTicket(w) \/ PopNothing(w) \/ TakeToken(w) \/ HandBackToken(w) \/ StartScan(w)
  BY <1>0, <1>3 DEF WaitForTicket, PopNothing, TakeToken, HandBackToken, StartScan
<1>4. CASE SkipCounter(w) \/ ClaimCounter(w) \/ ReleaseCounter(w) \/ PostToken(w) \/ FindCounter(w)
  BY <1>0, <1>4 DEF SkipCounter, ClaimCounter, ReleaseCounter, PostToken, FindCounter
<1>5. CASE OperatorSendInit(w) \/ OperatorSuspend(w) \/ OperatorExit(w) \/ TestClaimLoop(w)
           \/ OperatorStartDay(w)
  BY <1>0, <1>5 DEF OperatorSendInit, OperatorSuspend, OperatorExit, TestClaimLoop, OperatorStartDay
<1>6. CASE LockScanned(w) \/ TestServeLoop(w) \/ OperatorLockQueue(w) \/ ServeTicket(w)
  BY <1>0, <1>6 DEF LockScanned, LockCounter, TestServeLoop, OperatorLockQueue, LockQueue,
     ServeTicket, LockStats
<1>7. CASE CountServed(w) \/ StopAfterService(w) \/ KeepWorking(w) \/ CountPause(w)
  BY <1>0, <1>7 DEF CountServed, StopAfterService, KeepWorking, CountPause
<1>8. CASE TakePause(w) \/ LockStatsForPause(w) \/ LockRelease(w) \/ ReportDayFinished(w)
  BY <1>0, <1>8 DEF TakePause, LockStatsForPause, LockStats, LockRelease, LockCounter,
     ReportDayFinished
<1>9. CASE OperatorSignal(w)
  <2>1. /\ UNCHANGED <<requests, served, notServed, queue, pausesTaken, pauseTotal, ticket>>
        /\ opc[w] # "failed"
    BY <1>9 DEF OperatorSignal
  <2>2. \/ opc'[w] = opc[w]
        \/ /\ opc[w] \in {"suspend", "take_token", "scan", "release", "wait_job", "pop_lock"}
           /\ opc'[w] \in {"idle", "report", "release", "loop"}
        \/ opc[w] \in {"serve", "pause_lock"} /\ opc'[w] = "failed"
    BY <1>0, <1>9 DEF OperatorSignal, OperatorBlocked, AfterInterrupt
  <2>3. OwesService(w)' <=> OwesService(w)
    BY <2>1, <2>2
  <2>4. PauseDue(w)' <=> PauseDue(w)
    BY <2>1, <2>2
  <2>q. QED  BY <2>1, <2>3, <2>4
<1>q. QED
  BY <1>1, <1>2, <1>3, <1>4, <1>5, <1>6, <1>7, <1>8, <1>9 DEF OperatorStep

LEMMA OperatorBalances ==
  ASSUME NEW w \in Workers, TypeOK, TypeOK', Holding(w), OperatorStep(w) \/ OperatorSignal(w),
         UNCHANGED <<dispenserVars, directorVars>>, NEW s \in Services, Balanced(s)
  PROVE  Balanced(s)'
<1>1. /\ opc \in [Workers -> OperatorPC] /\ ticket \in [Workers -> Users \cup {None}]
      /\ queue \in [Services -> Seq(Users)] /\ served \in [Services -> Nat]
  BY DEF TypeOK, SharedTypeOK, OperatorTypeOK, QueueTypeOK, StatTypeOK
<1>2. InDispenser(s)' = InDispenser(s) /\ InFlush(s)' = InFlush(s)
  BY DEF InDispenser, InFlush, dispenserVars, directorVars
<1>3. OthersHold(w)
  BY OperatorHolds
<1>4. /\ \A v : v # w => (v \in InService(s) <=> v \in InService(s)')
      /\ w \in InService(s) <=> workerService[w] = s /\ OwesService(w)
      /\ w \in InService(s)' <=> workerService[w] = s /\ OwesService(w)'
  BY <1>3 DEF InService, OwesService, OthersHold
<1>n. /\ requests[s] \in Nat /\ served[s] \in Nat /\ notServed[s] \in Nat
      /\ InDispenser(s) \in Nat /\ Len(queue[s]) \in Nat /\ InFlush(s) \in Nat
      /\ Cardinality(InService(s)) \in Nat /\ IsFiniteSet(InService(s))
  BY BooksNatural
<1> DEFINE before == IF w \in InService(s) THEN 1 ELSE 0
           after == IF w \in InService(s)' THEN 1 ELSE 0
           r0 == requests[s]            r1 == requests'[s]
           v0 == served[s]              v1 == served'[s]
           n0 == notServed[s]           n1 == notServed'[s]
           d0 == InDispenser(s)         d1 == InDispenser(s)'
           l0 == Len(queue[s])          l1 == Len(queue'[s])
           c0 == Cardinality(InService(s))  c1 == Cardinality(InService(s)')
           f0 == InFlush(s)             f1 == InFlush(s)'
<1>5. c1 + before = c0 + after /\ c1 \in Nat
  BY <1>4, <1>n, MemberStep
<1>t. /\ r0 \in Nat /\ v0 \in Nat /\ n0 \in Nat /\ d0 \in Nat /\ l0 \in Nat /\ c0 \in Nat
      /\ f0 \in Nat
  BY <1>n
<1>o. r0 = v0 + n0 + (d0 + l0 + c0 + f0)
  BY OutstandingSum DEF Balanced
<1>p. r1 = v1 + n1 + (d1 + l1 + c1 + f1) => Balanced(s)'
  BY OutstandingSumNext DEF Balanced
<1>d. d1 = d0 /\ f1 = f0
  BY <1>2
<1>6. CASE workerService[w] # s \/ BooksRest(w)
  <2>1. r1 = r0 /\ n1 = n0
    BY <1>6, OperatorBooks DEF BooksRest, PopTicket, CountServed, statVars
  <2>2. v1 = v0
    BY <1>1, <1>6, OperatorBooks DEF BooksRest, PopTicket, CountServed, statVars
  <2>3. l1 = l0
    BY <1>1, <1>6, OperatorBooks DEF BooksRest, PopTicket, PopQueue, CountServed, queueVars
  <2>4. before \in Nat /\ after = before
    BY <1>4, <1>6 DEF BooksRest
  <2> HIDE DEF before, after, r0, r1, v0, v1, n0, n1, d0, d1, l0, l1, c0, c1, f0, f1
  <2>5. c1 = c0
    BY <1>t, <1>5, <2>4
  <2>q. QED  BY <1>d, <1>o, <1>p, <2>1, <2>2, <2>3, <2>5
<1>7. CASE workerService[w] = s /\ PopTicket(w)
  <2>1. /\ opc[w] = "pop" /\ opc'[w] = "serve" /\ queue[s] # <<>> /\ queue'[s] = Tail(queue[s])
        /\ ticket'[w] = Head(queue[s]) /\ r1 = r0 /\ v1 = v0 /\ n1 = n0
    BY <1>1, <1>7 DEF PopTicket, PopQueue, OperatorJump, statVars
  <2>2. l0 = l1 + 1 /\ l1 \in Nat /\ Head(queue[s]) \in Users
    <3>1. queue[s] \in Seq(Users)
      BY <1>1
    <3>q. QED  BY <2>1, <3>1
  <2>3. before = 0 /\ after = 1
    BY <1>4, <1>7, <2>1, <2>2, ProcessAssumption DEF Holding, OwesService, Children
  <2> HIDE DEF before, after, r0, r1, v0, v1, n0, n1, d0, d1, l0, l1, c0, c1, f0, f1
  <2>4. c1 = c0 + 1
    BY <1>t, <1>5, <2>3
  <2>q. QED  BY <1>d, <1>t, <1>o, <1>p, <2>1, <2>2, <2>4
<1>8. CASE workerService[w] = s /\ CountServed(w)
  <2>1. /\ opc[w] = "served" /\ opc'[w] = "reply" /\ v1 = v0 + 1
        /\ r1 = r0 /\ n1 = n0 /\ l1 = l0 /\ ticket' = ticket
    BY <1>1, <1>8 DEF CountServed, OperatorJump, queueVars
  <2>2. before = 1 /\ after = 0
    BY <1>4, <1>8, <2>1 DEF Holding, OwesService
  <2> HIDE DEF before, after, r0, r1, v0, v1, n0, n1, d0, d1, l0, l1, c0, c1, f0, f1
  <2>3. c1 + 1 = c0
    BY <1>t, <1>5, <2>2
  <2>q. QED  BY <1>d, <1>t, <1>o, <1>p, <1>5, <2>1, <2>3
<1>q. QED  BY <1>6, <1>7, <1>8, OperatorBooks

PausesBalanced == PausesTaken(pausesTaken) = pauseTotal + Cardinality(Pausing)

LEMMA PauseTaken ==
  ASSUME NEW p \in [Workers -> Nat], NEW w \in Workers, NEW q, q = [p EXCEPT ![w] = @ + 1]
  PROVE  PausesTaken(q) = PausesTaken(p) + 1
<1> DEFINE f == [v \in Workers |-> 1 .. p[v]]
           g == [v \in Workers |-> 1 .. q[v]]
<1>1. q \in [Workers -> Nat] /\ q[w] = p[w] + 1 /\ \A v \in Workers \ {w} : q[v] = p[v]
  OBVIOUS
<1>2. Family(f, Workers) /\ Family(g, Workers)
  <2>1. \A n \in Nat : IsFiniteSet(1 .. n)
    BY FS_Interval
  <2>q. QED  BY <1>1, <2>1 DEF Family
<1>3. \A v \in Workers \ {w} : g[v] = f[v]
  BY <1>1
<1>4. Cardinality(f[w]) = p[w] /\ Cardinality(g[w]) = p[w] + 1
  <2>1. 1 \in Int /\ p[w] \in Int /\ p[w] + 1 \in Int /\ p[w] >= 0
    OBVIOUS
  <2>2. \A n \in Nat : Cardinality(1 .. n) = n
    BY FS_Interval
  <2>q. QED  BY <1>1, <2>1, <2>2
<1>5. PausesTaken(p) = Cardinality(Pairs(f)) /\ PausesTaken(q) = Cardinality(Pairs(g))
  BY DEF PausesTaken
<1> HIDE DEF f, g
<1>6. /\ Cardinality(Pairs(g)) + Cardinality(f[w]) = Cardinality(Pairs(f)) + Cardinality(g[w])
      /\ Cardinality(Pairs(f)) \in Nat /\ Cardinality(Pairs(g)) \in Nat
  BY <1>2, <1>3, ProcessAssumption, PairsStep, PairsFinite
<1>7. p[w] \in Nat
  OBVIOUS
<1>q. QED  BY <1>4, <1>5, <1>6, <1>7

LEMMA OperatorPauses ==
  ASSUME NEW w \in Workers, TypeOK, TypeOK', Holding(w), OperatorStep(w) \/ OperatorSignal(w),
         PausesBalanced
  PROVE  PausesBalanced'
<1>1. /\ opc \in [Workers -> OperatorPC] /\ pausesTaken \in [Workers -> Nat]
      /\ pauseTotal \in Nat
  BY DEF TypeOK, SharedTypeOK, OperatorTypeOK, WorkerTypeOK, StatTypeOK
<1>3. OthersHold(w)
  BY OperatorHolds
<1>4. /\ \A v : v # w => (v \in Pausing <=> v \in Pausing')
      /\ w \in Pausing <=> PauseDue(w)
      /\ w \in Pausing' <=> PauseDue(w)'
  BY <1>3 DEF Pausing, PauseDue, OthersHold
<1> DEFINE before == IF w \in Pausing THEN 1 ELSE 0
           after == IF w \in Pausing' THEN 1 ELSE 0
<1>5. /\ Cardinality(Pausing') + before = Cardinality(Pausing) + after
      /\ Cardinality(Pausing) \in Nat /\ Cardinality(Pausing') \in Nat
  <2>1. IsFiniteSet(Pausing)
    BY ProcessAssumption, FS_Subset DEF Pausing
  <2>q. QED  BY <1>4, <2>1, MemberStep
<1>6. CASE TakePause(w)
  <2>1. /\ opc[w] = "after" /\ opc'[w] = "pause_lock" /\ pauseTotal' = pauseTotal
        /\ pausesTaken' = [pausesTaken EXCEPT ![w] = @ + 1]
    BY <1>1, <1>6 DEF TakePause, OperatorJump, statVars
  <2>2. before = 0 /\ after = 1
    BY <1>4, <2>1 DEF PauseDue
  <2>3. PausesTaken(pausesTaken') = PausesTaken(pausesTaken) + 1
    BY <1>1, <2>1, PauseTaken
  <2> HIDE DEF before, after
  <2>q. QED  BY <1>1, <1>5, <2>1, <2>2, <2>3 DEF PausesBalanced
<1>7. CASE CountPause(w)
  <2>1. /\ opc[w] = "pause" /\ opc'[w] = "release" /\ pauseTotal' = pauseTotal + 1
        /\ pausesTaken' = pausesTaken
    BY <1>1, <1>7 DEF CountPause, OperatorJump, workerVars
  <2>2. before = 1 /\ after = 0
    BY <1>4, <2>1 DEF PauseDue
  <2> HIDE DEF before, after
  <2>q. QED  BY <1>1, <1>5, <2>1, <2>2 DEF PausesBalanced
<1>8. CASE PausesRest(w)
  <2>1. before = after /\ before \in Nat
    BY <1>4, <1>8 DEF PausesRest
  <2> HIDE DEF before, after
  <2>q. QED  BY <1>5, <1>8, <2>1 DEF PausesBalanced, PausesRest
<1>q. QED  BY <1>6, <1>7, <1>8, OperatorBooks

DispenserBooksRest ==
  /\ UNCHANGED <<requests, notServed, queue>>
  /\ tpc' \in AskedPC <=> tpc \in AskedPC
  /\ tpc \in AskedPC => request' = request

LEMMA DispenserBooks ==
  ASSUME TypeOK, DispenserStep \/ DispenserSignal, tpc' # "failed"
  PROVE  /\ UNCHANGED <<workerService, served, pausesTaken, pauseTotal>>
         /\ tpc # "failed"
         /\ CountRequest \/ PushTicket \/ CountRefusal \/ DispenserBooksRest
<1> USE DEF DispenserBooksRest, AskedPC, DispenserJump, sharedVars, workerVars, queueVars, statVars
<1>1. CASE CountRequest \/ PushTicket \/ CountRefusal
  BY <1>1 DEF CountRequest, PushTicket, CountRefusal
<1>2. CASE DispenserSendInit \/ ReceiveRequest \/ LockStatsForRequest \/ CheckDayActive
           \/ CheckOffered \/ DispenserLockQueue
  BY <1>2 DEF DispenserSendInit, ReceiveRequest, LockStatsForRequest, LockStats, CheckDayActive,
     CheckOffered, DispenserLockQueue, LockQueue
<1>3. CASE RefuseLocked \/ AcceptLocked \/ PostJob \/ LockStatsForRefusal \/ ReplyRefusal
           \/ DispenserTestLoop
  BY <1>3 DEF RefuseLocked, AcceptLocked, PostJob, LockStatsForRefusal, LockStats, ReplyRefusal,
     DispenserTestLoop
<1>4. CASE DispenserLosesIpc \/ DispenserSignal
  BY <1>4 DEF DispenserLosesIpc, DispenserSignal, DispenserInterrupted, dispenserVars
<1>q. QED  BY <1>1, <1>2, <1>3, <1>4 DEF DispenserStep, DispenserIpcStep

LEMMA DispenserBalances ==
  ASSUME TypeOK, TypeOK', DispenserStep \/ DispenserSignal, tpc' # "failed",
         UNCHANGED <<operatorVars, directorVars>>, NEW s \in Services, Balanced(s)
  PROVE  Balanced(s)'
<1>1. /\ queue \in [Services -> Seq(Users)] /\ requests \in [Services -> Nat]
      /\ notServed \in [Services -> Nat]
      /\ tpc \in HandlingPC => request.user \in Users /\ request.service \in Services
  BY DEF TypeOK, SharedTypeOK, QueueTypeOK, StatTypeOK, DispenserTypeOK, TicketMessage
<1>2. /\ UNCHANGED <<workerService, served>>
      /\ CountRequest \/ PushTicket \/ CountRefusal \/ DispenserBooksRest
  BY DispenserBooks
<1> DEFINE r0 == requests[s]            r1 == requests'[s]
           v0 == served[s]              v1 == served'[s]
           n0 == notServed[s]           n1 == notServed'[s]
           d0 == InDispenser(s)         d1 == InDispenser(s)'
           l0 == Len(queue[s])          l1 == Len(queue'[s])
           c0 == Cardinality(InService(s))  c1 == Cardinality(InService(s)')
           f0 == InFlush(s)             f1 == InFlush(s)'
<1>t. /\ r0 \in Nat /\ v0 \in Nat /\ n0 \in Nat /\ d0 \in Nat /\ l0 \in Nat /\ c0 \in Nat
      /\ f0 \in Nat
  BY BooksNatural
<1>o. r0 = v0 + n0 + (d0 + l0 + c0 + f0)
  BY OutstandingSum DEF Balanced
<1>p. r1 = v1 + n1 + (d1 + l1 + c1 + f1) => Balanced(s)'
  BY OutstandingSumNext DEF Balanced
<1>d. v1 = v0 /\ c1 = c0 /\ f1 = f0
  BY <1>2 DEF InService, InFlush, operatorVars, directorVars
<1> USE DEF DispenserJump
<1>3. CASE CountRequest
  <2> DEFINE one == IF request.service = s THEN 1 ELSE 0
  <2>1. /\ tpc = "req" /\ tpc' = "check" /\ request' = request
        /\ n1 = n0 /\ l1 = l0
    BY <1>3 DEF CountRequest, queueVars
  <2>2. r1 = r0 + one /\ one \in Nat
    BY <1>1, <1>3, <2>1 DEF CountRequest, HandlingPC
  <2>3. d0 = 0 /\ d1 = one
    BY <2>1 DEF InDispenser, AskedPC
  <2> HIDE DEF one, r0, r1, v0, v1, n0, n1, d0, d1, l0, l1, c0, c1, f0, f1
  <2>q. QED  BY <1>d, <1>t, <1>o, <1>p, <2>1, <2>2, <2>3
<1>4. CASE PushTicket
  <2> DEFINE one == IF request.service = s THEN 1 ELSE 0
  <2>1. /\ tpc = "push" /\ tpc' = "post" /\ r1 = r0 /\ n1 = n0
        /\ queue' = [queue EXCEPT ![request.service] = Append(@, request.user)]
    BY <1>4 DEF PushTicket, PushQueue, statVars
  <2>2. l1 = l0 + one /\ one \in Nat
    <3>1. queue[s] \in Seq(Users) /\ request.user \in Users /\ request.service \in Services
      BY <1>1, <2>1 DEF HandlingPC
    <3>2. Len(Append(queue[s], request.user)) = Len(queue[s]) + 1 /\ Len(queue[s]) \in Nat
      BY <3>1
    <3>3. CASE request.service = s
      <4>1. queue'[s] = Append(queue[s], request.user)
        BY <1>1, <2>1, <3>1, <3>3
      <4>2. one = 1
        BY <3>3
      <4>q. QED  BY <3>2, <4>1, <4>2
    <3>4. CASE request.service # s
      <4>1. queue'[s] = queue[s]
        BY <1>1, <2>1, <3>4
      <4>2. one = 0
        BY <3>4
      <4>3. l1 = l0 /\ l0 \in Nat
        BY <1>t, <4>1
      <4> HIDE DEF one, l0, l1
      <4>q. QED  BY <4>2, <4>3
    <3>q. QED  BY <3>3, <3>4
  <2>3. d0 = one /\ d1 = 0
    BY <2>1 DEF InDispenser, AskedPC
  <2> HIDE DEF one, r0, r1, v0, v1, n0, n1, d0, d1, l0, l1, c0, c1, f0, f1
  <2>q. QED  BY <1>d, <1>t, <1>o, <1>p, <2>1, <2>2, <2>3
<1>5. CASE CountRefusal
  <2> DEFINE one == IF request.service = s THEN 1 ELSE 0
  <2>1. /\ tpc = "ns" /\ tpc' = "ns_reply" /\ r1 = r0 /\ l1 = l0
    BY <1>5 DEF CountRefusal, queueVars
  <2>2. n1 = n0 + one /\ one \in Nat
    BY <1>1, <1>5, <2>1 DEF CountRefusal, HandlingPC
  <2>3. d0 = one /\ d1 = 0
    BY <2>1 DEF InDispenser, AskedPC
  <2> HIDE DEF one, r0, r1, v0, v1, n0, n1, d0, d1, l0, l1, c0, c1, f0, f1
  <2>q. QED  BY <1>d, <1>t, <1>o, <1>p, <2>1, <2>2, <2>3
<1>6. CASE DispenserBooksRest
  <2>1. r1 = r0 /\ n1 = n0 /\ l1 = l0
    BY <1>6 DEF DispenserBooksRest
  <2>2. d1 = d0
    BY <1>6 DEF DispenserBooksRest, InDispenser
  <2> HIDE DEF r0, r1, v0, v1, n0, n1, d0, d1, l0, l1, c0, c1, f0, f1
  <2>q. QED  BY <1>d, <1>o, <1>p, <2>1, <2>2
<1>q. QED  BY <1>2, <1>3, <1>4, <1>5, <1>6

DirectorBooksRest ==
  /\ UNCHANGED <<notServed, queue, flushTicket>>
  /\ flushTicket # None => cursor' = cursor

LEMMA DirectorBooks ==
  ASSUME NEW gone, TypeOK, SweepInv, FlushHeld, DirectorStep(gone) \/ Terminate(gone) \/ CtrlC(gone)
  PROVE  /\ UNCHANGED <<workerService, requests, served, pausesTaken, pauseTotal>>
         /\ FlushPop \/ CountFlushed \/ DirectorBooksRest
<1>0. queue \in [Services -> Seq(Users)]
  BY DEF TypeOK, SharedTypeOK, QueueTypeOK
<1> USE DEF FlushHeld, FlushHand, DirectorBooksRest, DirectorJump, sharedVars, workerVars,
            queueVars, statVars, directorLocals
<1>1. CASE FlushPop \/ CountFlushed
  BY <1>1 DEF FlushPop, CountFlushed
<1>2. CASE ReceiveInit \/ NextDay \/ LastDayDone \/ LockStatsForReset \/ ResetDay \/ AssignCounter
  BY <1>2 DEF ReceiveInit, NextDay, LastDayDone, LockStatsForReset, LockStats, ResetDay,
     AssignCounter
<1>3. CASE OpenDay
  <2>1. \A s \in Services : queue[s] = <<>>
    BY <1>3 DEF OpenDay, SweepInv, Swept, SweepPC, DayPC
  <2>2. queue' = queue
    BY <1>0, <1>3, <2>1 DEF OpenDay
  <2>q. QED  BY <1>3, <2>2 DEF OpenDay
<1>4. CASE CloseDay \/ ReceiveFinished \/ CountQueue \/ FlushLockQueue \/ FlushReply
  BY <1>4 DEF CloseDay, ReceiveFinished, CountQueue, FlushLockQueue, LockQueue, FlushReply
<1>5. CASE LockStatsForFlush \/ FlushUnlockQueue \/ PrintDay \/ DecideCause \/ PrintFinal
  BY <1>5 DEF LockStatsForFlush, LockStats, FlushUnlockQueue, PrintDay, DecideCause, PrintFinal
<1>6. CASE StopChildren \/ CleanUp(gone)
  BY <1>6 DEF StopChildren, CleanUp
<1>7. CASE Terminate(gone) \/ CtrlC(gone)
  BY <1>7 DEF Terminate, CtrlC, DirectorInterrupted
<1>q. QED  BY <1>1, <1>2, <1>3, <1>4, <1>5, <1>6, <1>7 DEF DirectorStep

LEMMA DirectorBalances ==
  ASSUME NEW gone, TypeOK, TypeOK', SweepInv, FlushHeld,
         DirectorStep(gone) \/ Terminate(gone) \/ CtrlC(gone),
         UNCHANGED <<operatorVars, dispenserVars>>, NEW s \in Services, Balanced(s)
  PROVE  Balanced(s)'
<1>1. /\ queue \in [Services -> Seq(Users)] /\ notServed \in [Services -> Nat]
      /\ flushTicket \in Users \cup {None} /\ None \notin Users
      /\ dpc \in EveningPC => cursor \in Services
  BY ProcessAssumption
     DEF TypeOK, SharedTypeOK, QueueTypeOK, StatTypeOK, DirectorTypeOK, Children, EveningPC
<1>2. /\ UNCHANGED <<workerService, requests, served>>
      /\ FlushPop \/ CountFlushed \/ DirectorBooksRest
  BY DirectorBooks
<1> DEFINE r0 == requests[s]            r1 == requests'[s]
           v0 == served[s]              v1 == served'[s]
           n0 == notServed[s]           n1 == notServed'[s]
           d0 == InDispenser(s)         d1 == InDispenser(s)'
           l0 == Len(queue[s])          l1 == Len(queue'[s])
           c0 == Cardinality(InService(s))  c1 == Cardinality(InService(s)')
           f0 == InFlush(s)             f1 == InFlush(s)'
           one == IF cursor = s THEN 1 ELSE 0
<1>t. /\ r0 \in Nat /\ v0 \in Nat /\ n0 \in Nat /\ d0 \in Nat /\ l0 \in Nat /\ c0 \in Nat
      /\ f0 \in Nat /\ one \in Nat
  BY BooksNatural
<1>o. r0 = v0 + n0 + (d0 + l0 + c0 + f0)
  BY OutstandingSum DEF Balanced
<1>p. r1 = v1 + n1 + (d1 + l1 + c1 + f1) => Balanced(s)'
  BY OutstandingSumNext DEF Balanced
<1>d. r1 = r0 /\ v1 = v0 /\ c1 = c0 /\ d1 = d0
  BY <1>2 DEF InService, InDispenser, operatorVars, dispenserVars
<1> USE DEF DirectorJump
<1>3. CASE FlushPop
  <2>1. /\ dpc = "flush_next" /\ queue[cursor] # <<>> /\ flushTicket' = Head(queue[cursor])
        /\ queue' = [queue EXCEPT ![cursor] = Tail(@)] /\ n1 = n0 /\ cursor' = cursor
    BY <1>3 DEF FlushPop, PopQueue, statVars
  <2>2. /\ Len(queue[cursor]) = Len(Tail(queue[cursor])) + 1 /\ Len(Tail(queue[cursor])) \in Nat
        /\ Head(queue[cursor]) \in Users /\ cursor \in Services
    <3>1. cursor \in Services /\ queue[cursor] \in Seq(Users)
      BY <1>1, <2>1 DEF EveningPC
    <3>q. QED  BY <2>1, <3>1
  <2>3. l0 = l1 + one /\ l1 \in Nat
    <3>1. CASE cursor = s
      BY <1>1, <2>1, <2>2, <3>1
    <3>2. CASE cursor # s
      <4>1. queue'[s] = queue[s]
        BY <1>1, <2>1, <2>2, <3>2
      <4>2. Len(queue[s]) \in Nat
        BY <1>t
      <4>q. QED  BY <3>2, <4>1, <4>2
    <3>q. QED  BY <3>1, <3>2
  <2>4. flushTicket = None
    BY <2>1 DEF FlushHeld, FlushHand
  <2>5. f0 = 0 /\ f1 = one
    BY <1>1, <2>1, <2>2, <2>4 DEF InFlush
  <2> HIDE DEF one, r0, r1, v0, v1, n0, n1, d0, d1, l0, l1, c0, c1, f0, f1
  <2>q. QED  BY <1>d, <1>t, <1>o, <1>p, <2>1, <2>3, <2>5
<1>4. CASE CountFlushed
  <2>1. /\ dpc = "flush_stat" /\ flushTicket' = None /\ l1 = l0
        /\ notServed' = [notServed EXCEPT ![cursor] = @ + 1]
    BY <1>4 DEF CountFlushed, queueVars
  <2>2. n1 = n0 + one
    BY <1>1, <1>t, <2>1 DEF EveningPC
  <2>3. f0 = one /\ f1 = 0
    BY <2>1 DEF FlushHeld, FlushHand, InFlush
  <2> HIDE DEF one, r0, r1, v0, v1, n0, n1, d0, d1, l0, l1, c0, c1, f0, f1
  <2>q. QED  BY <1>d, <1>t, <1>o, <1>p, <2>1, <2>2, <2>3
<1>5. CASE DirectorBooksRest
  <2>1. n1 = n0 /\ l1 = l0
    BY <1>5 DEF DirectorBooksRest
  <2>2. f1 = f0
    BY <1>5 DEF DirectorBooksRest, InFlush
  <2> HIDE DEF one, r0, r1, v0, v1, n0, n1, d0, d1, l0, l1, c0, c1, f0, f1
  <2>q. QED  BY <1>d, <1>o, <1>p, <2>1, <2>2
<1>q. QED  BY <1>2, <1>3, <1>4, <1>5

-----------------------------------------------------------------------------
(* A step that touches no book. *)
LEMMA BooksUntouched ==
  ASSUME UNCHANGED <<requests, served, notServed, queue, tpc, request, workerService, ticket, opc,
                     flushTicket, cursor>>,
         NEW s \in Services, Balanced(s)
  PROVE  Balanced(s)'
  BY DEF Balanced, Outstanding

LEMMA PausesUntouched ==
  ASSUME UNCHANGED <<pausesTaken, pauseTotal, opc, ticket>>, PausesBalanced
  PROVE  PausesBalanced'
  BY DEF PausesBalanced, PausesTaken, Pausing

BooksInv == (tpc # "failed" => \A s \in Services : Balanced(s)) /\ PausesBalanced

LEMMA BooksAreStats == BooksInv <=> StatsConserved
  BY DEF BooksInv, Balanced, PausesBalanced, PausesTaken, Pausing, StatsConserved

LEMMA InitBooks == Init => BooksInv
<1> SUFFICES ASSUME Init PROVE BooksInv
  OBVIOUS
<1>0. TypeOK
  BY InitTypeOK
<1>1. /\ opc = [w \in Workers |-> "init"] /\ ticket = [w \in Workers |-> None]
      /\ pausesTaken = [w \in Workers |-> 0] /\ pauseTotal = 0 /\ tpc = "init"
      /\ flushTicket = None /\ queue = [s \in Services |-> <<>>]
      /\ requests = [s \in Services |-> 0] /\ served = [s \in Services |-> 0]
      /\ notServed = [s \in Services |-> 0]
  BY DEF Init, SharedStateInit, OperatorInit, DispenserInit, DirectorInit
<1>2. ASSUME NEW s \in Services PROVE Balanced(s)
  <2>1. InService(s) = {}
    BY <1>1 DEF InService
  <2>2. Cardinality(InService(s)) = 0 /\ Len(queue[s]) = 0
    BY <1>1, <2>1, FS_EmptySet
  <2>3. InDispenser(s) = 0 /\ InFlush(s) = 0
    BY <1>1 DEF InDispenser, AskedPC, InFlush
  <2>4. requests[s] = 0 /\ served[s] = 0 /\ notServed[s] = 0
    BY <1>1
  <2>5. Outstanding(s) = 0
    BY OutstandingSum, <2>2, <2>3
  <2>q. QED  BY <2>4, <2>5 DEF Balanced
<1>3. PausesBalanced
  <2>1. Pausing = {}
    BY <1>1 DEF Pausing
  <2> DEFINE f == [w \in Workers |-> 1 .. pausesTaken[w]]
  <2>2. \A w \in Workers : f[w] = {}
    BY <1>1
  <2>3. Family(f, Workers)
    BY <2>2, FS_EmptySet DEF Family
  <2>4. PausesTaken(pausesTaken) = Cardinality(Pairs(f))
    BY DEF PausesTaken
  <2> HIDE DEF f
  <2>5. Cardinality(Pairs(f)) = 0
    BY <2>2, <2>3, PairsNone, ProcessAssumption
  <2>q. QED  BY <1>1, <2>1, <2>4, <2>5, FS_EmptySet DEF PausesBalanced
<1>q. QED  BY <1>2, <1>3 DEF BooksInv

LEMMA NextBooks ==
  TypeOK /\ TypeOK' /\ SweepInv /\ TicketInv /\ BooksInv /\ [Next]_vars => BooksInv'
<1> SUFFICES ASSUME TypeOK, TypeOK', SweepInv, TicketInv, BooksInv, [Next]_vars
             PROVE  BooksInv'
  OBVIOUS
<1>1. ASSUME NEW w \in Workers, OperatorRuns(w) \/ OperatorIsSignalled(w) PROVE BooksInv'
  <2>1. /\ OperatorStep(w) \/ OperatorSignal(w)
        /\ UNCHANGED <<dispenserVars, directorVars>> /\ Holding(w)
    BY <1>1 DEF OperatorRuns, OperatorIsSignalled, TicketInv, InHand
  <2>2. PausesBalanced'
    BY <2>1, OperatorPauses DEF BooksInv
  <2>3. ASSUME tpc # "failed", NEW s \in Services PROVE Balanced(s)'
    BY <2>1, <2>3, OperatorBalances DEF BooksInv
  <2>q. QED  BY <2>1, <2>2, <2>3 DEF BooksInv, dispenserVars
<1>2. ASSUME NEW u \in Users, UserRuns(u) \/ UserIsSignalled(u) PROVE BooksInv'
  <2>1. UNCHANGED <<workerVars, queueVars, statVars, operatorVars, dispenserVars, directorVars>>
    BY <1>2, UserMutexes DEF UserRuns, UserIsSignalled
  <2>2. UNCHANGED <<requests, served, notServed, queue, tpc, request, workerService, ticket, opc,
                    flushTicket, cursor, pausesTaken, pauseTotal>>
    BY <2>1 DEF workerVars, queueVars, statVars, operatorVars, dispenserVars, directorVars
  <2>q. QED  BY <2>2, BooksUntouched, PausesUntouched DEF BooksInv
<1>3. CASE DispenserRuns \/ DispenserIsSignalled
  <2>1. DispenserStep \/ DispenserSignal
    BY <1>3 DEF DispenserRuns, DispenserIsSignalled
  <2>2. UNCHANGED <<operatorVars, directorVars>>
    BY <1>3 DEF DispenserRuns, DispenserIsSignalled
  <2>3. UNCHANGED <<pausesTaken, pauseTotal>>
    BY <2>1 DEF DispenserStep, DispenserIpcStep, DispenserSignal, DispenserTestLoop,
       DispenserLosesIpc, DispenserSendInit, ReceiveRequest, LockStatsForRequest, CountRequest,
       CheckDayActive, CheckOffered, DispenserLockQueue, RefuseLocked, AcceptLocked, PushTicket,
       PostJob, LockStatsForRefusal, CountRefusal, ReplyRefusal, LockStats, LockQueue,
       sharedVars, workerVars, statVars
  <2>4. PausesBalanced'
    BY <2>2, <2>3, PausesUntouched DEF BooksInv, operatorVars
  <2>5. ASSUME tpc' # "failed", NEW s \in Services PROVE Balanced(s)'
    BY <2>1, <2>2, <2>5, DispenserBalances, DispenserBooks DEF BooksInv
  <2>q. QED  BY <2>4, <2>5 DEF BooksInv
<1>4. CASE DirectorRuns \/ DirectorIsSignalled
  <2>1. PICK gone : DirectorStep(gone) \/ Terminate(gone) \/ CtrlC(gone)
    BY <1>4 DEF DirectorRuns, DirectorIsSignalled
  <2>2. UNCHANGED <<operatorVars, dispenserVars>> /\ FlushHeld
    BY <1>4 DEF DirectorRuns, DirectorIsSignalled, TicketInv, InHand
  <2>3. UNCHANGED <<pausesTaken, pauseTotal>>
    BY <2>1, <2>2, DirectorBooks
  <2>4. PausesBalanced'
    BY <2>2, <2>3, PausesUntouched DEF BooksInv, operatorVars
  <2>5. ASSUME tpc # "failed", NEW s \in Services PROVE Balanced(s)'
    BY <2>1, <2>2, <2>5, DirectorBalances DEF BooksInv
  <2>q. QED  BY <2>2, <2>4, <2>5 DEF BooksInv, dispenserVars
<1>5. CASE UNCHANGED vars
  <2>1. UNCHANGED <<requests, served, notServed, queue, tpc, request, workerService, ticket, opc,
                    flushTicket, cursor, pausesTaken, pauseTotal>>
    BY <1>5 DEF vars, workerVars, queueVars, statVars, operatorVars, dispenserVars, directorVars
  <2>q. QED  BY <2>1, BooksUntouched, PausesUntouched DEF BooksInv
<1>q. QED  BY <1>1, <1>2, <1>3, <1>4, <1>5 DEF Next

LEMMA Balance == Spec => []BooksInv
  BY InitBooks, NextBooks, TypeCorrect, SweptAlways, Ticketed, PTL DEF Spec

(* The totals add up: every request counted for a service is served, not   *)
(* served or still in the hands of somebody that will count it, and the    *)
(* pauses counted are those the operators took (operator.c:206-249,        *)
(* erogatore_ticket.c:101-121, director.c:538-560).                        *)
THEOREM StatsConservedHolds == Spec => []StatsConserved
  BY Balance, BooksAreStats, PTL

-----------------------------------------------------------------------------
(* The flush.  CountEqualsFlush compares the results of two walks over the *)
(* queues: EveInv says of each moment between them how many tickets the    *)
(* queues hold that count_pending_users has been to, and that nobody but   *)
(* the director touches those.                                             *)

(* The tickets in the queues of C. *)
Crowd(q, C) == [s \in Services |-> IF s \in C THEN DOMAIN q[s] ELSE {}]
CrowdSize(q, C) == Cardinality(Pairs(Crowd(q, C)))

LEMMA CrowdFamily ==
  ASSUME NEW q \in [Services -> Seq(Users)], NEW C
  PROVE  /\ Family(Crowd(q, C), Services) /\ CrowdSize(q, C) \in Nat
         /\ \A s \in Services : Cardinality(DOMAIN q[s]) = Len(q[s])
<1>1. \A n \in Nat : IsFiniteSet(1 .. n) /\ Cardinality(1 .. n) = n
  BY FS_Interval
<1>2. \A s \in Services : DOMAIN q[s] = 1 .. Len(q[s]) /\ Len(q[s]) \in Nat
  <2>1. \A s \in Services : q[s] \in Seq(Users)
    OBVIOUS
  <2>q. QED  BY <2>1
<1>3. Family(Crowd(q, C), Services)
  BY <1>1, <1>2, FS_EmptySet DEF Family, Crowd
<1>q. QED  BY <1>1, <1>2, <1>3, PairsFinite, ServicesFinite DEF CrowdSize

LEMMA CrowdNone ==
  ASSUME NEW q \in [Services -> Seq(Users)], NEW C, \A s \in Services : s \in C => q[s] = <<>>
  PROVE  CrowdSize(q, C) = 0
<1>1. \A s \in Services : Crowd(q, C)[s] = {}
  BY DEF Crowd
<1>q. QED  BY <1>1, CrowdFamily, PairsNone, ServicesFinite DEF CrowdSize

LEMMA CrowdSame ==
  ASSUME NEW q, NEW r, NEW C, \A s \in Services : s \in C => r[s] = q[s]
  PROVE  CrowdSize(r, C) = CrowdSize(q, C)
<1>1. Crowd(r, C) = Crowd(q, C)
  BY DEF Crowd
<1>q. QED  BY <1>1 DEF CrowdSize

LEMMA CrowdGrows ==
  ASSUME NEW q \in [Services -> Seq(Users)], NEW C, NEW D, NEW c \in Services, c \notin C, c \in D,
         \A s \in Services \ {c} : s \in D <=> s \in C
  PROVE  CrowdSize(q, D) = CrowdSize(q, C) + Len(q[c])
<1> DEFINE f == Crowd(q, C)
           g == Crowd(q, D)
<1>1. /\ Family(f, Services) /\ Family(g, Services)
      /\ Cardinality(Pairs(f)) \in Nat /\ Cardinality(Pairs(g)) \in Nat
  BY CrowdFamily, PairsFinite, ServicesFinite
<1>2. \A s \in Services \ {c} : g[s] = f[s]
  BY DEF Crowd
<1>3. Cardinality(f[c]) = 0 /\ Cardinality(g[c]) = Len(q[c])
  <2>1. f[c] = {} /\ g[c] = DOMAIN q[c]
    BY DEF Crowd
  <2>q. QED  BY <2>1, CrowdFamily, FS_EmptySet
<1>4. CrowdSize(q, C) = Cardinality(Pairs(f)) /\ CrowdSize(q, D) = Cardinality(Pairs(g))
  BY DEF CrowdSize
<1>5. Len(q[c]) \in Nat
  <2>1. q[c] \in Seq(Users)
    OBVIOUS
  <2>q. QED  BY <2>1
<1> HIDE DEF f, g
<1>6. Cardinality(Pairs(g)) + Cardinality(f[c]) = Cardinality(Pairs(f)) + Cardinality(g[c])
  BY <1>1, <1>2, ServicesFinite, PairsStep
<1>q. QED  BY <1>1, <1>3, <1>4, <1>5, <1>6

LEMMA CrowdShrinks ==
  ASSUME NEW q \in [Services -> Seq(Users)], NEW C, NEW c \in Services, c \in C, q[c] # <<>>,
         NEW r, Popped(q, r, c)
  PROVE  CrowdSize(q, C) = CrowdSize(r, C) + 1
<1>1. /\ r[c] = Tail(q[c]) /\ \A s \in Services \ {c} : r[s] = q[s]
      /\ r \in [Services -> Seq(Users)] /\ Len(q[c]) = Len(r[c]) + 1 /\ Len(r[c]) \in Nat
  <2>1. q[c] \in Seq(Users)
    OBVIOUS
  <2>2. Tail(q[c]) \in Seq(Users) /\ Len(q[c]) = Len(Tail(q[c])) + 1 /\ Len(Tail(q[c])) \in Nat
    BY <2>1
  <2>q. QED  BY <2>2 DEF Popped
<1> DEFINE f == Crowd(q, C)
           g == Crowd(r, C)
<1>2. /\ Family(f, Services) /\ Family(g, Services)
      /\ Cardinality(Pairs(f)) \in Nat /\ Cardinality(Pairs(g)) \in Nat
  BY <1>1, CrowdFamily, PairsFinite, ServicesFinite
<1>3. \A s \in Services \ {c} : g[s] = f[s]
  BY <1>1 DEF Crowd
<1>4. Cardinality(f[c]) = Len(q[c]) /\ Cardinality(g[c]) = Len(r[c])
  <2>1. f[c] = DOMAIN q[c] /\ g[c] = DOMAIN r[c]
    BY DEF Crowd
  <2>2. Cardinality(DOMAIN q[c]) = Len(q[c])
    BY CrowdFamily
  <2>3. Cardinality(DOMAIN r[c]) = Len(r[c])
    BY ONLY <1>1, CrowdFamily, c \in Services
  <2>q. QED  BY <2>1, <2>2, <2>3
<1>5. CrowdSize(q, C) = Cardinality(Pairs(f)) /\ CrowdSize(r, C) = Cardinality(Pairs(g))
  BY DEF CrowdSize
<1> HIDE DEF f, g
<1>6. Cardinality(Pairs(g)) + Cardinality(f[c]) = Cardinality(Pairs(f)) + Cardinality(g[c])
  BY <1>2, <1>3, ServicesFinite, PairsStep
<1>q. QED  BY <1>1, <1>2, <1>4, <1>5, <1>6

-----------------------------------------------------------------------------
(* Services count_pending_users has counted today. *)
Counted ==
  {s \in Services : (dpc = "count" /\ s < cursor) \/ dpc \in SweepPC}

EveInv ==
  /\ \A s \in Counted : ~(tpc = "push" /\ request.service = s)
  /\ dpc = "count" => flushed = 0
  /\ dpc \in EveningPC \cup {"print"} => pendingUsers = flushed + CrowdSize(queue, Counted)
  /\ dpc \notin EveningPC \cup {"print", "failed"} => pendingUsers = 0 /\ flushed = 0

(* A step of somebody else that leaves the counted queues alone. *)
LEMMA OthersKeepEvening ==
  ASSUME EveInv, UNCHANGED directorVars, \A s \in Counted : queue'[s] = queue[s],
         \A s \in Counted : ~(tpc' = "push" /\ request'.service = s)
  PROVE  EveInv'
<1>1. /\ UNCHANGED <<dpc, cursor, pendingUsers, flushed>> /\ Counted' = Counted
  BY DEF Counted, directorVars
<1>2. CrowdSize(queue', Counted') = CrowdSize(queue, Counted)
  BY <1>1, CrowdSame
<1>q. QED  BY <1>1, <1>2 DEF EveInv

DirectorEvening == EveningPC \cup {"print"}
DirectorCountsRest ==
  /\ UNCHANGED <<pendingUsers, flushed>>
  /\ dpc' = "count" => dpc = "count"
  /\ Counted' \subseteq Counted
  /\ dpc' \in DirectorEvening => dpc \in DirectorEvening /\ Counted' = Counted /\ queue' = queue
  /\ dpc' \notin DirectorEvening \cup {"failed"} => dpc \notin DirectorEvening \cup {"failed"}

LEMMA DirectorCounts ==
  ASSUME NEW gone, TypeOK, DirectorStep(gone) \/ Terminate(gone) \/ CtrlC(gone)
  PROVE  ReceiveFinished \/ CountQueue \/ FlushPop \/ FlushUnlockQueue \/ PrintDay \/ DirectorCountsRest
<1> USE DEF DirectorCountsRest, DirectorEvening, EveningPC, SweepPC, Counted, DirectorJump,
            sharedVars, queueVars, directorLocals
<1>1. CASE ReceiveInit \/ NextDay \/ LastDayDone \/ LockStatsForReset \/ ResetDay \/ AssignCounter
  BY <1>1 DEF ReceiveInit, NextDay, LastDayDone, LockStatsForReset, LockStats, ResetDay,
     AssignCounter
<1>2. CASE OpenDay \/ CloseDay \/ FlushLockQueue \/ FlushReply \/ LockStatsForFlush \/ CountFlushed
  BY <1>2 DEF OpenDay, CloseDay, FlushLockQueue, LockQueue, FlushReply, LockStatsForFlush,
     LockStats, CountFlushed
<1>3. CASE DecideCause \/ PrintFinal \/ StopChildren \/ CleanUp(gone)
  BY <1>3 DEF DecideCause, PrintFinal, StopChildren, CleanUp
<1>4. CASE Terminate(gone) \/ CtrlC(gone)
  <2>1. UNCHANGED <<pendingUsers, flushed, cursor, queue>> /\ (dpc' = dpc \/ dpc' = "failed")
    BY <1>4 DEF Terminate, CtrlC, DirectorInterrupted
  <2>q. QED  BY <2>1
<1>q. QED  BY <1>1, <1>2, <1>3, <1>4 DEF DirectorStep

(* Nobody is in the queue whose mutex the director could take. *)
LEMMA NobodyPushes ==
  ASSUME BarrierInv, CriticalSectionsExclusive, dpc = "count", cursor \in Services,
         queueMutex[cursor] = 1
  PROVE  ~(tpc = "push" /\ request.service = cursor)
<1>1. ~ipcRemoved
  BY DEF BarrierInv, RemovedAtEnd
<1>2. Guards(queueMutex[cursor], QueueHeldBy(cursor))
  BY <1>1 DEF CriticalSectionsExclusive
<1>3. QueueHeldBy(cursor) = {}
  BY <1>2 DEF Guards
<1>q. QED  BY <1>3, Inside DEF WhoIsInside

LEMMA DirectorKeepsEvening ==
  ASSUME NEW gone, TypeOK, TypeOK', BarrierInv, CriticalSectionsExclusive, SweepInv, EveInv,
         DirectorStep(gone) \/ Terminate(gone) \/ CtrlC(gone), UNCHANGED dispenserVars
  PROVE  EveInv'
<1>0. /\ queue \in [Services -> Seq(Users)] /\ pendingUsers \in Nat /\ flushed \in Nat
      /\ dpc \in EveningPC => cursor \in Services
      /\ dpc \notin EveningPC \cup {"assign", "failed"} => cursor = 0
      /\ Services \subseteq Nat
      /\ tpc' = tpc /\ request' = request
  BY DEF TypeOK, SharedTypeOK, QueueTypeOK, DirectorTypeOK, EveningPC, Services, dispenserVars
<1>n. CrowdSize(queue, Counted) \in Nat
  BY <1>0, CrowdFamily
<1> USE DEF DirectorJump
<1>1. CASE ReceiveFinished
  <2>1. dpc = "wait_done" /\ dpc' \in {"count", "wait_done"} /\ cursor' = cursor
        /\ UNCHANGED <<pendingUsers, flushed, queue>>
    BY <1>1 DEF ReceiveFinished, queueVars
  <2>2. Counted' = {}
    <3>1. cursor' = 0
      BY <1>0, <2>1 DEF EveningPC
    <3>2. \A s \in Services : ~(s < 0)
      BY <1>0
    <3>q. QED  BY <2>1, <3>1, <3>2 DEF Counted, SweepPC
  <2>3. CrowdSize(queue', Counted') = 0
    BY <1>0, <2>1, <2>2, CrowdNone
  <2>4. pendingUsers = 0 /\ flushed = 0
    BY <2>1 DEF EveInv, EveningPC
  <2>q. QED  BY <2>1, <2>2, <2>3, <2>4 DEF EveInv, EveningPC
<1>2. CASE CountQueue
  <2>1. /\ dpc = "count" /\ dpc' = (IF LastService THEN "flush" ELSE "count")
        /\ cursor' = (IF LastService THEN 0 ELSE cursor + 1)
        /\ queueMutex[cursor] = 1 /\ pendingUsers' = pendingUsers + Len(queue[cursor])
        /\ flushed' = flushed /\ queue' = queue /\ cursor \in Services
    BY <1>0, <1>2 DEF CountQueue, queueVars, EveningPC
  <2>2. /\ cursor \notin Counted /\ cursor \in Counted'
        /\ \A s \in Services \ {cursor} : s \in Counted' <=> s \in Counted
    <3>1. /\ ~(cursor < cursor) /\ cursor < cursor + 1
          /\ \A s \in Services \ {cursor} : s < cursor + 1 <=> s < cursor
          /\ cursor + 1 \notin Services => \A s \in Services \ {cursor} : s < cursor
      BY <2>1, ConfigAssumption DEF Services
    <3>2. CASE LastService
      BY <2>1, <3>1, <3>2 DEF LastService, Counted, SweepPC
    <3>3. CASE ~LastService
      BY <2>1, <3>1, <3>3 DEF Counted, SweepPC
    <3>q. QED  BY <3>2, <3>3
  <2>3. CrowdSize(queue', Counted') = CrowdSize(queue, Counted) + Len(queue[cursor])
    BY <1>0, <2>1, <2>2, CrowdGrows
  <2>4. ~(tpc = "push" /\ request.service = cursor)
    BY <2>1, NobodyPushes
  <2>5. Len(queue[cursor]) \in Nat
    <3>1. queue[cursor] \in Seq(Users)
      BY <1>0, <2>1
    <3>q. QED  BY <3>1
  <2>6. flushed = 0 /\ pendingUsers = flushed + CrowdSize(queue, Counted)
    BY <2>1 DEF EveInv, EveningPC
  <2>7. \A s \in Counted' : ~(tpc' = "push" /\ request'.service = s)
    BY <1>0, <2>2, <2>4 DEF EveInv, Counted
  <2>8. pendingUsers' = flushed' + CrowdSize(queue', Counted')
    BY <1>0, <1>n, <2>1, <2>3, <2>5, <2>6
  <2>9. dpc' \in EveningPC
    BY <2>1 DEF EveningPC
  <2>q. QED  BY <2>1, <2>6, <2>7, <2>8, <2>9 DEF EveInv
<1>3. CASE FlushPop
  <2>1. /\ dpc = "flush_next" /\ dpc' = "flush_reply" /\ queue[cursor] # <<>>
        /\ Popped(queue, queue', cursor) /\ flushed' = flushed + 1 /\ pendingUsers' = pendingUsers
        /\ cursor \in Services
    BY <1>0, <1>3 DEF FlushPop, PopQueue, Popped, EveningPC
  <2>2. Counted' = Services /\ Counted = Services
    BY <2>1 DEF Counted, SweepPC
  <2>3. CrowdSize(queue, Counted) = CrowdSize(queue', Counted') + 1
    BY <1>0, <2>1, <2>2, CrowdShrinks
  <2>4. pendingUsers = flushed + CrowdSize(queue, Counted)
    BY <2>1 DEF EveInv, EveningPC
  <2>5. CrowdSize(queue', Counted') \in Nat
    <3>1. queue' \in [Services -> Seq(Users)]
      BY DEF TypeOK, SharedTypeOK, QueueTypeOK
    <3>q. QED  BY <3>1, CrowdFamily
  <2>6. pendingUsers' = flushed' + CrowdSize(queue', Counted')
    BY <1>0, <1>n, <2>1, <2>3, <2>4, <2>5
  <2>q. QED  BY <1>0, <2>1, <2>2, <2>6 DEF EveInv, EveningPC
<1>4. CASE FlushUnlockQueue
  <2>1. /\ dpc = "flush_next" /\ dpc' = (IF LastService THEN "print" ELSE "flush")
        /\ queue[cursor] = <<>> /\ UNCHANGED <<queue, pendingUsers, flushed>>
        /\ cursor \in Services
    BY <1>0, <1>4 DEF FlushUnlockQueue, EveningPC
  <2>2. Counted = Services
    BY <2>1 DEF Counted, SweepPC
  <2>3. pendingUsers = flushed + CrowdSize(queue, Counted)
    BY <2>1 DEF EveInv, EveningPC
  <2>4. CASE LastService
    <3>1. \A s \in Services : s = cursor \/ s < cursor
      BY <2>1, <2>4, ConfigAssumption DEF LastService, Services
    <3>2. \A s \in Services : queue[s] = <<>>
      BY <2>1, <3>1 DEF SweepInv, Swept, SweepPC, DayPC
    <3>3. CrowdSize(queue, Counted) = 0 /\ CrowdSize(queue', Counted') = 0
      BY <1>0, <2>1, <3>2, CrowdNone
    <3>4. Counted' = {}
      BY <2>1, <2>4 DEF Counted, SweepPC
    <3>q. QED  BY <2>1, <2>3, <2>4, <3>3, <3>4 DEF EveInv, EveningPC
  <2>5. CASE ~LastService
    <3>1. dpc' = "flush" /\ Counted' = Services
      BY <2>1, <2>5 DEF Counted, SweepPC
    <3>q. QED  BY <1>0, <2>1, <2>2, <2>3, <3>1 DEF EveInv, EveningPC
  <2>q. QED  BY <2>4, <2>5
<1>5. CASE PrintDay
  <2>1. dpc' \in {"final", "top"} /\ pendingUsers' = 0 /\ flushed' = 0
    BY <1>5 DEF PrintDay
  <2>2. Counted' = {}
    BY <2>1 DEF Counted, SweepPC
  <2>q. QED  BY <2>1, <2>2 DEF EveInv, EveningPC
<1>6. CASE DirectorCountsRest
  BY <1>0, <1>6 DEF DirectorCountsRest, DirectorEvening, EveInv
<1>q. QED  BY <1>1, <1>2, <1>3, <1>4, <1>5, <1>6, DirectorCounts

LEMMA DispenserLeavesCounted ==
  ASSUME TypeOK, SweepInv, EveInv, DispenserStep \/ DispenserSignal
  PROVE  /\ \A s \in Counted : queue'[s] = queue[s]
         /\ \A s \in Counted : ~(tpc' = "push" /\ request'.service = s)
<1>0. /\ queue \in [Services -> Seq(Users)]
      /\ tpc \in HandlingPC => request \in TicketMessage
  BY DEF TypeOK, SharedTypeOK, QueueTypeOK, DispenserTypeOK
<1> USE DEF DispenserJump, sharedVars, cfgVars, queueVars
<1>1. CASE PushTicket
  <2>1. /\ tpc = "push" /\ tpc' = "post"
        /\ \A s \in Services : s # request.service => queue'[s] = queue[s]
    BY <1>0, <1>1 DEF PushTicket, PushQueue
  <2>q. QED  BY <2>1 DEF EveInv, Counted
<1>2. CASE AcceptLocked
  <2>1. dpc = "day"
    BY <1>2 DEF AcceptLocked, SweepInv
  <2>q. QED  BY <2>1 DEF Counted, SweepPC
<1>3. ASSUME UNCHANGED queue, tpc' = "push" => tpc = "push" /\ request' = request
      PROVE  /\ \A s \in Counted : queue'[s] = queue[s]
             /\ \A s \in Counted : ~(tpc' = "push" /\ request'.service = s)
  BY <1>3 DEF EveInv
<1>5. CASE DispenserSendInit \/ ReceiveRequest \/ LockStatsForRequest \/ CountRequest
           \/ CheckDayActive \/ CheckOffered
  BY <1>3, <1>5
     DEF DispenserSendInit, ReceiveRequest, LockStatsForRequest, LockStats,
     CountRequest, CheckDayActive, CheckOffered
<1>6. CASE DispenserLockQueue \/ RefuseLocked \/ PostJob \/ LockStatsForRefusal
           \/ CountRefusal \/ ReplyRefusal
  BY <1>3, <1>6 DEF DispenserLockQueue, LockQueue, RefuseLocked, PostJob,
     LockStatsForRefusal, LockStats, CountRefusal, ReplyRefusal
<1>7. CASE DispenserTestLoop \/ DispenserLosesIpc \/ DispenserSignal
  BY <1>3, <1>7 DEF DispenserTestLoop, DispenserLosesIpc, DispenserSignal,
     DispenserInterrupted, dispenserVars
<1>q. QED  BY <1>1, <1>2, <1>5, <1>6, <1>7 DEF DispenserStep, DispenserIpcStep

LEMMA OperatorLeavesCounted ==
  ASSUME NEW w \in Workers, TypeOK, BarrierInv, Holding(w), OperatorStep(w) \/ OperatorSignal(w)
  PROVE  \A s \in Counted : queue'[s] = queue[s]
<1>1. PopTicket(w) \/ UNCHANGED queue
  BY OperatorHolds DEF NoTicketMoves, ReplyServed, queueVars
<1>2. CASE PopTicket(w)
  <2>1. dpc \in DayPC \cup {"reap", "exited"}
    BY <1>2, AtWorkByDay DEF PopTicket, OperatorJump, InDayPC
  <2>q. QED  BY <2>1 DEF Counted, SweepPC, DayPC
<1>q. QED  BY <1>1, <1>2

LEMMA InitEvening == Init => EveInv
  BY DEF Init, DirectorInit, DispenserInit, EveInv, EveningPC, Counted, SweepPC

LEMMA NextEvening ==
  TypeOK /\ TypeOK' /\ BarrierInv /\ CriticalSectionsExclusive /\ SweepInv /\ TicketInv /\ EveInv
    /\ [Next]_vars => EveInv'
<1> SUFFICES ASSUME TypeOK, TypeOK', BarrierInv, CriticalSectionsExclusive, SweepInv, TicketInv,
                    EveInv, [Next]_vars
             PROVE  EveInv'
  OBVIOUS
<1>1. ASSUME NEW w \in Workers, OperatorRuns(w) \/ OperatorIsSignalled(w) PROVE EveInv'
  <2>1. /\ OperatorStep(w) \/ OperatorSignal(w)
        /\ Holding(w) /\ UNCHANGED directorVars /\ UNCHANGED <<tpc, request>>
    BY <1>1 DEF OperatorRuns, OperatorIsSignalled, TicketInv, InHand, dispenserVars
  <2>2. \A s \in Counted : queue'[s] = queue[s]
    BY <2>1, OperatorLeavesCounted
  <2>3. \A s \in Counted : ~(tpc' = "push" /\ request'.service = s)
    BY <2>1 DEF EveInv
  <2>q. QED  BY <2>1, <2>2, <2>3, OthersKeepEvening
<1>2. ASSUME NEW u \in Users, UserRuns(u) \/ UserIsSignalled(u) PROVE EveInv'
  <2>1. UNCHANGED <<queue, tpc, request, directorVars>>
    BY <1>2, UserMutexes DEF UserRuns, UserIsSignalled, queueVars, dispenserVars
  <2>2. \A s \in Counted : queue'[s] = queue[s] /\ ~(tpc' = "push" /\ request'.service = s)
    BY <2>1 DEF EveInv
  <2>q. QED  BY <2>1, <2>2, OthersKeepEvening
<1>3. CASE DispenserRuns \/ DispenserIsSignalled
  BY <1>3, DispenserLeavesCounted, OthersKeepEvening DEF DispenserRuns, DispenserIsSignalled
<1>4. CASE DirectorRuns \/ DirectorIsSignalled
  BY <1>4, DirectorKeepsEvening DEF DirectorRuns, DirectorIsSignalled
<1>5. CASE UNCHANGED vars
  <2>1. UNCHANGED <<queue, tpc, request, directorVars>>
    BY <1>5 DEF vars, queueVars, dispenserVars
  <2>2. \A s \in Counted : queue'[s] = queue[s] /\ ~(tpc' = "push" /\ request'.service = s)
    BY <2>1 DEF EveInv
  <2>q. QED  BY <2>1, <2>2, OthersKeepEvening
<1>q. QED  BY <1>1, <1>2, <1>3, <1>4, <1>5 DEF Next

LEMMA Evening == Spec => []EveInv
  BY InitEvening, NextEvening, TypeCorrect, MutexCorrect, Barriers, SweptAlways, Ticketed, PTL DEF Spec

(* The users count_pending_users counts for the explosion check are the    *)
(* ones flush_pending_users then sends away, though the queues are walked  *)
(* twice and the dispenser runs on in between (director.c:779-785).        *)
THEOREM CountEqualsFlushHolds == Spec => []CountEqualsFlush
<1>1. TypeOK /\ EveInv => CountEqualsFlush
  <2> SUFFICES ASSUME TypeOK, EveInv, dpc = "print" PROVE flushed = pendingUsers
    BY DEF CountEqualsFlush
  <2>1. Counted = {} /\ queue \in [Services -> Seq(Users)] /\ flushed \in Nat
    BY DEF Counted, SweepPC, TypeOK, SharedTypeOK, QueueTypeOK, DirectorTypeOK
  <2>2. CrowdSize(queue, Counted) = 0
    BY <2>1, CrowdNone
  <2>q. QED  BY <2>1, <2>2 DEF EveInv
<1>q. QED  BY <1>1, TypeCorrect, Evening, PTL

-----------------------------------------------------------------------------
(* Messages.  As long as the queue exists each user has at most one request*)
(* or answer in it (TicketInv), and each operator one message for the      *)
(* director: the bound follows.  MailInv adds what it takes at the edges:  *)
(* before the first day no user asks, after the last DAY_FINISHED no       *)
(* operator reports, after msgctl(IPC_RMID) nobody sends.                  *)

LEMMA OneMember ==
  ASSUME NEW S, IsFiniteSet(S), Cardinality(S) <= 1, NEW x \in S, NEW y \in S
  PROVE  x = y
<1>1. Cardinality(S) \in Nat /\ Cardinality(S \ {x}) = Cardinality(S) - 1 /\ IsFiniteSet(S \ {x})
  BY FS_RemoveElement, FS_CardinalityType
<1>2. Cardinality(S \ {x}) \in Nat
  BY <1>1, FS_CardinalityType
<1>3. Cardinality(S \ {x}) = 0
  BY <1>1, <1>2
<1>4. S \ {x} = {}
  BY <1>1, <1>3, FS_EmptySet
<1>q. QED  BY <1>4

(* As many requests as users that have one. *)
Requesters == {u \in Users : \E i \in DOMAIN ticketBox : ticketBox[i].user = u}
Answered == {u \in Users : replyBox[u] # <<>>}

LEMMA RequestsByUser ==
  ASSUME MsgTypeOK, \A u \in Users : InBox(ticketBox, u) <= 1
  PROVE  Len(ticketBox) <= Cardinality(Requesters)
<1> DEFINE f == [i \in 1 .. Len(ticketBox) |-> ticketBox[i].user]
<1>1. /\ DOMAIN ticketBox = 1 .. Len(ticketBox) /\ Len(ticketBox) \in Nat
      /\ \A i \in DOMAIN ticketBox : ticketBox[i] \in TicketMessage
      /\ ticketBox \in Seq(TicketMessage)
  BY DEF MsgTypeOK
<1>2. \A n \in Nat : IsFiniteSet(1 .. n) /\ Cardinality(1 .. n) = n
  BY FS_Interval
<1>3. f \in [1 .. Len(ticketBox) -> Requesters]
  BY <1>1 DEF Requesters, TicketMessage
<1>4. ASSUME NEW i \in 1 .. Len(ticketBox), NEW j \in 1 .. Len(ticketBox),
             ticketBox[i].user = ticketBox[j].user
      PROVE  i = j
  <2> DEFINE u == ticketBox[i].user
             P == Places(ticketBox, [user : {u}, service : Services])
  <2>1. u \in Users /\ i \in P /\ j \in P
    BY <1>1, <1>4 DEF Places, TicketMessage
  <2>2. IsFiniteSet(P) /\ Cardinality(P) <= 1
    BY <1>1, <2>1, PlacesFinite DEF InBox
  <2> HIDE DEF P
  <2>q. QED  BY <2>1, <2>2, OneMember
<1>5. \A i, j \in 1 .. Len(ticketBox) : f[i] = f[j] => i = j
  BY <1>4
<1>6. IsFiniteSet(Requesters)
  BY ProcessAssumption, FS_Subset DEF Requesters
<1> HIDE DEF f
<1>7. f \in Injection(1 .. Len(ticketBox), Requesters)
  BY <1>3, <1>5, Fun_IsInj
<1>8. Cardinality(1 .. Len(ticketBox)) <= Cardinality(Requesters)
  BY <1>6, <1>7, FS_Injection
<1>q. QED  BY <1>1, <1>2, <1>8

(* The mailboxes of the users. *)
Mail == [u \in Users |-> DOMAIN replyBox[u]]

LEMMA MailFinite ==
  ASSUME MsgTypeOK
  PROVE  /\ Family(Mail, Users) /\ Cardinality(Pairs(Mail)) \in Nat
         /\ \A u \in Users : DOMAIN replyBox[u] = 1 .. Len(replyBox[u]) /\ Len(replyBox[u]) \in Nat
<1>1. \A u \in Users : DOMAIN replyBox[u] = 1 .. Len(replyBox[u]) /\ Len(replyBox[u]) \in Nat
  <2>1. \A u \in Users : replyBox[u] \in Seq(ReplyMessage)
    BY DEF MsgTypeOK
  <2>q. QED  BY <2>1
<1>2. \A n \in Nat : IsFiniteSet(1 .. n)
  BY FS_Interval
<1>3. Family(Mail, Users)
  BY <1>1, <1>2 DEF Family, Mail
<1>q. QED  BY <1>1, <1>3, PairsFinite, ProcessAssumption

LEMMA AnswersByUser ==
  ASSUME MsgTypeOK, \A u \in Users : Len(replyBox[u]) <= 1
  PROVE  Cardinality(Pairs(Mail)) <= Cardinality(Answered)
<1> DEFINE S == Pairs(Mail)
           f == [p \in S |-> p[1]]
<1>1. \A p \in S : /\ p = <<p[1], p[2]>> /\ p[1] \in Users /\ p[2] \in DOMAIN replyBox[p[1]]
  BY DEF Pairs, Mail
<1>2. \A p \in S : p[1] \in Users /\ p[2] = 1 /\ replyBox[p[1]] # <<>>
  <2>1. \A n \in Nat : n <= 1 => \A k \in 1 .. n : k = 1 /\ n = 1
    OBVIOUS
  <2>2. ASSUME NEW p \in S PROVE p[2] = 1 /\ Len(replyBox[p[1]]) = 1 /\ p[1] \in Users
    <3>1. p[1] \in Users /\ p[2] \in DOMAIN replyBox[p[1]]
      BY <1>1
    <3>2. p[2] \in 1 .. Len(replyBox[p[1]]) /\ Len(replyBox[p[1]]) \in Nat
      BY <3>1, MailFinite
    <3>3. Len(replyBox[p[1]]) <= 1
      BY <3>1
    <3> HIDE DEF S
    <3>q. QED  BY <2>1, <3>1, <3>2, <3>3
  <2>3. Len(<<>>) # 1
    OBVIOUS
  <2>q. QED  BY <2>2, <2>3
<1>3. f \in [S -> Answered]
  BY <1>2 DEF Answered
<1>4. \A p, q \in S : f[p] = f[q] => p = q
  <2>1. \A p, q \in S : p[1] = q[1] => p = q
    BY <1>1, <1>2
  <2>q. QED  BY <2>1
<1>5. IsFiniteSet(Answered)
  BY ProcessAssumption, FS_Subset DEF Answered
<1> HIDE DEF S, f
<1>6. f \in Injection(S, Answered)
  BY <1>3, <1>4, Fun_IsInj
<1>7. Cardinality(S) <= Cardinality(Answered)
  BY <1>5, <1>6, FS_Injection
<1>q. QED  BY <1>7 DEF S

(* A user with a request in the queue has no answer in its mailbox, so the *)
(* two together are no more than the users.                                *)
LEMMA MailByUser ==
  ASSUME TypeOK, \A u \in Users : TicketsOf(u) <= 1
  PROVE  Len(ticketBox) + Cardinality(Pairs(Mail)) <= NOF_USERS
<1>1. MsgTypeOK
  BY DEF TypeOK, SharedTypeOK
<1>2. \A u \in Users : /\ InBox(ticketBox, u) \in Nat /\ Len(replyBox[u]) \in Nat
                       /\ InBox(ticketBox, u) + Len(replyBox[u]) <= 1
  <2> SUFFICES ASSUME NEW u \in Users
               PROVE  /\ InBox(ticketBox, u) \in Nat /\ Len(replyBox[u]) \in Nat
                      /\ InBox(ticketBox, u) + Len(replyBox[u]) <= 1
    OBVIOUS
  <2> DEFINE a == InBox(ticketBox, u)
             b == Handled(u)
             c == InQueues(queue, u)
             d == InHands(ticket, u)
             e == Flushing(u)
             g == Len(replyBox[u])
             t == TicketsOf(u)
  <2>1. /\ a \in Nat /\ b \in Nat /\ c \in Nat /\ d \in Nat /\ e \in Nat /\ g \in Nat
        /\ t = a + b + c + d + e + g
    BY TicketsNatural
  <2>2. t <= 1
    OBVIOUS
  <2> HIDE DEF a, b, c, d, e, g, t
  <2>3. a \in Nat /\ g \in Nat /\ a + g <= 1
    BY <2>1, <2>2
  <2>q. QED  BY <2>3 DEF a, g
<1>3. \A u \in Users : InBox(ticketBox, u) <= 1 /\ Len(replyBox[u]) <= 1
  BY <1>2
<1>4. Requesters \cap Answered = {}
  <2>1. ASSUME NEW u \in Requesters PROVE u \notin Answered
    <3>1. u \in Users /\ ~ \A i \in DOMAIN ticketBox : ticketBox[i].user # u
      BY DEF Requesters
    <3>2. InBox(ticketBox, u) # 0
      BY <1>1, <3>1, InBoxNatural DEF MsgTypeOK
    <3>3. Len(replyBox[u]) = 0
      BY <1>2, <3>1, <3>2
    <3>4. replyBox[u] \in Seq(ReplyMessage)
      BY <1>1, <3>1 DEF MsgTypeOK
    <3>5. replyBox[u] = <<>>
      BY <3>3, <3>4, EmptySeq
    <3>q. QED  BY <3>5 DEF Answered
  <2>q. QED  BY <2>1
<1>5. /\ IsFiniteSet(Requesters) /\ IsFiniteSet(Answered)
      /\ Requesters \cup Answered \in SUBSET Users
  BY ProcessAssumption, FS_Subset DEF Requesters, Answered
<1>6. Cardinality(Requesters \cup Answered) = Cardinality(Requesters) + Cardinality(Answered)
  <2>1. Cardinality(Requesters \cap Answered) = 0
    BY <1>4, FS_EmptySet
  <2>2. Cardinality(Requesters) \in Nat /\ Cardinality(Answered) \in Nat
    BY <1>5, FS_CardinalityType
  <2>3. Cardinality(Requesters \cup Answered)
          = Cardinality(Requesters) + Cardinality(Answered) - Cardinality(Requesters \cap Answered)
    BY <1>5, FS_Union
  <2>q. QED  BY <2>1, <2>2, <2>3
<1>7. Cardinality(Requesters \cup Answered) <= NOF_USERS
  BY <1>5, ProcessAssumption, FS_Subset DEF NOF_USERS
<1>8. Len(ticketBox) <= Cardinality(Requesters) /\ Cardinality(Pairs(Mail)) <= Cardinality(Answered)
  BY <1>1, <1>3, RequestsByUser, AnswersByUser
<1>9. /\ Len(ticketBox) \in Nat /\ Cardinality(Pairs(Mail)) \in Nat /\ NOF_USERS \in Nat
      /\ Cardinality(Requesters) \in Nat /\ Cardinality(Answered) \in Nat
  <2>1. ticketBox \in Seq(TicketMessage)
    BY <1>1 DEF MsgTypeOK
  <2>q. QED  BY <1>1, <1>5, <2>1, MailFinite, ChildrenCounted, FS_CardinalityType, LenProperties
<1> DEFINE a == Len(ticketBox)
           b == Cardinality(Pairs(Mail))
           c == Cardinality(Requesters)
           d == Cardinality(Answered)
           e == Cardinality(Requesters \cup Answered)
<1>10. a <= c /\ b <= d /\ e = c + d /\ e <= NOF_USERS
       /\ a \in Nat /\ b \in Nat /\ c \in Nat /\ d \in Nat /\ NOF_USERS \in Nat
  BY <1>6, <1>7, <1>8, <1>9
<1> HIDE DEF a, b, c, d, e
<1>11. a + b <= NOF_USERS
  BY <1>10
<1>q. QED  BY <1>11 DEF a, b

-----------------------------------------------------------------------------
(* Before the first day no user has done more than report. *)
Dormant ==
  dpc = "wait_init" => \A u \in Users :
    upc[u] \in {"init", "idle", "suspend"} /\ ~dayStarted[u] /\ pending[u] = {}

NoneLeft == Stopping => finished = 0

MailInv == Dormant /\ NoneLeft /\ MailboxBound

LEMMA BoundWhileOpen ==
  TypeOK /\ BarrierInv /\ TicketInv /\ Dormant /\ NoneLeft /\ ~ipcRemoved => MailboxBound
<1> SUFFICES ASSUME TypeOK, BarrierInv, TicketInv, Dormant, NoneLeft, ~ipcRemoved
             PROVE  MailboxBound
  OBVIOUS
<1>1. MsgTypeOK /\ received \in Nat
  BY DEF TypeOK, SharedTypeOK, DirectorTypeOK
<1>2. \A u \in Users : AtMostOne(u) /\ TicketsOf(u) \in Nat
  BY TicketsNatural DEF TicketInv
<1> DEFINE n == inits
           m == finished
           t == Len(ticketBox)
           r == Cardinality(Pairs(Mail))
           s == Cardinality(Starting)
           o == Cardinality(Owing)
           x == NOF_WORKERS
           y == NOF_USERS
<1>3. /\ n \in Nat /\ m \in Nat /\ t \in Nat /\ r \in Nat /\ s \in Nat /\ o \in Nat
      /\ x \in Nat /\ y \in Nat
  <2>1. ticketBox \in Seq(TicketMessage) /\ inits \in Nat /\ finished \in Nat
    BY <1>1 DEF MsgTypeOK
  <2>q. QED  BY <1>1, <2>1, MailFinite, ChildrenCounted, SetsFinite, LenProperties
<1>4. MailboxBound <=> n + m + t + r <= x + y + 1
  BY DEF MailboxBound, MessagesQueued, Mail
<1>5. t + r <= y
  BY <1>2, MailByUser DEF AtMostOne
<1>6. CASE dpc = "wait_init"
  <2>1. s + n + received = x + y + 1 /\ m = 0
    BY <1>6 DEF BarrierInv, StartBarrier, DayBarrier, DayPC
  <2>2. \A u \in Users : TicketsOf(u) # 1
    BY <1>2, <1>6 DEF AtMostOne, Dormant, TicketInv, Undisturbed, Stopping
  <2>3. \A u \in Users : TicketsOf(u) = 0
    BY <1>2, <2>2 DEF AtMostOne
  <2>4. ASSUME NEW u \in Users PROVE InBox(ticketBox, u) = 0 /\ Len(replyBox[u]) = 0
    <3> DEFINE a == InBox(ticketBox, u)
               b == Handled(u)
               c == InQueues(queue, u)
               d == InHands(ticket, u)
               e == Flushing(u)
               g == Len(replyBox[u])
    <3>1. /\ a \in Nat /\ b \in Nat /\ c \in Nat /\ d \in Nat /\ e \in Nat /\ g \in Nat
          /\ TicketsOf(u) = a + b + c + d + e + g
      BY TicketsNatural
    <3>2. TicketsOf(u) = 0
      BY <2>3
    <3> HIDE DEF a, b, c, d, e, g
    <3>3. a = 0 /\ g = 0
      BY <3>1, <3>2
    <3>q. QED  BY <3>3 DEF a, g
  <2>5. t = 0
    <3>1. \A u \in Users : \A i \in DOMAIN ticketBox : ticketBox[i].user # u
      BY <1>1, <2>4, InBoxNatural DEF MsgTypeOK
    <3>2. \A i \in DOMAIN ticketBox : ticketBox[i].user \in Users
      <4>1. \A i \in DOMAIN ticketBox : ticketBox[i] \in TicketMessage
        BY <1>1 DEF MsgTypeOK
      <4>q. QED  BY <4>1 DEF TicketMessage
    <3>3. \A i \in 1 .. Len(ticketBox) : FALSE
      BY <1>1, <3>1, <3>2 DEF MsgTypeOK
    <3>4. t # 0 => 1 \in 1 .. t
      BY <1>3
    <3>q. QED  BY <3>3, <3>4
  <2>6. r = 0
    <3>1. \A u \in Users : Mail[u] = {}
      <4>1. \A u \in Users : DOMAIN replyBox[u] = 1 .. 0
        BY <1>1, <2>4, MailFinite
      <4>q. QED  BY <4>1 DEF Mail
    <3>q. QED  BY <1>1, <3>1, MailFinite, PairsNone, ProcessAssumption
  <2>7. received \in Nat
    BY <1>1
  <2> HIDE DEF n, m, t, r, s, o, x, y
  <2>q. QED  BY <1>3, <1>4, <2>1, <2>5, <2>6, <2>7
<1>7. CASE dpc # "wait_init"
  <2>1. n = 0
    BY <1>7 DEF BarrierInv, StartBarrier
  <2>2. m <= x
    <3>1. CASE dpc \in DayPC
      <4>1. o + m + received = x /\ received \in Nat
        BY <1>1, <3>1 DEF BarrierInv, DayBarrier
      <4> HIDE DEF n, m, t, r, s, o, x, y
      <4>q. QED  BY <1>3, <4>1
    <3>2. CASE dpc \notin DayPC
      <4>1. m = 0
        BY <3>2 DEF BarrierInv, DayBarrier, NoneLeft, Stopping
      <4> HIDE DEF n, m, t, r, s, o, x, y
      <4>q. QED  BY <1>3, <4>1
    <3>q. QED  BY <3>1, <3>2
  <2> HIDE DEF n, m, t, r, s, o, x, y
  <2>q. QED  BY <1>3, <1>4, <1>5, <2>1, <2>2
<1>q. QED  BY <1>6, <1>7

(* msgctl(IPC_RMID): nothing is sent or received any more. *)
LEMMA NoMailAfterwards ==
  ASSUME BarrierInv, ipcRemoved', [Next]_vars
  PROVE  UNCHANGED msgVars
<1>0. ipcRemoved => dpc = "exited"
  BY DEF BarrierInv, RemovedAtEnd
<1>1. ASSUME NEW w \in Workers, OperatorRuns(w) \/ OperatorIsSignalled(w) PROVE UNCHANGED msgVars
  <2>1. opc[w] \in {"idle", "suspend", "exited"}
    BY <1>0, <1>1 DEF OperatorRuns, OperatorIsSignalled, directorVars, BarrierInv, Quiet, Stopping
  <2>2. CASE OperatorSignal(w)
    BY <2>2 DEF OperatorSignal
  <2>3. CASE OperatorStep(w)
    BY <2>1, <2>3 DEF OperatorStep, OperatorJump, OperatorSendInit, OperatorSuspend,
       OperatorStartDay, OperatorExit, TestClaimLoop, TakeToken, HandBackToken, StartScan,
       LockScanned, FindCounter, SkipCounter, ClaimCounter, TestServeLoop, WaitForTicket,
       OperatorLockQueue, PopTicket, PopNothing, ServeTicket, CountServed, ReplyServed,
       StopAfterService, KeepWorking, TakePause, LockStatsForPause, CountPause, LockRelease,
       ReleaseCounter, PostToken, ReportDayFinished, sharedVars
  <2>q. QED  BY <1>1, <2>2, <2>3 DEF OperatorRuns, OperatorIsSignalled
<1>2. ASSUME NEW u \in Users, UserRuns(u) \/ UserIsSignalled(u) PROVE UNCHANGED msgVars
  <2> USE DEF sharedVars
  <2>0. ipcRemoved
    BY <1>2 DEF UserRuns, UserIsSignalled, directorVars
  <2>1. CASE UserSendInit(u) \/ UserAsks(u) \/ UserGetsReply(u)
    BY <2>0, <2>1 DEF UserSendInit, UserAsks, UserGetsReply, Room
  <2>2. CASE UserSuspend(u) \/ UserExit(u) \/ UserStaysHome(u) \/ UserSetsOut(u)
    BY <2>2 DEF UserSuspend, UserExit, UserStaysHome, UserSetsOut, UserWakesUp
  <2>3. CASE UserArrives(u) \/ UserLosesIpc(u) \/ UserSignal(u)
    BY <2>3 DEF UserArrives, UserLosesIpc, UserSignal
  <2>q. QED  BY <1>2, <2>1, <2>2, <2>3 DEF UserRuns, UserIsSignalled, UserStep
<1>3. CASE DispenserRuns \/ DispenserIsSignalled
  BY <1>3 DEF directorVars, DispenserRuns, DispenserIsSignalled, DispenserStep, DispenserTestLoop,
     DispenserLosesIpc, DispenserSignal, sharedVars
<1>4. CASE DirectorRuns \/ DirectorIsSignalled
  <2> USE DEF DirectorJump, envVars, directorLocals, sharedVars
  <2>1. CASE CleanUp(Gone)
    BY <2>1 DEF CleanUp
  <2>2. CASE ReceiveInit \/ OpenDay \/ CloseDay \/ ReceiveFinished \/ StopChildren \/ BetweenDays
    BY <1>0, <2>2 DEF ReceiveInit, OpenDay, CloseDay, ReceiveFinished, StopChildren, BetweenDays,
       BetweenDaysPC, DirectorPC
  <2>3. CASE Terminate(Gone) \/ CtrlC(Gone)
    BY <2>3 DEF Terminate, CtrlC, DirectorInterrupted
  <2>q. QED  BY <1>4, <2>1, <2>2, <2>3, DirectorMoves DEF DirectorRuns, DirectorIsSignalled
<1>5. CASE UNCHANGED vars
  BY <1>5 DEF vars
<1>q. QED  BY <1>1, <1>2, <1>3, <1>4, <1>5 DEF Next

-----------------------------------------------------------------------------
(* Nobody wakes a user before the first day.                               *)
LEMMA OperatorWakesNobody ==
  ASSUME NEW w \in Workers, TypeOK, OperatorStep(w) \/ OperatorSignal(w)
  PROVE  \A u \in Users : dayStarted'[u] = dayStarted[u]
<1>1. /\ dayStarted \in [Workers \cup Users -> BOOLEAN] /\ w \notin Users
  BY ProcessAssumption DEF TypeOK, SharedTypeOK, SigTypeOK
<1> USE DEF sharedVars, sigVars, flagVars
<1>2. CASE WithinDay(w)
  BY <1>2 DEF WithinDay
<1>3. CASE OperatorSendInit(w) \/ OperatorSuspend(w) \/ OperatorExit(w) \/ ReportDayFinished(w)
  BY <1>3 DEF OperatorSendInit, OperatorSuspend, OperatorExit, ReportDayFinished
<1>4. CASE OperatorStartDay(w) \/ OperatorSignal(w)
  BY <1>1, <1>4 DEF OperatorStartDay, OperatorSignal
<1>q. QED  BY <1>2, <1>3, <1>4, OperatorMoves DEF AtADoor, TypeOK

LEMMA DispenserWakesNobody ==
  ASSUME DispenserStep \/ DispenserSignal
  PROVE  UNCHANGED dayStarted
<1> USE DEF sharedVars, sigVars, flagVars
<1>1. CASE DispenserSendInit \/ ReceiveRequest \/ LockStatsForRequest \/ CountRequest
           \/ CheckDayActive \/ CheckOffered \/ DispenserLockQueue
  BY <1>1 DEF DispenserSendInit, ReceiveRequest, LockStatsForRequest, LockStats,
     CountRequest, CheckDayActive, CheckOffered, DispenserLockQueue, LockQueue
<1>2. CASE RefuseLocked \/ AcceptLocked \/ PushTicket \/ PostJob \/ LockStatsForRefusal
           \/ CountRefusal \/ ReplyRefusal
  BY <1>2 DEF RefuseLocked, AcceptLocked, PushTicket, PostJob, LockStatsForRefusal, LockStats,
     CountRefusal, ReplyRefusal
<1>3. CASE DispenserTestLoop \/ DispenserLosesIpc \/ DispenserSignal
  BY <1>3 DEF DispenserTestLoop, DispenserLosesIpc, DispenserSignal
<1>q. QED  BY <1>1, <1>2, <1>3 DEF DispenserStep, DispenserIpcStep

LEMMA UserDozes ==
  ASSUME NEW u \in Users, TypeOK, UserStep(u) \/ UserSignal(u),
         upc[u] \in {"init", "idle", "suspend"}, ~dayStarted[u], pending[u] = {}, ~terminate[u]
  PROVE  /\ upc'[u] \in {"init", "idle", "suspend"} /\ UNCHANGED <<dayStarted, pending>>
         /\ \A v \in Users \ {u} : upc'[v] = upc[v]
<1>1. upc \in [Users -> UserPC]
  BY DEF TypeOK, UserTypeOK
<1>2. UserSendInit(u) \/ UserSuspend(u)
  BY DEF UserStep, UserSignal, UserJump, UserExit, UserStaysHome, UserSetsOut, UserWakesUp,
     UserArrives, UserAsks, UserGetsReply, UserLosesIpc
<1>q. QED  BY <1>1, <1>2 DEF UserSendInit, UserSuspend, UserJump, sharedVars, sigVars, flagVars

LEMMA DirectorWakes ==
  ASSUME NEW gone, DirectorStep(gone) \/ Terminate(gone) \/ CtrlC(gone)
  PROVE  dpc' = "wait_init" => dpc = "wait_init" /\ UNCHANGED <<dayStarted, pending>>
<1> USE DEF DirectorJump, sharedVars, sigVars, flagVars
<1>1. CASE ReceiveInit
  BY <1>1 DEF ReceiveInit
<1>2. CASE NextDay \/ LastDayDone \/ LockStatsForReset \/ ResetDay \/ AssignCounter
  BY <1>2 DEF NextDay, LastDayDone, LockStatsForReset, ResetDay, AssignCounter
<1>3. CASE OpenDay \/ CloseDay \/ ReceiveFinished \/ CountQueue \/ FlushLockQueue \/ FlushPop
  BY <1>3 DEF OpenDay, CloseDay, ReceiveFinished, CountQueue, FlushLockQueue, FlushPop
<1>4. CASE FlushReply \/ LockStatsForFlush \/ CountFlushed \/ FlushUnlockQueue \/ PrintDay
  BY <1>4 DEF FlushReply, LockStatsForFlush, CountFlushed, FlushUnlockQueue, PrintDay
<1>5. CASE DecideCause \/ PrintFinal \/ StopChildren \/ CleanUp(gone)
  BY <1>5 DEF DecideCause, PrintFinal, StopChildren, CleanUp
<1>6. CASE Terminate(gone) \/ CtrlC(gone)
  BY <1>6 DEF Terminate, CtrlC, DirectorInterrupted
<1>q. QED  BY <1>1, <1>2, <1>3, <1>4, <1>5, <1>6 DEF DirectorStep

LEMMA DormantKept ==
  ASSUME TypeOK, TicketInv, Dormant, [Next]_vars
  PROVE  Dormant'
<1>0. dpc = "wait_init" => \A u \in Users : ~terminate[u]
  BY DEF TicketInv, Undisturbed, Stopping
<1>1. ASSUME NEW w \in Workers, OperatorRuns(w) \/ OperatorIsSignalled(w) PROVE Dormant'
  <2>1. /\ OperatorStep(w) \/ OperatorSignal(w)
        /\ Holding(w) /\ UNCHANGED <<upc, dpc>>
    BY <1>1 DEF OperatorRuns, OperatorIsSignalled, TicketInv, InHand, userVars, directorVars
  <2>2. \A u \in Users : dayStarted'[u] = dayStarted[u] /\ pending'[u] = pending[u]
    BY <2>1, OperatorWakesNobody, OperatorHolds DEF OthersHear
  <2>q. QED  BY <2>1, <2>2 DEF Dormant
<1>2. ASSUME NEW u \in Users, UserRuns(u) \/ UserIsSignalled(u) PROVE Dormant'
  <2>1. /\ UserStep(u) \/ UserSignal(u)
        /\ UNCHANGED dpc
    BY <1>2 DEF UserRuns, UserIsSignalled, directorVars
  <2>q. QED  BY <1>0, <2>1, UserDozes DEF Dormant
<1>3. CASE DispenserRuns \/ DispenserIsSignalled
  <2>1. /\ DispenserStep \/ DispenserSignal
        /\ UNCHANGED <<operatorVars, upc, dpc>>
    BY <1>3 DEF DispenserRuns, DispenserIsSignalled, userVars, directorVars
  <2>2. UNCHANGED dayStarted /\ \A u \in Users : pending'[u] = pending[u]
    BY <2>1, DispenserWakesNobody, DispenserHolds DEF OthersHear
  <2>q. QED  BY <2>1, <2>2 DEF Dormant
<1>4. CASE DirectorRuns \/ DirectorIsSignalled
  BY <1>4, DirectorWakes DEF DirectorRuns, DirectorIsSignalled, Dormant, userVars
<1>5. CASE UNCHANGED vars
  BY <1>5 DEF vars, Dormant, userVars, directorVars, sigVars, flagVars
<1>q. QED  BY <1>1, <1>2, <1>3, <1>4, <1>5 DEF Next

(* Once every operator has been counted for the last day, none reports.    *)
LEMMA NoneLeftKept ==
  ASSUME TypeOK, BarrierInv, NoneLeft, [Next]_vars
  PROVE  NoneLeft'
<1>1. ASSUME NEW w \in Workers, OperatorRuns(w) \/ OperatorIsSignalled(w) PROVE NoneLeft'
  <2>1. /\ OperatorStep(w) \/ OperatorSignal(w)
        /\ UNCHANGED dpc
    BY <1>1 DEF OperatorRuns, OperatorIsSignalled, directorVars
  <2>2. ASSUME Stopping PROVE UNCHANGED finished
    <3>1. opc[w] \in {"idle", "suspend", "exited"}
      BY <2>2 DEF BarrierInv, Quiet
    <3>2. OperatorSignal(w) => UNCHANGED finished
      BY DEF OperatorSignal, msgVars
    <3>3. AtADoor(w) => UNCHANGED finished
      BY <3>1 DEF AtADoor, OperatorSendInit, OperatorSuspend, OperatorStartDay, OperatorExit,
         ReportDayFinished, OperatorJump, sharedVars, msgVars
    <3>4. WithinDay(w) => UNCHANGED finished
      BY DEF WithinDay
    <3>q. QED  BY <2>1, <3>2, <3>3, <3>4, OperatorMoves DEF TypeOK
  <2>q. QED  BY <2>1, <2>2 DEF NoneLeft, Stopping
<1>2. ASSUME NEW u \in Users, UserRuns(u) \/ UserIsSignalled(u) PROVE NoneLeft'
  BY <1>2, UserReports
     DEF UserRuns, UserIsSignalled, OperatorsStay, NoneLeft, Stopping, directorVars, TypeOK
<1>3. CASE DispenserRuns \/ DispenserIsSignalled
  <2>1. /\ DispenserStep \/ DispenserSignal
        /\ UNCHANGED dpc
    BY <1>3 DEF DispenserRuns, DispenserIsSignalled, directorVars
  <2>2. ipcRemoved => tpc # "init"
    BY SetsFinite DEF BarrierInv, StartBarrier, RemovedAtEnd, Starting, Children
  <2>q. QED  BY <2>1, <2>2, DispenserReports DEF OperatorsStay, NoneLeft, Stopping, TypeOK
<1>4. CASE DirectorRuns \/ DirectorIsSignalled
  <2> USE DEF NoneLeft, Stopping, DirectorJump, sharedVars, msgVars
  <2>1. CASE DirectorStep(Gone)
    <3>1. CASE BetweenDays
      BY <3>1 DEF BetweenDays, BetweenDaysPC
    <3>2. CASE ReceiveInit \/ OpenDay \/ CloseDay \/ ReceiveFinished
      BY <3>2 DEF ReceiveInit, OpenDay, CloseDay, ReceiveFinished
    <3>3. CASE StopChildren
      BY <3>3 DEF StopChildren, BarrierInv, DayBarrier, DayPC
    <3>4. CASE CleanUp(Gone)
      BY <3>4 DEF CleanUp
    <3>q. QED  BY <2>1, <3>1, <3>2, <3>3, <3>4, DirectorMoves
  <2>2. CASE Terminate(Gone) \/ CtrlC(Gone)
    BY <2>2 DEF Terminate, CtrlC, DirectorInterrupted
  <2>q. QED  BY <1>4, <2>1, <2>2 DEF DirectorRuns, DirectorIsSignalled
<1>5. CASE UNCHANGED vars
  BY <1>5 DEF vars, NoneLeft, Stopping, msgVars, directorVars
<1>q. QED  BY <1>1, <1>2, <1>3, <1>4, <1>5 DEF Next

LEMMA InitMail == Init => Dormant /\ NoneLeft /\ ~ipcRemoved
  BY DEF Init, SharedStateInit, UserInit, DirectorInit, Dormant, NoneLeft, Stopping, Children

LEMMA NextMail ==
  TypeOK /\ BarrierInv /\ TicketInv /\ MailInv /\ [Next]_vars
    => Dormant' /\ NoneLeft' /\ (ipcRemoved' => MailboxBound')
<1> SUFFICES ASSUME TypeOK, BarrierInv, TicketInv, MailInv, [Next]_vars
             PROVE  Dormant' /\ NoneLeft' /\ (ipcRemoved' => MailboxBound')
  OBVIOUS
<1>1. Dormant' /\ NoneLeft'
  BY DormantKept, NoneLeftKept DEF MailInv
<1>2. ASSUME ipcRemoved' PROVE MailboxBound'
  <2>1. UNCHANGED msgVars
    BY <1>2, NoMailAfterwards
  <2>q. QED  BY <2>1 DEF MailInv, MailboxBound, MessagesQueued, msgVars
<1>q. QED  BY <1>1, <1>2

LEMMA MailBounded == Spec => []MailInv
<1>1. MailInv <=> Dormant /\ NoneLeft /\ MailboxBound
  BY DEF MailInv
<1>q. QED
  BY <1>1, InitMail, NextMail, BoundWhileOpen, TypeCorrect, Barriers, Ticketed, PTL DEF Spec

(* There are never more messages in the message queue than there are       *)
(* operators, users and dispenser, so that no msgsnd waits for ever where  *)
(* the kernel has room for as many.                                        *)
THEOREM MailboxBoundHolds == Spec => []MailboxBound
<1>1. MailInv => MailboxBound
  BY DEF MailInv
<1>q. QED  BY <1>1, MailBounded, PTL
=============================================================================
