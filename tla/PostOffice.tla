----------------------------- MODULE PostOffice -----------------------------
(***************************************************************************)
(* The whole simulation: one director, its operators, its users and the    *)
(* ticket dispenser, running concurrently over the shared memory, the      *)
(* semaphores, the message queue and the signals of Commons.               *)
(***************************************************************************)
EXTENDS Operator, User, ErogatoreTicket, Director

vars == <<cfgVars, deskVars, workerVars, queueVars, statVars, msgVars, sigVars,
          operatorVars, userVars, dispenserVars, directorVars>>

(* Children that have terminated: waitpid returns for them. *)
Gone ==
  IF groupKilled THEN Children
  ELSE {w \in Workers : opc[w] \in {"exited", "failed"}}
         \cup {u \in Users : upc[u] \in {"exited", "failed"}}
         \cup (IF tpc \in {"exited", "failed"} THEN {Dispenser} ELSE {})

Init ==
  /\ SharedStateInit
  /\ OperatorInit
  /\ UserInit
  /\ DispenserInit
  /\ DirectorInit

OperatorRuns(w) ==
  /\ ~groupKilled
  /\ OperatorStep(w)
  /\ UNCHANGED <<userVars, dispenserVars, directorVars>>

OperatorIsSignalled(w) ==
  /\ ~groupKilled
  /\ OperatorSignal(w)
  /\ UNCHANGED <<userVars, dispenserVars, directorVars>>

UserRuns(u) ==
  /\ ~groupKilled
  /\ UserStep(u)
  /\ UNCHANGED <<operatorVars, dispenserVars, directorVars>>

UserIsSignalled(u) ==
  /\ ~groupKilled
  /\ UserSignal(u)
  /\ UNCHANGED <<operatorVars, dispenserVars, directorVars>>

DispenserRuns ==
  /\ ~groupKilled
  /\ DispenserStep
  /\ UNCHANGED <<operatorVars, userVars, directorVars>>

DispenserIsSignalled ==
  /\ ~groupKilled
  /\ DispenserSignal
  /\ UNCHANGED <<operatorVars, userVars, directorVars>>

DirectorRuns ==
  /\ DirectorStep(Gone)
  /\ UNCHANGED <<operatorVars, userVars, dispenserVars>>

DirectorIsSignalled ==
  /\ Terminate(Gone) \/ CtrlC(Gone)
  /\ UNCHANGED <<operatorVars, userVars, dispenserVars>>

Next ==
  \/ \E w \in Workers : OperatorRuns(w) \/ OperatorIsSignalled(w)
  \/ \E u \in Users : UserRuns(u) \/ UserIsSignalled(u)
  \/ DispenserRuns \/ DispenserIsSignalled
  \/ DirectorRuns \/ DirectorIsSignalled

Spec == Init /\ [][Next]_vars

(***************************************************************************)
(* Fairness.  A process that can always run does run.  Linux serves the    *)
(* waiters of a semaphore and of the message queue first come, first       *)
(* served, so one that is offered what it waits for again and again gets   *)
(* it: strong fairness.  A pending signal is handled; nothing obliges the  *)
(* environment to send the director one.                                   *)
(***************************************************************************)
Fairness ==
  /\ \A w \in Workers : SF_vars(OperatorRuns(w)) /\ WF_vars(OperatorIsSignalled(w))
  /\ \A u \in Users : SF_vars(UserRuns(u)) /\ WF_vars(UserIsSignalled(u))
  /\ SF_vars(DispenserRuns) /\ WF_vars(DispenserIsSignalled)
  /\ SF_vars(DirectorRuns)

FairSpec == Spec /\ Fairness

(* Every variable keeps to the values the C types and enums allow. *)
TypeOK ==
  /\ SharedTypeOK
  /\ OperatorTypeOK
  /\ UserTypeOK
  /\ DispenserTypeOK
  /\ DirectorTypeOK

-----------------------------------------------------------------------------
(* Locks *)

StatsHeldBy ==
  {w \in Workers : opc[w] \in {"served", "pause"}}
    \cup (IF tpc \in {"req", "ns"} THEN {Dispenser} ELSE {})
    \cup (IF dpc \in {"reset_stats", "flush_stat"} THEN {None} ELSE {})

CounterHeldBy(c) ==
  {w \in Workers : desk[w] = c /\ opc[w] \in {"inspect", "claiming", "releasing"}}

QueueHeldBy(s) ==
  {w \in Workers : workerService[w] = s /\ opc[w] = "pop"}
    \cup (IF /\ tpc \in {"q_check", "push"}
             /\ request.service = s
          THEN {Dispenser} ELSE {})
    \cup (IF /\ dpc \in {"flush_next", "flush_reply", "flush_lock", "flush_stat"}
             /\ cursor = s
          THEN {None} ELSE {})

(* At 1 nobody is inside, at 0 exactly one process is. *)
Guards(mutex, inside) ==
  /\ mutex = 1 <=> inside = {}
  /\ \A p, q \in inside : p = q

(* Between its semop(-1) and its semop(+1) a process is alone in the       *)
(* critical section of the statistics, of a counter, of a service queue,   *)
(* and a mutex is at 0 only because somebody inside will put it back.  The *)
(* exceptions are a director that exits inside flush_pending_users (None   *)
(* stands for the director), and semaphores that exist no more.            *)
CriticalSectionsExclusive ==
  /\ ~ipcRemoved => Guards(statsMutex, StatsHeldBy)
  /\ \A c \in Counters : Guards(counterMutex[c], CounterHeldBy(c))
  /\ dpc # "failed" /\ ~ipcRemoved =>
       \A s \in Services : Guards(queueMutex[s], QueueHeldBy(s))

-----------------------------------------------------------------------------
(* The day barrier *)

(* The operator has to send a DAY_FINISHED it has not sent yet: the        *)
(* SIGUSR1 of today is under way, noticed, or acted upon.  One that exited *)
(* in the middle of its day owes it for ever.                              *)
OwesReport(w) ==
  \/ opc[w] \in InDayPC \cup {"failed"}
  \/ opc[w] \in {"idle", "suspend"} /\ (dayStarted[w] \/ "USR1" \in pending[w])

Owing == {w \in Workers : OwesReport(w)}

DayPC == {"day", "wait_done"}

(* While the day runs or is being closed, every operator owes its report,  *)
(* has it in the message queue, or has had it counted, exactly once.       *)
(* Outside, nobody is at work and no report is left over: assigning the    *)
(* counters, resetting the semaphores, counting and flushing the queues    *)
(* never meet an operator of the day before.                               *)
DayBarrier ==
  /\ dpc \in DayPC => Cardinality(Owing) + finished + received = NOF_WORKERS
  /\ dpc \notin DayPC \cup {"reap", "exited"} => Owing = {} /\ finished = 0

-----------------------------------------------------------------------------
(* Counters *)

AtCounterPC ==
  {"loop", "wait_job", "pop_lock", "pop", "serve", "served", "reply", "after",
   "pause_lock", "pause", "release", "releasing"}

(* From the claim to the release an operator is the worker of its counter, *)
(* which offers the operator's service: two operators never share one, and *)
(* the director never reassigns a counter under its operator.              *)
CounterExclusive ==
  \A w \in Workers : opc[w] \in AtCounterPC =>
    /\ counterWorker[desk[w]] = w
    /\ counterService[desk[w]] = workerService[w]
    /\ currentCounter[w] = desk[w]

(* An operator that got a token of the free-counter semaphore finds a free *)
(* counter before its loop over the counters ends, though they change      *)
(* hands while it looks.                                                   *)
ScanAlwaysFinds == \A w \in Workers : opc[w] # "giveback"

(* Why: operators with a token still to be used or posted, and with a scan *)
(* that has reached index k or beyond.                                     *)
TokensOut(s) ==
  {w \in Workers : workerService[w] = s
     /\ opc[w] \in {"recheck", "scan", "inspect", "claiming", "post_token"}}
ScanningFrom(s, k) ==
  {w \in Workers : workerService[w] = s /\ desk[w] >= k
     /\ opc[w] \in {"scan", "inspect", "claiming"}}
FreeFrom(s, k) == {c \in Counters : c >= k /\ IsFree(c, s)}

(* The semaphore and the tokens in the operators' hands never promise more *)
(* counters than are free, nor more of them ahead of the scans than there  *)
(* are ahead of the scans.                                                 *)
TokensBacked ==
  dpc \in DayPC => \A s \in Services :
    /\ freeCounter[s] + Cardinality(TokensOut(s)) <= Cardinality(FreeFrom(s, 0))
    /\ \A k \in Counters :
         Cardinality(ScanningFrom(s, k)) <= Cardinality(FreeFrom(s, k))

-----------------------------------------------------------------------------
(* Tickets *)

(* The requests, tickets and answers of user u, in each of the places      *)
(* where they can be: the message queue, the hands of the dispenser, the   *)
(* queues, the hands of operators and director, the mailbox.               *)
Asked(u) == Cardinality(Places(ticketBox, [user : {u}, service : Services]))
Handled(u) == IF tpc \in HandlingPC \ {"post"} /\ request.user = u THEN 1 ELSE 0
Waiting(u) == Cardinality(Pairs([s \in Services |-> Places(queue[s], {u})]))
AtCounter(u) == Cardinality({w \in Workers : ticket[w] = u})
Flushing(u) == IF dpc = "flush_reply" /\ flushTicket = u THEN 1 ELSE 0

TicketsOf(u) ==
  Asked(u) + Handled(u) + Waiting(u) + AtCounter(u) + Flushing(u) + Len(replyBox[u])

Stopping == dpc \in {"reap", "exited"}

(* Until SIGTERM is sent, a user that waits for an answer has exactly one  *)
(* request, ticket or answer somewhere in the system, and any other user   *)
(* none: no ticket is lost, served twice or answered twice, whatever ends  *)
(* the day, and no user meets the answer of an earlier day.                *)
TicketConservation ==
  ~Stopping => \A u \in Users : TicketsOf(u) = (IF upc[u] = "await" THEN 1 ELSE 0)

(* The answer a user receives is about the service it asked for. *)
ReplyMatches ==
  ~Stopping => \A u \in Users : \A i \in DOMAIN replyBox[u] :
                 replyBox[u][i].service = wants[u]

(* While the post office is open no ticket waits without a token of the    *)
(* jobs semaphore, in the semaphore or on its way to or from it: a ticket  *)
(* in the queue can always be found by an operator.                        *)
JobsCoverQueue ==
  dayActive => \A s \in Services :
    Len(queue[s]) <= jobs[s]
      + Cardinality({w \in Workers : workerService[w] = s /\ opc[w] \in {"pop_lock", "pop"}})
      + (IF tpc = "post" /\ request.service = s THEN 1 ELSE 0)

(* Once flush_pending_users is through, every queue stays empty until the  *)
(* next day opens: service_queue_reset never drops a waiting ticket, and   *)
(* nobody is left in a queue when the simulation ends.                     *)
QueuesStayFlushed ==
  dpc \in {"print", "top", "reset", "reset_stats", "assign", "open", "final",
           "final_print", "stop", "reap", "exited"}
    => \A s \in Services : queue[s] = <<>>

(* The users counted for the explosion check are those then sent away. *)
CountEqualsFlush == dpc = "print" => flushed = pendingUsers

-----------------------------------------------------------------------------
(* Statistics *)

(* Requests counted and neither counted as served nor as refused yet.  An  *)
(* operator that exited while it waited for the statistics keeps its own.  *)
Outstanding(s) ==
  (IF /\ tpc \in {"check", "offered", "q_lock", "q_check", "push", "ns_lock", "ns"}
      /\ request.service = s
   THEN 1 ELSE 0)
    + Len(queue[s])
    + Cardinality({w \in Workers : workerService[w] = s /\ ticket[w] # None /\ opc[w] # "reply"})
    + (IF flushTicket # None /\ cursor = s THEN 1 ELSE 0)

(* The totals always add up: each request is served, not served, or still  *)
(* in somebody's hands; each pause an operator took is in the total or     *)
(* about to be.                                                            *)
StatsConserved ==
  /\ tpc # "failed" => \A s \in Services :
       requests[s] = served[s] + notServed[s] + Outstanding(s)
  /\ Cardinality(Pairs([w \in Workers |-> 1 .. pausesTaken[w]])) = pauseTotal
       + Cardinality({w \in Workers : opc[w] \in {"pause_lock", "pause"}
                                      \/ (opc[w] = "failed" /\ ticket[w] = None)})

-----------------------------------------------------------------------------
(* Shutdown *)

(* cleanup_ipc removes the semaphores and the message queue under no       *)
(* operator that could still use them, even when signals cut waitpid short *)
(* and the director does not wait for everybody.                           *)
OperatorsQuietAtCleanup ==
  ipcRemoved => \A w \in Workers : opc[w] \in {"idle", "suspend", "exited", "failed"}

(* Never more messages than processes: nobody's mailbox can fill up as     *)
(* long as the kernel's limit is above the number of processes.            *)
MailboxBound == MessagesQueued <= NOF_WORKERS + NOF_USERS + 1

-----------------------------------------------------------------------------
(* Liveness *)

(* The reasons for which the director may never come to an end:            *)
(*   - Ctrl+C killed the children;                                         *)
(*   - requests alone fill the message queue, and the dispenser, their     *)
(*     only reader, is itself sending an answer, or waits for the queue    *)
(*     mutex of a director that is;                                        *)
(*   - an operator exited in the middle of its day, or went to sleep after *)
(*     the signals of the day had already been handled, in sigsuspend or   *)
(*     in a semop: its DAY_FINISHED never comes;                           *)
(*   - a child blocked after its SIGTERM had already been handled, in      *)
(*     sigsuspend, in a msgrcv, or in the msgsnd of a full queue.          *)
HangCause ==
  \/ groupKilled
  \/ /\ Len(ticketBox) >= MSG_CAPACITY
     /\ \/ tpc = "ns_reply"
        \/ tpc = "q_lock" /\ dpc = "flush_reply" /\ request.service = cursor
  \/ /\ dpc = "wait_done"
     /\ \E w \in Workers : \/ opc[w] = "failed"
                           \/ opc[w] = "suspend" /\ dayStarted[w]
                           \/ opc[w] \in {"take_token", "wait_job"} /\ dayStop[w]
  \/ /\ dpc = "reap"
     /\ \/ \E w \in Workers : opc[w] = "suspend" /\ terminate[w]
        \/ \E u \in Users : /\ upc[u] \in {"suspend", "await"} \/ (upc[u] = "ask" /\ ~Room)
                            /\ terminate[u]
        \/ (tpc = "recv" \/ (tpc = "ns_reply" /\ ~Room)) /\ terminate[Dispenser]

(* The processes never all wait for each other for another reason: a       *)
(* mutex, a full message queue, a semaphore at 0 and an answer that is     *)
(* still to come never close a circle (operator.c:79-98, 203-208;          *)
(* erogatore_ticket.c:67-89; user.c:75-99; director.c:520-570, 574-592).   *)
StuckOnlyIfExplained ==
  ENABLED Next \/ dpc \in {"exited", "failed"} \/ HangCause

(* There is no other reason: every day ends and the simulation comes to    *)
(* its end, or one of those holds for ever.                                *)
DirectorEndsOrHangIsExplained ==
  <>(dpc \in {"exited", "failed"}) \/ <>[]HangCause

(* A user that asked gets an answer, or gives up at the shutdown, unless   *)
(* the director hangs for one of those reasons or has failed.              *)
EveryUserAnswered ==
  \A u \in Users : []<>(upc[u] # "await") \/ <>[](dpc = "failed" \/ HangCause)

-----------------------------------------------------------------------------
(* What the repository's README says and the code does not do; the runs    *)
(* that check these end in a counterexample.                               *)

(* "On shutdown, all IPC resources are properly cleaned up."               *)
IpcReleasedAtExit == dpc \in {"exited", "failed"} => ipcRemoved

(* "The director handles SIGINT (Ctrl+C) and SIGTERM for graceful          *)
(* shutdown": one that waits for the reports of the operators when Ctrl+C  *)
(* has come comes to its end.                                              *)
CtrlCEndsDirector ==
  (groupKilled /\ dpc = "wait_done") ~> dpc \in {"exited", "failed"}
=============================================================================
