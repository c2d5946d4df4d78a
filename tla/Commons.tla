------------------------------ MODULE Commons ------------------------------
(***************************************************************************)
(* The world the four programs share (commons.h): the configuration, the   *)
(* shared-memory segments, the semaphore set, the System V message queue   *)
(* and the POSIX signals.  The modules Operator, User, ErogatoreTicket and *)
(* Director EXTEND this one, each adds the locals of its program, and      *)
(* PostOffice composes them.                                               *)
(***************************************************************************)
EXTENDS Integers, Sequences, FiniteSets, Tally

CONSTANTS
  Workers,            (* operator processes, NOF_WORKERS of them            *)
  Users,              (* user processes, NOF_USERS of them                  *)
  Dispenser,          (* the single erogatore_ticket process                *)
  None,               (* "no process", the -1 of the pid fields             *)
  NOF_WORKER_SEATS,   (* number of counters                                 *)
  SERVICE_COUNT,      (* number of services (6 in commons.h)                *)
  NOF_PAUSE,          (* pauses one operator may take in the simulation     *)
  SIM_DURATION,       (* number of days                                     *)
  EXPLODE_THRESHOLD,  (* pending users above which the simulation explodes  *)
  MAX_COUNT_QUEUE,    (* slots of a service queue (4096 in commons.h)       *)
  MSG_CAPACITY,       (* messages the kernel keeps in the message queue     *)
  MAX_KILLS,          (* bound: SIGTERM/SIGINT the environment may send     *)
  CTRL_C              (* whether it may also type Ctrl+C in the terminal    *)

Services == 0 .. SERVICE_COUNT - 1
Counters == 0 .. NOF_WORKER_SEATS - 1
Children == Workers \cup Users \cup {Dispenser}
NOF_WORKERS == Cardinality(Workers)
NOF_USERS == Cardinality(Users)

(* read_config_file refuses a configuration outside these bounds; NOF_PAUSE *)
(* and EXPLODE_THRESHOLD are not checked there and may be any integer.      *)
ASSUME ConfigAssumption ==
  /\ NOF_WORKER_SEATS \in Nat \ {0}
  /\ SERVICE_COUNT \in Nat \ {0}
  /\ SIM_DURATION \in Nat \ {0}
  /\ MAX_COUNT_QUEUE \in Nat \ {0}
  /\ MSG_CAPACITY \in Nat \ {0}
  /\ MAX_KILLS \in Nat
  /\ CTRL_C \in BOOLEAN
  /\ NOF_PAUSE \in Int
  /\ EXPLODE_THRESHOLD \in Int

ASSUME ProcessAssumption ==
  /\ IsFiniteSet(Workers) /\ Workers # {}
  /\ IsFiniteSet(Users) /\ Users # {}
  /\ Workers \cap Users = {}
  /\ Dispenser \notin Workers \cup Users
  /\ None \notin Children

VARIABLES
  (* struct simulation_parameter, the part that changes *)
  day,             (* CURRENT_DAY                                          *)
  dayActive,       (* DAY_ACTIVE                                           *)
  cause,           (* TERMINATION_CAUSE                                    *)
  (* counter[], and the semaphores that guard it *)
  counterService,  (* counters[c].service                                  *)
  counterWorker,   (* counters[c].worker_pid                               *)
  counterMutex,    (* counter_mutex_sem(c)                                 *)
  freeCounter,     (* service_free_counter_sem(s)                          *)
  (* worker_info[] *)
  workerService,   (* workers[w].service                                   *)
  currentCounter,  (* workers[w].current_counter                           *)
  pausesTaken,     (* workers[w].pauses_taken                              *)
  (* service_queue[], and the semaphores that guard it *)
  queue,           (* the tickets waiting for service s, oldest first      *)
  queueMutex,      (* service_queue_mutex_sem(s)                           *)
  jobs,            (* service_jobs_sem(s)                                  *)
  (* simulation_stats, the running totals *)
  requests,        (* total_by_service[s].requests                         *)
  served,          (* total_by_service[s].served                           *)
  notServed,       (* total_by_service[s].not_served                       *)
  pauseTotal,      (* total_pause_total                                    *)
  statsMutex,      (* stats_mutex_sem                                      *)
  (* the message queue, one mailbox per mtype *)
  inits,           (* DIRECTOR_MTYPE messages of kind DIRECTOR_MSG_INIT    *)
  finished,        (* DIRECTOR_MTYPE, kind DIRECTOR_MSG_DAY_FINISHED       *)
  ticketBox,       (* TICKET_REQUEST_MTYPE, oldest first                   *)
  replyBox,        (* USER_REPLY_BASE + pid of user u, oldest first        *)
  (* signals *)
  pending,         (* signals sent to a child and not handled yet          *)
  dayStarted,      (* day_started of each operator and user                *)
  dayStop,         (* day_stop_requested of each operator                  *)
  dayClosed,       (* day_closed of each user                              *)
  terminate,       (* terminate_requested of each child                    *)
  (* the kernel objects themselves *)
  ipcRemoved       (* cleanup_ipc has removed them                         *)

cfgVars    == <<day, dayActive, cause>>
deskVars   == <<counterService, counterWorker, counterMutex, freeCounter>>
workerVars == <<workerService, currentCounter, pausesTaken>>
queueVars  == <<queue, queueMutex, jobs>>
statVars   == <<requests, served, notServed, pauseTotal, statsMutex>>
msgVars    == <<inits, finished, ticketBox, replyBox>>
flagVars   == <<dayStarted, dayStop, dayClosed, terminate>>
sigVars    == <<pending, flagVars>>
sharedVars == <<cfgVars, deskVars, workerVars, queueVars, statVars, msgVars, sigVars>>

(***************************************************************************)
(* Message queue.  All mtypes share the kernel's one bounded queue:        *)
(* msgsnd blocks while it is full, whoever the message is for.             *)
(***************************************************************************)
MessagesQueued ==
  inits + finished + Len(ticketBox)
    + Cardinality(Pairs([u \in Users |-> DOMAIN replyBox[u]]))

Room == ~ipcRemoved /\ MessagesQueued < MSG_CAPACITY

TicketMessage == [user : Users, service : Services]
ReplyMessage  == [status : {"SERVED", "NOT_SERVED"}, service : Services]

(* send_user_reply, identical in the three programs that answer users.     *)
SendUserReply(u, status, s) ==
  /\ Room
  /\ replyBox' = [replyBox EXCEPT ![u] = Append(@, [status |-> status, service |-> s])]

(***************************************************************************)
(* Signals.  kill() makes a signal pending; a standard signal is a bit, so *)
(* sending it twice before it is handled is sending it once.  When the     *)
(* target next returns to user mode it runs the handlers of everything     *)
(* pending, before any further instruction of the program.                 *)
(***************************************************************************)
Signals == {"USR1", "USR2", "TERM"}

Signal(sig, targets) ==
  pending' = [p \in Children |->
                IF p \in targets THEN pending[p] \cup {sig} ELSE pending[p]]

(* service_queue_is_full, service_queue_pop and service_queue_push on the  *)
(* sequence of waiting tickets; module ServiceQueue has the ring buffer.   *)
QueueIsFull(s) == Len(queue[s]) >= MAX_COUNT_QUEUE
PopQueue(s) == queue' = [queue EXCEPT ![s] = Tail(@)]
PushQueue(s, u) == queue' = [queue EXCEPT ![s] = Append(@, u)]

(***************************************************************************)
(* semop(mutex, -1) on the three kinds of mutex, a step that does nothing  *)
(* else to the shared state.                                               *)
(***************************************************************************)
LockStats ==
  /\ statsMutex = 1
  /\ statsMutex' = 0
  /\ UNCHANGED <<cfgVars, deskVars, workerVars, queueVars, requests, served,
                 notServed, pauseTotal, msgVars, sigVars>>

LockCounter(c) ==
  /\ counterMutex[c] = 1
  /\ counterMutex' = [counterMutex EXCEPT ![c] = 0]
  /\ UNCHANGED <<cfgVars, counterService, counterWorker, freeCounter, workerVars,
                 queueVars, statVars, msgVars, sigVars>>

LockQueue(s) ==
  /\ queueMutex[s] = 1
  /\ queueMutex' = [queueMutex EXCEPT ![s] = 0]
  /\ UNCHANGED <<cfgVars, deskVars, workerVars, queue, jobs, statVars, msgVars,
                 sigVars>>

(***************************************************************************)
(* Types, one part per group of variables.                                 *)
(***************************************************************************)
CfgTypeOK ==
  /\ day \in 0 .. SIM_DURATION
  /\ dayActive \in BOOLEAN
  /\ cause \in {"NONE", "TIMEOUT", "EXPLODE"}

DeskTypeOK ==
  /\ counterService \in [Counters -> Services \cup {None}]
  /\ counterWorker \in [Counters -> Workers \cup {None}]
  /\ counterMutex \in [Counters -> {0, 1}]
  /\ freeCounter \in [Services -> Nat]

WorkerTypeOK ==
  /\ workerService \in [Workers -> Services]
  /\ currentCounter \in [Workers -> Counters \cup {None}]
  /\ pausesTaken \in [Workers -> Nat]

QueueTypeOK ==
  /\ queue \in [Services -> Seq(Users)]
  /\ queueMutex \in [Services -> {0, 1}]
  /\ jobs \in [Services -> Nat]

StatTypeOK ==
  /\ requests \in [Services -> Nat]
  /\ served \in [Services -> Nat]
  /\ notServed \in [Services -> Nat]
  /\ pauseTotal \in Nat
  /\ statsMutex \in {0, 1}

MsgTypeOK ==
  /\ inits \in Nat
  /\ finished \in Nat
  /\ ticketBox \in Seq(TicketMessage)
  /\ replyBox \in [Users -> Seq(ReplyMessage)]

SigTypeOK ==
  /\ pending \in [Children -> SUBSET Signals]
  /\ dayStarted \in [Workers \cup Users -> BOOLEAN]
  /\ dayStop \in [Workers -> BOOLEAN]
  /\ dayClosed \in [Users -> BOOLEAN]
  /\ terminate \in [Children -> BOOLEAN]

SharedTypeOK ==
  /\ CfgTypeOK /\ DeskTypeOK /\ WorkerTypeOK /\ QueueTypeOK
  /\ StatTypeOK /\ MsgTypeOK /\ SigTypeOK
=============================================================================
