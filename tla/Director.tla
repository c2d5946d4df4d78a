------------------------------ MODULE Director ------------------------------
(***************************************************************************)
(* The director (director.c), from the moment its children are forked: the *)
(* loop over the days, the explosion check, the flush of the queues and    *)
(* the shutdown.  Labels as in module Operator.  A loop of the code over   *)
(* counters or services is one step per iteration where another process    *)
(* can interfere between iterations, and a single action where none can.   *)
(***************************************************************************)
EXTENDS Commons

VARIABLES
  dpc,           (* program counter of the director                        *)
  cursor,        (* loop index over counters or services                   *)
  received,      (* messages counted by the two waiting loops              *)
  pendingUsers,  (* pending_before_flush, while it is being summed         *)
  flushed,       (* pending_total of flush_pending_users                   *)
  flushTicket,   (* user_pid of the ticket being flushed                   *)
  shutdown,      (* shutdown_requested                                     *)
  unreaped,      (* children stop_children still has to wait for           *)
  kills,         (* signals the environment has sent to the director       *)
  groupKilled    (* Ctrl+C reached the whole process group                 *)

directorVars == <<dpc, cursor, received, pendingUsers, flushed, flushTicket,
                  shutdown, unreaped, kills, groupKilled, ipcRemoved>>

(* Labels of the loops over the services. *)
EveningPC ==
  {"count", "flush", "flush_next", "flush_reply", "flush_lock", "flush_stat"}

DirectorPC == EveningPC \cup
  {"wait_init", "top", "reset", "reset_stats", "assign", "open", "day",
   "wait_done", "print", "final", "final_print", "stop", "reap", "exited",
   "failed"}

DirectorTypeOK ==
  /\ dpc \in DirectorPC
  /\ cursor \in IF dpc = "assign" THEN Counters
                ELSE IF dpc \in EveningPC THEN Services
                ELSE IF dpc = "failed" THEN Counters \cup Services ELSE {0}
  /\ received \in Nat
  /\ pendingUsers \in Nat
  /\ flushed \in Nat
  /\ flushTicket \in Users \cup {None}
  /\ shutdown \in BOOLEAN
  /\ unreaped \in SUBSET Children
  /\ kills \in 0 .. MAX_KILLS
  /\ groupKilled \in BOOLEAN
  /\ ipcRemoved \in BOOLEAN

(* The state initialize_shared_state and create_children leave behind; a   *)
(* signal may have come already.                                           *)
DirectorInit ==
  /\ dpc = "wait_init"
  /\ cursor = 0
  /\ received = 0
  /\ pendingUsers = 0
  /\ flushed = 0
  /\ flushTicket = None
  /\ shutdown \in BOOLEAN
  /\ unreaped = {}
  /\ kills = (IF shutdown THEN 1 ELSE 0) /\ kills <= MAX_KILLS
  /\ groupKilled = FALSE

SharedStateInit ==
  /\ day = 0 /\ dayActive = FALSE /\ cause = "NONE"
  /\ counterService = [c \in Counters |-> None]
  /\ counterWorker = [c \in Counters |-> None]
  /\ counterMutex = [c \in Counters |-> 1]
  /\ freeCounter = [s \in Services |-> 0]
  /\ workerService \in [Workers -> Services]
  /\ currentCounter = [w \in Workers |-> None]
  /\ pausesTaken = [w \in Workers |-> 0]
  /\ queue = [s \in Services |-> <<>>]
  /\ queueMutex = [s \in Services |-> 1]
  /\ jobs = [s \in Services |-> 0]
  /\ requests = [s \in Services |-> 0]
  /\ served = [s \in Services |-> 0]
  /\ notServed = [s \in Services |-> 0]
  /\ pauseTotal = 0
  /\ statsMutex = 1
  /\ inits = 0 /\ finished = 0
  /\ ticketBox = <<>>
  /\ replyBox = [u \in Users |-> <<>>]
  /\ pending = [p \in Children |-> {}]
  /\ dayStarted = [p \in Workers \cup Users |-> FALSE]
  /\ dayStop = [w \in Workers |-> FALSE]
  /\ dayClosed = [u \in Users |-> FALSE]
  /\ terminate = [p \in Children |-> FALSE]
  /\ ipcRemoved = FALSE

DirectorJump(from, to) == dpc = from /\ dpc' = to

(* Locals only the named actions touch. *)
envVars == <<shutdown, kills, groupKilled, ipcRemoved>>
directorLocals == <<cursor, received, pendingUsers, flushed, flushTicket,
                    unreaped, envVars>>

-----------------------------------------------------------------------------
(* wait_for_initialization *)

(* Mutant: the operators are not counted. *)
ReceiveInitTooFew ==
  LET all == received + 1 = NOF_USERS + 1 IN
  /\ DirectorJump("wait_init", IF all THEN "top" ELSE "wait_init")
  /\ inits > 0
  /\ inits' = inits - 1
  /\ received' = IF all THEN 0 ELSE received + 1
  /\ UNCHANGED <<cfgVars, deskVars, workerVars, queueVars, statVars, finished,
                 ticketBox, replyBox, sigVars, cursor, pendingUsers, flushed,
                 flushTicket, unreaped, envVars>>

ReceiveInit ==
  LET all == received + 1 = NOF_WORKERS + NOF_USERS + 1 IN
  /\ DirectorJump("wait_init", IF all THEN "top" ELSE "wait_init")
  /\ inits > 0
  /\ inits' = inits - 1
  /\ received' = IF all THEN 0 ELSE received + 1
  /\ UNCHANGED <<cfgVars, deskVars, workerVars, queueVars, statVars, finished,
                 ticketBox, replyBox, sigVars, cursor, pendingUsers, flushed,
                 flushTicket, unreaped, envVars>>

-----------------------------------------------------------------------------
(* The morning: the for condition, reset_day_statistics,                   *)
(* reset_workers_day_state and assign_daily_counters                       *)

NextDay ==
  /\ DirectorJump("top", "reset")
  /\ day < SIM_DURATION /\ ~shutdown
  /\ day' = day + 1
  /\ UNCHANGED <<dayActive, cause, deskVars, workerVars, queueVars, statVars,
                 msgVars, sigVars, directorLocals>>

LastDayDone ==
  /\ DirectorJump("top", "final")
  /\ day = SIM_DURATION \/ shutdown
  /\ UNCHANGED <<sharedVars, directorLocals>>

LockStatsForReset ==
  /\ DirectorJump("reset", "reset_stats")
  /\ LockStats
  /\ UNCHANGED directorLocals

(* The day_ fields of the statistics are in module Statistics. *)
ResetDay ==
  /\ DirectorJump("reset_stats", "assign")
  /\ statsMutex' = 1
  /\ currentCounter' = [w \in Workers |-> None]
  /\ cursor' = 0
  /\ UNCHANGED <<cfgVars, deskVars, workerService, pausesTaken, queueVars,
                 requests, served, notServed, pauseTotal, msgVars, sigVars,
                 received, pendingUsers, flushed, flushTicket, unreaped, envVars>>

(* One iteration over the counters; rand() % SERVICE_COUNT is any service. *)
AssignCounter ==
  LET last == cursor + 1 \notin Counters IN
  /\ DirectorJump("assign", IF last THEN "open" ELSE "assign")
  /\ counterMutex[cursor] = 1
  /\ \E s \in Services : counterService' = [counterService EXCEPT ![cursor] = s]
  /\ counterWorker' = [counterWorker EXCEPT ![cursor] = None]
  /\ cursor' = IF last THEN 0 ELSE cursor + 1
  /\ UNCHANGED <<cfgVars, counterMutex, freeCounter, workerVars, queueVars,
                 statVars, msgVars, sigVars, received, pendingUsers, flushed,
                 flushTicket, unreaped, envVars>>

CountersFor(s) == {c \in Counters : counterService[c] = s}

(* The rest of assign_daily_counters, DAY_ACTIVE = 1 and SIGUSR1 to        *)
(* everybody.  No operator and no dispenser step distinguishes the moments *)
(* in between from a signal that is still under way.                       *)
OpenDay ==
  /\ DirectorJump("open", "day")
  /\ jobs' = [s \in Services |-> 0]
  /\ freeCounter' = [s \in Services |-> Cardinality(CountersFor(s))]
  /\ queue' = [s \in Services |-> <<>>]
  /\ dayActive' = TRUE
  /\ Signal("USR1", Workers \cup Users)
  /\ UNCHANGED <<day, cause, counterService, counterWorker, counterMutex,
                 workerVars, queueMutex, statVars, msgVars, flagVars, directorLocals>>

(* Mutant: a shutdown skips the end of the day. *)
CloseDayAndLeave ==
  /\ dpc = "day"
  /\ dpc' = IF shutdown THEN "final" ELSE "wait_done"
  /\ dayActive' = FALSE
  /\ Signal("USR2", Workers \cup Users)
  /\ UNCHANGED <<day, cause, deskVars, workerVars, queueVars, statVars, msgVars,
                 flagVars, directorLocals>>

(* sleep_for_day_duration is over, by time or by a shutdown signal. *)
CloseDay ==
  /\ DirectorJump("day", "wait_done")
  /\ dayActive' = FALSE
  /\ Signal("USR2", Workers \cup Users)
  /\ UNCHANGED <<day, cause, deskVars, workerVars, queueVars, statVars, msgVars,
                 flagVars, directorLocals>>

-----------------------------------------------------------------------------
(* The evening: wait_for_workers_day_end, count_pending_users, the         *)
(* explosion check, flush_pending_users and print_daily_statistics         *)

ReceiveFinished ==
  LET all == received + 1 = NOF_WORKERS IN
  /\ DirectorJump("wait_done", IF all THEN "count" ELSE "wait_done")
  /\ finished > 0
  /\ finished' = finished - 1
  /\ received' = IF all THEN 0 ELSE received + 1
  /\ UNCHANGED <<cfgVars, deskVars, workerVars, queueVars, statVars, inits,
                 ticketBox, replyBox, sigVars, cursor, pendingUsers, flushed,
                 flushTicket, unreaped, envVars>>

(* Mutant: <= for <. *)
LastServicePassed == cursor \notin Services

LastService == cursor + 1 \notin Services

(* One iteration: lock, read the length, unlock; the decision after the    *)
(* last one.                                                               *)
CountQueue ==
  LET total == pendingUsers + Len(queue[cursor]) IN
  /\ DirectorJump("count", IF LastService THEN "flush" ELSE "count")
  /\ queueMutex[cursor] = 1
  /\ pendingUsers' = total
  /\ cursor' = IF LastService THEN 0 ELSE cursor + 1
  /\ cause' = IF LastService /\ total > EXPLODE_THRESHOLD THEN "EXPLODE" ELSE cause
  /\ UNCHANGED <<day, dayActive, deskVars, workerVars, queueVars, statVars,
                 msgVars, sigVars, received, flushed, flushTicket, unreaped,
                 envVars>>

FlushLockQueue ==
  /\ DirectorJump("flush", "flush_next")
  /\ LockQueue(cursor)
  /\ UNCHANGED directorLocals

FlushPop ==
  /\ DirectorJump("flush_next", "flush_reply")
  /\ queue[cursor] # <<>>
  /\ PopQueue(cursor)
  /\ flushTicket' = Head(queue[cursor])
  /\ flushed' = flushed + 1
  /\ UNCHANGED <<cfgVars, deskVars, workerVars, queueMutex, jobs, statVars,
                 msgVars, sigVars, cursor, received, pendingUsers, unreaped,
                 envVars>>

FlushReply ==
  /\ DirectorJump("flush_reply", "flush_lock")
  /\ SendUserReply(flushTicket, "NOT_SERVED", cursor)
  /\ UNCHANGED <<cfgVars, deskVars, workerVars, queueVars, statVars, inits,
                 finished, ticketBox, sigVars, directorLocals>>

LockStatsForFlush ==
  /\ DirectorJump("flush_lock", "flush_stat")
  /\ LockStats
  /\ UNCHANGED directorLocals

CountFlushed ==
  /\ DirectorJump("flush_stat", "flush_next")
  /\ notServed' = [notServed EXCEPT ![cursor] = @ + 1]
  /\ statsMutex' = 1
  /\ flushTicket' = None
  /\ UNCHANGED <<cfgVars, deskVars, workerVars, queueVars, requests, served,
                 pauseTotal, msgVars, sigVars, cursor, received, pendingUsers,
                 flushed, unreaped, envVars>>

(* Queue empty: unlock it, set its jobs semaphore to 0, next service. *)
FlushUnlockQueue ==
  /\ DirectorJump("flush_next", IF LastService THEN "print" ELSE "flush")
  /\ queue[cursor] = <<>>
  /\ queueMutex' = [queueMutex EXCEPT ![cursor] = 1]
  /\ jobs' = [jobs EXCEPT ![cursor] = 0]
  /\ cursor' = IF LastService THEN 0 ELSE cursor + 1
  /\ UNCHANGED <<cfgVars, deskVars, workerVars, queue, statVars, msgVars, sigVars,
                 received, pendingUsers, flushed, flushTicket, unreaped, envVars>>

(* print_daily_statistics holds the statistics while it prints; then the   *)
(* explosion ends the loop.                                                *)
PrintDay ==
  /\ DirectorJump("print", IF cause = "EXPLODE" THEN "final" ELSE "top")
  /\ statsMutex = 1
  /\ pendingUsers' = 0
  /\ flushed' = 0
  /\ UNCHANGED <<sharedVars, cursor, received, flushTicket, unreaped, envVars>>

-----------------------------------------------------------------------------
(* print_final_statistics, stop_children and cleanup_ipc *)

DecideCause ==
  /\ DirectorJump("final", "final_print")
  /\ cause' = IF cause = "NONE" THEN "TIMEOUT" ELSE cause
  /\ UNCHANGED <<day, dayActive, deskVars, workerVars, queueVars, statVars,
                 msgVars, sigVars, directorLocals>>

PrintFinal ==
  /\ DirectorJump("final_print", "stop")
  /\ statsMutex = 1
  /\ UNCHANGED <<sharedVars, directorLocals>>

StopChildren ==
  /\ DirectorJump("stop", "reap")
  /\ Signal("TERM", Children)
  /\ unreaped' = Children
  /\ UNCHANGED <<cfgVars, deskVars, workerVars, queueVars, statVars, msgVars,
                 flagVars, cursor, received, pendingUsers, flushed, flushTicket,
                 envVars>>

(* All waitpid calls have returned: cleanup_ipc, log_stop, exit. *)
CleanUp(gone) ==
  /\ DirectorJump("reap", "exited")
  /\ unreaped \subseteq gone
  /\ ipcRemoved' = TRUE
  /\ UNCHANGED <<sharedVars, cursor, received, pendingUsers, flushed, flushTicket,
                 unreaped, shutdown, kills, groupKilled>>

DirectorStep(gone) ==
  \/ ReceiveInit \/ NextDay \/ LastDayDone \/ LockStatsForReset \/ ResetDay
  \/ AssignCounter \/ OpenDay \/ CloseDay
  \/ ReceiveFinished \/ CountQueue \/ FlushLockQueue \/ FlushPop \/ FlushReply
  \/ LockStatsForFlush \/ CountFlushed \/ FlushUnlockQueue \/ PrintDay
  \/ DecideCause \/ PrintFinal \/ StopChildren \/ CleanUp(gone)

-----------------------------------------------------------------------------
(* SIGTERM or SIGINT to the director.  Only two calls react to it apart    *)
(* from the flag: a semop of sem_op_retry that is asleep makes its caller  *)
(* exit on the spot, and a waitpid that is asleep is not repeated, so that *)
(* child is not waited for.  In every other call the EINTR is swallowed.   *)

DirectorBlocked ==
  \/ dpc \in {"reset", "flush_lock", "print", "final_print"} /\ statsMutex = 0
  \/ dpc = "assign" /\ counterMutex[cursor] = 0
  \/ dpc \in {"count", "flush"} /\ queueMutex[cursor] = 0

(* stop_children waits for the operators, the users and the dispenser, in  *)
(* this order.                                                             *)
WaitedFor(gone) ==
  LET running == unreaped \ gone IN
  IF running \cap Workers # {} THEN running \cap Workers
  ELSE IF running \cap Users # {} THEN running \cap Users ELSE running

DirectorInterrupted(gone) ==
  /\ dpc \notin {"exited", "failed"}
  /\ shutdown' = TRUE
  /\ \/ UNCHANGED <<dpc, unreaped>>
     \/ DirectorBlocked /\ dpc' = "failed" /\ UNCHANGED unreaped
     \/ /\ dpc = "reap"
        /\ \E p \in WaitedFor(gone) : unreaped' = unreaped \ {p}
        /\ UNCHANGED dpc
  /\ UNCHANGED <<sharedVars, cursor, received, pendingUsers, flushed, flushTicket,
                 ipcRemoved>>

(* kill(director): the environment, at most MAX_KILLS times. *)
Terminate(gone) ==
  /\ kills < MAX_KILLS
  /\ kills' = kills + 1
  /\ DirectorInterrupted(gone)
  /\ UNCHANGED groupKilled

(* Ctrl+C: SIGINT to every process of the foreground group.  The children  *)
(* install no handler for it and die where they stand.                     *)
CtrlC(gone) ==
  /\ CTRL_C /\ ~groupKilled
  /\ groupKilled' = TRUE
  /\ DirectorInterrupted(gone)
  /\ UNCHANGED kills
=============================================================================
