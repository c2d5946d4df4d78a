------------------------------ MODULE Operator ------------------------------
(***************************************************************************)
(* The operator process (operator.c).  Its program counter opc[w] names    *)
(* the next point where the process can block or be overtaken by another   *)
(* one; code between two such points is one action.  A label that ends in  *)
(* a blocking call (semop, msgsnd, sigsuspend) stands both for "about to   *)
(* make the call" and for "asleep in it".                                  *)
(***************************************************************************)
EXTENDS Commons

VARIABLES
  opc,     (* program counter of each operator                             *)
  desk,    (* loop index of claim_counter_for_service, then counter_id     *)
  ticket   (* user_pid of the popped ticket, None when there is none       *)

operatorVars == <<opc, desk, ticket>>

(* Labels between the start of run_day and the DAY_FINISHED message. *)
InDayPC ==
  {"claim", "take_token", "recheck", "scan", "inspect", "claiming", "giveback",
   "loop", "wait_job", "pop_lock", "pop", "serve", "served", "reply", "after",
   "pause_lock", "pause", "release", "releasing", "post_token", "report"}

OperatorPC == InDayPC \cup {"init", "idle", "suspend", "exited", "failed"}

OperatorTypeOK ==
  /\ opc \in [Workers -> OperatorPC]
  /\ desk \in [Workers -> Counters]
  /\ ticket \in [Workers -> Users \cup {None}]

OperatorInit ==
  /\ opc = [w \in Workers |-> "init"]
  /\ desk = [w \in Workers |-> 0]
  /\ ticket = [w \in Workers |-> None]

OperatorJump(w, from, to) == opc[w] = from /\ opc' = [opc EXCEPT ![w] = to]

-----------------------------------------------------------------------------
(* main and wait_for_next_day *)

(* Attached to the shared memory, tells the director so. *)
OperatorSendInit(w) ==
  /\ OperatorJump(w, "init", "idle")
  /\ Room
  /\ inits' = inits + 1
  /\ UNCHANGED <<cfgVars, deskVars, workerVars, queueVars, statVars, sigVars,
                 finished, ticketBox, replyBox, desk, ticket>>

(* The while condition of wait_for_next_day: nothing to do, go to sleep in *)
(* sigsuspend.  The signals are not blocked between the test and the call. *)
OperatorSuspend(w) ==
  /\ OperatorJump(w, "idle", "suspend")
  /\ ~dayStarted[w] /\ ~terminate[w]
  /\ UNCHANGED <<sharedVars, desk, ticket>>

(* Mutant: day_started is not cleared. *)
OperatorStartDayAgain(w) ==
  /\ OperatorJump(w, "idle", "claim")
  /\ dayStarted[w] /\ ~terminate[w]
  /\ dayStop' = [dayStop EXCEPT ![w] = FALSE]
  /\ UNCHANGED <<cfgVars, deskVars, workerVars, queueVars, statVars, msgVars,
                 pending, dayStarted, dayClosed, terminate, desk, ticket>>

OperatorStartDay(w) ==
  /\ OperatorJump(w, "idle", "claim")
  /\ dayStarted[w] /\ ~terminate[w]
  /\ dayStarted' = [dayStarted EXCEPT ![w] = FALSE]
  /\ dayStop' = [dayStop EXCEPT ![w] = FALSE]
  /\ UNCHANGED <<cfgVars, deskVars, workerVars, queueVars, statVars, msgVars,
                 pending, dayClosed, terminate, desk, ticket>>

OperatorExit(w) ==
  /\ OperatorJump(w, "idle", "exited")
  /\ terminate[w]
  /\ UNCHANGED <<sharedVars, desk, ticket>>

-----------------------------------------------------------------------------
(* claim_counter_for_service *)

MayClaim(w) == ~terminate[w] /\ dayActive /\ ~dayStop[w]

TestClaimLoop(w) ==
  /\ OperatorJump(w, "claim", IF MayClaim(w) THEN "take_token" ELSE "report")
  /\ UNCHANGED <<sharedVars, desk, ticket>>

(* semop(free counter of the service, -1) *)
TakeToken(w) ==
  /\ OperatorJump(w, "take_token", "recheck")
  /\ freeCounter[workerService[w]] > 0
  /\ freeCounter' = [freeCounter EXCEPT ![workerService[w]] = @ - 1]
  /\ UNCHANGED <<cfgVars, counterService, counterWorker, counterMutex, workerVars,
                 queueVars, statVars, msgVars, sigVars, desk, ticket>>

(* The day ended while the operator waited: the token goes back. *)
HandBackToken(w) ==
  /\ OperatorJump(w, "recheck", "report")
  /\ ~MayClaim(w)
  /\ freeCounter' = [freeCounter EXCEPT ![workerService[w]] = @ + 1]
  /\ UNCHANGED <<cfgVars, counterService, counterWorker, counterMutex, workerVars,
                 queueVars, statVars, msgVars, sigVars, desk, ticket>>

(* Mutant: the scan starts at the second counter. *)
StartScanAtOne(w) ==
  /\ OperatorJump(w, "recheck", "scan")
  /\ MayClaim(w)
  /\ desk' = [desk EXCEPT ![w] = IF 1 \in Counters THEN 1 ELSE 0]
  /\ UNCHANGED <<sharedVars, ticket>>

StartScan(w) ==
  /\ OperatorJump(w, "recheck", "scan")
  /\ MayClaim(w)
  /\ desk' = [desk EXCEPT ![w] = 0]
  /\ UNCHANGED <<sharedVars, ticket>>

LockScanned(w) ==
  /\ OperatorJump(w, "scan", "inspect")
  /\ LockCounter(desk[w])
  /\ UNCHANGED <<desk, ticket>>

(* Mutant: worker_pid is not looked at. *)
IsFreeOrTaken(c, s) == counterService[c] = s

IsFree(c, s) == counterService[c] = s /\ counterWorker[c] = None

FindCounter(w) ==
  /\ OperatorJump(w, "inspect", "claiming")
  /\ IsFree(desk[w], workerService[w])
  /\ UNCHANGED <<sharedVars, desk, ticket>>

(* Not this one: unlock, next index.  After the last index the code gives  *)
(* the token back and tries again; PostOffice's ScanAlwaysFinds shows that *)
(* "giveback" is never reached, so it has no action.                       *)
SkipCounter(w) ==
  /\ OperatorJump(w, "inspect",
                  IF desk[w] + 1 \in Counters THEN "scan" ELSE "giveback")
  /\ ~IsFree(desk[w], workerService[w])
  /\ counterMutex' = [counterMutex EXCEPT ![desk[w]] = 1]
  /\ desk' = [desk EXCEPT ![w] = IF @ + 1 \in Counters THEN @ + 1 ELSE @]
  /\ UNCHANGED <<cfgVars, counterService, counterWorker, freeCounter, workerVars,
                 queueVars, statVars, msgVars, sigVars, ticket>>

ClaimCounter(w) ==
  /\ OperatorJump(w, "claiming", "loop")
  /\ counterWorker' = [counterWorker EXCEPT ![desk[w]] = w]
  /\ currentCounter' = [currentCounter EXCEPT ![w] = desk[w]]
  /\ counterMutex' = [counterMutex EXCEPT ![desk[w]] = 1]
  /\ UNCHANGED <<cfgVars, counterService, freeCounter, workerService, pausesTaken,
                 queueVars, statVars, msgVars, sigVars, desk, ticket>>

-----------------------------------------------------------------------------
(* run_day, serve_ticket and the pause *)

TestServeLoop(w) ==
  /\ OperatorJump(w, "loop", IF terminate[w] \/ (dayStop[w] /\ ~dayActive)
                             THEN "release" ELSE "wait_job")
  /\ UNCHANGED <<sharedVars, desk, ticket>>

(* semop(jobs of the service, -1) *)
WaitForTicket(w) ==
  /\ OperatorJump(w, "wait_job", "pop_lock")
  /\ jobs[workerService[w]] > 0
  /\ jobs' = [jobs EXCEPT ![workerService[w]] = @ - 1]
  /\ UNCHANGED <<cfgVars, deskVars, workerVars, queue, queueMutex, statVars,
                 msgVars, sigVars, desk, ticket>>

OperatorLockQueue(w) ==
  /\ OperatorJump(w, "pop_lock", "pop")
  /\ LockQueue(workerService[w])
  /\ UNCHANGED <<desk, ticket>>

PopTicket(w) ==
  LET s == workerService[w] IN
  /\ OperatorJump(w, "pop", "serve")
  /\ queue[s] # <<>>
  /\ PopQueue(s)
  /\ ticket' = [ticket EXCEPT ![w] = Head(queue[s])]
  /\ queueMutex' = [queueMutex EXCEPT ![s] = 1]
  /\ UNCHANGED <<cfgVars, deskVars, workerVars, jobs, statVars, msgVars, sigVars,
                 desk>>

(* A job was announced but the queue is empty: run_day's continue. *)
PopNothing(w) ==
  /\ OperatorJump(w, "pop", "loop")
  /\ queue[workerService[w]] = <<>>
  /\ queueMutex' = [queueMutex EXCEPT ![workerService[w]] = 1]
  /\ UNCHANGED <<cfgVars, deskVars, workerVars, queue, jobs, statVars, msgVars,
                 sigVars, desk, ticket>>

(* The service time, which no signal cuts short, then lock_stats. *)
ServeTicket(w) ==
  /\ OperatorJump(w, "serve", "served")
  /\ LockStats
  /\ UNCHANGED <<desk, ticket>>

(* Mutant: the answer goes out before unlock_stats                         *)
CountServedAndReply(w) ==
  /\ OperatorJump(w, "served", "after")
  /\ served' = [served EXCEPT ![workerService[w]] = @ + 1]
  /\ statsMutex' = 1
  /\ SendUserReply(ticket[w], "SERVED", workerService[w])
  /\ ticket' = [ticket EXCEPT ![w] = None]
  /\ UNCHANGED <<cfgVars, deskVars, workerVars, queueVars, requests, notServed,
                 pauseTotal, inits, finished, ticketBox, sigVars, desk>>

CountServed(w) ==
  /\ OperatorJump(w, "served", "reply")
  /\ served' = [served EXCEPT ![workerService[w]] = @ + 1]
  /\ statsMutex' = 1
  /\ UNCHANGED <<cfgVars, deskVars, workerVars, queueVars, requests, notServed,
                 pauseTotal, msgVars, sigVars, desk, ticket>>

ReplyServed(w) ==
  /\ OperatorJump(w, "reply", "after")
  /\ SendUserReply(ticket[w], "SERVED", workerService[w])
  /\ ticket' = [ticket EXCEPT ![w] = None]
  /\ UNCHANGED <<cfgVars, deskVars, workerVars, queueVars, statVars, inits,
                 finished, ticketBox, sigVars, desk>>

StopAfterService(w) ==
  /\ OperatorJump(w, "after", "release")
  /\ ~MayClaim(w)
  /\ UNCHANGED <<sharedVars, desk, ticket>>

(* should_take_pause answered no *)
KeepWorking(w) ==
  /\ OperatorJump(w, "after", "loop")
  /\ MayClaim(w)
  /\ UNCHANGED <<sharedVars, desk, ticket>>

(* should_take_pause answered yes, first half of update_pause_statistics *)
TakePause(w) ==
  /\ OperatorJump(w, "after", "pause_lock")
  /\ MayClaim(w)
  /\ pausesTaken[w] < NOF_PAUSE
  /\ pausesTaken' = [pausesTaken EXCEPT ![w] = @ + 1]
  /\ UNCHANGED <<cfgVars, deskVars, workerService, currentCounter, queueVars,
                 statVars, msgVars, sigVars, desk, ticket>>

LockStatsForPause(w) ==
  /\ OperatorJump(w, "pause_lock", "pause")
  /\ LockStats
  /\ UNCHANGED <<desk, ticket>>

CountPause(w) ==
  /\ OperatorJump(w, "pause", "release")
  /\ pauseTotal' = pauseTotal + 1
  /\ statsMutex' = 1
  /\ dayStop' = [dayStop EXCEPT ![w] = TRUE]
  /\ UNCHANGED <<cfgVars, deskVars, workerVars, queueVars, requests, served,
                 notServed, msgVars, pending, dayStarted, dayClosed, terminate,
                 desk, ticket>>

-----------------------------------------------------------------------------
(* release_counter and the DAY_FINISHED message *)

LockRelease(w) ==
  /\ OperatorJump(w, "release", "releasing")
  /\ LockCounter(desk[w])
  /\ UNCHANGED <<desk, ticket>>

(* Mutant: the free-counter semaphore is posted here as well as in PostToken *)
ReleaseCounterPosts(w) ==
  /\ OperatorJump(w, "releasing", "post_token")
  /\ counterWorker' = [counterWorker EXCEPT ![desk[w]] = None]
  /\ currentCounter' = [currentCounter EXCEPT ![w] = None]
  /\ counterMutex' = [counterMutex EXCEPT ![desk[w]] = 1]
  /\ freeCounter' = [freeCounter EXCEPT ![workerService[w]] = @ + 1]
  /\ UNCHANGED <<cfgVars, counterService, workerService, pausesTaken, queueVars,
                 statVars, msgVars, sigVars, desk, ticket>>

ReleaseCounter(w) ==
  /\ OperatorJump(w, "releasing", "post_token")
  /\ counterWorker' = [counterWorker EXCEPT ![desk[w]] = None]
  /\ currentCounter' = [currentCounter EXCEPT ![w] = None]
  /\ counterMutex' = [counterMutex EXCEPT ![desk[w]] = 1]
  /\ UNCHANGED <<cfgVars, counterService, freeCounter, workerService, pausesTaken,
                 queueVars, statVars, msgVars, sigVars, desk, ticket>>

PostToken(w) ==
  /\ OperatorJump(w, "post_token", "report")
  /\ freeCounter' = [freeCounter EXCEPT ![workerService[w]] = @ + 1]
  /\ UNCHANGED <<cfgVars, counterService, counterWorker, counterMutex, workerVars,
                 queueVars, statVars, msgVars, sigVars, desk, ticket>>

ReportDayFinished(w) ==
  /\ OperatorJump(w, "report", "idle")
  /\ Room
  /\ finished' = finished + 1
  /\ desk' = [desk EXCEPT ![w] = 0]
  /\ UNCHANGED <<cfgVars, deskVars, workerVars, queueVars, statVars, inits,
                 ticketBox, replyBox, sigVars, ticket>>

-----------------------------------------------------------------------------
(* Signals *)

(* Asleep in a semop of sem_op_interruptible *)
OperatorBlocked(w) ==
  LET s == workerService[w] IN
  \/ opc[w] = "take_token" /\ freeCounter[s] = 0
  \/ opc[w] \in {"scan", "release"} /\ counterMutex[desk[w]] = 0
  \/ opc[w] = "wait_job" /\ jobs[s] = 0
  \/ opc[w] = "pop_lock" /\ queueMutex[s] = 0
  \/ opc[w] \in {"serve", "pause_lock"} /\ statsMutex = 0

(* Where each caller of sem_op_interruptible goes when it returns 1 *)
AfterInterrupt(pc) ==
  CASE pc \in {"take_token", "scan", "release"} -> "report"
    [] pc = "wait_job" -> "release"
    [] pc = "pop_lock" -> "loop"
    [] pc \in {"serve", "pause_lock"} -> "failed"

(* handle_operator_signal for everything pending.  If the process was      *)
(* asleep in the kernel the call returns EINTR; if the signal came just    *)
(* before the call (pc unchanged) the call then blocks regardless of it.   *)
OperatorSignal(w) ==
  LET sigs == pending[w] IN
  /\ sigs # {}
  /\ opc[w] \notin {"exited", "failed"}
  /\ pending' = [pending EXCEPT ![w] = {}]
  /\ dayStarted' = [dayStarted EXCEPT ![w] = @ \/ sigs \cap {"USR1", "TERM"} # {}]
  /\ dayStop' = [dayStop EXCEPT ![w] = @ \/ sigs \cap {"USR2", "TERM"} # {}]
  /\ terminate' = [terminate EXCEPT ![w] = @ \/ "TERM" \in sigs]
  /\ \/ UNCHANGED opc
     \/ OperatorJump(w, "suspend", "idle")
     \/ /\ OperatorBlocked(w)
        /\ terminate'[w] \/ dayStop'[w]
        /\ opc' = [opc EXCEPT ![w] = AfterInterrupt(opc[w])]
  /\ UNCHANGED <<cfgVars, deskVars, workerVars, queueVars, statVars, msgVars,
                 dayClosed, desk, ticket>>

OperatorStep(w) ==
  \/ OperatorSendInit(w) \/ OperatorSuspend(w) \/ OperatorStartDay(w)
  \/ OperatorExit(w)
  \/ TestClaimLoop(w) \/ TakeToken(w) \/ HandBackToken(w) \/ StartScan(w)
  \/ LockScanned(w) \/ FindCounter(w) \/ SkipCounter(w) \/ ClaimCounter(w)
  \/ TestServeLoop(w) \/ WaitForTicket(w) \/ OperatorLockQueue(w)
  \/ PopTicket(w) \/ PopNothing(w) \/ ServeTicket(w) \/ CountServed(w)
  \/ ReplyServed(w) \/ StopAfterService(w) \/ KeepWorking(w) \/ TakePause(w)
  \/ LockStatsForPause(w) \/ CountPause(w)
  \/ LockRelease(w) \/ ReleaseCounter(w) \/ PostToken(w) \/ ReportDayFinished(w)
=============================================================================
