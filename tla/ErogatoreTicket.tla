-------------------------- MODULE ErogatoreTicket --------------------------
(***************************************************************************)
(* The ticket dispenser (erogatore_ticket.c): one process that takes the   *)
(* users' requests in order, refuses them or puts them in the queue of     *)
(* their service.  Labels as in module Operator.                           *)
(***************************************************************************)
EXTENDS Commons

VARIABLES
  tpc,      (* program counter of the dispenser                            *)
  request,  (* the ticket_message being handled, None when there is none   *)
  seat      (* i of the loop in service_is_offered_today, 0 outside it     *)

dispenserVars == <<tpc, request, seat>>

(* Labels between the receipt of a request and its end. *)
HandlingPC ==
  {"req_lock", "req", "check", "offered", "q_lock", "q_check", "push", "post",
   "ns_lock", "ns", "ns_reply"}

DispenserPC == HandlingPC \cup {"init", "loop", "recv", "exited", "failed"}

DispenserTypeOK ==
  /\ tpc \in DispenserPC
  /\ request \in TicketMessage \cup {None}
  /\ tpc \in HandlingPC => request \in TicketMessage
  /\ seat \in Counters

DispenserInit == tpc = "init" /\ request = None /\ seat = 0

DispenserJump(from, to) == tpc = from /\ tpc' = to

DispenserSendInit ==
  /\ DispenserJump("init", "loop")
  /\ Room
  /\ inits' = inits + 1
  /\ UNCHANGED <<cfgVars, deskVars, workerVars, queueVars, statVars, sigVars,
                 finished, ticketBox, replyBox, request, seat>>

DispenserTestLoop ==
  /\ DispenserJump("loop", IF terminate[Dispenser] THEN "exited" ELSE "recv")
  /\ UNCHANGED <<sharedVars, request, seat>>

(* msgrcv(TICKET_REQUEST_MTYPE).  Users only ask for services that exist,  *)
(* so the range check that follows in the code never refuses.              *)
ReceiveRequest ==
  /\ DispenserJump("recv", "req_lock")
  /\ ticketBox # <<>>
  /\ request' = Head(ticketBox)
  /\ ticketBox' = Tail(ticketBox)
  /\ UNCHANGED <<cfgVars, deskVars, workerVars, queueVars, statVars, inits,
                 finished, replyBox, sigVars, seat>>

(* mark_request *)
LockStatsForRequest ==
  /\ DispenserJump("req_lock", "req")
  /\ LockStats
  /\ UNCHANGED <<request, seat>>

CountRequest ==
  /\ DispenserJump("req", "check")
  /\ requests' = [requests EXCEPT ![request.service] = @ + 1]
  /\ statsMutex' = 1
  /\ UNCHANGED <<cfgVars, deskVars, workerVars, queueVars, served, notServed,
                 pauseTotal, msgVars, sigVars, request, seat>>

(* !config->DAY_ACTIVE || !service_is_offered_today(service): the flag,    *)
(* then one counter after the other, and no lock on any of them: the       *)
(* morning's assignment may fall between two of these reads.               *)
CheckDayActive ==
  /\ DispenserJump("check", IF dayActive THEN "offered" ELSE "ns_lock")
  /\ UNCHANGED <<sharedVars, request, seat>>

CheckOffered ==
  /\ tpc = "offered"
  /\ \/ /\ counterService[seat] = request.service
        /\ tpc' = "q_lock" /\ seat' = 0
     \/ /\ counterService[seat] # request.service
        /\ seat + 1 \in Counters
        /\ tpc' = tpc /\ seat' = seat + 1
     \/ /\ counterService[seat] # request.service
        /\ seat + 1 \notin Counters
        /\ tpc' = "ns_lock" /\ seat' = 0
  /\ UNCHANGED <<sharedVars, request>>

DispenserLockQueue ==
  /\ DispenserJump("q_lock", "q_check")
  /\ LockQueue(request.service)
  /\ UNCHANGED <<request, seat>>

(* Mutants of the two actions that follow. *)
RefuseLockedKeepsLock ==      (* the early return forgets the unlock *)
  /\ DispenserJump("q_check", "ns_lock")
  /\ ~dayActive \/ QueueIsFull(request.service)
  /\ UNCHANGED <<sharedVars, request, seat>>
RefuseLockedSilent ==         (* a full queue is not answered *)
  /\ DispenserJump("q_check", "loop")
  /\ ~dayActive \/ QueueIsFull(request.service)
  /\ queueMutex' = [queueMutex EXCEPT ![request.service] = 1]
  /\ request' = None
  /\ UNCHANGED <<cfgVars, deskVars, workerVars, queue, jobs, statVars, msgVars,
                 sigVars, seat>>
RefuseLockedUncounted ==      (* mark_not_served is left out *)
  /\ DispenserJump("q_check", "ns_reply")
  /\ ~dayActive \/ QueueIsFull(request.service)
  /\ queueMutex' = [queueMutex EXCEPT ![request.service] = 1]
  /\ UNCHANGED <<cfgVars, deskVars, workerVars, queue, jobs, statVars, msgVars,
                 sigVars, request, seat>>
AcceptLockedAfterClosing ==   (* DAY_ACTIVE is not looked at again *)
  /\ DispenserJump("q_check", "push")
  /\ ~QueueIsFull(request.service)
  /\ UNCHANGED <<sharedVars, request, seat>>

(* The second look at DAY_ACTIVE, now holding the queue. *)
RefuseLocked ==
  /\ DispenserJump("q_check", "ns_lock")
  /\ ~dayActive \/ QueueIsFull(request.service)
  /\ queueMutex' = [queueMutex EXCEPT ![request.service] = 1]
  /\ UNCHANGED <<cfgVars, deskVars, workerVars, queue, jobs, statVars, msgVars,
                 sigVars, request, seat>>

AcceptLocked ==
  /\ DispenserJump("q_check", "push")
  /\ dayActive /\ ~QueueIsFull(request.service)
  /\ UNCHANGED <<sharedVars, request, seat>>

(* Mutants of the two actions that follow. *)
PushTicketKeepsLock ==
  /\ DispenserJump("push", "post")
  /\ PushQueue(request.service, request.user)
  /\ UNCHANGED <<cfgVars, deskVars, workerVars, queueMutex, jobs, statVars,
                 msgVars, sigVars, request, seat>>
PostJobForgotten ==
  /\ DispenserJump("post", "loop")
  /\ request' = None
  /\ UNCHANGED <<sharedVars, seat>>

(* service_queue_push cannot fail here: the queue was seen not full under  *)
(* the same lock.                                                          *)
PushTicket ==
  /\ DispenserJump("push", "post")
  /\ PushQueue(request.service, request.user)
  /\ queueMutex' = [queueMutex EXCEPT ![request.service] = 1]
  /\ UNCHANGED <<cfgVars, deskVars, workerVars, jobs, statVars, msgVars, sigVars,
                 request, seat>>

PostJob ==
  /\ DispenserJump("post", "loop")
  /\ jobs' = [jobs EXCEPT ![request.service] = @ + 1]
  /\ request' = None
  /\ UNCHANGED <<cfgVars, deskVars, workerVars, queue, queueMutex, statVars,
                 msgVars, sigVars, seat>>

(* mark_not_served, then the answer *)
LockStatsForRefusal ==
  /\ DispenserJump("ns_lock", "ns")
  /\ LockStats
  /\ UNCHANGED <<request, seat>>

CountRefusal ==
  /\ DispenserJump("ns", "ns_reply")
  /\ notServed' = [notServed EXCEPT ![request.service] = @ + 1]
  /\ statsMutex' = 1
  /\ UNCHANGED <<cfgVars, deskVars, workerVars, queueVars, requests, served,
                 pauseTotal, msgVars, sigVars, request, seat>>

ReplyRefusal ==
  /\ DispenserJump("ns_reply", "loop")
  /\ SendUserReply(request.user, "NOT_SERVED", request.service)
  /\ request' = None
  /\ UNCHANGED <<cfgVars, deskVars, workerVars, queueVars, statVars, inits,
                 finished, ticketBox, sigVars, seat>>

(* EINTR with terminate_requested: msgrcv leaves the loop, msgsnd drops    *)
(* the answer, and a lock that was not obtained is a failed exit.          *)
DispenserInterrupted ==
  \/ /\ DispenserJump("recv", "exited")
     /\ ticketBox = <<>>
     /\ UNCHANGED <<request, seat>>
  \/ /\ DispenserJump("ns_reply", "loop")
     /\ ~Room
     /\ request' = None
     /\ UNCHANGED seat
  \/ /\ \/ tpc \in {"req_lock", "ns_lock"} /\ statsMutex = 0
        \/ tpc = "q_lock" /\ queueMutex[request.service] = 0
     /\ tpc' = "failed"
     /\ UNCHANGED <<request, seat>>

(* handle_ticket_signal *)
DispenserSignal ==
  /\ pending[Dispenser] # {}
  /\ tpc \notin {"exited", "failed"}
  /\ pending' = [pending EXCEPT ![Dispenser] = {}]
  /\ terminate' = [terminate EXCEPT ![Dispenser] = TRUE]
  /\ UNCHANGED dispenserVars \/ DispenserInterrupted
  /\ UNCHANGED <<cfgVars, deskVars, workerVars, queueVars, statVars, msgVars,
                 dayStarted, dayStop, dayClosed>>

(* The director removed the queue and the semaphores: any use fails. *)
DispenserLosesIpc ==
  /\ ipcRemoved
  /\ tpc \notin {"loop", "exited", "failed"}
  /\ tpc' = "failed"
  /\ UNCHANGED <<sharedVars, request, seat>>

DispenserIpcStep ==
  \/ DispenserSendInit \/ ReceiveRequest \/ LockStatsForRequest \/ CountRequest
  \/ CheckDayActive \/ CheckOffered \/ DispenserLockQueue \/ RefuseLocked
  \/ AcceptLocked \/ PushTicket \/ PostJob \/ LockStatsForRefusal
  \/ CountRefusal \/ ReplyRefusal

DispenserStep ==
  \/ DispenserTestLoop
  \/ ~ipcRemoved /\ DispenserIpcStep
  \/ DispenserLosesIpc
=============================================================================
