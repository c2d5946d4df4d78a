-------------------------- MODULE PostOfficeProofs --------------------------
(***************************************************************************)
(* Theorems about PostOffice, for any number of operators, users,          *)
(* counters, services, days and signals: types, the mutexes, the two       *)
(* barriers of the director, and what they give the counters, the          *)
(* free-counter semaphores and the queues.                                 *)
(***************************************************************************)
EXTENDS PostOffice, FiniteSetTheorems, SequenceTheorems, TLAPS

-----------------------------------------------------------------------------
(* Types *)

(* A part of the type invariant holds as long as its variables do not      *)
(* change.                                                                 *)
LEMMA SharedFrame ==
  /\ CfgTypeOK /\ UNCHANGED cfgVars => CfgTypeOK'
  /\ DeskTypeOK /\ UNCHANGED deskVars => DeskTypeOK'
  /\ WorkerTypeOK /\ UNCHANGED workerVars => WorkerTypeOK'
  /\ QueueTypeOK /\ UNCHANGED queueVars => QueueTypeOK'
  /\ StatTypeOK /\ UNCHANGED statVars => StatTypeOK'
  /\ MsgTypeOK /\ UNCHANGED msgVars => MsgTypeOK'
  /\ SigTypeOK /\ UNCHANGED sigVars => SigTypeOK'
  BY DEF CfgTypeOK, DeskTypeOK, WorkerTypeOK, QueueTypeOK, StatTypeOK, MsgTypeOK,
         SigTypeOK, cfgVars, deskVars, workerVars, queueVars, statVars, msgVars,
         sigVars, flagVars

LEMMA LocalFrame ==
  /\ OperatorTypeOK /\ UNCHANGED operatorVars => OperatorTypeOK'
  /\ UserTypeOK /\ UNCHANGED userVars => UserTypeOK'
  /\ DispenserTypeOK /\ UNCHANGED dispenserVars => DispenserTypeOK'
  /\ DirectorTypeOK /\ UNCHANGED directorVars => DirectorTypeOK'
  BY DEF OperatorTypeOK, UserTypeOK, DispenserTypeOK, DirectorTypeOK, operatorVars,
         userVars, dispenserVars, directorVars

(* A loop starts at index 0, which every array has. *)
LEMMA ZeroInRange == 0 \in Counters /\ 0 \in Services
  BY ConfigAssumption DEF Counters, Services

(* An answer to a user is a message. *)
LEMMA ReplyTypeOK ==
  ASSUME MsgTypeOK, NEW u, NEW s \in Services, NEW status \in {"SERVED", "NOT_SERVED"},
         SendUserReply(u, status, s), UNCHANGED <<inits, finished, ticketBox>>
  PROVE  MsgTypeOK'
<1>1. [status |-> status, service |-> s] \in ReplyMessage
  BY DEF ReplyMessage
<1>2. \A v \in Users :
        Append(replyBox[v], [status |-> status, service |-> s]) \in Seq(ReplyMessage)
  BY <1>1, AppendProperties DEF MsgTypeOK
<1>3. QED  BY <1>2 DEF MsgTypeOK, SendUserReply

(* So is a request. *)
LEMMA RequestTypeOK ==
  ASSUME MsgTypeOK, NEW u \in Users, NEW s \in Services
  PROVE  Append(ticketBox, [user |-> u, service |-> s]) \in Seq(TicketMessage)
<1>1. [user |-> u, service |-> s] \in TicketMessage
  BY DEF TicketMessage
<1>2. QED  BY <1>1, AppendProperties DEF MsgTypeOK

(* The ticket at the head of a queue is a user. *)
LEMMA HeadOfQueue ==
  ASSUME QueueTypeOK, NEW s \in Services, queue[s] # <<>>
  PROVE  Head(queue[s]) \in Users /\ Tail(queue[s]) \in Seq(Users)
  BY HeadTailProperties DEF QueueTypeOK

(* Every step of an operator keeps the types. *)
LEMMA OperatorStepTypeOK ==
  ASSUME NEW w \in Workers, SharedTypeOK, OperatorTypeOK, OperatorStep(w)
  PROVE  SharedTypeOK' /\ OperatorTypeOK'
<1> USE DEF SharedTypeOK, sharedVars, OperatorJump, OperatorPC, InDayPC
<1>1. CASE OperatorSendInit(w)
  <2>1. MsgTypeOK'
    BY <1>1 DEF OperatorSendInit, MsgTypeOK
  <2>2. OperatorTypeOK'
    BY <1>1 DEF OperatorSendInit, OperatorTypeOK
  <2>q. QED  BY <1>1, <2>1, <2>2, SharedFrame DEF OperatorSendInit
<1>2. CASE OperatorSuspend(w)
  <2>1. OperatorTypeOK'
    BY <1>2 DEF OperatorSuspend, OperatorTypeOK
  <2>q. QED  BY <1>2, <2>1, SharedFrame DEF OperatorSuspend
<1>3. CASE OperatorStartDay(w)
  <2>1. SigTypeOK'
    BY <1>3 DEF OperatorStartDay, SigTypeOK
  <2>2. OperatorTypeOK'
    BY <1>3 DEF OperatorStartDay, OperatorTypeOK
  <2>q. QED  BY <1>3, <2>1, <2>2, SharedFrame DEF OperatorStartDay
<1>4. CASE OperatorExit(w)
  <2>1. OperatorTypeOK'
    BY <1>4 DEF OperatorExit, OperatorTypeOK
  <2>q. QED  BY <1>4, <2>1, SharedFrame DEF OperatorExit
<1>5. CASE TestClaimLoop(w)
  <2>1. OperatorTypeOK'
    BY <1>5 DEF TestClaimLoop, OperatorTypeOK
  <2>q. QED  BY <1>5, <2>1, SharedFrame DEF TestClaimLoop
<1>6. CASE TakeToken(w)
  <2>1. DeskTypeOK'
    BY <1>6 DEF TakeToken, WorkerTypeOK, DeskTypeOK
  <2>2. OperatorTypeOK'
    BY <1>6 DEF TakeToken, OperatorTypeOK
  <2>q. QED  BY <1>6, <2>1, <2>2, SharedFrame DEF TakeToken
<1>7. CASE HandBackToken(w)
  <2>1. DeskTypeOK'
    BY <1>7 DEF HandBackToken, WorkerTypeOK, DeskTypeOK
  <2>2. OperatorTypeOK'
    BY <1>7 DEF HandBackToken, OperatorTypeOK
  <2>q. QED  BY <1>7, <2>1, <2>2, SharedFrame DEF HandBackToken
<1>8. CASE StartScan(w)
  <2>1. OperatorTypeOK'
    BY <1>8, ConfigAssumption DEF StartScan, Counters, OperatorTypeOK
  <2>q. QED  BY <1>8, <2>1, SharedFrame DEF StartScan
<1>9. CASE LockScanned(w)
  <2>1. DeskTypeOK'
    BY <1>9 DEF LockScanned, OperatorTypeOK, LockCounter, DeskTypeOK
  <2>2. OperatorTypeOK'
    BY <1>9 DEF LockScanned, OperatorTypeOK
  <2>q. QED  BY <1>9, <2>1, <2>2, SharedFrame DEF LockScanned, LockCounter
<1>10. CASE FindCounter(w)
  <2>1. OperatorTypeOK'
    BY <1>10 DEF FindCounter, OperatorTypeOK
  <2>q. QED  BY <1>10, <2>1, SharedFrame DEF FindCounter
<1>11. CASE SkipCounter(w)
  <2>1. DeskTypeOK'
    BY <1>11 DEF SkipCounter, OperatorTypeOK, DeskTypeOK
  <2>2. OperatorTypeOK'
    BY <1>11 DEF SkipCounter, OperatorTypeOK
  <2>q. QED  BY <1>11, <2>1, <2>2, SharedFrame DEF SkipCounter
<1>12. CASE ClaimCounter(w)
  <2>1. DeskTypeOK'
    BY <1>12 DEF ClaimCounter, OperatorTypeOK, DeskTypeOK
  <2>2. WorkerTypeOK'
    BY <1>12 DEF ClaimCounter, OperatorTypeOK, WorkerTypeOK
  <2>3. OperatorTypeOK'
    BY <1>12 DEF ClaimCounter, OperatorTypeOK
  <2>q. QED  BY <1>12, <2>1, <2>2, <2>3, SharedFrame DEF ClaimCounter
<1>13. CASE TestServeLoop(w)
  <2>1. OperatorTypeOK'
    BY <1>13 DEF TestServeLoop, OperatorTypeOK
  <2>q. QED  BY <1>13, <2>1, SharedFrame DEF TestServeLoop
<1>14. CASE WaitForTicket(w)
  <2>1. QueueTypeOK'
    BY <1>14 DEF WaitForTicket, WorkerTypeOK, QueueTypeOK
  <2>2. OperatorTypeOK'
    BY <1>14 DEF WaitForTicket, OperatorTypeOK
  <2>q. QED  BY <1>14, <2>1, <2>2, SharedFrame DEF WaitForTicket
<1>15. CASE OperatorLockQueue(w)
  <2>1. QueueTypeOK'
    BY <1>15 DEF OperatorLockQueue, WorkerTypeOK, LockQueue, QueueTypeOK
  <2>2. OperatorTypeOK'
    BY <1>15 DEF OperatorLockQueue, OperatorTypeOK
  <2>q. QED  BY <1>15, <2>1, <2>2, SharedFrame DEF OperatorLockQueue, LockQueue
<1>16. CASE PopTicket(w)
  <2>1. QueueTypeOK'
    BY <1>16, HeadOfQueue DEF PopTicket, WorkerTypeOK, PopQueue, QueueTypeOK
  <2>2. OperatorTypeOK'
    BY <1>16, HeadOfQueue DEF PopTicket, WorkerTypeOK, OperatorTypeOK
  <2>q. QED  BY <1>16, <2>1, <2>2, SharedFrame DEF PopTicket
<1>17. CASE PopNothing(w)
  <2>1. QueueTypeOK'
    BY <1>17 DEF PopNothing, WorkerTypeOK, QueueTypeOK
  <2>2. OperatorTypeOK'
    BY <1>17 DEF PopNothing, OperatorTypeOK
  <2>q. QED  BY <1>17, <2>1, <2>2, SharedFrame DEF PopNothing
<1>18. CASE ServeTicket(w)
  <2>1. StatTypeOK'
    BY <1>18 DEF ServeTicket, LockStats, StatTypeOK
  <2>2. OperatorTypeOK'
    BY <1>18 DEF ServeTicket, OperatorTypeOK
  <2>q. QED  BY <1>18, <2>1, <2>2, SharedFrame DEF ServeTicket, LockStats
<1>19. CASE CountServed(w)
  <2>1. StatTypeOK'
    BY <1>19 DEF CountServed, WorkerTypeOK, StatTypeOK
  <2>2. OperatorTypeOK'
    BY <1>19 DEF CountServed, OperatorTypeOK
  <2>q. QED  BY <1>19, <2>1, <2>2, SharedFrame DEF CountServed
<1>20. CASE ReplyServed(w)
  <2>1. MsgTypeOK'
    BY <1>20, ReplyTypeOK DEF ReplyServed, WorkerTypeOK, MsgTypeOK
  <2>2. OperatorTypeOK'
    BY <1>20 DEF ReplyServed, OperatorTypeOK
  <2>q. QED  BY <1>20, <2>1, <2>2, SharedFrame DEF ReplyServed
<1>21. CASE StopAfterService(w)
  <2>1. OperatorTypeOK'
    BY <1>21 DEF StopAfterService, OperatorTypeOK
  <2>q. QED  BY <1>21, <2>1, SharedFrame DEF StopAfterService
<1>22. CASE KeepWorking(w)
  <2>1. OperatorTypeOK'
    BY <1>22 DEF KeepWorking, OperatorTypeOK
  <2>q. QED  BY <1>22, <2>1, SharedFrame DEF KeepWorking
<1>23. CASE TakePause(w)
  <2>1. WorkerTypeOK'
    BY <1>23 DEF TakePause, WorkerTypeOK
  <2>2. OperatorTypeOK'
    BY <1>23 DEF TakePause, OperatorTypeOK
  <2>q. QED  BY <1>23, <2>1, <2>2, SharedFrame DEF TakePause
<1>24. CASE LockStatsForPause(w)
  <2>1. StatTypeOK'
    BY <1>24 DEF LockStatsForPause, LockStats, StatTypeOK
  <2>2. OperatorTypeOK'
    BY <1>24 DEF LockStatsForPause, OperatorTypeOK
  <2>q. QED  BY <1>24, <2>1, <2>2, SharedFrame DEF LockStatsForPause, LockStats
<1>25. CASE CountPause(w)
  <2>1. StatTypeOK'
    BY <1>25 DEF CountPause, StatTypeOK
  <2>2. SigTypeOK'
    BY <1>25 DEF CountPause, SigTypeOK
  <2>3. OperatorTypeOK'
    BY <1>25 DEF CountPause, OperatorTypeOK
  <2>q. QED  BY <1>25, <2>1, <2>2, <2>3, SharedFrame DEF CountPause
<1>26. CASE LockRelease(w)
  <2>1. DeskTypeOK'
    BY <1>26 DEF LockRelease, OperatorTypeOK, LockCounter, DeskTypeOK
  <2>2. OperatorTypeOK'
    BY <1>26 DEF LockRelease, OperatorTypeOK
  <2>q. QED  BY <1>26, <2>1, <2>2, SharedFrame DEF LockRelease, LockCounter
<1>27. CASE ReleaseCounter(w)
  <2>1. DeskTypeOK'
    BY <1>27 DEF ReleaseCounter, OperatorTypeOK, DeskTypeOK
  <2>2. WorkerTypeOK'
    BY <1>27 DEF ReleaseCounter, OperatorTypeOK, WorkerTypeOK
  <2>3. OperatorTypeOK'
    BY <1>27 DEF ReleaseCounter, OperatorTypeOK
  <2>q. QED  BY <1>27, <2>1, <2>2, <2>3, SharedFrame DEF ReleaseCounter
<1>28. CASE PostToken(w)
  <2>1. DeskTypeOK'
    BY <1>28 DEF PostToken, WorkerTypeOK, DeskTypeOK
  <2>2. OperatorTypeOK'
    BY <1>28 DEF PostToken, OperatorTypeOK
  <2>q. QED  BY <1>28, <2>1, <2>2, SharedFrame DEF PostToken
<1>29. CASE ReportDayFinished(w)
  <2>1. MsgTypeOK'
    BY <1>29 DEF ReportDayFinished, MsgTypeOK
  <2>2. OperatorTypeOK'
    BY <1>29, ConfigAssumption DEF ReportDayFinished, Counters, OperatorTypeOK
  <2>q. QED  BY <1>29, <2>1, <2>2, SharedFrame DEF ReportDayFinished
<1>q. QED  BY <1>1, <1>2, <1>3, <1>4, <1>5, <1>6, <1>7, <1>8, <1>9, <1>10, <1>11, <1>12, <1>13, <1>14, <1>15, <1>16, <1>17, <1>18, <1>19, <1>20, <1>21, <1>22, <1>23, <1>24, <1>25, <1>26, <1>27, <1>28, <1>29 DEF OperatorStep

LEMMA OperatorSignalTypeOK ==
  ASSUME NEW w \in Workers, SharedTypeOK, OperatorTypeOK, OperatorSignal(w)
  PROVE  SharedTypeOK' /\ OperatorTypeOK'
<1> USE DEF SharedTypeOK
<1>1. SigTypeOK'
  BY DEF OperatorSignal, SigTypeOK, Children, Signals
<1>2. \A pc : AfterInterrupt(pc) \in OperatorPC \/ pc \notin
           {"take_token", "scan", "release", "wait_job", "pop_lock", "serve", "pause_lock"}
  BY DEF AfterInterrupt, OperatorPC, InDayPC
<1>3. opc' \in [Workers -> OperatorPC]
  BY <1>2 DEF OperatorSignal, OperatorBlocked, OperatorJump, OperatorTypeOK, OperatorPC
<1>q. QED  BY <1>1, <1>3, SharedFrame DEF OperatorSignal, OperatorTypeOK

(* Every step of a user keeps the types. *)
LEMMA UserStepTypeOK ==
  ASSUME NEW u \in Users, SharedTypeOK, UserTypeOK, UserStep(u)
  PROVE  SharedTypeOK' /\ UserTypeOK'
<1> USE DEF SharedTypeOK, sharedVars, UserJump, UserPC
<1>1. CASE UserSendInit(u)
  <2>1. MsgTypeOK'
    BY <1>1 DEF UserSendInit, MsgTypeOK
  <2>2. UserTypeOK'
    BY <1>1 DEF UserSendInit, UserTypeOK
  <2>q. QED  BY <1>1, <2>1, <2>2, SharedFrame DEF UserSendInit
<1>2. CASE UserSuspend(u)
  <2>1. UserTypeOK'
    BY <1>2 DEF UserSuspend, UserTypeOK
  <2>q. QED  BY <1>2, <2>1, SharedFrame DEF UserSuspend
<1>3. CASE UserExit(u)
  <2>1. UserTypeOK'
    BY <1>3 DEF UserExit, UserTypeOK
  <2>q. QED  BY <1>3, <2>1, SharedFrame DEF UserExit
<1>4. CASE UserStaysHome(u)
  <2>1. SigTypeOK'
    BY <1>4 DEF UserStaysHome, UserWakesUp, SigTypeOK
  <2>2. UserTypeOK'
    BY <1>4 DEF UserStaysHome, UserTypeOK
  <2>q. QED  BY <1>4, <2>1, <2>2, SharedFrame DEF UserStaysHome, UserWakesUp
<1>5. CASE UserSetsOut(u)
  <2>1. SigTypeOK'
    BY <1>5 DEF UserSetsOut, UserWakesUp, SigTypeOK
  <2>2. UserTypeOK'
    BY <1>5 DEF UserSetsOut, UserTypeOK
  <2>q. QED  BY <1>5, <2>1, <2>2, SharedFrame DEF UserSetsOut, UserWakesUp
<1>6. CASE UserArrives(u)
  <2>1. UserTypeOK'
    BY <1>6 DEF UserArrives, UserTypeOK
  <2>q. QED  BY <1>6, <2>1, SharedFrame DEF UserArrives
<1>7. CASE UserAsks(u)
  <2>1. MsgTypeOK'
    BY <1>7, RequestTypeOK DEF UserAsks, UserTypeOK, MsgTypeOK
  <2>2. UserTypeOK'
    BY <1>7 DEF UserAsks, UserTypeOK
  <2>q. QED  BY <1>7, <2>1, <2>2, SharedFrame DEF UserAsks
<1>8. CASE UserGetsReply(u)
  <2>1. MsgTypeOK'
    BY <1>8, HeadTailProperties DEF UserGetsReply, MsgTypeOK
  <2>2. UserTypeOK'
    BY <1>8 DEF UserGetsReply, UserTypeOK
  <2>q. QED  BY <1>8, <2>1, <2>2, SharedFrame DEF UserGetsReply
<1>9. CASE UserLosesIpc(u)
  <2>1. UserTypeOK'
    BY <1>9 DEF UserLosesIpc, UserTypeOK
  <2>q. QED  BY <1>9, <2>1, SharedFrame DEF UserLosesIpc
<1>q. QED  BY <1>1, <1>2, <1>3, <1>4, <1>5, <1>6, <1>7, <1>8, <1>9 DEF UserStep

LEMMA UserSignalTypeOK ==
  ASSUME NEW u \in Users, SharedTypeOK, UserTypeOK, UserSignal(u)
  PROVE  SharedTypeOK' /\ UserTypeOK'
<1> USE DEF SharedTypeOK
<1>1. SigTypeOK'
  BY DEF UserSignal, SigTypeOK, Children, Signals
<1>2. UserTypeOK'
  BY DEF UserSignal, userVars, UserJump, UserTypeOK, UserPC
<1>q. QED  BY <1>1, <1>2, SharedFrame DEF UserSignal

(* Every step of the dispenser keeps the types. *)
LEMMA DispenserStepTypeOK ==
  ASSUME SharedTypeOK, DispenserTypeOK, DispenserStep
  PROVE  SharedTypeOK' /\ DispenserTypeOK'
<1> USE DEF SharedTypeOK, sharedVars, DispenserJump, DispenserPC, HandlingPC
<1>0. tpc \in HandlingPC => request.service \in Services /\ request.user \in Users
  BY DEF DispenserTypeOK, TicketMessage
<1>1. CASE DispenserSendInit
  <2>1. MsgTypeOK'
    BY <1>1 DEF DispenserSendInit, MsgTypeOK
  <2>2. DispenserTypeOK'
    BY <1>1 DEF DispenserSendInit, DispenserTypeOK
  <2>q. QED  BY <1>1, <2>1, <2>2, SharedFrame DEF DispenserSendInit
<1>2. CASE ReceiveRequest
  <2>1. MsgTypeOK'
    BY <1>2, HeadTailProperties DEF ReceiveRequest, MsgTypeOK
  <2>2. DispenserTypeOK'
    BY <1>2, HeadTailProperties DEF ReceiveRequest, MsgTypeOK, DispenserTypeOK
  <2>q. QED  BY <1>2, <2>1, <2>2, SharedFrame DEF ReceiveRequest
<1>3. CASE LockStatsForRequest
  <2>1. StatTypeOK'
    BY <1>3 DEF LockStatsForRequest, LockStats, StatTypeOK
  <2>2. DispenserTypeOK'
    BY <1>3 DEF LockStatsForRequest, DispenserTypeOK
  <2>q. QED  BY <1>3, <2>1, <2>2, SharedFrame DEF LockStatsForRequest, LockStats
<1>4. CASE CountRequest
  <2>1. StatTypeOK'
    BY <1>4, <1>0 DEF CountRequest, StatTypeOK
  <2>2. DispenserTypeOK'
    BY <1>4 DEF CountRequest, DispenserTypeOK
  <2>q. QED  BY <1>4, <2>1, <2>2, SharedFrame DEF CountRequest
<1>5. CASE CheckDayActive
  <2>1. DispenserTypeOK'
    BY <1>5 DEF CheckDayActive, DispenserTypeOK
  <2>q. QED  BY <1>5, <2>1, SharedFrame DEF CheckDayActive
<1>6. CASE CheckOffered
  <2>1. DispenserTypeOK'
    <3>1. seat' \in Counters
      BY <1>6, ZeroInRange DEF CheckOffered, DispenserTypeOK
    <3>2. tpc' \in {"offered", "q_lock", "ns_lock"} /\ request' = request
      BY <1>6 DEF CheckOffered
    <3>q. QED  BY <1>6, <3>1, <3>2 DEF CheckOffered, DispenserTypeOK
  <2>q. QED  BY <1>6, <2>1, SharedFrame DEF CheckOffered
<1>7. CASE DispenserLockQueue
  <2>1. QueueTypeOK'
    BY <1>7, <1>0 DEF DispenserLockQueue, LockQueue, QueueTypeOK
  <2>2. DispenserTypeOK'
    BY <1>7 DEF DispenserLockQueue, DispenserTypeOK
  <2>q. QED  BY <1>7, <2>1, <2>2, SharedFrame DEF DispenserLockQueue, LockQueue
<1>8. CASE RefuseLocked
  <2>1. QueueTypeOK'
    BY <1>8, <1>0 DEF RefuseLocked, QueueTypeOK
  <2>2. DispenserTypeOK'
    BY <1>8 DEF RefuseLocked, DispenserTypeOK
  <2>q. QED  BY <1>8, <2>1, <2>2, SharedFrame DEF RefuseLocked
<1>9. CASE AcceptLocked
  <2>1. DispenserTypeOK'
    BY <1>9 DEF AcceptLocked, DispenserTypeOK
  <2>q. QED  BY <1>9, <2>1, SharedFrame DEF AcceptLocked
<1>10. CASE PushTicket
  <2>1. QueueTypeOK'
    BY <1>10, <1>0, AppendProperties DEF PushTicket, PushQueue, QueueTypeOK
  <2>2. DispenserTypeOK'
    BY <1>10 DEF PushTicket, DispenserTypeOK
  <2>q. QED  BY <1>10, <2>1, <2>2, SharedFrame DEF PushTicket
<1>11. CASE PostJob
  <2>1. QueueTypeOK'
    BY <1>11, <1>0 DEF PostJob, QueueTypeOK
  <2>2. DispenserTypeOK'
    BY <1>11 DEF PostJob, DispenserTypeOK
  <2>q. QED  BY <1>11, <2>1, <2>2, SharedFrame DEF PostJob
<1>12. CASE LockStatsForRefusal
  <2>1. StatTypeOK'
    BY <1>12 DEF LockStatsForRefusal, LockStats, StatTypeOK
  <2>2. DispenserTypeOK'
    BY <1>12 DEF LockStatsForRefusal, DispenserTypeOK
  <2>q. QED  BY <1>12, <2>1, <2>2, SharedFrame DEF LockStatsForRefusal, LockStats
<1>13. CASE CountRefusal
  <2>1. StatTypeOK'
    BY <1>13, <1>0 DEF CountRefusal, StatTypeOK
  <2>2. DispenserTypeOK'
    BY <1>13 DEF CountRefusal, DispenserTypeOK
  <2>q. QED  BY <1>13, <2>1, <2>2, SharedFrame DEF CountRefusal
<1>14. CASE ReplyRefusal
  <2>1. MsgTypeOK'
    BY <1>14, <1>0, ReplyTypeOK DEF ReplyRefusal, MsgTypeOK
  <2>2. DispenserTypeOK'
    BY <1>14 DEF ReplyRefusal, DispenserTypeOK
  <2>q. QED  BY <1>14, <2>1, <2>2, SharedFrame DEF ReplyRefusal
<1>15. CASE DispenserTestLoop
  <2>1. DispenserTypeOK'
    BY <1>15 DEF DispenserTestLoop, DispenserTypeOK
  <2>q. QED  BY <1>15, <2>1, SharedFrame DEF DispenserTestLoop
<1>16. CASE DispenserLosesIpc
  <2>1. DispenserTypeOK'
    BY <1>16 DEF DispenserLosesIpc, DispenserTypeOK
  <2>q. QED  BY <1>16, <2>1, SharedFrame DEF DispenserLosesIpc
<1>q. QED  BY <1>1, <1>2, <1>3, <1>4, <1>5, <1>6, <1>7, <1>8, <1>9, <1>10, <1>11, <1>12, <1>13, <1>14, <1>15, <1>16 DEF DispenserStep, DispenserIpcStep

LEMMA DispenserSignalTypeOK ==
  ASSUME SharedTypeOK, DispenserTypeOK, DispenserSignal
  PROVE  SharedTypeOK' /\ DispenserTypeOK'
<1> USE DEF SharedTypeOK
<1>1. SigTypeOK'
  BY DEF DispenserSignal, SigTypeOK, Children, Signals
<1>2. DispenserTypeOK'
  BY DEF DispenserSignal, DispenserInterrupted, DispenserJump, dispenserVars,
         DispenserTypeOK, DispenserPC, HandlingPC
<1>q. QED  BY <1>1, <1>2, SharedFrame DEF DispenserSignal

LEMMA WorkersFinite == NOF_WORKERS \in Nat /\ NOF_USERS \in Nat
  BY ProcessAssumption, FS_CardinalityType DEF NOF_WORKERS, NOF_USERS

LEMMA CountersCounted == \A s \in Services : Cardinality(CountersFor(s)) \in Nat
<1>1. IsFiniteSet(Counters)
  BY ConfigAssumption, FS_Interval DEF Counters
<1>q. QED  BY <1>1, FS_Subset, FS_CardinalityType DEF CountersFor

(* Every step of the director keeps the types. *)
LEMMA DirectorStepTypeOK ==
  ASSUME NEW gone, SharedTypeOK, DirectorTypeOK, DirectorStep(gone)
  PROVE  SharedTypeOK' /\ DirectorTypeOK'
<1> USE DEF SharedTypeOK, sharedVars, DirectorJump, DirectorPC, EveningPC,
            directorLocals, envVars
<1>0. dpc \in EveningPC => cursor \in Services
  BY DEF DirectorTypeOK
<1>1. CASE ReceiveInit
  <2>1. MsgTypeOK'
    BY <1>1 DEF ReceiveInit, MsgTypeOK
  <2>2. DirectorTypeOK'
    BY <1>1, ZeroInRange DEF ReceiveInit, DirectorTypeOK
  <2>q. QED  BY <1>1, <2>1, <2>2, SharedFrame DEF ReceiveInit
<1>2. CASE NextDay
  <2>1. CfgTypeOK'
    BY <1>2, ConfigAssumption DEF NextDay, DirectorTypeOK, CfgTypeOK
  <2>2. DirectorTypeOK'
    BY <1>2 DEF NextDay, DirectorTypeOK
  <2>q. QED  BY <1>2, <2>1, <2>2, SharedFrame DEF NextDay, deskVars
<1>3. CASE LastDayDone
  <2>1. DirectorTypeOK'
    BY <1>3 DEF LastDayDone, DirectorTypeOK
  <2>q. QED  BY <1>3, <2>1, SharedFrame DEF LastDayDone
<1>4. CASE LockStatsForReset
  <2>1. StatTypeOK'
    BY <1>4 DEF LockStatsForReset, LockStats, StatTypeOK
  <2>2. DirectorTypeOK'
    BY <1>4 DEF LockStatsForReset, DirectorTypeOK
  <2>q. QED  BY <1>4, <2>1, <2>2, SharedFrame DEF LockStatsForReset, LockStats
<1>5. CASE ResetDay
  <2>1. StatTypeOK'
    BY <1>5 DEF ResetDay, StatTypeOK
  <2>2. WorkerTypeOK'
    BY <1>5 DEF ResetDay, WorkerTypeOK
  <2>3. DirectorTypeOK'
    BY <1>5, ZeroInRange DEF ResetDay, DirectorTypeOK
  <2>q. QED  BY <1>5, <2>1, <2>2, <2>3, SharedFrame DEF ResetDay
<1>6. CASE AssignCounter
  <2>1. DeskTypeOK'
    BY <1>6 DEF AssignCounter, DirectorTypeOK, DeskTypeOK
  <2>2. DirectorTypeOK'
    BY <1>6, ZeroInRange DEF AssignCounter, DirectorTypeOK
  <2>q. QED  BY <1>6, <2>1, <2>2, SharedFrame DEF AssignCounter
<1>7. CASE OpenDay
  <2>1. CfgTypeOK'
    BY <1>7 DEF OpenDay, CfgTypeOK
  <2>2. DeskTypeOK'
    BY <1>7, CountersCounted DEF OpenDay, DeskTypeOK
  <2>3. QueueTypeOK'
    BY <1>7, EmptySeq DEF OpenDay, QueueTypeOK
  <2>4. SigTypeOK'
    BY <1>7 DEF OpenDay, Signal, Signals, flagVars, SigTypeOK
  <2>5. DirectorTypeOK'
    BY <1>7 DEF OpenDay, DirectorTypeOK
  <2>q. QED  BY <1>7, <2>1, <2>2, <2>3, <2>4, <2>5, SharedFrame DEF OpenDay
<1>8. CASE CloseDay
  <2>1. CfgTypeOK'
    BY <1>8 DEF CloseDay, CfgTypeOK
  <2>2. SigTypeOK'
    BY <1>8 DEF CloseDay, Signal, Signals, flagVars, SigTypeOK
  <2>3. DirectorTypeOK'
    BY <1>8 DEF CloseDay, DirectorTypeOK
  <2>q. QED  BY <1>8, <2>1, <2>2, <2>3, SharedFrame DEF CloseDay
<1>9. CASE ReceiveFinished
  <2>1. MsgTypeOK'
    BY <1>9 DEF ReceiveFinished, MsgTypeOK
  <2>2. DirectorTypeOK'
    BY <1>9, ZeroInRange DEF ReceiveFinished, DirectorTypeOK
  <2>q. QED  BY <1>9, <2>1, <2>2, SharedFrame DEF ReceiveFinished
<1>10. CASE CountQueue
  <2>1. CfgTypeOK'
    BY <1>10 DEF CountQueue, CfgTypeOK
  <2>2. DirectorTypeOK'
    BY <1>10, ZeroInRange, LenProperties DEF CountQueue, QueueTypeOK, LastService, DirectorTypeOK
  <2>q. QED  BY <1>10, <2>1, <2>2, SharedFrame DEF CountQueue
<1>11. CASE FlushLockQueue
  <2>1. QueueTypeOK'
    BY <1>11, <1>0 DEF FlushLockQueue, LockQueue, QueueTypeOK
  <2>2. DirectorTypeOK'
    BY <1>11 DEF FlushLockQueue, DirectorTypeOK
  <2>q. QED  BY <1>11, <2>1, <2>2, SharedFrame DEF FlushLockQueue, LockQueue
<1>12. CASE FlushPop
  <2>1. QueueTypeOK'
    BY <1>12, <1>0, HeadOfQueue DEF FlushPop, PopQueue, QueueTypeOK
  <2>2. DirectorTypeOK'
    BY <1>12, <1>0, HeadOfQueue DEF FlushPop, DirectorTypeOK
  <2>q. QED  BY <1>12, <2>1, <2>2, SharedFrame DEF FlushPop
<1>13. CASE FlushReply
  <2>1. MsgTypeOK'
    BY <1>13, <1>0, ReplyTypeOK DEF FlushReply, MsgTypeOK
  <2>2. DirectorTypeOK'
    BY <1>13 DEF FlushReply, DirectorTypeOK
  <2>q. QED  BY <1>13, <2>1, <2>2, SharedFrame DEF FlushReply
<1>14. CASE LockStatsForFlush
  <2>1. StatTypeOK'
    BY <1>14 DEF LockStatsForFlush, LockStats, StatTypeOK
  <2>2. DirectorTypeOK'
    BY <1>14 DEF LockStatsForFlush, DirectorTypeOK
  <2>q. QED  BY <1>14, <2>1, <2>2, SharedFrame DEF LockStatsForFlush, LockStats
<1>15. CASE CountFlushed
  <2>1. StatTypeOK'
    BY <1>15, <1>0 DEF CountFlushed, StatTypeOK
  <2>2. DirectorTypeOK'
    BY <1>15 DEF CountFlushed, DirectorTypeOK
  <2>q. QED  BY <1>15, <2>1, <2>2, SharedFrame DEF CountFlushed
<1>16. CASE FlushUnlockQueue
  <2>1. QueueTypeOK'
    BY <1>16, <1>0 DEF FlushUnlockQueue, QueueTypeOK
  <2>2. DirectorTypeOK'
    BY <1>16, ZeroInRange DEF FlushUnlockQueue, LastService, DirectorTypeOK
  <2>q. QED  BY <1>16, <2>1, <2>2, SharedFrame DEF FlushUnlockQueue
<1>17. CASE PrintDay
  <2>1. DirectorTypeOK'
    BY <1>17 DEF PrintDay, DirectorTypeOK
  <2>q. QED  BY <1>17, <2>1, SharedFrame DEF PrintDay
<1>18. CASE DecideCause
  <2>1. CfgTypeOK'
    BY <1>18 DEF DecideCause, CfgTypeOK
  <2>2. DirectorTypeOK'
    BY <1>18 DEF DecideCause, DirectorTypeOK
  <2>q. QED  BY <1>18, <2>1, <2>2, SharedFrame DEF DecideCause
<1>19. CASE PrintFinal
  <2>1. DirectorTypeOK'
    BY <1>19 DEF PrintFinal, DirectorTypeOK
  <2>q. QED  BY <1>19, <2>1, SharedFrame DEF PrintFinal
<1>20. CASE StopChildren
  <2>1. SigTypeOK'
    BY <1>20 DEF StopChildren, Signal, Signals, flagVars, SigTypeOK
  <2>2. DirectorTypeOK'
    BY <1>20 DEF StopChildren, DirectorTypeOK
  <2>q. QED  BY <1>20, <2>1, <2>2, SharedFrame DEF StopChildren
<1>21. CASE CleanUp(gone)
  <2>1. DirectorTypeOK'
    BY <1>21 DEF CleanUp, DirectorTypeOK
  <2>q. QED  BY <1>21, <2>1, SharedFrame DEF CleanUp
<1>q. QED  BY <1>1, <1>2, <1>3, <1>4, <1>5, <1>6, <1>7, <1>8, <1>9, <1>10, <1>11, <1>12, <1>13, <1>14, <1>15, <1>16, <1>17, <1>18, <1>19, <1>20, <1>21 DEF DirectorStep

LEMMA DirectorSignalTypeOK ==
  ASSUME NEW gone, SharedTypeOK, DirectorTypeOK, Terminate(gone) \/ CtrlC(gone)
  PROVE  SharedTypeOK' /\ DirectorTypeOK'
<1>1. UNCHANGED sharedVars
  BY DEF Terminate, CtrlC, DirectorInterrupted
<1>2. dpc' \in DirectorPC /\ shutdown' \in BOOLEAN
  BY DEF Terminate, CtrlC, DirectorInterrupted, DirectorTypeOK, DirectorPC
<1>3. unreaped' \in SUBSET Children
  BY DEF Terminate, CtrlC, DirectorInterrupted, DirectorTypeOK
<1>4. kills' \in 0 .. MAX_KILLS /\ groupKilled' \in BOOLEAN
  <2>1. CASE Terminate(gone)
    BY <2>1, ConfigAssumption DEF Terminate, DirectorTypeOK
  <2>2. CASE CtrlC(gone)
    BY <2>2 DEF CtrlC, DirectorTypeOK
  <2>q. QED  BY <2>1, <2>2
<1>5. dpc' \in {dpc, "failed"}
  BY DEF Terminate, CtrlC, DirectorInterrupted
<1>6. cursor' = cursor /\ cursor \in Counters \cup Services
  BY ZeroInRange DEF Terminate, CtrlC, DirectorInterrupted, DirectorTypeOK
<1>7. DirectorTypeOK'
  BY <1>2, <1>3, <1>4, <1>5, <1>6 DEF Terminate, CtrlC, DirectorInterrupted,
     DirectorTypeOK, EveningPC
<1>q. QED  BY <1>1, <1>7, SharedFrame DEF SharedTypeOK, sharedVars

LEMMA InitTypeOK == Init => TypeOK
<1> SUFFICES ASSUME Init PROVE TypeOK
  OBVIOUS
<1> USE DEF Init
<1>1. SharedTypeOK
  <2>1. CfgTypeOK
    <3>1. 0 \in 0 .. SIM_DURATION
      BY ConfigAssumption
    <3>2. day = 0 /\ dayActive = FALSE /\ cause = "NONE"
      BY DEF SharedStateInit
    <3>q. QED  BY <3>1, <3>2 DEF CfgTypeOK
  <2>2. DeskTypeOK   BY DEF SharedStateInit, DeskTypeOK
  <2>3. WorkerTypeOK   BY DEF SharedStateInit, WorkerTypeOK
  <2>4. QueueTypeOK   BY EmptySeq DEF SharedStateInit, QueueTypeOK
  <2>5. StatTypeOK   BY DEF SharedStateInit, StatTypeOK
  <2>6. MsgTypeOK   BY EmptySeq DEF SharedStateInit, MsgTypeOK
  <2>7. SigTypeOK   BY DEF SharedStateInit, SigTypeOK
  <2>q. QED  BY <2>1, <2>2, <2>3, <2>4, <2>5, <2>6, <2>7 DEF SharedTypeOK
<1>2. OperatorTypeOK
  BY ZeroInRange DEF OperatorInit, OperatorTypeOK, OperatorPC
<1>3. UserTypeOK
  BY DEF UserInit, UserTypeOK, UserPC
<1>4. DispenserTypeOK
  BY ZeroInRange DEF DispenserInit, DispenserTypeOK, DispenserPC, HandlingPC
<1>5. DirectorTypeOK
  <2>1. shutdown \in BOOLEAN /\ kills \in 0 .. MAX_KILLS
    <3>1. shutdown \in BOOLEAN
      BY Zenon DEF DirectorInit
    <3>2. (kills = 0 \/ kills = 1) /\ kills <= MAX_KILLS
      BY DEF DirectorInit
    <3>q. QED  BY <3>1, <3>2, ConfigAssumption
  <2>2. groupKilled \in BOOLEAN /\ ipcRemoved \in BOOLEAN
    BY DEF DirectorInit, SharedStateInit
  <2>3. dpc = "wait_init" /\ cursor = 0 /\ unreaped = {}
    BY DEF DirectorInit
  <2>4. received = 0 /\ pendingUsers = 0 /\ flushed = 0 /\ flushTicket = None
    BY DEF DirectorInit
  <2>q. QED
    BY <2>1, <2>2, <2>3, <2>4 DEF DirectorTypeOK, DirectorPC, EveningPC
<1>q. QED  BY <1>1, <1>2, <1>3, <1>4, <1>5 DEF TypeOK

LEMMA NextTypeOK == TypeOK /\ [Next]_vars => TypeOK'
<1> SUFFICES ASSUME TypeOK, [Next]_vars PROVE TypeOK'
  OBVIOUS
<1> USE DEF TypeOK
<1>1. ASSUME NEW w \in Workers, OperatorRuns(w) PROVE TypeOK'
  BY <1>1, OperatorStepTypeOK, LocalFrame DEF OperatorRuns
<1>2. ASSUME NEW w \in Workers, OperatorIsSignalled(w) PROVE TypeOK'
  BY <1>2, OperatorSignalTypeOK, LocalFrame DEF OperatorIsSignalled
<1>3. ASSUME NEW u \in Users, UserRuns(u) PROVE TypeOK'
  BY <1>3, UserStepTypeOK, LocalFrame DEF UserRuns
<1>4. ASSUME NEW u \in Users, UserIsSignalled(u) PROVE TypeOK'
  BY <1>4, UserSignalTypeOK, LocalFrame DEF UserIsSignalled
<1>5. CASE DispenserRuns
  BY <1>5, DispenserStepTypeOK, LocalFrame DEF DispenserRuns
<1>6. CASE DispenserIsSignalled
  BY <1>6, DispenserSignalTypeOK, LocalFrame DEF DispenserIsSignalled
<1>7. CASE DirectorRuns
  BY <1>7, DirectorStepTypeOK, LocalFrame DEF DirectorRuns
<1>8. CASE DirectorIsSignalled
  BY <1>8, DirectorSignalTypeOK, LocalFrame DEF DirectorIsSignalled
<1>9. CASE UNCHANGED vars
  BY <1>9, SharedFrame, LocalFrame DEF vars, SharedTypeOK
<1>q. QED
  BY <1>1, <1>2, <1>3, <1>4, <1>5, <1>6, <1>7, <1>8, <1>9 DEF Next

(* The type invariant holds for every configuration read_config_file        *)
(* accepts: no program ever indexes an array with a counter, a service or   *)
(* a process that does not exist.                                           *)
THEOREM TypeCorrect == Spec => []TypeOK
  BY InitTypeOK, NextTypeOK, PTL DEF Spec

-----------------------------------------------------------------------------
(***************************************************************************)
(* Mutexes: statistics, counters and queues.  Each of the four programs is *)
(* looked at alone (what one step of it does to each mutex and to its own  *)
(* place), and one lemma about a step around a mutex serves them all.      *)
(***************************************************************************)

(* Mutual exclusion.  Whatever a process does, it enters the critical      *)
(* section of a mutex, leaves it, or neither: m and mm are the mutex before *)
(* and after, in and inNow whether the process is inside.                   *)
MutexStep(m, mm, in, inNow) ==
  \/ m = 1 /\ mm = 0 /\ ~in /\ inNow
  \/ mm = 1 /\ in /\ ~inNow
  \/ mm = m /\ (in <=> inNow)

LEMMA StepKeepsGuards ==
  ASSUME NEW m \in {0, 1}, NEW mm, NEW H, NEW HH, NEW p,
         Guards(m, H), \A q : q # p => (q \in H <=> q \in HH),
         MutexStep(m, mm, p \in H, p \in HH)
  PROVE  Guards(mm, HH)
<1>1. CASE m = 1 /\ mm = 0 /\ p \notin H /\ p \in HH
  BY <1>1 DEF Guards
<1>2. CASE mm = 1 /\ p \in H /\ p \notin HH
  BY <1>2 DEF Guards
<1>3. CASE mm = m /\ (p \in H <=> p \in HH)
  <2>1. HH = H
    BY <1>3
  <2>q. QED  BY <1>3, <2>1
<1>q. QED  BY <1>1, <1>2, <1>3 DEF MutexStep

(* Who is inside, one process at a time. *)
StatsPC == {"served", "pause"}
CounterPC == {"inspect", "claiming", "releasing"}

WhoIsInside ==
  /\ \A p : p \in StatsHeldBy <=>
       \/ p \in Workers /\ opc[p] \in StatsPC
       \/ p = Dispenser /\ tpc \in {"req", "ns"}
       \/ p = None /\ dpc \in {"reset_stats", "flush_stat"}
  /\ \A c, p : p \in CounterHeldBy(c) <=>
       p \in Workers /\ desk[p] = c /\ opc[p] \in CounterPC
  /\ \A s, p : p \in QueueHeldBy(s) <=>
       \/ p \in Workers /\ workerService[p] = s /\ opc[p] = "pop"
       \/ p = Dispenser /\ tpc \in {"q_check", "push"} /\ request.service = s
       \/ /\ p = None /\ cursor = s
          /\ dpc \in {"flush_next", "flush_reply", "flush_lock", "flush_stat"}

LEMMA Inside == WhoIsInside
  BY DEF WhoIsInside, StatsHeldBy, CounterHeldBy, QueueHeldBy, StatsPC, CounterPC

(* An operator touches one mutex at a time, and no local of another one.   *)
OperatorUsesMutexes(w) ==
  /\ workerService' = workerService
  /\ \A v \in Workers \ {w} : opc'[v] = opc[v] /\ desk'[v] = desk[v]
  /\ MutexStep(statsMutex, statsMutex', opc[w] \in StatsPC, opc'[w] \in StatsPC)
  /\ \A c \in Counters :
       MutexStep(counterMutex[c], counterMutex'[c], desk[w] = c /\ opc[w] \in CounterPC,
                 desk'[w] = c /\ opc'[w] \in CounterPC)
  /\ \A s \in Services :
       MutexStep(queueMutex[s], queueMutex'[s], workerService[w] = s /\ opc[w] = "pop",
                 workerService[w] = s /\ opc'[w] = "pop")

LEMMA OperatorMutexes ==
  ASSUME NEW w \in Workers, SharedTypeOK, OperatorTypeOK,
         OperatorStep(w) \/ OperatorSignal(w)
  PROVE  OperatorUsesMutexes(w)
<1> USE DEF OperatorUsesMutexes, MutexStep, StatsPC, CounterPC, OperatorJump,
            SharedTypeOK, OperatorTypeOK, sharedVars, deskVars, workerVars, queueVars,
            statVars
<1>1. CASE OperatorSendInit(w)
  BY <1>1 DEF OperatorSendInit
<1>2. CASE OperatorSuspend(w)
  BY <1>2 DEF OperatorSuspend
<1>3. CASE OperatorStartDay(w)
  BY <1>3 DEF OperatorStartDay
<1>4. CASE OperatorExit(w)
  BY <1>4 DEF OperatorExit
<1>5. CASE TestClaimLoop(w)
  BY <1>5 DEF TestClaimLoop
<1>6. CASE TakeToken(w)
  BY <1>6 DEF TakeToken
<1>7. CASE HandBackToken(w)
  BY <1>7 DEF HandBackToken
<1>8. CASE StartScan(w)
  BY <1>8 DEF StartScan
<1>9. CASE LockScanned(w)
  BY <1>9 DEF LockScanned, LockCounter, DeskTypeOK
<1>10. CASE FindCounter(w)
  BY <1>10 DEF FindCounter
<1>11. CASE SkipCounter(w)
  BY <1>11 DEF SkipCounter, DeskTypeOK
<1>12. CASE ClaimCounter(w)
  BY <1>12 DEF ClaimCounter, DeskTypeOK
<1>13. CASE TestServeLoop(w)
  BY <1>13 DEF TestServeLoop
<1>14. CASE WaitForTicket(w)
  BY <1>14 DEF WaitForTicket
<1>15. CASE OperatorLockQueue(w)
  BY <1>15 DEF OperatorLockQueue, LockQueue, QueueTypeOK, WorkerTypeOK
<1>16. CASE PopTicket(w)
  BY <1>16 DEF PopTicket, QueueTypeOK, WorkerTypeOK
<1>17. CASE PopNothing(w)
  BY <1>17 DEF PopNothing, QueueTypeOK, WorkerTypeOK
<1>18. CASE ServeTicket(w)
  BY <1>18 DEF ServeTicket, LockStats
<1>19. CASE CountServed(w)
  BY <1>19 DEF CountServed
<1>20. CASE ReplyServed(w)
  BY <1>20 DEF ReplyServed
<1>21. CASE StopAfterService(w)
  BY <1>21 DEF StopAfterService
<1>22. CASE KeepWorking(w)
  BY <1>22 DEF KeepWorking
<1>23. CASE TakePause(w)
  BY <1>23 DEF TakePause
<1>24. CASE LockStatsForPause(w)
  BY <1>24 DEF LockStatsForPause, LockStats
<1>25. CASE CountPause(w)
  BY <1>25 DEF CountPause
<1>26. CASE LockRelease(w)
  BY <1>26 DEF LockRelease, LockCounter, DeskTypeOK
<1>27. CASE ReleaseCounter(w)
  BY <1>27 DEF ReleaseCounter, DeskTypeOK
<1>28. CASE PostToken(w)
  BY <1>28 DEF PostToken
<1>29. CASE ReportDayFinished(w)
  BY <1>29 DEF ReportDayFinished
<1>30. CASE OperatorSignal(w)
  BY <1>30 DEF OperatorSignal, OperatorBlocked, AfterInterrupt
<1>q. QED
  BY <1>1, <1>2, <1>3, <1>4, <1>5, <1>6, <1>7, <1>8, <1>9, <1>10, <1>11, <1>12, <1>13, <1>14, <1>15, <1>16, <1>17, <1>18, <1>19, <1>20, <1>21, <1>22, <1>23, <1>24, <1>25, <1>26, <1>27, <1>28, <1>29, <1>30 DEF OperatorStep

(* As long as the semaphores exist; the dispenser uses no counter's mutex. *)
DispenserUsesMutexes ==
  /\ UNCHANGED <<counterMutex, workerService>>
  /\ ~ipcRemoved =>
       MutexStep(statsMutex, statsMutex', tpc \in {"req", "ns"}, tpc' \in {"req", "ns"})
  /\ ~ipcRemoved => \A s \in Services :
       MutexStep(queueMutex[s], queueMutex'[s],
                 tpc \in {"q_check", "push"} /\ request.service = s,
                 tpc' \in {"q_check", "push"} /\ request'.service = s)

LEMMA DispenserMutexes ==
  ASSUME SharedTypeOK, DispenserTypeOK, DispenserStep \/ DispenserSignal
  PROVE  DispenserUsesMutexes
<1> USE DEF DispenserUsesMutexes, MutexStep, DispenserJump, sharedVars, deskVars,
            queueVars, statVars, workerVars
<1>0. tpc \in HandlingPC => request.service \in Services
  BY DEF DispenserTypeOK, TicketMessage
<1>a. queueMutex \in [Services -> {0, 1}]
  BY DEF SharedTypeOK, QueueTypeOK
<1>1. CASE DispenserSendInit
  BY <1>1 DEF DispenserSendInit
<1>2. CASE ReceiveRequest
  BY <1>2 DEF ReceiveRequest
<1>3. CASE LockStatsForRequest
  BY <1>3 DEF LockStatsForRequest, LockStats
<1>4. CASE CountRequest
  BY <1>4 DEF CountRequest
<1>5. CASE CheckDayActive
  BY <1>5 DEF CheckDayActive
<1>6. CASE CheckOffered
  BY <1>6 DEF CheckOffered
<1>7. CASE DispenserLockQueue
  BY <1>7, <1>0, <1>a DEF DispenserLockQueue, LockQueue, HandlingPC
<1>8. CASE RefuseLocked
  BY <1>8, <1>0, <1>a DEF RefuseLocked, HandlingPC
<1>9. CASE AcceptLocked
  BY <1>9 DEF AcceptLocked
<1>10. CASE PushTicket
  BY <1>10, <1>0, <1>a DEF PushTicket, HandlingPC
<1>11. CASE PostJob
  BY <1>11 DEF PostJob
<1>12. CASE LockStatsForRefusal
  BY <1>12 DEF LockStatsForRefusal, LockStats
<1>13. CASE CountRefusal
  BY <1>13 DEF CountRefusal
<1>14. CASE ReplyRefusal
  BY <1>14 DEF ReplyRefusal
<1>15. CASE DispenserTestLoop
  BY <1>15 DEF DispenserTestLoop
<1>16. CASE DispenserLosesIpc
  BY <1>16 DEF DispenserLosesIpc
<1>17. CASE DispenserSignal
  BY <1>17 DEF DispenserSignal, DispenserInterrupted, dispenserVars
<1>q. QED
  BY <1>1, <1>2, <1>3, <1>4, <1>5, <1>6, <1>7, <1>8, <1>9, <1>10, <1>11, <1>12, <1>13, <1>14, <1>15, <1>16, <1>17 DEF DispenserStep, DispenserIpcStep

DirectorStatsPC == {"reset_stats", "flush_stat"}
FlushingPC == {"flush_next", "flush_reply", "flush_lock", "flush_stat"}

(* The director holds a counter's mutex only within AssignCounter.          *)
DirectorUsesMutexes ==
  /\ counterMutex' = counterMutex
  /\ ipcRemoved => ipcRemoved'
  /\ dpc = "failed" => dpc' = "failed"
  /\ workerService' = workerService
  /\ MutexStep(statsMutex, statsMutex', dpc \in DirectorStatsPC, dpc' \in DirectorStatsPC)
  /\ dpc' # "failed" => \A s \in Services :
       MutexStep(queueMutex[s], queueMutex'[s], dpc \in FlushingPC /\ cursor = s,
                 dpc' \in FlushingPC /\ cursor' = s)

LEMMA DirectorMutexes ==
  ASSUME NEW gone, SharedTypeOK, DirectorTypeOK,
         DirectorStep(gone) \/ Terminate(gone) \/ CtrlC(gone)
  PROVE  DirectorUsesMutexes
<1> USE DEF DirectorUsesMutexes, MutexStep, DirectorJump, DirectorStatsPC, FlushingPC,
            sharedVars, deskVars, workerVars, queueVars, statVars, directorLocals,
            envVars
<1>a. queueMutex \in [Services -> {0, 1}]
  BY DEF SharedTypeOK, QueueTypeOK
<1>1. CASE ReceiveInit
  BY <1>1 DEF ReceiveInit
<1>2. CASE NextDay
  BY <1>2 DEF NextDay
<1>3. CASE LastDayDone
  BY <1>3 DEF LastDayDone
<1>4. CASE LockStatsForReset
  BY <1>4 DEF LockStatsForReset, LockStats
<1>5. CASE ResetDay
  BY <1>5 DEF ResetDay
<1>6. CASE AssignCounter
  BY <1>6 DEF AssignCounter
<1>7. CASE OpenDay
  BY <1>7 DEF OpenDay
<1>8. CASE CloseDay
  BY <1>8 DEF CloseDay
<1>9. CASE ReceiveFinished
  BY <1>9 DEF ReceiveFinished
<1>10. CASE CountQueue
  BY <1>10 DEF CountQueue
<1>11. CASE FlushLockQueue
  BY <1>11, <1>a DEF FlushLockQueue, LockQueue
<1>12. CASE FlushPop
  BY <1>12 DEF FlushPop
<1>13. CASE FlushReply
  BY <1>13 DEF FlushReply
<1>14. CASE LockStatsForFlush
  BY <1>14 DEF LockStatsForFlush, LockStats
<1>15. CASE CountFlushed
  BY <1>15 DEF CountFlushed
<1>16. CASE FlushUnlockQueue
  BY <1>16, <1>a DEF FlushUnlockQueue
<1>17. CASE PrintDay
  BY <1>17 DEF PrintDay
<1>18. CASE DecideCause
  BY <1>18 DEF DecideCause
<1>19. CASE PrintFinal
  BY <1>19 DEF PrintFinal
<1>20. CASE StopChildren
  BY <1>20 DEF StopChildren
<1>21. CASE CleanUp(gone)
  BY <1>21 DEF CleanUp
<1>22. CASE Terminate(gone) \/ CtrlC(gone)
  BY <1>22 DEF Terminate, CtrlC, DirectorInterrupted, DirectorBlocked
<1>q. QED
  BY <1>1, <1>2, <1>3, <1>4, <1>5, <1>6, <1>7, <1>8, <1>9, <1>10, <1>11, <1>12, <1>13, <1>14, <1>15, <1>16, <1>17, <1>18, <1>19, <1>20, <1>21, <1>22 DEF DirectorStep

LEMMA UserMutexes ==
  ASSUME NEW u \in Users, UserStep(u) \/ UserSignal(u)
  PROVE  UNCHANGED <<deskVars, workerVars, queueVars, statVars>>
  BY DEF UserStep, UserSendInit, UserSuspend, UserExit, UserStaysHome, UserSetsOut,
         UserWakesUp, UserArrives, UserAsks, UserGetsReply, UserLosesIpc, UserSignal,
         sharedVars

LEMMA InitExclusive == Init => CriticalSectionsExclusive
<1> SUFFICES ASSUME Init PROVE CriticalSectionsExclusive
  OBVIOUS
<1>1. \A w \in Workers : opc[w] = "init"
  BY DEF Init, OperatorInit
<1>2. tpc = "init" /\ dpc = "wait_init"
  BY DEF Init, DispenserInit, DirectorInit
<1>3. statsMutex = 1 /\ StatsHeldBy = {}
  BY <1>1, <1>2, Inside DEF WhoIsInside, Init, SharedStateInit, StatsPC
<1>4. \A c \in Counters : counterMutex[c] = 1 /\ CounterHeldBy(c) = {}
  BY <1>1, <1>2, Inside DEF WhoIsInside, Init, SharedStateInit, CounterPC
<1>5. \A s \in Services : queueMutex[s] = 1 /\ QueueHeldBy(s) = {}
  BY <1>1, <1>2, Inside DEF WhoIsInside, Init, SharedStateInit
<1>q. QED  BY <1>3, <1>4, <1>5 DEF CriticalSectionsExclusive, Guards

(* The three parts of CriticalSectionsExclusive. *)
StatsExclusive == ~ipcRemoved => Guards(statsMutex, StatsHeldBy)
CountersExclusive == \A c \in Counters : Guards(counterMutex[c], CounterHeldBy(c))
QueuesExclusive ==
  dpc # "failed" /\ ~ipcRemoved =>
    \A s \in Services : Guards(queueMutex[s], QueueHeldBy(s))

LEMMA ThreeParts ==
  CriticalSectionsExclusive <=> StatsExclusive /\ CountersExclusive /\ QueuesExclusive
  BY DEF CriticalSectionsExclusive, StatsExclusive, CountersExclusive, QueuesExclusive

LEMMA MutexValues ==
  TypeOK => /\ statsMutex \in {0, 1}
            /\ \A c \in Counters : counterMutex[c] \in {0, 1}
            /\ \A s \in Services : queueMutex[s] \in {0, 1}
  BY DEF TypeOK, SharedTypeOK, StatTypeOK, DeskTypeOK, QueueTypeOK

LEMMA OperatorKeepsExclusive ==
  ASSUME TypeOK, StatsExclusive, CountersExclusive, QueuesExclusive,
         NEW w \in Workers, OperatorRuns(w) \/ OperatorIsSignalled(w)
  PROVE  StatsExclusive' /\ CountersExclusive' /\ QueuesExclusive'
<1>1. OperatorUsesMutexes(w)
  BY OperatorMutexes DEF TypeOK, OperatorRuns, OperatorIsSignalled
<1>2. UNCHANGED <<tpc, request, dpc, cursor, ipcRemoved>>
  BY DEF OperatorRuns, OperatorIsSignalled, dispenserVars, directorVars
<1>3. w # Dispenser /\ w # None
  BY ProcessAssumption DEF Children
<1>4. WhoIsInside /\ WhoIsInside'
  BY Inside, PTL
<1>5. StatsExclusive'
  <2>1. \A q : q # w => (q \in StatsHeldBy <=> q \in StatsHeldBy')
    BY <1>1, <1>2, <1>4 DEF WhoIsInside, OperatorUsesMutexes
  <2>2. MutexStep(statsMutex, statsMutex', w \in StatsHeldBy, w \in StatsHeldBy')
    BY <1>1, <1>3, <1>4 DEF WhoIsInside, OperatorUsesMutexes
  <2>q. QED  BY <1>2, <2>1, <2>2, MutexValues, StepKeepsGuards DEF StatsExclusive
<1>6. CountersExclusive'
  <2> SUFFICES ASSUME NEW c \in Counters
               PROVE  Guards(counterMutex'[c], CounterHeldBy(c)')
    BY DEF CountersExclusive
  <2>1. \A q : q # w => (q \in CounterHeldBy(c) <=> q \in CounterHeldBy(c)')
    BY <1>1, <1>4 DEF WhoIsInside, OperatorUsesMutexes
  <2>2. MutexStep(counterMutex[c], counterMutex'[c], w \in CounterHeldBy(c),
                  w \in CounterHeldBy(c)')
    BY <1>1, <1>4 DEF WhoIsInside, OperatorUsesMutexes
  <2>q. QED  BY <2>1, <2>2, MutexValues, StepKeepsGuards DEF CountersExclusive
<1>7. QueuesExclusive'
  <2> SUFFICES ASSUME dpc # "failed", ~ipcRemoved, NEW s \in Services
               PROVE  Guards(queueMutex'[s], QueueHeldBy(s)')
    BY <1>2 DEF QueuesExclusive
  <2>1. \A q : q # w => (q \in QueueHeldBy(s) <=> q \in QueueHeldBy(s)')
    BY <1>1, <1>2, <1>4 DEF WhoIsInside, OperatorUsesMutexes
  <2>2. MutexStep(queueMutex[s], queueMutex'[s], w \in QueueHeldBy(s),
                  w \in QueueHeldBy(s)')
    BY <1>1, <1>3, <1>4 DEF WhoIsInside, OperatorUsesMutexes
  <2>q. QED  BY <2>1, <2>2, MutexValues, StepKeepsGuards DEF QueuesExclusive
<1>q. QED  BY <1>5, <1>6, <1>7

LEMMA DispenserKeepsExclusive ==
  ASSUME TypeOK, StatsExclusive, CountersExclusive, QueuesExclusive,
         DispenserRuns \/ DispenserIsSignalled
  PROVE  StatsExclusive' /\ CountersExclusive' /\ QueuesExclusive'
<1>1. DispenserUsesMutexes
  BY DispenserMutexes DEF TypeOK, DispenserRuns, DispenserIsSignalled
<1>2. UNCHANGED <<opc, desk, workerService, counterMutex, dpc, cursor, ipcRemoved>>
  BY <1>1 DEF DispenserUsesMutexes, DispenserRuns, DispenserIsSignalled, operatorVars,
              directorVars
<1>3. \A w \in Workers : w # Dispenser
  BY ProcessAssumption
<1>a. None # Dispenser
  BY ProcessAssumption DEF Children
<1>4. WhoIsInside /\ WhoIsInside'
  BY Inside, PTL
<1>5. ASSUME ~ipcRemoved PROVE StatsExclusive'
  <2>1. \A q : q # Dispenser => (q \in StatsHeldBy <=> q \in StatsHeldBy')
    BY <1>2, <1>4 DEF WhoIsInside
  <2>2. MutexStep(statsMutex, statsMutex', Dispenser \in StatsHeldBy,
                  Dispenser \in StatsHeldBy')
    BY <1>1, <1>3, <1>a, <1>4, <1>5 DEF WhoIsInside, DispenserUsesMutexes
  <2>q. QED  BY <1>2, <1>5, <2>1, <2>2, MutexValues, StepKeepsGuards DEF StatsExclusive
<1>6. CountersExclusive'
  <2>1. \A c \in Counters : CounterHeldBy(c)' = CounterHeldBy(c)
    BY <1>2 DEF CounterHeldBy
  <2>q. QED  BY <1>2, <2>1 DEF CountersExclusive
<1>7. ASSUME ~ipcRemoved PROVE QueuesExclusive'
  <2> SUFFICES ASSUME dpc # "failed", NEW s \in Services
               PROVE  Guards(queueMutex'[s], QueueHeldBy(s)')
    BY <1>2 DEF QueuesExclusive
  <2>1. \A q : q # Dispenser => (q \in QueueHeldBy(s) <=> q \in QueueHeldBy(s)')
    BY <1>2, <1>4 DEF WhoIsInside
  <2>2. MutexStep(queueMutex[s], queueMutex'[s], Dispenser \in QueueHeldBy(s),
                  Dispenser \in QueueHeldBy(s)')
    BY <1>1, <1>3, <1>a, <1>4, <1>7 DEF WhoIsInside, DispenserUsesMutexes
  <2>q. QED  BY <1>7, <2>1, <2>2, MutexValues, StepKeepsGuards DEF QueuesExclusive
<1>q. QED  BY <1>2, <1>5, <1>6, <1>7 DEF StatsExclusive, QueuesExclusive

LEMMA DirectorKeepsExclusive ==
  ASSUME TypeOK, StatsExclusive, CountersExclusive, QueuesExclusive,
         DirectorRuns \/ DirectorIsSignalled
  PROVE  StatsExclusive' /\ CountersExclusive' /\ QueuesExclusive'
<1>1. DirectorUsesMutexes
  BY DirectorMutexes DEF TypeOK, DirectorRuns, DirectorIsSignalled
<1>2. UNCHANGED <<opc, desk, tpc, request>>
  BY DEF DirectorRuns, DirectorIsSignalled, operatorVars, dispenserVars
<1>3. None # Dispenser /\ \A w \in Workers : w # None
  BY ProcessAssumption DEF Children
<1>4. WhoIsInside /\ WhoIsInside'
  BY Inside, PTL
<1>b. (~ipcRemoved' => ~ipcRemoved) /\ (dpc' # "failed" => dpc # "failed")
  BY <1>1 DEF DirectorUsesMutexes
<1>5. StatsExclusive'
  <2>1. \A q : q # None => (q \in StatsHeldBy <=> q \in StatsHeldBy')
    BY <1>2, <1>4 DEF WhoIsInside
  <2>2. MutexStep(statsMutex, statsMutex', None \in StatsHeldBy, None \in StatsHeldBy')
    BY <1>1, <1>3, <1>4 DEF WhoIsInside, DirectorUsesMutexes, DirectorStatsPC
  <2>q. QED  BY <1>b, <2>1, <2>2, MutexValues, StepKeepsGuards DEF StatsExclusive
<1>6. CountersExclusive'
  <2>1. \A c \in Counters : CounterHeldBy(c)' = CounterHeldBy(c)
    BY <1>2 DEF CounterHeldBy
  <2>q. QED  BY <1>1, <2>1 DEF CountersExclusive, DirectorUsesMutexes
<1>7. QueuesExclusive'
  <2> SUFFICES ASSUME dpc' # "failed", ~ipcRemoved', NEW s \in Services
               PROVE  Guards(queueMutex'[s], QueueHeldBy(s)')
    BY DEF QueuesExclusive
  <2>1. \A q : q # None => (q \in QueueHeldBy(s) <=> q \in QueueHeldBy(s)')
    BY <1>1, <1>2, <1>4 DEF WhoIsInside, DirectorUsesMutexes
  <2>2. MutexStep(queueMutex[s], queueMutex'[s], None \in QueueHeldBy(s),
                  None \in QueueHeldBy(s)')
    BY <1>1, <1>3, <1>4 DEF WhoIsInside, DirectorUsesMutexes, FlushingPC
  <2>q. QED  BY <1>b, <2>1, <2>2, MutexValues, StepKeepsGuards DEF QueuesExclusive
<1>q. QED  BY <1>5, <1>6, <1>7

LEMMA QuietKeepsExclusive ==
  ASSUME StatsExclusive, CountersExclusive, QueuesExclusive,
         UNCHANGED <<opc, desk, workerService, tpc, request, dpc, cursor, ipcRemoved,
                     statsMutex, counterMutex, queueMutex>>
  PROVE  StatsExclusive' /\ CountersExclusive' /\ QueuesExclusive'
<1>1. StatsHeldBy' = StatsHeldBy
  BY DEF StatsHeldBy
<1>2. \A c : CounterHeldBy(c)' = CounterHeldBy(c)
  BY DEF CounterHeldBy
<1>3. \A s : QueueHeldBy(s)' = QueueHeldBy(s)
  BY DEF QueueHeldBy
<1>q. QED  BY <1>1, <1>2, <1>3 DEF StatsExclusive, CountersExclusive, QueuesExclusive

LEMMA NextExclusive ==
  TypeOK /\ CriticalSectionsExclusive /\ [Next]_vars => CriticalSectionsExclusive'
<1> SUFFICES ASSUME TypeOK, StatsExclusive, CountersExclusive, QueuesExclusive, [Next]_vars
             PROVE  StatsExclusive' /\ CountersExclusive' /\ QueuesExclusive'
  BY ThreeParts DEF CriticalSectionsExclusive, StatsExclusive, CountersExclusive,
                    QueuesExclusive
<1>1. ASSUME NEW w \in Workers, OperatorRuns(w) \/ OperatorIsSignalled(w)
      PROVE  StatsExclusive' /\ CountersExclusive' /\ QueuesExclusive'
  BY <1>1, OperatorKeepsExclusive
<1>2. ASSUME NEW u \in Users, UserRuns(u) \/ UserIsSignalled(u)
      PROVE  StatsExclusive' /\ CountersExclusive' /\ QueuesExclusive'
  BY <1>2, UserMutexes, QuietKeepsExclusive
  DEF UserRuns, UserIsSignalled, operatorVars, dispenserVars, directorVars, deskVars,
      workerVars, queueVars, statVars
<1>3. CASE DispenserRuns \/ DispenserIsSignalled
  BY <1>3, DispenserKeepsExclusive
<1>4. CASE DirectorRuns \/ DirectorIsSignalled
  BY <1>4, DirectorKeepsExclusive
<1>5. CASE UNCHANGED vars
  BY <1>5, QuietKeepsExclusive
  DEF vars, operatorVars, dispenserVars, directorVars, deskVars, workerVars, queueVars,
      statVars
<1>q. QED  BY <1>1, <1>2, <1>3, <1>4, <1>5 DEF Next

(* No two processes are ever inside the critical section of the same       *)
(* mutex, and no mutex is left taken by a process that is not inside:      *)
(* the semop of operator.c, erogatore_ticket.c and director.c come in      *)
(* pairs on every path, the interrupted ones included.                     *)
THEOREM MutexCorrect == Spec => []CriticalSectionsExclusive
<1>1. TypeOK /\ CriticalSectionsExclusive /\ [Next]_vars
        => CriticalSectionsExclusive'
  BY NextExclusive
<1>q. QED  BY <1>1, InitExclusive, TypeCorrect, PTL DEF Spec

-----------------------------------------------------------------------------
(***************************************************************************)
(* Barriers: the director does not start before every child has reported,  *)
(* and it does not leave a day before every operator has.                  *)
(***************************************************************************)

(* Children that have not sent their DIRECTOR_MSG_INIT. *)
Starting ==
  {p \in Children : \/ p \in Workers /\ opc[p] = "init"
                    \/ p \in Users /\ upc[p] = "init"
                    \/ p = Dispenser /\ tpc = "init"}

(* wait_for_initialization counts each of them once. *)
StartBarrier ==
  /\ dpc = "wait_init" => Cardinality(Starting) + inits + received = NOF_WORKERS + NOF_USERS + 1
  /\ dpc # "wait_init" => Starting = {} /\ inits = 0

(* Before the SIGTERMs, no operator has two days ahead of it: the one it   *)
(* has been told of is over before it is told of another.                  *)
Calm(w) ==
  /\ "TERM" \notin pending[w] /\ ~terminate[w] /\ opc[w] # "exited"
  /\ ~(dayStarted[w] /\ "USR1" \in pending[w])
  /\ opc[w] \notin {"idle", "suspend"} => ~dayStarted[w] /\ "USR1" \notin pending[w]

(* After them none begins a day. *)
Quiet(w) ==
  /\ opc[w] \in {"idle", "suspend", "exited"}
  /\ "USR1" \notin pending[w] /\ (dayStarted[w] => terminate[w])

(* received is the local of two loops, each of which starts it at 0. *)
CounterAtRest == dpc \notin {"wait_init", "wait_done"} => received = 0

(* Only a director at its end has removed anything. *)
RemovedAtEnd == ipcRemoved => dpc = "exited"

(* The inductive invariant. *)
BarrierInv ==
  /\ RemovedAtEnd
  /\ StartBarrier
  /\ ~Stopping => \A w \in Workers : Calm(w)
  /\ Stopping => \A w \in Workers : Quiet(w)
  /\ CounterAtRest
  /\ DayBarrier

-----------------------------------------------------------------------------
(* Counting.  A step takes at most one process out of a set, and then adds *)
(* one message to those that come from it.                                 *)
Reports(n, nn, in, inNow) ==
  \/ nn = n /\ (in <=> inNow)
  \/ nn = n + 1 /\ in /\ ~inNow

LEMMA CountStep ==
  ASSUME NEW S, NEW T, NEW p, NEW n \in Nat, NEW nn, IsFiniteSet(S),
         \A q : q # p => (q \in S <=> q \in T),
         Reports(n, nn, p \in S, p \in T)
  PROVE  /\ Cardinality(T) + nn = Cardinality(S) + n
         /\ S = {} => T = {} /\ nn = n
<1>1. CASE nn = n /\ (p \in S <=> p \in T)
  <2>1. S = T
    BY <1>1
  <2>q. QED  BY <1>1, <2>1
<1>2. CASE nn = n + 1 /\ p \in S /\ p \notin T
  <2>1. T = S \ {p}
    BY <1>2
  <2>2. Cardinality(T) = Cardinality(S) - 1 /\ Cardinality(S) \in Nat
    BY <1>2, <2>1, FS_RemoveElement, FS_CardinalityType
  <2>q. QED  BY <1>2, <2>2
<1>q. QED  BY <1>1, <1>2 DEF Reports

LEMMA ChildrenCounted ==
  /\ IsFiniteSet(Children) /\ Cardinality(Children) = NOF_WORKERS + NOF_USERS + 1
  /\ IsFiniteSet(Workers) /\ NOF_WORKERS \in Nat \ {0} /\ NOF_USERS \in Nat
<1>1. IsFiniteSet(Workers \cup Users)
  BY ProcessAssumption, FS_Union
<1>2. Cardinality(Workers \cup Users) = NOF_WORKERS + NOF_USERS
  <2>1. Cardinality(Workers \cap Users) = 0
    BY ProcessAssumption, FS_EmptySet
  <2>2. Cardinality(Workers \cup Users) =
          Cardinality(Workers) + Cardinality(Users) - Cardinality(Workers \cap Users)
    BY ProcessAssumption, FS_Union
  <2>q. QED  BY <2>1, <2>2, WorkersFinite DEF NOF_WORKERS, NOF_USERS
<1>3. Children = (Workers \cup Users) \cup {Dispenser} /\ Dispenser \notin Workers \cup Users
  BY ProcessAssumption DEF Children
<1>4. IsFiniteSet(Children) /\ Cardinality(Children) = Cardinality(Workers \cup Users) + 1
  BY <1>1, <1>3, FS_AddElement
<1>5. NOF_WORKERS # 0
  BY ProcessAssumption, FS_EmptySet DEF NOF_WORKERS
<1>q. QED  BY <1>2, <1>4, <1>5, ProcessAssumption, WorkersFinite

LEMMA SetsFinite ==
  /\ IsFiniteSet(Starting) /\ IsFiniteSet(Owing)
  /\ Cardinality(Starting) \in Nat /\ Cardinality(Owing) \in Nat
  /\ Cardinality(Starting) = 0 => Starting = {}
  /\ Cardinality(Owing) = 0 => Owing = {}
<1>1. IsFiniteSet(Starting)
  BY ChildrenCounted, FS_Subset DEF Starting
<1>2. IsFiniteSet(Owing)
  BY ChildrenCounted, FS_Subset DEF Owing
<1>q. QED  BY <1>1, <1>2, FS_CardinalityType, FS_EmptySet

-----------------------------------------------------------------------------
(* What a step of an operator does to what the barriers count. *)

OthersStay(w) ==
  \A v \in Workers \ {w} :
    /\ opc'[v] = opc[v] /\ dayStarted'[v] = dayStarted[v]
    /\ pending'[v] = pending[v] /\ terminate'[v] = terminate[v]

WithinDay(w) ==
  /\ opc[w] \in InDayPC /\ opc'[w] \in InDayPC
  /\ UNCHANGED <<inits, finished, pending, dayStarted, terminate>>

AtADoor(w) ==
  \/ OperatorSendInit(w) \/ OperatorSuspend(w) \/ OperatorStartDay(w)
  \/ OperatorExit(w) \/ ReportDayFinished(w)

LEMMA OperatorMoves ==
  ASSUME NEW w \in Workers, OperatorTypeOK, OperatorStep(w)
  PROVE  AtADoor(w) \/ (WithinDay(w) /\ OthersStay(w))
<1> USE DEF WithinDay, OthersStay, InDayPC, OperatorJump, OperatorTypeOK,
            sharedVars, msgVars, sigVars, flagVars
<1>1. CASE TestClaimLoop(w)
  BY <1>1 DEF TestClaimLoop
<1>2. CASE TakeToken(w)
  BY <1>2 DEF TakeToken
<1>3. CASE HandBackToken(w)
  BY <1>3 DEF HandBackToken
<1>4. CASE StartScan(w)
  BY <1>4 DEF StartScan
<1>5. CASE LockScanned(w)
  BY <1>5 DEF LockScanned, LockCounter
<1>6. CASE FindCounter(w)
  BY <1>6 DEF FindCounter
<1>7. CASE SkipCounter(w)
  BY <1>7 DEF SkipCounter
<1>8. CASE ClaimCounter(w)
  BY <1>8 DEF ClaimCounter
<1>9. CASE TestServeLoop(w)
  BY <1>9 DEF TestServeLoop
<1>10. CASE WaitForTicket(w)
  BY <1>10 DEF WaitForTicket
<1>11. CASE OperatorLockQueue(w)
  BY <1>11 DEF OperatorLockQueue, LockQueue
<1>12. CASE PopTicket(w)
  BY <1>12 DEF PopTicket
<1>13. CASE PopNothing(w)
  BY <1>13 DEF PopNothing
<1>14. CASE ServeTicket(w)
  BY <1>14 DEF ServeTicket, LockStats
<1>15. CASE CountServed(w)
  BY <1>15 DEF CountServed
<1>16. CASE ReplyServed(w)
  BY <1>16 DEF ReplyServed
<1>17. CASE StopAfterService(w)
  BY <1>17 DEF StopAfterService
<1>18. CASE KeepWorking(w)
  BY <1>18 DEF KeepWorking
<1>19. CASE TakePause(w)
  BY <1>19 DEF TakePause
<1>20. CASE LockStatsForPause(w)
  BY <1>20 DEF LockStatsForPause, LockStats
<1>21. CASE CountPause(w)
  BY <1>21 DEF CountPause
<1>22. CASE LockRelease(w)
  BY <1>22 DEF LockRelease, LockCounter
<1>23. CASE ReleaseCounter(w)
  BY <1>23 DEF ReleaseCounter
<1>24. CASE PostToken(w)
  BY <1>24 DEF PostToken
<1>q. QED
  BY <1>1, <1>2, <1>3, <1>4, <1>5, <1>6, <1>7, <1>8, <1>9, <1>10, <1>11, <1>12,
     <1>13, <1>14, <1>15, <1>16, <1>17, <1>18, <1>19, <1>20, <1>21, <1>22, <1>23,
     <1>24 DEF OperatorStep, AtADoor

LEMMA OperatorReports ==
  ASSUME NEW w \in Workers, SharedTypeOK, OperatorTypeOK,
         OperatorStep(w) \/ OperatorSignal(w)
  PROVE  /\ OthersStay(w)
         /\ Reports(inits, inits', opc[w] = "init", opc'[w] = "init")
         /\ Calm(w) => /\ Calm(w)'
                       /\ Reports(finished, finished', OwesReport(w), OwesReport(w)')
         /\ Quiet(w) => Quiet(w)'
<1> USE DEF OthersStay, Reports, OwesReport, Calm, Quiet, InDayPC, OperatorJump, OperatorTypeOK,
            sharedVars, msgVars, sigVars, flagVars
<1>a. pending \in [Children -> SUBSET Signals] /\ dayStarted \in [Workers \cup Users -> BOOLEAN]
      /\ terminate \in [Children -> BOOLEAN] /\ w \in Children
  BY DEF SharedTypeOK, SigTypeOK, Children
<1>1. CASE WithinDay(w) /\ OthersStay(w)
  BY <1>1 DEF WithinDay
<1>2. CASE OperatorSendInit(w)
  BY <1>2 DEF OperatorSendInit
<1>3. CASE OperatorSuspend(w)
  BY <1>3 DEF OperatorSuspend
<1>4. CASE OperatorStartDay(w)
  <2>1. /\ opc[w] = "idle" /\ opc'[w] = "claim" /\ dayStarted[w] /\ ~dayStarted'[w]
        /\ ~terminate[w]
        /\ UNCHANGED <<inits, finished, pending, terminate>>
        /\ OthersStay(w)
    BY <1>4, <1>a DEF OperatorStartDay
  <2>q. QED  BY <2>1
<1>5. CASE OperatorExit(w)
  BY <1>5 DEF OperatorExit
<1>6. CASE ReportDayFinished(w)
  BY <1>6 DEF ReportDayFinished
<1>7. CASE OperatorSignal(w)
  <2>1. /\ UNCHANGED <<inits, finished>> /\ opc[w] \notin {"exited", "failed"}
        /\ pending'[w] = {}
        /\ dayStarted'[w] = (dayStarted[w] \/ pending[w] \cap {"USR1", "TERM"} # {})
        /\ terminate'[w] = (terminate[w] \/ "TERM" \in pending[w])
    BY <1>7, <1>a DEF OperatorSignal
  <2>2. OthersStay(w)
    BY <1>7, <1>a DEF OperatorSignal, OperatorBlocked
  <2>3. \/ opc'[w] = opc[w]
        \/ opc[w] = "suspend" /\ opc'[w] = "idle"
        \/ opc[w] \in InDayPC /\ opc'[w] \in InDayPC \cup {"failed"}
    BY <1>7 DEF OperatorSignal, OperatorBlocked, AfterInterrupt
  <2>q. QED  BY <2>1, <2>2, <2>3
<1>q. QED
  BY <1>1, <1>2, <1>3, <1>4, <1>5, <1>6, <1>7, OperatorMoves DEF AtADoor

-----------------------------------------------------------------------------
(* Users and dispenser take part in the start only. *)

OperatorsStay ==
  /\ UNCHANGED finished
  /\ \A v \in Workers : /\ dayStarted'[v] = dayStarted[v]
                        /\ pending'[v] = pending[v] /\ terminate'[v] = terminate[v]

LEMMA UserReports ==
  ASSUME NEW u \in Users, SharedTypeOK, UserTypeOK, UserStep(u) \/ UserSignal(u)
  PROVE  /\ OperatorsStay
         /\ \A v \in Users \ {u} : upc'[v] = upc[v]
         /\ Reports(inits, inits', upc[u] = "init", upc'[u] = "init")
<1> USE DEF OperatorsStay, Reports, UserJump, UserTypeOK, sharedVars, msgVars, sigVars, flagVars
<1>a. pending \in [Children -> SUBSET Signals] /\ dayStarted \in [Workers \cup Users -> BOOLEAN]
      /\ terminate \in [Children -> BOOLEAN] /\ u \notin Workers
  BY ProcessAssumption DEF SharedTypeOK, SigTypeOK
<1>1. CASE UserSendInit(u)
  BY <1>1 DEF UserSendInit
<1>2. CASE UserSuspend(u)
  BY <1>2 DEF UserSuspend
<1>3. CASE UserExit(u)
  BY <1>3 DEF UserExit
<1>4. CASE UserStaysHome(u)
  BY <1>4, <1>a DEF UserStaysHome, UserWakesUp
<1>5. CASE UserSetsOut(u)
  BY <1>5, <1>a DEF UserSetsOut, UserWakesUp
<1>6. CASE UserArrives(u)
  BY <1>6 DEF UserArrives
<1>7. CASE UserAsks(u)
  BY <1>7 DEF UserAsks
<1>8. CASE UserGetsReply(u)
  BY <1>8 DEF UserGetsReply
<1>9. CASE UserLosesIpc(u)
  BY <1>9 DEF UserLosesIpc
<1>10. CASE UserSignal(u)
  <2>1. OperatorsStay /\ UNCHANGED inits
    BY <1>10, <1>a DEF UserSignal
  <2>2. /\ \A v \in Users \ {u} : upc'[v] = upc[v]
        /\ upc[u] = "init" <=> upc'[u] = "init"
    BY <1>10 DEF UserSignal, UserGivesUp, userVars
  <2>q. QED  BY <2>1, <2>2
<1>q. QED
  BY <1>1, <1>2, <1>3, <1>4, <1>5, <1>6, <1>7, <1>8, <1>9, <1>10 DEF UserStep

LEMMA DispenserReports ==
  ASSUME SharedTypeOK, DispenserTypeOK, ipcRemoved => tpc # "init",
         DispenserStep \/ DispenserSignal
  PROVE  OperatorsStay /\ Reports(inits, inits', tpc = "init", tpc' = "init")
<1> USE DEF OperatorsStay, Reports, DispenserJump, DispenserTypeOK, sharedVars, msgVars,
            sigVars, flagVars
<1>1. CASE DispenserSendInit
  BY <1>1 DEF DispenserSendInit
<1>2. CASE ReceiveRequest
  BY <1>2 DEF ReceiveRequest
<1>3. CASE LockStatsForRequest
  BY <1>3 DEF LockStatsForRequest, LockStats
<1>4. CASE CountRequest
  BY <1>4 DEF CountRequest
<1>5. CASE CheckDayActive
  BY <1>5 DEF CheckDayActive
<1>6. CASE CheckOffered
  BY <1>6 DEF CheckOffered
<1>7. CASE DispenserLockQueue
  BY <1>7 DEF DispenserLockQueue, LockQueue
<1>8. CASE RefuseLocked
  BY <1>8 DEF RefuseLocked
<1>9. CASE AcceptLocked
  BY <1>9 DEF AcceptLocked
<1>10. CASE PushTicket
  BY <1>10 DEF PushTicket
<1>11. CASE PostJob
  BY <1>11 DEF PostJob
<1>12. CASE LockStatsForRefusal
  BY <1>12 DEF LockStatsForRefusal, LockStats
<1>13. CASE CountRefusal
  BY <1>13 DEF CountRefusal
<1>14. CASE ReplyRefusal
  BY <1>14 DEF ReplyRefusal
<1>15. CASE DispenserTestLoop
  BY <1>15 DEF DispenserTestLoop
<1>16. CASE DispenserLosesIpc
  BY <1>16 DEF DispenserLosesIpc
<1>17. CASE DispenserSignal
  <2>1. pending \in [Children -> SUBSET Signals] /\ terminate \in [Children -> BOOLEAN]
        /\ \A v \in Workers : v # Dispenser /\ v \in Children
    BY ProcessAssumption DEF SharedTypeOK, SigTypeOK, Children
  <2>a. /\ UNCHANGED <<inits, finished, dayStarted>>
        /\ pending' = [pending EXCEPT ![Dispenser] = {}]
        /\ terminate' = [terminate EXCEPT ![Dispenser] = TRUE]
    BY <1>17 DEF DispenserSignal
  <2>2. OperatorsStay /\ UNCHANGED inits
    BY <2>1, <2>a
  <2>3. tpc = "init" <=> tpc' = "init"
    BY <1>17 DEF DispenserSignal, DispenserInterrupted, dispenserVars
  <2>q. QED  BY <2>2, <2>3
<1>q. QED
  BY <1>1, <1>2, <1>3, <1>4, <1>5, <1>6, <1>7, <1>8, <1>9, <1>10, <1>11, <1>12,
     <1>13, <1>14, <1>15, <1>16, <1>17 DEF DispenserStep, DispenserIpcStep

-----------------------------------------------------------------------------
(* A child's step keeps both barriers: it takes at most itself out of the  *)
(* processes that owe a message.                                           *)

LEMMA StartBarrierKept ==
  ASSUME NEW p, SharedTypeOK, DirectorTypeOK, StartBarrier, UNCHANGED <<dpc, received>>,
         \A q : q # p => (q \in Starting <=> q \in Starting'),
         Reports(inits, inits', p \in Starting, p \in Starting')
  PROVE  StartBarrier'
<1>1. inits \in Nat /\ received \in Nat
  BY DEF SharedTypeOK, MsgTypeOK, DirectorTypeOK
<1>2. /\ Cardinality(Starting') + inits' = Cardinality(Starting) + inits
      /\ Starting = {} => Starting' = {} /\ inits' = inits
  BY <1>1, SetsFinite, CountStep
<1>3. /\ Cardinality(Starting) \in Nat /\ Cardinality(Starting') \in Nat
      /\ inits' \in Nat
  <2>1. inits' \in Nat
    BY <1>1 DEF Reports
  <2>2. Starting' \in SUBSET Children
    BY DEF Starting
  <2>q. QED  BY <2>1, <2>2, SetsFinite, ChildrenCounted, FS_Subset,
     FS_CardinalityType
<1>4. CASE dpc = "wait_init"
  BY <1>1, <1>2, <1>3, <1>4 DEF StartBarrier
<1>5. CASE dpc # "wait_init"
  BY <1>2, <1>5 DEF StartBarrier
<1>q. QED  BY <1>4, <1>5

LEMMA DayBarrierKept ==
  ASSUME NEW p, SharedTypeOK, DirectorTypeOK, DayBarrier, UNCHANGED <<dpc, received>>,
         \A q : q # p => (q \in Owing <=> q \in Owing'),
         Reports(finished, finished', p \in Owing, p \in Owing')
  PROVE  DayBarrier'
<1>1. finished \in Nat /\ received \in Nat
  BY DEF SharedTypeOK, MsgTypeOK, DirectorTypeOK
<1>2. /\ Cardinality(Owing') + finished' = Cardinality(Owing) + finished
      /\ Owing = {} => Owing' = {} /\ finished' = finished
  BY <1>1, SetsFinite, CountStep
<1>3. /\ Cardinality(Owing) \in Nat /\ Cardinality(Owing') \in Nat
      /\ finished' \in Nat
  <2>1. finished' \in Nat
    BY <1>1 DEF Reports
  <2>2. Owing' \in SUBSET Workers
    BY DEF Owing
  <2>q. QED  BY <2>1, <2>2, SetsFinite, ChildrenCounted, FS_Subset,
     FS_CardinalityType
<1>4. CASE dpc \in DayPC
  BY <1>1, <1>2, <1>3, <1>4 DEF DayBarrier, DayPC
<1>5. CASE dpc \notin DayPC
  BY <1>2, <1>5 DEF DayBarrier, DayPC
<1>q. QED  BY <1>4, <1>5

LEMMA OperatorKeepsBarriers ==
  ASSUME NEW w \in Workers, TypeOK, BarrierInv, OperatorStep(w) \/ OperatorSignal(w),
         UNCHANGED <<userVars, dispenserVars, directorVars>>
  PROVE  BarrierInv'
<1> USE DEF TypeOK, userVars, dispenserVars, directorVars
<1>1. /\ OthersStay(w)
      /\ Reports(inits, inits', opc[w] = "init", opc'[w] = "init")
      /\ Calm(w) => Calm(w)' /\ Reports(finished, finished', OwesReport(w), OwesReport(w)')
      /\ Quiet(w) => Quiet(w)'
  BY OperatorReports
<1>2. w \in Children /\ w \notin Users /\ w # Dispenser
  BY ProcessAssumption DEF Children
<1>3. StartBarrier'
  <2>1. \A q : q # w => (q \in Starting <=> q \in Starting')
    BY <1>1, <1>2 DEF Starting, OthersStay
  <2>2. Reports(inits, inits', w \in Starting, w \in Starting')
    BY <1>1, <1>2 DEF Starting, Reports
  <2>q. QED  BY <2>1, <2>2, StartBarrierKept DEF BarrierInv
<1>4. CASE Stopping
  <2>1. \A v \in Workers : Quiet(v)'
    BY <1>1, <1>4 DEF BarrierInv, OthersStay, Quiet
  <2>q. QED
    BY <1>3, <1>4, <2>1
       DEF BarrierInv, RemovedAtEnd, CounterAtRest, DayBarrier, Stopping, DayPC
<1>5. CASE ~Stopping
  <2>1. \A v \in Workers : Calm(v)'
    BY <1>1, <1>5 DEF BarrierInv, OthersStay, Calm
  <2>2. DayBarrier'
    <3>1. \A q : q # w => (q \in Owing <=> q \in Owing')
      BY <1>1 DEF Owing, OwesReport, OthersStay
    <3>2. Reports(finished, finished', w \in Owing, w \in Owing')
      BY <1>1, <1>5 DEF Owing, Reports, BarrierInv
    <3>q. QED  BY <3>1, <3>2, DayBarrierKept DEF BarrierInv
  <2>q. QED  BY <1>3, <1>5, <2>1, <2>2
     DEF BarrierInv, RemovedAtEnd, CounterAtRest, Stopping
<1>q. QED  BY <1>4, <1>5

(* No step of a user or of the dispenser reaches what the days count. *)
LEMMA OthersKeepDays ==
  ASSUME BarrierInv, StartBarrier', OperatorsStay, UNCHANGED <<operatorVars, directorVars>>
  PROVE  BarrierInv'
<1> USE DEF operatorVars, directorVars
<1>1. Owing' = Owing
  BY DEF Owing, OwesReport, OperatorsStay
<1>2. DayBarrier'
  BY <1>1 DEF BarrierInv, DayBarrier, OperatorsStay, DayPC
<1>3. /\ ~Stopping' => \A v \in Workers : Calm(v)'
      /\ Stopping' => \A v \in Workers : Quiet(v)'
  BY DEF BarrierInv, Calm, Quiet, OperatorsStay, Stopping
<1>q. QED  BY <1>2, <1>3 DEF BarrierInv, RemovedAtEnd, CounterAtRest

LEMMA UserKeepsBarriers ==
  ASSUME NEW u \in Users, TypeOK, BarrierInv, UserStep(u) \/ UserSignal(u),
         UNCHANGED <<operatorVars, dispenserVars, directorVars>>
  PROVE  BarrierInv'
<1> USE DEF TypeOK, operatorVars, dispenserVars, directorVars
<1>1. /\ OperatorsStay
      /\ \A v \in Users \ {u} : upc'[v] = upc[v]
      /\ Reports(inits, inits', upc[u] = "init", upc'[u] = "init")
  BY UserReports
<1>2. u \in Children /\ u \notin Workers /\ u # Dispenser
  BY ProcessAssumption DEF Children
<1>3. \A q : q # u => (q \in Starting <=> q \in Starting')
  BY <1>1, <1>2 DEF Starting
<1>4. Reports(inits, inits', u \in Starting, u \in Starting')
  BY <1>1, <1>2 DEF Starting, Reports
<1>5. StartBarrier'
  BY <1>3, <1>4, StartBarrierKept DEF BarrierInv
<1>q. QED  BY <1>1, <1>5, OthersKeepDays

LEMMA DispenserKeepsBarriers ==
  ASSUME TypeOK, BarrierInv, DispenserStep \/ DispenserSignal,
         UNCHANGED <<operatorVars, userVars, directorVars>>
  PROVE  BarrierInv'
<1> USE DEF TypeOK, operatorVars, userVars, directorVars
<1>1. Dispenser \in Children /\ Dispenser \notin Workers /\ Dispenser \notin Users
  BY ProcessAssumption DEF Children
<1>2. ipcRemoved => tpc # "init"
  BY <1>1 DEF BarrierInv, RemovedAtEnd, StartBarrier, Starting
<1>3. OperatorsStay /\ Reports(inits, inits', tpc = "init", tpc' = "init")
  BY <1>2, DispenserReports
<1>4. \A q : q # Dispenser => (q \in Starting <=> q \in Starting')
  BY <1>1 DEF Starting
<1>5. Reports(inits, inits', Dispenser \in Starting, Dispenser \in Starting')
  BY <1>1, <1>3 DEF Starting, Reports
<1>6. StartBarrier'
  BY <1>4, <1>5, StartBarrierKept DEF BarrierInv
<1>q. QED  BY <1>3, <1>6, OthersKeepDays

-----------------------------------------------------------------------------
(* The director *)

(* Where it stands between the days. *)
BetweenDaysPC == DirectorPC \ (DayPC \cup {"wait_init", "reap", "exited"})

BetweenDays ==
  /\ dpc \in BetweenDaysPC /\ dpc' \in BetweenDaysPC
  /\ UNCHANGED <<inits, finished, received, pending, dayStarted, terminate, ipcRemoved>>

LEMMA DirectorMoves ==
  ASSUME NEW gone, DirectorStep(gone)
  PROVE  \/ BetweenDays
         \/ ReceiveInit \/ OpenDay \/ CloseDay \/ ReceiveFinished \/ StopChildren
         \/ CleanUp(gone)
<1> USE DEF BetweenDays, BetweenDaysPC, DirectorPC, EveningPC, DayPC, DirectorJump,
            sharedVars, msgVars, sigVars, flagVars, directorLocals, envVars
<1>1. CASE NextDay
  BY <1>1 DEF NextDay
<1>2. CASE LastDayDone
  BY <1>2 DEF LastDayDone
<1>3. CASE LockStatsForReset
  BY <1>3 DEF LockStatsForReset, LockStats
<1>4. CASE ResetDay
  BY <1>4 DEF ResetDay
<1>5. CASE AssignCounter
  BY <1>5 DEF AssignCounter
<1>6. CASE CountQueue
  BY <1>6 DEF CountQueue
<1>7. CASE FlushLockQueue
  BY <1>7 DEF FlushLockQueue, LockQueue
<1>8. CASE FlushPop
  BY <1>8 DEF FlushPop
<1>9. CASE FlushReply
  BY <1>9 DEF FlushReply
<1>10. CASE LockStatsForFlush
  BY <1>10 DEF LockStatsForFlush, LockStats
<1>11. CASE CountFlushed
  BY <1>11 DEF CountFlushed
<1>12. CASE FlushUnlockQueue
  BY <1>12 DEF FlushUnlockQueue
<1>13. CASE PrintDay
  BY <1>13 DEF PrintDay
<1>14. CASE DecideCause
  BY <1>14 DEF DecideCause
<1>15. CASE PrintFinal
  BY <1>15 DEF PrintFinal
<1>q. QED
  BY <1>1, <1>2, <1>3, <1>4, <1>5, <1>6, <1>7, <1>8, <1>9, <1>10, <1>11, <1>12,
     <1>13,
     <1>14, <1>15 DEF DirectorStep

LEMMA BetweenDaysKeepsBarriers ==
  ASSUME BarrierInv, BetweenDays, UNCHANGED <<operatorVars, userVars, dispenserVars>>
  PROVE  BarrierInv'
<1> USE DEF operatorVars, userVars, dispenserVars, BetweenDays, BetweenDaysPC, DayPC
<1>1. Owing' = Owing /\ Starting' = Starting
  BY DEF Owing, OwesReport, Starting
<1>2. DayBarrier'
  BY <1>1 DEF BarrierInv, DayBarrier
<1>3. StartBarrier'
  BY <1>1 DEF BarrierInv, StartBarrier
<1>4. \A v \in Workers : Calm(v)'
  BY DEF BarrierInv, Calm, Stopping
<1>q. QED  BY <1>2, <1>3, <1>4 DEF BarrierInv, RemovedAtEnd, CounterAtRest, Stopping

(* The morning: all operators are at home with nothing pending, and        *)
(* SIGUSR1 makes each of them owe a report.                                *)
LEMMA OpenDayKeepsBarriers ==
  ASSUME TypeOK, BarrierInv, OpenDay, UNCHANGED <<operatorVars, userVars, dispenserVars>>
  PROVE  BarrierInv'
<1> USE DEF operatorVars, userVars, dispenserVars
<1>1. dpc = "open" /\ dpc' = "day" /\ received = 0
  BY DEF OpenDay, DirectorJump, BarrierInv, CounterAtRest
<1>2. UNCHANGED <<inits, finished, received, dayStarted, terminate, ipcRemoved>>
  BY DEF OpenDay, msgVars, flagVars, directorLocals, envVars
<1>3. \A w \in Workers : pending'[w] = pending[w] \cup {"USR1"}
  BY DEF OpenDay, Signal, Children
<1>4. \A w \in Workers : opc[w] \in {"idle", "suspend"} /\ ~dayStarted[w]
  <2>1. Owing = {} /\ Starting = {}
    BY <1>1 DEF BarrierInv, DayBarrier, DayPC, StartBarrier
  <2>2. \A w \in Workers : ~OwesReport(w) /\ opc[w] # "init"
    BY <2>1 DEF Owing, Starting, Children
  <2>3. \A w \in Workers : opc[w] # "exited"
    BY <1>1 DEF BarrierInv, Stopping, Calm
  <2>q. QED  BY <2>2, <2>3 DEF OwesReport, TypeOK, OperatorTypeOK, OperatorPC
<1>5. \A w \in Workers : Calm(w)'
  BY <1>1, <1>2, <1>3, <1>4 DEF BarrierInv, Stopping, Calm
<1>6. DayBarrier'
  <2>1. \A w \in Workers : OwesReport(w)'
    BY <1>3, <1>4 DEF OwesReport
  <2>2. Owing' = Workers
    BY <2>1 DEF Owing
  <2>3. finished = 0
    BY <1>1 DEF BarrierInv, DayBarrier, DayPC
  <2>q. QED  BY <1>1, <1>2, <2>2, <2>3, WorkersFinite
     DEF DayBarrier, DayPC, NOF_WORKERS
<1>7. StartBarrier'
  BY <1>1, <1>2 DEF BarrierInv, StartBarrier, Starting
<1>q. QED
  BY <1>1, <1>2, <1>5, <1>6, <1>7
     DEF BarrierInv, RemovedAtEnd, CounterAtRest, Stopping

(* SIGUSR2 changes nothing for those who are yet to begin their day. *)
LEMMA CloseDayKeepsBarriers ==
  ASSUME TypeOK, BarrierInv, CloseDay, UNCHANGED <<operatorVars, userVars, dispenserVars>>
  PROVE  BarrierInv'
<1> USE DEF operatorVars, userVars, dispenserVars
<1>1. dpc = "day" /\ dpc' = "wait_done"
  BY DEF CloseDay, DirectorJump
<1>2. UNCHANGED <<inits, finished, received, dayStarted, terminate, ipcRemoved>>
  BY DEF CloseDay, msgVars, flagVars, directorLocals, envVars
<1>3. \A w \in Workers : pending'[w] = pending[w] \cup {"USR2"}
  BY DEF CloseDay, Signal, Children
<1>4. \A w \in Workers : Calm(w)'
  BY <1>1, <1>2, <1>3 DEF BarrierInv, Stopping, Calm
<1>5. Owing' = Owing
  BY <1>2, <1>3 DEF Owing, OwesReport
<1>6. DayBarrier'
  BY <1>1, <1>2, <1>5 DEF BarrierInv, DayBarrier, DayPC
<1>7. StartBarrier'
  BY <1>1, <1>2 DEF BarrierInv, StartBarrier, Starting
<1>q. QED
  BY <1>1, <1>2, <1>4, <1>6, <1>7
     DEF BarrierInv, RemovedAtEnd, CounterAtRest, Stopping

(* The last of the expected messages is the last there is. *)
LEMMA ReceiveKeepsBarriers ==
  ASSUME TypeOK, BarrierInv, ReceiveInit \/ ReceiveFinished,
         UNCHANGED <<operatorVars, userVars, dispenserVars>>
  PROVE  BarrierInv'
<1> USE DEF operatorVars, userVars, dispenserVars
<1>0. /\ inits \in Nat /\ finished \in Nat /\ received \in Nat
      /\ NOF_WORKERS \in Nat \ {0} /\ NOF_USERS \in Nat
      /\ Cardinality(Starting) \in Nat /\ Cardinality(Owing) \in Nat
  BY SetsFinite, ChildrenCounted DEF TypeOK, SharedTypeOK, MsgTypeOK, DirectorTypeOK
<1>1. UNCHANGED <<pending, dayStarted, terminate, ipcRemoved>>
  BY DEF ReceiveInit, ReceiveFinished, sigVars, flagVars, envVars
<1>2. Owing' = Owing /\ Starting' = Starting /\ \A w \in Workers : Calm(w)' <=> Calm(w)
  BY <1>1 DEF Owing, OwesReport, Starting, Calm
<1>3. CASE ReceiveInit
  <2>1. /\ dpc = "wait_init" /\ finished' = finished /\ inits > 0 /\ inits' = inits - 1
        /\ \/ dpc' = "top" /\ received' = 0 /\ received + 1 = NOF_WORKERS + NOF_USERS + 1
           \/ dpc' = "wait_init" /\ received' = received + 1
    BY <1>3 DEF ReceiveInit, DirectorJump
  <2>2. Cardinality(Starting) + inits + received = NOF_WORKERS + NOF_USERS + 1
    BY <2>1 DEF BarrierInv, StartBarrier
  <2>3. StartBarrier'
    <3>1. CASE dpc' = "top" /\ received + 1 = NOF_WORKERS + NOF_USERS + 1
      <4>1. Cardinality(Starting) = 0 /\ inits' = 0
        BY <1>0, <2>1, <2>2, <3>1
      <4>q. QED  BY <1>2, <3>1, <4>1, SetsFinite DEF StartBarrier
    <3>2. CASE dpc' = "wait_init" /\ received' = received + 1
      BY <1>0, <1>2, <2>1, <2>2, <3>2 DEF StartBarrier
    <3>q. QED  BY <2>1, <3>1, <3>2
  <2>4. DayBarrier'
    BY <1>2, <2>1 DEF BarrierInv, DayBarrier, DayPC
  <2>q. QED
    BY <1>1, <1>2, <2>1, <2>3, <2>4
       DEF BarrierInv, RemovedAtEnd, CounterAtRest, Stopping
<1>4. CASE ReceiveFinished
  <2>1. /\ dpc = "wait_done" /\ inits' = inits /\ finished > 0 /\ finished' = finished - 1
        /\ \/ dpc' = "count" /\ received' = 0 /\ received + 1 = NOF_WORKERS
           \/ dpc' = "wait_done" /\ received' = received + 1
    BY <1>4 DEF ReceiveFinished, DirectorJump
  <2>2. Cardinality(Owing) + finished + received = NOF_WORKERS
    BY <2>1 DEF BarrierInv, DayBarrier, DayPC
  <2>3. DayBarrier'
    <3>1. CASE dpc' = "count" /\ received + 1 = NOF_WORKERS
      <4>1. Cardinality(Owing) = 0 /\ finished' = 0
        BY <1>0, <2>1, <2>2, <3>1
      <4>q. QED  BY <1>2, <3>1, <4>1, SetsFinite DEF DayBarrier, DayPC
    <3>2. CASE dpc' = "wait_done" /\ received' = received + 1
      BY <1>0, <1>2, <2>1, <2>2, <3>2 DEF DayBarrier, DayPC
    <3>q. QED  BY <2>1, <3>1, <3>2
  <2>4. StartBarrier'
    BY <1>2, <2>1 DEF BarrierInv, StartBarrier
  <2>q. QED
    BY <1>1, <1>2, <2>1, <2>3, <2>4
       DEF BarrierInv, RemovedAtEnd, CounterAtRest, Stopping
<1>q. QED  BY <1>3, <1>4

(* The SIGTERMs find every operator at home. *)
LEMMA EndKeepsBarriers ==
  ASSUME NEW gone, TypeOK, BarrierInv, StopChildren \/ CleanUp(gone),
         UNCHANGED <<operatorVars, userVars, dispenserVars>>
  PROVE  BarrierInv'
<1> USE DEF operatorVars, userVars, dispenserVars
<1>1. \/ dpc = "stop" /\ dpc' = "reap" /\ ipcRemoved' = ipcRemoved
      \/ dpc = "reap" /\ dpc' = "exited"
  BY DEF StopChildren, CleanUp, DirectorJump, envVars
<1>2. UNCHANGED <<inits, finished, received>>
  BY DEF StopChildren, CleanUp, sharedVars, msgVars
<1>3. Stopping'
  BY <1>1 DEF Stopping
<1>4. StartBarrier'
  BY <1>1, <1>2 DEF BarrierInv, StartBarrier, Starting
<1>5. RemovedAtEnd' /\ CounterAtRest' /\ DayBarrier'
  BY <1>1, <1>2 DEF BarrierInv, RemovedAtEnd, CounterAtRest, DayBarrier, DayPC
<1>6. \A w \in Workers : Quiet(w)'
  <2>1. CASE StopChildren
    <3>1. \A w \in Workers : pending'[w] = pending[w] \cup {"TERM"}
      BY <2>1 DEF StopChildren, Signal, Children
    <3>2. Owing = {} /\ Starting = {} /\ dpc = "stop"
      BY <2>1
         DEF StopChildren, DirectorJump, BarrierInv, DayBarrier, DayPC, StartBarrier
    <3>3. \A w \in Workers : /\ opc[w] \in {"idle", "suspend"}
                             /\ ~dayStarted[w] /\ "USR1" \notin pending[w]
      <4>1. \A w \in Workers : ~OwesReport(w) /\ opc[w] # "init"
        BY <3>2 DEF Owing, Starting, Children
      <4>2. \A w \in Workers : opc[w] # "exited"
        BY <3>2 DEF BarrierInv, Stopping, Calm
      <4>q. QED  BY <4>1, <4>2 DEF OwesReport, TypeOK, OperatorTypeOK, OperatorPC
    <3>q. QED  BY <2>1, <3>1, <3>3 DEF StopChildren, flagVars, Quiet
  <2>2. CASE CleanUp(gone)
    BY <2>2
       DEF CleanUp, DirectorJump, BarrierInv, Stopping, Quiet, sharedVars, sigVars,
       flagVars
  <2>q. QED  BY <2>1, <2>2
<1>q. QED  BY <1>3, <1>4, <1>5, <1>6 DEF BarrierInv

(* A signal to the director ends it between the days at most. *)
LEMMA InterruptKeepsBarriers ==
  ASSUME NEW gone, BarrierInv, Terminate(gone) \/ CtrlC(gone),
         UNCHANGED <<operatorVars, userVars, dispenserVars>>
  PROVE  BarrierInv'
<1> USE DEF operatorVars, userVars, dispenserVars
<1>1. UNCHANGED <<inits, finished, received, pending, dayStarted, terminate, ipcRemoved>>
  BY DEF Terminate, CtrlC, DirectorInterrupted, sharedVars, msgVars, sigVars,
     flagVars
<1>2. \/ dpc' = dpc
      \/ dpc' = "failed" /\ dpc \notin DayPC \cup {"wait_init", "reap", "exited"}
  BY DEF Terminate, CtrlC, DirectorInterrupted, DirectorBlocked, DayPC
<1>3. /\ Owing' = Owing /\ Starting' = Starting
      /\ \A w \in Workers : Calm(w)' <=> Calm(w)
  BY <1>1 DEF Owing, OwesReport, Starting, Calm
<1>4. DayBarrier' /\ StartBarrier'
  BY <1>1, <1>2, <1>3 DEF BarrierInv, DayBarrier, StartBarrier, DayPC
<1>5. /\ ~Stopping' => \A w \in Workers : Calm(w)'
      /\ Stopping' => \A w \in Workers : Quiet(w)'
  BY <1>1, <1>2, <1>3 DEF BarrierInv, Stopping, Quiet
<1>q. QED
  BY <1>1, <1>2, <1>4, <1>5 DEF BarrierInv, RemovedAtEnd, CounterAtRest, DayPC

-----------------------------------------------------------------------------

LEMMA InitBarrier == Init => BarrierInv
<1> SUFFICES ASSUME Init PROVE BarrierInv
  OBVIOUS
<1> USE DEF Init
<1>1. /\ dpc = "wait_init" /\ received = 0 /\ ipcRemoved = FALSE
      /\ inits = 0 /\ finished = 0
  BY DEF DirectorInit, SharedStateInit
<1>2. \A w \in Workers : opc[w] = "init" /\ Calm(w) /\ ~OwesReport(w)
  BY DEF OperatorInit, SharedStateInit, Calm, OwesReport, InDayPC, Children
<1>3. Starting = Children /\ Owing = {}
  BY <1>2 DEF Starting, Owing, Children, UserInit, DispenserInit
<1>4. StartBarrier
  BY <1>1, <1>3, ChildrenCounted DEF StartBarrier
<1>5. DayBarrier
  BY <1>1, <1>3 DEF DayBarrier, DayPC
<1>q. QED
  BY <1>1, <1>2, <1>4, <1>5 DEF BarrierInv, RemovedAtEnd, CounterAtRest, Stopping

LEMMA NextBarrier == TypeOK /\ BarrierInv /\ [Next]_vars => BarrierInv'
<1> SUFFICES ASSUME TypeOK, BarrierInv, [Next]_vars PROVE BarrierInv'
  OBVIOUS
<1>1. ASSUME NEW w \in Workers, OperatorRuns(w) \/ OperatorIsSignalled(w) PROVE BarrierInv'
  BY <1>1, OperatorKeepsBarriers DEF OperatorRuns, OperatorIsSignalled
<1>2. ASSUME NEW u \in Users, UserRuns(u) \/ UserIsSignalled(u) PROVE BarrierInv'
  BY <1>2, UserKeepsBarriers DEF UserRuns, UserIsSignalled
<1>3. CASE DispenserRuns \/ DispenserIsSignalled
  BY <1>3, DispenserKeepsBarriers DEF DispenserRuns, DispenserIsSignalled
<1>4. CASE DirectorRuns
  BY <1>4, DirectorMoves, BetweenDaysKeepsBarriers, ReceiveKeepsBarriers,
     OpenDayKeepsBarriers, CloseDayKeepsBarriers, EndKeepsBarriers DEF DirectorRuns
<1>5. CASE DirectorIsSignalled
  BY <1>5, InterruptKeepsBarriers DEF DirectorIsSignalled
<1>6. CASE UNCHANGED vars
  <2>1. OperatorsStay
    BY <1>6 DEF vars, msgVars, sigVars, flagVars, OperatorsStay
  <2>3. StartBarrier'
    BY <1>6 DEF vars, operatorVars, userVars, dispenserVars, directorVars, msgVars,
       BarrierInv, StartBarrier, Starting
  <2>q. QED  BY <2>1, <2>3, <1>6, OthersKeepDays DEF vars
<1>q. QED
  BY <1>1, <1>2, <1>3, <1>4, <1>5, <1>6 DEF Next

LEMMA Barriers == Spec => []BarrierInv
  BY InitBarrier, NextBarrier, TypeCorrect, PTL DEF Spec

(* The director leaves neither barrier early, whatever the signals do: for  *)
(* any number of operators, while the day runs each owes its report, has it *)
(* in the queue or has had it counted, and outside nobody is at work.       *)
THEOREM DayBarrierHolds == Spec => []DayBarrier
<1>1. BarrierInv => DayBarrier
  BY DEF BarrierInv
<1>q. QED  BY <1>1, Barriers, PTL

(* cleanup_ipc removes the semaphores and the message queue under no       *)
(* operator that could still use them, for any number of operators and     *)
(* however the signals cut the director's waits short.                     *)
THEOREM OperatorsQuietAtCleanupHolds == Spec => []OperatorsQuietAtCleanup
<1>1. BarrierInv => OperatorsQuietAtCleanup
  BY DEF BarrierInv, RemovedAtEnd, Quiet, Stopping, OperatorsQuietAtCleanup
<1>q. QED  BY <1>1, Barriers, PTL

-----------------------------------------------------------------------------
(***************************************************************************)
(* Days: a counter has one operator, a token of the free-counter semaphore *)
(* is worth a counter, and the queues are empty from the flush to the next *)
(* morning.                                                                *)
(***************************************************************************)

(* Work goes on only between OpenDay and the last DAY_FINISHED. *)
LEMMA AtWorkByDay ==
  BarrierInv => \A w \in Workers : opc[w] \in InDayPC => dpc \in DayPC
<1> SUFFICES ASSUME BarrierInv, NEW w \in Workers, opc[w] \in InDayPC PROVE dpc \in DayPC
  OBVIOUS
<1>1. CASE Stopping
  BY <1>1 DEF BarrierInv, Quiet, InDayPC
<1>2. CASE ~Stopping
  BY <1>2 DEF BarrierInv, Stopping, DayBarrier, Owing, OwesReport
<1>q. QED  BY <1>1, <1>2

(* The first SIGUSR1 finds cleared counters. *)
Morning ==
  /\ dpc = "assign" => \A c \in Counters : c < cursor => counterWorker[c] = None
  /\ dpc = "open" => \A c \in Counters : counterWorker[c] = None

(* An operator that saw a free counter still holds its mutex. *)
Found == \A w \in Workers : opc[w] = "claiming" => IsFree(desk[w], workerService[w])

CounterInv == Morning /\ Found /\ CounterExclusive

-----------------------------------------------------------------------------
(* What a step of an operator does to counters and tokens. *)

TokenPC == {"recheck", "scan", "inspect", "claiming", "post_token"}
ScanPC == {"scan", "inspect", "claiming"}

CounterStep(w) ==
  \/ TakeToken(w) \/ HandBackToken(w) \/ StartScan(w) \/ FindCounter(w)
  \/ SkipCounter(w) \/ ClaimCounter(w) \/ ReleaseCounter(w) \/ PostToken(w)

OthersSit(w) ==
  /\ UNCHANGED <<counterService, workerService>>
  /\ \A v \in Workers \ {w} : /\ opc'[v] = opc[v] /\ desk'[v] = desk[v]
                              /\ currentCounter'[v] = currentCounter[v]

Aside(w) ==
  /\ UNCHANGED <<counterWorker, freeCounter, currentCounter>>
  /\ opc'[w] \in AtCounterPC => opc[w] \in AtCounterPC
  /\ opc'[w] \in TokenPC => opc[w] \in TokenPC
  /\ opc'[w] \in ScanPC => opc[w] \in ScanPC
  /\ opc'[w] = "claiming" => opc[w] = "claiming"
  /\ opc'[w] = "giveback" => opc[w] = "giveback"
  /\ opc'[w] \in AtCounterPC \cup ScanPC => desk'[w] = desk[w]

LEMMA OperatorSits ==
  ASSUME NEW w \in Workers, SharedTypeOK, OperatorTypeOK,
         OperatorStep(w) \/ OperatorSignal(w)
  PROVE  OthersSit(w) /\ (CounterStep(w) \/ Aside(w))
<1> USE DEF OthersSit, OperatorJump, OperatorTypeOK, SharedTypeOK, WorkerTypeOK,
            sharedVars, deskVars, workerVars
<1>1. CASE CounterStep(w)
  BY <1>1
     DEF CounterStep, TakeToken, HandBackToken, StartScan, FindCounter, SkipCounter,
     ClaimCounter, ReleaseCounter, PostToken
<1> USE DEF Aside, AtCounterPC, TokenPC, ScanPC
<1>2. CASE OperatorSendInit(w)
  BY <1>2 DEF OperatorSendInit
<1>3. CASE OperatorSuspend(w)
  BY <1>3 DEF OperatorSuspend
<1>4. CASE OperatorStartDay(w)
  BY <1>4 DEF OperatorStartDay
<1>5. CASE OperatorExit(w)
  BY <1>5 DEF OperatorExit
<1>6. CASE TestClaimLoop(w)
  BY <1>6 DEF TestClaimLoop
<1>7. CASE LockScanned(w)
  BY <1>7 DEF LockScanned, LockCounter
<1>8. CASE TestServeLoop(w)
  BY <1>8 DEF TestServeLoop
<1>9. CASE WaitForTicket(w)
  BY <1>9 DEF WaitForTicket
<1>10. CASE OperatorLockQueue(w)
  BY <1>10 DEF OperatorLockQueue, LockQueue
<1>11. CASE PopTicket(w)
  BY <1>11 DEF PopTicket
<1>12. CASE PopNothing(w)
  BY <1>12 DEF PopNothing
<1>13. CASE ServeTicket(w)
  BY <1>13 DEF ServeTicket, LockStats
<1>14. CASE CountServed(w)
  BY <1>14 DEF CountServed
<1>15. CASE ReplyServed(w)
  BY <1>15 DEF ReplyServed
<1>16. CASE StopAfterService(w)
  BY <1>16 DEF StopAfterService
<1>17. CASE KeepWorking(w)
  BY <1>17 DEF KeepWorking
<1>18. CASE TakePause(w)
  BY <1>18 DEF TakePause
<1>19. CASE LockStatsForPause(w)
  BY <1>19 DEF LockStatsForPause, LockStats
<1>20. CASE CountPause(w)
  BY <1>20 DEF CountPause
<1>21. CASE LockRelease(w)
  BY <1>21 DEF LockRelease, LockCounter
<1>22. CASE ReportDayFinished(w)
  BY <1>22 DEF ReportDayFinished
<1>23. CASE OperatorSignal(w)
  BY <1>23 DEF OperatorSignal, OperatorBlocked, AfterInterrupt
<1>q. QED
  BY <1>1, <1>2, <1>3, <1>4, <1>5, <1>6, <1>7, <1>8, <1>9, <1>10, <1>11, <1>12,
     <1>13,
     <1>14, <1>15, <1>16, <1>17, <1>18, <1>19, <1>20, <1>21, <1>22, <1>23
     DEF OperatorStep, CounterStep

-----------------------------------------------------------------------------
(* One operator at a counter *)

LEMMA OperatorKeepsCounters ==
  ASSUME NEW w \in Workers, TypeOK, CriticalSectionsExclusive, BarrierInv, CounterInv,
         OperatorStep(w) \/ OperatorSignal(w), UNCHANGED directorVars
  PROVE  CounterInv'
<1>0. /\ desk \in [Workers -> Counters] /\ opc \in [Workers -> OperatorPC]
      /\ counterWorker \in [Counters -> Workers \cup {None}]
      /\ currentCounter \in [Workers -> Counters \cup {None}] /\ None \notin Workers
  BY ProcessAssumption
     DEF TypeOK, SharedTypeOK, OperatorTypeOK, DeskTypeOK, WorkerTypeOK, Children
<1>1. OthersSit(w) /\ (CounterStep(w) \/ Aside(w))
  BY OperatorSits DEF TypeOK
<1>2. Morning'
  <2>1. CASE opc[w] \in InDayPC
    BY <2>1, AtWorkByDay DEF Morning, directorVars, DayPC
  <2>2. CASE opc[w] \notin InDayPC
    <3>1. counterWorker' = counterWorker
      BY <1>1, <2>2
         DEF CounterStep, TakeToken, HandBackToken, StartScan, FindCounter,
         SkipCounter,
         ClaimCounter, ReleaseCounter, PostToken, OperatorJump, InDayPC, Aside
    <3>q. QED  BY <3>1 DEF CounterInv, Morning, directorVars
  <2>q. QED  BY <2>1, <2>2
<1>3. CASE Aside(w)
  BY <1>0, <1>1, <1>2, <1>3
     DEF CounterInv, Found, CounterExclusive, OthersSit, Aside, IsFree, ScanPC
<1>4. CASE TakeToken(w) \/ HandBackToken(w) \/ StartScan(w) \/ SkipCounter(w) \/ PostToken(w)
  <2>1. UNCHANGED <<counterWorker, currentCounter>>
    BY <1>4
       DEF TakeToken, HandBackToken, StartScan, SkipCounter, PostToken, sharedVars,
       deskVars,
       workerVars
  <2>2. opc'[w] \notin AtCounterPC \cup {"claiming"}
    BY <1>0, <1>4
       DEF TakeToken, HandBackToken, StartScan, SkipCounter, PostToken,
       OperatorJump,
       AtCounterPC
  <2>q. QED
    BY <1>0, <1>1, <1>2, <2>1, <2>2
       DEF CounterInv, Found, CounterExclusive, OthersSit, IsFree
<1>5. CASE FindCounter(w)
  <2>1. /\ UNCHANGED <<counterWorker, currentCounter, desk>> /\ opc'[w] = "claiming"
        /\ IsFree(desk[w], workerService[w])
    BY <1>0, <1>5 DEF FindCounter, OperatorJump, sharedVars, deskVars, workerVars
  <2>q. QED
    BY <1>0, <1>1, <1>2, <2>1
       DEF CounterInv, Found, CounterExclusive, OthersSit, IsFree, AtCounterPC
<1>6. CASE ClaimCounter(w)
  <2>1. /\ opc[w] = "claiming" /\ opc'[w] = "loop" /\ desk' = desk
        /\ counterWorker' = [counterWorker EXCEPT ![desk[w]] = w]
        /\ currentCounter' = [currentCounter EXCEPT ![w] = desk[w]]
    BY <1>0, <1>6 DEF ClaimCounter, OperatorJump
  <2>2. IsFree(desk[w], workerService[w])
    BY <2>1 DEF CounterInv, Found
  <2>3. ASSUME NEW v \in Workers \ {w}, opc[v] \in AtCounterPC PROVE desk[v] # desk[w]
    BY <1>0, <2>2, <2>3 DEF CounterInv, CounterExclusive, IsFree
  <2>4. ASSUME NEW v \in Workers \ {w}, opc[v] = "claiming" PROVE desk[v] # desk[w]
    <3>1. w \in CounterHeldBy(desk[w])
      BY <2>1 DEF CounterHeldBy
    <3>2. desk[v] = desk[w] => v \in CounterHeldBy(desk[w])
      BY <2>4 DEF CounterHeldBy
    <3>q. QED  BY <1>0, <3>1, <3>2 DEF CriticalSectionsExclusive, Guards
  <2>5. Found'
    BY <1>0, <1>1, <2>1, <2>4 DEF CounterInv, Found, OthersSit, IsFree
  <2>6. CounterExclusive'
    BY <1>0, <1>1, <2>1, <2>2, <2>3
       DEF CounterInv, CounterExclusive, OthersSit, IsFree
  <2>q. QED  BY <1>2, <2>5, <2>6 DEF CounterInv
<1>7. CASE ReleaseCounter(w)
  <2>1. /\ opc[w] = "releasing" /\ opc'[w] = "post_token" /\ desk' = desk
        /\ counterWorker' = [counterWorker EXCEPT ![desk[w]] = None]
        /\ currentCounter' = [currentCounter EXCEPT ![w] = None]
    BY <1>0, <1>7 DEF ReleaseCounter, OperatorJump
  <2>2. counterWorker[desk[w]] = w
    BY <2>1 DEF CounterInv, CounterExclusive, AtCounterPC
  <2>3. Found'
    BY <1>0, <1>1, <2>1 DEF CounterInv, Found, OthersSit, IsFree
  <2>4. CounterExclusive'
    BY <1>0, <1>1, <2>1, <2>2
       DEF CounterInv, CounterExclusive, OthersSit, AtCounterPC
  <2>q. QED  BY <1>2, <2>3, <2>4 DEF CounterInv
<1>q. QED  BY <1>1, <1>3, <1>4, <1>5, <1>6, <1>7 DEF CounterStep

LEMMA DispenserSits ==
  ASSUME DispenserStep \/ DispenserSignal
  PROVE  UNCHANGED <<deskVars, workerVars>>
  BY DEF DispenserStep, DispenserIpcStep, DispenserSendInit, ReceiveRequest,
         LockStatsForRequest, CountRequest, CheckDayActive, CheckOffered,
         DispenserLockQueue, RefuseLocked, AcceptLocked, PushTicket, PostJob,
         LockStatsForRefusal, CountRefusal, ReplyRefusal, DispenserTestLoop,
         DispenserLosesIpc, DispenserSignal, LockStats, LockQueue, sharedVars

(* The director changes a counter in AssignCounter only, and nobody is at  *)
(* one then.                                                               *)
DirectorDesk ==
  \/ AssignCounter \/ ResetDay
  \/ /\ UNCHANGED <<counterService, counterWorker, workerService, currentCounter>>
     /\ dpc' # "open" \/ dpc = "open"
     /\ dpc' = "assign" => dpc = "assign" /\ cursor' = cursor

LEMMA DirectorDesks ==
  ASSUME NEW gone, DirectorStep(gone) \/ Terminate(gone) \/ CtrlC(gone)
  PROVE  DirectorDesk
<1> USE DEF DirectorDesk, DirectorJump, sharedVars, deskVars, workerVars
<1>1. CASE ReceiveInit \/ NextDay \/ LastDayDone \/ LockStatsForReset
  BY <1>1 DEF ReceiveInit, NextDay, LastDayDone, LockStatsForReset, LockStats
<1>2. CASE OpenDay \/ CloseDay \/ ReceiveFinished \/ CountQueue \/ FlushLockQueue
  BY <1>2
     DEF OpenDay, CloseDay, ReceiveFinished, CountQueue, FlushLockQueue, LockQueue
<1>3. CASE FlushPop \/ FlushReply \/ LockStatsForFlush \/ CountFlushed \/ FlushUnlockQueue
  BY <1>3
     DEF FlushPop, FlushReply, LockStatsForFlush, LockStats, CountFlushed,
     FlushUnlockQueue
<1>4. CASE PrintDay \/ DecideCause \/ PrintFinal \/ StopChildren \/ CleanUp(gone)
  BY <1>4 DEF PrintDay, DecideCause, PrintFinal, StopChildren, CleanUp
<1>5. CASE Terminate(gone) \/ CtrlC(gone)
  BY <1>5 DEF Terminate, CtrlC, DirectorInterrupted
<1>q. QED
  BY <1>1, <1>2, <1>3, <1>4, <1>5 DEF DirectorStep

LEMMA DirectorKeepsCounters ==
  ASSUME NEW gone, TypeOK, BarrierInv, CounterInv,
         DirectorStep(gone) \/ Terminate(gone) \/ CtrlC(gone), UNCHANGED operatorVars
  PROVE  CounterInv'
<1>0. /\ counterWorker \in [Counters -> Workers \cup {None}]
      /\ dpc = "assign" => cursor \in Counters
  BY DEF TypeOK, SharedTypeOK, DeskTypeOK, DirectorTypeOK
<1>1. ASSUME AssignCounter \/ ResetDay, NEW w \in Workers PROVE opc[w] \notin InDayPC
  BY <1>1, AtWorkByDay DEF AssignCounter, ResetDay, DirectorJump, DayPC
<1>2. CASE AssignCounter
  <2>1. /\ dpc = "assign" /\ counterWorker' = [counterWorker EXCEPT ![cursor] = None]
        /\ \/ cursor + 1 \notin Counters /\ dpc' = "open"
           \/ cursor + 1 \in Counters /\ dpc' = "assign" /\ cursor' = cursor + 1
    BY <1>2 DEF AssignCounter, DirectorJump
  <2>2. \A c \in Counters : c <= cursor => counterWorker'[c] = None
    <3>1. \A c \in Counters : c <= cursor => c < cursor \/ c = cursor
      BY <1>0, <2>1 DEF Counters
    <3>q. QED  BY <1>0, <2>1, <3>1 DEF CounterInv, Morning
  <2>3. \A c \in Counters : /\ cursor + 1 \notin Counters => c <= cursor
                            /\ c < cursor + 1 => c <= cursor
    BY <1>0, <2>1, ConfigAssumption DEF Counters
  <2>4. Morning'
    BY <2>1, <2>2, <2>3 DEF Morning
  <2>q. QED
    BY <1>1, <1>2, <2>4
       DEF operatorVars, CounterInv, Found, CounterExclusive, InDayPC, AtCounterPC
<1>3. CASE ResetDay
  <2>1. Morning'
    <3>1. dpc' = "assign" /\ cursor' = 0
      BY <1>3 DEF ResetDay, DirectorJump
    <3>2. \A c \in Counters : ~(c < 0)
      BY DEF Counters
    <3>q. QED  BY <3>1, <3>2 DEF Morning
  <2>q. QED
    BY <1>1, <1>3, <2>1
       DEF operatorVars, CounterInv, Found, CounterExclusive, InDayPC, AtCounterPC
<1>4. CASE ~(AssignCounter \/ ResetDay)
  <2>1. /\ UNCHANGED <<counterService, counterWorker, workerService, currentCounter>>
        /\ dpc' # "open" \/ dpc = "open"
        /\ dpc' = "assign" => dpc = "assign" /\ cursor' = cursor
    BY <1>4, DirectorDesks DEF DirectorDesk
  <2>q. QED
    BY <2>1 DEF operatorVars, CounterInv, Morning, Found, CounterExclusive, IsFree
<1>q. QED  BY <1>2, <1>3, <1>4

LEMMA InitCounters == Init => CounterInv
  BY DEF Init, OperatorInit, DirectorInit, CounterInv, Morning, Found,
     CounterExclusive, AtCounterPC

(* Nobody else comes near the counters. *)
LEMMA OthersKeepCounters ==
  ASSUME CounterInv, UNCHANGED <<deskVars, workerVars, operatorVars, directorVars>>
  PROVE  CounterInv'
  BY DEF CounterInv, Morning, Found, CounterExclusive, IsFree, deskVars, workerVars,
         operatorVars, directorVars

LEMMA NextCounters ==
  TypeOK /\ CriticalSectionsExclusive /\ BarrierInv /\ CounterInv /\ [Next]_vars => CounterInv'
<1> SUFFICES ASSUME TypeOK, CriticalSectionsExclusive, BarrierInv, CounterInv, [Next]_vars
             PROVE  CounterInv'
  OBVIOUS
<1>1. ASSUME NEW w \in Workers, OperatorRuns(w) \/ OperatorIsSignalled(w) PROVE CounterInv'
  BY <1>1, OperatorKeepsCounters DEF OperatorRuns, OperatorIsSignalled
<1>2. ASSUME NEW u \in Users, UserRuns(u) \/ UserIsSignalled(u) PROVE CounterInv'
  BY <1>2, UserMutexes, OthersKeepCounters DEF UserRuns, UserIsSignalled
<1>3. CASE DispenserRuns \/ DispenserIsSignalled
  BY <1>3, DispenserSits, OthersKeepCounters DEF DispenserRuns, DispenserIsSignalled
<1>4. CASE DirectorRuns \/ DirectorIsSignalled
  BY <1>4, DirectorKeepsCounters DEF DirectorRuns, DirectorIsSignalled
<1>5. CASE UNCHANGED vars
  BY <1>5, OthersKeepCounters DEF vars
<1>q. QED  BY <1>1, <1>2, <1>3, <1>4, <1>5 DEF Next

LEMMA Seated == Spec => []CounterInv
  BY InitCounters, NextCounters, TypeCorrect, MutexCorrect, Barriers, PTL DEF Spec

(* From the claim to the release a counter has exactly one operator, of    *)
(* the service the counter offers, however many operators look for one at  *)
(* the same time and whenever the day ends.                                *)
THEOREM CounterExclusiveHolds == Spec => []CounterExclusive
<1>1. CounterInv => CounterExclusive
  BY DEF CounterInv
<1>q. QED  BY <1>1, Seated, PTL

-----------------------------------------------------------------------------
(* The tokens *)

Backed(s) ==
  /\ freeCounter[s] + Cardinality(TokensOut(s)) <= Cardinality(FreeFrom(s, 0))
  /\ \A k \in Counters : Cardinality(ScanningFrom(s, k)) <= Cardinality(FreeFrom(s, k))

TokenInv == ScanAlwaysFinds /\ (dpc \in DayPC => \A s \in Services : Backed(s))

LEMMA TokenSetsFinite ==
  \A s, k : /\ IsFiniteSet(TokensOut(s)) /\ Cardinality(TokensOut(s)) \in Nat
            /\ IsFiniteSet(ScanningFrom(s, k)) /\ Cardinality(ScanningFrom(s, k)) \in Nat
            /\ IsFiniteSet(FreeFrom(s, k)) /\ Cardinality(FreeFrom(s, k)) \in Nat
<1> TAKE s, k
<1>1. IsFiniteSet(Workers) /\ IsFiniteSet(Counters)
  BY ProcessAssumption, ConfigAssumption, FS_Interval DEF Counters
<1>2. TokensOut(s) \subseteq Workers /\ ScanningFrom(s, k) \subseteq Workers
      /\ FreeFrom(s, k) \subseteq Counters
  BY DEF TokensOut, ScanningFrom, FreeFrom
<1>3. IsFiniteSet(TokensOut(s)) /\ IsFiniteSet(ScanningFrom(s, k)) /\ IsFiniteSet(FreeFrom(s, k))
  BY <1>1, <1>2, FS_Subset
<1>q. QED  BY <1>3, FS_CardinalityType

(* A semaphore and a set of token holders, before and after a step of p:   *)
(* a token goes from one to the other, or nothing moves.                   *)
LEMMA TokenMoves ==
  ASSUME NEW S, NEW T, NEW p, NEW n \in Nat, NEW nn \in Nat, IsFiniteSet(S),
         \A q : q # p => (q \in S <=> q \in T),
         \/ nn = n /\ (p \in S <=> p \in T)
         \/ nn = n - 1 /\ p \notin S /\ p \in T
         \/ nn = n + 1 /\ p \in S /\ p \notin T
  PROVE  nn + Cardinality(T) = n + Cardinality(S)
<1>1. CASE nn = n /\ (p \in S <=> p \in T)
  <2>1. S = T
    BY <1>1
  <2>q. QED  BY <1>1, <2>1
<1>2. CASE nn = n - 1 /\ p \notin S /\ p \in T
  <2>1. T = S \cup {p}
    BY <1>2
  <2>2. Cardinality(T) = Cardinality(S) + 1 /\ Cardinality(S) \in Nat
    BY <1>2, <2>1, FS_AddElement, FS_CardinalityType
  <2>q. QED  BY <1>2, <2>2
<1>3. CASE nn = n + 1 /\ p \in S /\ p \notin T
  <2>1. T = S \ {p}
    BY <1>3
  <2>2. Cardinality(T) = Cardinality(S) - 1 /\ Cardinality(S) \in Nat
    BY <1>3, <2>1, FS_RemoveElement, FS_CardinalityType
  <2>q. QED  BY <1>3, <2>2
<1>q. QED  BY <1>1, <1>2, <1>3

(* Who counts, one operator at a time. *)
Tokens(w, s) == workerService[w] = s /\ opc[w] \in TokenPC
Scans(w, s, k) == workerService[w] = s /\ desk[w] >= k /\ opc[w] \in ScanPC

LEMMA WhoHoldsTokens ==
  /\ \A s, q : q \in TokensOut(s) <=> q \in Workers /\ Tokens(q, s)
  /\ \A s, k, q : q \in ScanningFrom(s, k) <=> q \in Workers /\ Scans(q, s, k)
  /\ \A s, k, c : c \in FreeFrom(s, k) <=> c \in Counters /\ c >= k /\ IsFree(c, s)
  BY DEF TokensOut, ScanningFrom, FreeFrom, Tokens, Scans, TokenPC, ScanPC

(* A step that moves tokens, or looks at counters, or neither. *)
LEMMA TokenKept ==
  ASSUME NEW w \in Workers, NEW s \in Services, TypeOK, TypeOK', Backed(s), OthersSit(w),
         UNCHANGED counterWorker,
         \/ freeCounter'[s] = freeCounter[s] /\ (Tokens(w, s)' => Tokens(w, s))
         \/ freeCounter'[s] = freeCounter[s] - 1 /\ ~Tokens(w, s) /\ Tokens(w, s)'
         \/ freeCounter'[s] = freeCounter[s] + 1 /\ Tokens(w, s) /\ ~Tokens(w, s)',
         \A k \in Counters : Scans(w, s, k)' => Scans(w, s, k)
  PROVE  Backed(s)'
<1>0. freeCounter[s] \in Nat /\ freeCounter'[s] \in Nat
  BY DEF TypeOK, SharedTypeOK, DeskTypeOK
<1>1. \A k : FreeFrom(s, k)' = FreeFrom(s, k)
  BY DEF FreeFrom, IsFree, OthersSit
<1>2. \A k \in Counters : ScanningFrom(s, k)' \subseteq ScanningFrom(s, k)
  BY DEF ScanningFrom, Scans, ScanPC, OthersSit
<1>3. \A k \in Counters : Cardinality(ScanningFrom(s, k)') <= Cardinality(ScanningFrom(s, k))
  BY <1>2, TokenSetsFinite, FS_Subset
<1>4. freeCounter'[s] + Cardinality(TokensOut(s)') <= freeCounter[s] + Cardinality(TokensOut(s))
  <2>1. \A q : q # w => (q \in TokensOut(s) <=> q \in TokensOut(s)')
    BY DEF TokensOut, OthersSit
  <2>2. /\ w \in TokensOut(s) <=> Tokens(w, s)
        /\ w \in TokensOut(s)' <=> Tokens(w, s)'
    BY DEF TokensOut, Tokens, TokenPC
  <2>3. CASE freeCounter'[s] = freeCounter[s] /\ (Tokens(w, s)' => Tokens(w, s))
    <3>1. TokensOut(s)' \subseteq TokensOut(s)
      BY <2>1, <2>2, <2>3
    <3>2. Cardinality(TokensOut(s)') <= Cardinality(TokensOut(s))
          /\ Cardinality(TokensOut(s)') \in Nat /\ Cardinality(TokensOut(s)) \in Nat
      BY <3>1, TokenSetsFinite, FS_Subset, FS_CardinalityType
    <3>q. QED  BY <1>0, <2>3, <3>2
  <2>4. CASE ~(freeCounter'[s] = freeCounter[s] /\ (Tokens(w, s)' => Tokens(w, s)))
    <3>1. \/ freeCounter'[s] = freeCounter[s] - 1 /\ w \notin TokensOut(s) /\ w \in TokensOut(s)'
          \/ freeCounter'[s] = freeCounter[s] + 1 /\ w \in TokensOut(s) /\ w \notin TokensOut(s)'
      BY <2>2, <2>4
    <3>2. freeCounter'[s] + Cardinality(TokensOut(s)') = freeCounter[s] + Cardinality(TokensOut(s))
      BY <1>0, <2>1, <3>1, TokenSetsFinite, TokenMoves
    <3>3. Cardinality(TokensOut(s)) \in Nat
      BY TokenSetsFinite
    <3>q. QED  BY <1>0, <3>2, <3>3
  <2>q. QED  BY <2>3, <2>4
<1>5. /\ freeCounter'[s] + Cardinality(TokensOut(s)') <= Cardinality(FreeFrom(s, 0)')
      /\ \A k \in Counters : Cardinality(ScanningFrom(s, k)') <= Cardinality(FreeFrom(s, k)')
  <2>1. /\ Cardinality(TokensOut(s)) \in Nat /\ Cardinality(TokensOut(s)') \in Nat
        /\ Cardinality(FreeFrom(s, 0)) \in Nat
        /\ \A k : /\ Cardinality(ScanningFrom(s, k)) \in Nat /\ Cardinality(FreeFrom(s, k)) \in Nat
                  /\ Cardinality(ScanningFrom(s, k)') \in Nat
    <3>1. \A k : IsFiniteSet(TokensOut(s)') /\ IsFiniteSet(ScanningFrom(s, k)')
      <4>1. \A k : TokensOut(s)' \subseteq Workers /\ ScanningFrom(s, k)' \subseteq Workers
        BY DEF TokensOut, ScanningFrom
      <4>q. QED  BY <4>1, ProcessAssumption, FS_Subset
    <3>q. QED  BY <3>1, TokenSetsFinite, FS_CardinalityType
  <2>q. QED  BY <1>0, <1>1, <1>3, <1>4, <2>1 DEF Backed
<1>q. QED  BY <1>5 DEF Backed

(* A scan begins with a token in hand. *)
LEMMA StartScanKeepsTokens ==
  ASSUME NEW w \in Workers, NEW s \in Services, TypeOK, Backed(s), OthersSit(w), StartScan(w)
  PROVE  Backed(s)'
<1>0. /\ desk \in [Workers -> Counters] /\ opc \in [Workers -> OperatorPC]
      /\ freeCounter[s] \in Nat /\ 0 \in Counters
  BY ConfigAssumption DEF TypeOK, SharedTypeOK, OperatorTypeOK, DeskTypeOK, Counters
<1>1. /\ opc[w] = "recheck" /\ opc'[w] = "scan" /\ desk'[w] = 0
      /\ UNCHANGED <<counterWorker, freeCounter>>
  BY <1>0 DEF StartScan, OperatorJump, sharedVars, deskVars
<1>2. TokensOut(s)' = TokensOut(s) /\ \A k : FreeFrom(s, k)' = FreeFrom(s, k)
  BY <1>1 DEF TokensOut, FreeFrom, IsFree, OthersSit
<1>3. ASSUME NEW k \in Counters
      PROVE  Cardinality(ScanningFrom(s, k)') <= Cardinality(FreeFrom(s, k))
  <2>1. CASE k = 0
    <3>1. ScanningFrom(s, k)' \subseteq TokensOut(s)'
      BY DEF ScanningFrom, TokensOut
    <3>2. Cardinality(ScanningFrom(s, k)') <= Cardinality(TokensOut(s))
          /\ Cardinality(ScanningFrom(s, k)') \in Nat
      BY <1>2, <3>1, TokenSetsFinite, FS_Subset, FS_CardinalityType
    <3>q. QED  BY <1>0, <2>1, <3>2, TokenSetsFinite DEF Backed
  <2>2. CASE k # 0
    <3>1. ScanningFrom(s, k)' = ScanningFrom(s, k)
      <4>1. ~(0 >= k)
        BY <2>2 DEF Counters
      <4>2. w \notin ScanningFrom(s, k) /\ w \notin ScanningFrom(s, k)'
        BY <1>1, <4>1 DEF ScanningFrom
      <4>3. \A v : v # w => (v \in ScanningFrom(s, k) <=> v \in ScanningFrom(s, k)')
        BY DEF ScanningFrom, OthersSit
      <4>q. QED  BY <4>2, <4>3
    <3>q. QED  BY <3>1 DEF Backed
  <2>q. QED  BY <2>1, <2>2
<1>q. QED  BY <1>1, <1>2, <1>3 DEF Backed

(* A scan that passes a counter that is not free leaves one ahead of it:   *)
(* those that had reached this counter, it included, are no more than the  *)
(* free counters from here on.                                             *)
LEMMA SkipCounterKeepsTokens ==
  ASSUME NEW w \in Workers, NEW s \in Services, TypeOK, Backed(s), OthersSit(w),
         SkipCounter(w)
  PROVE  Backed(s)' /\ (s = workerService[w] => opc'[w] # "giveback")
<1>0. /\ desk \in [Workers -> Counters] /\ opc \in [Workers -> OperatorPC]
      /\ freeCounter[s] \in Nat /\ 0 \in Counters /\ Counters \subseteq Nat
  BY ConfigAssumption DEF TypeOK, SharedTypeOK, OperatorTypeOK, DeskTypeOK, Counters
<1> DEFINE c == desk[w]
<1>1. /\ opc[w] = "inspect" /\ opc'[w] = IF c + 1 \in Counters THEN "scan" ELSE "giveback"
      /\ desk'[w] = IF c + 1 \in Counters THEN c + 1 ELSE c
      /\ ~IsFree(c, workerService[w])
      /\ UNCHANGED <<counterWorker, freeCounter>>
  BY <1>0 DEF SkipCounter, OperatorJump
<1>2. \A k : FreeFrom(s, k)' = FreeFrom(s, k)
  BY <1>1 DEF FreeFrom, IsFree, OthersSit
<1>3. c \in Counters /\ c \in Nat
  BY <1>0
<1>4. CASE s # workerService[w]
  <2>1. TokensOut(s)' = TokensOut(s) /\ \A k : ScanningFrom(s, k)' = ScanningFrom(s, k)
    BY <1>4 DEF TokensOut, ScanningFrom, OthersSit
  <2>q. QED  BY <1>1, <1>2, <1>4, <2>1 DEF Backed
<1>5. CASE s = workerService[w]
  <2>1. w \in ScanningFrom(s, c)
    BY <1>1, <1>3, <1>5 DEF ScanningFrom
  <2>2. Cardinality(ScanningFrom(s, c)) <= Cardinality(FreeFrom(s, c))
    BY <1>3 DEF Backed
  <2>3. c + 1 \in Counters
    <3>1. SUFFICES ASSUME c + 1 \notin Counters PROVE FALSE
      OBVIOUS
    <3>2. FreeFrom(s, c) = {}
      <4>1. \A d \in Counters : d >= c => d = c
        BY <1>3, <3>1, ConfigAssumption DEF Counters
      <4>q. QED  BY <1>1, <1>5, <4>1 DEF FreeFrom
    <3>3. Cardinality(ScanningFrom(s, c)) = 0
      BY <2>2, <3>2, FS_EmptySet, TokenSetsFinite
    <3>q. QED  BY <2>1, <3>3, FS_EmptySet, TokenSetsFinite
  <2>4. TokensOut(s)' = TokensOut(s)
    BY <1>1, <2>3 DEF TokensOut, OthersSit
  <2>5. ASSUME NEW k \in Counters
        PROVE  Cardinality(ScanningFrom(s, k)') <= Cardinality(FreeFrom(s, k))
    <3>1. CASE k # c + 1
      <4>1. c + 1 >= k <=> c >= k
        BY <1>0, <1>3, <3>1
      <4>2. w \in ScanningFrom(s, k) <=> w \in ScanningFrom(s, k)'
        BY <1>1, <1>5, <2>3, <4>1 DEF ScanningFrom, OthersSit
      <4>3. \A v : v # w => (v \in ScanningFrom(s, k) <=> v \in ScanningFrom(s, k)')
        BY DEF ScanningFrom, OthersSit
      <4>4. ScanningFrom(s, k)' = ScanningFrom(s, k)
        BY <4>2, <4>3
      <4>q. QED  BY <4>4 DEF Backed
    <3>2. CASE k = c + 1
      <4>1. ScanningFrom(s, k)' \subseteq ScanningFrom(s, c)
        <5>1. \A v \in Workers : desk[v] \in Nat
          BY <1>0
        <5>2. \A n \in Nat : n >= k => n >= c
          BY <1>3, <3>2
        <5>q. QED  BY <2>1, <5>1, <5>2 DEF ScanningFrom, OthersSit
      <4>2. Cardinality(ScanningFrom(s, k)') <= Cardinality(ScanningFrom(s, c))
            /\ Cardinality(ScanningFrom(s, k)') \in Nat
        BY <4>1, TokenSetsFinite, FS_Subset, FS_CardinalityType
      <4>3. FreeFrom(s, c) = FreeFrom(s, k)
        <5>1. \A d \in Counters : d >= c <=> d >= k \/ d = c
          BY <1>0, <1>3, <3>2
        <5>q. QED  BY <1>1, <1>5, <5>1 DEF FreeFrom
      <4>q. QED  BY <2>2, <4>2, <4>3, TokenSetsFinite
    <3>q. QED  BY <3>1, <3>2
  <2>q. QED  BY <1>1, <1>2, <2>3, <2>4, <2>5 DEF Backed
<1>q. QED  BY <1>4, <1>5

(* A claim takes one counter and one scan out. *)
ClaimEffect(w) ==
  /\ opc[w] = "claiming" /\ opc'[w] = "loop" /\ desk' = desk
  /\ counterWorker' = [counterWorker EXCEPT ![desk[w]] = w]
  /\ freeCounter' = freeCounter

LEMMA ClaimKeepsTokens ==
  ASSUME NEW w \in Workers, NEW s \in Services, TypeOK, CounterInv, Backed(s), OthersSit(w),
         ClaimEffect(w)
  PROVE  Backed(s)'
<1>0. /\ desk \in [Workers -> Counters] /\ freeCounter[s] \in Nat /\ None \notin Workers
      /\ counterWorker \in [Counters -> Workers \cup {None}]
  BY ProcessAssumption
     DEF TypeOK, SharedTypeOK, OperatorTypeOK, DeskTypeOK, Children
<1> DEFINE c == desk[w]
<1>1. c \in Counters /\ IsFree(c, workerService[w])
  BY <1>0 DEF ClaimEffect, CounterInv, Found
<1>2. CASE s # workerService[w]
  <2>1. TokensOut(s)' = TokensOut(s) /\ \A k : ScanningFrom(s, k)' = ScanningFrom(s, k)
    BY <1>2 DEF TokensOut, ScanningFrom, OthersSit
  <2>2. \A k : FreeFrom(s, k)' = FreeFrom(s, k)
    BY <1>0, <1>1, <1>2 DEF FreeFrom, IsFree, OthersSit, ClaimEffect
  <2>q. QED  BY <2>1, <2>2 DEF Backed, ClaimEffect
<1>3. CASE s = workerService[w]
  <2>1. /\ w \in TokensOut(s) /\ w \notin TokensOut(s)'
        /\ TokensOut(s)' = TokensOut(s) \ {w}
    BY <1>3 DEF TokensOut, OthersSit, ClaimEffect
  <2>2. \A k : FreeFrom(s, k)' = FreeFrom(s, k) \ {c}
    <3>1. \A d \in Counters : IsFree(d, s)' <=> IsFree(d, s) /\ d # c
      BY <1>0, <1>1 DEF IsFree, OthersSit, ClaimEffect
    <3>q. QED  BY <3>1 DEF FreeFrom
  <2>3. freeCounter'[s] + Cardinality(TokensOut(s)') <= Cardinality(FreeFrom(s, 0)')
    <3>1. c \in FreeFrom(s, 0)
      BY <1>1, <1>3 DEF FreeFrom, Counters
    <3>2. Cardinality(FreeFrom(s, 0)') = Cardinality(FreeFrom(s, 0)) - 1
      BY <2>2, <3>1, TokenSetsFinite, FS_RemoveElement
    <3>3. Cardinality(TokensOut(s)') = Cardinality(TokensOut(s)) - 1
      BY <2>1, TokenSetsFinite, FS_RemoveElement
    <3>q. QED  BY <1>0, <3>2, <3>3, TokenSetsFinite DEF Backed, ClaimEffect
  <2>4. ASSUME NEW k \in Counters
        PROVE  Cardinality(ScanningFrom(s, k)') <= Cardinality(FreeFrom(s, k)')
    <3>1. CASE c >= k
      <4>1. w \in ScanningFrom(s, k) /\ ScanningFrom(s, k)' = ScanningFrom(s, k) \ {w}
        BY <1>3, <3>1 DEF ScanningFrom, OthersSit, ClaimEffect
      <4>2. c \in FreeFrom(s, k)
        BY <1>1, <1>3, <3>1 DEF FreeFrom
      <4>3. Cardinality(ScanningFrom(s, k)') = Cardinality(ScanningFrom(s, k)) - 1
        BY <4>1, TokenSetsFinite, FS_RemoveElement
      <4>4. Cardinality(FreeFrom(s, k)') = Cardinality(FreeFrom(s, k)) - 1
        BY <2>2, <4>2, TokenSetsFinite, FS_RemoveElement
      <4>q. QED  BY <4>3, <4>4, TokenSetsFinite DEF Backed
    <3>2. CASE ~(c >= k)
      <4>1. ScanningFrom(s, k)' = ScanningFrom(s, k)
        BY <3>2 DEF ScanningFrom, OthersSit, ClaimEffect
      <4>2. FreeFrom(s, k)' = FreeFrom(s, k)
        BY <2>2, <3>2 DEF FreeFrom
      <4>q. QED  BY <4>1, <4>2 DEF Backed
    <3>q. QED  BY <3>1, <3>2
  <2>q. QED  BY <2>3, <2>4 DEF Backed
<1>q. QED  BY <1>2, <1>3

(* A release gives a counter back, and its token is yet to be posted. *)
ReleaseEffect(w) ==
  /\ opc[w] = "releasing" /\ opc'[w] = "post_token" /\ desk' = desk
  /\ counterWorker' = [counterWorker EXCEPT ![desk[w]] = None]
  /\ freeCounter' = freeCounter

LEMMA ReleaseKeepsTokens ==
  ASSUME NEW w \in Workers, NEW s \in Services, TypeOK, CounterInv, Backed(s), OthersSit(w),
         ReleaseEffect(w)
  PROVE  Backed(s)'
<1>0. /\ desk \in [Workers -> Counters] /\ freeCounter[s] \in Nat /\ None \notin Workers
      /\ counterWorker \in [Counters -> Workers \cup {None}]
  BY ProcessAssumption
     DEF TypeOK, SharedTypeOK, OperatorTypeOK, DeskTypeOK, Children
<1> DEFINE c == desk[w]
<1>1. c \in Counters /\ counterWorker[c] = w /\ counterService[c] = workerService[w]
  BY <1>0 DEF ReleaseEffect, CounterInv, CounterExclusive, AtCounterPC
<1>2. \A k : ScanningFrom(s, k)' = ScanningFrom(s, k)
  BY DEF ScanningFrom, OthersSit, ReleaseEffect
<1>3. CASE s # workerService[w]
  <2>1. TokensOut(s)' = TokensOut(s)
    BY <1>3 DEF TokensOut, OthersSit
  <2>2. \A k : FreeFrom(s, k)' = FreeFrom(s, k)
    BY <1>0, <1>1, <1>3 DEF FreeFrom, IsFree, OthersSit, ReleaseEffect
  <2>q. QED  BY <1>2, <2>1, <2>2 DEF Backed, ReleaseEffect
<1>4. CASE s = workerService[w]
  <2>1. w \notin TokensOut(s) /\ TokensOut(s)' = TokensOut(s) \cup {w}
    BY <1>4 DEF TokensOut, OthersSit, ReleaseEffect
  <2>2. \A d \in Counters : IsFree(d, s)' <=> IsFree(d, s) \/ d = c
    BY <1>0, <1>1, <1>4 DEF IsFree, OthersSit, ReleaseEffect
  <2>3. freeCounter'[s] + Cardinality(TokensOut(s)') <= Cardinality(FreeFrom(s, 0)')
    <3>1. c \notin FreeFrom(s, 0) /\ FreeFrom(s, 0)' = FreeFrom(s, 0) \cup {c}
      BY <1>0, <1>1, <2>2 DEF FreeFrom, IsFree, Counters
    <3>2. Cardinality(FreeFrom(s, 0)') = Cardinality(FreeFrom(s, 0)) + 1
      BY <3>1, TokenSetsFinite, FS_AddElement
    <3>3. Cardinality(TokensOut(s)') = Cardinality(TokensOut(s)) + 1
      BY <2>1, TokenSetsFinite, FS_AddElement
    <3>q. QED  BY <1>0, <3>2, <3>3, TokenSetsFinite DEF Backed, ReleaseEffect
  <2>4. ASSUME NEW k \in Counters
        PROVE  Cardinality(ScanningFrom(s, k)') <= Cardinality(FreeFrom(s, k)')
    <3>1. FreeFrom(s, k) \subseteq FreeFrom(s, k)' /\ FreeFrom(s, k)' \subseteq FreeFrom(s, k) \cup {c}
      BY <2>2 DEF FreeFrom
    <3>2. IsFiniteSet(FreeFrom(s, k)')
      BY <3>1, TokenSetsFinite, FS_AddElement, FS_Subset
    <3>3. Cardinality(FreeFrom(s, k)) <= Cardinality(FreeFrom(s, k)')
          /\ Cardinality(FreeFrom(s, k)') \in Nat
      BY <3>1, <3>2, FS_Subset, FS_CardinalityType
    <3>q. QED  BY <1>2, <3>3, TokenSetsFinite DEF Backed
  <2>q. QED  BY <2>3, <2>4 DEF Backed
<1>q. QED  BY <1>3, <1>4

LEMMA OperatorKeepsTokens ==
  ASSUME NEW w \in Workers, TypeOK, TypeOK', BarrierInv, CounterInv, TokenInv,
         OperatorStep(w) \/ OperatorSignal(w), UNCHANGED directorVars
  PROVE  TokenInv'
<1>0. /\ desk \in [Workers -> Counters] /\ opc \in [Workers -> OperatorPC]
      /\ freeCounter \in [Services -> Nat] /\ workerService \in [Workers -> Services]
  BY DEF TypeOK, SharedTypeOK, OperatorTypeOK, DeskTypeOK, WorkerTypeOK
<1>1. OthersSit(w) /\ (CounterStep(w) \/ Aside(w))
  BY OperatorSits DEF TypeOK
<1>2. dpc' = dpc
  BY DEF directorVars
<1>3. CASE Aside(w)
  <2>1. ScanAlwaysFinds'
    BY <1>0, <1>1, <1>3 DEF TokenInv, ScanAlwaysFinds, OthersSit, Aside
  <2>2. ASSUME NEW s \in Services, Backed(s) PROVE Backed(s)'
    <3>1. /\ freeCounter'[s] = freeCounter[s] /\ (Tokens(w, s)' => Tokens(w, s))
          /\ counterWorker' = counterWorker
      BY <1>1, <1>3 DEF Aside, OthersSit, Tokens
    <3>2. \A k \in Counters : Scans(w, s, k)' => Scans(w, s, k)
      BY <1>1, <1>3 DEF Aside, OthersSit, Scans
    <3>q. QED  BY <1>1, <2>2, <3>1, <3>2, TokenKept
  <2>q. QED  BY <1>2, <2>1, <2>2 DEF TokenInv
<1>4. CASE CounterStep(w)
  <2>1. opc[w] \in InDayPC
    BY <1>4
       DEF CounterStep, TakeToken, HandBackToken, StartScan, FindCounter,
       SkipCounter,
       ClaimCounter, ReleaseCounter, PostToken, OperatorJump, InDayPC
  <2>2. \A s \in Services : Backed(s)
    BY <2>1, AtWorkByDay DEF TokenInv
  <2>3. ASSUME NEW s \in Services PROVE Backed(s)'
    <3>0. Backed(s)
      BY <2>2
    <3>1. CASE TakeToken(w)
      <4>1. /\ counterWorker' = counterWorker /\ opc[w] = "take_token" /\ opc'[w] = "recheck"
            /\ freeCounter' = [freeCounter EXCEPT ![workerService[w]] = @ - 1]
            /\ workerService' = workerService
        BY <1>0, <3>1 DEF TakeToken, OperatorJump, workerVars
      <4>q. QED  BY <1>0, <1>1, <3>0, <4>1, TokenKept
         DEF Tokens, Scans, TokenPC, ScanPC
    <3>2. CASE HandBackToken(w)
      <4>1. /\ counterWorker' = counterWorker /\ opc[w] = "recheck" /\ opc'[w] = "report"
            /\ freeCounter' = [freeCounter EXCEPT ![workerService[w]] = @ + 1]
            /\ workerService' = workerService
        BY <1>0, <3>2 DEF HandBackToken, OperatorJump, workerVars
      <4>q. QED  BY <1>0, <1>1, <3>0, <4>1, TokenKept
         DEF Tokens, Scans, TokenPC, ScanPC
    <3>3. CASE PostToken(w)
      <4>1. /\ counterWorker' = counterWorker /\ opc[w] = "post_token" /\ opc'[w] = "report"
            /\ freeCounter' = [freeCounter EXCEPT ![workerService[w]] = @ + 1]
            /\ workerService' = workerService
        BY <1>0, <3>3 DEF PostToken, OperatorJump, workerVars
      <4>q. QED  BY <1>0, <1>1, <3>0, <4>1, TokenKept
         DEF Tokens, Scans, TokenPC, ScanPC
    <3>4. CASE FindCounter(w)
      <4>1. /\ UNCHANGED <<counterWorker, freeCounter, workerService, desk>>
            /\ opc[w] = "inspect" /\ opc'[w] = "claiming"
        BY <1>0, <3>4
           DEF FindCounter, OperatorJump, sharedVars, deskVars, workerVars
      <4>q. QED  BY <1>0, <1>1, <3>0, <4>1, TokenKept
         DEF Tokens, Scans, TokenPC, ScanPC
    <3>5. CASE StartScan(w)
      BY <1>1, <3>0, <3>5, StartScanKeepsTokens
    <3>6. CASE SkipCounter(w)
      BY <1>1, <3>0, <3>6, SkipCounterKeepsTokens
    <3>7. CASE ClaimCounter(w)
      <4>1. ClaimEffect(w)
        BY <1>0, <3>7 DEF ClaimCounter, OperatorJump, ClaimEffect
      <4>q. QED  BY <1>1, <3>0, <4>1, ClaimKeepsTokens
    <3>8. CASE ReleaseCounter(w)
      <4>1. ReleaseEffect(w)
        BY <1>0, <3>8 DEF ReleaseCounter, OperatorJump, ReleaseEffect
      <4>q. QED  BY <1>1, <3>0, <4>1, ReleaseKeepsTokens
    <3>q. QED
      BY <1>4, <3>1, <3>2, <3>3, <3>4, <3>5, <3>6, <3>7, <3>8 DEF CounterStep
  <2>4. opc'[w] # "giveback"
    <3>1. CASE SkipCounter(w)
      BY <1>0, <1>1, <2>2, <3>1, SkipCounterKeepsTokens
    <3>2. CASE ~SkipCounter(w)
      BY <1>0, <1>4, <3>2
         DEF CounterStep, TakeToken, HandBackToken, StartScan, FindCounter,
         ClaimCounter, ReleaseCounter, PostToken, OperatorJump
    <3>q. QED  BY <3>1, <3>2
  <2>q. QED  BY <1>1, <2>3, <2>4 DEF TokenInv, ScanAlwaysFinds, OthersSit
<1>q. QED  BY <1>1, <1>3, <1>4

(* OpenDay sets each semaphore to the number of counters of its service,   *)
(* all of them free and nobody looking for one yet.                        *)
LEMMA OpenDayBacksTokens ==
  ASSUME TypeOK, BarrierInv, CounterInv, OpenDay, UNCHANGED operatorVars, NEW s \in Services
  PROVE  Backed(s)'
<1>1. /\ dpc = "open" /\ freeCounter'[s] = Cardinality(CountersFor(s))
      /\ UNCHANGED <<counterService, counterWorker, workerService, opc, desk>>
  BY DEF OpenDay, DirectorJump, workerVars, operatorVars
<1>2. \A w \in Workers : opc[w] \notin InDayPC
  BY <1>1, AtWorkByDay DEF DayPC
<1>3. TokensOut(s)' = {} /\ \A k : ScanningFrom(s, k)' = {}
  BY <1>1, <1>2 DEF TokensOut, ScanningFrom, InDayPC
<1>4. FreeFrom(s, 0)' = CountersFor(s)
  <2>1. \A c \in Counters : c >= 0 /\ counterWorker[c] = None
    BY <1>1 DEF CounterInv, Morning, Counters
  <2>q. QED  BY <1>1, <2>1 DEF FreeFrom, IsFree, CountersFor
<1>5. Cardinality(FreeFrom(s, 0)') \in Nat /\ \A k : Cardinality(FreeFrom(s, k)') \in Nat
  <2>1. IsFiniteSet(Counters)
    BY ConfigAssumption, FS_Interval DEF Counters
  <2>2. \A k : FreeFrom(s, k)' \subseteq Counters
    BY DEF FreeFrom
  <2>q. QED  BY <2>1, <2>2, FS_Subset, FS_CardinalityType
<1>q. QED  BY <1>1, <1>3, <1>4, <1>5, FS_EmptySet DEF Backed

LEMMA OthersKeepTokens ==
  ASSUME TokenInv, dpc' \in DayPC => dpc \in DayPC,
         UNCHANGED <<counterService, counterWorker, freeCounter, workerService, opc, desk>>
  PROVE  TokenInv'
<1>1. ScanAlwaysFinds'
  BY DEF TokenInv, ScanAlwaysFinds
<1>2. ASSUME NEW s \in Services, Backed(s) PROVE Backed(s)'
  BY <1>2 DEF Backed, TokensOut, ScanningFrom, FreeFrom, IsFree
<1>q. QED  BY <1>1, <1>2 DEF TokenInv

LEMMA DirectorKeepsTokens ==
  ASSUME NEW gone, TypeOK, BarrierInv, CounterInv, TokenInv,
         DirectorStep(gone) \/ Terminate(gone) \/ CtrlC(gone), UNCHANGED operatorVars
  PROVE  TokenInv'
<1>0. ScanAlwaysFinds'
  BY DEF TokenInv, ScanAlwaysFinds, operatorVars
<1>1. CASE dpc' \notin DayPC
  BY <1>0, <1>1 DEF TokenInv
<1>2. CASE OpenDay
  BY <1>0, <1>2, OpenDayBacksTokens DEF TokenInv
<1>3. CASE CloseDay \/ ReceiveFinished \/ Terminate(gone) \/ CtrlC(gone)
  <2>1. UNCHANGED <<deskVars, workerVars>> /\ (dpc' \in DayPC => dpc \in DayPC)
    BY <1>3
       DEF CloseDay, ReceiveFinished, Terminate, CtrlC, DirectorInterrupted,
       DirectorJump,
       DayPC, sharedVars
  <2>q. QED  BY <2>1, OthersKeepTokens DEF deskVars, workerVars, operatorVars
<1>4. CASE BetweenDays \/ ReceiveInit \/ StopChildren \/ CleanUp(gone)
  BY <1>1, <1>4
     DEF BetweenDays, BetweenDaysPC, ReceiveInit, StopChildren, CleanUp,
     DirectorJump, DayPC
<1>q. QED  BY <1>2, <1>3, <1>4, DirectorMoves

LEMMA InitTokens == Init => TokenInv
  BY DEF Init, OperatorInit, DirectorInit, TokenInv, ScanAlwaysFinds, DayPC

LEMMA NextTokens ==
  TypeOK /\ TypeOK' /\ BarrierInv /\ CounterInv /\ TokenInv /\ [Next]_vars => TokenInv'
<1> SUFFICES ASSUME TypeOK, TypeOK', BarrierInv, CounterInv, TokenInv, [Next]_vars
             PROVE  TokenInv'
  OBVIOUS
<1>1. ASSUME NEW w \in Workers, OperatorRuns(w) \/ OperatorIsSignalled(w) PROVE TokenInv'
  BY <1>1, OperatorKeepsTokens DEF OperatorRuns, OperatorIsSignalled
<1>2. ASSUME NEW u \in Users, UserRuns(u) \/ UserIsSignalled(u) PROVE TokenInv'
  BY <1>2, UserMutexes, OthersKeepTokens
     DEF UserRuns, UserIsSignalled, deskVars, workerVars, operatorVars, directorVars
<1>3. CASE DispenserRuns \/ DispenserIsSignalled
  BY <1>3, DispenserSits, OthersKeepTokens
     DEF DispenserRuns, DispenserIsSignalled, deskVars, workerVars, operatorVars, directorVars
<1>4. CASE DirectorRuns \/ DirectorIsSignalled
  BY <1>4, DirectorKeepsTokens DEF DirectorRuns, DirectorIsSignalled
<1>5. CASE UNCHANGED vars
  BY <1>5, OthersKeepTokens
     DEF vars, deskVars, workerVars, operatorVars, directorVars
<1>q. QED  BY <1>1, <1>2, <1>3, <1>4, <1>5 DEF Next

LEMMA Tokened == Spec => []TokenInv
  BY InitTokens, NextTokens, TypeCorrect, Barriers, Seated, PTL DEF Spec

(* The semaphore and the tokens in the operators' hands never promise more *)
(* counters than are free, nor more of them ahead of the scans than there  *)
(* are ahead of the scans, with any number of operators and counters.      *)
THEOREM TokensBackedHolds == Spec => []TokensBacked
<1>1. TokenInv => TokensBacked
  BY DEF TokenInv, TokensBacked, Backed
<1>q. QED  BY <1>1, Tokened, PTL

(* So an operator that got a token always finds a counter: the branch that *)
(* gives the token back and scans again is dead code.                      *)
THEOREM ScanAlwaysFindsHolds == Spec => []ScanAlwaysFinds
<1>1. TokenInv => ScanAlwaysFinds
  BY DEF TokenInv
<1>q. QED  BY <1>1, Tokened, PTL

-----------------------------------------------------------------------------
(* The evening *)

SweepPC == {"flush", "flush_next", "flush_reply", "flush_lock", "flush_stat"}

(* The flush has passed this queue, and no day has been opened since. *)
Swept(s) ==
  /\ dpc \notin DayPC \cup {"count", "failed"}
  /\ dpc \in SweepPC => s < cursor

(* No ticket is on its way into a queue that has been swept: the dispenser *)
(* held the queue when it looked at DAY_ACTIVE.                            *)
SweepInv ==
  /\ dayActive <=> dpc = "day"
  /\ \A s \in Services :
       Swept(s) => queue[s] = <<>> /\ ~(tpc = "push" /\ request.service = s)

LEMMA OperatorsOnlyPop ==
  ASSUME NEW w \in Workers, SharedTypeOK, OperatorStep(w) \/ OperatorSignal(w)
  PROVE  /\ dayActive' = dayActive
         /\ \A s \in Services : queue[s] = <<>> => queue'[s] = <<>>
<1> USE DEF sharedVars, cfgVars, queueVars
<1>1. queue \in [Services -> Seq(Users)] /\ workerService[w] \in Services
  BY DEF SharedTypeOK, QueueTypeOK, WorkerTypeOK
<1>2. CASE PopTicket(w)
  BY <1>1, <1>2 DEF PopTicket, PopQueue
<1>3. CASE CounterStep(w)
  BY <1>3
     DEF CounterStep, TakeToken, HandBackToken, StartScan, FindCounter, SkipCounter,
     ClaimCounter, ReleaseCounter, PostToken
<1>4. CASE OperatorSendInit(w) \/ OperatorSuspend(w) \/ OperatorStartDay(w) \/ OperatorExit(w)
           \/ TestClaimLoop(w) \/ LockScanned(w) \/ TestServeLoop(w) \/ WaitForTicket(w)
  BY <1>4
     DEF OperatorSendInit, OperatorSuspend, OperatorStartDay, OperatorExit,
     TestClaimLoop,
     LockScanned, LockCounter, TestServeLoop, WaitForTicket
<1>5. CASE OperatorLockQueue(w) \/ PopNothing(w) \/ ServeTicket(w) \/ CountServed(w)
           \/ ReplyServed(w) \/ StopAfterService(w) \/ KeepWorking(w) \/ TakePause(w)
  BY <1>5
     DEF OperatorLockQueue, LockQueue, PopNothing, ServeTicket, LockStats,
     CountServed,
     ReplyServed, StopAfterService, KeepWorking, TakePause
<1>6. CASE LockStatsForPause(w) \/ CountPause(w) \/ LockRelease(w) \/ ReportDayFinished(w)
           \/ OperatorSignal(w)
  BY <1>6 DEF LockStatsForPause, LockStats, CountPause, LockRelease, LockCounter,
     ReportDayFinished, OperatorSignal
<1>q. QED  BY <1>2, <1>3, <1>4, <1>5, <1>6 DEF OperatorStep, CounterStep

LEMMA DispenserKeepsSweep ==
  ASSUME TypeOK, SweepInv, DispenserStep \/ DispenserSignal, UNCHANGED directorVars
  PROVE  SweepInv'
<1>0. /\ queue \in [Services -> Seq(Users)]
      /\ tpc \in HandlingPC => request \in TicketMessage
  BY DEF TypeOK, SharedTypeOK, QueueTypeOK, DispenserTypeOK
<1>1. \A s \in Services : Swept(s)' <=> Swept(s)
  BY DEF Swept, directorVars
<1>2. CASE PushTicket
  <2>1. /\ tpc = "push" /\ tpc' = "post" /\ dayActive' = dayActive
        /\ \A s \in Services : s # request.service => queue'[s] = queue[s]
    BY <1>0, <1>2 DEF PushTicket, DispenserJump, PushQueue, cfgVars
  <2>q. QED  BY <1>1, <2>1 DEF SweepInv, directorVars
<1>3. CASE AcceptLocked
  <2>1. dpc = "day" /\ dayActive' = dayActive
    BY <1>3 DEF AcceptLocked, SweepInv, sharedVars, cfgVars
  <2>q. QED  BY <1>1, <2>1 DEF SweepInv, Swept, DayPC, directorVars
<1>4. ASSUME UNCHANGED <<dayActive, queue>>, tpc' = "push" => tpc = "push" /\ request' = request
      PROVE  SweepInv'
  BY <1>1, <1>4 DEF SweepInv, directorVars
<1> USE DEF DispenserJump, sharedVars, cfgVars, queueVars
<1>5. CASE DispenserSendInit \/ ReceiveRequest \/ LockStatsForRequest \/ CountRequest
           \/ CheckDayActive \/ CheckOffered
  BY <1>4, <1>5
     DEF DispenserSendInit, ReceiveRequest, LockStatsForRequest, LockStats,
     CountRequest, CheckDayActive, CheckOffered
<1>6. CASE DispenserLockQueue \/ RefuseLocked \/ PostJob \/ LockStatsForRefusal
           \/ CountRefusal \/ ReplyRefusal
  BY <1>4, <1>6 DEF DispenserLockQueue, LockQueue, RefuseLocked, PostJob,
     LockStatsForRefusal, LockStats, CountRefusal, ReplyRefusal
<1>7. CASE DispenserTestLoop \/ DispenserLosesIpc \/ DispenserSignal
  BY <1>4, <1>7 DEF DispenserTestLoop, DispenserLosesIpc, DispenserSignal,
     DispenserInterrupted, dispenserVars
<1>q. QED  BY <1>2, <1>3, <1>5, <1>6, <1>7 DEF DispenserStep, DispenserIpcStep

LEMMA OthersKeepSweep ==
  ASSUME SweepInv, UNCHANGED <<dayActive, tpc, request, dpc, cursor>>,
         \A s \in Services : queue[s] = <<>> => queue'[s] = <<>>
  PROVE  SweepInv'
  BY DEF SweepInv, Swept

(* The director holds the queue it leaves: the dispenser is not in it. *)
LEMMA FlushUnlockKeepsSweep ==
  ASSUME TypeOK, CriticalSectionsExclusive, BarrierInv, SweepInv, FlushUnlockQueue,
         UNCHANGED dispenserVars
  PROVE  SweepInv'
<1>0. /\ dpc = "flush_next" /\ cursor \in Services /\ Services \subseteq Nat
      /\ queue[cursor] = <<>> /\ UNCHANGED <<queue, dayActive, tpc, request>>
  BY DEF FlushUnlockQueue, DirectorJump, TypeOK, DirectorTypeOK, EveningPC,
     Services, cfgVars,
     dispenserVars
<1>1. \/ cursor + 1 \notin Services /\ dpc' = "print"
      \/ cursor + 1 \in Services /\ dpc' = "flush" /\ cursor' = cursor + 1
  BY DEF FlushUnlockQueue, DirectorJump, LastService
<1>2. ~(tpc = "push" /\ request.service = cursor)
  <2>1. ~ipcRemoved
    BY <1>0 DEF BarrierInv, RemovedAtEnd
  <2>2. Guards(queueMutex[cursor], QueueHeldBy(cursor))
    BY <1>0, <2>1 DEF CriticalSectionsExclusive
  <2>3. None \in QueueHeldBy(cursor)
    BY <1>0, Inside DEF WhoIsInside
  <2>4. tpc = "push" /\ request.service = cursor => Dispenser \in QueueHeldBy(cursor)
    BY Inside DEF WhoIsInside
  <2>q. QED  BY <2>2, <2>3, <2>4, ProcessAssumption DEF Guards, Children
<1>3. ASSUME NEW s \in Services, Swept(s)' PROVE s = cursor \/ Swept(s)
  <2>1. s <= cursor => s = cursor \/ s < cursor
    BY <1>0
  <2>2. /\ cursor + 1 \notin Services => s <= cursor
        /\ s < cursor + 1 => s <= cursor
    BY <1>0, ConfigAssumption DEF Services
  <2>q. QED  BY <1>0, <1>1, <1>3, <2>1, <2>2 DEF Swept, SweepPC, DayPC
<1>4. dpc' # "day"
  BY <1>1
<1>q. QED  BY <1>0, <1>2, <1>3, <1>4 DEF SweepInv

DirectorSweeps ==
  /\ dayActive' <=> dpc' = "day"
  /\ \A s \in Services : Swept(s)' => Swept(s) /\ (queue[s] = <<>> => queue'[s] = <<>>)

LEMMA DirectorSweepsOn ==
  ASSUME NEW gone, TypeOK, SweepInv, DirectorStep(gone) \/ Terminate(gone) \/ CtrlC(gone)
  PROVE  FlushUnlockQueue \/ DirectorSweeps
<1> USE DEF DirectorSweeps, Swept, SweepPC, DayPC, DirectorJump, sharedVars, cfgVars,
            queueVars, SweepInv
<1>0. queue \in [Services -> Seq(Users)] /\ \A s \in Services : s >= 0 /\ ~(s < 0)
  BY DEF TypeOK, SharedTypeOK, QueueTypeOK, Services
<1>1. CASE ReceiveInit \/ NextDay \/ LastDayDone \/ LockStatsForReset \/ ResetDay \/ AssignCounter
  BY <1>1
     DEF ReceiveInit, NextDay, LastDayDone, LockStatsForReset, LockStats, ResetDay,
     AssignCounter
<1>2. CASE OpenDay \/ CloseDay \/ ReceiveFinished
  BY <1>2 DEF OpenDay, CloseDay, ReceiveFinished
<1>3. CASE CountQueue
  BY <1>0, <1>3 DEF CountQueue
<1>4. CASE FlushLockQueue
  BY <1>4 DEF FlushLockQueue, LockQueue, directorLocals
<1>5. CASE FlushPop
  BY <1>0, <1>5 DEF FlushPop, PopQueue
<1>6. CASE FlushReply
  BY <1>6 DEF FlushReply, directorLocals
<1>7. CASE LockStatsForFlush
  BY <1>7 DEF LockStatsForFlush, LockStats, directorLocals
<1>8. CASE CountFlushed
  BY <1>8 DEF CountFlushed
<1>9. CASE PrintDay \/ DecideCause \/ PrintFinal \/ StopChildren \/ CleanUp(gone)
  BY <1>9 DEF PrintDay, DecideCause, PrintFinal, StopChildren, CleanUp
<1>10. CASE Terminate(gone) \/ CtrlC(gone)
  <2>1. /\ UNCHANGED <<dayActive, queue, cursor>>
        /\ dpc' = dpc \/ (dpc' = "failed" /\ dpc # "day")
    BY <1>10 DEF Terminate, CtrlC, DirectorInterrupted, DirectorBlocked
  <2>q. QED  BY <2>1
<1>q. QED
  BY <1>1, <1>2, <1>3, <1>4, <1>5, <1>6, <1>7, <1>8, <1>9, <1>10 DEF DirectorStep

LEMMA InitSweep == Init => SweepInv
  BY DEF Init, SharedStateInit, DispenserInit, DirectorInit, SweepInv

LEMMA NextSweep ==
  TypeOK /\ CriticalSectionsExclusive /\ BarrierInv /\ SweepInv /\ [Next]_vars => SweepInv'
<1> SUFFICES ASSUME TypeOK, CriticalSectionsExclusive, BarrierInv, SweepInv, [Next]_vars
             PROVE  SweepInv'
  OBVIOUS
<1>1. ASSUME NEW w \in Workers, OperatorRuns(w) \/ OperatorIsSignalled(w) PROVE SweepInv'
  BY <1>1, OperatorsOnlyPop, OthersKeepSweep
     DEF OperatorRuns, OperatorIsSignalled, dispenserVars, directorVars, TypeOK
<1>2. ASSUME NEW u \in Users, UserRuns(u) \/ UserIsSignalled(u) PROVE SweepInv'
  <2>1. dayActive' = dayActive
    BY <1>2
       DEF UserRuns, UserIsSignalled, UserStep, UserSendInit, UserSuspend, UserExit,
       UserStaysHome, UserSetsOut, UserWakesUp, UserArrives, UserAsks, UserGetsReply,
       UserLosesIpc, UserSignal, sharedVars, cfgVars
  <2>q. QED  BY <1>2, <2>1, UserMutexes, OthersKeepSweep
             DEF UserRuns, UserIsSignalled, queueVars, dispenserVars, directorVars
<1>3. CASE DispenserRuns \/ DispenserIsSignalled
  BY <1>3, DispenserKeepsSweep DEF DispenserRuns, DispenserIsSignalled
<1>4. CASE DirectorRuns \/ DirectorIsSignalled
  <2>1. UNCHANGED dispenserVars
    BY <1>4 DEF DirectorRuns, DirectorIsSignalled
  <2>2. CASE FlushUnlockQueue
    BY <2>1, <2>2, FlushUnlockKeepsSweep
  <2>3. CASE DirectorSweeps
    BY <2>1, <2>3 DEF SweepInv, DirectorSweeps, dispenserVars
  <2>q. QED  BY <1>4, <2>2, <2>3, DirectorSweepsOn
     DEF DirectorRuns, DirectorIsSignalled
<1>5. CASE UNCHANGED vars
  BY <1>5, OthersKeepSweep DEF vars, cfgVars, queueVars, dispenserVars, directorVars
<1>q. QED  BY <1>1, <1>2, <1>3, <1>4, <1>5 DEF Next

LEMMA SweptAlways == Spec => []SweepInv
  BY InitSweep, NextSweep, TypeCorrect, MutexCorrect, Barriers, PTL DEF Spec

(* From the flush of the last queue to the next morning every queue stays  *)
(* empty, though the dispenser and the director share no lock but the      *)
(* queue's own: service_queue_reset drops no ticket and nobody is left in  *)
(* a queue at the end.                                                     *)
THEOREM QueuesStayFlushedHolds == Spec => []QueuesStayFlushed
<1>1. SweepInv => QueuesStayFlushed
  BY DEF SweepInv, Swept, SweepPC, DayPC, QueuesStayFlushed
<1>q. QED  BY <1>1, SweptAlways, PTL

-----------------------------------------------------------------------------
(* The jobs semaphores *)

(* From run_day to the release of the counter: what a SIGUSR2 cuts short. *)
DutyPC == InDayPC \ {"release", "releasing", "post_token", "report"}

(* While the office is open no operator at work, or about to be, has a     *)
(* SIGUSR2 of an earlier day ahead of it.                                  *)
OnDuty(w) ==
  /\ opc[w] \in InDayPC => "USR2" \notin pending[w]
  /\ dayStarted[w] => "USR2" \notin pending[w]
  /\ opc[w] \in DutyPC => ~dayStop[w]

DutyInv == dayActive => \A w \in Workers : OnDuty(w)

(* Took a job, and has not popped its ticket yet. *)
ServingPC == {"pop_lock", "pop"}
Serving(s) == {w \in Workers : workerService[w] = s /\ opc[w] \in ServingPC}

OthersServe(w) ==
  /\ UNCHANGED <<dayActive, workerService>>
  /\ \A v \in Workers \ {w} :
       /\ opc'[v] = opc[v] /\ pending'[v] = pending[v]
       /\ dayStarted'[v] = dayStarted[v] /\ dayStop'[v] = dayStop[v]

Elsewhere(w) ==
  /\ UNCHANGED <<queue, jobs>>
  /\ opc'[w] \in ServingPC <=> opc[w] \in ServingPC

LEMMA OperatorServes ==
  ASSUME NEW w \in Workers, SharedTypeOK, OperatorTypeOK, Calm(w), OnDuty(w),
         OperatorStep(w) \/ OperatorSignal(w)
  PROVE  /\ OthersServe(w)
         /\ OnDuty(w)'
         /\ WaitForTicket(w) \/ PopTicket(w) \/ PopNothing(w) \/ Elsewhere(w)
<1> USE DEF OthersServe, Elsewhere, OnDuty, DutyPC, InDayPC, ServingPC, OperatorJump,
            OperatorTypeOK, sharedVars, cfgVars, workerVars, queueVars, sigVars, flagVars
<1>1. CASE WaitForTicket(w) \/ PopTicket(w) \/ PopNothing(w)
  BY <1>1 DEF WaitForTicket, PopTicket, PopNothing
<1>2. CASE TakeToken(w) \/ HandBackToken(w) \/ StartScan(w) \/ FindCounter(w)
  BY <1>2 DEF TakeToken, HandBackToken, StartScan, FindCounter
<1>3. CASE SkipCounter(w) \/ ClaimCounter(w) \/ ReleaseCounter(w) \/ PostToken(w)
  BY <1>3 DEF SkipCounter, ClaimCounter, ReleaseCounter, PostToken
<1>4. CASE OperatorSendInit(w) \/ OperatorSuspend(w) \/ OperatorExit(w) \/ TestClaimLoop(w)
  BY <1>4 DEF OperatorSendInit, OperatorSuspend, OperatorExit, TestClaimLoop
<1>5. CASE OperatorStartDay(w)
  <2>1. w \in Children /\ dayStop \in [Workers -> BOOLEAN]
        /\ dayStarted \in [Workers \cup Users -> BOOLEAN]
    BY DEF Children, SharedTypeOK, SigTypeOK
  <2>q. QED  BY <1>5, <2>1 DEF OperatorStartDay
<1>6. CASE LockScanned(w) \/ TestServeLoop(w) \/ OperatorLockQueue(w) \/ ServeTicket(w)
  BY <1>6 DEF LockScanned, LockCounter, TestServeLoop, OperatorLockQueue, LockQueue,
     ServeTicket, LockStats
<1>7. CASE CountServed(w) \/ ReplyServed(w) \/ StopAfterService(w) \/ KeepWorking(w)
  BY <1>7 DEF CountServed, ReplyServed, StopAfterService, KeepWorking
<1>8. CASE TakePause(w) \/ LockStatsForPause(w) \/ LockRelease(w) \/ ReportDayFinished(w)
  BY <1>8 DEF TakePause, LockStatsForPause, LockStats, LockRelease, LockCounter,
     ReportDayFinished
<1>9. CASE CountPause(w)
  BY <1>9 DEF CountPause
<1>10. CASE OperatorSignal(w)
  <2>1. /\ w \in Children /\ dayStop \in [Workers -> BOOLEAN]
        /\ pending \in [Children -> SUBSET Signals] /\ terminate \in [Children -> BOOLEAN]
        /\ dayStarted \in [Workers \cup Users -> BOOLEAN]
        /\ \A v \in Workers : v \in Children
    BY DEF Children, SharedTypeOK, SigTypeOK
  <2>2. /\ pending'[w] = {} /\ UNCHANGED <<dayActive, workerService, queue, jobs>>
        /\ dayStop'[w] = (dayStop[w] \/ pending[w] \cap {"USR2", "TERM"} # {})
        /\ terminate'[w] = (terminate[w] \/ "TERM" \in pending[w])
    BY <1>10, <2>1 DEF OperatorSignal
  <2>3. OthersServe(w)
    BY <1>10, <2>1 DEF OperatorSignal
  <2>4. ~terminate'[w] /\ (opc[w] \in InDayPC => dayStop'[w] = dayStop[w])
    BY <2>1, <2>2 DEF Calm
  <2>5. \/ opc'[w] = opc[w]
        \/ opc[w] = "suspend" /\ opc'[w] = "idle"
        \/ /\ opc[w] \in {"release"} /\ opc'[w] \in {"report"}
    BY <1>10, <2>1, <2>4 DEF OperatorSignal, OperatorBlocked, AfterInterrupt
  <2>q. QED  BY <2>2, <2>3, <2>4, <2>5
<1>q. QED
  BY <1>1, <1>2, <1>3, <1>4, <1>5, <1>6, <1>7, <1>8, <1>9, <1>10 DEF OperatorStep

PostDue(s) == IF tpc = "post" /\ request.service = s THEN 1 ELSE 0

Covered(s) == Len(queue[s]) <= jobs[s] + Cardinality(Serving(s)) + PostDue(s)

JobsInv == DutyInv /\ (dayActive => \A s \in Services : Covered(s))

LEMMA ServingFinite ==
  /\ \A s : IsFiniteSet(Serving(s)) /\ Cardinality(Serving(s)) \in Nat
  /\ \A s : PostDue(s) \in {0, 1}
<1>1. \A s : Serving(s) \subseteq Workers
  BY DEF Serving
<1>q. QED  BY <1>1, ProcessAssumption, FS_Subset, FS_CardinalityType DEF PostDue

LEMMA OperatorKeepsCovered ==
  ASSUME NEW w \in Workers, NEW s \in Services, TypeOK, TypeOK', Covered(s), OthersServe(w),
         WaitForTicket(w) \/ PopTicket(w) \/ PopNothing(w) \/ Elsewhere(w),
         UNCHANGED dispenserVars
  PROVE  Covered(s)'
<1>0. /\ queue \in [Services -> Seq(Users)] /\ jobs[s] \in Nat /\ jobs'[s] \in Nat
      /\ jobs \in [Services -> Nat] /\ opc \in [Workers -> OperatorPC]
      /\ workerService \in [Workers -> Services] /\ Len(queue[s]) \in Nat
  BY DEF TypeOK, SharedTypeOK, QueueTypeOK, OperatorTypeOK, WorkerTypeOK
<1>1. PostDue(s)' = PostDue(s)
  BY DEF PostDue, dispenserVars
<1>2. \A v : v # w => (v \in Serving(s) <=> v \in Serving(s)')
  BY DEF Serving, OthersServe
<1>3. /\ w \in Serving(s) <=> workerService[w] = s /\ opc[w] \in ServingPC
      /\ w \in Serving(s)' <=> workerService[w] = s /\ opc'[w] \in ServingPC
  BY DEF Serving, OthersServe
<1>4. Cardinality(Serving(s)) \in Nat /\ PostDue(s) \in {0, 1} /\ IsFiniteSet(Serving(s))
  BY ServingFinite
<1>5. CASE workerService[w] # s
  <2>1. Serving(s)' = Serving(s)
    BY <1>2, <1>3, <1>5
  <2>2. queue'[s] = queue[s] /\ jobs'[s] = jobs[s]
    BY <1>0, <1>5 DEF WaitForTicket, PopTicket, PopQueue, PopNothing, Elsewhere
  <2>q. QED  BY <1>1, <2>1, <2>2 DEF Covered
<1>6. CASE workerService[w] = s
  <2>1. CASE WaitForTicket(w)
    <3>1. /\ jobs'[s] = jobs[s] - 1 /\ queue' = queue
          /\ opc[w] = "wait_job" /\ opc'[w] = "pop_lock"
      BY <1>0, <1>6, <2>1 DEF WaitForTicket, OperatorJump
    <3>2. w \notin Serving(s) /\ w \in Serving(s)'
      BY <1>3, <1>6, <3>1 DEF ServingPC
    <3>3. jobs'[s] + Cardinality(Serving(s)') = jobs[s] + Cardinality(Serving(s))
      BY <1>0, <1>2, <1>4, <3>1, <3>2, TokenMoves
    <3>q. QED  BY <1>0, <1>1, <1>4, <3>1, <3>3 DEF Covered
  <2>2. CASE PopTicket(w) \/ PopNothing(w)
    <3>1. opc[w] = "pop" /\ opc'[w] \notin ServingPC /\ jobs' = jobs
      BY <1>0, <2>2 DEF PopTicket, PopNothing, OperatorJump, ServingPC
    <3>2. Serving(s)' = Serving(s) \ {w} /\ w \in Serving(s)
      BY <1>2, <1>3, <1>6, <3>1 DEF ServingPC
    <3>3. Cardinality(Serving(s)') = Cardinality(Serving(s)) - 1
      BY <1>4, <3>2, FS_RemoveElement
    <3>4. Cardinality(Serving(s)') \in Nat
      BY <1>4, <3>2, FS_Subset, FS_CardinalityType
    <3>5. CASE PopTicket(w)
      <4>1. queue'[s] = Tail(queue[s]) /\ queue[s] # <<>> /\ queue[s] \in Seq(Users)
        BY <1>0, <1>6, <3>5 DEF PopTicket, PopQueue
      <4>2. Len(queue'[s]) = Len(queue[s]) - 1
        BY <4>1
      <4>q. QED  BY <1>0, <1>1, <1>4, <3>1, <3>3, <4>2 DEF Covered
    <3>6. CASE PopNothing(w)
      <4>1. queue'[s] = <<>>
        BY <1>6, <3>6 DEF PopNothing
      <4>2. Len(queue'[s]) = 0
        BY <4>1
      <4>q. QED  BY <1>0, <1>1, <1>4, <3>4, <4>2 DEF Covered
    <3>q. QED  BY <2>2, <3>5, <3>6
  <2>3. CASE Elsewhere(w)
    <3>1. Serving(s)' = Serving(s)
      BY <1>2, <1>3, <2>3 DEF Elsewhere
    <3>q. QED  BY <1>1, <2>3, <3>1 DEF Covered, Elsewhere
  <2>q. QED  BY <2>1, <2>2, <2>3
<1>q. QED  BY <1>5, <1>6

LEMMA OperatorKeepsJobs ==
  ASSUME NEW w \in Workers, TypeOK, TypeOK', BarrierInv, SweepInv, JobsInv,
         OperatorStep(w) \/ OperatorSignal(w), UNCHANGED <<dispenserVars, directorVars>>
  PROVE  JobsInv'
<1> SUFFICES ASSUME dayActive PROVE JobsInv'
  BY OperatorsOnlyPop DEF JobsInv, DutyInv, TypeOK
<1>1. dpc = "day"
  BY DEF SweepInv
<1>2. Calm(w) /\ OnDuty(w)
  BY <1>1 DEF BarrierInv, Stopping, JobsInv, DutyInv
<1>3. /\ OthersServe(w) /\ OnDuty(w)'
      /\ WaitForTicket(w) \/ PopTicket(w) \/ PopNothing(w) \/ Elsewhere(w)
  BY <1>2, OperatorServes DEF TypeOK
<1>4. \A v \in Workers : OnDuty(v)'
  BY <1>3 DEF JobsInv, DutyInv, OthersServe, OnDuty
<1>5. \A s \in Services : Covered(s)'
  BY <1>3, OperatorKeepsCovered DEF JobsInv
<1>q. QED  BY <1>4, <1>5 DEF JobsInv, DutyInv

(* The dispenser pushes first and posts next. *)
DispenserAnnounces ==
  /\ UNCHANGED <<dayActive, dayStarted, dayStop>>
  /\ \A v \in Workers : pending'[v] = pending[v]
  /\ \/ UNCHANGED <<queue, jobs>> /\ \A s : PostDue(s)' = PostDue(s)
     \/ PushTicket \/ PostJob

LEMMA DispenserPosts ==
  ASSUME TypeOK, SweepInv, BarrierInv, dayActive, DispenserStep \/ DispenserSignal,
         UNCHANGED directorVars
  PROVE  DispenserAnnounces
<1>0. ~ipcRemoved
  BY DEF SweepInv, BarrierInv, RemovedAtEnd
<1> USE DEF DispenserAnnounces, PostDue, DispenserJump, sharedVars, cfgVars, queueVars, sigVars,
            flagVars
<1>1. CASE PushTicket \/ PostJob
  BY <1>1 DEF PushTicket, PostJob
<1>2. CASE DispenserSendInit \/ ReceiveRequest \/ LockStatsForRequest \/ CountRequest
           \/ CheckDayActive \/ CheckOffered
  BY <1>2 DEF DispenserSendInit, ReceiveRequest, LockStatsForRequest, LockStats,
     CountRequest, CheckDayActive, CheckOffered
<1>3. CASE DispenserLockQueue \/ RefuseLocked \/ AcceptLocked \/ LockStatsForRefusal
           \/ CountRefusal \/ ReplyRefusal \/ DispenserTestLoop
  BY <1>3 DEF DispenserLockQueue, LockQueue, RefuseLocked, AcceptLocked,
     LockStatsForRefusal, LockStats, CountRefusal, ReplyRefusal, DispenserTestLoop
<1>4. CASE DispenserLosesIpc
  BY <1>0, <1>4 DEF DispenserLosesIpc
<1>5. CASE DispenserSignal
  <2>1. \A v \in Workers : v # Dispenser /\ v \in Children
    BY ProcessAssumption DEF Children
  <2>2. pending \in [Children -> SUBSET Signals]
    BY DEF TypeOK, SharedTypeOK, SigTypeOK
  <2>3. \A v \in Workers : pending'[v] = pending[v]
    BY <1>5, <2>1, <2>2 DEF DispenserSignal
  <2>4. /\ UNCHANGED <<dayActive, dayStarted, dayStop, queue, jobs>>
        /\ (tpc' = "post" <=> tpc = "post") /\ (tpc = "post" => request' = request)
    BY <1>5 DEF DispenserSignal, DispenserInterrupted, dispenserVars
  <2>q. QED  BY <2>3, <2>4
<1>q. QED  BY <1>1, <1>2, <1>3, <1>4, <1>5 DEF DispenserStep, DispenserIpcStep

LEMMA DispenserKeepsJobs ==
  ASSUME TypeOK, BarrierInv, SweepInv, JobsInv, DispenserStep \/ DispenserSignal,
         UNCHANGED <<operatorVars, directorVars>>
  PROVE  JobsInv'
<1>0. /\ queue \in [Services -> Seq(Users)] /\ jobs \in [Services -> Nat]
      /\ tpc \in HandlingPC => request \in TicketMessage
  BY DEF TypeOK, SharedTypeOK, QueueTypeOK, DispenserTypeOK
<1>1. (dayActive' => dayActive) /\ workerService' = workerService
  <2>1. dayActive' = dayActive
    BY DEF DispenserStep, DispenserIpcStep, DispenserSendInit, ReceiveRequest,
       LockStatsForRequest, CountRequest, CheckDayActive, CheckOffered,
       DispenserLockQueue, RefuseLocked, AcceptLocked, PushTicket, PostJob,
       LockStatsForRefusal, CountRefusal, ReplyRefusal, DispenserTestLoop,
       DispenserLosesIpc, DispenserSignal, LockStats, LockQueue, sharedVars, cfgVars
  <2>q. QED  BY <2>1, DispenserSits DEF workerVars
<1> SUFFICES ASSUME dayActive PROVE JobsInv'
  BY <1>1 DEF JobsInv, DutyInv
<1>2. DispenserAnnounces
  BY DispenserPosts
<1>3. \A v \in Workers : OnDuty(v)'
  BY <1>2 DEF JobsInv, DutyInv, OnDuty, DispenserAnnounces, operatorVars
<1>4. \A s : Serving(s)' = Serving(s)
  BY <1>1 DEF Serving, operatorVars
<1>5. ASSUME NEW s \in Services PROVE Covered(s)'
  <2>0. /\ Covered(s) /\ Len(queue[s]) \in Nat /\ jobs[s] \in Nat /\ PostDue(s) \in {0, 1}
        /\ Cardinality(Serving(s)) \in Nat /\ queue[s] \in Seq(Users)
    BY <1>0, ServingFinite DEF JobsInv
  <2>1. CASE UNCHANGED <<queue, jobs>> /\ \A t : PostDue(t)' = PostDue(t)
    BY <1>4, <2>0, <2>1 DEF Covered
  <2>2. CASE PushTicket
    <3>1. /\ tpc = "push" /\ tpc' = "post" /\ UNCHANGED <<request, jobs>>
          /\ queue' = [queue EXCEPT ![request.service] = Append(@, request.user)]
      BY <2>2 DEF PushTicket, DispenserJump, PushQueue
    <3>2. CASE request.service = s
      <4>1. Len(queue'[s]) = Len(queue[s]) + 1
        BY <1>0, <2>0, <3>1, <3>2
      <4>2. PostDue(s) = 0 /\ PostDue(s)' = 1
        BY <3>1, <3>2 DEF PostDue
      <4>q. QED  BY <1>4, <2>0, <3>1, <4>1, <4>2 DEF Covered
    <3>3. CASE request.service # s
      BY <1>0, <1>4, <2>0, <3>1, <3>3 DEF Covered, PostDue
    <3>q. QED  BY <3>2, <3>3
  <2>3. CASE PostJob
    <3>1. /\ tpc = "post" /\ tpc' = "loop" /\ queue' = queue
          /\ jobs' = [jobs EXCEPT ![request.service] = @ + 1]
      BY <2>3 DEF PostJob, DispenserJump
    <3>2. PostDue(s)' = 0
      BY <3>1 DEF PostDue
    <3>3. CASE request.service = s
      <4>1. jobs'[s] = jobs[s] + 1 /\ PostDue(s) = 1
        BY <1>0, <3>1, <3>3 DEF PostDue
      <4>q. QED  BY <1>4, <2>0, <3>1, <3>2, <4>1 DEF Covered
    <3>4. CASE request.service # s
      <4>1. jobs'[s] = jobs[s] /\ PostDue(s) = 0
        BY <1>0, <3>1, <3>4 DEF PostDue
      <4>q. QED  BY <1>4, <2>0, <3>1, <3>2, <4>1 DEF Covered
    <3>q. QED  BY <3>3, <3>4
  <2>q. QED  BY <1>2, <2>1, <2>2, <2>3 DEF DispenserAnnounces
<1>q. QED  BY <1>3, <1>5 DEF JobsInv, DutyInv

(* In the morning the queues are empty, and a SIGUSR2 that yesterday left  *)
(* behind is handled together with today's SIGUSR1, before the day begins. *)
LEMMA DirectorKeepsJobs ==
  ASSUME NEW gone, TypeOK, TypeOK', BarrierInv, SweepInv, SweepInv', JobsInv,
         DirectorStep(gone) \/ Terminate(gone) \/ CtrlC(gone),
         UNCHANGED <<operatorVars, dispenserVars>>
  PROVE  JobsInv'
<1>1. CASE ~dayActive'
  BY <1>1 DEF JobsInv, DutyInv
<1>2. CASE OpenDay
  <2>1. dpc = "open" /\ UNCHANGED <<opc, dayStarted, dayStop>>
    BY <1>2 DEF OpenDay, DirectorJump, flagVars, operatorVars
  <2>2. ASSUME NEW w \in Workers PROVE opc[w] \notin InDayPC /\ ~dayStarted[w]
    <3>1. opc[w] \notin InDayPC
      BY <2>1, AtWorkByDay DEF DayPC
    <3>2. ~OwesReport(w)
      BY <2>1 DEF BarrierInv, DayBarrier, DayPC, Owing
    <3>3. Calm(w)
      BY <2>1 DEF BarrierInv, Stopping
    <3>q. QED  BY <3>1, <3>2, <3>3 DEF OwesReport, Calm
  <2>3. \A w \in Workers : OnDuty(w)'
    BY <2>1, <2>2 DEF OnDuty, DutyPC
  <2>4. ASSUME NEW s \in Services PROVE Covered(s)'
    <3>1. queue'[s] = <<>> /\ jobs'[s] = 0
      BY <1>2 DEF OpenDay
    <3>2. Len(queue'[s]) = 0
      BY <3>1
    <3>3. Cardinality(Serving(s)') \in Nat /\ PostDue(s)' \in {0, 1}
      <4>1. Serving(s)' \subseteq Workers
        BY DEF Serving
      <4>q. QED  BY <4>1, ProcessAssumption, FS_Subset, FS_CardinalityType
         DEF PostDue
    <3>q. QED  BY <3>1, <3>2, <3>3 DEF Covered
  <2>q. QED  BY <2>3, <2>4 DEF JobsInv, DutyInv
<1>3. CASE Terminate(gone) \/ CtrlC(gone)
  <2>1. UNCHANGED sharedVars
    BY <1>3 DEF Terminate, CtrlC, DirectorInterrupted
  <2>2. UNCHANGED <<dayActive, pending, dayStarted, dayStop, queue, jobs, workerService>>
    BY <2>1 DEF sharedVars, cfgVars, sigVars, flagVars, queueVars, workerVars
  <2>3. \A s : Covered(s)' <=> Covered(s)
    BY <2>2 DEF Covered, Serving, PostDue, operatorVars, dispenserVars
  <2>4. \A w : OnDuty(w)' <=> OnDuty(w)
    BY <2>2 DEF OnDuty, operatorVars
  <2>q. QED  BY <2>2, <2>3, <2>4 DEF JobsInv, DutyInv
<1>4. CASE DirectorStep(gone) /\ ~OpenDay /\ dayActive'
  <2>1. dpc' = "day"
    BY <1>4 DEF SweepInv
  <2>q. QED
    BY <1>4, <2>1, DirectorMoves
       DEF BetweenDays, BetweenDaysPC, DayPC, ReceiveInit, CloseDay,
       ReceiveFinished, StopChildren, CleanUp, DirectorJump
<1>q. QED  BY <1>1, <1>2, <1>3, <1>4

LEMMA OthersKeepJobs ==
  ASSUME JobsInv, UNCHANGED <<dayActive, queueVars, workerVars, operatorVars, dispenserVars>>,
         \A w \in Workers : /\ pending'[w] = pending[w] /\ dayStarted'[w] = dayStarted[w]
                            /\ dayStop'[w] = dayStop[w]
  PROVE  JobsInv'
<1>1. \A s : Covered(s)' <=> Covered(s)
  BY DEF Covered, Serving, PostDue, operatorVars, dispenserVars, queueVars,
     workerVars
<1>2. \A w \in Workers : OnDuty(w)' <=> OnDuty(w)
  BY DEF OnDuty, operatorVars
<1>q. QED  BY <1>1, <1>2 DEF JobsInv, DutyInv

LEMMA UserKeepsJobs ==
  ASSUME NEW u \in Users, TypeOK, JobsInv, UserStep(u) \/ UserSignal(u),
         UNCHANGED <<operatorVars, dispenserVars, directorVars>>
  PROVE  JobsInv'
<1>1. \A v \in Workers : v # u /\ v \in Children
  BY ProcessAssumption DEF Children
<1>2. /\ pending \in [Children -> SUBSET Signals]
      /\ dayStarted \in [Workers \cup Users -> BOOLEAN]
  BY DEF TypeOK, SharedTypeOK, SigTypeOK
<1>3. UNCHANGED <<dayActive, dayStop>>
  BY DEF UserStep, UserSendInit, UserSuspend, UserExit, UserStaysHome, UserSetsOut,
     UserWakesUp, UserArrives, UserAsks, UserGetsReply, UserLosesIpc, UserSignal,
     sharedVars, cfgVars, sigVars, flagVars
<1>4. \A v \in Workers : pending'[v] = pending[v] /\ dayStarted'[v] = dayStarted[v]
  BY UserReports DEF TypeOK, OperatorsStay
<1>q. QED  BY <1>3, <1>4, UserMutexes, OthersKeepJobs

LEMMA InitJobs == Init => JobsInv
  BY DEF Init, SharedStateInit, JobsInv, DutyInv

LEMMA NextJobs ==
  TypeOK /\ TypeOK' /\ BarrierInv /\ SweepInv /\ SweepInv' /\ JobsInv /\ [Next]_vars => JobsInv'
<1> SUFFICES ASSUME TypeOK, TypeOK', BarrierInv, SweepInv, SweepInv', JobsInv, [Next]_vars
             PROVE  JobsInv'
  OBVIOUS
<1>1. ASSUME NEW w \in Workers, OperatorRuns(w) \/ OperatorIsSignalled(w) PROVE JobsInv'
  BY <1>1, OperatorKeepsJobs DEF OperatorRuns, OperatorIsSignalled
<1>2. ASSUME NEW u \in Users, UserRuns(u) \/ UserIsSignalled(u) PROVE JobsInv'
  BY <1>2, UserKeepsJobs DEF UserRuns, UserIsSignalled
<1>3. CASE DispenserRuns \/ DispenserIsSignalled
  BY <1>3, DispenserKeepsJobs DEF DispenserRuns, DispenserIsSignalled
<1>4. CASE DirectorRuns \/ DirectorIsSignalled
  BY <1>4, DirectorKeepsJobs DEF DirectorRuns, DirectorIsSignalled
<1>5. CASE UNCHANGED vars
  BY <1>5, OthersKeepJobs DEF vars, cfgVars, sigVars, flagVars
<1>q. QED  BY <1>1, <1>2, <1>3, <1>4, <1>5 DEF Next

(* While the post office is open no ticket waits without a token of the    *)
(* jobs semaphore, in the semaphore or on its way to or from it, whatever  *)
(* the number of operators and whatever signals an earlier day left.       *)
THEOREM JobsCoverQueueHolds == Spec => []JobsCoverQueue
<1>1. JobsInv => JobsCoverQueue
  BY DEF JobsInv, Covered, Serving, ServingPC, PostDue, JobsCoverQueue
<1>2. Spec => []JobsInv
  BY InitJobs, NextJobs, TypeCorrect, Barriers, SweptAlways, PTL DEF Spec
<1>q. QED  BY <1>1, <1>2, PTL
=============================================================================
