-------------------------------- MODULE User --------------------------------
(***************************************************************************)
(* The user process (user.c): every day it may stay at home, or arrive at  *)
(* some moment, ask the dispenser for a ticket and wait for one answer.    *)
(* Labels as in module Operator.                                           *)
(***************************************************************************)
EXTENDS Commons

VARIABLES
  upc,     (* program counter of each user                                 *)
  wants    (* requested_service, None outside run_day                      *)

userVars == <<upc, wants>>

UserPC == {"init", "idle", "suspend", "arrive", "ask", "await", "exited", "failed"}

UserTypeOK ==
  /\ upc \in [Users -> UserPC]
  /\ wants \in [Users -> Services \cup {None}]
  /\ \A u \in Users : upc[u] \in {"arrive", "ask", "await"} => wants[u] \in Services

UserInit ==
  /\ upc = [u \in Users |-> "init"]
  /\ wants = [u \in Users |-> None]

UserJump(u, from, to) == upc[u] = from /\ upc' = [upc EXCEPT ![u] = to]

UserSendInit(u) ==
  /\ UserJump(u, "init", "idle")
  /\ Room
  /\ inits' = inits + 1
  /\ UNCHANGED <<cfgVars, deskVars, workerVars, queueVars, statVars, sigVars,
                 finished, ticketBox, replyBox, wants>>

UserSuspend(u) ==
  /\ UserJump(u, "idle", "suspend")
  /\ ~dayStarted[u] /\ ~terminate[u]
  /\ UNCHANGED <<sharedVars, wants>>

UserExit(u) ==
  /\ UserJump(u, "idle", "exited")
  /\ terminate[u]
  /\ UNCHANGED <<sharedVars, wants>>

(* A new day: main clears both flags, then the dice of run_day. *)
UserWakesUp(u) ==
  /\ dayStarted[u] /\ ~terminate[u]
  /\ dayStarted' = [dayStarted EXCEPT ![u] = FALSE]
  /\ dayClosed' = [dayClosed EXCEPT ![u] = FALSE]
  /\ UNCHANGED <<cfgVars, deskVars, workerVars, queueVars, statVars, msgVars,
                 pending, dayStop, terminate>>

UserStaysHome(u) ==
  /\ UserJump(u, "idle", "idle")
  /\ UserWakesUp(u)
  /\ UNCHANGED wants

UserSetsOut(u) ==
  /\ UserJump(u, "idle", "arrive")
  /\ UserWakesUp(u)
  /\ \E s \in Services : wants' = [wants EXCEPT ![u] = s]

TooLate(u) == terminate[u] \/ dayClosed[u] \/ ~dayActive

(* The arrival sleep ends; the last look at the clock before the request. *)
UserArrives(u) ==
  /\ UserJump(u, "arrive", IF TooLate(u) THEN "idle" ELSE "ask")
  /\ wants' = [wants EXCEPT ![u] = IF TooLate(u) THEN None ELSE @]
  /\ UNCHANGED <<sharedVars>>

UserAsks(u) ==
  /\ UserJump(u, "ask", "await")
  /\ Room
  /\ ticketBox' = Append(ticketBox, [user |-> u, service |-> wants[u]])
  /\ UNCHANGED <<cfgVars, deskVars, workerVars, queueVars, statVars, inits,
                 finished, replyBox, sigVars, wants>>

UserGetsReply(u) ==
  /\ UserJump(u, "await", "idle")
  /\ ~ipcRemoved /\ replyBox[u] # <<>>
  /\ replyBox' = [replyBox EXCEPT ![u] = Tail(@)]
  /\ wants' = [wants EXCEPT ![u] = None]
  /\ UNCHANGED <<cfgVars, deskVars, workerVars, queueVars, statVars, inits,
                 finished, ticketBox, sigVars>>

(* Mutant: the wait for the answer ends with the day. *)
UserGivesUpAtClosing(u) ==
  \/ upc[u] = "arrive" /\ (terminate'[u] \/ dayClosed'[u] \/ ~dayActive)
  \/ upc[u] = "ask" /\ ~Room /\ terminate'[u]
  \/ upc[u] = "await" /\ replyBox[u] = <<>> /\ (terminate'[u] \/ dayClosed'[u])

(* Asleep in nanosleep, msgsnd or msgrcv with a reason to give up when the *)
(* call returns EINTR.                                                     *)
UserGivesUp(u) ==
  \/ upc[u] = "arrive" /\ (terminate'[u] \/ dayClosed'[u] \/ ~dayActive)
  \/ upc[u] = "ask" /\ ~Room /\ terminate'[u]
  \/ upc[u] = "await" /\ replyBox[u] = <<>> /\ terminate'[u]

(* handle_user_signal for everything pending.  SIGUSR1 opens and SIGUSR2   *)
(* closes the day: pending together, they are handled in either order.     *)
UserSignal(u) ==
  LET sigs == pending[u]
      opens == "USR1" \in sigs
      closes == sigs \cap {"USR2", "TERM"} # {}
  IN
  /\ sigs # {}
  /\ upc[u] \notin {"exited", "failed"}
  /\ pending' = [pending EXCEPT ![u] = {}]
  /\ dayStarted' = [dayStarted EXCEPT ![u] = @ \/ sigs \cap {"USR1", "TERM"} # {}]
  /\ \E closed \in BOOLEAN :
       /\ opens /\ ~closes => ~closed
       /\ closes /\ ~opens => closed
       /\ ~opens /\ ~closes => closed = dayClosed[u]
       /\ dayClosed' = [dayClosed EXCEPT ![u] = closed]
  /\ terminate' = [terminate EXCEPT ![u] = @ \/ "TERM" \in sigs]
  /\ \/ UNCHANGED userVars
     \/ UserJump(u, "suspend", "idle") /\ UNCHANGED wants
     \/ /\ UserGivesUp(u)
        /\ upc' = [upc EXCEPT ![u] = "idle"]
        /\ wants' = [wants EXCEPT ![u] = None]
  /\ UNCHANGED <<cfgVars, deskVars, workerVars, queueVars, statVars, msgVars,
                 dayStop>>

(* The director removed the message queue: msgsnd or msgrcv fails. *)
UserLosesIpc(u) ==
  /\ ipcRemoved
  /\ upc[u] \in {"ask", "await"}
  /\ upc' = [upc EXCEPT ![u] = "failed"]
  /\ UNCHANGED <<sharedVars, wants>>

UserStep(u) ==
  \/ UserSendInit(u) \/ UserSuspend(u) \/ UserExit(u) \/ UserStaysHome(u)
  \/ UserSetsOut(u) \/ UserArrives(u) \/ UserAsks(u) \/ UserGetsReply(u)
  \/ UserLosesIpc(u)
=============================================================================
