------------------------------- MODULE Startup -------------------------------
(***************************************************************************)
(* The life of the IPC objects over several runs of the simulation: the    *)
(* director removes what an earlier run left (director.c:32-74), creates   *)
(* its own, forks its children, waits until all have attached, runs its    *)
(* days and removes everything; or it dies half-way and is started again   *)
(* while children of the earlier run are still about.  PostOffice is what  *)
(* happens during the days, here one step.                                 *)
(***************************************************************************)
EXTENDS Integers, Sequences, FiniteSets

CONSTANTS
  CHILDREN,    (* NOF_WORKERS + NOF_USERS + 1                              *)
  MAX_RUNS     (* bound: how often the director is started                 *)

ASSUME StartupAssumption == CHILDREN \in Nat \ {0} /\ MAX_RUNS \in Nat \ {0}

(* The keys of commons.h.  "state" stands for the five segments besides    *)
(* the configuration, which are created, attached and removed together.    *)
Objects == {"config", "state", "msg", "sem"}
RemovalOrder == <<"msg", "sem", "config", "state">>
CreationOrder == <<"state", "msg", "sem">>
AttachOrder == <<"config", "state", "sem", "msg">>

Runs == 1 .. MAX_RUNS
Kids == Runs \X (1 .. CHILDREN)     (* <<r, i>>: child i of run r          *)

VARIABLES
  run,        (* the present run of the director                           *)
  dpc,        (* what its director is doing                                *)
  step,       (* loop index of the director                                *)
  obj,        (* the run that created the object behind a key, 0: none     *)
  handle,     (* the object the director's id stands for, 0: -1            *)
  inits,      (* DIRECTOR_MSG_INIT messages in the queue of each run       *)
  received,   (* INITs counted by wait_for_initialization                  *)
  kpc,        (* what each child is doing                                  *)
  view        (* the objects each child has attached, as handle            *)

vars == <<run, dpc, step, obj, handle, inits, received, kpc, view>>
kidVars == <<kpc, view>>

DirectorPC == {"stale", "config", "read", "allocate", "fork", "wait", "days",
               "stop", "cleanup", "exited", "failed"}
KidPC == {"none", "forked", "attach", "ready", "dead", "left"}

Ended == {"exited", "failed"}
Own == {k \in Kids : k[1] = run}
Signalled == {k \in Own : k[2] > 1}         (* all but the dispenser       *)
Reported == {k \in Kids : kpc[k] \in {"ready", "left"}
                            /\ view[k]["msg"] = run}

Init ==
  /\ run = 1 /\ dpc = "stale" /\ step = 1
  /\ obj = [o \in Objects |-> 0]
  /\ handle = [o \in Objects |-> 0]
  /\ inits = [r \in Runs |-> 0]
  /\ received = 0
  /\ kpc = [k \in Kids |-> "none"]
  /\ view = [k \in Kids |-> [o \in Objects |-> 0]]

-----------------------------------------------------------------------------
(* The director *)

(* Mutant: the loop over the segments is left before the last of them      *)
RemoveStaleButLast ==
  /\ dpc = "stale"
  /\ obj' = IF step = Len(RemovalOrder)
              THEN obj ELSE [obj EXCEPT ![RemovalOrder[step]] = 0]
  /\ IF step = Len(RemovalOrder)
       THEN dpc' = "config" /\ step' = 1
       ELSE step' = step + 1 /\ UNCHANGED dpc
  /\ UNCHANGED <<run, handle, inits, received, kidVars>>

(* One msgget/semget/shmget and the IPC_RMID of cleanup_stale_ipc_resources *)
RemoveStale ==
  /\ dpc = "stale"
  /\ obj' = [obj EXCEPT ![RemovalOrder[step]] = 0]
  /\ IF step = Len(RemovalOrder)
       THEN dpc' = "config" /\ step' = 1
       ELSE step' = step + 1 /\ UNCHANGED dpc
  /\ UNCHANGED <<run, handle, inits, received, kidVars>>

(* xxxget(key, IPC_CREAT): the object behind the key, made if there is none *)
Get(o) ==
  LET id == IF obj[o] = 0 THEN run ELSE obj[o]
  IN  obj' = [obj EXCEPT ![o] = id] /\ handle' = [handle EXCEPT ![o] = id]

CreateConfig ==
  /\ dpc = "config"
  /\ Get("config")
  /\ dpc' = "read"
  /\ UNCHANGED <<run, step, inits, received, kidVars>>

(* read_config_file; a refused file goes straight to cleanup_ipc           *)
ReadConfig ==
  /\ dpc = "read"
  /\ dpc' \in {"allocate", "cleanup"}
  /\ UNCHANGED <<run, step, obj, handle, inits, received, kidVars>>

(* allocate_ipc goes on after a failure and looks at the ids at the end    *)
Allocate ==
  /\ dpc = "allocate" /\ step <= Len(CreationOrder)
  /\ Get(CreationOrder[step]) \/ UNCHANGED <<obj, handle>>
  /\ step' = step + 1
  /\ UNCHANGED <<run, dpc, inits, received, kidVars>>

CheckIds ==
  /\ dpc = "allocate" /\ step > Len(CreationOrder)
  /\ dpc' = IF \E o \in Objects : handle[o] = 0 THEN "failed" ELSE "fork"
  /\ step' = 1
  /\ UNCHANGED <<run, obj, handle, inits, received, kidVars>>

Fork ==
  /\ dpc = "fork"
  /\ kpc' = [kpc EXCEPT ![<<run, step>>] = "forked"]
  /\ IF step = CHILDREN
       THEN dpc' = "wait" /\ step' = 1
       ELSE step' = step + 1 /\ UNCHANGED dpc
  /\ UNCHANGED <<run, obj, handle, inits, received, view>>

(* Mutant: <= for < in the loop of wait_for_initialization                 *)
ReceiveInitOneMore ==
  /\ dpc = "wait" /\ received <= CHILDREN
  /\ inits[run] > 0
  /\ inits' = [inits EXCEPT ![run] = @ - 1]
  /\ received' = received + 1
  /\ UNCHANGED <<run, dpc, step, obj, handle, kidVars>>

ReceiveInit ==
  /\ dpc = "wait" /\ received < CHILDREN
  /\ inits[run] > 0
  /\ inits' = [inits EXCEPT ![run] = @ - 1]
  /\ received' = received + 1
  /\ UNCHANGED <<run, dpc, step, obj, handle, kidVars>>

(* Mutant: NOF_WORKERS + NOF_USERS are waited for, not the dispenser       *)
OpenFirstDayEarly ==
  /\ dpc = "wait" /\ received >= CHILDREN - 1
  /\ dpc' = "days"
  /\ kpc' = [k \in Kids |-> IF k \in Signalled /\ kpc[k] = "forked"
                              THEN "dead" ELSE kpc[k]]
  /\ UNCHANGED <<run, step, obj, handle, inits, received, view>>

(* The first morning: SIGUSR1 kills a child that has no handler for it yet *)
OpenFirstDay ==
  /\ dpc = "wait" /\ received = CHILDREN
  /\ dpc' = "days"
  /\ kpc' = [k \in Kids |-> IF k \in Signalled /\ kpc[k] = "forked"
                              THEN "dead" ELSE kpc[k]]
  /\ UNCHANGED <<run, step, obj, handle, inits, received, view>>

(* The days, and the SIGTERM of stop_children.  A child not yet at its     *)
(* execl loses it in the director's handler it still has, or dies of it.   *)
StopChildren ==
  /\ dpc = "days"
  /\ dpc' = "stop"
  /\ \E K \in SUBSET {k \in Own : kpc[k] = "forked"} :
       kpc' = [k \in Kids |-> IF k \in K THEN "dead" ELSE kpc[k]]
  /\ UNCHANGED <<run, step, obj, handle, inits, received, view>>

(* waitpid on every child *)
WaitChildren ==
  /\ dpc = "stop"
  /\ \A k \in Own : kpc[k] \in {"dead", "left"}
  /\ dpc' = "cleanup"
  /\ UNCHANGED <<run, step, obj, handle, inits, received, kidVars>>

(* A signal cuts a waitpid short, and it is not called again: with enough  *)
(* of them the director goes on while children of its own are alive        *)
WaitInterrupted ==
  /\ dpc = "stop"
  /\ \E k \in Own : kpc[k] \notin {"dead", "left"}
  /\ dpc' = "cleanup"
  /\ UNCHANGED <<run, step, obj, handle, inits, received, kidVars>>

(* Mutant: shmid_config is left out of the list                            *)
CleanUpButConfig ==
  /\ dpc = "cleanup"
  /\ obj' = [o \in Objects |-> IF obj[o] = handle[o] /\ o # "config"
                                 THEN 0 ELSE obj[o]]
  /\ dpc' = "exited"
  /\ UNCHANGED <<run, step, handle, inits, received, kidVars>>

(* cleanup_ipc removes by id, so only what its ids still stand for         *)
CleanUp ==
  /\ dpc = "cleanup"
  /\ obj' = [o \in Objects |-> IF obj[o] = handle[o] THEN 0 ELSE obj[o]]
  /\ dpc' = "exited"
  /\ UNCHANGED <<run, step, handle, inits, received, kidVars>>

(* SIGKILL, or one of the exit(EXIT_FAILURE): neither stops the children   *)
(* nor removes anything                                                    *)
Crash ==
  /\ dpc \notin Ended
  /\ dpc' = "failed"
  /\ UNCHANGED <<run, step, obj, handle, inits, received, kidVars>>

Restart ==
  /\ dpc \in Ended /\ run < MAX_RUNS
  /\ run' = run + 1
  /\ dpc' = "stale" /\ step' = 1 /\ received' = 0
  /\ handle' = [o \in Objects |-> 0]
  /\ UNCHANGED <<obj, inits, kidVars>>

-----------------------------------------------------------------------------
(* The children: ticket dispenser, operators and users attach by key       *)

(* k has attached the first n objects                                      *)
Attached(k, n) ==
  \A m \in DOMAIN AttachOrder : (view[k][AttachOrder[m]] # 0) <=> (m <= n)

(* execl and the three sigaction, or the execl that fails                  *)
Exec(k) ==
  /\ kpc[k] = "forked"
  /\ kpc' \in {[kpc EXCEPT ![k] = p] : p \in {"attach", "dead"}}
  /\ UNCHANGED <<run, dpc, step, obj, handle, inits, received, view>>

(* shmat(shmget(key)): whatever object is behind the key at this moment    *)
Attach(k) ==
  /\ kpc[k] = "attach"
  /\ \E n \in DOMAIN AttachOrder :
       LET o == AttachOrder[n]
       IN  /\ Attached(k, n - 1)
           /\ IF obj[o] = 0
                THEN kpc' = [kpc EXCEPT ![k] = "dead"] /\ UNCHANGED view
                ELSE view' = [view EXCEPT ![k][o] = obj[o]] /\ UNCHANGED kpc
  /\ UNCHANGED <<run, dpc, step, obj, handle, inits, received>>

(* Mutant: a msgsnd interrupted by a signal is not called again            *)
SendInitOnce(k) ==
  LET q == view[k]["msg"]
  IN  /\ kpc[k] = "attach" /\ \A o \in Objects : view[k][o] # 0
      /\ kpc' = [kpc EXCEPT ![k] = "ready"]
      /\ inits' \in {inits, [inits EXCEPT ![q] = @ + 1]}
      /\ UNCHANGED <<run, dpc, step, obj, handle, received, view>>

(* Its INIT goes to the queue it has attached, if that still exists        *)
SendInit(k) ==
  LET q == view[k]["msg"]
  IN  /\ kpc[k] = "attach" /\ \A o \in Objects : view[k][o] # 0
      /\ IF obj["msg"] = q
           THEN /\ kpc' = [kpc EXCEPT ![k] = "ready"]
                /\ inits' = [inits EXCEPT ![q] = @ + 1]
           ELSE kpc' = [kpc EXCEPT ![k] = "dead"] /\ UNCHANGED inits
      /\ UNCHANGED <<run, dpc, step, obj, handle, received, view>>

(* A child ends for the SIGTERM of its director; one that outlives its     *)
(* director ends when a call finds the queue or the semaphores removed     *)
Leave(k) ==
  /\ kpc[k] = "ready"
  /\ \/ k \in Own /\ dpc \in {"stop", "cleanup"}
     \/ \E o \in {"msg", "sem"} : obj[o] # view[k][o]
  /\ kpc' = [kpc EXCEPT ![k] = "left"]
  /\ UNCHANGED <<run, dpc, step, obj, handle, inits, received, view>>

KidStep(k) == Exec(k) \/ Attach(k) \/ SendInit(k) \/ Leave(k)

DirectorStep ==
  \/ RemoveStale \/ CreateConfig \/ ReadConfig \/ Allocate \/ CheckIds \/ Fork
  \/ ReceiveInit \/ OpenFirstDay \/ StopChildren \/ WaitChildren \/ CleanUp

Next ==
  \/ DirectorStep \/ WaitInterrupted \/ Crash \/ Restart
  \/ \E k \in Kids : KidStep(k)

Spec == Init /\ [][Next]_vars

(* The director and its children are scheduled; nothing obliges a crash or *)
(* a signal                                                                *)
FairSpec == Spec /\ WF_vars(DirectorStep) /\ \A k \in Kids : WF_vars(KidStep(k))

-----------------------------------------------------------------------------
TypeOK ==
  /\ run \in Runs /\ dpc \in DirectorPC
  /\ step \in 1 .. CHILDREN + Len(RemovalOrder)
  /\ obj \in [Objects -> 0 .. MAX_RUNS]
  /\ handle \in [Objects -> 0 .. MAX_RUNS]
  /\ inits \in [Runs -> Nat]
  /\ received \in 0 .. CHILDREN
  /\ kpc \in [Kids -> KidPC]
  /\ view \in [Kids -> [Objects -> 0 .. MAX_RUNS]]

(* From the first fork until it no longer waits for its children no        *)
(* process of a run works on an object of an earlier one, whatever crash   *)
(* left it behind: the director's ids, the keys and what its children have *)
(* attached are all of this run (director.c:32-74; README.md:166-178, "to  *)
(* handle this automatically on startup").                                 *)
NothingStaleInUse ==
  dpc \in {"fork", "wait", "days", "stop"} =>
    /\ \A o \in Objects : handle[o] = run /\ obj[o] = run
    /\ \A k \in Own : \A o \in Objects : view[k][o] \in {0, run}

(* The first morning comes only when as many processes have attached to    *)
(* the queue of this run as it has children (director.c:327-347).  That is *)
(* not when every child is ready: a child of a crashed run that attaches   *)
(* late is counted too, and for each of those one child may be missing.    *)
MissingOnesAreOrphans ==
  dpc \in {"days", "stop"} =>
    Cardinality(Own \ Reported) <= Cardinality(Reported \ Own)

(* A director that ends in an orderly way, with its days or with a refused *)
(* configuration, leaves nothing behind a key, however its earlier runs    *)
(* ended and though a child may still be alive (director.c:743-746,        *)
(* 797-801).                                                               *)
OrderlyExitLeavesNothing ==
  dpc = "exited" => \A o \in Objects : obj[o] = 0

(* wait_for_initialization ends unless the director is killed or one of    *)
(* its own children died before its INIT, which nothing tells the director *)
(* (director.c:327-347 neither looks at its children nor at                *)
(* shutdown_requested).                                                    *)
StartsOrExplained ==
  dpc = "wait" ~> (dpc # "wait" \/ \E k \in Own : kpc[k] = "dead")
=============================================================================
