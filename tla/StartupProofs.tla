---------------------------- MODULE StartupProofs ----------------------------
(***************************************************************************)
(* What Startup promises for every number of children and of runs: nothing *)
(* of an earlier run is in use, an orderly end leaves nothing, and a child *)
(* can be missing on the first morning only for an orphan counted for it.  *)
(***************************************************************************)
EXTENDS Startup, FiniteSetTheorems, TLAPS

(* The loops of the director stay within their tables                      *)
LoopIndex ==
  /\ dpc = "stale" => step \in 1 .. 4
  /\ dpc \in {"config", "read"} => step = 1
  /\ dpc = "allocate" => step \in 1 .. 4
  /\ dpc = "fork" => step \in 1 .. CHILDREN

(* What is behind the keys, and what the ids stand for, at each stage      *)
Stages ==
  /\ dpc = "stale" => \A m \in 1 .. 4 : m < step => obj[RemovalOrder[m]] = 0
  /\ dpc \in {"stale", "config"} => \A o \in Objects : handle[o] = 0
  /\ dpc = "config" => \A o \in Objects : obj[o] = 0
  /\ dpc \in {"read", "allocate", "cleanup"} =>
       \A o \in Objects : handle[o] = obj[o]
  /\ dpc \in {"read", "allocate"} => \A o \in Objects : obj[o] \in {0, run}
  /\ dpc \in {"fork", "wait", "days", "stop"} =>
       \A o \in Objects : handle[o] = run /\ obj[o] = run
  /\ dpc = "exited" => \A o \in Objects : obj[o] = 0

(* Children exist from their fork on, and attach nothing before            *)
NotForked ==
  /\ \A k \in Kids : k[1] > run => kpc[k] = "none"
  /\ dpc \in {"stale", "config", "read", "allocate"} =>
       \A k \in Own : kpc[k] = "none"
  /\ dpc = "fork" => \A k \in Own : k[2] >= step => kpc[k] = "none"
  /\ \A k \in Kids : kpc[k] = "none" => \A o \in Objects : view[k][o] = 0

(* Once this run has children the keys hold objects of this run or none,   *)
(* and those children have attached no others                              *)
OwnViews ==
  \A k \in Own :
    /\ \A o \in Objects : view[k][o] \in {0, run}
    /\ kpc[k] # "none" => \A o \in Objects : obj[o] \in {0, run}

(* Nothing refers to a run that has not begun                              *)
NothingFuture ==
  /\ \A o \in Objects : obj[o] \in 0 .. run
  /\ \A k \in Kids : \A o \in Objects : view[k][o] \in 0 .. run
  /\ \A r \in Runs : r > run => inits[r] = 0

IpcInv ==
  TypeOK /\ LoopIndex /\ Stages /\ NotForked /\ OwnViews /\ NothingFuture

(* What the tables of keys hold                                            *)
LEMMA Tables ==
  /\ Len(RemovalOrder) = 4 /\ DOMAIN RemovalOrder = 1 .. 4
  /\ Len(CreationOrder) = 3 /\ DOMAIN AttachOrder = 1 .. 4
  /\ \A n \in 1 .. 4 : RemovalOrder[n] \in Objects /\ AttachOrder[n] \in Objects
  /\ \A n \in 1 .. 3 : CreationOrder[n] \in Objects
  BY DEF RemovalOrder, CreationOrder, AttachOrder, Objects

(* TypeOK is kept by every step                                               *)
LEMMA TypeOKStep ==
  ASSUME IpcInv, [Next]_vars
  PROVE  TypeOK'
<1> USE StartupAssumption DEF IpcInv, TypeOK
<1>1. ASSUME RemoveStale
      PROVE  TypeOK'
  <2>1. step \in 1 .. 4 /\ RemovalOrder[step] \in Objects
    BY <1>1, Tables DEF RemoveStale, LoopIndex
  <2>2. obj' \in [Objects -> 0 .. MAX_RUNS]
    BY <1>1, <2>1 DEF RemoveStale
  <2>3. step' \in 1 .. CHILDREN + Len(RemovalOrder) /\ dpc' \in DirectorPC
    BY <1>1, <2>1, Tables DEF RemoveStale, DirectorPC
  <2> QED
    BY <1>1, <2>2, <2>3 DEF RemoveStale, kidVars
<1>2. ASSUME CreateConfig
      PROVE  TypeOK'
  BY <1>2, SMTT(30) DEF CreateConfig, Get, Ended, kidVars, DirectorPC, KidPC, Objects, Runs, RemovalOrder, CreationOrder, AttachOrder, Kids, Own, Signalled
<1>3. ASSUME ReadConfig
      PROVE  TypeOK'
  BY <1>3 DEF ReadConfig, Ended, kidVars, DirectorPC, KidPC, Objects, Runs, RemovalOrder, CreationOrder, AttachOrder, Kids, Own, Signalled
<1>4. ASSUME Allocate
      PROVE  TypeOK'
  <2>1. step \in 1 .. 3 /\ CreationOrder[step] \in Objects
    BY <1>4, Tables DEF Allocate
  <2>2. obj' \in [Objects -> 0 .. MAX_RUNS] /\ handle' \in [Objects -> 0 .. MAX_RUNS]
    <3>1. CASE UNCHANGED <<obj, handle>>
      BY <3>1
    <3>2. CASE Get(CreationOrder[step])
      <4> DEFINE id == IF obj[CreationOrder[step]] = 0 THEN run ELSE obj[CreationOrder[step]]
      <4>1. id \in 0 .. MAX_RUNS
        BY <2>1 DEF Runs
      <4>2. /\ obj' = [obj EXCEPT ![CreationOrder[step]] = id]
            /\ handle' = [handle EXCEPT ![CreationOrder[step]] = id]
        BY <3>2 DEF Get
      <4> HIDE DEF id
      <4> QED
        BY <4>1, <4>2
    <3> QED
      BY <1>4, <3>1, <3>2 DEF Allocate
  <2>3. step' \in 1 .. CHILDREN + Len(RemovalOrder)
    BY <1>4, <2>1, Tables DEF Allocate
  <2> QED
    BY <1>4, <2>2, <2>3 DEF Allocate, kidVars
<1>5. ASSUME CheckIds
      PROVE  TypeOK'
  BY <1>5 DEF CheckIds, Ended, kidVars, DirectorPC, KidPC, Objects, Runs, RemovalOrder, CreationOrder, AttachOrder, Kids, Own, Signalled
<1>6. ASSUME Fork
      PROVE  TypeOK'
  <2>1. step \in 1 .. CHILDREN /\ <<run, step>> \in Kids
    BY <1>6 DEF Fork, LoopIndex, Kids
  <2>2. kpc' \in [Kids -> KidPC]
    BY <1>6, <2>1 DEF Fork, KidPC
  <2>3. step' \in 1 .. CHILDREN + Len(RemovalOrder) /\ dpc' \in DirectorPC
    BY <1>6, <2>1, Tables DEF Fork, DirectorPC
  <2> QED
    BY <1>6, <2>2, <2>3 DEF Fork
<1>7. ASSUME ReceiveInit
      PROVE  TypeOK'
  BY <1>7 DEF ReceiveInit, Ended, kidVars, DirectorPC, KidPC, Objects, Runs, RemovalOrder, CreationOrder, AttachOrder, Kids, Own, Signalled
<1>8. ASSUME OpenFirstDay
      PROVE  TypeOK'
  BY <1>8 DEF OpenFirstDay, Ended, kidVars, DirectorPC, KidPC, Objects, Runs, RemovalOrder, CreationOrder, AttachOrder, Kids, Own, Signalled
<1>9. ASSUME StopChildren
      PROVE  TypeOK'
  BY <1>9 DEF StopChildren, Ended, kidVars, DirectorPC, KidPC, Objects, Runs, RemovalOrder, CreationOrder, AttachOrder, Kids, Own, Signalled
<1>10. ASSUME WaitChildren \/ WaitInterrupted
      PROVE  TypeOK'
  BY <1>10 DEF WaitChildren, WaitInterrupted, Ended, kidVars, DirectorPC, KidPC, Objects, Runs, RemovalOrder, CreationOrder, AttachOrder, Kids, Own, Signalled
<1>11. ASSUME CleanUp
      PROVE  TypeOK'
  BY <1>11 DEF CleanUp, Ended, kidVars, DirectorPC, KidPC, Objects, Runs, RemovalOrder, CreationOrder, AttachOrder, Kids, Own, Signalled
<1>12. ASSUME Crash
      PROVE  TypeOK'
  BY <1>12 DEF Crash, Ended, kidVars, DirectorPC, KidPC, Objects, Runs, RemovalOrder, CreationOrder, AttachOrder, Kids, Own, Signalled
<1>13. ASSUME Restart
      PROVE  TypeOK'
  BY <1>13 DEF Restart, Ended, kidVars, DirectorPC, KidPC, Objects, Runs, RemovalOrder, CreationOrder, AttachOrder, Kids, Own, Signalled
<1>14. ASSUME NEW k \in Kids, Exec(k)
      PROVE  TypeOK'
  BY <1>14 DEF Exec, Ended, kidVars, DirectorPC, KidPC, Objects, Runs, RemovalOrder, CreationOrder, AttachOrder, Kids, Own, Signalled
<1>15. ASSUME NEW k \in Kids, Attach(k)
      PROVE  TypeOK'
  <2>1. PICK n \in DOMAIN AttachOrder :
         LET o == AttachOrder[n]
         IN  IF obj[o] = 0
               THEN kpc' = [kpc EXCEPT ![k] = "dead"] /\ UNCHANGED view
               ELSE view' = [view EXCEPT ![k][o] = obj[o]] /\ UNCHANGED kpc
    BY <1>15 DEF Attach
  <2>2. AttachOrder[n] \in Objects
    BY Tables
  <2>3. view' \in [Kids -> [Objects -> 0 .. MAX_RUNS]] /\ kpc' \in [Kids -> KidPC]
    <3>1. CASE obj[AttachOrder[n]] = 0
      BY <2>1, <3>1 DEF KidPC
    <3>2. CASE obj[AttachOrder[n]] # 0
      <4>1. obj[AttachOrder[n]] \in 0 .. MAX_RUNS
        BY <2>2
      <4>2. /\ view' = [view EXCEPT ![k] = [view[k] EXCEPT ![AttachOrder[n]] = obj[AttachOrder[n]]]]
            /\ kpc' = kpc
        BY <2>1, <3>2
      <4>3. [view[k] EXCEPT ![AttachOrder[n]] = obj[AttachOrder[n]]] \in [Objects -> 0 .. MAX_RUNS]
        BY <2>2, <4>1
      <4> QED
        BY <4>2, <4>3
    <3> QED
      BY <3>1, <3>2
  <2> QED
    BY <1>15, <2>3 DEF Attach
<1>16. ASSUME NEW k \in Kids, SendInit(k)
      PROVE  TypeOK'
  <2>1. view[k]["msg"] \in Runs
    BY <1>16 DEF SendInit, Objects, Runs
  <2>2. inits' \in [Runs -> Nat] /\ kpc' \in [Kids -> KidPC]
    <3>1. kpc' \in [Kids -> KidPC]
      BY <1>16 DEF SendInit, KidPC
    <3>2. inits' = inits \/ inits' = [inits EXCEPT ![view[k]["msg"]] = @ + 1]
      BY <1>16 DEF SendInit
    <3>3. inits[view[k]["msg"]] + 1 \in Nat /\ inits \in [Runs -> Nat]
      BY <2>1
    <3> HIDE DEF TypeOK
    <3> QED
      BY <2>1, <3>1, <3>2, <3>3
  <2> QED
    BY <1>16, <2>2 DEF SendInit
<1>17. ASSUME NEW k \in Kids, Leave(k)
      PROVE  TypeOK'
  BY <1>17 DEF Leave, Ended, kidVars, DirectorPC, KidPC, Objects, Runs, RemovalOrder, CreationOrder, AttachOrder, Kids, Own, Signalled
<1>18. CASE UNCHANGED vars
  BY <1>18 DEF vars
<1> QED
  BY <1>1, <1>2, <1>3, <1>4, <1>5, <1>6, <1>7, <1>8, <1>9, <1>10, <1>11, <1>12, <1>13, <1>14, <1>15, <1>16, <1>17, <1>18 DEF Next, DirectorStep, KidStep

(* LoopIndex is kept by every step                                               *)
LEMMA LoopIndexStep ==
  ASSUME IpcInv, [Next]_vars
  PROVE  LoopIndex'
<1> USE StartupAssumption DEF IpcInv, LoopIndex
<1>1. ASSUME RemoveStale
      PROVE  LoopIndex'
  BY <1>1 DEF RemoveStale, Ended, kidVars, TypeOK, RemovalOrder, CreationOrder
<1>2. ASSUME CreateConfig
      PROVE  LoopIndex'
  BY <1>2 DEF CreateConfig, Get, Ended, kidVars, TypeOK, RemovalOrder, CreationOrder
<1>3. ASSUME ReadConfig
      PROVE  LoopIndex'
  BY <1>3 DEF ReadConfig, Ended, kidVars, TypeOK, RemovalOrder, CreationOrder
<1>4. ASSUME Allocate
      PROVE  LoopIndex'
  BY <1>4 DEF Allocate, Get, Ended, kidVars, TypeOK, RemovalOrder, CreationOrder
<1>5. ASSUME CheckIds
      PROVE  LoopIndex'
  BY <1>5 DEF CheckIds, Ended, kidVars, TypeOK, RemovalOrder, CreationOrder
<1>6. ASSUME Fork
      PROVE  LoopIndex'
  BY <1>6 DEF Fork, Ended, kidVars, TypeOK, RemovalOrder, CreationOrder
<1>7. ASSUME OpenFirstDay
      PROVE  LoopIndex'
  BY <1>7 DEF OpenFirstDay, Ended, kidVars, TypeOK, RemovalOrder, CreationOrder
<1>8. ASSUME StopChildren
      PROVE  LoopIndex'
  BY <1>8 DEF StopChildren, Ended, kidVars, TypeOK, RemovalOrder, CreationOrder
<1>9. ASSUME WaitChildren \/ WaitInterrupted
      PROVE  LoopIndex'
  BY <1>9 DEF WaitChildren, WaitInterrupted, Ended, kidVars, TypeOK, RemovalOrder, CreationOrder
<1>10. ASSUME CleanUp
      PROVE  LoopIndex'
  BY <1>10 DEF CleanUp, Ended, kidVars, TypeOK, RemovalOrder, CreationOrder
<1>11. ASSUME Crash
      PROVE  LoopIndex'
  BY <1>11 DEF Crash, Ended, kidVars, TypeOK, RemovalOrder, CreationOrder
<1>12. ASSUME Restart
      PROVE  LoopIndex'
  BY <1>12 DEF Restart, Ended, kidVars, TypeOK, RemovalOrder, CreationOrder
<1>13. ASSUME ReceiveInit
      PROVE  LoopIndex'
  BY <1>13 DEF ReceiveInit, kidVars
<1>14. ASSUME NEW k \in Kids, Exec(k)
      PROVE  LoopIndex'
  BY <1>14 DEF Exec, kidVars
<1>15. ASSUME NEW k \in Kids, Attach(k)
      PROVE  LoopIndex'
  BY <1>15 DEF Attach, kidVars
<1>16. ASSUME NEW k \in Kids, SendInit(k)
      PROVE  LoopIndex'
  BY <1>16 DEF SendInit, kidVars
<1>17. ASSUME NEW k \in Kids, Leave(k)
      PROVE  LoopIndex'
  BY <1>17 DEF Leave, kidVars
<1>18. CASE UNCHANGED vars
  BY <1>18 DEF vars
<1> QED
  BY <1>1, <1>2, <1>3, <1>4, <1>5, <1>6, <1>7, <1>8, <1>9, <1>10, <1>11, <1>12, <1>13, <1>14, <1>15, <1>16, <1>17, <1>18 DEF Next, DirectorStep, KidStep

(* Stages is kept by every step                                               *)
LEMMA StagesStep ==
  ASSUME IpcInv, [Next]_vars
  PROVE  Stages'
<1> USE StartupAssumption DEF IpcInv, Stages
<1>1. ASSUME RemoveStale
      PROVE  Stages'
  BY <1>1 DEF RemoveStale, Ended, kidVars, TypeOK, LoopIndex, Objects, RemovalOrder, CreationOrder, Runs
<1>2. ASSUME CreateConfig
      PROVE  Stages'
  BY <1>2 DEF CreateConfig, Get, Ended, kidVars, TypeOK, LoopIndex, Objects, RemovalOrder, CreationOrder, Runs
<1>3. ASSUME ReadConfig
      PROVE  Stages'
  BY <1>3 DEF ReadConfig, Ended, kidVars, TypeOK, LoopIndex, Objects, RemovalOrder, CreationOrder, Runs
<1>4. ASSUME Allocate
      PROVE  Stages'
  BY <1>4, SMTT(30) DEF Allocate, Get, Ended, kidVars, TypeOK, LoopIndex, Objects, RemovalOrder, CreationOrder, Runs
<1>5. ASSUME CheckIds
      PROVE  Stages'
  BY <1>5 DEF CheckIds, Ended, kidVars, TypeOK, LoopIndex, Objects, RemovalOrder, CreationOrder, Runs
<1>6. ASSUME Fork
      PROVE  Stages'
  BY <1>6 DEF Fork, Ended, kidVars, TypeOK, LoopIndex, Objects, RemovalOrder, CreationOrder, Runs
<1>7. ASSUME OpenFirstDay
      PROVE  Stages'
  BY <1>7 DEF OpenFirstDay, Ended, kidVars, TypeOK, LoopIndex, Objects, RemovalOrder, CreationOrder, Runs
<1>8. ASSUME StopChildren
      PROVE  Stages'
  BY <1>8 DEF StopChildren, Ended, kidVars, TypeOK, LoopIndex, Objects, RemovalOrder, CreationOrder, Runs
<1>9. ASSUME WaitChildren \/ WaitInterrupted
      PROVE  Stages'
  BY <1>9 DEF WaitChildren, WaitInterrupted, Ended, kidVars, TypeOK, LoopIndex, Objects, RemovalOrder, CreationOrder, Runs
<1>10. ASSUME CleanUp
      PROVE  Stages'
  BY <1>10 DEF CleanUp, Ended, kidVars, TypeOK, LoopIndex, Objects, RemovalOrder, CreationOrder, Runs
<1>11. ASSUME Crash
      PROVE  Stages'
  BY <1>11 DEF Crash, Ended, kidVars, TypeOK, LoopIndex, Objects, RemovalOrder, CreationOrder, Runs
<1>12. ASSUME Restart
      PROVE  Stages'
  BY <1>12 DEF Restart, Ended, kidVars, TypeOK, LoopIndex, Objects, RemovalOrder, CreationOrder, Runs
<1>13. ASSUME ReceiveInit
      PROVE  Stages'
  BY <1>13 DEF ReceiveInit, kidVars
<1>14. ASSUME NEW k \in Kids, Exec(k)
      PROVE  Stages'
  BY <1>14 DEF Exec, kidVars
<1>15. ASSUME NEW k \in Kids, Attach(k)
      PROVE  Stages'
  BY <1>15 DEF Attach, kidVars
<1>16. ASSUME NEW k \in Kids, SendInit(k)
      PROVE  Stages'
  BY <1>16 DEF SendInit, kidVars
<1>17. ASSUME NEW k \in Kids, Leave(k)
      PROVE  Stages'
  BY <1>17 DEF Leave, kidVars
<1>18. CASE UNCHANGED vars
  BY <1>18 DEF vars
<1> QED
  BY <1>1, <1>2, <1>3, <1>4, <1>5, <1>6, <1>7, <1>8, <1>9, <1>10, <1>11, <1>12, <1>13, <1>14, <1>15, <1>16, <1>17, <1>18 DEF Next, DirectorStep, KidStep

(* NotForked is kept by every step                                               *)
LEMMA NotForkedStep ==
  ASSUME IpcInv, [Next]_vars
  PROVE  NotForked'
<1> USE StartupAssumption DEF IpcInv, NotForked
<1>1. ASSUME RemoveStale
      PROVE  NotForked'
  BY <1>1 DEF RemoveStale, Ended, kidVars, TypeOK, LoopIndex, Own, Signalled, Kids, Runs, Objects
<1>2. ASSUME CreateConfig
      PROVE  NotForked'
  BY <1>2 DEF CreateConfig, Get, Ended, kidVars, TypeOK, LoopIndex, Own, Signalled, Kids, Runs, Objects
<1>3. ASSUME ReadConfig
      PROVE  NotForked'
  BY <1>3 DEF ReadConfig, Ended, kidVars, TypeOK, LoopIndex, Own, Signalled, Kids, Runs, Objects
<1>4. ASSUME Allocate
      PROVE  NotForked'
  BY <1>4 DEF Allocate, Get, Ended, kidVars, TypeOK, LoopIndex, Own, Signalled, Kids, Runs, Objects
<1>5. ASSUME CheckIds
      PROVE  NotForked'
  BY <1>5 DEF CheckIds, Ended, kidVars, TypeOK, LoopIndex, Own, Signalled, Kids, Runs, Objects
<1>6. ASSUME Fork
      PROVE  NotForked'
  <2>1. step \in 1 .. CHILDREN /\ <<run, step>> \in Kids
    BY <1>6 DEF Fork, LoopIndex, TypeOK, Kids
  <2>2. \A k \in Kids : k # <<run, step>> => kpc'[k] = kpc[k]
    BY <1>6, <2>1 DEF Fork, TypeOK
  <2>3. kpc'[<<run, step>>] = "forked"
    BY <1>6, <2>1 DEF Fork, TypeOK
  <2>4. \A k \in Kids : k[1] > run \/ (k[1] = run /\ k[2] > step) => k # <<run, step>>
    BY <2>1 DEF Kids, TypeOK, Runs
  <2>5. \A k \in Kids : k[1] \in Runs /\ k[2] \in 1 .. CHILDREN
    BY DEF Kids
  <2>6. (\A k \in Kids : k[1] > run => kpc[k] = "none")'
    BY <1>6, <2>2, <2>4 DEF Fork
  <2>7. (dpc = "fork" => \A k \in Own : k[2] >= step => kpc[k] = "none")'
    BY <1>6, <2>1, <2>2, <2>4, <2>5 DEF Fork, Own
  <2>8. (dpc \notin {"stale", "config", "read", "allocate"})'
    BY <1>6 DEF Fork
  <2>9. (\A k \in Kids : kpc[k] = "none" => \A o \in Objects : view[k][o] = 0)'
    BY <1>6, <2>2, <2>3 DEF Fork
  <2> QED
    BY <2>6, <2>7, <2>8, <2>9
<1>7. ASSUME OpenFirstDay
      PROVE  NotForked'
  BY <1>7 DEF OpenFirstDay, Ended, kidVars, TypeOK, LoopIndex, Own, Signalled, Kids, Runs, Objects
<1>8. ASSUME StopChildren
      PROVE  NotForked'
  BY <1>8, SMTT(30) DEF StopChildren, Ended, kidVars, TypeOK, LoopIndex, Own, Signalled, Kids, Runs, Objects
<1>9. ASSUME WaitChildren \/ WaitInterrupted
      PROVE  NotForked'
  BY <1>9 DEF WaitChildren, WaitInterrupted, Ended, kidVars, TypeOK, LoopIndex, Own, Signalled, Kids, Runs, Objects
<1>10. ASSUME CleanUp
      PROVE  NotForked'
  BY <1>10 DEF CleanUp, Ended, kidVars, TypeOK, LoopIndex, Own, Signalled, Kids, Runs, Objects
<1>11. ASSUME Crash
      PROVE  NotForked'
  BY <1>11 DEF Crash, Ended, kidVars, TypeOK, LoopIndex, Own, Signalled, Kids, Runs, Objects
<1>12. ASSUME Restart
      PROVE  NotForked'
  <2>1. \A k \in Kids : k[1] \in Nat
    BY DEF Kids, Runs
  <2>2. \A k \in Kids : k[1] > run' \/ k[1] = run' => kpc'[k] = "none"
    BY <1>12, <2>1 DEF Restart, TypeOK, Runs, kidVars
  <2> QED
    BY <1>12, <2>2 DEF Restart, Own, kidVars
<1>13. ASSUME NEW k \in Kids, Exec(k)
      PROVE  NotForked'
  BY <1>13, ZenonT(60) DEF Exec, Ended, kidVars, TypeOK, LoopIndex, Own, Signalled, Kids, Runs, Objects
<1>14. ASSUME NEW k \in Kids, Attach(k)
      PROVE  NotForked'
  <2>1. PICK n \in DOMAIN AttachOrder :
         LET o == AttachOrder[n]
         IN  IF obj[o] = 0
               THEN kpc' = [kpc EXCEPT ![k] = "dead"] /\ UNCHANGED view
               ELSE view' = [view EXCEPT ![k][o] = obj[o]] /\ UNCHANGED kpc
    BY <1>14 DEF Attach
  <2>2. kpc[k] = "attach" /\ UNCHANGED <<run, dpc, step>>
    BY <1>14 DEF Attach
  <2>3. \A j \in Kids : j # k => kpc'[j] = kpc[j] /\ view'[j] = view[j]
    BY <2>1 DEF TypeOK
  <2>4. kpc'[k] # "none"
    BY <2>1, <2>2 DEF TypeOK
  <2>5. k \notin Own \/ dpc \notin {"stale", "config", "read", "allocate"}
    BY <2>2 DEF Own
  <2>6. ~(k[1] > run) /\ ~(dpc = "fork" /\ k \in Own /\ k[2] >= step)
    BY <2>2
  <2> QED
    BY <2>2, <2>3, <2>4, <2>5, <2>6 DEF Own
<1>15. ASSUME NEW k \in Kids, SendInit(k)
      PROVE  NotForked'
  BY <1>15, ZenonT(60) DEF SendInit, Ended, kidVars, TypeOK, LoopIndex, Own, Signalled, Kids, Runs, Objects
<1>16. ASSUME NEW k \in Kids, Leave(k)
      PROVE  NotForked'
  BY <1>16 DEF Leave, Ended, kidVars, TypeOK, LoopIndex, Own, Signalled, Kids, Runs, Objects
<1>17. ASSUME ReceiveInit
      PROVE  NotForked'
  BY <1>17 DEF ReceiveInit, kidVars, Own
<1>18. CASE UNCHANGED vars
  BY <1>18 DEF vars, Own
<1> QED
  BY <1>1, <1>2, <1>3, <1>4, <1>5, <1>6, <1>7, <1>8, <1>9, <1>10, <1>11, <1>12, <1>13, <1>14, <1>15, <1>16, <1>17, <1>18 DEF Next, DirectorStep, KidStep

(* OwnViews is kept by every step                                               *)
LEMMA OwnViewsStep ==
  ASSUME IpcInv, [Next]_vars
  PROVE  OwnViews'
<1> USE StartupAssumption DEF IpcInv, OwnViews
<1>1. ASSUME RemoveStale
      PROVE  OwnViews'
  BY <1>1 DEF RemoveStale, Ended, kidVars, TypeOK, LoopIndex, Stages, NotForked, Own, Signalled, Kids, Runs, Objects, RemovalOrder, CreationOrder, AttachOrder, Attached
<1>2. ASSUME CreateConfig
      PROVE  OwnViews'
  BY <1>2 DEF CreateConfig, Get, Ended, kidVars, TypeOK, LoopIndex, Stages, NotForked, Own, Signalled, Kids, Runs, Objects, RemovalOrder, CreationOrder, AttachOrder, Attached
<1>3. ASSUME Allocate
      PROVE  OwnViews'
  BY <1>3 DEF Allocate, Get, Ended, kidVars, TypeOK, LoopIndex, Stages, NotForked, Own, Signalled, Kids, Runs, Objects, RemovalOrder, CreationOrder, AttachOrder, Attached
<1>4. ASSUME Fork
      PROVE  OwnViews'
  BY <1>4 DEF Fork, Ended, kidVars, TypeOK, LoopIndex, Stages, NotForked, Own, Signalled, Kids, Runs, Objects, RemovalOrder, CreationOrder, AttachOrder, Attached
<1>5. ASSUME OpenFirstDay
      PROVE  OwnViews'
  BY <1>5 DEF OpenFirstDay, Ended, kidVars, TypeOK, LoopIndex, Stages, NotForked, Own, Signalled, Kids, Runs, Objects, RemovalOrder, CreationOrder, AttachOrder, Attached
<1>6. ASSUME StopChildren
      PROVE  OwnViews'
  BY <1>6 DEF StopChildren, Ended, kidVars, TypeOK, LoopIndex, Stages, NotForked, Own, Signalled, Kids, Runs, Objects, RemovalOrder, CreationOrder, AttachOrder, Attached
<1>7. ASSUME CleanUp
      PROVE  OwnViews'
  BY <1>7 DEF CleanUp, Ended, kidVars, TypeOK, LoopIndex, Stages, NotForked, Own, Signalled, Kids, Runs, Objects, RemovalOrder, CreationOrder, AttachOrder, Attached
<1>8. ASSUME Restart
      PROVE  OwnViews'
  <2>1. \A k \in Kids : k[1] = run' => kpc[k] = "none"
    BY <1>8 DEF Restart, NotForked, TypeOK, Kids, Runs
  <2> QED
    BY <1>8, <2>1 DEF Restart, Own, NotForked, kidVars
<1>9. ASSUME NEW k \in Kids, Exec(k)
      PROVE  OwnViews'
  BY <1>9, ZenonT(60) DEF Exec, Ended, kidVars, TypeOK, LoopIndex, Stages, NotForked, Own, Signalled, Kids, Runs, Objects, RemovalOrder, CreationOrder, AttachOrder, Attached
<1>10. ASSUME NEW k \in Kids, Attach(k)
      PROVE  OwnViews'
  <2>1. PICK n \in DOMAIN AttachOrder :
         LET o == AttachOrder[n]
         IN  IF obj[o] = 0
               THEN kpc' = [kpc EXCEPT ![k] = "dead"] /\ UNCHANGED view
               ELSE view' = [view EXCEPT ![k][o] = obj[o]] /\ UNCHANGED kpc
    BY <1>10 DEF Attach
  <2>2. kpc[k] = "attach" /\ UNCHANGED <<run, obj>> /\ AttachOrder[n] \in Objects
    BY <1>10, Tables DEF Attach
  <2>3. \A j \in Kids : j # k => kpc'[j] = kpc[j] /\ view'[j] = view[j]
    BY <2>1 DEF TypeOK
  <2>4. \A o \in Objects : view'[k][o] \in {view[k][o], obj[o]}
    BY <2>1, <2>2 DEF TypeOK
  <2>0. \A j \in Own :
         /\ j \in Kids /\ \A o \in Objects : view[j][o] \in {0, run}
         /\ kpc[j] # "none" => \A o \in Objects : obj[o] \in {0, run}
    BY DEF Own
  <2>5. \A j \in Own : j # k => (\A o \in Objects : view'[j][o] \in {0, run})
                            /\ (kpc'[j] # "none" => \A o \in Objects : obj[o] \in {0, run})
    BY <2>0, <2>3
  <2>6. k \in Own => (\A o \in Objects : obj[o] \in {0, run} /\ view'[k][o] \in {0, run})
    BY <2>0, <2>2, <2>4
  <2> QED
    BY <2>2, <2>5, <2>6 DEF Own
<1>11. ASSUME NEW k \in Kids, SendInit(k)
      PROVE  OwnViews'
  BY <1>11, ZenonT(60) DEF SendInit, Ended, kidVars, TypeOK, LoopIndex, Stages, NotForked, Own, Signalled, Kids, Runs, Objects, RemovalOrder, CreationOrder, AttachOrder, Attached
<1>12. ASSUME NEW k \in Kids, Leave(k)
      PROVE  OwnViews'
  BY <1>12 DEF Leave, Ended, kidVars, TypeOK, LoopIndex, Stages, NotForked, Own, Signalled, Kids, Runs, Objects, RemovalOrder, CreationOrder, AttachOrder, Attached
<1>13. ASSUME ReadConfig
      PROVE  OwnViews'
  BY <1>13 DEF ReadConfig, kidVars, Own
<1>14. ASSUME CheckIds
      PROVE  OwnViews'
  BY <1>14 DEF CheckIds, kidVars, Own
<1>15. ASSUME ReceiveInit
      PROVE  OwnViews'
  BY <1>15 DEF ReceiveInit, kidVars, Own
<1>16. ASSUME WaitChildren \/ WaitInterrupted
      PROVE  OwnViews'
  BY <1>16 DEF WaitChildren, WaitInterrupted, kidVars, Own
<1>17. ASSUME Crash
      PROVE  OwnViews'
  BY <1>17 DEF Crash, kidVars, Own
<1>18. CASE UNCHANGED vars
  BY <1>18 DEF vars, Own
<1> QED
  BY <1>1, <1>2, <1>3, <1>4, <1>5, <1>6, <1>7, <1>8, <1>9, <1>10, <1>11, <1>12, <1>13, <1>14, <1>15, <1>16, <1>17, <1>18 DEF Next, DirectorStep, KidStep

(* NothingFuture is kept by every step                                               *)
LEMMA NothingFutureStep ==
  ASSUME IpcInv, [Next]_vars
  PROVE  NothingFuture'
<1> USE StartupAssumption DEF IpcInv, NothingFuture
<1>1. ASSUME RemoveStale
      PROVE  NothingFuture'
  BY <1>1 DEF RemoveStale, Ended, kidVars, TypeOK, Stages, Objects, RemovalOrder, CreationOrder, AttachOrder, Runs, Kids, Attached
<1>2. ASSUME CreateConfig
      PROVE  NothingFuture'
  BY <1>2 DEF CreateConfig, Get, Ended, kidVars, TypeOK, Stages, Objects, RemovalOrder, CreationOrder, AttachOrder, Runs, Kids, Attached
<1>3. ASSUME Allocate
      PROVE  NothingFuture'
  BY <1>3, SMTT(30) DEF Allocate, Get, Ended, kidVars, TypeOK, Stages, Objects, RemovalOrder, CreationOrder, AttachOrder, Runs, Kids, Attached
<1>4. ASSUME ReceiveInit
      PROVE  NothingFuture'
  BY <1>4 DEF ReceiveInit, Ended, kidVars, TypeOK, Stages, Objects, RemovalOrder, CreationOrder, AttachOrder, Runs, Kids, Attached
<1>5. ASSUME CleanUp
      PROVE  NothingFuture'
  BY <1>5 DEF CleanUp, Ended, kidVars, TypeOK, Stages, Objects, RemovalOrder, CreationOrder, AttachOrder, Runs, Kids, Attached
<1>6. ASSUME Restart
      PROVE  NothingFuture'
  BY <1>6, SMTT(30) DEF Restart, Ended, kidVars, TypeOK, Stages, Objects, RemovalOrder, CreationOrder, AttachOrder, Runs, Kids, Attached
<1>7. ASSUME NEW k \in Kids, Attach(k)
      PROVE  NothingFuture'
  <2>1. PICK n \in DOMAIN AttachOrder :
         LET o == AttachOrder[n]
         IN  IF obj[o] = 0
               THEN kpc' = [kpc EXCEPT ![k] = "dead"] /\ UNCHANGED view
               ELSE view' = [view EXCEPT ![k][o] = obj[o]] /\ UNCHANGED kpc
    BY <1>7 DEF Attach
  <2>2. UNCHANGED <<run, obj, inits>> /\ AttachOrder[n] \in Objects
    BY <1>7, Tables DEF Attach
  <2>3. \A j \in Kids : j # k => view'[j] = view[j]
    BY <2>1 DEF TypeOK
  <2>4. \A o \in Objects : view'[k][o] \in {view[k][o], obj[o]}
    BY <2>1, <2>2 DEF TypeOK
  <2> QED
    BY <2>2, <2>3, <2>4
<1>8. ASSUME NEW k \in Kids, SendInit(k)
      PROVE  NothingFuture'
  <2>1. view[k]["msg"] \in 0 .. run /\ run \in Nat
    BY DEF Objects, TypeOK, Runs
  <2>2. \A r \in Runs : r > run => inits'[r] = inits[r]
    BY <1>8, <2>1 DEF SendInit, TypeOK, Runs
  <2> QED
    BY <1>8, <2>2 DEF SendInit
<1>9. ASSUME ReadConfig
      PROVE  NothingFuture'
  BY <1>9 DEF ReadConfig, kidVars
<1>10. ASSUME CheckIds
      PROVE  NothingFuture'
  BY <1>10 DEF CheckIds, kidVars
<1>11. ASSUME Fork
      PROVE  NothingFuture'
  BY <1>11 DEF Fork, kidVars
<1>12. ASSUME OpenFirstDay
      PROVE  NothingFuture'
  BY <1>12 DEF OpenFirstDay, kidVars
<1>13. ASSUME StopChildren
      PROVE  NothingFuture'
  BY <1>13 DEF StopChildren, kidVars
<1>14. ASSUME WaitChildren \/ WaitInterrupted
      PROVE  NothingFuture'
  BY <1>14 DEF WaitChildren, WaitInterrupted, kidVars
<1>15. ASSUME Crash
      PROVE  NothingFuture'
  BY <1>15 DEF Crash, kidVars
<1>16. ASSUME NEW k \in Kids, Exec(k)
      PROVE  NothingFuture'
  BY <1>16 DEF Exec, kidVars
<1>17. ASSUME NEW k \in Kids, Leave(k)
      PROVE  NothingFuture'
  BY <1>17 DEF Leave, kidVars
<1>18. CASE UNCHANGED vars
  BY <1>18 DEF vars
<1> QED
  BY <1>1, <1>2, <1>3, <1>4, <1>5, <1>6, <1>7, <1>8, <1>9, <1>10, <1>11, <1>12, <1>13, <1>14, <1>15, <1>16, <1>17, <1>18 DEF Next, DirectorStep, KidStep

(* IpcInv holds at the start                                               *)
LEMMA IpcInvInit == Init => IpcInv
<1> SUFFICES ASSUME Init
             PROVE  IpcInv
  OBVIOUS
<1> USE StartupAssumption DEF Init
<1>1. TypeOK
  BY Tables DEF TypeOK, DirectorPC, KidPC, Objects, Runs
<1>2. LoopIndex /\ Stages
  BY DEF LoopIndex, Stages
<1>3. NotForked /\ OwnViews
  BY DEF NotForked, OwnViews, Own
<1>4. NothingFuture
  BY DEF NothingFuture
<1> QED
  BY <1>1, <1>2, <1>3, <1>4 DEF IpcInv

LEMMA IpcInvStep == IpcInv /\ [Next]_vars => IpcInv'
  BY TypeOKStep, LoopIndexStep, StagesStep, NotForkedStep, OwnViewsStep,
     NothingFutureStep DEF IpcInv

LEMMA IpcInvHolds == Spec => []IpcInv
  BY IpcInvInit, IpcInvStep, PTL DEF Spec

-----------------------------------------------------------------------------
(* An INIT in the queue or received for each child that has reported to    *)
(* the queue of this run, whichever run it was forked in                   *)
Counted ==
  /\ received + inits[run] = Cardinality(Reported)
  /\ dpc \in {"days", "stop"} => received = CHILDREN

LEMMA KidsFinite ==
  /\ IsFiniteSet(Kids) /\ IsFiniteSet(Own) /\ Cardinality(Own) <= CHILDREN
  /\ IsFiniteSet(Reported) /\ Cardinality(Reported) \in Nat
<1>1. IsFiniteSet(Runs) /\ IsFiniteSet(1 .. CHILDREN)
  BY FS_Interval, StartupAssumption DEF Runs
<1>2. IsFiniteSet(Kids)
  BY <1>1, FS_Product DEF Kids
<1>3. Own \in SUBSET Kids /\ Reported \in SUBSET Kids
  BY DEF Own, Reported
<1>4. IsFiniteSet(Own) /\ IsFiniteSet(Reported) /\ Cardinality(Reported) \in Nat
  BY <1>2, <1>3, FS_Subset, FS_CardinalityType
<1>5. Cardinality(1 .. CHILDREN) = CHILDREN
  BY FS_Interval, StartupAssumption
<1>6. CASE run \in Runs
  <2> DEFINE f == [i \in 1 .. CHILDREN |-> <<run, i>>]
  <2>1. \A k \in Own : k[2] \in 1 .. CHILDREN /\ f[k[2]] = k
    BY DEF Own, Kids
  <2>2. f \in Surjection(1 .. CHILDREN, Own)
    BY <1>6, <2>1 DEF Own, Kids, Surjection
  <2> HIDE DEF f
  <2> QED
    BY <2>2, <1>1, <1>2, <1>4, <1>5, FS_Surjection
<1>7. CASE run \notin Runs
  <2>1. Own = {}
    BY <1>7 DEF Own, Kids
  <2> QED
    BY <2>1, <1>2, <1>4, FS_EmptySet, StartupAssumption
<1> QED
  BY <1>6, <1>7

(* Counted is kept by every step                                           *)
LEMMA CountedStep ==
  ASSUME IpcInv, Counted, [Next]_vars
  PROVE  Counted'
<1> USE StartupAssumption DEF IpcInv
<1>0. /\ received \in Nat /\ run \in Runs /\ inits[run] \in Nat
      /\ \A k \in Kids : kpc[k] \in KidPC
  BY DEF TypeOK
<1>1. ASSUME UNCHANGED <<run, inits, received, view>>, Reported' = Reported,
             dpc' \in {"days", "stop"} => received = CHILDREN
      PROVE  Counted'
  BY <1>1 DEF Counted
<1>2. CASE \/ RemoveStale \/ CreateConfig \/ ReadConfig \/ Allocate \/ CheckIds
           \/ WaitChildren \/ WaitInterrupted \/ CleanUp \/ Crash \/ UNCHANGED vars
  <2>1. UNCHANGED <<run, inits, received, kpc, view>>
    BY <1>2 DEF RemoveStale, CreateConfig, ReadConfig, Allocate, CheckIds,
                WaitChildren, WaitInterrupted, CleanUp, Crash, kidVars, vars
  <2>2. dpc' \in {"days", "stop"} => dpc' = dpc
    BY <1>2 DEF RemoveStale, CreateConfig, ReadConfig, Allocate, CheckIds,
                WaitChildren, WaitInterrupted, CleanUp, Crash, vars
  <2>3. Reported' = Reported
    BY <2>1 DEF Reported
  <2> QED
    BY <2>1, <2>2, <2>3, <1>1 DEF Counted
<1>3. CASE Fork
  <2>1. \A k \in Kids : kpc'[k] \in {"ready", "left"} <=> kpc[k] \in {"ready", "left"}
    <3>1. step \in 1 .. CHILDREN /\ <<run, step>> \in Own
      BY <1>3, <1>0 DEF Fork, LoopIndex, Own, Kids
    <3>2. kpc[<<run, step>>] = "none"
      BY <1>3, <3>1 DEF Fork, NotForked
    <3>3. kpc' = [kpc EXCEPT ![<<run, step>>] = "forked"]
      BY <1>3 DEF Fork
    <3> QED
      BY <3>1, <3>2, <3>3 DEF TypeOK, Own
  <2>2. Reported' = Reported
    BY <1>3, <2>1 DEF Fork, Reported
  <2> QED
    BY <1>3, <2>2, <1>1 DEF Fork
<1>4. CASE ReceiveInit
  <2>1. Reported' = Reported
    BY <1>4 DEF ReceiveInit, Reported, kidVars
  <2>2. inits'[run'] = inits[run] - 1 /\ received' = received + 1 /\ dpc' = "wait"
    BY <1>4, <1>0 DEF ReceiveInit, TypeOK
  <2> QED
    BY <2>1, <2>2, <1>0 DEF Counted
<1>5. CASE OpenFirstDay
  <2>1. \A k \in Kids : kpc'[k] \in {"ready", "left"} <=> kpc[k] \in {"ready", "left"}
    BY <1>5 DEF OpenFirstDay
  <2>2. Reported' = Reported
    BY <1>5, <2>1 DEF OpenFirstDay, Reported
  <2> QED
    BY <1>5, <2>2, <1>1 DEF OpenFirstDay
<1>6. CASE StopChildren
  <2>1. \A k \in Kids : kpc'[k] \in {"ready", "left"} <=> kpc[k] \in {"ready", "left"}
    <3>1. PICK K \in SUBSET {k \in Own : kpc[k] = "forked"} :
            kpc' = [k \in Kids |-> IF k \in K THEN "dead" ELSE kpc[k]]
      BY <1>6 DEF StopChildren
    <3> QED
      BY <3>1
  <2>2. Reported' = Reported
    BY <1>6, <2>1 DEF StopChildren, Reported
  <2> QED
    BY <1>6, <2>2, <1>1 DEF StopChildren, Counted
<1>7. CASE Restart
  <2>1. run' \in Runs /\ run' > run /\ inits' = inits /\ received' = 0
    BY <1>7, <1>0 DEF Restart, Runs
  <2>2. inits'[run'] = 0
    BY <2>1 DEF NothingFuture
  <2>3. \A k \in Kids : view[k]["msg"] # run'
    BY <2>1, <1>0 DEF NothingFuture, Objects, Runs
  <2>4. Reported' = {}
    BY <2>3, <1>7 DEF Reported, Restart, kidVars
  <2>5. dpc' = "stale"
    BY <1>7 DEF Restart
  <2> QED
    BY <2>1, <2>2, <2>4, <2>5, FS_EmptySet DEF Counted
<1>8. ASSUME NEW k \in Kids, Exec(k) \/ Attach(k) \/ Leave(k)
      PROVE  Counted'
  <2>1. /\ UNCHANGED <<run, dpc, inits, received>>
        /\ \A j \in Kids : j # k => kpc'[j] = kpc[j] /\ view'[j] = view[j]
    BY <1>8 DEF Exec, Attach, Leave, TypeOK
  <2>2. \/ kpc[k] \notin {"ready", "left"} /\ kpc'[k] \notin {"ready", "left"}
        \/ {kpc[k], kpc'[k]} = {"ready", "left"} /\ view'[k] = view[k]
    <3>1. CASE Exec(k)
      BY <3>1 DEF Exec, TypeOK
    <3>2. CASE Attach(k)
      BY <3>2 DEF Attach, TypeOK
    <3>3. CASE Leave(k)
      BY <3>3 DEF Leave, TypeOK
    <3> QED
      BY <1>8, <3>1, <3>2, <3>3
  <2>3. \A j \in Kids : j \in Reported' <=> j \in Reported
    BY <2>1, <2>2 DEF Reported
  <2>4. Reported' = Reported
    BY <2>3 DEF Reported
  <2> QED
    BY <2>1, <2>4 DEF Counted
<1>9. ASSUME NEW k \in Kids, SendInit(k)
      PROVE  Counted'
  <2> DEFINE q == view[k]["msg"]
  <2>1. /\ q \in Runs /\ kpc[k] = "attach" /\ UNCHANGED <<run, dpc, received, view>>
        /\ \A j \in Kids : j # k => kpc'[j] = kpc[j]
    BY <1>9, SMTT(30) DEF SendInit, Objects, TypeOK, Runs
  <2>2. CASE obj["msg"] = q /\ q = run
    <3>1. kpc'[k] = "ready" /\ inits'[run] = inits[run] + 1
      BY <1>9, <2>1, <2>2 DEF SendInit, TypeOK
    <3>2. k \notin Reported /\ Reported' = Reported \cup {k}
      BY <2>1, <2>2, <3>1 DEF Reported
    <3>3. Cardinality(Reported') = Cardinality(Reported) + 1
      BY <3>2, KidsFinite, FS_AddElement
    <3> QED
      BY <2>1, <3>1, <3>3, <1>0, KidsFinite DEF Counted
  <2>3. CASE obj["msg"] = q /\ q # run
    <3>1. inits'[run] = inits[run]
      BY <1>9, <2>1, <2>3, <1>0 DEF SendInit, TypeOK
    <3>2. \A j \in Kids : j \in Reported' <=> j \in Reported
      BY <2>1, <2>3 DEF Reported
    <3>3. Reported' = Reported
      BY <3>2 DEF Reported
    <3> QED
      BY <2>1, <3>1, <3>3 DEF Counted
  <2>4. CASE obj["msg"] # q
    <3>1. kpc'[k] = "dead" /\ inits' = inits
      BY <1>9, <2>4 DEF SendInit, TypeOK
    <3>2. \A j \in Kids : j \in Reported' <=> j \in Reported
      BY <2>1, <3>1 DEF Reported
    <3>3. Reported' = Reported
      BY <3>2 DEF Reported
    <3> QED
      BY <2>1, <3>1, <3>3 DEF Counted
  <2> QED
    BY <2>2, <2>3, <2>4
<1> QED
  BY <1>2, <1>3, <1>4, <1>5, <1>6, <1>7, <1>8, <1>9 DEF Next, DirectorStep, KidStep

LEMMA CountedInit == Init => Counted
<1> SUFFICES ASSUME Init
             PROVE  Counted
  OBVIOUS
<1>1. Reported = {}
  BY DEF Init, Reported
<1>2. received = 0 /\ inits[run] = 0 /\ dpc = "stale"
  BY StartupAssumption DEF Init, Runs
<1> QED
  BY <1>1, <1>2, FS_EmptySet DEF Counted

-----------------------------------------------------------------------------
(* The variables keep their types, for any number of children and runs     *)
THEOREM StartupTypeCorrect == Spec => []TypeOK
  BY IpcInvHolds, PTL DEF IpcInv

(* Whatever crash went before, no process of a run works on an object of   *)
(* an earlier one (director.c:32-74)                                       *)
THEOREM NothingStale == Spec => []NothingStaleInUse
<1>1. IpcInv => NothingStaleInUse
  BY DEF IpcInv, Stages, OwnViews, NothingStaleInUse
<1> QED
  BY <1>1, IpcInvHolds, PTL

(* An orderly end leaves nothing behind a key (director.c:665-709)         *)
THEOREM OrderlyExit == Spec => []OrderlyExitLeavesNothing
<1>1. IpcInv => OrderlyExitLeavesNothing
  BY DEF IpcInv, Stages, OrderlyExitLeavesNothing
<1> QED
  BY <1>1, IpcInvHolds, PTL

(* For each child missing on the first morning an orphan was counted       *)
(* (director.c:327-347)                                                    *)
THEOREM MissingAreOrphans == Spec => []MissingOnesAreOrphans
<1>1. IpcInv /\ Counted => MissingOnesAreOrphans
  <2> SUFFICES ASSUME IpcInv, Counted, dpc \in {"days", "stop"}
               PROVE  Cardinality(Own \ Reported) <= Cardinality(Reported \ Own)
    BY DEF MissingOnesAreOrphans
  <2>1. Cardinality(Reported) >= CHILDREN
    BY StartupAssumption DEF Counted, IpcInv, TypeOK
  <2>2. /\ Cardinality(Own \ Reported) = Cardinality(Own) - Cardinality(Own \cap Reported)
        /\ Cardinality(Reported \ Own) = Cardinality(Reported) - Cardinality(Reported \cap Own)
    BY KidsFinite, FS_Difference
  <2>3. Own \cap Reported = Reported \cap Own /\ IsFiniteSet(Own \cap Reported)
    BY KidsFinite, FS_Intersection
  <2>4. /\ Cardinality(Own) \in Nat /\ Cardinality(Reported) \in Nat
        /\ Cardinality(Own \cap Reported) \in Nat
    BY <2>3, KidsFinite, FS_CardinalityType
  <2>5. Cardinality(Reported \cap Own) = Cardinality(Own \cap Reported)
    BY <2>3
  <2>6. CHILDREN \in Nat /\ Cardinality(Own) <= CHILDREN
    BY KidsFinite, StartupAssumption
  <2> QED
    BY <2>1, <2>2, <2>4, <2>5, <2>6
<1> QED
  BY <1>1, IpcInvHolds, IpcInvInit, IpcInvStep, CountedInit, CountedStep, PTL DEF Spec
=============================================================================
