---------------------------- MODULE Configuration ----------------------------
(***************************************************************************)
(* read_config_file (director.c:137-194): fscanf takes pairs of a word and *)
(* a number from the file until the next two tokens are no such pair, an   *)
(* unknown word is refused at once, and then the values are checked.  The  *)
(* file is a sequence of tokens, as white space and newlines are the same  *)
(* to fscanf.  What the director derives from the values is here too: the  *)
(* users' percentages and the numbers of the semaphores in their one set.  *)
(***************************************************************************)
EXTENDS Integers, Sequences

CONSTANTS
  Files,          (* the files the director may be given                   *)
  SERVICE_COUNT   (* the services of the office                            *)

Positive == {"NOF_WORKER_SEATS", "NOF_WORKERS", "NOF_USERS", "SIM_DURATION",
             "N_NANO_SECONDS"}
Keys == Positive \cup {"NOF_PAUSE", "P_SERV_MIN", "P_SERV_MAX", "EXPLODE_THRESHOLD"}

(* A token is a number or it is not; %s reads either, %d a number only.    *)
(* "other" is any word that is no key, a comment's # among them.           *)
Word(w) == [word |-> w, value |-> 0]
Number(n) == [word |-> "number", value |-> n]
Token == [word : Keys \cup {"other"}, value : {0}] \cup [word : {"number"}, value : Int]

ASSUME FilesAssumption == Files \subseteq Seq(Token)
ASSUME ServicesAssumption == SERVICE_COUNT \in Nat \ {0}

VARIABLES
  file,     (* the tokens of the file                                      *)
  pos,      (* the token fscanf reads next                                 *)
  config,   (* the nine values, zero in a new shared-memory segment        *)
  status    (* what read_config_file is doing, then what it returned       *)

vars == <<file, pos, config, status>>

TypeOK ==
  /\ file \in Files
  /\ pos \in Nat \ {0}
  /\ config \in [Keys -> Int]
  /\ status \in {"reading", "checking", "accepted", "refused"}

Init ==
  /\ file \in Files
  /\ pos = 1
  /\ config = [k \in Keys |-> 0]
  /\ status = "reading"

(* fscanf(fp, "%127s %d", key, &value) == 2 *)
PairAt(p) == p + 1 \in DOMAIN file /\ file[p + 1].word = "number"
SettingAt(p) == PairAt(p) /\ file[p].word \in Keys

(* Mutant: the key is read, the value of a key set before is kept. *)
StoreFirstPair ==
  /\ status = "reading"
  /\ SettingAt(pos)
  /\ config' = [config EXCEPT ![file[pos].word] = IF @ = 0 THEN file[pos + 1].value ELSE @]
  /\ pos' = pos + 2
  /\ UNCHANGED <<file, status>>

StorePair ==
  /\ status = "reading"
  /\ SettingAt(pos)
  /\ config' = [config EXCEPT ![file[pos].word] = file[pos + 1].value]
  /\ pos' = pos + 2
  /\ UNCHANGED <<file, status>>

RefuseUnknownKey ==
  /\ status = "reading"
  /\ PairAt(pos) /\ file[pos].word \notin Keys
  /\ status' = "refused"
  /\ UNCHANGED <<file, pos, config>>

(* The end of the file, or two tokens that are no pair: no difference. *)
StopReading ==
  /\ status = "reading"
  /\ ~PairAt(pos)
  /\ status' = "checking"
  /\ UNCHANGED <<file, pos, config>>

(* Mutant: the interval is not checked. *)
ValidCounts == \A k \in Positive : config[k] > 0

Valid ==
  /\ \A k \in Positive : config[k] > 0
  /\ config["P_SERV_MIN"] <= config["P_SERV_MAX"]

RefuseInvalid ==
  /\ status = "checking"
  /\ ~Valid
  /\ status' = "refused"
  /\ UNCHANGED <<file, pos, config>>

ClampPercentage(n) == IF n < 0 THEN 0 ELSE IF n > 100 THEN 100 ELSE n

Accept ==
  /\ status = "checking"
  /\ Valid
  /\ config' = [config EXCEPT !["P_SERV_MIN"] = ClampPercentage(@),
                              !["P_SERV_MAX"] = ClampPercentage(@)]
  /\ status' = "accepted"
  /\ UNCHANGED <<file, pos>>

Next == StorePair \/ RefuseUnknownKey \/ StopReading \/ RefuseInvalid \/ Accept

Spec == Init /\ [][Next]_vars

-----------------------------------------------------------------------------
(* initialize_shared_state draws P_SERV_MIN + rand() % interval for each   *)
(* user; run_day compares it with rand() % 100.                            *)
Interval == config["P_SERV_MAX"] - config["P_SERV_MIN"] + 1
GoProbabilities == {config["P_SERV_MIN"] + r : r \in 0 .. Interval - 1}

(* Whatever the file says, an accepted configuration has processes, days   *)
(* and a minute, rand() % interval divides by no zero, and each user gets  *)
(* a percentage.                                                           *)
AcceptedIsUsable ==
  status = "accepted" =>
    /\ \A k \in Positive : config[k] > 0
    /\ Interval > 0
    /\ GoProbabilities \subseteq 0 .. 100

(* The semaphores of the set for n counters: how many of each kind, and    *)
(* the number of the first one                                             *)
SemKinds == {"counterMutex", "queueMutex", "jobs", "freeCounters", "statsMutex"}
HowMany(n) ==
  [counterMutex |-> n, queueMutex |-> SERVICE_COUNT, jobs |-> SERVICE_COUNT,
   freeCounters |-> SERVICE_COUNT, statsMutex |-> 1]

(* Mutant: the free-counter semaphores begin where those of the jobs do    *)
FirstSemOverlapping(n) ==
  [counterMutex |-> 0, queueMutex |-> n, jobs |-> n + SERVICE_COUNT,
   freeCounters |-> n + SERVICE_COUNT, statsMutex |-> n + SERVICE_COUNT * 3]

FirstSem(n) ==
  [counterMutex |-> 0, queueMutex |-> n, jobs |-> n + SERVICE_COUNT,
   freeCounters |-> n + SERVICE_COUNT * 2, statsMutex |-> n + SERVICE_COUNT * 3]

(* counter_mutex_sem and the four functions after it                       *)
SemNumber(n, kind, i) == FirstSem(n)[kind] + i

TotalSems(n) == n + SERVICE_COUNT * 3 + 1

(* No two of them share a number, or one program would post a job and      *)
(* another take it for a counter, and each number is one of the set        *)
(* (commons.h:177-199).                                                    *)
SemaphoresApart ==
  LET n == config["NOF_WORKER_SEATS"] IN
  status = "accepted" =>
    \A k \in SemKinds : \A i \in 0 .. HowMany(n)[k] - 1 :
      /\ SemNumber(n, k, i) \in 0 .. TotalSems(n) - 1
      /\ \A l \in SemKinds : \A j \in 0 .. HowMany(n)[l] - 1 :
           SemNumber(n, k, i) = SemNumber(n, l, j) => k = l /\ i = j

(* The places before p where k is given a value.  Pairs start at the odd   *)
(* tokens.                                                                 *)
Settings(k, p) == {i \in 1 .. p - 1 : i % 2 = 1 /\ file[i].word = k}

ValueFromFile(k, v) ==
  IF Settings(k, pos) = {} THEN v = 0
  ELSE \E i \in Settings(k, pos) :
         v = file[i + 1].value /\ \A j \in Settings(k, pos) : j <= i

(* What counts are the pairs of a known key and a number the file begins   *)
(* with, all of them and no other token: each value is the last one they   *)
(* give it, and 0 when they give none; only clamping changes it after.     *)
ConfigFromFile ==
  /\ \A p \in 1 .. pos - 1 : p % 2 = 1 => SettingAt(p)
  /\ status \in {"checking", "accepted"} => ~SettingAt(pos)
  /\ \A k \in Keys :
       \E v \in {0} \cup {file[i].value : i \in DOMAIN file} :
         /\ ValueFromFile(k, v)
         /\ config[k] = IF status = "accepted" /\ k \in {"P_SERV_MIN", "P_SERV_MAX"}
                        THEN ClampPercentage(v) ELSE v
=============================================================================
