----------------------------- MODULE Statistics -----------------------------
(***************************************************************************)
(* The statistics segment (simulation_stats, commons.h:99-124): the        *)
(* counters of the day and of the whole simulation, each in total and by   *)
(* service, which operators, ticket dispenser and director update one      *)
(* field after the other inside lock_stats / unlock_stats, and the reports *)
(* the director prints from them.  How the processes get as far as to      *)
(* count something is module PostOffice; of it this module keeps that a    *)
(* user asks at most once a day, that operators work only until they have  *)
(* reported the end of their day (PostOffice's DayBarrier), and that the   *)
(* dispenser does not know what hour it is.                                *)
(***************************************************************************)
EXTENDS Integers, Sequences, FiniteSets, Tally

CONSTANTS Workers, Users, Services, Dispenser, Director, None,
          NOF_PAUSE, SIM_DURATION

Processes == Workers \cup {Dispenser, Director}

(* What an update adds to the counters, and how far it has got *)
Ops == {"request", "notServed", "served", "pause", "reset", "print"}
Updates == [op : Ops, service : Services, at : {"lock", "first", "second", "done"}]

ASSUME StatisticsAssumption ==
  /\ IsFiniteSet(Workers) /\ IsFiniteSet(Users) /\ IsFiniteSet(Services)
  /\ Services # {}
  /\ Dispenser # Director /\ {Dispenser, Director} \cap Workers = {}
  /\ None \notin Processes \cup Updates
  /\ NOF_PAUSE \in Int /\ SIM_DURATION \in Nat \ {0}

VARIABLES
  day, phase,    (* CURRENT_DAY, and where in main's loop the director is  *)
  mutex,         (* stats_mutex_sem: the process inside, or None           *)
  work,          (* the update each process is in the middle of, or None   *)
  wpc,           (* each operator: without counter, at one, day finished   *)
  pausesTaken,   (* workers[w].pauses_taken                                *)
  activeToday,   (* the operators with active_today                        *)
  activeEver,    (* the operators with active_ever                         *)
  place,         (* where each user's request is, "home" if there is none  *)
  wants,         (* the service it is for                                  *)
  due,           (* the users that may still ask for today                 *)
  daily,         (* day_ fields and day_by_service                         *)
  total,         (* total_ fields and total_by_service                     *)
  draft,         (* the locals of print_daily_statistics                   *)
  reports        (* what was printed, one record a day                     *)

statsVars == <<daily, total, draft, reports>>
workerVars == <<wpc, pausesTaken, activeToday, activeEver>>
userVars == <<place, wants, due>>
vars == <<day, phase, mutex, work, workerVars, userVars, statsVars>>

(* served stands for all the fields serve_ticket adds to (users and        *)
(* services served, minutes waited, minutes served).                       *)
Counts == [served : Nat, notServed : Nat, pauses : Nat,
           servedBy : [Services -> Nat], notServedBy : [Services -> Nat],
           requestsBy : [Services -> Nat]]
Zero == [served |-> 0, notServed |-> 0, pauses |-> 0,
         servedBy |-> [s \in Services |-> 0],
         notServedBy |-> [s \in Services |-> 0],
         requestsBy |-> [s \in Services |-> 0]]

NoService == CHOOSE s \in Services : TRUE     (* a value nobody looks at   *)

Init ==
  /\ day = 0 /\ phase = "morning"
  /\ mutex = None
  /\ work = [p \in Processes |-> None]
  /\ wpc = [w \in Workers |-> "idle"]
  /\ pausesTaken = [w \in Workers |-> 0]
  /\ activeToday = {} /\ activeEver = {}
  /\ place = [u \in Users |-> "home"]
  /\ wants = [u \in Users |-> NoService]
  /\ due = {}
  /\ daily = Zero /\ total = Zero /\ draft = None
  /\ reports = <<>>

-----------------------------------------------------------------------------
(* An update: lock_stats, the fields of the whole office, the fields of    *)
(* the service, unlock_stats                                               *)

Start(p, op, s) == work' = [work EXCEPT ![p] = [op |-> op, service |-> s, at |-> "lock"]]
At(p, stage) == work[p] # None /\ work[p].at = stage
Advance(p, stage) == work' = [work EXCEPT ![p].at = stage]

(* Mutant: lock_stats does not wait *)
EnterAnyway(p) ==
  /\ At(p, "lock")
  /\ mutex' = p
  /\ Advance(p, "first")
  /\ UNCHANGED <<day, phase, workerVars, userVars, statsVars>>

Enter(p) ==
  /\ At(p, "lock")
  /\ mutex = None
  /\ mutex' = p
  /\ Advance(p, "first")
  /\ UNCHANGED <<day, phase, workerVars, userVars, statsVars>>

AddTotals(c, op) ==
  CASE op = "served"    -> [c EXCEPT !.served = @ + 1]
    [] op = "notServed" -> [c EXCEPT !.notServed = @ + 1]
    [] op = "pause"     -> [c EXCEPT !.pauses = @ + 1]
    [] OTHER -> c

AddByService(c, op, s) ==
  CASE op = "served"    -> [c EXCEPT !.servedBy[s] = @ + 1]
    [] op = "notServed" -> [c EXCEPT !.notServedBy[s] = @ + 1]
    [] op = "request"   -> [c EXCEPT !.requestsBy[s] = @ + 1]
    [] OTHER -> c

(* reset_day_statistics: the memset of day_by_service, then the rest       *)
ResetByService(c) == [Zero EXCEPT !.served = c.served, !.notServed = c.notServed,
                                  !.pauses = c.pauses]

(* Mutant: day_pause_total is not in the list                              *)
ResetTotalsButPauses(c) == [c EXCEPT !.served = 0, !.notServed = 0]

ResetTotals(c) == [c EXCEPT !.served = 0, !.notServed = 0, !.pauses = 0]

First(p) ==
  LET op == work[p].op IN
  /\ At(p, "first")
  /\ Advance(p, "second")
  /\ daily' = IF op = "reset" THEN ResetByService(daily) ELSE AddTotals(daily, op)
  /\ total' = AddTotals(total, op)
  /\ draft' = IF op = "print" THEN [draft EXCEPT !.day = daily, !.total = total]
                               ELSE draft
  /\ UNCHANGED <<day, phase, mutex, workerVars, userVars, reports>>

(* The report has its sums from the first half of print_daily_statistics   *)
(* and its lines by service from the second.                               *)
ByServiceOf(sums, c) ==
  [sums EXCEPT !.servedBy = c.servedBy, !.notServedBy = c.notServedBy,
               !.requestsBy = c.requestsBy]
Report == [draft EXCEPT !.day = ByServiceOf(@, daily), !.total = ByServiceOf(@, total)]

Second(p) ==
  LET op == work[p].op
      s == work[p].service
  IN  /\ At(p, "second")
      /\ Advance(p, "done")
      /\ mutex' = None
      /\ daily' = IF op = "reset" THEN ResetTotals(daily) ELSE AddByService(daily, op, s)
      /\ total' = AddByService(total, op, s)
      /\ reports' = IF op = "print" THEN Append(reports, Report) ELSE reports
      /\ draft' = IF op = "print" THEN None ELSE draft
      /\ UNCHANGED <<day, phase, workerVars, userVars>>

-----------------------------------------------------------------------------
(* Users and ticket dispenser                                              *)

(* Answered: the service it asked for is forgotten                         *)
GoHome(u) ==
  /\ place' = [place EXCEPT ![u] = "home"]
  /\ wants' = [wants EXCEPT ![u] = NoService]

Ask(u) ==
  /\ u \in due /\ place[u] = "home"
  /\ due' = due \ {u}
  /\ place' = [place EXCEPT ![u] = "asked"]
  /\ \E s \in Services : wants' = [wants EXCEPT ![u] = s]
  /\ UNCHANGED <<day, phase, mutex, work, workerVars, statsVars>>

(* The dispenser takes the request out of the message queue: mark_request  *)
Take(u) ==
  /\ place[u] = "asked" /\ work[Dispenser] = None
  /\ place' = [place EXCEPT ![u] = "taken"]
  /\ Start(Dispenser, "request", wants[u])
  /\ UNCHANGED <<day, phase, mutex, workerVars, wants, due, statsVars>>

(* Into the queue of the service, while the day is active                  *)
Accept(u) ==
  /\ place[u] = "taken" /\ At(Dispenser, "done") /\ work[Dispenser].op = "request"
  /\ phase = "day"
  /\ place' = [place EXCEPT ![u] = "queue"]
  /\ work' = [work EXCEPT ![Dispenser] = None]
  /\ UNCHANGED <<day, phase, mutex, workerVars, wants, due, statsVars>>

(* Day over, service not offered or queue full: mark_not_served            *)
Refuse(u) ==
  /\ place[u] = "taken" /\ At(Dispenser, "done") /\ work[Dispenser].op = "request"
  /\ place' = [place EXCEPT ![u] = "refused"]
  /\ Start(Dispenser, "notServed", wants[u])
  /\ UNCHANGED <<day, phase, mutex, workerVars, wants, due, statsVars>>

ReplyRefusal(u) ==
  /\ place[u] = "refused" /\ At(Dispenser, "done")
  /\ GoHome(u)
  /\ work' = [work EXCEPT ![Dispenser] = None]
  /\ UNCHANGED <<day, phase, mutex, workerVars, due, statsVars>>

-----------------------------------------------------------------------------
(* Operators                                                               *)

(* claim_counter_for_service; the scan may end after closing               *)
Claim(w) ==
  /\ wpc[w] = "idle" /\ phase \in {"day", "closing"}
  /\ wpc' = [wpc EXCEPT ![w] = "counter"]
  /\ activeToday' = activeToday \cup {w}
  /\ activeEver' = activeEver \cup {w}
  /\ UNCHANGED <<day, phase, mutex, work, pausesTaken, userVars, statsVars>>

(* pop_ticket_for_service and the service itself; one may still begin      *)
(* after closing                                                           *)
Serve(w, u) ==
  /\ wpc[w] = "counter" /\ work[w] = None
  /\ place[u] = "queue"
  /\ place' = [place EXCEPT ![u] = "served"]
  /\ Start(w, "served", wants[u])
  /\ UNCHANGED <<day, phase, mutex, workerVars, wants, due, statsVars>>

(* should_take_pause *)
MayPause(w) == phase = "day" /\ pausesTaken[w] < NOF_PAUSE

(* send_user_reply, then on with the next ticket, home if the day is over, *)
(* or a pause                                                              *)
ReplyServed(w, u) ==
  /\ At(w, "done") /\ work[w].op = "served"
  /\ place[u] = "served" /\ wants[u] = work[w].service
  /\ GoHome(u)
  /\ \/ /\ work' = [work EXCEPT ![w] = None]
        /\ wpc' = [wpc EXCEPT ![w] = IF phase = "day" THEN "counter" ELSE "finished"]
        /\ UNCHANGED pausesTaken
     \/ /\ MayPause(w)
        /\ pausesTaken' = [pausesTaken EXCEPT ![w] = @ + 1]
        /\ Start(w, "pause", wants[u])
        /\ UNCHANGED wpc
  /\ UNCHANGED <<day, phase, mutex, activeToday, activeEver, due, statsVars>>

(* Mutant: the break after update_pause_statistics is missing              *)
PauseAndStay(w) ==
  /\ At(w, "done") /\ work[w].op = "pause"
  /\ work' = [work EXCEPT ![w] = None]
  /\ UNCHANGED <<day, phase, mutex, workerVars, userVars, statsVars>>

(* The pause ends the operator's day: release_counter, DAY_FINISHED        *)
LeaveForPause(w) ==
  /\ At(w, "done") /\ work[w].op = "pause"
  /\ work' = [work EXCEPT ![w] = None]
  /\ wpc' = [wpc EXCEPT ![w] = "finished"]
  /\ UNCHANGED <<day, phase, mutex, pausesTaken, activeToday, activeEver,
                 userVars, statsVars>>

(* So does the end of the day, at a counter or still without               *)
FinishDay(w) ==
  /\ phase = "closing"
  /\ wpc[w] # "finished" /\ work[w] = None
  /\ wpc' = [wpc EXCEPT ![w] = "finished"]
  /\ UNCHANGED <<day, phase, mutex, work, pausesTaken, activeToday, activeEver,
                 userVars, statsVars>>

-----------------------------------------------------------------------------
(* The director                                                            *)

Free == work[Director] = None
Did(op) == At(Director, "done") /\ work[Director].op = op

(* Mutant: the loop over the days ends one too late *)
NextDayOneMore ==
  /\ phase = "morning" /\ Free
  /\ day <= SIM_DURATION
  /\ day' = day + 1
  /\ Start(Director, "reset", NoService)
  /\ UNCHANGED <<phase, mutex, workerVars, userVars, statsVars>>

NextDay ==
  /\ phase = "morning" /\ Free
  /\ day < SIM_DURATION
  /\ day' = day + 1
  /\ Start(Director, "reset", NoService)
  /\ UNCHANGED <<phase, mutex, workerVars, userVars, statsVars>>

(* reset_workers_day_state, assign_daily_counters and SIGUSR1              *)
OpenDay ==
  /\ phase = "morning" /\ Did("reset")
  /\ phase' = "day"
  /\ work' = [work EXCEPT ![Director] = None]
  /\ activeToday' = {}
  /\ wpc' = [w \in Workers |-> "idle"]
  /\ due' = Users
  /\ UNCHANGED <<day, mutex, pausesTaken, activeEver, place, wants, statsVars>>

CloseDay ==
  /\ phase = "day"
  /\ phase' = "closing"
  /\ UNCHANGED <<day, mutex, work, workerVars, userVars, statsVars>>

(* wait_for_workers_day_end                                                *)
AllFinished ==
  /\ phase = "closing"
  /\ \A w \in Workers : wpc[w] = "finished"
  /\ phase' = "flush"
  /\ UNCHANGED <<day, mutex, work, workerVars, userVars, statsVars>>

(* flush_pending_users: the answer goes out before the statistics          *)
FlushUser(u) ==
  /\ phase = "flush" /\ Free
  /\ place[u] = "queue"
  /\ GoHome(u)
  /\ Start(Director, "notServed", wants[u])
  /\ UNCHANGED <<day, phase, mutex, workerVars, due, statsVars>>

Flushed ==
  /\ phase = "flush" /\ Did("notServed")
  /\ work' = [work EXCEPT ![Director] = None]
  /\ UNCHANGED <<day, phase, mutex, workerVars, userVars, statsVars>>

(* print_daily_statistics counts the active operators before lock_stats    *)
PrintReport ==
  /\ phase = "flush" /\ Free
  /\ \A u \in Users : place[u] # "queue"
  /\ phase' = "print"
  /\ Start(Director, "print", NoService)
  /\ draft' = [day |-> Zero, total |-> Zero, active |-> activeToday, ever |-> activeEver]
  /\ UNCHANGED <<day, mutex, workerVars, userVars, daily, total, reports>>

Printed ==
  /\ phase = "print" /\ Did("print")
  /\ phase' = "morning"
  /\ work' = [work EXCEPT ![Director] = None]
  /\ UNCHANGED <<day, mutex, workerVars, userVars, statsVars>>

Next ==
  \/ \E p \in Processes : Enter(p) \/ First(p) \/ Second(p)
  \/ \E u \in Users : \/ Ask(u) \/ Take(u) \/ Accept(u) \/ Refuse(u)
                      \/ ReplyRefusal(u) \/ FlushUser(u)
                      \/ \E w \in Workers : Serve(w, u) \/ ReplyServed(w, u)
  \/ \E w \in Workers : Claim(w) \/ LeaveForPause(w) \/ FinishDay(w)
  \/ NextDay \/ OpenDay \/ CloseDay \/ AllFinished \/ Flushed \/ PrintReport \/ Printed

Spec == Init /\ [][Next]_vars

-----------------------------------------------------------------------------
(* What print_daily_statistics has in its locals, and prints *)
Reports == [day : Counts, total : Counts, active : SUBSET Workers, ever : SUBSET Workers]

TypeOK ==
  /\ day \in 0 .. SIM_DURATION
  /\ phase \in {"morning", "day", "closing", "flush", "print"}
  /\ mutex \in Processes \cup {None}
  /\ work \in [Processes -> {None} \cup Updates]
  /\ wpc \in [Workers -> {"idle", "counter", "finished"}]
  /\ pausesTaken \in [Workers -> 0 .. (IF NOF_PAUSE > 0 THEN NOF_PAUSE ELSE 0)]
  /\ activeToday \subseteq Workers /\ activeEver \subseteq Workers
  /\ place \in [Users -> {"home", "asked", "taken", "refused", "queue", "served"}]
  /\ wants \in [Users -> Services]
  /\ due \subseteq Users
  /\ daily \in Counts /\ total \in Counts
  /\ draft \in {None} \cup Reports
  /\ reports \in Seq(Reports) /\ Len(reports) <= day

Sum(f) == Cardinality(Pairs([s \in Services |-> 1 .. f[s]]))

(* The figures of a report fit together: the services listed one by one    *)
(* add up to the sums above them, for the day and for the simulation,      *)
(* though others count while the director prints (director.c:414-494).     *)
ReportsConsistent ==
  \A i \in DOMAIN reports : \A c \in {reports[i].day, reports[i].total} :
    c.served = Sum(c.servedBy) /\ c.notServed = Sum(c.notServedBy)

OverDays(n, field) == Cardinality(Pairs([i \in 1 .. n |-> 1 .. reports[i].day[field]]))

(* The days printed so far add up to the simulation: exactly for what was  *)
(* served and for the pauses; refusals counted between one day's report    *)
(* and the next morning's reset are in no day, at most one for each user   *)
(* and night (director.c:115-125; erogatore_ticket.c:101-108).             *)
ReportsAddUp ==
  \A n \in DOMAIN reports :
    LET total_n == reports[n].total
        refused == OverDays(n, "notServed")
    IN  /\ total_n.served = OverDays(n, "served")
        /\ total_n.pauses = OverDays(n, "pauses")
        /\ total_n.notServed \in refused .. refused + (n - 1) * Cardinality(Users)

(* A day with customers served has active operators, the ones of the day   *)
(* are among those of the simulation, and no operator pauses twice a day:  *)
(* the average the report divides out is at most 1 (director.c:436-445,    *)
(* 474-477).                                                               *)
PausesPerActiveOperator ==
  \A i \in DOMAIN reports :
    /\ reports[i].day.pauses <= Cardinality(reports[i].active)
    /\ reports[i].day.served > 0 => reports[i].active # {}
    /\ reports[i].active \subseteq reports[i].ever
=============================================================================
