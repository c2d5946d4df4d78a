-------------------------- MODULE StatisticsProofs --------------------------
(***************************************************************************)
(* Theorems about Statistics, for any number of operators, users, services *)
(* and days: the figures of a report fit together and add up over the      *)
(* days, though operators, ticket dispenser and director count while it is *)
(* printed.                                                                *)
(***************************************************************************)
EXTENDS Statistics, TallyProofs

-----------------------------------------------------------------------------
(* Types *)

LEMMA Names ==
  /\ Director \in Processes /\ Dispenser \in Processes /\ Workers \subseteq Processes
  /\ Director # Dispenser /\ Director \notin Workers /\ Dispenser \notin Workers
  /\ None \notin Processes /\ None \notin Updates /\ NoService \in Services
  BY StatisticsAssumption DEF Processes, NoService

(* What each process has to count or to do with the counters. *)
Duty(p) ==
  IF p = Director THEN {"reset", "notServed", "print"}
  ELSE IF p = Dispenser THEN {"request", "notServed"}
  ELSE {"served", "pause"}

(* A step of a process that has nothing in hand, or is done with it. *)
Turn(p) ==
  /\ work[p] = None \/ work[p].at = "done"
  /\ \E v \in {None} \cup {w \in Updates : w.op \in Duty(p) /\ w.at = "lock"} :
       work' = [work EXCEPT ![p] = v]

(* The three steps of an update, and all the others. *)
UpdateStep(p) == Enter(p) \/ First(p) \/ Second(p)
UserStep(u) ==
  Ask(u) \/ Take(u) \/ Accept(u) \/ Refuse(u) \/ ReplyRefusal(u) \/ FlushUser(u)
CounterStep(w, u) == Serve(w, u) \/ ReplyServed(w, u)
WorkerStep(w) == Claim(w) \/ LeaveForPause(w) \/ FinishDay(w)
DayStep ==
  NextDay \/ OpenDay \/ CloseDay \/ AllFinished \/ Flushed \/ PrintReport \/ Printed
OtherStep ==
  \/ \E u \in Users : UserStep(u) \/ \E w \in Workers : CounterStep(w, u)
  \/ \E w \in Workers : WorkerStep(w)
  \/ DayStep

LEMMA NextSteps ==
  Next <=> (\E p \in Processes : UpdateStep(p)) \/ OtherStep
  BY DEF Next, UpdateStep, UserStep, CounterStep, WorkerStep, DayStep, OtherStep

LEMMA Started ==
  ASSUME NEW p \in Processes, work[p] = None \/ work[p].at = "done",
         NEW op \in Duty(p), NEW s \in Services, Start(p, op, s)
  PROVE  Turn(p)
<1> DEFINE v == [op |-> op, service |-> s, at |-> "lock"]
<1>1. v \in Updates /\ v.op \in Duty(p) /\ v.at = "lock"
  BY DEF Duty, Updates, Ops
<1>2. work' = [work EXCEPT ![p] = v]
  BY DEF Start
<1> HIDE DEF v
<1>q. QED  BY <1>1, <1>2 DEF Turn

LEMMA Ended ==
  ASSUME NEW p \in Processes, work[p].at = "done", work' = [work EXCEPT ![p] = None]
  PROVE  Turn(p)
  BY DEF Turn

LEMMA UserTurns ==
  ASSUME TypeOK, NEW u \in Users, UserStep(u)
  PROVE  /\ UNCHANGED <<day, phase, mutex, workerVars, statsVars>>
         /\ UNCHANGED work \/ Turn(Dispenser) \/ Turn(Director)
<1>1. wants[u] \in Services
  BY DEF TypeOK
<1>2. CASE Ask(u)
  BY <1>2 DEF Ask
<1>3. CASE Take(u)
  BY <1>1, <1>3, Started, Names DEF Take, Duty
<1>4. CASE Accept(u)
  BY <1>4, Ended, Names DEF Accept, At
<1>5. CASE Refuse(u)
  BY <1>1, <1>5, Started, Names DEF Refuse, Duty, At
<1>6. CASE ReplyRefusal(u)
  BY <1>6, Ended, Names DEF ReplyRefusal, At
<1>7. CASE FlushUser(u)
  BY <1>1, <1>7, Started, Names DEF FlushUser, Duty, Free
<1>q. QED  BY <1>2, <1>3, <1>4, <1>5, <1>6, <1>7 DEF UserStep

LEMMA WorkerTurns ==
  ASSUME TypeOK, NEW w \in Workers, \/ WorkerStep(w)
                                    \/ \E u \in Users : CounterStep(w, u)
  PROVE  /\ UNCHANGED <<day, phase, mutex, due, statsVars>>
         /\ UNCHANGED work \/ Turn(w)
<1>1. w \in Processes /\ Duty(w) = {"served", "pause"}
  BY Names DEF Duty
<1>2. CASE \E u \in Users : Serve(w, u)
  <2>1. PICK u \in Users : Serve(w, u)
    BY <1>2
  <2>2. wants[u] \in Services
    BY DEF TypeOK
  <2>q. QED  BY <1>1, <2>1, <2>2, Started DEF Serve, workerVars
<1>3. CASE \E u \in Users : ReplyServed(w, u)
  <2>1. PICK u \in Users : ReplyServed(w, u)
    BY <1>3
  <2>2. wants[u] \in Services
    BY DEF TypeOK
  <2>q. QED  BY <1>1, <2>1, <2>2, Started, Ended DEF ReplyServed, At
<1>4. CASE Claim(w)
  BY <1>4 DEF Claim, userVars
<1>5. CASE LeaveForPause(w)
  BY <1>1, <1>5, Ended DEF LeaveForPause, At, userVars
<1>6. CASE FinishDay(w)
  BY <1>6 DEF FinishDay, userVars
<1>q. QED  BY <1>2, <1>3, <1>4, <1>5, <1>6 DEF WorkerStep, CounterStep

LEMMA DayTurns ==
  ASSUME TypeOK, DayStep
  PROVE  /\ UNCHANGED <<mutex, place, wants, daily, total, reports>>
         /\ UNCHANGED draft \/ PrintReport
         /\ UNCHANGED work \/ Turn(Director)
<1>1. CASE NextDay
  BY <1>1, Started, Names DEF NextDay, Duty, Free, userVars, statsVars
<1>2. CASE OpenDay
  BY <1>2, Ended, Names DEF OpenDay, Did, At, statsVars
<1>3. CASE CloseDay \/ AllFinished
  BY <1>3 DEF CloseDay, AllFinished, userVars, statsVars
<1>4. CASE Flushed
  BY <1>4, Ended, Names DEF Flushed, Did, At, userVars, statsVars
<1>5. CASE PrintReport
  BY <1>5, Started, Names DEF PrintReport, Duty, Free, userVars
<1>6. CASE Printed
  BY <1>6, Ended, Names DEF Printed, Did, At, userVars, statsVars
<1>q. QED  BY <1>1, <1>2, <1>3, <1>4, <1>5, <1>6 DEF DayStep

LEMMA OtherTurns ==
  ASSUME TypeOK, OtherStep
  PROVE  /\ UNCHANGED <<mutex, daily, total, reports>>
         /\ UNCHANGED draft \/ PrintReport
         /\ UNCHANGED work \/ \E p \in Processes : Turn(p)
<1>1. CASE \E u \in Users : UserStep(u)
  BY <1>1, UserTurns, Names DEF statsVars
<1>2. CASE \E w \in Workers : WorkerStep(w) \/ \E u \in Users : CounterStep(w, u)
  BY <1>2, WorkerTurns, Names DEF statsVars
<1>3. CASE DayStep
  BY <1>3, DayTurns, Names
<1>q. QED  BY <1>1, <1>2, <1>3 DEF OtherStep

(* What work holds after a step. *)
LEMMA Advanced ==
  ASSUME TypeOK, NEW p \in Processes, work[p] # None,
         NEW stage \in {"lock", "first", "second", "done"}, Advance(p, stage)
  PROVE  /\ work' \in [Processes -> {None} \cup Updates]
         /\ work'[p] \in Updates /\ work'[p] # None
         /\ work'[p].op = work[p].op /\ work'[p].service = work[p].service
         /\ work'[p].at = stage
         /\ \A q \in Processes \ {p} : work'[q] = work[q]
<1> DEFINE v == [work[p] EXCEPT !.at = stage]
<1>1. work \in [Processes -> {None} \cup Updates]
  BY DEF TypeOK
<1>2. work[p] \in Updates
  BY <1>1
<1>3. /\ v \in Updates /\ v.op = work[p].op /\ v.service = work[p].service /\ v.at = stage
  BY <1>2 DEF Updates
<1>4. work' = [work EXCEPT ![p] = v]
  BY DEF Advance
<1> HIDE DEF v
<1>5. v # None
  BY <1>3, Names
<1>q. QED  BY <1>1, <1>3, <1>4, <1>5

LEMMA Turned ==
  ASSUME TypeOK, NEW p \in Processes, Turn(p)
  PROVE  /\ work' \in [Processes -> {None} \cup Updates]
         /\ work'[p] # None => work'[p].at = "lock" /\ work'[p].op \in Duty(p)
         /\ \A q \in Processes \ {p} : work'[q] = work[q]
<1>1. work \in [Processes -> {None} \cup Updates]
  BY DEF TypeOK
<1>2. PICK v \in {None} \cup {w \in Updates : w.op \in Duty(p) /\ w.at = "lock"} :
             work' = [work EXCEPT ![p] = v]
  BY DEF Turn
<1>q. QED  BY <1>1, <1>2

LEMMA UpdateMoves ==
  ASSUME TypeOK, NEW p \in Processes, UpdateStep(p)
  PROVE  /\ UNCHANGED <<day, phase, workerVars, userVars>>
         /\ work[p] \in Updates /\ work[p] # None
         /\ work' \in [Processes -> {None} \cup Updates]
         /\ work'[p] \in Updates /\ work'[p] # None
         /\ work'[p].op = work[p].op /\ work'[p].service = work[p].service
         /\ \/ work[p].at = "lock" /\ work'[p].at = "first"
            \/ work[p].at = "first" /\ work'[p].at = "second"
            \/ work[p].at = "second" /\ work'[p].at = "done"
         /\ \A q \in Processes \ {p} : work'[q] = work[q]
<1>0. work[p] # None => work[p] \in Updates
  BY DEF TypeOK
<1>1. CASE Enter(p)
  BY <1>0, <1>1, Advanced DEF Enter, At
<1>2. CASE First(p)
  BY <1>0, <1>2, Advanced DEF First, At
<1>3. CASE Second(p)
  BY <1>0, <1>3, Advanced DEF Second, At
<1>q. QED  BY <1>1, <1>2, <1>3 DEF UpdateStep

(* The counters stay counters. *)
LEMMA CountsAdded ==
  ASSUME NEW c \in Counts, NEW op, NEW s \in Services
  PROVE  /\ AddTotals(c, op) \in Counts /\ AddByService(c, op, s) \in Counts
         /\ ResetByService(c) \in Counts /\ ResetTotals(c) \in Counts
         /\ Zero \in Counts
<1>1. /\ c.servedBy \in [Services -> Nat] /\ c.notServedBy \in [Services -> Nat]
      /\ c.requestsBy \in [Services -> Nat]
      /\ c.served \in Nat /\ c.notServed \in Nat /\ c.pauses \in Nat
      /\ c = [served |-> c.served, notServed |-> c.notServed, pauses |-> c.pauses,
              servedBy |-> c.servedBy, notServedBy |-> c.notServedBy,
              requestsBy |-> c.requestsBy]
  BY DEF Counts
<1>2. AddTotals(c, op) \in Counts
  BY <1>1 DEF AddTotals, Counts
<1>3. \A f \in [Services -> Nat] : [f EXCEPT ![s] = @ + 1] \in [Services -> Nat]
  OBVIOUS
<1>4. AddByService(c, op, s) \in Counts
  <2>1. CASE op = "served"
    BY <1>1, <1>3, <2>1 DEF AddByService, Counts
  <2>2. CASE op = "notServed"
    BY <1>1, <1>3, <2>2 DEF AddByService, Counts
  <2>3. CASE op = "request"
    BY <1>1, <1>3, <2>3 DEF AddByService, Counts
  <2>4. CASE op \notin {"served", "notServed", "request"}
    BY <2>4 DEF AddByService
  <2>q. QED  BY <2>1, <2>2, <2>3, <2>4
<1>5. Zero \in Counts
  BY DEF Zero, Counts
<1>6. ResetByService(c) \in Counts
  BY <1>1, <1>5 DEF ResetByService, Counts
<1>7. ResetTotals(c) \in Counts
  BY <1>1 DEF ResetTotals, Counts
<1>q. QED  BY <1>2, <1>4, <1>5, <1>6, <1>7

-----------------------------------------------------------------------------
(* Who is at the counters *)

DutyInv == \A p \in Processes : work[p] # None => work[p].op \in Duty(p)

Inside(p) == work[p] # None /\ work[p].at \in {"first", "second"}
Exclusive == \A p \in Processes : mutex = p <=> Inside(p)

(* The report of the day is out. *)
Reported ==
  \/ phase = "morning" /\ Free
  \/ phase = "print" /\ work[Director].at = "done"

(* What the director has in hand goes with where it is. *)
DirectorInv ==
  /\ phase = "morning" => Free \/ work[Director].op = "reset"
  /\ phase \in {"day", "closing"} => Free
  /\ phase = "flush" => Free \/ work[Director].op = "notServed"
  /\ phase = "print" => ~Free /\ work[Director].op = "print"
  /\ Len(reports) = IF Reported THEN day ELSE day - 1

(* Since print_daily_statistics counted the active operators no operator   *)
(* has become active, and half-way through the critical section nothing    *)
(* has changed since its first half.                                       *)
Printing == work[Director] # None /\ work[Director].op = "print"
Drafted ==
  Printing /\ work[Director].at # "done" =>
    /\ draft \in Reports
    /\ draft.active = activeToday /\ draft.ever = activeEver
    /\ work[Director].at = "second" => draft.day = daily /\ draft.total = total

WorkInv == DutyInv /\ Exclusive /\ DirectorInv /\ Drafted

LEMMA PrintAlone ==
  ASSUME TypeOK, DutyInv, NEW p \in Processes, work[p] # None, work[p].op = "print"
  PROVE  p = Director /\ Printing
  BY DEF DutyInv, Duty, Printing

LEMMA PrintPhase ==
  ASSUME TypeOK, DirectorInv, Printing
  PROVE  phase = "print"
  BY DEF DirectorInv, Printing, TypeOK, Free

LEMMA UpdateDuty ==
  ASSUME TypeOK, WorkInv, NEW p \in Processes, UpdateStep(p)
  PROVE  DutyInv' /\ Exclusive'
<1>1. DutyInv'
  BY UpdateMoves DEF WorkInv, DutyInv, Duty
<1>2. \A q \in Processes \ {p} : Inside(q)' <=> Inside(q)
  BY UpdateMoves DEF Inside
<1>3. CASE Enter(p)
  <2>1. mutex = None /\ mutex' = p /\ Inside(p)'
    BY <1>3, UpdateMoves DEF Enter, At, Inside
  <2>2. \A q \in Processes : ~Inside(q)
    BY <2>1, Names DEF WorkInv, Exclusive
  <2>q. QED  BY <1>1, <1>2, <2>1, <2>2 DEF Exclusive
<1>4. CASE First(p)
  <2>1. mutex' = mutex /\ Inside(p)' /\ Inside(p)
    BY <1>4, UpdateMoves DEF First, At, Inside
  <2>q. QED  BY <1>1, <1>2, <2>1 DEF WorkInv, Exclusive
<1>5. CASE Second(p)
  <2>1. mutex' = None /\ ~Inside(p)' /\ Inside(p)
    BY <1>5, UpdateMoves DEF Second, At, Inside
  <2>2. \A q \in Processes \ {p} : ~Inside(q)
    BY <2>1 DEF WorkInv, Exclusive
  <2>3. \A q \in Processes : mutex' # q
    BY <2>1, Names
  <2>q. QED  BY <1>1, <1>2, <2>1, <2>2, <2>3 DEF Exclusive
<1>q. QED  BY <1>3, <1>4, <1>5 DEF UpdateStep

LEMMA OtherDuty ==
  ASSUME TypeOK, WorkInv, OtherStep
  PROVE  DutyInv' /\ Exclusive'
<1>1. mutex' = mutex
  BY OtherTurns
<1>2. CASE UNCHANGED work
  BY <1>1, <1>2 DEF WorkInv, DutyInv, Exclusive, Inside
<1>3. CASE \E p \in Processes : Turn(p)
  <2>1. PICK p \in Processes : Turn(p)
    BY <1>3
  <2>2. DutyInv'
    BY <2>1, Turned DEF WorkInv, DutyInv, Duty
  <2>3. ~Inside(p) /\ ~Inside(p)'
    BY <2>1, Turned DEF Turn, Inside
  <2>4. \A q \in Processes \ {p} : Inside(q)' <=> Inside(q)
    BY <2>1, Turned DEF Inside
  <2>q. QED  BY <1>1, <2>2, <2>3, <2>4 DEF WorkInv, Exclusive
<1>q. QED  BY <1>2, <1>3, OtherTurns

(* The statistics after an update. *)
LEMMA UpdateCounts ==
  ASSUME TypeOK, WorkInv, NEW p \in Processes, UpdateStep(p)
  PROVE  /\ daily' \in Counts /\ total' \in Counts
         /\ draft' \in {None} \cup Reports
         /\ \/ UNCHANGED reports /\ ~(Printing /\ p = Director /\ work[p].at = "second")
            \/ /\ Printing /\ p = Director /\ work[p].at = "second"
               /\ reports' = Append(reports, draft) /\ draft \in Reports
<1>1. daily \in Counts /\ total \in Counts /\ draft \in {None} \cup Reports
  BY DEF TypeOK
<1>2. /\ activeToday \in SUBSET Workers /\ activeEver \in SUBSET Workers
  BY DEF TypeOK
<1>3. work[p].service \in Services
  BY UpdateMoves DEF Updates
<1>4. CASE Enter(p)
  BY <1>1, <1>4 DEF Enter, At, statsVars
<1>5. CASE First(p)
  <2>1. daily' \in Counts /\ total' \in Counts
    BY <1>1, <1>3, <1>5, CountsAdded DEF First
  <2>2. draft' \in {None} \cup Reports
    <3>1. CASE work[p].op = "print"
      <4>1. p = Director /\ Printing /\ work[p].at = "first"
        BY <1>5, <3>1, UpdateMoves, PrintAlone DEF First, At, WorkInv
      <4>2. draft \in Reports
        BY <4>1 DEF WorkInv, Drafted
      <4>q. QED  BY <1>1, <1>5, <3>1, <4>2 DEF First, Reports
    <3>2. CASE work[p].op # "print"
      BY <1>1, <1>5, <3>2 DEF First
    <3>q. QED  BY <3>1, <3>2
  <2>q. QED  BY <1>5, <2>1, <2>2 DEF First, At
<1>6. CASE Second(p)
  <2>1. daily' \in Counts /\ total' \in Counts
    BY <1>1, <1>3, <1>6, CountsAdded DEF Second
  <2>2. draft' \in {None} \cup Reports
    BY <1>1, <1>6 DEF Second
  <2>3. CASE work[p].op = "print"
    <3>1. p = Director /\ Printing /\ work[p].at = "second"
      BY <1>6, <2>3, UpdateMoves, PrintAlone DEF Second, At, WorkInv
    <3>2. draft \in Reports /\ draft.day = daily /\ draft.total = total
      BY <3>1 DEF WorkInv, Drafted
    <3>3. \A c \in Counts : ByServiceOf(c, c) = c
      BY DEF ByServiceOf, Counts
    <3>4. Report = draft
      BY <1>1, <3>2, <3>3 DEF Report, Reports
    <3>q. QED  BY <1>6, <2>1, <2>2, <2>3, <3>1, <3>2, <3>4 DEF Second
  <2>4. CASE work[p].op # "print"
    BY <1>6, <2>1, <2>2, <2>4 DEF Second, Printing
  <2>q. QED  BY <2>3, <2>4
<1>q. QED  BY <1>4, <1>5, <1>6 DEF UpdateStep

LEMMA UpdateDirector ==
  ASSUME TypeOK, WorkInv, NEW p \in Processes, UpdateStep(p)
  PROVE  DirectorInv'
<1>1. UNCHANGED <<day, phase>>
  BY UpdateMoves
<1>2. /\ reports \in Seq(Reports) /\ day \in Nat
  BY StatisticsAssumption DEF TypeOK
<1>3. CASE p # Director
  <2>1. work'[Director] = work[Director] /\ UNCHANGED reports
    BY <1>3, UpdateMoves, UpdateCounts, Names
  <2>q. QED  BY <1>1, <2>1 DEF WorkInv, DirectorInv, Reported, Free
<1>4. CASE p = Director
  <2>1. /\ ~Free /\ ~Free' /\ work'[Director].op = work[Director].op
        /\ work[Director].at # "done"
        /\ work'[Director].at = "done" <=> work[Director].at = "second"
    BY <1>4, UpdateMoves DEF Free
  <2>2. ~Reported /\ Len(reports) = day - 1
    BY <2>1 DEF WorkInv, DirectorInv, Reported
  <2>3. Reported' <=> Printing /\ work[Director].at = "second"
    BY <1>1, <2>1, PrintPhase DEF WorkInv, DirectorInv, Reported, Printing, Free
  <2>4. CASE UNCHANGED reports /\ ~Reported'
    BY <1>1, <2>1, <2>2, <2>4 DEF WorkInv, DirectorInv
  <2>5. CASE reports' = Append(reports, draft) /\ Reported'
    <3>1. Len(reports') = day
      BY <1>2, <2>2, <2>5
    <3>q. QED  BY <1>1, <2>1, <2>5, <3>1 DEF WorkInv, DirectorInv
  <2>q. QED  BY <1>4, <2>3, <2>4, <2>5, UpdateCounts
<1>q. QED  BY <1>3, <1>4

LEMMA UpdateDrafts ==
  ASSUME TypeOK, WorkInv, NEW p \in Processes, UpdateStep(p)
  PROVE  Drafted'
<1>1. activeToday' = activeToday /\ activeEver' = activeEver
  BY UpdateMoves DEF workerVars
<1>2. CASE p # Director
  <2>1. work'[Director] = work[Director]
    BY <1>2, UpdateMoves, Names
  <2>2. draft' = draft
    <3>1. work[p].op # "print"
      BY <1>2, UpdateMoves, PrintAlone DEF WorkInv
    <3>q. QED  BY <3>1 DEF UpdateStep, Enter, First, Second, statsVars
  <2>3. ~(Printing /\ work[Director].at = "second") \/ UNCHANGED <<daily, total>>
    <3>1. CASE Printing /\ work[Director].at = "second"
      <4>1. Inside(Director) /\ mutex = Director
        BY <3>1, Names DEF WorkInv, Exclusive, Inside, Printing
      <4>2. ~Inside(p) /\ mutex # None
        BY <1>2, <4>1, Names DEF WorkInv, Exclusive
      <4>q. QED  BY <4>2 DEF UpdateStep, Enter, First, Second, Inside, At
    <3>q. QED  BY <3>1
  <2>q. QED  BY <1>1, <2>1, <2>2, <2>3 DEF WorkInv, Drafted, Printing
<1>3. CASE p = Director
  <2>1. CASE Enter(Director)
    <3>1. /\ work[Director].at = "lock" /\ work'[Director].at = "first"
          /\ Printing' => Printing
          /\ UNCHANGED draft
      BY <1>3, <2>1, UpdateMoves DEF Enter, At, Printing, statsVars
    <3>q. QED  BY <1>1, <3>1 DEF WorkInv, Drafted
  <2>2. CASE First(Director) /\ work[Director].op = "print"
    <3>1. daily \in Counts /\ total \in Counts
      BY DEF TypeOK
    <3>2. /\ draft \in Reports /\ draft.active = activeToday /\ draft.ever = activeEver
      BY <2>2 DEF First, At, WorkInv, Drafted, Printing
    <3>3. /\ draft' = [draft EXCEPT !.day = daily, !.total = total]
          /\ daily' = daily /\ total' = total
      BY <2>2 DEF First, AddTotals
    <3>4. /\ draft' \in Reports /\ draft'.day = daily /\ draft'.total = total
          /\ draft'.active = draft.active /\ draft'.ever = draft.ever
      BY <3>1, <3>2, <3>3 DEF Reports
    <3>q. QED  BY <1>1, <3>2, <3>3, <3>4 DEF Drafted
  <2>3. CASE First(Director) /\ work[Director].op # "print"
    <3>1. ~Printing'
      BY <1>3, <2>3, UpdateMoves DEF Printing
    <3>q. QED  BY <3>1 DEF Drafted
  <2>4. CASE Second(Director)
    <3>1. work'[Director].at = "done"
      BY <1>3, <2>4, UpdateMoves DEF Second, At
    <3>q. QED  BY <3>1 DEF Drafted
  <2>q. QED  BY <1>3, <2>1, <2>2, <2>3, <2>4 DEF UpdateStep
<1>q. QED  BY <1>2, <1>3

LEMMA UpdateTypes ==
  ASSUME TypeOK, WorkInv, NEW p \in Processes, UpdateStep(p)
  PROVE  TypeOK'
<1>1. /\ work' \in [Processes -> {None} \cup Updates]
      /\ UNCHANGED <<day, phase, workerVars, userVars>>
  BY UpdateMoves
<1>2. mutex' \in Processes \cup {None}
  BY DEF UpdateStep, Enter, First, Second, TypeOK
<1>3. reports' \in Seq(Reports)
  <2>1. reports \in Seq(Reports)
    BY DEF TypeOK
  <2>2. reports' = reports \/ (reports' = Append(reports, draft) /\ draft \in Reports)
    BY UpdateCounts
  <2>q. QED  BY <2>1, <2>2
<1>4. Len(reports') <= day
  <2>1. Len(reports') = IF Reported' THEN day' ELSE day' - 1
    BY UpdateDirector DEF DirectorInv
  <2>2. day \in Nat /\ day' = day
    BY <1>1, StatisticsAssumption DEF TypeOK
  <2>q. QED  BY <2>1, <2>2
<1>5. UNCHANGED <<day, phase, wpc, pausesTaken, activeToday, activeEver, place, wants, due>>
  BY <1>1 DEF workerVars, userVars
<1>6. daily' \in Counts /\ total' \in Counts /\ draft' \in {None} \cup Reports
  BY UpdateCounts
<1>q. QED  BY <1>1, <1>2, <1>3, <1>4, <1>5, <1>6 DEF TypeOK

-----------------------------------------------------------------------------
(* The steps between the updates *)

LEMMA DraftTyped ==
  ASSUME TypeOK, PrintReport
  PROVE  draft' \in Reports
<1>1. Zero \in Counts
  BY DEF Zero, Counts
<1>2. activeToday \in SUBSET Workers /\ activeEver \in SUBSET Workers
  BY DEF TypeOK
<1>q. QED  BY <1>1, <1>2 DEF PrintReport, Reports

LEMMA OtherDirector ==
  ASSUME TypeOK, WorkInv, OtherStep
  PROVE  DirectorInv' /\ Drafted'
<1>1. /\ work \in [Processes -> {None} \cup Updates]
      /\ day \in Nat /\ reports \in Seq(Reports)
  BY StatisticsAssumption DEF TypeOK
<1>2. UNCHANGED <<daily, total, reports>>
  BY OtherTurns
<1>3. ASSUME UNCHANGED <<day, phase>>, work'[Director] = work[Director],
             UNCHANGED draft,
             UNCHANGED <<activeToday, activeEver>> \/ phase \in {"day", "closing"}
      PROVE  DirectorInv' /\ Drafted'
  <2>1. DirectorInv'
    BY <1>2, <1>3 DEF WorkInv, DirectorInv, Reported, Free
  <2>2. phase \in {"day", "closing"} => ~Printing
    BY PrintPhase DEF WorkInv
  <2>q. QED  BY <1>2, <1>3, <2>1, <2>2 DEF WorkInv, Drafted, Printing
<1>4. ASSUME work'[Director] = None \/ work'[Director].op # "print" PROVE Drafted'
  BY <1>4 DEF Drafted, Printing
<1>5. ASSUME NEW u \in Users, UserStep(u) PROVE DirectorInv' /\ Drafted'
  <2>1. CASE FlushUser(u)
    <3>1. /\ phase = "flush" /\ Free /\ UNCHANGED <<day, phase>>
          /\ work'[Director] # None /\ work'[Director].op = "notServed"
          /\ work'[Director].at = "lock"
      <4>1. wants[u] \in Services
        BY <1>5 DEF TypeOK
      <4>q. QED  BY <1>1, <2>1, <4>1, Names DEF FlushUser, Start, Updates, Ops
    <3>q. QED  BY <1>2, <1>4, <3>1 DEF WorkInv, DirectorInv, Reported, Free
  <2>2. CASE Ask(u) \/ Take(u) \/ Accept(u) \/ Refuse(u) \/ ReplyRefusal(u)
    <3>1. work'[Director] = work[Director]
      BY <1>1, <2>2, Names DEF Ask, Take, Accept, Refuse, ReplyRefusal, Start
    <3>q. QED  BY <1>3, <1>5, <3>1, UserTurns DEF workerVars, statsVars
  <2>q. QED  BY <1>5, <2>1, <2>2 DEF UserStep
<1>6. ASSUME NEW w \in Workers, WorkerStep(w) \/ \E u \in Users : CounterStep(w, u)
      PROVE  DirectorInv' /\ Drafted'
  <2>1. /\ UNCHANGED <<day, phase, draft>>
        /\ UNCHANGED work \/ Turn(w)
    BY <1>6, WorkerTurns DEF statsVars
  <2>2. work'[Director] = work[Director]
    BY <2>1, Turned, Names
  <2>3. UNCHANGED <<activeToday, activeEver>> \/ phase \in {"day", "closing"}
    BY <1>6 DEF WorkerStep, CounterStep, Claim, LeaveForPause, FinishDay, Serve,
                ReplyServed, workerVars
  <2>q. QED  BY <1>3, <2>1, <2>2, <2>3
<1>7. ASSUME DayStep PROVE DirectorInv' /\ Drafted'
  <2>1. CASE NextDay
    <3>1. /\ phase = "morning" /\ phase' = phase /\ Free /\ day' = day + 1
          /\ work'[Director] # None /\ work'[Director].op = "reset"
          /\ work'[Director].at = "lock"
      BY <1>1, <2>1, Names DEF NextDay, Start, Updates, Ops
    <3>q. QED  BY <1>1, <1>2, <1>4, <3>1 DEF WorkInv, DirectorInv, Reported, Free
  <2>2. CASE OpenDay
    <3>1. /\ phase = "morning" /\ phase' = "day" /\ ~Free /\ day' = day
          /\ work'[Director] = None
      BY <1>1, <2>2, Names DEF OpenDay, Did, At, Free
    <3>2. ~Reported /\ ~Reported' /\ Free'
      BY <3>1 DEF Reported, Free
    <3>3. Len(reports') = day' - 1
      BY <1>2, <3>1, <3>2 DEF WorkInv, DirectorInv
    <3>4. DirectorInv'
      BY <3>1, <3>2, <3>3 DEF DirectorInv
    <3>q. QED  BY <1>4, <3>1, <3>4
  <2>3. CASE CloseDay \/ AllFinished
    <3>1. /\ phase \in {"day", "closing"} /\ phase' \in {"closing", "flush"} /\ day' = day
          /\ work' = work
      BY <2>3 DEF CloseDay, AllFinished
    <3>2. work'[Director] = None
      BY <3>1 DEF WorkInv, DirectorInv, Free
    <3>q. QED  BY <1>1, <1>2, <1>4, <3>1, <3>2 DEF WorkInv, DirectorInv, Reported, Free
  <2>4. CASE Flushed
    <3>1. /\ phase = "flush" /\ phase' = phase /\ day' = day /\ work'[Director] = None
      BY <1>1, <2>4, Names DEF Flushed
    <3>q. QED  BY <1>1, <1>2, <1>4, <3>1 DEF WorkInv, DirectorInv, Reported, Free
  <2>5. CASE PrintReport
    <3>1. /\ phase = "flush" /\ phase' = "print" /\ Free /\ day' = day
          /\ work'[Director] # None /\ work'[Director].op = "print"
          /\ work'[Director].at = "lock"
      BY <1>1, <2>5, Names DEF PrintReport, Start, Updates, Ops
    <3>2. DirectorInv'
      BY <1>1, <1>2, <3>1 DEF WorkInv, DirectorInv, Reported, Free
    <3>3. /\ draft' = [day |-> Zero, total |-> Zero, active |-> activeToday,
                       ever |-> activeEver]
          /\ UNCHANGED <<activeToday, activeEver>>
      BY <2>5 DEF PrintReport, workerVars
    <3>4. draft' \in Reports
      BY <2>5, DraftTyped
    <3>q. QED  BY <3>1, <3>2, <3>3, <3>4 DEF Drafted
  <2>6. CASE Printed
    <3>1. /\ phase = "print" /\ phase' = "morning" /\ day' = day /\ Reported
          /\ work'[Director] = None
      BY <1>1, <2>6, Names DEF Printed, Did, At, Reported
    <3>q. QED  BY <1>1, <1>2, <1>4, <3>1 DEF WorkInv, DirectorInv, Reported, Free
  <2>q. QED  BY <1>7, <2>1, <2>2, <2>3, <2>4, <2>5, <2>6 DEF DayStep
<1>q. QED  BY <1>5, <1>6, <1>7 DEF OtherStep

LEMMA UserTypes ==
  ASSUME TypeOK, NEW u \in Users, \/ UserStep(u)
                                  \/ \E w \in Workers : CounterStep(w, u)
  PROVE  /\ place' \in [Users -> {"home", "asked", "taken", "refused", "queue", "served"}]
         /\ wants' \in [Users -> Services]
         /\ due' \subseteq Users
<1>1. /\ place \in [Users -> {"home", "asked", "taken", "refused", "queue", "served"}]
      /\ wants \in [Users -> Services] /\ due \subseteq Users /\ NoService \in Services
  BY Names DEF TypeOK
<1>2. CASE Ask(u)
  BY <1>1, <1>2 DEF Ask
<1>3. CASE Take(u) \/ Accept(u) \/ Refuse(u)
  BY <1>1, <1>3 DEF Take, Accept, Refuse
<1>4. CASE ReplyRefusal(u) \/ FlushUser(u)
  BY <1>1, <1>4 DEF ReplyRefusal, FlushUser, GoHome
<1>5. CASE \E w \in Workers : Serve(w, u)
  BY <1>1, <1>5 DEF Serve
<1>6. CASE \E w \in Workers : ReplyServed(w, u)
  BY <1>1, <1>6 DEF ReplyServed, GoHome
<1>q. QED  BY <1>2, <1>3, <1>4, <1>5, <1>6 DEF UserStep, CounterStep

LEMMA WorkerTypes ==
  ASSUME TypeOK, NEW w \in Workers, \/ WorkerStep(w)
                                    \/ \E u \in Users : CounterStep(w, u)
  PROVE  /\ wpc' \in [Workers -> {"idle", "counter", "finished"}]
         /\ pausesTaken' \in [Workers -> 0 .. (IF NOF_PAUSE > 0 THEN NOF_PAUSE ELSE 0)]
         /\ activeToday' \subseteq Workers /\ activeEver' \subseteq Workers
<1>1. /\ wpc \in [Workers -> {"idle", "counter", "finished"}]
      /\ pausesTaken \in [Workers -> 0 .. (IF NOF_PAUSE > 0 THEN NOF_PAUSE ELSE 0)]
      /\ activeToday \subseteq Workers /\ activeEver \subseteq Workers
  BY DEF TypeOK
<1>2. CASE Claim(w)
  BY <1>1, <1>2 DEF Claim
<1>3. CASE LeaveForPause(w) \/ FinishDay(w)
  BY <1>1, <1>3 DEF LeaveForPause, FinishDay
<1>4. CASE \E u \in Users : Serve(w, u)
  BY <1>1, <1>4 DEF Serve, workerVars
<1>5. CASE \E u \in Users : ReplyServed(w, u)
  <2>1. PICK u \in Users : ReplyServed(w, u)
    BY <1>5
  <2>2. wpc' \in [Workers -> {"idle", "counter", "finished"}] /\ UNCHANGED <<activeToday, activeEver>>
    BY <1>1, <2>1 DEF ReplyServed
  <2>3. CASE UNCHANGED pausesTaken
    BY <1>1, <2>2, <2>3
  <2>4. CASE MayPause(w) /\ pausesTaken' = [pausesTaken EXCEPT ![w] = @ + 1]
    BY <1>1, <2>2, <2>4, StatisticsAssumption DEF MayPause
  <2>q. QED  BY <2>1, <2>3, <2>4 DEF ReplyServed
<1>q. QED  BY <1>2, <1>3, <1>4, <1>5 DEF WorkerStep, CounterStep

LEMMA DayTypes ==
  ASSUME TypeOK, DayStep
  PROVE  /\ day' \in 0 .. SIM_DURATION /\ day' >= day
         /\ phase' \in {"morning", "day", "closing", "flush", "print"}
         /\ wpc' \in [Workers -> {"idle", "counter", "finished"}]
         /\ UNCHANGED <<pausesTaken, activeEver>>
         /\ activeToday' \subseteq Workers /\ due' \subseteq Users
<1>1. /\ day \in 0 .. SIM_DURATION /\ SIM_DURATION \in Nat
      /\ phase \in {"morning", "day", "closing", "flush", "print"}
      /\ wpc \in [Workers -> {"idle", "counter", "finished"}]
      /\ activeToday \subseteq Workers /\ due \subseteq Users
  BY StatisticsAssumption DEF TypeOK
<1>2. CASE NextDay
  BY <1>1, <1>2 DEF NextDay, workerVars, userVars
<1>3. CASE OpenDay
  BY <1>1, <1>3 DEF OpenDay
<1>4. CASE CloseDay \/ AllFinished
  BY <1>1, <1>4 DEF CloseDay, AllFinished, workerVars, userVars
<1>5. CASE Flushed \/ PrintReport \/ Printed
  BY <1>1, <1>5 DEF Flushed, PrintReport, Printed, workerVars, userVars
<1>q. QED  BY <1>2, <1>3, <1>4, <1>5 DEF DayStep

LEMMA OtherTypes ==
  ASSUME TypeOK, WorkInv, OtherStep
  PROVE  TypeOK'
<1>1. work' \in [Processes -> {None} \cup Updates]
  BY OtherTurns, Turned DEF TypeOK
<1>2. /\ mutex' \in Processes \cup {None} /\ daily' \in Counts /\ total' \in Counts
      /\ draft' \in {None} \cup Reports /\ reports' \in Seq(Reports)
  BY OtherTurns, DraftTyped DEF TypeOK
<1>3. /\ UNCHANGED reports
      /\ day \in 0 .. SIM_DURATION /\ Len(reports) \in Nat /\ Len(reports) <= day
      /\ SIM_DURATION \in Nat
  BY OtherTurns, StatisticsAssumption DEF TypeOK
<1>4. ASSUME NEW u \in Users, UserStep(u) PROVE TypeOK'
  <2>1. UNCHANGED <<day, phase, wpc, pausesTaken, activeToday, activeEver>>
    BY <1>4, UserTurns DEF workerVars
  <2>2. /\ place' \in [Users -> {"home", "asked", "taken", "refused", "queue", "served"}]
        /\ wants' \in [Users -> Services] /\ due' \subseteq Users
    BY <1>4, UserTypes
  <2>q. QED  BY <1>1, <1>2, <1>3, <2>1, <2>2 DEF TypeOK
<1>5. ASSUME NEW w \in Workers, WorkerStep(w) PROVE TypeOK'
  <2>1. UNCHANGED <<day, phase, due>>
    BY <1>5, WorkerTurns
  <2>2. UNCHANGED <<place, wants>>
    BY <1>5 DEF WorkerStep, Claim, LeaveForPause, FinishDay, userVars
  <2>3. /\ wpc' \in [Workers -> {"idle", "counter", "finished"}]
        /\ pausesTaken' \in [Workers -> 0 .. (IF NOF_PAUSE > 0 THEN NOF_PAUSE ELSE 0)]
        /\ activeToday' \subseteq Workers /\ activeEver' \subseteq Workers
    BY <1>5, WorkerTypes
  <2>q. QED  BY <1>1, <1>2, <1>3, <2>1, <2>2, <2>3 DEF TypeOK
<1>6. ASSUME NEW u \in Users, NEW w \in Workers, CounterStep(w, u) PROVE TypeOK'
  <2>1. UNCHANGED <<day, phase>>
    BY <1>6, WorkerTurns
  <2>2. /\ place' \in [Users -> {"home", "asked", "taken", "refused", "queue", "served"}]
        /\ wants' \in [Users -> Services] /\ due' \subseteq Users
    BY <1>6, UserTypes
  <2>3. /\ wpc' \in [Workers -> {"idle", "counter", "finished"}]
        /\ pausesTaken' \in [Workers -> 0 .. (IF NOF_PAUSE > 0 THEN NOF_PAUSE ELSE 0)]
        /\ activeToday' \subseteq Workers /\ activeEver' \subseteq Workers
    BY <1>6, WorkerTypes
  <2>q. QED  BY <1>1, <1>2, <1>3, <2>1, <2>2, <2>3 DEF TypeOK
<1>7. ASSUME DayStep PROVE TypeOK'
  <2>1. UNCHANGED <<place, wants, pausesTaken, activeEver>>
    BY <1>7, DayTurns, DayTypes
  <2>2. Len(reports') <= day'
    BY <1>3, <1>7, DayTypes
  <2>3. /\ day' \in 0 .. SIM_DURATION
        /\ phase' \in {"morning", "day", "closing", "flush", "print"}
        /\ wpc' \in [Workers -> {"idle", "counter", "finished"}]
        /\ activeToday' \subseteq Workers /\ due' \subseteq Users
    BY <1>7, DayTypes
  <2>q. QED  BY <1>1, <1>2, <2>1, <2>2, <2>3 DEF TypeOK
<1>q. QED  BY <1>4, <1>5, <1>6, <1>7 DEF OtherStep

LEMMA InitWork == Init => TypeOK /\ WorkInv
<1> SUFFICES ASSUME Init PROVE TypeOK /\ WorkInv
  OBVIOUS
<1>1. /\ work \in [Processes -> {None} \cup Updates] /\ \A p \in Processes : work[p] = None
      /\ day = 0 /\ phase = "morning" /\ mutex = None /\ reports = <<>> /\ draft = None
  BY DEF Init
<1>2. Zero \in Counts
  BY DEF Zero, Counts
<1>3. /\ wpc \in [Workers -> {"idle", "counter", "finished"}]
      /\ pausesTaken \in [Workers -> 0 .. (IF NOF_PAUSE > 0 THEN NOF_PAUSE ELSE 0)]
      /\ activeToday = {} /\ activeEver = {} /\ due = {}
      /\ daily \in Counts /\ total \in Counts
  BY <1>2, StatisticsAssumption DEF Init
<1>4. /\ place \in [Users -> {"home", "asked", "taken", "refused", "queue", "served"}]
      /\ wants \in [Users -> Services]
  BY Names DEF Init
<1>5. TypeOK
  <2>1. /\ day \in 0 .. SIM_DURATION /\ reports \in Seq(Reports) /\ Len(reports) <= day
    BY <1>1, StatisticsAssumption
  <2>q. QED  BY <1>1, <1>3, <1>4, <2>1 DEF TypeOK
<1>6. Free /\ Reported /\ Len(reports) = day
  BY <1>1, Names DEF Free, Reported
<1>7. DirectorInv
  BY <1>1, <1>6 DEF DirectorInv
<1>8. DutyInv /\ Exclusive /\ Drafted
  BY <1>1, Names DEF DutyInv, Exclusive, Inside, Drafted, Printing
<1>q. QED  BY <1>5, <1>7, <1>8 DEF WorkInv

LEMMA NextWork == TypeOK /\ WorkInv /\ [Next]_vars => (TypeOK /\ WorkInv)'
<1> SUFFICES ASSUME TypeOK, WorkInv, [Next]_vars PROVE (TypeOK /\ WorkInv)'
  OBVIOUS
<1>1. ASSUME NEW p \in Processes, UpdateStep(p) PROVE (TypeOK /\ WorkInv)'
  BY <1>1, UpdateTypes, UpdateDuty, UpdateDirector, UpdateDrafts DEF WorkInv
<1>2. ASSUME OtherStep PROVE (TypeOK /\ WorkInv)'
  BY <1>2, OtherTypes, OtherDuty, OtherDirector DEF WorkInv
<1>3. ASSUME UNCHANGED vars PROVE (TypeOK /\ WorkInv)'
  <2>1. /\ UNCHANGED <<day, phase, mutex, work, wpc, pausesTaken, activeToday, activeEver>>
        /\ UNCHANGED <<place, wants, due, daily, total, draft, reports>>
    BY <1>3 DEF vars, workerVars, userVars, statsVars
  <2>2. TypeOK'
    BY <2>1 DEF TypeOK
  <2>3. WorkInv'
    BY <2>1 DEF WorkInv, DutyInv, Exclusive, Inside, DirectorInv, Reported, Free, Drafted,
                Printing
  <2>q. QED  BY <2>2, <2>3
<1>q. QED  BY <1>1, <1>2, <1>3, NextSteps

LEMMA WorkGoesOn == Spec => [](TypeOK /\ WorkInv)
  BY InitWork, NextWork, PTL DEF Spec

(* The counters, the processes and the reports stay typed, and there is at *)
(* most one report a day (director.c:751-791).                             *)
THEOREM StatisticsTypeCorrect == Spec => []TypeOK
  BY WorkGoesOn, PTL

-----------------------------------------------------------------------------
(* Sums by service *)

LEMMA SumFamily ==
  ASSUME NEW f \in [Services -> Nat]
  PROVE  /\ Family([s \in Services |-> 1 .. f[s]], Services)
         /\ Sum(f) \in Nat
         /\ \A s \in Services : Cardinality(1 .. f[s]) = f[s]
<1>1. \A n \in Nat : IsFiniteSet(1 .. n) /\ Cardinality(1 .. n) = n
  BY FS_Interval
<1>2. Family([s \in Services |-> 1 .. f[s]], Services)
  BY <1>1 DEF Family
<1>3. \A s \in Services : Cardinality(1 .. f[s]) = f[s]
  BY <1>1
<1>q. QED  BY <1>2, <1>3, PairsFinite, StatisticsAssumption DEF Sum

LEMMA SumZero == Sum([s \in Services |-> 0]) = 0
<1> DEFINE f == [s \in Services |-> 0]
<1>1. f \in [Services -> Nat] /\ \A s \in Services : 1 .. f[s] = {}
  OBVIOUS
<1> HIDE DEF f
<1> DEFINE F == [s \in Services |-> 1 .. f[s]]
<1>2. Family(F, Services) /\ \A s \in Services : F[s] = {}
  BY <1>1, SumFamily
<1>3. Sum(f) = Cardinality(Pairs(F))
  BY DEF Sum
<1> HIDE DEF F
<1>4. Sum(f) = 0
  BY <1>2, <1>3, PairsNone, StatisticsAssumption
<1>q. QED  BY <1>4 DEF f

LEMMA SumStep ==
  ASSUME NEW f \in [Services -> Nat], NEW s \in Services
  PROVE  Sum([f EXCEPT ![s] = @ + 1]) = Sum(f) + 1
<1> DEFINE g == [f EXCEPT ![s] = @ + 1]
<1>1. g \in [Services -> Nat] /\ g[s] = f[s] + 1 /\ \A t \in Services \ {s} : g[t] = f[t]
  OBVIOUS
<1> HIDE DEF g
<1> DEFINE F == [t \in Services |-> 1 .. f[t]]
           G == [t \in Services |-> 1 .. g[t]]
<1>2. Family(F, Services) /\ Family(G, Services)
  BY <1>1, SumFamily
<1>3. Cardinality(F[s]) = f[s] /\ Cardinality(G[s]) = g[s]
  BY <1>1, SumFamily
<1>4. \A t \in Services \ {s} : G[t] = F[t]
  BY <1>1
<1>5. Sum(f) = Cardinality(Pairs(F)) /\ Sum(g) = Cardinality(Pairs(G))
  BY DEF Sum
<1> HIDE DEF F, G
<1>6. Cardinality(Pairs(G)) + Cardinality(F[s]) = Cardinality(Pairs(F)) + Cardinality(G[s])
  BY <1>2, <1>4, PairsStep, StatisticsAssumption
<1>7. Sum(f) \in Nat /\ Sum(g) \in Nat /\ f[s] \in Nat
  BY <1>1, SumFamily
<1>8. Sum(g) = Sum(f) + 1
  BY <1>1, <1>3, <1>5, <1>6, <1>7
<1>q. QED  BY <1>8 DEF g

(* The sums of c are those of its services. *)
Matches(c) == c.served = Sum(c.servedBy) /\ c.notServed = Sum(c.notServedBy)

LEMMA MatchesAdded ==
  ASSUME NEW c \in Counts, Matches(c), NEW op, NEW s \in Services
  PROVE  Matches(AddByService(AddTotals(c, op), op, s))
<1>1. /\ c.servedBy \in [Services -> Nat] /\ c.notServedBy \in [Services -> Nat]
      /\ c.served \in Nat /\ c.notServed \in Nat
  BY DEF Counts
<1>2. CASE op = "served"
  <2> DEFINE d == AddByService(AddTotals(c, op), op, s)
  <2>1. /\ d.served = c.served + 1 /\ d.servedBy = [c.servedBy EXCEPT ![s] = @ + 1]
        /\ d.notServed = c.notServed /\ d.notServedBy = c.notServedBy
    BY <1>1, <1>2 DEF AddByService, AddTotals, Counts
  <2> HIDE DEF d
  <2>2. Sum([c.servedBy EXCEPT ![s] = @ + 1]) = Sum(c.servedBy) + 1
    BY <1>1, SumStep
  <2>3. Matches(d)
    BY <2>1, <2>2 DEF Matches
  <2>q. QED  BY <2>3 DEF d
<1>3. CASE op = "notServed"
  <2> DEFINE d == AddByService(AddTotals(c, op), op, s)
  <2>1. /\ d.notServed = c.notServed + 1
        /\ d.notServedBy = [c.notServedBy EXCEPT ![s] = @ + 1]
        /\ d.served = c.served /\ d.servedBy = c.servedBy
    BY <1>1, <1>3 DEF AddByService, AddTotals, Counts
  <2> HIDE DEF d
  <2>2. Sum([c.notServedBy EXCEPT ![s] = @ + 1]) = Sum(c.notServedBy) + 1
    BY <1>1, SumStep
  <2>3. Matches(d)
    BY <2>1, <2>2 DEF Matches
  <2>q. QED  BY <2>3 DEF d
<1>4. CASE op \notin {"served", "notServed"}
  <2> DEFINE d == AddByService(AddTotals(c, op), op, s)
  <2>1. /\ d.notServed = c.notServed /\ d.notServedBy = c.notServedBy
        /\ d.served = c.served /\ d.servedBy = c.servedBy
    BY <1>1, <1>4 DEF AddByService, AddTotals, Counts
  <2> HIDE DEF d
  <2>2. Matches(d)
    BY <2>1 DEF Matches
  <2>q. QED  BY <2>2 DEF d
<1>q. QED  BY <1>2, <1>3, <1>4

LEMMA MatchesReset ==
  ASSUME NEW c \in Counts
  PROVE  Matches(ResetTotals(ResetByService(c)))
<1> DEFINE d == ResetTotals(ResetByService(c))
           none == [s \in Services |-> 0]
<1>1. d.served = 0 /\ d.notServed = 0 /\ d.servedBy = none /\ d.notServedBy = none
  BY DEF ResetTotals, ResetByService, Zero
<1>2. Sum(none) = 0
  BY SumZero
<1> HIDE DEF d, none
<1>3. Matches(d)
  BY <1>1, <1>2 DEF Matches
<1>q. QED  BY <1>3 DEF d

-----------------------------------------------------------------------------
(* Figures *)

(* What the second half of an update leaves. *)
DailyAfter(p) ==
  IF work[p].op = "reset" THEN ResetTotals(daily)
                          ELSE AddByService(daily, work[p].op, work[p].service)
TotalAfter(p) == AddByService(total, work[p].op, work[p].service)

(* ReportsConsistent is about what was printed.  The counters themselves   *)
(* match when nobody is half-way through an update, and when somebody is,  *)
(* they match once that update is complete.                                *)
FigureInv ==
  /\ \A p \in Processes : At(p, "second") => Matches(DailyAfter(p)) /\ Matches(TotalAfter(p))
  /\ (\A p \in Processes : ~At(p, "second")) => Matches(daily) /\ Matches(total)
  /\ ReportsConsistent

LEMMA AloneInside ==
  ASSUME WorkInv, NEW p \in Processes, At(p, "first") \/ At(p, "second")
  PROVE  \A q \in Processes \ {p} : ~At(q, "second") /\ ~At(q, "first")
  BY DEF WorkInv, Exclusive, Inside, At

LEMMA ReportsGrow ==
  ASSUME TypeOK, ReportsConsistent, reports' = Append(reports, draft),
         Matches(draft.day), Matches(draft.total)
  PROVE  ReportsConsistent'
<1>1. reports \in Seq(Reports)
  BY DEF TypeOK
<1>2. \A i \in DOMAIN reports' : \/ reports'[i] = draft
                                 \/ i \in DOMAIN reports /\ reports'[i] = reports[i]
  BY <1>1
<1>q. QED  BY <1>2 DEF ReportsConsistent, Matches

LEMMA UpdateFigures ==
  ASSUME TypeOK, WorkInv, FigureInv, NEW p \in Processes, UpdateStep(p)
  PROVE  FigureInv'
<1>1. daily \in Counts /\ total \in Counts
  BY DEF TypeOK
<1>2. work[p].service \in Services
  BY UpdateMoves DEF Updates
<1>3. \A q \in Processes \ {p} : At(q, "second")' <=> At(q, "second")
  BY UpdateMoves DEF At
<1>4. CASE Enter(p)
  <2>1. ~At(p, "second") /\ ~At(p, "second")' /\ UNCHANGED <<daily, total, reports>>
    BY <1>4, UpdateMoves DEF Enter, At, statsVars
  <2>2. \A q \in Processes \ {p} : DailyAfter(q)' = DailyAfter(q) /\ TotalAfter(q)' = TotalAfter(q)
    BY <2>1, UpdateMoves DEF DailyAfter, TotalAfter
  <2>q. QED  BY <1>3, <2>1, <2>2 DEF FigureInv, ReportsConsistent, Matches
<1>5. CASE First(p)
  <2>1. At(p, "first") /\ At(p, "second")' /\ reports' = reports
    BY <1>5, UpdateMoves DEF First, At
  <2>2. \A q \in Processes : ~At(q, "second")
    BY <2>1, AloneInside DEF At
  <2>3. Matches(daily) /\ Matches(total)
    BY <2>2 DEF FigureInv
  <2>4. work'[p].op = work[p].op /\ work'[p].service = work[p].service
    BY UpdateMoves
  <2>5. Matches(TotalAfter(p))'
    <3>1. TotalAfter(p)' = AddByService(AddTotals(total, work[p].op), work[p].op, work[p].service)
      BY <1>5, <2>4 DEF First, TotalAfter
    <3>2. Matches(TotalAfter(p)')
      BY <1>1, <1>2, <2>3, <3>1, MatchesAdded
    <3>q. QED  BY <3>2 DEF Matches
  <2>6. Matches(DailyAfter(p))'
    <3>1. CASE work[p].op = "reset"
      <4>1. DailyAfter(p)' = ResetTotals(ResetByService(daily))
        BY <1>5, <2>4, <3>1 DEF First, DailyAfter
      <4>2. Matches(DailyAfter(p)')
        BY <1>1, <4>1, MatchesReset
      <4>q. QED  BY <4>2 DEF Matches
    <3>2. CASE work[p].op # "reset"
      <4>1. DailyAfter(p)' = AddByService(AddTotals(daily, work[p].op), work[p].op, work[p].service)
        BY <1>5, <2>4, <3>2 DEF First, DailyAfter
      <4>2. Matches(DailyAfter(p)')
        BY <1>1, <1>2, <2>3, <4>1, MatchesAdded
      <4>q. QED  BY <4>2 DEF Matches
    <3>q. QED  BY <3>1, <3>2
  <2>7. \A q \in Processes \ {p} : ~At(q, "second")'
    BY <1>3, <2>2
  <2>8. ReportsConsistent'
    BY <2>1 DEF FigureInv, ReportsConsistent
  <2>q. QED  BY <2>1, <2>5, <2>6, <2>7, <2>8 DEF FigureInv
<1>6. CASE Second(p)
  <2>1. At(p, "second") /\ ~At(p, "second")'
    BY <1>6, UpdateMoves DEF Second, At
  <2>2. \A q \in Processes : ~At(q, "second")'
    BY <1>3, <2>1, AloneInside
  <2>3. daily' = DailyAfter(p) /\ total' = TotalAfter(p)
    BY <1>6 DEF Second, DailyAfter, TotalAfter
  <2>4. Matches(DailyAfter(p)) /\ Matches(TotalAfter(p))
    BY <2>1 DEF FigureInv
  <2>5. Matches(daily)' /\ Matches(total)'
    BY <2>3, <2>4 DEF Matches
  <2>6. CASE UNCHANGED reports
    BY <2>2, <2>5, <2>6 DEF FigureInv, ReportsConsistent
  <2>7. CASE ~UNCHANGED reports
    <3>1. Printing /\ p = Director /\ work[p].at = "second" /\ reports' = Append(reports, draft)
      BY <2>7, UpdateCounts
    <3>2. draft.day = daily /\ draft.total = total
      BY <3>1 DEF WorkInv, Drafted
    <3>3. DailyAfter(p) = daily /\ TotalAfter(p) = total
      BY <3>1 DEF DailyAfter, TotalAfter, AddByService, Printing
    <3>4. ReportsConsistent'
      BY <2>4, <3>1, <3>2, <3>3, ReportsGrow DEF FigureInv
    <3>q. QED  BY <2>2, <2>5, <3>4 DEF FigureInv
  <2>q. QED  BY <2>6, <2>7
<1>q. QED  BY <1>4, <1>5, <1>6 DEF UpdateStep

LEMMA OtherFigures ==
  ASSUME TypeOK, FigureInv, OtherStep
  PROVE  FigureInv'
<1>1. UNCHANGED <<daily, total, reports>>
  BY OtherTurns
<1>2. \A p \in Processes : At(p, "second")' => work'[p] = work[p]
  BY OtherTurns, Turned DEF At
<1>3. \A p \in Processes : At(p, "second")' <=> At(p, "second")
  <2>1. CASE UNCHANGED work
    BY <2>1 DEF At
  <2>2. CASE \E p \in Processes : Turn(p)
    <3>1. PICK p \in Processes : Turn(p)
      BY <2>2
    <3>2. ~At(p, "second") /\ ~At(p, "second")'
      BY <3>1, Turned DEF Turn, At
    <3>q. QED  BY <3>1, <3>2, Turned DEF At
  <2>q. QED  BY <2>1, <2>2, OtherTurns
<1>4. \A p \in Processes : At(p, "second")' =>
        DailyAfter(p)' = DailyAfter(p) /\ TotalAfter(p)' = TotalAfter(p)
  BY <1>1, <1>2 DEF DailyAfter, TotalAfter
<1>q. QED  BY <1>1, <1>3, <1>4 DEF FigureInv, ReportsConsistent, Matches

LEMMA InitFigures == Init => FigureInv
<1> SUFFICES ASSUME Init PROVE FigureInv
  OBVIOUS
<1>1. \A p \in Processes : ~At(p, "second")
  BY DEF Init, At
<1>2. Matches(daily) /\ Matches(total)
  BY SumZero DEF Init, Matches, Zero
<1>3. ReportsConsistent
  BY DEF Init, ReportsConsistent
<1>q. QED  BY <1>1, <1>2, <1>3 DEF FigureInv

LEMMA NextFigures == TypeOK /\ WorkInv /\ FigureInv /\ [Next]_vars => FigureInv'
<1> SUFFICES ASSUME TypeOK, WorkInv, FigureInv, [Next]_vars PROVE FigureInv'
  OBVIOUS
<1>1. ASSUME UNCHANGED vars PROVE FigureInv'
  <2>1. UNCHANGED <<work, daily, total, reports>>
    BY <1>1 DEF vars, statsVars
  <2>q. QED  BY <2>1 DEF FigureInv, At, DailyAfter, TotalAfter, ReportsConsistent, Matches
<1>q. QED  BY <1>1, UpdateFigures, OtherFigures, NextSteps

LEMMA FiguresMatch == Spec => []FigureInv
  BY WorkGoesOn, InitFigures, NextFigures, PTL DEF Spec

(* The lines of a report add up to the sums above them, for the day and    *)
(* for the simulation, though operators, dispenser and director count      *)
(* while it is printed (director.c:414-494).                               *)
THEOREM ReportsConsistentHolds == Spec => []ReportsConsistent
<1>1. FigureInv => ReportsConsistent
  BY DEF FigureInv
<1>q. QED  BY <1>1, FiguresMatch, PTL

-----------------------------------------------------------------------------
(* Operators and the day *)

(* An operator counts only at its counter, and it is at one only during a  *)
(* day.                                                                    *)
WorkerInv ==
  /\ \A w \in Workers : work[w] # None => wpc[w] = "counter"
  /\ \A w \in Workers : wpc[w] = "counter" => w \in activeToday
  /\ phase \in {"flush", "print"} => \A w \in Workers : wpc[w] = "finished"
  /\ phase = "morning" => \A w \in Workers : wpc[w] # "counter"
  /\ activeToday \subseteq activeEver

LEMMA UpdateWorkers ==
  ASSUME TypeOK, WorkerInv, NEW p \in Processes, UpdateStep(p)
  PROVE  WorkerInv'
<1>1. UNCHANGED <<phase, wpc, activeToday, activeEver>>
  BY UpdateMoves DEF workerVars
<1>2. \A w \in Workers : work'[w] # None => work[w] # None
  BY UpdateMoves, Names
<1>q. QED  BY <1>1, <1>2 DEF WorkerInv

LEMMA OtherWorkers ==
  ASSUME TypeOK, WorkerInv, OtherStep
  PROVE  WorkerInv'
<1>1. /\ work \in [Processes -> {None} \cup Updates]
      /\ wpc \in [Workers -> {"idle", "counter", "finished"}]
      /\ phase \in {"morning", "day", "closing", "flush", "print"}
  BY DEF TypeOK
<1>2. ASSUME NEW u \in Users, UserStep(u) PROVE WorkerInv'
  <2>1. UNCHANGED <<phase, wpc, activeToday, activeEver>>
    BY <1>2, UserTurns DEF workerVars
  <2>2. \A w \in Workers : work'[w] = work[w]
    BY <1>2, UserTurns, Turned, Names
  <2>q. QED  BY <2>1, <2>2 DEF WorkerInv
<1>3. ASSUME NEW w \in Workers, NEW u \in Users, CounterStep(w, u) PROVE WorkerInv'
  <2>1. UNCHANGED <<phase, activeToday, activeEver>>
    BY <1>3 DEF CounterStep, Serve, ReplyServed, workerVars
  <2>2. \A v \in Workers \ {w} : work'[v] = work[v] /\ wpc'[v] = wpc[v]
    BY <1>1, <1>3, WorkerTurns, Turned, Names DEF CounterStep, Serve, ReplyServed, workerVars
  <2>3. CASE Serve(w, u)
    <3>1. wpc' = wpc /\ wpc[w] = "counter"
      BY <2>3 DEF Serve, workerVars
    <3>q. QED  BY <2>1, <2>2, <3>1 DEF WorkerInv
  <2>4. CASE ReplyServed(w, u)
    <3>1. wpc[w] = "counter"
      BY <2>4 DEF ReplyServed, At, WorkerInv
    <3>2. \/ wpc' = wpc
          \/ /\ work'[w] = None
             /\ wpc'[w] \in {"counter", "finished"}
      BY <1>1, <2>4, Names DEF ReplyServed
    <3>3. phase \in {"day", "closing"}
      BY <1>1, <3>1 DEF WorkerInv
    <3>q. QED  BY <2>1, <2>2, <3>1, <3>2, <3>3 DEF WorkerInv
  <2>q. QED  BY <1>3, <2>3, <2>4 DEF CounterStep
<1>4. ASSUME NEW w \in Workers, WorkerStep(w) PROVE WorkerInv'
  <2>1. phase' = phase /\ \A v \in Workers \ {w} : work'[v] = work[v] /\ wpc'[v] = wpc[v]
    BY <1>1, <1>4, WorkerTurns, Turned, Names DEF WorkerStep, Claim, LeaveForPause, FinishDay
  <2>2. CASE Claim(w)
    <3>1. /\ work' = work /\ wpc'[w] = "counter" /\ phase \in {"day", "closing"}
          /\ activeToday' = activeToday \cup {w} /\ activeEver' = activeEver \cup {w}
      BY <1>1, <2>2 DEF Claim
    <3>q. QED  BY <2>1, <3>1 DEF WorkerInv
  <2>3. CASE LeaveForPause(w) \/ FinishDay(w)
    <3>1. /\ work'[w] = None /\ wpc'[w] = "finished"
          /\ UNCHANGED <<activeToday, activeEver>>
      BY <1>1, <2>3, Names DEF LeaveForPause, FinishDay
    <3>q. QED  BY <2>1, <3>1 DEF WorkerInv
  <2>q. QED  BY <1>4, <2>2, <2>3 DEF WorkerStep
<1>5. ASSUME DayStep PROVE WorkerInv'
  <2>1. \A w \in Workers : work'[w] = work[w]
    BY <1>5, DayTurns, Turned, Names
  <2>2. CASE NextDay \/ Flushed
    <3>1. UNCHANGED <<phase, wpc, activeToday, activeEver>>
      BY <2>2 DEF NextDay, Flushed, workerVars
    <3>q. QED  BY <2>1, <3>1 DEF WorkerInv
  <2>3. CASE OpenDay
    <3>1. /\ phase = "morning" /\ phase' = "day" /\ activeToday' = {}
          /\ wpc' = [w \in Workers |-> "idle"]
      BY <2>3 DEF OpenDay
    <3>2. \A w \in Workers : work[w] = None
      BY <3>1 DEF WorkerInv
    <3>q. QED  BY <2>1, <3>1, <3>2 DEF WorkerInv
  <2>4. CASE CloseDay
    BY <2>1, <2>4 DEF WorkerInv, CloseDay, workerVars
  <2>5. CASE AllFinished
    BY <2>1, <2>5 DEF WorkerInv, AllFinished, workerVars
  <2>6. CASE PrintReport
    BY <2>1, <2>6 DEF WorkerInv, PrintReport, workerVars
  <2>7. CASE Printed
    BY <2>1, <2>7 DEF WorkerInv, Printed, workerVars
  <2>q. QED  BY <1>5, <2>2, <2>3, <2>4, <2>5, <2>6, <2>7 DEF DayStep
<1>q. QED  BY <1>2, <1>3, <1>4, <1>5 DEF OtherStep

LEMMA AtNight ==
  ASSUME TypeOK, WorkerInv, phase \notin {"day", "closing"}
  PROVE  \A w \in Workers : work[w] = None
  BY DEF TypeOK, WorkerInv

(* What an update adds to the sums, when. *)
One(b) == IF b THEN 1 ELSE 0

LEMMA UpdateSums ==
  ASSUME TypeOK, NEW p \in Processes, UpdateStep(p)
  PROVE  \/ /\ work[p].at = "first"
            /\ daily'.served = daily.served + One(work[p].op = "served")
            /\ total'.served = total.served + One(work[p].op = "served")
            /\ daily'.notServed = daily.notServed + One(work[p].op = "notServed")
            /\ total'.notServed = total.notServed + One(work[p].op = "notServed")
            /\ daily'.pauses = daily.pauses + One(work[p].op = "pause")
            /\ total'.pauses = total.pauses + One(work[p].op = "pause")
         \/ /\ work[p].at # "first"
            /\ total'.served = total.served /\ total'.notServed = total.notServed
            /\ total'.pauses = total.pauses
            /\ \/ /\ ~(work[p].at = "second" /\ work[p].op = "reset")
                  /\ daily'.served = daily.served /\ daily'.notServed = daily.notServed
                  /\ daily'.pauses = daily.pauses
               \/ /\ work[p].at = "second" /\ work[p].op = "reset"
                  /\ daily'.served = 0 /\ daily'.notServed = 0 /\ daily'.pauses = 0
<1>1. daily \in Counts /\ total \in Counts
  BY DEF TypeOK
<1>2. ASSUME NEW c \in Counts, NEW op, NEW s
      PROVE  /\ AddTotals(c, op).served = c.served + One(op = "served")
             /\ AddTotals(c, op).notServed = c.notServed + One(op = "notServed")
             /\ AddTotals(c, op).pauses = c.pauses + One(op = "pause")
             /\ AddByService(c, op, s).served = c.served
             /\ AddByService(c, op, s).notServed = c.notServed
             /\ AddByService(c, op, s).pauses = c.pauses
             /\ ResetByService(c).served = c.served
             /\ ResetByService(c).notServed = c.notServed
             /\ ResetByService(c).pauses = c.pauses
             /\ ResetTotals(c).served = 0 /\ ResetTotals(c).notServed = 0
             /\ ResetTotals(c).pauses = 0
  <2>1. c.served \in Nat /\ c.notServed \in Nat /\ c.pauses \in Nat
    BY DEF Counts
  <2>2. /\ AddTotals(c, op).served = c.served + One(op = "served")
        /\ AddTotals(c, op).notServed = c.notServed + One(op = "notServed")
        /\ AddTotals(c, op).pauses = c.pauses + One(op = "pause")
    BY <2>1 DEF AddTotals, One, Counts
  <2>3. /\ AddByService(c, op, s).served = c.served
        /\ AddByService(c, op, s).notServed = c.notServed
        /\ AddByService(c, op, s).pauses = c.pauses
    BY DEF AddByService, Counts
  <2>4. /\ ResetByService(c).served = c.served
        /\ ResetByService(c).notServed = c.notServed
        /\ ResetByService(c).pauses = c.pauses
    BY DEF ResetByService, Zero
  <2>5. /\ ResetTotals(c).served = 0 /\ ResetTotals(c).notServed = 0
        /\ ResetTotals(c).pauses = 0
    BY DEF ResetTotals, Counts
  <2>q. QED  BY <2>2, <2>3, <2>4, <2>5
<1>3. CASE Enter(p)
  BY <1>3 DEF Enter, At, statsVars
<1>4. CASE First(p)
  <2>1. work[p].at = "first" /\ total' = AddTotals(total, work[p].op)
    BY <1>4 DEF First, At
  <2>2. CASE work[p].op = "reset"
    <3>1. daily' = ResetByService(daily)
      BY <1>4, <2>2 DEF First
    <3>2. daily.served \in Nat /\ daily.notServed \in Nat /\ daily.pauses \in Nat
      BY <1>1 DEF Counts
    <3>q. QED  BY <1>1, <1>2, <2>1, <2>2, <3>1, <3>2 DEF One
  <2>3. CASE work[p].op # "reset"
    <3>1. daily' = AddTotals(daily, work[p].op)
      BY <1>4, <2>3 DEF First
    <3>q. QED  BY <1>1, <1>2, <2>1, <3>1
  <2>q. QED  BY <2>2, <2>3
<1>5. CASE Second(p)
  <2>1. /\ work[p].at = "second"
        /\ total' = AddByService(total, work[p].op, work[p].service)
        /\ daily' = IF work[p].op = "reset" THEN ResetTotals(daily)
                      ELSE AddByService(daily, work[p].op, work[p].service)
    BY <1>5 DEF Second, At
  <2>q. QED  BY <1>1, <1>2, <2>1
<1>q. QED  BY <1>3, <1>4, <1>5 DEF UpdateStep

-----------------------------------------------------------------------------
(* Pauses *)

(* The operators whose day is over, or whose pause is already counted.     *)
Gone ==
  {w \in activeToday : \/ wpc[w] = "finished"
                       \/ /\ work[w] # None
                          /\ work[w].op = "pause" /\ work[w].at \in {"second", "done"}}

(* reset_day_statistics is through. *)
Fresh == phase = "morning" /\ At(Director, "done")

PauseInv ==
  /\ daily.pauses <= Cardinality(Gone)
  /\ daily.served > 0 => activeToday # {}
  /\ Fresh => daily.pauses = 0 /\ daily.served = 0
  /\ PausesPerActiveOperator

LEMMA GoneFinite ==
  ASSUME TypeOK
  PROVE  IsFiniteSet(Gone) /\ Cardinality(Gone) \in Nat
<1>1. Gone \in SUBSET Workers
  BY DEF Gone, TypeOK
<1>q. QED  BY <1>1, StatisticsAssumption, FS_Subset, FS_CardinalityType

LEMMA GoneStays ==
  ASSUME TypeOK, TypeOK', Gone \subseteq Gone'
  PROVE  Cardinality(Gone) <= Cardinality(Gone')
<1>1. Gone' \in SUBSET Workers
  BY DEF Gone, TypeOK
<1>2. IsFiniteSet(Gone')
  BY <1>1, StatisticsAssumption, FS_Subset
<1>q. QED  BY <1>2, FS_Subset

LEMMA UpdatePauses ==
  ASSUME TypeOK, TypeOK', WorkInv, WorkerInv, PauseInv, NEW p \in Processes, UpdateStep(p)
  PROVE  PauseInv'
<1>1. /\ daily.served \in Nat /\ daily.pauses \in Nat
      /\ activeToday \subseteq Workers
  BY DEF TypeOK, Counts
<1>2. UNCHANGED <<phase, wpc, activeToday, activeEver>>
  BY UpdateMoves DEF workerVars
<1>3. /\ work[p].op \in Duty(p) /\ work[p] # None
      /\ work'[p] # None /\ work'[p].op = work[p].op
  BY UpdateMoves DEF WorkInv, DutyInv
<1>4. p \in Workers => wpc[p] = "counter" /\ p \in activeToday
  BY <1>3 DEF WorkerInv
<1>5. daily'.pauses <= Cardinality(Gone')
  <2>1. CASE work[p].at = "first" /\ work[p].op = "pause"
    <3>1. p \in Workers
      BY <1>3, <2>1 DEF Duty, Processes
    <3>2. work'[p].at = "second"
      BY <2>1, UpdateMoves
    <3>3. Gone' = Gone \cup {p} /\ p \notin Gone
      BY <1>1, <1>2, <1>3, <1>4, <2>1, <3>1, <3>2, UpdateMoves, Names DEF Gone
    <3>4. Cardinality(Gone') = Cardinality(Gone) + 1
      BY <3>3, GoneFinite, FS_AddElement
    <3>5. daily'.pauses = daily.pauses + 1
      BY <2>1, UpdateSums DEF One
    <3>q. QED  BY <1>1, <3>4, <3>5, GoneFinite DEF PauseInv
  <2>2. CASE ~(work[p].at = "first" /\ work[p].op = "pause")
    <3>1. daily'.pauses \in {daily.pauses, 0}
      BY <1>1, <2>2, UpdateSums DEF One
    <3>2. \A w \in activeToday : w \in Gone => w \in Gone'
      BY <1>1, <1>2, <2>2, UpdateMoves, Names DEF Gone
    <3>3. Cardinality(Gone) <= Cardinality(Gone') /\ Cardinality(Gone) \in Nat
      BY <3>2, GoneStays, GoneFinite DEF Gone
    <3>4. Cardinality(Gone') \in Nat
      <4>1. Gone' \in SUBSET Workers
        BY DEF Gone, TypeOK
      <4>q. QED  BY <4>1, StatisticsAssumption, FS_Subset, FS_CardinalityType
    <3>q. QED  BY <1>1, <3>1, <3>3, <3>4 DEF PauseInv
  <2>q. QED  BY <2>1, <2>2
<1>6. daily'.served > 0 => activeToday' # {}
  <2>1. CASE work[p].at = "first" /\ work[p].op = "served"
    <3>1. p \in Workers
      BY <1>3, <2>1 DEF Duty, Processes
    <3>q. QED  BY <1>2, <1>4, <3>1
  <2>2. CASE ~(work[p].at = "first" /\ work[p].op = "served")
    <3>1. daily'.served \in {daily.served, 0}
      BY <1>1, <2>2, UpdateSums DEF One
    <3>q. QED  BY <1>1, <1>2, <3>1 DEF PauseInv
  <2>q. QED  BY <2>1, <2>2
<1>7. Fresh' => daily'.pauses = 0 /\ daily'.served = 0
  <2>1. CASE p = Director
    <3>1. Fresh' => work[p].at = "second" /\ work[p].op = "reset"
      BY <1>2, <2>1, UpdateMoves DEF Fresh, At, WorkInv, DirectorInv, Free
    <3>q. QED  BY <3>1, UpdateSums
  <2>2. CASE p # Director
    <3>1. Fresh' => Fresh
      BY <1>2, <2>2, UpdateMoves, Names DEF Fresh, At
    <3>2. Fresh => p \notin Workers
      BY <1>3, AtNight DEF Fresh
    <3>3. Fresh => daily'.pauses = daily.pauses /\ daily'.served = daily.served
      BY <1>1, <1>3, <2>2, <3>2, UpdateSums DEF Duty, Processes, One
    <3>q. QED  BY <3>1, <3>3 DEF PauseInv
  <2>q. QED  BY <2>1, <2>2
<1>8. PausesPerActiveOperator'
  <2>1. CASE UNCHANGED reports
    BY <2>1 DEF PauseInv, PausesPerActiveOperator
  <2>2. CASE ~UNCHANGED reports
    <3>1. Printing /\ p = Director /\ work[p].at = "second" /\ reports' = Append(reports, draft)
      BY <2>2, UpdateCounts
    <3>2. draft.day = daily /\ draft.active = activeToday /\ draft.ever = activeEver
      BY <3>1 DEF WorkInv, Drafted
    <3>3. Cardinality(Gone) <= Cardinality(activeToday)
      BY <1>1, StatisticsAssumption, FS_Subset DEF Gone
    <3>4. Cardinality(activeToday) \in Nat
      BY <1>1, StatisticsAssumption, FS_Subset, FS_CardinalityType
    <3>5. /\ draft.day.pauses <= Cardinality(draft.active)
          /\ draft.day.served > 0 => draft.active # {}
          /\ draft.active \subseteq draft.ever
      BY <1>1, <3>2, <3>3, <3>4, GoneFinite DEF PauseInv, WorkerInv
    <3>6. \A i \in DOMAIN reports' : \/ reports'[i] = draft
                                     \/ i \in DOMAIN reports /\ reports'[i] = reports[i]
      BY <3>1 DEF TypeOK
    <3>q. QED  BY <3>5, <3>6 DEF PauseInv, PausesPerActiveOperator
  <2>q. QED  BY <2>1, <2>2
<1>q. QED  BY <1>5, <1>6, <1>7, <1>8 DEF PauseInv

(* Nobody comes back during the day. *)
LEMMA OtherGone ==
  ASSUME TypeOK, WorkInv, WorkerInv, OtherStep, ~OpenDay
  PROVE  Gone \subseteq Gone' /\ activeToday \subseteq activeToday'
<1>1. /\ work \in [Processes -> {None} \cup Updates]
      /\ wpc \in [Workers -> {"idle", "counter", "finished"}]
      /\ activeToday \subseteq Workers
  BY DEF TypeOK
<1>2. ASSUME NEW u \in Users, UserStep(u)
      PROVE  Gone \subseteq Gone' /\ activeToday \subseteq activeToday'
  <2>1. UNCHANGED <<wpc, activeToday>>
    BY <1>2, UserTurns DEF workerVars
  <2>2. \A w \in Workers : work'[w] = work[w]
    BY <1>2, UserTurns, Turned, Names
  <2>q. QED  BY <1>1, <2>1, <2>2 DEF Gone
<1>3. ASSUME NEW w \in Workers, NEW u \in Users, CounterStep(w, u)
      PROVE  Gone \subseteq Gone' /\ activeToday \subseteq activeToday'
  <2>1. activeToday' = activeToday
    BY <1>3 DEF CounterStep, Serve, ReplyServed, workerVars
  <2>2. \A v \in Workers \ {w} : work'[v] = work[v] /\ wpc'[v] = wpc[v]
    BY <1>1, <1>3, WorkerTurns, Turned, Names DEF CounterStep, Serve, ReplyServed, workerVars
  <2>3. w \notin Gone
    BY <1>3 DEF CounterStep, Serve, ReplyServed, At, Gone, WorkerInv
  <2>q. QED  BY <1>1, <2>1, <2>2, <2>3 DEF Gone
<1>4. ASSUME NEW w \in Workers, WorkerStep(w)
      PROVE  Gone \subseteq Gone' /\ activeToday \subseteq activeToday'
  <2>1. \A v \in Workers \ {w} : work'[v] = work[v] /\ wpc'[v] = wpc[v]
    BY <1>1, <1>4, WorkerTurns, Turned, Names DEF WorkerStep, Claim, LeaveForPause, FinishDay
  <2>2. CASE Claim(w)
    <3>1. wpc[w] = "idle" /\ work[w] = None /\ activeToday' = activeToday \cup {w}
      BY <2>2 DEF Claim, WorkerInv
    <3>2. w \notin Gone
      BY <3>1 DEF Gone
    <3>q. QED  BY <1>1, <2>1, <3>1, <3>2 DEF Gone
  <2>3. CASE LeaveForPause(w) \/ FinishDay(w)
    <3>1. wpc'[w] = "finished" /\ activeToday' = activeToday
      BY <1>1, <2>3 DEF LeaveForPause, FinishDay
    <3>q. QED  BY <1>1, <2>1, <3>1 DEF Gone
  <2>q. QED  BY <1>4, <2>2, <2>3 DEF WorkerStep
<1>5. ASSUME DayStep
      PROVE  Gone \subseteq Gone' /\ activeToday \subseteq activeToday'
  <2>1. UNCHANGED <<wpc, activeToday>>
    BY <1>5 DEF DayStep, NextDay, CloseDay, AllFinished, Flushed, PrintReport, Printed, workerVars
  <2>2. \A w \in Workers : work'[w] = work[w]
    BY <1>5, DayTurns, Turned, Names
  <2>q. QED  BY <1>1, <2>1, <2>2 DEF Gone
<1>q. QED  BY <1>2, <1>3, <1>4, <1>5 DEF OtherStep

LEMMA OtherPauses ==
  ASSUME TypeOK, TypeOK', WorkInv, WorkerInv, PauseInv, OtherStep
  PROVE  PauseInv'
<1>1. UNCHANGED <<daily, reports>> /\ daily.served \in Nat /\ daily.pauses \in Nat
  BY OtherTurns DEF TypeOK, Counts
<1>2. /\ Cardinality(Gone) \in Nat /\ Cardinality(Gone') \in Nat
  <2>1. Gone' \in SUBSET Workers
    BY DEF Gone, TypeOK
  <2>q. QED  BY <2>1, GoneFinite, StatisticsAssumption, FS_Subset, FS_CardinalityType
<1>3. PausesPerActiveOperator'
  BY <1>1 DEF PauseInv, PausesPerActiveOperator
<1>4. CASE OpenDay
  <2>1. Fresh /\ phase' = "day"
    BY <1>4 DEF OpenDay, Did, Fresh
  <2>q. QED  BY <1>1, <1>2, <1>3, <2>1 DEF PauseInv, Fresh
<1>5. CASE ~OpenDay
  <2>1. Cardinality(Gone) <= Cardinality(Gone') /\ activeToday \subseteq activeToday'
    BY <1>5, OtherGone, GoneStays
  <2>2. Fresh' => Fresh
    <3>1. ASSUME Fresh' PROVE work'[Director] = work[Director]
      BY <3>1, OtherTurns, Turned, Names DEF Fresh, At
    <3>2. ASSUME Fresh' PROVE phase = "morning"
      <4>1. CASE DayStep
        <5>1. ~Printed
          BY <3>2, Names DEF Printed, Fresh, At, TypeOK
        <5>q. QED  BY <3>2, <4>1, <5>1, <1>5 DEF DayStep, NextDay, CloseDay, AllFinished,
                      Flushed, PrintReport, Fresh
      <4>2. CASE ~DayStep
        BY <3>2, <4>2, UserTurns, WorkerTurns DEF OtherStep, Fresh
      <4>q. QED  BY <4>1, <4>2
    <3>q. QED  BY <3>1, <3>2 DEF Fresh, At
  <2>q. QED  BY <1>1, <1>2, <1>3, <2>1, <2>2 DEF PauseInv
<1>q. QED  BY <1>4, <1>5

LEMMA InitPauses == Init => WorkerInv /\ PauseInv
<1> SUFFICES ASSUME Init PROVE WorkerInv /\ PauseInv
  OBVIOUS
<1>1. /\ \A w \in Workers : work[w] = None /\ wpc[w] = "idle"
      /\ phase = "morning" /\ activeToday = {} /\ activeEver = {} /\ reports = <<>>
      /\ daily.pauses = 0 /\ daily.served = 0 /\ ~At(Director, "done")
  BY Names DEF Init, At, Zero
<1>2. WorkerInv
  BY <1>1 DEF WorkerInv
<1>3. Gone = {}
  BY <1>1 DEF Gone
<1>4. Cardinality(Gone) = 0
  BY <1>3, FS_EmptySet
<1>5. PauseInv
  BY <1>1, <1>4 DEF PauseInv, Fresh, PausesPerActiveOperator
<1>q. QED  BY <1>2, <1>5

LEMMA NextPauses ==
  TypeOK /\ TypeOK' /\ WorkInv /\ WorkerInv /\ PauseInv /\ [Next]_vars => (WorkerInv /\ PauseInv)'
<1> SUFFICES ASSUME TypeOK, TypeOK', WorkInv, WorkerInv, PauseInv, [Next]_vars
             PROVE  (WorkerInv /\ PauseInv)'
  OBVIOUS
<1>1. ASSUME UNCHANGED vars PROVE (WorkerInv /\ PauseInv)'
  <2>1. UNCHANGED <<phase, work, wpc, activeToday, activeEver, daily, reports>>
    BY <1>1 DEF vars, workerVars, statsVars
  <2>2. Gone' = Gone
    BY <2>1 DEF Gone
  <2>q. QED  BY <2>1, <2>2 DEF WorkerInv, PauseInv, Fresh, At, PausesPerActiveOperator
<1>q. QED  BY <1>1, UpdateWorkers, OtherWorkers, UpdatePauses, OtherPauses, NextSteps

LEMMA PausesGoOn == Spec => [](WorkerInv /\ PauseInv)
  BY WorkGoesOn, InitPauses, NextPauses, PTL DEF Spec

(* In every report there are no more pauses than active operators, nobody  *)
(* was served without one, and the operators of the day are among those of *)
(* the simulation: the averages printed from them are at most 1            *)
(* (director.c:436-445, 474-477).                                          *)
THEOREM PausesPerActiveOperatorHolds == Spec => []PausesPerActiveOperator
<1>1. PauseInv => PausesPerActiveOperator
  BY DEF PauseInv
<1>q. QED  BY <1>1, PausesGoOn, PTL

-----------------------------------------------------------------------------
(* Sums over the days *)

SumFields == {"served", "notServed", "pauses"}

LEMMA FieldNatural ==
  ASSUME NEW c \in Counts, NEW field \in SumFields
  PROVE  c[field] \in Nat
<1>1. c.served \in Nat /\ c.notServed \in Nat /\ c.pauses \in Nat
  BY DEF Counts
<1>q. QED  BY <1>1 DEF SumFields

DaysSum(r, n, field) == Cardinality(Pairs([i \in 1 .. n |-> 1 .. r[i].day[field]]))

LEMMA DaysFamily ==
  ASSUME NEW r \in Seq(Reports), NEW n \in Nat, n <= Len(r), NEW field \in SumFields
  PROVE  /\ \A i \in 1 .. n : r[i].day[field] \in Nat
         /\ Family([i \in 1 .. n |-> 1 .. r[i].day[field]], 1 .. n)
         /\ DaysSum(r, n, field) \in Nat
         /\ IsFiniteSet(1 .. n)
<1>1. \A k \in Nat : IsFiniteSet(1 .. k)
  BY FS_Interval
<1>2. \A i \in 1 .. n : r[i] \in Reports
  OBVIOUS
<1>3. \A i \in 1 .. n : r[i].day \in Counts
  BY <1>2 DEF Reports
<1>4. \A i \in 1 .. n : r[i].day[field] \in Nat
  BY <1>3, FieldNatural
<1>5. Family([i \in 1 .. n |-> 1 .. r[i].day[field]], 1 .. n)
  BY <1>1, <1>4 DEF Family
<1>q. QED  BY <1>1, <1>4, <1>5, PairsFinite DEF DaysSum

LEMMA DaysNone ==
  ASSUME NEW r \in Seq(Reports), NEW field \in SumFields
  PROVE  DaysSum(r, 0, field) = 0
<1> DEFINE F == [i \in 1 .. 0 |-> 1 .. r[i].day[field]]
<1>1. Pairs(F) = {}
  BY DEF Pairs
<1>q. QED  BY <1>1, FS_EmptySet DEF DaysSum

(* A new report leaves the sums of the earlier ones, and adds its own.     *)
LEMMA DaysStep ==
  ASSUME NEW r \in Seq(Reports), NEW d \in Reports, NEW field \in SumFields
  PROVE  /\ \A n \in 0 .. Len(r) : DaysSum(Append(r, d), n, field) = DaysSum(r, n, field)
         /\ DaysSum(Append(r, d), Len(r) + 1, field) = DaysSum(r, Len(r), field) + d.day[field]
<1> DEFINE q == Append(r, d)
           n == Len(r)
<1>1. /\ q \in Seq(Reports) /\ Len(q) = n + 1 /\ n \in Nat /\ q[n + 1] = d
      /\ \A i \in 1 .. n : q[i] = r[i]
  OBVIOUS
<1>2. d.day[field] \in Nat
  BY FieldNatural DEF Reports
<1> HIDE DEF q, n
<1>3. \A m \in 0 .. n : DaysSum(q, m, field) = DaysSum(r, m, field)
  <2> TAKE m \in 0 .. n
  <2>1. [i \in 1 .. m |-> 1 .. q[i].day[field]] = [i \in 1 .. m |-> 1 .. r[i].day[field]]
    BY <1>1
  <2>q. QED  BY <2>1 DEF DaysSum
<1> DEFINE D == 1 .. (n + 1)
           f == [i \in D |-> IF i = n + 1 THEN {} ELSE 1 .. r[i].day[field]]
           g == [i \in D |-> 1 .. q[i].day[field]]
           h == [i \in 1 .. n |-> 1 .. r[i].day[field]]
<1>4. Family(g, D) /\ IsFiniteSet(D) /\ DaysSum(q, n + 1, field) = Cardinality(Pairs(g))
      /\ DaysSum(q, n + 1, field) \in Nat
  BY <1>1, DaysFamily DEF DaysSum
<1>5. Family(h, 1 .. n) /\ DaysSum(r, n, field) = Cardinality(Pairs(h)) /\ DaysSum(r, n, field) \in Nat
  BY <1>1, DaysFamily DEF DaysSum, n
<1>6. D = (1 .. n) \cup {n + 1} /\ n + 1 \notin 1 .. n
  BY <1>1
<1>7. /\ f[n + 1] = {} /\ \A i \in 1 .. n : f[i] = h[i]
      /\ g[n + 1] = 1 .. d.day[field] /\ \A i \in 1 .. n : g[i] = h[i]
      /\ DOMAIN f = D /\ DOMAIN g = D /\ DOMAIN h = 1 .. n
  BY <1>1, <1>6
<1>8. Cardinality(g[n + 1]) = d.day[field]
  <2>1. \A k \in Nat : Cardinality(1 .. k) = k
    BY FS_Interval
  <2>q. QED  BY <1>2, <1>7, <2>1
<1> HIDE DEF D, f, g, h
<1>9. Family(f, D)
  BY <1>5, <1>6, <1>7, FS_EmptySet DEF Family
<1>10. Pairs(f) = Pairs(h)
  BY <1>6, <1>7 DEF Pairs
<1>11. \A i \in D \ {n + 1} : g[i] = f[i]
  BY <1>6, <1>7
<1>12. Cardinality(Pairs(g)) + Cardinality(f[n + 1]) = Cardinality(Pairs(f)) + Cardinality(g[n + 1])
  BY <1>4, <1>6, <1>9, <1>11, PairsStep
<1>13. Cardinality(f[n + 1]) = 0
  BY <1>7, FS_EmptySet
<1>14. DaysSum(q, n + 1, field) = DaysSum(r, n, field) + d.day[field]
  BY <1>2, <1>4, <1>5, <1>8, <1>10, <1>12, <1>13
<1>q. QED  BY <1>3, <1>14 DEF q, n

-----------------------------------------------------------------------------
(* Refusals: the dispenser has at most one request in hand *)

InHand(u) == place[u] \in {"taken", "refused"}
Handling(op) == work[Dispenser] # None /\ work[Dispenser].op = op

DispenserInv ==
  /\ \A u \in Users : place[u] = "taken" => Handling("request")
  /\ \A u \in Users : place[u] = "refused" => Handling("notServed")
  /\ \A u, v \in Users : InHand(u) /\ InHand(v) => u = v
  /\ Handling("notServed") => \E u \in Users : place[u] = "refused"

(* Users whose request may still be counted as refused. *)
Pending ==
  {u \in Users : \/ place[u] \in {"asked", "taken"}
                 \/ place[u] = "refused" /\ work[Dispenser].at \in {"lock", "first"}}

LEMMA UpdateRefusals ==
  ASSUME TypeOK, DispenserInv, NEW p \in Processes, UpdateStep(p)
  PROVE  /\ DispenserInv' /\ due' = due
         /\ \/ /\ p = Dispenser /\ work[p].at = "first" /\ work[p].op = "notServed"
               /\ \E u \in Pending : Pending' = Pending \ {u}
            \/ /\ ~(p = Dispenser /\ work[p].at = "first" /\ work[p].op = "notServed")
               /\ Pending' = Pending
<1>1. place' = place /\ due' = due
  BY UpdateMoves DEF userVars
<1>2. \A op : Handling(op)' <=> Handling(op)
  BY UpdateMoves, Names DEF Handling
<1>3. DispenserInv'
  BY <1>1, <1>2 DEF DispenserInv, InHand
<1>4. CASE p = Dispenser /\ work[p].at = "first" /\ work[p].op = "notServed"
  <2>1. Handling("notServed")
    BY <1>4, UpdateMoves DEF Handling
  <2>2. PICK u \in Users : place[u] = "refused"
    BY <2>1 DEF DispenserInv
  <2>3. work'[Dispenser].at = "second"
    BY <1>4, UpdateMoves
  <2>4. u \in Pending /\ \A v \in Users : place[v] = "refused" => v = u
    BY <1>4, <2>2 DEF Pending, DispenserInv, InHand
  <2>5. Pending' = Pending \ {u}
    BY <1>1, <1>4, <2>2, <2>3, <2>4 DEF Pending
  <2>q. QED  BY <1>1, <1>3, <1>4, <2>4, <2>5
<1>5. CASE ~(p = Dispenser /\ work[p].at = "first" /\ work[p].op = "notServed")
  <2>1. CASE p = Dispenser /\ work[p].op = "notServed"
    <3>1. work[Dispenser].at \in {"lock", "first"} <=> work'[Dispenser].at \in {"lock", "first"}
      BY <1>5, <2>1, UpdateMoves
    <3>q. QED  BY <1>1, <1>3, <1>5, <3>1 DEF Pending
  <2>2. CASE p = Dispenser /\ work[p].op # "notServed"
    <3>1. \A u \in Users : place[u] # "refused"
      BY <2>2 DEF DispenserInv, Handling
    <3>q. QED  BY <1>1, <1>3, <1>5, <3>1 DEF Pending
  <2>3. CASE p # Dispenser
    <3>1. work'[Dispenser] = work[Dispenser]
      BY <2>3, UpdateMoves, Names
    <3>q. QED  BY <1>1, <1>3, <1>5, <3>1 DEF Pending
  <2>q. QED  BY <2>1, <2>2, <2>3
<1>q. QED  BY <1>4, <1>5

(* A user asks: no longer due, but pending.  Any other step lets the       *)
(* pending ones be, or answers one.                                        *)
UserAsks(u) == u \in due \ Pending /\ due' = due \ {u} /\ Pending' = Pending \cup {u}

LEMMA UserRefusals ==
  ASSUME TypeOK, DispenserInv, NEW u \in Users,
         UserStep(u) \/ \E w \in Workers : CounterStep(w, u)
  PROVE  /\ DispenserInv'
         /\ UserAsks(u) \/ (due' = due /\ Pending' \subseteq Pending)
<1>1. /\ work \in [Processes -> {None} \cup Updates]
      /\ place \in [Users -> {"home", "asked", "taken", "refused", "queue", "served"}]
      /\ wants[u] \in Services
  BY DEF TypeOK
<1>2. ASSUME NEW new, place' = [place EXCEPT ![u] = new]
      PROVE  place'[u] = new /\ \A v \in Users \ {u} : place'[v] = place[v]
  BY <1>1, <1>2
<1>3. CASE Ask(u)
  <2>1. /\ place[u] = "home" /\ place'[u] = "asked" /\ u \in due /\ due' = due \ {u}
        /\ work' = work
        /\ \A v \in Users \ {u} : place'[v] = place[v]
    BY <1>2, <1>3 DEF Ask
  <2>2. DispenserInv'
    BY <2>1 DEF DispenserInv, InHand, Handling
  <2>3. UserAsks(u)
    BY <2>1 DEF UserAsks, Pending
  <2>q. QED  BY <2>2, <2>3
<1>4. CASE Take(u)
  <2>1. /\ place[u] = "asked" /\ place'[u] = "taken" /\ due' = due
        /\ work[Dispenser] = None /\ Handling("request")'
        /\ \A v \in Users \ {u} : place'[v] = place[v]
    <3>1. /\ work'[Dispenser] = [op |-> "request", service |-> wants[u], at |-> "lock"]
          /\ work'[Dispenser] \in Updates
      BY <1>1, <1>4, Names DEF Take, Start, Updates, Ops
    <3>2. work'[Dispenser] # None /\ work'[Dispenser].op = "request"
      BY <3>1, Names
    <3>3. Handling("request")'
      BY <3>2 DEF Handling
    <3>q. QED  BY <1>2, <1>4, <3>3 DEF Take
  <2>2. \A v \in Users : ~InHand(v)
    BY <2>1 DEF DispenserInv, InHand, Handling
  <2>3. ~Handling("notServed")'
    BY <2>1 DEF Handling
  <2>4. \A v \in Users : InHand(v)' => v = u
    BY <2>1, <2>2 DEF InHand
  <2>5. \A v \in Users : place'[v] # "refused"
    BY <2>1, <2>2 DEF InHand
  <2>6. DispenserInv'
    BY <2>1, <2>3, <2>4, <2>5 DEF DispenserInv
  <2>7. Pending' \subseteq Pending
    BY <2>1, <2>5 DEF Pending
  <2>q. QED  BY <2>1, <2>6, <2>7
<1>5. CASE Accept(u)
  <2>1. /\ place[u] = "taken" /\ place'[u] = "queue" /\ due' = due /\ work'[Dispenser] = None
        /\ \A v \in Users \ {u} : place'[v] = place[v]
    BY <1>1, <1>2, <1>5, Names DEF Accept
  <2>2. \A v \in Users \ {u} : ~InHand(v)
    BY <2>1 DEF DispenserInv, InHand
  <2>3. \A v \in Users : place'[v] \notin {"taken", "refused"}
    BY <2>1, <2>2 DEF InHand
  <2>4. DispenserInv'
    BY <2>1, <2>3 DEF DispenserInv, InHand, Handling
  <2>5. Pending' \subseteq Pending
    BY <2>1, <2>3 DEF Pending
  <2>q. QED  BY <2>1, <2>4, <2>5
<1>6. CASE Refuse(u)
  <2>1. /\ place[u] = "taken" /\ place'[u] = "refused" /\ due' = due
        /\ Handling("notServed")'
        /\ \A v \in Users \ {u} : place'[v] = place[v]
    <3>1. /\ work'[Dispenser] = [op |-> "notServed", service |-> wants[u], at |-> "lock"]
          /\ work'[Dispenser] \in Updates
      BY <1>1, <1>6, Names DEF Refuse, Start, Updates, Ops
    <3>2. work'[Dispenser] # None /\ work'[Dispenser].op = "notServed"
      BY <3>1, Names
    <3>3. Handling("notServed")'
      BY <3>2 DEF Handling
    <3>q. QED  BY <1>2, <1>6, <3>3 DEF Refuse
  <2>2. \A v \in Users \ {u} : ~InHand(v)
    BY <2>1 DEF DispenserInv, InHand
  <2>3. \A v \in Users \ {u} : place'[v] \notin {"taken", "refused"}
    BY <2>1, <2>2 DEF InHand
  <2>4. DispenserInv'
    BY <2>1, <2>3 DEF DispenserInv, InHand
  <2>5. Pending' \subseteq Pending
    BY <2>1, <2>3 DEF Pending
  <2>q. QED  BY <2>1, <2>4, <2>5
<1>7. CASE ReplyRefusal(u)
  <2>1. /\ place[u] = "refused" /\ place'[u] = "home" /\ due' = due /\ work'[Dispenser] = None
        /\ \A v \in Users \ {u} : place'[v] = place[v]
    BY <1>1, <1>2, <1>7, Names DEF ReplyRefusal, GoHome
  <2>2. \A v \in Users \ {u} : ~InHand(v)
    BY <2>1 DEF DispenserInv, InHand
  <2>3. \A v \in Users : place'[v] \notin {"taken", "refused"}
    BY <2>1, <2>2 DEF InHand
  <2>4. DispenserInv'
    BY <2>1, <2>3 DEF DispenserInv, InHand, Handling
  <2>5. Pending' \subseteq Pending
    BY <2>1, <2>3 DEF Pending
  <2>q. QED  BY <2>1, <2>4, <2>5
<1>8. CASE FlushUser(u) \/ \E w \in Workers : CounterStep(w, u)
  <2>1. /\ place[u] \in {"queue", "served"} /\ place'[u] \in {"home", "served"}
        /\ \A v \in Users \ {u} : place'[v] = place[v]
        /\ due' = due
    BY <1>2, <1>8 DEF FlushUser, CounterStep, Serve, ReplyServed, GoHome
  <2>2. work'[Dispenser] = work[Dispenser]
    <3>1. CASE FlushUser(u)
      BY <1>1, <3>1, Names DEF FlushUser, Start
    <3>2. CASE \E w \in Workers : CounterStep(w, u)
      BY <3>2, WorkerTurns, Turned, Names
    <3>q. QED  BY <1>8, <3>1, <3>2
  <2>3. \A op : Handling(op)' <=> Handling(op)
    BY <2>2 DEF Handling
  <2>4. \A v \in Users : place'[v] = "refused" <=> place[v] = "refused"
    BY <2>1
  <2>5. \A v \in Users : place'[v] = "taken" <=> place[v] = "taken"
    BY <2>1
  <2>6. DispenserInv'
    BY <2>3, <2>4, <2>5 DEF DispenserInv, InHand
  <2>7. Pending' \subseteq Pending
    BY <2>1, <2>2 DEF Pending
  <2>q. QED  BY <2>1, <2>6, <2>7
<1>q. QED  BY <1>3, <1>4, <1>5, <1>6, <1>7, <1>8 DEF UserStep

LEMMA OtherRefusals ==
  ASSUME TypeOK, DispenserInv, \/ DayStep
                               \/ \E w \in Workers : WorkerStep(w)
  PROVE  /\ DispenserInv' /\ Pending' = Pending
         /\ OpenDay \/ due' = due
<1>1. place' = place
  BY DayTurns DEF WorkerStep, Claim, LeaveForPause, FinishDay, userVars
<1>2. work'[Dispenser] = work[Dispenser]
  <2>1. CASE DayStep
    BY <2>1, DayTurns, Turned, Names
  <2>2. CASE \E w \in Workers : WorkerStep(w)
    BY <2>2, WorkerTurns, Turned, Names
  <2>q. QED  BY <2>1, <2>2
<1>3. OpenDay \/ due' = due
  BY WorkerTurns DEF DayStep, NextDay, CloseDay, AllFinished, Flushed, PrintReport, Printed, userVars
<1>4. DispenserInv'
  BY <1>1, <1>2 DEF DispenserInv, InHand, Handling
<1>5. Pending' = Pending
  BY <1>1, <1>2 DEF Pending
<1>q. QED  BY <1>3, <1>4, <1>5

-----------------------------------------------------------------------------
(* Days add up *)

(* From the report of a day to the opening of the next one, and, until its *)
(* reset, the day's figures are among the reports already.                 *)
Over == phase = "morning" \/ (phase = "print" /\ At(Director, "done"))
Night == Over /\ ~Fresh

(* What of today's figures is in no report yet.                            *)
Today(n) == IF Night THEN 0 ELSE n

(* Refusals counted at night: in the simulation, but in no day.            *)
Lost == total.notServed - DaysSum(reports, Len(reports), "notServed") - Today(daily.notServed)

(* What can still be lost: a user that may still ask, or has asked, may be *)
(* refused this night; during the day, only one whose request is of        *)
(* yesterday, and that may ask again.                                      *)
Tokens ==
  IF Over THEN Cardinality(due) + Cardinality(Pending) ELSE Cardinality(due \cap Pending)

AddInv ==
  /\ total.served = DaysSum(reports, Len(reports), "served") + Today(daily.served)
  /\ total.pauses = DaysSum(reports, Len(reports), "pauses") + Today(daily.pauses)
  /\ Lost >= 0
  /\ Lost + Tokens <= Len(reports) * Cardinality(Users)
  /\ ReportsAddUp

LEMMA UserSets ==
  ASSUME NEW S \in SUBSET Users
  PROVE  IsFiniteSet(S) /\ Cardinality(S) \in Nat /\ Cardinality(S) <= Cardinality(Users)
  BY StatisticsAssumption, FS_Subset, FS_CardinalityType

LEMMA TokenSets ==
  ASSUME TypeOK
  PROVE  /\ due \in SUBSET Users /\ Pending \in SUBSET Users
         /\ Cardinality(due) \in Nat /\ Cardinality(Pending) \in Nat
         /\ Cardinality(due \cap Pending) \in Nat /\ Tokens \in Nat
<1>1. due \in SUBSET Users /\ Pending \in SUBSET Users /\ due \cap Pending \in SUBSET Users
  BY DEF TypeOK, Pending
<1>2. /\ Cardinality(due) \in Nat /\ Cardinality(Pending) \in Nat
      /\ Cardinality(due \cap Pending) \in Nat
  BY <1>1, UserSets
<1>q. QED  BY <1>1, <1>2 DEF Tokens

LEMMA TokensShrink ==
  ASSUME TypeOK, DispenserInv, due' = due, Pending' \subseteq Pending, Over' <=> Over
  PROVE  Tokens' <= Tokens /\ Tokens' \in Nat
<1>1. /\ due \in SUBSET Users /\ Pending \in SUBSET Users /\ Pending' \in SUBSET Users
      /\ due \cap Pending \in SUBSET Users /\ due \cap Pending' \subseteq due \cap Pending
      /\ due \cap Pending' \in SUBSET Users
  BY TokenSets
<1>2. /\ Cardinality(Pending') <= Cardinality(Pending)
      /\ Cardinality(due \cap Pending') <= Cardinality(due \cap Pending)
  BY <1>1, UserSets, FS_Subset
<1>3. /\ Cardinality(due) \in Nat /\ Cardinality(Pending) \in Nat /\ Cardinality(Pending') \in Nat
      /\ Cardinality(due \cap Pending) \in Nat /\ Cardinality(due \cap Pending') \in Nat
  BY <1>1, UserSets
<1>4. CASE Over
  BY <1>2, <1>3, <1>4 DEF Tokens
<1>5. CASE ~Over
  BY <1>2, <1>3, <1>5 DEF Tokens
<1>q. QED  BY <1>4, <1>5

LEMMA TokensAsked ==
  ASSUME TypeOK, NEW u \in Users, UserAsks(u), Over' <=> Over
  PROVE  Tokens' = Tokens
<1>1. /\ due \in SUBSET Users /\ Pending \in SUBSET Users
      /\ IsFiniteSet(due) /\ IsFiniteSet(Pending)
      /\ Cardinality(due) \in Nat /\ Cardinality(Pending) \in Nat
  BY TokenSets, UserSets
<1>2. u \in due /\ u \notin Pending /\ due' = due \ {u} /\ Pending' = Pending \cup {u}
  BY DEF UserAsks
<1>3. /\ Cardinality(due \ {u}) = Cardinality(due) - 1
      /\ Cardinality(Pending \cup {u}) = Cardinality(Pending) + 1
  BY <1>1, <1>2, FS_RemoveElement, FS_AddElement
<1>4. (due \ {u}) \cap (Pending \cup {u}) = due \cap Pending
  BY <1>2
<1>5. CASE Over
  <2>1. /\ Tokens = Cardinality(due) + Cardinality(Pending)
        /\ Tokens' = Cardinality(due \ {u}) + Cardinality(Pending \cup {u})
    BY <1>2, <1>5 DEF Tokens
  <2>q. QED  BY <1>1, <1>3, <2>1
<1>6. CASE ~Over
  BY <1>2, <1>4, <1>6 DEF Tokens
<1>q. QED  BY <1>5, <1>6

(* Day and night pass with the director alone.                             *)
LEMMA OtherNights ==
  ASSUME TypeOK, WorkInv, OtherStep
  PROVE  /\ Night' <=> Night
         /\ \/ Over' <=> Over
            \/ OpenDay /\ Over
<1>1. work \in [Processes -> {None} \cup Updates]
  BY DEF TypeOK
<1>2. ASSUME phase' = phase, work'[Director] = work[Director]
      PROVE  (Night' <=> Night) /\ (Over' <=> Over)
  BY <1>2 DEF Night, Over, Fresh, At
<1>3. ASSUME NEW u \in Users, UserStep(u) PROVE (Night' <=> Night) /\ (Over' <=> Over)
  <2>1. CASE FlushUser(u)
    BY <2>1 DEF FlushUser, Night, Over
  <2>2. CASE Ask(u) \/ Take(u) \/ Accept(u) \/ Refuse(u) \/ ReplyRefusal(u)
    <3>1. work'[Director] = work[Director]
      BY <1>1, <2>2, Names DEF Ask, Take, Accept, Refuse, ReplyRefusal, Start
    <3>q. QED  BY <1>2, <1>3, <3>1, UserTurns
  <2>q. QED  BY <1>3, <2>1, <2>2 DEF UserStep
<1>4. ASSUME NEW w \in Workers, WorkerStep(w) \/ \E u \in Users : CounterStep(w, u)
      PROVE  (Night' <=> Night) /\ (Over' <=> Over)
  <2>1. phase' = phase /\ work'[Director] = work[Director]
    BY <1>4, WorkerTurns, Turned, Names
  <2>q. QED  BY <1>2, <2>1
<1>5. CASE NextDay
  <2>1. /\ phase = "morning" /\ phase' = phase /\ work[Director] = None
        /\ work'[Director].at = "lock"
    BY <1>1, <1>5, Names DEF NextDay, Start, Free
  <2>q. QED  BY <2>1 DEF Night, Over, Fresh, At
<1>6. CASE OpenDay
  <2>1. /\ Over /\ Fresh /\ phase' = "day"
    BY <1>6 DEF OpenDay, Did, Over, Fresh
  <2>q. QED  BY <1>6, <2>1 DEF Night, Over
<1>7. CASE CloseDay \/ AllFinished \/ Flushed
  BY <1>7 DEF CloseDay, AllFinished, Flushed, Night, Over
<1>8. CASE PrintReport
  <2>1. phase = "flush" /\ phase' = "print" /\ work'[Director].at = "lock"
    BY <1>1, <1>8, Names DEF PrintReport, Start
  <2>q. QED  BY <2>1 DEF Night, Over, At
<1>9. CASE Printed
  <2>1. phase = "print" /\ At(Director, "done") /\ phase' = "morning" /\ work'[Director] = None
    BY <1>1, <1>9, Names DEF Printed, Did
  <2>q. QED  BY <2>1 DEF Night, Over, Fresh, At
<1>q. QED  BY <1>3, <1>4, <1>5, <1>6, <1>7, <1>8, <1>9 DEF OtherStep, DayStep

LEMMA Below ==
  ASSUME NEW a \in Int, NEW t \in Nat, NEW u \in Nat, NEW b \in Nat, u <= t, a + t <= b
  PROVE  a + u <= b
  OBVIOUS

LEMMA Shift ==
  ASSUME NEW a \in Int, NEW t \in Nat, NEW u \in Nat, NEW b \in Nat, NEW d \in {0, 1},
         NEW aa, aa = a + d, u <= t - d, a >= 0, a + t <= b
  PROVE  aa >= 0 /\ aa + u <= b
  OBVIOUS

LEMMA OtherAddsUp ==
  ASSUME TypeOK, TypeOK', WorkInv, DispenserInv, AddInv, OtherStep
  PROVE  DispenserInv' /\ AddInv'
<1>1. UNCHANGED <<daily, total, reports>>
  BY OtherTurns
<1>2. /\ total.notServed \in Nat /\ daily.notServed \in Nat /\ reports \in Seq(Reports)
      /\ total.served \in Nat /\ daily.served \in Nat
  BY DEF TypeOK, Counts
<1>3. Night' <=> Night
  BY OtherNights
<1>4. Lost' = Lost /\ Today(daily.served)' = Today(daily.served)
      /\ Today(daily.pauses)' = Today(daily.pauses)
  BY <1>1, <1>3 DEF Lost, Today
<1>5. DispenserInv' /\ Tokens' <= Tokens /\ Tokens' \in Nat
  <2>1. ASSUME NEW u \in Users, UserStep(u) \/ \E w \in Workers : CounterStep(w, u)
        PROVE  DispenserInv' /\ Tokens' <= Tokens /\ Tokens' \in Nat
    <3>1. ~OpenDay
      <4>1. phase' = phase
        BY <2>1, UserTurns, WorkerTurns
      <4>q. QED  BY <4>1 DEF OpenDay
    <3>2. Over' <=> Over
      BY <3>1, OtherNights
    <3>3. DispenserInv' /\ (UserAsks(u) \/ (due' = due /\ Pending' \subseteq Pending))
      BY <2>1, UserRefusals
    <3>q. QED  BY <3>2, <3>3, TokensAsked, TokensShrink, TokenSets
  <2>2. ASSUME DayStep \/ \E w \in Workers : WorkerStep(w)
        PROVE  DispenserInv' /\ Tokens' <= Tokens /\ Tokens' \in Nat
    <3>1. DispenserInv' /\ Pending' = Pending /\ (OpenDay \/ due' = due)
      BY <2>2, OtherRefusals
    <3>2. CASE OpenDay /\ Over
      <4>1. ~Over'
        BY <3>2 DEF OpenDay, Over
      <4>2. due' \in SUBSET Users /\ Pending \in SUBSET Users /\ due' \cap Pending \in SUBSET Users
        BY TokenSets DEF TypeOK
      <4>3. Cardinality(due' \cap Pending) <= Cardinality(Pending)
        BY <4>2, UserSets, FS_Subset
      <4>4. Cardinality(due' \cap Pending) \in Nat
        BY <4>2, UserSets
      <4>5. Tokens' = Cardinality(due' \cap Pending)
        BY <3>1, <4>1 DEF Tokens
      <4>6. Tokens = Cardinality(due) + Cardinality(Pending)
        BY <3>2 DEF Tokens
      <4>q. QED  BY <3>1, <4>3, <4>4, <4>5, <4>6, TokenSets
    <3>3. CASE (Over' <=> Over) /\ due' = due
      BY <3>1, <3>3, TokensShrink
    <3>4. OpenDay => Over
      BY DEF OpenDay, Over
    <3>q. QED  BY <3>1, <3>2, <3>3, <3>4, OtherNights
  <2>q. QED  BY <2>1, <2>2 DEF OtherStep
<1>6. Lost \in Int /\ Tokens \in Nat
  <2>1. Len(reports) \in Nat /\ Len(reports) <= Len(reports) /\ "notServed" \in SumFields
    BY <1>2 DEF SumFields
  <2>2. DaysSum(reports, Len(reports), "notServed") \in Nat
    BY <1>2, <2>1, DaysFamily
  <2>3. Lost \in Int
    BY <1>2, <2>2 DEF Lost, Today
  <2>q. QED  BY <2>3, TokenSets
<1>7. ReportsAddUp'
  BY <1>1 DEF AddInv, ReportsAddUp, OverDays
<1>8. Len(reports) * Cardinality(Users) \in Nat
  <2>1. Len(reports) \in Nat /\ Cardinality(Users) \in Nat
    BY <1>2, UserSets
  <2>q. QED  BY <2>1
<1>9. Lost + Tokens <= Len(reports) * Cardinality(Users)
  BY DEF AddInv
<1>10. Lost' + Tokens' <= Len(reports) * Cardinality(Users)
  <2>1. Lost' = Lost
    BY <1>4
  <2>2. Tokens' <= Tokens /\ Tokens' \in Nat
    BY <1>5
  <2>q. QED  BY <1>6, <1>8, <1>9, <2>1, <2>2, Below
<1>11. Len(reports') = Len(reports)
  BY <1>1
<1>q. QED  BY <1>1, <1>4, <1>5, <1>7, <1>10, <1>11 DEF AddInv

(* Only the director's second steps end a day or a night.                  *)
LEMMA UpdateNights ==
  ASSUME TypeOK, WorkInv, NEW p \in Processes, UpdateStep(p),
         ~(work[p].at = "second" /\ work[p].op \in {"print", "reset"})
  PROVE  /\ Night' <=> Night
         /\ Over' <=> Over
         /\ UNCHANGED reports
<1>1. phase' = phase /\ UNCHANGED reports
  BY UpdateMoves, UpdateCounts DEF Printing
<1>2. CASE p # Director
  <2>1. work'[Director] = work[Director]
    BY <1>2, UpdateMoves, Names
  <2>q. QED  BY <1>1, <2>1 DEF Night, Over, Fresh, At
<1>3. CASE p = Director
  <2>1. /\ work[p].op \in {"reset", "notServed", "print"} /\ work[p] # None
        /\ work[p].at # "done" /\ (work'[p].at = "done" => work[p].at = "second")
    BY <1>3, UpdateMoves DEF WorkInv, DutyInv, Duty
  <2>2. phase \in {"morning", "print"} => work[p].op \in {"reset", "print"}
    BY <1>3, <2>1 DEF WorkInv, DirectorInv, Free
  <2>q. QED  BY <1>1, <1>3, <2>1, <2>2 DEF Night, Over, Fresh, At
<1>q. QED  BY <1>2, <1>3

(* At night only the dispenser counts.                                     *)
LEMMA NightCounts ==
  ASSUME TypeOK, WorkInv, WorkerInv, Night, NEW p \in Processes,
         UpdateStep(p), work[p].at = "first"
  PROVE  /\ work[p].op \notin {"served", "pause"}
         /\ work[p].op = "notServed" => p = Dispenser
<1>1. phase \in {"morning", "print"} /\ work[p] # None
  BY UpdateMoves DEF Night, Over
<1>2. p \notin Workers
  BY <1>1, AtNight
<1>3. CASE p = Director
  BY <1>1, <1>3, Names DEF WorkInv, DirectorInv, Free
<1>4. CASE p = Dispenser
  BY <1>1, <1>4, Names DEF WorkInv, DutyInv, Duty
<1>q. QED  BY <1>2, <1>3, <1>4 DEF Processes

(* A refusal at night is no longer pending.                                *)
LEMMA TokensSpent ==
  ASSUME TypeOK, NEW u \in Pending, Over, Over', due' = due, Pending' = Pending \ {u}
  PROVE  Tokens' = Tokens - 1
<1>1. /\ IsFiniteSet(Pending) /\ Cardinality(due) \in Nat /\ Cardinality(Pending) \in Nat
  BY TokenSets, UserSets
<1>2. Cardinality(Pending \ {u}) = Cardinality(Pending) - 1
  BY <1>1, FS_RemoveElement
<1>3. /\ Tokens = Cardinality(due) + Cardinality(Pending)
      /\ Tokens' = Cardinality(due) + Cardinality(Pending \ {u})
  BY DEF Tokens
<1>q. QED  BY <1>1, <1>2, <1>3

(* The end of a day: everybody may be refused once more.                   *)
LEMMA TokensAtNight ==
  ASSUME TypeOK, ~Over, Over', due' = due, Pending' = Pending
  PROVE  Tokens' <= Tokens + Cardinality(Users) /\ Tokens' \in Nat
<1>1. /\ due \in SUBSET Users /\ Pending \in SUBSET Users /\ due \cup Pending \in SUBSET Users
      /\ due \cap Pending \in SUBSET Users
  BY TokenSets
<1>2. /\ IsFiniteSet(due) /\ IsFiniteSet(Pending)
      /\ Cardinality(due) \in Nat /\ Cardinality(Pending) \in Nat
      /\ Cardinality(due \cap Pending) \in Nat /\ Cardinality(due \cup Pending) \in Nat
      /\ Cardinality(due \cup Pending) <= Cardinality(Users) /\ Cardinality(Users) \in Nat
  BY <1>1, UserSets
<1>3. Cardinality(due \cup Pending)
        = Cardinality(due) + Cardinality(Pending) - Cardinality(due \cap Pending)
  BY <1>2, FS_Union
<1>4. /\ Tokens = Cardinality(due \cap Pending)
      /\ Tokens' = Cardinality(due) + Cardinality(Pending)
  BY DEF Tokens
<1>q. QED  BY <1>2, <1>3, <1>4

LEMMA SumTypes ==
  ASSUME TypeOK
  PROVE  /\ total.served \in Nat /\ total.notServed \in Nat /\ total.pauses \in Nat
         /\ daily.served \in Nat /\ daily.notServed \in Nat /\ daily.pauses \in Nat
         /\ reports \in Seq(Reports) /\ Len(reports) \in Nat
         /\ \A field \in SumFields : DaysSum(reports, Len(reports), field) \in Nat
         /\ Cardinality(Users) \in Nat /\ Len(reports) * Cardinality(Users) \in Nat
<1>1. /\ total.served \in Nat /\ total.notServed \in Nat /\ total.pauses \in Nat
      /\ daily.served \in Nat /\ daily.notServed \in Nat /\ daily.pauses \in Nat
      /\ reports \in Seq(Reports)
  BY DEF TypeOK, Counts
<1>2. Len(reports) \in Nat /\ Len(reports) <= Len(reports)
  BY <1>1
<1>3. Cardinality(Users) \in Nat
  BY UserSets
<1>4. Len(reports) * Cardinality(Users) \in Nat
  BY <1>2, <1>3
<1>q. QED  BY <1>1, <1>2, <1>3, <1>4, DaysFamily

LEMMA CountedSums ==
  ASSUME TypeOK, NEW p \in Processes, UpdateStep(p),
         ~(work[p].at = "second" /\ work[p].op \in {"print", "reset"})
  PROVE  \E a, b, c \in {0, 1} :
           /\ a = 1 => work[p].at = "first" /\ work[p].op = "served"
           /\ b = 1 => work[p].at = "first" /\ work[p].op = "pause"
           /\ c = 1 <=> work[p].at = "first" /\ work[p].op = "notServed"
           /\ total'.served = total.served + a /\ daily'.served = daily.served + a
           /\ total'.pauses = total.pauses + b /\ daily'.pauses = daily.pauses + b
           /\ total'.notServed = total.notServed + c /\ daily'.notServed = daily.notServed + c
<1>1. CASE work[p].at = "first"
  <2> DEFINE a == One(work[p].op = "served")
             b == One(work[p].op = "pause")
             c == One(work[p].op = "notServed")
  <2>1. /\ a \in {0, 1} /\ (a = 1 <=> work[p].op = "served")
        /\ b \in {0, 1} /\ (b = 1 <=> work[p].op = "pause")
        /\ c \in {0, 1} /\ (c = 1 <=> work[p].op = "notServed")
    BY DEF One
  <2>2. /\ total'.served = total.served + a /\ daily'.served = daily.served + a
        /\ total'.pauses = total.pauses + b /\ daily'.pauses = daily.pauses + b
        /\ total'.notServed = total.notServed + c /\ daily'.notServed = daily.notServed + c
    BY <1>1, UpdateSums
  <2> HIDE DEF a, b, c
  <2>q. QED  BY <1>1, <2>1, <2>2
<1>2. CASE work[p].at # "first"
  <2>1. /\ total'.served = total.served /\ daily'.served = daily.served
        /\ total'.pauses = total.pauses /\ daily'.pauses = daily.pauses
        /\ total'.notServed = total.notServed /\ daily'.notServed = daily.notServed
    BY <1>2, UpdateSums
  <2>2. /\ total'.served = total.served + 0 /\ daily'.served = daily.served + 0
        /\ total'.pauses = total.pauses + 0 /\ daily'.pauses = daily.pauses + 0
        /\ total'.notServed = total.notServed + 0 /\ daily'.notServed = daily.notServed + 0
    BY <2>1, SumTypes
  <2>q. QED  BY <1>2, <2>2
<1>q. QED  BY <1>1, <1>2

LEMMA LostInteger ==
  ASSUME TypeOK
  PROVE  Lost \in Int
<1>1. DaysSum(reports, Len(reports), "notServed") \in Nat
  BY SumTypes DEF SumFields
<1>q. QED  BY <1>1, SumTypes DEF Lost, Today

(* All the updates but the end of a report and of a reset.                 *)
LEMMA CountAddsUp ==
  ASSUME TypeOK, TypeOK', WorkInv, WorkerInv, DispenserInv, AddInv,
         NEW p \in Processes, UpdateStep(p),
         ~(work[p].at = "second" /\ work[p].op \in {"print", "reset"})
  PROVE  AddInv'
<1>1. (Night' <=> Night) /\ (Over' <=> Over) /\ UNCHANGED reports
  BY UpdateNights
<1>2. ReportsAddUp'
  BY <1>1 DEF AddInv, ReportsAddUp, OverDays
<1>3. PICK a, b, c \in {0, 1} :
           /\ a = 1 => work[p].at = "first" /\ work[p].op = "served"
           /\ b = 1 => work[p].at = "first" /\ work[p].op = "pause"
           /\ c = 1 <=> work[p].at = "first" /\ work[p].op = "notServed"
           /\ total'.served = total.served + a /\ daily'.served = daily.served + a
           /\ total'.pauses = total.pauses + b /\ daily'.pauses = daily.pauses + b
           /\ total'.notServed = total.notServed + c /\ daily'.notServed = daily.notServed + c
  BY CountedSums
<1> DEFINE S == DaysSum(reports, Len(reports), "served")
           P == DaysSum(reports, Len(reports), "pauses")
           R == DaysSum(reports, Len(reports), "notServed")
           today(n) == IF Night THEN 0 ELSE n
<1>4. /\ S \in Nat /\ P \in Nat /\ R \in Nat
      /\ total.served \in Nat /\ total.pauses \in Nat /\ total.notServed \in Nat
      /\ daily.served \in Nat /\ daily.pauses \in Nat /\ daily.notServed \in Nat
  BY SumTypes DEF SumFields
<1>5. /\ total.served = S + today(daily.served) /\ total.pauses = P + today(daily.pauses)
      /\ Lost = total.notServed - R - today(daily.notServed)
      /\ Lost' = total'.notServed - R - today(daily'.notServed)
  BY <1>1 DEF AddInv, Lost, Today
<1>6. /\ DaysSum(reports, Len(reports), "served")' = S
      /\ DaysSum(reports, Len(reports), "pauses")' = P
      /\ Today(daily.served)' = today(daily'.served)
      /\ Today(daily.pauses)' = today(daily'.pauses)
  BY <1>1 DEF Today
<1> HIDE DEF S, P, R
<1>7. /\ total'.served = S + today(daily'.served)
      /\ total'.pauses = P + today(daily'.pauses)
  <2>1. CASE Night
    <3>1. a = 0 /\ b = 0
      BY <1>3, <2>1, NightCounts
    <3>q. QED  BY <1>3, <1>4, <1>5, <2>1, <3>1
  <2>2. CASE ~Night
    BY <1>3, <1>4, <1>5, <2>2
  <2>q. QED  BY <2>1, <2>2
<1>8. Lost' = Lost + (IF Night THEN c ELSE 0)
  <2>1. CASE Night
    <3>1. total'.notServed - R - 0 = total.notServed - R - 0 + c
      BY <1>3, <1>4
    <3>q. QED  BY <1>5, <2>1, <3>1
  <2>2. CASE ~Night
    <3>1. total'.notServed - R - daily'.notServed = total.notServed - R - daily.notServed + 0
      BY <1>3, <1>4
    <3>q. QED  BY <1>5, <2>2, <3>1
  <2>q. QED  BY <2>1, <2>2
<1>9. Tokens' <= Tokens - (IF Night THEN c ELSE 0) /\ Tokens' \in Nat
  <2>1. CASE Night /\ c = 1
    <3>1. PICK u \in Pending : due' = due /\ Pending' = Pending \ {u}
      BY <1>3, <2>1, NightCounts, UpdateRefusals
    <3>2. Over /\ Over'
      BY <1>1, <2>1 DEF Night
    <3>3. Tokens' = Tokens - 1
      BY <3>1, <3>2, TokensSpent
    <3>4. Pending' \subseteq Pending
      BY <3>1
    <3>5. Tokens' \in Nat
      BY <1>1, <3>1, <3>4, TokensShrink
    <3>q. QED  BY <2>1, <3>3, <3>5, TokenSets
  <2>2. CASE ~(Night /\ c = 1)
    <3>1. due' = due /\ Pending' \subseteq Pending
      BY UpdateRefusals
    <3>2. Tokens' <= Tokens /\ Tokens' \in Nat
      BY <1>1, <3>1, TokensShrink
    <3>3. (IF Night THEN c ELSE 0) = 0
      BY <2>2
    <3>q. QED  BY <3>2, <3>3, TokenSets
  <2>q. QED  BY <2>1, <2>2
<1>10. Lost >= 0 /\ Lost + Tokens <= Len(reports) * Cardinality(Users)
  BY DEF AddInv
<1>11. Lost' >= 0 /\ Lost' + Tokens' <= Len(reports) * Cardinality(Users)
  <2>1. (IF Night THEN c ELSE 0) \in {0, 1}
    OBVIOUS
  <2>q. QED  BY <1>8, <1>9, <1>10, <2>1, LostInteger, TokenSets, SumTypes, Shift
<1>12. Len(reports') = Len(reports)
  BY <1>1
<1>q. QED  BY <1>2, <1>6, <1>7, <1>11, <1>12 DEF AddInv

(* The end of reset_day_statistics.                                        *)
LEMMA ResetAddsUp ==
  ASSUME TypeOK, WorkInv, DispenserInv, AddInv, NEW p \in Processes, UpdateStep(p),
         work[p].at = "second", work[p].op = "reset"
  PROVE  AddInv'
<1>1. phase' = phase /\ reports' = reports /\ due' = due /\ Pending' = Pending
  BY UpdateMoves, UpdateCounts, UpdateRefusals DEF Printing
<1>2. p = Director /\ work[p] # None
  BY UpdateMoves DEF WorkInv, DutyInv, Duty
<1>3. phase = "morning"
  BY <1>2 DEF WorkInv, DirectorInv, Free, TypeOK
<1>4. At(Director, "done")' /\ ~At(Director, "done")
  BY <1>2, UpdateMoves DEF At
<1>5. Night /\ ~Night' /\ Over /\ Over'
  BY <1>1, <1>3, <1>4 DEF Night, Over, Fresh
<1>6. /\ daily'.served = 0 /\ daily'.pauses = 0 /\ daily'.notServed = 0
      /\ total'.served = total.served /\ total'.pauses = total.pauses
      /\ total'.notServed = total.notServed
  BY UpdateSums
<1>7. /\ Today(daily.served) = 0 /\ Today(daily.pauses) = 0 /\ Today(daily.notServed) = 0
      /\ Today(daily.served)' = 0 /\ Today(daily.pauses)' = 0 /\ Today(daily.notServed)' = 0
  BY <1>5, <1>6 DEF Today
<1>8. Lost' = Lost /\ Tokens' = Tokens
  BY <1>1, <1>5, <1>6, <1>7 DEF Lost, Tokens
<1>9. ReportsAddUp'
  BY <1>1 DEF AddInv, ReportsAddUp, OverDays
<1>q. QED  BY <1>1, <1>6, <1>7, <1>8, <1>9 DEF AddInv

(* What ReportsAddUp says of report n.                                     *)
AddsUp(r, n) ==
  /\ r[n].total.served = DaysSum(r, n, "served")
  /\ r[n].total.pauses = DaysSum(r, n, "pauses")
  /\ r[n].total.notServed \in DaysSum(r, n, "notServed")
       .. DaysSum(r, n, "notServed") + (n - 1) * Cardinality(Users)

LEMMA AddsUpEach == ReportsAddUp <=> \A n \in DOMAIN reports : AddsUp(reports, n)
  BY DEF ReportsAddUp, AddsUp, OverDays, DaysSum

LEMMA AddsUpNext == ReportsAddUp' <=> \A n \in DOMAIN reports' : AddsUp(reports', n)
  BY DEF ReportsAddUp, AddsUp, OverDays, DaysSum

LEMMA Refused ==
  ASSUME NEW t \in Int, NEW r \in Nat, NEW d \in Nat, NEW l, l = t - r - d, l >= 0,
         NEW k \in Nat, NEW b \in Nat, l + k <= b
  PROVE  t \in r + d .. (r + d) + b
  OBVIOUS

(* The end of print_daily_statistics.                                      *)
LEMMA PrintAddsUp ==
  ASSUME TypeOK, WorkInv, DispenserInv, AddInv, NEW p \in Processes, UpdateStep(p),
         work[p].at = "second", work[p].op = "print"
  PROVE  AddInv'
<1>1. phase' = phase /\ due' = due /\ Pending' = Pending /\ p = Director /\ Printing
  BY UpdateMoves, UpdateRefusals, PrintAlone DEF WorkInv
<1>2. reports' = Append(reports, draft) /\ draft \in Reports
  BY <1>1, UpdateCounts
<1>3. draft.day = daily /\ draft.total = total
  BY <1>1 DEF WorkInv, Drafted
<1>4. phase = "print"
  BY <1>1, PrintPhase DEF WorkInv
<1>5. At(Director, "done")' /\ ~At(Director, "done")
  BY <1>1, UpdateMoves DEF At
<1>6. ~Night /\ Night' /\ ~Over /\ Over'
  BY <1>1, <1>4, <1>5 DEF Night, Over, Fresh
<1>7. /\ total'.served = total.served /\ total'.pauses = total.pauses
      /\ total'.notServed = total.notServed
  BY UpdateSums
<1>8. /\ reports \in Seq(Reports) /\ Len(reports) \in Nat
      /\ Len(reports') = Len(reports) + 1
      /\ reports'[Len(reports) + 1] = draft
      /\ \A n \in DOMAIN reports : n \in 0 .. Len(reports) /\ reports'[n] = reports[n]
      /\ \A n \in DOMAIN reports' : n \in DOMAIN reports \/ n = Len(reports) + 1
  BY <1>2 DEF TypeOK
<1>9. /\ \A field \in SumFields, n \in 0 .. Len(reports) :
           DaysSum(reports', n, field) = DaysSum(reports, n, field)
      /\ \A field \in SumFields :
           DaysSum(reports', Len(reports) + 1, field)
             = DaysSum(reports, Len(reports), field) + daily[field]
  BY <1>2, <1>3, <1>8, DaysStep
<1> DEFINE S == DaysSum(reports, Len(reports), "served")
           P == DaysSum(reports, Len(reports), "pauses")
           R == DaysSum(reports, Len(reports), "notServed")
<1>10. /\ DaysSum(reports', Len(reports) + 1, "served") = S + daily.served
       /\ DaysSum(reports', Len(reports) + 1, "pauses") = P + daily.pauses
       /\ DaysSum(reports', Len(reports) + 1, "notServed") = R + daily.notServed
  BY <1>9 DEF SumFields
<1>11. /\ S \in Nat /\ P \in Nat /\ R \in Nat
       /\ total.served \in Nat /\ total.pauses \in Nat /\ total.notServed \in Nat
       /\ daily.served \in Nat /\ daily.pauses \in Nat /\ daily.notServed \in Nat
  BY SumTypes DEF SumFields
<1>12. /\ total.served = S + daily.served /\ total.pauses = P + daily.pauses
       /\ Lost = total.notServed - R - daily.notServed
  BY <1>6 DEF AddInv, Lost, Today
<1>13. Lost >= 0 /\ Lost + Tokens <= Len(reports) * Cardinality(Users)
  BY DEF AddInv
<1>14. /\ DaysSum(reports, Len(reports), "served")' = S + daily.served
       /\ DaysSum(reports, Len(reports), "pauses")' = P + daily.pauses
       /\ DaysSum(reports, Len(reports), "notServed")' = R + daily.notServed
  BY <1>8, <1>10
<1> HIDE DEF S, P, R
<1>15. /\ Today(daily.served)' = 0 /\ Today(daily.pauses)' = 0 /\ Today(daily.notServed)' = 0
  BY <1>6 DEF Today
<1>16. Lost' = Lost
  <2>1. Lost' = total.notServed - (R + daily.notServed) - 0
    BY <1>7, <1>14, <1>15 DEF Lost
  <2>2. total.notServed - (R + daily.notServed) - 0 = total.notServed - R - daily.notServed
    BY <1>11
  <2>q. QED  BY <1>12, <2>1, <2>2
<1>17. Lost' + Tokens' <= Len(reports') * Cardinality(Users)
  <2>1. Tokens' <= Tokens + Cardinality(Users) /\ Tokens' \in Nat
    BY <1>1, <1>6, TokensAtNight
  <2>2. (Len(reports) + 1) * Cardinality(Users) = Len(reports) * Cardinality(Users) + Cardinality(Users)
    BY <1>8, UserSets
  <2>3. ASSUME NEW a \in Int, NEW t \in Nat, NEW v \in Nat, NEW c \in Nat, NEW b \in Nat,
               a + t <= b, v <= t + c
        PROVE  a + v <= b + c
    BY <2>3
  <2>4. Lost + Tokens' <= Len(reports) * Cardinality(Users) + Cardinality(Users)
    BY <1>13, <2>1, <2>3, LostInteger, TokenSets, SumTypes
  <2>q. QED  BY <1>8, <1>16, <2>2, <2>4
<1>18. ReportsAddUp'
  <2>1. ASSUME NEW n \in DOMAIN reports PROVE AddsUp(reports', n)
    <3>1. AddsUp(reports, n)
      BY AddsUpEach DEF AddInv
    <3>2. /\ DaysSum(reports', n, "served") = DaysSum(reports, n, "served")
          /\ DaysSum(reports', n, "pauses") = DaysSum(reports, n, "pauses")
          /\ DaysSum(reports', n, "notServed") = DaysSum(reports, n, "notServed")
          /\ reports'[n] = reports[n]
      BY <1>8, <1>9 DEF SumFields
    <3>q. QED  BY <3>1, <3>2 DEF AddsUp
  <2>2. AddsUp(reports', Len(reports) + 1)
    <3>1. total.notServed \in R + daily.notServed ..
            (R + daily.notServed) + Len(reports) * Cardinality(Users)
      <4> DEFINE bound == Len(reports) * Cardinality(Users)
      <4>1. bound \in Nat /\ Lost + Tokens <= bound /\ Lost >= 0
        BY <1>13, SumTypes
      <4>2. Tokens \in Nat
        BY TokenSets
      <4> HIDE DEF bound
      <4>3. total.notServed \in R + daily.notServed .. (R + daily.notServed) + bound
        BY <1>11, <1>12, <4>1, <4>2, Refused
      <4>q. QED  BY <4>3 DEF bound
    <3>2. (Len(reports) + 1) - 1 = Len(reports)
      BY <1>8
    <3>q. QED  BY <1>3, <1>8, <1>10, <1>12, <3>1, <3>2 DEF AddsUp, S, P, R
  <2>q. QED  BY <1>8, <2>1, <2>2, AddsUpNext
<1>19. /\ total'.served = (S + daily.served) + 0
       /\ total'.pauses = (P + daily.pauses) + 0
  BY <1>7, <1>11, <1>12
<1>q. QED  BY <1>13, <1>14, <1>15, <1>16, <1>17, <1>18, <1>19 DEF AddInv

LEMMA InitAddsUp == Init => DispenserInv /\ AddInv
<1> SUFFICES ASSUME Init PROVE DispenserInv /\ AddInv
  OBVIOUS
<1>1. /\ phase = "morning" /\ reports = <<>> /\ due = {}
      /\ \A u \in Users : place[u] = "home"
      /\ work[Dispenser] = None /\ work[Director] = None
      /\ total.served = 0 /\ total.pauses = 0 /\ total.notServed = 0
  BY Names DEF Init, Zero
<1>2. DispenserInv
  BY <1>1 DEF DispenserInv, InHand, Handling
<1>3. Night /\ Over
  BY <1>1 DEF Night, Over, Fresh, At
<1>4. Pending = {}
  BY <1>1 DEF Pending
<1>5. Tokens = 0
  <2>1. Cardinality(due) = 0 /\ Cardinality(Pending) = 0
    BY <1>1, <1>4, FS_EmptySet
  <2>q. QED  BY <1>3, <2>1 DEF Tokens
<1>6. reports \in Seq(Reports) /\ Len(reports) = 0
  BY <1>1
<1>7. /\ DaysSum(reports, Len(reports), "served") = 0
      /\ DaysSum(reports, Len(reports), "pauses") = 0
      /\ DaysSum(reports, Len(reports), "notServed") = 0
  BY <1>6, DaysNone DEF SumFields
<1>8. Lost = 0 /\ Today(daily.served) = 0 /\ Today(daily.pauses) = 0
  BY <1>1, <1>3, <1>7 DEF Lost, Today
<1>9. ReportsAddUp
  BY <1>1 DEF ReportsAddUp
<1>10. Len(reports) * Cardinality(Users) = 0
  <2>1. Cardinality(Users) \in Nat
    BY UserSets
  <2>q. QED  BY <1>6, <2>1
<1>q. QED  BY <1>1, <1>2, <1>5, <1>7, <1>8, <1>9, <1>10 DEF AddInv

LEMMA NextAddsUp ==
  /\ TypeOK /\ TypeOK' /\ WorkInv /\ WorkerInv
  /\ DispenserInv /\ AddInv
  /\ [Next]_vars
  => (DispenserInv /\ AddInv)'
<1> SUFFICES ASSUME TypeOK, TypeOK', WorkInv, WorkerInv, DispenserInv, AddInv, [Next]_vars
             PROVE  (DispenserInv /\ AddInv)'
  OBVIOUS
<1>1. ASSUME NEW p \in Processes, UpdateStep(p) PROVE (DispenserInv /\ AddInv)'
  <2>1. DispenserInv'
    BY <1>1, UpdateRefusals
  <2>2. AddInv'
    BY <1>1, CountAddsUp, ResetAddsUp, PrintAddsUp
  <2>q. QED  BY <2>1, <2>2
<1>2. ASSUME UNCHANGED vars PROVE (DispenserInv /\ AddInv)'
  <2>1. UNCHANGED <<phase, work, place, due, daily, total, reports>>
    BY <1>2 DEF vars, userVars, statsVars
  <2>2. DispenserInv' /\ Pending' = Pending
    BY <2>1 DEF DispenserInv, InHand, Handling, Pending
  <2>3. (Night' <=> Night) /\ (Over' <=> Over)
    BY <2>1 DEF Night, Over, Fresh, At
  <2>4. Tokens' = Tokens /\ Lost' = Lost
    BY <2>1, <2>2, <2>3 DEF Tokens, Lost, Today
  <2>5. AddInv'
    BY <2>1, <2>3, <2>4 DEF AddInv, Today, ReportsAddUp, OverDays
  <2>q. QED  BY <2>2, <2>5
<1>q. QED  BY <1>1, <1>2, OtherAddsUp, NextSteps

LEMMA DaysAddUp == Spec => [](DispenserInv /\ AddInv)
  BY WorkGoesOn, PausesGoOn, InitAddsUp, NextAddsUp, PTL DEF Spec

(* The days printed so far add up to the simulation: exactly for what was  *)
(* served and for the pauses; of the refusals, those counted between one   *)
(* day's report and the next reset are in no day, at most one for each     *)
(* user and night (director.c:115-125; erogatore_ticket.c:101-108).        *)
THEOREM ReportsAddUpHolds == Spec => []ReportsAddUp
<1>1. AddInv => ReportsAddUp
  BY DEF AddInv
<1>q. QED  BY <1>1, DaysAddUp, PTL
=============================================================================
