# A verification of the post office simulation

This directory holds a TLA+ model of the post office simulation in `src/`, the
TLC runs that check it on small instances, and theorems about it that TLAPS
checks for every instance. Paths such as `operator.c:99` are relative to
`src/src/`; `commons.h` is `src/src/headers/commons.h`.

## 1. The system

One **director** forks one **ticket dispenser**, `NOF_WORKERS` **operators** and
`NOF_USERS` **users**, and runs `SIM_DURATION` days. All of them attach to the
same System V shared memory, one semaphore set and one message queue, and the
director drives the children with signals.

| Component | State it keeps | Operations | Talks to the others by |
|---|---|---|---|
| director (`director.c`) | `CURRENT_DAY`, `DAY_ACTIVE`, `TERMINATION_CAUSE`, `shutdown_requested` | open a day (assign counters, set the semaphores, reset the queues), close it, wait for every operator, count and flush the queues, print, stop the children, remove the IPC objects | SIGUSR1/SIGUSR2/SIGTERM to the children; replies to users; counters, semaphores and queues |
| operator (`operator.c`) | its service, `current_counter`, `pauses_taken`, three signal flags | claim a counter, pop and serve tickets, pause, release the counter, report `DAY_FINISHED` | semaphores (free counters, jobs, mutexes), replies to users, messages to the director |
| user (`user.c`) | three signal flags | stay at home, or arrive, ask for a ticket, wait for one answer | request and reply messages |
| dispenser (`erogatore_ticket.c`) | one signal flag | take a request; refuse it or queue a ticket and post a job | request and reply messages, service queues, jobs semaphore |
| service queue (`commons.h:77-82,232-269`) | ring buffer of 4096 tickets | reset, push, pop, length | called under the mutex of the service, except for reset |
| statistics (`commons.h:99-124`) | daily and running totals | counted by three programs, printed by the director | one mutex |
| configuration and IPC set-up (`director.c:32-347,665-709`) | `struct simulation_parameter`, eight IPC objects behind fixed keys | remove stale objects, read and check the file, create and initialise the objects, fork, wait for the children, remove | the kernel's key table; INIT messages; children attach by key |
| logger (`logger.c`) | one `FILE*` | open, close, write a message in lines of 80 characters | the director opens and closes it; nobody writes |

What is hard in it:

* **Signals against blocking calls.** No program blocks its signals between
  testing a flag and sleeping in `sigsuspend`, `semop` or `msgrcv`, so a wakeup
  can be lost. Where the call *is* interrupted, each program has its own idea
  of what EINTR means: try again, give up, exit.
* **The day barrier.** The director resets semaphores, counters and queues
  without locks each morning, and relies on one `DAY_FINISHED` per operator.
* **Two-level counters.** An operator first takes a token from a counting
  semaphore, then looks for a free counter under per-counter mutexes while
  other operators claim and release counters behind and ahead of it.
* **Check, then act.** The dispenser reads `DAY_ACTIVE` without a lock, takes
  the queue's mutex and reads it again; jobs are posted after the unlock.
* **Shutdown** at any moment, by SIGTERM to the director or by Ctrl+C to the
  whole process group.
* **One bounded message queue** for requests, answers and reports.
* **Fixed IPC keys.** A director that crashes leaves its objects and its children
  behind; the next one removes the objects, takes the same keys, and counts INIT
  messages without looking at who sent them.
* **Reports made while others count.** The statistics are printed and reset by the
  director while the dispenser still refuses late requests.

What makes each component correct:

| Component | Properties |
|---|---|
| mutexes | `CriticalSectionsExclusive` |
| director and operators, across days | `DayBarrier`, `QueuesStayFlushed`, `CountEqualsFlush` |
| operators and counters | `CounterExclusive`, `ScanAlwaysFinds`, `TokensBacked` |
| tickets and answers | `TicketConservation`, `ReplyMatches`, `JobsCoverQueue`, `EveryUserAnswered` |
| statistics | `StatsConserved`, `ReportsConsistent`, `ReportsAddUp`, `PausesPerActiveOperator` |
| shutdown and termination | `OperatorsQuietAtCleanup`, `MailboxBound`, `StuckOnlyIfExplained`, `DirectorEndsOrHangIsExplained` |
| service queue | `RingConsistent`, `ImplementsFifo` |
| configuration | `AcceptedIsUsable`, `ConfigFromFile`, `SemaphoresApart` |
| IPC set-up, crash and restart | `NothingStaleInUse`, `MissingOnesAreOrphans`, `OrderlyExitLeavesNothing`, `StartsOrExplained` |
| logger | `LinesFit`, `LinesFollowMessage`, `CallsProgress`, `EveryCallReturns`, `RefusedOnlyIfTooLong` |

## 2. Modules

| Module | What it is |
|---|---|
| `Commons` | constants and their assumptions, the shared variables, message queue, signals, the semop on a mutex, the types of the shared state |
| `Operator`, `User`, `ErogatoreTicket`, `Director` | one program each: its locals, its program counter, one action per step |
| `PostOffice` | the four programs composed: `Init`, `Next`, `Spec`, fairness, and all the properties |
| `MCPostOffice` | the symmetry of operators and users, for TLC |
| `BoundedFifo`, `ServiceQueue`, `MCServiceQueue` | a bounded FIFO queue, the ring buffer of `commons.h`, and the refinement between them |
| `Configuration`, `MCConfiguration` | `read_config_file` over a file of tokens, and what is derived from its values; the files of the runs |
| `Startup`, `MCStartup` | the IPC objects over several runs of the director, with crashes and the orphans they leave; the days are one step |
| `Statistics`, `MCStatistics` | the counters of the day and of the simulation, updated field by field, and the reports; the operators', dispenser's and director's work is reduced to what makes them count |
| `Logger`, `MCLogger` | one call of `logx` between `log_init` and `log_stop`; the messages of the runs |
| `Tally` | sums written as cardinalities: the places of a sequence, the members of a family of sets |
| `TallyProofs` | what a step does to such a sum; cited by `TicketProofs` and `StatisticsProofs` |
| `PostOfficeProofs`, `TicketProofs` | theorems about `PostOffice`: types, mutexes, barriers, counters and queues; then tickets, answers, totals, messages |
| `StatisticsProofs`, `ServiceQueueProofs`, `ConfigurationProofs`, `StartupProofs`, `LoggerProofs` | theorems about the module of that name |

### How code becomes actions

*Program counters.* Each process has a program counter (`opc`, `upc`, `tpc`,
`dpc`) whose values name the points where it may block or where another process
may overtake it. Code between two such points that touches nothing shared is
part of the action that leads to it. A label that ends in a blocking call stands
both for "about to make the call" and for "asleep in it".

*Semaphores.* A mutex is a variable in {0, 1}; `semop(-1)` is a guarded
decrement, `semop(+1)` is part of the last action of the critical section.
`freeCounter` and `jobs` are counting semaphores; SETVAL is an assignment.

*Messages.* `replyBox[u]` and `ticketBox` are sequences; of the messages to the
director only the kind and the number matter (it compares nothing else), so they
are the counts `inits` and `finished`. All of them share the kernel's capacity
`MSG_CAPACITY` (by default 16384 bytes, some 1365 of these messages); `msgsnd`
blocks on it whatever the recipient.

*Signals.* `pending[p]` is the set of signals sent to child `p` and not handled
yet; a standard signal sent twice is one bit. Handling takes everything pending
at once and may happen at any point. If the process is asleep, the call returns
EINTR and the code's EINTR path is taken; the other disjunct, "the handler ran
just before the call", leaves the program counter alone, and a process that then
has nothing to wake it up sleeps on. That is how lost wakeups show.

*SIGKILL-like ends.* `exit(EXIT_FAILURE)` is the label `failed`; a failed
process keeps its locals (a ticket in an operator's hands), so that the
properties can account for them. Ctrl+C (`CtrlC`) stops all the children where
they stand, since they have no SIGINT handler.

*Atomicity, where it is coarser than the code.*
- `OpenDay` is SETVAL for every service, `service_queue_reset`, `DAY_ACTIVE = 1`
  and the SIGUSR1s in one step. At that point no operator is at work
  (`DayBarrier`), no dispenser is inside a queue with an open day
  (`QueuesStayFlushed`), and delivery of the signals is asynchronous anyway.
- The loops that take no lock but read what others write have one step per
  read: `service_is_offered_today` goes from counter to counter (`CheckOffered`,
  the index is `seat`), and so does an operator's scan.
- The service time (`nanosleep`, restarted after every signal) is part of the
  `lock_stats` that follows.
- `count_pending_users` and `assign_daily_counters` are one step per lock,
  read or write, unlock: nobody else can act inside the lock.
- `stop_children` waits for operators, then users, then the dispenser, by index.
  The model knows the three groups; within one, the order of the indices is
  left open.

*Left out because the code cannot get there.* The range check of a ticket's
service (`erogatore_ticket.c:214`; users draw a valid one), `service_queue_push`
failing after the queue was seen not full under the same lock
(`erogatore_ticket.c:149`), and giving the token back at the end of a scan
(`operator.c:132`): for this last one the model has the label `giveback` and the
property `ScanAlwaysFinds`. An operator never uses the IPC objects after they
are removed (`OperatorsQuietAtCleanup`), so only users and dispenser have an
action for it.

*Abstracted data.* Times and averages; process ids (processes
are model values); `rand()` is a free choice. A ring-buffer slot that is zeroed
(by the reset) and one that is blanked with -1 (by a pop) are one value,
`NoTicket`, since every caller tests `user_pid > 0`.

`PostOffice` begins when `create_children` has returned. A signal to the director
may have come by then. What comes before is `Startup`.

### The smaller modules

`Configuration`. A file is a sequence of tokens, numbers and words, because white
space and line ends are the same to `fscanf`. `%127s` takes any token and `%d` a
number only. (A word that begins with digits, and a word of more than 127
characters, are left out.) The new segment is zero, so a key that is not read
is zero too.

`Startup`. `obj` is the kernel's key table: which run made the object behind a key.
`handle` is what the director's ids stand for, `view` what each child has
attached. Removing by key (`RemoveStale`) and removing by id (`CleanUp`) are
different, and so are the four objects: the configuration segment is made first
and attached first; the other five segments are made, attached and removed next to
each other and are one. `Crash` may happen anywhere and stands for SIGKILL and
for each `exit(EXIT_FAILURE)`. `waitpid` is not repeated after EINTR
(`director.c:650`), so with enough signals the director removes the objects while
children of its own are alive (`WaitInterrupted`). `kpc` has the point that matters most: before
`execl` and `sigaction` a child has no handler, and a SIGUSR1 kills it.

`Statistics`. The mutex is taken and released, and the fields are updated in
two halves, first those of the whole office, then those of the service (for the reset
the other way round, as in the code). The operators that were active are counted
before the mutex is taken (`director.c:431-438`, `PrintReport`), and everything else of
the report is read under it. `served` stands for users served, services
served and the two sums of minutes, which `serve_ticket` always adds to together.
Of the operators it keeps claim, service, pause and end of day, and of the director's
day the points where it counts, prints and resets. The explosion only ends the
simulation earlier.

`Logger`. `vsnprintf` makes a message out of the arguments; its error return, the
prefix of a line, the `DEBUGLOG` messages and `syslog` (compiled out: neither
`LINUX` nor `MACOS` is defined by the build) are left out.

## 3. Runs

All runs of `MCPostOffice` use small sets of processes. `MAX_KILLS` bounds the
signals to the director, `SIM_DURATION` the days; nothing else is bounded: one
user has at most one request out and one operator one report, so the state space
is finite. One run has a state constraint, too: once the director has sent the
SIGTERMs, `tickets` goes on only while an answer of the dispenser meets a full message
queue or has been dropped there (`StopBound`). `CHECK_DEADLOCK FALSE` is set because the simulation
ends, and also because it may hang (below). What TLC's deadlock check would have
said is said more exactly by `StuckOnlyIfExplained`: a state without a next step is
the end, or has one of the causes in `HangCause`.

| Run | Instance | What it shows |
|---|---|---|
| `tickets` | 1 operator, 3 users, 1 counter, service queue and message queue of 1 slot, 1 pause, explosion threshold 0 | tickets and totals when the service queue is full as the next user asks, and the office explodes when one is still waiting at closing time; one user at the counter or in the flush, one in the dispenser's hands, one in the message queue: who sends an answer meets a full message queue whatever mutex it holds; an operator dead in the middle of its day |
| `counters` | 2 operators, 1 user, 2 counters of 1 service, 1 pause, 2 days | locks and jobs; one operator scans while the other claims or releases behind or ahead of it; tokens and counters dealt anew the next morning |
| `two_days` | 1 operator, 1 user, 1 counter, 2 services, 2 days | late requests, late job posts and signals that merge across the night; the counter may offer a service the operator does not do |
| `shutdown` | 2 operators, 1 user, 1 counter, 2 signals and Ctrl+C | interrupted `semop` and `waitpid` in every state |
| `liveness` | 1 operator, 1 user, 1 counter, message queue of 1 slot, 2 days, 1 signal to the director | the reasons for a hang that one user and one operator can meet; a user that sleeps through the second day; what a user can count on when the office is stopped |
| `ring` | 3 tickets, 3 slots | the ring buffer, all contents at all positions |
| `configuration` | the two files of `src/config`, the README's example, a file of odd values, and every file one edit away from the first two (a value, a line missing, repeated, followed by a comment or an unknown key) | what is accepted can be run and is what the file says |
| `startup` | 2 children, 2 runs | a crash anywhere in the first run, orphans at any point of their own start while the second one removes, creates, forks and waits; the start ends unless a child dies before its INIT |
| `statistics` | 1 operator, 2 users, 2 services, 2 pauses, 2 days | updates of different services while the report is printed; refusals between a report and the reset; an operator that pauses once a day |
| `logger` | all messages of up to 5 characters, 2 of them letters; lines of 2, buffer of 2 bytes, at most 5 | newlines before, at and after the width; a message for which the buffer grows, one that just fits the largest buffer and one that is too long |

`tickets`, `counters` and `shutdown` use symmetry of operators and
users, `statistics` of users: the
code treats them alike (loops over their indices only send signals or wait for
each), no property names one, and these runs have no liveness property.
The runs with a liveness property use none.

A run of `PostOffice` with 2 operators, 2 users and a counter has
several million states and takes too long to be kept; the two runs `tickets` and
`counters` divide it: who
competes for a queue are the users, who competes for a counter the operators. What
a second operator *and* a second user can do together is in the theorems only; so
is a message queue with more than one request in it, since `tickets` has a slot for one.

Two more runs end in a counterexample, and are the **findings**: places where
`src/README.md` says something the code does not do.

| Run | Claim | What happens |
|---|---|---|
| `ipc_left` | "On shutdown, all IPC resources are properly cleaned up" (line 148) | the director, asleep in `semop` when SIGTERM comes, exits from `lock_stats` and friends without stopping anybody or removing anything (`director.c:87`) |
| `ctrl_c` | graceful shutdown on SIGINT (line 152) | the children die of the same Ctrl+C, and a director that waits for the end of the operators' day waits for ever: `wait_for_workers_day_end` tries again after EINTR without looking at `shutdown_requested` (`director.c:580`) |

The property of `ctrl_c` is restricted to a director in `wait_for_workers_day_end`,
as its trace is: the signal comes while the director opens the day, and the next
step it takes is to wait. A Ctrl+C during `wait_for_initialization` hangs it in the
same way (`director.c:334`).

Five more disagreements are in the models, and have no run of their own:

- SIGTERM, too, may leave the director waiting for ever: a child that handles its
  signal just before it goes to sleep is never woken (`operator.c:297`,
  `user.c:47`, `erogatore_ticket.c:198`). `HangCause` names those windows.
- The shutdown "waits for active operations to complete" (line 154), but an operator
  asleep in `lock_stats` when SIGUSR2 or SIGTERM comes exits with its customer
  unanswered (`operator.c:47`). `TicketConservation` counts the ticket in the hands
  of such an operator.
- `NOF_WORKER_SEATS` is not the number of "seats per service type" (line 109) but
  the total, assigned at random (`director.c:354`, `Director!AssignCounter`).
- The README's example configuration (lines 105-117) is refused: `fscanf` stops at
  the first `#`, and the values after it stay zero (`director.c:148`;
  `ReadmeExample` is one of the files of the run `configuration`).
- Without a directory `log/`, which the build does not make, `log_init` fails
  unnoticed and `log_stop` calls `fclose(NULL)` (`logger.c:258`; `fp = "undefined"` in
  `Logger`).

### Fairness

`FairSpec` assumes strong fairness of each process's steps and weak fairness of
the handling of its signals. Strong, because what a process waits for (a mutex, a
token, a slot in the message queue) is offered and withdrawn; Linux queues the
waiters of a semaphore and of the message queue in order, so that one that
is offered it again and again gets it. Nothing is assumed of the environment's
signals. Fairness never obliges a signal to come at a particular moment, so lost
wakeups remain possible: `HangCause` lists them, and
`DirectorEndsOrHangIsExplained` says there is no other reason not to end. The run has no
Ctrl+C, which is a cause in itself (the run `shutdown` has it, and is about
safety). Two causes take two users or three: an operator that died with its report unsent,
and requests that fill the message queue while its only reader wants to send.
With two users the liveness graph is beyond the time we allow a run; in its
place `tickets` checks `StuckOnlyIfExplained`, the part of the question that
is an invariant: no state in which nobody can move has another cause. That some go
round for ever while another waits is ruled out for one user only.

`Startup` needs weak fairness of the director and of each child only, since what
they wait for (a message, the end of a child) is not taken back; nothing obliges a
crash, a signal that cuts `waitpid` short, or a child to fail. `Logger` needs that a
call that has begun goes on (`GoesOn`); nothing obliges `malloc` to fail, so that a
call may not be excused by a failure that need not come.

### Mutants

For each property, `PROJECT.json` names a definition and a mutated form of it
that breaks the property under the run's own configuration: a forgotten unlock
on an early return, a dropped second look at `DAY_ACTIVE`, a missing reset of a
flag, an off-by-one, a lock that does not wait. The mutated operators stand next to the originals and are
used by nothing else.

## 4. Theorems

Every invariant the passing runs check is also a theorem, for every value of the
constants, except for `StuckOnlyIfExplained`, which needs ENABLED; and so are the three
safety properties that are not invariants, `ImplementsFifo`, `CallsProgress` and
`RefusedOnlyIfTooLong`.

### The post office

`PostOfficeProofs` and `TicketProofs`, for any number of operators, users,
counters, services, days and signals, from `ConfigAssumption` (what
`read_config_file` accepts) and `ProcessAssumption` (the processes are finitely
many and distinct). Each layer uses the ones before it.

*Types.* `TypeCorrect`: `Spec => []TypeOK`. The invariant is inductive because the
types of the locals say what each program counter needs: a user past the dice
has a service, a dispenser that handles a request has one, the director's
cursor is in the range of the loop it is in. One lemma per process and one
step per action, with a frame lemma for the groups of variables an action
leaves alone.

*Mutual exclusion.* `MutexCorrect`: `Spec => []CriticalSectionsExclusive`. For each
mutex, the set of processes inside its critical section has at most one member,
and it is empty exactly when the mutex is 1. Each program is looked at alone: a
step of it enters a mutex's critical section (1 to 0), leaves it (back to 1), or
does neither (`MutexStep`), and a step of that form by one process keeps the
relation whoever the others are (`StepKeepsGuards`). The property leaves out the
mutexes that are removed with the semaphore set, and those of the queues once a
director has failed: failing while it flushes one, it really leaves it locked
(`director.c:87`).

*Barriers.* `DayBarrierHolds` and `OperatorsQuietAtCleanupHolds`. `DayBarrier`
alone is not inductive: it has to be known that the director leaves
`wait_for_initialization` with every child started (`StartBarrier`, the same
count over the INITs), that no operator has two mornings ahead of it (`Calm`,
while the director has sent no SIGTERM) and that after the SIGTERMs none begins
one (`Quiet`). Both barriers are a count of processes that owe a message plus
messages on their way plus messages received; a step takes at most one process
out of the set and then adds one message (`CountStep`). Given the count,
`received = NOF_WORKERS` means that nobody owes anything, so the next SIGUSR1
finds every operator idle.

*Counters and queues.*
- `CounterExclusiveHolds`: `CounterInv` adds that a counter an operator has found
  free in its scan (`claiming`) stays free until it claims it, because it holds
  the counter's mutex, and that the director clears and assigns the counters
  when no operator is at work (the barrier).
- `TokensBackedHolds`, and from it `ScanAlwaysFindsHolds`. `TokensBacked` is its
  own inductive form: for every index `k`, no more operators have a scan at or
  beyond `k` than free counters lie there, so that a scan that passes the last
  counter would be one of more than none. One lemma for each kind of step: a
  token taken or posted (`TokenKept`), a scan that begins
  (`StartScanKeepsTokens`), passes a taken counter (`SkipCounterKeepsTokens`) or
  claims one (`ClaimKeepsTokens`), a release (`ReleaseKeepsTokens`), and the
  morning's SETVALs (`OpenDayBacksTokens`). The branch at `operator.c:132`, which
  gives the token back, is dead code.
- `QueuesStayFlushedHolds`: the dispenser reads DAY_ACTIVE again while it holds
  the queue's mutex, and the flush takes the same mutex after DAY_ACTIVE was
  cleared, so no ticket is on its way into a queue that has been swept
  (`SweepInv`).
- `JobsCoverQueueHolds`: `DutyInv` says that no SIGUSR2 of an earlier evening is
  still pending when an operator begins a day: it would drop a job it had taken
  and leave a ticket without one.

*Tickets.* The requests, tickets and answers of user `u` are a sum, `TicketsOf(u)`:
in the message queue, in the dispenser's hands, in the service queues, at the
counters, in the director's hands during the flush, in the user's reply box.
- `TicketConservationHolds`. The inductive form is `TicketInv`. It adds
  that until the director stops the children nobody else has been told to stop
  (`Undisturbed`: this is what makes the EINTR exits of `user.c` and
  `erogatore_ticket.c` harmless before that) and what a process with a ticket in
  hand is doing (`InHand`). For each program one lemma says how a step moves a
  ticket from one place of the sum to the next (`DispenserCarries` and its like);
  a user gets a new one only when it has none.
- `ReplyMatchesHolds`, with `MatchInv`: at each of the six places, what is there of a
  user is about `wants[u]`. Conservation makes it inductive: when a user draws its
  next service it has nothing out that could be about the last one
  (`NothingToMatch`).
- `StatsConservedHolds`, with `BooksInv`: for each service, requests = served +
  not served + those waiting or in the hands of a process that has still to count
  them. `TicketInv` is needed for the flush, which counts a ticket only after it has
  taken it out of the queue. A dispenser that failed in its signal path is excluded as in
  the property: it may have left a request counted and neither served nor refused.
- `CountEqualsFlushHolds`, with `EveInv`: what has been counted equals what has been
  flushed plus what is still in the counted queues, though operators and dispenser run on
  between the two walks. It needs the mutexes, and that no ticket is
  on its way into a counted queue.
- `MailboxBoundHolds`: each message is the report of an operator, the INIT of a child, or
  a request or answer of a user, and conservation gives each user at most one of those. Before
  the first day (`Dormant`) and after the SIGTERMs (`NoneLeft`) the bound has
  reasons of its own.

### Sums

The installed provers cannot instantiate the induction theorems over finite sets
and sequences, so nothing can be proved of a fold. A sum of naturals over a finite
set is therefore written as the cardinality of a disjoint union (`Tally!Pairs`),
and a count in a sequence as the cardinality of a set of places (`Tally!Places`).
Steps are then proved with the cardinality theorems of the library: `PairsStep`
says that changing one member of a family changes the sum by the difference,
and the lemmas about `Append`, `Tail` and one more day follow from it. No sum
over a whole instance has ever to be computed in a proof.

### Statistics

`StatisticsProofs`, for any number of operators, users, services and days, from
`StatisticsAssumption`:

- `StatisticsTypeCorrect`, together with `WorkInv`: who is inside an update holds the
  mutex, each process makes only its own updates, the director has in hand what
  its phase says, and while it prints nothing changes under it (`Drafted`; of the
  number of active operators, which it counts before it has the mutex, the same holds
  because every operator is through with its day).
- `ReportsConsistentHolds`, with `FigureInv`. The counters themselves do not always
  match: somebody may be half-way through an update. They match when nobody is,
  and when somebody is they match once that update is complete (`DailyAfter`,
  `TotalAfter`). The reset goes the other way round, services first.
- `PausesPerActiveOperatorHolds`, with `WorkerInv` and `PauseInv`: the pauses counted
  today are at most the operators that are through with their day or with counting
  their pause (`Gone`).
- `ReportsAddUpHolds`, with `DispenserInv` and `AddInv`. For users served and for
  pauses the days add up exactly. For refusals "at most one for each user and
  night" is not inductive night by night: a request may wait in the message queue
  from one day into the night of another. What is inductive is a budget: the
  refusals lost so far, plus the users that can still lose one (`Tokens`), are never
  more than the nights times the users.

### The smaller modules

`ServiceQueueProofs`, for every capacity and every set of tickets:

- `RingIsConsistent`: `Spec => [](TypeOK /\ RingConsistent)`, and
  `RingTypeCorrect`. `RingConsistent` ties the three integers together
  (`tail = (head + length) % MAX`) and says which slots hold a ticket; it is
  inductive together with the types. The work is in the arithmetic of the
  wrap-around (`ModSmall`, `ModWrap`, `SlotAtInjective`, `SlotAtNext`).
- `RingImplementsFifo`: `Spec => ImplementsFifo`, by a step-by-step argument: a
  push appends to `WaitingTickets`, a pop removes its head, a reset empties it,
  the other calls only answer.

`ConfigurationProofs`, for every set of files (sequences of any length) and any
number of services, from `FilesAssumption` and `ServicesAssumption`:

- `ConfigTypeCorrect`: `Spec => []TypeOK`.
- `AcceptedUsable`: `Spec => []AcceptedIsUsable`. The interval the director
  divides by is not empty because clamping is monotone (`ClampMonotone`).
- `SemaphoresAreApart`: `Spec => []SemaphoresApart`, arithmetic on the layout of
  the set (`SemaphoresDistinct`).
- `ValuesFromFile`: `Spec => []ConfigFromFile`. Inductive with the fact that the next
  token to read is at an odd place, so that a pair read adds one place to
  those of its key and none to the others (`OneMoreSetting`).

`LoggerProofs`, for every message, width and buffer size, from `LoggerAssumption`:

- `LinesAlwaysFit`: `Spec => []LinesFit`.
- `LinesFollow`: `Spec => []LinesFollowMessage`. The property places every
  character by a definition of wrapping that knows nothing of the loop: a line
  starts at each place whose distance from the beginning of its paragraph is a
  multiple of the width. `WrapInv` says that `write_buffer` stands at such a
  place whenever something is left to print; then the next line is exactly the
  one the definition begins there (`NextLine`), and printing it keeps both
  (`LineKeepsWrap`, `LineFollows`).
- `CallsAlwaysProgress`: `Spec => CallsProgress`, each step of a call enlarges the
  buffer or shortens what is left.
- `OnlyTooLongRefused`: `Spec => RefusedOnlyIfTooLong`: a call ends with "too long" only
  if no buffer of at most `LOG_MAX_BUFSZ` bytes holds the message.

`StartupProofs`, for any number of children, runs and crashes, from
`StartupAssumption`:

- `StartupTypeCorrect`: `Spec => []TypeOK`.
- `NothingStale`: `Spec => []NothingStaleInUse`. The invariant says how far the
  removal has come (what `step` has passed is gone or belongs to this run) and that an
  object is never of a later run than the present one.
- `OrderlyExit`: `Spec => []OrderlyExitLeavesNothing`: at `cleanup` each object is either of
  this run and has an id, or is gone.
- `MissingAreOrphans`: `Spec => []MissingOnesAreOrphans`: the INITs received and
  waiting are as many as the processes that reported to this run's queue; a counting
  argument with `FiniteSetTheorems`.

### Only model-checked

The liveness properties, `EveryUserAnswered`, `DirectorEndsOrHangIsExplained`,
`StartsOrExplained` and `EveryCallReturns`, and the invariant `StuckOnlyIfExplained`: TLAPS has no rule for fairness or
ENABLED here. For the last one `CallsAlwaysProgress` proves the measure that makes
each loop end. The two findings are counterexamples and need no proof.

## 5. Plan

1. *(done)* The four programs, their composition and properties, the ring
   buffer and its refinement; configuration, start and restart, statistics, logger.
2. *(done)* Proofs of every invariant of the runs, of the refinement of the
   ring buffer and of the progress of a call.
3. Abstract specifications and their refinements: a pool of counters (claim and
   release) that the token, scan and mutexes of `Operator` implement; the life of
   one ticket (asked, waiting, served or refused, answered) that the four
   programs implement. `TicketInv` and `CounterInv` are most of what their
   step-by-step proofs need.
4. Action properties with their proofs: a user's answer is taken once, a counter
   released only by the operator that claimed it.
5. A liveness instance with two users, if the state space allows;
   `StuckOnlyIfExplained` stands in for it.

## 6. Not modelled

The wording and the averages of what is printed, the sums of minutes they are
made of, the prefix of log lines, failures of system calls other than by signals,
exhaustion at the start or removal of the IPC objects, and processes that do not
belong to the simulation touching its IPC objects. `Startup` takes the days as one step, so
a child that loses its objects in the middle of a day of the next run appears there only as
one that leaves; what the days themselves do is `PostOffice`, which has one run
and no orphans.
