# CogniMesh verification

TLA+ modules, TLC configurations and TLAPS proofs about CogniMesh (this
repository, in JavaScript): an orchestration server in which a BIOS supervises
the process, workflow and queue engines run tasks on agents, and domain services
keep the records. The part modelled so far is the control core (the BIOS, the
workflow engine with its pool of agents, the scheduler that dispatches tasks to
agents, the lock manager, the task scheduler, the priority queue, the circuit
breaker) and what several processes or calls share in the database: the pool of
connections with its transactions, and the runs of routines. All paths below are
relative to the repository's `src/`, those of documents and `docker-compose.yml` to
its root.

Contents: 1 the system, 2 the plan, 3 the modules and the code, 4 the runs,
5 fairness, 6 the proofs, 7 what is only model-checked, 8 what is not modelled,
9 where code and documents disagree.

## 1. The system

Everything runs in one Node.js process and one thread. Concurrency means
asynchronous calls that interleave at their awaits, timers, and event listeners
that run inside the emitter's turn. Between two awaits a handler is atomic, and
that is the grain of every action here. A second process appears only through
the database (claims of runs, locks of routines) and through saved state.

| Component (src/...) | State it keeps | Operations | Talks to | Hard parts | What makes it correct |
|---|---|---|---|---|---|
| BIOS (`bios/index.js`, `bios/modes/*`) | `_state`, `_transitioning`, registered components, five mode objects with their own state, the operational queue | boot, transitionTo, critical alert, shutdown, reset, register | calls the modes, listens to the system monitor | every call awaits several times, and a critical alert comes in between | one transition at a time, the lock is always given back, a critical alert ends in safe mode, tasks keep to their limit |
| GSD engine (`engine/engine.js`) | instances with pending, running and completed tasks | start, pause, resume, stop, shutdown | acquires agents of the pool, listens to it | a resumption starts a second loop, one failure of a batch, continuations in order | dependencies first, completion means all tasks, everything comes to an end |
| GSD agent pool (`engine/agent-pool.js`, `engine/agent.js`) | agents, the available list, queued calls | acquire, release, scale, health check, shutdown | the engine, agents' events | every agent is released twice, a timed-out call stays queued | bound of the pool, one task per agent |
| GSD lock manager (`engine/lock.js`) | store of entries, expiry timers, sleeping acquirers | acquire with retries, release, extend, isLocked, forceRelease, dispose | nothing uses it yet | timer against takeover, re-entrancy, retries | mutual exclusion of unexpired grants, timers match entries |
| Task scheduler (`queue/scheduler.js`) | map of tasks, timeouts, cron jobs, dependency lists | schedule, scheduleAfter, scheduleRecurring, scheduleWithDeps, cancel, pause, resume, stop | user functions, cron | overlapping runs, retries after a sleep, notification of dependents | dependencies first, nothing cancelled starts, dependents do start |
| Priority queue (`queue/task-queue.js`) | heap, index of positions, map of tasks | enqueue, dequeue, reprioritize, remove, clear, toArray | `dashboard/server.js` | index arithmetic over sequences of calls | serves the most urgent, oldest task |
| Circuit breaker (`middleware/circuit-breaker.js`) | state, counters, opening time, half-open count, saved file | canExecute, execute, record*, force*, save, load | `agents/supervisor.js`, routers | late results, restore after a crash, half-open exhaustion | opens at the threshold, rests, closes through half-open, never stuck |
| Connection pool (`db/connection/`, `db/repositories/`) | connections with their handles, use and failures; SQLite's transactions | acquire, release, run, withTransaction, health checks, cleanup, close | every repository | a check or a creation is awaited while connections change hands; statements given up on are executed later | a handle is with one call, idle connections are clean, success means committed |
| Executor, dead letters, monitor (`queue/`) | attempts, batches, failed tasks | execute, parallel, batched, add, retry | the queue, the dashboard | timed-out attempts go on, eviction during retry | attempts bounded, a dead task is in one state |
| Agent scheduler (`agents/scheduler.js`, `agents/index.js`) | queues per priority, active tasks, agents and their load, timeouts | submit, cancel, register and unregister agents, process the queues, start and end tasks, dispose | the agent pool, by the handler of `taskScheduled` | agents leave and timeouts fire while handlers await an agent | a task is in one place, no load stays behind, priorities are kept, tasks end |
| Agent supervisor and pool (`agents/`) | supervised agents, breakers, restarts | health check, restart | circuit breaker | results recorded under an old id | restarts bounded, breaker per agent |
| Routines (`domains/routines/`) | routines, runs and lock rows in the database; runs each process executes | cron runs, run, retry, cancel, delete, poll, execute, clean up locks, stop | the database, started by the BIOS | several processes, crashes, locks that outlive their process | one execution of a routine at a time, no run stays running, pending runs start |
| Heartbeat runs (`runtime/`) | queued runs, wakeups, sessions | claim, execute, cancel | the database | two workers claim one run | a run has one worker |
| Approvals (`domains/approvals/`) | approval rows | approve, reject, escalate, expire | the database | two reviewers at once | one decision |
| Billing (`domains/billing/`) | budgets, costs, alerts | check, record, reset | the database | check and spending apart | spending within the budget |
| WebSocket server, webhooks, alerts, model router | connections, deliveries, cooldowns, caches | publish, deliver, evaluate, route | everything above | delivery and retry | see the plan |
| Records, HTTP, clients, plugins, database layer, utilities | rows, requests | one statement or one external call each | | I/O | taken as external |

`PROJECT.json` lists all components with their sources and status, and under
`hazards` what is hard to test in them, line by line.

## 2. The plan

Modules in the order of their importance to the system.

Done:

1. `Bios`: the state machine of the process, with `BiosProofs`.
2. `LockManager`: leases with timers; proofs in `EngineProofs`.
3. `Scheduler`: triggers, runs, retries, dependencies, with `SchedulerProofs`.
4. `CircuitBreaker`, with `CircuitBreakerProofs`.
5. `TaskQueue`, which implements the abstract `PriorityQueue`, with
   `TaskQueueProofs`.
6. `AgentPool`, composed into `GSDEngine`; proofs in `EngineProofs`.
7. `Routines`: runs executed by several processes over a lock table, with
   `RoutinesProofs`.
8. `ConnectionPool`: the pool, composed with its clients' transactions and an
   external SQLite, with `ConnectionPoolProofs`.
9. `AgentDispatch`: the scheduler of agents composed with the manager's handler,
   with `AgentDispatchProofs`.

Left, in this order:

10. `HeartbeatRuns`: the claim of a queued run by several workers, cancellation,
    wakeups.
11. `Executor` with `DeadLetters`: attempts that go on after their timeout, the
    gate of parallel(), eviction and retry; the abstract promise is that a task is
    under way, done or dead.
12. `Supervisor` composed with `CircuitBreaker` by INSTANCE.
13. `Approvals` and `Budget`: decisions and reservations over one row.
14. WebSocket rooms, webhooks, alert cooldowns, the BIOS orchestrator.

Every safety property of the runs that hold is a theorem by now (section 6). The
modules left in the plan come with proofs of their own; what is worth proving of the
present ones is `GrantsAgree` for several managers, once the code tells their timers
apart (section 9), and an abstract specification each for the lock manager (a lease)
and for the breaker.

## 3. The modules and the code

`PROJECT.json` maps every definition to its lines. In outline:

**Bios.** `state`, `transitioning`, `components` are `_state`, `_transitioning`
and the keys of `_components` of `bios/index.js`; `listening` is whether the
`critical` listener is on the monitor; `world` is the state of the modes: which
are active, and the operational mode's waiting and running tasks. `calls` holds
each call in flight, with the await it is at. `Boot`, `Transition`, `Critical`
and `Shutdown` are the calls up to their first await; `BootDiagnosed`,
`TransitionExited`, `Entered`, `CloseComponent`, `SafeEntered`, `ShutdownExited`,
`ShutdownDone` and `Fail` what follows each await. The exits and enters of the
five modes are the operators `ExitBegin`, `ExitEnd`, `EnterBegin`, `EnterEnd` on
`world`. Left out: `previousState`, histories, reports, the jobs of modes that
touch nothing of this.

**LockManager.** `store` and `timers` are the maps of `engine/lock.js`, `pending`
the acquire() call an owner sleeps in, `callback` the callback just invoked, and
`lease` is a history variable: until when an owner was last told it holds the
lock. The clock is discrete. The module is written for any number of managers
over one store; the run and the safety theorems are about one.

**Scheduler.** `tasks` and `order` are `scheduledTasks` (its iteration order
decides the order of notifications), `timeouts` and `cronJobs` the triggers,
`runs` the bag of executions that have not returned. `seen` is history. A timeout
may fire at any moment: delays are abstracted.

**CircuitBreaker.** The private fields by their names; `openedAt` is kept as
"recent" or "old" with respect to the timeout, `inFlight` counts calls that await
their function, `saved` is the file. `rested` is history.

**TaskQueue / PriorityQueue.** `heap`, `indexMap`, `taskMap`, `enqueueSequence`
as in `queue/task-queue.js`. `HeapifyUp`, `HeapifyDown`, `RemoveTask`,
`UpdatePriority` are the methods of the heap. The body of each loop is an operator of
its own (`Rise`, `Sink`, `InsertOne`, `ExtractOne`); the loop applies it as often as it
can be needed, and a round of the first two that finds nothing to swap changes nothing,
as if the loop had ended. `PriorityQueue` is what the queue
promises: a set of tasks, of which the most urgent and oldest is served;
`Abstract` is the refinement mapping (the set of the map's tasks).

**AgentPool / GSDEngine.** The pool's methods run inside their caller's turn, so
`AgentPool` defines them as operators on its variables and `GSDEngine` conjoins
them. `jobs` is the queue of continuations: the event loop's order decides who
gets which agent, so it is modelled; calls from outside, timers and the end of
work come when it is empty (`Quiet`). An instance has a loop per call of
`_executeWorkflow()`, because `resumeWorkflow()` starts another beside one that
still sleeps or waits. `pendingTasks`, `batch` and `loopAt` are the locals of each
loop. `waiting` and `taskQueue` are kept apart since a call that timed out stays in
the queue. `_performExecution()` of the agent is documented as to be overridden
and succeeds after 10 ms in the base class: here the work takes any time and may
fail. One instance is modelled: instances share only the pool, whose scaling and
waiting are covered by the loops of one. Polls of a sleeping loop that find no
change are stutters.

**ConnectionPool.** `pool`, `db`, `inUse`, `failures` are `#pool` and the fields of
its entries. Each client has one call: `call` is the statement it is at, `acquiring`
what acquire() waits for, `conn` the handle it works on. `outer` is the handle of a
transaction whose function called the pool again, as `RepositoryFactory.transaction`
makes it do. `check` and `checked` are the rounds of health checks, `phase` is how
far close() has come. `open`, `inTx`, `writes`, `committed` and `late` are SQLite's:
which handles are open, which have a transaction, what was written in it, and the
statements whose promise a timer rejected but which will still be executed.
`tainted` (the handles with such a statement) is history. #withRetry is not there
since it never repeats a call (section 9). Entries and handles nobody refers to are
reused, so a small set of each stands for any number over time.

**Routines.** `status`, `routine`, `active` are the tables of runs and routines,
`lockRun`, `lockBy`, `lockAge` the lock rows; a lock's age is "held", "expired" or
"outdated" (the UTC date of its expiry is over), the three the code's two
comparisons tell apart. `mode`, `listed`, `firing`, `executing` are what each process
knows. `revoked` (executions whose lock somebody else deleted) and `orphans` (runs
whose process died) are history. A cron run is a SELECT and an INSERT with another
process's statements possible between them; a poll keeps the list it read while it
works through it.

**AgentDispatch.** The fields of `AgentScheduler` by their names. `level` and
`available` are the position and the local of a `_processQueues()` in progress,
`leaving` the agent being unregistered: both run without an await, so everything
else waits until they are over (`Idle`), and each of their iterations is a step.
`handlers` and `timeouts` count the pending handlers of `taskScheduled` (which
await `pool.acquire()`) and timers per task. `dropped` and `restarted` are history.
The strategy that picks among candidates is left open. AgentManager starts a task
with the id of the agent the pool gave it, so `HandlerStarts` takes any agent.

## 4. The runs

| Run | Bounds | Shows |
|---|---|---|
| `bios_concurrent` | 2 calls in flight, 1 component whose shutdown may throw, limit of 1 task, none queued | `TransitionLock`, `CriticalEndsInSafeMode`, `TransitionEnds` at every interleaving of two calls |
| `bios_sequential` | 1 call, 2 components, limit of 2 tasks, 2 queued | `TaskLimits` across forced exits, `ReportedModeIsActive` |
| `lock` | 1 manager, 2 owners, 1 resource, TTL 1-2, retries 0/2, 5 ticks, re-entrancy 2 | `GrantsAgree`, `MutualExclusion`, `ExpireCallbackIsTrue`, `ExpiredLockIsFreed` |
| `scheduler` | one one-shot id, one id both recurring and dependent, one dependent, 1 retry, 2 runs | `TypeOK`, `TasksAndRunsAgree`, `DependenciesFirst`, `DependentsStart`, `OneShotsSettle` |
| `breaker` | thresholds 2, 3 half-open calls, 3 in flight, 2 operator steps | `ClosedBelowThreshold`, `HalfOpenNotStuck`, `OpenRests`, `OpenClosesThroughHalfOpen`, `CircuitMoves` |
| `task_queue` | 6 ids, 2 priorities, 7 arrivals, symmetry of ids | `TypeOK`, `HeapOrdered`, `IndexAndMapAgree`, `ToArraySorted`, `ImplementsPriorityQueue` |
| `gsd_engine` | 4 tasks (d needs a and b), 1-2 agents, 1 resumption, 2 scalings | `AgentsAndTasksAgree`, `CompletedMeansAll`, `LaunchesAreReady`, `EverythingSettles` |
| `pool` | 2 clients with a call each, pool of 1, 3 entries and handles, 1 round of checks with 1 failure, 1 statement given up on | `HandlesAreExclusive`, `PoolSizeBound`, `IdleConnectionsAreClean`, `OkMeansCommitted`, `CallsAndCloseEnd` |
| `pool_atomic` | 1 client, pool of 2, no timeouts or failed checks | violated, `TransactionsAreAtomic`: what the function of a transaction wrote stays when it is rolled back |
| `routines` | 2 processes, 1 routine, 2 runs, 1 at a time per process, 1 outage | `OneExecutionPerRoutine`, `RunningIsExecuted`, `PendingRunsStart` |
| `routines_lock_timeout` | the same with 2 routines that skip if active | violated, `CleanupFreesExpiredLocks`: the cleanup leaves locks that have run out |
| `dispatch` | 2 tasks of 2 priorities, the urgent one for 1 of 2 agents, 1 task per agent, queue of 1, 2 registrations | `TasksAreInOnePlace`, `LoadIsOfRunningTasks`, `PriorityOrder`, `ActiveTasksEnd` |

Why the bounds are enough: two calls are the least that interleave in the BIOS
(what is proved of it holds for any number). Two owners with
retries contain takeover, renewal and a sleeper; five ticks let a lock of the
longest TTL be granted, run out and be granted again. An id that is both recurring
and dependent is the smallest in which a completed dependency starts again. A
threshold of two separates "one too few" from "enough", and three calls in flight
separate a late result from two. A heap needs six entries for a removal to move
its last entry up rather than down. Four tasks on at most two agents contain an
agent given out twice, a call that waits, one that times out behind another, a
batch of which one fails, and a second loop.

Two clients of a pool of one contain the overshoot of the maximum, a transaction
that waits for a second connection while the other client holds it, a reconnection
under a client's feet, and a statement that is executed after its connection went to
the other client; the third entry and handle are for a reconnection beside both. Two
processes and two runs of one routine contain the race for the lock, a run that one
process executes twice and a lock whose process died, which only the cleanup frees. Two agents, two registrations and a queue of one
contain an agent that leaves with a task scheduled, running or queued, a task
scheduled twice with two handlers and two timeouts, and an agent too busy for the
urgent task. The theorems of section 6 free all of these bounds but those of the
liveness properties.

Every property is checked against a mutant of the code's own definition
(`PROJECT.json`, `mutants`): an operator beside the original, with a plausible
mistake, under which TLC finds the property violated.

Deadlock is not checked in `gsd_engine` (an engine that was shut down stops for
good), `pool` and `pool_atomic` (a pool that was closed, with no call left to make),
`routines_lock_timeout` and `routines` (stopped schedulers, all rows used), and
`dispatch` (all tasks ended, all registrations used); it is in the others.

## 5. Fairness

- `Bios`: every await settles (`WF` of each call's `Step`): modes bound their
  waits by timeouts (`operational.js`, `maintenance.js`), and a component's shutdown
  is assumed to end. Nothing assumes that anybody calls.
- `LockManager`: a timer whose deadline has passed fires. Not that time goes on
  beyond the bound, nor that owners do anything.
- `Scheduler`: timeouts fire, the functions settle, sleeps end. Cron jobs need not fire.
- `CircuitBreaker`: calls keep coming and settle, time passes; the operator
  steps in finitely often. Without calls an open circuit rightly stays open.
- `GSDEngine`: `WF` of `Progress`: continuations run, timers fire, work settles,
  a wait ends at its timeout. Calls and scalings need not happen. A paused
  workflow may stay paused, and `EverythingSettles` says so.
- `ConnectionPool`: `WF` of `Progress` (the loop of acquire() comes round, SQLite
  answers), of `LateStatement`, of the steps of a round of checks and of `Close`,
  whose wait ends after thirty seconds. `AcquireTimesOut` is strongly fair: a call
  that is waiting alternates with one that tries again, so its timeout is enabled
  over and over but not all the time, and the clock that acquire() compares
  (`db/connection/index.js` l. 321) passes acquireTimeout all the same. Nobody has to
  call, check or close.
- `Routines`: the timers of a scheduler that is up fire (poll, deferral, cleanup), a
  stop() that waits comes to its end, executions end at their timeout, time passes,
  and a process that died is started again, which is `restart: unless-stopped` of
  `docker-compose.yml` l. 14. A scheduler that was stopped need not start again, and
  `PendingRunsStart` excepts that all are.
- `AgentDispatch`: the synchronous runs end (`Pass`, `Leave`); a timeout is strongly
  fair, since it is disabled whenever such a run is under way, though never for
  long. Nobody has to report the end of a task.

## 6. The proofs

`tlapm` checks them for every value of the constants that satisfies the named
assumptions of the modules. The text names what each inductive invariant says
beyond the properties, and why. Those of `GSDEngine`, `Scheduler` and `TaskQueue` were
checked by TLC on small instances before they were proved.

**BiosProofs** (`BiosAssumption`): `BiosTypeCorrect`, `BiosTransitionLock`,
`BiosTaskLimits`, `BiosReportedModeIsActive`. The lock is held exactly while a transitional call is in flight;
that is not inductive on its own, because what a call does next depends on what
it brought along: `Inv` adds `CallShapes`, which says for every call in flight which
await it can be at, in which mode and with which target. The other operators have
lemmas of their own: what an exit or enter of a mode does to the tasks.
`BiosReportedModeIsActive` is about calls that come one at a time (`OneCaller`, as in
`bios_sequential`): `LoneInv` adds `ModesFollow`, which says of the call what mode it
found or made active. An exit that can fail is the drain of OPERATIONAL, so it leaves
the state it started from true; an enter of DIAGNOSE has that mode active already; safe
mode is active, or waits only for components to close.

**CircuitBreakerProofs** (`ThresholdAssumption`, `BoundAssumption`): the types,
`BreakerClosedBelowThreshold`, `BreakerHalfOpenNotStuck`, `BreakerOpenRests`,
`BreakerOpenClosesThroughHalfOpen`. `Inv` adds that the saved state also respects
the threshold (a restore would break it otherwise), that the half-open calls that
are used up are accounted for by calls in flight or successes, and that a circuit
that has not rested was opened recently.

**EngineProofs** is about the modules of `engine/`. The engine with its pool
(`PoolAssumption`, `EngineAssumption`): `TypeCorrect`, with the bound of the pool;
`CompletedAll` and `LaunchedWhenReady`. The invariant, `Inv`,
has three parts besides the property. `LaunchJobs`: launches come first in the
queue of continuations, each of a task whose dependencies are complete, in the batch
its loop awaits, so that nothing comes between the decision and the launch.
`LoopJobs`: a loop has at most one turn queued, and is running while it has.
`Covered`: a loop that has not ended knows of every task that is not complete, as
pending or in its batch. A loop that stops because nothing can start and nothing
runs would be the way to complete too early: lemma `StuckIsDone` shows that then
nothing is left, since the planner refuses cycles.

`AgentsAndTasks` rests on the same assumptions. The property says that
the marks agree with what is going on; what makes it inductive, `TaskInv`, is where
each call of acquireAgent() is. `Places`: it waits, or an agent works for it, or one
continuation stands for it, and never two of these. `OneLoop`: two loops never have
one task under way. `Counted`: the running tasks are those of active calls.
`NewLaunches`: a launch in the queue is the only one of its task, which is not
running; that it stays so is why `LaunchJobs` of `Inv` is needed. `BusyWork`: the work
of the calls is one-to-one with the busy agents. The lemmas on queues (`ConcatJobs`,
`HeadAndTail`, `TurnJobs`) say what a turn does to the jobs of one call, and three
lemmas cover what a step can do to the active calls: keep them, add one, end one.

The locks (`ConstantsAssumption`, `NoneAssumption`): `LockTypeCorrect` always;
`LockSafety`, `LockMutualExclusion`, `LockExpireCallback` for one manager
(`OneManager`) and callers that extend only their own lock (`VerifiedExtend`). The
inductive invariant `LockInv` pairs "a timer stands for the entry in the store,
with its deadline" with "a lease that has not run out is in the store under its
owner": each needs the other at the expiry timer and at takeover. With several
managers over one store it is false (section 9).

**SchedulerProofs** (`SchedulerAssumption`): `SchedulerTypeCorrect`,
`SchedulerTasksAndRunsAgree` and the two action properties
`SchedulerDependenciesFirst`, `SchedulerDependentsStart`. `Inv` adds to what the
properties say: the iteration order lists each id once (`OrderDistinct`), or the
loop of the notification could meet a dependent twice; a pending timeout belongs to a
one-shot task that has no run, not even of an earlier task of its id
(`TriggersFit`), or that run would end under it; a run that sleeps has an attempt left
(`RunsFit`); and a dependent does not wait for a dependency that has completed since
it was scheduled (`WaitingFits`), or the last one would not start it. A success tells
its dependents in a loop over the map whose rounds start tasks and so change what
later rounds read. `Follows` is what every round, and so every stretch of rounds, does
to the world: tasks are kept but for waiting lists that lose the completed id and
for dependents that are started. `DependentsNotified` joins the round that meets a
dependent with the rounds before and after it.

**TaskQueueProofs** (`QueueAssumption`): `QueueTypeCorrect`, `QueueHeapOrdered`,
`QueueIndexAndMapAgree`, `QueueToArraySorted`, and the refinement of the abstract queue,
`QueueImplementsPriorityQueue`: the initial state is one of `PriorityQueue`
(`QueueInitRefines`), and every step is one of its steps or a stutter
(`QueueStepRefines`). `Inv` adds that no two tasks have the same sequence and that all
lie below the counter; without it two tasks could come before one another in neither
order. Within an operation the array is a heap but for one task: `Apart` says its
neighbours would be in order without it, `MayRise` and `MaySink` on which side it may
be wrong. A round of a loop keeps this, one place further, or has nothing left to do
(`RiseRound`, `SinkRound`), so that `HeapifiesUp` and `HeapifiesDown` mend the heap
within as many rounds as there are places. `RemoveTask` does both, in the
code's order, and one of them finds nothing to do. That the root is the task to serve
follows from the order along the path to the root. The refinement also shows
what the caller sees: `dequeue()` returns the most urgent, oldest task.

The loops of both modules are functions over the number of rounds (or a fold whose
rounds are exposed as such a function), and what holds after each round is proved by
induction. The library's induction theorems take an operator and cannot be instantiated
here; lemma `Induction` states it of a set of numbers instead, from the fact that
the order of Nat is well founded.

**RoutinesProofs** (`RoutinesAssumption`): `RoutinesTypeCorrect`,
`RoutinesExcludeEachOther`, `RoutinesRunningIsExecuted`. `RoutinesInv` adds to the
types and to `RunningIsExecuted`: `KnownRuns` (what a process lists or executes is
a row of some routine) and `LocksHeld` (an execution whose lock nobody deleted has
the lock row of its routine, with its run and its process). The exclusion follows
from the last, since the row is one per routine; it is false without the history
`revoked`, because releasing, cleaning up and stopping delete rows by other keys.

**ConnectionPoolProofs** (`PoolAssumption`, `RoomAssumption`): the types,
`PoolHandlesAreExclusive`, `PoolSizeBounded`, `PoolIdleConnectionsAreClean`,
`PoolOkMeansCommitted`, for any number of clients, connections, overlapping rounds
of checks and timeouts. `PoolInv` is `Shapes` (which of its handles a call has at
which stage), `HeldApart` (no two calls have one handle), `IdleIsFree` (what the pool
offers nobody has) and `LiveDistinct`: no two connections in the pool or under a
check share a handle. The last is what makes a reconnection harmless: it
installs a new handle and frees the connection whoever has it, and the holder goes
on with the old, closed one. The size needs `RoomKept` (connections in the pool plus
creations in flight). `Transactions` has three parts that need each other: a
transaction no timer gave up on belongs to a call (`TransactionsAreHeld`), a call
comes to COMMIT with its write in that transaction (`CommitsHaveWritten`), and
`OkMeansCommitted`.

**AgentDispatchProofs** (`DispatchAssumption`): `DispatchTypeCorrect`,
`DispatchTasksAreInOnePlace`, `DispatchKeepsPriorities`,
`DispatchLoadIsOfRunningTasks`. `DispatchInv` joins the types with `Places` (the
queues hold the pending tasks, each once, in the queue of its priority) and
`PassKept`: a pass over the queues is not interrupted, and it has left no agent
still available for the head of a queue it has passed, which is why an agent given
to a lower priority can do no waiting urgent task. Lemmas on sequences (`HeadAndTail`,
`Appended`, `Prepended`, `Removed`) say what each operation does to a queue's set.
The load is inductive by itself (`LoadInductive`) once the types are known.

## 7. Only model-checked

- Liveness (`CriticalEndsInSafeMode`, `TransitionEnds`, `ExpiredLockIsFreed`,
  `OneShotsSettle`, `CircuitMoves`, `EverythingSettles`, `CallsAndCloseEnd`,
  `PendingRunsStart`, `ActiveTasksEnd`): a proof needs fairness, that is ENABLED,
  which the prover does not handle.
- The two findings, and that the mutants violate their properties: those are
  counterexamples.

The safety properties of all passing runs are theorems, those of the lock manager for
one manager and those of `bios_sequential` for calls that come one at a time, as in the
runs.

## 8. Not modelled

Within the modelled components: of the BIOS, reset(), the operations and rollback
of maintenance mode, scheduled jobs and the routine scheduler boot() starts when it
has a database (no caller of setDatabase() exists); boot is called in the state BOOT,
and transitions and critical alerts come after the first boot. Of the scheduler,
delays, and the re-use of an id whose earlier timeout is still pending. Of the
breaker, statistics, listeners and the registry. Of the agents, heartbeats,
recover() and retry(), which the engine never calls.

Of the connection pool, the creation of the first `minConnections` with the cleanup
after a failure, the statistics and events, and `EnhancedConnectionPool`. Of the
routines, creating and editing routines, triggers and assignments, and what an
execution does with its agent (it ends in one of the results the scheduler tells
apart). Of the agent scheduler, the choice among candidates, the metrics and the
history; its agents come from `agents/pool.js`, which is taken as a call that
answers with some agent or fails.

Components left out, with the reason, are in `PROJECT.json`: I/O (clients, plugins,
HTTP, updates), records whose operations are single statements, code that is not
reachable (`ParallelExecutor` cannot be constructed, `FileLock` is not imported;
`bios/kernel.js` l. 577-744 repeats the state machine of `index.js`), and what the
plan has left.

## 9. Where code and documents disagree

Two disagreements are shown by runs (`PROJECT.json`, `findings`): repository
transactions are not atomic (`pool_atomic`), and a lock on a routine outlives its
five minutes until midnight UTC (`routines_lock_timeout`). Others were met while
reading; they are not checked by a run.

BIOS. A transition in flight when a critical alert enters SAFE_MODE ends in its own
target and leaves SAFE_MODE for OPERATIONAL (l. 937), and tasks the operational mode
had queued start while the BIOS reports SAFE_MODE. boot() after shutdown() or
reset() fails, since `monitor` is still registered (`bios/index.js` l. 835, 1063),
although bios/CONTRACT.md l. 681 has "Any -> BOOT". A transition to SAFE_MODE whose drain
times out leaves the state OPERATIONAL with the mode stopped (l. 967). A failed
recovery leaves safe mode active, so the next critical alert shuts nothing down
(`safe-mode.js` l. 186). A critical alert in MAINTENANCE leaves maintenance mode
active and the next entry throws. The `critical` listener is not installed again
after a shutdown disposed of the monitor. bios/CONTRACT.md l. 680 lists SAFE_MODE ->
OPERATIONAL, the matrix does not.

Lock manager. acquire() and isLocked() drop an expired lock without onExpire (l.
124, 221; l. 24 says otherwise); extend() can shorten a lock (l. 201); an owner that
re-enters after the expiry inherits the old count (l. 116); two managers over one
store delete each other's locks with stale timers (l. 86-88).

Scheduler. A task that depends on two one-shot tasks never runs: the first leaves
the map when it completes, and then counts as not completed when the second does. A
dependent that was cancelled is still executed by the notification; a run that ends
overwrites CANCELLED and PAUSED; a late completion deletes a new registration of the
same id; dependencies that completed before the scheduling never trigger; a delay
above 2^31-1 ms fires at once.

Circuit breaker. Successes counted before the circuit opened count in half-open too,
so that fewer trial calls than the threshold close it. forceHalfOpen() on a breaker
that never opened, saved and loaded, is OPEN without an opening time and stays so
(the comment at l. 413 wants to "avoid stuck states"); a limit of half-open calls
below the success threshold, or a call that never settles, wedges the half-open
state; `fallback: false` is reported as success; the supervisor counts results twice
and listens to event names the breaker does not emit; ARCHITECTURE.md l. 953 names
an option `resetTimeout` where the code reads `timeout`.

GSD engine. resumeWorkflow() starts a second loop beside one that still sleeps or
waits, and a task that completes in the meantime can be run again by the other (the
comment at `engine.js` l. 411 says completed tasks are removed); the other loop of a
failed instance goes on launching; `stopped` and `completed` are overwritten by
`failed` when a task left over fails; a cyclic definition leaves an instance
`running` (l. 204, 221). `task.handler` and `task.timeout` are not used. Every agent
is released twice (`agent-pool.js` l. 387, `engine.js` l. 484), so the list of
available agents grows and holds busy ones, and scaleDown(), which says it removes
idle agents (l. 262), can remove those. The health check calls markUnhealthy(),
which does not exist, fifteen seconds after an agent was made. An agent that was
handed out is not busy until its task starts, and can be handed out again.

Connection pool. The pool exceeds maxConnections when calls create at once (l. 304,
by less than there are callers: `PoolSizeBound`). #withRetry retries nothing: the
codes of the pool's own errors match none of those it calls transient. release()
does nothing once close() has begun, so close() waits its full thirty seconds if any
connection was in use (l. 405, 900). An acquire() in flight may still create a
connection after close(). The `TransactionRepository` of
BaseRepository.transaction() gets `{}` where a pool belongs
(`db/repositories/base-repository.js` l. 331), so that every statement of it throws;
`docs/developers/DOMAIN_DEVELOPMENT.md` l. 376 shows it in use.

Routines. pauseRoutine() and resumeRoutine() always throw, for `status` is not among
the fields update() allows. A run cancelled while it runs is overwritten as
completed or failed. Cron runs and retries ignore the concurrency policy, and two
processes can each insert the cron run of one minute, between the other's SELECT and
INSERT (`routine-scheduler.js` l. 921).

Agent scheduler. getStats() throws (`priority` is undefined, l. 433). A head that
finds no agent ends the turn of its queue, where the comment at l. 547 says "try
next task". The load counts running tasks, not scheduled ones, so an agent can be
scheduled more tasks than maxConcurrent; a task that is started twice leaves its
first start in the load; an agent that registers again starts from no load. A task
given back to the queue keeps its first timeout, and may exceed maxQueueSize.
AgentManager marks a task started with the id of the pool's agent, which the
scheduler need not know, and never releases it (`agents/index.js` l. 171-177).
