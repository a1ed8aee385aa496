------------------------------ MODULE Scheduler ------------------------------
(* The task scheduler, src/queue/scheduler.js: one-shot tasks on a timeout,   *)
(* recurring tasks on a cron job, and tasks that run when the tasks they      *)
(* depend on have completed.  Every method runs without interruption; a task  *)
(* in execution is a run, which awaits task.execute() and, between attempts,  *)
(* a sleep.  Time is left out: a pending timeout, a started cron job, an      *)
(* awaited execution and a sleep may each end at any moment.                  *)
EXTENDS Naturals, FiniteSets, Sequences, Bags

CONSTANTS
    OneShots,      \* the ids given to schedule() and scheduleAfter()
    Recurring,     \* the ids given to scheduleRecurring()
    Dependents,    \* the ids given to scheduleWithDeps()
    MaxRetries,    \* task.maxRetries
    MaxRuns,       \* bound: no cron job fires, and no one-shot task is
                   \* scheduled, while this many runs are in progress
    None           \* "not in the map"

Ids == OneShots \union Recurring \union Dependents
Statuses == {"scheduled", "running", "completed", "failed", "cancelled", "paused"}
Task == [type: {"once", "cron", "dependency"}, status: Statuses,
         dependencies: SUBSET Ids, waitingFor: SUBSET Ids]
Run == [id: Ids, attempt: 1 .. (MaxRetries + 1), phase: {"executing", "sleeping"}]

ASSUME SchedulerAssumption ==
    /\ MaxRetries \in Nat
    /\ MaxRuns \in Nat \ {0}
    /\ None \notin Task \union {"started", "stopped"}

VARIABLES
    tasks,     \* this.scheduledTasks: the task of each id, or None
    order,     \* the ids in the map, in its iteration order
    timeouts,  \* the ids whose timeout in this.timeouts is still pending
    cronJobs,  \* this.cronJobs: the job of each id is "started", "stopped", None
    runs,      \* the runs of #executeTask() that have not returned, a bag
    seen       \* history: of each dependent, the dependencies that completed
               \* in the map since it was scheduled

vars == <<tasks, order, timeouts, cronJobs, runs, seen>>

Init ==
    /\ tasks = [id \in Ids |-> None]
    /\ order = << >>
    /\ timeouts = {}
    /\ cronJobs = [id \in Ids |-> None]
    /\ runs = EmptyBag
    /\ seen = [id \in Ids |-> {}]

Scheduled == {id \in Ids : tasks[id] # None}
Runs == BagToSet(runs)
FirstAttempt(id) == [id |-> id, attempt |-> 1, phase |-> "executing"]

-----------------------------------------------------------------------------
(* Scheduling.  Ids are unique (the generated ones are): a caller gives an id *)
(* again only when its timeout, its job and its runs are gone.                *)

Fresh(id) ==
    /\ id \notin timeouts
    /\ cronJobs[id] = None
    /\ \A r \in Runs : r.id # id

(* scheduledTasks.set(): a key already in the map keeps its place.            *)
Put(id, type, deps) ==
    /\ tasks' = [tasks EXCEPT ![id] =
                   [type |-> type, status |-> "scheduled",
                    dependencies |-> deps, waitingFor |-> deps]]
    /\ order' = IF id \in Scheduled THEN order ELSE Append(order, id)
    /\ seen' = [seen EXCEPT ![id] = {}]

(* schedule() and scheduleAfter(), which differ in how the delay is given.    *)
Schedule(id) ==
    /\ id \in OneShots /\ Fresh(id) /\ BagCardinality(runs) < MaxRuns
    /\ Put(id, "once", {})
    /\ timeouts' = timeouts \union {id}
    /\ UNCHANGED <<cronJobs, runs>>

(* The option `scheduled` says whether the cron job is started at once.       *)
ScheduleRecurring(id) ==
    /\ id \in Recurring /\ Fresh(id)
    /\ Put(id, "cron", {})
    /\ \E job \in {"started", "stopped"} : cronJobs' = [cronJobs EXCEPT ![id] = job]
    /\ UNCHANGED <<timeouts, runs>>

(* A task that depends on itself never runs, and is not explored.             *)
ScheduleWithDeps(id) ==
    /\ id \in Dependents /\ Fresh(id)
    /\ \E deps \in SUBSET (Ids \ {id}) \ {{}} : Put(id, "dependency", deps)
    /\ UNCHANGED <<timeouts, cronJobs, runs>>

-----------------------------------------------------------------------------
(* Running.  The operators below take and return a pair of the map and the    *)
(* runs, since a completed task starts others in the same step.               *)

(* Mutant of CheckDependencies: the status of a dependency is not looked at. *)
CheckDependenciesKnown(task, map) ==
    \A dep \in task.dependencies : map[dep] # None

CheckDependencies(task, map) ==
    \A dep \in task.dependencies : map[dep] # None /\ map[dep].status = "completed"

(* #executeTask() up to its first await.                                      *)
Execute(w, id) ==
    LET task == w.tasks[id] IN
    IF task = None THEN w
    ELSE IF task.type = "dependency" /\ ~CheckDependencies(task, w.tasks) THEN w
    ELSE [tasks |-> [w.tasks EXCEPT ![id].status = "running"],
          runs  |-> w.runs (+) SetToBag({FirstAttempt(id)})]

(* Mutant of Notify: the list is looked at before the completed id leaves it. *)
NotifyTooEarly(w, completed, id) ==
    LET task == w.tasks[id]
        told == [w EXCEPT !.tasks[id].waitingFor = @ \ {completed}] IN
    IF task.type # "dependency" \/ completed \notin task.dependencies THEN w
    ELSE IF task.waitingFor = {} THEN Execute(told, id)
    ELSE told

(* #notifyDependents(): the loop over the map runs what it completes as it    *)
(* goes, so a dependency it has just started is no longer completed.          *)
Notify(w, completed, id) ==
    LET task == w.tasks[id]
        left == task.waitingFor \ {completed}
        told == [w EXCEPT !.tasks[id].waitingFor = left] IN
    IF task.type # "dependency" \/ completed \notin task.dependencies THEN w
    ELSE IF left = {} THEN Execute(told, id)
    ELSE told

NotifyDependents(w, completed) ==
    LET after[i \in 0 .. Len(order)] ==
            IF i = 0 THEN w ELSE Notify(after[i - 1], completed, order[i])
    IN  after[Len(order)]

Start(id) ==
    LET w == Execute([tasks |-> tasks, runs |-> runs], id) IN
    /\ tasks' = w.tasks
    /\ runs' = w.runs

TimeoutFires(id) ==
    /\ id \in timeouts
    /\ timeouts' = timeouts \ {id}
    /\ Start(id)
    /\ UNCHANGED <<order, cronJobs, seen>>

CronFires(id) ==
    /\ cronJobs[id] = "started"
    /\ BagCardinality(runs) < MaxRuns
    /\ Start(id)
    /\ UNCHANGED <<order, timeouts, cronJobs, seen>>

WithStatus(id, status) ==
    IF tasks[id] = None THEN tasks ELSE [tasks EXCEPT ![id].status = status]

(* scheduledTasks.delete(): the others keep their order.                      *)
Without(id) ==
    LET place == CHOOSE i \in DOMAIN order : order[i] = id IN
    [i \in 1 .. (Len(order) - 1) |-> IF i < place THEN order[i] ELSE order[i + 1]]

(* The execution of an attempt resolved: the task is completed, the tasks     *)
(* that wait for it are told, and a one-shot task leaves the map.             *)
Succeed(r) ==
    /\ r \in Runs /\ r.phase = "executing"
    /\ \E w \in {NotifyDependents([tasks |-> WithStatus(r.id, "completed"),
                                  runs |-> runs (-) SetToBag({r})], r.id)} :
       LET done == tasks[r.id] # None /\ tasks[r.id].type = "once" IN
       /\ tasks' = IF done THEN [w.tasks EXCEPT ![r.id] = None] ELSE w.tasks
       /\ order' = IF done THEN Without(r.id) ELSE order
       /\ runs' = w.runs
    /\ seen' = [id \in Ids |->
                  IF tasks[id] # None /\ tasks[r.id] # None
                  THEN seen[id] \union ({r.id} \intersect tasks[id].dependencies)
                  ELSE seen[id]]
    /\ UNCHANGED <<timeouts, cronJobs>>

(* Mutant of FailAttempt: one attempt too many. *)
FailAttemptOnceMore(r) ==
    /\ r \in Runs /\ r.phase = "executing" /\ r.attempt <= MaxRetries + 1
    /\ runs' = (runs (-) SetToBag({r})) (+) SetToBag({[r EXCEPT !.phase = "sleeping"]})
    /\ UNCHANGED <<tasks, order, timeouts, cronJobs, seen>>

(* The execution of an attempt rejected, with attempts left: #sleep().        *)
FailAttempt(r) ==
    /\ r \in Runs /\ r.phase = "executing" /\ r.attempt <= MaxRetries
    /\ runs' = (runs (-) SetToBag({r})) (+) SetToBag({[r EXCEPT !.phase = "sleeping"]})
    /\ UNCHANGED <<tasks, order, timeouts, cronJobs, seen>>

(* Mutant of FailTask: the status is not set. *)
FailTaskSilently(r) ==
    /\ r \in Runs /\ r.phase = "executing" /\ r.attempt > MaxRetries
    /\ runs' = runs (-) SetToBag({r})
    /\ UNCHANGED <<tasks, order, timeouts, cronJobs, seen>>

(* ... and with none left.  The task stays in the map.                        *)
FailTask(r) ==
    /\ r \in Runs /\ r.phase = "executing" /\ r.attempt > MaxRetries
    /\ runs' = runs (-) SetToBag({r})
    /\ tasks' = WithStatus(r.id, "failed")
    /\ UNCHANGED <<order, timeouts, cronJobs, seen>>

(* Mutant of Wake: the attempt is not counted. *)
WakeUncounted(r) ==
    /\ r \in Runs /\ r.phase = "sleeping"
    /\ runs' = (runs (-) SetToBag({r})) (+) SetToBag({[r EXCEPT !.phase = "executing"]})
    /\ UNCHANGED <<tasks, order, timeouts, cronJobs, seen>>

(* The next attempt, whatever became of the task during the sleep.            *)
Wake(r) ==
    /\ r \in Runs /\ r.phase = "sleeping"
    /\ runs' = (runs (-) SetToBag({r}))
               (+) SetToBag({[r EXCEPT !.phase = "executing", !.attempt = @ + 1]})
    /\ UNCHANGED <<tasks, order, timeouts, cronJobs, seen>>

-----------------------------------------------------------------------------
(* Cancelling, pausing, resuming, stopping.                                   *)

CancelTasks(ids) ==
    /\ tasks' = [id \in Ids |-> IF id \in ids THEN [tasks[id] EXCEPT !.status = "cancelled"]
                                ELSE tasks[id]]
    /\ timeouts' = timeouts \ ids
    /\ cronJobs' = [id \in Ids |-> IF id \in ids THEN None ELSE cronJobs[id]]
    /\ UNCHANGED <<order, runs, seen>>

Cancel(id) == id \in Scheduled /\ CancelTasks({id})

CancelAll == CancelTasks(Scheduled)

Pause(id) ==
    /\ id \in Scheduled /\ tasks[id].type = "cron" /\ cronJobs[id] # None
    /\ cronJobs' = [cronJobs EXCEPT ![id] = "stopped"]
    /\ tasks' = WithStatus(id, "paused")
    /\ UNCHANGED <<order, timeouts, runs, seen>>

Resume(id) ==
    /\ id \in Scheduled /\ tasks[id].type = "cron" /\ cronJobs[id] # None
    /\ cronJobs' = [cronJobs EXCEPT ![id] = "started"]
    /\ tasks' = WithStatus(id, "scheduled")
    /\ UNCHANGED <<order, timeouts, runs, seen>>

(* The runs in progress are not stopped: they go on without their task.       *)
Stop ==
    /\ tasks' = [id \in Ids |-> None]
    /\ order' = << >>
    /\ timeouts' = {}
    /\ cronJobs' = [id \in Ids |-> None]
    /\ seen' = [id \in Ids |-> {}]
    /\ UNCHANGED runs

Next ==
    \/ \E id \in Ids :
          \/ Schedule(id) \/ ScheduleRecurring(id) \/ ScheduleWithDeps(id)
          \/ TimeoutFires(id) \/ CronFires(id)
          \/ Cancel(id) \/ Pause(id) \/ Resume(id)
    \/ \E r \in Runs : Succeed(r) \/ FailAttempt(r) \/ FailTask(r) \/ Wake(r)
    \/ CancelAll
    \/ Stop

Spec == Init /\ [][Next]_vars

(* A pending timeout fires, a sleep ends, and task.execute() settles: asked   *)
(* of the one-shot tasks alone, each of which has at most one run.            *)
RunStep(id) ==
    \E r \in Runs : r.id = id /\ (Succeed(r) \/ FailAttempt(r) \/ FailTask(r) \/ Wake(r))

Fairness == \A id \in OneShots : WF_vars(TimeoutFires(id)) /\ WF_vars(RunStep(id))

LiveSpec == Spec /\ Fairness

-----------------------------------------------------------------------------
(* What the scheduler promises.                                               *)

(* The map and its iteration order agree, every run is one of a task's        *)
(* attempts, and only ids in the map have timeouts and cron jobs              *)
(* (scheduledTasks, timeouts and cronJobs of the constructor, l. 71-75).      *)
TypeOK ==
    /\ tasks \in [Ids -> Task \union {None}]
    /\ order \in Seq(Ids) /\ Len(order) = Cardinality(Scheduled)
    /\ Scheduled = {order[i] : i \in 1 .. Len(order)}
    /\ timeouts \subseteq Scheduled
    /\ cronJobs \in [Ids -> {"started", "stopped", None}]
    /\ \A id \in Ids : cronJobs[id] # None => id \in Scheduled
    /\ IsABag(runs) /\ Runs \subseteq Run
    /\ seen \in [Ids -> SUBSET Ids]
    /\ \A id \in Scheduled : seen[id] \subseteq tasks[id].dependencies

(* What a task says and what would run it agree, whatever runs were in        *)
(* progress.  One reported as running has a run that has not returned: of     *)
(* runs that overlap (l. 215, 468), those that end never leave the word of    *)
(* one that did not start after them.  A pending timeout and a started cron   *)
(* job belong to a task that is still to run: cancel(), cancelAll(), pause()  *)
(* and stop() (l. 489-686) leave nothing behind that would start it.          *)
TasksAndRunsAgree ==
    /\ \A id \in Scheduled :
          tasks[id].status = "running" => \E r \in Runs : r.id = id
    /\ \A id \in timeouts : tasks[id].status = "scheduled"
    /\ \A id \in Ids : cronJobs[id] = "started"
                           => tasks[id].status \notin {"cancelled", "paused"}

Copies(r, bag) == IF r \in BagToSet(bag) THEN bag[r] ELSE 0
Started(id) == Copies(FirstAttempt(id), runs') > Copies(FirstAttempt(id), runs)

(* A run of the task, which is in the map, has just succeeded.                *)
Completes(id) ==
    /\ tasks[id] # None
    /\ tasks'[id] = None \/ tasks'[id].status = "completed"
    /\ \E r \in Runs :
          LET asleep == [r EXCEPT !.phase = "sleeping"] IN
          /\ r.id = id /\ r.phase = "executing"
          /\ Copies(r, runs') < Copies(r, runs)
          /\ Copies(asleep, runs') = Copies(asleep, runs)

(* A dependent starts only when each of its dependencies is in the map and    *)
(* completed, also when a dependency that had completed was started again,    *)
(* failed or was cancelled since (#checkDependencies, l. 444).                *)
DependenciesFirst ==
    [][\A id \in Ids :
         Started(id) /\ tasks[id].type = "dependency" =>
            \A dep \in tasks[id].dependencies :
               /\ tasks[dep] # None
               /\ tasks[dep].status = "completed" \/ Completes(dep)]_vars

(* The completion of the last dependency starts the dependent in the same     *)
(* step, also when that dependency leaves the map with it (l. 417, 420),      *)
(* provided the others completed after the dependent was scheduled and are    *)
(* completed still.                                                           *)
DependentsStart ==
    [][\A id, last \in Ids :
         /\ tasks[id] # None /\ tasks[id].status = "scheduled"
         /\ last \in tasks[id].dependencies /\ Completes(last)
         /\ \A dep \in tasks[id].dependencies \ {last} :
               /\ dep \in seen[id]
               /\ tasks'[dep] # None /\ tasks'[dep].status = "completed"
         => Started(id)]_vars

OneShotOpen(id) ==
    /\ tasks[id] # None /\ tasks[id].type = "once"
    /\ tasks[id].status \in {"scheduled", "running"}

(* A one-shot task that is scheduled is executed to its end, through all its  *)
(* attempts, unless it is cancelled or the scheduler is stopped: it never     *)
(* stays scheduled or running (l. 152, 386-436).                              *)
OneShotsSettle == \A id \in OneShots : OneShotOpen(id) ~> ~OneShotOpen(id)
==============================================================================
