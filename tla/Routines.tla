------------------------------ MODULE Routines ------------------------------
(* The schedulers of routines of several processes on one database:          *)
(* domains/routines/routine-scheduler.js, the operations of                  *)
(* routine-service.js that create and change runs, and the tables of         *)
(* db/migrations/014_routine_scheduling.js.  The statements that a process   *)
(* runs without an await in between are one step, unless a statement of      *)
(* another process between them matters, as between the SELECT and the       *)
(* INSERT of a cron run.  Polls create no runs: they move next_run_at into   *)
(* the future before they compare it.  Only node-cron does, in each process. *)
(* Time is the age of a lock: "held" until its expiry, "expired" from then   *)
(* on, "outdated" once the UTC date of the expiry has passed.                *)
EXTENDS FiniteSets, Integers

CONSTANTS
    Instances,          \* the processes with a scheduler
    Routines,
    SkipIfActive,       \* the routines with the policy skip_if_active
    Runs,               \* bound: the rows of routine_runs
    MaxConcurrentRuns,  \* config.maxConcurrentRuns
    MaxOutages,         \* bound: how often schedulers stop or crash
    None

ASSUME RoutinesAssumption ==
    /\ IsFiniteSet(Instances) /\ IsFiniteSet(Runs)
    /\ SkipIfActive \subseteq Routines
    /\ MaxConcurrentRuns \in Nat \ {0}
    /\ MaxOutages \in Nat
    /\ None \notin Instances /\ None \notin Runs /\ None \notin Routines

VARIABLES
    status,     \* routine_runs: [Runs -> status, "absent" if there is no row]
    routine,    \* routine_runs: [Runs -> routine_id, or None]
    active,     \* routines: those with status 'active'
    lockRun,    \* routine_scheduler_locks: [Routines -> run_id, None if no row]
    lockBy,     \* routine_scheduler_locks: [Routines -> locked_by, None if a
                \* process that is no more]
    lockAge,    \* routine_scheduler_locks: [Routines -> age of the row]
    recent,     \* the routines with a cron run triggered within a minute
    mode,       \* [Instances -> "up", "stopping", "stopped", "down"]
    listed,     \* [Instances -> the pending runs a poll still goes through]
    firing,     \* [Instances -> the routines whose cron run it will insert]
    executing,  \* the pairs of a process and a run in its _executingRuns
    revoked,    \* history: the executions whose lock somebody else deleted
    orphans,    \* history: the runs whose process died executing them
    outages     \* bound: how often schedulers have stopped or crashed

runs == <<status, routine, active>>
locks == <<lockRun, lockBy, lockAge>>
cron == <<recent, firing>>
vars == <<runs, locks, cron, mode, listed, executing, revoked, orphans, outages>>

Executing(i) == {r \in Runs : <<i, r>> \in executing}
Pending == {r \in Runs : status[r] = "pending"}
ActiveRuns(q) ==
    {r \in Runs : routine[r] = q /\ status[r] \in {"pending", "running"}}
Absent == {r \in Runs : status[r] = "absent"}
NewRun == CHOOSE r \in Absent : TRUE

Init ==
    /\ status = [r \in Runs |-> "absent"]
    /\ routine = [r \in Runs |-> None]
    /\ active = Routines
    /\ lockRun = [q \in Routines |-> None]
    /\ lockBy = [q \in Routines |-> None]
    /\ lockAge = [q \in Routines |-> "held"]
    /\ recent = {}
    /\ mode = [i \in Instances |-> "up"]
    /\ listed = [i \in Instances |-> {}]
    /\ firing = [i \in Instances |-> {}]
    /\ executing = {}
    /\ revoked = {} /\ orphans = {}
    /\ outages = 0

-----------------------------------------------------------------------------
(* RoutineService.                                                           *)

InsertRun(q) ==
    /\ Absent # {}
    /\ status' = [status EXCEPT ![NewRun] = "pending"]
    /\ routine' = [routine EXCEPT ![NewRun] = q]
    /\ UNCHANGED active

RunRoutine(q) ==
    /\ q \in active
    /\ q \in SkipIfActive => ActiveRuns(q) = {}
    /\ InsertRun(q)
    /\ UNCHANGED <<locks, cron, mode, listed, executing, revoked, orphans, outages>>

RetryRun(r) ==
    /\ status[r] \in {"failed", "cancelled"}
    /\ InsertRun(routine[r])
    /\ UNCHANGED <<locks, cron, mode, listed, executing, revoked, orphans, outages>>

(* Nothing tells the scheduler that executes the run.                        *)
CancelRun(r) ==
    /\ status[r] \in {"pending", "running"}
    /\ status' = [status EXCEPT ![r] = "cancelled"]
    /\ UNCHANGED <<routine, active, locks, cron, mode, listed, executing, revoked,
                   orphans, outages>>

DeleteRoutine(q) ==
    /\ q \in active
    /\ active' = active \ {q}
    /\ UNCHANGED <<status, routine, locks, cron, mode, listed, executing, revoked,
                   orphans, outages>>

-----------------------------------------------------------------------------
(* Cron.                                                                     *)

(* The cron task of a trigger fires: its first statements only read.         *)
CronSelect(i, q) ==
    /\ mode[i] = "up" /\ q \in active /\ q \notin recent
    /\ q \notin firing[i] /\ Absent # {}
    /\ firing' = [firing EXCEPT ![i] = @ \union {q}]
    /\ UNCHANGED <<runs, locks, recent, mode, listed, executing, revoked,
                   orphans, outages>>

CronInsert(i, q) ==
    /\ q \in firing[i]
    /\ InsertRun(q)
    /\ firing' = [firing EXCEPT ![i] = @ \ {q}]
    /\ recent' = recent \union {q}
    /\ UNCHANGED <<locks, mode, listed, executing, revoked, orphans, outages>>

(* The last cron run is a minute old; no statement takes as long.            *)
MinutePasses(q) ==
    /\ q \in recent /\ \A i \in Instances : q \notin firing[i]
    /\ recent' = recent \ {q}
    /\ UNCHANGED <<runs, locks, firing, mode, listed, executing, revoked, orphans, outages>>

-----------------------------------------------------------------------------
(* The table of locks.                                                       *)

(* The executions that count on the locks of these routines.                 *)
Holders(routines) ==
    {e \in executing : \E q \in routines : lockRun[q] = e[2] /\ lockBy[q] = e[1]}

DeleteLocks(routines) ==
    /\ lockRun' = [q \in Routines |-> IF q \in routines THEN None ELSE lockRun[q]]
    /\ lockBy' = [q \in Routines |-> IF q \in routines THEN None ELSE lockBy[q]]
    /\ lockAge' = [q \in Routines |-> IF q \in routines THEN "held" ELSE lockAge[q]]

LockExpires(q) ==
    /\ lockRun[q] # None /\ lockAge[q] = "held"
    /\ lockAge' = [lockAge EXCEPT ![q] = "expired"]
    /\ UNCHANGED <<runs, lockRun, lockBy, cron, mode, listed, executing, revoked,
                   orphans, outages>>

DatePasses(q) ==
    /\ lockAge[q] = "expired"
    /\ lockAge' = [lockAge EXCEPT ![q] = "outdated"]
    /\ UNCHANGED <<runs, lockRun, lockBy, cron, mode, listed, executing, revoked,
                   orphans, outages>>

(* Mutant of CleanupExpiredLocks: an instance looks after its own locks. *)
CleanupOwnLocks(i) ==
    LET outdated == {q \in Routines : lockBy[q] = i /\ lockAge[q] = "outdated"} IN
    /\ mode[i] = "up" /\ outdated # {}
    /\ DeleteLocks(outdated)
    /\ revoked' = revoked \union Holders(outdated)
    /\ UNCHANGED <<runs, cron, mode, listed, executing, orphans, outages>>

(* Once a minute.  expires_at holds an ISO string, CURRENT_TIMESTAMP another *)
(* form: compared as text, '...T...' is above '... ...' of the same date.    *)
CleanupExpiredLocks(i) ==
    LET outdated == {q \in Routines : lockRun[q] # None /\ lockAge[q] = "outdated"} IN
    /\ mode[i] = "up" /\ outdated # {}
    /\ DeleteLocks(outdated)
    /\ revoked' = revoked \union Holders(outdated)
    /\ UNCHANGED <<runs, cron, mode, listed, executing, orphans, outages>>

-----------------------------------------------------------------------------
(* Polling and executing.                                                    *)

(* The first MaxConcurrentRuns by priority and time: any as many.            *)
Poll(i) ==
    /\ mode[i] = "up" /\ listed[i] = {}
    /\ \E some \in SUBSET Pending :
        /\ some # {}
        /\ \/ some = Pending /\ Cardinality(some) <= MaxConcurrentRuns
           \/ Cardinality(some) = MaxConcurrentRuns
        /\ listed' = [listed EXCEPT ![i] = some]
    /\ UNCHANGED <<runs, locks, cron, mode, executing, revoked, orphans, outages>>

(* Mutant of AcquireRunLock: the lock is taken over from whoever has it. *)
AcquireRunLockAnyway(i, r) ==
    /\ lockRun' = [lockRun EXCEPT ![routine[r]] = r]
    /\ lockBy' = [lockBy EXCEPT ![routine[r]] = i]
    /\ lockAge' = [lockAge EXCEPT ![routine[r]] = "held"]

(* The INSERT succeeds when the routine has no lock.                         *)
AcquireRunLock(i, r) ==
    /\ lockRun[routine[r]] = None
    /\ lockRun' = [lockRun EXCEPT ![routine[r]] = r]
    /\ lockBy' = [lockBy EXCEPT ![routine[r]] = i]
    /\ lockAge' = [lockAge EXCEPT ![routine[r]] = "held"]

(* The next of the list is executed whatever its status has become.          *)
ExecuteRun(i, r) ==
    /\ r \in listed[i] /\ <<i, r>> \notin executing
    /\ Cardinality(Executing(i)) < MaxConcurrentRuns
    /\ AcquireRunLock(i, r)
    /\ listed' = [listed EXCEPT ![i] = @ \ {r}]
    /\ executing' = executing \union {<<i, r>>}
    /\ revoked' = revoked \ {<<i, r>>}
    /\ status' = [status EXCEPT ![r] = "running"]
    /\ UNCHANGED <<routine, active, cron, mode, orphans, outages>>

(* The run is in execution here already, or its routine is locked.           *)
SkipRun(i, r) ==
    /\ r \in listed[i]
    /\ <<i, r>> \in executing \/ lockRun[routine[r]] # None
    /\ Cardinality(Executing(i)) < MaxConcurrentRuns
    /\ listed' = [listed EXCEPT ![i] = @ \ {r}]
    /\ UNCHANGED <<runs, locks, cron, mode, executing, revoked, orphans, outages>>

(* The limit is reached: the next poll will find the others.                 *)
DeferRuns(i) ==
    /\ listed[i] # {} /\ Cardinality(Executing(i)) >= MaxConcurrentRuns
    /\ listed' = [listed EXCEPT ![i] = {}]
    /\ UNCHANGED <<runs, locks, cron, mode, executing, revoked, orphans, outages>>

(* Mutant of Result: a failed execution leaves the row alone. *)
ResultIfAny(r) ==
    \E result \in {"completed", status[r]} : status' = [status EXCEPT ![r] = result]

(* What an execution writes, whatever the status is by then.                 *)
Result(r) ==
    \E result \in {"completed", "failed"} : status' = [status EXCEPT ![r] = result]

(* The lock of the run goes, whoever holds it by now.                        *)
ReleaseRunLock(r) ==
    LET locked == {q \in Routines : lockRun[q] = r} IN
    /\ DeleteLocks(locked)
    /\ revoked' = revoked \union Holders(locked)

(* _performExecution settles, at the latest at its own timeout.              *)
Finish(i, r) ==
    /\ <<i, r>> \in executing
    /\ executing' = executing \ {<<i, r>>}
    /\ Result(r)
    /\ ReleaseRunLock(r)
    /\ UNCHANGED <<routine, active, cron, mode, listed, orphans, outages>>

-----------------------------------------------------------------------------
(* Stopping, crashing, starting.                                             *)

(* The timers and the cron tasks end; what a poll has listed goes on.        *)
Stop(i) ==
    /\ mode[i] = "up" /\ outages < MaxOutages
    /\ mode' = [mode EXCEPT ![i] = "stopping"]
    /\ outages' = outages + 1
    /\ UNCHANGED <<runs, locks, cron, listed, executing, revoked, orphans>>

(* The runs have ended, or stop() was told not to wait for them; then they   *)
(* go on without their locks.                                                *)
Stopped(i, wait) ==
    LET mine == {q \in Routines : lockRun[q] # None /\ lockBy[q] = i} IN
    /\ mode[i] = "stopping"
    /\ wait => Executing(i) = {}
    /\ mode' = [mode EXCEPT ![i] = "stopped"]
    /\ DeleteLocks(mine)
    /\ revoked' = revoked \union Holders(mine)
    /\ UNCHANGED <<runs, cron, listed, executing, orphans, outages>>

(* The process is gone with what it knew; its locks stay, and no process     *)
(* will have its instanceId again.                                           *)
Crash(i) ==
    /\ mode[i] # "down" /\ outages < MaxOutages
    /\ mode' = [mode EXCEPT ![i] = "down"]
    /\ lockBy' = [q \in Routines |-> IF lockBy[q] = i THEN None ELSE lockBy[q]]
    /\ listed' = [listed EXCEPT ![i] = {}]
    /\ firing' = [firing EXCEPT ![i] = {}]
    /\ executing' = {e \in executing : e[1] # i}
    /\ revoked' = {e \in revoked : e[1] # i}
    /\ orphans' = orphans \union Executing(i)
    /\ outages' = outages + 1
    /\ UNCHANGED <<runs, lockRun, lockAge, recent>>

Start(i) ==
    /\ mode[i] = "stopped"
    /\ mode' = [mode EXCEPT ![i] = "up"]
    /\ UNCHANGED <<runs, locks, cron, listed, executing, revoked, orphans, outages>>

(* docker-compose.yml:14 starts the process again.                           *)
Restart(i) ==
    /\ mode[i] = "down"
    /\ mode' = [mode EXCEPT ![i] = "up"]
    /\ UNCHANGED <<runs, locks, cron, listed, executing, revoked, orphans, outages>>

-----------------------------------------------------------------------------
Execution(i, r) ==
    ExecuteRun(i, r) \/ SkipRun(i, r) \/ Finish(i, r)

Time(q) == LockExpires(q) \/ DatePasses(q)

Next ==
    \/ \E q \in Routines :
        \/ RunRoutine(q) \/ DeleteRoutine(q) \/ MinutePasses(q) \/ Time(q)
        \/ \E i \in Instances : CronSelect(i, q) \/ CronInsert(i, q)
    \/ \E r \in Runs :
        \/ RetryRun(r) \/ CancelRun(r)
        \/ \E i \in Instances : Execution(i, r)
    \/ \E i \in Instances :
        \/ Poll(i) \/ DeferRuns(i) \/ CleanupExpiredLocks(i)
        \/ Stop(i) \/ Crash(i) \/ Start(i) \/ Restart(i)
        \/ \E wait \in BOOLEAN : Stopped(i, wait)

(* The timers of a scheduler that is up fire, statements end, executions end *)
(* at their timeout, time passes, and a process that died is started again   *)
(* (restart: unless-stopped).  Nobody has to start a scheduler that stopped. *)
Fairness ==
    /\ \A i \in Instances :
        /\ WF_vars(Poll(i)) /\ WF_vars(DeferRuns(i))
        /\ WF_vars(CleanupExpiredLocks(i))
        /\ WF_vars(Stopped(i, TRUE)) /\ WF_vars(Restart(i))
        /\ \A r \in Runs : WF_vars(Execution(i, r))
    /\ \A q \in Routines : WF_vars(Time(q))

Spec == Init /\ [][Next]_vars /\ Fairness

-----------------------------------------------------------------------------
(* The variables stay in their types.                                        *)
TypeOK ==
    /\ status \in [Runs -> {"absent", "pending", "running", "completed", "failed",
                            "cancelled"}]
    /\ routine \in [Runs -> Routines \union {None}]
    /\ active \subseteq Routines
    /\ lockRun \in [Routines -> Runs \union {None}]
    /\ lockBy \in [Routines -> Instances \union {None}]
    /\ lockAge \in [Routines -> {"held", "expired", "outdated"}]
    /\ recent \subseteq Routines
    /\ mode \in [Instances -> {"up", "stopping", "stopped", "down"}]
    /\ listed \in [Instances -> SUBSET Runs]
    /\ firing \in [Instances -> SUBSET Routines]
    /\ executing \subseteq Instances \X Runs
    /\ revoked \subseteq Instances \X Runs
    /\ orphans \subseteq Runs
    /\ outages \in 0 .. MaxOutages

(* "Distributed locking to prevent duplicate runs": two executions of one    *)
(* routine, in whatever processes, overlap only when the lock of one was     *)
(* deleted under it: by the cleanup after the date turned, by a stop() that  *)
(* does not wait, or by the end of another execution of the same run.        *)
OneExecutionPerRoutine ==
    \A d, e \in executing \ revoked : routine[d[2]] = routine[e[2]] => d = e

(* A run is shown as running only while a process executes it, or once the   *)
(* process that did has died.                                                *)
RunningIsExecuted ==
    \A r \in Runs : status[r] = "running" =>
        r \in orphans \/ \E i \in Instances : <<i, r>> \in executing

(* A pending run is started or cancelled, also when a process died with the  *)
(* lock of its routine, unless every scheduler has been stopped.             *)
PendingRunsStart ==
    \A r \in Runs :
        status[r] = "pending" ~> \/ status[r] # "pending"
                                 \/ \A i \in Instances : mode[i] = "stopped"

(* "5 minute lock timeout": a cleanup leaves no lock past its expiry.        *)
CleanupFreesExpiredLocks ==
    [][\A i \in Instances : CleanupExpiredLocks(i) =>
         \A q \in Routines : lockRun'[q] # None => lockAge'[q] = "held"]_vars

=============================================================================
