------------------------------ MODULE GSDEngine ------------------------------
(* The workflow engine, src/engine/engine.js, over the pool of agents: one    *)
(* workflow instance, started, paused, resumed, stopped and shut down, whose  *)
(* tasks acquire agents, run on them and release them.                        *)
(*                                                                            *)
(* The engine is asynchronous code in one thread.  jobs is its queue of       *)
(* continuations: a continuation runs to its next await and queues those it   *)
(* makes ready behind the others, and timers, the work of agents and calls    *)
(* from outside come in when the queue is empty.                              *)
EXTENDS AgentPool

CONSTANTS
    Tasks,         \* definition.tasks
    Position,      \* the position of each task in the definition
    Dependencies,  \* the dependencies of each task
    MaxResumes,    \* bound: resumptions in one behaviour
    MaxScalings,   \* bound: scalings in one behaviour
    None           \* "no task" in a job of a loop

(* A call of _executeWorkflow(), which is a loop of its own.                  *)
Loops == 1 .. (MaxResumes + 1)

(* A definition lists each task once, and the planner refuses dependencies    *)
(* that are circular.                                                         *)
ASSUME EngineAssumption ==
    /\ Callers = Loops \X Tasks
    /\ MaxResumes \in Nat /\ MaxScalings \in Nat
    /\ IsFiniteSet(Tasks)
    /\ Position \in [Tasks -> Nat]
    /\ \A t, u \in Tasks : Position[t] = Position[u] => t = u
    /\ Dependencies \in [Tasks -> SUBSET Tasks]
    /\ \A S \in SUBSET Tasks : S # {} => \E t \in S : Dependencies[t] \intersect S = {}
    /\ None \notin Tasks

VARIABLES
    status,          \* instance.status, "none" before the start
    completedTasks,  \* instance.completedTasks
    runningTasks,    \* instance.runningTasks
    started,         \* the loops started so far
    pendingTasks,    \* pendingTasks of each loop
    loopAt,          \* where each loop is
    batch,           \* the tasks of its Promise.all that have not settled
    work,            \* the agent that performs each call's task, or 0
    jobs,            \* the continuations that are ready
    scalings         \* the scalings so far

engineVars == <<status, completedTasks, runningTasks, started, pendingTasks,
                loopAt, batch, work, jobs, scalings>>
vars == <<poolVars, engineVars>>

(* Continuations: of a loop, of a failed Promise.all, of a task at its        *)
(* launch, with its agent, after its work and after an error; and the turns   *)
(* of the health check.                                                       *)
Kinds == {"loop", "fails", "launch", "execute", "done", "catch", "unhealthy"}

Job(kind, l, t, a) == [kind |-> kind, loop |-> l, task |-> t, agent |-> a]

Runs(kind, l, t, a) == jobs # << >> /\ Head(jobs) = Job(kind, l, t, a)

Quiet == jobs = << >>

Executes(calls, a) ==
    [i \in DOMAIN calls |-> Job("execute", calls[i][1], calls[i][2], a)]

(* The sequences that list a set, each member once.                           *)
Listings(S) ==
    {s \in [1 .. Cardinality(S) -> S] : \A i, j \in DOMAIN s : s[i] = s[j] => i = j}

Init ==
    /\ PoolInit
    /\ status = "none"
    /\ completedTasks = {} /\ runningTasks = {}
    /\ started = 0
    /\ pendingTasks = [l \in Loops |-> {}]
    /\ loopAt = [l \in Loops |-> "none"]
    /\ batch = [l \in Loops |-> {}]
    /\ work = [c \in Callers |-> 0]
    /\ jobs = << >>
    /\ scalings = 0

-----------------------------------------------------------------------------
(* Calls on the engine *)

(* _executeWorkflow() leaves out the tasks that have completed.               *)
Begin(l) ==
    /\ started' = l
    /\ pendingTasks' = [pendingTasks EXCEPT ![l] = Tasks \ completedTasks]
    /\ loopAt' = [loopAt EXCEPT ![l] = "running"]
    /\ jobs' = <<Job("loop", l, None, 0)>>
    /\ UNCHANGED <<completedTasks, runningTasks, batch, work, scalings, poolVars>>

StartWorkflow ==
    /\ Quiet /\ ~poolDown
    /\ status = "none"
    /\ status' = "running"
    /\ Begin(1)

PauseWorkflow ==
    /\ Quiet
    /\ status = "running"
    /\ status' = "paused"
    /\ UNCHANGED <<completedTasks, runningTasks, started, pendingTasks, loopAt,
                   batch, work, jobs, scalings, poolVars>>

(* A loop that sleeps because of the pause, or waits for tasks, is still      *)
(* there: the instance then has two.                                          *)
ResumeWorkflow ==
    /\ Quiet
    /\ status = "paused"
    /\ started <= MaxResumes
    /\ status' = "running"
    /\ Begin(started + 1)

StopWorkflow ==
    /\ Quiet
    /\ status \in {"running", "paused"}
    /\ status' = "stopped"
    /\ UNCHANGED <<completedTasks, runningTasks, started, pendingTasks, loopAt,
                   batch, work, jobs, scalings, poolVars>>

(* shutdown() stops the instance, rejects the queued calls and terminates the *)
(* agents, each after the task it is busy with.                               *)
Shutdown ==
    /\ Quiet /\ ~poolDown
    /\ status' = IF status \in {"running", "paused"} THEN "stopped" ELSE status
    /\ poolDown' = TRUE
    /\ \E rejected \in Listings(waiting) :
         /\ \A i, j \in DOMAIN taskQueue, m, n \in DOMAIN rejected :
               i < j /\ taskQueue[i] = rejected[m] /\ taskQueue[j] = rejected[n] => m < n
         /\ jobs' = [i \in DOMAIN rejected |->
                       Job("catch", rejected[i][1], rejected[i][2], 0)]
    /\ taskQueue' = << >> /\ waiting' = {}
    /\ retired' = retired \union agents
    /\ UNCHANGED <<completedTasks, runningTasks, started, pendingTasks, loopAt, batch,
                   work, scalings, agents, availableAgents, currentId, busy, failed>>

(* The agents are terminated, or were waited for long enough.                 *)
ShutdownEnds ==
    /\ Quiet /\ poolDown /\ agents # {}
    /\ agents' = {} /\ availableAgents' = << >>
    /\ UNCHANGED <<taskQueue, waiting, currentId, busy, failed, retired, poolDown,
                   engineVars>>

-----------------------------------------------------------------------------
(* The loop of _executeWorkflow() *)

(* Mutant of Ready: one dependency is enough. *)
ReadyWithAny(l) ==
    {t \in pendingTasks[l] \ runningTasks :
        Dependencies[t] = {} \/ Dependencies[t] \intersect completedTasks # {}}

(* Mutant of Ready: a task that is running is ready too. *)
ReadyThoughRunning(l) ==
    {t \in pendingTasks[l] : Dependencies[t] \subseteq completedTasks}

Ready(l) ==
    {t \in pendingTasks[l] \ runningTasks : Dependencies[t] \subseteq completedTasks}

(* Mutant of Stuck: what is still running does not count. *)
StuckThoughRunning(l) == Ready(l) = {}

Stuck(l) == Ready(l) = {} /\ runningTasks = {}

Sleeps(l) ==
    /\ pendingTasks[l] # {}
    /\ \/ status = "paused"
       \/ status # "stopped" /\ Ready(l) = {} /\ runningTasks # {}

(* Nothing is left, or nothing can start and nothing runs.                    *)
Ends(l) == pendingTasks[l] = {} \/ (status \notin {"paused", "stopped"} /\ Stuck(l))

LoopSleeps(l) ==
    /\ Runs("loop", l, None, 0) /\ Sleeps(l)
    /\ loopAt' = [loopAt EXCEPT ![l] = "sleeping"]
    /\ jobs' = Tail(jobs)
    /\ UNCHANGED <<status, completedTasks, runningTasks, started, pendingTasks, batch,
                   work, scalings, poolVars>>

LoopStopped(l) ==
    /\ Runs("loop", l, None, 0)
    /\ pendingTasks[l] # {} /\ status = "stopped"
    /\ loopAt' = [loopAt EXCEPT ![l] = "ended"]
    /\ jobs' = Tail(jobs)
    /\ UNCHANGED <<status, completedTasks, runningTasks, started, pendingTasks, batch,
                   work, scalings, poolVars>>

LoopEnds(l) ==
    /\ Runs("loop", l, None, 0) /\ Ends(l)
    /\ status' = IF status = "running" THEN "completed" ELSE status
    /\ loopAt' = [loopAt EXCEPT ![l] = "ended"]
    /\ jobs' = Tail(jobs)
    /\ UNCHANGED <<completedTasks, runningTasks, started, pendingTasks, batch, work,
                   scalings, poolVars>>

(* The ready tasks are launched one after the other, before anything else.    *)
LoopLaunches(l) ==
    /\ Runs("loop", l, None, 0)
    /\ status \notin {"paused", "stopped"} /\ Ready(l) # {}
    /\ loopAt' = [loopAt EXCEPT ![l] = "awaiting"]
    /\ batch' = [batch EXCEPT ![l] = Ready(l)]
    /\ \E ready \in Listings(Ready(l)) :
         /\ \A i, j \in DOMAIN ready : i < j => Position[ready[i]] < Position[ready[j]]
         /\ jobs' = [i \in DOMAIN ready |-> Job("launch", l, ready[i], 0)] \o Tail(jobs)
    /\ UNCHANGED <<status, completedTasks, runningTasks, started, pendingTasks, work,
                   scalings, poolVars>>

(* A poll of a sleeping loop.  One that finds no change sleeps again.         *)
LoopPolls(l) ==
    /\ Quiet /\ loopAt[l] = "sleeping" /\ ~Sleeps(l)
    /\ loopAt' = [loopAt EXCEPT ![l] = "running"]
    /\ jobs' = <<Job("loop", l, None, 0)>>
    /\ UNCHANGED <<status, completedTasks, runningTasks, started, pendingTasks, batch,
                   work, scalings, poolVars>>

(* Promise.all is rejected: so is the promise of the loop.                    *)
LoopFails(l) ==
    /\ Runs("fails", l, None, 0)
    /\ status' = "failed"
    /\ jobs' = Tail(jobs)
    /\ UNCHANGED <<completedTasks, runningTasks, started, pendingTasks, loopAt, batch,
                   work, scalings, poolVars>>

-----------------------------------------------------------------------------
(* A task of a loop *)

Launch(l, t) ==
    /\ Runs("launch", l, t, 0)
    /\ runningTasks' = runningTasks \union {t}
    /\ pendingTasks' = [pendingTasks EXCEPT ![l] = @ \ {t}]
    /\ \/ \E a \in 1 .. (currentId + 1) :
            /\ Take(a) \/ Grow(a)
            /\ jobs' = Append(Tail(jobs), Job("execute", l, t, a))
       \/ Wait(<<l, t>>) /\ jobs' = Tail(jobs)
       \/ /\ poolDown
          /\ jobs' = Append(Tail(jobs), Job("catch", l, t, 0))
          /\ UNCHANGED <<agents, availableAgents, taskQueue, waiting, currentId>>
    /\ UNCHANGED <<busy, failed, retired, poolDown>>
    /\ UNCHANGED <<status, completedTasks, started, loopAt, batch, work, scalings>>

(* A call that has waited too long fails.                                     *)
WaitTimesOut(l, t) ==
    /\ Quiet
    /\ GiveUp(<<l, t>>)
    /\ jobs' = <<Job("catch", l, t, 0)>>
    /\ UNCHANGED <<status, completedTasks, runningTasks, started, pendingTasks, loopAt,
                   batch, work, scalings>>

Accepts(a) == a \notin retired \union busy

(* Agent.execute(), up to the work itself.                                    *)
Execute(l, t, a) ==
    /\ Runs("execute", l, t, a)
    /\ IF Accepts(a)
       THEN /\ busy' = busy \union {a} /\ failed' = failed \ {a}
            /\ work' = [work EXCEPT ![<<l, t>>] = a]
            /\ jobs' = Tail(jobs)
       ELSE /\ jobs' = Append(Tail(jobs), Job("catch", l, t, 0))
            /\ UNCHANGED <<busy, failed, work>>
    /\ UNCHANGED <<agents, availableAgents, taskQueue, waiting, currentId, retired, poolDown>>
    /\ UNCHANGED <<status, completedTasks, runningTasks, started, pendingTasks, loopAt,
                   batch, scalings>>

(* The work succeeds: the agent is idle, and the pool's listener releases it. *)
WorkEnds(l, t, a) ==
    /\ Quiet
    /\ work[<<l, t>>] = a /\ a # 0
    /\ busy' = busy \ {a}
    /\ work' = [work EXCEPT ![<<l, t>>] = 0]
    /\ ReleaseAgent(a, a \notin failed \union retired)
    /\ jobs' = Executes(Served(a, a \notin failed \union retired), a)
               \o <<Job("done", l, t, a)>>
    /\ UNCHANGED <<failed, retired>>
    /\ UNCHANGED <<status, completedTasks, runningTasks, started, pendingTasks, loopAt,
                   batch, scalings>>

(* The work fails: the agent is in error, and the release lets go of it.      *)
WorkFails(l, t, a) ==
    /\ Quiet
    /\ work[<<l, t>>] = a /\ a # 0
    /\ busy' = busy \ {a} /\ failed' = failed \union {a}
    /\ work' = [work EXCEPT ![<<l, t>>] = 0]
    /\ ReleaseAgent(a, FALSE)
    /\ jobs' = <<Job("catch", l, t, 0)>>
    /\ UNCHANGED retired
    /\ UNCHANGED <<status, completedTasks, runningTasks, started, pendingTasks, loopAt,
                   batch, scalings>>

(* The engine's turn after the work: it releases the agent again.             *)
TaskDone(l, t, a) ==
    /\ Runs("done", l, t, a)
    /\ completedTasks' = completedTasks \union {t}
    /\ runningTasks' = runningTasks \ {t}
    /\ ReleaseAgent(a, IsAvailable(a))
    /\ batch' = [batch EXCEPT ![l] = @ \ {t}]
    /\ \E next \in {IF loopAt[l] = "awaiting" /\ batch[l] = {t}
                    THEN <<Job("loop", l, None, 0)>> ELSE << >>} :
         /\ jobs' = Tail(jobs) \o Executes(Served(a, IsAvailable(a)), a) \o next
         /\ loopAt' = [loopAt EXCEPT ![l] = IF next = << >> THEN @ ELSE "running"]
    /\ UNCHANGED <<busy, failed, retired>>
    /\ UNCHANGED <<status, started, pendingTasks, work, scalings>>

(* Mutant of TaskFails: the task goes on being counted as running. *)
TaskFailsStillRunning(l, t) ==
    /\ Runs("catch", l, t, 0)
    /\ IF loopAt[l] = "awaiting"
       THEN /\ loopAt' = [loopAt EXCEPT ![l] = "ended"]
            /\ jobs' = Append(Tail(jobs), Job("fails", l, None, 0))
       ELSE loopAt' = loopAt /\ jobs' = Tail(jobs)
    /\ UNCHANGED <<status, completedTasks, runningTasks, started, pendingTasks, batch,
                   work, scalings, poolVars>>

(* The first task of a batch that fails rejects its Promise.all.  The others  *)
(* go on.                                                                     *)
TaskFails(l, t) ==
    /\ Runs("catch", l, t, 0)
    /\ runningTasks' = runningTasks \ {t}
    /\ IF loopAt[l] = "awaiting"
       THEN /\ loopAt' = [loopAt EXCEPT ![l] = "ended"]
            /\ jobs' = Append(Tail(jobs), Job("fails", l, None, 0))
       ELSE loopAt' = loopAt /\ jobs' = Tail(jobs)
    /\ UNCHANGED <<status, completedTasks, started, pendingTasks, batch, work, scalings,
                   poolVars>>

-----------------------------------------------------------------------------
(* The pool's timers, and the scaling its users may ask for *)

Scale ==
    /\ Quiet /\ scalings < MaxScalings
    /\ AutoScale \/ \E count \in 1 .. 2 : ScaleUp(count) \/ ScaleDown(count)
    /\ scalings' = scalings + 1
    /\ UNCHANGED <<status, completedTasks, runningTasks, started, pendingTasks, loopAt,
                   batch, work, jobs>>

(* The health check takes the agents in error in the order of the map.  A     *)
(* stale heartbeat ends it: it calls a method agents do not have.             *)
CheckHealth ==
    LET errors == agents \intersect failed IN
    /\ Quiet /\ ~poolDown
    /\ errors # {}
    /\ \E list \in Listings(errors) :
         /\ \A i, j \in DOMAIN list : i < j => list[i] < list[j]
         /\ jobs' = [i \in DOMAIN list |-> Job("unhealthy", 1, None, list[i])]
    /\ UNCHANGED <<status, completedTasks, runningTasks, started, pendingTasks, loopAt,
                   batch, work, scalings, poolVars>>

HealthStep(a) ==
    /\ Runs("unhealthy", 1, None, a)
    /\ HandleUnhealthy(a)
    /\ jobs' = Tail(jobs)
    /\ UNCHANGED <<status, completedTasks, runningTasks, started, pendingTasks, loopAt,
                   batch, work, scalings>>

-----------------------------------------------------------------------------
LoopStep(l) ==
    \/ LoopSleeps(l) \/ LoopStopped(l) \/ LoopEnds(l) \/ LoopLaunches(l)
    \/ LoopPolls(l) \/ LoopFails(l)

TaskStep(l, t) ==
    \/ Launch(l, t) \/ TaskFails(l, t) \/ WaitTimesOut(l, t)
    \/ \E a \in 1 .. currentId :
         Execute(l, t, a) \/ WorkEnds(l, t, a) \/ WorkFails(l, t, a) \/ TaskDone(l, t, a)

(* What happens by itself.                                                    *)
Progress ==
    \/ \E l \in Loops : LoopStep(l) \/ \E t \in Tasks : TaskStep(l, t)
    \/ \E a \in 1 .. currentId : HealthStep(a)

Request ==
    \/ StartWorkflow \/ PauseWorkflow \/ ResumeWorkflow \/ StopWorkflow
    \/ Shutdown \/ ShutdownEnds \/ Scale \/ CheckHealth

Next == Progress \/ Request

Spec == Init /\ [][Next]_vars

(* Continuations run, timers fire and the work of an agent ends.  A wait is   *)
(* bounded by its timeout.                                                    *)
LiveSpec == Spec /\ WF_vars(Progress)

-----------------------------------------------------------------------------
(* Properties *)

(* The variables have the types of the code, and the pool never exceeds its   *)
(* maximum, whoever makes it grow (agent-pool.js l. 127, 231, 424, 461).      *)
TypeOK ==
    /\ agents \subseteq 1 .. currentId /\ Cardinality(agents) <= MaxPoolSize
    /\ availableAgents \in Seq(Nat)
    /\ taskQueue \in Seq(Callers) /\ waiting \subseteq Callers
    /\ currentId \in Nat
    /\ busy \subseteq Nat /\ failed \subseteq Nat /\ retired \subseteq Nat
    /\ poolDown \in BOOLEAN
    /\ status \in {"none", "running", "paused", "stopped", "completed", "failed"}
    /\ completedTasks \subseteq Tasks /\ runningTasks \subseteq Tasks
    /\ started \in {0} \union Loops
    /\ pendingTasks \in [Loops -> SUBSET Tasks]
    /\ loopAt \in [Loops -> {"none", "running", "sleeping", "awaiting", "ended"}]
    /\ batch \in [Loops -> SUBSET Tasks]
    /\ work \in [Callers -> Nat]
    /\ jobs \in Seq([kind: Kinds, loop: Loops, task: Tasks \union {None}, agent: Nat])
    /\ scalings \in 0 .. MaxScalings

(* An agent marked busy performs exactly one task, and an agent that performs *)
(* one is marked busy, although agents are handed out twice: execute()        *)
(* refuses the second (agent.js l. 134, 142, 156, 170).                       *)
BusyAgentsWork ==
    \A a \in busy \union ({work[c] : c \in Callers} \ {0}) :
        a \in busy /\ Cardinality({c \in Callers : work[c] = a}) = 1

(* The jobs of a task that stand for its being under way.                     *)
Queued(l, t) ==
    {i \in DOMAIN jobs : /\ jobs[i].loop = l /\ jobs[i].task = t
                         /\ jobs[i].kind \in {"execute", "done", "catch"}}

UnderWay(l, t) ==
    \/ <<l, t>> \in waiting \/ work[<<l, t>>] # 0 \/ Queued(l, t) # {}

(* The engine's set of running tasks is what is under way: through failures,  *)
(* timeouts and a second loop no task is forgotten in it, dropped from it or  *)
(* run by two loops at once (engine.js l. 434, 446, 468, 486).                *)
RunningTasksAreUnderWay ==
    \A t \in Tasks :
        Cardinality({l \in Loops : UnderWay(l, t)}) = IF t \in runningTasks THEN 1 ELSE 0

(* What agents and tasks are marked as is what is going on: an agent handed   *)
(* out twice, a second loop or a failed batch leaves neither of them wrong.   *)
AgentsAndTasksAgree == BusyAgentsWork /\ RunningTasksAreUnderWay

(* A workflow that says it completed has completed every task, whatever       *)
(* failed, stopped or ran in a second loop on the way (l. 439-442, 500).      *)
CompletedMeansAll == status = "completed" => completedTasks = Tasks

(* A task starts only when all its dependencies have completed, and never in  *)
(* a workflow that is paused or stopped (l. 418-437).                         *)
LaunchesAreReady ==
    [][\A t \in runningTasks' \ runningTasks :
          Dependencies[t] \subseteq completedTasks /\ status \notin {"paused", "stopped"}]_vars

(* Whatever happens, the workflow ends up with nothing under way and with no  *)
(* loop left, unless it stays paused (l. 416-497).                            *)
EverythingSettles ==
    <>[](/\ status # "running" /\ runningTasks = {} /\ waiting = {}
         /\ \A l \in Loops : loopAt[l] \in {"none", "ended"} \/ status = "paused")
=============================================================================
