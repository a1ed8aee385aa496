---------------------------- MODULE AgentDispatch ----------------------------
(* The scheduler of agents (agents/scheduler.js) with the handler that an     *)
(* AgentManager puts on its "taskScheduled" event (agents/index.js).  A call  *)
(* of _processQueues or _reassignAgentTasks is a run of steps between which   *)
(* nothing else happens.  A strategy is left open: any candidate.             *)
EXTENDS FiniteSets, Integers, SequencesExt

CONSTANTS
    Tasks,              \* bound: the ids submitted, each once
    Agents,             \* the ids of agents
    Levels,             \* the priorities are 1 .. Levels, 1 the highest
    Level,              \* [Tasks -> 1 .. Levels]: the option priority
    Capable,            \* [Tasks -> SUBSET Agents]: who has requiredCapability
    MaxConcurrent,      \* of every agent
    MaxQueueSize,
    MaxRegistrations,   \* bound: how often agents are registered
    None

ASSUME DispatchAssumption ==
    /\ IsFiniteSet(Tasks)
    /\ Levels \in Nat \ {0}
    /\ Level \in [Tasks -> 1 .. Levels]
    /\ Capable \in [Tasks -> SUBSET Agents]
    /\ MaxConcurrent \in Nat \ {0}
    /\ MaxQueueSize \in Nat /\ MaxRegistrations \in Nat
    /\ None \notin Agents

VARIABLES
    isRunning,
    queues,         \* [1 .. Levels -> sequence of tasks]
    activeTasks,
    state,          \* [Tasks -> state, "NONE" before submit()]
    assignedAgent,  \* [Tasks -> agent, or None]
    agents,         \* the registered agents
    currentLoad,    \* [Agents -> Nat], 0 unless registered
    level,          \* the queue that _processQueues is at, 0 when it is over
    available,      \* its availableAgents
    leaving,        \* the agent that is being unregistered, or None
    handlers,       \* [Tasks -> how many handlers await pool.acquire()]
    timeouts,       \* [Tasks -> how many timeouts are pending]
    dropped,        \* history: the tasks that were active at a dispose()
    restarted,      \* history: [Agents -> starts of tasks that ran already]
    registrations   \* bound: how often agents have been registered

queueVars == <<queues, activeTasks, state, assignedAgent>>
agentVars == <<agents, currentLoad, registrations>>
passVars == <<level, available>>
vars == <<isRunning, queueVars, agentVars, passVars, leaving, handlers, timeouts,
          dropped, restarted>>

Queued == {t \in Tasks : \E p \in 1 .. Levels : t \in ToSet(queues[p])}
Running(a) == {t \in activeTasks : state[t] = "RUNNING" /\ assignedAgent[t] = a}
Idle == level = 0 /\ leaving = None

Init ==
    /\ isRunning = FALSE
    /\ queues = [p \in 1 .. Levels |-> <<>>]
    /\ activeTasks = {}
    /\ state = [t \in Tasks |-> "NONE"]
    /\ assignedAgent = [t \in Tasks |-> None]
    /\ agents = {}
    /\ currentLoad = [a \in Agents |-> 0]
    /\ level = 0 /\ available = {} /\ leaving = None
    /\ handlers = [t \in Tasks |-> 0]
    /\ timeouts = [t \in Tasks |-> 0]
    /\ dropped = {}
    /\ restarted = [a \in Agents |-> 0]
    /\ registrations = 0

-----------------------------------------------------------------------------
(* _processQueues.                                                           *)

(* A call of it with these loads begins, or returns at once.                 *)
ProcessQueues(loads) ==
    LET free == {a \in agents : loads[a] < MaxConcurrent} IN
    IF isRunning /\ free # {}
    THEN level' = 1 /\ available' = free
    ELSE level' = 0 /\ available' = {}

Candidates(p) == IF queues[p] = <<>> THEN {} ELSE Capable[Head(queues[p])] \intersect available

(* Mutant of ScheduleTask: no timeout is set. *)
ScheduleForever(t, a) ==
    /\ state' = [state EXCEPT ![t] = "SCHEDULED"]
    /\ assignedAgent' = [assignedAgent EXCEPT ![t] = a]
    /\ activeTasks' = activeTasks \union {t}
    /\ handlers' = [handlers EXCEPT ![t] = @ + 1]
    /\ UNCHANGED timeouts

ScheduleTask(t, a) ==
    /\ state' = [state EXCEPT ![t] = "SCHEDULED"]
    /\ assignedAgent' = [assignedAgent EXCEPT ![t] = a]
    /\ activeTasks' = activeTasks \union {t}
    /\ handlers' = [handlers EXCEPT ![t] = @ + 1]
    /\ timeouts' = [timeouts EXCEPT ![t] = @ + 1]

ScheduleHead ==
    /\ level # 0
    /\ \E a \in Candidates(level) :
        /\ ScheduleTask(Head(queues[level]), a)
        /\ available' = available \ {a}
    /\ queues' = [queues EXCEPT ![level] = Tail(@)]
    /\ UNCHANGED <<isRunning, agentVars, level, leaving, dropped, restarted>>

(* Mutant of NextQueue: the next queue's turn comes after any task. *)
NextQueueSoon ==
    /\ level # 0
    /\ level' = IF level = Levels THEN 0 ELSE level + 1
    /\ available' = IF level = Levels THEN {} ELSE available
    /\ UNCHANGED <<isRunning, queueVars, agentVars, leaving, handlers, timeouts,
                   dropped, restarted>>

(* The head finds no agent: the tasks behind it wait with it.                *)
NextQueue ==
    /\ level # 0 /\ Candidates(level) = {}
    /\ level' = IF level = Levels THEN 0 ELSE level + 1
    /\ available' = IF level = Levels THEN {} ELSE available
    /\ UNCHANGED <<isRunning, queueVars, agentVars, leaving, handlers, timeouts,
                   dropped, restarted>>

-----------------------------------------------------------------------------
(* Starting and stopping.                                                    *)

Start ==
    /\ Idle /\ ~isRunning
    /\ isRunning' = TRUE
    /\ UNCHANGED <<queueVars, agentVars, passVars, leaving, handlers, timeouts,
                   dropped, restarted>>

Stop ==
    /\ Idle /\ isRunning
    /\ isRunning' = FALSE
    /\ UNCHANGED <<queueVars, agentVars, passVars, leaving, handlers, timeouts,
                   dropped, restarted>>

(* The interval of 100 ms, of use only while a task waits.                   *)
Tick ==
    /\ Idle /\ isRunning /\ Queued # {}
    /\ ProcessQueues(currentLoad)
    /\ UNCHANGED <<isRunning, queueVars, agentVars, leaving, handlers, timeouts,
                   dropped, restarted>>

(* The timeouts and the handlers go on, and find no active task.             *)
Dispose ==
    /\ Idle
    /\ isRunning' = FALSE
    /\ state' = [t \in Tasks |-> IF t \in Queued THEN "CANCELLED" ELSE state[t]]
    /\ queues' = [p \in 1 .. Levels |-> <<>>]
    /\ agents' = {} /\ activeTasks' = {}
    /\ currentLoad' = [a \in Agents |-> 0]
    /\ dropped' = dropped \union activeTasks
    /\ UNCHANGED <<assignedAgent, registrations, passVars, leaving, handlers,
                   timeouts, restarted>>

-----------------------------------------------------------------------------
(* Agents.                                                                   *)

(* An agent that is known already starts again from no load.                 *)
RegisterAgent(a) ==
    /\ Idle /\ registrations < MaxRegistrations
    /\ agents' = agents \union {a}
    /\ currentLoad' = [currentLoad EXCEPT ![a] = 0]
    /\ registrations' = registrations + 1
    /\ UNCHANGED <<isRunning, queueVars, passVars, leaving, handlers, timeouts,
                   dropped, restarted>>

Assigned(a) == {t \in activeTasks : assignedAgent[t] = a /\ state[t] = "SCHEDULED"}

UnregisterAgent(a) ==
    /\ Idle /\ a \in agents
    /\ leaving' = a
    /\ UNCHANGED <<isRunning, queueVars, agentVars, passVars, handlers, timeouts,
                   dropped, restarted>>

(* Mutant of ReassignTask: the task is only put back into the queue. *)
ReassignQueued(t) ==
    /\ leaving # None /\ t \in Assigned(leaving)
    /\ state' = [state EXCEPT ![t] = "PENDING"]
    /\ assignedAgent' = [assignedAgent EXCEPT ![t] = None]
    /\ queues' = [queues EXCEPT ![Level[t]] = <<t>> \o @]
    /\ UNCHANGED <<isRunning, activeTasks, agentVars, passVars, leaving, handlers,
                   timeouts, dropped, restarted>>

(* To the front of its queue; its timeout and its handler go on.             *)
ReassignTask(t) ==
    /\ leaving # None /\ t \in Assigned(leaving)
    /\ state' = [state EXCEPT ![t] = "PENDING"]
    /\ assignedAgent' = [assignedAgent EXCEPT ![t] = None]
    /\ queues' = [queues EXCEPT ![Level[t]] = <<t>> \o @]
    /\ activeTasks' = activeTasks \ {t}
    /\ UNCHANGED <<isRunning, agentVars, passVars, leaving, handlers, timeouts,
                   dropped, restarted>>

AgentLeaves ==
    /\ leaving # None /\ Assigned(leaving) = {}
    /\ agents' = agents \ {leaving}
    /\ currentLoad' = [currentLoad EXCEPT ![leaving] = 0]
    /\ leaving' = None
    /\ UNCHANGED <<isRunning, queueVars, registrations, passVars, handlers,
                   timeouts, dropped, restarted>>

-----------------------------------------------------------------------------
(* Tasks.                                                                    *)

Submit(t) ==
    /\ Idle /\ state[t] = "NONE"
    /\ Cardinality(Queued) < MaxQueueSize
    /\ state' = [state EXCEPT ![t] = "PENDING"]
    /\ queues' = [queues EXCEPT ![Level[t]] = Append(@, t)]
    /\ ProcessQueues(currentLoad)
    /\ UNCHANGED <<isRunning, activeTasks, assignedAgent, agentVars, leaving,
                   handlers, timeouts, dropped, restarted>>

Cancel(t) ==
    /\ Idle /\ t \notin activeTasks
    /\ \E p \in 1 .. Levels : \E k \in DOMAIN queues[p] :
        /\ queues[p][k] = t
        /\ queues' = [queues EXCEPT ![p] = RemoveAt(@, k)]
    /\ state' = [state EXCEPT ![t] = "CANCELLED"]
    /\ UNCHANGED <<isRunning, activeTasks, assignedAgent, agentVars, passVars,
                   leaving, handlers, timeouts, dropped, restarted>>

(* An acquired agent's id need not be a registered one.  A task that runs    *)
(* already, for it was scheduled twice, is counted at both agents.           *)
MarkTaskStarted(t, a) ==
    /\ t \in activeTasks
    /\ state' = [state EXCEPT ![t] = "RUNNING"]
    /\ assignedAgent' = [assignedAgent EXCEPT ![t] = a]
    /\ currentLoad' =
        [currentLoad EXCEPT ![a] = IF a \in agents THEN @ + 1 ELSE @]
    /\ restarted' = IF state[t] = "RUNNING" /\ assignedAgent[t] # None
                    THEN [restarted EXCEPT ![assignedAgent[t]] = @ + 1]
                    ELSE restarted

(* Mutant of LoadAfter: off by one, no load becomes 0. *)
LoadUnlessLast(t) ==
    [a \in Agents |->
        IF a = assignedAgent[t] /\ currentLoad[a] > 1 THEN currentLoad[a] - 1
        ELSE currentLoad[a]]

(* The loads once the task is over, whether or not it ever started.          *)
LoadAfter(t) ==
    [a \in Agents |->
        IF a = assignedAgent[t] /\ currentLoad[a] > 0 THEN currentLoad[a] - 1
        ELSE currentLoad[a]]

(* markTaskCompleted, markTaskFailed, markTaskTimeout.                       *)
End(t, result) ==
    /\ t \in activeTasks
    /\ state' = [state EXCEPT ![t] = result]
    /\ currentLoad' = LoadAfter(t)
    /\ activeTasks' = activeTasks \ {t}
    /\ ProcessQueues(LoadAfter(t))
    /\ UNCHANGED <<queues, assignedAgent, agents, registrations>>

MarkTaskCompleted(t) ==
    /\ Idle /\ state[t] = "RUNNING"
    /\ End(t, "COMPLETED")
    /\ UNCHANGED <<isRunning, leaving, handlers, timeouts, dropped, restarted>>

(* A handler gets an agent, or fails to.                                     *)
HandlerStarts(t, a) ==
    /\ Idle /\ handlers[t] > 0
    /\ handlers' = [handlers EXCEPT ![t] = @ - 1]
    /\ MarkTaskStarted(t, a)
    /\ UNCHANGED <<isRunning, queues, activeTasks, agents, registrations, passVars,
                   leaving, timeouts, dropped>>

HandlerFails(t) ==
    /\ Idle /\ handlers[t] > 0
    /\ handlers' = [handlers EXCEPT ![t] = @ - 1]
    /\ End(t, "FAILED")
    /\ UNCHANGED <<isRunning, leaving, timeouts, dropped, restarted>>

HandlerIsLate(t) ==
    /\ Idle /\ handlers[t] > 0 /\ t \notin activeTasks
    /\ handlers' = [handlers EXCEPT ![t] = @ - 1]
    /\ UNCHANGED <<isRunning, queueVars, agentVars, passVars, leaving, timeouts,
                   dropped, restarted>>

TimeoutFires(t) ==
    /\ Idle /\ timeouts[t] > 0
    /\ timeouts' = [timeouts EXCEPT ![t] = @ - 1]
    /\ \/ End(t, "TIMEOUT")
       \/ t \notin activeTasks /\ UNCHANGED <<queueVars, agentVars, passVars>>
    /\ UNCHANGED <<isRunning, leaving, handlers, dropped, restarted>>

-----------------------------------------------------------------------------
Pass == ScheduleHead \/ NextQueue
Leave == AgentLeaves \/ \E t \in Tasks : ReassignTask(t)

Next ==
    \/ Start \/ Stop \/ Tick \/ Dispose \/ Pass \/ Leave
    \/ \E a \in Agents : RegisterAgent(a) \/ UnregisterAgent(a)
    \/ \E t \in Tasks :
        \/ Submit(t) \/ Cancel(t) \/ MarkTaskCompleted(t)
        \/ HandlerFails(t) \/ HandlerIsLate(t) \/ TimeoutFires(t)
        \/ \E a \in Agents : HandlerStarts(t, a)

(* The synchronous runs end, and then the event loop serves the timers that  *)
(* are due before it comes to a later one, the interval's among them.        *)
Fairness ==
    /\ WF_vars(Pass) /\ WF_vars(Leave)
    /\ \A t \in Tasks : SF_vars(TimeoutFires(t))

Spec == Init /\ [][Next]_vars /\ Fairness

-----------------------------------------------------------------------------
(* The variables stay in their types.                                        *)
TypeOK ==
    /\ isRunning \in BOOLEAN
    /\ queues \in [1 .. Levels -> Seq(Tasks)]
    /\ activeTasks \subseteq Tasks
    /\ state \in [Tasks -> {"NONE", "PENDING", "SCHEDULED", "RUNNING", "COMPLETED",
                            "FAILED", "CANCELLED", "TIMEOUT"}]
    /\ assignedAgent \in [Tasks -> Agents \union {None}]
    /\ agents \subseteq Agents
    /\ currentLoad \in [Agents -> Nat]
    /\ level \in 0 .. Levels
    /\ available \subseteq agents
    /\ leaving \in agents \union {None}
    /\ handlers \in [Tasks -> Nat]
    /\ timeouts \in [Tasks -> Nat]
    /\ dropped \subseteq Tasks
    /\ restarted \in [Agents -> Nat]
    /\ registrations \in 0 .. MaxRegistrations

(* A task is in one place: pending tasks once in the queue of their priority *)
(* and nowhere else, scheduled and running ones among the active tasks,      *)
(* unless dispose() dropped them, and ended ones nowhere.                    *)
TasksAreInOnePlace ==
    /\ \A p \in 1 .. Levels : \A k \in DOMAIN queues[p] :
        /\ state[queues[p][k]] = "PENDING" /\ Level[queues[p][k]] = p
        /\ \A l \in DOMAIN queues[p] : queues[p][l] = queues[p][k] => l = k
    /\ \A t \in Tasks :
        /\ state[t] = "PENDING" => t \in Queued
        /\ t \in activeTasks => state[t] \in {"SCHEDULED", "RUNNING"}
        /\ state[t] \in {"SCHEDULED", "RUNNING"} => t \in activeTasks \union dropped

(* No agent is lost to work that is over: its load is at most the tasks that *)
(* run on it, but for the tasks that were started again while they ran on it *)
(* and whose first start nothing takes back.                                 *)
LoadIsOfRunningTasks ==
    \A a \in agents : currentLoad[a] <= Cardinality(Running(a)) + restarted[a]

(* A task gets an agent only when every queue of a higher priority is empty  *)
(* or begins with a task that the agent is not capable of.                   *)
PriorityOrder ==
    [][\A t \in Tasks : state[t] = "PENDING" /\ state'[t] = "SCHEDULED" =>
         \A p \in 1 .. Levels : p < Level[t] =>
            \/ queues[p] = <<>>
            \/ assignedAgent'[t] \notin Capable[Head(queues[p])]]_vars

(* An active task ends or goes back to the queue: the timeout sees to it     *)
(* when nobody reports its end, also after stop() and unregisterAgent().     *)
ActiveTasksEnd == \A t \in Tasks : t \in activeTasks ~> t \notin activeTasks

=============================================================================
