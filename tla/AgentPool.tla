------------------------------ MODULE AgentPool ------------------------------
(* The pool of agents, src/engine/agent-pool.js, with what the pool sees of   *)
(* an agent, src/engine/agent.js.  The methods run inside the caller's turn,  *)
(* so each is an operator on the pool's variables that the caller's action    *)
(* conjoins: GSDEngine is that caller.                                        *)
EXTENDS Integers, FiniteSets, Sequences

CONSTANTS
    Callers,      \* the calls of acquireAgent(), one name each
    MinPoolSize,  \* this.minPoolSize
    MaxPoolSize   \* this.maxPoolSize

ASSUME PoolAssumption ==
    /\ MinPoolSize \in Nat \ {0}
    /\ MaxPoolSize \in Nat
    /\ MinPoolSize <= MaxPoolSize

VARIABLES
    agents,           \* this.agents: the numbers of the agents of the pool
    availableAgents,  \* this.availableAgents
    taskQueue,        \* this.taskQueue: the calls queued for an agent
    waiting,          \* the calls whose promise is still pending
    currentId,        \* this.currentId
    busy,             \* the agents with status BUSY
    failed,           \* the agents with status ERROR
    retired,          \* the agents terminate() was called on
    poolDown          \* this.isShuttingDown

poolVars == <<agents, availableAgents, taskQueue, waiting, currentId, busy,
              failed, retired, poolDown>>

(* The pool starts with its minimum, every agent available.                   *)
PoolInit ==
    /\ agents = 1 .. MinPoolSize
    /\ availableAgents = [i \in 1 .. MinPoolSize |-> i]
    /\ taskQueue = << >> /\ waiting = {}
    /\ currentId = MinPoolSize
    /\ busy = {} /\ failed = {} /\ retired = {}
    /\ poolDown = FALSE

IsAvailable(a) == a \notin busy \union failed \union retired

-----------------------------------------------------------------------------
(* availableAgents *)

(* The list holds agents that are busy or gone, and some agents twice: find() *)
(* stops at the first that is available.                                      *)
NoneUsable == \A i \in DOMAIN availableAgents : ~IsAvailable(availableAgents[i])

FirstUsable(a) ==
    \E i \in DOMAIN availableAgents :
        /\ availableAgents[i] = a /\ IsAvailable(a)
        /\ \A j \in 1 .. (i - 1) : ~IsAvailable(availableAgents[j])

(* _removeFromAvailable(): the first entry of an agent goes.                  *)
Without(list, a) ==
    IF \A i \in DOMAIN list : list[i] # a THEN list
    ELSE [i \in 1 .. (Len(list) - 1) |->
             IF \E j \in 1 .. i : list[j] = a THEN list[i + 1] ELSE list[i]]

(* _createAgent(), count times: a new agent is available from the start.      *)
Created(count) == (currentId + 1) .. (currentId + count)

Create(count) ==
    /\ agents' = agents \union Created(count)
    /\ availableAgents' = availableAgents \o [i \in 1 .. count |-> currentId + i]
    /\ currentId' = currentId + count

-----------------------------------------------------------------------------
(* acquireAgent(), by what the pool finds.  An agent created for the call is  *)
(* handed out without being taken off availableAgents.                        *)

Take(a) ==
    /\ ~poolDown /\ FirstUsable(a)
    /\ availableAgents' = Without(availableAgents, a)
    /\ UNCHANGED <<agents, taskQueue, waiting, currentId>>

Grow(a) ==
    /\ ~poolDown /\ NoneUsable
    /\ Cardinality(agents) < MaxPoolSize
    /\ a = currentId + 1
    /\ Create(1)
    /\ UNCHANGED <<taskQueue, waiting>>

Wait(c) ==
    /\ ~poolDown /\ NoneUsable
    /\ Cardinality(agents) >= MaxPoolSize
    /\ taskQueue' = Append(taskQueue, c)
    /\ waiting' = waiting \union {c}
    /\ UNCHANGED <<agents, availableAgents, currentId>>

(* The timeout of a waiting call.  It looks for its own resolve function in   *)
(* the queue, where a wrapper of it was put: the call stays queued.           *)
GiveUp(c) ==
    /\ c \in waiting
    /\ waiting' = waiting \ {c}
    /\ UNCHANGED <<agents, availableAgents, taskQueue, currentId, busy, failed,
                   retired, poolDown>>

-----------------------------------------------------------------------------
(* releaseAgent(), for an agent that is usable or not after the caller's own  *)
(* changes.  A queued call that has timed out takes the agent all the same.   *)

Serves(a, usable) == a \in agents /\ usable /\ taskQueue # << >>

Keeps(a, usable) == a \in agents /\ usable /\ taskQueue = << >> /\ ~poolDown

ReleaseAgent(a, usable) ==
    /\ IF Serves(a, usable)
       THEN /\ taskQueue' = Tail(taskQueue)
            /\ waiting' = waiting \ {Head(taskQueue)}
       ELSE UNCHANGED <<taskQueue, waiting>>
    /\ availableAgents' = IF Keeps(a, usable) THEN Append(availableAgents, a)
                                              ELSE availableAgents
    /\ UNCHANGED <<agents, currentId, poolDown>>

(* The call the agent goes to, if that call still waits.                      *)
Served(a, usable) ==
    IF Serves(a, usable) /\ Head(taskQueue) \in waiting THEN <<Head(taskQueue)>>
                                                        ELSE << >>

-----------------------------------------------------------------------------
(* Scaling *)

ScaleUp(count) ==
    LET toAdd == IF count < MaxPoolSize - Cardinality(agents)
                 THEN count ELSE MaxPoolSize - Cardinality(agents)
    IN  /\ ~poolDown /\ toAdd > 0
        /\ Create(toAdd)
        /\ UNCHANGED <<taskQueue, waiting, busy, failed, retired, poolDown>>

(* The last entries of availableAgents go, whatever their agents are doing.   *)
ScaleDown(count) ==
    LET spare    == Len(availableAgents) - MinPoolSize
        toRemove == IF count < spare THEN count ELSE spare
        kept     == Len(availableAgents) - toRemove
        removed  == {availableAgents[i] : i \in (kept + 1) .. Len(availableAgents)}
    IN  /\ toRemove > 0
        /\ availableAgents' = SubSeq(availableAgents, 1, kept)
        /\ agents' = agents \ removed
        /\ retired' = retired \union removed
        /\ UNCHANGED <<taskQueue, waiting, currentId, busy, failed, poolDown>>

(* The autoscaling timer.  The busy agents are those of the map less the      *)
(* entries of availableAgents, which may be more than there are agents.       *)
AutoScale ==
    LET queueDepth     == Len(taskQueue)
        availableCount == Len(availableAgents)
        size           == Cardinality(agents)
        busyCount      == size - availableCount
        up             == (queueDepth + 1) \div 2
        down           == (availableCount - MinPoolSize) \div 2
    IN  /\ ~poolDown
        /\ \/ /\ queueDepth > 3 \/ 10 * busyCount > 8 * size
              /\ up > 0
              /\ ScaleUp(up)
           \/ /\ availableCount > MinPoolSize
              /\ 10 * busyCount < 3 * size \/ size = 0
              /\ queueDepth = 0 /\ down > 0
              /\ ScaleDown(down)

-----------------------------------------------------------------------------
(* What the health check does with an agent in error: it is replaced while    *)
(* the pool is below its minimum.                                             *)
HandleUnhealthy(a) ==
    LET rest  == agents \ {a}
        list  == Without(availableAgents, a)
        fresh == IF ~poolDown /\ Cardinality(rest) < MinPoolSize THEN {currentId + 1} ELSE {}
    IN  /\ agents' = rest \union fresh
        /\ availableAgents' = IF fresh = {} THEN list ELSE Append(list, currentId + 1)
        /\ currentId' = IF fresh = {} THEN currentId ELSE currentId + 1
        /\ UNCHANGED <<taskQueue, waiting, busy, failed, retired, poolDown>>
=============================================================================
