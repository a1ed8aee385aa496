------------------------- MODULE AgentDispatchProofs -------------------------
(* Proofs about AgentDispatch, for any number of tasks, agents and levels.   *)
EXTENDS AgentDispatch, FiniteSetTheorems, SequenceTheorems, TLAPS

(* No task is twice in a queue.                                              *)
Distinct(s) == \A k, l \in 1 .. Len(s) : s[k] = s[l] => k = l

-----------------------------------------------------------------------------
(* What is done to queues.                                                   *)

LEMMA Members ==
    ASSUME NEW S, NEW s \in Seq(S)
    PROVE  /\ ToSet(s) = {s[k] : k \in 1 .. Len(s)} /\ ToSet(s) \subseteq S
           /\ s = <<>> <=> ToSet(s) = {}
  BY DEF ToSet

LEMMA EmptyQueue == Distinct(<<>>) /\ ToSet(<<>>) = {}
<1>1. Distinct(<<>>)
  BY DEF Distinct
<1>2. \A x : x \notin ToSet(<<>>)
  BY DEF ToSet
<1> QED
  BY <1>1, <1>2

LEMMA HeadAndTail ==
    ASSUME NEW S, NEW s \in Seq(S), s # <<>>, Distinct(s)
    PROVE  /\ Head(s) \in ToSet(s) /\ Head(s) \in S
           /\ Tail(s) \in Seq(S) /\ Distinct(Tail(s))
           /\ ToSet(Tail(s)) = ToSet(s) \ {Head(s)}
<1>1. /\ Len(s) \in Nat /\ Len(s) >= 1
      /\ Head(s) = s[1] /\ Head(s) \in S
      /\ Tail(s) \in Seq(S) /\ Len(Tail(s)) = Len(s) - 1
      /\ \A k \in 1 .. Len(s) - 1 : Tail(s)[k] = s[k + 1]
  BY HeadTailProperties, EmptySeq
<1>2. Distinct(Tail(s))
  BY <1>1 DEF Distinct
<1>3. /\ ToSet(s) = {s[k] : k \in 1 .. Len(s)}
      /\ ToSet(Tail(s)) = {Tail(s)[k] : k \in 1 .. Len(s) - 1}
  <2> DEFINE r == Tail(s)
  <2>1. r \in Seq(S) /\ Len(r) = Len(s) - 1
    BY <1>1
  <2> HIDE DEF r
  <2>2. ToSet(r) = {r[k] : k \in 1 .. Len(s) - 1}
    BY <2>1, Members
  <2> QED
    BY <2>2, Members DEF r
<1>4. ASSUME NEW k \in 1 .. Len(s) - 1 PROVE s[k + 1] \in ToSet(s) /\ s[k + 1] # Head(s)
  <2>1. k + 1 \in 1 .. Len(s) /\ k + 1 # 1 /\ 1 \in 1 .. Len(s)
    BY <1>1
  <2>2. s[k + 1] # s[1]
    BY <2>1 DEF Distinct
  <2>3. s[k + 1] \in ToSet(s)
    BY <1>3, <2>1
  <2> QED
    BY <1>1, <2>2, <2>3
<1>5. ASSUME NEW k \in 1 .. Len(s), s[k] # Head(s)
      PROVE  \E j \in 1 .. Len(s) - 1 : s[k] = Tail(s)[j]
  <2>1. k - 1 \in 1 .. Len(s) - 1 /\ (k - 1) + 1 = k
    BY <1>1, <1>5
  <2> QED
    BY <1>1, <2>1
<1>6. Head(s) \in ToSet(s)
  BY <1>1, <1>3
<1> QED
  BY <1>1, <1>2, <1>3, <1>4, <1>5, <1>6

LEMMA Appended ==
    ASSUME NEW S, NEW s \in Seq(S), NEW t \in S, Distinct(s), t \notin ToSet(s)
    PROVE  /\ Append(s, t) \in Seq(S) /\ Distinct(Append(s, t))
           /\ ToSet(Append(s, t)) = ToSet(s) \union {t}
<1> DEFINE r == Append(s, t)
<1>1. /\ Len(s) \in Nat /\ r \in Seq(S) /\ Len(r) = Len(s) + 1
      /\ \A k \in 1 .. Len(s) : r[k] = s[k]
      /\ r[Len(s) + 1] = t
  BY AppendProperties
<1> HIDE DEF r
<1>2. /\ ToSet(s) = {s[k] : k \in 1 .. Len(s)}
      /\ ToSet(r) = {r[k] : k \in 1 .. Len(s) + 1}
  BY <1>1, Members
<1>3. Distinct(r)
  BY <1>1, <1>2 DEF Distinct
<1>4. \A k \in 1 .. Len(s) + 1 : k \in 1 .. Len(s) \/ k = Len(s) + 1
  BY <1>1
<1>5. ToSet(r) = ToSet(s) \union {t}
  BY <1>1, <1>2, <1>4
<1> QED
  BY <1>1, <1>3, <1>5 DEF r

LEMMA Prepended ==
    ASSUME NEW S, NEW s \in Seq(S), NEW t \in S, Distinct(s), t \notin ToSet(s)
    PROVE  /\ <<t>> \o s \in Seq(S) /\ Distinct(<<t>> \o s)
           /\ ToSet(<<t>> \o s) = ToSet(s) \union {t}
<1> DEFINE r == <<t>> \o s
<1>1. /\ Len(s) \in Nat /\ r \in Seq(S) /\ Len(r) = Len(s) + 1
      /\ r[1] = t
      /\ \A k \in 2 .. Len(s) + 1 : r[k] = s[k - 1]
  OBVIOUS
<1> HIDE DEF r
<1>2. /\ ToSet(s) = {s[k] : k \in 1 .. Len(s)}
      /\ ToSet(r) = {r[k] : k \in 1 .. Len(s) + 1}
  BY <1>1, Members
<1>3. \A k \in 2 .. Len(s) + 1 : r[k] \in ToSet(s) /\ k - 1 \in 1 .. Len(s)
  BY <1>1, <1>2
<1>4. Distinct(r)
  <2> SUFFICES ASSUME NEW k \in 1 .. Len(s) + 1, NEW l \in 1 .. Len(s) + 1, r[k] = r[l]
               PROVE  k = l
    BY <1>1 DEF Distinct
  <2>1. CASE k = 1 \/ l = 1
    <3>1. \A m \in 1 .. Len(s) + 1 : m # 1 => r[m] # r[1]
      BY <1>1, <1>3
    <3> QED
      BY <2>1, <3>1
  <2>2. CASE k # 1 /\ l # 1
    <3>1. k \in 2 .. Len(s) + 1 /\ l \in 2 .. Len(s) + 1
      BY <1>1, <2>2
    <3>2. s[k - 1] = s[l - 1] /\ k - 1 \in 1 .. Len(s) /\ l - 1 \in 1 .. Len(s)
      BY <1>1, <1>3, <3>1
    <3>3. k - 1 = l - 1
      BY <3>2 DEF Distinct
    <3> QED
      BY <1>1, <3>1, <3>3
  <2> QED
    BY <2>1, <2>2
<1>5. ASSUME NEW k \in 1 .. Len(s) PROVE k + 1 \in 1 .. Len(s) + 1 /\ r[k + 1] = s[k]
  <2>1. k + 1 \in 2 .. Len(s) + 1 /\ (k + 1) - 1 = k
    BY <1>1
  <2> QED
    BY <1>1, <2>1
<1>6. ToSet(r) = ToSet(s) \union {t}
  <2>1. \A k \in 1 .. Len(s) + 1 : k = 1 \/ k \in 2 .. Len(s) + 1
    BY <1>1
  <2>2. ToSet(r) \subseteq ToSet(s) \union {t}
    <3>1. \A k \in 1 .. Len(s) + 1 : r[k] \in ToSet(s) \union {t}
      BY <1>1, <1>3, <2>1
    <3> QED
      BY <1>2, <3>1
  <2>3. ToSet(s) \subseteq ToSet(r)
    <3>1. \A k \in 1 .. Len(s) : \E l \in 1 .. Len(s) + 1 : s[k] = r[l]
      BY <1>1, <1>5
    <3> QED
      BY <1>2, <3>1
  <2>4. t \in ToSet(r)
    BY <1>1, <1>2
  <2> QED
    BY <2>2, <2>3, <2>4
<1> QED
  BY <1>1, <1>4, <1>6 DEF r

LEMMA Removed ==
    ASSUME NEW S, NEW s \in Seq(S), Distinct(s), NEW k \in 1 .. Len(s)
    PROVE  /\ RemoveAt(s, k) \in Seq(S) /\ Distinct(RemoveAt(s, k))
           /\ ToSet(RemoveAt(s, k)) = ToSet(s) \ {s[k]}
<1> DEFINE r == RemoveAt(s, k)
           before == SubSeq(s, 1, k - 1)
           after == SubSeq(s, k + 1, Len(s))
<1>1. /\ Len(s) \in Nat /\ r \in Seq(S) /\ Len(r) = Len(s) - 1
      /\ \A i \in 1 .. Len(s) - 1 : r[i] = (IF i < k THEN s[i] ELSE s[i + 1])
  <2>1. Len(s) \in Nat /\ k \in Nat
    OBVIOUS
  <2>2. /\ before \in Seq(S) /\ Len(before) = k - 1
        /\ \A i \in 1 .. k - 1 : before[i] = s[i]
    BY <2>1
  <2>3. /\ after \in Seq(S) /\ Len(after) = Len(s) - k
        /\ \A i \in 1 .. Len(s) - k : after[i] = s[k + i]
    BY <2>1
  <2>4. r = before \o after
    BY DEF RemoveAt
  <2> HIDE DEF r, before, after
  <2>5. r \in Seq(S) /\ Len(r) = Len(s) - 1
    BY <2>1, <2>2, <2>3, <2>4
  <2>6. ASSUME NEW i \in 1 .. Len(s) - 1
        PROVE  r[i] = (IF i < k THEN s[i] ELSE s[i + 1])
    <3>1. r[i] = (IF i <= Len(before) THEN before[i] ELSE after[i - Len(before)])
      BY <2>1, <2>2, <2>3, <2>4, ConcatProperties
    <3>2. CASE i < k
      BY <2>1, <2>2, <3>1, <3>2
    <3>3. CASE ~(i < k)
      <4>1. i - (k - 1) \in 1 .. Len(s) - k /\ k + (i - (k - 1)) = i + 1
        BY <2>1, <3>3
      <4>2. after[i - (k - 1)] = s[i + 1]
        BY <2>3, <4>1
      <4> QED
        BY <2>1, <2>2, <3>1, <3>3, <4>2
    <3> QED
      BY <3>2, <3>3
  <2> QED
    BY <2>1, <2>5, <2>6
<1> HIDE DEF r
<1>2. /\ ToSet(s) = {s[i] : i \in 1 .. Len(s)}
      /\ ToSet(r) = {r[i] : i \in 1 .. Len(s) - 1}
  BY <1>1, Members
<1>3. Distinct(r)
  <2> SUFFICES ASSUME NEW i \in 1 .. Len(s) - 1, NEW j \in 1 .. Len(s) - 1, r[i] = r[j]
               PROVE  i = j
    BY <1>1 DEF Distinct
  <2>1. PICK x \in 1 .. Len(s) : r[i] = s[x] /\ x = (IF i < k THEN i ELSE i + 1)
    BY <1>1
  <2>2. PICK y \in 1 .. Len(s) : r[j] = s[y] /\ y = (IF j < k THEN j ELSE j + 1)
    BY <1>1
  <2>3. x = y
    BY <2>1, <2>2 DEF Distinct
  <2> QED
    BY <2>1, <2>2, <2>3
<1>4. ASSUME NEW i \in 1 .. Len(s) - 1 PROVE r[i] \in ToSet(s) /\ r[i] # s[k]
  <2>1. PICK j \in 1 .. Len(s) : j # k /\ r[i] = s[j]
    <3>1. i \in 1 .. Len(s) /\ i + 1 \in 1 .. Len(s)
      BY <1>1
    <3> QED
      BY <1>1, <3>1
  <2>2. s[j] # s[k]
    BY <2>1 DEF Distinct
  <2>3. s[j] \in ToSet(s)
    BY <1>2
  <2> QED
    BY <2>1, <2>2, <2>3
<1>5. ASSUME NEW j \in 1 .. Len(s), s[j] # s[k] PROVE s[j] \in ToSet(r)
  <2>1. CASE j < k
    <3>1. j \in 1 .. Len(s) - 1 /\ r[j] = s[j]
      BY <1>1, <2>1
    <3> QED
      BY <1>2, <3>1
  <2>2. CASE j > k
    <3>1. j - 1 \in 1 .. Len(s) - 1 /\ ~(j - 1 < k) /\ (j - 1) + 1 = j
      BY <1>1, <2>2
    <3>2. r[j - 1] = s[j]
      BY <1>1, <3>1
    <3> QED
      BY <1>2, <3>1, <3>2
  <2> QED
    BY <1>1, <1>5, <2>1, <2>2
<1>6. ToSet(r) = ToSet(s) \ {s[k]}
  BY <1>2, <1>4, <1>5
<1> QED
  BY <1>1, <1>3, <1>6 DEF r

-----------------------------------------------------------------------------
(* The invariant.                                                            *)

States == {"NONE", "PENDING", "SCHEDULED", "RUNNING", "COMPLETED", "FAILED",
           "CANCELLED", "TIMEOUT"}
Active == {"SCHEDULED", "RUNNING"}

(* The parts of TypeOK: tasks and agents.                                    *)
TaskType ==
    /\ queues \in [1 .. Levels -> Seq(Tasks)]
    /\ activeTasks \subseteq Tasks
    /\ state \in [Tasks -> States]
    /\ assignedAgent \in [Tasks -> Agents \union {None}]
    /\ handlers \in [Tasks -> Nat]
    /\ timeouts \in [Tasks -> Nat]
    /\ dropped \subseteq Tasks

AgentType ==
    /\ isRunning \in BOOLEAN
    /\ agents \subseteq Agents
    /\ currentLoad \in [Agents -> Nat]
    /\ level \in 0 .. Levels
    /\ available \subseteq agents
    /\ leaving \in agents \union {None}
    /\ restarted \in [Agents -> Nat]
    /\ registrations \in 0 .. MaxRegistrations

LEMMA Parts ==
    /\ TypeOK <=> TaskType /\ AgentType
    /\ TypeOK' <=> TaskType' /\ AgentType'
  BY DEF TypeOK, TaskType, AgentType, States

(* TasksAreInOnePlace, with the queues as sets.                              *)
Places ==
    /\ \A p \in 1 .. Levels :
        /\ Distinct(queues[p])
        /\ \A t \in ToSet(queues[p]) : state[t] = "PENDING" /\ Level[t] = p
    /\ \A t \in Tasks :
        /\ state[t] = "PENDING" => t \in ToSet(queues[Level[t]])
        /\ t \in activeTasks => state[t] \in Active
        /\ state[t] \in Active => t \in activeTasks \union dropped

(* A pass through the queues is not interrupted, and has left no candidate   *)
(* for the heads that it has passed.                                         *)
PassKept ==
    /\ level = 0 \/ leaving = None
    /\ level = 0 => available = {}
    /\ \A p \in 1 .. Levels : p < level => Candidates(p) = {}

DispatchInv == TypeOK /\ Places /\ PassKept

-----------------------------------------------------------------------------
(* One task moves.                                                           *)
LEMMA OneTask ==
    ASSUME DispatchInv, NEW t \in Tasks, NEW v \in States, NEW q \in Seq(Tasks), Distinct(q),
           state' = [state EXCEPT ![t] = v],
           queues' = [queues EXCEPT ![Level[t]] = q],
           ToSet(q) \ {t} = ToSet(queues[Level[t]]) \ {t},
           v = "PENDING" <=> t \in ToSet(q),
           activeTasks' \ {t} = activeTasks \ {t},
           t \in activeTasks' <=> v \in Active,
           dropped' = dropped
    PROVE  /\ Places'
           /\ queues' \in [1 .. Levels -> Seq(Tasks)]
           /\ state' \in [Tasks -> States]
           /\ activeTasks' \subseteq Tasks
<1>1. TaskType /\ Places
  BY Parts DEF DispatchInv
<1>2. Level[t] \in 1 .. Levels
  BY DispatchAssumption
<1>3. queues' \in [1 .. Levels -> Seq(Tasks)] /\ state' \in [Tasks -> States]
  BY <1>1, <1>2 DEF TaskType
<1>4. activeTasks' \subseteq Tasks
  BY <1>1 DEF TaskType
<1>5. ASSUME NEW p \in 1 .. Levels
      PROVE  /\ Distinct(queues'[p])
             /\ \A u \in ToSet(queues'[p]) : state'[u] = "PENDING" /\ Level[u] = p
  <2>1. CASE p = Level[t]
    <3>1. queues'[p] = q /\ ToSet(q) \subseteq Tasks
      BY <1>1, <1>2, <2>1, Members DEF TaskType
    <3>2. ASSUME NEW u \in ToSet(q) PROVE state'[u] = "PENDING" /\ Level[u] = p
      <4>1. CASE u = t
        BY <1>1, <2>1, <3>2, <4>1 DEF TaskType
      <4>2. CASE u # t
        <5>1. u \in ToSet(queues[p]) /\ u \in Tasks
          BY <2>1, <3>1, <3>2, <4>2
        <5> QED
          BY <1>1, <4>2, <5>1 DEF Places, TaskType
      <4> QED
        BY <4>1, <4>2
    <3> QED
      BY <3>1, <3>2
  <2>2. CASE p # Level[t]
    <3>1. queues'[p] = queues[p] /\ ToSet(queues[p]) \subseteq Tasks
      BY <1>1, <1>2, <2>2, Members DEF TaskType
    <3>2. t \notin ToSet(queues[p])
      BY <1>1, <2>2 DEF Places
    <3> QED
      BY <1>1, <3>1, <3>2 DEF Places, TaskType
  <2> QED
    BY <2>1, <2>2
<1>6. ASSUME NEW u \in Tasks
      PROVE  /\ state'[u] = "PENDING" => u \in ToSet(queues'[Level[u]])
             /\ u \in activeTasks' => state'[u] \in Active
             /\ state'[u] \in Active => u \in activeTasks' \union dropped'
  <2>1. CASE u = t
    BY <1>1, <1>2, <2>1 DEF TaskType
  <2>2. CASE u # t
    <3>1. state'[u] = state[u] /\ (u \in activeTasks' <=> u \in activeTasks)
      BY <1>1, <2>2 DEF TaskType
    <3>2. state[u] = "PENDING" => u \in ToSet(queues'[Level[u]])
      <4>1. Level[u] \in 1 .. Levels
        BY DispatchAssumption
      <4>2. CASE Level[u] = Level[t]
        BY <1>1, <1>2, <2>2, <4>2 DEF Places, TaskType
      <4>3. CASE Level[u] # Level[t]
        BY <1>1, <1>2, <4>1, <4>3 DEF Places, TaskType
      <4> QED
        BY <4>2, <4>3
    <3> QED
      BY <1>1, <3>1, <3>2 DEF Places
  <2> QED
    BY <2>1, <2>2
<1> QED
  BY <1>3, <1>4, <1>5, <1>6 DEF Places

(* An active task is in no queue, and a queued one is not active.            *)
LEMMA Apart ==
    ASSUME DispatchInv, NEW t \in Tasks
    PROVE  /\ t \in activeTasks => t \notin ToSet(queues[Level[t]])
           /\ t \in activeTasks => state[t] \in Active
           /\ Level[t] \in 1 .. Levels /\ queues[Level[t]] \in Seq(Tasks)
           /\ Distinct(queues[Level[t]])
           /\ queues = [queues EXCEPT ![Level[t]] = queues[Level[t]]]
<1>1. Level[t] \in 1 .. Levels
  BY DispatchAssumption
<1> QED
  BY <1>1, Parts DEF DispatchInv, Places, TaskType, Active

(* Between the runs of steps: what the pass is at after a call of            *)
(* _processQueues, and after a step that makes none.                         *)
LEMMA PassBegins ==
    ASSUME NEW loads, ProcessQueues(loads), leaving' = None, agents' = agents,
           agents \subseteq Agents
    PROVE  PassKept' /\ level' \in 0 .. Levels /\ available' \subseteq agents'
<1>1. /\ level' \in {0, 1} /\ available' \subseteq agents
      /\ level' = 0 => available' = {}
  BY DEF ProcessQueues
<1>2. \A p \in 1 .. Levels : ~(p < level')
  BY <1>1
<1> QED
  BY <1>1, <1>2, DispatchAssumption DEF PassKept

LEMMA PassRests ==
    ASSUME DispatchInv, Idle, UNCHANGED passVars
    PROVE  PassKept' /\ level' \in 0 .. Levels /\ available' = {}
<1>1. level' = 0 /\ available' = {}
  BY DEF DispatchInv, PassKept, Idle, passVars
<1> QED
  BY <1>1, DispatchAssumption DEF PassKept

-----------------------------------------------------------------------------
(* Steps that move no task.                                                  *)
LEMMA QuietStep ==
    ASSUME DispatchInv, UNCHANGED <<queueVars, dropped>>,
           handlers' \in [Tasks -> Nat], timeouts' \in [Tasks -> Nat]
    PROVE  TaskType' /\ Places'
  BY Parts DEF DispatchInv, queueVars, TaskType, Places

LEMMA AgentStep ==
    ASSUME DispatchInv,
           \/ Start \/ Stop \/ Tick
           \/ \E a \in Agents : RegisterAgent(a) \/ UnregisterAgent(a)
           \/ AgentLeaves
    PROVE  DispatchInv'
<1>1. TaskType /\ AgentType /\ PassKept
  BY Parts DEF DispatchInv
<1>2. TaskType' /\ Places'
  <2>1. UNCHANGED <<queueVars, dropped, handlers, timeouts>>
    BY DEF Start, Stop, Tick, RegisterAgent, UnregisterAgent, AgentLeaves
  <2> QED
    BY <1>1, <2>1, QuietStep DEF TaskType
<1>3. CASE Start \/ Stop
  <2>1. Idle /\ isRunning' \in BOOLEAN /\ UNCHANGED <<agentVars, passVars, leaving, restarted>>
    BY <1>3 DEF Start, Stop
  <2>2. PassKept' /\ level' \in 0 .. Levels /\ available' = {}
    BY <2>1, PassRests
  <2>3. AgentType'
    BY <1>1, <2>1, <2>2 DEF AgentType, agentVars
  <2> QED
    BY <1>2, <2>2, <2>3, Parts DEF DispatchInv
<1>4. CASE Tick
  <2>1. Idle /\ ProcessQueues(currentLoad) /\ UNCHANGED <<isRunning, agentVars, leaving, restarted>>
    BY <1>4 DEF Tick
  <2>2. leaving' = None /\ agents' = agents /\ agents \subseteq Agents
    BY <1>1, <2>1 DEF Idle, agentVars, AgentType
  <2>3. PassKept' /\ level' \in 0 .. Levels /\ available' \subseteq agents'
    BY <2>1, <2>2, PassBegins
  <2>4. AgentType'
    BY <1>1, <2>1, <2>3 DEF AgentType, agentVars
  <2> QED
    BY <1>2, <2>3, <2>4, Parts DEF DispatchInv
<1>5. ASSUME NEW a \in Agents, RegisterAgent(a) PROVE DispatchInv'
  <2>1. /\ Idle /\ registrations < MaxRegistrations
        /\ agents' = agents \union {a} /\ currentLoad' = [currentLoad EXCEPT ![a] = 0]
        /\ registrations' = registrations + 1
        /\ UNCHANGED <<isRunning, passVars, leaving, restarted>>
    BY <1>5 DEF RegisterAgent
  <2>2. PassKept' /\ level' \in 0 .. Levels /\ available' = {}
    BY <2>1, PassRests
  <2>3. registrations' \in 0 .. MaxRegistrations
    BY <1>1, <2>1, DispatchAssumption DEF AgentType
  <2>4. AgentType'
    BY <1>1, <2>1, <2>2, <2>3 DEF AgentType
  <2> QED
    BY <1>2, <2>2, <2>4, Parts DEF DispatchInv
<1>6. ASSUME NEW a \in Agents, UnregisterAgent(a) PROVE DispatchInv'
  <2>1. /\ Idle /\ a \in agents /\ leaving' = a
        /\ UNCHANGED <<isRunning, agentVars, passVars, restarted>>
    BY <1>6 DEF UnregisterAgent
  <2>2. PassKept' /\ level' \in 0 .. Levels /\ available' = {}
    BY <2>1, PassRests
  <2>3. AgentType'
    BY <1>1, <2>1, <2>2 DEF AgentType, agentVars
  <2> QED
    BY <1>2, <2>2, <2>3, Parts DEF DispatchInv
<1>7. CASE AgentLeaves
  <2>1. /\ leaving # None /\ leaving' = None /\ agents' = agents \ {leaving}
        /\ currentLoad' = [currentLoad EXCEPT ![leaving] = 0]
        /\ UNCHANGED <<isRunning, registrations, level, available, queues, restarted>>
    BY <1>7 DEF AgentLeaves, passVars, queueVars
  <2>2. level = 0 /\ available = {}
    BY <1>1, <2>1 DEF PassKept
  <2>3. PassKept'
    BY <2>1, <2>2, DispatchAssumption DEF PassKept
  <2>4. AgentType'
    BY <1>1, <2>1, <2>2 DEF AgentType
  <2> QED
    BY <1>2, <2>3, <2>4, Parts DEF DispatchInv
<1> QED
  BY <1>3, <1>4, <1>5, <1>6, <1>7

(* A pass through the queues.                                                *)
LEMMA PassStep ==
    ASSUME DispatchInv, Pass
    PROVE  DispatchInv'
<1>1. TaskType /\ AgentType /\ PassKept /\ Places
  BY Parts DEF DispatchInv
<1>2. level # 0 /\ level \in 1 .. Levels /\ leaving = None
  BY <1>1, DispatchAssumption DEF Pass, ScheduleHead, NextQueue, AgentType, PassKept
<1>3. CASE ScheduleHead
  <2> DEFINE t == Head(queues[level])
             q == Tail(queues[level])
  <2>1. PICK a \in Candidates(level) : ScheduleTask(t, a) /\ available' = available \ {a}
    BY <1>3 DEF ScheduleHead
  <2>2. /\ queues' = [queues EXCEPT ![level] = q]
        /\ UNCHANGED <<isRunning, agents, currentLoad, registrations, level, leaving,
                       dropped, restarted>>
    BY <1>3 DEF ScheduleHead, agentVars
  <2>3. queues[level] \in Seq(Tasks) /\ queues[level] # <<>> /\ a \in available
    BY <1>1, <1>2, <2>1 DEF Candidates, TaskType
  <2>4. Distinct(queues[level])
    BY <1>1, <1>2 DEF Places
  <2>5. /\ t \in ToSet(queues[level]) /\ t \in Tasks
        /\ q \in Seq(Tasks) /\ Distinct(q) /\ ToSet(q) = ToSet(queues[level]) \ {t}
    BY <2>3, <2>4, HeadAndTail
  <2>6. Level[t] = level
    BY <1>1, <1>2, <2>5 DEF Places
  <2> HIDE DEF t, q
  <2>7. /\ state' = [state EXCEPT ![t] = "SCHEDULED"]
        /\ assignedAgent' = [assignedAgent EXCEPT ![t] = a]
        /\ activeTasks' = activeTasks \union {t}
        /\ handlers' = [handlers EXCEPT ![t] = @ + 1]
        /\ timeouts' = [timeouts EXCEPT ![t] = @ + 1]
    BY <2>1 DEF ScheduleTask
  <2>8. /\ Places' /\ queues' \in [1 .. Levels -> Seq(Tasks)]
        /\ state' \in [Tasks -> States] /\ activeTasks' \subseteq Tasks
    BY <2>2, <2>5, <2>6, <2>7, OneTask DEF States, Active
  <2>9. a \in Agents
    BY <1>1, <2>3 DEF AgentType
  <2>10. TaskType'
    BY <1>1, <2>2, <2>5, <2>7, <2>8, <2>9 DEF TaskType
  <2>11. AgentType'
    BY <1>1, <2>1, <2>2 DEF AgentType
  <2>12. PassKept'
    <3>1. ASSUME NEW p \in 1 .. Levels, p < level' PROVE Candidates(p)' = {}
      <4>1. queues'[p] = queues[p] /\ available' \subseteq available
        BY <1>1, <1>2, <2>1, <2>2, <3>1 DEF TaskType
      <4>2. Candidates(p) = {}
        BY <1>1, <2>2, <3>1 DEF PassKept
      <4> QED
        BY <4>1, <4>2 DEF Candidates
    <3> QED
      BY <1>2, <2>2, <3>1 DEF PassKept
  <2> QED
    BY <2>8, <2>10, <2>11, <2>12, Parts DEF DispatchInv
<1>4. CASE NextQueue
  <2>1. /\ Candidates(level) = {}
        /\ level' = IF level = Levels THEN 0 ELSE level + 1
        /\ available' = IF level = Levels THEN {} ELSE available
        /\ UNCHANGED <<isRunning, queues, agents, currentLoad, registrations, leaving, restarted>>
    BY <1>4 DEF NextQueue, queueVars, agentVars
  <2>2. TaskType' /\ Places'
    <3>1. UNCHANGED <<queueVars, dropped, handlers, timeouts>>
      BY <1>4 DEF NextQueue
    <3> QED
      BY <1>1, <3>1, QuietStep DEF TaskType
  <2>3. AgentType'
    BY <1>1, <1>2, <2>1, DispatchAssumption DEF AgentType
  <2>4. PassKept'
    <3>1. ASSUME NEW p \in 1 .. Levels, p < level' PROVE Candidates(p)' = {}
      <4>1. p < level \/ p = level
        BY <1>2, <2>1, <3>1, DispatchAssumption
      <4>2. Candidates(p) = {} /\ available' \subseteq available
        BY <1>1, <2>1, <4>1 DEF PassKept
      <4> QED
        BY <2>1, <4>2 DEF Candidates
    <3>2. level' = 0 => available' = {}
      BY <1>2, <2>1
    <3> QED
      BY <1>2, <2>1, <3>1, <3>2 DEF PassKept
  <2> QED
    BY <2>2, <2>3, <2>4, Parts DEF DispatchInv
<1> QED
  BY <1>3, <1>4 DEF Pass

(* Steps that move one task, between the passes.                             *)
LEMMA ReassignStep ==
    ASSUME DispatchInv, NEW t \in Tasks, ReassignTask(t)
    PROVE  DispatchInv'
<1> DEFINE q == <<t>> \o queues[Level[t]]
<1>1. TaskType /\ AgentType /\ PassKept
  BY Parts DEF DispatchInv
<1>2. /\ leaving # None /\ t \in activeTasks
      /\ state' = [state EXCEPT ![t] = "PENDING"]
      /\ assignedAgent' = [assignedAgent EXCEPT ![t] = None]
      /\ queues' = [queues EXCEPT ![Level[t]] = q]
      /\ activeTasks' = activeTasks \ {t}
      /\ UNCHANGED <<isRunning, agents, currentLoad, registrations, level, available,
                     leaving, handlers, timeouts, dropped, restarted>>
  BY DEF ReassignTask, Assigned, agentVars, passVars
<1>3. /\ q \in Seq(Tasks) /\ Distinct(q) /\ ToSet(q) = ToSet(queues[Level[t]]) \union {t}
  BY <1>2, Apart, Prepended
<1> HIDE DEF q
<1>4. /\ Places' /\ queues' \in [1 .. Levels -> Seq(Tasks)]
      /\ state' \in [Tasks -> States] /\ activeTasks' \subseteq Tasks
  BY <1>2, <1>3, OneTask DEF States, Active
<1>5. TaskType'
  BY <1>1, <1>2, <1>4 DEF TaskType
<1>6. AgentType'
  BY <1>1, <1>2 DEF AgentType
<1>7. level = 0 /\ available = {}
  BY <1>1, <1>2 DEF PassKept
<1>8. PassKept'
  BY <1>2, <1>7, DispatchAssumption DEF PassKept
<1> QED
  BY <1>4, <1>5, <1>6, <1>8, Parts DEF DispatchInv

LEMMA SubmitStep ==
    ASSUME DispatchInv, NEW t \in Tasks, Submit(t)
    PROVE  DispatchInv'
<1> DEFINE q == Append(queues[Level[t]], t)
<1>1. TaskType /\ AgentType /\ Places
  BY Parts DEF DispatchInv
<1>2. /\ Idle /\ state[t] = "NONE"
      /\ state' = [state EXCEPT ![t] = "PENDING"]
      /\ queues' = [queues EXCEPT ![Level[t]] = q]
      /\ ProcessQueues(currentLoad)
      /\ UNCHANGED <<isRunning, activeTasks, assignedAgent, agents, currentLoad,
                     registrations, leaving, handlers, timeouts, dropped, restarted>>
  BY DEF Submit, agentVars
<1>3. t \notin ToSet(queues[Level[t]]) /\ t \notin activeTasks
  BY <1>1, <1>2, Apart DEF Places, Active
<1>4. /\ q \in Seq(Tasks) /\ Distinct(q) /\ ToSet(q) = ToSet(queues[Level[t]]) \union {t}
  BY <1>3, Apart, Appended
<1> HIDE DEF q
<1>5. /\ Places' /\ queues' \in [1 .. Levels -> Seq(Tasks)]
      /\ state' \in [Tasks -> States] /\ activeTasks' \subseteq Tasks
  BY <1>2, <1>3, <1>4, OneTask DEF States, Active
<1>6. leaving' = None /\ agents' = agents /\ agents \subseteq Agents
  BY <1>1, <1>2 DEF Idle, AgentType
<1>7. PassKept' /\ level' \in 0 .. Levels /\ available' \subseteq agents'
  BY <1>2, <1>6, PassBegins
<1>8. TaskType' /\ AgentType'
  BY <1>1, <1>2, <1>5, <1>7 DEF TaskType, AgentType
<1> QED
  BY <1>5, <1>7, <1>8, Parts DEF DispatchInv

LEMMA CancelStep ==
    ASSUME DispatchInv, NEW t \in Tasks, Cancel(t)
    PROVE  DispatchInv'
<1>1. TaskType /\ AgentType /\ Places
  BY Parts DEF DispatchInv
<1>2. /\ Idle /\ t \notin activeTasks
      /\ state' = [state EXCEPT ![t] = "CANCELLED"]
      /\ UNCHANGED <<isRunning, activeTasks, assignedAgent, agents, currentLoad,
                     registrations, passVars, leaving, handlers, timeouts, dropped, restarted>>
  BY DEF Cancel, agentVars
<1>3. PICK p \in 1 .. Levels : \E k \in DOMAIN queues[p] :
        queues[p][k] = t /\ queues' = [queues EXCEPT ![p] = RemoveAt(@, k)]
  BY DEF Cancel
<1>4. PICK k \in DOMAIN queues[p] :
        queues[p][k] = t /\ queues' = [queues EXCEPT ![p] = RemoveAt(@, k)]
  BY <1>3
<1>5. queues[p] \in Seq(Tasks) /\ Distinct(queues[p]) /\ k \in 1 .. Len(queues[p])
  BY <1>1, <1>4 DEF TaskType, Places
<1>6. t \in ToSet(queues[p])
  BY <1>4, <1>5, Members
<1>7. p = Level[t]
  BY <1>1, <1>6 DEF Places
<1> DEFINE q == RemoveAt(queues[p], k)
<1>8. q \in Seq(Tasks) /\ Distinct(q) /\ ToSet(q) = ToSet(queues[p]) \ {t}
  BY <1>4, <1>5, Removed
<1>9. queues' = [queues EXCEPT ![Level[t]] = q]
  BY <1>4, <1>7
<1> HIDE DEF q
<1>10. /\ Places' /\ queues' \in [1 .. Levels -> Seq(Tasks)]
      /\ state' \in [Tasks -> States] /\ activeTasks' \subseteq Tasks
  BY <1>2, <1>7, <1>8, <1>9, OneTask DEF States, Active
<1>11. PassKept' /\ level' \in 0 .. Levels /\ available' = {}
  BY <1>2, PassRests
<1>12. TaskType' /\ AgentType'
  BY <1>1, <1>2, <1>10, <1>11 DEF TaskType, AgentType
<1> QED
  BY <1>10, <1>11, <1>12, Parts DEF DispatchInv

LEMMA HandlerStep ==
    ASSUME DispatchInv, NEW t \in Tasks, NEW a \in Agents, HandlerStarts(t, a)
    PROVE  DispatchInv'
<1>1. TaskType /\ AgentType
  BY Parts DEF DispatchInv
<1>2. /\ Idle /\ handlers[t] > 0 /\ handlers' = [handlers EXCEPT ![t] = @ - 1]
      /\ t \in activeTasks
      /\ state' = [state EXCEPT ![t] = "RUNNING"]
      /\ assignedAgent' = [assignedAgent EXCEPT ![t] = a]
      /\ currentLoad' = [currentLoad EXCEPT ![a] = IF a \in agents THEN @ + 1 ELSE @]
      /\ UNCHANGED <<isRunning, queues, activeTasks, agents, registrations, passVars,
                     leaving, timeouts, dropped>>
  BY DEF HandlerStarts, MarkTaskStarted
<1>3. restarted' \in [Agents -> Nat]
  <2>1. \/ restarted' = restarted
        \/ /\ assignedAgent[t] # None
           /\ restarted' = [restarted EXCEPT ![assignedAgent[t]] = @ + 1]
    BY DEF HandlerStarts, MarkTaskStarted
  <2>2. assignedAgent[t] # None => assignedAgent[t] \in Agents
    BY <1>1 DEF TaskType
  <2>3. restarted \in [Agents -> Nat]
    BY <1>1 DEF AgentType
  <2> QED
    BY <2>1, <2>2, <2>3
<1> DEFINE q == queues[Level[t]]
<1>4. q \in Seq(Tasks) /\ Distinct(q) /\ t \notin ToSet(q)
  BY <1>2, Apart
<1>5. queues' = [queues EXCEPT ![Level[t]] = q]
  BY <1>2, Apart
<1> HIDE DEF q
<1>6. /\ Places' /\ queues' \in [1 .. Levels -> Seq(Tasks)]
      /\ state' \in [Tasks -> States] /\ activeTasks' \subseteq Tasks
  BY <1>2, <1>4, <1>5, OneTask DEF States, Active, q
<1>7. PassKept' /\ level' \in 0 .. Levels /\ available' = {}
  BY <1>2, PassRests
<1>8. TaskType'
  BY <1>1, <1>2, <1>6 DEF TaskType
<1>9. AgentType'
  <2>1. currentLoad' \in [Agents -> Nat]
    BY <1>1, <1>2 DEF AgentType
  <2> QED
    BY <1>1, <1>2, <1>3, <1>7, <2>1 DEF AgentType
<1> QED
  BY <1>6, <1>7, <1>8, <1>9, Parts DEF DispatchInv

(* The ends of a task.                                                       *)
LEMMA EndStep ==
    ASSUME DispatchInv, NEW t \in Tasks, NEW result \in {"COMPLETED", "FAILED", "TIMEOUT"},
           Idle, End(t, result),
           UNCHANGED <<isRunning, leaving, dropped, restarted>>,
           handlers' \in [Tasks -> Nat], timeouts' \in [Tasks -> Nat]
    PROVE  DispatchInv'
<1>1. TaskType /\ AgentType
  BY Parts DEF DispatchInv
<1>2. /\ t \in activeTasks
      /\ state' = [state EXCEPT ![t] = result]
      /\ currentLoad' = LoadAfter(t)
      /\ activeTasks' = activeTasks \ {t}
      /\ ProcessQueues(LoadAfter(t))
      /\ UNCHANGED <<queues, assignedAgent, agents, registrations>>
  BY DEF End
<1>3. currentLoad' \in [Agents -> Nat]
  BY <1>1, <1>2 DEF LoadAfter, AgentType
<1> DEFINE q == queues[Level[t]]
<1>4. q \in Seq(Tasks) /\ Distinct(q) /\ t \notin ToSet(q)
  BY <1>2, Apart
<1>5. queues' = [queues EXCEPT ![Level[t]] = q]
  BY <1>2, Apart
<1> HIDE DEF q
<1>6. /\ Places' /\ queues' \in [1 .. Levels -> Seq(Tasks)]
      /\ state' \in [Tasks -> States] /\ activeTasks' \subseteq Tasks
  BY <1>2, <1>4, <1>5, OneTask DEF States, Active, q
<1>7. leaving' = None /\ agents' = agents /\ agents \subseteq Agents
  BY <1>1, <1>2 DEF Idle, AgentType
<1>8. PassKept' /\ level' \in 0 .. Levels /\ available' \subseteq agents'
  BY <1>2, <1>7, PassBegins
<1>9. TaskType'
  BY <1>1, <1>2, <1>6 DEF TaskType
<1>10. AgentType'
  BY <1>1, <1>2, <1>3, <1>8 DEF AgentType
<1> QED
  BY <1>6, <1>8, <1>9, <1>10, Parts DEF DispatchInv

LEMMA TaskStep ==
    ASSUME DispatchInv, NEW t \in Tasks,
           \/ MarkTaskCompleted(t) \/ HandlerFails(t) \/ HandlerIsLate(t) \/ TimeoutFires(t)
    PROVE  DispatchInv'
<1>1. TaskType /\ AgentType
  BY Parts DEF DispatchInv
<1>2. /\ Idle /\ UNCHANGED <<isRunning, leaving, dropped, restarted>>
      /\ handlers' \in [Tasks -> Nat] /\ timeouts' \in [Tasks -> Nat]
  BY <1>1 DEF MarkTaskCompleted, HandlerFails, HandlerIsLate, TimeoutFires, TaskType
<1>3. ASSUME NEW result \in {"COMPLETED", "FAILED", "TIMEOUT"}, End(t, result)
      PROVE  DispatchInv'
  BY <1>2, <1>3, EndStep
<1>4. CASE UNCHANGED <<queueVars, agentVars, passVars>>
  <2>1. TaskType' /\ Places'
    BY <1>2, <1>4, QuietStep
  <2>2. PassKept' /\ level' \in 0 .. Levels /\ available' = {}
    BY <1>2, <1>4, PassRests
  <2>3. AgentType'
    BY <1>1, <1>2, <1>4, <2>2 DEF AgentType, agentVars
  <2> QED
    BY <2>1, <2>2, <2>3, Parts DEF DispatchInv
<1> QED
  BY <1>3, <1>4 DEF MarkTaskCompleted, HandlerFails, HandlerIsLate, TimeoutFires

(* dispose() cancels what is queued and forgets what is active.              *)
LEMMA DisposeStep ==
    ASSUME DispatchInv, Dispose
    PROVE  DispatchInv'
<1>1. TaskType /\ AgentType /\ Places
  BY Parts DEF DispatchInv
<1>2. /\ Idle /\ isRunning' = FALSE
      /\ state' = [t \in Tasks |-> IF t \in Queued THEN "CANCELLED" ELSE state[t]]
      /\ queues' = [p \in 1 .. Levels |-> <<>>]
      /\ agents' = {} /\ activeTasks' = {}
      /\ currentLoad' = [a \in Agents |-> 0]
      /\ dropped' = dropped \union activeTasks
      /\ UNCHANGED <<assignedAgent, registrations, passVars, leaving, handlers,
                     timeouts, restarted>>
  BY DEF Dispose
<1>3. PassKept' /\ level' \in 0 .. Levels /\ available' = {}
  BY <1>2, PassRests
<1>4. TaskType'
  BY <1>1, <1>2 DEF TaskType, States
<1>5. AgentType'
  BY <1>1, <1>2, <1>3 DEF AgentType, Idle
<1>6. Places'
  <2>1. \A p \in 1 .. Levels : queues'[p] = <<>>
    BY <1>2
  <2>2. Distinct(<<>>) /\ ToSet(<<>>) = {}
    BY EmptyQueue
  <2>3. ASSUME NEW t \in Tasks, state'[t] = "PENDING" PROVE FALSE
    <3>1. t \notin Queued /\ state[t] = "PENDING"
      BY <1>2, <2>3
    <3>2. t \in ToSet(queues[Level[t]]) /\ Level[t] \in 1 .. Levels
      BY <1>1, <3>1, DispatchAssumption DEF Places
    <3> QED
      BY <3>1, <3>2 DEF Queued
  <2>4. \A t \in Tasks : state'[t] \in Active => t \in dropped'
    BY <1>1, <1>2 DEF Places, Active
  <2> QED
    BY <1>2, <2>1, <2>2, <2>3, <2>4 DEF Places
<1> QED
  BY <1>3, <1>4, <1>5, <1>6, Parts DEF DispatchInv

LEMMA DispatchInductive == DispatchInv /\ [Next]_vars => DispatchInv'
<1> SUFFICES ASSUME DispatchInv, [Next]_vars
             PROVE  DispatchInv'
  OBVIOUS
<1>1. CASE Next
  BY <1>1, AgentStep, PassStep, ReassignStep, SubmitStep, CancelStep, HandlerStep, TaskStep,
     DisposeStep
     DEF Next, Leave
<1>2. CASE UNCHANGED vars
  BY <1>2, Parts DEF DispatchInv, TaskType, AgentType, Places, PassKept, Candidates, vars,
                     queueVars, agentVars, passVars
<1> QED
  BY <1>1, <1>2

LEMMA DispatchInitially == Init => DispatchInv
<1> SUFFICES ASSUME Init PROVE DispatchInv
  OBVIOUS
<1>1. /\ isRunning = FALSE /\ queues = [p \in 1 .. Levels |-> <<>>] /\ activeTasks = {}
      /\ state = [t \in Tasks |-> "NONE"] /\ assignedAgent = [t \in Tasks |-> None]
      /\ agents = {} /\ currentLoad = [a \in Agents |-> 0]
      /\ level = 0 /\ available = {} /\ leaving = None
      /\ handlers = [t \in Tasks |-> 0] /\ timeouts = [t \in Tasks |-> 0]
      /\ dropped = {} /\ restarted = [a \in Agents |-> 0] /\ registrations = 0
  BY DEF Init
<1>2. TaskType
  <2>1. queues \in [1 .. Levels -> Seq(Tasks)]
    BY <1>1
  <2>2. "NONE" \in States
    BY DEF States
  <2> QED
    BY <1>1, <2>1, <2>2 DEF TaskType
<1>3. AgentType
  <2>1. currentLoad \in [Agents -> Nat] /\ restarted \in [Agents -> Nat]
    BY <1>1
  <2>2. level \in 0 .. Levels /\ registrations \in 0 .. MaxRegistrations
    BY <1>1, DispatchAssumption
  <2>3. isRunning \in BOOLEAN /\ agents \subseteq Agents /\ available \subseteq agents
    BY <1>1
  <2>4. leaving \in agents \union {None}
    BY <1>1
  <2> QED
    BY <2>1, <2>2, <2>3, <2>4 DEF AgentType
<1>4. Places
  <2>1. Distinct(<<>>) /\ ToSet(<<>>) = {}
    BY EmptyQueue
  <2> QED
    BY <1>1, <2>1 DEF Places, Active
<1>5. PassKept
  BY <1>1, DispatchAssumption DEF PassKept
<1> QED
  BY <1>2, <1>3, <1>4, <1>5, Parts DEF DispatchInv

-----------------------------------------------------------------------------
(* The variables stay in their types.                                        *)
THEOREM DispatchTypeCorrect == Spec => []TypeOK
<1>1. DispatchInv => TypeOK
  BY DEF DispatchInv
<1> QED
  BY <1>1, DispatchInitially, DispatchInductive, PTL DEF Spec

(* No task is lost, doubled or in two places, whatever the order in which    *)
(* agents leave, handlers come back and timeouts fire.                       *)
THEOREM DispatchTasksAreInOnePlace == Spec => []TasksAreInOnePlace
<1>1. DispatchInv => TasksAreInOnePlace
  <2> SUFFICES ASSUME DispatchInv PROVE TasksAreInOnePlace
    OBVIOUS
  <2>1. TaskType /\ Places
    BY Parts DEF DispatchInv
  <2>2. ASSUME NEW p \in 1 .. Levels, NEW k \in DOMAIN queues[p]
        PROVE  /\ state[queues[p][k]] = "PENDING" /\ Level[queues[p][k]] = p
               /\ \A l \in DOMAIN queues[p] : queues[p][l] = queues[p][k] => l = k
    <3>1. queues[p] \in Seq(Tasks) /\ DOMAIN queues[p] = 1 .. Len(queues[p])
      BY <2>1 DEF TaskType
    <3>2. queues[p][k] \in ToSet(queues[p])
      <4>1. ToSet(queues[p]) = {queues[p][l] : l \in 1 .. Len(queues[p])}
        BY <3>1, Members
      <4> QED
        BY <2>2, <3>1, <4>1
    <3> QED
      BY <2>1, <2>2, <3>1, <3>2 DEF Places, Distinct
  <2>3. ASSUME NEW t \in Tasks
        PROVE  /\ state[t] = "PENDING" => t \in Queued
               /\ t \in activeTasks => state[t] \in {"SCHEDULED", "RUNNING"}
               /\ state[t] \in {"SCHEDULED", "RUNNING"} => t \in activeTasks \union dropped
    BY <2>1, DispatchAssumption DEF Places, Active, Queued
  <2> QED
    BY <2>2, <2>3 DEF TasksAreInOnePlace
<1> QED
  BY <1>1, DispatchInitially, DispatchInductive, PTL DEF Spec

(* An agent goes to a task only when no queue of a higher priority begins    *)
(* with a task that it could do.                                             *)
THEOREM DispatchKeepsPriorities == Spec => PriorityOrder
<1> DEFINE Order ==
      \A t \in Tasks : state[t] = "PENDING" /\ state'[t] = "SCHEDULED" =>
         \A p \in 1 .. Levels : p < Level[t] =>
            \/ queues[p] = <<>>
            \/ assignedAgent'[t] \notin Capable[Head(queues[p])]
<1>1. DispatchInv /\ [Next]_vars => [Order]_vars
  <2> SUFFICES ASSUME DispatchInv, Next,
                      NEW t \in Tasks, state[t] = "PENDING", state'[t] = "SCHEDULED",
                      NEW p \in 1 .. Levels, p < Level[t]
               PROVE  \/ queues[p] = <<>>
                      \/ assignedAgent'[t] \notin Capable[Head(queues[p])]
    OBVIOUS
  <2>1. TaskType /\ AgentType /\ Places /\ PassKept
    BY Parts DEF DispatchInv
  <2>2. CASE ScheduleHead
    <3>1. PICK a \in Candidates(level) : ScheduleTask(Head(queues[level]), a)
      BY <2>2 DEF ScheduleHead
    <3>2. level \in 1 .. Levels /\ level # 0
      BY <2>1, <2>2, DispatchAssumption DEF ScheduleHead, AgentType
    <3>3. queues[level] \in Seq(Tasks) /\ queues[level] # <<>> /\ Distinct(queues[level])
      BY <2>1, <3>1, <3>2 DEF Candidates, TaskType, Places
    <3>4. Head(queues[level]) \in ToSet(queues[level])
      BY <3>3, HeadAndTail
    <3>5. t = Head(queues[level])
      BY <2>1, <3>1 DEF ScheduleTask, TaskType
    <3>6. Level[t] = level
      BY <2>1, <3>2, <3>4, <3>5 DEF Places
    <3>7. assignedAgent'[t] = a /\ a \in available
      BY <2>1, <3>1, <3>3, <3>5 DEF ScheduleTask, TaskType, Candidates
    <3>8. Candidates(p) = {}
      BY <2>1, <3>6 DEF PassKept
    <3> QED
      BY <3>7, <3>8 DEF Candidates
  <2>3. CASE ~ScheduleHead
    <3>1. state'[t] = state[t] \/ state'[t] # "SCHEDULED"
      <4>1. CASE Start \/ Stop \/ Tick \/ NextQueue \/ AgentLeaves
                 \/ \E a \in Agents : RegisterAgent(a) \/ UnregisterAgent(a)
        BY <4>1 DEF Start, Stop, Tick, NextQueue, AgentLeaves, RegisterAgent,
                    UnregisterAgent, queueVars
      <4>2. CASE Dispose
        BY <4>2 DEF Dispose
      <4>3. ASSUME NEW u \in Tasks, HandlerIsLate(u) PROVE state' = state
        BY <4>3 DEF HandlerIsLate, queueVars
      <4>4. ASSUME NEW u \in Tasks,
                   \/ ReassignTask(u) \/ Submit(u) \/ Cancel(u) \/ MarkTaskCompleted(u)
                   \/ HandlerFails(u) \/ TimeoutFires(u)
                   \/ \E a \in Agents : HandlerStarts(u, a)
            PROVE  \/ state' = state
                   \/ \E v \in States \ {"SCHEDULED"} : state' = [state EXCEPT ![u] = v]
        BY <4>4 DEF ReassignTask, Submit, Cancel, MarkTaskCompleted, HandlerFails,
                    TimeoutFires, HandlerStarts, MarkTaskStarted, End, queueVars, States
      <4>5. ASSUME NEW u \in Tasks, NEW v \in States \ {"SCHEDULED"},
                   state' = [state EXCEPT ![u] = v]
            PROVE  state'[t] = state[t] \/ state'[t] # "SCHEDULED"
        BY <2>1, <4>5 DEF TaskType
      <4> QED
        BY <2>3, <4>1, <4>2, <4>3, <4>4, <4>5 DEF Next, Pass, Leave
    <3> QED
      BY <3>1
  <2> QED
    BY <2>2, <2>3
<1> QED
  BY <1>1, DispatchInitially, DispatchInductive, PTL DEF Spec, PriorityOrder

-----------------------------------------------------------------------------
(* The loads.                                                                *)

LEMMA RunningIs ==
    ASSUME DispatchInv, NEW a
    PROVE  IsFiniteSet(Running(a)) /\ Cardinality(Running(a)) \in Nat
<1>1. Running(a) \subseteq Tasks
  BY Parts DEF DispatchInv, TaskType, Running
<1> QED
  BY <1>1, FS_Subset, FS_CardinalityType, DispatchAssumption

LEMMA RunningWillBe ==
    ASSUME DispatchInv', NEW a
    PROVE  IsFiniteSet(Running(a)') /\ Cardinality(Running(a)') \in Nat
<1>1. Running(a)' \subseteq Tasks
  BY Parts DEF DispatchInv, TaskType, Running
<1> QED
  BY <1>1, FS_Subset, FS_CardinalityType, DispatchAssumption

(* No load grows, and nothing that runs stops.                               *)
LEMMA LoadStays ==
    ASSUME DispatchInv, DispatchInv', LoadIsOfRunningTasks, restarted' = restarted,
           \A a \in agents' : \/ currentLoad'[a] = 0
                              \/ a \in agents /\ currentLoad'[a] = currentLoad[a],
           \A a \in agents' : Running(a) \subseteq Running(a)'
    PROVE  LoadIsOfRunningTasks'
<1> SUFFICES ASSUME NEW a \in agents'
             PROVE  currentLoad'[a] <= Cardinality(Running(a)') + restarted'[a]
  BY DEF LoadIsOfRunningTasks
<1>1. AgentType /\ AgentType'
  BY Parts DEF DispatchInv
<1>2. restarted[a] \in Nat /\ currentLoad'[a] \in Nat
  BY <1>1 DEF AgentType
<1>3. Cardinality(Running(a)) \in Nat /\ Cardinality(Running(a)') \in Nat
  BY RunningIs, RunningWillBe
<1>4. Cardinality(Running(a)) <= Cardinality(Running(a)')
  BY RunningWillBe, FS_Subset
<1>5. CASE a \in agents /\ currentLoad'[a] = currentLoad[a]
  <2>1. currentLoad[a] <= Cardinality(Running(a)) + restarted[a]
    BY <1>5 DEF LoadIsOfRunningTasks
  <2> QED
    BY <1>2, <1>3, <1>4, <1>5, <2>1
<1> QED
  BY <1>2, <1>3, <1>5

(* A task that does not run moves to where it does not run either.           *)
LEMMA LoadOfOther ==
    ASSUME DispatchInv, DispatchInv', LoadIsOfRunningTasks, NEW t \in Tasks,
           t \notin activeTasks \/ state[t] # "RUNNING",
           activeTasks \ {t} \subseteq activeTasks',
           \A u \in Tasks : u # t => state'[u] = state[u] /\ assignedAgent'[u] = assignedAgent[u],
           UNCHANGED <<agents, currentLoad, restarted>>
    PROVE  LoadIsOfRunningTasks'
<1>1. \A a : Running(a) \subseteq Running(a)'
  BY Parts DEF Running, DispatchInv, TaskType
<1> QED
  BY <1>1, LoadStays

LEMMA LoadOfStarted ==
    ASSUME DispatchInv, DispatchInv', LoadIsOfRunningTasks,
           NEW t \in Tasks, NEW a \in Agents, HandlerStarts(t, a)
    PROVE  LoadIsOfRunningTasks'
<1>1. TaskType /\ AgentType /\ AgentType'
  BY Parts DEF DispatchInv
<1>2. /\ t \in activeTasks
      /\ state' = [state EXCEPT ![t] = "RUNNING"]
      /\ assignedAgent' = [assignedAgent EXCEPT ![t] = a]
      /\ currentLoad' = [currentLoad EXCEPT ![a] = IF a \in agents THEN @ + 1 ELSE @]
      /\ restarted' = IF state[t] = "RUNNING" /\ assignedAgent[t] # None
                      THEN [restarted EXCEPT ![assignedAgent[t]] = @ + 1]
                      ELSE restarted
      /\ activeTasks' = activeTasks /\ agents' = agents
  BY DEF HandlerStarts, MarkTaskStarted
<1> SUFFICES ASSUME NEW b \in agents
             PROVE  currentLoad'[b] <= Cardinality(Running(b)') + restarted'[b]
  BY <1>2 DEF LoadIsOfRunningTasks
<1>3. b \in Agents /\ b # None
  BY <1>1, DispatchAssumption DEF AgentType
<1>4. /\ restarted[b] \in Nat /\ currentLoad[b] \in Nat
      /\ Cardinality(Running(b)) \in Nat /\ Cardinality(Running(b)') \in Nat
      /\ IsFiniteSet(Running(b)) /\ IsFiniteSet(Running(b)')
  BY <1>1, <1>3, RunningIs, RunningWillBe DEF AgentType
<1>5. currentLoad[b] <= Cardinality(Running(b)) + restarted[b]
  BY DEF LoadIsOfRunningTasks
<1>6. \A u \in Tasks : u # t => state'[u] = state[u] /\ assignedAgent'[u] = assignedAgent[u]
  BY <1>1, <1>2 DEF TaskType
<1>7. state'[t] = "RUNNING" /\ assignedAgent'[t] = a
  BY <1>1, <1>2 DEF TaskType
<1>8. restarted'[b] = restarted[b] + (IF t \in Running(b) THEN 1 ELSE 0)
  <2>1. t \in Running(b) <=> state[t] = "RUNNING" /\ assignedAgent[t] = b
    BY <1>2 DEF Running
  <2>2. restarted \in [Agents -> Nat]
    BY <1>1 DEF AgentType
  <2> QED
    BY <1>2, <1>3, <1>4, <2>1, <2>2
<1>9. CASE b = a
  <2>1. currentLoad'[b] = currentLoad[b] + 1
    BY <1>1, <1>2, <1>9 DEF AgentType
  <2>2. Running(b)' = Running(b) \union {t}
    BY <1>2, <1>6, <1>7, <1>9 DEF Running
  <2>3. t \notin Running(b) => Cardinality(Running(b)') = Cardinality(Running(b)) + 1
    BY <1>4, <2>2, FS_AddElement
  <2>4. t \in Running(b) => Running(b)' = Running(b)
    BY <2>2
  <2> QED
    BY <1>4, <1>5, <1>8, <2>1, <2>3, <2>4
<1>10. CASE b # a
  <2>1. currentLoad'[b] = currentLoad[b]
    BY <1>1, <1>2, <1>3, <1>10 DEF AgentType
  <2>2. Running(b)' = Running(b) \ {t}
    BY <1>1, <1>2, <1>6, <1>7, <1>10 DEF Running, TaskType
  <2>3. t \in Running(b) => Cardinality(Running(b)') = Cardinality(Running(b)) - 1
    BY <1>4, <2>2, FS_RemoveElement
  <2>4. t \notin Running(b) => Running(b)' = Running(b)
    BY <2>2
  <2> QED
    BY <1>4, <1>5, <1>8, <2>1, <2>3, <2>4
<1> QED
  BY <1>9, <1>10

LEMMA LoadOfEnded ==
    ASSUME DispatchInv, DispatchInv', LoadIsOfRunningTasks, restarted' = restarted,
           NEW t \in Tasks, NEW result \in States \ Active, End(t, result)
    PROVE  LoadIsOfRunningTasks'
<1>1. TaskType /\ AgentType /\ AgentType'
  BY Parts DEF DispatchInv
<1>2. /\ state' = [state EXCEPT ![t] = result]
      /\ currentLoad' = LoadAfter(t)
      /\ activeTasks' = activeTasks \ {t}
      /\ assignedAgent' = assignedAgent /\ agents' = agents
  BY DEF End
<1> SUFFICES ASSUME NEW b \in agents
             PROVE  currentLoad'[b] <= Cardinality(Running(b)') + restarted'[b]
  BY <1>2 DEF LoadIsOfRunningTasks
<1>3. b \in Agents
  BY <1>1 DEF AgentType
<1>4. /\ restarted[b] \in Nat /\ currentLoad[b] \in Nat
      /\ Cardinality(Running(b)) \in Nat /\ Cardinality(Running(b)') \in Nat
      /\ IsFiniteSet(Running(b))
  BY <1>1, <1>3, RunningIs, RunningWillBe DEF AgentType
<1>5. currentLoad[b] <= Cardinality(Running(b)) + restarted[b]
  BY DEF LoadIsOfRunningTasks
<1>6. Running(b)' = Running(b) \ {t}
  BY <1>1, <1>2 DEF Running, TaskType
<1>7. currentLoad'[b] = IF b = assignedAgent[t] /\ currentLoad[b] > 0
                        THEN currentLoad[b] - 1 ELSE currentLoad[b]
  BY <1>2, <1>3 DEF LoadAfter
<1>8. CASE t \in Running(b)
  <2>1. Cardinality(Running(b)') = Cardinality(Running(b)) - 1
    BY <1>4, <1>6, <1>8, FS_RemoveElement
  <2>2. b = assignedAgent[t]
    BY <1>8 DEF Running
  <2> QED
    BY <1>4, <1>5, <1>7, <2>1, <2>2
<1>9. CASE t \notin Running(b)
  <2>1. Running(b)' = Running(b)
    BY <1>6, <1>9
  <2> QED
    BY <1>4, <1>5, <1>7, <2>1
<1> QED
  BY <1>8, <1>9

LEMMA LoadInductive ==
    DispatchInv /\ LoadIsOfRunningTasks /\ [Next]_vars => LoadIsOfRunningTasks'
<1> SUFFICES ASSUME DispatchInv, LoadIsOfRunningTasks, [Next]_vars
             PROVE  LoadIsOfRunningTasks'
  OBVIOUS
<1>1. DispatchInv' /\ TaskType /\ AgentType /\ Places
  BY DispatchInductive, Parts DEF DispatchInv
<1>2. ASSUME UNCHANGED <<activeTasks, state, assignedAgent, restarted>>,
             \A a \in agents' : \/ currentLoad'[a] = 0
                                \/ a \in agents /\ currentLoad'[a] = currentLoad[a]
      PROVE  LoadIsOfRunningTasks'
  <2>1. \A a : Running(a)' = Running(a)
    BY <1>2 DEF Running
  <2> QED
    BY <1>1, <1>2, <2>1, LoadStays
<1>3. CASE Start \/ Stop \/ Tick \/ NextQueue \/ UNCHANGED vars
           \/ (\E a \in Agents : UnregisterAgent(a)) \/ (\E t \in Tasks : HandlerIsLate(t))
  BY <1>2, <1>3 DEF Start, Stop, Tick, NextQueue, UnregisterAgent, HandlerIsLate, vars,
                    queueVars, agentVars
<1>4. ASSUME NEW a \in Agents, RegisterAgent(a) PROVE LoadIsOfRunningTasks'
  BY <1>1, <1>2, <1>4 DEF RegisterAgent, queueVars, AgentType
<1>5. CASE AgentLeaves
  BY <1>1, <1>2, <1>5 DEF AgentLeaves, queueVars, AgentType
<1>6. CASE Dispose
  BY <1>6 DEF Dispose, LoadIsOfRunningTasks
<1>7. CASE ScheduleHead
  <2>1. PICK a \in Candidates(level) : ScheduleTask(Head(queues[level]), a)
    BY <1>7 DEF ScheduleHead
  <2>2. level \in 1 .. Levels
    BY <1>1, <1>7, DispatchAssumption DEF ScheduleHead, AgentType
  <2>3. queues[level] \in Seq(Tasks) /\ queues[level] # <<>> /\ Distinct(queues[level])
    BY <1>1, <2>1, <2>2 DEF Candidates, TaskType, Places
  <2> DEFINE t == Head(queues[level])
  <2>4. t \in ToSet(queues[level]) /\ t \in Tasks
    BY <2>3, HeadAndTail
  <2>5. state[t] = "PENDING"
    BY <1>1, <2>2, <2>4 DEF Places
  <2> HIDE DEF t
  <2>6. /\ activeTasks' = activeTasks \union {t}
        /\ state' = [state EXCEPT ![t] = "SCHEDULED"]
        /\ assignedAgent' = [assignedAgent EXCEPT ![t] = a]
    BY <2>1 DEF ScheduleTask, t
  <2>7. UNCHANGED <<agents, currentLoad, restarted>>
    BY <1>7 DEF ScheduleHead, agentVars
  <2> QED
    BY <1>1, <2>4, <2>5, <2>6, <2>7, LoadOfOther DEF TaskType
<1>8. ASSUME NEW t \in Tasks, ReassignTask(t) \/ Submit(t) \/ Cancel(t)
      PROVE  LoadIsOfRunningTasks'
  <2>1. /\ t \notin activeTasks \/ state[t] # "RUNNING"
        /\ activeTasks \ {t} \subseteq activeTasks'
        /\ \E v \in States : state' = [state EXCEPT ![t] = v]
        /\ \/ assignedAgent' = assignedAgent
           \/ assignedAgent' = [assignedAgent EXCEPT ![t] = None]
        /\ UNCHANGED <<agents, currentLoad, restarted>>
    BY <1>8 DEF ReassignTask, Assigned, Submit, Cancel, agentVars, States
  <2>2. \A u \in Tasks : u # t => state'[u] = state[u] /\ assignedAgent'[u] = assignedAgent[u]
    BY <1>1, <2>1 DEF TaskType
  <2> QED
    BY <1>1, <2>1, <2>2, LoadOfOther
<1>9. ASSUME NEW t \in Tasks, MarkTaskCompleted(t) \/ HandlerFails(t) \/ TimeoutFires(t)
      PROVE  LoadIsOfRunningTasks'
  <2>1. /\ restarted' = restarted
        /\ \/ \E result \in {"COMPLETED", "FAILED", "TIMEOUT"} : End(t, result)
           \/ UNCHANGED <<queueVars, agentVars>>
    BY <1>9 DEF MarkTaskCompleted, HandlerFails, TimeoutFires
  <2>2. {"COMPLETED", "FAILED", "TIMEOUT"} \subseteq States \ Active
    BY DEF States, Active
  <2>3. CASE UNCHANGED <<queueVars, agentVars>>
    BY <1>2, <2>1, <2>3 DEF queueVars, agentVars
  <2> QED
    BY <1>1, <2>1, <2>2, <2>3, LoadOfEnded
<1>10. ASSUME NEW t \in Tasks, NEW a \in Agents, HandlerStarts(t, a)
       PROVE  LoadIsOfRunningTasks'
  BY <1>1, <1>10, LoadOfStarted
<1> QED
  BY <1>3, <1>4, <1>5, <1>6, <1>7, <1>8, <1>9, <1>10 DEF Next, Pass, Leave

(* The load of an agent is at most what runs on it and what was started      *)
(* twice, so that no agent is lost to work that is over.                     *)
THEOREM DispatchLoadIsOfRunningTasks == Spec => []LoadIsOfRunningTasks
<1>1. Init => LoadIsOfRunningTasks
  BY DEF Init, LoadIsOfRunningTasks
<1> QED
  BY <1>1, DispatchInitially, DispatchInductive, LoadInductive, PTL DEF Spec
=============================================================================
