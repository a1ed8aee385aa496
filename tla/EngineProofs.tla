---------------------------- MODULE EngineProofs ----------------------------
(* Proofs about the engine of src/engine: GSDEngine, for any number of tasks, *)
(* agents, resumptions and scalings, and LockManager, for any number of       *)
(* owners and resources.  Of the engine: the types with the bound of the      *)
(* pool, that tasks are launched only when they are ready, that a completed   *)
(* workflow has completed all its tasks, and that what agents and tasks are   *)
(* marked as is what is going on.  Of the locks: the types for any number of  *)
(* managers, and for one manager that a grant is honoured until it expires.   *)
EXTENDS GSDEngine, LockManager, FiniteSetTheorems, TLAPS

JobType == [kind: Kinds, loop: Loops, task: Tasks \union {None}, agent: Nat]

(* The parts of TypeOK: the pool's lists, the marks on its agents, the engine. *)
ListType ==
    /\ agents \subseteq 1 .. currentId /\ Cardinality(agents) <= MaxPoolSize
    /\ availableAgents \in Seq(Nat)
    /\ taskQueue \in Seq(Callers) /\ waiting \subseteq Callers
    /\ currentId \in Nat

MarkType ==
    /\ busy \subseteq Nat /\ failed \subseteq Nat /\ retired \subseteq Nat
    /\ poolDown \in BOOLEAN

EngineType ==
    /\ status \in {"none", "running", "paused", "stopped", "completed", "failed"}
    /\ completedTasks \subseteq Tasks /\ runningTasks \subseteq Tasks
    /\ started \in {0} \union Loops
    /\ pendingTasks \in [Loops -> SUBSET Tasks]
    /\ loopAt \in [Loops -> {"none", "running", "sleeping", "awaiting", "ended"}]
    /\ batch \in [Loops -> SUBSET Tasks]
    /\ work \in [Callers -> Nat]
    /\ jobs \in Seq(JobType)
    /\ scalings \in 0 .. MaxScalings

LEMMA Parts ==
    /\ TypeOK <=> ListType /\ MarkType /\ EngineType
    /\ TypeOK' <=> ListType' /\ MarkType' /\ EngineType'
<1>1. TypeOK <=> ListType /\ MarkType /\ EngineType
  BY Zenon DEF TypeOK, ListType, MarkType, EngineType, JobType
<1>2. TypeOK' <=> ListType' /\ MarkType' /\ EngineType'
  BY Zenon DEF TypeOK, ListType, MarkType, EngineType, JobType
<1> QED
  BY <1>1, <1>2

-----------------------------------------------------------------------------
(* The pool *)

LEMMA AgentsFinite ==
    ASSUME ListType
    PROVE  IsFiniteSet(agents) /\ Cardinality(agents) \in Nat
<1>1. IsFiniteSet(1 .. currentId)
  BY FS_Interval DEF ListType
<1> QED
  BY <1>1, FS_Subset, FS_CardinalityType DEF ListType

(* Making room-many agents at most keeps the pool within its bound.           *)
LEMMA CreateType ==
    ASSUME ListType, NEW n \in Nat, Create(n),
           Cardinality(agents) + n <= MaxPoolSize
    PROVE  /\ agents' \subseteq 1 .. currentId'
           /\ Cardinality(agents') <= MaxPoolSize
           /\ availableAgents' \in Seq(Nat)
           /\ currentId' \in Nat
<1> DEFINE new == (currentId + 1) .. (currentId + n)
<1>1. currentId \in Nat /\ agents \subseteq 1 .. currentId /\ availableAgents \in Seq(Nat)
  BY DEF ListType
<1>2. currentId' = currentId + n /\ agents' = agents \union new
  BY DEF Create, Created
<1>3. currentId' \in Nat /\ agents' \subseteq 1 .. currentId'
  BY <1>1, <1>2
<1>4. availableAgents' \in Seq(Nat)
  <2>1. [i \in 1 .. n |-> currentId + i] \in Seq(Nat)
    BY <1>1
  <2> QED
    BY <1>1, <2>1 DEF Create
<1>5. IsFiniteSet(new) /\ Cardinality(new) = n
  BY <1>1, FS_Interval
<1>6. IsFiniteSet(agents) /\ Cardinality(agents) \in Nat
  BY AgentsFinite
<1>7. agents \intersect new = {}
  BY <1>1
<1>8. Cardinality(agents \union new) = Cardinality(agents) + n
  <2>1. Cardinality(agents \union new)
          = Cardinality(agents) + Cardinality(new) - Cardinality(agents \intersect new)
    BY <1>5, <1>6, FS_Union
  <2>2. Cardinality({}) = 0
    BY FS_EmptySet
  <2> HIDE DEF new
  <2>3. Cardinality(agents \intersect new) = 0
    BY <1>7, <2>2, Zenon
  <2> QED
    BY <2>1, <2>3, <1>5, <1>6
<1> QED
  BY <1>2, <1>3, <1>4, <1>8

(* Removing an entry keeps a list a list.                                     *)
LEMMA WithoutType ==
    ASSUME NEW list \in Seq(Nat), NEW a
    PROVE  Without(list, a) \in Seq(Nat)
<1>1. CASE \A i \in DOMAIN list : list[i] # a
  BY <1>1 DEF Without
<1>2. CASE \E i \in DOMAIN list : list[i] = a
  <2>1. Len(list) \in Nat /\ Len(list) >= 1 /\ DOMAIN list = 1 .. Len(list)
    BY <1>2
  <2>2. \A i \in 1 .. (Len(list) - 1) :
          (IF \E j \in 1 .. i : list[j] = a THEN list[i + 1] ELSE list[i]) \in Nat
    BY <2>1
  <2>3. Without(list, a) = [i \in 1 .. (Len(list) - 1) |->
                IF \E j \in 1 .. i : list[j] = a THEN list[i + 1] ELSE list[i]]
    BY <1>2 DEF Without
  <2> HIDE DEF Without
  <2> QED
    BY <2>1, <2>2, <2>3
<1> QED
  BY <1>1, <1>2

(* acquireAgent() in all its outcomes.                                        *)
LEMMA AcquireType ==
    ASSUME ListType, NEW a, NEW c \in Callers,
           \/ Take(a) \/ Grow(a) \/ Wait(c)
           \/ UNCHANGED <<agents, availableAgents, taskQueue, waiting, currentId>>
    PROVE  ListType'
<1>1. CASE Take(a)
  <2>1. availableAgents' \in Seq(Nat)
    BY <1>1, WithoutType DEF Take, ListType
  <2> QED
    BY <1>1, <2>1 DEF Take, ListType
<1>2. CASE Grow(a)
  <2>1. Cardinality(agents) \in Nat
    BY AgentsFinite
  <2>2. Create(1) /\ Cardinality(agents) + 1 <= MaxPoolSize
    BY <1>2, <2>1, PoolAssumption DEF Grow
  <2>3. /\ agents' \subseteq 1 .. currentId' /\ Cardinality(agents') <= MaxPoolSize
        /\ availableAgents' \in Seq(Nat) /\ currentId' \in Nat
    BY <2>2, CreateType
  <2> QED
    BY <1>2, <2>3 DEF Grow, ListType
<1>3. CASE Wait(c)
  <2>1. taskQueue' \in Seq(Callers) /\ waiting' \subseteq Callers
    BY <1>3 DEF Wait, ListType
  <2> QED
    BY <1>3, <2>1 DEF Wait, ListType
<1>4. CASE UNCHANGED <<agents, availableAgents, taskQueue, waiting, currentId>>
  BY <1>4 DEF ListType
<1> QED
  BY <1>1, <1>2, <1>3, <1>4

LEMMA ReleaseType ==
    ASSUME ListType, NEW a \in Nat, NEW usable, ReleaseAgent(a, usable)
    PROVE  ListType'
<1>1. taskQueue' \in Seq(Callers) /\ waiting' \subseteq Callers
  <2>1. CASE Serves(a, usable)
    BY <2>1 DEF ReleaseAgent, ListType, Serves
  <2>2. CASE ~Serves(a, usable)
    BY <2>2 DEF ReleaseAgent, ListType
  <2> QED
    BY <2>1, <2>2
<1>2. availableAgents' \in Seq(Nat)
  BY DEF ReleaseAgent, ListType
<1> QED
  BY <1>1, <1>2 DEF ReleaseAgent, ListType

LEMMA GiveUpType ==
    ASSUME ListType, NEW c, GiveUp(c)
    PROVE  ListType'
BY DEF GiveUp, ListType

LEMMA ScaleUpType ==
    ASSUME ListType, NEW n \in Nat, ScaleUp(n)
    PROVE  ListType'
<1> DEFINE room  == MaxPoolSize - Cardinality(agents)
           toAdd == IF n < room THEN n ELSE room
<1>1. Cardinality(agents) \in Nat /\ MaxPoolSize \in Nat /\ Cardinality(agents) <= MaxPoolSize
  BY AgentsFinite, PoolAssumption DEF ListType
<1>2. toAdd \in Nat /\ Cardinality(agents) + toAdd <= MaxPoolSize
  BY <1>1
<1>3. Create(toAdd) /\ UNCHANGED <<taskQueue, waiting>>
  BY DEF ScaleUp
<1> HIDE DEF toAdd, room
<1>4. /\ agents' \subseteq 1 .. currentId' /\ Cardinality(agents') <= MaxPoolSize
      /\ availableAgents' \in Seq(Nat) /\ currentId' \in Nat
  BY <1>2, <1>3, CreateType
<1> QED
  BY <1>3, <1>4 DEF ListType

(* Fewer agents keep within the bound.                                        *)
LEMMA FewerAgents ==
    ASSUME ListType, NEW S, S \subseteq agents
    PROVE  IsFiniteSet(S) /\ Cardinality(S) \in Nat /\ Cardinality(S) <= MaxPoolSize
<1>1. IsFiniteSet(agents) /\ Cardinality(agents) \in Nat
  BY AgentsFinite
<1>2. IsFiniteSet(S) /\ Cardinality(S) <= Cardinality(agents)
  BY <1>1, FS_Subset
<1>3. Cardinality(S) \in Nat
  BY <1>2, FS_CardinalityType
<1> QED
  BY <1>1, <1>2, <1>3, PoolAssumption DEF ListType

LEMMA ScaleDownType ==
    ASSUME ListType, NEW n \in Nat, ScaleDown(n)
    PROVE  ListType'
<1> DEFINE spare    == Len(availableAgents) - MinPoolSize
           toRemove == IF n < spare THEN n ELSE spare
           kept     == Len(availableAgents) - toRemove
<1>1. Len(availableAgents) \in Nat /\ MinPoolSize \in Nat
  BY PoolAssumption DEF ListType
<1>2. toRemove > 0 /\ availableAgents' = SubSeq(availableAgents, 1, kept)
  BY DEF ScaleDown
<1>3. kept \in Nat /\ kept <= Len(availableAgents)
  BY <1>1, <1>2
<1>4. availableAgents' \in Seq(Nat)
  <2> HIDE DEF kept
  <2> QED
    BY <1>2, <1>3 DEF ListType
<1>5. agents' \subseteq agents /\ UNCHANGED <<taskQueue, waiting, currentId>>
  BY DEF ScaleDown
<1>6. Cardinality(agents') <= MaxPoolSize
  BY <1>5, FewerAgents
<1> QED
  BY <1>4, <1>5, <1>6 DEF ListType

LEMMA AutoScaleType ==
    ASSUME ListType, AutoScale
    PROVE  ListType'
<1>1. Len(taskQueue) \in Nat /\ Len(availableAgents) \in Nat
  BY DEF ListType
<1> DEFINE up   == (Len(taskQueue) + 1) \div 2
           down == (Len(availableAgents) - MinPoolSize) \div 2
<1>2. CASE up > 0 /\ ScaleUp(up)
  <2>1. up \in Nat
    BY <1>1
  <2> HIDE DEF up
  <2> QED
    BY <1>2, <2>1, ScaleUpType
<1>3. CASE down > 0 /\ ScaleDown(down)
  <2>1. down \in Nat
    BY <1>1, <1>3, PoolAssumption
  <2> HIDE DEF down
  <2> QED
    BY <1>3, <2>1, ScaleDownType
<1> QED
  BY <1>2, <1>3 DEF AutoScale

LEMMA HandleUnhealthyType ==
    ASSUME ListType, NEW a, HandleUnhealthy(a)
    PROVE  ListType'
<1> DEFINE rest  == agents \ {a}
           list  == Without(availableAgents, a)
           short == ~poolDown /\ Cardinality(rest) < MinPoolSize
<1>1. list \in Seq(Nat)
  BY WithoutType DEF ListType
<1>2. IsFiniteSet(rest) /\ Cardinality(rest) \in Nat /\ Cardinality(rest) <= MaxPoolSize
  BY FewerAgents
<1>3. UNCHANGED <<taskQueue, waiting>>
  BY DEF HandleUnhealthy
<1>4. CASE ~short
  <2>1. agents' = rest /\ availableAgents' = list /\ currentId' = currentId
    BY <1>4, Zenon DEF HandleUnhealthy
  <2> HIDE DEF list
  <2> QED
    BY <1>1, <1>2, <1>3, <2>1 DEF ListType
<1>5. CASE short
  <2>1. /\ agents' = rest \union {currentId + 1}
        /\ availableAgents' = Append(list, currentId + 1)
        /\ currentId' = currentId + 1
    BY <1>5 DEF HandleUnhealthy
  <2>2. currentId \in Nat /\ rest \subseteq 1 .. currentId
    BY DEF ListType
  <2>3. Cardinality(rest \union {currentId + 1}) = Cardinality(rest) + 1
    BY <1>2, <2>2, FS_AddElement
  <2>4. Cardinality(agents') <= MaxPoolSize
    BY <1>2, <1>5, <2>1, <2>3, PoolAssumption
  <2> HIDE DEF list
  <2>5. availableAgents' \in Seq(Nat)
    BY <1>1, <2>1, <2>2
  <2> QED
    BY <1>3, <2>1, <2>2, <2>4, <2>5 DEF ListType
<1> QED
  BY <1>4, <1>5

-----------------------------------------------------------------------------
(* The jobs *)

LEMMA CallerType == \A c \in Callers : c[1] \in Loops /\ c[2] \in Tasks
BY EngineAssumption

LEMMA JobIsJob ==
    \A kind \in Kinds, l \in Loops, t \in Tasks \union {None}, a \in Nat :
        Job(kind, l, t, a) \in JobType
BY DEF Job, JobType

LEMMA ServedType ==
    ASSUME ListType, NEW a, NEW usable
    PROVE  Served(a, usable) \in Seq(Callers)
<1>1. CASE Serves(a, usable) /\ Head(taskQueue) \in waiting
  BY <1>1 DEF Served, ListType
<1>2. CASE ~(Serves(a, usable) /\ Head(taskQueue) \in waiting)
  BY <1>2 DEF Served
<1> QED
  BY <1>1, <1>2

LEMMA ExecutesType ==
    ASSUME NEW calls \in Seq(Callers), NEW a \in Nat
    PROVE  Executes(calls, a) \in Seq(JobType)
<1>1. Len(calls) \in Nat /\ DOMAIN calls = 1 .. Len(calls)
  OBVIOUS
<1>2. \A i \in DOMAIN calls : calls[i] \in Callers
  OBVIOUS
<1>3. "execute" \in Kinds
  BY DEF Kinds
<1>4. \A i \in DOMAIN calls : Job("execute", calls[i][1], calls[i][2], a) \in JobType
  BY <1>2, <1>3, CallerType, JobIsJob
<1>5. [i \in 1 .. Len(calls) |-> Job("execute", calls[i][1], calls[i][2], a)] \in Seq(JobType)
  BY <1>1, <1>4
<1> QED
  BY <1>1, <1>5 DEF Executes

(* A listing of a finite set is a sequence of its members.                    *)
LEMMA ListingType ==
    ASSUME NEW S, IsFiniteSet(S), NEW list \in Listings(S)
    PROVE  list \in Seq(S)
<1>1. Cardinality(S) \in Nat
  BY FS_CardinalityType
<1>2. list \in [1 .. Cardinality(S) -> S]
  BY DEF Listings
<1> QED
  BY <1>1, <1>2

LEMMA TailType ==
    ASSUME EngineType, NEW kind, NEW l, NEW t, NEW a, Runs(kind, l, t, a)
    PROVE  Tail(jobs) \in Seq(JobType)
BY DEF EngineType, Runs

LEMMA AppendType ==
    ASSUME NEW q \in Seq(JobType), NEW kind \in Kinds, NEW l \in Loops,
           NEW t \in Tasks \union {None}, NEW a \in Nat
    PROVE  /\ Append(q, Job(kind, l, t, a)) \in Seq(JobType)
           /\ <<Job(kind, l, t, a)>> \in Seq(JobType)
BY JobIsJob

-----------------------------------------------------------------------------
(* The types *)

LEMMA InitType == Init => TypeOK
<1> SUFFICES ASSUME Init PROVE ListType /\ MarkType /\ EngineType
  BY Parts
<1>1. MinPoolSize \in Nat /\ MinPoolSize <= MaxPoolSize
  BY PoolAssumption
<1>2. Cardinality(1 .. MinPoolSize) = MinPoolSize
  BY <1>1, FS_Interval
<1>3. ListType
  <2>1. [i \in 1 .. MinPoolSize |-> i] \in Seq(Nat)
    BY <1>1
  <2>2. Cardinality(agents) <= MaxPoolSize
    BY <1>1, <1>2, Zenon DEF Init, PoolInit
  <2> QED
    BY <1>1, <2>1, <2>2 DEF Init, PoolInit, ListType
<1>4. MarkType
  BY DEF Init, PoolInit, MarkType
<1>5. EngineType
  BY EngineAssumption DEF Init, EngineType
<1> QED
  BY <1>3, <1>4, <1>5

(* The calls on the engine.                                                   *)
LEMMA BeginType ==
    ASSUME TypeOK, NEW l \in Loops, Begin(l),
           status' \in {"none", "running", "paused", "stopped", "completed", "failed"}
    PROVE  TypeOK'
<1>1. ListType /\ MarkType /\ EngineType
  BY Parts
<1>2. ListType' /\ MarkType'
  BY <1>1 DEF Begin, ListType, MarkType, poolVars
<1>3. jobs' \in Seq(JobType)
  BY JobIsJob DEF Begin, Kinds
<1>4. EngineType'
  BY <1>1, <1>3 DEF Begin, EngineType
<1> QED
  BY <1>2, <1>4, Parts

LEMMA RequestType ==
    ASSUME TypeOK, StartWorkflow \/ PauseWorkflow \/ ResumeWorkflow \/ StopWorkflow
    PROVE  TypeOK'
<1>1. ListType /\ MarkType /\ EngineType
  BY Parts
<1>2. CASE StartWorkflow
  BY <1>2, BeginType, EngineAssumption DEF StartWorkflow, Loops
<1>3. CASE ResumeWorkflow
  <2>1. started + 1 \in Loops
    BY <1>1, <1>3, EngineAssumption DEF ResumeWorkflow, Loops, EngineType
  <2> QED
    BY <1>3, <2>1, BeginType DEF ResumeWorkflow
<1>4. CASE PauseWorkflow \/ StopWorkflow
  <2>1. ListType' /\ MarkType'
    BY <1>1, <1>4 DEF PauseWorkflow, StopWorkflow, ListType, MarkType, poolVars
  <2>2. EngineType'
    BY <1>1, <1>4 DEF PauseWorkflow, StopWorkflow, EngineType
  <2> QED
    BY <2>1, <2>2, Parts
<1> QED
  BY <1>2, <1>3, <1>4

LEMMA ShutdownType ==
    ASSUME TypeOK, Shutdown \/ ShutdownEnds
    PROVE  TypeOK'
<1>1. ListType /\ MarkType /\ EngineType
  BY Parts
<1>2. CASE Shutdown
  <2>1. PICK rejected \in Listings(waiting) :
          jobs' = [i \in DOMAIN rejected |->
                     Job("catch", rejected[i][1], rejected[i][2], 0)]
    BY <1>2 DEF Shutdown
  <2>2. IsFiniteSet(waiting)
    <3>1. IsFiniteSet(Loops)
      BY EngineAssumption, FS_Interval DEF Loops
    <3>2. IsFiniteSet(Callers)
      BY <3>1, EngineAssumption, FS_Product
    <3> QED
      BY <1>1, <3>2, FS_Subset DEF ListType
  <2>3. rejected \in Seq(waiting)
    BY <2>2, ListingType
  <2>4. \A i \in DOMAIN rejected : rejected[i] \in Callers
    BY <2>3, <1>1 DEF ListType
  <2>5. \A i \in DOMAIN rejected : Job("catch", rejected[i][1], rejected[i][2], 0) \in JobType
    BY <2>4, CallerType, JobIsJob DEF Kinds
  <2>6. DOMAIN rejected = 1 .. Len(rejected) /\ Len(rejected) \in Nat
    BY <2>3
  <2>7. jobs' \in Seq(JobType)
    BY <2>1, <2>5, <2>6
  <2>8. agents \subseteq Nat
    BY <1>1 DEF ListType
  <2>9. /\ taskQueue' = << >> /\ waiting' = {} /\ poolDown' = TRUE
        /\ retired' = retired \union agents
        /\ UNCHANGED <<agents, availableAgents, currentId, busy, failed>>
    BY <1>2, Zenon DEF Shutdown
  <2>10. ListType'
    BY <1>1, <2>9 DEF ListType
  <2>11. MarkType'
    BY <1>1, <2>8, <2>9 DEF MarkType
  <2>12. /\ status' \in {status, "stopped"}
         /\ UNCHANGED <<completedTasks, runningTasks, started, pendingTasks, loopAt, batch,
                        work, scalings>>
    BY <1>2 DEF Shutdown
  <2>13. EngineType'
    BY <1>1, <2>7, <2>12 DEF EngineType
  <2> QED
    BY <2>10, <2>11, <2>13, Parts
<1>3. CASE ShutdownEnds
  <2>1. Cardinality(agents') <= MaxPoolSize
    BY <1>1, <1>3, FewerAgents DEF ShutdownEnds
  <2>2. ListType' /\ MarkType'
    BY <1>1, <1>3, <2>1 DEF ShutdownEnds, ListType, MarkType
  <2>3. EngineType'
    BY <1>1, <1>3 DEF ShutdownEnds, EngineType, engineVars
  <2> QED
    BY <2>2, <2>3, Parts
<1> QED
  BY <1>2, <1>3

(* Scaling and the health check.                                              *)
LEMMA PoolStepType ==
    ASSUME TypeOK, Scale \/ CheckHealth \/ \E a \in 1 .. currentId : HealthStep(a)
    PROVE  TypeOK'
<1>1. ListType /\ MarkType /\ EngineType
  BY Parts
<1>2. CASE Scale
  <2>1. ListType'
    BY <1>1, <1>2, AutoScaleType, ScaleUpType, ScaleDownType DEF Scale
  <2>2. MarkType'
    <3>1. agents \subseteq Nat /\ \A i \in DOMAIN availableAgents : availableAgents[i] \in Nat
      BY <1>1 DEF ListType
    <3>2. \A n \in Int : ScaleUp(n) => MarkType'
      BY <1>1 DEF ScaleUp, MarkType
    <3>3. \A n \in Int : ScaleDown(n) => MarkType'
      <4> SUFFICES ASSUME NEW n \in Int, ScaleDown(n) PROVE MarkType'
        OBVIOUS
      <4> DEFINE spare    == Len(availableAgents) - MinPoolSize
                 toRemove == IF n < spare THEN n ELSE spare
                 kept     == Len(availableAgents) - toRemove
                 removed  == {availableAgents[i] : i \in (kept + 1) .. Len(availableAgents)}
      <4>1. Len(availableAgents) \in Nat /\ MinPoolSize \in Nat
        BY <1>1, PoolAssumption DEF ListType
      <4>2. \/ toRemove <= 0
            \/ toRemove > Len(availableAgents)
            \/ removed \subseteq Nat
        BY <3>1, <4>1, <1>1 DEF ListType
      <4>3. toRemove \in Int /\ toRemove > 0 /\ toRemove <= Len(availableAgents)
        BY <4>1, PoolAssumption DEF ScaleDown
      <4>4. retired' = retired \union removed /\ UNCHANGED <<busy, failed, poolDown>>
        BY DEF ScaleDown
      <4>5. removed \subseteq Nat
        <5> HIDE DEF removed, toRemove
        <5> QED
          BY <4>1, <4>2, <4>3
      <4> HIDE DEF removed
      <4> QED
        BY <1>1, <4>4, <4>5 DEF MarkType
    <3>4. AutoScale => \E n \in Int : ScaleUp(n) \/ ScaleDown(n)
      <4> DEFINE up   == (Len(taskQueue) + 1) \div 2
                 down == (Len(availableAgents) - MinPoolSize) \div 2
      <4>1. up \in Int /\ down \in Int
        BY <1>1, PoolAssumption DEF ListType
      <4>2. AutoScale => ScaleUp(up) \/ ScaleDown(down)
        BY DEF AutoScale
      <4> HIDE DEF up, down
      <4> QED
        BY <4>1, <4>2
    <3> QED
      BY <1>2, <3>2, <3>3, <3>4 DEF Scale
  <2>3. EngineType'
    BY <1>1, <1>2, EngineAssumption DEF Scale, EngineType
  <2> QED
    BY <2>1, <2>2, <2>3, Parts
<1>3. CASE CheckHealth
  <2> DEFINE errors == agents \intersect failed
  <2>1. PICK list \in Listings(errors) :
          jobs' = [i \in DOMAIN list |-> Job("unhealthy", 1, None, list[i])]
    BY <1>3 DEF CheckHealth
  <2>2. IsFiniteSet(errors)
    BY <1>1, FewerAgents
  <2>3. list \in Seq(errors)
    BY <2>2, ListingType
  <2>4. errors \subseteq Nat
    BY <1>1 DEF MarkType
  <2>5. 1 \in Loops
    BY EngineAssumption DEF Loops
  <2> HIDE DEF errors
  <2>6. /\ DOMAIN list = 1 .. Len(list) /\ Len(list) \in Nat
        /\ \A i \in DOMAIN list : list[i] \in errors
    BY <2>3
  <2>7. \A i \in DOMAIN list : list[i] \in Nat
    BY <2>4, <2>6, Zenon
  <2>8. \A i \in DOMAIN list : Job("unhealthy", 1, None, list[i]) \in JobType
    BY <2>5, <2>7, JobIsJob DEF Kinds
  <2>9. jobs' \in Seq(JobType)
    BY <2>1, <2>6, <2>8
  <2>10. ListType' /\ MarkType'
    BY <1>1, <1>3 DEF CheckHealth, ListType, MarkType, poolVars
  <2>11. EngineType'
    BY <1>1, <1>3, <2>9 DEF CheckHealth, EngineType
  <2> QED
    BY <2>10, <2>11, Parts
<1>4. ASSUME NEW a \in 1 .. currentId, HealthStep(a) PROVE TypeOK'
  <2>1. ListType'
    BY <1>1, <1>4, HandleUnhealthyType DEF HealthStep
  <2>2. MarkType'
    BY <1>1, <1>4 DEF HealthStep, HandleUnhealthy, MarkType
  <2>3. jobs' \in Seq(JobType)
    BY <1>1, <1>4, TailType DEF HealthStep
  <2>4. EngineType'
    BY <1>1, <1>4, <2>3 DEF HealthStep, EngineType
  <2> QED
    BY <2>1, <2>2, <2>4, Parts
<1> QED
  BY <1>2, <1>3, <1>4

(* The steps of a loop leave the pool alone.                                  *)
LEMMA LoopType ==
    ASSUME TypeOK, NEW l \in Loops, LoopStep(l)
    PROVE  TypeOK'
<1>1. ListType /\ MarkType /\ EngineType
  BY Parts
<1>2. ListType' /\ MarkType'
  BY <1>1 DEF LoopStep, LoopSleeps, LoopStopped, LoopEnds, LoopLaunches, LoopPolls,
              LoopFails, ListType, MarkType, poolVars
<1>3. Runs("loop", l, None, 0) \/ Runs("fails", l, None, 0) => Tail(jobs) \in Seq(JobType)
  BY <1>1, TailType
<1>4. jobs' \in Seq(JobType)
  <2>1. CASE LoopSleeps(l) \/ LoopStopped(l) \/ LoopEnds(l) \/ LoopFails(l)
    BY <1>3, <2>1 DEF LoopSleeps, LoopStopped, LoopEnds, LoopFails
  <2>2. CASE LoopPolls(l)
    BY <2>2, JobIsJob DEF LoopPolls, Kinds
  <2>3. CASE LoopLaunches(l)
    <3>1. PICK ready \in Listings(Ready(l)) :
            jobs' = [i \in DOMAIN ready |-> Job("launch", l, ready[i], 0)] \o Tail(jobs)
      BY <2>3 DEF LoopLaunches
    <3>2. Ready(l) \subseteq Tasks
      BY <1>1 DEF Ready, EngineType
    <3>3. IsFiniteSet(Ready(l))
      BY <3>2, EngineAssumption, FS_Subset
    <3>4. ready \in Seq(Ready(l))
      BY <3>3, ListingType
    <3>5. /\ DOMAIN ready = 1 .. Len(ready) /\ Len(ready) \in Nat
          /\ \A i \in DOMAIN ready : ready[i] \in Ready(l)
      BY <3>4
    <3>6. \A i \in DOMAIN ready : Job("launch", l, ready[i], 0) \in JobType
      BY <3>2, <3>5, JobIsJob DEF Kinds
    <3>7. [i \in DOMAIN ready |-> Job("launch", l, ready[i], 0)] \in Seq(JobType)
      BY <3>5, <3>6
    <3>8. Tail(jobs) \in Seq(JobType)
      BY <1>3, <2>3 DEF LoopLaunches
    <3> QED
      BY <3>1, <3>7, <3>8
  <2> QED
    BY <2>1, <2>2, <2>3 DEF LoopStep
<1>5. EngineType'
  <2>1. Ready(l) \subseteq Tasks
    BY <1>1 DEF Ready, EngineType
  <2> QED
    BY <1>1, <1>4, <2>1 DEF LoopStep, LoopSleeps, LoopStopped, LoopEnds, LoopLaunches,
                            LoopPolls, LoopFails, EngineType
<1> QED
  BY <1>2, <1>5, Parts

(* The steps of a task.                                                       *)
LEMMA LaunchType ==
    ASSUME TypeOK, NEW l \in Loops, NEW t \in Tasks, Launch(l, t)
    PROVE  TypeOK'
<1>1. ListType /\ MarkType /\ EngineType
  BY Parts
<1>2. <<l, t>> \in Callers
  BY EngineAssumption
<1>3. Tail(jobs) \in Seq(JobType)
  BY <1>1, TailType DEF Launch
<1>4. /\ runningTasks' = runningTasks \union {t}
      /\ pendingTasks' = [pendingTasks EXCEPT ![l] = @ \ {t}]
      /\ UNCHANGED <<busy, failed, retired, poolDown>>
      /\ UNCHANGED <<status, completedTasks, started, loopAt, batch, work, scalings>>
  BY DEF Launch
<1>5. ListType' /\ jobs' \in Seq(JobType)
  <2>1. ASSUME NEW a \in 1 .. (currentId + 1), Take(a) \/ Grow(a),
               jobs' = Append(Tail(jobs), Job("execute", l, t, a))
        PROVE  ListType' /\ jobs' \in Seq(JobType)
    <3>1. ListType'
      BY <1>1, <1>2, <2>1, AcquireType
    <3>2. a \in Nat
      BY <1>1 DEF ListType
    <3> QED
      BY <1>3, <2>1, <3>1, <3>2, AppendType DEF Kinds
  <2>2. ASSUME Wait(<<l, t>>), jobs' = Tail(jobs)
        PROVE  ListType' /\ jobs' \in Seq(JobType)
    BY <1>1, <1>2, <1>3, <2>2, AcquireType
  <2>3. ASSUME jobs' = Append(Tail(jobs), Job("catch", l, t, 0)),
               UNCHANGED <<agents, availableAgents, taskQueue, waiting, currentId>>
        PROVE  ListType' /\ jobs' \in Seq(JobType)
    <3>1. ListType'
      BY <1>1, <2>3 DEF ListType
    <3> QED
      BY <1>3, <2>3, <3>1, AppendType DEF Kinds
  <2> QED
    BY <2>1, <2>2, <2>3 DEF Launch
<1>6. MarkType'
  BY <1>1, <1>4 DEF MarkType
<1>7. EngineType'
  BY <1>1, <1>4, <1>5 DEF EngineType
<1> QED
  BY <1>5, <1>6, <1>7, Parts

LEMMA WorkType ==
    ASSUME TypeOK, NEW l \in Loops, NEW t \in Tasks, NEW a \in 1 .. currentId,
           Execute(l, t, a) \/ WorkEnds(l, t, a) \/ WorkFails(l, t, a) \/ TaskDone(l, t, a)
    PROVE  TypeOK'
<1>1. ListType /\ MarkType /\ EngineType
  BY Parts
<1>2. a \in Nat /\ <<l, t>> \in Callers
  BY <1>1, EngineAssumption DEF ListType
<1>3. CASE Execute(l, t, a)
  <2>1. Tail(jobs) \in Seq(JobType)
    BY <1>1, <1>3, TailType DEF Execute
  <2>2. jobs' \in Seq(JobType)
    BY <1>3, <2>1, AppendType DEF Execute, Kinds
  <2>3. ListType' /\ MarkType'
    BY <1>1, <1>2, <1>3 DEF Execute, ListType, MarkType
  <2>4. EngineType'
    BY <1>1, <1>2, <1>3, <2>2 DEF Execute, EngineType
  <2> QED
    BY <2>3, <2>4, Parts
<1>4. CASE WorkEnds(l, t, a)
  <2> DEFINE usable == a \notin failed \union retired
  <2>1. ReleaseAgent(a, usable)
    BY <1>4 DEF WorkEnds
  <2>2. Executes(Served(a, usable), a) \in Seq(JobType)
    BY <1>1, <1>2, ServedType, ExecutesType
  <2>3. <<Job("done", l, t, a)>> \in Seq(JobType)
    BY <1>2, JobIsJob DEF Kinds
  <2>4. jobs' = Executes(Served(a, usable), a) \o <<Job("done", l, t, a)>>
    BY <1>4 DEF WorkEnds
  <2>5. jobs' \in Seq(JobType)
    BY <2>2, <2>3, <2>4
  <2>6. ListType'
    BY <1>1, <1>2, <2>1, ReleaseType
  <2>7. MarkType'
    BY <1>1, <1>4, <2>1 DEF WorkEnds, ReleaseAgent, MarkType
  <2>8. EngineType'
    BY <1>1, <1>2, <1>4, <2>5 DEF WorkEnds, EngineType
  <2> QED
    BY <2>6, <2>7, <2>8, Parts
<1>5. CASE WorkFails(l, t, a)
  <2>1. ReleaseAgent(a, FALSE)
    BY <1>5 DEF WorkFails
  <2>2. jobs' \in Seq(JobType)
    BY <1>5, JobIsJob DEF WorkFails, Kinds
  <2>3. ListType'
    BY <1>1, <1>2, <2>1, ReleaseType
  <2>4. MarkType'
    BY <1>1, <1>2, <1>5, <2>1 DEF WorkFails, ReleaseAgent, MarkType
  <2>5. EngineType'
    BY <1>1, <1>2, <1>5, <2>2 DEF WorkFails, EngineType
  <2> QED
    BY <2>3, <2>4, <2>5, Parts
<1>6. CASE TaskDone(l, t, a)
  <2>1. ReleaseAgent(a, IsAvailable(a)) /\ Tail(jobs) \in Seq(JobType)
    BY <1>1, <1>6, TailType DEF TaskDone
  <2>2. Executes(Served(a, IsAvailable(a)), a) \in Seq(JobType)
    BY <1>1, <1>2, ServedType, ExecutesType
  <2>3. PICK next \in {<<Job("loop", l, None, 0)>>, << >>} :
          /\ jobs' = Tail(jobs) \o Executes(Served(a, IsAvailable(a)), a) \o next
          /\ loopAt' = [loopAt EXCEPT ![l] = IF next = << >> THEN @ ELSE "running"]
    BY <1>6 DEF TaskDone
  <2>4. next \in Seq(JobType)
    <3>1. Job("loop", l, None, 0) \in JobType
      BY JobIsJob DEF Kinds
    <3>2. <<Job("loop", l, None, 0)>> \in Seq(JobType) /\ << >> \in Seq(JobType)
      BY <3>1
    <3> QED
      BY <2>3, <3>2, Zenon
  <2>5. jobs' \in Seq(JobType)
    BY <2>1, <2>2, <2>3, <2>4
  <2>6. ListType'
    BY <1>1, <1>2, <2>1, ReleaseType
  <2>7. MarkType'
    BY <1>1, <1>6, <2>1 DEF TaskDone, ReleaseAgent, MarkType
  <2>8. EngineType'
    BY <1>1, <1>6, <2>3, <2>5 DEF TaskDone, EngineType
  <2> QED
    BY <2>6, <2>7, <2>8, Parts
<1> QED
  BY <1>3, <1>4, <1>5, <1>6

LEMMA FailureType ==
    ASSUME TypeOK, NEW l \in Loops, NEW t \in Tasks, WaitTimesOut(l, t) \/ TaskFails(l, t)
    PROVE  TypeOK'
<1>1. ListType /\ MarkType /\ EngineType
  BY Parts
<1>2. CASE WaitTimesOut(l, t)
  <2>1. jobs' \in Seq(JobType)
    BY <1>2, JobIsJob DEF WaitTimesOut, Kinds
  <2>2. ListType' /\ MarkType'
    BY <1>1, <1>2, GiveUpType DEF WaitTimesOut, GiveUp, MarkType
  <2>3. EngineType'
    BY <1>1, <1>2, <2>1 DEF WaitTimesOut, EngineType
  <2> QED
    BY <2>2, <2>3, Parts
<1>3. CASE TaskFails(l, t)
  <2>1. Tail(jobs) \in Seq(JobType)
    BY <1>1, <1>3, TailType DEF TaskFails
  <2>2. jobs' \in Seq(JobType)
    <3>1. Append(Tail(jobs), Job("fails", l, None, 0)) \in Seq(JobType)
      BY <2>1, AppendType DEF Kinds
    <3> QED
      BY <1>3, <2>1, <3>1 DEF TaskFails
  <2>3. ListType' /\ MarkType'
    BY <1>1, <1>3 DEF TaskFails, ListType, MarkType, poolVars
  <2>4. EngineType'
    BY <1>1, <1>3, <2>2 DEF TaskFails, EngineType
  <2> QED
    BY <2>3, <2>4, Parts
<1> QED
  BY <1>2, <1>3

LEMMA NextType == TypeOK /\ [Next]_vars => TypeOK'
<1> SUFFICES ASSUME TypeOK, [Next]_vars PROVE TypeOK'
  OBVIOUS
<1>1. ASSUME NEW l \in Loops, NEW t \in Tasks, TaskStep(l, t) PROVE TypeOK'
  BY <1>1, LaunchType, WorkType, FailureType DEF TaskStep
<1>2. CASE Progress
  BY <1>1, <1>2, LoopType, PoolStepType DEF Progress
<1>3. CASE Request
  BY <1>3, RequestType, ShutdownType, PoolStepType DEF Request
<1>4. CASE UNCHANGED vars
  <2>1. ListType' /\ MarkType'
    BY <1>4, Parts DEF vars, poolVars, ListType, MarkType
  <2>2. EngineType'
    BY <1>4, Parts DEF vars, engineVars, EngineType
  <2> QED
    BY <2>1, <2>2, Parts
<1> QED
  BY <1>2, <1>3, <1>4 DEF Next

(* Every variable has its type and the pool never exceeds its maximum,        *)
(* through acquisitions, releases, scalings, health checks and a shutdown.    *)
THEOREM TypeCorrect == Spec => []TypeOK
BY InitType, NextType, PTL DEF Spec

-----------------------------------------------------------------------------
(* The inductive invariant.  Launches come first in the queue, each of a task *)
(* that is ready and in the batch its loop awaits; a loop has one turn queued *)
(* at most; and a loop that has not ended knows of every task left to do.     *)

LaunchJobs ==
    \A i \in DOMAIN jobs : jobs[i].kind = "launch" =>
        /\ jobs[i].task \in Tasks
        /\ Dependencies[jobs[i].task] \subseteq completedTasks
        /\ status \notin {"paused", "stopped"}
        /\ loopAt[jobs[i].loop] = "awaiting"
        /\ jobs[i].task \in batch[jobs[i].loop]
        /\ \A j \in 1 .. (i - 1) : jobs[j].kind = "launch"

LoopJobs ==
    \A i \in DOMAIN jobs : jobs[i].kind = "loop" =>
        /\ loopAt[jobs[i].loop] = "running"
        /\ \A j \in DOMAIN jobs :
              jobs[j].kind = "loop" /\ jobs[j].loop = jobs[i].loop => j = i

Covered ==
    \A l \in Loops :
        /\ loopAt[l] \in {"running", "sleeping"} =>
              Tasks \subseteq pendingTasks[l] \union completedTasks
        /\ loopAt[l] = "awaiting" =>
              Tasks \subseteq pendingTasks[l] \union batch[l] \union completedTasks

Inv == LaunchJobs /\ LoopJobs /\ Covered /\ CompletedMeansAll

LEMMA InitInv == Init => Inv
BY DEF Init, Inv, LaunchJobs, LoopJobs, Covered, CompletedMeansAll

(* Jobs that are neither launches nor turns of a loop.                        *)
Plain(q) == \A i \in DOMAIN q : q[i].kind \notin {"launch", "loop"}

LEMMA PlainJobs ==
    ASSUME Plain(jobs')
    PROVE  LaunchJobs' /\ LoopJobs'
BY DEF Plain, LaunchJobs, LoopJobs

LEMMA OneLoopJob ==
    ASSUME NEW l \in Loops, jobs' = <<Job("loop", l, None, 0)>>, loopAt'[l] = "running"
    PROVE  LaunchJobs' /\ LoopJobs'
BY DEF Job, LaunchJobs, LoopJobs

(* Where the members of a queue come from when its head is done.              *)
LEMMA Shift ==
    ASSUME NEW q \in Seq(JobType), q # << >>, NEW extra \in Seq(JobType),
           NEW i \in DOMAIN (Tail(q) \o extra)
    PROVE  \/ i + 1 \in DOMAIN q /\ (Tail(q) \o extra)[i] = q[i + 1]
           \/ /\ i - Len(q) + 1 \in DOMAIN extra
              /\ (Tail(q) \o extra)[i] = extra[i - Len(q) + 1]
OBVIOUS

(* A turn that does not launch leaves no launch, and the other turns of loops *)
(* where they were.                                                           *)
LEMMA ContinueJobs ==
    ASSUME LaunchJobs, jobs \in Seq(JobType), jobs # << >>, Head(jobs).kind # "launch",
           NEW extra \in Seq(JobType), Plain(extra), jobs' = Tail(jobs) \o extra
    PROVE  \A i \in DOMAIN jobs' :
              /\ jobs'[i].kind # "launch"
              /\ jobs'[i].kind = "loop" => i + 1 \in DOMAIN jobs /\ jobs'[i] = jobs[i + 1]
<1> SUFFICES ASSUME NEW i \in DOMAIN jobs'
             PROVE  /\ jobs'[i].kind # "launch"
                    /\ jobs'[i].kind = "loop" => i + 1 \in DOMAIN jobs /\ jobs'[i] = jobs[i + 1]
  OBVIOUS
<1>1. CASE i + 1 \in DOMAIN jobs /\ jobs'[i] = jobs[i + 1]
  <2>1. 1 \in 1 .. ((i + 1) - 1) /\ Head(jobs) = jobs[1]
    BY <1>1
  <2> QED
    BY <1>1, <2>1 DEF LaunchJobs
<1>2. CASE i - Len(jobs) + 1 \in DOMAIN extra /\ jobs'[i] = extra[i - Len(jobs) + 1]
  BY <1>2 DEF Plain
<1> QED
  BY <1>1, <1>2, Shift

LEMMA ContinueInv ==
    ASSUME LaunchJobs, LoopJobs, jobs \in Seq(JobType), jobs # << >>,
           Head(jobs).kind # "launch",
           NEW extra \in Seq(JobType), Plain(extra), jobs' = Tail(jobs) \o extra,
           NEW l \in Loops, \A m \in Loops \ {l} : loopAt'[m] = loopAt[m],
           \/ loopAt'[l] = loopAt[l] \/ loopAt[l] # "running"
           \/ Head(jobs).kind = "loop" /\ Head(jobs).loop = l
    PROVE  LaunchJobs' /\ LoopJobs'
<1>1. \A i \in DOMAIN jobs' :
          /\ jobs'[i].kind # "launch"
          /\ jobs'[i].kind = "loop" => i + 1 \in DOMAIN jobs /\ jobs'[i] = jobs[i + 1]
  BY ContinueJobs
<1>2. LaunchJobs'
  BY <1>1 DEF LaunchJobs
<1>3. \A i \in DOMAIN jobs' : i \in Nat /\ i # 0
  BY DEF JobType
<1>4. \A i \in DOMAIN jobs : jobs[i].loop \in Loops
  <2>1. \A i \in DOMAIN jobs : jobs[i] \in JobType
    OBVIOUS
  <2> QED
    BY <2>1 DEF JobType
<1>5. 1 \in DOMAIN jobs /\ Head(jobs) = jobs[1]
  OBVIOUS
<1>6. ASSUME NEW i \in DOMAIN jobs', jobs'[i].kind = "loop"
      PROVE  loopAt'[jobs'[i].loop] = "running"
  <2>1. i + 1 \in DOMAIN jobs /\ jobs'[i] = jobs[i + 1] /\ i + 1 # 1
    BY <1>1, <1>3, <1>6
  <2>2. loopAt[jobs'[i].loop] = "running" /\ jobs'[i].loop \in Loops
    BY <1>4, <1>6, <2>1 DEF LoopJobs
  <2>3. ~(Head(jobs).kind = "loop" /\ Head(jobs).loop = jobs'[i].loop)
    BY <1>5, <1>6, <2>1 DEF LoopJobs
  <2> QED
    BY <2>2, <2>3
<1>7. ASSUME NEW i \in DOMAIN jobs', NEW j \in DOMAIN jobs', jobs'[i].kind = "loop",
             jobs'[j].kind = "loop", jobs'[j].loop = jobs'[i].loop
      PROVE  j = i
  <2>1. /\ i + 1 \in DOMAIN jobs /\ jobs'[i] = jobs[i + 1]
        /\ j + 1 \in DOMAIN jobs /\ jobs'[j] = jobs[j + 1]
    BY <1>1, <1>7
  <2>2. j + 1 = i + 1
    BY <1>7, <2>1 DEF LoopJobs
  <2> QED
    BY <1>3, <2>2
<1>8. LoopJobs'
  BY <1>6, <1>7 DEF LoopJobs
<1> QED
  BY <1>2, <1>8

LEMMA ExecutesPlain ==
    ASSUME NEW calls, NEW a
    PROVE  Plain(Executes(calls, a))
BY DEF Plain, Executes, Job

LEMMA PlainConcat ==
    ASSUME NEW p \in Seq(JobType), NEW q \in Seq(JobType), Plain(p), Plain(q)
    PROVE  Plain(p \o q)
<1>1. \A i \in DOMAIN (p \o q) :
          \/ i \in DOMAIN p /\ (p \o q)[i] = p[i]
          \/ i - Len(p) \in DOMAIN q /\ (p \o q)[i] = q[i - Len(p)]
  OBVIOUS
<1> QED
  BY <1>1 DEF Plain

(* A loop whose tasks are all known and that can start none, while nothing    *)
(* runs, has none left: there is always a task that waits for no other.       *)
LEMMA StuckIsDone ==
    ASSUME EngineType, Covered, NEW l \in Loops, loopAt[l] = "running", Ends(l)
    PROVE  status = "running" => Tasks \subseteq completedTasks
<1>1. Tasks \subseteq pendingTasks[l] \union completedTasks
  BY DEF Covered
<1>2. CASE pendingTasks[l] = {}
  BY <1>1, <1>2
<1>3. CASE Stuck(l) /\ pendingTasks[l] # {}
  <2>1. pendingTasks[l] \subseteq Tasks
    BY DEF EngineType
  <2>2. PICK t \in pendingTasks[l] : Dependencies[t] \intersect pendingTasks[l] = {}
    BY <1>3, <2>1, EngineAssumption
  <2>3. Dependencies[t] \subseteq Tasks
    BY <2>1, EngineAssumption
  <2>4. t \in Ready(l)
    BY <1>1, <1>3, <2>2, <2>3 DEF Ready, Stuck
  <2> QED
    BY <1>3, <2>4 DEF Stuck
<1> QED
  BY <1>2, <1>3 DEF Ends

LEMMA BeginInv ==
    ASSUME TypeOK, Inv, NEW l \in Loops, Begin(l), status' = "running"
    PROVE  Inv'
<1>1. EngineType
  BY Parts
<1>2. loopAt'[l] = "running" /\ pendingTasks'[l] = Tasks \ completedTasks
  BY <1>1 DEF Begin, EngineType
<1>3. LaunchJobs' /\ LoopJobs'
  BY <1>2, OneLoopJob DEF Begin
<1>4. Covered'
  <2> SUFFICES ASSUME NEW m \in Loops
               PROVE  /\ loopAt'[m] \in {"running", "sleeping"} =>
                            Tasks \subseteq pendingTasks'[m] \union completedTasks'
                      /\ loopAt'[m] = "awaiting" =>
                            Tasks \subseteq pendingTasks'[m] \union batch'[m]
                                                             \union completedTasks'
    BY DEF Covered
  <2>1. completedTasks' = completedTasks /\ batch' = batch
    BY DEF Begin
  <2>2. CASE m = l
    BY <1>2, <2>1, <2>2
  <2>3. CASE m # l
    <3>1. loopAt'[m] = loopAt[m] /\ pendingTasks'[m] = pendingTasks[m]
      BY <1>1, <2>3 DEF Begin, EngineType
    <3> QED
      BY <2>1, <3>1 DEF Inv, Covered
  <2> QED
    BY <2>2, <2>3
<1>5. CompletedMeansAll'
  BY DEF CompletedMeansAll
<1> QED
  BY <1>3, <1>4, <1>5 DEF Inv

(* Steps that leave the tasks and the loops alone, when no turn is queued or  *)
(* the turn of the head is not a launch.                                      *)
LEMMA AsideInv ==
    ASSUME TypeOK, Inv,
           UNCHANGED <<completedTasks, pendingTasks, loopAt, batch>>,
           status' # "completed" \/ status' = status,
           \/ Plain(jobs')
           \/ LaunchJobs' /\ LoopJobs'
    PROVE  Inv'
<1>1. LaunchJobs' /\ LoopJobs'
  BY PlainJobs
<1>2. Covered'
  BY DEF Inv, Covered
<1>3. CompletedMeansAll'
  BY DEF Inv, CompletedMeansAll
<1> QED
  BY <1>1, <1>2, <1>3 DEF Inv

LEMMA RequestInv ==
    ASSUME TypeOK, Inv, Request
    PROVE  Inv'
<1>1. EngineType
  BY Parts
<1>2. CASE StartWorkflow
  BY <1>2, BeginInv, EngineAssumption DEF StartWorkflow, Loops
<1>3. CASE ResumeWorkflow
  <2>1. started + 1 \in Loops
    BY <1>1, <1>3, EngineAssumption DEF ResumeWorkflow, Loops, EngineType
  <2> QED
    BY <1>3, <2>1, BeginInv DEF ResumeWorkflow
<1>4. CASE PauseWorkflow \/ StopWorkflow \/ Scale \/ ShutdownEnds
  <2>1. jobs' = << >>
    BY <1>4 DEF PauseWorkflow, StopWorkflow, Scale, ShutdownEnds, Quiet, engineVars
  <2>2. Plain(jobs')
    BY <2>1 DEF Plain
  <2>3. UNCHANGED <<completedTasks, pendingTasks, loopAt, batch>>
    BY <1>4 DEF PauseWorkflow, StopWorkflow, Scale, ShutdownEnds, engineVars
  <2>4. status' # "completed" \/ status' = status
    BY <1>4 DEF PauseWorkflow, StopWorkflow, Scale, ShutdownEnds, engineVars
  <2> QED
    BY <2>2, <2>3, <2>4, AsideInv
<1>5. CASE Shutdown \/ CheckHealth
  <2>1. Plain(jobs')
    BY <1>5 DEF Shutdown, CheckHealth, Plain, Job
  <2> QED
    BY <1>5, <2>1, AsideInv DEF Shutdown, CheckHealth
<1> QED
  BY <1>2, <1>3, <1>4, <1>5 DEF Request

(* Plain turns: the work of agents, timeouts and the health check.            *)
LEMMA PlainStepInv ==
    ASSUME TypeOK, Inv, NEW l \in Loops, NEW t \in Tasks \union {None}, NEW a \in Nat,
           \/ Execute(l, t, a) \/ WorkEnds(l, t, a) \/ WorkFails(l, t, a)
           \/ WaitTimesOut(l, t) \/ HealthStep(a)
    PROVE  Inv'
<1>1. EngineType /\ ListType /\ jobs \in Seq(JobType)
  BY Parts DEF EngineType
<1>2. UNCHANGED <<completedTasks, pendingTasks, loopAt, batch, status>>
  BY DEF Execute, WorkEnds, WorkFails, WaitTimesOut, HealthStep
<1>3. CASE WorkFails(l, t, a) \/ WaitTimesOut(l, t)
  <2>1. jobs' = <<Job("catch", l, t, 0)>>
    BY <1>3 DEF WorkFails, WaitTimesOut
  <2>2. Plain(jobs')
    BY <2>1 DEF Plain, Job
  <2> QED
    BY <1>2, <2>2, AsideInv
<1>4. CASE WorkEnds(l, t, a)
  <2> DEFINE executes == Executes(Served(a, a \notin failed \union retired), a)
  <2>1. jobs' = executes \o <<Job("done", l, t, a)>>
    BY <1>4 DEF WorkEnds
  <2>2. a \in Nat
    BY <1>1 DEF ListType
  <2>3. executes \in Seq(JobType) /\ Plain(executes)
    BY <1>1, <2>2, ServedType, ExecutesType, ExecutesPlain
  <2>4. <<Job("done", l, t, a)>> \in Seq(JobType) /\ Plain(<<Job("done", l, t, a)>>)
    <3>1. <<Job("done", l, t, a)>> \in Seq(JobType)
      BY <2>2, JobIsJob DEF Kinds
    <3> QED
      BY <3>1 DEF Plain, Job
  <2> HIDE DEF executes
  <2>5. Plain(executes \o <<Job("done", l, t, a)>>)
    BY <2>3, <2>4, PlainConcat
  <2>6. Plain(jobs')
    BY <2>1, <2>5 DEF Plain
  <2> QED
    BY <1>2, <2>6, AsideInv
<1>5. CASE Execute(l, t, a) \/ HealthStep(a)
  <2>1. jobs # << >> /\ Head(jobs).kind # "launch"
    BY <1>5 DEF Execute, HealthStep, Runs, Job
  <2>2. PICK extra \in {<< >>, <<Job("catch", l, t, 0)>>} : jobs' = Tail(jobs) \o extra
    <3>1. Tail(jobs) \in Seq(JobType)
      BY <1>1, <2>1
    <3>2. jobs' = Tail(jobs) \/ jobs' = Append(Tail(jobs), Job("catch", l, t, 0))
      BY <1>5 DEF Execute, HealthStep
    <3>3. /\ Tail(jobs) = Tail(jobs) \o << >>
          /\ \A x : Append(Tail(jobs), x) = Tail(jobs) \o <<x>>
      BY <3>1
    <3> QED
      BY <3>2, <3>3
  <2>3. extra \in Seq(JobType) /\ Plain(extra)
    <3>1. <<Job("catch", l, t, 0)>> \in Seq(JobType) /\ << >> \in Seq(JobType)
      BY JobIsJob DEF Kinds
    <3>2. Plain(<<Job("catch", l, t, 0)>>) /\ Plain(<< >>)
      BY DEF Plain, Job
    <3> QED
      BY <2>2, <3>1, <3>2, Zenon
  <2>4. LaunchJobs' /\ LoopJobs'
    BY <1>1, <1>2, <2>1, <2>2, <2>3, ContinueInv DEF Inv
  <2> QED
    BY <1>2, <2>4, AsideInv
<1> QED
  BY <1>3, <1>4, <1>5

(* The turns of a loop.                                                       *)
LEMMA LoopTurnInv ==
    ASSUME TypeOK, Inv, NEW l \in Loops,
           LoopSleeps(l) \/ LoopStopped(l) \/ LoopEnds(l) \/ LoopFails(l)
    PROVE  Inv'
<1>1. EngineType /\ jobs \in Seq(JobType)
  BY Parts DEF EngineType
<1>2. jobs # << >> /\ jobs' = Tail(jobs) /\ Head(jobs).kind # "launch"
  BY DEF LoopSleeps, LoopStopped, LoopEnds, LoopFails, Runs, Job
<1>3. UNCHANGED <<completedTasks, pendingTasks, batch>>
  BY DEF LoopSleeps, LoopStopped, LoopEnds, LoopFails
<1>4. \/ loopAt' = loopAt
      \/ /\ Head(jobs).kind = "loop" /\ Head(jobs).loop = l
         /\ \/ loopAt' = [loopAt EXCEPT ![l] = "ended"]
            \/ loopAt' = [loopAt EXCEPT ![l] = "sleeping"]
  BY DEF LoopSleeps, LoopStopped, LoopEnds, LoopFails, Runs, Job
<1>5. \A m \in Loops \ {l} : loopAt'[m] = loopAt[m]
  BY <1>1, <1>4 DEF EngineType
<1>6. LaunchJobs' /\ LoopJobs'
  <2>1. Plain(<< >>) /\ << >> \in Seq(JobType) /\ Tail(jobs) = Tail(jobs) \o << >>
    BY <1>1, <1>2 DEF Plain
  <2>2. loopAt'[l] = loopAt[l] \/ (Head(jobs).kind = "loop" /\ Head(jobs).loop = l)
    BY <1>4
  <2> QED
    BY <1>1, <1>2, <1>5, <2>1, <2>2, ContinueInv DEF Inv
<1>7. Head(jobs).kind = "loop" /\ Head(jobs).loop = l => loopAt[l] = "running"
  <2>1. 1 \in DOMAIN jobs /\ Head(jobs) = jobs[1]
    BY <1>1, <1>2
  <2> QED
    BY <2>1 DEF Inv, LoopJobs
<1>8. Covered'
  <2>1. \A m \in Loops : \/ loopAt'[m] = loopAt[m] \/ loopAt'[m] = "ended"
                         \/ m = l /\ loopAt'[m] = "sleeping" /\ loopAt[m] = "running"
    BY <1>1, <1>4, <1>7 DEF EngineType
  <2> QED
    BY <1>3, <2>1 DEF Inv, Covered
<1>9. CompletedMeansAll'
  <2>1. CASE LoopEnds(l)
    <3>1. Head(jobs).kind = "loop" /\ Head(jobs).loop = l
      BY <2>1 DEF LoopEnds, Runs, Job
    <3>2. status = "running" => Tasks \subseteq completedTasks
      BY <1>1, <1>7, <2>1, <3>1, StuckIsDone DEF Inv, LoopEnds
    <3> QED
      BY <1>1, <2>1, <3>2 DEF Inv, CompletedMeansAll, LoopEnds, EngineType
  <2>2. CASE LoopSleeps(l) \/ LoopStopped(l) \/ LoopFails(l)
    BY <2>2 DEF Inv, CompletedMeansAll, LoopSleeps, LoopStopped, LoopFails
  <2> QED
    BY <2>1, <2>2
<1> QED
  BY <1>6, <1>8, <1>9 DEF Inv

LEMMA LoopPollsInv ==
    ASSUME TypeOK, Inv, NEW l \in Loops, LoopPolls(l)
    PROVE  Inv'
<1>1. loopAt \in [Loops -> {"none", "running", "sleeping", "awaiting", "ended"}]
  BY Parts DEF EngineType
<1>2. loopAt'[l] = "running" /\ \A m \in Loops \ {l} : loopAt'[m] = loopAt[m]
  BY <1>1 DEF LoopPolls
<1>3. LaunchJobs' /\ LoopJobs'
  BY <1>2, OneLoopJob DEF LoopPolls
<1>4. UNCHANGED <<status, completedTasks, pendingTasks, batch>> /\ loopAt[l] = "sleeping"
  BY DEF LoopPolls
<1>5. Covered'
  BY <1>2, <1>4 DEF Inv, Covered
<1>6. CompletedMeansAll'
  BY <1>4 DEF Inv, CompletedMeansAll
<1> QED
  BY <1>3, <1>5, <1>6 DEF Inv

(* The turn of a loop that launches tasks: their jobs come before the rest,   *)
(* where there is no launch yet.                                              *)
LEMMA LoopLaunchesInv ==
    ASSUME TypeOK, Inv, NEW l \in Loops, LoopLaunches(l)
    PROVE  Inv'
<1>1. EngineType /\ jobs \in Seq(JobType)
  BY Parts DEF EngineType
<1>2. PICK ready \in Listings(Ready(l)) :
        jobs' = [i \in DOMAIN ready |-> Job("launch", l, ready[i], 0)] \o Tail(jobs)
  BY DEF LoopLaunches
<1> DEFINE launches == [i \in DOMAIN ready |-> Job("launch", l, ready[i], 0)]
<1>3. /\ jobs # << >> /\ Head(jobs).kind = "loop" /\ Head(jobs).loop = l
      /\ status \notin {"paused", "stopped"}
      /\ UNCHANGED <<status, completedTasks, pendingTasks>>
      /\ loopAt' = [loopAt EXCEPT ![l] = "awaiting"]
      /\ batch' = [batch EXCEPT ![l] = Ready(l)]
  BY DEF LoopLaunches, Runs, Job
<1>4. /\ loopAt'[l] = "awaiting" /\ \A m \in Loops \ {l} : loopAt'[m] = loopAt[m]
      /\ batch'[l] = Ready(l) /\ \A m \in Loops \ {l} : batch'[m] = batch[m]
  BY <1>1, <1>3 DEF EngineType
<1>5. 1 \in DOMAIN jobs /\ jobs[1] = Head(jobs)
  BY <1>1, <1>3
<1>6. loopAt[l] = "running"
  BY <1>3, <1>5 DEF Inv, LoopJobs
<1>7. \A i \in DOMAIN jobs : i # 1 => jobs[i].kind # "launch"
  <2>1. \A i \in DOMAIN jobs : i # 1 => 1 \in 1 .. (i - 1)
    BY <1>1
  <2> QED
    BY <1>3, <1>5, <2>1 DEF Inv, LaunchJobs
<1>8. Ready(l) \subseteq Tasks
  BY <1>1 DEF Ready, EngineType
<1>9. ready \in Seq(Ready(l))
  BY <1>8, EngineAssumption, FS_Subset, ListingType
<1>10. /\ launches \in Seq(JobType) /\ Len(launches) \in Nat
       /\ \A i \in DOMAIN launches :
             /\ launches[i].kind = "launch" /\ launches[i].loop = l
             /\ launches[i].task \in Ready(l)
  <2>1. /\ DOMAIN ready = 1 .. Len(ready) /\ Len(ready) \in Nat
        /\ \A i \in DOMAIN ready : ready[i] \in Ready(l)
    BY <1>9
  <2>2. \A i \in DOMAIN ready : Job("launch", l, ready[i], 0) \in JobType
    BY <1>8, <2>1, JobIsJob DEF Kinds
  <2>3. launches \in Seq(JobType)
    BY <2>1, <2>2
  <2> QED
    BY <2>1, <2>3 DEF Job
<1> HIDE DEF launches
<1>11. \A i \in DOMAIN jobs' :
          \/ /\ i \in DOMAIN launches /\ jobs'[i] = launches[i]
             /\ \A j \in 1 .. (i - 1) : j \in DOMAIN launches /\ jobs'[j] = launches[j]
          \/ /\ i - Len(launches) + 1 \in DOMAIN jobs /\ i - Len(launches) + 1 # 1
             /\ jobs'[i] = jobs[i - Len(launches) + 1]
  <2>1. jobs' = launches \o Tail(jobs) /\ Tail(jobs) \in Seq(JobType)
    BY <1>1, <1>2, <1>3 DEF launches
  <2>2. Len(Tail(jobs)) = Len(jobs) - 1
        /\ \A j \in 1 .. (Len(jobs) - 1) : Tail(jobs)[j] = jobs[j + 1]
    BY <1>1, <1>3
  <2>3. DOMAIN jobs' = 1 .. (Len(launches) + Len(jobs) - 1)
        /\ \A i \in DOMAIN jobs' :
              jobs'[i] = IF i <= Len(launches) THEN launches[i]
                                               ELSE Tail(jobs)[i - Len(launches)]
    BY <1>1, <1>10, <2>1, <2>2
  <2>4. ASSUME NEW i \in DOMAIN jobs', i <= Len(launches)
        PROVE  /\ i \in DOMAIN launches /\ jobs'[i] = launches[i]
               /\ \A j \in 1 .. (i - 1) : j \in DOMAIN launches /\ jobs'[j] = launches[j]
    <3>1. DOMAIN launches = 1 .. Len(launches)
      BY <1>10
    <3>2. Len(jobs) \in Nat /\ Len(jobs) >= 1
      BY <1>1, <1>3
    <3>3. i \in DOMAIN launches /\ \A j \in 1 .. (i - 1) : j \in DOMAIN launches /\ j \in DOMAIN jobs'
      BY <1>10, <2>3, <2>4, <3>1, <3>2
    <3>4. \A j \in DOMAIN launches : j <= Len(launches)
      BY <1>10, <3>1
    <3> QED
      BY <2>3, <2>4, <3>3, <3>4
  <2>5. ASSUME NEW i \in DOMAIN jobs', ~(i <= Len(launches))
        PROVE  /\ i - Len(launches) + 1 \in DOMAIN jobs /\ i - Len(launches) + 1 # 1
               /\ jobs'[i] = jobs[i - Len(launches) + 1]
    <3>1. DOMAIN jobs = 1 .. Len(jobs) /\ Len(jobs) \in Nat
      BY <1>1
    <3>2. i - Len(launches) \in 1 .. (Len(jobs) - 1)
      BY <1>10, <2>3, <2>5, <3>1
    <3>3. jobs'[i] = Tail(jobs)[i - Len(launches)]
      BY <2>3, <2>5
    <3>4. jobs'[i] = jobs[i - Len(launches) + 1]
      BY <2>2, <3>2, <3>3
    <3> QED
      BY <1>10, <2>3, <3>1, <3>2, <3>4
  <2> QED
    BY <2>4, <2>5
<1>12. LaunchJobs'
  <2> SUFFICES ASSUME NEW i \in DOMAIN jobs', jobs'[i].kind = "launch"
               PROVE  /\ jobs'[i].task \in Tasks
                      /\ Dependencies[jobs'[i].task] \subseteq completedTasks'
                      /\ status' \notin {"paused", "stopped"}
                      /\ loopAt'[jobs'[i].loop] = "awaiting"
                      /\ jobs'[i].task \in batch'[jobs'[i].loop]
                      /\ \A j \in 1 .. (i - 1) : jobs'[j].kind = "launch"
    BY DEF LaunchJobs
  <2>1. /\ i \in DOMAIN launches /\ jobs'[i] = launches[i]
        /\ \A j \in 1 .. (i - 1) : j \in DOMAIN launches /\ jobs'[j] = launches[j]
    BY <1>7, <1>11
  <2>2. jobs'[i].task \in Ready(l) /\ jobs'[i].loop = l
    BY <1>10, <2>1
  <2>3. \A j \in 1 .. (i - 1) : jobs'[j].kind = "launch"
    BY <1>10, <2>1
  <2> QED
    BY <1>3, <1>4, <1>8, <2>2, <2>3 DEF Ready
<1>13. LoopJobs'
  <2>1. \A i \in DOMAIN jobs' : jobs'[i].kind = "loop" =>
            /\ i - Len(launches) + 1 \in DOMAIN jobs /\ i - Len(launches) + 1 # 1
            /\ jobs'[i] = jobs[i - Len(launches) + 1]
    BY <1>10, <1>11
  <2>2. \A i \in DOMAIN jobs' : i \in Int
    BY <1>2
  <2>3. \A i \in DOMAIN jobs : jobs[i].loop \in Loops
    <3>1. \A i \in DOMAIN jobs : jobs[i] \in JobType
      BY <1>1
    <3> QED
      BY <3>1 DEF JobType
  <2>4. ASSUME NEW i \in DOMAIN jobs', jobs'[i].kind = "loop"
        PROVE  loopAt'[jobs'[i].loop] = "running"
    <3>1. loopAt[jobs'[i].loop] = "running" /\ jobs'[i].loop # l /\ jobs'[i].loop \in Loops
      BY <1>3, <1>5, <2>1, <2>3, <2>4 DEF Inv, LoopJobs
    <3> QED
      BY <1>4, <3>1
  <2>5. ASSUME NEW i \in DOMAIN jobs', NEW j \in DOMAIN jobs', jobs'[i].kind = "loop",
               jobs'[j].kind = "loop", jobs'[j].loop = jobs'[i].loop
        PROVE  j = i
    <3>1. i - Len(launches) + 1 = j - Len(launches) + 1
      BY <2>1, <2>5 DEF Inv, LoopJobs
    <3> QED
      BY <1>10, <2>2, <3>1
  <2> QED
    BY <2>4, <2>5 DEF LoopJobs
<1>14. Covered'
  <2>1. Tasks \subseteq pendingTasks[l] \union completedTasks
    BY <1>6 DEF Inv, Covered
  <2>2. \A m \in Loops \ {l} :
            /\ loopAt'[m] = loopAt[m] /\ batch'[m] = batch[m]
            /\ pendingTasks'[m] = pendingTasks[m]
    BY <1>3, <1>4
  <2> QED
    BY <1>3, <1>4, <2>1, <2>2 DEF Inv, Covered
<1>15. CompletedMeansAll'
  BY <1>3 DEF Inv, CompletedMeansAll
<1> QED
  BY <1>12, <1>13, <1>14, <1>15 DEF Inv

(* A launch: the other launches stay first.                                   *)
LEMMA LaunchInv ==
    ASSUME TypeOK, Inv, NEW l \in Loops, NEW t \in Tasks, Launch(l, t)
    PROVE  Inv'
<1>1. EngineType /\ jobs \in Seq(JobType)
  BY Parts DEF EngineType
<1>2. /\ jobs # << >> /\ Head(jobs) = Job("launch", l, t, 0)
      /\ pendingTasks' = [pendingTasks EXCEPT ![l] = @ \ {t}]
      /\ UNCHANGED <<status, completedTasks, loopAt, batch>>
  BY DEF Launch, Runs
<1>3. /\ 1 \in DOMAIN jobs /\ jobs[1].kind = "launch"
      /\ jobs[1].loop = l /\ jobs[1].task = t
  BY <1>1, <1>2 DEF Job
<1>4. loopAt[l] = "awaiting" /\ t \in batch[l]
  BY <1>3 DEF Inv, LaunchJobs
<1>5. /\ DOMAIN jobs' \subseteq Nat \ {0}
      /\ \A i \in DOMAIN jobs' :
            \/ i + 1 \in DOMAIN jobs /\ jobs'[i] = jobs[i + 1]
            \/ i = Len(jobs) /\ jobs'[i].kind \in {"execute", "catch"}
      /\ \A i \in DOMAIN jobs' : \A j \in 1 .. (i - 1) :
            j + 1 \in DOMAIN jobs /\ jobs'[j] = jobs[j + 1]
  <2>1. \/ jobs' = Tail(jobs)
        \/ \E x : x.kind \in {"execute", "catch"} /\ jobs' = Append(Tail(jobs), x)
    <3>1. \A a : Job("execute", l, t, a).kind = "execute" /\ Job("catch", l, t, a).kind = "catch"
      BY DEF Job
    <3> QED
      BY <3>1 DEF Launch
  <2>2. /\ Tail(jobs) \in Seq(JobType) /\ Len(Tail(jobs)) = Len(jobs) - 1
        /\ Len(jobs) \in Nat /\ DOMAIN jobs = 1 .. Len(jobs) /\ Len(jobs) >= 1
        /\ \A j \in 1 .. (Len(jobs) - 1) : Tail(jobs)[j] = jobs[j + 1]
    BY <1>1, <1>2
  <2>3. CASE jobs' = Tail(jobs)
    BY <2>2, <2>3
  <2>4. ASSUME NEW x, x.kind \in {"execute", "catch"}, jobs' = Append(Tail(jobs), x)
        PROVE  /\ DOMAIN jobs' = 1 .. Len(jobs) /\ jobs'[Len(jobs)] = x
               /\ \A j \in 1 .. (Len(jobs) - 1) : jobs'[j] = jobs[j + 1]
    BY <2>2, <2>4
  <2>5. CASE \E x : x.kind \in {"execute", "catch"} /\ jobs' = Append(Tail(jobs), x)
    <3>1. /\ DOMAIN jobs' = 1 .. Len(jobs) /\ jobs'[Len(jobs)].kind \in {"execute", "catch"}
          /\ \A j \in 1 .. (Len(jobs) - 1) : jobs'[j] = jobs[j + 1]
      BY <2>4, <2>5
    <3> QED
      BY <2>2, <3>1
  <2> QED
    BY <2>1, <2>3, <2>5
<1>6. LaunchJobs'
  <2> SUFFICES ASSUME NEW i \in DOMAIN jobs', jobs'[i].kind = "launch"
               PROVE  /\ jobs'[i].task \in Tasks
                      /\ Dependencies[jobs'[i].task] \subseteq completedTasks
                      /\ status \notin {"paused", "stopped"}
                      /\ loopAt[jobs'[i].loop] = "awaiting"
                      /\ jobs'[i].task \in batch[jobs'[i].loop]
                      /\ \A j \in 1 .. (i - 1) : jobs'[j].kind = "launch"
    BY <1>2 DEF LaunchJobs
  <2>1. i + 1 \in DOMAIN jobs /\ jobs'[i] = jobs[i + 1]
    BY <1>5
  <2>2. \A j \in 1 .. (i - 1) : j + 1 \in 1 .. ((i + 1) - 1) /\ jobs'[j] = jobs[j + 1]
    BY <1>5
  <2> QED
    BY <2>1, <2>2 DEF Inv, LaunchJobs
<1>7. LoopJobs'
  <2>1. \A i \in DOMAIN jobs' : jobs'[i].kind = "loop" =>
            i \in Nat /\ i + 1 \in DOMAIN jobs /\ jobs'[i] = jobs[i + 1]
    BY <1>5
  <2>2. ASSUME NEW i \in DOMAIN jobs', NEW j \in DOMAIN jobs', jobs'[i].kind = "loop",
               jobs'[j].kind = "loop", jobs'[j].loop = jobs'[i].loop
        PROVE  j = i
    <3>1. i + 1 = j + 1
      BY <2>1, <2>2 DEF Inv, LoopJobs
    <3> QED
      BY <2>1, <2>2, <3>1
  <2>3. \A i \in DOMAIN jobs' : jobs'[i].kind = "loop" => loopAt'[jobs'[i].loop] = "running"
    BY <1>2, <2>1 DEF Inv, LoopJobs
  <2> QED
    BY <2>2, <2>3 DEF LoopJobs
<1>8. Covered'
  <2>1. /\ pendingTasks'[l] = pendingTasks[l] \ {t}
        /\ \A m \in Loops \ {l} : pendingTasks'[m] = pendingTasks[m]
    BY <1>1, <1>2 DEF EngineType
  <2> QED
    BY <1>2, <1>4, <2>1 DEF Inv, Covered
<1>9. CompletedMeansAll'
  BY <1>2 DEF Inv, CompletedMeansAll
<1> QED
  BY <1>6, <1>7, <1>8, <1>9 DEF Inv

LEMMA TaskFailsInv ==
    ASSUME TypeOK, Inv, NEW l \in Loops, NEW t \in Tasks, TaskFails(l, t)
    PROVE  Inv'
<1>1. EngineType /\ jobs \in Seq(JobType)
  BY Parts DEF EngineType
<1>2. /\ jobs # << >> /\ Head(jobs).kind # "launch"
      /\ UNCHANGED <<status, completedTasks, pendingTasks, batch>>
  BY DEF TaskFails, Runs, Job
<1>3. PICK extra \in {<< >>, <<Job("fails", l, None, 0)>>} :
        /\ jobs' = Tail(jobs) \o extra
        /\ \/ loopAt' = loopAt
           \/ loopAt[l] = "awaiting" /\ loopAt' = [loopAt EXCEPT ![l] = "ended"]
  <2>1. Tail(jobs) \in Seq(JobType)
    BY <1>1, <1>2
  <2>2. /\ Tail(jobs) = Tail(jobs) \o << >>
        /\ \A x : Append(Tail(jobs), x) = Tail(jobs) \o <<x>>
    BY <2>1
  <2> QED
    BY <2>2 DEF TaskFails
<1>4. extra \in Seq(JobType) /\ Plain(extra)
  <2>1. <<Job("fails", l, None, 0)>> \in Seq(JobType) /\ << >> \in Seq(JobType)
    <3>1. Job("fails", l, None, 0) \in JobType
      BY JobIsJob DEF Kinds
    <3> QED
      BY <3>1
  <2>2. Plain(<<Job("fails", l, None, 0)>>) /\ Plain(<< >>)
    BY DEF Plain, Job
  <2> QED
    BY <1>3, <2>1, <2>2, Zenon
<1>5. /\ \A m \in Loops \ {l} : loopAt'[m] = loopAt[m]
      /\ loopAt'[l] = loopAt[l] \/ (loopAt[l] # "running" /\ loopAt'[l] = "ended")
  BY <1>1, <1>3 DEF EngineType
<1>6. LaunchJobs' /\ LoopJobs'
  BY <1>1, <1>2, <1>3, <1>4, <1>5, ContinueInv DEF Inv
<1>7. Covered'
  BY <1>2, <1>5 DEF Inv, Covered
<1>8. CompletedMeansAll'
  BY <1>2 DEF Inv, CompletedMeansAll
<1> QED
  BY <1>6, <1>7, <1>8 DEF Inv

(* A task is done: when it was the last of its batch, its loop goes on.       *)
LEMMA TaskDoneInv ==
    ASSUME TypeOK, Inv, NEW l \in Loops, NEW t \in Tasks, NEW a \in 1 .. currentId,
           TaskDone(l, t, a)
    PROVE  Inv'
<1>1. EngineType /\ ListType /\ jobs \in Seq(JobType)
  BY Parts DEF EngineType
<1> DEFINE executes == Executes(Served(a, IsAvailable(a)), a)
           resumes  == loopAt[l] = "awaiting" /\ batch[l] = {t}
<1>2. /\ jobs # << >> /\ Head(jobs).kind # "launch"
      /\ UNCHANGED <<status, pendingTasks>>
      /\ completedTasks' = completedTasks \union {t}
      /\ batch' = [batch EXCEPT ![l] = @ \ {t}]
  BY DEF TaskDone, Runs, Job
<1>3. PICK next \in {<< >>, <<Job("loop", l, None, 0)>>} :
        /\ next = IF resumes THEN <<Job("loop", l, None, 0)>> ELSE << >>
        /\ jobs' = Tail(jobs) \o executes \o next
        /\ loopAt' = [loopAt EXCEPT ![l] = IF next = << >> THEN @ ELSE "running"]
  BY DEF TaskDone
<1>4. /\ \A m \in Loops \ {l} : loopAt'[m] = loopAt[m] /\ batch'[m] = batch[m]
      /\ batch'[l] = batch[l] \ {t}
      /\ resumes => loopAt'[l] = "running"
      /\ ~resumes => loopAt'[l] = loopAt[l]
  BY <1>1, <1>2, <1>3 DEF EngineType
<1>5. executes \in Seq(JobType) /\ Plain(executes)
  <2>1. a \in Nat
    BY <1>1 DEF ListType
  <2> QED
    BY <1>1, <2>1, ServedType, ExecutesType, ExecutesPlain
<1>6. Tail(jobs) \in Seq(JobType)
  BY <1>1, <1>2
<1> HIDE DEF executes
<1>7. LaunchJobs' /\ LoopJobs'
  <2>1. CASE ~resumes
    <3>1. jobs' = Tail(jobs) \o executes
      BY <1>3, <1>5, <1>6, <2>1
    <3> QED
      BY <1>1, <1>2, <1>4, <1>5, <2>1, <3>1, ContinueInv DEF Inv
  <2>2. CASE resumes
    <3> DEFINE q    == Tail(jobs) \o executes
               loop == Job("loop", l, None, 0)
    <3>1. q \in Seq(JobType) /\ Len(q) \in Nat /\ DOMAIN q = 1 .. Len(q)
      BY <1>5, <1>6
    <3>2. jobs' = q \o <<loop>>
      BY <1>3, <2>2
    <3>3. \A i \in DOMAIN q :
             /\ q[i].kind # "launch"
             /\ q[i].kind = "loop" => loopAt[q[i].loop] = "running" /\ i + 1 \in DOMAIN jobs
                                      /\ q[i] = jobs[i + 1] /\ q[i].loop \in Loops
      <4> SUFFICES ASSUME NEW i \in DOMAIN q
                   PROVE  /\ q[i].kind # "launch"
                          /\ q[i].kind = "loop" =>
                                loopAt[q[i].loop] = "running" /\ i + 1 \in DOMAIN jobs
                                /\ q[i] = jobs[i + 1] /\ q[i].loop \in Loops
        OBVIOUS
      <4>1. CASE i + 1 \in DOMAIN jobs /\ q[i] = jobs[i + 1]
        <5>1. 1 \in 1 .. ((i + 1) - 1) /\ Head(jobs) = jobs[1]
          BY <1>1, <1>2, <3>1, <4>1
        <5>2. q[i].kind # "launch"
          BY <1>2, <4>1, <5>1 DEF Inv, LaunchJobs
        <5>3. jobs[i + 1] \in JobType
          BY <1>1, <4>1
        <5>4. jobs[i + 1].loop \in Loops
          BY <5>3 DEF JobType
        <5>5. jobs[i + 1].kind = "loop" => loopAt[jobs[i + 1].loop] = "running"
          BY <4>1 DEF Inv, LoopJobs
        <5> HIDE DEF q
        <5> QED
          BY <4>1, <5>2, <5>4, <5>5
      <4>2. CASE i - Len(jobs) + 1 \in DOMAIN executes /\ q[i] = executes[i - Len(jobs) + 1]
        <5> HIDE DEF q
        <5> QED
          BY <1>5, <4>2 DEF Plain
      <4> QED
        BY <1>1, <1>2, <1>5, <4>1, <4>2, Shift
    <3> HIDE DEF q
    <3>4. /\ DOMAIN jobs' = 1 .. (Len(q) + 1) /\ jobs'[Len(q) + 1] = loop
          /\ \A i \in 1 .. Len(q) : jobs'[i] = q[i]
      BY <3>1, <3>2
    <3>5. loop.kind = "loop" /\ loop.loop = l
      BY DEF Job
    <3> HIDE DEF loop
    <3>6. \A i \in DOMAIN jobs' : i \in DOMAIN q \/ i = Len(q) + 1
      BY <3>1, <3>4
    <3>7. LaunchJobs'
      BY <3>1, <3>3, <3>4, <3>5, <3>6 DEF LaunchJobs
    <3>8. ASSUME NEW i \in DOMAIN jobs', jobs'[i].kind = "loop"
          PROVE  /\ loopAt'[jobs'[i].loop] = "running"
                 /\ jobs'[i].loop = l => i = Len(q) + 1
      <4>1. CASE i \in DOMAIN q
        <5>1. loopAt[q[i].loop] = "running" /\ q[i].loop \in Loops /\ q[i] = jobs'[i]
          BY <3>1, <3>3, <3>4, <3>8, <4>1
        <5>2. q[i].loop # l
          BY <2>2, <5>1
        <5> QED
          BY <1>4, <5>1, <5>2
      <4>2. CASE i = Len(q) + 1
        BY <1>4, <2>2, <3>4, <3>5, <4>2
      <4> QED
        BY <3>6, <4>1, <4>2
    <3>9. ASSUME NEW i \in DOMAIN jobs', NEW j \in DOMAIN jobs', jobs'[i].kind = "loop",
                 jobs'[j].kind = "loop", jobs'[j].loop = jobs'[i].loop
          PROVE  j = i
      <4>1. CASE jobs'[i].loop = l
        BY <3>8, <3>9, <4>1
      <4>2. CASE jobs'[i].loop # l
        <5>1. i \in DOMAIN q /\ j \in DOMAIN q
          BY <3>4, <3>5, <3>6, <3>9, <4>2
        <5>2. jobs'[i] = jobs[i + 1] /\ jobs'[j] = jobs[j + 1]
              /\ i + 1 \in DOMAIN jobs /\ j + 1 \in DOMAIN jobs
          BY <3>1, <3>3, <3>4, <3>9, <5>1
        <5>3. i + 1 = j + 1
          BY <3>9, <5>2 DEF Inv, LoopJobs
        <5> QED
          BY <3>1, <5>1, <5>3
      <4> QED
        BY <4>1, <4>2
    <3>10. LoopJobs'
      BY <3>8, <3>9 DEF LoopJobs
    <3> QED
      BY <3>7, <3>10
  <2> QED
    BY <2>1, <2>2
<1>8. Covered'
  <2>1. ASSUME NEW m \in Loops, m # l
        PROVE  /\ loopAt'[m] \in {"running", "sleeping"} =>
                     Tasks \subseteq pendingTasks'[m] \union completedTasks'
               /\ loopAt'[m] = "awaiting" =>
                     Tasks \subseteq pendingTasks'[m] \union batch'[m] \union completedTasks'
    BY <1>2, <1>4, <2>1 DEF Inv, Covered
  <2>2. /\ loopAt'[l] \in {"running", "sleeping"} =>
              Tasks \subseteq pendingTasks'[l] \union completedTasks'
        /\ loopAt'[l] = "awaiting" =>
              Tasks \subseteq pendingTasks'[l] \union batch'[l] \union completedTasks'
    BY <1>2, <1>4 DEF Inv, Covered
  <2> QED
    BY <2>1, <2>2 DEF Covered
<1>9. CompletedMeansAll'
  BY <1>1, <1>2 DEF Inv, CompletedMeansAll, EngineType
<1> QED
  BY <1>7, <1>8, <1>9 DEF Inv

LEMMA NextInv == TypeOK /\ Inv /\ [Next]_vars => Inv'
<1> SUFFICES ASSUME TypeOK, Inv, [Next]_vars PROVE Inv'
  OBVIOUS
<1>1. ASSUME NEW l \in Loops, LoopStep(l) PROVE Inv'
  BY <1>1, LoopTurnInv, LoopLaunchesInv, LoopPollsInv DEF LoopStep
<1>2. ASSUME NEW l \in Loops, NEW t \in Tasks, TaskStep(l, t) PROVE Inv'
  <2>1. 0 \in Nat /\ 1 .. currentId \subseteq Nat
    BY Parts DEF ListType
  <2>2. CASE WaitTimesOut(l, t)
    BY <2>1, <2>2, PlainStepInv
  <2>3. CASE \E a \in 1 .. currentId :
               Execute(l, t, a) \/ WorkEnds(l, t, a) \/ WorkFails(l, t, a) \/ TaskDone(l, t, a)
    BY <2>1, <2>3, PlainStepInv, TaskDoneInv
  <2> QED
    BY <1>2, <2>2, <2>3, LaunchInv, TaskFailsInv DEF TaskStep
<1>3. ASSUME NEW a \in 1 .. currentId, HealthStep(a) PROVE Inv'
  <2>1. a \in Nat /\ 1 \in Loops
    BY Parts, EngineAssumption DEF ListType, Loops
  <2> QED
    BY <1>3, <2>1, PlainStepInv
<1>4. CASE Request
  BY <1>4, RequestInv
<1>5. CASE UNCHANGED vars
  BY <1>5 DEF vars, engineVars, Inv, LaunchJobs, LoopJobs, Covered, CompletedMeansAll
<1>6. CASE Progress
  BY <1>1, <1>2, <1>3, <1>6 DEF Progress
<1> QED
  BY <1>4, <1>5, <1>6 DEF Next

LEMMA SpecInv == Spec => [](TypeOK /\ Inv)
<1>1. Init => TypeOK /\ Inv
  BY InitType, InitInv
<1>2. (TypeOK /\ Inv) /\ [Next]_vars => (TypeOK /\ Inv)'
  BY NextType, NextInv
<1> QED
  BY <1>1, <1>2, PTL DEF Spec

-----------------------------------------------------------------------------
(* A workflow that says it completed has completed every task: a loop gives   *)
(* up only when it knows of no task left, since some task of those left       *)
(* always waits for none of the others.                                       *)
THEOREM CompletedAll == Spec => []CompletedMeansAll
BY SpecInv, PTL DEF Inv

(* The launches that wait in the queue were decided in the same turn, and     *)
(* nothing comes between: what was ready still is.                            *)
THEOREM LaunchedWhenReady == Spec => LaunchesAreReady
<1> DEFINE Step == \A t \in runningTasks' \ runningTasks :
                      Dependencies[t] \subseteq completedTasks
                      /\ status \notin {"paused", "stopped"}
<1>1. TypeOK /\ Inv /\ [Next]_vars => Step \/ UNCHANGED vars
  <2> SUFFICES ASSUME TypeOK, Inv, Next,
                      NEW t \in runningTasks', t \notin runningTasks
               PROVE  Dependencies[t] \subseteq completedTasks
                      /\ status \notin {"paused", "stopped"}
    BY DEF vars
  <2>1. Request \/ (\E l \in Loops : LoopStep(l)) \/ (\E a \in 1 .. currentId : HealthStep(a))
          => runningTasks' = runningTasks
    BY DEF Request, StartWorkflow, PauseWorkflow, ResumeWorkflow, StopWorkflow, Begin,
           Shutdown, ShutdownEnds, Scale, CheckHealth, engineVars, LoopStep, LoopSleeps,
           LoopStopped, LoopEnds, LoopLaunches, LoopPolls, LoopFails, HealthStep
  <2>2. PICK l \in Loops, u \in Tasks : TaskStep(l, u)
    BY <2>1 DEF Next, Progress
  <2>3. Launch(l, u) /\ t = u
    BY <2>2 DEF TaskStep, Launch, TaskFails, WaitTimesOut, Execute, WorkEnds, WorkFails,
                TaskDone
  <2>4. 1 \in DOMAIN jobs /\ jobs[1] = Job("launch", l, t, 0)
    <3>1. jobs \in Seq(JobType)
      BY Parts DEF EngineType
    <3> QED
      BY <2>3, <3>1 DEF Launch, Runs
  <2>5. jobs[1].kind = "launch" /\ jobs[1].task = t
    BY <2>4 DEF Job
  <2> QED
    BY <2>4, <2>5 DEF Inv, LaunchJobs
<1>2. TypeOK /\ Inv /\ [Next]_vars => [Step]_vars
  BY <1>1
<1> QED
  BY <1>2, SpecInv, PTL DEF Spec, LaunchesAreReady

-----------------------------------------------------------------------------
(* GSDEngine, continued: a busy agent performs one task, no agent works       *)
(* unmarked, and the running tasks are those under way.                       *)

(* The jobs that stand for a call being under way, and those that launch a    *)
(* task.                                                                      *)
TokenJobs(c) ==
    {j \in JobType : /\ j.loop = c[1] /\ j.task = c[2]
                     /\ j.kind \in {"execute", "done", "catch"}}

LaunchesOf(t) == {j \in JobType : j.kind = "launch" /\ j.task = t}

Occurs(q, J) == \E i \in DOMAIN q : q[i] \in J

AtMostOnce(q, J) == \A i, j \in DOMAIN q : q[i] \in J /\ q[j] \in J => i = j

-----------------------------------------------------------------------------
(* Queues of jobs *)

LEMMA EmptyQueue ==
    ASSUME NEW J
    PROVE  ~Occurs(<< >>, J) /\ AtMostOnce(<< >>, J)
BY DEF Occurs, AtMostOnce

LEMMA SingleJob ==
    ASSUME NEW J, NEW x \in JobType
    PROVE  (Occurs(<<x>>, J) <=> x \in J) /\ AtMostOnce(<<x>>, J)
<1>1. DOMAIN <<x>> = {1} /\ <<x>>[1] = x
  OBVIOUS
<1> QED
  BY <1>1, Zenon DEF Occurs, AtMostOnce

(* Queues appended one after the other.                                       *)
LEMMA ConcatTwice ==
    ASSUME NEW p \in Seq(JobType), NEW q \in Seq(JobType), NEW r \in Seq(JobType)
    PROVE  q \o r \in Seq(JobType) /\ p \o q \o r = p \o (q \o r)
<1> DEFINE l == p \o q \o r
           m == p \o (q \o r)
<1>1. q \o r \in Seq(JobType) /\ p \o q \in Seq(JobType)
  OBVIOUS
<1>2. /\ l \in Seq(JobType) /\ Len(l) = Len(p) + Len(q) + Len(r)
      /\ m \in Seq(JobType) /\ Len(m) = Len(p) + Len(q) + Len(r)
  BY <1>1
<1>3. ASSUME NEW i \in 1 .. (Len(p) + Len(q) + Len(r)) PROVE l[i] = m[i]
  BY <1>1
<1> HIDE DEF l, m
<1>4. l = m
  BY <1>2, <1>3
<1> QED
  BY <1>1, <1>4 DEF l, m

LEMMA ConcatJobs ==
    ASSUME NEW J, NEW p \in Seq(JobType), NEW q \in Seq(JobType)
    PROVE  /\ Occurs(p \o q, J) <=> Occurs(p, J) \/ Occurs(q, J)
           /\ AtMostOnce(p \o q, J) <=> /\ AtMostOnce(p, J) /\ AtMostOnce(q, J)
                                        /\ ~(Occurs(p, J) /\ Occurs(q, J))
<1> DEFINE r == p \o q
<1>1. /\ Len(p) \in Nat /\ Len(q) \in Nat
      /\ DOMAIN p = 1 .. Len(p) /\ DOMAIN q = 1 .. Len(q)
      /\ DOMAIN r = 1 .. (Len(p) + Len(q))
      /\ \A i \in DOMAIN p : r[i] = p[i]
      /\ \A i \in DOMAIN q : r[Len(p) + i] = q[i]
  OBVIOUS
<1> HIDE DEF r
<1>2. \A i \in DOMAIN p : i \in DOMAIN r
  BY <1>1
<1>3. \A i \in DOMAIN q : Len(p) + i \in DOMAIN r
  BY <1>1
<1>4. \A i \in DOMAIN r : i \in DOMAIN p \/ \E k \in DOMAIN q : i = Len(p) + k
  <2> SUFFICES ASSUME NEW i \in DOMAIN r, i \notin DOMAIN p
               PROVE  \E k \in DOMAIN q : i = Len(p) + k
    OBVIOUS
  <2>1. i - Len(p) \in DOMAIN q /\ i = Len(p) + (i - Len(p))
    BY <1>1
  <2> QED
    BY <2>1
<1>5. Occurs(r, J) <=> Occurs(p, J) \/ Occurs(q, J)
  BY <1>1, <1>2, <1>3, <1>4 DEF Occurs
<1>6. ASSUME AtMostOnce(r, J)
      PROVE  AtMostOnce(p, J) /\ AtMostOnce(q, J) /\ ~(Occurs(p, J) /\ Occurs(q, J))
  <2>1. AtMostOnce(p, J)
    BY <1>1, <1>2, <1>6 DEF AtMostOnce
  <2>2. ASSUME NEW i \in DOMAIN q, NEW j \in DOMAIN q, q[i] \in J, q[j] \in J
        PROVE  i = j
    <3>1. Len(p) + i = Len(p) + j
      BY <1>1, <1>3, <1>6, <2>2 DEF AtMostOnce
    <3> QED
      BY <1>1, <3>1
  <2>3. ASSUME NEW i \in DOMAIN p, NEW j \in DOMAIN q, p[i] \in J, q[j] \in J
        PROVE  FALSE
    <3>1. i = Len(p) + j
      BY <1>1, <1>2, <1>3, <1>6, <2>3 DEF AtMostOnce
    <3> QED
      BY <1>1, <3>1
  <2> QED
    BY <2>1, <2>2, <2>3 DEF AtMostOnce, Occurs
<1>7. ASSUME AtMostOnce(p, J), AtMostOnce(q, J), ~(Occurs(p, J) /\ Occurs(q, J))
      PROVE  AtMostOnce(r, J)
  <2> SUFFICES ASSUME NEW i \in DOMAIN r, NEW j \in DOMAIN r, r[i] \in J, r[j] \in J
               PROVE  i = j
    BY DEF AtMostOnce
  <2>1. CASE i \in DOMAIN p /\ j \in DOMAIN p
    BY <1>1, <1>7, <2>1 DEF AtMostOnce
  <2>2. CASE \E k, m \in DOMAIN q : i = Len(p) + k /\ j = Len(p) + m
    BY <1>1, <1>7, <2>2 DEF AtMostOnce
  <2>3. CASE \/ i \in DOMAIN p /\ \E k \in DOMAIN q : j = Len(p) + k
             \/ j \in DOMAIN p /\ \E k \in DOMAIN q : i = Len(p) + k
    BY <1>1, <1>7, <2>3 DEF Occurs
  <2> QED
    BY <1>4, <2>1, <2>2, <2>3
<1> QED
  BY <1>5, <1>6, <1>7 DEF r

LEMMA HeadAndTail ==
    ASSUME NEW J, NEW q \in Seq(JobType), q # << >>
    PROVE  /\ Tail(q) \in Seq(JobType) /\ Head(q) \in JobType
           /\ Occurs(q, J) <=> Head(q) \in J \/ Occurs(Tail(q), J)
           /\ AtMostOnce(q, J) <=> /\ AtMostOnce(Tail(q), J)
                                   /\ ~(Head(q) \in J /\ Occurs(Tail(q), J))
<1>1. /\ Tail(q) \in Seq(JobType) /\ Head(q) \in JobType
      /\ <<Head(q)>> \in Seq(JobType) /\ q = <<Head(q)>> \o Tail(q)
  OBVIOUS
<1>2. /\ Occurs(<<Head(q)>>, J) <=> Head(q) \in J
      /\ AtMostOnce(<<Head(q)>>, J)
  BY <1>1, SingleJob
<1>3. /\ Occurs(<<Head(q)>> \o Tail(q), J) <=>
              Occurs(<<Head(q)>>, J) \/ Occurs(Tail(q), J)
      /\ AtMostOnce(<<Head(q)>> \o Tail(q), J) <=>
              /\ AtMostOnce(<<Head(q)>>, J) /\ AtMostOnce(Tail(q), J)
              /\ ~(Occurs(<<Head(q)>>, J) /\ Occurs(Tail(q), J))
  BY <1>1, ConcatJobs
<1> QED
  BY <1>1, <1>2, <1>3

(* A turn: the head goes and the jobs it makes come behind the others.        *)
LEMMA TurnJobs ==
    ASSUME NEW J, NEW q \in Seq(JobType), q # << >>, NEW extra \in Seq(JobType)
    PROVE  /\ Occurs(Tail(q) \o extra, J) <=> Occurs(Tail(q), J) \/ Occurs(extra, J)
           /\ AtMostOnce(q, J) /\ AtMostOnce(extra, J)
              /\ ~(Occurs(Tail(q), J) /\ Occurs(extra, J))
                 => AtMostOnce(Tail(q) \o extra, J)
<1>1. /\ Tail(q) \in Seq(JobType)
      /\ AtMostOnce(q, J) => AtMostOnce(Tail(q), J)
  BY HeadAndTail
<1> QED
  BY <1>1, ConcatJobs

-----------------------------------------------------------------------------
(* The inductive invariant.  A call is in one place only: it waits for an     *)
(* agent, or an agent works for it, or one job stands for it.  One loop at    *)
(* most has a task under way, the running tasks are those under way, a task   *)
(* that is to be launched is launched once and is not running, and the busy   *)
(* agents are those that work, each for one call.                             *)

Held(c) == Occurs(jobs, TokenJobs(c))

Active(c) == c \in waiting \/ work[c] # 0 \/ Held(c)

Places ==
    \A c \in Callers :
        /\ AtMostOnce(jobs, TokenJobs(c))
        /\ c \in waiting => work[c] = 0 /\ ~Held(c)
        /\ work[c] # 0 => ~Held(c)

OneLoop ==
    \A c, d \in Callers : c[2] = d[2] /\ Active(c) /\ Active(d) => c = d

Counted ==
    \A t \in Tasks : t \in runningTasks <=> \E c \in Callers : c[2] = t /\ Active(c)

NewLaunches ==
    \A t \in Tasks : /\ AtMostOnce(jobs, LaunchesOf(t))
                     /\ Occurs(jobs, LaunchesOf(t)) => t \notin runningTasks

BusyWork ==
    /\ 0 \notin busy
    /\ \A c \in Callers : work[c] # 0 =>
          work[c] \in busy /\ \A d \in Callers : work[d] = work[c] => d = c
    /\ \A a \in busy : \E c \in Callers : work[c] = a

TaskInv == Places /\ OneLoop /\ Counted /\ NewLaunches /\ BusyWork

LEMMA HeldNext ==
    ASSUME NEW c
    PROVE  /\ Held(c)' <=> Occurs(jobs', TokenJobs(c))
           /\ Active(c)' <=> \/ c \in waiting' \/ work'[c] # 0
                             \/ Occurs(jobs', TokenJobs(c))
BY DEF Held, Active, TokenJobs

(* What makes the calls be in one place after a step.                         *)
LEMMA PlacesNext ==
    ASSUME \A c \in Callers :
              /\ AtMostOnce(jobs', TokenJobs(c))
              /\ c \in waiting' => work'[c] = 0 /\ ~Occurs(jobs', TokenJobs(c))
              /\ work'[c] # 0 => ~Occurs(jobs', TokenJobs(c))
    PROVE  Places'
BY DEF Places, Held, TokenJobs

LEMMA InitTaskInv == Init => TaskInv
<1> SUFFICES ASSUME Init PROVE TaskInv
  OBVIOUS
<1>1. /\ jobs = << >> /\ waiting = {} /\ runningTasks = {} /\ busy = {}
      /\ \A c \in Callers : work[c] = 0
  BY DEF Init, PoolInit
<1>2. \A J : ~Occurs(jobs, J) /\ AtMostOnce(jobs, J)
  BY <1>1, EmptyQueue
<1>3. \A c \in Callers : ~Active(c)
  BY <1>1, <1>2 DEF Active, Held
<1>4. Places /\ NewLaunches
  BY <1>1, <1>2 DEF Places, Held, NewLaunches
<1>5. OneLoop /\ Counted /\ BusyWork
  BY <1>1, <1>3 DEF OneLoop, Counted, BusyWork
<1> QED
  BY <1>4, <1>5 DEF TaskInv

(* Which jobs stand for which call.                                           *)
LEMMA JobIsToken ==
    ASSUME NEW kind \in Kinds, NEW l \in Loops, NEW t \in Tasks \union {None}, NEW a \in Nat
    PROVE  /\ Job(kind, l, t, a) \in JobType
           /\ \A c \in Callers : Job(kind, l, t, a) \in TokenJobs(c) <=>
                  kind \in {"execute", "done", "catch"} /\ c = <<l, t>>
           /\ \A u \in Tasks : Job(kind, l, t, a) \in LaunchesOf(u) <=> kind = "launch" /\ t = u
<1>1. Job(kind, l, t, a) \in JobType
  BY JobIsJob
<1>2. /\ Job(kind, l, t, a).kind = kind /\ Job(kind, l, t, a).loop = l
      /\ Job(kind, l, t, a).task = t
  BY DEF Job
<1>3. \A c \in Callers : c = <<c[1], c[2]>>
  BY EngineAssumption
<1>4. ASSUME NEW c \in Callers
      PROVE  Job(kind, l, t, a) \in TokenJobs(c) <=>
                  kind \in {"execute", "done", "catch"} /\ c = <<l, t>>
  <2>1. c = <<l, t>> <=> l = c[1] /\ t = c[2]
    BY <1>3
  <2> QED
    BY <1>1, <1>2, <2>1 DEF TokenJobs
<1>5. \A u \in Tasks : Job(kind, l, t, a) \in LaunchesOf(u) <=> kind = "launch" /\ t = u
  BY <1>1, <1>2 DEF LaunchesOf
<1> QED
  BY <1>1, <1>4, <1>5

(* Launches come first: behind another job there are none.                    *)
LEMMA NoLaunches ==
    ASSUME Inv, jobs \in Seq(JobType), jobs = << >> \/ Head(jobs).kind # "launch"
    PROVE  \A t \in Tasks : ~Occurs(jobs, LaunchesOf(t))
<1> SUFFICES ASSUME NEW t \in Tasks, NEW i \in DOMAIN jobs, jobs[i] \in LaunchesOf(t)
             PROVE  FALSE
  BY DEF Occurs
<1>1. jobs[i].kind = "launch"
  BY DEF LaunchesOf
<1>2. 1 \in DOMAIN jobs /\ jobs[1] = Head(jobs) /\ jobs # << >>
  OBVIOUS
<1>3. i = 1 \/ 1 \in 1 .. (i - 1)
  OBVIOUS
<1>4. jobs[1].kind = "launch"
  BY <1>1, <1>3 DEF Inv, LaunchJobs
<1> QED
  BY <1>2, <1>4

(* What a release does to the calls: one that waited may get a job instead.   *)
LEMMA ReleaseMoves ==
    ASSUME TypeOK, NEW a \in Nat, NEW usable, ReleaseAgent(a, usable)
    PROVE  /\ Executes(Served(a, usable), a) \in Seq(JobType)
           /\ \A t \in Tasks : ~Occurs(Executes(Served(a, usable), a), LaunchesOf(t))
           /\ \A c \in Callers :
                 /\ AtMostOnce(Executes(Served(a, usable), a), TokenJobs(c))
                 /\ Occurs(Executes(Served(a, usable), a), TokenJobs(c))
                       <=> c \in waiting /\ c \notin waiting'
           /\ waiting' \subseteq waiting
<1>1. ListType
  BY Parts
<1>2. CASE Serves(a, usable) /\ Head(taskQueue) \in waiting
  <2> DEFINE d == Head(taskQueue)
             x == Job("execute", d[1], d[2], a)
  <2>1. d \in Callers /\ d[1] \in Loops /\ d[2] \in Tasks /\ d = <<d[1], d[2]>>
    BY <1>1, <1>2, EngineAssumption DEF ListType
  <2>2. waiting' = waiting \ {d}
    BY <1>2 DEF ReleaseAgent
  <2>3. Executes(Served(a, usable), a) = <<x>>
    <3>1. Served(a, usable) = <<d>>
      BY <1>2 DEF Served
    <3> HIDE DEF d
    <3> QED
      BY <3>1 DEF Executes
  <2>4. /\ x \in JobType
        /\ \A c \in Callers : x \in TokenJobs(c) <=> c = d
        /\ \A t \in Tasks : x \notin LaunchesOf(t)
    <3> HIDE DEF d
    <3> QED
      BY <2>1, JobIsToken DEF Kinds
  <2> HIDE DEF x, d
  <2>5. \A J : (Occurs(<<x>>, J) <=> x \in J) /\ AtMostOnce(<<x>>, J)
    BY <2>4, SingleJob
  <2>6. <<x>> \in Seq(JobType)
    BY <2>4
  <2>7. d \in waiting
    BY <1>2 DEF d
  <2> QED
    BY <2>2, <2>3, <2>4, <2>5, <2>6, <2>7
<1>3. CASE ~(Serves(a, usable) /\ Head(taskQueue) \in waiting)
  <2>1. Executes(Served(a, usable), a) = << >>
    BY <1>3 DEF Served, Executes
  <2>2. waiting' = waiting
    BY <1>3 DEF ReleaseAgent
  <2> QED
    BY <2>1, <2>2, EmptyQueue
<1> QED
  BY <1>2, <1>3

-----------------------------------------------------------------------------
(* Steps that leave the calls where they are *)

LEMMA SameActive ==
    ASSUME OneLoop, Counted, runningTasks' = runningTasks,
           \A c \in Callers : Active(c)' <=> Active(c)
    PROVE  OneLoop' /\ Counted'
<1>1. OneLoop'
  BY DEF OneLoop
<1>2. Counted'
  BY DEF Counted
<1> QED
  BY <1>1, <1>2

LEMMA AsideTasks ==
    ASSUME TaskInv, UNCHANGED <<waiting, work, runningTasks, busy>>,
           \A c \in Callers :
              /\ AtMostOnce(jobs', TokenJobs(c))
              /\ Occurs(jobs', TokenJobs(c)) <=> Occurs(jobs, TokenJobs(c)),
           \A t \in Tasks :
              /\ AtMostOnce(jobs', LaunchesOf(t))
              /\ Occurs(jobs', LaunchesOf(t)) => t \notin runningTasks
    PROVE  TaskInv'
<1>1. \A c \in Callers : (Held(c)' <=> Held(c)) /\ (Active(c)' <=> Active(c))
  BY DEF Held, Active, TokenJobs
<1>2. Places'
  BY <1>1 DEF TaskInv, Places
<1>3. OneLoop' /\ Counted'
  BY <1>1, SameActive DEF TaskInv
<1>4. NewLaunches'
  BY DEF NewLaunches, LaunchesOf
<1>5. BusyWork'
  BY DEF TaskInv, BusyWork
<1> QED
  BY <1>2, <1>3, <1>4, <1>5 DEF TaskInv

(* Jobs of loops and of the health check.                                     *)
Neutral(q) == \A i \in DOMAIN q : q[i].kind \in {"loop", "fails", "unhealthy"}

LEMMA NeutralQueue ==
    ASSUME NEW q, Neutral(q)
    PROVE  /\ \A c \in Callers : ~Occurs(q, TokenJobs(c)) /\ AtMostOnce(q, TokenJobs(c))
           /\ \A t \in Tasks : ~Occurs(q, LaunchesOf(t)) /\ AtMostOnce(q, LaunchesOf(t))
<1>1. \A c \in Callers : \A i \in DOMAIN q : q[i] \notin TokenJobs(c)
  BY DEF Neutral, TokenJobs
<1>2. \A t \in Tasks : \A i \in DOMAIN q : q[i] \notin LaunchesOf(t)
  BY DEF Neutral, LaunchesOf
<1> QED
  BY <1>1, <1>2 DEF Occurs, AtMostOnce

LEMMA QuietTasks ==
    ASSUME TaskInv, jobs = << >>, Neutral(jobs'),
           UNCHANGED <<waiting, work, runningTasks, busy>>
    PROVE  TaskInv'
<1>1. \A J : ~Occurs(jobs, J)
  BY EmptyQueue
<1> QED
  BY <1>1, NeutralQueue, AsideTasks

LEMMA TurnTasks ==
    ASSUME TaskInv, jobs \in Seq(JobType), jobs # << >>, jobs' = Tail(jobs),
           Head(jobs).kind \in {"loop", "fails", "unhealthy"},
           UNCHANGED <<waiting, work, runningTasks, busy>>
    PROVE  TaskInv'
<1>1. \A J : /\ Occurs(jobs, J) <=> Head(jobs) \in J \/ Occurs(jobs', J)
             /\ AtMostOnce(jobs, J) => AtMostOnce(jobs', J)
  BY HeadAndTail
<1>2. \A c \in Callers : Head(jobs) \notin TokenJobs(c)
  BY DEF TokenJobs
<1>3. \A c \in Callers : AtMostOnce(jobs, TokenJobs(c))
  BY DEF TaskInv, Places
<1>4. \A t \in Tasks : /\ AtMostOnce(jobs, LaunchesOf(t))
                       /\ Occurs(jobs, LaunchesOf(t)) => t \notin runningTasks
  BY DEF TaskInv, NewLaunches
<1> QED
  BY <1>1, <1>2, <1>3, <1>4, AsideTasks

LEMMA RequestTasks ==
    ASSUME TypeOK, TaskInv, Request, ~Shutdown
    PROVE  TaskInv'
<1>1. jobs = << >>
  BY DEF Request, StartWorkflow, PauseWorkflow, ResumeWorkflow, StopWorkflow,
         ShutdownEnds, Scale, CheckHealth, Quiet
<1>2. Neutral(jobs')
  <2>1. CASE jobs' = jobs
    BY <1>1, <2>1 DEF Neutral
  <2>2. CASE \E l : Begin(l)
    BY <2>2 DEF Begin, Neutral, Job
  <2>3. CASE CheckHealth
    BY <2>3 DEF CheckHealth, Neutral, Job
  <2> QED
    BY <2>1, <2>2, <2>3 DEF Request, StartWorkflow, PauseWorkflow, ResumeWorkflow,
       StopWorkflow, ShutdownEnds, Scale, engineVars
<1>3. UNCHANGED <<waiting, work, runningTasks, busy>>
  <2>1. CASE Scale
    BY <2>1 DEF Scale, AutoScale, ScaleUp, ScaleDown
  <2>2. CASE ~Scale
    BY <2>2 DEF Request, StartWorkflow, PauseWorkflow, ResumeWorkflow, StopWorkflow, Begin,
       ShutdownEnds, CheckHealth, poolVars, engineVars
  <2> QED
    BY <2>1, <2>2
<1> QED
  BY <1>1, <1>2, <1>3, QuietTasks

LEMMA LoopTasks ==
    ASSUME TypeOK, TaskInv, NEW l \in Loops, LoopStep(l), ~LoopLaunches(l)
    PROVE  TaskInv'
<1>1. CASE LoopPolls(l)
  <2>1. Neutral(jobs')
    BY <1>1 DEF LoopPolls, Neutral, Job
  <2> QED
    BY <1>1, <2>1, QuietTasks DEF LoopPolls, Quiet, poolVars
<1>2. CASE LoopSleeps(l) \/ LoopStopped(l) \/ LoopEnds(l) \/ LoopFails(l)
  <2>1. /\ jobs # << >> /\ jobs' = Tail(jobs)
        /\ Head(jobs).kind \in {"loop", "fails", "unhealthy"}
        /\ UNCHANGED <<waiting, work, runningTasks, busy>>
    BY <1>2 DEF LoopSleeps, LoopStopped, LoopEnds, LoopFails, Runs, Job, poolVars
  <2>2. jobs \in Seq(JobType)
    BY Parts DEF EngineType
  <2> QED
    BY <2>1, <2>2, TurnTasks
<1> QED
  BY <1>1, <1>2 DEF LoopStep

LEMMA HealthTasks ==
    ASSUME TypeOK, TaskInv, NEW a, HealthStep(a)
    PROVE  TaskInv'
<1>1. /\ jobs # << >> /\ jobs' = Tail(jobs)
      /\ Head(jobs).kind \in {"loop", "fails", "unhealthy"}
      /\ UNCHANGED <<waiting, work, runningTasks, busy>>
  BY DEF HealthStep, HandleUnhealthy, Runs, Job
<1>2. jobs \in Seq(JobType)
  BY Parts DEF EngineType
<1> QED
  BY <1>1, <1>2, TurnTasks

-----------------------------------------------------------------------------
(* Steps that make jobs of a whole set *)

LEMMA ListingOnto ==
    ASSUME NEW S, IsFiniteSet(S), NEW list \in Listings(S)
    PROVE  /\ \A i, j \in DOMAIN list : list[i] = list[j] => i = j
           /\ \A i \in DOMAIN list : list[i] \in S
           /\ \A x \in S : \E i \in DOMAIN list : list[i] = x
<1>1. Cardinality(S) \in Nat
  BY FS_CardinalityType
<1>2. /\ list \in [1 .. Cardinality(S) -> S] /\ DOMAIN list = 1 .. Cardinality(S)
      /\ \A i, j \in DOMAIN list : list[i] = list[j] => i = j
  BY DEF Listings
<1>3. list \in Injection(1 .. Cardinality(S), S)
  BY <1>2 DEF Injection, IsInjective
<1>4. Cardinality(1 .. Cardinality(S)) = Cardinality(S)
  BY <1>1, FS_Interval
<1>5. list \in Surjection(1 .. Cardinality(S), S)
  BY <1>3, <1>4, FS_Injection
<1> QED
  BY <1>2, <1>5 DEF Surjection

LEMMA LoopLaunchesTasks ==
    ASSUME TypeOK, Inv, TaskInv, NEW l \in Loops, LoopLaunches(l)
    PROVE  TaskInv'
<1>1. EngineType /\ jobs \in Seq(JobType)
  BY Parts DEF EngineType
<1>2. PICK ready \in Listings(Ready(l)) :
        jobs' = [i \in DOMAIN ready |-> Job("launch", l, ready[i], 0)] \o Tail(jobs)
  BY DEF LoopLaunches
<1> DEFINE launches == [i \in DOMAIN ready |-> Job("launch", l, ready[i], 0)]
<1>3. /\ jobs # << >> /\ Head(jobs).kind = "loop"
      /\ UNCHANGED <<waiting, work, runningTasks, busy>>
  BY DEF LoopLaunches, Runs, Job, poolVars
<1>4. Ready(l) \subseteq Tasks /\ \A t \in Ready(l) : t \notin runningTasks
  BY <1>1 DEF Ready, EngineType
<1>5. IsFiniteSet(Ready(l))
  BY <1>4, EngineAssumption, FS_Subset
<1>6. /\ \A i, j \in DOMAIN ready : ready[i] = ready[j] => i = j
      /\ \A i \in DOMAIN ready : ready[i] \in Ready(l)
  BY <1>5, ListingOnto
<1>7. /\ \A i \in DOMAIN launches : launches[i] \in JobType
      /\ \A i \in DOMAIN launches : \A c \in Callers : launches[i] \notin TokenJobs(c)
      /\ \A i \in DOMAIN launches : \A t \in Tasks :
            launches[i] \in LaunchesOf(t) <=> ready[i] = t
      /\ DOMAIN launches = DOMAIN ready
  <2>1. \A i \in DOMAIN ready :
            /\ Job("launch", l, ready[i], 0) \in JobType
            /\ \A c \in Callers : Job("launch", l, ready[i], 0) \notin TokenJobs(c)
            /\ \A t \in Tasks : Job("launch", l, ready[i], 0) \in LaunchesOf(t) <=> ready[i] = t
    BY <1>4, <1>6, JobIsToken DEF Kinds
  <2> QED
    BY <2>1
<1>8. launches \in Seq(JobType)
  <2>1. ready \in Seq(Ready(l))
    BY <1>5, ListingType
  <2>2. DOMAIN launches = 1 .. Len(ready) /\ Len(ready) \in Nat
    BY <2>1
  <2>3. \A i \in 1 .. Len(ready) : Job("launch", l, ready[i], 0) \in JobType
    BY <1>7, <2>2
  <2>4. [i \in 1 .. Len(ready) |-> Job("launch", l, ready[i], 0)] \in Seq(JobType)
    BY <2>2, <2>3
  <2> QED
    BY <2>1, <2>4
<1> HIDE DEF launches
<1>9. /\ \A c \in Callers : ~Occurs(launches, TokenJobs(c)) /\ AtMostOnce(launches, TokenJobs(c))
      /\ \A t \in Tasks : /\ AtMostOnce(launches, LaunchesOf(t))
                          /\ Occurs(launches, LaunchesOf(t)) => t \notin runningTasks
  BY <1>4, <1>6, <1>7 DEF Occurs, AtMostOnce
<1>10. jobs' = launches \o Tail(jobs) /\ Tail(jobs) \in Seq(JobType)
  BY <1>1, <1>2, <1>3 DEF launches
<1>11. \A J : /\ Occurs(jobs', J) <=> Occurs(launches, J) \/ Occurs(Tail(jobs), J)
              /\ AtMostOnce(jobs', J) <=> /\ AtMostOnce(launches, J) /\ AtMostOnce(Tail(jobs), J)
                                          /\ ~(Occurs(launches, J) /\ Occurs(Tail(jobs), J))
  BY <1>8, <1>10, ConcatJobs
<1>12. \A J : /\ Occurs(jobs, J) <=> Head(jobs) \in J \/ Occurs(Tail(jobs), J)
              /\ AtMostOnce(jobs, J) => AtMostOnce(Tail(jobs), J)
  BY <1>1, <1>3, HeadAndTail
<1>13. \A c \in Callers : Head(jobs) \notin TokenJobs(c)
  BY <1>3 DEF TokenJobs
<1>14. \A t \in Tasks : ~Occurs(jobs, LaunchesOf(t))
  BY <1>1, <1>3, NoLaunches
<1>15. /\ \A c \in Callers : AtMostOnce(jobs, TokenJobs(c))
       /\ \A t \in Tasks : AtMostOnce(jobs, LaunchesOf(t))
  BY DEF TaskInv, Places, NewLaunches
<1>16. \A c \in Callers :
          /\ AtMostOnce(jobs', TokenJobs(c))
          /\ Occurs(jobs', TokenJobs(c)) <=> Occurs(jobs, TokenJobs(c))
  BY <1>9, <1>11, <1>12, <1>13, <1>15
<1>17. \A t \in Tasks :
          /\ AtMostOnce(jobs', LaunchesOf(t))
          /\ Occurs(jobs', LaunchesOf(t)) => t \notin runningTasks
  BY <1>9, <1>11, <1>12, <1>14, <1>15
<1> QED
  BY <1>3, <1>16, <1>17, AsideTasks

(* The calls that wait when the pool is shut down are refused, each once.     *)
LEMMA ShutdownTasks ==
    ASSUME TypeOK, TaskInv, Shutdown
    PROVE  TaskInv'
<1>1. ListType /\ EngineType
  BY Parts
<1>2. PICK rejected \in Listings(waiting) :
        jobs' = [i \in DOMAIN rejected |-> Job("catch", rejected[i][1], rejected[i][2], 0)]
  BY DEF Shutdown
<1>3. jobs = << >> /\ waiting' = {} /\ UNCHANGED <<work, runningTasks, busy>>
  BY DEF Shutdown, Quiet
<1>4. waiting \subseteq Callers /\ IsFiniteSet(waiting)
  <2>1. IsFiniteSet(Loops)
    BY EngineAssumption, FS_Interval DEF Loops
  <2>2. IsFiniteSet(Callers)
    BY <2>1, EngineAssumption, FS_Product
  <2> QED
    BY <1>1, <2>2, FS_Subset DEF ListType
<1>5. /\ \A i, j \in DOMAIN rejected : rejected[i] = rejected[j] => i = j
      /\ \A i \in DOMAIN rejected : rejected[i] \in waiting
      /\ \A c \in waiting : \E i \in DOMAIN rejected : rejected[i] = c
  BY <1>4, ListingOnto
<1>6. /\ \A i \in DOMAIN rejected : \A c \in Callers :
            jobs'[i] \in TokenJobs(c) <=> rejected[i] = c
      /\ \A i \in DOMAIN rejected : \A t \in Tasks : jobs'[i] \notin LaunchesOf(t)
      /\ DOMAIN jobs' = DOMAIN rejected
  <2> SUFFICES ASSUME NEW i \in DOMAIN rejected
               PROVE  /\ \A c \in Callers : jobs'[i] \in TokenJobs(c) <=> rejected[i] = c
                      /\ \A t \in Tasks : jobs'[i] \notin LaunchesOf(t)
    BY <1>2
  <2> DEFINE d == rejected[i]
  <2>1. d \in Callers /\ jobs'[i] = Job("catch", d[1], d[2], 0)
    BY <1>2, <1>4, <1>5
  <2> HIDE DEF d
  <2>2. d[1] \in Loops /\ d[2] \in Tasks /\ d = <<d[1], d[2]>>
    BY <2>1, EngineAssumption
  <2>3. /\ \A c \in Callers : jobs'[i] \in TokenJobs(c) <=> d = c
        /\ \A t \in Tasks : jobs'[i] \notin LaunchesOf(t)
    BY <2>1, <2>2, JobIsToken DEF Kinds
  <2> QED
    BY <2>3 DEF d
<1>7. \A c \in Callers : /\ AtMostOnce(jobs', TokenJobs(c))
                         /\ Occurs(jobs', TokenJobs(c)) <=> c \in waiting
  BY <1>4, <1>5, <1>6 DEF AtMostOnce, Occurs
<1>8. \A t \in Tasks : AtMostOnce(jobs', LaunchesOf(t)) /\ ~Occurs(jobs', LaunchesOf(t))
  BY <1>6 DEF AtMostOnce, Occurs
<1>9. \A c \in Callers : ~Held(c)
  BY <1>3, EmptyQueue DEF Held
<1>10. \A c \in Callers : /\ Held(c)' <=> c \in waiting
                          /\ Active(c)' <=> Active(c)
  BY <1>3, <1>7, <1>9 DEF Held, Active, TokenJobs
<1>11. Places'
  BY <1>3, <1>7, <1>10 DEF TaskInv, Places
<1>12. OneLoop' /\ Counted'
  BY <1>3, <1>10, SameActive DEF TaskInv
<1>13. NewLaunches'
  BY <1>8 DEF NewLaunches, LaunchesOf
<1>14. BusyWork'
  BY <1>3 DEF TaskInv, BusyWork
<1> QED
  BY <1>11, <1>12, <1>13, <1>14 DEF TaskInv

-----------------------------------------------------------------------------
(* Steps of a task *)

LEMMA StartActive ==
    ASSUME OneLoop, Counted, NEW c \in Callers, c[2] \notin runningTasks,
           runningTasks' = runningTasks \union {c[2]},
           \A d \in Callers : Active(d)' <=> Active(d) \/ d = c
    PROVE  OneLoop' /\ Counted'
<1>1. \A d \in Callers : d[2] \in Tasks
  BY CallerType
<1>2. \A d \in Callers : d[2] = c[2] => ~Active(d)
  BY <1>1 DEF Counted
<1>3. OneLoop'
  BY <1>2 DEF OneLoop
<1>4. Counted'
  BY <1>1 DEF Counted
<1> QED
  BY <1>3, <1>4

LEMMA EndActive ==
    ASSUME OneLoop, Counted, NEW c \in Callers, Active(c),
           runningTasks' = runningTasks \ {c[2]},
           \A d \in Callers : Active(d)' <=> Active(d) /\ d # c
    PROVE  OneLoop' /\ Counted'
<1>1. OneLoop'
  BY DEF OneLoop
<1>2. \A d \in Callers : d[2] = c[2] /\ Active(d) => d = c
  BY DEF OneLoop
<1>3. Counted'
  BY <1>2 DEF Counted
<1> QED
  BY <1>1, <1>3

(* The jobs of the calls after a turn, by those at the head and those made.   *)
LEMMA AfterTurn ==
    ASSUME TypeOK, TaskInv, jobs # << >>, NEW extra \in Seq(JobType),
           jobs' = Tail(jobs) \o extra, NEW c \in Callers,
           AtMostOnce(extra, TokenJobs(c)),
           Occurs(extra, TokenJobs(c)) => ~Held(c) \/ Head(jobs) \in TokenJobs(c)
    PROVE  /\ AtMostOnce(jobs', TokenJobs(c))
           /\ Occurs(jobs', TokenJobs(c)) <=>
                 \/ Occurs(extra, TokenJobs(c))
                 \/ Held(c) /\ Head(jobs) \notin TokenJobs(c)
<1>1. jobs \in Seq(JobType)
  BY Parts DEF EngineType
<1>2. AtMostOnce(jobs, TokenJobs(c))
  BY DEF TaskInv, Places
<1>3. /\ Held(c) <=> Head(jobs) \in TokenJobs(c) \/ Occurs(Tail(jobs), TokenJobs(c))
      /\ ~(Head(jobs) \in TokenJobs(c) /\ Occurs(Tail(jobs), TokenJobs(c)))
  BY <1>1, <1>2, HeadAndTail DEF Held
<1> QED
  BY <1>1, <1>2, <1>3, TurnJobs

(* A turn that makes no launch keeps what is known of those queued.           *)
LEMMA LaunchesAfterTurn ==
    ASSUME TypeOK, TaskInv, jobs # << >>, NEW extra \in Seq(JobType),
           jobs' = Tail(jobs) \o extra, NEW t \in Tasks, ~Occurs(extra, LaunchesOf(t))
    PROVE  /\ AtMostOnce(jobs', LaunchesOf(t))
           /\ Occurs(jobs', LaunchesOf(t)) =>
                 Occurs(jobs, LaunchesOf(t)) /\ Head(jobs) \notin LaunchesOf(t)
<1>1. jobs \in Seq(JobType)
  BY Parts DEF EngineType
<1>2. AtMostOnce(jobs, LaunchesOf(t))
  BY DEF TaskInv, NewLaunches
<1>3. AtMostOnce(extra, LaunchesOf(t))
  BY DEF AtMostOnce, Occurs
<1> QED
  BY <1>1, <1>2, <1>3, HeadAndTail, TurnJobs

LEMMA LaunchTasks ==
    ASSUME TypeOK, Inv, TaskInv, NEW l \in Loops, NEW t \in Tasks, Launch(l, t)
    PROVE  TaskInv'
<1> DEFINE c == <<l, t>>
<1>1. ListType /\ jobs \in Seq(JobType)
  BY Parts DEF EngineType
<1>2. c \in Callers /\ c[2] = t
  BY EngineAssumption
<1>3. /\ jobs # << >> /\ Head(jobs) = Job("launch", l, t, 0)
      /\ runningTasks' = runningTasks \union {t}
      /\ UNCHANGED <<work, busy>>
  BY DEF Launch, Runs
<1>4. /\ \A d \in Callers : Head(jobs) \notin TokenJobs(d)
      /\ \A u \in Tasks : Head(jobs) \in LaunchesOf(u) <=> u = t
  BY <1>3, JobIsToken DEF Kinds
<1>5. t \notin runningTasks
  <2>1. Occurs(jobs, LaunchesOf(t))
    BY <1>1, <1>3, <1>4, HeadAndTail
  <2> QED
    BY <2>1 DEF TaskInv, NewLaunches
<1> HIDE DEF c
<1>6. ~Active(c)
  BY <1>2, <1>5 DEF TaskInv, Counted
<1>7. PICK extra \in Seq(JobType) :
        /\ jobs' = Tail(jobs) \o extra
        /\ \A d \in Callers : AtMostOnce(extra, TokenJobs(d))
        /\ \A u \in Tasks : ~Occurs(extra, LaunchesOf(u))
        /\ \/ /\ waiting' = waiting
              /\ \A d \in Callers : Occurs(extra, TokenJobs(d)) <=> d = c
           \/ /\ waiting' = waiting \union {c}
              /\ \A d \in Callers : ~Occurs(extra, TokenJobs(d))
  <2>1. Tail(jobs) \in Seq(JobType)
    BY <1>1, <1>3
  <2>2. ASSUME NEW a \in Nat, NEW kind \in {"execute", "catch"}, waiting' = waiting,
               jobs' = Append(Tail(jobs), Job(kind, l, t, a))
        PROVE  \E extra \in Seq(JobType) :
                 /\ jobs' = Tail(jobs) \o extra
                 /\ \A d \in Callers : AtMostOnce(extra, TokenJobs(d))
                 /\ \A u \in Tasks : ~Occurs(extra, LaunchesOf(u))
                 /\ waiting' = waiting
                 /\ \A d \in Callers : Occurs(extra, TokenJobs(d)) <=> d = c
    <3> DEFINE x == Job(kind, l, t, a)
    <3>1. /\ x \in JobType
          /\ \A d \in Callers : x \in TokenJobs(d) <=> d = c
          /\ \A u \in Tasks : x \notin LaunchesOf(u)
      BY JobIsToken DEF Kinds, c
    <3> HIDE DEF x
    <3>2. \A J : (Occurs(<<x>>, J) <=> x \in J) /\ AtMostOnce(<<x>>, J)
      BY <3>1, SingleJob
    <3>3. <<x>> \in Seq(JobType) /\ jobs' = Tail(jobs) \o <<x>>
      BY <2>1, <2>2, <3>1 DEF x
    <3> QED
      BY <2>2, <3>1, <3>2, <3>3
  <2>3. CASE Wait(c) /\ jobs' = Tail(jobs)
    <3>1. << >> \in Seq(JobType) /\ jobs' = Tail(jobs) \o << >>
      BY <2>1, <2>3
    <3>2. waiting' = waiting \union {c}
      BY <2>3 DEF Wait
    <3> QED
      BY <3>1, <3>2, EmptyQueue
  <2>4. CASE \E a \in 1 .. (currentId + 1) :
               /\ Take(a) \/ Grow(a)
               /\ jobs' = Append(Tail(jobs), Job("execute", l, t, a))
    <3>1. waiting' = waiting
      BY <2>4 DEF Take, Grow
    <3>2. 1 .. (currentId + 1) \subseteq Nat
      BY <1>1 DEF ListType
    <3> QED
      BY <2>2, <2>4, <3>1, <3>2
  <2>5. CASE jobs' = Append(Tail(jobs), Job("catch", l, t, 0)) /\ waiting' = waiting
    BY <2>2, <2>5
  <2> QED
    BY <2>3, <2>4, <2>5 DEF Launch, c
<1>8. \A d \in Callers : Occurs(extra, TokenJobs(d)) => ~Held(d)
  BY <1>6, <1>7 DEF Active
<1>9. \A d \in Callers :
        /\ AtMostOnce(jobs', TokenJobs(d))
        /\ Occurs(jobs', TokenJobs(d)) <=> Occurs(extra, TokenJobs(d)) \/ Held(d)
  BY <1>3, <1>4, <1>7, <1>8, AfterTurn
<1>10. \A d \in Callers : Active(d)' <=> Active(d) \/ d = c
  BY <1>2, <1>3, <1>7, <1>9, HeldNext DEF Active
<1>11. Places'
  <2>1. c \notin waiting /\ work[c] = 0 /\ ~Held(c)
    BY <1>6 DEF Active
  <2> QED
    BY <1>3, <1>7, <1>9, <2>1, PlacesNext DEF TaskInv, Places
<1>12. OneLoop' /\ Counted'
  BY <1>2, <1>3, <1>5, <1>10, StartActive DEF TaskInv
<1>13. NewLaunches'
  <2>1. \A u \in Tasks :
          /\ AtMostOnce(jobs', LaunchesOf(u))
          /\ Occurs(jobs', LaunchesOf(u)) => Occurs(jobs, LaunchesOf(u)) /\ u # t
    BY <1>3, <1>4, <1>7, LaunchesAfterTurn
  <2> QED
    BY <1>3, <2>1 DEF TaskInv, NewLaunches, LaunchesOf
<1>14. BusyWork'
  BY <1>3 DEF TaskInv, BusyWork
<1> QED
  BY <1>11, <1>12, <1>13, <1>14 DEF TaskInv

LEMMA WaitTimesOutTasks ==
    ASSUME TypeOK, TaskInv, NEW l \in Loops, NEW t \in Tasks, WaitTimesOut(l, t)
    PROVE  TaskInv'
<1> DEFINE c == <<l, t>>
           x == Job("catch", l, t, 0)
<1>1. /\ c \in waiting /\ waiting' = waiting \ {c}
      /\ jobs = << >> /\ jobs' = <<x>> /\ UNCHANGED <<work, runningTasks, busy>>
  BY DEF WaitTimesOut, GiveUp, Quiet
<1>2. /\ x \in JobType
      /\ \A d \in Callers : x \in TokenJobs(d) <=> d = c
      /\ \A u \in Tasks : x \notin LaunchesOf(u)
  BY JobIsToken DEF Kinds
<1> HIDE DEF x
<1>3. \A J : (Occurs(jobs', J) <=> x \in J) /\ AtMostOnce(jobs', J)
  BY <1>1, <1>2, SingleJob
<1>4. \A d \in Callers : ~Held(d)
  BY <1>1, EmptyQueue DEF Held
<1> HIDE DEF c
<1>5. \A d \in Callers : Active(d)' <=> Active(d)
  BY <1>1, <1>2, <1>3, <1>4, HeldNext DEF Active
<1>6. Places'
  BY <1>1, <1>2, <1>3, <1>4, PlacesNext DEF TaskInv, Places
<1>7. OneLoop' /\ Counted'
  BY <1>1, <1>5, SameActive DEF TaskInv
<1>8. NewLaunches'
  BY <1>2, <1>3 DEF NewLaunches, LaunchesOf
<1>9. BusyWork'
  BY <1>1 DEF TaskInv, BusyWork
<1> QED
  BY <1>6, <1>7, <1>8, <1>9 DEF TaskInv

(* The agent accepts the task or the task fails at once.                      *)
LEMMA ExecuteTasks ==
    ASSUME TypeOK, Inv, TaskInv, NEW l \in Loops, NEW t \in Tasks, NEW a \in Nat \ {0},
           Execute(l, t, a)
    PROVE  TaskInv'
<1> DEFINE c == <<l, t>>
<1>1. /\ jobs \in Seq(JobType) /\ Tail(jobs) \in Seq(JobType)
      /\ jobs # << >> /\ Head(jobs) = Job("execute", l, t, a)
      /\ work \in [Callers -> Nat]
      /\ UNCHANGED <<waiting, runningTasks>>
  BY Parts DEF EngineType, Execute, Runs
<1>2. c \in Callers
  BY EngineAssumption
<1>3. /\ \A d \in Callers : Head(jobs) \in TokenJobs(d) <=> d = c
      /\ \A u \in Tasks : Head(jobs) \notin LaunchesOf(u)
  BY <1>1, JobIsToken DEF Kinds
<1>4. Held(c) /\ work[c] = 0 /\ c \notin waiting
  <2>1. Held(c)
    BY <1>1, <1>2, <1>3, HeadAndTail DEF Held
  <2> QED
    BY <1>2, <2>1 DEF TaskInv, Places
<1>5. PICK extra \in Seq(JobType) :
        /\ jobs' = Tail(jobs) \o extra
        /\ \A d \in Callers : AtMostOnce(extra, TokenJobs(d))
        /\ \A u \in Tasks : ~Occurs(extra, LaunchesOf(u))
        /\ \/ /\ Accepts(a)
              /\ busy' = busy \union {a} /\ work' = [work EXCEPT ![c] = a]
              /\ \A d \in Callers : ~Occurs(extra, TokenJobs(d))
           \/ /\ UNCHANGED <<busy, work>>
              /\ \A d \in Callers : Occurs(extra, TokenJobs(d)) <=> d = c
  <2>1. CASE Accepts(a)
    <3>1. << >> \in Seq(JobType) /\ jobs' = Tail(jobs) \o << >>
      BY <1>1, <2>1 DEF Execute
    <3>2. busy' = busy \union {a} /\ work' = [work EXCEPT ![c] = a]
      BY <2>1 DEF Execute
    <3> HIDE DEF c
    <3> QED
      BY <2>1, <3>1, <3>2, EmptyQueue
  <2>2. CASE ~Accepts(a)
    <3> DEFINE x == Job("catch", l, t, 0)
    <3>1. /\ x \in JobType
          /\ \A d \in Callers : x \in TokenJobs(d) <=> d = c
          /\ \A u \in Tasks : x \notin LaunchesOf(u)
      BY JobIsToken DEF Kinds
    <3>2. jobs' = Append(Tail(jobs), x) /\ UNCHANGED <<busy, work>>
      BY <2>2 DEF Execute
    <3> HIDE DEF x
    <3>3. \A J : (Occurs(<<x>>, J) <=> x \in J) /\ AtMostOnce(<<x>>, J)
      BY <3>1, SingleJob
    <3>4. <<x>> \in Seq(JobType) /\ jobs' = Tail(jobs) \o <<x>>
      BY <1>1, <3>1, <3>2
    <3> HIDE DEF c
    <3> QED
      BY <3>1, <3>2, <3>3, <3>4
  <2> QED
    BY <2>1, <2>2
<1> HIDE DEF c
<1>6. \A d \in Callers :
        /\ AtMostOnce(jobs', TokenJobs(d))
        /\ Occurs(jobs', TokenJobs(d)) <=> Occurs(extra, TokenJobs(d)) \/ (Held(d) /\ d # c)
  BY <1>1, <1>3, <1>5, AfterTurn
<1>7. NewLaunches'
  <2>1. \A u \in Tasks : /\ AtMostOnce(jobs', LaunchesOf(u))
                         /\ Occurs(jobs', LaunchesOf(u)) => Occurs(jobs, LaunchesOf(u))
    BY <1>1, <1>5, LaunchesAfterTurn
  <2> QED
    BY <1>1, <2>1 DEF TaskInv, NewLaunches, LaunchesOf
<1>8. CASE Accepts(a) /\ busy' = busy \union {a} /\ work' = [work EXCEPT ![c] = a]
           /\ \A d \in Callers : ~Occurs(extra, TokenJobs(d))
  <2>1. work'[c] = a /\ \A d \in Callers \ {c} : work'[d] = work[d]
    BY <1>1, <1>2, <1>8
  <2>2. \A d \in Callers : Active(d)' <=> Active(d)
    BY <1>1, <1>4, <1>6, <1>8, <2>1, HeldNext DEF Active
  <2>3. Places'
    BY <1>1, <1>4, <1>6, <1>8, <2>1, PlacesNext DEF TaskInv, Places
  <2>4. OneLoop' /\ Counted'
    BY <1>1, <2>2, SameActive DEF TaskInv
  <2>5. \A d \in Callers : work[d] # a
    BY <1>8 DEF Accepts, TaskInv, BusyWork
  <2>6. BusyWork'
    BY <1>2, <1>4, <1>8, <2>1, <2>5 DEF TaskInv, BusyWork
  <2> QED
    BY <2>3, <2>4, <2>6, <1>7 DEF TaskInv
<1>9. CASE /\ UNCHANGED <<busy, work>>
           /\ \A d \in Callers : Occurs(extra, TokenJobs(d)) <=> d = c
  <2>1. \A d \in Callers : Active(d)' <=> Active(d)
    BY <1>1, <1>4, <1>6, <1>9, HeldNext DEF Active
  <2>2. Places'
    BY <1>1, <1>4, <1>6, <1>9, PlacesNext DEF TaskInv, Places
  <2>3. OneLoop' /\ Counted'
    BY <1>1, <2>1, SameActive DEF TaskInv
  <2>4. BusyWork'
    BY <1>9 DEF TaskInv, BusyWork
  <2> QED
    BY <2>2, <2>3, <2>4, <1>7 DEF TaskInv
<1> QED
  BY <1>5, <1>8, <1>9

(* The work of an agent ends, well or badly.                                  *)
LEMMA WorkTasks ==
    ASSUME TypeOK, TaskInv, NEW l \in Loops, NEW t \in Tasks, NEW a \in Nat \ {0},
           WorkEnds(l, t, a) \/ WorkFails(l, t, a)
    PROVE  TaskInv'
<1> DEFINE c == <<l, t>>
<1>1. /\ work[c] = a /\ jobs = << >> /\ busy' = busy \ {a}
      /\ work' = [work EXCEPT ![c] = 0] /\ runningTasks' = runningTasks
  BY DEF WorkEnds, WorkFails, Quiet
<1>2. c \in Callers /\ work \in [Callers -> Nat]
  BY Parts, EngineAssumption DEF EngineType
<1>3. /\ waiting' \subseteq waiting
      /\ \A u \in Tasks : AtMostOnce(jobs', LaunchesOf(u)) /\ ~Occurs(jobs', LaunchesOf(u))
      /\ \A d \in Callers :
            /\ AtMostOnce(jobs', TokenJobs(d))
            /\ Occurs(jobs', TokenJobs(d)) <=> (d \in waiting /\ d \notin waiting') \/ d = c
  <2>1. CASE WorkEnds(l, t, a)
    <3> DEFINE usable   == a \notin failed \union retired
               executes == Executes(Served(a, usable), a)
               x        == Job("done", l, t, a)
    <3>1. ReleaseAgent(a, usable) /\ jobs' = executes \o <<x>>
      BY <2>1 DEF WorkEnds
    <3>2. /\ executes \in Seq(JobType) /\ waiting' \subseteq waiting
          /\ \A u \in Tasks : ~Occurs(executes, LaunchesOf(u))
          /\ \A d \in Callers :
                /\ AtMostOnce(executes, TokenJobs(d))
                /\ Occurs(executes, TokenJobs(d)) <=> d \in waiting /\ d \notin waiting'
      BY <3>1, ReleaseMoves
    <3>3. /\ x \in JobType
          /\ \A d \in Callers : x \in TokenJobs(d) <=> d = c
          /\ \A u \in Tasks : x \notin LaunchesOf(u)
      BY JobIsToken DEF Kinds
    <3> HIDE DEF executes, x, c, usable
    <3>4. /\ <<x>> \in Seq(JobType)
          /\ \A J : (Occurs(<<x>>, J) <=> x \in J) /\ AtMostOnce(<<x>>, J)
      BY <3>3, SingleJob
    <3>5. \A J : /\ Occurs(jobs', J) <=> Occurs(executes, J) \/ Occurs(<<x>>, J)
                 /\ AtMostOnce(jobs', J) <=> /\ AtMostOnce(executes, J) /\ AtMostOnce(<<x>>, J)
                                             /\ ~(Occurs(executes, J) /\ Occurs(<<x>>, J))
      BY <3>1, <3>2, <3>4, ConcatJobs
    <3>6. c \notin waiting
      BY <1>1, <1>2 DEF TaskInv, Places
    <3>7. \A u \in Tasks : AtMostOnce(executes, LaunchesOf(u))
      BY <3>2 DEF Occurs, AtMostOnce
    <3> QED
      BY <3>2, <3>3, <3>4, <3>5, <3>6, <3>7
  <2>2. CASE WorkFails(l, t, a)
    <3> DEFINE x == Job("catch", l, t, 0)
    <3>1. jobs' = <<x>> /\ waiting' = waiting
      BY <2>2 DEF WorkFails, ReleaseAgent, Serves
    <3>2. /\ x \in JobType
          /\ \A d \in Callers : x \in TokenJobs(d) <=> d = c
          /\ \A u \in Tasks : x \notin LaunchesOf(u)
      BY JobIsToken DEF Kinds
    <3> HIDE DEF x, c
    <3> QED
      BY <3>1, <3>2, SingleJob
  <2> QED
    BY <2>1, <2>2
<1> HIDE DEF c
<1>4. work'[c] = 0 /\ \A d \in Callers \ {c} : work'[d] = work[d]
  BY <1>1, <1>2
<1>5. c \notin waiting /\ \A d \in Callers : ~Held(d)
  BY <1>1, <1>2, EmptyQueue DEF TaskInv, Places, Held
<1>6. \A d \in Callers : Active(d)' <=> Active(d)
  BY <1>1, <1>2, <1>3, <1>4, <1>5, HeldNext DEF Active
<1>7. Places'
  BY <1>1, <1>2, <1>3, <1>4, <1>5, PlacesNext DEF TaskInv, Places
<1>8. OneLoop' /\ Counted'
  BY <1>1, <1>6, SameActive DEF TaskInv
<1>9. NewLaunches'
  BY <1>3 DEF NewLaunches, LaunchesOf
<1>10. BusyWork'
  BY <1>1, <1>2, <1>4 DEF TaskInv, BusyWork
<1> QED
  BY <1>7, <1>8, <1>9, <1>10 DEF TaskInv

(* The turn that ends a task: what stood for its call goes, and the agent it  *)
(* had may go to a call that waits.                                           *)
LEMMA EndTasks ==
    ASSUME TypeOK, TaskInv, NEW c \in Callers, jobs # << >>,
           \A d \in Callers : Head(jobs) \in TokenJobs(d) <=> d = c,
           NEW extra \in Seq(JobType), jobs' = Tail(jobs) \o extra,
           \A u \in Tasks : ~Occurs(extra, LaunchesOf(u)),
           waiting' \subseteq waiting,
           \A d \in Callers :
              /\ AtMostOnce(extra, TokenJobs(d))
              /\ Occurs(extra, TokenJobs(d)) <=> d \in waiting /\ d \notin waiting',
           runningTasks' = runningTasks \ {c[2]}, UNCHANGED <<work, busy>>
    PROVE  TaskInv'
<1>1. jobs \in Seq(JobType)
  BY Parts DEF EngineType
<1>2. Held(c) /\ work[c] = 0 /\ c \notin waiting
  <2>1. Held(c)
    BY <1>1, HeadAndTail DEF Held
  <2> QED
    BY <2>1 DEF TaskInv, Places
<1>3. \A d \in Callers : d \in waiting => work[d] = 0 /\ ~Held(d)
  BY DEF TaskInv, Places
<1>4. \A d \in Callers :
        /\ AtMostOnce(jobs', TokenJobs(d))
        /\ Occurs(jobs', TokenJobs(d)) <=>
              (d \in waiting /\ d \notin waiting') \/ (Held(d) /\ d # c)
  BY <1>3, AfterTurn
<1>5. \A d \in Callers : Active(d)' <=> Active(d) /\ d # c
  BY <1>2, <1>4, HeldNext DEF Active
<1>6. Places'
  BY <1>2, <1>4, PlacesNext DEF TaskInv, Places
<1>7. Active(c)
  BY <1>2 DEF Active
<1>8. OneLoop' /\ Counted'
  BY <1>5, <1>7, EndActive DEF TaskInv
<1>9. NewLaunches'
  <2>1. \A u \in Tasks : /\ AtMostOnce(jobs', LaunchesOf(u))
                         /\ Occurs(jobs', LaunchesOf(u)) => Occurs(jobs, LaunchesOf(u))
    BY LaunchesAfterTurn
  <2> QED
    BY <2>1 DEF TaskInv, NewLaunches, LaunchesOf
<1>10. BusyWork'
  BY DEF TaskInv, BusyWork
<1> QED
  BY <1>6, <1>8, <1>9, <1>10 DEF TaskInv

LEMMA TaskDoneTasks ==
    ASSUME TypeOK, TaskInv, NEW l \in Loops, NEW t \in Tasks, NEW a \in Nat,
           TaskDone(l, t, a)
    PROVE  TaskInv'
<1> DEFINE c        == <<l, t>>
           usable   == IsAvailable(a)
           executes == Executes(Served(a, usable), a)
           x        == Job("loop", l, None, 0)
<1>1. /\ jobs \in Seq(JobType) /\ jobs # << >> /\ Tail(jobs) \in Seq(JobType)
      /\ Head(jobs) = Job("done", l, t, a)
      /\ runningTasks' = runningTasks \ {t} /\ UNCHANGED <<work, busy>>
      /\ ReleaseAgent(a, usable)
  BY Parts DEF EngineType, TaskDone, Runs
<1>2. c \in Callers /\ c[2] = t
  BY EngineAssumption
<1>3. \A d \in Callers : Head(jobs) \in TokenJobs(d) <=> d = c
  BY <1>1, JobIsToken DEF Kinds
<1>4. /\ executes \in Seq(JobType) /\ waiting' \subseteq waiting
      /\ \A u \in Tasks : ~Occurs(executes, LaunchesOf(u))
      /\ \A d \in Callers :
            /\ AtMostOnce(executes, TokenJobs(d))
            /\ Occurs(executes, TokenJobs(d)) <=> d \in waiting /\ d \notin waiting'
  BY <1>1, ReleaseMoves
<1>5. /\ x \in JobType
      /\ \A d \in Callers : x \notin TokenJobs(d)
      /\ \A u \in Tasks : x \notin LaunchesOf(u)
  BY JobIsToken, EngineAssumption DEF Kinds
<1>6. PICK next \in {<<x>>, << >>} : jobs' = Tail(jobs) \o executes \o next
  BY DEF TaskDone
<1> HIDE DEF executes, x, c, usable
<1>7. next \in Seq(JobType)
  <2>1. <<x>> \in Seq(JobType) /\ << >> \in Seq(JobType)
    BY <1>5
  <2> QED
    BY <1>6, <2>1, Zenon
<1>8. /\ \A d \in Callers : ~Occurs(next, TokenJobs(d)) /\ AtMostOnce(next, TokenJobs(d))
      /\ \A u \in Tasks : ~Occurs(next, LaunchesOf(u))
  <2>1. CASE next = <<x>>
    BY <1>5, <2>1, SingleJob
  <2>2. CASE next = << >>
    BY <2>2, EmptyQueue
  <2> QED
    BY <1>6, <2>1, <2>2
<1> DEFINE extra == executes \o next
<1>9. extra \in Seq(JobType) /\ jobs' = Tail(jobs) \o extra
  <2>1. PICK p : p = Tail(jobs)
    OBVIOUS
  <2>2. p \in Seq(JobType) /\ jobs' = p \o executes \o next
    BY <1>1, <1>6, <2>1
  <2>3. extra \in Seq(JobType) /\ p \o executes \o next = p \o extra
    BY <1>4, <1>7, <2>2, ConcatTwice
  <2> QED
    BY <2>1, <2>2, <2>3
<1>10. /\ \A u \in Tasks : ~Occurs(extra, LaunchesOf(u))
       /\ \A d \in Callers :
             /\ AtMostOnce(extra, TokenJobs(d))
             /\ Occurs(extra, TokenJobs(d)) <=> d \in waiting /\ d \notin waiting'
  BY <1>4, <1>7, <1>8, ConcatJobs
<1> HIDE DEF extra
<1> QED
  BY <1>1, <1>2, <1>3, <1>4, <1>9, <1>10, EndTasks

LEMMA TaskFailsTasks ==
    ASSUME TypeOK, TaskInv, NEW l \in Loops, NEW t \in Tasks, TaskFails(l, t)
    PROVE  TaskInv'
<1> DEFINE c == <<l, t>>
           x == Job("fails", l, None, 0)
<1>1. /\ jobs \in Seq(JobType) /\ jobs # << >> /\ Tail(jobs) \in Seq(JobType)
      /\ Head(jobs) = Job("catch", l, t, 0)
      /\ runningTasks' = runningTasks \ {t} /\ UNCHANGED <<waiting, work, busy>>
  BY Parts DEF EngineType, TaskFails, Runs, poolVars
<1>2. c \in Callers /\ c[2] = t
  BY EngineAssumption
<1>3. \A d \in Callers : Head(jobs) \in TokenJobs(d) <=> d = c
  BY <1>1, JobIsToken DEF Kinds
<1>4. /\ x \in JobType
      /\ \A d \in Callers : x \notin TokenJobs(d)
      /\ \A u \in Tasks : x \notin LaunchesOf(u)
  BY JobIsToken, EngineAssumption DEF Kinds
<1>5. jobs' = Append(Tail(jobs), x) \/ jobs' = Tail(jobs)
  BY DEF TaskFails
<1> HIDE DEF x, c
<1>6. PICK extra \in {<<x>>, << >>} : jobs' = Tail(jobs) \o extra
  <2>1. Append(Tail(jobs), x) = Tail(jobs) \o <<x>> /\ Tail(jobs) = Tail(jobs) \o << >>
    BY <1>1, <1>4
  <2> QED
    BY <1>5, <2>1, Zenon
<1>7. extra \in Seq(JobType)
  <2>1. <<x>> \in Seq(JobType) /\ << >> \in Seq(JobType)
    BY <1>4
  <2> QED
    BY <1>6, <2>1, Zenon
<1>8. /\ \A d \in Callers : ~Occurs(extra, TokenJobs(d)) /\ AtMostOnce(extra, TokenJobs(d))
      /\ \A u \in Tasks : ~Occurs(extra, LaunchesOf(u))
  <2>1. CASE extra = <<x>>
    BY <1>4, <2>1, SingleJob
  <2>2. CASE extra = << >>
    BY <2>2, EmptyQueue
  <2> QED
    BY <1>6, <2>1, <2>2
<1> QED
  BY <1>1, <1>2, <1>3, <1>6, <1>7, <1>8, EndTasks

-----------------------------------------------------------------------------
(* Every step *)

LEMMA NextTaskInv == TypeOK /\ Inv /\ TaskInv /\ [Next]_vars => TaskInv'
<1> SUFFICES ASSUME TypeOK, Inv, TaskInv, [Next]_vars PROVE TaskInv'
  OBVIOUS
<1>1. 1 .. currentId \subseteq Nat \ {0}
  BY Parts DEF ListType
<1>2. ASSUME NEW l \in Loops, LoopStep(l) PROVE TaskInv'
  BY <1>2, LoopTasks, LoopLaunchesTasks
<1>3. ASSUME NEW l \in Loops, NEW t \in Tasks, TaskStep(l, t) PROVE TaskInv'
  <2>1. CASE Launch(l, t) \/ TaskFails(l, t) \/ WaitTimesOut(l, t)
    BY <2>1, LaunchTasks, TaskFailsTasks, WaitTimesOutTasks
  <2>2. ASSUME NEW a \in Nat \ {0},
               Execute(l, t, a) \/ WorkEnds(l, t, a) \/ WorkFails(l, t, a) \/ TaskDone(l, t, a)
        PROVE  TaskInv'
    BY <2>2, ExecuteTasks, WorkTasks, TaskDoneTasks
  <2> QED
    BY <1>1, <1>3, <2>1, <2>2 DEF TaskStep
<1>4. ASSUME NEW a \in 1 .. currentId, HealthStep(a) PROVE TaskInv'
  BY <1>4, HealthTasks
<1>5. CASE Request
  BY <1>5, RequestTasks, ShutdownTasks
<1>6. CASE UNCHANGED vars
  <2>1. UNCHANGED <<jobs, waiting, work, runningTasks, busy>>
    BY <1>6 DEF vars, poolVars, engineVars
  <2>2. \A c \in Callers : AtMostOnce(jobs, TokenJobs(c))
    BY DEF TaskInv, Places
  <2>3. \A t \in Tasks : /\ AtMostOnce(jobs, LaunchesOf(t))
                         /\ Occurs(jobs, LaunchesOf(t)) => t \notin runningTasks
    BY DEF TaskInv, NewLaunches
  <2> QED
    BY <2>1, <2>2, <2>3, AsideTasks
<1>7. CASE Progress
  BY <1>2, <1>3, <1>4, <1>7 DEF Progress
<1> QED
  BY <1>5, <1>6, <1>7 DEF Next

LEMMA SpecTaskInv == Spec => [](TypeOK /\ TaskInv)
<1>1. Init => TaskInv
  BY InitTaskInv
<1>2. TypeOK /\ Inv /\ TaskInv /\ [Next]_vars => TaskInv'
  BY NextTaskInv
<1> QED
  BY <1>1, <1>2, SpecInv, PTL DEF Spec

-----------------------------------------------------------------------------
(* What it says of agents and tasks *)

LEMMA UnderWayIsActive ==
    ASSUME TypeOK, NEW l \in Loops, NEW t \in Tasks
    PROVE  UnderWay(l, t) <=> Active(<<l, t>>)
<1> DEFINE c == <<l, t>>
<1>1. \A i \in DOMAIN jobs : jobs[i] \in JobType
  <2>1. jobs \in Seq(JobType)
    BY Parts DEF EngineType
  <2> QED
    BY <2>1
<1>2. c[1] = l /\ c[2] = t
  OBVIOUS
<1> HIDE DEF c
<1>3. Queued(l, t) # {} <=> Held(c)
  BY <1>1, <1>2 DEF Queued, Held, Occurs, TokenJobs
<1> QED
  BY <1>3 DEF UnderWay, Active, c

LEMMA Agree ==
    ASSUME TypeOK, TaskInv
    PROVE  AgentsAndTasksAgree
<1>1. ASSUME NEW a \in busy \union ({work[c] : c \in Callers} \ {0})
      PROVE  a \in busy /\ Cardinality({c \in Callers : work[c] = a}) = 1
  <2>1. a \in busy /\ a # 0
    BY DEF TaskInv, BusyWork
  <2>2. PICK c \in Callers : work[c] = a
    BY <2>1 DEF TaskInv, BusyWork
  <2>3. {d \in Callers : work[d] = a} = {c}
    BY <2>1, <2>2 DEF TaskInv, BusyWork
  <2> QED
    BY <2>1, <2>3, FS_Singleton
<1>2. ASSUME NEW t \in Tasks
      PROVE  Cardinality({l \in Loops : UnderWay(l, t)}) = IF t \in runningTasks THEN 1 ELSE 0
  <2>1. \A l \in Loops : <<l, t>> \in Callers /\ <<l, t>>[2] = t
    BY EngineAssumption
  <2>2. CASE t \in runningTasks
    <3>1. PICK c \in Callers : c[2] = t /\ Active(c)
      BY <2>2 DEF TaskInv, Counted
    <3>2. c[1] \in Loops /\ c = <<c[1], t>>
      BY <3>1, EngineAssumption
    <3>3. \A l \in Loops : Active(<<l, t>>) => <<l, t>> = c
      BY <2>1, <3>1 DEF TaskInv, OneLoop
    <3>4. \A l \in Loops : Active(<<l, t>>) => l = c[1]
      BY <3>2, <3>3
    <3>5. {l \in Loops : UnderWay(l, t)} = {c[1]}
      BY <3>1, <3>2, <3>4, UnderWayIsActive
    <3> QED
      BY <2>2, <3>5, FS_Singleton
  <2>3. CASE t \notin runningTasks
    <3>1. \A l \in Loops : ~Active(<<l, t>>)
      BY <2>1, <2>3 DEF TaskInv, Counted
    <3>2. {l \in Loops : UnderWay(l, t)} = {}
      BY <3>1, UnderWayIsActive
    <3> QED
      BY <2>3, <3>2, FS_EmptySet
  <2> QED
    BY <2>2, <2>3
<1> QED
  BY <1>1, <1>2 DEF AgentsAndTasksAgree, BusyAgentsWork, RunningTasksAreUnderWay

(* A busy agent performs one task and no agent works unmarked, and the        *)
(* running tasks are those under way, each in one loop: through agents handed *)
(* out twice, failed batches, timeouts of calls that stay queued, second      *)
(* loops and a shutdown.                                                      *)
THEOREM AgentsAndTasks == Spec => []AgentsAndTasksAgree
BY Agree, SpecTaskInv, PTL

-----------------------------------------------------------------------------
(* LockManager.                                                               *)

(* ------------------------- Type correctness ----------------------------- *)

(* A granted attempt of acquire() keeps the types of what it writes. *)
LEMMA GrantType ==
    ASSUME LockTypeOK,
           NEW m \in Managers, NEW r \in Resources, NEW o \in Owners,
           NEW ttl \in TTLs, Grant(m, r, o, ttl)
    PROVE  /\ store' \in [Resources -> Entry \union {Nothing}]
           /\ timers' \in [Managers -> [Resources -> Nat \union {Nothing}]]
           /\ lease' \in [Owners -> [Resources -> Nat]]
<1>1. now + ttl \in Nat
  BY ConstantsAssumption DEF LockTypeOK
<1>2. PICK count \in Nat :
        store' = [store EXCEPT ![r] = [owner |-> o, expiry |-> now + ttl,
                                       count |-> count]]
  <2>1. CASE Locked(r) /\ store[r].owner = o
    <3>1. store[r] \in Entry
      BY <2>1 DEF LockTypeOK, Locked
    <3>2. store[r].count + 1 \in Nat
      BY <3>1 DEF Entry
    <3> QED BY <2>1, <3>2 DEF Grant
  <2>2. CASE ~(Locked(r) /\ store[r].owner = o)
    BY <2>2 DEF Grant
  <2> QED BY <2>1, <2>2
<1>3. [owner |-> o, expiry |-> now + ttl, count |-> count] \in Entry
  BY <1>1 DEF Entry
<1>4. store' \in [Resources -> Entry \union {Nothing}]
  BY <1>2, <1>3 DEF LockTypeOK
<1> QED BY <1>1, <1>4 DEF LockTypeOK, Grant

(* Going to sleep keeps the type of the pending calls. *)
LEMMA SleepType ==
    ASSUME LockTypeOK,
           NEW m \in Managers, NEW r \in Resources, NEW o \in Owners,
           NEW ttl \in TTLs, NEW left \in Nat, Sleep(m, r, o, ttl, left)
    PROVE  pending' \in [Owners -> Call \union {Nothing}]
<1>1. now + RetryDelay \in Nat
  BY ConstantsAssumption DEF LockTypeOK
<1> QED BY <1>1 DEF LockTypeOK, Sleep, Call

(* Dropping an entry keeps the types of the store and of the timers. *)
LEMMA DropType ==
    ASSUME LockTypeOK, NEW m \in Managers, NEW r \in Resources, Drop(m, r)
    PROVE  /\ store' \in [Resources -> Entry \union {Nothing}]
           /\ timers' \in [Managers -> [Resources -> Nat \union {Nothing}]]
BY DEF LockTypeOK, Drop

LEMMA TypeInductive == LockTypeOK /\ [LockNext]_lockVars => LockTypeOK'
<1> SUFFICES ASSUME LockTypeOK, [LockNext]_lockVars PROVE LockTypeOK'
  OBVIOUS
<1>1. ASSUME NEW m \in Managers, NEW r \in Resources, NEW o \in Owners,
             NEW ttl \in TTLs, NEW n \in Retries, Acquire(m, r, o, ttl, n)
      PROVE  LockTypeOK'
  <2>1. n \in Nat
    BY ConstantsAssumption
  <2>2. CASE Grant(m, r, o, ttl) /\ UNCHANGED pending
    BY <1>1, <2>2, GrantType DEF LockTypeOK, Acquire
  <2>3. CASE Sleep(m, r, o, ttl, n) /\ UNCHANGED <<store, timers, lease>>
    BY <1>1, <2>1, <2>3, SleepType DEF LockTypeOK, Acquire
  <2> QED BY <1>1, <2>2, <2>3 DEF Acquire
<1>2. ASSUME NEW m \in Managers, NEW r \in Resources,
             NEW o \in Named("release"), Release(m, r, o)
      PROVE  LockTypeOK'
  <2> DEFINE e == store[r]
  <2>1. e \in Entry
    BY <1>2 DEF LockTypeOK, Release, Locked
  <2>2. e.owner \in Owners /\ e.expiry \in Nat /\ e.count \in Nat
    BY <2>1 DEF Entry
  <2>3. CASE e.count <= 1
    <3>1. Drop(m, r) /\ callback' \in Callback
      BY <1>2, <2>2, <2>3 DEF Release, Callback
    <3>2. lease' = [lease EXCEPT ![e.owner][r] = 0]
      BY <1>2, <2>2, <2>3 DEF Release
    <3>3. lease' \in [Owners -> [Resources -> Nat]]
      BY <2>2, <3>2 DEF LockTypeOK
    <3> QED BY <1>2, <3>1, <3>3, DropType DEF LockTypeOK, Release
  <2>4. CASE e.count > 1
    <3>1. [e EXCEPT !.count = e.count - 1] \in Entry
      BY <2>1, <2>2, <2>4 DEF Entry
    <3>2. store' = [store EXCEPT ![r] = [e EXCEPT !.count = e.count - 1]]
      BY <1>2, <2>2, <2>4 DEF Release, LockTypeOK
    <3> QED BY <1>2, <2>2, <2>4, <3>1, <3>2 DEF LockTypeOK, Release
  <2> QED BY <2>2, <2>3, <2>4
<1>3. ASSUME NEW m \in Managers, NEW r \in Resources,
             NEW o \in Named("extend"), NEW ttl \in TTLs, Extend(m, r, o, ttl)
      PROVE  LockTypeOK'
  <2>1. now + ttl \in Nat
    BY ConstantsAssumption DEF LockTypeOK
  <2>2. store[r] \in Entry
    BY <1>3 DEF LockTypeOK, Extend, Locked
  <2>3. [store[r] EXCEPT !.expiry = now + ttl] \in Entry
    BY <2>1, <2>2 DEF Entry
  <2>4. store' = [store EXCEPT ![r] = [store[r] EXCEPT !.expiry = now + ttl]]
    BY <1>3 DEF Extend, LockTypeOK
  <2>5. o = Nothing \/ o \in Owners
    BY DEF Named
  <2> QED BY <1>3, <2>1, <2>3, <2>4, <2>5 DEF LockTypeOK, Extend
<1>4. ASSUME NEW m \in Managers, NEW r \in Resources, IsLocked(m, r)
      PROVE  LockTypeOK'
  BY <1>4, DropType DEF LockTypeOK, IsLocked
<1>5. ASSUME NEW m \in Managers, NEW r \in Resources, ForceRelease(m, r)
      PROVE  LockTypeOK'
  <2>1. store[r] \in Entry
    BY <1>5 DEF LockTypeOK, ForceRelease, Locked
  <2>2. store[r].owner \in Owners
    BY <2>1 DEF Entry
  <2>3. callback' \in Callback
    BY <1>5, <2>2 DEF ForceRelease, Callback
  <2> QED BY <1>5, <2>2, <2>3, DropType DEF LockTypeOK, ForceRelease
<1>6. ASSUME NEW m \in Managers, NEW r \in Resources, HandleExpiry(m, r)
      PROVE  LockTypeOK'
  <2>1. callback' \in Callback \union {Nothing}
    <3>1. CASE Locked(r)
      <4>1. store[r] \in Entry
        BY <3>1 DEF LockTypeOK, Locked
      <4> QED BY <1>6, <3>1, <4>1 DEF HandleExpiry, Callback, Entry
    <3>2. CASE ~Locked(r)
      BY <1>6, <3>2 DEF HandleExpiry
    <3> QED BY <3>1, <3>2
  <2> QED BY <1>6, <2>1, DropType DEF LockTypeOK, HandleExpiry
<1>7. ASSUME NEW o \in Owners, Retry(o)
      PROVE  LockTypeOK'
  <2> DEFINE c == pending[o]
  <2>1. c \in Call
    BY <1>7 DEF LockTypeOK, Retry
  <2>2. /\ c.manager \in Managers /\ c.resource \in Resources
        /\ c.ttl \in TTLs /\ c.left \in Nat
    BY <2>1 DEF Call
  <2>3. CASE /\ Grant(c.manager, c.resource, o, c.ttl)
             /\ pending' = [pending EXCEPT ![o] = Nothing]
    BY <1>7, <2>2, <2>3, GrantType DEF LockTypeOK, Retry
  <2>4. CASE /\ c.left > 1
             /\ Sleep(c.manager, c.resource, o, c.ttl, c.left - 1)
             /\ UNCHANGED <<store, timers, lease>>
    <3>1. c.left - 1 \in Nat
      BY <2>2, <2>4
    <3> QED BY <1>7, <2>2, <2>4, <3>1, SleepType DEF LockTypeOK, Retry
  <2>5. CASE /\ pending' = [pending EXCEPT ![o] = Nothing]
             /\ UNCHANGED <<store, timers, lease>>
    BY <1>7, <2>5 DEF LockTypeOK, Retry
  <2> QED BY <1>7, <2>3, <2>4, <2>5 DEF Retry
<1>8. ASSUME NEW m \in Managers, Dispose(m)
      PROVE  LockTypeOK'
  BY <1>8 DEF LockTypeOK, Dispose
<1>9. CASE Tick
  BY <1>9 DEF LockTypeOK, Tick
<1>10. CASE UNCHANGED lockVars
  BY <1>10 DEF LockTypeOK, lockVars
<1> QED BY <1>1, <1>2, <1>3, <1>4, <1>5, <1>6, <1>7, <1>8, <1>9, <1>10 DEF LockNext

(* Every reachable state of the lock manager is well typed. *)
THEOREM LockTypeCorrect == LockSpec => []LockTypeOK
<1>1. LockInit => LockTypeOK
  BY DEF LockInit, LockTypeOK
<1> QED BY <1>1, TypeInductive, PTL DEF LockSpec

(* --------------- Timers, grants and mutual exclusion --------------------- *)
(* Proved for one manager whose callers name the owner when they extend a    *)
(* lock; with several managers over one store it does not hold.              *)

OneManager == \E m \in Managers : Managers = {m}
VerifiedExtend == "extend" \notin Unverified

LockInv == LockTypeOK /\ TimerMatchesEntry /\ LeaseHonoured

(* The two conjuncts after a step that leaves the clock alone and leaves     *)
(* every resource but r alone follow from what the step does to r.           *)
LEMMA OneResource ==
    ASSUME LockInv, LockTypeOK', NEW m, Managers = {m}, NEW r \in Resources,
           now' = now,
           \A q \in Resources \ {r} :
              /\ store'[q] = store[q]
              /\ timers'[m][q] = timers[m][q]
              /\ \A o \in Owners : lease'[o][q] = lease[o][q],
           timers'[m][r] # Nothing =>
              store'[r] # Nothing /\ store'[r].expiry = timers'[m][r],
           ~ExternalStore => (store'[r] # Nothing => timers'[m][r] # Nothing),
           \A o \in Owners : lease'[o][r] > now =>
              /\ store'[r] # Nothing
              /\ store'[r].owner = o /\ store'[r].expiry = lease'[o][r]
    PROVE  LockInv'
<1>1. TimerMatchesEntry'
  BY DEF LockInv, TimerMatchesEntry, Locked, Deadline
<1>2. LeaseHonoured'
  BY DEF LockInv, LeaseHonoured, Locked
<1> QED BY <1>1, <1>2 DEF LockInv

(* A granted attempt of acquire() preserves the invariant: an owner with an  *)
(* unexpired grant holds the lock in the store, so nobody else is granted it.*)
LEMMA GrantSafe ==
    ASSUME LockInv, LockTypeOK', NEW m, Managers = {m}, NEW r \in Resources,
           NEW o \in Owners, NEW ttl \in TTLs, Grant(m, r, o, ttl), now' = now
    PROVE  LockInv'
<1> DEFINE exp == now + ttl
<1>1. exp \in Nat /\ exp > now /\ exp # Nothing
  BY ConstantsAssumption, NoneAssumption DEF LockInv, LockTypeOK
<1>2. PICK e : /\ e.owner = o /\ e.expiry = exp
               /\ store' = [store EXCEPT ![r] = e]
               /\ e = store'[r]
  BY DEF Grant, LockInv, LockTypeOK
<1>3. e # Nothing
  <2>1. \/ e = [owner |-> o, expiry |-> exp, count |-> store[r].count + 1]
        \/ e = [owner |-> o, expiry |-> exp, count |-> 1]
    BY <1>2 DEF Grant, LockInv, LockTypeOK
  <2>2. store'[r] \in Entry \union {Nothing}
    BY DEF LockTypeOK
  <2>3. CASE Locked(r) /\ store[r].owner = o
    <3>1. store[r].count + 1 \in Nat
      BY <2>3 DEF LockInv, LockTypeOK, Entry, Locked
    <3> QED BY <1>1, <2>1, <3>1, NoneAssumption DEF Entry
  <2>4. CASE ~(Locked(r) /\ store[r].owner = o)
    <3>1. e = [owner |-> o, expiry |-> exp, count |-> 1]
      BY <1>2, <2>4 DEF Grant, LockInv, LockTypeOK
    <3> QED BY <1>1, <3>1, NoneAssumption DEF Entry
  <2> QED BY <2>3, <2>4
<1>4. timers'[m][r] = exp /\ lease'[o][r] = exp
  BY DEF Grant, LockInv, LockTypeOK
<1>5. \A q \in Resources \ {r} :
         /\ store'[q] = store[q]
         /\ timers'[m][q] = timers[m][q]
         /\ \A p \in Owners : lease'[p][q] = lease[p][q]
  BY DEF Grant, LockInv, LockTypeOK
<1>6. ASSUME NEW p \in Owners, lease'[p][r] > now
      PROVE  p = o
  <2> SUFFICES ASSUME p # o PROVE FALSE
    OBVIOUS
  <2>1. lease[p][r] > now
    BY <1>6 DEF Grant, LockInv, LockTypeOK
  <2>2. HeldByOther(r, o)
    BY <2>1 DEF LockInv, LeaseHonoured, HeldByOther, Locked
  <2> QED BY <2>2 DEF Grant
<1> QED BY <1>1, <1>2, <1>3, <1>4, <1>5, <1>6, OneResource

(* Dropping an entry preserves the invariant when no owner has an unexpired  *)
(* grant of the resource afterwards.                                         *)
LEMMA DropSafe ==
    ASSUME LockInv, LockTypeOK', NEW m, Managers = {m}, NEW r \in Resources,
           Drop(m, r), now' = now,
           \A o \in Owners : lease'[o][r] <= now,
           \A o \in Owners, q \in Resources \ {r} : lease'[o][q] = lease[o][q]
    PROVE  LockInv'
<1>1. store'[r] = Nothing /\ timers'[m][r] = Nothing
  BY DEF Drop, LockInv, LockTypeOK
<1>2. \A q \in Resources \ {r} :
         store'[q] = store[q] /\ timers'[m][q] = timers[m][q]
  BY DEF Drop, LockInv, LockTypeOK
<1>3. \A o \in Owners : ~(lease'[o][r] > now)
  BY DEF LockInv, LockTypeOK
<1> QED BY <1>1, <1>2, <1>3, OneResource

LEMMA LockInductive ==
    ASSUME OneManager, VerifiedExtend
    PROVE  LockInv /\ [LockNext]_lockVars => LockInv'
<1> SUFFICES ASSUME LockInv, [LockNext]_lockVars PROVE LockInv'
  OBVIOUS
<1> PICK m : Managers = {m}
  BY DEF OneManager
<1>0. LockTypeOK'
  BY TypeInductive DEF LockInv
<1>1. ASSUME NEW r \in Resources, NEW o \in Owners, NEW ttl \in TTLs,
             NEW n \in Retries, Acquire(m, r, o, ttl, n)
      PROVE  LockInv'
  <2>1. CASE Grant(m, r, o, ttl)
    BY <1>0, <1>1, <2>1, GrantSafe DEF Acquire
  <2>2. CASE UNCHANGED <<store, timers, lease>>
    BY <1>0, <1>1, <2>2
       DEF Acquire, LockInv, TimerMatchesEntry, LeaseHonoured, Locked, Deadline
  <2> QED BY <1>1, <2>1, <2>2 DEF Acquire
<1>2. ASSUME NEW r \in Resources, NEW o \in Named("release"), Release(m, r, o)
      PROVE  LockInv'
  <2> DEFINE e == store[r]
  <2>1. e # Nothing /\ e \in Entry /\ e.owner \in Owners /\ e.count \in Nat
    BY <1>2 DEF LockInv, LockTypeOK, Release, Locked, Entry
  <2>2. CASE e.count <= 1
    <3>1. Drop(m, r) /\ lease' = [lease EXCEPT ![e.owner][r] = 0] /\ now' = now
      BY <1>2, <2>1, <2>2 DEF Release
    <3>2. ASSUME NEW p \in Owners PROVE lease'[p][r] <= now
      <4>1. CASE p = e.owner
        BY <2>1, <3>1, <4>1 DEF LockInv, LockTypeOK
      <4>2. CASE p # e.owner
        BY <2>1, <3>1, <4>2 DEF LockInv, LockTypeOK, LeaseHonoured
      <4> QED BY <4>1, <4>2
    <3>3. \A p \in Owners, q \in Resources \ {r} : lease'[p][q] = lease[p][q]
      BY <2>1, <3>1 DEF LockInv, LockTypeOK
    <3> QED BY <1>0, <3>1, <3>2, <3>3, DropSafe
  <2>3. CASE e.count > 1
    <3>1. /\ store' = [store EXCEPT ![r] = [e EXCEPT !.count = e.count - 1]]
          /\ UNCHANGED <<timers, lease, now>>
      BY <1>2, <2>1, <2>3 DEF Release, LockInv, LockTypeOK
    <3>2. /\ store'[r].owner = e.owner /\ store'[r].expiry = e.expiry
          /\ store'[r] # Nothing
      <4>1. [e EXCEPT !.count = e.count - 1] \in Entry
        BY <2>1, <2>3 DEF Entry
      <4> QED BY <2>1, <3>1, <4>1, NoneAssumption DEF LockInv, LockTypeOK, Entry
    <3>3. \A q \in Resources \ {r} : store'[q] = store[q]
      BY <3>1 DEF LockInv, LockTypeOK
    <3>4. timers[m][r] # Nothing => e.expiry = timers[m][r]
      BY DEF LockInv, TimerMatchesEntry, Deadline
    <3>5. ~ExternalStore => timers[m][r] # Nothing
      BY <2>1 DEF LockInv, TimerMatchesEntry, Deadline, Locked
    <3>6. \A p \in Owners : lease[p][r] > now =>
             e.owner = p /\ e.expiry = lease[p][r]
      BY DEF LockInv, LeaseHonoured
    <3> QED BY <1>0, <3>1, <3>2, <3>3, <3>4, <3>5, <3>6, OneResource
  <2> QED BY <2>1, <2>2, <2>3
<1>3. ASSUME NEW r \in Resources, NEW o \in Named("extend"), NEW ttl \in TTLs,
             Extend(m, r, o, ttl)
      PROVE  LockInv'
  <2> DEFINE exp == now + ttl
  <2> DEFINE e == store[r]
  <2>1. exp \in Nat /\ exp # Nothing
    BY ConstantsAssumption, NoneAssumption DEF LockInv, LockTypeOK
  <2>2. o \in Owners /\ o # Nothing
    BY NoneAssumption DEF Named, VerifiedExtend
  <2>3. e # Nothing /\ e \in Entry /\ e.owner = o
    BY <1>3, <2>2 DEF LockInv, LockTypeOK, Extend, Locked
  <2>4. /\ store' = [store EXCEPT ![r] = [e EXCEPT !.expiry = exp]]
        /\ timers' = [timers EXCEPT ![m][r] = exp]
        /\ lease' = [lease EXCEPT ![o][r] = exp]
        /\ now' = now
    BY <1>3, <2>2 DEF Extend, LockInv, LockTypeOK
  <2>5. store'[r] # Nothing /\ store'[r].owner = o /\ store'[r].expiry = exp
    <3>1. [e EXCEPT !.expiry = exp] \in Entry
      BY <2>1, <2>3 DEF Entry
    <3> QED BY <2>3, <2>4, <3>1, NoneAssumption DEF LockInv, LockTypeOK, Entry
  <2>6. timers'[m][r] = exp /\ lease'[o][r] = exp
    BY <2>2, <2>4 DEF LockInv, LockTypeOK
  <2>7. \A q \in Resources \ {r} :
           /\ store'[q] = store[q] /\ timers'[m][q] = timers[m][q]
           /\ \A p \in Owners : lease'[p][q] = lease[p][q]
    BY <2>2, <2>4 DEF LockInv, LockTypeOK
  <2>8. ASSUME NEW p \in Owners, lease'[p][r] > now PROVE p = o
    BY <2>2, <2>3, <2>4, <2>8 DEF LockInv, LockTypeOK, LeaseHonoured
  <2> QED BY <1>0, <2>1, <2>4, <2>5, <2>6, <2>7, <2>8, OneResource
<1>4. ASSUME NEW r \in Resources, IsLocked(m, r) PROVE LockInv'
  <2>1. \A p \in Owners : lease[p][r] <= now
    BY <1>4 DEF IsLocked, Expired, LockInv, LockTypeOK, LeaseHonoured
  <2> QED BY <1>0, <1>4, <2>1, DropSafe DEF IsLocked
<1>5. ASSUME NEW r \in Resources, ForceRelease(m, r) PROVE LockInv'
  <2> DEFINE e == store[r]
  <2>1. e \in Entry /\ e.owner \in Owners
    BY <1>5 DEF LockInv, LockTypeOK, ForceRelease, Locked, Entry
  <2>2. lease' = [lease EXCEPT ![e.owner][r] = 0] /\ now' = now
    BY <1>5 DEF ForceRelease
  <2>3. ASSUME NEW p \in Owners PROVE lease'[p][r] <= now
    <3>1. CASE p = e.owner
      BY <2>1, <2>2, <3>1 DEF LockInv, LockTypeOK
    <3>2. CASE p # e.owner
      BY <2>1, <2>2, <3>2 DEF LockInv, LockTypeOK, LeaseHonoured
    <3> QED BY <3>1, <3>2
  <2>4. \A p \in Owners, q \in Resources \ {r} : lease'[p][q] = lease[p][q]
    BY <2>1, <2>2 DEF LockInv, LockTypeOK
  <2> QED BY <1>0, <1>5, <2>2, <2>3, <2>4, DropSafe DEF ForceRelease
<1>6. ASSUME NEW r \in Resources, HandleExpiry(m, r) PROVE LockInv'
  <2>1. store[r].expiry <= now
    BY <1>6 DEF HandleExpiry, Deadline, LockInv, TimerMatchesEntry
  <2>2. \A p \in Owners : lease[p][r] <= now
    BY <2>1 DEF LockInv, LockTypeOK, LeaseHonoured
  <2> QED BY <1>0, <1>6, <2>2, DropSafe DEF HandleExpiry
<1>7. ASSUME NEW o \in Owners, Retry(o) PROVE LockInv'
  <2> DEFINE c == pending[o]
  <2>1. c \in Call /\ c.manager = m /\ c.resource \in Resources /\ c.ttl \in TTLs
    BY <1>7 DEF LockInv, LockTypeOK, Retry, Call
  <2>2. CASE Grant(c.manager, c.resource, o, c.ttl)
    BY <1>0, <1>7, <2>1, <2>2, GrantSafe DEF Retry
  <2>3. CASE UNCHANGED <<store, timers, lease>>
    BY <1>0, <1>7, <2>3
       DEF Retry, LockInv, TimerMatchesEntry, LeaseHonoured, Locked, Deadline
  <2> QED BY <1>7, <2>2, <2>3 DEF Retry
<1>8. CASE Dispose(m)
  <2>1. CASE ExternalStore
    BY <1>0, <1>8, <2>1
       DEF Dispose, LockInv, TimerMatchesEntry, LeaseHonoured, Locked, Deadline
  <2>2. CASE ~ExternalStore
    <3>1. /\ now' = now
          /\ \A r \in Resources :
               /\ store'[r] = Nothing /\ timers'[m][r] = Nothing
               /\ \A p \in Owners : lease'[p][r] = 0
      BY <1>8, <2>2 DEF Dispose, LockInv, LockTypeOK
    <3>2. TimerMatchesEntry'
      BY <2>2, <3>1 DEF TimerMatchesEntry, Locked, Deadline
    <3>3. \A r \in Resources, p \in Owners : ~(lease'[p][r] > now')
      <4>1. now \in Nat
        BY DEF LockInv, LockTypeOK
      <4> QED BY <3>1, <4>1
    <3>4. LeaseHonoured'
      BY <3>3 DEF LeaseHonoured
    <3> QED BY <1>0, <3>2, <3>4 DEF LockInv
  <2> QED BY <2>1, <2>2
<1>9. CASE Tick
  BY <1>0, <1>9
     DEF Tick, LockInv, LockTypeOK, TimerMatchesEntry, LeaseHonoured, Locked, Deadline
<1>10. CASE UNCHANGED lockVars
  BY <1>0, <1>10
     DEF lockVars, LockInv, TimerMatchesEntry, LeaseHonoured, Locked, Deadline
<1> QED BY <1>1, <1>2, <1>3, <1>4, <1>5, <1>6, <1>7, <1>8, <1>9, <1>10 DEF LockNext

(* With one manager, an expiry timer always stands for the entry in the      *)
(* store, and an unexpired grant is in the store under its owner.            *)
THEOREM LockSafety ==
    ASSUME OneManager, VerifiedExtend
    PROVE  LockSpec => []GrantsAgree
<1>1. LockInit => LockInv
  BY DEF LockInit, LockInv, LockTypeOK, TimerMatchesEntry, LeaseHonoured, Locked, Deadline
<1>2. LockInv => GrantsAgree
  BY DEF LockInv, GrantsAgree
<1> QED BY <1>1, <1>2, LockInductive, PTL DEF LockSpec

(* Two owners never both have an unexpired grant of one resource. *)
THEOREM LockMutualExclusion ==
    ASSUME OneManager, VerifiedExtend
    PROVE  LockSpec => []MutualExclusion
<1>1. GrantsAgree => MutualExclusion
  BY DEF GrantsAgree, LeaseHonoured, MutualExclusion
<1> QED BY <1>1, LockSafety, PTL

(* onExpire is only invoked for a lock whose time has run out. *)
THEOREM LockExpireCallback ==
    ASSUME OneManager, VerifiedExtend
    PROVE  LockSpec => ExpireCallbackIsTrue
<1>1. ASSUME LockInv, [LockNext]_lockVars
      PROVE  [callback' # Nothing /\ callback'.kind = "expire"
                 => Expired(callback'.resource)]_lockVars
  <2> SUFFICES ASSUME LockNext, callback' # Nothing, callback'.kind = "expire"
               PROVE  Expired(callback'.resource)
    BY <1>1
  <2>1. PICK m \in Managers, r \in Resources : HandleExpiry(m, r)
    <3>1. \A m \in Managers, r \in Resources :
            /\ \A o \in Owners, ttl \in TTLs, n \in Retries :
                  ~Acquire(m, r, o, ttl, n)
            /\ \A o \in Named("extend"), ttl \in TTLs : ~Extend(m, r, o, ttl)
            /\ ~IsLocked(m, r)
      BY DEF Acquire, Extend, IsLocked
    <3>2. ASSUME NEW m \in Managers, NEW r \in Resources,
                 NEW o \in Named("release"), Release(m, r, o)
          PROVE  FALSE
      BY <3>2 DEF Release
    <3>3. \A m \in Managers, r \in Resources : ~ForceRelease(m, r)
      BY DEF ForceRelease
    <3>4. \A o \in Owners : ~Retry(o)
      BY DEF Retry
    <3>5. ~Tick /\ \A m \in Managers : ~Dispose(m)
      BY DEF Tick, Dispose
    <3> QED BY <3>1, <3>2, <3>3, <3>4, <3>5 DEF LockNext
  <2>2. Locked(r) /\ callback'.resource = r
    BY <2>1 DEF HandleExpiry
  <2> QED BY <1>1, <2>1, <2>2
        DEF HandleExpiry, Deadline, Expired, LockInv, TimerMatchesEntry
<1>2. LockInit => LockInv
  BY DEF LockInit, LockInv, LockTypeOK, TimerMatchesEntry, LeaseHonoured, Locked, Deadline
<1> QED BY <1>1, <1>2, LockInductive, PTL DEF LockSpec, ExpireCallbackIsTrue
=============================================================================
