--------------------------- MODULE RoutinesProofs ---------------------------
(* Proofs about Routines, for any number of processes, routines, runs and    *)
(* outages: types, and that executions of one routine exclude each other     *)
(* while nobody deletes the lock under them.                                 *)
EXTENDS Routines, TLAPS

(* The parts of TypeOK: the table of runs, that of locks, the processes.     *)
RunsType ==
    /\ status \in [Runs -> {"absent", "pending", "running", "completed", "failed",
                            "cancelled"}]
    /\ routine \in [Runs -> Routines \union {None}]
    /\ active \subseteq Routines

LocksType ==
    /\ lockRun \in [Routines -> Runs \union {None}]
    /\ lockBy \in [Routines -> Instances \union {None}]
    /\ lockAge \in [Routines -> {"held", "expired", "outdated"}]

ProcessType ==
    /\ recent \subseteq Routines
    /\ mode \in [Instances -> {"up", "stopping", "stopped", "down"}]
    /\ listed \in [Instances -> SUBSET Runs]
    /\ firing \in [Instances -> SUBSET Routines]
    /\ outages \in 0 .. MaxOutages

ExecutionType ==
    /\ executing \subseteq Instances \X Runs
    /\ revoked \subseteq Instances \X Runs
    /\ orphans \subseteq Runs

LEMMA Parts ==
    /\ TypeOK <=> RunsType /\ LocksType /\ ProcessType /\ ExecutionType
    /\ TypeOK' <=> RunsType' /\ LocksType' /\ ProcessType' /\ ExecutionType'
  BY Zenon DEF TypeOK, RunsType, LocksType, ProcessType, ExecutionType

-----------------------------------------------------------------------------
(* The invariant.                                                            *)

(* What a process has listed or executes is a row of the table, and a row    *)
(* belongs to a routine.                                                     *)
KnownRuns ==
    /\ \A r \in Runs : status[r] # "absent" => routine[r] \in Routines
    /\ \A i \in Instances : \A r \in listed[i] : status[r] # "absent"
    /\ \A i \in Instances : \A r \in Runs :
          <<i, r>> \in executing => status[r] # "absent"

(* An execution whose lock nobody deleted holds the lock of its routine.     *)
LocksHeld ==
    \A i \in Instances : \A r \in Runs :
        <<i, r>> \in executing /\ <<i, r>> \notin revoked =>
            lockRun[routine[r]] = r /\ lockBy[routine[r]] = i

RoutinesInv == TypeOK /\ KnownRuns /\ LocksHeld /\ RunningIsExecuted

(* A new row is made of an absent one. *)
LEMMA NewRunIsAbsent ==
    ASSUME Absent # {}
    PROVE  NewRun \in Runs /\ status[NewRun] = "absent"
<1>1. NewRun \in Absent
  BY DEF NewRun
<1> QED
  BY <1>1 DEF Absent

(* Steps that change nothing the invariant speaks of but modes and timers.   *)
LEMMA Unmoved ==
    ASSUME RoutinesInv, ProcessType', RunsType',
           UNCHANGED <<status, routine, lockRun, lockBy, executing, revoked, orphans>>,
           lockAge' \in [Routines -> {"held", "expired", "outdated"}],
           \A i \in Instances : \A r \in listed'[i] : status[r] # "absent"
    PROVE  RoutinesInv'
<1>1. LocksType' /\ ExecutionType'
  BY Parts DEF RoutinesInv, LocksType, ExecutionType
<1>2. TypeOK'
  BY <1>1, Parts
<1>3. KnownRuns' /\ LocksHeld' /\ RunningIsExecuted'
  BY DEF RoutinesInv, KnownRuns, LocksHeld, RunningIsExecuted
<1> QED
  BY <1>2, <1>3 DEF RoutinesInv

(* Inserting a row of a routine leaves everything else as it is. *)
LEMMA InsertStep ==
    ASSUME RoutinesInv, NEW q \in Routines, InsertRun(q), ProcessType',
           UNCHANGED <<locks, listed, executing, revoked, orphans>>
    PROVE  RoutinesInv'
<1>1. /\ NewRun \in Runs /\ status[NewRun] = "absent"
      /\ status' = [status EXCEPT ![NewRun] = "pending"]
      /\ routine' = [routine EXCEPT ![NewRun] = q]
      /\ active' = active
  BY NewRunIsAbsent DEF InsertRun
<1> DEFINE new == NewRun
<1> HIDE DEF new
<1>2. /\ new \in Runs /\ status[new] = "absent"
      /\ status' = [status EXCEPT ![new] = "pending"]
      /\ routine' = [routine EXCEPT ![new] = q]
      /\ active' = active
  BY <1>1 DEF new
<1>3. RunsType /\ LocksType /\ ExecutionType
  BY Parts DEF RoutinesInv
<1>4. RunsType'
  BY <1>2, <1>3 DEF RunsType
<1>5. LocksType' /\ ExecutionType'
  BY <1>3 DEF LocksType, ExecutionType, locks
<1>6. KnownRuns'
  BY <1>2, <1>3 DEF RoutinesInv, KnownRuns, RunsType
<1>7. LocksHeld'
  BY <1>2, <1>3 DEF RoutinesInv, KnownRuns, LocksHeld, RunsType, locks
<1>8. RunningIsExecuted'
  BY <1>2, <1>3 DEF RoutinesInv, RunningIsExecuted, RunsType
<1> QED
  BY <1>4, <1>5, <1>6, <1>7, <1>8, Parts DEF RoutinesInv

(* A deletion of locks that revokes the executions that held them.           *)
LEMMA DeleteStep ==
    ASSUME RoutinesInv, NEW Q \in SUBSET Routines, DeleteLocks(Q),
           revoked' = revoked \union Holders(Q),
           executing' \subseteq executing, UNCHANGED routine
    PROVE  LocksType' /\ LocksHeld' /\ revoked' \subseteq Instances \X Runs
<1>1. RunsType /\ LocksType /\ ExecutionType
  BY Parts DEF RoutinesInv
<1>2. LocksType'
  BY <1>1 DEF LocksType, DeleteLocks
<1>3. Holders(Q) \subseteq executing
  BY DEF Holders
<1>4. revoked' \subseteq Instances \X Runs
  BY <1>1, <1>3 DEF ExecutionType
<1>5. ASSUME NEW i \in Instances, NEW r \in Runs,
             <<i, r>> \in executing', <<i, r>> \notin revoked'
      PROVE  lockRun'[routine'[r]] = r /\ lockBy'[routine'[r]] = i
  <2>1. /\ <<i, r>> \in executing /\ <<i, r>> \notin revoked
        /\ <<i, r>> \notin Holders(Q)
    BY <1>5
  <2>2. lockRun[routine[r]] = r /\ lockBy[routine[r]] = i /\ routine[r] \in Routines
    BY <2>1 DEF RoutinesInv, LocksHeld, KnownRuns
  <2>3. routine[r] \notin Q
    BY <2>1, <2>2 DEF Holders
  <2> QED
    BY <2>2, <2>3 DEF DeleteLocks
<1> QED
  BY <1>2, <1>4, <1>5 DEF LocksHeld

(* Locks are deleted, and nothing else of the tables or executions changes.  *)
LEMMA FreeStep ==
    ASSUME RoutinesInv, NEW Q \in SUBSET Routines, DeleteLocks(Q),
           revoked' = revoked \union Holders(Q), ProcessType',
           UNCHANGED <<status, routine, active, listed, executing, orphans>>
    PROVE  RoutinesInv'
<1>1. LocksType' /\ LocksHeld' /\ revoked' \subseteq Instances \X Runs
  BY DeleteStep
<1>2. RunsType' /\ ExecutionType'
  BY <1>1, Parts DEF RoutinesInv, RunsType, ExecutionType
<1>3. KnownRuns' /\ RunningIsExecuted'
  BY DEF RoutinesInv, KnownRuns, RunningIsExecuted
<1> QED
  BY <1>1, <1>2, <1>3, Parts DEF RoutinesInv

-----------------------------------------------------------------------------
(* The steps.                                                                *)

LEMMA ServiceStep ==
    ASSUME RoutinesInv,
           \/ \E q \in Routines : RunRoutine(q) \/ DeleteRoutine(q)
           \/ \E r \in Runs : RetryRun(r) \/ CancelRun(r)
    PROVE  RoutinesInv'
<1> RunsType /\ LocksType /\ ProcessType /\ ExecutionType
  BY Parts DEF RoutinesInv
<1>1. ASSUME NEW q \in Routines, RunRoutine(q) PROVE RoutinesInv'
  <2>1. InsertRun(q) /\ UNCHANGED <<locks, listed, executing, revoked, orphans>>
    BY <1>1 DEF RunRoutine
  <2>2. ProcessType'
    BY <1>1 DEF RunRoutine, ProcessType, cron
  <2> QED
    BY <2>1, <2>2, InsertStep
<1>2. ASSUME NEW q \in Routines, DeleteRoutine(q) PROVE RoutinesInv'
  <2>1. /\ RunsType' /\ ProcessType'
        /\ UNCHANGED <<status, routine, lockRun, lockBy, lockAge, listed, executing,
                       revoked, orphans>>
    BY <1>2 DEF DeleteRoutine, RunsType, ProcessType, cron, locks
  <2> QED
    BY <2>1, Unmoved DEF RoutinesInv, KnownRuns, LocksType
<1>3. ASSUME NEW r \in Runs, RetryRun(r) PROVE RoutinesInv'
  <2>1. /\ InsertRun(routine[r]) /\ status[r] # "absent"
        /\ UNCHANGED <<locks, listed, executing, revoked, orphans>>
    BY <1>3 DEF RetryRun
  <2>2. ProcessType'
    BY <1>3 DEF RetryRun, ProcessType, cron
  <2>3. routine[r] \in Routines
    BY <2>1 DEF RoutinesInv, KnownRuns
  <2> QED
    BY <2>1, <2>2, <2>3, InsertStep
<1>4. ASSUME NEW r \in Runs, CancelRun(r) PROVE RoutinesInv'
  <2>1. /\ status[r] # "absent"
        /\ status' = [status EXCEPT ![r] = "cancelled"]
        /\ UNCHANGED <<routine, active, lockRun, lockBy, lockAge, listed, executing,
                       revoked, orphans>>
    BY <1>4 DEF CancelRun, locks
  <2>2. RunsType' /\ LocksType' /\ ProcessType' /\ ExecutionType'
    BY <1>4, <2>1 DEF CancelRun, RunsType, LocksType, ProcessType, ExecutionType, cron
  <2>3. KnownRuns' /\ LocksHeld' /\ RunningIsExecuted'
    BY <2>1 DEF RoutinesInv, KnownRuns, LocksHeld, RunningIsExecuted, RunsType
  <2> QED
    BY <2>2, <2>3, Parts DEF RoutinesInv
<1> QED
  BY <1>1, <1>2, <1>3, <1>4

LEMMA TimeStep ==
    ASSUME RoutinesInv,
           \E q \in Routines :
              \/ MinutePasses(q) \/ Time(q)
              \/ \E i \in Instances : CronSelect(i, q) \/ CronInsert(i, q)
    PROVE  RoutinesInv'
<1> RunsType /\ LocksType /\ ProcessType /\ ExecutionType
  BY Parts DEF RoutinesInv
<1>1. ASSUME NEW q \in Routines, NEW i \in Instances, CronInsert(i, q)
      PROVE  RoutinesInv'
  <2>1. InsertRun(q) /\ UNCHANGED <<locks, listed, executing, revoked, orphans>>
    BY <1>1 DEF CronInsert
  <2>2. ProcessType'
    BY <1>1 DEF CronInsert, ProcessType
  <2> QED
    BY <2>1, <2>2, InsertStep
<1>2. ASSUME NEW q \in Routines, NEW i \in Instances,
             CronSelect(i, q) \/ MinutePasses(q) \/ Time(q)
      PROVE  RoutinesInv'
  <2>1. /\ RunsType' /\ ProcessType'
        /\ lockAge' \in [Routines -> {"held", "expired", "outdated"}]
        /\ UNCHANGED <<status, routine, lockRun, lockBy, listed, executing,
                       revoked, orphans>>
    BY <1>2 DEF CronSelect, MinutePasses, Time, LockExpires, DatePasses, RunsType,
                LocksType, ProcessType, runs, locks, cron
  <2> QED
    BY <2>1, Unmoved DEF RoutinesInv, KnownRuns
<1>3. ASSUME NEW q \in Routines, MinutePasses(q) \/ Time(q) PROVE RoutinesInv'
  <2>1. /\ RunsType' /\ ProcessType'
        /\ lockAge' \in [Routines -> {"held", "expired", "outdated"}]
        /\ UNCHANGED <<status, routine, lockRun, lockBy, listed, executing,
                       revoked, orphans>>
    BY <1>3 DEF MinutePasses, Time, LockExpires, DatePasses, RunsType,
                LocksType, ProcessType, runs, locks, cron
  <2> QED
    BY <2>1, Unmoved DEF RoutinesInv, KnownRuns
<1> QED
  BY <1>1, <1>2, <1>3

(* A run is started under a lock that nobody had.                            *)
LEMMA ExecuteStep ==
    ASSUME RoutinesInv, NEW i \in Instances, NEW r \in Runs, ExecuteRun(i, r)
    PROVE  RoutinesInv'
<1> RunsType /\ LocksType /\ ProcessType /\ ExecutionType
  BY Parts DEF RoutinesInv
<1>1. /\ r \in listed[i] /\ <<i, r>> \notin executing
      /\ lockRun[routine[r]] = None
      /\ lockRun' = [lockRun EXCEPT ![routine[r]] = r]
      /\ lockBy' = [lockBy EXCEPT ![routine[r]] = i]
      /\ lockAge' = [lockAge EXCEPT ![routine[r]] = "held"]
      /\ listed' = [listed EXCEPT ![i] = @ \ {r}]
      /\ executing' = executing \union {<<i, r>>}
      /\ revoked' = revoked \ {<<i, r>>}
      /\ status' = [status EXCEPT ![r] = "running"]
      /\ UNCHANGED <<routine, active, recent, firing, mode, orphans, outages>>
  BY DEF ExecuteRun, AcquireRunLock, cron
<1>2. status[r] # "absent" /\ routine[r] \in Routines
  BY <1>1 DEF RoutinesInv, KnownRuns
<1>3. RunsType' /\ LocksType' /\ ProcessType' /\ ExecutionType'
  <2>1. RunsType'
    BY <1>1 DEF RunsType
  <2>2. LocksType'
    BY <1>1 DEF LocksType
  <2>3. ProcessType'
    BY <1>1 DEF ProcessType
  <2>4. ExecutionType'
    BY <1>1 DEF ExecutionType
  <2> QED
    BY <2>1, <2>2, <2>3, <2>4
<1>4. KnownRuns'
  BY <1>1, <1>2 DEF RoutinesInv, KnownRuns, RunsType, ProcessType
<1>5. ASSUME NEW j \in Instances, NEW s \in Runs,
             <<j, s>> \in executing', <<j, s>> \notin revoked'
      PROVE  lockRun'[routine'[s]] = s /\ lockBy'[routine'[s]] = j
  <2>1. CASE j = i /\ s = r
    BY <1>1, <1>2, <2>1 DEF LocksType
  <2>2. CASE ~(j = i /\ s = r)
    <3>1. <<j, s>> # <<i, r>>
      BY <2>2
    <3>2. <<j, s>> \in executing /\ <<j, s>> \notin revoked
      BY <1>1, <1>5, <3>1
    <3>3. /\ lockRun[routine[s]] = s /\ lockBy[routine[s]] = j
          /\ routine[s] \in Routines
      BY <3>2 DEF RoutinesInv, LocksHeld, KnownRuns
    <3>4. routine[s] # routine[r]
      BY <1>1, <3>3, RoutinesAssumption
    <3> QED
      BY <1>1, <3>3, <3>4 DEF LocksType
  <2> QED
    BY <2>1, <2>2
<1>6. LocksHeld'
  BY <1>5 DEF LocksHeld
<1>7. RunningIsExecuted'
  BY <1>1 DEF RoutinesInv, RunningIsExecuted, RunsType
<1> QED
  BY <1>3, <1>4, <1>6, <1>7, Parts DEF RoutinesInv

(* An execution ends, and with it the lock of the run.                       *)
LEMMA FinishStep ==
    ASSUME RoutinesInv, NEW i \in Instances, NEW r \in Runs, Finish(i, r)
    PROVE  RoutinesInv'
<1> RunsType /\ LocksType /\ ProcessType /\ ExecutionType
  BY Parts DEF RoutinesInv
<1> DEFINE Q == {q \in Routines : lockRun[q] = r}
<1>1. /\ <<i, r>> \in executing
      /\ executing' = executing \ {<<i, r>>}
      /\ DeleteLocks(Q)
      /\ revoked' = revoked \union Holders(Q)
      /\ UNCHANGED <<routine, active, recent, firing, mode, listed, orphans, outages>>
  BY DEF Finish, ReleaseRunLock, cron
<1>2. PICK result \in {"completed", "failed"} :
        status' = [status EXCEPT ![r] = result]
  BY DEF Finish, Result
<1>3. Q \in SUBSET Routines
  OBVIOUS
<1> HIDE DEF Q
<1>4. LocksType' /\ LocksHeld' /\ revoked' \subseteq Instances \X Runs
  BY <1>1, <1>3, DeleteStep
<1>5. RunsType' /\ ProcessType' /\ ExecutionType'
  BY <1>1, <1>2, <1>4 DEF RunsType, ProcessType, ExecutionType
<1>6. KnownRuns'
  BY <1>1, <1>2 DEF RoutinesInv, KnownRuns, RunsType
<1>7. ASSUME NEW s \in Runs, status'[s] = "running"
      PROVE  s \in orphans' \/ \E j \in Instances : <<j, s>> \in executing'
  <2>1. s # r /\ status[s] = "running"
    BY <1>2, <1>7 DEF RunsType
  <2>2. s \in orphans \/ \E j \in Instances : <<j, s>> \in executing
    BY <2>1 DEF RoutinesInv, RunningIsExecuted
  <2> QED
    BY <1>1, <2>1, <2>2
<1>8. RunningIsExecuted'
  BY <1>7 DEF RunningIsExecuted
<1> QED
  BY <1>4, <1>5, <1>6, <1>8, Parts DEF RoutinesInv

(* A process dies: its locks stay under nobody's name.                       *)
LEMMA CrashStep ==
    ASSUME RoutinesInv, NEW i \in Instances, Crash(i)
    PROVE  RoutinesInv'
<1> RunsType /\ LocksType /\ ProcessType /\ ExecutionType
  BY Parts DEF RoutinesInv
<1>1. /\ outages < MaxOutages /\ outages' = outages + 1
      /\ mode' = [mode EXCEPT ![i] = "down"]
      /\ lockBy' = [q \in Routines |-> IF lockBy[q] = i THEN None ELSE lockBy[q]]
      /\ listed' = [listed EXCEPT ![i] = {}]
      /\ firing' = [firing EXCEPT ![i] = {}]
      /\ executing' = {e \in executing : e[1] # i}
      /\ revoked' = {e \in revoked : e[1] # i}
      /\ orphans' = orphans \union Executing(i)
      /\ UNCHANGED <<status, routine, active, lockRun, lockAge, recent>>
  BY DEF Crash, runs
<1>2. ProcessType'
  BY <1>1, RoutinesAssumption DEF ProcessType
<1>3. RunsType' /\ LocksType' /\ ExecutionType'
  BY <1>1 DEF RunsType, LocksType, ExecutionType, Executing
<1>4. \A j \in Instances : \A r \in Runs :
        /\ <<j, r>> \in executing' <=> <<j, r>> \in executing /\ j # i
        /\ <<j, r>> \in revoked' <=> <<j, r>> \in revoked /\ j # i
  BY <1>1
<1>5. KnownRuns'
  BY <1>1, <1>4 DEF RoutinesInv, KnownRuns, ProcessType
<1>6. LocksHeld'
  BY <1>1, <1>4 DEF RoutinesInv, KnownRuns, LocksHeld
<1>7. RunningIsExecuted'
  BY <1>1, <1>4 DEF RoutinesInv, RunningIsExecuted, Executing
<1> QED
  BY <1>2, <1>3, <1>5, <1>6, <1>7, Parts DEF RoutinesInv

LEMMA ProcessStep ==
    ASSUME RoutinesInv, NEW i \in Instances,
           \/ Poll(i) \/ DeferRuns(i) \/ CleanupExpiredLocks(i)
           \/ Stop(i) \/ Start(i) \/ Restart(i)
           \/ \E r \in Runs : SkipRun(i, r)
           \/ \E wait \in BOOLEAN : Stopped(i, wait)
    PROVE  RoutinesInv'
<1> RunsType /\ LocksType /\ ProcessType /\ ExecutionType
  BY Parts DEF RoutinesInv
<1>1. CASE DeferRuns(i) \/ Stop(i) \/ Start(i) \/ Restart(i) \/ \E r \in Runs : SkipRun(i, r)
  <2>1. UNCHANGED <<status, routine, active, lockRun, lockBy, lockAge, recent, firing,
                    executing, revoked, orphans>>
    BY <1>1 DEF DeferRuns, Stop, Start, Restart, SkipRun, runs, locks, cron
  <2>2. \/ UNCHANGED <<mode, outages>> /\ \E r \in Runs :
              listed' \in {[listed EXCEPT ![i] = {}], [listed EXCEPT ![i] = @ \ {r}]}
        \/ /\ UNCHANGED listed
           /\ \E m \in {"stopping", "up"} : mode' = [mode EXCEPT ![i] = m]
           /\ \/ outages' = outages
              \/ outages < MaxOutages /\ outages' = outages + 1
    <3>1. CASE DeferRuns(i)
      BY <3>1 DEF DeferRuns, ProcessType
    <3>2. CASE \E r \in Runs : SkipRun(i, r)
      BY <3>2 DEF SkipRun
    <3>3. CASE Stop(i) \/ Start(i) \/ Restart(i)
      BY <3>3 DEF Stop, Start, Restart
    <3> QED
      BY <1>1, <3>1, <3>2, <3>3
  <2>3. \A j \in Instances : listed'[j] \subseteq listed[j]
    BY <2>2 DEF ProcessType
  <2>4. ProcessType'
    BY <2>1, <2>2, RoutinesAssumption DEF ProcessType
  <2>5. RunsType'
    BY <2>1 DEF RunsType
  <2> QED
    BY <2>1, <2>3, <2>4, <2>5, Unmoved DEF RoutinesInv, KnownRuns, LocksType
<1>2. CASE Poll(i)
  <2>1. PICK some \in SUBSET Pending : listed' = [listed EXCEPT ![i] = some]
    BY <1>2 DEF Poll
  <2>2. UNCHANGED <<runs, locks, cron, mode, executing, revoked, orphans, outages>>
    BY <1>2 DEF Poll
  <2>3. RunsType' /\ ProcessType'
    BY <2>1, <2>2 DEF RunsType, ProcessType, Pending, runs, cron
  <2>4. \A j \in Instances : \A r \in listed'[j] : status[r] # "absent"
    BY <2>1 DEF Pending, RoutinesInv, KnownRuns, ProcessType
  <2> QED
    BY <2>2, <2>3, <2>4, Unmoved DEF LocksType, runs, locks
<1>3. CASE CleanupExpiredLocks(i)
  <2> DEFINE Q == {q \in Routines : lockRun[q] # None /\ lockAge[q] = "outdated"}
  <2>1. /\ DeleteLocks(Q) /\ revoked' = revoked \union Holders(Q)
        /\ UNCHANGED <<runs, cron, mode, listed, executing, orphans, outages>>
    BY <1>3 DEF CleanupExpiredLocks
  <2>2. Q \in SUBSET Routines
    OBVIOUS
  <2> HIDE DEF Q
  <2>3. ProcessType'
    BY <2>1 DEF ProcessType, cron
  <2> QED
    BY <2>1, <2>2, <2>3, FreeStep DEF runs
<1>4. CASE \E wait \in BOOLEAN : Stopped(i, wait)
  <2> DEFINE Q == {q \in Routines : lockRun[q] # None /\ lockBy[q] = i}
  <2>1. /\ DeleteLocks(Q) /\ revoked' = revoked \union Holders(Q)
        /\ mode' = [mode EXCEPT ![i] = "stopped"]
        /\ UNCHANGED <<runs, cron, listed, executing, orphans, outages>>
    BY <1>4 DEF Stopped
  <2>2. Q \in SUBSET Routines
    OBVIOUS
  <2> HIDE DEF Q
  <2>3. ProcessType'
    BY <2>1 DEF ProcessType, cron
  <2> QED
    BY <2>1, <2>2, <2>3, FreeStep DEF runs
<1> QED
  BY <1>1, <1>2, <1>3, <1>4

LEMMA RoutinesInductive == RoutinesInv /\ [Next]_vars => RoutinesInv'
<1> SUFFICES ASSUME RoutinesInv, [Next]_vars
             PROVE  RoutinesInv'
  OBVIOUS
<1>1. CASE Next
  BY <1>1, ServiceStep, TimeStep, ExecuteStep, FinishStep, CrashStep, ProcessStep
     DEF Next, Execution
<1>2. CASE UNCHANGED vars
  <2>1. UNCHANGED <<status, routine, active, lockRun, lockBy, lockAge, recent, firing,
                    mode, listed, executing, revoked, orphans, outages>>
    BY <1>2 DEF vars, runs, locks, cron
  <2>2. RunsType' /\ ProcessType' /\ lockAge' \in [Routines -> {"held", "expired", "outdated"}]
    BY <2>1, Parts DEF RoutinesInv, RunsType, LocksType, ProcessType
  <2> QED
    BY <2>1, <2>2, Unmoved DEF RoutinesInv, KnownRuns
<1> QED
  BY <1>1, <1>2

LEMMA RoutinesInitially == Init => RoutinesInv
<1> SUFFICES ASSUME Init PROVE RoutinesInv
  OBVIOUS
<1>1. TypeOK
  BY RoutinesAssumption DEF Init, TypeOK
<1>2. KnownRuns /\ LocksHeld /\ RunningIsExecuted
  BY DEF Init, KnownRuns, LocksHeld, RunningIsExecuted
<1> QED
  BY <1>1, <1>2 DEF RoutinesInv

-----------------------------------------------------------------------------
(* The tables and the processes keep their types, for any number of          *)
(* processes, routines, runs and outages.                                    *)
THEOREM RoutinesTypeCorrect == Spec => []TypeOK
<1>1. RoutinesInv => TypeOK
  BY DEF RoutinesInv
<1> QED
  BY <1>1, RoutinesInitially, RoutinesInductive, PTL DEF Spec

(* Two executions of one routine, in whatever processes, overlap only when   *)
(* the lock of one of them was deleted under it.                             *)
THEOREM RoutinesExcludeEachOther == Spec => []OneExecutionPerRoutine
<1>1. RoutinesInv => OneExecutionPerRoutine
  <2> SUFFICES ASSUME RoutinesInv, NEW d \in executing \ revoked,
                      NEW e \in executing \ revoked, routine[d[2]] = routine[e[2]]
               PROVE  d = e
    BY DEF OneExecutionPerRoutine
  <2>1. ExecutionType
    BY Parts DEF RoutinesInv
  <2>2. /\ d = <<d[1], d[2]>> /\ d[1] \in Instances /\ d[2] \in Runs
        /\ e = <<e[1], e[2]>> /\ e[1] \in Instances /\ e[2] \in Runs
    BY <2>1 DEF ExecutionType
  <2>3. /\ lockRun[routine[d[2]]] = d[2] /\ lockBy[routine[d[2]]] = d[1]
        /\ lockRun[routine[e[2]]] = e[2] /\ lockBy[routine[e[2]]] = e[1]
    BY <2>2 DEF RoutinesInv, LocksHeld
  <2> QED
    BY <2>2, <2>3
<1> QED
  BY <1>1, RoutinesInitially, RoutinesInductive, PTL DEF Spec

(* A run shown as running is executed by a process, or was by one that died. *)
THEOREM RoutinesRunningIsExecuted == Spec => []RunningIsExecuted
<1>1. RoutinesInv => RunningIsExecuted
  BY DEF RoutinesInv
<1> QED
  BY <1>1, RoutinesInitially, RoutinesInductive, PTL DEF Spec
=============================================================================
