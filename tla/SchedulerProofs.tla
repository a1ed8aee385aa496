--------------------------- MODULE SchedulerProofs ---------------------------
(* Proofs about Scheduler, for any number of tasks, runs and retries.         *)
(*                                                                            *)
(* Neither TypeOK nor TasksAndRunsAgree is inductive.  The order has to list  *)
(* each id once for the loop over it to tell every dependent; a timeout that  *)
(* is pending has to belong to a task without runs, or a run of an earlier    *)
(* task of the same id could end under it; and what a dependent still waits   *)
(* for must not hold a dependency that has already completed, or the last one *)
(* would not start it.  TasksFit, TriggersFit and WaitingFits say so.         *)
(*                                                                            *)
(* A success tells its dependents in a loop whose rounds start tasks, and so  *)
(* change what later rounds read.  Follows is what all rounds have in common; *)
(* it is reflexive and transitive, so it holds between any two rounds.        *)
EXTENDS Scheduler, FiniteSetTheorems, WellFoundedInduction, TLAPS

(* The order lists the map, ...                                               *)
OrderFits ==
    /\ order \in Seq(Ids)
    /\ Scheduled = {order[i] : i \in 1 .. Len(order)}

(* ... each id once.                                                          *)
OrderDistinct == \A i, j \in 1 .. Len(order) : order[i] = order[j] => i = j

(* A dependent waits only for dependencies that have not completed since it   *)
(* was scheduled: the two lists the notification goes by.                     *)
WaitingFits ==
    \A id \in Scheduled :
        /\ tasks[id].type # "dependency" => tasks[id].dependencies = {}
        /\ id \notin tasks[id].dependencies
        /\ seen[id] \subseteq tasks[id].dependencies
        /\ tasks[id].waitingFor \subseteq tasks[id].dependencies \ seen[id]

TasksFit ==
    /\ tasks \in [Ids -> Task \union {None}]
    /\ seen \in [Ids -> SUBSET Ids]
    /\ OrderFits /\ OrderDistinct /\ WaitingFits

(* A run that sleeps has an attempt left.                                     *)
RunsFit ==
    /\ IsABag(runs) /\ Runs \subseteq Run
    /\ \A r \in Runs : r.phase = "sleeping" => r.attempt <= MaxRetries

(* A timeout belongs to a one-shot task that was never started and has no     *)
(* run, not even of an earlier task of its id; a cron job to a recurring one. *)
TriggersFit ==
    /\ timeouts \subseteq Scheduled
    /\ \A id \in timeouts :
          /\ tasks[id].type = "once" /\ tasks[id].status = "scheduled"
          /\ \A r \in Runs : r.id # id
    /\ cronJobs \in [Ids -> {"started", "stopped", None}]
    /\ \A id \in Ids : cronJobs[id] # None => id \in Scheduled /\ tasks[id].type = "cron"
    /\ \A id \in Ids : cronJobs[id] = "started"
                           => tasks[id].status \notin {"cancelled", "paused"}

RunningHasRun ==
    \A id \in Scheduled : tasks[id].status = "running" => \E r \in Runs : r.id = id

Inv == TasksFit /\ RunsFit /\ TriggersFit /\ RunningHasRun

-----------------------------------------------------------------------------
(* Bags and worlds                                                            *)

(* Induction over the natural numbers, stated of a set: what holds of 0 and   *)
(* of the successor of each number it holds of is Nat.                        *)
LEMMA Induction ==
    ASSUME NEW T, 0 \in T, \A n \in Nat : n \in T => n + 1 \in T
    PROVE  Nat \subseteq T
<1> SUFFICES ASSUME Nat \ T # {} PROVE FALSE
  OBVIOUS
<1> DEFINE R == {ss \in Nat \X Nat : ss[1] < ss[2]}
<1>1. IsWellFoundedOn(R, Nat)
  BY NatLessThanWellFounded DEF OpToRel
<1>2. \A x, y \in Nat : x < y => <<x, y>> \in R
  OBVIOUS
<1> HIDE DEF R
<1>3. PICK x \in Nat \ T : \A y \in Nat \ T : ~ (<<y, x>> \in R)
  <2> DEFINE U == Nat \ T
  <2>1. U \subseteq Nat /\ U # {}
    OBVIOUS
  <2> HIDE DEF U
  <2>2. \E x \in U : \A y \in U : ~ (<<y, x>> \in R)
     BY <1>1, <2>1, WFMin
  <2> QED BY <2>2 DEF U
<1>4. x # 0 /\ x \in Nat
  OBVIOUS
<1>5. x - 1 \in Nat /\ x - 1 < x /\ (x - 1) + 1 = x
  BY <1>4
<1>6. x - 1 \in Nat \ T
  BY <1>5, <1>4
<1> QED BY <1>3, <1>6, <1>5, <1>2

(* A bag with one more.                                                       *)
LEMMA AddOne ==
    ASSUME NEW B, IsABag(B), NEW r, NEW C, C = B (+) SetToBag({r})
    PROVE  /\ IsABag(C) /\ BagToSet(C) = BagToSet(B) \union {r}
           /\ Copies(r, C) = Copies(r, B) + 1
           /\ \A x : x # r => Copies(x, C) = Copies(x, B)
BY DEF IsABag, BagToSet, SetToBag, (+), Copies

(* A bag with one less.                                                       *)
LEMMA DropOne ==
    ASSUME NEW B, IsABag(B), NEW r \in BagToSet(B), NEW C, C = B (-) SetToBag({r})
    PROVE  /\ IsABag(C) /\ BagToSet(C) \subseteq BagToSet(B)
           /\ Copies(r, C) = Copies(r, B) - 1
           /\ \A x : x # r => Copies(x, C) = Copies(x, B)
BY DEF IsABag, BagToSet, SetToBag, (-), Copies

(* How often a run is in a bag.                                               *)
LEMMA CopiesCount ==
    ASSUME NEW B, IsABag(B)
    PROVE  \A x : Copies(x, B) \in Nat /\ (x \in BagToSet(B) <=> Copies(x, B) > 0)
BY DEF IsABag, BagToSet, Copies

(* What #executeTask() and #notifyDependents() take and return.               *)
World(w) ==
    /\ w = [tasks |-> w.tasks, runs |-> w.runs]
    /\ w.tasks \in [Ids -> Task \union {None}]
    /\ IsABag(w.runs) /\ BagToSet(w.runs) \subseteq Run

(* World w may be reached from v while the dependents of c are told of its    *)
(* completion: keys, types and dependencies stay, the lists shrink, no status *)
(* is set but "running", and of the runs only first attempts are added, of    *)
(* dependents of c whose dependencies were completed in v.                    *)
Follows(v, w, c) ==
    /\ \A id \in Ids : w.tasks[id] = None <=> v.tasks[id] = None
    /\ \A id \in Ids : v.tasks[id] # None =>
          /\ w.tasks[id].type = v.tasks[id].type
          /\ w.tasks[id].dependencies = v.tasks[id].dependencies
          /\ w.tasks[id].waitingFor \subseteq v.tasks[id].waitingFor
          /\ w.tasks[id].status # v.tasks[id].status =>
                /\ w.tasks[id].status = "running" /\ c \in v.tasks[id].dependencies
                /\ Copies(FirstAttempt(id), w.runs) > 0
    /\ \A x : Copies(x, w.runs) >= Copies(x, v.runs)
    /\ \A x : Copies(x, w.runs) > Copies(x, v.runs) =>
          \E id \in Ids :
             /\ x = FirstAttempt(id) /\ v.tasks[id] # None
             /\ c \in v.tasks[id].dependencies
             /\ CheckDependencies(v.tasks[id], v.tasks)

(* What #executeTask() starts is a run.                                       *)
LEMMA FirstAttemptType == \A id \in Ids : FirstAttempt(id) \in Run
BY SchedulerAssumption DEF FirstAttempt, Run

(* A world follows itself ...                                                 *)
LEMMA FollowsItself ==
    ASSUME NEW w, World(w), NEW c
    PROVE  Follows(w, w, c)
<1>1. \A x : Copies(x, w.runs) \in Nat
  BY CopiesCount DEF World
<1> QED BY <1>1 DEF Follows

(* ... and what follows a world follows what that one followed.               *)
LEMMA FollowsOn ==
    ASSUME NEW u, NEW v, NEW w, NEW c, World(u), World(v), World(w),
           Follows(u, v, c), Follows(v, w, c)
    PROVE  Follows(u, w, c)
<1>1. \A x : Copies(x, u.runs) \in Nat /\ Copies(x, v.runs) \in Nat /\ Copies(x, w.runs) \in Nat
  BY CopiesCount DEF World
<1>2. \A id \in Ids : w.tasks[id] = None <=> u.tasks[id] = None
  BY DEF Follows
<1>3. ASSUME NEW id \in Ids, u.tasks[id] # None
      PROVE  /\ w.tasks[id].type = u.tasks[id].type
             /\ w.tasks[id].dependencies = u.tasks[id].dependencies
             /\ w.tasks[id].waitingFor \subseteq u.tasks[id].waitingFor
             /\ w.tasks[id].status # u.tasks[id].status =>
                   /\ w.tasks[id].status = "running" /\ c \in u.tasks[id].dependencies
                   /\ Copies(FirstAttempt(id), w.runs) > 0
  <2>1. v.tasks[id] # None
    BY <1>3 DEF Follows
  <2>2. Copies(FirstAttempt(id), w.runs) >= Copies(FirstAttempt(id), v.runs)
    BY DEF Follows
  <2>3. /\ Copies(FirstAttempt(id), w.runs) \in Nat
        /\ Copies(FirstAttempt(id), v.runs) \in Nat
    BY <1>1
  <2> HIDE DEF Copies
  <2> QED BY <1>3, <2>1, <2>2, <2>3 DEF Follows
<1>4. \A x : Copies(x, w.runs) >= Copies(x, u.runs)
  BY <1>1 DEF Follows
<1>5. ASSUME NEW x, Copies(x, w.runs) > Copies(x, u.runs)
      PROVE  \E id \in Ids :
             /\ x = FirstAttempt(id) /\ u.tasks[id] # None
             /\ c \in u.tasks[id].dependencies
             /\ CheckDependencies(u.tasks[id], u.tasks)
  <2>1. CASE Copies(x, v.runs) > Copies(x, u.runs)
    BY <2>1 DEF Follows
  <2>2. CASE Copies(x, w.runs) > Copies(x, v.runs)
    <3>1. PICK id \in Ids :
             /\ x = FirstAttempt(id) /\ v.tasks[id] # None
             /\ c \in v.tasks[id].dependencies
             /\ CheckDependencies(v.tasks[id], v.tasks)
      BY <2>2 DEF Follows
    <3>2. /\ u.tasks[id] # None
          /\ u.tasks[id].dependencies = v.tasks[id].dependencies
      BY <3>1 DEF Follows
    <3>3. ASSUME NEW dep \in u.tasks[id].dependencies
          PROVE  u.tasks[dep] # None /\ u.tasks[dep].status = "completed"
      <4>1. dep \in Ids
        BY <3>2 DEF World, Task
      <4>2. v.tasks[dep] # None /\ v.tasks[dep].status = "completed"
        BY <3>1, <3>2 DEF CheckDependencies
      <4> QED BY <4>1, <4>2 DEF Follows
    <3> QED BY <3>1, <3>2, <3>3 DEF CheckDependencies
  <2> QED BY <1>1, <1>5, <2>1, <2>2
<1> QED BY <1>2, <1>3, <1>4, <1>5 DEF Follows

(* #executeTask() of a dependent of c leaves a world that follows, and starts *)
(* the dependent when its dependencies have completed.                        *)
LEMMA ExecuteFollows ==
    ASSUME NEW w, World(w), NEW id \in Ids, w.tasks[id] # None,
           w.tasks[id].type = "dependency", NEW c \in w.tasks[id].dependencies
    PROVE  /\ World(Execute(w, id)) /\ Follows(w, Execute(w, id), c)
           /\ CheckDependencies(w.tasks[id], w.tasks) =>
                 Copies(FirstAttempt(id), Execute(w, id).runs) > Copies(FirstAttempt(id), w.runs)
<1>1. CASE ~CheckDependencies(w.tasks[id], w.tasks)
  <2>1. Execute(w, id) = w
    BY <1>1 DEF Execute
  <2> QED BY <1>1, <2>1, FollowsItself
<1>2. CASE CheckDependencies(w.tasks[id], w.tasks)
  <2> DEFINE T == [w.tasks EXCEPT ![id].status = "running"]
             R == w.runs (+) SetToBag({FirstAttempt(id)})
  <2>1. Execute(w, id) = [tasks |-> T, runs |-> R]
    BY <1>2 DEF Execute
  <2>2. /\ IsABag(R) /\ BagToSet(R) \subseteq Run
        /\ Copies(FirstAttempt(id), R) = Copies(FirstAttempt(id), w.runs) + 1
        /\ \A x : x # FirstAttempt(id) => Copies(x, R) = Copies(x, w.runs)
    <3>1. IsABag(w.runs) /\ R = w.runs (+) SetToBag({FirstAttempt(id)})
      BY DEF World
    <3> HIDE DEF R
    <3>2. BagToSet(R) = BagToSet(w.runs) \union {FirstAttempt(id)}
      BY <3>1, AddOne
    <3> QED BY <3>1, <3>2, AddOne, FirstAttemptType DEF World
  <2>3. \A x : Copies(x, w.runs) \in Nat
    BY CopiesCount DEF World
  <2>4. w.tasks[id] \in Task
    BY DEF World
  <2>5. /\ T \in [Ids -> Task \union {None}]
        /\ T[id] = [w.tasks[id] EXCEPT !.status = "running"]
        /\ \A k \in Ids : k # id => T[k] = w.tasks[k]
        /\ T[id] \in Task
    BY <2>4 DEF World, Task, Statuses
  <2>6. /\ T[id].type = w.tasks[id].type /\ T[id].status = "running"
        /\ T[id].dependencies = w.tasks[id].dependencies
        /\ T[id].waitingFor = w.tasks[id].waitingFor
        /\ T[id] # None
    BY <2>4, <2>5, SchedulerAssumption DEF Task
  <2> HIDE DEF T, R
  <2>7. World(Execute(w, id))
    BY <2>1, <2>2, <2>5 DEF World
  <2>8. Follows(w, [tasks |-> T, runs |-> R], c)
    <3>1. \A k \in Ids : T[k] = None <=> w.tasks[k] = None
      BY <2>5, <2>6
    <3>2. ASSUME NEW k \in Ids, w.tasks[k] # None
          PROVE  /\ T[k].type = w.tasks[k].type
                 /\ T[k].dependencies = w.tasks[k].dependencies
                 /\ T[k].waitingFor \subseteq w.tasks[k].waitingFor
                 /\ T[k].status # w.tasks[k].status =>
                       /\ T[k].status = "running" /\ c \in w.tasks[k].dependencies
                       /\ Copies(FirstAttempt(k), R) > 0
      <4>1. CASE k = id
        <5>1. Copies(FirstAttempt(id), R) > 0
          BY <2>2, <2>3
        <5> QED BY <4>1, <5>1, <2>6
      <4>2. CASE k # id
        <5>1. T[k] = w.tasks[k]
          BY <4>2, <2>5
        <5> QED BY <5>1
      <4> QED BY <4>1, <4>2
    <3>3. \A x : Copies(x, R) >= Copies(x, w.runs)
      BY <2>2, <2>3
    <3>4. \A x : Copies(x, R) > Copies(x, w.runs) => x = FirstAttempt(id)
      BY <2>2, <2>3
    <3> QED BY <1>2, <3>1, <3>2, <3>3, <3>4 DEF Follows
  <2> QED BY <2>1, <2>2, <2>3, <2>7, <2>8
<1> QED BY <1>1, <1>2

(* The loop looks at this task when c has completed.                          *)
Told(w, c, id) == w.tasks[id].type = "dependency" /\ c \in w.tasks[id].dependencies

(* One round of the loop of #notifyDependents(): c leaves the list of a       *)
(* dependent of c, and one that waits for nothing else is started.            *)
LEMMA NotifyFollows ==
    ASSUME NEW w, World(w), NEW id \in Ids, w.tasks[id] # None, NEW c
    PROVE  /\ World(Notify(w, c, id)) /\ Follows(w, Notify(w, c, id), c)
           /\ Told(w, c, id) => c \notin Notify(w, c, id).tasks[id].waitingFor
           /\ /\ Told(w, c, id) /\ w.tasks[id].waitingFor \subseteq {c}
              /\ CheckDependencies(w.tasks[id], w.tasks)
              => Copies(FirstAttempt(id), Notify(w, c, id).runs) > Copies(FirstAttempt(id), w.runs)
<1>1. CASE ~Told(w, c, id)
  <2>1. Notify(w, c, id) = w
    BY <1>1 DEF Notify, Told
  <2> QED BY <1>1, <2>1, FollowsItself
<1>2. CASE Told(w, c, id)
  <2> DEFINE left == w.tasks[id].waitingFor \ {c}
             T == [w.tasks EXCEPT ![id].waitingFor = left]
             told == [tasks |-> T, runs |-> w.runs]
  <2>1. [w EXCEPT !.tasks[id].waitingFor = left] = told
    <3>1. w = [tasks |-> w.tasks, runs |-> w.runs]
      BY DEF World
    <3> QED BY <3>1
  <2>2. Notify(w, c, id) = IF left = {} THEN Execute(told, id) ELSE told
    BY <1>2, <2>1 DEF Notify, Told
  <2>3. w.tasks[id] \in Task
    BY DEF World
  <2>4. /\ T \in [Ids -> Task \union {None}]
        /\ T[id] = [w.tasks[id] EXCEPT !.waitingFor = left]
        /\ \A k \in Ids : k # id => T[k] = w.tasks[k]
        /\ T[id] \in Task
    BY <2>3 DEF World, Task
  <2>5. /\ T[id].type = w.tasks[id].type /\ T[id].status = w.tasks[id].status
        /\ T[id].dependencies = w.tasks[id].dependencies
        /\ T[id].waitingFor = left
        /\ T[id] # None
    BY <2>3, <2>4, SchedulerAssumption DEF Task
  <2>6. \A x : Copies(x, w.runs) \in Nat
    BY CopiesCount DEF World
  <2> HIDE DEF T
  <2>7. World(told)
    BY <2>4 DEF World
  <2>8. Follows(w, told, c)
    <3>1. \A k \in Ids : T[k] = None <=> w.tasks[k] = None
      BY <2>4, <2>5
    <3>2. ASSUME NEW k \in Ids, w.tasks[k] # None
          PROVE  /\ T[k].type = w.tasks[k].type
                 /\ T[k].dependencies = w.tasks[k].dependencies
                 /\ T[k].waitingFor \subseteq w.tasks[k].waitingFor
                 /\ T[k].status = w.tasks[k].status
      <4>1. CASE k = id
        BY <4>1, <2>5
      <4>2. CASE k # id
        <5>1. T[k] = w.tasks[k]
          BY <4>2, <2>4
        <5> QED BY <5>1
      <4> QED BY <4>1, <4>2
    <3> QED BY <3>1, <3>2, <2>6 DEF Follows
  <2>9. CheckDependencies(w.tasks[id], w.tasks) => CheckDependencies(told.tasks[id], told.tasks)
    <3> SUFFICES ASSUME CheckDependencies(w.tasks[id], w.tasks), NEW dep \in T[id].dependencies
                 PROVE  T[dep] # None /\ T[dep].status = "completed"
      BY DEF CheckDependencies
    <3>1. w.tasks[dep] # None /\ w.tasks[dep].status = "completed" /\ dep \in Ids
      BY <2>3, <2>5 DEF CheckDependencies, Task
    <3> QED BY <3>1, <2>4, <2>5
  <2>10. /\ told.tasks[id] # None /\ told.tasks[id].type = "dependency"
         /\ c \in told.tasks[id].dependencies
         /\ told.tasks = T /\ told.runs = w.runs
    BY <1>2, <2>5 DEF Told
  <2>11. c \notin T[id].waitingFor
    BY <2>5
  <2> HIDE DEF told
  <2>12. CASE left = {}
    <3>1. Notify(w, c, id) = Execute(told, id)
      BY <2>2, <2>12
    <3>2. World(Execute(told, id)) /\ Follows(told, Execute(told, id), c)
      BY <2>7, <2>10, ExecuteFollows
    <3>3. CheckDependencies(told.tasks[id], told.tasks) =>
                 Copies(FirstAttempt(id), Execute(told, id).runs) > Copies(FirstAttempt(id), told.runs)
      BY <2>7, <2>10, ExecuteFollows
    <3>4. Follows(w, Execute(told, id), c)
      BY <3>2, <2>7, <2>8, FollowsOn
    <3>5. c \notin Execute(told, id).tasks[id].waitingFor
      BY <3>2, <2>10, <2>11 DEF Follows
    <3> QED BY <3>1, <3>2, <3>3, <3>4, <3>5, <2>9, <2>10
  <2>13. CASE left # {}
    <3>1. Notify(w, c, id) = told
      BY <2>2, <2>13
    <3>2. ~(w.tasks[id].waitingFor \subseteq {c})
      BY <2>13
    <3> QED BY <3>1, <3>2, <2>7, <2>8, <2>10, <2>11
  <2> QED BY <2>12, <2>13
<1> QED BY <1>1, <1>2

-----------------------------------------------------------------------------
(* The notification of dependents                                             *)

(* The loop of #notifyDependents() as a sequence of worlds, one per task of   *)
(* the map.                                                                   *)
LEMMA NotifyDependentsUnfolds ==
    ASSUME order \in Seq(Ids), NEW w, NEW c
    PROVE  \E f : /\ f[0] = w /\ f[Len(order)] = NotifyDependents(w, c)
                  /\ \A i \in 1 .. Len(order) : f[i] = Notify(f[i - 1], c, order[i])
<1>1. \E f : f = [i \in 0 .. Len(order) |-> IF i = 0 THEN w ELSE Notify(f[i - 1], c, order[i])]
  <2> DEFINE T == {k \in Nat : \E f : f = [i \in 0 .. k |-> IF i = 0 THEN w
                      ELSE Notify(f[i - 1], c, order[i])]}
  <2>1. 0 \in T
    <3> DEFINE g == [i \in 0 .. 0 |-> w]
    <3>1. g = [i \in 0 .. 0 |-> IF i = 0 THEN w ELSE Notify(g[i - 1], c, order[i])]
      OBVIOUS
    <3> HIDE DEF g
    <3> QED BY <3>1
  <2>2. ASSUME NEW n \in Nat, n \in T PROVE n + 1 \in T
    <3>1. PICK f : f = [i \in 0 .. n |-> IF i = 0 THEN w ELSE Notify(f[i - 1], c, order[i])]
      BY <2>2
    <3> DEFINE g == [i \in 0 .. (n + 1) |-> IF i = n + 1 THEN Notify(f[n], c, order[n + 1])
                        ELSE f[i]]
    <3>2. g = [i \in 0 .. (n + 1) |-> IF i = 0 THEN w ELSE Notify(g[i - 1], c, order[i])]
      <4>1. ASSUME NEW i \in 0 .. (n + 1)
            PROVE  g[i] = IF i = 0 THEN w ELSE Notify(g[i - 1], c, order[i])
        <5>1. CASE i = n + 1
          BY <5>1
        <5>2. CASE i # n + 1
          <6>1. i \in 0 .. n /\ g[i] = f[i]
            BY <5>2
          <6>2. f[i] = IF i = 0 THEN w ELSE Notify(f[i - 1], c, order[i])
            BY <6>1, <3>1
          <6>3. i # 0 => g[i - 1] = f[i - 1]
            BY <6>1
          <6> QED BY <6>1, <6>2, <6>3
        <5> QED BY <5>1, <5>2
      <4> QED BY <4>1
    <3> HIDE DEF g
    <3>3. \E h : h = [i \in 0 .. (n + 1) |-> IF i = 0 THEN w ELSE Notify(h[i - 1], c, order[i])]
      BY <3>2, Zenon
    <3>4. n + 1 \in Nat
      OBVIOUS
    <3> QED BY <3>3, <3>4, Zenon
  <2> HIDE DEF T
  <2>3. Nat \subseteq T
    BY <2>1, <2>2, Induction
  <2>4. Len(order) \in T
    BY <2>3
  <2> QED BY <2>4, Zenon DEF T
<1> DEFINE after[i \in 0 .. Len(order)] == IF i = 0 THEN w ELSE Notify(after[i - 1], c, order[i])
<1>2. after = [i \in 0 .. Len(order) |-> IF i = 0 THEN w ELSE Notify(after[i - 1], c, order[i])]
  BY <1>1, Zenon
<1>3. NotifyDependents(w, c) = after[Len(order)]
  BY DEF NotifyDependents
<1>4. Len(order) \in Nat
  OBVIOUS
<1> HIDE DEF after
<1>5. after[0] = w /\ \A i \in 1 .. Len(order) : after[i] = Notify(after[i - 1], c, order[i])
  BY <1>2, <1>4
<1> QED BY <1>3, <1>5

(* Of the worlds the loop goes through, each follows those before it.         *)
LEMMA FoldFollows ==
    ASSUME OrderFits, NEW w, World(w), NEW c, NEW f,
           \A id \in Ids : w.tasks[id] = None <=> tasks[id] = None,
           f[0] = w,
           \A i \in 1 .. Len(order) : f[i] = Notify(f[i - 1], c, order[i])
    PROVE  \A i \in 0 .. Len(order) : \A j \in i .. Len(order) :
               World(f[i]) /\ World(f[j]) /\ Follows(w, f[i], c) /\ Follows(f[i], f[j], c)
<1>0. Len(order) \in Nat
  BY DEF OrderFits
<1>1. ASSUME NEW v, World(v), Follows(w, v, c), NEW j \in 1 .. Len(order)
      PROVE  World(Notify(v, c, order[j])) /\ Follows(v, Notify(v, c, order[j]), c)
  <2>1. order[j] \in Ids /\ tasks[order[j]] # None
    BY DEF OrderFits, Scheduled
  <2>2. v.tasks[order[j]] # None
    BY <1>1, <2>1 DEF Follows
  <2> QED BY <1>1, <2>1, <2>2, NotifyFollows
<1>2. ASSUME NEW i \in 0 .. Len(order), World(f[i]), Follows(w, f[i], c)
      PROVE  \A j \in i .. Len(order) : World(f[j]) /\ Follows(f[i], f[j], c)
  <2> DEFINE T == {k \in Nat : i + k <= Len(order) => World(f[i + k]) /\ Follows(f[i], f[i + k], c)}
  <2>1. 0 \in T
    BY <1>2, FollowsItself
  <2>2. ASSUME NEW k \in Nat, k \in T PROVE k + 1 \in T
    <3> SUFFICES ASSUME i + (k + 1) <= Len(order)
                 PROVE  World(f[i + (k + 1)]) /\ Follows(f[i], f[i + (k + 1)], c)
      OBVIOUS
    <3>1. i + k <= Len(order) /\ i + (k + 1) \in 1 .. Len(order) /\ (i + (k + 1)) - 1 = i + k
      BY <1>0
    <3>2. World(f[i + k]) /\ Follows(f[i], f[i + k], c)
      BY <2>2, <3>1
    <3>3. Follows(w, f[i + k], c)
      BY <1>2, <3>2, FollowsOn
    <3>4. f[i + (k + 1)] = Notify(f[i + k], c, order[i + (k + 1)])
      BY <3>1
    <3>5. World(f[i + (k + 1)]) /\ Follows(f[i + k], f[i + (k + 1)], c)
      BY <1>1, <3>1, <3>2, <3>3, <3>4
    <3> QED BY <1>2, <3>2, <3>5, FollowsOn
  <2> HIDE DEF T
  <2>3. Nat \subseteq T
    BY <2>1, <2>2, Induction
  <2>4. ASSUME NEW j \in i .. Len(order) PROVE World(f[j]) /\ Follows(f[i], f[j], c)
    <3>1. j - i \in Nat /\ i + (j - i) = j /\ j <= Len(order)
      BY <1>0
    <3> QED BY <3>1, <2>3 DEF T
  <2> QED BY <2>4
<1>3. \A j \in 0 .. Len(order) : World(f[j]) /\ Follows(w, f[j], c)
  <2>1. 0 \in 0 .. Len(order) /\ World(f[0]) /\ Follows(w, f[0], c)
    BY <1>0, FollowsItself
  <2> QED BY <2>1, <1>2
<1> QED BY <1>2, <1>3

(* #notifyDependents() reaches every dependent of c, wherever it is in the    *)
(* map: c leaves its list, and if nothing else is in the list and its         *)
(* dependencies have completed when the loop ends, it was started.            *)
LEMMA DependentsNotified ==
    ASSUME OrderFits, NEW w, World(w), NEW c,
           \A id \in Ids : w.tasks[id] = None <=> tasks[id] = None
    PROVE  LET n == NotifyDependents(w, c) IN
           /\ World(n) /\ Follows(w, n, c)
           /\ \A id \in Ids : w.tasks[id] # None /\ Told(w, c, id) =>
                 c \notin n.tasks[id].waitingFor
           /\ \A id \in Ids :
                 /\ w.tasks[id] # None /\ Told(w, c, id)
                 /\ w.tasks[id].waitingFor \subseteq {c}
                 /\ CheckDependencies(w.tasks[id], n.tasks)
                 => Copies(FirstAttempt(id), n.runs) > Copies(FirstAttempt(id), w.runs)
<1>0. Len(order) \in Nat
  BY DEF OrderFits
<1>1. PICK f : /\ f[0] = w /\ f[Len(order)] = NotifyDependents(w, c)
               /\ \A i \in 1 .. Len(order) : f[i] = Notify(f[i - 1], c, order[i])
  BY NotifyDependentsUnfolds DEF OrderFits
<1> DEFINE n == NotifyDependents(w, c)
<1>2. \A i \in 0 .. Len(order) : \A j \in i .. Len(order) :
          World(f[i]) /\ World(f[j]) /\ Follows(w, f[i], c) /\ Follows(f[i], f[j], c)
  BY <1>1, FoldFollows
<1>3. World(n) /\ Follows(w, n, c)
  <2>1. Len(order) \in 0 .. Len(order) /\ Len(order) \in Len(order) .. Len(order)
    BY <1>0
  <2> QED BY <1>1, <1>2, <2>1
<1>4. ASSUME NEW id \in Ids, w.tasks[id] # None, Told(w, c, id)
      PROVE  /\ c \notin n.tasks[id].waitingFor
             /\ /\ w.tasks[id].waitingFor \subseteq {c}
                /\ CheckDependencies(w.tasks[id], n.tasks)
                => Copies(FirstAttempt(id), n.runs) > Copies(FirstAttempt(id), w.runs)
  <2>1. PICK p \in 1 .. Len(order) : order[p] = id
    BY <1>4 DEF OrderFits, Scheduled
  <2> DEFINE u == f[p - 1]
             v == f[p]
  <2>2. /\ p - 1 \in 0 .. Len(order) /\ p \in 0 .. Len(order)
        /\ Len(order) \in (p - 1) .. Len(order) /\ Len(order) \in p .. Len(order)
    BY <1>0
  <2>3. World(u) /\ World(v) /\ Follows(w, u, c) /\ Follows(u, n, c) /\ Follows(v, n, c)
    BY <1>1, <1>2, <2>2
  <2>4. v = Notify(u, c, id)
    BY <1>1, <2>1
  <2> HIDE DEF u, v, n
  <2>5. u.tasks[id] # None /\ Told(u, c, id)
    BY <1>4, <2>3 DEF Told, Follows
  <2>6. c \notin v.tasks[id].waitingFor
    BY <2>3, <2>4, <2>5, NotifyFollows
  <2>7. v.tasks[id] # None
    BY <2>3, <2>4, <2>5, NotifyFollows DEF Follows
  <2>8. c \notin n.tasks[id].waitingFor
    BY <2>3, <2>6, <2>7 DEF Follows
  <2>9. ASSUME w.tasks[id].waitingFor \subseteq {c}, CheckDependencies(w.tasks[id], n.tasks)
        PROVE  Copies(FirstAttempt(id), n.runs) > Copies(FirstAttempt(id), w.runs)
    <3>1. u.tasks[id].waitingFor \subseteq {c} /\
              u.tasks[id].dependencies = w.tasks[id].dependencies
      BY <1>4, <2>3, <2>9 DEF Follows
    <3>2. ASSUME NEW dep \in u.tasks[id].dependencies
          PROVE  u.tasks[dep] # None /\ u.tasks[dep].status = "completed"
      <4>1. n.tasks[dep] # None /\ n.tasks[dep].status = "completed"
        BY <2>9, <3>1 DEF CheckDependencies
      <4>2. dep \in Ids
        BY <2>3, <2>5 DEF World, Task
      <4> QED BY <4>1, <4>2, <2>3 DEF Follows
    <3>3. CheckDependencies(u.tasks[id], u.tasks)
      BY <3>2 DEF CheckDependencies
    <3>4. Copies(FirstAttempt(id), v.runs) > Copies(FirstAttempt(id), u.runs)
      BY <2>3, <2>4, <2>5, <3>1, <3>3, NotifyFollows
    <3>5. /\ Copies(FirstAttempt(id), n.runs) >= Copies(FirstAttempt(id), v.runs)
          /\ Copies(FirstAttempt(id), u.runs) >= Copies(FirstAttempt(id), w.runs)
      BY <2>3 DEF Follows
    <3>6. /\ Copies(FirstAttempt(id), n.runs) \in Nat /\ Copies(FirstAttempt(id), v.runs) \in Nat
          /\ Copies(FirstAttempt(id), u.runs) \in Nat /\ Copies(FirstAttempt(id), w.runs) \in Nat
      BY <1>3, <2>3, CopiesCount DEF World
    <3> QED BY <3>4, <3>5, <3>6
  <2> QED BY <2>8, <2>9
<1> QED BY <1>3, <1>4

-----------------------------------------------------------------------------
(* The invariant                                                              *)

(* A sequence without repetitions is as long as the set of its elements.      *)
LEMMA DistinctLength ==
    ASSUME NEW S, NEW s \in Seq(S), \A i, j \in 1 .. Len(s) : s[i] = s[j] => i = j
    PROVE  Len(s) = Cardinality({s[i] : i \in 1 .. Len(s)})
<1> DEFINE D == 1 .. Len(s)
           T == {s[i] : i \in D}
<1>1. Len(s) \in Nat /\ DOMAIN s = D
  OBVIOUS
<1>2. IsFiniteSet(D) /\ Cardinality(D) = Len(s)
  BY <1>1, FS_Interval
<1>3. s \in Bijection(D, T)
  BY <1>1 DEF Bijection, Injection, Surjection, IsInjective
<1>4. ExistsBijection(D, T)
  BY <1>3 DEF ExistsBijection
<1>5. Cardinality(T) = Cardinality(D)
  BY <1>2, <1>4, FS_Bijection
<1> QED BY <1>2, <1>5

(* The invariant says what TypeOK and TasksAndRunsAgree say.                  *)
LEMMA InvImplies == Inv => TypeOK /\ TasksAndRunsAgree
<1> SUFFICES ASSUME Inv PROVE TypeOK /\ TasksAndRunsAgree
  OBVIOUS
<1>1. Len(order) = Cardinality(Scheduled)
  BY DistinctLength DEF Inv, TasksFit, OrderFits, OrderDistinct
<1>2. TypeOK
  BY <1>1 DEF Inv, TasksFit, OrderFits, WaitingFits, RunsFit, TriggersFit, TypeOK
<1>3. TasksAndRunsAgree
  BY DEF Inv, TriggersFit, RunningHasRun, TasksAndRunsAgree
<1> QED BY <1>2, <1>3

(* The invariant holds in the constructor.                                    *)
LEMMA InitInv == Init => Inv
<1> SUFFICES ASSUME Init PROVE Inv
  OBVIOUS
<1>1. Scheduled = {} /\ Runs = {}
  BY DEF Init, Scheduled, Runs, EmptyBag, BagToSet, SetToBag
<1>2. TasksFit
  BY <1>1 DEF Init, TasksFit, OrderFits, OrderDistinct, WaitingFits
<1>3. RunsFit
  BY <1>1 DEF Init, RunsFit, EmptyBag, SetToBag, IsABag
<1>4. TriggersFit
  BY <1>1, SchedulerAssumption DEF Init, TriggersFit
<1>5. RunningHasRun
  BY <1>1 DEF RunningHasRun
<1> QED BY <1>2, <1>3, <1>4, <1>5 DEF Inv

(* A new id goes to the end of the order.                                     *)
LEMMA AppendOrder ==
    ASSUME NEW S, NEW s \in Seq(S), NEW e \in S,
           \A i, j \in 1 .. Len(s) : s[i] = s[j] => i = j,
           \A i \in 1 .. Len(s) : s[i] # e
    PROVE  /\ Append(s, e) \in Seq(S)
           /\ {Append(s, e)[i] : i \in 1 .. Len(Append(s, e))}
                 = {s[i] : i \in 1 .. Len(s)} \union {e}
           /\ \A i, j \in 1 .. Len(Append(s, e)) : Append(s, e)[i] = Append(s, e)[j] => i = j
<1> DEFINE t == Append(s, e)
<1>1. /\ t \in Seq(S) /\ Len(t) = Len(s) + 1 /\ Len(s) \in Nat
      /\ t[Len(s) + 1] = e
      /\ \A i \in 1 .. Len(s) : t[i] = s[i]
  OBVIOUS
<1>2. \A i \in 1 .. Len(t) : i = Len(s) + 1 \/ i \in 1 .. Len(s)
  BY <1>1
<1>3. 1 .. Len(s) \subseteq 1 .. Len(t) /\ Len(s) + 1 \in 1 .. Len(t)
  BY <1>1
<1> HIDE DEF t
<1>4. {t[i] : i \in 1 .. Len(t)} = {s[i] : i \in 1 .. Len(s)} \union {e}
  BY <1>1, <1>2, <1>3
<1>5. \A i, j \in 1 .. Len(t) : t[i] = t[j] => i = j
  BY <1>1, <1>2
<1> QED BY <1>1, <1>4, <1>5 DEF t

(* scheduledTasks.set() keeps map, order and lists in agreement.              *)
LEMMA PutFits ==
    ASSUME TasksFit, NEW id \in Ids, NEW type \in {"once", "cron", "dependency"},
           NEW deps \in SUBSET (Ids \ {id}), type # "dependency" => deps = {},
           Put(id, type, deps)
    PROVE  /\ TasksFit' /\ Scheduled' = Scheduled \union {id}
           /\ tasks'[id].type = type /\ tasks'[id].status = "scheduled"
           /\ \A k \in Ids : k # id => tasks'[k] = tasks[k]
<1> DEFINE t == [type |-> type, status |-> "scheduled", dependencies |-> deps, waitingFor |-> deps]
<1>1. t \in Task
  BY DEF Task, Statuses
<1>2. t # None
  BY <1>1, SchedulerAssumption
<1>3. /\ tasks' \in [Ids -> Task \union {None}]
      /\ tasks'[id] = t /\ \A k \in Ids : k # id => tasks'[k] = tasks[k]
  BY <1>1 DEF TasksFit, Put
<1>4. Scheduled' = Scheduled \union {id}
  BY <1>2, <1>3 DEF Scheduled
<1>5. OrderFits' /\ OrderDistinct'
  <2>1. CASE id \in Scheduled
    <3>1. order' = order
      BY <2>1 DEF Put
    <3>2. Scheduled' = Scheduled
      BY <2>1, <1>4
    <3> QED BY <3>1, <3>2 DEF TasksFit, OrderFits, OrderDistinct
  <2>2. CASE id \notin Scheduled
    <3>1. order' = Append(order, id)
      BY <2>2 DEF Put
    <3>2. order \in Seq(Ids) /\ \A i \in 1 .. Len(order) : order[i] # id
      BY <2>2 DEF TasksFit, OrderFits
    <3>3. \A i, j \in 1 .. Len(order) : order[i] = order[j] => i = j
      BY DEF TasksFit, OrderDistinct
    <3>4. /\ order' \in Seq(Ids)
          /\ {order'[i] : i \in 1 .. Len(order')} = {order[i] : i \in 1 .. Len(order)} \union {id}
          /\ \A i, j \in 1 .. Len(order') : order'[i] = order'[j] => i = j
      BY <3>1, <3>2, <3>3, AppendOrder
    <3> QED BY <3>4, <1>4 DEF TasksFit, OrderFits, OrderDistinct
  <2> QED BY <2>1, <2>2
<1>6. seen' = [seen EXCEPT ![id] = {}] /\ seen' \in [Ids -> SUBSET Ids]
  BY DEF Put, TasksFit
<1>7. WaitingFits'
  <2> SUFFICES ASSUME NEW k \in Scheduled'
               PROVE  /\ tasks'[k].type # "dependency" => tasks'[k].dependencies = {}
                      /\ k \notin tasks'[k].dependencies
                      /\ seen'[k] \subseteq tasks'[k].dependencies
                      /\ tasks'[k].waitingFor \subseteq tasks'[k].dependencies \ seen'[k]
    BY DEF WaitingFits
  <2>1. CASE k = id
    BY <2>1, <1>3, <1>6 DEF TasksFit
  <2>2. CASE k # id
    <3>1. k \in Scheduled /\ tasks'[k] = tasks[k] /\ seen'[k] = seen[k]
      BY <2>2, <1>3, <1>4, <1>6 DEF Scheduled, TasksFit
    <3> QED BY <3>1 DEF TasksFit, WaitingFits
  <2> QED BY <2>1, <2>2
<1> QED BY <1>3, <1>4, <1>5, <1>6, <1>7 DEF TasksFit

(* scheduledTasks.delete() takes one id out of the order.                     *)
LEMMA WithoutOrder ==
    ASSUME order \in Seq(Ids), OrderDistinct, NEW p \in 1 .. Len(order)
    PROVE  \E t \in Seq(Ids) :
           /\ t = Without(order[p])
           /\ {t[i] : i \in 1 .. Len(t)} = {order[i] : i \in 1 .. Len(order)} \ {order[p]}
           /\ \A i, j \in 1 .. Len(t) : t[i] = t[j] => i = j
<1> DEFINE place == CHOOSE i \in DOMAIN order : order[i] = order[p]
           t == [i \in 1 .. (Len(order) - 1) |-> IF i < p THEN order[i] ELSE order[i + 1]]
<1>1. place = p
  BY DEF OrderDistinct
<1>2. Without(order[p]) = t
  BY <1>1 DEF Without
<1>3. Len(order) \in Nat /\ Len(order) - 1 \in Nat
  OBVIOUS
<1>4. t \in Seq(Ids) /\ Len(t) = Len(order) - 1
  BY <1>3
<1>5. \A i \in 1 .. Len(t) : t[i] = IF i < p THEN order[i] ELSE order[i + 1]
  BY <1>4
<1> HIDE DEF t, place
<1>6. ASSUME NEW i \in 1 .. Len(t)
      PROVE  t[i] \in {order[k] : k \in 1 .. Len(order)} \ {order[p]}
  <2>1. CASE i < p
    <3>1. i \in 1 .. Len(order) /\ i # p
      BY <2>1
    <3> QED BY <2>1, <3>1, <1>5 DEF OrderDistinct
  <2>2. CASE ~(i < p)
    <3>1. i + 1 \in 1 .. Len(order) /\ i + 1 # p
      BY <2>2, <1>4
    <3> QED BY <2>2, <3>1, <1>5 DEF OrderDistinct
  <2> QED BY <2>1, <2>2
<1>7. ASSUME NEW k \in 1 .. Len(order), order[k] # order[p]
      PROVE  \E i \in 1 .. Len(t) : t[i] = order[k]
  <2>1. CASE k < p
    <3>1. k \in 1 .. Len(t)
      BY <2>1, <1>4
    <3> QED BY <2>1, <3>1, <1>5
  <2>2. CASE ~(k < p)
    <3>1. k # p
      BY <1>7
    <3>2. k - 1 \in 1 .. Len(t) /\ ~(k - 1 < p) /\ (k - 1) + 1 = k
      BY <2>2, <3>1, <1>4
    <3> QED BY <3>2, <1>5
  <2> QED BY <2>1, <2>2
<1>8. ASSUME NEW i \in 1 .. Len(t), NEW j \in 1 .. Len(t), t[i] = t[j] PROVE i = j
  <2>1. i \in 1 .. Len(order) /\ j \in 1 .. Len(order) /\ i + 1 \in 1 .. Len(order) /\
            j + 1 \in 1 .. Len(order)
    BY <1>4
  <2>2. CASE i < p /\ j < p
    BY <2>1, <2>2, <1>5, <1>8 DEF OrderDistinct
  <2>3. CASE i < p /\ ~(j < p)
    <3>1. order[i] = order[j + 1]
      BY <2>3, <1>5, <1>8
    <3>2. i = j + 1
      BY <2>1, <3>1 DEF OrderDistinct
    <3> QED BY <3>2, <2>3
  <2>4. CASE ~(i < p) /\ j < p
    <3>1. order[i + 1] = order[j]
      BY <2>4, <1>5, <1>8
    <3>2. i + 1 = j
      BY <2>1, <3>1 DEF OrderDistinct
    <3> QED BY <3>2, <2>4
  <2>5. CASE ~(i < p) /\ ~(j < p)
    <3>1. order[i + 1] = order[j + 1]
      BY <2>5, <1>5, <1>8
    <3>2. i + 1 = j + 1
      BY <2>1, <3>1 DEF OrderDistinct
    <3> QED BY <3>2
  <2> QED BY <2>2, <2>3, <2>4, <2>5
<1>9. {t[i] : i \in 1 .. Len(t)} = {order[k] : k \in 1 .. Len(order)} \ {order[p]}
  <2> DEFINE A == {t[i] : i \in 1 .. Len(t)}
             B == {order[k] : k \in 1 .. Len(order)} \ {order[p]}
  <2>1. ASSUME NEW x \in A PROVE x \in B
    BY <1>6
  <2>2. ASSUME NEW x \in B PROVE x \in A
    <3>1. PICK k \in 1 .. Len(order) : x = order[k] /\ order[k] # order[p]
      OBVIOUS
    <3>2. PICK i \in 1 .. Len(t) : t[i] = order[k]
      BY <1>7, <3>1
    <3> QED BY <3>1, <3>2
  <2> HIDE DEF A, B
  <2>3. A = B
    BY <2>1, <2>2
  <2> QED BY <2>3 DEF A, B
<1> QED BY <1>2, <1>4, <1>8, <1>9

(* A step that keeps the keys of the map, and of each task the type and the   *)
(* dependencies, keeps the agreement.                                         *)
LEMMA TasksKept ==
    ASSUME TasksFit, tasks' \in [Ids -> Task \union {None}], order' = order,
           seen' \in [Ids -> SUBSET Ids],
           \A id \in Ids : tasks'[id] = None <=> tasks[id] = None,
           \A id \in Scheduled :
              /\ tasks'[id].type = tasks[id].type
              /\ tasks'[id].dependencies = tasks[id].dependencies
              /\ tasks'[id].waitingFor \subseteq tasks[id].waitingFor \ seen'[id]
              /\ seen'[id] \subseteq tasks[id].dependencies
    PROVE  TasksFit' /\ Scheduled' = Scheduled
<1>1. Scheduled' = Scheduled
  BY DEF Scheduled
<1>2. OrderFits' /\ OrderDistinct'
  BY <1>1 DEF TasksFit, OrderFits, OrderDistinct
<1>3. WaitingFits'
  BY <1>1 DEF TasksFit, WaitingFits
<1> QED BY <1>1, <1>2, <1>3 DEF TasksFit

(* Only the status of a task changed.                                         *)
Restated(s, t) == \E status \in Statuses : t = [s EXCEPT !.status = status]

(* So does a step that changes statuses only.                                 *)
LEMMA StatusesKept ==
    ASSUME TasksFit, tasks' \in [Ids -> Task \union {None}], order' = order, seen' = seen,
           \A id \in Ids : tasks'[id] # tasks[id] =>
                id \in Scheduled /\ Restated(tasks[id], tasks'[id])
    PROVE  /\ TasksFit' /\ Scheduled' = Scheduled
           /\ \A id \in Scheduled : tasks'[id].type = tasks[id].type
<1>1. ASSUME NEW id \in Scheduled
      PROVE  /\ tasks'[id] # None
             /\ tasks'[id].type = tasks[id].type
             /\ tasks'[id].dependencies = tasks[id].dependencies
             /\ tasks'[id].waitingFor = tasks[id].waitingFor
  <2>1. id \in Ids /\ tasks[id] \in Task /\ tasks[id] # None
    BY DEF Scheduled, TasksFit
  <2>2. CASE tasks'[id] = tasks[id]
    BY <2>1, <2>2
  <2>3. CASE tasks'[id] # tasks[id]
    <3>1. PICK status \in Statuses : tasks'[id] = [tasks[id] EXCEPT !.status = status]
      BY <2>1, <2>3 DEF Restated
    <3>2. tasks'[id] \in Task
      BY <2>1, <3>1 DEF Task
    <3> QED BY <2>1, <3>1, <3>2, SchedulerAssumption DEF Task
  <2> QED BY <2>2, <2>3
<1>2. \A id \in Ids : tasks'[id] = None <=> tasks[id] = None
  BY <1>1 DEF Scheduled
<1>3. \A id \in Scheduled :
              /\ tasks'[id].type = tasks[id].type
              /\ tasks'[id].dependencies = tasks[id].dependencies
              /\ tasks'[id].waitingFor \subseteq tasks[id].waitingFor \ seen'[id]
              /\ seen'[id] \subseteq tasks[id].dependencies
  BY <1>1 DEF TasksFit, WaitingFits
<1>4. seen' \in [Ids -> SUBSET Ids]
  BY DEF TasksFit
<1> QED BY <1>1, <1>2, <1>3, <1>4, TasksKept

(* Setting a status, of a task that may have left the map.                    *)
LEMMA WithStatusRestates ==
    ASSUME TasksFit, NEW id \in Ids, NEW status \in Statuses, NEW T, T = WithStatus(id, status)
    PROVE  /\ T \in [Ids -> Task \union {None}]
           /\ \A k \in Ids : T[k] # tasks[k] => k = id /\ id \in Scheduled /\
                  Restated(tasks[k], T[k])
           /\ id \in Scheduled => T[id].status = status /\ T[id].type = tasks[id].type
           /\ \A k \in Ids : T[k] = None <=> tasks[k] = None
           /\ id \in Scheduled => /\ T[id].dependencies = tasks[id].dependencies
                                  /\ T[id].waitingFor = tasks[id].waitingFor
<1>1. CASE id \notin Scheduled
  BY <1>1 DEF WithStatus, Scheduled, TasksFit
<1>2. CASE id \in Scheduled
  <2>1. tasks[id] \in Task /\ tasks[id] # None
    BY <1>2 DEF Scheduled, TasksFit
  <2>2. T = [tasks EXCEPT ![id].status = status]
    BY <2>1 DEF WithStatus
  <2>3. /\ T[id] = [tasks[id] EXCEPT !.status = status] /\ T[id] \in Task
        /\ \A k \in Ids : k # id => T[k] = tasks[k]
        /\ T \in [Ids -> Task \union {None}]
    BY <2>1, <2>2 DEF TasksFit, Task
  <2>4. T[id] # None
    BY <2>3, SchedulerAssumption
  <2> QED BY <1>2, <2>1, <2>3, <2>4 DEF Restated, Task
<1> QED BY <1>1, <1>2

(* schedule(), scheduleRecurring() and scheduleWithDeps() preserve the        *)
(* invariant.                                                                 *)
LEMMA ScheduleStep ==
    ASSUME Inv, NEW id \in Ids,
           Schedule(id) \/ ScheduleRecurring(id) \/ ScheduleWithDeps(id)
    PROVE  Inv'
<1>1. TasksFit /\ RunsFit /\ TriggersFit /\ RunningHasRun /\ Fresh(id) /\ runs' = runs /\
          Runs' = Runs
  BY DEF Inv, Schedule, ScheduleRecurring, ScheduleWithDeps, Runs
<1>2. PICK type \in {"once", "cron", "dependency"}, deps \in SUBSET (Ids \ {id}) :
        /\ Put(id, type, deps)
        /\ type # "dependency" => deps = {}
        /\ timeouts' = IF type = "once" THEN timeouts \union {id} ELSE timeouts
        /\ IF type = "cron"
              THEN \E job \in {"started", "stopped"} : cronJobs' = [cronJobs EXCEPT ![id] = job]
              ELSE cronJobs' = cronJobs
  <2>1. CASE Schedule(id)
    BY <2>1 DEF Schedule
  <2>2. CASE ScheduleRecurring(id)
    BY <2>2 DEF ScheduleRecurring
  <2>3. CASE ScheduleWithDeps(id)
    BY <2>3 DEF ScheduleWithDeps
  <2> QED BY <2>1, <2>2, <2>3
<1>3. /\ TasksFit' /\ Scheduled' = Scheduled \union {id}
      /\ tasks'[id].type = type /\ tasks'[id].status = "scheduled"
      /\ \A k \in Ids : k # id => tasks'[k] = tasks[k]
  BY <1>1, <1>2, PutFits
<1>4. RunsFit'
  BY <1>1 DEF RunsFit
<1>5. TriggersFit'
  <2>1. /\ timeouts' \subseteq Scheduled'
        /\ \A k \in timeouts' : /\ tasks'[k].type = "once" /\ tasks'[k].status = "scheduled"
                                /\ \A r \in Runs' : r.id # k
    BY <1>1, <1>2, <1>3 DEF TriggersFit, Fresh, Scheduled
  <2>2. /\ cronJobs' \in [Ids -> {"started", "stopped", None}]
        /\ \A k \in Ids : k # id => cronJobs'[k] = cronJobs[k]
        /\ cronJobs'[id] # None => type = "cron"
    BY <1>1, <1>2 DEF TriggersFit, Fresh
  <2>3. ASSUME NEW k \in Ids
        PROVE  /\ cronJobs'[k] # None => k \in Scheduled' /\ tasks'[k].type = "cron"
               /\ cronJobs'[k] = "started" => tasks'[k].status \notin {"cancelled", "paused"}
    <3>1. CASE k = id
      BY <3>1, <1>3, <2>2
    <3>2. CASE k # id
      BY <3>2, <1>1, <1>3, <2>2 DEF TriggersFit
    <3> QED BY <3>1, <3>2
  <2> QED BY <2>1, <2>2, <2>3 DEF TriggersFit
<1>6. RunningHasRun'
  BY <1>1, <1>3 DEF RunningHasRun, Scheduled
<1> QED BY <1>3, <1>4, <1>5, <1>6 DEF Inv

(* Starting a task that depends on nothing adds its run.                      *)
LEMMA StartsRun ==
    ASSUME Inv, NEW id \in Scheduled, tasks[id].type # "dependency", Start(id)
    PROVE  /\ tasks' = [tasks EXCEPT ![id].status = "running"]
           /\ RunsFit' /\ Runs' = Runs \union {FirstAttempt(id)}
<1>1. tasks[id] # None /\ id \in Ids
  BY DEF Scheduled
<1>2. /\ tasks' = [tasks EXCEPT ![id].status = "running"]
      /\ runs' = runs (+) SetToBag({FirstAttempt(id)})
  BY <1>1 DEF Start, Execute
<1>3. IsABag(runs') /\ Runs' = Runs \union {FirstAttempt(id)}
  <2>1. IsABag(runs)
    BY DEF Inv, RunsFit
  <2> QED BY <1>2, <2>1, AddOne DEF Runs
<1>4. FirstAttempt(id) \in Run /\ FirstAttempt(id).phase = "executing"
  BY <1>1, FirstAttemptType DEF FirstAttempt
<1>5. RunsFit'
  BY <1>3, <1>4 DEF Inv, RunsFit
<1> QED BY <1>2, <1>3, <1>5

(* A timeout or a cron job that fires preserves the invariant.                *)
LEMMA StartStep ==
    ASSUME Inv, NEW id \in Ids, TimeoutFires(id) \/ CronFires(id)
    PROVE  Inv'
<1>1. TasksFit /\ RunsFit /\ TriggersFit /\ RunningHasRun
  BY DEF Inv
<1>2. /\ id \in Scheduled /\ Start(id) /\ tasks[id].type \in {"once", "cron"}
      /\ timeouts' = timeouts \ {id} /\ cronJobs' = cronJobs /\ order' = order /\ seen' = seen
  <2>1. CASE TimeoutFires(id)
    BY <1>1, <2>1 DEF TimeoutFires, TriggersFit
  <2>2. CASE CronFires(id)
    <3>1. cronJobs[id] # None
      BY <2>2, SchedulerAssumption DEF CronFires
    <3>2. id \in Scheduled /\ tasks[id].type = "cron"
      BY <1>1, <3>1 DEF TriggersFit
    <3>3. id \notin timeouts
      BY <1>1, <3>2 DEF TriggersFit
    <3> QED BY <2>2, <3>2, <3>3 DEF CronFires
  <2> QED BY <2>1, <2>2
<1>3. /\ tasks' = [tasks EXCEPT ![id].status = "running"]
      /\ RunsFit' /\ Runs' = Runs \union {FirstAttempt(id)}
  BY <1>2, StartsRun
<1>4. tasks' = WithStatus(id, "running")
  BY <1>2, <1>3 DEF WithStatus, Scheduled
<1>5. /\ tasks' \in [Ids -> Task \union {None}]
      /\ \A k \in Ids : tasks'[k] # tasks[k] => k = id /\ id \in Scheduled /\
             Restated(tasks[k], tasks'[k])
      /\ tasks'[id].status = "running"
  BY <1>1, <1>2, <1>4, WithStatusRestates DEF Statuses
<1>6. TasksFit' /\ Scheduled' = Scheduled /\ \A k \in Scheduled : tasks'[k].type = tasks[k].type
  BY <1>1, <1>2, <1>5, StatusesKept
<1>7. FirstAttempt(id).id = id
  BY DEF FirstAttempt
<1>8. TriggersFit'
  <2>1. /\ timeouts' \subseteq Scheduled'
        /\ \A k \in timeouts' : /\ tasks'[k].type = "once" /\ tasks'[k].status = "scheduled"
                                /\ \A r \in Runs' : r.id # k
    BY <1>1, <1>2, <1>3, <1>5, <1>6, <1>7 DEF TriggersFit
  <2>2. /\ cronJobs' \in [Ids -> {"started", "stopped", None}]
        /\ \A k \in Ids : cronJobs'[k] # None => k \in Scheduled' /\ tasks'[k].type = "cron"
    BY <1>1, <1>2, <1>6 DEF TriggersFit
  <2>3. \A k \in Ids : cronJobs'[k] = "started" => tasks'[k].status \notin {"cancelled", "paused"}
    BY <1>1, <1>2, <1>5 DEF TriggersFit
  <2> QED BY <2>1, <2>2, <2>3 DEF TriggersFit
<1>9. RunningHasRun'
  BY <1>1, <1>3, <1>5, <1>6, <1>7 DEF RunningHasRun
<1> QED BY <1>3, <1>6, <1>8, <1>9 DEF Inv

(* A run replaced by another run of the same task.                            *)
LEMMA AnotherAttempt ==
    ASSUME Inv, NEW r \in Runs, NEW q \in Run, q.id = r.id,
           UNCHANGED <<tasks, order, timeouts, cronJobs, seen>>,
           q.phase = "sleeping" => q.attempt <= MaxRetries,
           runs' = (runs (-) SetToBag({r})) (+) SetToBag({q})
    PROVE  Inv'
<1>1. TasksFit /\ RunsFit /\ TriggersFit /\ RunningHasRun
  BY DEF Inv
<1> DEFINE less == runs (-) SetToBag({r})
<1>2. IsABag(less) /\ BagToSet(less) \subseteq Runs /\ \A x : x # r =>
          Copies(x, less) = Copies(x, runs)
  <2>1. IsABag(runs) /\ r \in BagToSet(runs) /\ less = runs (-) SetToBag({r})
    BY <1>1 DEF RunsFit, Runs
  <2> HIDE DEF less
  <2> QED BY <2>1, DropOne DEF Runs
<1> HIDE DEF less
<1>3. IsABag(runs') /\ Runs' = BagToSet(less) \union {q}
  <2>1. runs' = less (+) SetToBag({q})
    BY DEF less
  <2> QED BY <1>2, <2>1, AddOne DEF Runs
<1>4. RunsFit'
  BY <1>1, <1>2, <1>3 DEF RunsFit
<1>5. \A id \in Ids : (\E x \in Runs : x.id = id) <=> (\E x \in Runs' : x.id = id)
  <2>1. \A x \in Runs : x # r => x \in BagToSet(less)
    <3>1. IsABag(runs) /\ \A x : x \in Runs <=> x \in BagToSet(runs)
      BY <1>1 DEF RunsFit, Runs
    <3> QED BY <1>2, <3>1, CopiesCount
  <2> QED BY <1>2, <1>3, <2>1
<1>6. Scheduled' = Scheduled
  BY DEF Scheduled
<1>7. TasksFit'
  BY <1>1, <1>6 DEF TasksFit, OrderFits, OrderDistinct, WaitingFits
<1>8. TriggersFit'
  BY <1>1, <1>5, <1>6 DEF TriggersFit, Scheduled
<1>9. RunningHasRun'
  BY <1>1, <1>5, <1>6 DEF RunningHasRun, Scheduled
<1> QED BY <1>4, <1>7, <1>8, <1>9 DEF Inv

(* A failed attempt with others left preserves the invariant.                 *)
LEMMA FailAttemptStep ==
    ASSUME Inv, NEW r \in Runs, FailAttempt(r)
    PROVE  Inv'
<1> DEFINE q == [r EXCEPT !.phase = "sleeping"]
<1>1. r \in Run
  BY DEF Inv, RunsFit
<1>2. q \in Run /\ q.id = r.id /\ q.attempt <= MaxRetries
  BY <1>1, SchedulerAssumption DEF Run, FailAttempt
<1>3. runs' = (runs (-) SetToBag({r})) (+) SetToBag({q})
  BY DEF FailAttempt
<1>4. UNCHANGED <<tasks, order, timeouts, cronJobs, seen>>
  BY DEF FailAttempt
<1> HIDE DEF q
<1> QED BY <1>2, <1>3, <1>4, AnotherAttempt

(* The end of a sleep preserves the invariant.                                *)
LEMMA WakeStep ==
    ASSUME Inv, NEW r \in Runs, Wake(r)
    PROVE  Inv'
<1> DEFINE q == [r EXCEPT !.phase = "executing", !.attempt = @ + 1]
<1>1. r \in Run /\ r.attempt <= MaxRetries
  BY DEF Inv, RunsFit, Wake
<1>2. r.attempt + 1 \in 1 .. (MaxRetries + 1)
  BY <1>1, SchedulerAssumption DEF Run
<1>3. q \in Run /\ q.id = r.id /\ q.phase = "executing"
  BY <1>1, <1>2 DEF Run
<1>4. runs' = (runs (-) SetToBag({r})) (+) SetToBag({q})
  BY DEF Wake
<1>5. UNCHANGED <<tasks, order, timeouts, cronJobs, seen>>
  BY DEF Wake
<1> HIDE DEF q
<1> QED BY <1>3, <1>4, <1>5, AnotherAttempt

(* A run that ends takes no run of another task with it.                      *)
LEMMA RunEnds ==
    ASSUME Inv, NEW r \in Runs, NEW B, B = runs (-) SetToBag({r})
    PROVE  /\ IsABag(B) /\ BagToSet(B) \subseteq Runs
           /\ \A x \in Runs : x.id # r.id => x \in BagToSet(B)
<1>1. IsABag(runs) /\ Runs = BagToSet(runs)
  BY DEF Inv, RunsFit, Runs
<1>2. IsABag(B) /\ BagToSet(B) \subseteq Runs /\ \A x : x # r => Copies(x, B) = Copies(x, runs)
  BY <1>1, DropOne
<1> QED BY <1>1, <1>2, CopiesCount

(* The last failure of a run preserves the invariant: what it says of the     *)
(* task, whatever other runs the task has, is not "running".                  *)
LEMMA FailTaskStep ==
    ASSUME Inv, NEW r \in Runs, FailTask(r)
    PROVE  Inv'
<1>1. TasksFit /\ RunsFit /\ TriggersFit /\ RunningHasRun /\ r \in Run /\ r.id \in Ids
  BY DEF Inv, RunsFit, Run
<1>2. /\ tasks' = WithStatus(r.id, "failed") /\ order' = order /\ seen' = seen
      /\ timeouts' = timeouts /\ cronJobs' = cronJobs /\ runs' = runs (-) SetToBag({r})
  BY DEF FailTask
<1>3. /\ tasks' \in [Ids -> Task \union {None}]
      /\ \A k \in Ids : tasks'[k] # tasks[k] => k = r.id /\ r.id \in Scheduled /\
             Restated(tasks[k], tasks'[k])
      /\ r.id \in Scheduled => tasks'[r.id].status = "failed"
  BY <1>1, <1>2, WithStatusRestates DEF Statuses
<1>4. TasksFit' /\ Scheduled' = Scheduled /\ \A k \in Scheduled : tasks'[k].type = tasks[k].type
  BY <1>1, <1>2, <1>3, StatusesKept
<1>5. /\ IsABag(runs') /\ Runs' \subseteq Runs
      /\ \A x \in Runs : x.id # r.id => x \in Runs'
  BY <1>2, RunEnds DEF Runs
<1>6. RunsFit'
  BY <1>1, <1>5 DEF RunsFit
<1>7. r.id \notin timeouts
  BY <1>1 DEF TriggersFit
<1>8. TriggersFit'
  <2>1. /\ timeouts' \subseteq Scheduled'
        /\ \A k \in timeouts' : /\ tasks'[k].type = "once" /\ tasks'[k].status = "scheduled"
                                /\ \A x \in Runs' : x.id # k
    BY <1>1, <1>2, <1>3, <1>4, <1>5, <1>7 DEF TriggersFit, Scheduled
  <2>2. /\ cronJobs' \in [Ids -> {"started", "stopped", None}]
        /\ \A k \in Ids : cronJobs'[k] # None => k \in Scheduled' /\ tasks'[k].type = "cron"
    BY <1>1, <1>2, <1>4 DEF TriggersFit
  <2>3. \A k \in Ids : cronJobs'[k] = "started" => tasks'[k].status \notin {"cancelled", "paused"}
    BY <1>1, <1>2, <1>3 DEF TriggersFit
  <2> QED BY <2>1, <2>2, <2>3 DEF TriggersFit
<1>9. RunningHasRun'
  <2> SUFFICES ASSUME NEW k \in Scheduled', tasks'[k].status = "running"
               PROVE  \E x \in Runs' : x.id = k
    BY DEF RunningHasRun
  <2>1. k \in Scheduled /\ k \in Ids
    BY <1>4 DEF Scheduled
  <2>2. k # r.id /\ tasks[k].status = "running"
    BY <1>3, <2>1
  <2>3. PICK x \in Runs : x.id = k
    BY <1>1, <2>1, <2>2 DEF RunningHasRun
  <2> QED BY <1>5, <2>2, <2>3
<1> QED BY <1>4, <1>6, <1>8, <1>9 DEF Inv

(* cancel() and cancelAll() preserve the invariant.                           *)
LEMMA CancelStep ==
    ASSUME Inv, NEW ids \in SUBSET Scheduled, CancelTasks(ids)
    PROVE  Inv'
<1>1. TasksFit /\ RunsFit /\ TriggersFit /\ RunningHasRun
  BY DEF Inv
<1>2. /\ timeouts' = timeouts \ ids /\ order' = order /\ seen' = seen /\ runs' = runs /\
             Runs' = Runs
      /\ cronJobs' = [id \in Ids |-> IF id \in ids THEN None ELSE cronJobs[id]]
      /\ tasks' = [id \in Ids |-> IF id \in ids THEN [tasks[id] EXCEPT !.status = "cancelled"]
                                   ELSE tasks[id]]
  BY DEF CancelTasks, Runs
<1>3. ASSUME NEW k \in Ids
      PROVE  /\ tasks'[k] \in Task \union {None}
             /\ tasks'[k] # tasks[k] => k \in Scheduled /\ Restated(tasks[k], tasks'[k])
             /\ k \in ids => tasks'[k].status = "cancelled"
             /\ k \notin ids => tasks'[k] = tasks[k]
  <2>1. CASE k \in ids
    <3>1. tasks[k] \in Task /\ k \in Scheduled
      BY <1>1, <2>1 DEF TasksFit, Scheduled
    <3>2. tasks'[k] = [tasks[k] EXCEPT !.status = "cancelled"]
      BY <1>2, <2>1
    <3>3. tasks'[k] \in Task /\ tasks'[k].status = "cancelled" /\ "cancelled" \in Statuses
      BY <3>1, <3>2 DEF Task, Statuses
    <3> QED BY <2>1, <3>1, <3>2, <3>3 DEF Restated
  <2>2. CASE k \notin ids
    BY <1>1, <1>2, <2>2 DEF TasksFit
  <2> QED BY <2>1, <2>2
<1>4. TasksFit' /\ Scheduled' = Scheduled /\ \A k \in Scheduled : tasks'[k].type = tasks[k].type
  <2>1. tasks' \in [Ids -> Task \union {None}]
    BY <1>2, <1>3
  <2> QED BY <1>1, <1>2, <1>3, <2>1, StatusesKept
<1>5. RunsFit'
  BY <1>1, <1>2 DEF RunsFit
<1>6. TriggersFit'
  <2>1. /\ timeouts' \subseteq Scheduled'
        /\ \A k \in timeouts' : /\ tasks'[k].type = "once" /\ tasks'[k].status = "scheduled"
                                /\ \A x \in Runs' : x.id # k
    BY <1>1, <1>2, <1>3, <1>4 DEF TriggersFit, Scheduled
  <2>2. /\ cronJobs' \in [Ids -> {"started", "stopped", None}]
        /\ \A k \in Ids : cronJobs'[k] # None => k \notin ids /\ cronJobs'[k] = cronJobs[k]
    BY <1>1, <1>2 DEF TriggersFit
  <2>3. \A k \in Ids : cronJobs'[k] # None => k \in Scheduled' /\ tasks'[k].type = "cron"
    BY <1>1, <1>4, <2>2 DEF TriggersFit
  <2>4. \A k \in Ids : cronJobs'[k] = "started" => tasks'[k].status \notin {"cancelled", "paused"}
    BY <1>1, <1>3, <2>2, SchedulerAssumption DEF TriggersFit
  <2> QED BY <2>1, <2>2, <2>3, <2>4 DEF TriggersFit
<1>7. RunningHasRun'
  BY <1>1, <1>2, <1>3, <1>4 DEF RunningHasRun, Scheduled
<1> QED BY <1>4, <1>5, <1>6, <1>7 DEF Inv

(* pause() and resume() preserve the invariant.                               *)
LEMMA CronStep ==
    ASSUME Inv, NEW id \in Ids, Pause(id) \/ Resume(id)
    PROVE  Inv'
<1>1. TasksFit /\ RunsFit /\ TriggersFit /\ RunningHasRun
  BY DEF Inv
<1>2. PICK status \in {"paused", "scheduled"}, job \in {"started", "stopped"} :
        /\ tasks' = WithStatus(id, status) /\ cronJobs' = [cronJobs EXCEPT ![id] = job]
        /\ job = "started" => status = "scheduled"
  BY DEF Pause, Resume
<1>3. /\ id \in Scheduled /\ tasks[id].type = "cron"
      /\ order' = order /\ seen' = seen /\ timeouts' = timeouts /\ runs' = runs /\ Runs' = Runs
  BY DEF Pause, Resume, Runs
<1>4. /\ tasks' \in [Ids -> Task \union {None}]
      /\ \A k \in Ids : tasks'[k] # tasks[k] => k = id /\ id \in Scheduled /\
             Restated(tasks[k], tasks'[k])
      /\ tasks'[id].status = status
  <2>1. status \in Statuses
    BY DEF Statuses
  <2> QED BY <1>1, <1>2, <1>3, <2>1, WithStatusRestates
<1>5. TasksFit' /\ Scheduled' = Scheduled /\ \A k \in Scheduled : tasks'[k].type = tasks[k].type
  BY <1>1, <1>3, <1>4, StatusesKept
<1>6. RunsFit'
  BY <1>1, <1>3 DEF RunsFit
<1>7. TriggersFit'
  <2>1. id \notin timeouts
    BY <1>1, <1>3 DEF TriggersFit
  <2>2. /\ timeouts' \subseteq Scheduled'
        /\ \A k \in timeouts' : /\ tasks'[k].type = "once" /\ tasks'[k].status = "scheduled"
                                /\ \A x \in Runs' : x.id # k
    BY <1>1, <1>3, <1>4, <1>5, <2>1 DEF TriggersFit, Scheduled
  <2>3. /\ cronJobs' \in [Ids -> {"started", "stopped", None}]
        /\ cronJobs'[id] = job /\ \A k \in Ids : k # id => cronJobs'[k] = cronJobs[k]
    BY <1>1, <1>2 DEF TriggersFit
  <2>4. ASSUME NEW k \in Ids
        PROVE  /\ cronJobs'[k] # None => k \in Scheduled' /\ tasks'[k].type = "cron"
               /\ cronJobs'[k] = "started" => tasks'[k].status \notin {"cancelled", "paused"}
    <3>1. CASE k = id
      BY <3>1, <1>2, <1>3, <1>4, <1>5, <2>3
    <3>2. CASE k # id
      <4>1. tasks'[k] = tasks[k] /\ cronJobs'[k] = cronJobs[k]
        BY <3>2, <1>4, <2>3
      <4> QED BY <4>1, <1>1, <1>5 DEF TriggersFit
    <3> QED BY <3>1, <3>2
  <2> QED BY <2>2, <2>3, <2>4 DEF TriggersFit
<1>8. RunningHasRun'
  BY <1>1, <1>3, <1>4, <1>5 DEF RunningHasRun, Scheduled
<1> QED BY <1>5, <1>6, <1>7, <1>8 DEF Inv

(* stop() preserves the invariant, although the runs go on.                   *)
LEMMA StopStep ==
    ASSUME Inv, Stop
    PROVE  Inv'
<1>1. Scheduled' = {} /\ Runs' = Runs
  BY DEF Stop, Scheduled, Runs
<1>2. TasksFit'
  BY <1>1 DEF Stop, TasksFit, OrderFits, OrderDistinct, WaitingFits
<1>3. RunsFit'
  BY <1>1 DEF Stop, Inv, RunsFit
<1>4. TriggersFit'
  BY <1>1, SchedulerAssumption DEF Stop, TriggersFit
<1>5. RunningHasRun'
  BY <1>1 DEF RunningHasRun
<1> QED BY <1>2, <1>3, <1>4, <1>5 DEF Inv

-----------------------------------------------------------------------------
(* Success                                                                    *)

(* The world #notifyDependents() is given.                                    *)
Settled(r) == [tasks |-> WithStatus(r.id, "completed"), runs |-> runs (-) SetToBag({r})]

(* A success before the dependents are told of it.                            *)
LEMMA SettledWorld ==
    ASSUME Inv, NEW r \in Runs
    PROVE  /\ r \in Run /\ r.id \in Ids
           /\ World(Settled(r))
           /\ \A k \in Ids : Settled(r).tasks[k] = None <=> tasks[k] = None
           /\ \A k \in Ids : k # r.id => Settled(r).tasks[k] = tasks[k]
           /\ r.id \in Scheduled =>
                 /\ Settled(r).tasks[r.id].status = "completed"
                 /\ Settled(r).tasks[r.id].type = tasks[r.id].type
                 /\ Settled(r).tasks[r.id].dependencies = tasks[r.id].dependencies
                 /\ Settled(r).tasks[r.id].waitingFor = tasks[r.id].waitingFor
           /\ Copies(r, Settled(r).runs) = Copies(r, runs) - 1
           /\ \A x : x # r => Copies(x, Settled(r).runs) = Copies(x, runs)
           /\ BagToSet(Settled(r).runs) \subseteq Runs
           /\ \A x : Copies(x, runs) \in Nat
<1> DEFINE T == WithStatus(r.id, "completed")
           B == runs (-) SetToBag({r})
<1>1. TasksFit /\ RunsFit /\ r \in Run /\ r.id \in Ids /\ IsABag(runs) /\ Runs = BagToSet(runs)
  BY DEF Inv, RunsFit, Run, Runs
<1>2. /\ IsABag(B) /\ BagToSet(B) \subseteq Runs
      /\ Copies(r, B) = Copies(r, runs) - 1
      /\ \A x : x # r => Copies(x, B) = Copies(x, runs)
  <2>1. r \in BagToSet(runs)
    BY <1>1
  <2> HIDE DEF B
  <2>2. B = runs (-) SetToBag({r})
    BY DEF B
  <2> QED BY <1>1, <2>1, <2>2, DropOne
<1>3. /\ T \in [Ids -> Task \union {None}]
      /\ \A k \in Ids : T[k] # tasks[k] => k = r.id /\ r.id \in Scheduled
      /\ r.id \in Scheduled => T[r.id].status = "completed" /\ T[r.id].type = tasks[r.id].type
      /\ \A k \in Ids : T[k] = None <=> tasks[k] = None
      /\ r.id \in Scheduled => /\ T[r.id].dependencies = tasks[r.id].dependencies
                               /\ T[r.id].waitingFor = tasks[r.id].waitingFor
  <2>1. "completed" \in Statuses
    BY DEF Statuses
  <2> HIDE DEF T
  <2>2. T = WithStatus(r.id, "completed")
    BY DEF T
  <2> QED BY <1>1, <2>1, <2>2, WithStatusRestates
<1>4. \A x : Copies(x, runs) \in Nat
  BY <1>1, CopiesCount
<1>5. Settled(r) = [tasks |-> T, runs |-> B]
  BY DEF Settled
<1> HIDE DEF T, B
<1>6. Settled(r).tasks = T /\ Settled(r).runs = B
  BY <1>5
<1>7. World(Settled(r))
  <2>1. BagToSet(B) \subseteq Run
    BY <1>1, <1>2 DEF RunsFit
  <2> QED BY <1>2, <1>3, <1>5, <1>6, <2>1 DEF World
<1> QED BY <1>1, <1>2, <1>3, <1>4, <1>6, <1>7

(* A success is: the task is completed, its dependents are told, and a one-   *)
(* shot task leaves the map.                                                  *)
LEMMA SucceedNext ==
    ASSUME Inv, NEW r \in Runs, Succeed(r)
    PROVE  \E n :
           /\ World(n) /\ Follows(Settled(r), n, r.id)
           /\ \A id \in Ids : Settled(r).tasks[id] # None /\ Told(Settled(r), r.id, id) =>
                 r.id \notin n.tasks[id].waitingFor
           /\ \A id \in Ids :
                 /\ Settled(r).tasks[id] # None /\ Told(Settled(r), r.id, id)
                 /\ Settled(r).tasks[id].waitingFor \subseteq {r.id}
                 /\ CheckDependencies(Settled(r).tasks[id], n.tasks)
                 => Copies(FirstAttempt(id), n.runs) > Copies(FirstAttempt(id), Settled(r).runs)
           /\ runs' = n.runs
           /\ IF tasks[r.id] # None /\ tasks[r.id].type = "once"
                 THEN tasks' = [n.tasks EXCEPT ![r.id] = None] /\ order' = Without(r.id)
                 ELSE tasks' = n.tasks /\ order' = order
<1> DEFINE w == Settled(r)
           n == NotifyDependents(w, r.id)
<1>1. World(w) /\ \A id \in Ids : w.tasks[id] = None <=> tasks[id] = None
  BY SettledWorld
<1>2. OrderFits
  BY DEF Inv, TasksFit
<1>3. /\ runs' = n.runs
      /\ IF tasks[r.id] # None /\ tasks[r.id].type = "once"
            THEN tasks' = [n.tasks EXCEPT ![r.id] = None] /\ order' = Without(r.id)
            ELSE tasks' = n.tasks /\ order' = order
  BY DEF Succeed, Settled
<1> HIDE DEF w
<1>4. /\ World(n) /\ Follows(w, n, r.id)
      /\ \A id \in Ids : w.tasks[id] # None /\ Told(w, r.id, id) =>
                 r.id \notin n.tasks[id].waitingFor
      /\ \A id \in Ids :
                 /\ w.tasks[id] # None /\ Told(w, r.id, id)
                 /\ w.tasks[id].waitingFor \subseteq {r.id}
                 /\ CheckDependencies(w.tasks[id], n.tasks)
                 => Copies(FirstAttempt(id), n.runs) > Copies(FirstAttempt(id), w.runs)
  BY <1>1, <1>2, DependentsNotified
<1> HIDE DEF n
<1> QED BY <1>3, <1>4 DEF w

(* A success preserves the invariant, also of a task that left the map or was *)
(* scheduled anew while it ran.                                               *)
LEMMA SucceedStep ==
    ASSUME Inv, NEW r \in Runs, Succeed(r)
    PROVE  Inv'
<1>1. TasksFit /\ RunsFit /\ TriggersFit /\ RunningHasRun
  BY DEF Inv
<1> DEFINE w == Settled(r)
           done == tasks[r.id] # None /\ tasks[r.id].type = "once"
<1>2. /\ r \in Run /\ r.id \in Ids
      /\ World(w)
      /\ \A k \in Ids : w.tasks[k] = None <=> tasks[k] = None
      /\ \A k \in Ids : k # r.id => w.tasks[k] = tasks[k]
      /\ r.id \in Scheduled =>
            /\ w.tasks[r.id].status = "completed"
            /\ w.tasks[r.id].type = tasks[r.id].type
            /\ w.tasks[r.id].dependencies = tasks[r.id].dependencies
            /\ w.tasks[r.id].waitingFor = tasks[r.id].waitingFor
      /\ Copies(r, w.runs) = Copies(r, runs) - 1
      /\ \A x : x # r => Copies(x, w.runs) = Copies(x, runs)
      /\ BagToSet(w.runs) \subseteq Runs
      /\ \A x : Copies(x, runs) \in Nat
  BY SettledWorld
<1>3. PICK n :
        /\ World(n) /\ Follows(w, n, r.id)
        /\ \A id \in Ids : w.tasks[id] # None /\ Told(w, r.id, id) =>
              r.id \notin n.tasks[id].waitingFor
        /\ runs' = n.runs
        /\ IF done
              THEN tasks' = [n.tasks EXCEPT ![r.id] = None] /\ order' = Without(r.id)
              ELSE tasks' = n.tasks /\ order' = order
  BY SucceedNext
<1>4. /\ timeouts' = timeouts /\ cronJobs' = cronJobs
      /\ seen' = [id \in Ids |->
                     IF tasks[id] # None /\ tasks[r.id] # None
                     THEN seen[id] \union ({r.id} \intersect tasks[id].dependencies)
                     ELSE seen[id]]
  BY DEF Succeed
<1> HIDE DEF w
<1>5. ASSUME NEW k \in Scheduled
      PROVE  /\ k \in Ids /\ tasks[k] # None /\ w.tasks[k] # None /\ n.tasks[k] # None
             /\ n.tasks[k].type = tasks[k].type
             /\ n.tasks[k].dependencies = tasks[k].dependencies
             /\ n.tasks[k].waitingFor \subseteq tasks[k].waitingFor
             /\ \/ n.tasks[k].status = w.tasks[k].status
                \/ /\ n.tasks[k].status = "running" /\ r.id \in tasks[k].dependencies
                   /\ Copies(FirstAttempt(k), n.runs) > 0
             /\ r.id \in tasks[k].dependencies => r.id \notin n.tasks[k].waitingFor
  <2>1. k \in Ids /\ tasks[k] # None
    BY DEF Scheduled
  <2>2. w.tasks[k] # None
    BY <1>2, <2>1
  <2>3. /\ w.tasks[k].type = tasks[k].type
        /\ w.tasks[k].dependencies = tasks[k].dependencies
        /\ w.tasks[k].waitingFor = tasks[k].waitingFor
    BY <1>2, <2>1
  <2>4. n.tasks[k] # None
    BY <1>3, <2>1, <2>2 DEF Follows
  <2>5. /\ n.tasks[k].type = w.tasks[k].type
        /\ n.tasks[k].dependencies = w.tasks[k].dependencies
        /\ n.tasks[k].waitingFor \subseteq w.tasks[k].waitingFor
        /\ n.tasks[k].status # w.tasks[k].status =>
                /\ n.tasks[k].status = "running" /\ r.id \in w.tasks[k].dependencies
                /\ Copies(FirstAttempt(k), n.runs) > 0
    BY <1>3, <2>1, <2>2 DEF Follows
  <2>6. r.id \in tasks[k].dependencies => Told(w, r.id, k)
    BY <1>1, <2>3 DEF Told, TasksFit, WaitingFits
  <2>7. r.id \in tasks[k].dependencies => r.id \notin n.tasks[k].waitingFor
    BY <1>3, <2>1, <2>2, <2>6
  <2> QED BY <2>1, <2>2, <2>3, <2>4, <2>5, <2>7
<1>6. /\ n.tasks \in [Ids -> Task \union {None}]
      /\ IsABag(n.runs) /\ BagToSet(n.runs) \subseteq Run
      /\ \A k \in Ids : n.tasks[k] = None <=> tasks[k] = None
  <2>1. \A k \in Ids : n.tasks[k] = None <=> w.tasks[k] = None
    BY <1>3 DEF Follows
  <2> QED BY <1>2, <1>3, <2>1 DEF World
<1>7. /\ tasks' \in [Ids -> Task \union {None}]
      /\ \A k \in Ids : IF k = r.id /\ done THEN tasks'[k] = None ELSE tasks'[k] = n.tasks[k]
  BY <1>3, <1>6
<1>8. Scheduled' = IF done THEN Scheduled \ {r.id} ELSE Scheduled
  BY <1>6, <1>7 DEF Scheduled
<1>9. OrderFits' /\ OrderDistinct'
  <2>1. CASE done
    <3>1. PICK p \in 1 .. Len(order) : order[p] = r.id
      BY <1>1, <1>2, <2>1 DEF TasksFit, OrderFits, Scheduled
    <3>2. order \in Seq(Ids)
      BY <1>1 DEF TasksFit, OrderFits
    <3>3. OrderDistinct
      BY <1>1 DEF TasksFit
    <3>4. PICK t \in Seq(Ids) :
            /\ t = Without(order[p])
            /\ {t[i] : i \in 1 .. Len(t)} = {order[i] : i \in 1 .. Len(order)} \ {order[p]}
            /\ \A i, j \in 1 .. Len(t) : t[i] = t[j] => i = j
      BY <3>2, <3>3, WithoutOrder, Zenon
    <3>5. order' = t
      BY <1>3, <2>1, <3>1, <3>4
    <3>6. Scheduled' = {t[i] : i \in 1 .. Len(t)}
      BY <1>1, <1>8, <2>1, <3>1, <3>4 DEF TasksFit, OrderFits
    <3> QED BY <3>4, <3>5, <3>6 DEF OrderFits, OrderDistinct
  <2>2. CASE ~done
    <3>1. order' = order /\ Scheduled' = Scheduled
      BY <1>3, <1>8, <2>2
    <3> QED BY <1>1, <3>1 DEF TasksFit, OrderFits, OrderDistinct
  <2> QED BY <2>1, <2>2
<1>10. TasksFit'
  <2>1. seen' \in [Ids -> SUBSET Ids]
    BY <1>1, <1>2, <1>4 DEF TasksFit
  <2>2. ASSUME NEW k \in Scheduled'
        PROVE  /\ tasks'[k].type # "dependency" => tasks'[k].dependencies = {}
               /\ k \notin tasks'[k].dependencies
               /\ seen'[k] \subseteq tasks'[k].dependencies
               /\ tasks'[k].waitingFor \subseteq tasks'[k].dependencies \ seen'[k]
    <3>1. k \in Scheduled /\ k \in Ids /\ ~(k = r.id /\ done)
      BY <1>8 DEF Scheduled
    <3>2. tasks'[k] = n.tasks[k]
      BY <1>7, <3>1
    <3>3. seen'[k] \subseteq seen[k] \union ({r.id} \intersect tasks[k].dependencies)
      BY <1>4, <3>1
    <3>4. /\ tasks[k].type # "dependency" => tasks[k].dependencies = {}
          /\ k \notin tasks[k].dependencies
          /\ seen[k] \subseteq tasks[k].dependencies
          /\ tasks[k].waitingFor \subseteq tasks[k].dependencies \ seen[k]
      BY <1>1, <3>1 DEF TasksFit, WaitingFits
    <3> QED BY <1>5, <3>1, <3>2, <3>3, <3>4
  <2> QED BY <1>7, <1>9, <2>1, <2>2 DEF TasksFit, WaitingFits
<1>11. ASSUME NEW x \in Runs'
       PROVE  x \in Runs \/ \E k \in Scheduled : x = FirstAttempt(k) /\
                  r.id \in tasks[k].dependencies
  <2>1. x \in BagToSet(n.runs)
    BY <1>3 DEF Runs
  <2>2. Copies(x, n.runs) > 0 /\ Copies(x, n.runs) \in Nat
    BY <1>6, <2>1, CopiesCount
  <2>3. CASE Copies(x, n.runs) > Copies(x, w.runs)
    <3>1. PICK k \in Ids : x = FirstAttempt(k) /\ w.tasks[k] # None /\
                               r.id \in w.tasks[k].dependencies
      BY <1>3, <2>3 DEF Follows
    <3>2. k \in Scheduled /\ r.id \in tasks[k].dependencies
      BY <1>2, <3>1 DEF Scheduled
    <3> QED BY <3>1, <3>2
  <2>4. CASE ~(Copies(x, n.runs) > Copies(x, w.runs))
    <3>1. Copies(x, w.runs) \in Nat /\ IsABag(w.runs)
      BY <1>2, CopiesCount DEF World
    <3>2. Copies(x, w.runs) > 0
      BY <2>2, <2>4, <3>1
    <3>3. x \in BagToSet(w.runs)
      BY <3>1, <3>2, CopiesCount
    <3> QED BY <3>3, <1>2
  <2> QED BY <2>3, <2>4
<1>12. RunsFit'
  <2>1. \A k \in Scheduled : FirstAttempt(k).phase # "sleeping"
    BY DEF FirstAttempt
  <2>2. \A x \in Runs' : x.phase = "sleeping" => x.attempt <= MaxRetries
    BY <1>1, <1>11, <2>1 DEF RunsFit
  <2> QED BY <1>3, <1>6, <2>2 DEF RunsFit, Runs
<1>13. TriggersFit'
  <2>1. ASSUME NEW k \in timeouts
        PROVE  /\ k \in Scheduled' /\ tasks'[k].type = "once" /\ tasks'[k].status = "scheduled"
               /\ \A x \in Runs' : x.id # k
    <3>1. /\ k \in Scheduled /\ k \in Ids /\ tasks[k].type = "once" /\ tasks[k].status = "scheduled"
          /\ \A x \in Runs : x.id # k
      BY <1>1 DEF TriggersFit, Scheduled
    <3>2. k # r.id
      BY <3>1
    <3>3. tasks[k].dependencies = {}
      BY <1>1, <3>1 DEF TasksFit, WaitingFits
    <3>4. k \in Scheduled' /\ tasks'[k] = n.tasks[k] /\ w.tasks[k] = tasks[k]
      BY <1>2, <1>7, <1>8, <3>1, <3>2
    <3>5. \A x \in Runs' : x.id # k
      <4>1. \A j \in Scheduled : FirstAttempt(j).id = j
        BY DEF FirstAttempt
      <4> QED BY <1>11, <3>1, <3>3, <4>1
    <3> QED BY <1>5, <3>1, <3>3, <3>4, <3>5
  <2>2. ASSUME NEW k \in Ids, cronJobs[k] # None
        PROVE  /\ k \in Scheduled' /\ tasks'[k].type = "cron"
               /\ cronJobs[k] = "started" => tasks'[k].status \notin {"cancelled", "paused"}
    <3>1. /\ k \in Scheduled /\ tasks[k].type = "cron"
          /\ cronJobs[k] = "started" => tasks[k].status \notin {"cancelled", "paused"}
      BY <1>1, <2>2 DEF TriggersFit
    <3>2. k \in Scheduled' /\ tasks'[k] = n.tasks[k]
      BY <1>7, <1>8, <3>1
    <3>3. w.tasks[k].status = tasks[k].status \/ w.tasks[k].status = "completed"
      BY <1>2, <3>1
    <3> QED BY <1>5, <3>1, <3>2, <3>3
  <2>3. \A k \in Ids : cronJobs[k] = "started" => cronJobs[k] # None
    BY SchedulerAssumption
  <2> QED BY <1>1, <1>4, <2>1, <2>2, <2>3 DEF TriggersFit
<1>14. RunningHasRun'
  <2> SUFFICES ASSUME NEW k \in Scheduled', tasks'[k].status = "running"
               PROVE  \E x \in Runs' : x.id = k
    BY DEF RunningHasRun
  <2>1. k \in Scheduled /\ k \in Ids /\ tasks'[k] = n.tasks[k]
    BY <1>7, <1>8 DEF Scheduled
  <2>2. CASE n.tasks[k].status = w.tasks[k].status
    <3>1. k # r.id
      BY <1>2, <2>1, <2>2
    <3>2. tasks[k].status = "running"
      BY <1>2, <2>1, <2>2, <3>1
    <3>3. PICK x \in Runs : x.id = k
      BY <1>1, <2>1, <3>2 DEF RunningHasRun
    <3>4. x # r /\ Copies(x, w.runs) = Copies(x, runs)
      BY <1>2, <3>1, <3>3
    <3>5. Copies(x, runs) > 0 /\ Copies(x, runs) \in Nat
      BY <1>1, CopiesCount DEF RunsFit, Runs
    <3>6. Copies(x, n.runs) >= Copies(x, w.runs)
      BY <1>3 DEF Follows
    <3>7. Copies(x, n.runs) > 0
      <4>1. Copies(x, n.runs) \in Nat
        BY <1>6, CopiesCount
      <4> QED BY <3>4, <3>5, <3>6, <4>1
    <3>8. x \in Runs'
      BY <1>3, <1>6, <3>7, CopiesCount DEF Runs
    <3> QED BY <3>3, <3>8
  <2>3. CASE n.tasks[k].status # w.tasks[k].status
    <3>1. Copies(FirstAttempt(k), n.runs) > 0
      BY <1>5, <2>1, <2>3
    <3>2. FirstAttempt(k) \in Runs'
      BY <1>3, <1>6, <3>1, CopiesCount DEF Runs
    <3> QED BY <3>2 DEF FirstAttempt
  <2> QED BY <2>2, <2>3
<1> QED BY <1>10, <1>12, <1>13, <1>14 DEF Inv

-----------------------------------------------------------------------------
(* What holds of every reachable state                                        *)

(* Every step preserves the invariant.                                        *)
LEMMA NextInv == Inv /\ [Next]_vars => Inv'
<1> SUFFICES ASSUME Inv, [Next]_vars PROVE Inv'
  OBVIOUS
<1>1. CASE Next
  <2>1. ASSUME NEW id \in Ids,
               \/ Schedule(id) \/ ScheduleRecurring(id) \/ ScheduleWithDeps(id)
               \/ TimeoutFires(id) \/ CronFires(id)
               \/ Cancel(id) \/ Pause(id) \/ Resume(id)
        PROVE  Inv'
    <3>1. Cancel(id) => Inv'
      BY CancelStep DEF Cancel
    <3> QED BY <2>1, <3>1, ScheduleStep, StartStep, CronStep
  <2>2. ASSUME NEW r \in Runs, Succeed(r) \/ FailAttempt(r) \/ FailTask(r) \/ Wake(r)
        PROVE  Inv'
    BY <2>2, SucceedStep, FailAttemptStep, FailTaskStep, WakeStep
  <2>3. CancelAll => Inv'
    BY CancelStep DEF CancelAll
  <2>4. Stop => Inv'
    BY StopStep
  <2> QED BY <1>1, <2>1, <2>2, <2>3, <2>4 DEF Next
<1>2. CASE UNCHANGED vars
  BY <1>2 DEF vars, Inv, TasksFit, OrderFits, OrderDistinct, WaitingFits, RunsFit, TriggersFit,
              RunningHasRun, Scheduled, Runs
<1> QED BY <1>1, <1>2

(* The invariant holds in every reachable state.                              *)
THEOREM SchedulerInv == Spec => []Inv
<1> QED BY InitInv, NextInv, PTL DEF Spec

(* The map and its order, the timeouts, the cron jobs and the runs fit        *)
(* together, for any number of tasks, runs and retries.                       *)
THEOREM SchedulerTypeCorrect == Spec => []TypeOK
<1>1. Inv => TypeOK
  BY InvImplies
<1> QED BY <1>1, SchedulerInv, PTL

(* A task reported as running has a run that has not returned, however its    *)
(* runs overlap; and a pending timeout or a started cron job belongs to a     *)
(* task that is still to run.                                                 *)
THEOREM SchedulerTasksAndRunsAgree == Spec => []TasksAndRunsAgree
<1>1. Inv => TasksAndRunsAgree
  BY InvImplies
<1> QED BY <1>1, SchedulerInv, PTL

-----------------------------------------------------------------------------
(* What a step starts                                                         *)

(* Starting a task adds its first attempt or nothing.                         *)
LEMMA StartAddsRun ==
    ASSUME Inv, NEW id \in Scheduled, Start(id)
    PROVE  \A x : /\ Copies(x, runs') \in {Copies(x, runs), Copies(x, runs) + 1}
                  /\ x # FirstAttempt(id) => Copies(x, runs') = Copies(x, runs)
<1>1. IsABag(runs)
  BY DEF Inv, RunsFit
<1>2. \A x : Copies(x, runs) \in Nat
  BY <1>1, CopiesCount
<1>3. tasks[id] # None
  BY DEF Scheduled
<1>4. runs' = runs \/ runs' = runs (+) SetToBag({FirstAttempt(id)})
  BY <1>3 DEF Start, Execute
<1>5. CASE runs' = runs (+) SetToBag({FirstAttempt(id)})
  <2>1. /\ Copies(FirstAttempt(id), runs') = Copies(FirstAttempt(id), runs) + 1
        /\ \A x : x # FirstAttempt(id) => Copies(x, runs') = Copies(x, runs)
    BY <1>1, <1>5, AddOne
  <2> QED BY <1>2, <2>1
<1>6. CASE runs' = runs
  BY <1>2, <1>6
<1> QED BY <1>4, <1>5, <1>6

(* A run that ends is one copy less of it ...                                 *)
LEMMA AttemptGone ==
    ASSUME Inv, NEW r \in Runs, runs' = runs (-) SetToBag({r})
    PROVE  /\ Copies(r, runs') = Copies(r, runs) - 1
           /\ \A x : x # r => Copies(x, runs') = Copies(x, runs)
<1>1. PICK B : B = runs (-) SetToBag({r})
  OBVIOUS
<1>2. IsABag(runs) /\ r \in BagToSet(runs)
  BY DEF Inv, RunsFit, Runs
<1>3. Copies(r, B) = Copies(r, runs) - 1 /\ \A x : x # r => Copies(x, B) = Copies(x, runs)
  BY <1>1, <1>2, DropOne
<1>4. runs' = B
  BY <1>1
<1> QED BY <1>3, <1>4

(* ... and one that goes on is one copy less of what it was and one more of   *)
(* what it is.                                                                *)
LEMMA AttemptMoves ==
    ASSUME Inv, NEW r \in Runs, NEW q, q # r,
           runs' = (runs (-) SetToBag({r})) (+) SetToBag({q})
    PROVE  /\ Copies(r, runs') = Copies(r, runs) - 1
           /\ Copies(q, runs') = Copies(q, runs) + 1
           /\ \A x : x # r /\ x # q => Copies(x, runs') = Copies(x, runs)
<1>1. PICK B : B = runs (-) SetToBag({r})
  OBVIOUS
<1>2. IsABag(runs) /\ r \in BagToSet(runs)
  BY DEF Inv, RunsFit, Runs
<1>3. IsABag(B) /\ Copies(r, B) = Copies(r, runs) - 1 /\ \A x : x # r =>
          Copies(x, B) = Copies(x, runs)
  BY <1>1, <1>2, DropOne
<1>4. PICK C : C = B (+) SetToBag({q})
  OBVIOUS
<1>5. Copies(q, C) = Copies(q, B) + 1 /\ \A x : x # q => Copies(x, C) = Copies(x, B)
  BY <1>3, <1>4, AddOne
<1>6. runs' = C
  BY <1>1, <1>4
<1> QED BY <1>3, <1>5, <1>6

(* What a run is made of.                                                     *)
LEMMA RunTypes ==
    ASSUME Inv, NEW r \in Runs
    PROVE  /\ r \in Run /\ r.id \in Ids /\ r.attempt \in Nat \ {0}
           /\ \A x : Copies(x, runs) \in Nat
           /\ Copies(r, runs) > 0
<1>1. r \in Run /\ IsABag(runs) /\ r \in BagToSet(runs)
  BY DEF Inv, RunsFit, Runs
<1>2. r.id \in Ids /\ r.attempt \in Nat \ {0}
  BY <1>1, SchedulerAssumption DEF Run
<1>3. (\A x : Copies(x, runs) \in Nat) /\ Copies(r, runs) > 0
  BY <1>1, CopiesCount
<1> QED BY <1>1, <1>2, <1>3

(* Only a success starts a dependent.                                         *)
LEMMA SuccessStarts ==
    ASSUME Inv, Next, NEW id \in Ids, Started(id), tasks[id].type = "dependency"
    PROVE  \E r \in Runs : Succeed(r)
<1>1. IsABag(runs) /\ \A x : Copies(x, runs) \in Nat
  BY CopiesCount DEF Inv, RunsFit
<1>2. runs' # runs
  BY <1>1 DEF Started
<1>3. ASSUME NEW k \in Ids, TimeoutFires(k) \/ CronFires(k)
      PROVE  FALSE
  <2>1. k \in Scheduled /\ Start(k) /\ tasks[k].type # "dependency"
    BY <1>3, SchedulerAssumption DEF Inv, TriggersFit, TimeoutFires, CronFires
  <2>2. FirstAttempt(id) # FirstAttempt(k)
    BY <2>1 DEF FirstAttempt
  <2>3. Copies(FirstAttempt(id), runs') = Copies(FirstAttempt(id), runs)
    BY <2>1, <2>2, StartAddsRun
  <2> QED BY <1>1, <2>3 DEF Started
<1>4. ASSUME NEW r \in Runs, NEW q, q # r, q # FirstAttempt(id),
             runs' = (runs (-) SetToBag({r})) (+) SetToBag({q})
      PROVE  FALSE
  <2>1. PICK x : x = FirstAttempt(id)
    OBVIOUS
  <2>2. /\ Copies(r, runs') = Copies(r, runs) - 1
        /\ \A y : y # r /\ y # q => Copies(y, runs') = Copies(y, runs)
    BY <1>4, AttemptMoves
  <2>3. x # q /\ Copies(x, runs') > Copies(x, runs) /\ Copies(x, runs) \in Nat
    BY <1>1, <1>4, <2>1 DEF Started
  <2> QED BY <2>2, <2>3
<1>5. ASSUME NEW r \in Runs, FailAttempt(r)
      PROVE  FALSE
  <2>1. r \in Run /\ r.phase = "executing"
    BY <1>5, RunTypes DEF FailAttempt
  <2>2. [r EXCEPT !.phase = "sleeping"] # r /\ [r EXCEPT !.phase = "sleeping"] # FirstAttempt(id)
    BY <2>1 DEF Run, FirstAttempt
  <2>3. runs' = (runs (-) SetToBag({r})) (+) SetToBag({[r EXCEPT !.phase = "sleeping"]})
    BY <1>5 DEF FailAttempt
  <2> QED BY <1>4, <2>2, <2>3
<1>6. ASSUME NEW r \in Runs, Wake(r)
      PROVE  FALSE
  <2>1. r \in Run /\ r.phase = "sleeping" /\ r.attempt \in Nat \ {0}
    BY <1>6, RunTypes DEF Wake
  <2> DEFINE q == [r EXCEPT !.phase = "executing", !.attempt = @ + 1]
  <2>2. q.attempt = r.attempt + 1 /\ q.phase = "executing"
    BY <2>1 DEF Run
  <2>3. runs' = (runs (-) SetToBag({r})) (+) SetToBag({q})
    BY <1>6 DEF Wake
  <2>4. FirstAttempt(id).attempt = 1
    BY DEF FirstAttempt
  <2> HIDE DEF q
  <2>5. q # r /\ q # FirstAttempt(id)
    BY <2>1, <2>2, <2>4
  <2> QED BY <1>4, <2>3, <2>5
<1>7. ASSUME NEW r \in Runs, FailTask(r)
      PROVE  FALSE
  <2>1. runs' = runs (-) SetToBag({r}) /\ r \in BagToSet(runs)
    BY <1>7 DEF FailTask, Runs
  <2>2. Copies(r, runs') = Copies(r, runs) - 1 /\ \A x : x # r => Copies(x, runs') = Copies(x, runs)
    BY <2>1, AttemptGone
  <2>3. PICK x : x = FirstAttempt(id)
    OBVIOUS
  <2>4. Copies(x, runs') > Copies(x, runs) /\ Copies(x, runs) \in Nat
    BY <1>1, <2>3 DEF Started
  <2> QED BY <2>2, <2>4
<1> QED BY <1>2, <1>3, <1>5, <1>6, <1>7
        DEF Next, Schedule, ScheduleRecurring, ScheduleWithDeps, Cancel, CancelAll, CancelTasks,
            Pause, Resume, Stop

(* The run that succeeds completes its task.                                  *)
LEMMA SuccessCompletes ==
    ASSUME Inv, NEW r \in Runs, Succeed(r), tasks[r.id] # None
    PROVE  Completes(r.id)
<1> DEFINE w == Settled(r)
           asleep == [r EXCEPT !.phase = "sleeping"]
<1>1. PICK n :
        /\ Follows(w, n, r.id)
        /\ runs' = n.runs
        /\ IF tasks[r.id] # None /\ tasks[r.id].type = "once"
              THEN tasks' = [n.tasks EXCEPT ![r.id] = None] /\ order' = Without(r.id)
              ELSE tasks' = n.tasks /\ order' = order
        /\ World(n)
  BY SucceedNext
<1>2. /\ r \in Run /\ r.id \in Ids
      /\ \A k \in Ids : w.tasks[k] = None <=> tasks[k] = None
      /\ \A k \in Ids : k # r.id => w.tasks[k] = tasks[k]
      /\ w.tasks[r.id].status = "completed"
      /\ w.tasks[r.id].dependencies = tasks[r.id].dependencies
      /\ Copies(r, w.runs) = Copies(r, runs) - 1
      /\ \A x : x # r => Copies(x, w.runs) = Copies(x, runs)
      /\ \A x : Copies(x, runs) \in Nat
  <2>1. r.id \in Scheduled
    BY SettledWorld DEF Scheduled
  <2> QED BY <2>1, SettledWorld
<1>3. r.phase = "executing"
  BY DEF Succeed
<1> HIDE DEF w
<1>4. r.id \notin tasks[r.id].dependencies
  BY <1>2 DEF Inv, TasksFit, WaitingFits, Scheduled
<1>5. tasks'[r.id] = None \/ tasks'[r.id].status = "completed"
  <2>1. n.tasks[r.id].status = "completed"
    BY <1>1, <1>2, <1>4 DEF Follows
  <2>2. r.id \in DOMAIN n.tasks
    BY <1>1, <1>2 DEF World
  <2> QED BY <1>1, <2>1, <2>2
<1>6. ASSUME NEW x, \A k \in Ids : x = FirstAttempt(k) => k = r.id
      PROVE  Copies(x, runs') = Copies(x, w.runs)
  <2>1. ~(Copies(x, n.runs) > Copies(x, w.runs))
    BY <1>1, <1>2, <1>4, <1>6 DEF Follows
  <2>2. Copies(x, n.runs) >= Copies(x, w.runs)
    BY <1>1 DEF Follows
  <2>3. Copies(x, n.runs) \in Nat /\ Copies(x, w.runs) \in Int
    <3>1. Copies(x, w.runs) \in Int
      BY <1>2
    <3> QED BY <1>1, <3>1, CopiesCount DEF World
  <2> QED BY <1>1, <2>1, <2>2, <2>3
<1>7. Copies(r, runs') = Copies(r, w.runs)
  <2>1. \A k \in Ids : r = FirstAttempt(k) => k = r.id
    BY DEF FirstAttempt
  <2> QED BY <1>6, <2>1
<1>8. Copies(asleep, runs') = Copies(asleep, w.runs) /\ asleep # r
  <2>1. asleep.phase = "sleeping"
    BY <1>2 DEF Run
  <2>2. \A k \in Ids : asleep # FirstAttempt(k)
    BY <2>1 DEF FirstAttempt
  <2> HIDE DEF asleep
  <2> QED BY <1>3, <1>6, <2>1, <2>2
<1>9. Copies(r, runs') < Copies(r, runs) /\ Copies(asleep, runs') = Copies(asleep, runs)
  BY <1>2, <1>7, <1>8
<1> QED BY <1>3, <1>5, <1>9 DEF Completes

(* A dependent starts on completed dependencies: of those in the map before   *)
(* the step, the loop can start but not complete any.                         *)
LEMMA StartedDependencies ==
    ASSUME Inv, NEW r \in Runs, Succeed(r), NEW id \in Ids, Started(id)
    PROVE  /\ tasks[id] # None
           /\ \A dep \in tasks[id].dependencies :
                /\ tasks[dep] # None
                /\ tasks[dep].status = "completed" \/ Completes(dep)
<1> DEFINE w == Settled(r)
<1>1. PICK n : Follows(w, n, r.id) /\ runs' = n.runs /\ World(n)
  BY SucceedNext
<1>2. /\ World(w) /\ r.id \in Ids
      /\ \A k \in Ids : w.tasks[k] = None <=> tasks[k] = None
      /\ \A k \in Ids : k # r.id => w.tasks[k] = tasks[k]
      /\ r.id \in Scheduled => w.tasks[r.id].dependencies = tasks[r.id].dependencies
      /\ Copies(r, w.runs) = Copies(r, runs) - 1
      /\ \A x : x # r => Copies(x, w.runs) = Copies(x, runs)
      /\ \A x : Copies(x, runs) \in Nat
  BY SettledWorld
<1> HIDE DEF w
<1>3. Copies(FirstAttempt(id), n.runs) > Copies(FirstAttempt(id), w.runs)
  <2>1. Copies(FirstAttempt(id), n.runs) \in Nat
    BY <1>1, CopiesCount DEF World
  <2> QED BY <1>1, <1>2, <2>1 DEF Started
<1>4. PICK k \in Ids :
        /\ FirstAttempt(id) = FirstAttempt(k) /\ w.tasks[k] # None
        /\ CheckDependencies(w.tasks[k], w.tasks)
  BY <1>1, <1>3 DEF Follows
<1>5. id = k
  BY <1>4 DEF FirstAttempt
<1>6. tasks[id] # None /\ w.tasks[id].dependencies = tasks[id].dependencies
  BY <1>2, <1>4, <1>5 DEF Scheduled
<1>7. ASSUME NEW dep \in tasks[id].dependencies
      PROVE  /\ tasks[dep] # None
             /\ tasks[dep].status = "completed" \/ Completes(dep)
  <2>1. w.tasks[dep] # None /\ w.tasks[dep].status = "completed"
    BY <1>4, <1>5, <1>6 DEF CheckDependencies
  <2>2. dep \in Ids
    BY <1>6 DEF Inv, TasksFit, Task
  <2>3. CASE dep = r.id
    BY <1>2, <2>1, <2>2, <2>3, SuccessCompletes
  <2>4. CASE dep # r.id
    BY <1>2, <2>1, <2>2, <2>4
  <2> QED BY <2>3, <2>4
<1> QED BY <1>6, <1>7

(* A dependent starts only when each of its dependencies is in the map and    *)
(* completed, or completes in the same step.                                  *)
THEOREM SchedulerDependenciesFirst == Spec => DependenciesFirst
<1>1. ASSUME Inv, [Next]_vars
      PROVE  [\A id \in Ids :
                Started(id) /\ tasks[id].type = "dependency" =>
                   \A dep \in tasks[id].dependencies :
                      /\ tasks[dep] # None
                      /\ tasks[dep].status = "completed" \/ Completes(dep)]_vars
  <2>1. CASE UNCHANGED vars
    BY <2>1
  <2>2. CASE Next
    <3> SUFFICES ASSUME NEW id \in Ids, Started(id), tasks[id].type = "dependency",
                        NEW dep \in tasks[id].dependencies
                 PROVE  /\ tasks[dep] # None
                        /\ tasks[dep].status = "completed" \/ Completes(dep)
      OBVIOUS
    <3>1. PICK r \in Runs : Succeed(r)
      BY <1>1, <2>2, SuccessStarts
    <3> QED BY <1>1, <3>1, StartedDependencies
  <2> QED BY <1>1, <2>1, <2>2
<1> QED BY <1>1, SchedulerInv, PTL DEF Spec, DependenciesFirst

(* What Completes reads off the runs is a success: an attempt that fails is   *)
(* asleep next, or leaves its task failed.                                    *)
LEMMA CompletionIsSuccess ==
    ASSUME Inv, Next, NEW last \in Ids, Completes(last)
    PROVE  \E r \in Runs : r.id = last /\ Succeed(r)
<1>1. PICK r \in Runs :
        /\ r.id = last /\ r.phase = "executing"
        /\ Copies(r, runs') < Copies(r, runs)
        /\ Copies([r EXCEPT !.phase = "sleeping"], runs') = Copies([r EXCEPT !.phase =
               "sleeping"], runs)
  BY DEF Completes
<1>2. Copies(r, runs) \in Nat /\ r \in Run /\ \A x : Copies(x, runs) \in Nat
  BY RunTypes
<1>3. runs' # runs
  BY <1>1, <1>2
<1>4. ASSUME NEW k \in Ids, TimeoutFires(k) \/ CronFires(k)
      PROVE  FALSE
  <2>1. k \in Scheduled /\ Start(k)
    BY <1>4, SchedulerAssumption DEF Inv, TriggersFit, TimeoutFires, CronFires
  <2>2. Copies(r, runs') \in {Copies(r, runs), Copies(r, runs) + 1}
    BY <2>1, StartAddsRun
  <2> QED BY <1>1, <1>2, <2>2
<1>5. ASSUME NEW q \in Runs, FailAttempt(q)
      PROVE  FALSE
  <2>1. q \in Run /\ q.phase = "executing"
    BY <1>5, RunTypes DEF FailAttempt
  <2> DEFINE asleep == [q EXCEPT !.phase = "sleeping"]
  <2>2. asleep.phase = "sleeping"
    BY <2>1 DEF Run
  <2>3. runs' = (runs (-) SetToBag({q})) (+) SetToBag({asleep})
    BY <1>5 DEF FailAttempt
  <2>4. q = r => Copies(asleep, runs') = Copies(asleep, runs)
    BY <1>1
  <2> HIDE DEF asleep
  <2>5. asleep # q /\ asleep # r
    BY <1>1, <2>1, <2>2
  <2>6. /\ Copies(asleep, runs') = Copies(asleep, runs) + 1
        /\ \A x : x # q /\ x # asleep => Copies(x, runs') = Copies(x, runs)
    BY <2>3, <2>5, AttemptMoves
  <2>7. CASE q = r
    BY <1>2, <2>4, <2>6, <2>7
  <2>8. CASE q # r
    <3>1. Copies(r, runs') = Copies(r, runs)
      BY <2>5, <2>6, <2>8
    <3> QED BY <1>1, <1>2, <3>1
  <2> QED BY <2>7, <2>8
<1>6. ASSUME NEW q \in Runs, Wake(q)
      PROVE  FALSE
  <2>1. q \in Run /\ q.phase = "sleeping"
    BY <1>6, RunTypes DEF Wake
  <2> DEFINE awake == [q EXCEPT !.phase = "executing", !.attempt = @ + 1]
  <2>2. awake.phase = "executing"
    BY <2>1 DEF Run
  <2>3. runs' = (runs (-) SetToBag({q})) (+) SetToBag({awake})
    BY <1>6 DEF Wake
  <2> HIDE DEF awake
  <2>4. awake # q /\ q # r
    BY <1>1, <2>1, <2>2
  <2>5. /\ Copies(awake, runs') = Copies(awake, runs) + 1
        /\ \A x : x # q /\ x # awake => Copies(x, runs') = Copies(x, runs)
    BY <2>3, <2>4, AttemptMoves
  <2>6. Copies(r, runs') = Copies(r, runs) \/ Copies(r, runs') = Copies(r, runs) + 1
    BY <2>4, <2>5
  <2> QED BY <1>1, <1>2, <2>6
<1>7. ASSUME NEW q \in Runs, FailTask(q)
      PROVE  FALSE
  <2>1. runs' = runs (-) SetToBag({q}) /\ tasks' = WithStatus(q.id, "failed")
    BY <1>7 DEF FailTask
  <2>2. \A x : x # q => Copies(x, runs') = Copies(x, runs)
    BY <2>1, AttemptGone
  <2>3. q = r
    BY <1>1, <1>2, <2>2
  <2>4. tasks[last] # None /\ (tasks'[last] = None \/ tasks'[last].status = "completed")
    BY DEF Completes
  <2>5. tasks[last] \in Task /\ tasks \in [Ids -> Task \union {None}]
    BY <2>4 DEF Inv, TasksFit
  <2>6. tasks' = [tasks EXCEPT ![last].status = "failed"]
    BY <1>1, <2>1, <2>3, <2>4 DEF WithStatus
  <2>7. tasks'[last] = [tasks[last] EXCEPT !.status = "failed"]
    BY <2>5, <2>6
  <2>8. tasks'[last].status = "failed" /\ tasks'[last] \in Task
    BY <2>5, <2>7 DEF Task, Statuses
  <2> QED BY <2>4, <2>8, SchedulerAssumption
<1>8. ASSUME NEW q \in Runs, Succeed(q), q # r
      PROVE  FALSE
  <2>1. PICK n : World(n) /\ Follows(Settled(q), n, q.id) /\ runs' = n.runs
    BY <1>8, SucceedNext
  <2>2. Copies(r, Settled(q).runs) = Copies(r, runs)
    BY <1>8, SettledWorld
  <2>3. Copies(r, n.runs) >= Copies(r, Settled(q).runs)
    BY <2>1 DEF Follows
  <2>4. Copies(r, n.runs) \in Nat
    BY <2>1, CopiesCount DEF World
  <2>5. Copies(r, runs') = Copies(r, n.runs)
    BY <2>1
  <2> QED BY <1>1, <1>2, <2>2, <2>3, <2>4, <2>5
<1> QED BY <1>1, <1>3, <1>4, <1>5, <1>6, <1>7, <1>8
        DEF Next, Schedule, ScheduleRecurring, ScheduleWithDeps, Cancel, CancelAll, CancelTasks,
            Pause, Resume, Stop

(* The success of a dependency starts a dependent whose other dependencies    *)
(* were seen to complete and are completed still.                             *)
LEMMA LastDependencyStarts ==
    ASSUME Inv, NEW r \in Runs, Succeed(r), tasks[r.id] # None,
           NEW id \in Ids, tasks[id] # None, r.id \in tasks[id].dependencies,
           \A dep \in tasks[id].dependencies \ {r.id} :
               /\ dep \in seen[id]
               /\ tasks'[dep] # None /\ tasks'[dep].status = "completed"
    PROVE  Started(id)
<1> DEFINE w == Settled(r)
<1>1. PICK n :
        /\ World(n) /\ Follows(w, n, r.id)
        /\ \A k \in Ids :
              /\ w.tasks[k] # None /\ Told(w, r.id, k) /\ w.tasks[k].waitingFor \subseteq {r.id}
              /\ CheckDependencies(w.tasks[k], n.tasks)
              => Copies(FirstAttempt(k), n.runs) > Copies(FirstAttempt(k), w.runs)
        /\ runs' = n.runs
        /\ IF tasks[r.id] # None /\ tasks[r.id].type = "once"
              THEN tasks' = [n.tasks EXCEPT ![r.id] = None] /\ order' = Without(r.id)
              ELSE tasks' = n.tasks /\ order' = order
  BY SucceedNext
<1>2. r.id \in Ids
  BY SettledWorld
<1>3. r.id \in Scheduled /\ id \in Scheduled
  BY <1>2 DEF Scheduled
<1>4. /\ \A k \in Ids : w.tasks[k] = None <=> tasks[k] = None
      /\ \A k \in Ids : k # r.id => w.tasks[k] = tasks[k]
      /\ w.tasks[r.id].status = "completed"
      /\ w.tasks[r.id].dependencies = tasks[r.id].dependencies
      /\ \A x : x # r => Copies(x, w.runs) = Copies(x, runs)
  BY <1>3, SettledWorld
<1> HIDE DEF w
<1>5. /\ r.id \notin tasks[r.id].dependencies /\ id \notin tasks[id].dependencies
      /\ tasks[id].waitingFor \subseteq tasks[id].dependencies \ seen[id]
      /\ tasks[id].type = "dependency"
      /\ tasks[id].dependencies \subseteq Ids
  BY <1>3 DEF Inv, TasksFit, WaitingFits, Task
<1>6. id # r.id /\ w.tasks[id] = tasks[id]
  BY <1>4, <1>5
<1>7. Told(w, r.id, id) /\ w.tasks[id].waitingFor \subseteq {r.id}
  BY <1>5, <1>6 DEF Told
<1>8. CheckDependencies(w.tasks[id], n.tasks)
  <2> SUFFICES ASSUME NEW dep \in tasks[id].dependencies
               PROVE  n.tasks[dep] # None /\ n.tasks[dep].status = "completed"
    BY <1>6 DEF CheckDependencies
  <2>1. CASE dep = r.id
    BY <1>1, <1>2, <1>4, <1>5, <2>1 DEF Follows
  <2>2. CASE dep # r.id
    <3>1. tasks'[dep] # None /\ tasks'[dep].status = "completed" /\ dep \in Ids
      BY <1>5, <2>2
    <3>2. dep \in DOMAIN n.tasks /\ tasks'[dep] = n.tasks[dep]
      BY <1>1, <2>2, <3>1 DEF World
    <3> QED BY <3>1, <3>2
  <2> QED BY <2>1, <2>2
<1>9. Copies(FirstAttempt(id), n.runs) > Copies(FirstAttempt(id), w.runs)
  BY <1>1, <1>6, <1>7, <1>8
<1>10. FirstAttempt(id) # r
  BY <1>6 DEF FirstAttempt
<1>11. Copies(FirstAttempt(id), w.runs) = Copies(FirstAttempt(id), runs)
  BY <1>4, <1>10
<1> QED BY <1>1, <1>9, <1>11 DEF Started

(* The completion of the last dependency starts the dependent in the same     *)
(* step, also when that dependency leaves the map with it.                    *)
THEOREM SchedulerDependentsStart == Spec => DependentsStart
<1>1. ASSUME Inv, [Next]_vars
      PROVE  [\A id, last \in Ids :
                 /\ tasks[id] # None /\ tasks[id].status = "scheduled"
                 /\ last \in tasks[id].dependencies /\ Completes(last)
                 /\ \A dep \in tasks[id].dependencies \ {last} :
                       /\ dep \in seen[id]
                       /\ tasks'[dep] # None /\ tasks'[dep].status = "completed"
                 => Started(id)]_vars
  <2>1. CASE UNCHANGED vars
    BY <2>1
  <2>2. CASE Next
    <3> SUFFICES ASSUME NEW id \in Ids, NEW last \in Ids, tasks[id] # None,
                        last \in tasks[id].dependencies, Completes(last),
                        \A dep \in tasks[id].dependencies \ {last} :
                            /\ dep \in seen[id]
                            /\ tasks'[dep] # None /\ tasks'[dep].status = "completed"
                 PROVE  Started(id)
      OBVIOUS
    <3>1. PICK r \in Runs : r.id = last /\ Succeed(r)
      BY <1>1, <2>2, CompletionIsSuccess
    <3>2. tasks[r.id] # None
      BY <3>1 DEF Completes
    <3> QED BY <1>1, <3>1, <3>2, LastDependencyStarts
  <2> QED BY <1>1, <2>1, <2>2
<1> QED BY <1>1, SchedulerInv, PTL DEF Spec, DependentsStart
==============================================================================
