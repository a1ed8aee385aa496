---------------------------- MODULE PriorityQueue ----------------------------
(* What a queue of prioritised tasks promises, whatever it is made of: a set  *)
(* of waiting tasks from which the most urgent one is served, the one that    *)
(* arrived first among equals.  A change of priority keeps the arrival.       *)
EXTENDS Naturals, FiniteSets

CONSTANTS Ids, Priorities, MaxSize, None

VARIABLES
    waiting,    \* the tasks in the queue
    arrivals,   \* how many tasks ever arrived
    served      \* the task the last call handed out, or None

vars == <<waiting, arrivals, served>>

Init == waiting = {} /\ arrivals = 0 /\ served = None

MoreUrgent(a, b) ==
    \/ a.priority < b.priority
    \/ a.priority = b.priority /\ a.sequence < b.sequence

Arrive(id, priority) ==
    /\ \A t \in waiting : t.id # id
    /\ Cardinality(waiting) < MaxSize
    /\ waiting' = waiting \union
                    {[id |-> id, priority |-> priority, sequence |-> arrivals]}
    /\ arrivals' = arrivals + 1
    /\ served' = None

Serve(task) ==
    /\ \A t \in waiting \ {task} : MoreUrgent(task, t)
    /\ waiting' = waiting \ {task}
    /\ served' = task
    /\ UNCHANGED arrivals

Change(task, priority) ==
    /\ waiting' = (waiting \ {task}) \union {[task EXCEPT !.priority = priority]}
    /\ served' = None
    /\ UNCHANGED arrivals

Withdraw(tasks) ==
    /\ waiting' = waiting \ tasks
    /\ served' = None
    /\ UNCHANGED arrivals

Next ==
    \/ \E id \in Ids, priority \in Priorities : Arrive(id, priority)
    \/ \E task \in waiting :
          \/ Serve(task)
          \/ \E priority \in Priorities : Change(task, priority)
          \/ Withdraw({task})
    \/ Withdraw(waiting)

Spec == Init /\ [][Next]_vars
==============================================================================
