------------------------------ MODULE TaskQueue ------------------------------
(* The priority queue of tasks, src/queue/task-queue.js: a binary heap with   *)
(* an index of the positions in it, and a map of the tasks by id.  No method  *)
(* awaits anything, so each is one action.  The heap is a sequence here, so   *)
(* its positions are the array's plus one.                                    *)
EXTENDS Naturals, FiniteSets, Sequences

CONSTANTS
    Ids,           \* the ids callers use
    Priorities,    \* the numeric priorities, 0 the most urgent
    MaxSize,       \* options.maxSize
    MaxSequence,   \* bound: the tasks enqueued in one behaviour
    None           \* "not in the map"

Task == [id: Ids, priority: Priorities, sequence: Nat]

ASSUME QueueAssumption ==
    /\ Priorities \subseteq Nat
    /\ MaxSize \in Nat /\ MaxSequence \in Nat
    /\ None \notin Task \union Nat

VARIABLES
    heap,             \* this.heap.heap
    indexMap,         \* this.heap.indexMap: the position of each id, or None
    taskMap,          \* this.taskMap: the task of each id, or None
    enqueueSequence,  \* this.enqueueSequence
    dequeued          \* what the last call handed out, or None

vars == <<heap, indexMap, taskMap, enqueueSequence, dequeued>>

Init ==
    /\ heap = << >>
    /\ indexMap = [id \in Ids |-> None]
    /\ taskMap = [id \in Ids |-> None]
    /\ enqueueSequence = 0
    /\ dequeued = None

-----------------------------------------------------------------------------
(* The heap.  Its operations take and return a record of the array and the    *)
(* index.  Sequences are unique, so #compare() never gets to its further      *)
(* keys.                                                                      *)

(* Mutant of Before: among equals the newest comes first. *)
BeforeNewest(a, b) ==
    \/ a.priority < b.priority
    \/ a.priority = b.priority /\ a.sequence > b.sequence

Before(a, b) ==
    \/ a.priority < b.priority
    \/ a.priority = b.priority /\ a.sequence < b.sequence

(* Mutant of Swap: only one of the two positions is recorded. *)
SwapOneIndex(q, i, j) ==
    [heap |-> [q.heap EXCEPT ![i] = q.heap[j], ![j] = q.heap[i]],
     indexMap |-> [q.indexMap EXCEPT ![q.heap[j].id] = i]]

Swap(q, i, j) ==
    [heap |-> [q.heap EXCEPT ![i] = q.heap[j], ![j] = q.heap[i]],
     indexMap |-> [q.indexMap EXCEPT ![q.heap[j].id] = i, ![q.heap[i].id] = j]]

(* One round of a loop takes and returns the heap and the position it is at;  *)
(* a round that has nothing to swap changes nothing.                          *)
Rise(s) ==
    LET parent == s.at \div 2 IN
    IF s.at > 1 /\ Before(s.q.heap[s.at], s.q.heap[parent])
    THEN [q |-> Swap(s.q, s.at, parent), at |-> parent]
    ELSE s

HeapifyUp(q, i) ==
    LET after[k \in 0 .. i] ==
            IF k = 0 THEN [q |-> q, at |-> i] ELSE Rise(after[k - 1])
    IN  after[i].q

(* The first of i and its children: the left one when nothing comes before.   *)
Smallest(h, i) ==
    CHOOSE k \in {i, 2 * i, 2 * i + 1} \intersect DOMAIN h :
        \A j \in {i, 2 * i, 2 * i + 1} \intersect DOMAIN h :
            j # k => Before(h[k], h[j])

Sink(s) ==
    LET smallest == Smallest(s.q.heap, s.at) IN
    IF smallest = s.at THEN s
    ELSE [q |-> Swap(s.q, s.at, smallest), at |-> smallest]

HeapifyDown(q, i) ==
    LET after[k \in 0 .. Len(q.heap)] ==
            IF k = 0 THEN [q |-> q, at |-> i] ELSE Sink(after[k - 1])
    IN  after[Len(q.heap)].q

Insert(q, task) ==
    LET last == Len(q.heap) + 1 IN
    HeapifyUp([heap |-> Append(q.heap, task),
               indexMap |-> [q.indexMap EXCEPT ![task.id] = last]], last)

(* The last task takes the place of the one taken out at i.                   *)
Replace(q, i) ==
    LET n == Len(q.heap)
        last == q.heap[n] IN
    [heap |-> [j \in 1 .. (n - 1) |-> IF j = i THEN last ELSE q.heap[j]],
     indexMap |-> IF i < n
                  THEN [q.indexMap EXCEPT ![q.heap[i].id] = None, ![last.id] = i]
                  ELSE [q.indexMap EXCEPT ![q.heap[i].id] = None]]

ExtractMin(q) ==
    LET left == Replace(q, 1) IN
    IF left.heap = << >> THEN left ELSE HeapifyDown(left, 1)

(* Mutant of RemoveTask: the last task is only ever moved down. *)
RemoveTaskDownOnly(q, id) ==
    LET i == q.indexMap[id]
        left == Replace(q, i) IN
    IF i <= Len(left.heap) THEN HeapifyDown(left, i) ELSE left

RemoveTask(q, id) ==
    LET i == q.indexMap[id]
        left == Replace(q, i) IN
    IF i <= Len(left.heap) THEN HeapifyDown(HeapifyUp(left, i), i) ELSE left

UpdatePriority(q, id, priority) ==
    LET i == q.indexMap[id]
        old == q.heap[i].priority
        updated == [q EXCEPT !.heap[i].priority = priority] IN
    IF priority < old THEN HeapifyUp(updated, i)
    ELSE IF priority > old THEN HeapifyDown(updated, i)
    ELSE updated

-----------------------------------------------------------------------------
(* The queue.                                                                 *)

Queue == [heap |-> heap, indexMap |-> indexMap]

Becomes(q) == heap' = q.heap /\ indexMap' = q.indexMap

(* Mutant of Enqueue: neither the id nor the size is checked. *)
EnqueueUnchecked(id, priority) ==
    LET task == [id |-> id, priority |-> priority, sequence |-> enqueueSequence] IN
    /\ enqueueSequence < MaxSequence
    /\ Becomes(Insert(Queue, task))
    /\ taskMap' = [taskMap EXCEPT ![id] = task]
    /\ enqueueSequence' = enqueueSequence + 1
    /\ dequeued' = None

(* A known id, or a full queue, is an error and changes nothing.              *)
Enqueue(id, priority) ==
    LET task == [id |-> id, priority |-> priority, sequence |-> enqueueSequence] IN
    /\ enqueueSequence < MaxSequence
    /\ taskMap[id] = None
    /\ Len(heap) < MaxSize
    /\ Becomes(Insert(Queue, task))
    /\ taskMap' = [taskMap EXCEPT ![id] = task]
    /\ enqueueSequence' = enqueueSequence + 1
    /\ dequeued' = None

Dequeue ==
    /\ heap # << >>
    /\ Becomes(ExtractMin(Queue))
    /\ taskMap' = [taskMap EXCEPT ![heap[1].id] = None]
    /\ dequeued' = heap[1]
    /\ UNCHANGED enqueueSequence

(* The task in the map and the one in the heap are one object.                *)
Reprioritize(id, priority) ==
    /\ taskMap[id] # None /\ indexMap[id] # None
    /\ Becomes(UpdatePriority(Queue, id, priority))
    /\ taskMap' = [taskMap EXCEPT ![heap[indexMap[id]].id].priority = priority]
    /\ dequeued' = None
    /\ UNCHANGED enqueueSequence

Remove(id) ==
    /\ indexMap[id] # None
    /\ Becomes(RemoveTask(Queue, id))
    /\ taskMap' = [taskMap EXCEPT ![id] = None]
    /\ dequeued' = None
    /\ UNCHANGED enqueueSequence

Clear ==
    /\ heap' = << >>
    /\ indexMap' = [id \in Ids |-> None]
    /\ taskMap' = [id \in Ids |-> None]
    /\ dequeued' = None
    /\ UNCHANGED enqueueSequence

(* toArray(): the tasks of the map, put into a heap of their own and taken    *)
(* out of it one by one.                                                      *)
InsertOne(s) ==
    LET task == CHOOSE t \in s.left : TRUE IN
    [q |-> Insert(s.q, task), left |-> s.left \ {task}]

InsertAll(q, tasks) ==
    LET after[k \in 0 .. Cardinality(tasks)] ==
            IF k = 0 THEN [q |-> q, left |-> tasks] ELSE InsertOne(after[k - 1])
    IN  after[Cardinality(tasks)].q

ExtractOne(s) == [q |-> ExtractMin(s.q), out |-> Append(s.out, s.q.heap[1])]

ExtractAll(q) ==
    LET after[k \in 0 .. Len(q.heap)] ==
            IF k = 0 THEN [q |-> q, out |-> << >>] ELSE ExtractOne(after[k - 1])
    IN  after[Len(q.heap)].out

Tasks == {taskMap[id] : id \in {i \in Ids : taskMap[i] # None}}

(* Mutant of ToArray: the array of the heap as it is. *)
ToArrayAsIs == heap

ToArray ==
    ExtractAll(InsertAll([heap |-> << >>, indexMap |-> [id \in Ids |-> None]], Tasks))

Next ==
    \/ \E id \in Ids :
          \/ Remove(id)
          \/ \E priority \in Priorities :
                Enqueue(id, priority) \/ Reprioritize(id, priority)
    \/ Dequeue
    \/ Clear

Spec == Init /\ [][Next]_vars

-----------------------------------------------------------------------------
(* What the queue promises.                                                   *)

(* Tasks, positions and sequences are in range (the fields of l. 56-59, 293-  *)
(* 298).                                                                      *)
TypeOK ==
    /\ heap \in Seq(Task) /\ Len(heap) <= MaxSize
    /\ indexMap \in [Ids -> Nat \union {None}]
    /\ taskMap \in [Ids -> Task \union {None}]
    /\ enqueueSequence \in 0 .. MaxSequence
    /\ dequeued \in Task \union {None}

(* No task comes before its parent: after any sequence of insertions,         *)
(* extractions, removals from the middle and changes of priority, the array   *)
(* is a heap (l. 125-156, 213-253).                                           *)
HeapOrdered == \A i \in 2 .. Len(heap) : Before(heap[i \div 2], heap[i])

(* The index finds every task of the heap where it is and no other, and the   *)
(* map holds the same tasks with the same priorities: a removal or a change   *)
(* of priority by id reaches the task meant (l. 115-119, 213, 235).           *)
IndexAndMapAgree ==
    /\ \A id \in Ids : indexMap[id] # None =>
          /\ indexMap[id] \in DOMAIN heap
          /\ heap[indexMap[id]] = taskMap[id] /\ taskMap[id].id = id
    /\ \A i \in DOMAIN heap : indexMap[heap[i].id] = i
    /\ \A id \in Ids : taskMap[id] # None => indexMap[id] # None

(* "Get all tasks sorted by priority" (l. 535): what toArray() returns is all *)
(* the tasks, each before those that would be dequeued after it.              *)
ToArraySorted ==
    LET sorted == ToArray IN
    /\ {sorted[i] : i \in DOMAIN sorted} = Tasks
    /\ \A i \in 2 .. Len(sorted) : Before(sorted[i - 1], sorted[i])

(* The heap, its index and the map implement a set of tasks from which the    *)
(* most urgent one is taken, the oldest among equals (PriorityQueue).         *)
Abstract == INSTANCE PriorityQueue WITH waiting <- Tasks, arrivals <- enqueueSequence,
                                        served <- dequeued
ImplementsPriorityQueue == Abstract!Spec
==============================================================================
