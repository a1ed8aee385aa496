--------------------------- MODULE TaskQueueProofs ---------------------------
(* Proofs about TaskQueue, for any ids, priorities, size and number of tasks. *)
(*                                                                            *)
(* The invariant adds to HeapOrdered and to the agreement of heap, index and  *)
(* map that sequences differ and lie below the counter: without it two tasks  *)
(* could come before one another in neither order, heapifyDown would compare  *)
(* children it cannot tell apart, and the task served need not be the oldest. *)
(*                                                                            *)
(* In the middle of an operation the array is a heap but for one task.  Apart *)
(* says so, MayRise and MaySink say on which side that task may be out of     *)
(* order, and each round of a loop moves the place or ends it.  The loops are *)
(* functions over the number of rounds; what holds after every round is       *)
(* proved by induction over them.                                             *)
EXTENDS TaskQueue, FiniteSetTheorems, WellFoundedInduction, TLAPS

(* A heap and an index that agree.                                            *)
Fits(q) ==
    /\ q = [heap |-> q.heap, indexMap |-> q.indexMap]
    /\ q.heap \in Seq(Task)
    /\ q.indexMap \in [Ids -> Nat \union {None}]
    /\ \A i \in DOMAIN q.heap : q.indexMap[q.heap[i].id] = i
    /\ \A id \in Ids : q.indexMap[id] # None =>
          q.indexMap[id] \in DOMAIN q.heap /\ q.heap[q.indexMap[id]].id = id

(* The tasks of a heap.                                                       *)
Items(q) == {q.heap[i] : i \in DOMAIN q.heap}

(* Tasks have different sequences, so that of two one comes before the other. *)
Aged(tasks) == \A t, u \in tasks : t.sequence = u.sequence => t = u

(* The parent of j comes before it.                                           *)
Edge(h, j) == Before(h[j \div 2], h[j])

(* The array is a heap.                                                       *)
Ordered(h) == \A j \in 2 .. Len(h) : Edge(h, j)

(* Ordered but for what sits at i, and so that its parent and its children    *)
(* would be in order without it.                                              *)
Apart(h, i) ==
    /\ \A j \in 2 .. Len(h) : j # i /\ j \div 2 # i => Edge(h, j)
    /\ i > 1 => \A j \in 2 .. Len(h) : j \div 2 = i => Before(h[i \div 2], h[j])

(* Only the task at i and its parent may be out of order: what heapifyUp      *)
(* mends.                                                                     *)
MayRise(h, i) == Apart(h, i) /\ \A j \in 2 .. Len(h) : j \div 2 = i => Edge(h, j)

(* Only the task at i and its children may be: what heapifyDown mends.        *)
MaySink(h, i) == Apart(h, i) /\ (i > 1 => Edge(h, i))

-----------------------------------------------------------------------------
(* Positions and order                                                        *)

(* Positions, children and parents.                                           *)
LEMMA Halves ==
    \A j \in Nat : /\ j \div 2 \in Nat
                   /\ j = 2 * (j \div 2) \/ j = 2 * (j \div 2) + 1
OBVIOUS

(* The children of i are 2 i and 2 i + 1.                                     *)
LEMMA HalfOf ==
    ASSUME NEW j \in Nat, NEW i \in Nat
    PROVE  j \div 2 = i <=> j = 2 * i \/ j = 2 * i + 1
OBVIOUS

(* Every position but the first has a parent before it.                       *)
LEMMA Parents ==
    ASSUME NEW n \in Nat, NEW j \in 2 .. n
    PROVE  j \div 2 \in 1 .. n /\ j \div 2 < j /\ j \div 2 # j
OBVIOUS

(* #compare() is a strict order, total on tasks of different sequences.       *)
LEMMA BeforeOrder ==
    ASSUME NEW s \in Task, NEW t \in Task, NEW u \in Task
    PROVE  /\ Before(s, t) /\ Before(t, u) => Before(s, u)
           /\ s.sequence # t.sequence => Before(s, t) \/ Before(t, s)
           /\ ~Before(s, s)
<1>1. /\ s.priority \in Nat /\ t.priority \in Nat /\ u.priority \in Nat
      /\ s.sequence \in Nat /\ t.sequence \in Nat /\ u.sequence \in Nat
  BY QueueAssumption DEF Task
<1> QED BY <1>1 DEF Before

(* What a heap is made of.                                                    *)
LEMMA HeapDomain ==
    ASSUME NEW h \in Seq(Task)
    PROVE  /\ Len(h) \in Nat /\ DOMAIN h = 1 .. Len(h)
           /\ \A i \in 1 .. Len(h) : h[i] \in Task /\ h[i].id \in Ids
<1>1. Len(h) \in Nat /\ DOMAIN h = 1 .. Len(h) /\ \A i \in 1 .. Len(h) : h[i] \in Task
  OBVIOUS
<1>2. \A t \in Task : t.id \in Ids
  BY DEF Task
<1> QED BY <1>1, <1>2

(* The tasks of a heap, by position.                                          *)
LEMMA ItemsOf ==
    ASSUME NEW q, q.heap \in Seq(Task)
    PROVE  \A x : x \in Items(q) <=> \E k \in 1 .. Len(q.heap) : x = q.heap[k]
BY DEF Items

(* Swapping two tasks keeps heap and index in agreement.                      *)
LEMMA SwapFits ==
    ASSUME NEW q, Fits(q), NEW i \in 1 .. Len(q.heap), NEW j \in 1 .. Len(q.heap), i # j
    PROVE  /\ Fits(Swap(q, i, j)) /\ Items(Swap(q, i, j)) = Items(q)
           /\ Len(Swap(q, i, j).heap) = Len(q.heap)
           /\ Swap(q, i, j).heap[i] = q.heap[j] /\ Swap(q, i, j).heap[j] = q.heap[i]
           /\ \A k \in 1 .. Len(q.heap) : k # i /\ k # j => Swap(q, i, j).heap[k] = q.heap[k]
<1> DEFINE h == q.heap
           g == [h EXCEPT ![i] = h[j], ![j] = h[i]]
           n == Len(h)
           m == [q.indexMap EXCEPT ![h[j].id] = i, ![h[i].id] = j]
<1>1. /\ h \in Seq(Task) /\ n \in Nat /\ DOMAIN h = 1 .. n
      /\ \A k \in 1 .. n : h[k] \in Task /\ h[k].id \in Ids /\ q.indexMap[h[k].id] = k
      /\ q.indexMap \in [Ids -> Nat \union {None}]
      /\ \A id \in Ids : q.indexMap[id] # None =>
            q.indexMap[id] \in 1 .. n /\ h[q.indexMap[id]].id = id
  BY HeapDomain DEF Fits
<1>2. Swap(q, i, j) = [heap |-> g, indexMap |-> m]
  BY DEF Swap
<1>3. g \in Seq(Task) /\ Len(g) = n /\ DOMAIN g = 1 .. n
  BY <1>1
<1>4. g[i] = h[j] /\ g[j] = h[i] /\ \A k \in 1 .. n : k # i /\ k # j => g[k] = h[k]
  BY <1>1
<1>5. h[i].id # h[j].id
  BY <1>1
<1>6. /\ m \in [Ids -> Nat \union {None}] /\ m[h[j].id] = i /\ m[h[i].id] = j
      /\ \A id \in Ids : id # h[i].id /\ id # h[j].id => m[id] = q.indexMap[id]
  BY <1>1, <1>5
<1> HIDE DEF g, m
<1>7. \A k \in 1 .. n : m[g[k].id] = k
  <2> SUFFICES ASSUME NEW k \in 1 .. n PROVE m[g[k].id] = k
    OBVIOUS
  <2>1. CASE k = i
    BY <2>1, <1>4, <1>6
  <2>2. CASE k = j
    BY <2>2, <1>4, <1>6
  <2>3. CASE k # i /\ k # j
    <3>1. g[k] = h[k] /\ h[k].id \in Ids /\ q.indexMap[h[k].id] = k
      BY <2>3, <1>1, <1>4
    <3>2. h[k].id # h[i].id /\ h[k].id # h[j].id
      BY <2>3, <3>1, <1>1
    <3>3. m[h[k].id] = q.indexMap[h[k].id]
      BY <3>1, <3>2, <1>6
    <3> QED BY <3>1, <3>3
  <2> QED BY <2>1, <2>2, <2>3
<1>8. \A id \in Ids : m[id] # None => m[id] \in 1 .. n /\ g[m[id]].id = id
  <2> SUFFICES ASSUME NEW id \in Ids, m[id] # None
               PROVE  m[id] \in 1 .. n /\ g[m[id]].id = id
    OBVIOUS
  <2>1. CASE id = h[i].id
    BY <2>1, <1>4, <1>6
  <2>2. CASE id = h[j].id
    BY <2>2, <1>4, <1>6
  <2>3. CASE id # h[i].id /\ id # h[j].id
    <3>1. m[id] = q.indexMap[id] /\ m[id] \in 1 .. n /\ h[m[id]].id = id
      BY <2>3, <1>1, <1>6
    <3>2. m[id] # i /\ m[id] # j
      BY <2>3, <3>1
    <3> QED BY <3>1, <3>2, <1>4
  <2> QED BY <2>1, <2>2, <2>3
<1>9. Fits([heap |-> g, indexMap |-> m])
  BY <1>3, <1>6, <1>7, <1>8 DEF Fits
<1>10. \A x : (\E k \in 1 .. n : x = g[k]) <=> (\E k \in 1 .. n : x = h[k])
  <2>1. ASSUME NEW k \in 1 .. n PROVE \E l \in 1 .. n : g[k] = h[l]
    BY <1>4
  <2>2. ASSUME NEW k \in 1 .. n PROVE \E l \in 1 .. n : h[k] = g[l]
    BY <1>4
  <2> HIDE DEF h, n
  <2> QED BY <2>1, <2>2
<1>11. Items([heap |-> g, indexMap |-> m]) = Items(q)
  <2>1. PICK p : p = [heap |-> g, indexMap |-> m]
    OBVIOUS
  <2>2. p.heap = g
    BY <2>1
  <2>3. \A x : x \in Items(p) <=> \E k \in 1 .. n : x = g[k]
    BY <1>3, <2>2, ItemsOf
  <2>4. \A x : x \in Items(q) <=> \E k \in 1 .. n : x = h[k]
    BY <1>1, ItemsOf
  <2>5. \A x : x \in Items(p) <=> x \in Items(q)
    BY <1>10, <2>3, <2>4
  <2>6. Items(p) = Items(q)
    BY <2>5 DEF Items
  <2> QED BY <2>1, <2>6
<1> QED BY <1>2, <1>3, <1>4, <1>9, <1>11

(* Two tasks of a heap differ, and one comes before the other.                *)
LEMMA ItemsDiffer ==
    ASSUME NEW q, Fits(q), Aged(Items(q)),
           NEW i \in 1 .. Len(q.heap), NEW j \in 1 .. Len(q.heap), i # j
    PROVE  /\ q.heap[i] \in Task /\ q.heap[j] \in Task
           /\ q.heap[i].id # q.heap[j].id
           /\ Before(q.heap[i], q.heap[j]) \/ Before(q.heap[j], q.heap[i])
<1>1. /\ q.heap \in Seq(Task)
      /\ \A k \in 1 .. Len(q.heap) : q.heap[k] \in Task /\ q.indexMap[q.heap[k].id] = k
  BY HeapDomain DEF Fits
<1>2. q.heap[i].id # q.heap[j].id
  BY <1>1
<1>3. q.heap[i] \in Items(q) /\ q.heap[j] \in Items(q)
  BY <1>1, ItemsOf
<1>4. q.heap[i].sequence # q.heap[j].sequence
  BY <1>2, <1>3 DEF Aged
<1> QED BY <1>1, <1>2, <1>4, BeforeOrder

(* A task swapped with its parent is the only one that may still be out of    *)
(* order, and only with its new parent.                                       *)
LEMMA RiseOrder ==
    ASSUME NEW h \in Seq(Task), NEW g \in Seq(Task), Len(g) = Len(h),
           NEW i \in 2 .. Len(h), NEW p, p = i \div 2,
           Apart(h, i), Before(h[i], h[p]),
           g[i] = h[p], g[p] = h[i],
           \A k \in 1 .. Len(h) : k # i /\ k # p => g[k] = h[k]
    PROVE  MayRise(g, p)
<1>1. Len(h) \in Nat /\ \A k \in 1 .. Len(h) : h[k] \in Task
  BY HeapDomain
<1>2. p \in 1 .. Len(h) /\ p # i /\ p < i
  BY <1>1, Parents
<1>3. \A j \in 2 .. Len(h) : /\ j \div 2 \in 1 .. Len(h) /\ j \div 2 # j /\ j \div 2 < j
                             /\ j \in 1 .. Len(h) /\ j \in Nat
  BY <1>1, Parents
<1>4. \A j \in 2 .. Len(h) : j # i /\ j \div 2 # i => Before(h[j \div 2], h[j])
  BY DEF Apart, Edge
<1>5. \A j \in 2 .. Len(h) : j \div 2 = i => Before(h[p], h[j])
  BY DEF Apart
<1>6. ASSUME NEW j \in 2 .. Len(h), j # p, j \div 2 # p
      PROVE  Before(g[j \div 2], g[j])
  <2>1. j # i
    BY <1>6
  <2>2. g[j] = h[j]
    BY <1>3, <1>6, <2>1
  <2>3. CASE j \div 2 = i
    BY <1>5, <2>2, <2>3
  <2>4. CASE j \div 2 # i
    BY <1>3, <1>4, <1>6, <2>1, <2>2, <2>4
  <2> QED BY <2>3, <2>4
<1>7. ASSUME NEW j \in 2 .. Len(h), j \div 2 = p
      PROVE  /\ Before(g[p], g[j])
             /\ p > 1 => Before(g[p \div 2], g[j])
  <2>1. j # p /\ j \in 1 .. Len(h)
    BY <1>3, <1>7
  <2>2. Before(h[i], g[j]) /\ (j # i => Before(h[p], h[j]) /\ g[j] = h[j])
    <3>1. CASE j = i
      BY <3>1
    <3>2. CASE j # i
      <4>1. Before(h[p], h[j]) /\ g[j] = h[j]
        BY <1>2, <1>4, <1>7, <2>1, <3>2
      <4>2. Before(h[i], h[j])
        BY <1>1, <1>2, <2>1, <4>1, BeforeOrder
      <4> QED BY <4>1, <4>2
    <3> QED BY <3>1, <3>2
  <2>3. ASSUME p > 1 PROVE Before(g[p \div 2], g[j])
    <3>1. p \in 2 .. Len(h)
      BY <1>1, <1>2, <2>3
    <3>2. p \div 2 \in 1 .. Len(h) /\ p \div 2 # p /\ p \div 2 < p
      BY <1>3, <3>1
    <3>3. p \div 2 # i
      BY <1>2, <3>2
    <3>4. Before(h[p \div 2], h[p]) /\ g[p \div 2] = h[p \div 2]
      BY <1>2, <1>4, <3>1, <3>2, <3>3
    <3>5. CASE j = i
      BY <3>4, <3>5
    <3>6. CASE j # i
      BY <1>1, <1>2, <2>1, <2>2, <3>2, <3>4, <3>6, BeforeOrder
    <3> QED BY <3>5, <3>6
  <2> QED BY <2>2, <2>3
<1> QED BY <1>6, <1>7 DEF MayRise, Apart, Edge

(* g is h with the task at i swapped with the one at c, the first of its      *)
(* children.                                                                  *)
ChildRaised(h, g, i, c) ==
    /\ h \in Seq(Task) /\ g \in Seq(Task) /\ Len(g) = Len(h)
    /\ c \in 2 .. Len(h) /\ i = c \div 2
    /\ MaySink(h, i) /\ Before(h[c], h[i])
    /\ \A j \in 2 .. Len(h) : j \div 2 = i /\ j # c => Before(h[c], h[j])
    /\ g[i] = h[c] /\ g[c] = h[i]
    /\ \A k \in 1 .. Len(h) : k # i /\ k # c => g[k] = h[k]

(* A task swapped with the first of its children is the only one that may     *)
(* still be out of order, and only with its new children.                     *)
LEMMA SinkOrder ==
    ASSUME NEW h, NEW g, NEW i, NEW c, ChildRaised(h, g, i, c)
    PROVE  MaySink(g, c)
<1>0. /\ h \in Seq(Task) /\ g \in Seq(Task) /\ Len(g) = Len(h)
      /\ c \in 2 .. Len(h) /\ i = c \div 2
      /\ MaySink(h, i) /\ Before(h[c], h[i])
      /\ \A j \in 2 .. Len(h) : j \div 2 = i /\ j # c => Before(h[c], h[j])
      /\ g[i] = h[c] /\ g[c] = h[i]
      /\ \A k \in 1 .. Len(h) : k # i /\ k # c => g[k] = h[k]
  BY Zenon DEF ChildRaised
<1>1. Len(h) \in Nat /\ \A k \in 1 .. Len(h) : h[k] \in Task
  BY <1>0, HeapDomain
<1>2. i \in 1 .. Len(h) /\ i # c /\ i < c
  BY <1>0, <1>1, Parents
<1>3. \A j \in 2 .. Len(h) : /\ j \div 2 \in 1 .. Len(h) /\ j \div 2 # j /\ j \div 2 < j
                             /\ j \in 1 .. Len(h) /\ j \in Nat
  BY <1>0, <1>1, Parents
<1>4. \A j \in 2 .. Len(h) : j # i /\ j \div 2 # i => Before(h[j \div 2], h[j])
  BY <1>0 DEF MaySink, Apart, Edge
<1>5. ASSUME NEW j \in 2 .. Len(h), j # c, j \div 2 # c
      PROVE  Before(g[j \div 2], g[j])
  <2>1. CASE j = i
    <3>1. g[j] = h[c] /\ g[j \div 2] = h[j \div 2]
      BY <1>0, <1>2, <1>3, <1>5, <2>1
    <3>2. i > 1
      BY <1>0, <2>1
    <3>3. Before(h[i \div 2], h[c])
      BY <1>0, <3>2 DEF MaySink, Apart
    <3> QED BY <2>1, <3>1, <3>3
  <2>2. CASE j # i /\ j \div 2 = i
    BY <1>0, <1>3, <1>5, <2>2
  <2>3. CASE j # i /\ j \div 2 # i
    BY <1>0, <1>3, <1>4, <1>5, <2>3
  <2> QED BY <2>1, <2>2, <2>3
<1>6. ASSUME NEW j \in 2 .. Len(h), j \div 2 = c
      PROVE  Before(g[i], g[j])
  <2>1. j # i /\ j # c /\ c # i
    BY <1>0, <1>2, <1>3, <1>6
  <2> QED BY <1>0, <1>3, <1>4, <1>6, <2>1
<1>7. Before(g[c \div 2], g[c])
  BY <1>0
<1> QED BY <1>0, <1>5, <1>6, <1>7 DEF MaySink, Apart, Edge

-----------------------------------------------------------------------------
(* The loops as sequences of rounds                                           *)

(* Induction over the natural numbers, stated of a set: what holds of 0 and   *)
(* of the successor of each number it holds of is Nat.                        *)
LEMMA Induction ==
    ASSUME NEW T, 0 \in T, \A n \in Nat : n \in T => n + 1 \in T
    PROVE  Nat \subseteq T
<1> SUFFICES ASSUME Nat \ T # {} PROVE FALSE
  OBVIOUS
<1> DEFINE R == {ss \in Nat \X Nat : ss[1] < ss[2]}
<1>1. IsWellFoundedOn(R, Nat)
  BY NatLessThanWellFounded DEF OpToRel
<1>2. \A x, y \in Nat : x < y => <<x, y>> \in R
  OBVIOUS
<1> HIDE DEF R
<1>3. PICK x \in Nat \ T : \A y \in Nat \ T : ~ (<<y, x>> \in R)
  <2> DEFINE U == Nat \ T
  <2>1. U \subseteq Nat /\ U # {}
    OBVIOUS
  <2> HIDE DEF U
  <2>2. \E x \in U : \A y \in U : ~ (<<y, x>> \in R)
     BY <1>1, <2>1, WFMin
  <2> QED BY <2>2 DEF U
<1>4. x # 0 /\ x \in Nat
  OBVIOUS
<1>5. x - 1 \in Nat /\ x - 1 < x /\ (x - 1) + 1 = x
  BY <1>4
<1>6. x - 1 \in Nat \ T
  BY <1>5, <1>4
<1> QED BY <1>3, <1>6, <1>5, <1>2

(* The loop of heapifyUp as the sequence of its rounds.                       *)
LEMMA HeapifyUpUnfolds ==
    ASSUME NEW q, NEW i \in Nat
    PROVE  \E f : /\ f[0] = [q |-> q, at |-> i] /\ HeapifyUp(q, i) = f[i].q
                  /\ \A k \in 1 .. i : f[k] = Rise(f[k - 1])
<1> DEFINE s == [q |-> q, at |-> i]
<1>1. \E f : f = [k \in 0 .. i |-> IF k = 0 THEN s ELSE Rise(f[k - 1])]
  <2> DEFINE T == {m \in Nat : \E f : f = [k \in 0 .. m |-> IF k = 0 THEN s ELSE Rise(f[k - 1])]}
  <2>1. 0 \in T
    <3> DEFINE g == [k \in 0 .. 0 |-> s]
    <3>1. g = [k \in 0 .. 0 |-> IF k = 0 THEN s ELSE Rise(g[k - 1])]
      OBVIOUS
    <3> HIDE DEF g
    <3> QED BY <3>1
  <2>2. ASSUME NEW m \in Nat, m \in T PROVE m + 1 \in T
    <3>1. PICK f : f = [k \in 0 .. m |-> IF k = 0 THEN s ELSE Rise(f[k - 1])]
      BY <2>2
    <3> DEFINE g == [k \in 0 .. (m + 1) |-> IF k = m + 1 THEN Rise(f[m]) ELSE f[k]]
    <3>2. g = [k \in 0 .. (m + 1) |-> IF k = 0 THEN s ELSE Rise(g[k - 1])]
      <4>1. ASSUME NEW k \in 0 .. (m + 1)
            PROVE  g[k] = IF k = 0 THEN s ELSE Rise(g[k - 1])
        <5>1. CASE k = m + 1
          BY <5>1
        <5>2. CASE k # m + 1
          <6>1. k \in 0 .. m /\ g[k] = f[k]
            BY <5>2
          <6>2. f[k] = IF k = 0 THEN s ELSE Rise(f[k - 1])
            BY <6>1, <3>1
          <6>3. k # 0 => g[k - 1] = f[k - 1]
            BY <6>1
          <6> QED BY <6>1, <6>2, <6>3
        <5> QED BY <5>1, <5>2
      <4> QED BY <4>1
    <3> HIDE DEF g
    <3>3. \E h : h = [k \in 0 .. (m + 1) |-> IF k = 0 THEN s ELSE Rise(h[k - 1])]
      BY <3>2, Zenon
    <3>4. m + 1 \in Nat
      OBVIOUS
    <3> QED BY <3>3, <3>4, Zenon
  <2> HIDE DEF T
  <2>3. Nat \subseteq T
    BY <2>1, <2>2, Induction
  <2>4. i \in T
    BY <2>3
  <2> QED BY <2>4, Zenon DEF T
<1> DEFINE after[k \in 0 .. i] == IF k = 0 THEN s ELSE Rise(after[k - 1])
<1>2. after = [k \in 0 .. i |-> IF k = 0 THEN s ELSE Rise(after[k - 1])]
  BY <1>1, Zenon
<1>3. HeapifyUp(q, i) = after[i].q
  BY DEF HeapifyUp
<1> HIDE DEF after
<1>4. after[0] = s /\ \A k \in 1 .. i : after[k] = Rise(after[k - 1])
  <2>1. ASSUME NEW k \in 0 .. i
        PROVE  after[k] = IF k = 0 THEN s ELSE Rise(after[k - 1])
    BY <1>2
  <2>2. i \in Nat
    OBVIOUS
  <2>3. 0 \in 0 .. i /\ \A k \in 1 .. i : k \in 0 .. i /\ k # 0
    BY <2>2
  <2> HIDE DEF s
  <2> QED BY <2>1, <2>3, Zenon
<1> QED BY <1>3, <1>4

(* The loop of heapifyDown as the sequence of its rounds.                     *)
LEMMA HeapifyDownUnfolds ==
    ASSUME NEW q, NEW i, Len(q.heap) \in Nat
    PROVE  \E f : /\ f[0] = [q |-> q, at |-> i] /\ HeapifyDown(q, i) = f[Len(q.heap)].q
                  /\ \A k \in 1 .. Len(q.heap) : f[k] = Sink(f[k - 1])
<1> DEFINE s == [q |-> q, at |-> i]
<1>1. \E f : f = [k \in 0 .. Len(q.heap) |-> IF k = 0 THEN s ELSE Sink(f[k - 1])]
  <2> DEFINE T == {m \in Nat : \E f : f = [k \in 0 .. m |-> IF k = 0 THEN s ELSE Sink(f[k - 1])]}
  <2>1. 0 \in T
    <3> DEFINE g == [k \in 0 .. 0 |-> s]
    <3>1. g = [k \in 0 .. 0 |-> IF k = 0 THEN s ELSE Sink(g[k - 1])]
      OBVIOUS
    <3> HIDE DEF g
    <3> QED BY <3>1
  <2>2. ASSUME NEW m \in Nat, m \in T PROVE m + 1 \in T
    <3>1. PICK f : f = [k \in 0 .. m |-> IF k = 0 THEN s ELSE Sink(f[k - 1])]
      BY <2>2
    <3> DEFINE g == [k \in 0 .. (m + 1) |-> IF k = m + 1 THEN Sink(f[m]) ELSE f[k]]
    <3>2. g = [k \in 0 .. (m + 1) |-> IF k = 0 THEN s ELSE Sink(g[k - 1])]
      <4>1. ASSUME NEW k \in 0 .. (m + 1)
            PROVE  g[k] = IF k = 0 THEN s ELSE Sink(g[k - 1])
        <5>1. CASE k = m + 1
          BY <5>1
        <5>2. CASE k # m + 1
          <6>1. k \in 0 .. m /\ g[k] = f[k]
            BY <5>2
          <6>2. f[k] = IF k = 0 THEN s ELSE Sink(f[k - 1])
            BY <6>1, <3>1
          <6>3. k # 0 => g[k - 1] = f[k - 1]
            BY <6>1
          <6> QED BY <6>1, <6>2, <6>3
        <5> QED BY <5>1, <5>2
      <4> QED BY <4>1
    <3> HIDE DEF g
    <3>3. \E h : h = [k \in 0 .. (m + 1) |-> IF k = 0 THEN s ELSE Sink(h[k - 1])]
      BY <3>2, Zenon
    <3>4. m + 1 \in Nat
      OBVIOUS
    <3> QED BY <3>3, <3>4, Zenon
  <2> HIDE DEF T
  <2>3. Nat \subseteq T
    BY <2>1, <2>2, Induction
  <2>4. Len(q.heap) \in T
    BY <2>3
  <2> QED BY <2>4, Zenon DEF T
<1> DEFINE after[k \in 0 .. Len(q.heap)] == IF k = 0 THEN s ELSE Sink(after[k - 1])
<1>2. after = [k \in 0 .. Len(q.heap) |-> IF k = 0 THEN s ELSE Sink(after[k - 1])]
  BY <1>1, Zenon
<1>3. HeapifyDown(q, i) = after[Len(q.heap)].q
  BY DEF HeapifyDown
<1> HIDE DEF after
<1>4. after[0] = s /\ \A k \in 1 .. Len(q.heap) : after[k] = Sink(after[k - 1])
  <2> HIDE DEF s
  <2> QED BY <1>2
<1> QED BY <1>3, <1>4

(* The first loop of toArray() as the sequence of its rounds.                 *)
LEMMA InsertAllUnfolds ==
    ASSUME NEW q, NEW tasks, Cardinality(tasks) \in Nat
    PROVE  \E f : /\ f[0] = [q |-> q, left |-> tasks] /\
                         InsertAll(q, tasks) = f[Cardinality(tasks)].q
                  /\ \A k \in 1 .. Cardinality(tasks) : f[k] = InsertOne(f[k - 1])
<1> DEFINE s == [q |-> q, left |-> tasks]
<1>1. \E f : f = [k \in 0 .. Cardinality(tasks) |-> IF k = 0 THEN s ELSE InsertOne(f[k - 1])]
  <2> DEFINE T == {m \in Nat : \E f : f = [k \in 0 .. m |-> IF k = 0 THEN s
                      ELSE InsertOne(f[k - 1])]}
  <2>1. 0 \in T
    <3> DEFINE g == [k \in 0 .. 0 |-> s]
    <3>1. g = [k \in 0 .. 0 |-> IF k = 0 THEN s ELSE InsertOne(g[k - 1])]
      OBVIOUS
    <3> HIDE DEF g
    <3> QED BY <3>1
  <2>2. ASSUME NEW m \in Nat, m \in T PROVE m + 1 \in T
    <3>1. PICK f : f = [k \in 0 .. m |-> IF k = 0 THEN s ELSE InsertOne(f[k - 1])]
      BY <2>2
    <3> DEFINE g == [k \in 0 .. (m + 1) |-> IF k = m + 1 THEN InsertOne(f[m]) ELSE f[k]]
    <3>2. g = [k \in 0 .. (m + 1) |-> IF k = 0 THEN s ELSE InsertOne(g[k - 1])]
      <4>1. ASSUME NEW k \in 0 .. (m + 1)
            PROVE  g[k] = IF k = 0 THEN s ELSE InsertOne(g[k - 1])
        <5>1. CASE k = m + 1
          BY <5>1
        <5>2. CASE k # m + 1
          <6>1. k \in 0 .. m /\ g[k] = f[k]
            BY <5>2
          <6>2. f[k] = IF k = 0 THEN s ELSE InsertOne(f[k - 1])
            BY <6>1, <3>1
          <6>3. k # 0 => g[k - 1] = f[k - 1]
            BY <6>1
          <6> QED BY <6>1, <6>2, <6>3
        <5> QED BY <5>1, <5>2
      <4> QED BY <4>1
    <3> HIDE DEF g
    <3>3. \E h : h = [k \in 0 .. (m + 1) |-> IF k = 0 THEN s ELSE InsertOne(h[k - 1])]
      BY <3>2, Zenon
    <3>4. m + 1 \in Nat
      OBVIOUS
    <3> QED BY <3>3, <3>4, Zenon
  <2> HIDE DEF T
  <2>3. Nat \subseteq T
    BY <2>1, <2>2, Induction
  <2>4. Cardinality(tasks) \in T
    BY <2>3
  <2> QED BY <2>4, Zenon DEF T
<1> DEFINE after[k \in 0 .. Cardinality(tasks)] == IF k = 0 THEN s ELSE InsertOne(after[k - 1])
<1>2. after = [k \in 0 .. Cardinality(tasks) |-> IF k = 0 THEN s ELSE InsertOne(after[k - 1])]
  BY <1>1, Zenon
<1>3. InsertAll(q, tasks) = after[Cardinality(tasks)].q
  BY DEF InsertAll
<1> HIDE DEF after
<1>4. after[0] = s /\ \A k \in 1 .. Cardinality(tasks) : after[k] = InsertOne(after[k - 1])
  <2>1. ASSUME NEW k \in 0 .. Cardinality(tasks)
        PROVE  after[k] = IF k = 0 THEN s ELSE InsertOne(after[k - 1])
    BY <1>2
  <2>2. Cardinality(tasks) \in Nat
    OBVIOUS
  <2>3. 0 \in 0 .. Cardinality(tasks) /\ \A k \in 1 .. Cardinality(tasks) : k \in
            0 .. Cardinality(tasks) /\ k # 0
    BY <2>2
  <2> HIDE DEF s
  <2> QED BY <2>1, <2>3, Zenon
<1> QED BY <1>3, <1>4

(* The second loop of toArray() as the sequence of its rounds.                *)
LEMMA ExtractAllUnfolds ==
    ASSUME NEW q, Len(q.heap) \in Nat
    PROVE  \E f : /\ f[0] = [q |-> q, out |-> << >>] /\ ExtractAll(q) = f[Len(q.heap)].out
                  /\ \A k \in 1 .. Len(q.heap) : f[k] = ExtractOne(f[k - 1])
<1> DEFINE s == [q |-> q, out |-> << >>]
<1>1. \E f : f = [k \in 0 .. Len(q.heap) |-> IF k = 0 THEN s ELSE ExtractOne(f[k - 1])]
  <2> DEFINE T == {m \in Nat : \E f : f = [k \in 0 .. m |-> IF k = 0 THEN s
                      ELSE ExtractOne(f[k - 1])]}
  <2>1. 0 \in T
    <3> DEFINE g == [k \in 0 .. 0 |-> s]
    <3>1. g = [k \in 0 .. 0 |-> IF k = 0 THEN s ELSE ExtractOne(g[k - 1])]
      OBVIOUS
    <3> HIDE DEF g
    <3> QED BY <3>1
  <2>2. ASSUME NEW m \in Nat, m \in T PROVE m + 1 \in T
    <3>1. PICK f : f = [k \in 0 .. m |-> IF k = 0 THEN s ELSE ExtractOne(f[k - 1])]
      BY <2>2
    <3> DEFINE g == [k \in 0 .. (m + 1) |-> IF k = m + 1 THEN ExtractOne(f[m]) ELSE f[k]]
    <3>2. g = [k \in 0 .. (m + 1) |-> IF k = 0 THEN s ELSE ExtractOne(g[k - 1])]
      <4>1. ASSUME NEW k \in 0 .. (m + 1)
            PROVE  g[k] = IF k = 0 THEN s ELSE ExtractOne(g[k - 1])
        <5>1. CASE k = m + 1
          BY <5>1
        <5>2. CASE k # m + 1
          <6>1. k \in 0 .. m /\ g[k] = f[k]
            BY <5>2
          <6>2. f[k] = IF k = 0 THEN s ELSE ExtractOne(f[k - 1])
            BY <6>1, <3>1
          <6>3. k # 0 => g[k - 1] = f[k - 1]
            BY <6>1
          <6> QED BY <6>1, <6>2, <6>3
        <5> QED BY <5>1, <5>2
      <4> QED BY <4>1
    <3> HIDE DEF g
    <3>3. \E h : h = [k \in 0 .. (m + 1) |-> IF k = 0 THEN s ELSE ExtractOne(h[k - 1])]
      BY <3>2, Zenon
    <3>4. m + 1 \in Nat
      OBVIOUS
    <3> QED BY <3>3, <3>4, Zenon
  <2> HIDE DEF T
  <2>3. Nat \subseteq T
    BY <2>1, <2>2, Induction
  <2>4. Len(q.heap) \in T
    BY <2>3
  <2> QED BY <2>4, Zenon DEF T
<1> DEFINE after[k \in 0 .. Len(q.heap)] == IF k = 0 THEN s ELSE ExtractOne(after[k - 1])
<1>2. after = [k \in 0 .. Len(q.heap) |-> IF k = 0 THEN s ELSE ExtractOne(after[k - 1])]
  BY <1>1, Zenon
<1>3. ExtractAll(q) = after[Len(q.heap)].out
  BY DEF ExtractAll
<1> HIDE DEF after
<1>4. after[0] = s /\ \A k \in 1 .. Len(q.heap) : after[k] = ExtractOne(after[k - 1])
  <2>1. ASSUME NEW k \in 0 .. Len(q.heap)
        PROVE  after[k] = IF k = 0 THEN s ELSE ExtractOne(after[k - 1])
    BY <1>2
  <2>2. Len(q.heap) \in Nat
    OBVIOUS
  <2>3. 0 \in 0 .. Len(q.heap) /\ \A k \in 1 .. Len(q.heap) : k \in 0 .. Len(q.heap) /\ k # 0
    BY <2>2
  <2> HIDE DEF s
  <2> QED BY <2>1, <2>3, Zenon
<1> QED BY <1>3, <1>4

-----------------------------------------------------------------------------
(* The loops mend the heap                                                    *)

(* What every round of heapifyUp leaves.                                      *)
Risen(s, q, i) ==
    /\ s = [q |-> s.q, at |-> s.at]
    /\ Fits(s.q) /\ Items(s.q) = Items(q) /\ Len(s.q.heap) = Len(q.heap)
    /\ s.at \in 1 .. i
    /\ s = [q |-> q, at |-> i] \/ MayRise(s.q.heap, s.at)

(* A round of heapifyUp goes up, or has nothing left to do.                   *)
LEMMA RiseRound ==
    ASSUME NEW q, Fits(q), Aged(Items(q)), NEW i \in 1 .. Len(q.heap), Apart(q.heap, i),
           NEW s, Risen(s, q, i)
    PROVE  /\ Risen(Rise(s), q, i)
           /\ \/ Rise(s) = s /\ (s.at = 1 \/ Edge(s.q.heap, s.at))
              \/ Rise(s).at < s.at
<1> DEFINE h == s.q.heap
           at == s.at
           p == at \div 2
           g == Swap(s.q, at, p)
<1>1. /\ Fits(s.q) /\ Items(s.q) = Items(q) /\ Len(h) = Len(q.heap)
      /\ at \in 1 .. Len(h) /\ at \in 1 .. i /\ h \in Seq(Task) /\ Len(h) \in Nat
      /\ Apart(h, at)
  <2>1. Apart(h, at)
    BY DEF Risen, MayRise
  <2> QED BY <2>1, HeapDomain DEF Risen, Fits
<1>2. at > 1 => /\ at \in 2 .. Len(h) /\ p \in 1 .. Len(h) /\ p < at /\ p # at /\ p \in 1 .. i
                /\ Before(h[p], h[at]) \/ Before(h[at], h[p])
  <2> SUFFICES ASSUME at > 1
               PROVE  /\ at \in 2 .. Len(h) /\ p \in 1 .. Len(h) /\ p < at /\ p # at /\ p \in 1 .. i
                      /\ Before(h[p], h[at]) \/ Before(h[at], h[p])
    OBVIOUS
  <2>1. at \in 2 .. Len(h)
    BY <1>1
  <2>2. p \in 1 .. Len(h) /\ p < at /\ p # at
    BY <1>1, <2>1, Parents
  <2>3. p \in 1 .. i
    BY <1>1, <2>2
  <2> QED BY <1>1, <2>1, <2>2, <2>3, ItemsDiffer
<1>3. CASE at > 1 /\ Before(h[at], h[p])
  <2>1. Rise(s) = [q |-> g, at |-> p]
    BY <1>3 DEF Rise
  <2>2. /\ Fits(g) /\ Items(g) = Items(s.q) /\ Len(g.heap) = Len(h)
        /\ g.heap[at] = h[p] /\ g.heap[p] = h[at]
        /\ \A k \in 1 .. Len(h) : k # at /\ k # p => g.heap[k] = h[k]
    <3>1. Fits(s.q) /\ at \in 1 .. Len(s.q.heap) /\ p \in 1 .. Len(s.q.heap) /\ at # p
      BY <1>1, <1>2, <1>3
    <3> HIDE DEF at, p
    <3> QED BY <3>1, SwapFits
  <2>3. g.heap \in Seq(Task)
    BY <2>2 DEF Fits
  <2>4. MayRise(g.heap, p)
    <3>1. PICK G : G = g.heap
      OBVIOUS
    <3> HIDE DEF g
    <3>2. /\ G \in Seq(Task) /\ Len(G) = Len(h) /\ G[at] = h[p] /\ G[p] = h[at]
          /\ \A k \in 1 .. Len(h) : k # at /\ k # p => G[k] = h[k]
      BY <2>2, <2>3, <3>1
    <3>3. at \in 2 .. Len(h) /\ h \in Seq(Task)
      BY <1>1, <1>2, <1>3
    <3> HIDE DEF h, at
    <3>4. MayRise(G, p)
      BY <1>1, <1>3, <3>2, <3>3, RiseOrder
    <3> QED BY <3>1, <3>4
  <2> HIDE DEF g, p
  <2>5. Rise(s).q = g /\ Rise(s).at = p
    BY <2>1
  <2>6. Risen(Rise(s), q, i)
    BY <1>1, <1>2, <1>3, <2>1, <2>2, <2>4, <2>5 DEF Risen
  <2> QED BY <1>2, <1>3, <2>5, <2>6
<1>4. CASE ~(at > 1 /\ Before(h[at], h[p]))
  <2>1. Rise(s) = s
    BY <1>4 DEF Rise
  <2>2. at = 1 \/ Edge(h, at)
    BY <1>1, <1>2, <1>4 DEF Edge
  <2> QED BY <2>1, <2>2
<1> QED BY <1>3, <1>4

(* heapifyUp ends, keeps the tasks, and leaves a heap when only the task at i *)
(* was out of order with its parent; when it was not, the task may still have *)
(* to sink.                                                                   *)
LEMMA HeapifiesUp ==
    ASSUME NEW q, Fits(q), Aged(Items(q)), NEW i \in 1 .. Len(q.heap), Apart(q.heap, i)
    PROVE  LET n == HeapifyUp(q, i) IN
           /\ Fits(n) /\ Items(n) = Items(q) /\ Len(n.heap) = Len(q.heap)
           /\ Ordered(n.heap) \/ MaySink(n.heap, i)
           /\ MayRise(q.heap, i) => Ordered(n.heap)
<1> DEFINE s0 == [q |-> q, at |-> i]
<1>1. i \in Nat /\ i >= 1
  BY HeapDomain DEF Fits
<1>2. PICK f : /\ f[0] = s0 /\ HeapifyUp(q, i) = f[i].q
               /\ \A k \in 1 .. i : f[k] = Rise(f[k - 1])
  BY <1>1, HeapifyUpUnfolds
<1> DEFINE Settled(s) == Rise(s) = s /\ (s.at = 1 \/ Edge(s.q.heap, s.at))
           T == {k \in Nat : k <= i => Risen(f[k], q, i) /\ (Settled(f[k]) \/ f[k].at + k <= i)}
<1>3. 0 \in T
  BY <1>1, <1>2 DEF Risen
<1>4. ASSUME NEW k \in Nat, k \in T PROVE k + 1 \in T
  <2> SUFFICES ASSUME k + 1 <= i
               PROVE  /\ Risen(f[k + 1], q, i)
                      /\ Settled(f[k + 1]) \/ f[k + 1].at + (k + 1) <= i
    OBVIOUS
  <2>1. k <= i /\ k + 1 \in 1 .. i /\ (k + 1) - 1 = k
    BY <1>1
  <2>2. f[k + 1] = Rise(f[k])
    BY <1>2, <2>1
  <2>3. Risen(f[k], q, i) /\ (Settled(f[k]) \/ f[k].at + k <= i)
    BY <1>4, <2>1
  <2>4. /\ Risen(Rise(f[k]), q, i)
        /\ Settled(f[k]) \/ Rise(f[k]).at < f[k].at
    BY <2>3, RiseRound
  <2>5. CASE Settled(f[k])
    BY <2>2, <2>4, <2>5
  <2>6. CASE f[k].at + k <= i /\ Rise(f[k]).at < f[k].at
    <3>1. f[k].at \in Nat /\ Rise(f[k]).at \in Nat
      BY <2>3, <2>4 DEF Risen
    <3> QED BY <1>1, <2>2, <2>4, <2>6, <3>1
  <2> QED BY <2>3, <2>4, <2>5, <2>6
<1> HIDE DEF T
<1>5. Nat \subseteq T
  BY <1>3, <1>4, Induction
<1>6. Risen(f[i], q, i) /\ (Settled(f[i]) \/ f[i].at + i <= i)
  BY <1>1, <1>5 DEF T
<1>7. Settled(f[i])
  <2>1. f[i].at \in Nat /\ f[i].at >= 1
    BY <1>6 DEF Risen
  <2> QED BY <1>1, <1>6, <2>1
<1>8. PICK s : s = f[i]
  OBVIOUS
<1>9. /\ Fits(s.q) /\ Items(s.q) = Items(q) /\ Len(s.q.heap) = Len(q.heap)
      /\ s.at \in 1 .. i
      /\ s0 = s \/ MayRise(s.q.heap, s.at)
      /\ s.at = 1 \/ Edge(s.q.heap, s.at)
  BY <1>6, <1>7, <1>8 DEF Risen
<1>10. ASSUME MayRise(s.q.heap, s.at) PROVE Ordered(s.q.heap)
  <2> SUFFICES ASSUME NEW j \in 2 .. Len(s.q.heap) PROVE Edge(s.q.heap, j)
    BY DEF Ordered
  <2>1. CASE j = s.at
    BY <1>9, <2>1
  <2>2. CASE j # s.at
    BY <1>10, <2>2 DEF MayRise, Apart
  <2> QED BY <2>1, <2>2
<1>11. s = s0 => MaySink(s.q.heap, i) /\ (MayRise(q.heap, i) => MayRise(s.q.heap, s.at))
  BY <1>9 DEF MaySink
<1>12. HeapifyUp(q, i) = s.q
  BY <1>2, <1>8
<1> QED BY <1>9, <1>10, <1>11, <1>12

(* The position heapifyDown compares with: nothing among i and its children   *)
(* comes before what is there.                                                *)
LEMMA SmallestOf ==
    ASSUME NEW q, Fits(q), Aged(Items(q)), NEW i \in 1 .. Len(q.heap)
    PROVE  LET h == q.heap
               k == Smallest(h, i) IN
           /\ k \in 1 .. Len(h) /\ k \in {i, 2 * i, 2 * i + 1}
           /\ \A j \in 1 .. Len(h) : j \in {i, 2 * i, 2 * i + 1} /\ j # k => Before(h[k], h[j])
<1> DEFINE h == q.heap
           S == {i, 2 * i, 2 * i + 1} \intersect DOMAIN h
<1>1. h \in Seq(Task) /\ DOMAIN h = 1 .. Len(h) /\ Len(h) \in Nat
  BY HeapDomain DEF Fits
<1>2. i \in S /\ \A j \in S : j \in 1 .. Len(h)
  BY <1>1
<1>3. \A j, k \in S : j # k => Before(h[j], h[k]) \/ Before(h[k], h[j])
  BY <1>2, ItemsDiffer
<1>4. \A j, k, l \in S : Before(h[j], h[k]) /\ Before(h[k], h[l]) => Before(h[j], h[l])
  <2>1. \A j \in S : h[j] \in Task
    BY <1>1, <1>2
  <2> QED BY <2>1, BeforeOrder
<1>5. \E k \in S : \A j \in S : j # k => Before(h[k], h[j])
  <2>1. S \subseteq {i, 2 * i, 2 * i + 1}
    OBVIOUS
  <2> HIDE DEF S, h
  <2>2. PICK a \in S : \A j \in S : j # a /\ j \in {i, 2 * i} => Before(h[a], h[j])
    <3>1. CASE 2 * i \in S /\ Before(h[2 * i], h[i])
      BY <1>2, <3>1
    <3>2. CASE ~(2 * i \in S /\ Before(h[2 * i], h[i]))
      <4>1. \A j \in S : j # i /\ j \in {i, 2 * i} => Before(h[i], h[j])
        BY <1>2, <1>3, <3>2
      <4> QED BY <1>2, <4>1
    <3> QED BY <3>1, <3>2
  <2>3. CASE 2 * i + 1 \in S /\ Before(h[2 * i + 1], h[a])
    <3>1. ASSUME NEW j \in S, j # 2 * i + 1 PROVE Before(h[2 * i + 1], h[j])
      <4>1. j \in {i, 2 * i}
        BY <2>1, <3>1
      <4>2. CASE j = a
        BY <2>3, <4>2
      <4>3. CASE j # a
        <5>1. Before(h[a], h[j])
          BY <2>2, <4>1, <4>3
        <5> QED BY <1>4, <2>3, <5>1
      <4> QED BY <4>2, <4>3
    <3> QED BY <2>3, <3>1
  <2>4. CASE ~(2 * i + 1 \in S /\ Before(h[2 * i + 1], h[a]))
    BY <1>3, <2>1, <2>2, <2>4
  <2> QED BY <2>3, <2>4
<1>6. Smallest(h, i) \in S /\ \A j \in S : j # Smallest(h, i) => Before(h[Smallest(h, i)], h[j])
  <2>1. Smallest(h, i) = CHOOSE k \in S : \A j \in S : j # k => Before(h[k], h[j])
    BY DEF Smallest
  <2> HIDE DEF S, h
  <2> QED BY <1>5, <2>1, Zenon
<1> QED BY <1>1, <1>6

(* What every round of heapifyDown leaves.                                    *)
Sunk(s, q, i) ==
    /\ s = [q |-> s.q, at |-> s.at]
    /\ Fits(s.q) /\ Items(s.q) = Items(q) /\ Len(s.q.heap) = Len(q.heap)
    /\ s.at \in i .. Len(q.heap)
    /\ MaySink(s.q.heap, s.at)

(* The task at i comes before its children.                                   *)
OverChildren(h, i) == \A j \in 2 .. Len(h) : j \div 2 = i => Edge(h, j)

(* A round of heapifyDown goes down, or has nothing left to do.               *)
LEMMA SinkRound ==
    ASSUME NEW q, Fits(q), Aged(Items(q)), NEW i \in 1 .. Len(q.heap),
           NEW s, Sunk(s, q, i)
    PROVE  /\ Sunk(Sink(s), q, i)
           /\ \/ Sink(s) = s /\ OverChildren(s.q.heap, s.at)
              \/ Sink(s).at > s.at
<1> DEFINE h == s.q.heap
           at == s.at
           c == Smallest(h, at)
           g == Swap(s.q, at, c)
<1>1. /\ Fits(s.q) /\ Items(s.q) = Items(q) /\ Len(h) = Len(q.heap)
      /\ at \in 1 .. Len(h) /\ at \in i .. Len(h) /\ h \in Seq(Task) /\ Len(h) \in Nat
      /\ MaySink(h, at)
  <2>1. Len(q.heap) \in Nat
    BY HeapDomain DEF Fits
  <2> QED BY <2>1, HeapDomain DEF Sunk, Fits
<1>2. /\ c \in 1 .. Len(h) /\ c \in {at, 2 * at, 2 * at + 1}
      /\ \A j \in 1 .. Len(h) : j \in {at, 2 * at, 2 * at + 1} /\ j # c => Before(h[c], h[j])
  BY <1>1, SmallestOf
<1>3. ASSUME NEW j \in 2 .. Len(h), j \div 2 = at
      PROVE  j \in {2 * at, 2 * at + 1} /\ j \in 1 .. Len(h)
  <2>1. j \in Nat /\ j \in 1 .. Len(h) /\ at \in Nat
    BY <1>1
  <2> HIDE DEF at
  <2> QED BY <1>3, <2>1, HalfOf
<1>4. CASE c # at
  <2>1. Sink(s) = [q |-> g, at |-> c]
    BY <1>4 DEF Sink
  <2>2. c \in 2 .. Len(h) /\ c \div 2 = at /\ c > at
    <3> HIDE DEF c, at, h
    <3>1. at \in Nat /\ at >= 1 /\ c \in Nat
      BY <1>1, <1>2
    <3>2. c = 2 * at \/ c = 2 * at + 1
      BY <1>2, <1>4
    <3>3. c \div 2 = at
      BY <3>1, <3>2, HalfOf
    <3>4. c >= 2 /\ c > at
      BY <3>1, <3>2
    <3> QED BY <1>1, <1>2, <3>3, <3>4
  <2>3. /\ Fits(g) /\ Items(g) = Items(s.q) /\ Len(g.heap) = Len(h)
        /\ g.heap[at] = h[c] /\ g.heap[c] = h[at]
        /\ \A k \in 1 .. Len(h) : k # at /\ k # c => g.heap[k] = h[k]
    <3>1. Fits(s.q) /\ at \in 1 .. Len(s.q.heap) /\ c \in 1 .. Len(s.q.heap) /\ at # c
      BY <1>1, <1>2, <1>4
    <3> HIDE DEF at, c
    <3> QED BY <3>1, SwapFits
  <2>4. g.heap \in Seq(Task)
    BY <2>3 DEF Fits
  <2>5. /\ Before(h[c], h[at])
        /\ \A j \in 2 .. Len(h) : j \div 2 = at /\ j # c => Before(h[c], h[j])
    BY <1>1, <1>2, <1>3, <1>4
  <2>6. MaySink(g.heap, c)
    <3>1. PICK G, H, a, b : G = g.heap /\ H = h /\ a = at /\ b = c
      OBVIOUS
    <3> HIDE DEF g, h, at, c
    <3>2. /\ G \in Seq(Task) /\ Len(G) = Len(H) /\ G[a] = H[b] /\ G[b] = H[a]
          /\ \A k \in 1 .. Len(H) : k # a /\ k # b => G[k] = H[k]
      BY <2>3, <2>4, <3>1
    <3>3. a = b \div 2 /\ b \in 2 .. Len(H)
      BY <2>2, <3>1
    <3>4. H \in Seq(Task) /\ MaySink(H, a)
      BY <1>1, <3>1
    <3>5. /\ Before(H[b], H[a])
          /\ \A j \in 2 .. Len(H) : j \div 2 = a /\ j # b => Before(H[b], H[j])
      BY <2>5, <3>1
    <3>6. ChildRaised(H, G, a, b)
      BY <3>2, <3>3, <3>4, <3>5, Zenon DEF ChildRaised
    <3>7. MaySink(G, b)
      BY <3>6, SinkOrder, Zenon
    <3> QED BY <3>1, <3>7
  <2> HIDE DEF g, c
  <2>7. Sink(s).q = g /\ Sink(s).at = c
    BY <2>1
  <2>8. c \in i .. Len(q.heap)
    <3>1. i \in Nat
      BY <1>1
    <3> QED BY <1>1, <2>2, <3>1
  <2>9. Sunk(Sink(s), q, i)
    BY <1>1, <2>1, <2>3, <2>6, <2>7, <2>8 DEF Sunk
  <2> QED BY <2>2, <2>7, <2>9
<1>5. CASE c = at
  <2>1. Sink(s) = s
    BY <1>5 DEF Sink
  <2>2. OverChildren(h, at)
    <3> SUFFICES ASSUME NEW j \in 2 .. Len(h), j \div 2 = at PROVE Before(h[j \div 2], h[j])
      BY DEF OverChildren, Edge
    <3>1. j # at
      BY <1>1, Parents
    <3> QED BY <1>2, <1>3, <1>5, <3>1
  <2> QED BY <2>1, <2>2
<1> QED BY <1>4, <1>5

(* heapifyDown ends, keeps the tasks, and leaves a heap when only the task at *)
(* i was out of order with its children.                                      *)
LEMMA HeapifiesDown ==
    ASSUME NEW q, Fits(q), Aged(Items(q)), NEW i \in 1 .. Len(q.heap), MaySink(q.heap, i)
    PROVE  LET n == HeapifyDown(q, i) IN
           /\ Fits(n) /\ Items(n) = Items(q) /\ Len(n.heap) = Len(q.heap)
           /\ Ordered(n.heap)
<1> DEFINE s0 == [q |-> q, at |-> i]
<1>0. PICK m : m = Len(q.heap)
  OBVIOUS
<1>1. m \in Nat /\ i \in Nat /\ i >= 1 /\ i <= m
  BY <1>0, HeapDomain DEF Fits
<1>2. PICK f : /\ f[0] = s0 /\ HeapifyDown(q, i) = f[m].q
               /\ \A k \in 1 .. m : f[k] = Sink(f[k - 1])
  BY <1>0, <1>1, HeapifyDownUnfolds
<1> DEFINE Settled(s) == Sink(s) = s /\ OverChildren(s.q.heap, s.at)
           T == {k \in Nat : k <= m => Sunk(f[k], q, i) /\ (Settled(f[k]) \/ f[k].at >= i + k)}
<1>3. 0 \in T
  BY <1>0, <1>1, <1>2 DEF Sunk
<1>4. ASSUME NEW k \in Nat, k \in T PROVE k + 1 \in T
  <2> SUFFICES ASSUME k + 1 <= m
               PROVE  /\ Sunk(f[k + 1], q, i)
                      /\ Settled(f[k + 1]) \/ f[k + 1].at >= i + (k + 1)
    OBVIOUS
  <2>1. k <= m /\ k + 1 \in 1 .. m /\ (k + 1) - 1 = k
    BY <1>1
  <2>2. f[k + 1] = Sink(f[k])
    BY <1>2, <2>1
  <2>3. Sunk(f[k], q, i) /\ (Settled(f[k]) \/ f[k].at >= i + k)
    BY <1>4, <2>1
  <2>4. /\ Sunk(Sink(f[k]), q, i)
        /\ Settled(f[k]) \/ Sink(f[k]).at > f[k].at
    BY <2>3, SinkRound
  <2>5. CASE Settled(f[k])
    BY <2>2, <2>4, <2>5
  <2>6. CASE f[k].at >= i + k /\ Sink(f[k]).at > f[k].at
    <3>1. f[k].at \in Int /\ Sink(f[k]).at \in Int
      BY <2>3, <2>4 DEF Sunk
    <3> QED BY <1>1, <2>2, <2>4, <2>6, <3>1
  <2> QED BY <2>3, <2>4, <2>5, <2>6
<1> HIDE DEF T
<1>5. Nat \subseteq T
  BY <1>3, <1>4, Induction
<1>6. Sunk(f[m], q, i) /\ (Settled(f[m]) \/ f[m].at >= i + m)
  BY <1>1, <1>5 DEF T
<1>7. Settled(f[m])
  <2>1. f[m].at \in Int /\ f[m].at <= m
    BY <1>0, <1>6 DEF Sunk
  <2> QED BY <1>1, <1>6, <2>1
<1>8. PICK s : s = f[m]
  OBVIOUS
<1>9. /\ Fits(s.q) /\ Items(s.q) = Items(q) /\ Len(s.q.heap) = Len(q.heap)
      /\ MaySink(s.q.heap, s.at) /\ OverChildren(s.q.heap, s.at)
  BY <1>6, <1>7, <1>8 DEF Sunk
<1>10. Ordered(s.q.heap)
  <2> SUFFICES ASSUME NEW j \in 2 .. Len(s.q.heap) PROVE Edge(s.q.heap, j)
    BY DEF Ordered
  <2>1. CASE j = s.at
    BY <1>9, <2>1 DEF MaySink
  <2>2. CASE j \div 2 = s.at
    BY <1>9, <2>2 DEF OverChildren
  <2>3. CASE j # s.at /\ j \div 2 # s.at
    BY <1>9, <2>3 DEF MaySink, Apart
  <2> QED BY <2>1, <2>2, <2>3
<1>11. HeapifyDown(q, i) = s.q
  BY <1>2, <1>8
<1> QED BY <1>9, <1>10, <1>11

-----------------------------------------------------------------------------
(* The operations of the heap                                                 *)

(* What Fits says, position by position.                                      *)
LEMMA FitsFacts ==
    ASSUME NEW q, Fits(q)
    PROVE  /\ q.heap \in Seq(Task) /\ Len(q.heap) \in Nat /\ DOMAIN q.heap = 1 .. Len(q.heap)
           /\ \A k \in 1 .. Len(q.heap) : /\ q.heap[k] \in Task /\ q.heap[k].id \in Ids
                                          /\ q.indexMap[q.heap[k].id] = k
           /\ q.indexMap \in [Ids -> Nat \union {None}]
           /\ \A id \in Ids : q.indexMap[id] # None =>
                 q.indexMap[id] \in 1 .. Len(q.heap) /\ q.heap[q.indexMap[id]].id = id
BY HeapDomain DEF Fits

(* In a heap every task may sink.                                             *)
LEMMA OrderedMaySink ==
    ASSUME NEW h \in Seq(Task), Ordered(h), NEW i \in 1 .. Len(h)
    PROVE  MaySink(h, i)
<1>1. Len(h) \in Nat /\ \A k \in 1 .. Len(h) : h[k] \in Task
  BY HeapDomain
<1>2. ASSUME i > 1, NEW j \in 2 .. Len(h), j \div 2 = i
      PROVE  Before(h[i \div 2], h[j])
  <2>1. i \in 2 .. Len(h)
    BY <1>1, <1>2
  <2>2. i \div 2 \in 1 .. Len(h) /\ j \in 1 .. Len(h)
    BY <1>1, <2>1, Parents
  <2>3. Before(h[i \div 2], h[i]) /\ Before(h[i], h[j])
    BY <1>2, <2>1 DEF Ordered, Edge
  <2> QED BY <1>1, <2>2, <2>3, BeforeOrder
<1>3. i > 1 => i \in 2 .. Len(h)
  BY <1>1
<1> QED BY <1>2, <1>3 DEF Ordered, MaySink, Apart

(* The root of a heap comes before every other task of it.                    *)
LEMMA RootFirst ==
    ASSUME NEW h \in Seq(Task), Ordered(h)
    PROVE  \A j \in 2 .. Len(h) : Before(h[1], h[j])
<1> DEFINE T == {m \in Nat : \A j \in 2 .. Len(h) : j <= m => Before(h[1], h[j])}
<1>1. Len(h) \in Nat /\ \A k \in 1 .. Len(h) : h[k] \in Task
  BY HeapDomain
<1>2. 0 \in T
  OBVIOUS
<1>3. ASSUME NEW m \in Nat, m \in T PROVE m + 1 \in T
  <2> SUFFICES ASSUME NEW j \in 2 .. Len(h), j <= m + 1 PROVE Before(h[1], h[j])
    OBVIOUS
  <2>1. j \div 2 \in 1 .. Len(h) /\ j \div 2 <= m /\ j \in 1 .. Len(h)
    <3>1. j \div 2 \in 1 .. Len(h) /\ j \div 2 < j
      BY <1>1, Parents
    <3> QED BY <1>1, <3>1
  <2>2. Before(h[j \div 2], h[j])
    BY DEF Ordered, Edge
  <2>3. j \div 2 = 1 \/ Before(h[1], h[j \div 2])
    BY <1>3, <2>1
  <2>4. 1 \in 1 .. Len(h)
    BY <1>1
  <2> QED BY <1>1, <2>1, <2>2, <2>3, <2>4, BeforeOrder
<1> HIDE DEF T
<1>4. Nat \subseteq T
  BY <1>2, <1>3, Induction
<1> QED BY <1>1, <1>4 DEF T

(* insert() adds one task and leaves a heap.                                  *)
LEMMA Inserts ==
    ASSUME NEW q, Fits(q), Ordered(q.heap), NEW task \in Task, q.indexMap[task.id] = None,
           Aged(Items(q) \union {task})
    PROVE  LET n == Insert(q, task) IN
           /\ Fits(n) /\ Items(n) = Items(q) \union {task}
           /\ Len(n.heap) = Len(q.heap) + 1
           /\ Ordered(n.heap)
<1> DEFINE h == q.heap
           last == Len(h) + 1
           g == Append(h, task)
           m == [q.indexMap EXCEPT ![task.id] = last]
<1>1. /\ h \in Seq(Task) /\ Len(h) \in Nat /\ DOMAIN h = 1 .. Len(h)
      /\ \A k \in 1 .. Len(h) : h[k] \in Task /\ h[k].id \in Ids /\ q.indexMap[h[k].id] = k
      /\ q.indexMap \in [Ids -> Nat \union {None}]
      /\ \A id \in Ids : q.indexMap[id] # None =>
            q.indexMap[id] \in 1 .. Len(h) /\ h[q.indexMap[id]].id = id
      /\ task.id \in Ids
  <2>1. task.id \in Ids
    BY DEF Task
  <2> QED BY <2>1, FitsFacts
<1>2. /\ g \in Seq(Task) /\ Len(g) = last /\ DOMAIN g = 1 .. last /\ last \in Nat
      /\ g[last] = task /\ \A k \in 1 .. Len(h) : g[k] = h[k] /\ k # last
  BY <1>1
<1>3. /\ m \in [Ids -> Nat \union {None}] /\ m[task.id] = last
      /\ \A id \in Ids : id # task.id => m[id] = q.indexMap[id]
  BY <1>1, <1>2
<1>4. None \notin Nat
  BY QueueAssumption
<1> DEFINE p == [heap |-> g, indexMap |-> m]
<1>5. Insert(q, task) = HeapifyUp(p, last)
  BY DEF Insert
<1>6. p.heap = g /\ p.indexMap = m /\ p = [heap |-> g, indexMap |-> m]
  OBVIOUS
<1> HIDE DEF p, g, m
<1>7. Fits(p)
  <2>1. ASSUME NEW k \in 1 .. last PROVE m[g[k].id] = k
    <3>1. CASE k = last
      BY <1>2, <1>3, <3>1
    <3>2. CASE k # last
      <4>1. k \in 1 .. Len(h)
        BY <1>1, <3>2
      <4>2. h[k].id # task.id
        BY <1>1, <1>4, <4>1
      <4> QED BY <1>1, <1>2, <1>3, <4>1, <4>2
    <3> QED BY <3>1, <3>2
  <2>2. ASSUME NEW id \in Ids, m[id] # None PROVE m[id] \in 1 .. last /\ g[m[id]].id = id
    <3>1. CASE id = task.id
      BY <1>1, <1>2, <1>3, <3>1
    <3>2. CASE id # task.id
      <4>1. m[id] \in 1 .. Len(h) /\ h[m[id]].id = id
        BY <1>1, <1>3, <2>2, <3>2
      <4> QED BY <1>1, <1>2, <4>1
    <3> QED BY <3>1, <3>2
  <2> QED BY <1>2, <1>3, <1>6, <2>1, <2>2 DEF Fits
<1>8. Items(p) = Items(q) \union {task}
  <2>1. \A x : x \in Items(p) <=> \E k \in 1 .. last : x = g[k]
    BY <1>2, <1>6, ItemsOf
  <2>2. \A x : x \in Items(q) <=> \E k \in 1 .. Len(h) : x = h[k]
    BY <1>1, ItemsOf
  <2>3. ASSUME NEW x, x \in Items(p) PROVE x \in Items(q) \union {task}
    <3>1. PICK k \in 1 .. last : x = g[k]
      BY <2>1, <2>3
    <3>2. k = last \/ k \in 1 .. Len(h)
      BY <1>1
    <3> QED BY <1>2, <2>2, <3>1, <3>2
  <2>4. ASSUME NEW x, x \in Items(q) \union {task} PROVE x \in Items(p)
    <3>1. last \in 1 .. last /\ \A k \in 1 .. Len(h) : k \in 1 .. last
      BY <1>1
    <3> QED BY <1>2, <2>1, <2>2, <2>4, <3>1
  <2> QED BY <2>3, <2>4
<1>9. MayRise(g, last)
  <2>1. ASSUME NEW j \in 2 .. Len(g)
        PROVE  /\ j \div 2 \in 1 .. Len(h) /\ j \div 2 # last
               /\ j # last => j \in 2 .. Len(h)
    <3>1. PICK b : b = j \div 2
      OBVIOUS
    <3>2. b \in 1 .. last /\ b < j /\ j \in 2 .. last
      BY <1>2, <3>1, Parents
    <3>3. b \in 1 .. Len(h) /\ b # last /\ (j # last => j \in 2 .. Len(h))
      BY <1>1, <3>2
    <3> QED BY <3>1, <3>3
  <2>2. ASSUME NEW j \in 2 .. Len(g), j # last PROVE Edge(g, j)
    <3>1. j \in 2 .. Len(h) /\ j \div 2 \in 1 .. Len(h) /\ j \in 1 .. Len(h)
      BY <1>1, <2>1, <2>2
    <3>2. Before(h[j \div 2], h[j])
      BY <3>1 DEF Ordered, Edge
    <3> QED BY <1>2, <3>1, <3>2 DEF Edge
  <2> QED BY <2>1, <2>2 DEF MayRise, Apart
<1>10. last \in 1 .. Len(p.heap) /\ Apart(p.heap, last) /\ MayRise(p.heap, last)
       /\ Aged(Items(p)) /\ Len(p.heap) = last
  <2>1. last \in 1 .. last
    BY <1>1
  <2> HIDE DEF last
  <2>2. Apart(g, last)
    BY <1>9 DEF MayRise
  <2> QED BY <1>2, <1>6, <1>8, <1>9, <2>1, <2>2
<1> HIDE DEF last, h
<1>11. /\ Fits(HeapifyUp(p, last)) /\ Items(HeapifyUp(p, last)) = Items(p)
       /\ Len(HeapifyUp(p, last).heap) = Len(p.heap)
       /\ Ordered(HeapifyUp(p, last).heap)
  BY <1>7, <1>10, HeapifiesUp
<1>12. last = Len(q.heap) + 1
  BY DEF last, h
<1> QED BY <1>5, <1>8, <1>10, <1>11, <1>12

(* The task at i leaves, and the last one takes its place.                    *)
LEMMA Replaces ==
    ASSUME NEW q, Fits(q), NEW i \in 1 .. Len(q.heap)
    PROVE  LET r == Replace(q, i) IN
           /\ Fits(r) /\ Items(r) = Items(q) \ {q.heap[i]}
           /\ Len(r.heap) = Len(q.heap) - 1
           /\ \A j \in 1 .. (Len(q.heap) - 1) :
                 r.heap[j] = IF j = i THEN q.heap[Len(q.heap)] ELSE q.heap[j]
<1> DEFINE h == q.heap
           n == Len(h)
           last == h[n]
           g == [j \in 1 .. (n - 1) |-> IF j = i THEN last ELSE h[j]]
           m == IF i < n THEN [q.indexMap EXCEPT ![h[i].id] = None, ![last.id] = i]
                ELSE [q.indexMap EXCEPT ![h[i].id] = None]
<1>1. /\ h \in Seq(Task) /\ n \in Nat /\ DOMAIN h = 1 .. n /\ n \in 1 .. n /\ i \in 1 .. n
      /\ \A k \in 1 .. n : h[k] \in Task /\ h[k].id \in Ids /\ q.indexMap[h[k].id] = k
      /\ q.indexMap \in [Ids -> Nat \union {None}]
      /\ \A id \in Ids : q.indexMap[id] # None =>
            q.indexMap[id] \in 1 .. n /\ h[q.indexMap[id]].id = id
  <2>1. n \in Nat /\ i \in 1 .. n
    BY FitsFacts
  <2>2. n \in 1 .. n
    BY <2>1
  <2> QED BY <2>1, <2>2, FitsFacts
<1>2. Replace(q, i) = [heap |-> g, indexMap |-> m]
  BY DEF Replace
<1> HIDE DEF h, n
<1>3. \A k \in 1 .. n - 1 : k \in 1 .. n /\ k # n
  BY <1>1
<1>4. last \in Task /\ last.id \in Ids /\ q.indexMap[last.id] = n
  BY <1>1
<1> HIDE DEF last
<1>5. /\ n - 1 \in Nat /\ g \in Seq(Task) /\ Len(g) = n - 1 /\ DOMAIN g = 1 .. n - 1
      /\ \A j \in 1 .. n - 1 : g[j] = IF j = i THEN last ELSE h[j]
  <2>1. n - 1 \in Nat
    BY <1>1
  <2>2. \A j \in 1 .. n - 1 : (IF j = i THEN last ELSE h[j]) \in Task
    BY <1>1, <1>3, <1>4
  <2> QED BY <2>1, <2>2
<1>6. None \notin Nat
  BY QueueAssumption
<1>7. i < n => last.id # h[i].id
  BY <1>1, <1>4
<1>8. /\ m \in [Ids -> Nat \union {None}] /\ m[h[i].id] = None
      /\ i < n => m[last.id] = i
      /\ \A id \in Ids : id # h[i].id /\ id # last.id => m[id] = q.indexMap[id]
      /\ i = n => last.id = h[i].id
  <2>1. i < n \/ i = n
    BY <1>1
  <2>2. CASE i < n
    BY <1>1, <1>4, <1>7, <2>2
  <2>3. CASE i = n
    BY <1>1, <1>4, <2>3 DEF last
  <2> QED BY <2>1, <2>2, <2>3
<1> HIDE DEF g, m
<1>9. ASSUME NEW k \in 1 .. n - 1 PROVE m[g[k].id] = k
  <2>1. CASE k = i
    <3>1. i < n
      BY <1>1, <2>1
    <3> QED BY <1>5, <1>8, <2>1, <3>1
  <2>2. CASE k # i
    <3>1. g[k] = h[k] /\ k \in 1 .. n /\ k # n
      BY <1>3, <1>5, <2>2
    <3>2. h[k].id # h[i].id /\ h[k].id # last.id /\ h[k].id \in Ids
      BY <1>1, <1>4, <2>2, <3>1
    <3> QED BY <1>1, <1>8, <3>1, <3>2
  <2> QED BY <2>1, <2>2
<1>10. ASSUME NEW id \in Ids, m[id] # None PROVE m[id] \in 1 .. n - 1 /\ g[m[id]].id = id
  <2>1. id # h[i].id
    BY <1>8, <1>10
  <2>2. CASE id = last.id
    <3>1. i < n
      BY <1>1, <1>8, <2>1, <2>2
    <3>2. i \in 1 .. n - 1
      BY <1>1, <3>1
    <3> QED BY <1>5, <1>8, <2>2, <3>1, <3>2
  <2>3. CASE id # last.id
    <3>1. m[id] = q.indexMap[id] /\ m[id] \in 1 .. n /\ h[m[id]].id = id
      BY <1>1, <1>8, <1>10, <2>1, <2>3
    <3>2. m[id] # n /\ m[id] # i
      BY <2>1, <2>3, <3>1 DEF last
    <3>3. m[id] \in 1 .. n - 1
      BY <1>1, <3>1, <3>2
    <3> QED BY <1>5, <3>1, <3>2, <3>3
  <2> QED BY <2>2, <2>3
<1> DEFINE r == [heap |-> g, indexMap |-> m]
<1>11. r.heap = g /\ r.indexMap = m /\ r = [heap |-> g, indexMap |-> m]
  OBVIOUS
<1> HIDE DEF r
<1>12. Fits(r)
  BY <1>5, <1>8, <1>9, <1>10, <1>11 DEF Fits
<1>13. Items(r) = Items(q) \ {h[i]}
  <2>1. \A x : x \in Items(r) <=> \E k \in 1 .. n - 1 : x = g[k]
    BY <1>5, <1>11, ItemsOf
  <2>2. \A x : x \in Items(q) <=> \E k \in 1 .. n : x = h[k]
    BY <1>1, ItemsOf DEF h, n
  <2>3. \A j, k \in 1 .. n : j # k => h[j] # h[k]
    BY <1>1
  <2>4. ASSUME NEW x, x \in Items(r) PROVE x \in Items(q) \ {h[i]}
    <3>1. PICK k \in 1 .. n - 1 : x = g[k]
      BY <2>1, <2>4
    <3>2. CASE k = i
      <4>1. x = h[n] /\ n \in 1 .. n /\ i # n
        BY <1>1, <1>3, <1>5, <3>1, <3>2 DEF last
      <4> QED BY <1>1, <2>2, <2>3, <4>1
    <3>3. CASE k # i
      <4>1. x = h[k] /\ k \in 1 .. n
        BY <1>3, <1>5, <3>1, <3>3
      <4> QED BY <1>1, <2>2, <2>3, <3>3, <4>1
    <3> QED BY <3>2, <3>3
  <2>5. ASSUME NEW x, x \in Items(q), x # h[i] PROVE x \in Items(r)
    <3>1. PICK k \in 1 .. n : x = h[k]
      BY <2>2, <2>5
    <3>2. k # i
      BY <2>5, <3>1
    <3>3. CASE k = n
      <4>1. i \in 1 .. n - 1
        BY <1>1, <3>2, <3>3
      <4>2. g[i] = x
        BY <1>5, <3>1, <3>3, <4>1 DEF last
      <4> QED BY <2>1, <4>1, <4>2
    <3>4. CASE k # n
      <4>1. k \in 1 .. n - 1
        BY <1>1, <3>4
      <4>2. g[k] = x
        BY <1>5, <3>1, <3>2, <4>1
      <4> QED BY <2>1, <4>1, <4>2
    <3> QED BY <3>3, <3>4
  <2> QED BY <2>4, <2>5
<1>14. Replace(q, i) = r
  BY <1>2, <1>11
<1>15. h = q.heap /\ n = Len(q.heap) /\ last = q.heap[Len(q.heap)]
  BY DEF h, n, last
<1> QED BY <1>5, <1>11, <1>12, <1>13, <1>14, <1>15

(* After that only the task at i may be out of order, with its parent or with *)
(* its children.                                                              *)
LEMMA ReplacedOrder ==
    ASSUME NEW h \in Seq(Task), Ordered(h), NEW i \in 1 .. Len(h),
           NEW g \in Seq(Task), Len(g) = Len(h) - 1,
           \A j \in 1 .. (Len(h) - 1) : g[j] = IF j = i THEN h[Len(h)] ELSE h[j]
    PROVE  /\ Apart(g, i)
           /\ i = Len(h) => Ordered(g)
<1>1. Len(h) \in Nat /\ \A k \in 1 .. Len(h) : h[k] \in Task
  BY HeapDomain
<1>2. ASSUME NEW j \in 2 .. Len(g)
      PROVE  /\ j \in 2 .. Len(h) /\ j \in 1 .. Len(g)
             /\ j \div 2 \in 1 .. Len(g) /\ j \div 2 \in 1 .. Len(h) /\ j # Len(h)
             /\ Before(h[j \div 2], h[j]) /\ j \div 2 # Len(h) /\ j \in 1 .. Len(h)
             /\ j \div 2 # j
  <2>1. PICK b : b = j \div 2
    OBVIOUS
  <2>2. Len(g) \in Nat
    BY HeapDomain
  <2>3. b \in 1 .. Len(g) /\ b < j
    BY <2>1, <2>2, Parents
  <2>4. j \in 2 .. Len(h) /\ j # Len(h) /\ b # Len(h) /\ b \in 1 .. Len(h)
        /\ j \in 1 .. Len(h) /\ j \in 1 .. Len(g) /\ b # j
    BY <1>1, <2>2, <2>3
  <2>5. Before(h[b], h[j])
    BY <2>1, <2>4 DEF Ordered, Edge
  <2> QED BY <2>1, <2>3, <2>4, <2>5
<1>3. ASSUME NEW j \in 2 .. Len(g), j # i, j \div 2 # i PROVE Before(g[j \div 2], g[j])
  <2>1. PICK b : b = j \div 2
    OBVIOUS
  <2>2. b \in 1 .. Len(g) /\ Before(h[b], h[j]) /\ j \in 1 .. Len(g) /\ b # i
    BY <1>2, <1>3, <2>1
  <2>3. g[b] = h[b] /\ g[j] = h[j]
    BY <1>3, <2>2
  <2> QED BY <2>1, <2>2, <2>3
<1>4. ASSUME i > 1, NEW j \in 2 .. Len(g), j \div 2 = i PROVE Before(g[i \div 2], g[j])
  <2>1. i \in 2 .. Len(g) /\ j # i
    <3>1. j \div 2 \in 1 .. Len(g) /\ j \div 2 # j
      BY <1>2
    <3> QED BY <1>4, <3>1
  <2>2. i \div 2 \in 1 .. Len(g) /\ i \div 2 # i /\ Before(h[i \div 2], h[i]) /\
            i \div 2 \in 1 .. Len(h)
    BY <1>2, <2>1
  <2>3. g[j] = h[j] /\ Before(h[i], h[j]) /\ j \in 1 .. Len(h)
    BY <1>2, <1>4, <2>1
  <2>4. g[i \div 2] = h[i \div 2]
    BY <2>2
  <2> QED BY <1>1, <2>2, <2>3, <2>4, BeforeOrder
<1>5. ASSUME i = Len(h), NEW j \in 2 .. Len(g) PROVE Before(g[j \div 2], g[j])
  <2>1. j # i /\ j \div 2 # i
    BY <1>2, <1>5
  <2> QED BY <1>3, <2>1
<1> QED BY <1>3, <1>4, <1>5 DEF Apart, Ordered, Edge

(* Fewer tasks have different sequences too.                                  *)
LEMMA AgedSubset ==
    ASSUME NEW A, NEW B, Aged(B), A \subseteq B
    PROVE  Aged(A)
BY DEF Aged

(* extractMin() takes the root out and leaves a heap.                         *)
LEMMA Extracts ==
    ASSUME NEW q, Fits(q), Aged(Items(q)), Ordered(q.heap), q.heap # << >>
    PROVE  LET n == ExtractMin(q) IN
           /\ Fits(n) /\ Items(n) = Items(q) \ {q.heap[1]}
           /\ Len(n.heap) = Len(q.heap) - 1
           /\ Ordered(n.heap)
           /\ 1 \in 1 .. Len(q.heap)
<1>1. q.heap \in Seq(Task) /\ Len(q.heap) \in Nat /\ 1 \in 1 .. Len(q.heap)
  <2>1. q.heap \in Seq(Task) /\ Len(q.heap) \in Nat
    BY FitsFacts
  <2> QED BY <2>1
<1>2. PICK r : r = Replace(q, 1)
  OBVIOUS
<1>3. /\ Fits(r) /\ Items(r) = Items(q) \ {q.heap[1]} /\ Len(r.heap) = Len(q.heap) - 1
      /\ \A j \in 1 .. (Len(q.heap) - 1) :
            r.heap[j] = IF j = 1 THEN q.heap[Len(q.heap)] ELSE q.heap[j]
  BY <1>1, <1>2, Replaces
<1>4. r.heap \in Seq(Task)
  BY <1>3, FitsFacts
<1>5. Aged(Items(r))
  BY <1>3, AgedSubset
<1>6. CASE r.heap = << >>
  <2>1. ExtractMin(q) = r
    BY <1>2, <1>6 DEF ExtractMin
  <2>2. Ordered(r.heap)
    BY <1>6 DEF Ordered
  <2> QED BY <1>1, <1>3, <2>1, <2>2
<1>7. CASE r.heap # << >>
  <2>1. ExtractMin(q) = HeapifyDown(r, 1)
    BY <1>2, <1>7 DEF ExtractMin
  <2>2. 1 \in 1 .. Len(r.heap)
    BY <1>4, <1>7
  <2>3. PICK G : G = r.heap
    OBVIOUS
  <2>4. Apart(G, 1)
    BY <1>1, <1>3, <1>4, <2>3, ReplacedOrder
  <2>5. MaySink(r.heap, 1)
    BY <2>3, <2>4 DEF MaySink
  <2>6. PICK d : d = HeapifyDown(r, 1)
    OBVIOUS
  <2>7. Fits(d) /\ Items(d) = Items(r) /\ Len(d.heap) = Len(r.heap) /\ Ordered(d.heap)
    BY <1>3, <1>5, <2>2, <2>5, <2>6, HeapifiesDown
  <2>8. ExtractMin(q) = d
    BY <2>1, <2>6
  <2> QED BY <1>1, <1>3, <2>7, <2>8
<1> QED BY <1>6, <1>7

(* remove() takes the task of an id out, from wherever it is, and leaves a    *)
(* heap: the task moved into the gap goes up or down, and either loop leaves  *)
(* the other nothing to do.                                                   *)
LEMMA Removes ==
    ASSUME NEW q, Fits(q), Aged(Items(q)), Ordered(q.heap),
           NEW id \in Ids, q.indexMap[id] # None
    PROVE  LET n == RemoveTask(q, id) IN
           /\ Fits(n) /\ Items(n) = Items(q) \ {q.heap[q.indexMap[id]]}
           /\ Len(n.heap) = Len(q.heap) - 1
           /\ Ordered(n.heap)
<1>1. PICK i : i = q.indexMap[id]
  OBVIOUS
<1>2. i \in 1 .. Len(q.heap) /\ q.heap \in Seq(Task) /\ Len(q.heap) \in Nat
  BY <1>1, FitsFacts
<1>3. PICK r : r = Replace(q, i)
  OBVIOUS
<1>4. /\ Fits(r) /\ Items(r) = Items(q) \ {q.heap[i]} /\ Len(r.heap) = Len(q.heap) - 1
      /\ \A j \in 1 .. (Len(q.heap) - 1) :
            r.heap[j] = IF j = i THEN q.heap[Len(q.heap)] ELSE q.heap[j]
  BY <1>2, <1>3, Replaces
<1>5. r.heap \in Seq(Task) /\ Aged(Items(r))
  BY <1>4, FitsFacts, AgedSubset
<1>6. Apart(r.heap, i) /\ (i = Len(q.heap) => Ordered(r.heap))
  <2>1. PICK G : G = r.heap
    OBVIOUS
  <2>2. Apart(G, i) /\ (i = Len(q.heap) => Ordered(G))
    BY <1>2, <1>4, <1>5, <2>1, ReplacedOrder
  <2> QED BY <2>1, <2>2
<1>7. CASE i <= Len(r.heap)
  <2>1. PICK u : u = HeapifyUp(r, i)
    OBVIOUS
  <2>2. i \in 1 .. Len(r.heap)
    BY <1>2, <1>4, <1>7
  <2>3. /\ Fits(u) /\ Items(u) = Items(r) /\ Len(u.heap) = Len(r.heap)
        /\ Ordered(u.heap) \/ MaySink(u.heap, i)
    BY <1>4, <1>5, <1>6, <2>1, <2>2, HeapifiesUp
  <2>4. MaySink(u.heap, i)
    <3>1. u.heap \in Seq(Task) /\ i \in 1 .. Len(u.heap)
      BY <2>2, <2>3, FitsFacts
    <3> QED BY <2>3, <3>1, OrderedMaySink
  <2>5. RemoveTask(q, id) = HeapifyDown(u, i)
    BY <1>1, <1>3, <1>7, <2>1 DEF RemoveTask
  <2>6. PICK d : d = HeapifyDown(u, i)
    OBVIOUS
  <2>7. Aged(Items(u)) /\ i \in 1 .. Len(u.heap)
    BY <1>5, <2>2, <2>3
  <2>8. Fits(d) /\ Items(d) = Items(u) /\ Len(d.heap) = Len(u.heap) /\ Ordered(d.heap)
    BY <2>3, <2>4, <2>6, <2>7, HeapifiesDown
  <2>9. RemoveTask(q, id) = d
    BY <2>5, <2>6
  <2> QED BY <1>1, <1>4, <2>3, <2>8, <2>9
<1>8. CASE ~(i <= Len(r.heap))
  <2>1. i = Len(q.heap)
    BY <1>2, <1>4, <1>8
  <2>2. RemoveTask(q, id) = r
    BY <1>1, <1>3, <1>8 DEF RemoveTask
  <2> QED BY <1>1, <1>4, <1>6, <2>1, <2>2
<1> QED BY <1>7, <1>8

(* updatePriority() changes one task and leaves a heap.                       *)
LEMMA ChangesPriority ==
    ASSUME NEW q, Fits(q), Aged(Items(q)), Ordered(q.heap),
           NEW id \in Ids, q.indexMap[id] # None, NEW priority \in Priorities
    PROVE  LET n == UpdatePriority(q, id, priority)
               t == q.heap[q.indexMap[id]] IN
           /\ Fits(n)
           /\ Items(n) = (Items(q) \ {t}) \union {[t EXCEPT !.priority = priority]}
           /\ Len(n.heap) = Len(q.heap)
           /\ Ordered(n.heap)
<1>1. PICK i : i = q.indexMap[id]
  OBVIOUS
<1> DEFINE h == q.heap
           u == [h[i] EXCEPT !.priority = priority]
           g == [h EXCEPT ![i] = u]
           p == [q EXCEPT !.heap[i].priority = priority]
<1>2. /\ i \in 1 .. Len(h) /\ h \in Seq(Task) /\ Len(h) \in Nat
      /\ \A k \in 1 .. Len(h) : h[k] \in Task /\ h[k].id \in Ids /\ q.indexMap[h[k].id] = k
      /\ q.indexMap \in [Ids -> Nat \union {None}]
      /\ \A k \in Ids : q.indexMap[k] # None =>
            q.indexMap[k] \in 1 .. Len(h) /\ h[q.indexMap[k]].id = k
  BY <1>1, FitsFacts
<1>3. /\ u \in Task /\ u.id = h[i].id /\ u.sequence = h[i].sequence /\ u.priority = priority
  <2>1. PICK t : t = h[i]
    OBVIOUS
  <2>2. t \in Task /\ u = [t EXCEPT !.priority = priority]
    BY <1>2, <2>1
  <2> HIDE DEF u
  <2>3. u \in Task /\ u.id = t.id /\ u.sequence = t.sequence /\ u.priority = priority
    BY <2>2 DEF Task
  <2> QED BY <2>1, <2>3
<1>4. p = [heap |-> g, indexMap |-> q.indexMap]
  <2>1. q = [heap |-> q.heap, indexMap |-> q.indexMap]
    BY DEF Fits
  <2> QED BY <2>1
<1> HIDE DEF p, u
<1>5. /\ g \in Seq(Task) /\ Len(g) = Len(h) /\ DOMAIN g = 1 .. Len(h) /\ g[i] = u
      /\ \A k \in 1 .. Len(h) : k # i => g[k] = h[k]
  BY <1>2, <1>3
<1> HIDE DEF g, h
<1>6. p.heap = g /\ p.indexMap = q.indexMap
  BY <1>4
<1>7. \A k \in 1 .. Len(h) : g[k].id = h[k].id /\ g[k].sequence = h[k].sequence
  BY <1>3, <1>5
<1>8. Fits(p)
  <2>1. \A k \in 1 .. Len(h) : q.indexMap[g[k].id] = k
    BY <1>2, <1>7
  <2>2. \A k \in Ids : q.indexMap[k] # None =>
            q.indexMap[k] \in 1 .. Len(h) /\ g[q.indexMap[k]].id = k
    BY <1>2, <1>7
  <2>3. q.indexMap \in [Ids -> Nat \union {None}]
    BY <1>2
  <2> QED BY <1>4, <1>5, <1>6, <2>1, <2>2, <2>3 DEF Fits
<1>9. Items(p) = (Items(q) \ {h[i]}) \union {u}
  <2>1. \A x : x \in Items(p) <=> \E k \in 1 .. Len(h) : x = g[k]
    BY <1>5, <1>6, ItemsOf
  <2>2. \A x : x \in Items(q) <=> \E k \in 1 .. Len(h) : x = h[k]
    BY <1>2, ItemsOf DEF h
  <2>3. \A j, k \in 1 .. Len(h) : j # k => h[j] # h[k]
    BY <1>2
  <2>4. ASSUME NEW x, x \in Items(p) PROVE x \in (Items(q) \ {h[i]}) \union {u}
    BY <1>2, <1>5, <2>1, <2>2, <2>3, <2>4
  <2>5. ASSUME NEW x, x \in (Items(q) \ {h[i]}) \union {u} PROVE x \in Items(p)
    <3>1. CASE x = u
      BY <1>2, <1>5, <2>1, <3>1
    <3>2. CASE x \in Items(q) /\ x # h[i]
      BY <1>5, <2>1, <2>2, <3>2
    <3> QED BY <2>5, <3>1, <3>2
  <2> QED BY <2>4, <2>5
<1>10. Aged(Items(p))
  <2>1. h[i] \in Items(q)
    BY <1>2, ItemsOf DEF h
  <2> QED BY <1>3, <1>9, <2>1 DEF Aged
<1>11. \A j \in 2 .. Len(h) : /\ j \in 1 .. Len(h) /\ j \div 2 \in 1 .. Len(h)
                              /\ j \div 2 # j /\ Before(h[j \div 2], h[j])
  BY <1>2, Parents DEF Ordered, Edge, h
<1>12. Apart(g, i)
  <2>1. ASSUME NEW j \in 2 .. Len(g), j # i, j \div 2 # i PROVE Before(g[j \div 2], g[j])
    <3>1. PICK b : b = j \div 2
      OBVIOUS
    <3>2. b \in 1 .. Len(h) /\ Before(h[b], h[j]) /\ j \in 1 .. Len(h) /\ b # i
      BY <1>5, <1>11, <2>1, <3>1
    <3> QED BY <1>5, <2>1, <3>1, <3>2
  <2>2. ASSUME i > 1, NEW j \in 2 .. Len(g), j \div 2 = i PROVE Before(g[i \div 2], g[j])
    <3>1. PICK b : b = i \div 2
      OBVIOUS
    <3>2. i \in 2 .. Len(h)
      BY <1>2, <2>2
    <3>3. b \in 1 .. Len(h) /\ b # i /\ Before(h[b], h[i])
      BY <1>11, <3>1, <3>2
    <3>4. j \in 1 .. Len(h) /\ j # i /\ Before(h[i], h[j])
      BY <1>5, <1>11, <2>2
    <3>5. Before(h[b], h[j])
      BY <1>2, <3>3, <3>4, BeforeOrder
    <3> QED BY <1>5, <3>1, <3>3, <3>4, <3>5
  <2> QED BY <2>1, <2>2 DEF Apart, Edge
<1>13. h[i].priority \in Nat /\ priority \in Nat
  BY <1>2, QueueAssumption DEF Task
<1>14. priority <= h[i].priority => MayRise(g, i)
  <2> SUFFICES ASSUME priority <= h[i].priority, NEW j \in 2 .. Len(g), j \div 2 = i
               PROVE  Before(g[j \div 2], g[j])
    BY <1>12 DEF MayRise, Edge
  <2>1. j \in 1 .. Len(h) /\ j # i /\ Before(h[i], h[j])
    BY <1>5, <1>11
  <2>2. h[j].priority \in Nat /\ h[j] = g[j]
    BY <1>2, <1>5, <2>1, QueueAssumption DEF Task
  <2>3. Before(u, h[j])
    BY <1>3, <1>13, <2>1, <2>2 DEF Before
  <2> QED BY <1>5, <2>2, <2>3
<1>15. priority >= h[i].priority => MaySink(g, i)
  <2> SUFFICES ASSUME priority >= h[i].priority, i > 1
               PROVE  Before(g[i \div 2], g[i])
    BY <1>12 DEF MaySink, Edge
  <2>1. PICK b : b = i \div 2
    OBVIOUS
  <2>2. i \in 2 .. Len(h)
    BY <1>2
  <2>3. b \in 1 .. Len(h) /\ b # i /\ Before(h[b], h[i])
    BY <1>11, <2>1, <2>2
  <2>4. h[b].priority \in Nat /\ h[b] = g[b]
    BY <1>2, <1>5, <2>3, QueueAssumption DEF Task
  <2>5. Before(h[b], u)
    BY <1>3, <1>13, <2>3, <2>4 DEF Before
  <2> QED BY <1>5, <2>1, <2>4, <2>5
<1>16. i \in 1 .. Len(p.heap) /\ Len(p.heap) = Len(h) /\ Apart(p.heap, i)
  BY <1>2, <1>5, <1>6, <1>12
<1>17. UpdatePriority(q, id, priority) =
         IF priority < h[i].priority THEN HeapifyUp(p, i)
         ELSE IF priority > h[i].priority THEN HeapifyDown(p, i) ELSE p
  BY <1>1 DEF UpdatePriority, p, h
<1> DEFINE n == UpdatePriority(q, id, priority)
<1>18. Fits(n) /\ Items(n) = Items(p) /\ Len(n.heap) = Len(p.heap) /\ Ordered(n.heap)
  <2>1. CASE priority < h[i].priority
    <3>1. n = HeapifyUp(p, i)
      BY <1>17, <2>1
    <3>2. MayRise(p.heap, i)
      BY <1>6, <1>13, <1>14, <2>1
    <3> QED BY <1>8, <1>10, <1>16, <3>1, <3>2, HeapifiesUp
  <2>2. CASE priority > h[i].priority
    <3>1. n = HeapifyDown(p, i)
      BY <1>13, <1>17, <2>2
    <3>2. MaySink(p.heap, i)
      BY <1>6, <1>13, <1>15, <2>2
    <3> QED BY <1>8, <1>10, <1>16, <3>1, <3>2, HeapifiesDown
  <2>3. CASE priority = h[i].priority
    <3>1. n = p
      BY <1>13, <1>17, <2>3
    <3>2. Ordered(g)
      <4>1. MayRise(g, i) /\ MaySink(g, i)
        BY <1>13, <1>14, <1>15, <2>3
      <4>2. ASSUME NEW j \in 2 .. Len(g) PROVE Edge(g, j)
        <5>1. CASE j = i
          BY <4>1, <5>1 DEF MaySink
        <5>2. CASE j # i
          BY <4>1, <5>2 DEF MayRise, Apart
        <5> QED BY <5>1, <5>2
      <4> QED BY <4>2 DEF Ordered
    <3> QED BY <1>6, <1>8, <3>1, <3>2
  <2> QED BY <1>13, <2>1, <2>2, <2>3
<1> HIDE DEF n
<1>19. h = q.heap /\ h[i] = q.heap[q.indexMap[id]]
  BY <1>1 DEF h
<1> QED BY <1>9, <1>16, <1>18, <1>19 DEF n, u

-----------------------------------------------------------------------------
(* The steps                                                                  *)

(* The map holds these tasks, each under its id.                              *)
MapHolds(tasks) ==
    /\ taskMap \in [Ids -> Task \union {None}]
    /\ \A t \in tasks : taskMap[t.id] = t
    /\ \A id \in Ids : taskMap[id] # None => taskMap[id] \in tasks /\ taskMap[id].id = id

(* What holds between any two calls.                                          *)
Inv ==
    /\ Fits(Queue) /\ HeapOrdered /\ Len(heap) <= MaxSize
    /\ Aged(Items(Queue)) /\ \A t \in Items(Queue) : t.sequence < enqueueSequence
    /\ MapHolds(Items(Queue))
    /\ enqueueSequence \in 0 .. MaxSequence
    /\ dequeued \in Task \union {None}

(* The heap and the index of the queue.                                       *)
LEMMA QueueIs == Queue.heap = heap /\ Queue.indexMap = indexMap
BY DEF Queue

(* What the invariant says, position by position.                             *)
LEMMA InvFacts ==
    ASSUME Inv
    PROVE  /\ heap \in Seq(Task) /\ Len(heap) \in Nat /\ DOMAIN heap = 1 .. Len(heap)
           /\ \A k \in 1 .. Len(heap) : /\ heap[k] \in Task /\ heap[k].id \in Ids
                                        /\ heap[k] \in Items(Queue)
                                        /\ indexMap[heap[k].id] = k
           /\ indexMap \in [Ids -> Nat \union {None}]
           /\ \A id \in Ids : indexMap[id] # None =>
                 /\ indexMap[id] \in 1 .. Len(heap)
                 /\ heap[indexMap[id]].id = id /\ heap[indexMap[id]] = taskMap[id]
                 /\ taskMap[id] # None
           /\ \A id \in Ids : taskMap[id] # None => indexMap[id] # None
           /\ \A t \in Items(Queue) : t \in Task /\ t.id \in Ids
           /\ Ordered(heap)
<1>1. Fits(Queue) /\ MapHolds(Items(Queue))
  BY DEF Inv
<1>2. /\ heap \in Seq(Task) /\ Len(heap) \in Nat /\ DOMAIN heap = 1 .. Len(heap)
      /\ \A k \in 1 .. Len(heap) : /\ heap[k] \in Task /\ heap[k].id \in Ids
                                   /\ indexMap[heap[k].id] = k
      /\ indexMap \in [Ids -> Nat \union {None}]
      /\ \A id \in Ids : indexMap[id] # None =>
            indexMap[id] \in 1 .. Len(heap) /\ heap[indexMap[id]].id = id
  BY <1>1, FitsFacts, QueueIs
<1>3. \A x : x \in Items(Queue) <=> \E k \in 1 .. Len(heap) : x = heap[k]
  BY <1>2, ItemsOf, QueueIs
<1>4. None \notin Task /\ None \notin Nat
  BY QueueAssumption
<1>5. ASSUME NEW id \in Ids, indexMap[id] # None
      PROVE  heap[indexMap[id]] = taskMap[id] /\ taskMap[id] # None
  BY <1>1, <1>2, <1>3, <1>4, <1>5 DEF MapHolds
<1>6. ASSUME NEW id \in Ids, taskMap[id] # None PROVE indexMap[id] # None
  <2>1. PICK k \in 1 .. Len(heap) : taskMap[id] = heap[k] /\ taskMap[id].id = id
    BY <1>1, <1>3, <1>6 DEF MapHolds
  <2>2. indexMap[id] = k
    BY <1>2, <2>1
  <2> QED BY <1>2, <1>4, <2>2
<1>7. Ordered(heap)
  BY DEF Inv, HeapOrdered, Ordered, Edge
<1>8. \A t \in Items(Queue) : t \in Task /\ t.id \in Ids
  BY <1>2, <1>3
<1> QED BY <1>2, <1>3, <1>5, <1>6, <1>7, <1>8

(* The invariant says what TypeOK, HeapOrdered and IndexAndMapAgree say.      *)
LEMMA InvImplies == Inv => TypeOK /\ HeapOrdered /\ IndexAndMapAgree
<1> SUFFICES ASSUME Inv PROVE TypeOK /\ HeapOrdered /\ IndexAndMapAgree
  OBVIOUS
<1>1. TypeOK
  BY InvFacts DEF Inv, MapHolds, TypeOK
<1>2. IndexAndMapAgree
  BY InvFacts DEF IndexAndMapAgree
<1> QED BY <1>1, <1>2 DEF Inv

(* The invariant holds of an empty queue.                                     *)
LEMMA InitInv == Init => Inv
<1> SUFFICES ASSUME Init PROVE Inv
  OBVIOUS
<1>1. heap = << >> /\ Len(heap) = 0 /\ heap \in Seq(Task) /\ DOMAIN heap = {}
  BY DEF Init
<1>2. Items(Queue) = {}
  BY <1>1, QueueIs DEF Items
<1>3. Fits(Queue)
  BY <1>1 DEF Init, Fits, Queue
<1> QED BY <1>1, <1>2, <1>3, QueueAssumption DEF Inv, Init, HeapOrdered, Aged, MapHolds

(* The heap of the next state is the one an operation returned.               *)
LEMMA NextQueue ==
    ASSUME NEW n, Fits(n), Ordered(n.heap), Becomes(n)
    PROVE  Queue' = n /\ Fits(Queue)' /\ HeapOrdered' /\ heap' = n.heap
           /\ Items(Queue)' = Items(n)
<1>1. n = [heap |-> n.heap, indexMap |-> n.indexMap]
  BY DEF Fits
<1>2. heap' = n.heap /\ indexMap' = n.indexMap
  BY DEF Becomes
<1>3. Queue' = n
  BY <1>1, <1>2 DEF Queue
<1>4. HeapOrdered'
  BY <1>2 DEF HeapOrdered, Ordered, Edge
<1> QED BY <1>2, <1>3, <1>4

(* enqueue() preserves the invariant and adds the new task.                   *)
LEMMA EnqueueStep ==
    ASSUME Inv, NEW id \in Ids, NEW priority \in Priorities, Enqueue(id, priority)
    PROVE  LET task == [id |-> id, priority |-> priority, sequence |-> enqueueSequence] IN
           /\ Inv'
           /\ Items(Queue)' = Items(Queue) \union {task}
<1>1. PICK task : task = [id |-> id, priority |-> priority, sequence |-> enqueueSequence]
  OBVIOUS
<1>2. /\ enqueueSequence < MaxSequence /\ taskMap[id] = None /\ Len(heap) < MaxSize
      /\ Becomes(Insert(Queue, task)) /\ taskMap' = [taskMap EXCEPT ![id] = task]
      /\ enqueueSequence' = enqueueSequence + 1 /\ dequeued' = None
  BY <1>1 DEF Enqueue
<1>3. /\ Fits(Queue) /\ Aged(Items(Queue)) /\ \A t \in Items(Queue) : t.sequence < enqueueSequence
      /\ MapHolds(Items(Queue)) /\ enqueueSequence \in 0 .. MaxSequence
      /\ Ordered(Queue.heap) /\ Queue.indexMap[id] = None
      /\ \A t \in Items(Queue) : t \in Task /\ t.id \in Ids
  BY <1>2, InvFacts, QueueIs DEF Inv
<1>4. /\ task \in Task /\ task.id = id /\ task.sequence = enqueueSequence /\ task # None
      /\ enqueueSequence \in Nat /\ MaxSequence \in Nat
  BY <1>1, <1>3, QueueAssumption DEF Task
<1>5. Aged(Items(Queue) \union {task})
  <2>1. \A t \in Items(Queue) : t.sequence \in Nat /\ t.sequence # task.sequence
    BY <1>3, <1>4 DEF Task
  <2> QED BY <1>3, <2>1 DEF Aged
<1>6. PICK n : n = Insert(Queue, task)
  OBVIOUS
<1>7. /\ Fits(n) /\ Items(n) = Items(Queue) \union {task}
      /\ Len(n.heap) = Len(heap) + 1 /\ Ordered(n.heap)
  BY <1>3, <1>4, <1>5, <1>6, Inserts, QueueIs
<1>8. /\ Fits(Queue)' /\ HeapOrdered' /\ heap' = n.heap
      /\ Items(Queue)' = Items(Queue) \union {task}
  BY <1>2, <1>6, <1>7, NextQueue
<1>9. Len(heap') <= MaxSize
  BY <1>2, <1>7, <1>8, InvFacts, QueueAssumption
<1>10. \A t \in Items(Queue)' : t.sequence < enqueueSequence'
  <2>1. \A t \in Items(Queue) : t.sequence \in Nat
    BY <1>3 DEF Task
  <2> QED BY <1>2, <1>3, <1>4, <1>8, <2>1
<1>11. MapHolds(Items(Queue))'
  <2>1. taskMap' \in [Ids -> Task \union {None}] /\ taskMap'[id] = task
        /\ \A k \in Ids : k # id => taskMap'[k] = taskMap[k]
    BY <1>2, <1>3, <1>4 DEF MapHolds
  <2>2. \A t \in Items(Queue) : t.id # id
    BY <1>2, <1>3, QueueAssumption DEF MapHolds
  <2> QED BY <1>3, <1>4, <1>8, <2>1, <2>2 DEF MapHolds
<1>12. enqueueSequence' \in 0 .. MaxSequence /\ dequeued' \in Task \union {None}
  BY <1>2, <1>4
<1>13. Aged(Items(Queue))'
  BY <1>5, <1>8 DEF Aged
<1>14. Inv'
  BY <1>8, <1>9, <1>10, <1>11, <1>12, <1>13 DEF Inv
<1> QED BY <1>1, <1>8, <1>14

(* A step that takes one task out of heap, index and map preserves the        *)
(* invariant.                                                                 *)
LEMMA TakenOut ==
    ASSUME Inv, NEW t \in Items(Queue), NEW n, Fits(n), Ordered(n.heap),
           Items(n) = Items(Queue) \ {t}, Len(n.heap) = Len(heap) - 1, Becomes(n),
           taskMap' = [taskMap EXCEPT ![t.id] = None],
           dequeued' \in Task \union {None}, enqueueSequence' = enqueueSequence
    PROVE  Inv' /\ Items(Queue)' = Items(Queue) \ {t}
<1>1. /\ Fits(Queue)' /\ HeapOrdered' /\ heap' = n.heap
      /\ Items(Queue)' = Items(Queue) \ {t}
  BY NextQueue
<1>2. /\ Aged(Items(Queue)) /\ \A u \in Items(Queue) : u.sequence < enqueueSequence
      /\ MapHolds(Items(Queue)) /\ enqueueSequence \in 0 .. MaxSequence
      /\ t \in Task /\ t.id \in Ids
      /\ \A u \in Items(Queue) : u \in Task /\ u.id \in Ids
  BY InvFacts DEF Inv
<1>3. Len(heap') <= MaxSize
  <2>1. Len(heap) \in Nat /\ Len(heap) <= MaxSize
    BY InvFacts DEF Inv
  <2> QED BY <1>1, <2>1, QueueAssumption
<1>4. MapHolds(Items(Queue))'
  <2>1. taskMap' \in [Ids -> Task \union {None}] /\ taskMap'[t.id] = None
        /\ \A k \in Ids : k # t.id => taskMap'[k] = taskMap[k]
    BY <1>2 DEF MapHolds
  <2>2. \A u \in Items(Queue) : u # t => u.id # t.id
    BY <1>2 DEF MapHolds
  <2> QED BY <1>1, <1>2, <2>1, <2>2 DEF MapHolds
<1>5. Aged(Items(Queue))' /\ \A u \in Items(Queue)' : u.sequence < enqueueSequence'
  BY <1>1, <1>2 DEF Aged
<1> QED BY <1>1, <1>2, <1>3, <1>4, <1>5 DEF Inv

(* dequeue() preserves the invariant and takes out the task that comes before *)
(* all others.                                                                *)
LEMMA DequeueStep ==
    ASSUME Inv, Dequeue
    PROVE  /\ Inv' /\ heap[1] \in Items(Queue)
           /\ Items(Queue)' = Items(Queue) \ {heap[1]}
           /\ \A t \in Items(Queue) \ {heap[1]} : Before(heap[1], t)
<1>1. /\ heap # << >> /\ Becomes(ExtractMin(Queue))
      /\ taskMap' = [taskMap EXCEPT ![heap[1].id] = None]
      /\ dequeued' = heap[1] /\ enqueueSequence' = enqueueSequence
  BY DEF Dequeue
<1>2. /\ Fits(Queue) /\ Aged(Items(Queue)) /\ Ordered(Queue.heap)
      /\ heap \in Seq(Task) /\ Len(heap) \in Nat
      /\ \A k \in 1 .. Len(heap) : heap[k] \in Task /\ heap[k] \in Items(Queue)
  BY InvFacts, QueueIs DEF Inv
<1>3. PICK n : n = ExtractMin(Queue)
  OBVIOUS
<1>4. /\ Fits(n) /\ Items(n) = Items(Queue) \ {heap[1]}
      /\ Len(n.heap) = Len(heap) - 1 /\ Ordered(n.heap) /\ 1 \in 1 .. Len(heap)
  BY <1>1, <1>2, <1>3, Extracts, QueueIs
<1>5. PICK t : t = heap[1]
  OBVIOUS
<1>6. t \in Items(Queue) /\ t \in Task
  BY <1>2, <1>4, <1>5
<1>7. Inv' /\ Items(Queue)' = Items(Queue) \ {t}
  BY <1>1, <1>3, <1>4, <1>5, <1>6, TakenOut
<1>8. ASSUME NEW u \in Items(Queue) \ {t} PROVE Before(t, u)
  <2>1. PICK k \in 1 .. Len(heap) : u = heap[k]
    BY <1>2, ItemsOf, QueueIs
  <2>2. k \in 2 .. Len(heap)
    BY <1>2, <1>5, <1>8, <2>1
  <2> QED BY <1>2, <1>5, <2>1, <2>2, RootFirst, QueueIs
<1> QED BY <1>5, <1>6, <1>7, <1>8

(* remove() preserves the invariant and takes out the task of the id.         *)
LEMMA RemoveStep ==
    ASSUME Inv, NEW id \in Ids, Remove(id)
    PROVE  /\ Inv' /\ taskMap[id] \in Items(Queue)
           /\ Items(Queue)' = Items(Queue) \ {taskMap[id]}
<1>1. /\ indexMap[id] # None /\ Becomes(RemoveTask(Queue, id))
      /\ taskMap' = [taskMap EXCEPT ![id] = None]
      /\ dequeued' = None /\ enqueueSequence' = enqueueSequence
  BY DEF Remove
<1>2. /\ Fits(Queue) /\ Aged(Items(Queue)) /\ Ordered(Queue.heap)
      /\ indexMap[id] \in 1 .. Len(heap) /\ heap[indexMap[id]] \in Items(Queue)
      /\ heap[indexMap[id]].id = id /\ heap[indexMap[id]] = taskMap[id]
  BY <1>1, InvFacts, QueueIs DEF Inv
<1>3. PICK n : n = RemoveTask(Queue, id)
  OBVIOUS
<1>4. PICK t : t = heap[indexMap[id]]
  OBVIOUS
<1>5. /\ Fits(n) /\ Items(n) = Items(Queue) \ {t}
      /\ Len(n.heap) = Len(heap) - 1 /\ Ordered(n.heap)
  BY <1>1, <1>2, <1>3, <1>4, Removes, QueueIs
<1>6. t \in Items(Queue) /\ t.id = id /\ t = taskMap[id]
  BY <1>2, <1>4
<1>7. Inv' /\ Items(Queue)' = Items(Queue) \ {t}
  BY <1>1, <1>3, <1>5, <1>6, TakenOut
<1> QED BY <1>6, <1>7

(* reprioritize() preserves the invariant and changes one task.               *)
LEMMA ReprioritizeStep ==
    ASSUME Inv, NEW id \in Ids, NEW priority \in Priorities, Reprioritize(id, priority)
    PROVE  /\ Inv' /\ taskMap[id] \in Items(Queue)
           /\ Items(Queue)' = (Items(Queue) \ {taskMap[id]})
                                 \union {[taskMap[id] EXCEPT !.priority = priority]}
<1>1. /\ indexMap[id] # None /\ Becomes(UpdatePriority(Queue, id, priority))
      /\ taskMap' = [taskMap EXCEPT ![heap[indexMap[id]].id].priority = priority]
      /\ dequeued' = None /\ enqueueSequence' = enqueueSequence
  BY DEF Reprioritize
<1>2. PICK t : t = heap[indexMap[id]]
  OBVIOUS
<1>3. /\ Fits(Queue) /\ Aged(Items(Queue)) /\ Ordered(Queue.heap)
      /\ t \in Items(Queue) /\ t.id = id /\ t = taskMap[id] /\ t \in Task
      /\ \A u \in Items(Queue) : u \in Task /\ u.id \in Ids
      /\ Len(heap) \in Nat /\ Len(heap) <= MaxSize
      /\ \A u \in Items(Queue) : u.sequence < enqueueSequence
      /\ MapHolds(Items(Queue)) /\ enqueueSequence \in 0 .. MaxSequence
  BY <1>1, <1>2, InvFacts, QueueIs DEF Inv
<1>4. PICK v : v = [t EXCEPT !.priority = priority]
  OBVIOUS
<1>5. v \in Task /\ v.id = id /\ v.sequence = t.sequence
  BY <1>3, <1>4 DEF Task
<1>6. PICK n : n = UpdatePriority(Queue, id, priority)
  OBVIOUS
<1>7. /\ Fits(n) /\ Items(n) = (Items(Queue) \ {t}) \union {v}
      /\ Len(n.heap) = Len(heap) /\ Ordered(n.heap)
  <2>1. PICK q : q = Queue
    OBVIOUS
  <2>2. Fits(q) /\ Aged(Items(q)) /\ Ordered(q.heap) /\ q.indexMap[id] # None
    BY <1>1, <1>3, <2>1, QueueIs
  <2>3. t = q.heap[q.indexMap[id]] /\ n = UpdatePriority(q, id, priority) /\ q.heap = heap
    BY <1>2, <1>6, <2>1, QueueIs
  <2>4. /\ Fits(n) /\ Items(n) = (Items(q) \ {t}) \union {v}
        /\ Len(n.heap) = Len(q.heap) /\ Ordered(n.heap)
    BY <1>4, <2>2, <2>3, ChangesPriority
  <2> QED BY <2>1, <2>3, <2>4
<1>8. /\ Fits(Queue)' /\ HeapOrdered' /\ heap' = n.heap
      /\ Items(Queue)' = (Items(Queue) \ {t}) \union {v}
  BY <1>1, <1>6, <1>7, NextQueue
<1>9. MapHolds(Items(Queue))'
  <2>1. taskMap' = [taskMap EXCEPT ![id] = v]
    BY <1>1, <1>2, <1>3, <1>4
  <2>2. taskMap' \in [Ids -> Task \union {None}] /\ taskMap'[id] = v
        /\ \A k \in Ids : k # id => taskMap'[k] = taskMap[k]
    BY <1>3, <1>5, <2>1 DEF MapHolds
  <2>3. \A u \in Items(Queue) : u # t => u.id # id
    BY <1>3 DEF MapHolds
  <2> QED BY <1>3, <1>5, <1>8, <2>2, <2>3 DEF MapHolds
<1>10. Aged(Items(Queue))' /\ \A u \in Items(Queue)' : u.sequence < enqueueSequence'
  BY <1>1, <1>3, <1>5, <1>8 DEF Aged
<1>11. Len(heap') <= MaxSize /\ enqueueSequence' \in 0 .. MaxSequence
       /\ dequeued' \in Task \union {None}
  BY <1>1, <1>3, <1>7, <1>8
<1>12. Inv'
  BY <1>8, <1>9, <1>10, <1>11 DEF Inv
<1> QED BY <1>3, <1>4, <1>8, <1>12

(* clear() leaves an empty queue.                                             *)
LEMMA ClearStep ==
    ASSUME Inv, Clear
    PROVE  Inv' /\ Items(Queue)' = {}
<1>1. /\ heap' = << >> /\ indexMap' = [id \in Ids |-> None] /\ taskMap' = [id \in Ids |-> None]
      /\ dequeued' = None /\ enqueueSequence' = enqueueSequence
  BY DEF Clear
<1>2. enqueueSequence \in 0 .. MaxSequence
  BY DEF Inv
<1>3. PICK n : n = [heap |-> << >>, indexMap |-> [id \in Ids |-> None]]
  OBVIOUS
<1>4. n.heap = << >> /\ Len(n.heap) = 0 /\ n.indexMap = [id \in Ids |-> None]
  BY <1>3
<1>5. Fits(n) /\ Ordered(n.heap) /\ Items(n) = {}
  BY <1>3, <1>4 DEF Fits, Ordered, Items
<1>6. Becomes(n)
  BY <1>1, <1>4 DEF Becomes
<1>7. Fits(Queue)' /\ HeapOrdered' /\ heap' = n.heap /\ Items(Queue)' = {}
  BY <1>5, <1>6, NextQueue
<1>8. MapHolds({})'
  BY <1>1 DEF MapHolds
<1> QED BY <1>1, <1>2, <1>4, <1>7, <1>8, QueueAssumption DEF Inv, Aged, MapHolds

(* Every step preserves the invariant.                                        *)
LEMMA NextInv == Inv /\ [Next]_vars => Inv'
<1> SUFFICES ASSUME Inv, [Next]_vars PROVE Inv'
  OBVIOUS
<1>1. CASE UNCHANGED vars
  BY <1>1 DEF vars, Inv, Queue, Fits, HeapOrdered, Items, Aged, MapHolds
<1>2. CASE Next
  BY <1>2, EnqueueStep, DequeueStep, RemoveStep, ReprioritizeStep, ClearStep DEF Next
<1> QED BY <1>1, <1>2

-----------------------------------------------------------------------------
(* What holds of every reachable state                                        *)

(* The invariant holds in every reachable state.                              *)
THEOREM QueueInv == Spec => []Inv
<1> QED BY InitInv, NextInv, PTL DEF Spec

(* Heap, index and map are well typed and the queue never exceeds its size,   *)
(* for any ids, priorities and size.                                          *)
THEOREM QueueTypeCorrect == Spec => []TypeOK
<1>1. Inv => TypeOK
  BY InvImplies
<1> QED BY <1>1, QueueInv, PTL

(* No task comes before its parent: after any sequence of insertions,         *)
(* extractions, removals from the middle and changes of priority, the array   *)
(* is a heap.                                                                 *)
THEOREM QueueHeapOrdered == Spec => []HeapOrdered
<1>1. Inv => HeapOrdered
  BY InvImplies
<1> QED BY <1>1, QueueInv, PTL

(* The index finds every task of the heap where it is and no other, and the   *)
(* map holds the same tasks: a removal or a change of priority by id reaches  *)
(* the task meant.                                                            *)
THEOREM QueueIndexAndMapAgree == Spec => []IndexAndMapAgree
<1>1. Inv => IndexAndMapAgree
  BY InvImplies
<1> QED BY <1>1, QueueInv, PTL

-----------------------------------------------------------------------------
(* The refinement                                                             *)

(* The tasks of the map are those of the heap ...                             *)
LEMMA TasksAreItems ==
    ASSUME Inv
    PROVE  Tasks = Items(Queue)
<1>1. MapHolds(Items(Queue)) /\ \A t \in Items(Queue) : t \in Task /\ t.id \in Ids
  BY InvFacts DEF Inv
<1>2. None \notin Task
  BY QueueAssumption
<1>3. ASSUME NEW t \in Tasks PROVE t \in Items(Queue)
  BY <1>1 DEF Tasks, MapHolds
<1>4. ASSUME NEW t \in Items(Queue) PROVE t \in Tasks
  <2>1. t.id \in Ids /\ taskMap[t.id] = t /\ t # None
    BY <1>1, <1>2 DEF MapHolds
  <2> QED BY <2>1 DEF Tasks
<1> QED BY <1>3, <1>4

(* ... and as many as the heap is long.                                       *)
LEMMA TasksCount ==
    ASSUME Inv
    PROVE  IsFiniteSet(Tasks) /\ Cardinality(Tasks) = Len(heap)
<1> DEFINE S == 1 .. Len(heap)
<1>1. /\ heap \in Seq(Task) /\ Len(heap) \in Nat /\ DOMAIN heap = S
      /\ \A i, j \in S : heap[i] = heap[j] => i = j
  BY InvFacts
<1>2. \A x : x \in Tasks <=> \E i \in S : x = heap[i]
  BY <1>1, TasksAreItems, ItemsOf, QueueIs
<1>3. heap \in Bijection(S, Tasks)
  <2>1. heap \in [S -> Tasks]
    BY <1>1, <1>2
  <2> QED BY <1>1, <1>2, <2>1 DEF Bijection, Injection, Surjection, IsInjective
<1>4. IsFiniteSet(S) /\ Cardinality(S) = Len(heap)
  <2>1. PICK n \in Nat : n = Len(heap)
    BY <1>1
  <2>2. IsFiniteSet(1 .. n) /\ Cardinality(1 .. n) = n
    BY FS_Interval
  <2> QED BY <2>1, <2>2
<1>5. ExistsBijection(S, Tasks)
  BY <1>3 DEF ExistsBijection
<1> HIDE DEF S
<1> QED BY <1>4, <1>5, FS_Bijection

(* PriorityQueue counts as this module does.                                  *)
LEMMA SameCount ==
    ASSUME NEW S
    PROVE  Abstract!Cardinality(S) = Cardinality(S)
<1>1. Abstract!IsFiniteSet(S) <=> IsFiniteSet(S)
  BY DEF Abstract!IsFiniteSet, IsFiniteSet
<1> QED BY <1>1 DEF Abstract!Cardinality, Cardinality

(* An empty queue has no task waiting.                                        *)
LEMMA QueueInitRefines == Init => Abstract!Init
BY DEF Init, Tasks, Abstract!Init

(* Every step of the queue is a step of the set of tasks.                     *)
LEMMA QueueStepRefines ==
    ASSUME Inv, [Next]_vars
    PROVE  [Abstract!Next]_(Abstract!vars)
<1>1. Inv'
  BY NextInv
<1>2. Tasks = Items(Queue) /\ Tasks' = Items(Queue)'
  <2>1. Inv => Tasks = Items(Queue)
    BY TasksAreItems
  <2>2. (Inv => Tasks = Items(Queue))'
    BY TasksAreItems, PTL
  <2> QED BY <1>1, <2>1, <2>2
<1>3. CASE UNCHANGED vars
  BY <1>3 DEF vars, Tasks, Abstract!vars
<1>4. ASSUME NEW id \in Ids, NEW priority \in Priorities, Enqueue(id, priority)
      PROVE  Abstract!Next
  <2>1. \A t \in Tasks : t.id # id
    BY <1>2, <1>4, InvFacts, QueueAssumption DEF Inv, MapHolds, Enqueue
  <2>2. Cardinality(Tasks) < MaxSize
    BY <1>4, TasksCount DEF Enqueue
  <2>3. Tasks' = Tasks \union
                  {[id |-> id, priority |-> priority, sequence |-> enqueueSequence]}
    BY <1>2, <1>4, EnqueueStep
  <2>4. enqueueSequence' = enqueueSequence + 1 /\ dequeued' = None
    BY <1>4 DEF Enqueue
  <2>5. Abstract!Arrive(id, priority)
    BY <2>1, <2>2, <2>3, <2>4, SameCount DEF Abstract!Arrive
  <2> QED BY <2>5 DEF Abstract!Next
<1>5. ASSUME Dequeue
      PROVE  Abstract!Next
  <2>1. heap[1] \in Tasks /\ Abstract!Serve(heap[1])
    BY <1>2, <1>5, DequeueStep DEF Dequeue, Abstract!Serve, Abstract!MoreUrgent, Before
  <2> QED BY <2>1 DEF Abstract!Next
<1>6. ASSUME NEW id \in Ids, NEW priority \in Priorities, Reprioritize(id, priority)
      PROVE  Abstract!Next
  <2>1. taskMap[id] \in Tasks /\ Abstract!Change(taskMap[id], priority)
    BY <1>2, <1>6, ReprioritizeStep DEF Reprioritize, Abstract!Change
  <2> QED BY <2>1 DEF Abstract!Next
<1>7. ASSUME NEW id \in Ids, Remove(id)
      PROVE  Abstract!Next
  <2>1. taskMap[id] \in Tasks /\ Abstract!Withdraw({taskMap[id]})
    BY <1>2, <1>7, RemoveStep DEF Remove, Abstract!Withdraw
  <2> QED BY <2>1 DEF Abstract!Next
<1>8. ASSUME Clear
      PROVE  Abstract!Next
  <2>1. Abstract!Withdraw(Tasks)
    BY <1>2, <1>8, ClearStep DEF Clear, Abstract!Withdraw
  <2> QED BY <2>1 DEF Abstract!Next
<1> QED BY <1>3, <1>4, <1>5, <1>6, <1>7, <1>8 DEF Next

(* The heap, its index and the map implement a set of tasks from which the    *)
(* most urgent one is served, the oldest among equals.                        *)
THEOREM QueueImplementsPriorityQueue == Spec => ImplementsPriorityQueue
<1> QED BY QueueInitRefines, QueueInv, QueueStepRefines, PTL
        DEF Spec, ImplementsPriorityQueue, Abstract!Spec

-----------------------------------------------------------------------------
(* The sorted array                                                           *)

(* After m rounds of the first loop of toArray().                             *)
Put(s, tasks, m) ==
    /\ Fits(s.q) /\ Ordered(s.q.heap)
    /\ s.left \subseteq tasks /\ Items(s.q) = tasks \ s.left
    /\ IsFiniteSet(s.left) /\ Cardinality(s.left) = Cardinality(tasks) - m

(* A round of the first loop puts one task more into the heap.                *)
LEMMA InsertOneRound ==
    ASSUME NEW tasks, IsFiniteSet(tasks), Aged(tasks), tasks \subseteq Task,
           \A t, u \in tasks : t.id = u.id => t = u,
           NEW m \in Nat, m < Cardinality(tasks), NEW s, Put(s, tasks, m)
    PROVE  Put(InsertOne(s), tasks, m + 1)
<1>1. PICK q : q = s.q
  OBVIOUS
<1>2. PICK left : left = s.left
  OBVIOUS
<1>3. PICK size : size = Cardinality(tasks)
  OBVIOUS
<1>4. size \in Nat
  BY <1>3, FS_CardinalityType
<1>5. /\ Fits(q) /\ Ordered(q.heap) /\ left \subseteq tasks /\ Items(q) = tasks \ left
      /\ IsFiniteSet(left) /\ Cardinality(left) = size - m
  BY <1>1, <1>2, <1>3 DEF Put
<1>6. left # {}
  BY <1>3, <1>4, <1>5, FS_EmptySet
<1>7. PICK t : t = (CHOOSE x \in left : TRUE)
  OBVIOUS
<1>8. t \in left /\ t \in tasks /\ t \in Task /\ t.id \in Ids /\ t \notin Items(q)
  BY <1>5, <1>6, <1>7 DEF Task
<1>9. q.indexMap[t.id] = None
  <2> SUFFICES ASSUME q.indexMap[t.id] # None PROVE FALSE
    OBVIOUS
  <2>1. /\ q.heap \in Seq(Task) /\ q.indexMap[t.id] \in 1 .. Len(q.heap)
        /\ q.heap[q.indexMap[t.id]].id = t.id
    BY <1>5, <1>8, FitsFacts
  <2>2. q.heap[q.indexMap[t.id]] \in Items(q)
    BY <2>1, ItemsOf
  <2> QED BY <1>5, <1>8, <2>1, <2>2
<1>10. Aged(Items(q) \union {t})
  BY <1>5, <1>8 DEF Aged
<1>11. PICK n : n = Insert(q, t)
  OBVIOUS
<1>12. Fits(n) /\ Items(n) = Items(q) \union {t} /\ Ordered(n.heap)
  BY <1>5, <1>8, <1>9, <1>10, <1>11, Inserts
<1>13. IsFiniteSet(left \ {t}) /\ Cardinality(left \ {t}) = Cardinality(left) - 1
  BY <1>5, <1>8, FS_RemoveElement
<1>14. PICK r : r = [q |-> n, left |-> left \ {t}]
  OBVIOUS
<1>15. InsertOne(s) = r /\ r.q = n /\ r.left = left \ {t}
  BY <1>1, <1>2, <1>7, <1>11, <1>14 DEF InsertOne
<1>16. Items(n) = tasks \ (left \ {t}) /\ left \ {t} \subseteq tasks
  BY <1>5, <1>8, <1>12
<1>17. Cardinality(left \ {t}) = Cardinality(tasks) - (m + 1)
  BY <1>3, <1>4, <1>5, <1>13
<1> QED BY <1>12, <1>13, <1>15, <1>16, <1>17 DEF Put

(* The first loop of toArray() puts all tasks into a heap.                    *)
LEMMA InsertsAll ==
    ASSUME NEW tasks, IsFiniteSet(tasks), Aged(tasks), tasks \subseteq Task,
           \A t, u \in tasks : t.id = u.id => t = u
    PROVE  LET n == InsertAll([heap |-> << >>, indexMap |-> [id \in Ids |-> None]], tasks) IN
           Fits(n) /\ Ordered(n.heap) /\ Items(n) = tasks
<1>1. PICK q : q = [heap |-> << >>, indexMap |-> [id \in Ids |-> None]]
  OBVIOUS
<1>2. PICK size : size = Cardinality(tasks)
  OBVIOUS
<1>3. size \in Nat
  BY <1>2, FS_CardinalityType
<1>4. PICK f : /\ f[0] = [q |-> q, left |-> tasks] /\ InsertAll(q, tasks) = f[size].q
               /\ \A k \in 1 .. size : f[k] = InsertOne(f[k - 1])
  BY <1>2, <1>3, InsertAllUnfolds
<1> DEFINE T == {m \in Nat : m <= size => Put(f[m], tasks, m)}
<1>5. 0 \in T
  <2>1. q.heap = << >> /\ Len(q.heap) = 0 /\ q.indexMap = [id \in Ids |-> None]
    BY <1>1
  <2>2. Fits(q) /\ Ordered(q.heap) /\ Items(q) = {}
    BY <1>1, <2>1 DEF Fits, Ordered, Items
  <2>3. f[0].q = q /\ f[0].left = tasks
    BY <1>4
  <2> QED BY <1>2, <1>3, <2>2, <2>3 DEF Put
<1>6. ASSUME NEW m \in Nat, m \in T PROVE m + 1 \in T
  <2> SUFFICES ASSUME m + 1 <= size PROVE Put(f[m + 1], tasks, m + 1)
    OBVIOUS
  <2>1. Put(f[m], tasks, m) /\ m < Cardinality(tasks)
    BY <1>2, <1>3, <1>6
  <2>2. f[m + 1] = InsertOne(f[m])
    BY <1>3, <1>4
  <2>3. PICK s : s = f[m]
    OBVIOUS
  <2>4. Put(InsertOne(s), tasks, m + 1)
    BY <2>1, <2>3, InsertOneRound
  <2> QED BY <2>2, <2>3, <2>4
<1> HIDE DEF T
<1>7. Nat \subseteq T
  BY <1>5, <1>6, Induction
<1>8. Put(f[size], tasks, size)
  BY <1>3, <1>7 DEF T
<1>9. PICK g : g = f[size]
  OBVIOUS
<1>10. Fits(g.q) /\ Ordered(g.q.heap) /\ Items(g.q) = tasks
  <2>1. /\ Fits(g.q) /\ Ordered(g.q.heap) /\ Items(g.q) = tasks \ g.left
        /\ IsFiniteSet(g.left) /\ Cardinality(g.left) = 0
    BY <1>2, <1>3, <1>8, <1>9 DEF Put
  <2>2. g.left = {}
    BY <2>1, FS_EmptySet
  <2> QED BY <2>1, <2>2
<1> QED BY <1>1, <1>4, <1>9, <1>10

(* After m rounds of the second.                                              *)
Taken(s, q, m) ==
    /\ Fits(s.q) /\ Ordered(s.q.heap) /\ Len(s.q.heap) = Len(q.heap) - m
    /\ s.out \in Seq(Task) /\ Len(s.out) = m
    /\ \A x : x \in Items(q) <=> x \in Items(s.q) \/ \E i \in 1 .. m : x = s.out[i]
    /\ \A i \in 2 .. m : Before(s.out[i - 1], s.out[i])
    /\ m > 0 => \A x \in Items(s.q) : Before(s.out[m], x)

(* A round of the second loop takes the first task out of those left.         *)
LEMMA ExtractOneRound ==
    ASSUME NEW q, Aged(Items(q)), Len(q.heap) \in Nat,
           NEW m \in Nat, m < Len(q.heap), NEW s, Taken(s, q, m)
    PROVE  Taken(ExtractOne(s), q, m + 1)
<1>1. PICK p : p = s.q
  OBVIOUS
<1>2. PICK out : out = s.out
  OBVIOUS
<1>3. /\ Fits(p) /\ Ordered(p.heap) /\ Len(p.heap) = Len(q.heap) - m
      /\ out \in Seq(Task) /\ Len(out) = m
      /\ \A x : x \in Items(q) <=> x \in Items(p) \/ \E i \in 1 .. m : x = out[i]
      /\ \A i \in 2 .. m : Before(out[i - 1], out[i])
      /\ m > 0 => \A x \in Items(p) : Before(out[m], x)
  BY <1>1, <1>2 DEF Taken
<1>4. /\ p.heap \in Seq(Task) /\ Len(p.heap) \in Nat /\ Len(p.heap) > 0 /\ p.heap # << >>
      /\ \A k \in 1 .. Len(p.heap) : p.heap[k] \in Task
  <2>1. /\ p.heap \in Seq(Task) /\ Len(p.heap) \in Nat
        /\ \A k \in 1 .. Len(p.heap) : p.heap[k] \in Task
    BY <1>3, FitsFacts
  <2>2. Len(p.heap) > 0
    BY <1>3, <2>1
  <2> QED BY <2>1, <2>2
<1>5. Aged(Items(p))
  BY <1>3 DEF Aged
<1>6. PICK e : e = p.heap[1]
  OBVIOUS
<1>7. e \in Task /\ e \in Items(p)
  <2>1. 1 \in 1 .. Len(p.heap)
    BY <1>4
  <2> QED BY <1>4, <1>6, <2>1, ItemsOf
<1>8. PICK n : n = ExtractMin(p)
  OBVIOUS
<1>9. /\ Fits(n) /\ Items(n) = Items(p) \ {e} /\ Len(n.heap) = Len(p.heap) - 1
      /\ Ordered(n.heap)
  BY <1>3, <1>4, <1>5, <1>6, <1>8, Extracts
<1>10. ASSUME NEW x \in Items(n) PROVE Before(e, x)
  <2>1. PICK k \in 1 .. Len(p.heap) : x = p.heap[k]
    BY <1>4, <1>9, ItemsOf
  <2>2. k \in 2 .. Len(p.heap)
    BY <1>4, <1>6, <1>9, <1>10, <2>1
  <2>3. PICK h : h = p.heap
    OBVIOUS
  <2>4. h \in Seq(Task) /\ Ordered(h) /\ k \in 2 .. Len(h)
    BY <1>3, <1>4, <2>2, <2>3
  <2>5. Before(h[1], h[k])
    BY <2>4, RootFirst
  <2> QED BY <1>6, <2>1, <2>3, <2>5
<1>11. PICK after : after = Append(out, e)
  OBVIOUS
<1>12. /\ after \in Seq(Task) /\ Len(after) = m + 1 /\ after[m + 1] = e
       /\ \A i \in 1 .. m : after[i] = out[i]
  BY <1>3, <1>7, <1>11
<1>13. PICK r : r = [q |-> n, out |-> after]
  OBVIOUS
<1>14. ExtractOne(s) = r /\ r.q = n /\ r.out = after
  BY <1>1, <1>2, <1>6, <1>8, <1>11, <1>13 DEF ExtractOne
<1>15. \A x : x \in Items(q) <=> x \in Items(n) \/ \E i \in 1 .. (m + 1) : x = after[i]
  <2>1. \A x : (\E i \in 1 .. (m + 1) : x = after[i])
                  <=> x = e \/ \E i \in 1 .. m : x = out[i]
    <3>1. \A i : i \in 1 .. (m + 1) <=> i \in 1 .. m \/ i = m + 1
      OBVIOUS
    <3> QED BY <1>12, <3>1
  <2>2. \A x : x \in Items(p) <=> x \in Items(n) \/ x = e
    BY <1>7, <1>9
  <2>3. PICK earlier : earlier = {out[i] : i \in 1 .. m}
    OBVIOUS
  <2>4. PICK later : later = {after[i] : i \in 1 .. (m + 1)}
    OBVIOUS
  <2>5. \A x : x \in later <=> x = e \/ x \in earlier
    BY <2>1, <2>3, <2>4
  <2>6. \A x : x \in Items(q) <=> x \in Items(p) \/ x \in earlier
    BY <1>3, <2>3
  <2>7. \A x : x \in Items(q) <=> x \in Items(n) \/ x \in later
    BY <2>2, <2>5, <2>6
  <2> QED BY <2>4, <2>7
<1>16. ASSUME NEW i \in 2 .. (m + 1) PROVE Before(after[i - 1], after[i])
  <2>1. CASE i = m + 1
    <3>1. m > 0 /\ m \in 1 .. m /\ i - 1 = m
      BY <2>1
    <3>2. Before(out[m], e)
      BY <1>3, <1>7, <3>1
    <3> QED BY <1>12, <2>1, <3>1, <3>2
  <2>2. CASE i # m + 1
    <3>1. i \in 2 .. m /\ i - 1 \in 1 .. m /\ i \in 1 .. m
      BY <2>2
    <3> QED BY <1>3, <1>12, <3>1
  <2> QED BY <2>1, <2>2
<1>17. Len(n.heap) = Len(q.heap) - (m + 1)
  BY <1>3, <1>4, <1>9
<1> QED BY <1>9, <1>10, <1>12, <1>14, <1>15, <1>16, <1>17 DEF Taken

(* The second loop of toArray() takes all tasks out, each before those taken  *)
(* out after it.                                                              *)
LEMMA ExtractsAll ==
    ASSUME NEW q, Fits(q), Aged(Items(q)), Ordered(q.heap)
    PROVE  LET out == ExtractAll(q) IN
           /\ out \in Seq(Task) /\ Len(out) = Len(q.heap)
           /\ \A x : x \in Items(q) <=> \E i \in 1 .. Len(out) : x = out[i]
           /\ \A i \in 2 .. Len(out) : Before(out[i - 1], out[i])
<1>1. PICK size : size = Len(q.heap)
  OBVIOUS
<1>2. q.heap \in Seq(Task) /\ size \in Nat /\ Len(q.heap) \in Nat
  BY <1>1, FitsFacts
<1>3. PICK f : /\ f[0] = [q |-> q, out |-> << >>] /\ ExtractAll(q) = f[size].out
               /\ \A k \in 1 .. size : f[k] = ExtractOne(f[k - 1])
  BY <1>1, <1>2, ExtractAllUnfolds
<1> DEFINE T == {m \in Nat : m <= size => Taken(f[m], q, m)}
<1>4. 0 \in T
  <2>1. f[0].q = q /\ f[0].out = << >>
    BY <1>3
  <2>2. PICK s : s = f[0]
    OBVIOUS
  <2>3. s.q = q /\ s.out = << >> /\ s.out \in Seq(Task) /\ Len(s.out) = 0
    <3>1. << >> \in Seq(Task) /\ Len(<< >>) = 0
      OBVIOUS
    <3>2. s.q = q /\ s.out = << >>
      BY <2>1, <2>2, Zenon
    <3> QED BY <3>1, <3>2, Zenon
  <2>4. \A i : i \notin 1 .. 0 /\ i \notin 2 .. 0
    OBVIOUS
  <2>5. Len(s.q.heap) = Len(q.heap) - 0
    BY <1>2, <2>3
  <2>6. Taken(s, q, 0)
    BY <2>3, <2>4, <2>5 DEF Taken
  <2> QED BY <2>2, <2>6
<1>5. ASSUME NEW m \in Nat, m \in T PROVE m + 1 \in T
  <2> SUFFICES ASSUME m + 1 <= size PROVE Taken(f[m + 1], q, m + 1)
    OBVIOUS
  <2>1. Taken(f[m], q, m) /\ m < Len(q.heap)
    BY <1>1, <1>2, <1>5
  <2>2. f[m + 1] = ExtractOne(f[m])
    BY <1>2, <1>3
  <2>3. PICK s : s = f[m]
    OBVIOUS
  <2>4. Taken(ExtractOne(s), q, m + 1)
    BY <1>2, <2>1, <2>3, ExtractOneRound
  <2> QED BY <2>2, <2>3, <2>4
<1> HIDE DEF T
<1>6. Nat \subseteq T
  BY <1>4, <1>5, Induction
<1>7. Taken(f[size], q, size)
  BY <1>2, <1>6 DEF T
<1>8. PICK g : g = f[size]
  OBVIOUS
<1>9. /\ Fits(g.q) /\ Len(g.q.heap) = 0 /\ g.out \in Seq(Task) /\ Len(g.out) = size
      /\ \A x : x \in Items(q) <=> x \in Items(g.q) \/ \E i \in 1 .. size : x = g.out[i]
      /\ \A i \in 2 .. size : Before(g.out[i - 1], g.out[i])
  BY <1>1, <1>2, <1>7, <1>8 DEF Taken
<1>10. Items(g.q) = {}
  <2>1. g.q.heap \in Seq(Task)
    BY <1>9, FitsFacts
  <2>2. PICK h : h = g.q
    OBVIOUS
  <2> QED BY <1>9, <2>1, <2>2, ItemsOf
<1> QED BY <1>1, <1>3, <1>8, <1>9, <1>10

(* In a state of the invariant toArray() returns all tasks in order.          *)
LEMMA InvSorted == Inv => ToArraySorted
<1> SUFFICES ASSUME Inv PROVE ToArraySorted
  OBVIOUS
<1>1. IsFiniteSet(Tasks) /\ Tasks = Items(Queue)
  BY TasksAreItems, TasksCount
<1>2. /\ Aged(Tasks) /\ Tasks \subseteq Task
      /\ \A t, u \in Tasks : t.id = u.id => t = u
  BY <1>1, InvFacts DEF Inv, MapHolds
<1>3. PICK tasks : tasks = Tasks
  OBVIOUS
<1>4. PICK n : n = InsertAll([heap |-> << >>, indexMap |-> [id \in Ids |-> None]], tasks)
  OBVIOUS
<1>5. Fits(n) /\ Ordered(n.heap) /\ Items(n) = tasks
  BY <1>1, <1>2, <1>3, <1>4, InsertsAll
<1>6. PICK out : out = ExtractAll(n)
  OBVIOUS
<1>7. /\ out \in Seq(Task)
      /\ \A x : x \in tasks <=> \E i \in 1 .. Len(out) : x = out[i]
      /\ \A i \in 2 .. Len(out) : Before(out[i - 1], out[i])
  BY <1>2, <1>3, <1>5, <1>6, ExtractsAll
<1>8. ToArray = out
  BY <1>3, <1>4, <1>6 DEF ToArray
<1>9. DOMAIN out = 1 .. Len(out)
  BY <1>7
<1> QED BY <1>3, <1>7, <1>8, <1>9 DEF ToArraySorted

(* What toArray() returns is all the tasks of the queue, each before those    *)
(* that would be dequeued after it.                                           *)
THEOREM QueueToArraySorted == Spec => []ToArraySorted
<1> QED BY InvSorted, QueueInv, PTL
==============================================================================
