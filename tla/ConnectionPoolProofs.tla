------------------------ MODULE ConnectionPoolProofs ------------------------
(* Proofs about ConnectionPool, for any number of clients, connections,      *)
(* checks and timeouts.                                                      *)
EXTENDS ConnectionPool, FiniteSetTheorems, TLAPS

(* The parts of TypeOK: connections, calls, health checks, SQLite.           *)
PoolType ==
    /\ pool \subseteq Entries
    /\ db \in [Entries -> Handles]
    /\ inUse \in [Entries -> BOOLEAN]
    /\ failures \in [Entries -> 0 .. MaxFailures]
    /\ phase \in {"open", "closing", "draining", "closed"}

ClientType ==
    /\ call \in [Clients -> {"none", "run", "BEGIN", "write", "COMMIT", "ROLLBACK"}]
    /\ acquiring \in [Clients -> {"no", "trying", "waiting", "creating"}]
    /\ conn \in [Clients -> Handles \union {None}]
    /\ outer \in [Clients -> Handles \union {None}]
    /\ outcome \in [Clients -> {"none", "ok", "rolledback", "error"}]
    /\ calls \in [Clients -> 0 .. MaxCalls]

CheckType ==
    /\ check \in [Rounds -> {"none", "select", "close", "create"}]
    /\ checked \in [Rounds -> Entries \union {None}]
    /\ checks \in 0 .. MaxChecks

SqliteType ==
    /\ open \subseteq Handles /\ inTx \subseteq open
    /\ writes \in [Handles -> SUBSET Clients]
    /\ committed \subseteq Clients

PatienceType ==
    /\ late \in [Handles -> SUBSET TransactionStatements]
    /\ tainted \subseteq Handles
    /\ timeouts \in 0 .. MaxTimeouts

LEMMA Parts ==
    /\ TypeOK <=> PoolType /\ ClientType /\ CheckType /\ SqliteType /\ PatienceType
    /\ TypeOK' <=> PoolType' /\ ClientType' /\ CheckType' /\ SqliteType' /\ PatienceType'
  BY Zenon DEF TypeOK, PoolType, ClientType, CheckType, SqliteType, PatienceType

-----------------------------------------------------------------------------
(* The invariant.                                                            *)

(* What a call has at each of its stages.                                    *)
Shapes ==
    /\ \A c \in Clients :
        /\ acquiring[c] # "no" => conn[c] = None /\ call[c] \in {"run", "BEGIN"}
        /\ call[c] = "none" => conn[c] = None /\ outer[c] = None
        /\ outer[c] # None => call[c] = "run"
    /\ \A r \in Rounds : check[r] # "none" => checked[r] \in Entries

(* The parts of HandlesAreExclusive, and what the second rests on: no two    *)
(* connections that are in the pool or being checked have one handle.        *)
HeldApart ==
    /\ \A c, d \in Clients : c # d =>
        /\ conn[c] # None => conn[c] # conn[d]
        /\ outer[c] # None => outer[c] # conn[d] /\ outer[c] # outer[d]
    /\ \A c \in Clients : outer[c] # None => outer[c] # conn[c]

IdleIsFree ==
    \A e \in pool : ~inUse[e] => \A c \in Clients : db[e] # conn[c] /\ db[e] # outer[c]

LiveDistinct == \A e, f \in Live : db[e] = db[f] => e = f

(* A transaction no timer gave up on belongs to a call.                      *)
InTransaction(c, h) ==
    \/ outer[c] = h
    \/ conn[c] = h /\ call[c] \in {"write", "COMMIT", "ROLLBACK"}

TransactionsAreHeld ==
    /\ \A h \in inTx \ tainted : \E c \in Clients : InTransaction(c, h)
    /\ \A h \in Handles : late[h] # {} => h \in tainted

(* A call comes to COMMIT with its write, in this transaction or durable.    *)
CommitsHaveWritten ==
    \A c \in Clients : call[c] = "COMMIT" /\ conn[c] \in open =>
        tainted # {} \/ c \in committed \/ c \in writes[conn[c]]

Creating == {c \in Clients : acquiring[c] = "creating"}
RoomKept ==
    Cardinality(pool) + Cardinality(Creating) <= MaxConnections - 1 + Cardinality(Clients)

Exclusive == HeldApart /\ IdleIsFree /\ LiveDistinct
PoolInv == TypeOK /\ Shapes /\ Exclusive

(* What the choices of Created and Reconnected give.                         *)
LEMMA Fresh ==
    /\ FreshEntries # {} => NewEntry \in Entries /\ NewEntry \notin Live
    /\ FreshHandles # {} =>
          /\ NewHandle \in Handles /\ NewHandle \notin open
          /\ \A e \in Live : NewHandle # db[e]
          /\ \A c \in Clients : NewHandle # conn[c] /\ NewHandle # outer[c]
<1>1. FreshEntries # {} => NewEntry \in FreshEntries
  BY DEF NewEntry
<1>2. FreshHandles # {} => NewHandle \in FreshHandles
  BY DEF NewHandle
<1> QED
  BY <1>1, <1>2 DEF FreshEntries, FreshHandles, Held

(* What is in the pool, or at a check, is live. *)
LEMMA LiveIs ==
    ASSUME TypeOK, Shapes
    PROVE  /\ pool \subseteq Live /\ Live \subseteq Entries
           /\ \A r \in Rounds : check[r] # "none" => checked[r] \in Live
           /\ \A e \in Live \ pool : \E r \in Rounds : check[r] # "none" /\ checked[r] = e
  BY Parts DEF Live, Shapes, PoolType

-----------------------------------------------------------------------------
(* Types.                                                                    *)

(* The statements of a call.                                                 *)
LEMMA AnswerTypes ==
    ASSUME PoolInv, NEW c \in Clients, NEW ok \in BOOLEAN, Answered(c, ok), UNCHANGED open
    PROVE  SqliteType' /\ PatienceType'
<1> DEFINE h == conn[c]
<1> SqliteType /\ PatienceType /\ ClientType
  BY Parts DEF PoolInv
<1>1. CASE CanSucceed(h, call[c]) /\ Executed(h, call[c], {c}) /\ UNCHANGED patience
  <2>1. h \in open /\ h \in Handles
    BY <1>1 DEF CanSucceed, SqliteType
  <2>2. PatienceType'
    BY <1>1 DEF PatienceType, patience
  <2>3. inTx' \subseteq open'
    BY <1>1, <2>1 DEF Executed, SqliteType
  <2>4. writes' \in [Handles -> SUBSET Clients]
    BY <1>1, <2>1 DEF Executed, SqliteType
  <2>5. committed' \subseteq Clients
    BY <1>1, <2>1 DEF Executed, SqliteType
  <2> QED
    BY <2>2, <2>3, <2>4, <2>5 DEF SqliteType
<1>2. CASE UNCHANGED <<transactions, patience>>
  BY <1>2 DEF SqliteType, PatienceType, transactions, patience
<1>3. CASE /\ call[c] \in TransactionStatements /\ h \in open /\ timeouts < MaxTimeouts
           /\ timeouts' = timeouts + 1
           /\ late' = [late EXCEPT ![h] = @ \union {call[c]}]
           /\ tainted' = tainted \union {h}
           /\ UNCHANGED transactions
  BY <1>3, PoolAssumption DEF SqliteType, PatienceType, transactions
<1> QED
  BY <1>1, <1>2, <1>3 DEF Answered

-----------------------------------------------------------------------------
(* Steps keep the types, the shapes and the handles apart.                   *)

(* Neither calls nor handles move, and nothing becomes live.                 *)
LEMMA QuietStep ==
    ASSUME PoolInv, TypeOK', UNCHANGED <<db, inUse, call, acquiring, conn, outer>>,
           pool' \subseteq pool,
           \A r \in Rounds : check'[r] # "none" =>
              \/ check[r] # "none" /\ checked'[r] = checked[r]
              \/ checked'[r] \in pool
    PROVE  PoolInv'
<1>1. PoolType /\ TypeOK /\ Shapes /\ Exclusive
  BY Parts DEF PoolInv
<1>2. Shapes'
  BY <1>1 DEF Shapes, PoolType
<1>3. Live' \subseteq Live
  BY DEF Live
<1>4. LiveDistinct'
  BY <1>1, <1>3 DEF LiveDistinct, Exclusive
<1>5. HeldApart'
  BY <1>1 DEF HeldApart, Exclusive
<1>6. IdleIsFree'
  BY <1>1 DEF IdleIsFree, Exclusive
<1> QED
  BY <1>2, <1>4, <1>5, <1>6 DEF PoolInv, Exclusive

(* The handles of one call move between its statements, and one that it has  *)
(* no more may be given back.                                                *)
LEMMA MoveStep ==
    ASSUME PoolInv, TypeOK', Shapes', UNCHANGED <<pool, db, check, checked>>,
           NEW c \in Clients,
           \A d \in Clients : d # c => conn'[d] = conn[d] /\ outer'[d] = outer[d],
           conn'[c] \in {conn[c], outer[c], None},
           outer'[c] \in {conn[c], outer[c], None},
           conn'[c] # None => conn'[c] # outer'[c],
           \A e \in pool : inUse[e] /\ ~inUse'[e] =>
              db[e] = conn[c] /\ conn'[c] # conn[c] /\ outer'[c] # conn[c]
    PROVE  PoolInv'
<1>1. TypeOK /\ PoolType /\ PoolType' /\ ClientType /\ ClientType' /\ Exclusive
  BY Parts DEF PoolInv
<1>2. HeldApart'
  BY <1>1 DEF HeldApart, Exclusive, ClientType
<1>3. ASSUME NEW e \in pool', ~inUse'[e], NEW d \in Clients
      PROVE  db'[e] # conn'[d] /\ db'[e] # outer'[d]
  <2>1. db[e] \in Handles /\ db[e] # None /\ db'[e] = db[e] /\ e \in pool
    BY <1>1, <1>3, PoolAssumption DEF PoolType
  <2>2. CASE ~inUse[e]
    <3>1. \A x \in Clients : db[e] # conn[x] /\ db[e] # outer[x]
      BY <1>1, <2>1, <2>2 DEF Exclusive, IdleIsFree
    <3> QED
      BY <2>1, <3>1
  <2>3. CASE inUse[e]
    <3>1. db[e] = conn[c] /\ conn'[c] # conn[c] /\ outer'[c] # conn[c]
      BY <1>3, <2>1, <2>3
    <3>2. d # c => conn[d] # conn[c] /\ outer[d] # conn[c]
      BY <1>1, <2>1, <3>1 DEF Exclusive, HeldApart
    <3> QED
      BY <2>1, <3>1, <3>2
  <2> QED
    BY <2>2, <2>3
<1>4. IdleIsFree'
  BY <1>3 DEF IdleIsFree
<1>5. LiveDistinct'
  BY <1>1 DEF Exclusive, LiveDistinct, Live
<1> QED
  BY <1>2, <1>4, <1>5 DEF PoolInv, Exclusive

(* What the statements of a call have in common.                             *)
LEMMA Statement ==
    ASSUME NEW c \in Clients, Run(c) \/ Begin(c) \/ Write(c) \/ Commit(c) \/ Rollback(c)
    PROVE  /\ UNCHANGED <<pool, db, failures, phase, calls, check, checked, checks, open>>
           /\ acquiring[c] = "no"
           /\ \E ok \in BOOLEAN : Answered(c, ok)
           /\ \/ /\ call[c] # "run"
                 /\ \E statement \in {"write", "COMMIT", "ROLLBACK"} : Continue(c, statement)
              \/ /\ call[c] # "run" \/ outer[c] = None
                 /\ \E result \in {"ok", "rolledback", "error"} : End(c, result)
              \/ call[c] = "BEGIN" /\ CallPool(c)
              \/ /\ call[c] = "run" /\ outer[c] # None
                 /\ \E statement \in {"COMMIT", "ROLLBACK"} : Return(c, statement)
<1>1. CASE Run(c)
  BY <1>1 DEF Run, At, FunctionEnds, rounds
<1>2. CASE Begin(c)
  BY <1>2 DEF Begin, At, rounds
<1>3. CASE Write(c)
  BY <1>3 DEF Write, At, FunctionEnds, rounds
<1>4. CASE Commit(c)
  BY <1>4 DEF Commit, At, rounds
<1>5. CASE Rollback(c)
  BY <1>5 DEF Rollback, At, rounds
<1> QED
  BY <1>1, <1>2, <1>3, <1>4, <1>5

LEMMA StatementStep ==
    ASSUME PoolInv, NEW c \in Clients,
           Run(c) \/ Begin(c) \/ Write(c) \/ Commit(c) \/ Rollback(c)
    PROVE  PoolInv'
<1>1. PoolType /\ ClientType /\ CheckType /\ Shapes /\ Exclusive
  BY Parts DEF PoolInv
<1>2. /\ UNCHANGED <<pool, db, failures, phase, calls, check, checked, checks, open>>
      /\ acquiring[c] = "no"
  BY Statement
<1>3. SqliteType' /\ PatienceType' /\ CheckType'
  BY <1>1, <1>2, Statement, AnswerTypes DEF CheckType
<1>4. ASSUME NEW statement \in {"write", "COMMIT", "ROLLBACK"},
             call[c] # "run", Continue(c, statement)
      PROVE  PoolInv'
  <2>1. /\ call' = [call EXCEPT ![c] = statement]
        /\ UNCHANGED <<acquiring, conn, outer, outcome, inUse>>
    BY <1>4 DEF Continue
  <2>2. PoolType' /\ ClientType'
    BY <1>1, <1>2, <2>1 DEF PoolType, ClientType
  <2>3. Shapes'
    BY <1>1, <1>2, <1>4, <2>1 DEF Shapes, ClientType
  <2> QED
    BY <1>1, <1>2, <1>3, <2>1, <2>2, <2>3, Parts, MoveStep DEF Exclusive, HeldApart, Shapes
<1>5. ASSUME NEW result \in {"ok", "rolledback", "error"},
             call[c] # "run" \/ outer[c] = None, End(c, result)
      PROVE  PoolInv'
  <2>1. /\ call' = [call EXCEPT ![c] = "none"]
        /\ conn' = [conn EXCEPT ![c] = None]
        /\ outcome' = [outcome EXCEPT ![c] = result]
        /\ UNCHANGED <<acquiring, outer>>
        /\ inUse' = [e \in Entries |->
                        inUse[e] /\ ~(phase = "open" /\ e \in pool /\ db[e] = conn[c])]
    BY <1>5 DEF End, Release
  <2>2. PoolType' /\ ClientType'
    BY <1>1, <1>2, <2>1 DEF PoolType, ClientType
  <2>3. Shapes' /\ outer[c] = None
    BY <1>1, <1>2, <1>5, <2>1 DEF Shapes, ClientType
  <2>4. \A e \in pool : inUse[e] /\ ~inUse'[e] =>
           db[e] = conn[c] /\ conn'[c] # conn[c] /\ outer'[c] # conn[c]
    BY <1>1, <2>1, <2>3, PoolAssumption DEF PoolType, ClientType
  <2>5. /\ conn'[c] = None /\ outer'[c] = None
        /\ \A d \in Clients : d # c => conn'[d] = conn[d] /\ outer'[d] = outer[d]
    BY <1>1, <2>1, <2>3 DEF ClientType
  <2>6. TypeOK'
    BY <1>3, <2>2, Parts
  <2> QED
    BY <1>2, <2>3, <2>4, <2>5, <2>6, MoveStep
<1>6. ASSUME call[c] = "BEGIN", CallPool(c) PROVE PoolInv'
  <2>1. /\ call' = [call EXCEPT ![c] = "run"]
        /\ acquiring' = [acquiring EXCEPT ![c] = "trying"]
        /\ outer' = [outer EXCEPT ![c] = conn[c]]
        /\ conn' = [conn EXCEPT ![c] = None]
        /\ UNCHANGED <<outcome, inUse>>
    BY <1>6 DEF CallPool
  <2>2. PoolType' /\ ClientType'
    BY <1>1, <1>2, <2>1 DEF PoolType, ClientType
  <2>3. Shapes'
    BY <1>1, <1>2, <1>6, <2>1 DEF Shapes, ClientType
  <2>4. /\ conn'[c] = None /\ outer'[c] = conn[c]
        /\ \A d \in Clients : d # c => conn'[d] = conn[d] /\ outer'[d] = outer[d]
    BY <1>1, <2>1 DEF ClientType
  <2>5. TypeOK'
    BY <1>3, <2>2, Parts
  <2> QED
    BY <1>2, <2>1, <2>3, <2>4, <2>5, MoveStep
<1>7. ASSUME NEW statement \in {"COMMIT", "ROLLBACK"},
             call[c] = "run", outer[c] # None, Return(c, statement)
      PROVE  PoolInv'
  <2>1. /\ call' = [call EXCEPT ![c] = statement]
        /\ conn' = [conn EXCEPT ![c] = outer[c]]
        /\ outer' = [outer EXCEPT ![c] = None]
        /\ UNCHANGED <<acquiring, outcome>>
        /\ inUse' = [e \in Entries |->
                        inUse[e] /\ ~(phase = "open" /\ e \in pool /\ db[e] = conn[c])]
    BY <1>7 DEF Return, Release
  <2>2. PoolType' /\ ClientType'
    BY <1>1, <1>2, <2>1 DEF PoolType, ClientType
  <2>3. Shapes'
    BY <1>1, <1>2, <1>7, <2>1 DEF Shapes, ClientType
  <2>4. /\ conn'[c] = outer[c] /\ outer'[c] = None /\ outer[c] # conn[c]
        /\ \A d \in Clients : d # c => conn'[d] = conn[d] /\ outer'[d] = outer[d]
    BY <1>1, <1>7, <2>1 DEF ClientType, Exclusive, HeldApart
  <2>5. \A e \in pool : inUse[e] /\ ~inUse'[e] =>
           db[e] = conn[c] /\ conn'[c] # conn[c] /\ outer'[c] # conn[c]
    BY <1>1, <2>1, <2>4, PoolAssumption DEF PoolType, ClientType
  <2>6. TypeOK'
    BY <1>3, <2>2, Parts
  <2> QED
    BY <1>2, <1>7, <2>3, <2>4, <2>5, <2>6, MoveStep
<1> QED
  BY <1>4, <1>5, <1>6, <1>7, Statement

LEMMA AcquireStep ==
    ASSUME PoolInv, NEW c \in Clients,
           \/ \E statement \in {"run", "BEGIN"} : Start(c, statement)
           \/ Create(c) \/ Wait(c) \/ Retry(c) \/ CreateFails(c) \/ AcquireTimesOut(c)
    PROVE  PoolInv'
<1>1. TypeOK /\ PoolType /\ ClientType /\ CheckType /\ SqliteType /\ PatienceType /\ Shapes /\ Exclusive
  BY Parts DEF PoolInv
<1>2. ASSUME NEW statement \in {"run", "BEGIN"}, Start(c, statement) PROVE PoolInv'
  <2>1. /\ call[c] = "none" /\ calls[c] < MaxCalls
        /\ calls' = [calls EXCEPT ![c] = @ + 1]
        /\ committed' = committed \ {c}
        /\ writes' = [h \in Handles |-> writes[h] \ {c}]
        /\ UNCHANGED <<pool, db, inUse, failures, phase, conn, outer, check, checked,
                       checks, open, inTx, late, tainted, timeouts>>
    BY <1>2 DEF Start, entries, rounds, patience
  <2>2. \/ /\ call' = [call EXCEPT ![c] = statement]
           /\ acquiring' = [acquiring EXCEPT ![c] = "trying"]
           /\ outcome' = [outcome EXCEPT ![c] = "none"]
        \/ /\ outcome' = [outcome EXCEPT ![c] = "error"]
           /\ UNCHANGED <<call, acquiring>>
    BY <1>2 DEF Start
  <2>3. ClientType'
    BY <1>1, <2>1, <2>2, PoolAssumption DEF ClientType
  <2>4. PoolType' /\ CheckType' /\ SqliteType' /\ PatienceType'
    BY <1>1, <2>1 DEF PoolType, CheckType, SqliteType, PatienceType
  <2>5. Shapes'
    BY <1>1, <2>1, <2>2 DEF Shapes, ClientType
  <2>6. conn[c] = None /\ outer[c] = None
    BY <1>1, <2>1 DEF Shapes
  <2>7. TypeOK'
    BY <2>3, <2>4, Parts
  <2> QED
    BY <2>1, <2>5, <2>6, <2>7, MoveStep
<1>3. CASE Create(c) \/ Wait(c) \/ Retry(c)
  <2>1. /\ acquiring[c] # "no"
        /\ \E next \in {"creating", "waiting", "trying"} :
              acquiring' = [acquiring EXCEPT ![c] = next]
        /\ UNCHANGED <<pool, db, inUse, failures, phase, call, conn, outer, outcome,
                       calls, check, checked, checks, open, inTx, writes, committed,
                       late, tainted, timeouts>>
    BY <1>3 DEF Create, Wait, Retry, entries, rounds, transactions, patience
  <2>2. ClientType'
    BY <1>1, <2>1 DEF ClientType
  <2>3. PoolType' /\ CheckType' /\ SqliteType' /\ PatienceType'
    BY <1>1, <2>1 DEF PoolType, CheckType, SqliteType, PatienceType
  <2>4. Shapes'
    BY <1>1, <2>1 DEF Shapes, ClientType
  <2>5. conn[c] = None
    BY <1>1, <2>1 DEF Shapes
  <2>6. TypeOK'
    BY <2>2, <2>3, Parts
  <2> QED
    BY <1>1, <2>1, <2>4, <2>5, <2>6, MoveStep
<1>4. CASE CreateFails(c) \/ AcquireTimesOut(c)
  <2>1. /\ acquiring[c] # "no"
        /\ acquiring' = [acquiring EXCEPT ![c] = "no"]
        /\ UNCHANGED <<pool, db, inUse, failures, phase, calls, check, checked, checks,
                       open, inTx, writes, committed, late, tainted, timeouts>>
    BY <1>4 DEF CreateFails, AcquireTimesOut, AcquireThrows, entries, rounds,
                transactions, patience
  <2>2. conn[c] = None
    BY <1>1, <2>1 DEF Shapes
  <2>3. PoolType' /\ CheckType' /\ SqliteType' /\ PatienceType'
    BY <1>1, <2>1 DEF PoolType, CheckType, SqliteType, PatienceType
  <2>4. CASE /\ outer[c] = None
             /\ call' = [call EXCEPT ![c] = "none"]
             /\ outcome' = [outcome EXCEPT ![c] = "error"]
             /\ UNCHANGED <<conn, outer>>
    <3>1. ClientType' /\ Shapes'
      BY <1>1, <2>1, <2>2, <2>4 DEF ClientType, Shapes
    <3>2. TypeOK'
      BY <2>3, <3>1, Parts
    <3> QED
      BY <2>1, <2>2, <2>4, <3>1, <3>2, MoveStep
  <2>5. CASE /\ outer[c] # None
             /\ call' = [call EXCEPT ![c] = "ROLLBACK"]
             /\ conn' = [conn EXCEPT ![c] = outer[c]]
             /\ outer' = [outer EXCEPT ![c] = None]
             /\ UNCHANGED outcome
    <3>1. ClientType' /\ Shapes'
      BY <1>1, <2>1, <2>2, <2>5 DEF ClientType, Shapes
    <3>2. TypeOK'
      BY <2>3, <3>1, Parts
    <3>3. /\ conn'[c] = outer[c] /\ outer'[c] = None
          /\ \A d \in Clients : d # c => conn'[d] = conn[d] /\ outer'[d] = outer[d]
      BY <1>1, <2>5 DEF ClientType
    <3> QED
      BY <2>1, <2>5, <3>1, <3>2, <3>3, MoveStep
  <2> QED
    BY <1>4, <2>4, <2>5 DEF CreateFails, AcquireTimesOut, AcquireThrows
<1> QED
  BY <1>2, <1>3, <1>4

(* An idle connection is taken: nobody has its handle.                       *)
LEMMA TakeStep ==
    ASSUME PoolInv, NEW c \in Clients, Take(c)
    PROVE  PoolInv'
<1>1. TypeOK /\ PoolType /\ ClientType /\ CheckType /\ SqliteType /\ PatienceType /\ Shapes /\ Exclusive
  BY Parts DEF PoolInv
<1>2. PICK e \in Idle :
        /\ inUse' = [inUse EXCEPT ![e] = TRUE]
        /\ failures' = [failures EXCEPT ![e] = 0]
        /\ conn' = [conn EXCEPT ![c] = db[e]]
  BY DEF Take
<1>3. /\ acquiring[c] = "trying" /\ acquiring' = [acquiring EXCEPT ![c] = "no"]
      /\ UNCHANGED <<pool, db, phase, call, outer, outcome, calls, check, checked,
                     checks, open, inTx, writes, committed, late, tainted, timeouts>>
  BY DEF Take, rounds, transactions, patience
<1>4. /\ e \in pool /\ ~inUse[e] /\ e \in Entries /\ db[e] \in Handles /\ db[e] # None
      /\ e \in Live
      /\ \A d \in Clients : db[e] # conn[d] /\ db[e] # outer[d]
  BY <1>1, PoolAssumption DEF Idle, PoolType, Exclusive, IdleIsFree, Live
<1>5. ClientType'
  BY <1>1, <1>2, <1>3, <1>4 DEF ClientType
<1>6. PoolType'
  BY <1>1, <1>2, <1>3, <1>4, PoolAssumption DEF PoolType
<1>7. CheckType' /\ SqliteType' /\ PatienceType'
  BY <1>1, <1>3 DEF CheckType, SqliteType, PatienceType
<1>8. Shapes'
  BY <1>1, <1>2, <1>3 DEF Shapes, ClientType
<1>9. HeldApart'
  BY <1>1, <1>2, <1>3, <1>4 DEF HeldApart, Exclusive, ClientType
<1>10. ASSUME NEW f \in pool', ~inUse'[f], NEW d \in Clients
       PROVE  db'[f] # conn'[d] /\ db'[f] # outer'[d]
  <2>1. f # e /\ ~inUse[f] /\ f \in Live
    BY <1>1, <1>2, <1>3, <1>4, <1>10 DEF PoolType, Live
  <2>2. db[f] # db[e]
    BY <1>1, <1>4, <2>1 DEF Exclusive, LiveDistinct
  <2>3. db[f] # conn[d] /\ db[f] # outer[d]
    BY <1>1, <1>3, <1>10, <2>1 DEF Exclusive, IdleIsFree
  <2> QED
    BY <1>1, <1>2, <1>3, <2>2, <2>3 DEF ClientType
<1>11. IdleIsFree'
  BY <1>10 DEF IdleIsFree
<1>12. LiveDistinct'
  BY <1>1, <1>3 DEF Exclusive, LiveDistinct, Live
<1> QED
  BY <1>5, <1>6, <1>7, <1>8, <1>9, <1>11, <1>12, Parts DEF PoolInv, Exclusive

(* A new connection joins the pool in the hands of its client.               *)
LEMMA CreatedStep ==
    ASSUME PoolInv, NEW c \in Clients, Created(c)
    PROVE  PoolInv'
<1>1. TypeOK /\ PoolType /\ ClientType /\ CheckType /\ SqliteType /\ PatienceType /\ Shapes /\ Exclusive
  BY Parts DEF PoolInv
<1> DEFINE e == NewEntry
           h == NewHandle
<1>2. /\ e \in Entries /\ e \notin Live /\ h \in Handles /\ h \notin open
      /\ \A f \in Live : h # db[f]
      /\ \A d \in Clients : h # conn[d] /\ h # outer[d]
      /\ h # None
  BY Fresh, PoolAssumption DEF Created
<1>3. /\ acquiring[c] = "creating"
      /\ pool' = pool \union {e} /\ open' = open \union {h}
      /\ db' = [db EXCEPT ![e] = h]
      /\ inUse' = [inUse EXCEPT ![e] = TRUE]
      /\ failures' = [failures EXCEPT ![e] = 0]
      /\ conn' = [conn EXCEPT ![c] = h]
      /\ acquiring' = [acquiring EXCEPT ![c] = "no"]
      /\ UNCHANGED <<phase, call, outer, outcome, calls, check, checked, checks, inTx,
                     writes, committed, late, tainted, timeouts>>
  BY DEF Created, rounds, transactions, patience
<1> HIDE DEF e, h
<1>4. ClientType' /\ CheckType' /\ PatienceType'
  BY <1>1, <1>2, <1>3 DEF ClientType, CheckType, PatienceType
<1>5. PoolType' /\ SqliteType'
  BY <1>1, <1>2, <1>3, PoolAssumption DEF PoolType, SqliteType
<1>6. Shapes'
  BY <1>1, <1>3 DEF Shapes, ClientType
<1>7. HeldApart'
  BY <1>1, <1>2, <1>3 DEF HeldApart, Exclusive, ClientType
<1>8. Live' = Live \union {e}
  BY <1>3 DEF Live
<1>9. \A f \in Live : f # e /\ db'[f] = db[f] /\ db[f] # h
  BY <1>1, <1>2, <1>3, LiveIs DEF PoolType
<1>10. db'[e] = h
  BY <1>1, <1>2, <1>3 DEF PoolType
<1>11. LiveDistinct'
  BY <1>1, <1>8, <1>9, <1>10 DEF Exclusive, LiveDistinct
<1>12. ASSUME NEW f \in pool', ~inUse'[f], NEW d \in Clients
       PROVE  db'[f] # conn'[d] /\ db'[f] # outer'[d]
  <2>1. f \in pool /\ f # e /\ f \in Live
    BY <1>1, <1>2, <1>3, <1>12, LiveIs DEF PoolType
  <2>2. ~inUse[f] /\ db'[f] = db[f] /\ db[f] # h
    BY <1>1, <1>3, <1>9, <1>12, <2>1 DEF PoolType
  <2>3. db[f] # conn[d] /\ db[f] # outer[d]
    BY <1>1, <2>1, <2>2 DEF Exclusive, IdleIsFree
  <2> QED
    BY <1>1, <1>3, <2>2, <2>3 DEF ClientType
<1>13. IdleIsFree'
  BY <1>12 DEF IdleIsFree
<1> QED
  BY <1>4, <1>5, <1>6, <1>7, <1>11, <1>13, Parts DEF PoolInv, Exclusive

(* A check gives a connection a new handle, whoever has the connection.      *)
LEMMA ReconnectedStep ==
    ASSUME PoolInv, NEW r \in Rounds, Reconnected(r)
    PROVE  PoolInv'
<1>1. TypeOK /\ PoolType /\ ClientType /\ CheckType /\ SqliteType /\ PatienceType /\ Shapes /\ Exclusive
  BY Parts DEF PoolInv
<1> DEFINE e == checked[r]
           h == NewHandle
<1>2. /\ h \in Handles /\ h \notin open
      /\ \A f \in Live : h # db[f]
      /\ \A d \in Clients : h # conn[d] /\ h # outer[d]
      /\ h # None
  BY Fresh, PoolAssumption DEF Reconnected
<1>3. /\ check[r] = "create" /\ e \in Entries /\ open' = open \union {h}
      /\ db' = [db EXCEPT ![e] = h]
      /\ inUse' = [inUse EXCEPT ![e] = FALSE]
      /\ failures' = [failures EXCEPT ![e] = 0]
      /\ check' = [check EXCEPT ![r] = "none"]
      /\ UNCHANGED <<pool, phase, call, acquiring, conn, outer, outcome, calls, checked,
                     checks, inTx, writes, committed, late, tainted, timeouts>>
  BY <1>1 DEF Reconnected, client, transactions, patience, Shapes
<1> HIDE DEF e, h
<1>4. ClientType' /\ CheckType' /\ PatienceType'
  BY <1>1, <1>3 DEF ClientType, CheckType, PatienceType
<1>5. PoolType' /\ SqliteType'
  BY <1>1, <1>2, <1>3, PoolAssumption DEF PoolType, SqliteType
<1>6. Shapes'
  BY <1>1, <1>3 DEF Shapes, CheckType
<1>7. HeldApart'
  BY <1>1, <1>3 DEF HeldApart, Exclusive
<1>8. Live' \subseteq Live
  BY <1>1, <1>3 DEF Live, CheckType
<1>9. \A f \in Live : db'[f] = (IF f = e THEN h ELSE db[f])
  BY <1>1, <1>3, LiveIs DEF PoolType
<1>10. LiveDistinct'
  BY <1>1, <1>2, <1>8, <1>9 DEF Exclusive, LiveDistinct
<1>11. ASSUME NEW f \in pool', ~inUse'[f], NEW d \in Clients
       PROVE  db'[f] # conn'[d] /\ db'[f] # outer'[d]
  <2>1. f \in pool /\ f \in Live /\ f \in Entries
    BY <1>1, <1>3, <1>11, LiveIs
  <2>2. CASE f = e
    BY <1>2, <1>3, <1>9, <2>1, <2>2
  <2>3. CASE f # e
    <3>1. ~inUse[f]
      BY <1>1, <1>3, <1>11, <2>1, <2>3 DEF PoolType
    <3>2. db[f] # conn[d] /\ db[f] # outer[d]
      BY <1>1, <2>1, <3>1 DEF Exclusive, IdleIsFree
    <3> QED
      BY <1>3, <1>9, <2>1, <2>3, <3>2
  <2> QED
    BY <2>2, <2>3
<1>12. IdleIsFree'
  BY <1>11 DEF IdleIsFree
<1> QED
  BY <1>4, <1>5, <1>6, <1>7, <1>10, <1>12, Parts DEF PoolInv, Exclusive

(* SQLite closes handles once their statements have run.                     *)
LEMMA CloseTypes ==
    ASSUME PoolInv, NEW handles, CloseHandles(handles)
    PROVE  SqliteType' /\ PatienceType'
  BY Parts DEF PoolInv, CloseHandles, SqliteType, PatienceType, patience

LEMMA CheckAndCloseStep ==
    ASSUME PoolInv,
           \/ \E h \in Handles : LateStatement(h)
           \/ \E r \in Rounds : \/ Select(r) \/ CheckPasses(r) \/ CheckFails(r)
                                \/ ReconnectCloses(r) \/ ReconnectFails(r)
           \/ CleanupIdleConnections \/ BeginClose \/ Close
    PROVE  PoolInv'
<1>1. TypeOK /\ PoolType /\ ClientType /\ CheckType /\ SqliteType /\ PatienceType /\ Shapes
  BY Parts DEF PoolInv
<1>2. ASSUME NEW h \in Handles, LateStatement(h) PROVE PoolInv'
  <2>1. PICK statement \in late[h] :
          /\ late' = [late EXCEPT ![h] = @ \ {statement}]
          /\ \/ CanSucceed(h, statement) /\ Executed(h, statement, {})
             \/ ~CanSucceed(h, statement) /\ UNCHANGED transactions
    BY <1>2 DEF LateStatement
  <2>2. UNCHANGED <<pool, db, inUse, failures, phase, call, acquiring, conn, outer,
                    outcome, calls, check, checked, checks, open, tainted, timeouts>>
    BY <1>2 DEF LateStatement, entries, client, rounds
  <2>3. SqliteType'
    <3>1. CASE CanSucceed(h, statement) /\ Executed(h, statement, {})
      <4>1. inTx' \subseteq open'
        BY <1>1, <2>2, <3>1 DEF Executed, CanSucceed, SqliteType
      <4>2. writes' \in [Handles -> SUBSET Clients]
        BY <1>1, <3>1 DEF Executed, SqliteType
      <4>3. committed' \subseteq Clients
        BY <1>1, <3>1 DEF Executed, SqliteType
      <4> QED
        BY <1>1, <2>2, <4>1, <4>2, <4>3 DEF SqliteType
    <3>2. CASE UNCHANGED transactions
      BY <1>1, <2>2, <3>2 DEF SqliteType, transactions
    <3> QED
      BY <2>1, <3>1, <3>2
  <2>4. PatienceType'
    BY <1>1, <2>1, <2>2 DEF PatienceType
  <2>5. PoolType' /\ ClientType' /\ CheckType'
    BY <1>1, <2>2 DEF PoolType, ClientType, CheckType
  <2>6. TypeOK'
    BY <2>3, <2>4, <2>5, Parts
  <2> QED
    BY <2>2, <2>6, QuietStep
<1>3. ASSUME NEW r \in Rounds, Select(r) PROVE PoolInv'
  <2>1. PICK e \in pool : checked' = [checked EXCEPT ![r] = e]
    BY <1>3 DEF Select
  <2>2. /\ check' = [check EXCEPT ![r] = "select"]
        /\ UNCHANGED <<pool, db, inUse, failures, phase, call, acquiring, conn, outer,
                       outcome, calls, checks, open, inTx, writes, committed, late,
                       tainted, timeouts>>
    BY <1>3 DEF Select, entries, client, transactions, patience
  <2>3. CheckType'
    BY <1>1, <2>1, <2>2 DEF CheckType, PoolType
  <2>4. PoolType' /\ ClientType' /\ SqliteType' /\ PatienceType'
    BY <1>1, <2>2 DEF PoolType, ClientType, SqliteType, PatienceType
  <2>5. \A s \in Rounds : check'[s] # "none" =>
           \/ check[s] # "none" /\ checked'[s] = checked[s]
           \/ checked'[s] \in pool
    BY <1>1, <2>1, <2>2 DEF CheckType
  <2>6. TypeOK'
    BY <2>3, <2>4, Parts
  <2> QED
    BY <2>2, <2>5, <2>6, QuietStep
<1>4. ASSUME NEW r \in Rounds,
             CheckPasses(r) \/ CheckFails(r) \/ ReconnectCloses(r) \/ ReconnectFails(r)
      PROVE  PoolInv'
  <2>1. /\ check[r] # "none"
        /\ \E next \in {"none", "close", "create"} : check' = [check EXCEPT ![r] = next]
        /\ pool' \subseteq pool
        /\ UNCHANGED <<db, inUse, phase, call, acquiring, conn, outer, outcome, calls,
                       checked>>
    BY <1>4 DEF CheckPasses, CheckFails, ReconnectCloses, ReconnectFails, entries, client
  <2>2. failures' \in [Entries -> 0 .. MaxFailures] /\ checks' \in 0 .. MaxChecks
    <3>1. CASE CheckPasses(r)
      <4>1. /\ failures' = [failures EXCEPT ![checked[r]] = 0]
            /\ checks' = checks /\ 0 \in 0 .. MaxFailures
        BY <3>1, PoolAssumption DEF CheckPasses
      <4> QED
        BY <1>1, <4>1 DEF PoolType, CheckType
    <3>2. CASE CheckFails(r)
      <4>1. checked[r] \in Entries
        BY <1>1, <2>1 DEF Shapes
      <4>2. checks' \in 0 .. MaxChecks
        BY <1>1, <3>2, PoolAssumption DEF CheckFails, CheckType
      <4>3. failures' \in [Entries -> 0 .. MaxFailures]
        BY <1>1, <3>2, <4>1, PoolAssumption DEF CheckFails, PoolType
      <4> QED
        BY <4>2, <4>3
    <3>3. CASE ReconnectCloses(r) \/ ReconnectFails(r)
      BY <1>1, <3>3 DEF ReconnectCloses, ReconnectFails, PoolType, CheckType, entries
    <3> QED
      BY <1>4, <3>1, <3>2, <3>3
  <2>3. SqliteType' /\ PatienceType'
    <3>1. CASE ReconnectCloses(r)
      BY <3>1, CloseTypes DEF ReconnectCloses
    <3>2. CASE CheckPasses(r) \/ CheckFails(r) \/ ReconnectFails(r)
      BY <1>1, <3>2 DEF CheckPasses, CheckFails, ReconnectFails, SqliteType,
                        PatienceType, transactions, patience
    <3> QED
      BY <1>4, <3>1, <3>2
  <2>4. PoolType' /\ ClientType' /\ CheckType'
    BY <1>1, <2>1, <2>2 DEF PoolType, ClientType, CheckType
  <2>5. \A s \in Rounds : check'[s] # "none" => check[s] # "none" /\ checked'[s] = checked[s]
    BY <1>1, <2>1 DEF CheckType
  <2>6. TypeOK'
    BY <2>3, <2>4, Parts
  <2> QED
    BY <2>1, <2>5, <2>6, QuietStep
<1>5. CASE CleanupIdleConnections \/ BeginClose \/ Close
  <2>1. /\ pool' \subseteq pool /\ phase' \in {"open", "closing", "draining", "closed"}
        /\ UNCHANGED <<db, inUse, failures, call, acquiring, conn, outer, outcome, calls,
                       check, checked, checks>>
    BY <1>1, <1>5 DEF CleanupIdleConnections, BeginClose, Close, CloseConnections,
                      Closed, PoolType, entries, client, rounds
  <2>2. SqliteType' /\ PatienceType'
    <3>1. CASE BeginClose \/ Closed
      BY <1>1, <3>1 DEF BeginClose, Closed, SqliteType, PatienceType, transactions, patience
    <3>2. CASE CleanupIdleConnections
      <4>1. PICK old \in SUBSET pool : CloseHandles({db[e] : e \in old})
        BY <3>2 DEF CleanupIdleConnections
      <4> QED
        BY <4>1, CloseTypes
    <3>3. CASE CloseConnections
      BY <3>3, CloseTypes DEF CloseConnections
    <3> QED
      BY <1>5, <3>1, <3>2, <3>3 DEF Close
  <2>3. PoolType' /\ ClientType' /\ CheckType'
    BY <1>1, <2>1 DEF PoolType, ClientType, CheckType
  <2>4. TypeOK'
    BY <2>2, <2>3, Parts
  <2> QED
    BY <2>1, <2>4, QuietStep
<1> QED
  BY <1>2, <1>3, <1>4, <1>5

LEMMA PoolInductive == PoolInv /\ [Next]_vars => PoolInv'
<1> SUFFICES ASSUME PoolInv, [Next]_vars
             PROVE  PoolInv'
  OBVIOUS
<1>1. CASE Next
  BY <1>1, StatementStep, AcquireStep, TakeStep, CreatedStep, ReconnectedStep,
     CheckAndCloseStep
     DEF Next, Progress, CheckStep
<1>2. CASE UNCHANGED vars
  <2>1. UNCHANGED <<pool, db, inUse, failures, phase, call, acquiring, conn, outer,
                    outcome, calls, check, checked, checks, open, inTx, writes,
                    committed, late, tainted, timeouts>>
    BY <1>2 DEF vars, entries, client, rounds, transactions, patience
  <2>2. PoolType' /\ ClientType' /\ CheckType' /\ SqliteType' /\ PatienceType'
    BY <2>1, Parts DEF PoolInv, PoolType, ClientType, CheckType, SqliteType, PatienceType
  <2>3. TypeOK'
    BY <2>2, Parts
  <2> QED
    BY <2>1, <2>3, QuietStep
<1> QED
  BY <1>1, <1>2

(* At the beginning there are connections, each with a handle of its own.    *)
LEMMA Beginning ==
    ASSUME Init
    PROVE  /\ pool \subseteq Entries /\ Cardinality(pool) = MinConnections
           /\ db \in [Entries -> Handles]
           /\ \A e, f \in pool : db[e] = db[f] => e = f
<1>1. pool \in SUBSET Entries /\ Cardinality(pool) = MinConnections
  <2>1. \E some \in SUBSET Entries : Cardinality(some) = MinConnections
    BY RoomAssumption
  <2>2. pool = CHOOSE some \in SUBSET Entries : Cardinality(some) = MinConnections
    BY DEF Init
  <2> QED
    BY <2>1, <2>2
<1>2. db \in [Entries -> Handles] /\ \A e, f \in pool : db[e] = db[f] => e = f
  <2>1. \E some \in [Entries -> Handles] : \A e, f \in pool : some[e] = some[f] => e = f
    BY <1>1, RoomAssumption
  <2>2. db = CHOOSE some \in [Entries -> Handles] :
                \A e, f \in pool : some[e] = some[f] => e = f
    BY DEF Init
  <2> QED
    BY <2>1, <2>2
<1> QED
  BY <1>1, <1>2

LEMMA PoolInitially == Init => PoolInv
<1> SUFFICES ASSUME Init PROVE PoolInv
  OBVIOUS
<1>1. /\ inUse = [e \in Entries |-> FALSE] /\ failures = [e \in Entries |-> 0]
      /\ phase = "open"
      /\ conn = [c \in Clients |-> None] /\ outer = [c \in Clients |-> None]
      /\ open = {db[e] : e \in pool}
      /\ inTx = {} /\ writes = [h \in Handles |-> {}] /\ committed = {}
      /\ late = [h \in Handles |-> {}] /\ tainted = {} /\ timeouts = 0
  BY DEF Init
<1>2. /\ pool \subseteq Entries /\ db \in [Entries -> Handles]
      /\ \A e, f \in pool : db[e] = db[f] => e = f
  BY Beginning
<1>3. PoolType
  BY <1>1, <1>2, PoolAssumption DEF PoolType
<1>4. ClientType /\ CheckType
  BY PoolAssumption DEF Init, ClientType, CheckType
<1>5. SqliteType /\ PatienceType
  BY <1>1, <1>2, PoolAssumption DEF SqliteType, PatienceType
<1>6. Shapes /\ HeldApart
  BY DEF Init, Shapes, HeldApart
<1>7. IdleIsFree
  BY <1>1, <1>2, PoolAssumption DEF IdleIsFree
<1>8. Live = pool
  BY DEF Init, Live
<1>9. LiveDistinct
  BY <1>2, <1>8 DEF LiveDistinct
<1> QED
  BY <1>3, <1>4, <1>5, <1>6, <1>7, <1>9, Parts DEF PoolInv, Exclusive

-----------------------------------------------------------------------------
(* The variables keep their types. *)
THEOREM PoolTypeCorrect == Spec => []TypeOK
<1>1. PoolInv => TypeOK
  BY DEF PoolInv
<1> QED
  BY <1>1, PoolInitially, PoolInductive, PTL DEF Spec

(* No two calls ever have one handle, and the pool offers none that a call   *)
(* has, however acquire(), reconnections, cleanups and close() overlap.      *)
THEOREM PoolHandlesAreExclusive == Spec => []HandlesAreExclusive
<1>1. PoolInv => HandlesAreExclusive
  BY DEF PoolInv, Exclusive, HeldApart, IdleIsFree, HandlesAreExclusive, Held
<1> QED
  BY <1>1, PoolInitially, PoolInductive, PTL DEF Spec

-----------------------------------------------------------------------------
(* The size of the pool.                                                     *)

LEMMA Finite ==
    ASSUME TypeOK
    PROVE  /\ IsFiniteSet(pool) /\ IsFiniteSet(Creating)
           /\ Cardinality(pool) \in Nat /\ Cardinality(Creating) \in Nat
           /\ Cardinality(Clients) \in Nat /\ Cardinality(Creating) <= Cardinality(Clients)
<1>1. pool \subseteq Entries /\ Creating \subseteq Clients
  BY Parts DEF PoolType, Creating
<1>2. IsFiniteSet(pool) /\ IsFiniteSet(Creating) /\ IsFiniteSet(Clients)
  BY <1>1, FS_Subset, PoolAssumption
<1>3. Cardinality(Creating) <= Cardinality(Clients)
  BY <1>1, FS_Subset, PoolAssumption
<1> QED
  BY <1>2, <1>3, FS_CardinalityType

LEMMA RoomInductive == PoolInv /\ RoomKept /\ [Next]_vars => RoomKept'
<1> SUFFICES ASSUME PoolInv, RoomKept, [Next]_vars
             PROVE  RoomKept'
  OBVIOUS
<1>1. PoolInv' /\ TypeOK /\ TypeOK' /\ ClientType
  BY PoolInductive, Parts DEF PoolInv
<1>2. /\ Cardinality(pool) \in Nat /\ Cardinality(Creating) \in Nat
      /\ Cardinality(pool') \in Nat /\ Cardinality(Creating') \in Nat
      /\ Cardinality(Clients) \in Nat /\ Cardinality(Creating') <= Cardinality(Clients)
      /\ IsFiniteSet(pool) /\ IsFiniteSet(Creating)
  <2>1. pool' \subseteq Entries /\ Creating' \subseteq Clients
    BY <1>1, Parts DEF PoolType, Creating
  <2>2. /\ IsFiniteSet(pool') /\ IsFiniteSet(Creating')
        /\ Cardinality(Creating') <= Cardinality(Clients)
    BY <2>1, FS_Subset, PoolAssumption
  <2> QED
    BY <1>1, <2>2, Finite, FS_CardinalityType
<1>3. ASSUME pool' \subseteq pool, Creating' \subseteq Creating PROVE RoomKept'
  <2>1. Cardinality(pool') <= Cardinality(pool) /\ Cardinality(Creating') <= Cardinality(Creating)
    BY <1>2, <1>3, FS_Subset
  <2> QED
    BY <1>2, <2>1, PoolAssumption DEF RoomKept
<1>4. ASSUME NEW c \in Clients, Create(c) PROVE RoomKept'
  <2>1. Cardinality(pool) < MaxConnections /\ pool' = pool
    BY <1>4 DEF Create
  <2> QED
    BY <1>2, <2>1, PoolAssumption DEF RoomKept
<1>5. ASSUME NEW c \in Clients, Created(c) PROVE RoomKept'
  <2>1. /\ acquiring[c] = "creating" /\ acquiring' = [acquiring EXCEPT ![c] = "no"]
        /\ pool' = pool \union {NewEntry}
    BY <1>5 DEF Created
  <2>2. NewEntry \notin pool
    BY <1>1, <1>5, Fresh, LiveIs DEF Created, PoolInv
  <2>3. Cardinality(pool') = Cardinality(pool) + 1
    BY <1>2, <2>1, <2>2, FS_AddElement
  <2>4. c \in Creating /\ Creating' = Creating \ {c}
    BY <1>1, <2>1 DEF Creating, ClientType
  <2>5. Cardinality(Creating') = Cardinality(Creating) - 1
    BY <1>2, <2>4, FS_RemoveElement
  <2> QED
    BY <1>2, <2>3, <2>5, PoolAssumption DEF RoomKept
<1>6. ASSUME NEW c \in Clients,
             \/ \E statement \in {"run", "BEGIN"} : Start(c, statement)
             \/ Take(c) \/ CreateFails(c) \/ AcquireTimesOut(c) \/ Wait(c) \/ Retry(c)
      PROVE  RoomKept'
  <2>1. /\ pool' = pool
        /\ \/ acquiring' = acquiring
           \/ \E next \in {"no", "trying", "waiting"} : acquiring' = [acquiring EXCEPT ![c] = next]
    BY <1>6 DEF Start, Take, CreateFails, AcquireTimesOut, AcquireThrows, Wait, Retry
  <2>2. Creating' \subseteq Creating
    BY <1>1, <2>1 DEF Creating, ClientType
  <2> QED
    BY <1>3, <2>1, <2>2
<1>7. ASSUME NEW c \in Clients,
             Run(c) \/ Begin(c) \/ Write(c) \/ Commit(c) \/ Rollback(c)
      PROVE  RoomKept'
  <2>1. /\ pool' = pool
        /\ \/ acquiring' = acquiring
           \/ acquiring' = [acquiring EXCEPT ![c] = "trying"]
    BY <1>7, Statement DEF Continue, End, CallPool, Return
  <2>2. Creating' \subseteq Creating
    BY <1>1, <2>1 DEF Creating, ClientType
  <2> QED
    BY <1>3, <2>1, <2>2
<1>8. ASSUME \/ \E h \in Handles : LateStatement(h)
             \/ \E r \in Rounds : Select(r) \/ CheckStep(r)
             \/ CleanupIdleConnections \/ BeginClose \/ Close \/ UNCHANGED vars
      PROVE  RoomKept'
  <2>1. pool' \subseteq pool /\ acquiring' = acquiring
    BY <1>8 DEF LateStatement, Select, CheckStep, CheckPasses, CheckFails,
                ReconnectCloses, Reconnected, ReconnectFails, CleanupIdleConnections,
                BeginClose, Close, CloseConnections, Closed, client, vars
  <2>2. Creating' \subseteq Creating
    BY <2>1 DEF Creating
  <2> QED
    BY <1>3, <2>1, <2>2
<1> QED
  BY <1>4, <1>5, <1>6, <1>7, <1>8 DEF Next, Progress

(* The pool is larger than maxConnections by less than there are callers.    *)
THEOREM PoolSizeBounded == Spec => []PoolSizeBound
<1>1. PoolInv /\ RoomKept => PoolSizeBound
  <2> SUFFICES ASSUME PoolInv, RoomKept PROVE PoolSizeBound
    OBVIOUS
  <2>1. /\ Cardinality(pool) \in Nat /\ Cardinality(Creating) \in Nat
        /\ Cardinality(Clients) \in Nat
    BY Finite DEF PoolInv
  <2> QED
    BY <2>1, PoolAssumption DEF RoomKept, PoolSizeBound
<1>2. Init => PoolInv /\ RoomKept
  <2> SUFFICES ASSUME Init PROVE PoolInv /\ RoomKept
    OBVIOUS
  <2>1. PoolInv
    BY PoolInitially
  <2>2. Cardinality(pool) = MinConnections
    BY Beginning
  <2>3. Cardinality(Creating) = 0
    <3>1. Creating = {}
      BY DEF Init, Creating
    <3> QED
      BY <3>1, FS_EmptySet
  <2>4. Cardinality(Clients) \in Nat /\ Cardinality(Clients) # 0
    BY FS_EmptySet, FS_CardinalityType, PoolAssumption
  <2> QED
    BY <2>1, <2>2, <2>3, <2>4, PoolAssumption DEF RoomKept
<1> QED
  BY <1>1, <1>2, PoolInductive, RoomInductive, PTL DEF Spec

-----------------------------------------------------------------------------
(* Transactions and their owners.                                            *)

Transactions == TransactionsAreHeld /\ CommitsHaveWritten /\ OkMeansCommitted

(* A run() is on a handle without a transaction, unless a timer gave up on   *)
(* one: the transaction's owner would have the handle too.                   *)
LEMMA Unowned ==
    ASSUME PoolInv, Transactions, NEW c \in Clients, call[c] = "run", tainted = {}
    PROVE  conn[c] \notin inTx
<1> SUFFICES ASSUME conn[c] \in inTx PROVE FALSE
  OBVIOUS
<1>1. conn[c] \in Handles /\ conn[c] # None
  BY Parts, PoolAssumption DEF PoolInv, SqliteType
<1>2. PICK d \in Clients : InTransaction(d, conn[c])
  BY DEF Transactions, TransactionsAreHeld
<1>3. d = c
  BY <1>1, <1>2 DEF PoolInv, Exclusive, HeldApart, InTransaction
<1> QED
  BY <1>1, <1>2, <1>3 DEF PoolInv, Exclusive, HeldApart, InTransaction

(* One call moves; what it may do to transactions, its own and others'.      *)
LEMMA OwnerStep ==
    ASSUME PoolInv, Transactions, NEW c \in Clients,
           \A d \in Clients : d # c =>
              /\ conn'[d] = conn[d] /\ outer'[d] = outer[d]
              /\ call'[d] = call[d] /\ outcome'[d] = outcome[d]
              /\ d \in committed => d \in committed'
              /\ call[d] = "COMMIT" /\ conn[d] \in open' => conn[d] \in open
              /\ conn[d] \in open => writes'[conn[d]] \union {c} = writes[conn[d]] \union {c},
           tainted \subseteq tainted',
           \A h \in Handles : late'[h] # {} => h \in tainted',
           \A h \in inTx' \ tainted' :
              \/ h \in inTx /\ (InTransaction(c, h) => InTransaction(c, h)')
              \/ InTransaction(c, h)',
           call'[c] = "COMMIT" /\ conn'[c] \in open' =>
              tainted' # {} \/ c \in committed' \/ c \in writes'[conn'[c]],
           outcome'[c] = "ok" => c \in committed' \/ tainted' # {}
    PROVE  Transactions'
<1>1. ASSUME NEW h \in inTx' \ tainted' PROVE \E d \in Clients : InTransaction(d, h)'
  <2>1. CASE InTransaction(c, h)'
    BY <2>1
  <2>2. CASE h \in inTx /\ (InTransaction(c, h) => InTransaction(c, h)')
    <3>1. PICK d \in Clients : InTransaction(d, h)
      BY <2>2 DEF Transactions, TransactionsAreHeld
    <3>2. CASE d = c
      BY <2>2, <3>1, <3>2
    <3>3. CASE d # c
      BY <3>1, <3>3 DEF InTransaction
    <3> QED
      BY <3>2, <3>3
  <2> QED
    BY <2>1, <2>2
<1>2. TransactionsAreHeld'
  BY <1>1 DEF TransactionsAreHeld
<1>3. CommitsHaveWritten'
  <2> SUFFICES ASSUME NEW d \in Clients, call'[d] = "COMMIT", conn'[d] \in open'
               PROVE  tainted' # {} \/ d \in committed' \/ d \in writes'[conn'[d]]
    BY DEF CommitsHaveWritten
  <2>1. CASE d # c
    BY <2>1 DEF Transactions, CommitsHaveWritten
  <2> QED
    BY <2>1
<1>4. OkMeansCommitted'
  BY DEF Transactions, OkMeansCommitted
<1> QED
  BY <1>2, <1>3, <1>4 DEF Transactions

(* What the answer to a statement means for transactions.                    *)
LEMMA AnswerMeans ==
    ASSUME PoolInv, Transactions, NEW c \in Clients, NEW ok \in BOOLEAN, Answered(c, ok)
    PROVE  /\ tainted \subseteq tainted' /\ committed \subseteq committed'
           /\ \A h \in Handles : late'[h] # {} => h \in tainted'
           /\ \A h \in inTx' : h # conn[c] => h \in inTx
           /\ \A d \in Clients : d # c /\ conn[d] \in open =>
                 writes'[conn[d]] = writes[conn[d]]
           /\ call[c] \in {"run", "write"} \/ (call[c] = "BEGIN" /\ ~ok) => inTx' = inTx
           /\ call[c] = "COMMIT" /\ ~ok => inTx' = inTx
           /\ call[c] = "ROLLBACK" \/ (call[c] = "COMMIT" /\ ok) =>
                 conn[c] \notin inTx' \/ conn[c] \in tainted'
           /\ call[c] \in {"run", "write"} /\ ok =>
                 c \in committed' \/ (conn[c] \in inTx /\ c \in writes'[conn[c]])
           /\ call[c] = "COMMIT" /\ ok =>
                 conn[c] \in open /\ committed' = committed \union writes[conn[c]]
<1>1. SqliteType /\ PatienceType
  BY Parts DEF PoolInv
<1>2. \A h \in Handles : late[h] # {} => h \in tainted
  BY DEF Transactions, TransactionsAreHeld
<1>3. CASE ok /\ CanSucceed(conn[c], call[c]) /\ Executed(conn[c], call[c], {c})
           /\ UNCHANGED patience
  <2>1. conn[c] \in open /\ conn[c] \in Handles /\ conn[c] # None
    BY <1>1, <1>3, PoolAssumption DEF CanSucceed, SqliteType
  <2>2. \A d \in Clients : d # c => conn[d] # conn[c]
    BY <2>1 DEF PoolInv, Exclusive, HeldApart
  <2>3. \A d \in Clients : d # c /\ conn[d] \in open => writes'[conn[d]] = writes[conn[d]]
    BY <1>1, <1>3, <2>2 DEF Executed, SqliteType
  <2>4. /\ committed \subseteq committed'
        /\ \A h \in inTx' : h # conn[c] => h \in inTx
        /\ call[c] \in {"run", "write"} => inTx' = inTx
        /\ call[c] \in {"COMMIT", "ROLLBACK"} => conn[c] \notin inTx'
        /\ call[c] = "COMMIT" => committed' = committed \union writes[conn[c]]
    BY <1>1, <1>3 DEF Executed
  <2>5. call[c] \in {"run", "write"} =>
           c \in committed' \/ (conn[c] \in inTx /\ c \in writes'[conn[c]])
    BY <1>1, <1>3, <2>1 DEF Executed, SqliteType
  <2> QED
    BY <1>2, <1>3, <2>1, <2>3, <2>4, <2>5 DEF patience
<1>4. CASE ~ok /\ CanFail(conn[c], call[c]) /\ UNCHANGED <<transactions, patience>>
  <2>1. call[c] = "ROLLBACK" => conn[c] \notin inTx
    BY <1>1, <1>4 DEF CanFail, CanSucceed, SqliteType
  <2> QED
    BY <1>2, <1>4, <2>1 DEF transactions, patience
<1>5. CASE /\ ~ok /\ conn[c] \in open
           /\ late' = [late EXCEPT ![conn[c]] = @ \union {call[c]}]
           /\ tainted' = tainted \union {conn[c]}
           /\ UNCHANGED transactions
  BY <1>1, <1>2, <1>5 DEF transactions, PatienceType
<1> QED
  BY <1>3, <1>4, <1>5 DEF Answered

LEMMA StatementTransactions ==
    ASSUME PoolInv, Transactions, NEW c \in Clients,
           Run(c) \/ Begin(c) \/ Write(c) \/ Commit(c) \/ Rollback(c)
    PROVE  Transactions'
<1>1. ClientType /\ SqliteType /\ Shapes /\ Exclusive
  BY Parts DEF PoolInv
<1>2. open' = open
  BY Statement
<1>3. \A d \in Clients : d # c =>
         /\ conn'[d] = conn[d] /\ outer'[d] = outer[d]
         /\ call'[d] = call[d] /\ outcome'[d] = outcome[d]
  BY <1>1, Statement DEF Continue, End, CallPool, Return, ClientType
<1>4. outcome[c] = "ok" => c \in committed' \/ tainted' # {}
  <2>1. outcome[c] = "ok" => c \in committed \/ tainted # {}
    BY DEF Transactions, OkMeansCommitted
  <2>2. committed \subseteq committed' /\ tainted \subseteq tainted'
    BY Statement, AnswerMeans
  <2> QED
    BY <2>1, <2>2
<1>5. CASE Run(c)
  <2>1. PICK ok \in BOOLEAN :
          /\ Answered(c, ok)
          /\ \/ outer[c] = None /\ End(c, IF ok THEN "ok" ELSE "error")
             \/ /\ outer[c] # None
                /\ \E statement \in FunctionEnds(ok) : Return(c, statement)
    BY <1>5 DEF Run
  <2>2. call[c] = "run"
    BY <1>5 DEF Run, At
  <2>3. /\ tainted' = {} => tainted = {}
        /\ ok => c \in committed' \/ tainted' # {}
    BY <2>1, <2>2, AnswerMeans, Unowned
  <2>4. CASE outer[c] = None /\ End(c, IF ok THEN "ok" ELSE "error")
    <3>1. /\ call'[c] = "none" /\ (outcome'[c] = "ok" => ok)
          /\ \A h \in Handles : ~InTransaction(c, h)
      BY <1>1, <2>2, <2>4, PoolAssumption DEF End, ClientType, InTransaction
    <3> QED
      BY <1>1, <1>2, <1>3, <2>1, <2>2, <2>3, <3>1, AnswerMeans, OwnerStep DEF SqliteType
  <2>5. ASSUME outer[c] # None, NEW statement \in FunctionEnds(ok), Return(c, statement)
        PROVE  Transactions'
    <3>1. /\ call'[c] = statement /\ conn'[c] = outer[c] /\ outcome'[c] = outcome[c]
          /\ statement \in {"COMMIT", "ROLLBACK"} /\ (statement = "COMMIT" => ok)
      BY <1>1, <2>5 DEF Return, FunctionEnds, ClientType
    <3>2. \A h \in Handles : InTransaction(c, h) => InTransaction(c, h)'
      BY <2>2, <3>1 DEF InTransaction
    <3>3. outcome'[c] = "ok" => c \in committed' \/ tainted' # {}
      BY <1>4, <3>1
    <3>4. /\ tainted \subseteq tainted' /\ committed \subseteq committed'
          /\ \A h \in Handles : late'[h] # {} => h \in tainted'
          /\ inTx' = inTx /\ inTx \subseteq Handles
          /\ \A d \in Clients : d # c /\ conn[d] \in open => writes'[conn[d]] = writes[conn[d]]
      BY <1>1, <2>1, <2>2, AnswerMeans DEF SqliteType
    <3>5. call'[c] = "COMMIT" => tainted' # {} \/ c \in committed'
      BY <2>3, <3>1
    <3> QED
      BY <1>2, <1>3, <3>2, <3>3, <3>4, <3>5, OwnerStep
  <2> QED
    BY <2>1, <2>4, <2>5
<1>6. CASE Begin(c)
  <2>1. PICK ok \in BOOLEAN :
          /\ Answered(c, ok)
          /\ \/ ok /\ (Continue(c, "write") \/ CallPool(c))
             \/ ~ok /\ End(c, "error")
    BY <1>6 DEF Begin
  <2>2. call[c] = "BEGIN" /\ outer[c] = None
    BY <1>1, <1>6 DEF Begin, At, Shapes
  <2>3. \A h \in Handles : ~InTransaction(c, h)
    BY <2>2, PoolAssumption DEF InTransaction
  <2>4. CASE ok /\ (Continue(c, "write") \/ CallPool(c))
    <3>1. call'[c] # "COMMIT" /\ outcome'[c] = outcome[c]
      BY <1>1, <2>4 DEF Continue, CallPool, ClientType
    <3>2. \A h \in Handles : h = conn[c] => InTransaction(c, h)'
      BY <1>1, <2>4 DEF Continue, CallPool, ClientType, InTransaction
    <3>3. outcome'[c] = "ok" => c \in committed' \/ tainted' # {}
      BY <1>4, <3>1
    <3>4. inTx' \subseteq Handles
      BY <1>1, <2>1, AnswerTypes, <1>6 DEF Begin, At, SqliteType
    <3> QED
      BY <1>2, <1>3, <2>1, <2>3, <3>1, <3>2, <3>3, <3>4, AnswerMeans, OwnerStep
  <2>5. CASE ~ok /\ End(c, "error")
    <3>1. call'[c] = "none" /\ outcome'[c] = "error"
      BY <1>1, <2>5 DEF End, ClientType
    <3> QED
      BY <1>1, <1>2, <1>3, <2>1, <2>2, <2>3, <2>5, <3>1, AnswerMeans, OwnerStep
         DEF SqliteType
  <2> QED
    BY <2>1, <2>4, <2>5
<1>7. CASE Write(c)
  <2>1. PICK ok \in BOOLEAN, statement \in {"COMMIT", "ROLLBACK"} :
          /\ Answered(c, ok) /\ Continue(c, statement) /\ (statement = "COMMIT" => ok)
    BY <1>7 DEF Write, FunctionEnds
  <2>2. call[c] = "write" /\ outer[c] = None
    BY <1>1, <1>7 DEF Write, At, Shapes
  <2>3. call'[c] = statement /\ conn'[c] = conn[c] /\ outcome'[c] = outcome[c]
    BY <1>1, <2>1 DEF Continue, ClientType
  <2>4. \A h \in Handles : InTransaction(c, h) => InTransaction(c, h)'
    BY <2>2, <2>3, PoolAssumption DEF InTransaction
  <2>5. outcome'[c] = "ok" => c \in committed' \/ tainted' # {}
    BY <1>4, <2>3
  <2> QED
    BY <1>1, <1>2, <1>3, <2>1, <2>2, <2>3, <2>4, <2>5, AnswerMeans, OwnerStep DEF SqliteType
<1>8. CASE Commit(c)
  <2>1. PICK ok \in BOOLEAN :
          /\ Answered(c, ok)
          /\ \/ ok /\ End(c, "ok")
             \/ ~ok /\ Continue(c, "ROLLBACK")
    BY <1>8 DEF Commit
  <2>2. call[c] = "COMMIT" /\ outer[c] = None
    BY <1>1, <1>8 DEF Commit, At, Shapes
  <2>3. CASE ok /\ End(c, "ok")
    <3>1. /\ call'[c] = "none"
          /\ \A h \in Handles : InTransaction(c, h) => h = conn[c]
      BY <1>1, <2>2, <2>3, PoolAssumption DEF End, ClientType, InTransaction
    <3>2. c \in committed' \/ tainted' # {}
      <4>1. /\ conn[c] \in open /\ committed' = committed \union writes[conn[c]]
            /\ tainted \subseteq tainted'
        BY <2>1, <2>2, <2>3, AnswerMeans
      <4>2. tainted # {} \/ c \in committed \/ c \in writes[conn[c]]
        BY <2>2, <4>1 DEF Transactions, CommitsHaveWritten
      <4> QED
        BY <4>1, <4>2
    <3>3. \A h \in inTx' \ tainted' : h \in inTx /\ h # conn[c]
      BY <2>1, <2>2, <2>3, AnswerMeans
    <3>4. inTx \subseteq Handles
      BY <1>1 DEF SqliteType
    <3> QED
      BY <1>2, <1>3, <2>1, <3>1, <3>2, <3>3, <3>4, AnswerMeans, OwnerStep
  <2>4. CASE ~ok /\ Continue(c, "ROLLBACK")
    <3>1. call'[c] = "ROLLBACK" /\ conn'[c] = conn[c] /\ outcome'[c] = outcome[c]
      BY <1>1, <2>4 DEF Continue, ClientType
    <3>2. \A h \in Handles : InTransaction(c, h) => InTransaction(c, h)'
      BY <2>2, <3>1, PoolAssumption DEF InTransaction
    <3>3. outcome'[c] = "ok" => c \in committed' \/ tainted' # {}
      BY <1>4, <3>1
    <3> QED
      BY <1>1, <1>2, <1>3, <2>1, <2>2, <2>4, <3>1, <3>2, <3>3, AnswerMeans, OwnerStep
         DEF SqliteType
  <2> QED
    BY <2>1, <2>3, <2>4
<1>9. CASE Rollback(c)
  <2>1. PICK ok \in BOOLEAN : Answered(c, ok) /\ End(c, IF ok THEN "rolledback" ELSE "error")
    BY <1>9 DEF Rollback
  <2>2. call[c] = "ROLLBACK" /\ outer[c] = None
    BY <1>1, <1>9 DEF Rollback, At, Shapes
  <2>3. /\ call'[c] = "none" /\ outcome'[c] # "ok"
        /\ \A h \in Handles : InTransaction(c, h) => h = conn[c]
    BY <1>1, <2>1, <2>2, PoolAssumption DEF End, ClientType, InTransaction
  <2>4. \A h \in inTx' \ tainted' : h \in inTx /\ h # conn[c]
    BY <2>1, <2>2, AnswerMeans
  <2>5. inTx \subseteq Handles
    BY <1>1 DEF SqliteType
  <2> QED
    BY <1>2, <1>3, <2>1, <2>3, <2>4, <2>5, AnswerMeans, OwnerStep
<1> QED
  BY <1>5, <1>6, <1>7, <1>8, <1>9

(* Steps of acquire(), which execute nothing.                                *)
LEMMA AcquireTransactions ==
    ASSUME PoolInv, Transactions, NEW c \in Clients,
           \/ \E statement \in {"run", "BEGIN"} : Start(c, statement)
           \/ Take(c) \/ Create(c) \/ Created(c) \/ CreateFails(c) \/ Wait(c) \/ Retry(c)
           \/ AcquireTimesOut(c)
    PROVE  Transactions'
<1>1. ClientType /\ SqliteType /\ Shapes /\ Exclusive
  BY Parts DEF PoolInv
<1>2. \A h \in Handles : late[h] # {} => h \in tainted
  BY DEF Transactions, TransactionsAreHeld
<1>3. ASSUME NEW statement \in {"run", "BEGIN"}, Start(c, statement) PROVE Transactions'
  <2>1. /\ call[c] = "none" /\ conn[c] = None /\ outer[c] = None
        /\ committed' = committed \ {c}
        /\ writes' = [h \in Handles |-> writes[h] \ {c}]
        /\ UNCHANGED <<conn, outer, open, inTx, late, tainted>>
    BY <1>1, <1>3 DEF Start, Shapes, patience
  <2>2. /\ \A d \in Clients : d # c => call'[d] = call[d] /\ outcome'[d] = outcome[d]
        /\ call'[c] # "COMMIT" /\ outcome'[c] # "ok"
    BY <1>1, <1>3, <2>1 DEF Start, ClientType
  <2>3. \A d \in Clients : conn[d] \in open =>
           writes'[conn[d]] \union {c} = writes[conn[d]] \union {c}
    BY <1>1, <2>1 DEF SqliteType
  <2>4. \A h \in Handles : ~InTransaction(c, h)
    BY <2>1, PoolAssumption DEF InTransaction
  <2> QED
    BY <1>1, <1>2, <2>1, <2>2, <2>3, <2>4, OwnerStep DEF SqliteType
<1>4. CASE Take(c) \/ Create(c) \/ Created(c) \/ Wait(c) \/ Retry(c)
  <2>1. /\ UNCHANGED <<call, outer, outcome, inTx, writes, committed, late, tainted>>
        /\ acquiring[c] # "no"
    BY <1>4 DEF Take, Create, Created, Wait, Retry, transactions, patience
  <2>2. conn[c] = None
    BY <1>1, <2>1 DEF Shapes
  <2>3. /\ \A d \in Clients : d # c => conn'[d] = conn[d]
        /\ \A d \in Clients : conn[d] \in open' => conn[d] \in open
    <3>1. CASE Created(c)
      <4>1. /\ conn' = [conn EXCEPT ![c] = NewHandle] /\ open' = open \union {NewHandle}
            /\ FreshHandles # {}
        BY <3>1 DEF Created
      <4> QED
        BY <1>1, <4>1, Fresh DEF ClientType
    <3>2. CASE Take(c)
      BY <1>1, <3>2 DEF Take, ClientType
    <3>3. CASE Create(c) \/ Wait(c) \/ Retry(c)
      BY <3>3 DEF Create, Wait, Retry
    <3> QED
      BY <1>4, <3>1, <3>2, <3>3
  <2>4. call[c] # "COMMIT"
    BY <1>1, <2>1 DEF Shapes
  <2>5. \A h \in Handles : InTransaction(c, h) => InTransaction(c, h)'
    BY <2>1, <2>2, PoolAssumption DEF InTransaction
  <2>6. outcome[c] = "ok" => c \in committed \/ tainted # {}
    BY DEF Transactions, OkMeansCommitted
  <2> QED
    BY <1>1, <1>2, <2>1, <2>3, <2>4, <2>5, <2>6, OwnerStep DEF SqliteType
<1>5. CASE CreateFails(c) \/ AcquireTimesOut(c)
  <2>1. /\ UNCHANGED <<open, inTx, writes, committed, late, tainted>>
        /\ acquiring[c] # "no"
        /\ \/ /\ outer[c] = None
              /\ call' = [call EXCEPT ![c] = "none"]
              /\ outcome' = [outcome EXCEPT ![c] = "error"]
              /\ UNCHANGED <<conn, outer>>
           \/ /\ outer[c] # None
              /\ call' = [call EXCEPT ![c] = "ROLLBACK"]
              /\ conn' = [conn EXCEPT ![c] = outer[c]]
              /\ outer' = [outer EXCEPT ![c] = None]
              /\ UNCHANGED outcome
    BY <1>5 DEF CreateFails, AcquireTimesOut, AcquireThrows, transactions, patience
  <2>2. conn[c] = None
    BY <1>1, <2>1 DEF Shapes
  <2>3. /\ \A d \in Clients : d # c =>
              /\ conn'[d] = conn[d] /\ outer'[d] = outer[d]
              /\ call'[d] = call[d] /\ outcome'[d] = outcome[d]
        /\ call'[c] # "COMMIT" /\ (outcome'[c] = "ok" => outcome[c] = "ok")
    BY <1>1, <2>1 DEF ClientType
  <2>4. \A h \in Handles : InTransaction(c, h) => InTransaction(c, h)'
    BY <1>1, <2>1, <2>2, PoolAssumption DEF InTransaction, ClientType
  <2>5. outcome'[c] = "ok" => c \in committed \/ tainted # {}
    BY <2>3 DEF Transactions, OkMeansCommitted
  <2> QED
    BY <1>1, <1>2, <2>1, <2>3, <2>4, <2>5, OwnerStep DEF SqliteType
<1> QED
  BY <1>3, <1>4, <1>5

(* Steps without a call: transactions end, or belong to nobody.              *)
LEMMA OtherTransactions ==
    ASSUME PoolInv, Transactions,
           \/ \E h \in Handles : LateStatement(h)
           \/ \E r \in Rounds : Select(r) \/ CheckStep(r)
           \/ CleanupIdleConnections \/ BeginClose \/ Close \/ UNCHANGED vars
    PROVE  Transactions'
<1>1. ClientType /\ SqliteType /\ PatienceType
  BY Parts DEF PoolInv
<1>2. \A h \in Handles : late[h] # {} => h \in tainted
  BY DEF Transactions, TransactionsAreHeld
<1>3. UNCHANGED <<call, conn, outer, outcome, tainted>>
  BY DEF LateStatement, Select, CheckStep, CheckPasses, CheckFails, ReconnectCloses,
         Reconnected, ReconnectFails, CleanupIdleConnections, BeginClose, Close,
         CloseConnections, Closed, CloseHandles, client, patience, vars
<1>4. ASSUME committed \subseteq committed',
             inTx' \ tainted \subseteq inTx,
             \A h \in Handles : late'[h] # {} => h \in tainted,
             \A c \in Clients : conn[c] \in open' => conn[c] \in open,
             tainted = {} => \A c \in Clients : conn[c] \in open' => writes'[conn[c]] = writes[conn[c]]
      PROVE  Transactions'
  <2>1. TransactionsAreHeld'
    BY <1>3, <1>4 DEF Transactions, TransactionsAreHeld, InTransaction
  <2>2. CommitsHaveWritten'
    BY <1>3, <1>4 DEF Transactions, CommitsHaveWritten
  <2>3. OkMeansCommitted'
    BY <1>3, <1>4 DEF Transactions, OkMeansCommitted
  <2> QED
    BY <2>1, <2>2, <2>3 DEF Transactions
<1>5. ASSUME NEW h \in Handles, LateStatement(h) PROVE Transactions'
  <2>1. PICK statement \in late[h] :
          /\ late' = [late EXCEPT ![h] = @ \ {statement}]
          /\ \/ CanSucceed(h, statement) /\ Executed(h, statement, {})
             \/ ~CanSucceed(h, statement) /\ UNCHANGED transactions
    BY <1>5 DEF LateStatement
  <2>2. h \in tainted /\ open' = open
    BY <1>2, <1>5, <2>1 DEF LateStatement
  <2>3. committed \subseteq committed' /\ inTx' \ tainted \subseteq inTx
    BY <2>1, <2>2 DEF Executed, transactions
  <2>4. \A g \in Handles : late'[g] # {} => g \in tainted
    BY <1>1, <1>2, <2>1 DEF PatienceType
  <2> QED
    BY <1>4, <2>2, <2>3, <2>4
<1>6. ASSUME NEW handles, CloseHandles(handles) PROVE Transactions'
  <2>1. /\ open' = open \ handles /\ inTx' = inTx \ handles
        /\ writes' = [h \in Handles |-> IF h \in handles THEN {} ELSE writes[h]]
        /\ committed' = committed /\ late' = late
    BY <1>6 DEF CloseHandles, patience
  <2>2. \A c \in Clients : conn[c] \in open' => writes'[conn[c]] = writes[conn[c]]
    BY <1>1, <2>1 DEF SqliteType
  <2> QED
    BY <1>2, <1>4, <2>1, <2>2
<1>7. CASE \/ \E r \in Rounds : Reconnected(r)
           \/ \E r \in Rounds : Select(r) \/ CheckPasses(r) \/ CheckFails(r) \/ ReconnectFails(r)
           \/ BeginClose \/ Closed \/ UNCHANGED vars
  <2>1. UNCHANGED <<inTx, writes, committed, late>>
    BY <1>7 DEF Reconnected, Select, CheckPasses, CheckFails, ReconnectFails, BeginClose,
                Closed, transactions, patience, vars
  <2>2. \A c \in Clients : conn[c] \in open' => conn[c] \in open
    <3>1. ASSUME NEW r \in Rounds, Reconnected(r) PROVE \A c \in Clients : conn[c] # NewHandle
      BY <3>1, Fresh DEF Reconnected
    <3>2. ASSUME NEW r \in Rounds, Reconnected(r) PROVE open' = open \union {NewHandle}
      BY <3>2 DEF Reconnected
    <3>3. CASE \E r \in Rounds : Reconnected(r)
      BY <3>1, <3>2, <3>3
    <3>4. CASE ~\E r \in Rounds : Reconnected(r)
      BY <1>7, <3>4 DEF Select, CheckPasses, CheckFails, ReconnectFails, BeginClose, Closed, vars
    <3> QED
      BY <3>3, <3>4
  <2> QED
    BY <1>2, <1>4, <2>1, <2>2
<1> QED
  BY <1>5, <1>6, <1>7 DEF CheckStep, ReconnectCloses, CleanupIdleConnections, Close,
                          CloseConnections

LEMMA TransactionsInductive == PoolInv /\ Transactions /\ [Next]_vars => Transactions'
  BY StatementTransactions, AcquireTransactions, OtherTransactions DEF Next, Progress

LEMMA TransactionsInitially == Init => Transactions
<1> SUFFICES ASSUME Init PROVE Transactions
  OBVIOUS
<1>1. /\ inTx = {} /\ late = [h \in Handles |-> {}]
      /\ call = [c \in Clients |-> "none"] /\ outcome = [c \in Clients |-> "none"]
  BY DEF Init
<1> QED
  BY <1>1 DEF Transactions, TransactionsAreHeld, CommitsHaveWritten, OkMeansCommitted

(* An idle connection is not inside a transaction unless a timer made        *)
(* withTransaction() stop waiting for one of its statements.                 *)
THEOREM PoolIdleConnectionsAreClean == Spec => []IdleConnectionsAreClean
<1>1. PoolInv /\ Transactions => IdleConnectionsAreClean
  BY DEF PoolInv, Exclusive, IdleIsFree, Transactions, TransactionsAreHeld,
         InTransaction, IdleConnectionsAreClean
<1> QED
  BY <1>1, PoolInitially, PoolInductive, TransactionsInitially, TransactionsInductive, PTL
     DEF Spec

(* A call that reports success has made its write durable, unless a          *)
(* statement of a transaction was given up on.                               *)
THEOREM PoolOkMeansCommitted == Spec => []OkMeansCommitted
<1>1. Transactions => OkMeansCommitted
  BY DEF Transactions
<1> QED
  BY <1>1, PoolInitially, PoolInductive, TransactionsInitially, TransactionsInductive, PTL
     DEF Spec
=============================================================================
