--------------------------- MODULE ConnectionPool ---------------------------
(* The pool of SQLite connections, src/db/connection/index.js, from the end  *)
(* of initialize() to the end of close(), with the calls of its clients:     *)
(* run(), query() or get(), and withTransaction() whose function writes on   *)
(* the connection it is given (db/repositories/runtime.js) or calls run() of *)
(* the same pool (RepositoryFactory.transaction, db/repositories/index.js).  *)
(* #withRetry never repeats a call: the codes of the pool's own errors match *)
(* none of #transientErrorCodes.  SQLite is external: a statement takes      *)
(* effect or fails when it is answered.  A timeout answers it too, and the   *)
(* statement is executed later, in any order with those issued since (the    *)
(* sqlite3 module runs them on a thread pool).  Timers fire at any moment.   *)
EXTENDS FiniteSets, Integers

CONSTANTS
    Clients,        \* the callers of the pool
    Entries,        \* the PooledConnection objects; a forgotten one is reused
    Handles,        \* the sqlite3.Database objects; a closed one is reused
    Rounds,         \* the rounds of health checks that may overlap
    MinConnections, \* config.minConnections
    MaxConnections, \* config.maxConnections
    MaxFailures,    \* config.maxHealthCheckFailures
    MaxCalls,       \* bound: the calls of one client
    MaxTimeouts,    \* bound: the statements of transactions given up on
    MaxChecks,      \* bound: the health checks that fail
    None            \* no handle, no entry

ASSUME PoolAssumption ==
    /\ IsFiniteSet(Clients) /\ IsFiniteSet(Entries) /\ Clients # {}
    /\ MinConnections \in Nat
    /\ MaxConnections \in Nat \ {0} /\ MinConnections <= MaxConnections
    /\ MaxFailures \in Nat \ {0}
    /\ MaxCalls \in Nat /\ MaxTimeouts \in Nat /\ MaxChecks \in Nat
    /\ None \notin Entries /\ None \notin Handles

(* There are enough of both for the connections of the beginning.            *)
ASSUME RoomAssumption ==
    /\ \E some \in SUBSET Entries : Cardinality(some) = MinConnections
    /\ \E some \in [Entries -> Handles] :
          \A e, f \in Entries : some[e] = some[f] => e = f

VARIABLES
    pool,       \* #pool: the entries in it
    db,         \* [Entries -> the handle of the connection]
    inUse,      \* [Entries -> BOOLEAN]
    failures,   \* [Entries -> healthCheckFailures]
    phase,      \* "open", or how far close() has come
    call,       \* [Clients -> the statement its call is at, or "none"]
    acquiring,  \* [Clients -> what acquire() is at, or "no"]
    conn,       \* [Clients -> the handle of that statement, or None]
    outer,      \* [Clients -> the handle of the transaction whose function
                \*             called the pool, or None]
    check,      \* [Rounds -> what a round of health checks awaits, or "none"]
    checked,    \* [Rounds -> the entry it is at]
    open,       \* SQLite: the open handles
    inTx,       \* SQLite: those inside a transaction
    writes,     \* SQLite: [Handles -> the clients that wrote in it]
    committed,  \* SQLite: the clients whose write is durable
    late,       \* SQLite: [Handles -> the statements given up on, unexecuted]
    outcome,    \* [Clients -> what its last call told it]
    tainted,    \* history: the handles with a statement given up on
    calls, timeouts, checks \* bounds: how many there have been

entries == <<db, inUse, failures>>
client == <<call, acquiring, conn, outer, outcome>>
rounds == <<check, checked, checks>>
transactions == <<inTx, writes, committed>>
patience == <<late, tainted, timeouts>>
vars == <<pool, entries, phase, client, calls, rounds, open, transactions, patience>>

TransactionStatements == {"BEGIN", "COMMIT", "ROLLBACK"}

(* Entries and handles somebody still refers to are not reused.              *)
Live == pool \union {checked[r] : r \in {r \in Rounds : check[r] # "none"}}
Held == {conn[c] : c \in Clients} \union {outer[c] : c \in Clients}
FreshEntries == Entries \ Live
FreshHandles == Handles \ (open \union {db[e] : e \in Live} \union Held)
NewEntry == CHOOSE e \in FreshEntries : TRUE
NewHandle == CHOOSE h \in FreshHandles : TRUE

(* Mutant of Idle: connections in use are found as well. *)
IdleOrNot == {e \in pool : failures[e] < MaxFailures}

(* What find() looks for.  The lease of an idle connection never expires:    *)
(* acquiredAt is null.                                                       *)
Idle == {e \in pool : ~inUse[e] /\ failures[e] < MaxFailures}

(* A pool that has created its minConnections.                               *)
Init ==
    /\ pool = CHOOSE some \in SUBSET Entries : Cardinality(some) = MinConnections
    /\ db = CHOOSE some \in [Entries -> Handles] :
                \A e, f \in pool : some[e] = some[f] => e = f
    /\ inUse = [e \in Entries |-> FALSE]
    /\ failures = [e \in Entries |-> 0]
    /\ phase = "open"
    /\ call = [c \in Clients |-> "none"]
    /\ acquiring = [c \in Clients |-> "no"]
    /\ conn = [c \in Clients |-> None] /\ outer = [c \in Clients |-> None]
    /\ check = [r \in Rounds |-> "none"] /\ checked = [r \in Rounds |-> None]
    /\ open = {db[e] : e \in pool}
    /\ inTx = {} /\ writes = [h \in Handles |-> {}] /\ committed = {}
    /\ late = [h \in Handles |-> {}]
    /\ outcome = [c \in Clients |-> "none"]
    /\ tainted = {}
    /\ calls = [c \in Clients |-> 0] /\ timeouts = 0 /\ checks = 0

-----------------------------------------------------------------------------
(* acquire() and release().                                                  *)

(* A call of the pool from outside: run() or withTransaction().  What the    *)
(* client wrote before is of no interest any more.                           *)
Start(c, statement) ==
    /\ call[c] = "none" /\ calls[c] < MaxCalls
    /\ calls' = [calls EXCEPT ![c] = @ + 1]
    /\ committed' = committed \ {c}
    /\ writes' = [h \in Handles |-> writes[h] \ {c}]
    /\ \/ /\ phase = "open"
          /\ call' = [call EXCEPT ![c] = statement]
          /\ acquiring' = [acquiring EXCEPT ![c] = "trying"]
          /\ outcome' = [outcome EXCEPT ![c] = "none"]
       \/ /\ phase # "open"
          /\ outcome' = [outcome EXCEPT ![c] = "error"]
          /\ UNCHANGED <<call, acquiring>>
    /\ UNCHANGED <<pool, entries, phase, conn, outer, rounds, open, inTx, patience>>

Take(c) ==
    /\ acquiring[c] = "trying"
    /\ \E e \in Idle :
        /\ inUse' = [inUse EXCEPT ![e] = TRUE]
        /\ failures' = [failures EXCEPT ![e] = 0]
        /\ conn' = [conn EXCEPT ![c] = db[e]]
    /\ acquiring' = [acquiring EXCEPT ![c] = "no"]
    /\ UNCHANGED <<pool, db, phase, call, outer, outcome, calls, rounds, open,
                   transactions, patience>>

(* Mutant of Create: one connection too many. *)
CreateOneMore(c) ==
    /\ acquiring[c] = "trying" /\ Idle = {}
    /\ Cardinality(pool) <= MaxConnections
    /\ acquiring' = [acquiring EXCEPT ![c] = "creating"]
    /\ UNCHANGED <<pool, entries, phase, call, conn, outer, outcome, calls,
                   rounds, open, transactions, patience>>

(* No idle connection: create one if there is room.                          *)
Create(c) ==
    /\ acquiring[c] = "trying" /\ Idle = {}
    /\ Cardinality(pool) < MaxConnections
    /\ acquiring' = [acquiring EXCEPT ![c] = "creating"]
    /\ UNCHANGED <<pool, entries, phase, call, conn, outer, outcome, calls,
                   rounds, open, transactions, patience>>

(* #createConnection pushes the connection, idle, and the acquire() that     *)
(* awaits it marks it before anything but a microtask runs.                  *)
Created(c) ==
    /\ acquiring[c] = "creating"
    /\ FreshEntries # {} /\ FreshHandles # {}
    /\ pool' = pool \union {NewEntry}
    /\ db' = [db EXCEPT ![NewEntry] = NewHandle]
    /\ inUse' = [inUse EXCEPT ![NewEntry] = TRUE]
    /\ failures' = [failures EXCEPT ![NewEntry] = 0]
    /\ open' = open \union {NewHandle}
    /\ conn' = [conn EXCEPT ![c] = NewHandle]
    /\ acquiring' = [acquiring EXCEPT ![c] = "no"]
    /\ UNCHANGED <<phase, call, outer, outcome, calls, rounds, transactions, patience>>

(* No idle connection and no room: 50 ms, and again.                         *)
Wait(c) ==
    /\ acquiring[c] = "trying" /\ Idle = {}
    /\ Cardinality(pool) >= MaxConnections
    /\ acquiring' = [acquiring EXCEPT ![c] = "waiting"]
    /\ UNCHANGED <<pool, entries, phase, call, conn, outer, outcome, calls,
                   rounds, open, transactions, patience>>

Retry(c) ==
    /\ acquiring[c] = "waiting"
    /\ acquiring' = [acquiring EXCEPT ![c] = "trying"]
    /\ UNCHANGED <<pool, entries, phase, call, conn, outer, outcome, calls,
                   rounds, open, transactions, patience>>

(* acquire() throws: the call ends, or the function of a transaction fails.  *)
AcquireThrows(c) ==
    /\ acquiring' = [acquiring EXCEPT ![c] = "no"]
    /\ \/ /\ outer[c] = None
          /\ call' = [call EXCEPT ![c] = "none"]
          /\ outcome' = [outcome EXCEPT ![c] = "error"]
          /\ UNCHANGED <<conn, outer>>
       \/ /\ outer[c] # None
          /\ call' = [call EXCEPT ![c] = "ROLLBACK"]
          /\ conn' = [conn EXCEPT ![c] = outer[c]]
          /\ outer' = [outer EXCEPT ![c] = None]
          /\ UNCHANGED outcome
    /\ UNCHANGED <<pool, entries, phase, calls, rounds, open, transactions, patience>>

CreateFails(c) == acquiring[c] = "creating" /\ AcquireThrows(c)

(* Mutant of AcquireTimesOut: acquire() waits without a limit. *)
AcquireNeverTimesOut(c) == FALSE /\ AcquireThrows(c)

(* acquireTimeout has elapsed after the last delay.                          *)
AcquireTimesOut(c) == acquiring[c] = "waiting" /\ AcquireThrows(c)

(* release(), which does nothing once the pool is shutting down, nor for a   *)
(* handle that is not in the pool any more.                                  *)
Release(h) ==
    inUse' = [e \in Entries |->
                inUse[e] /\ ~(phase = "open" /\ e \in pool /\ db[e] = h)]

-----------------------------------------------------------------------------
(* SQLite's side of a statement.                                             *)

CanSucceed(h, statement) ==
    /\ h \in open
    /\ statement = "BEGIN" => h \notin inTx
    /\ statement \in {"COMMIT", "ROLLBACK"} => h \in inTx

(* Any other statement may also meet a lock, a constraint or a full disk.    *)
CanFail(h, statement) ==
    statement \in {"BEGIN", "ROLLBACK"} => ~CanSucceed(h, statement)

Executed(h, statement, who) ==
    /\ inTx' = CASE statement = "BEGIN" -> inTx \union {h}
                 [] statement \in {"COMMIT", "ROLLBACK"} -> inTx \ {h}
                 [] OTHER -> inTx
    /\ writes' = [writes EXCEPT ![h] =
                    IF statement \in {"COMMIT", "ROLLBACK"} THEN {}
                    ELSE IF h \in inTx THEN @ \union who ELSE @]
    /\ committed' = CASE statement = "COMMIT" -> committed \union writes[h]
                      [] statement \in {"run", "write"} /\ h \notin inTx
                            -> committed \union who
                      [] OTHER -> committed

(* The promise of the client's statement settles: executed, refused, or      *)
(* rejected by the timer (for run(), a refusal as far as the client knows).  *)
Answered(c, ok) ==
    LET h == conn[c]
        statement == call[c]
    IN  \/ /\ ok /\ CanSucceed(h, statement)
           /\ Executed(h, statement, {c})
           /\ UNCHANGED patience
        \/ /\ ~ok /\ CanFail(h, statement)
           /\ UNCHANGED <<transactions, patience>>
        \/ /\ ~ok /\ statement \in TransactionStatements /\ h \in open
           /\ timeouts < MaxTimeouts
           /\ timeouts' = timeouts + 1
           /\ late' = [late EXCEPT ![h] = @ \union {statement}]
           /\ tainted' = tainted \union {h}
           /\ UNCHANGED transactions

(* A statement its client gave up on is executed after all.                  *)
LateStatement(h) ==
    /\ \E statement \in late[h] :
        /\ late' = [late EXCEPT ![h] = @ \ {statement}]
        /\ \/ CanSucceed(h, statement) /\ Executed(h, statement, {})
           \/ ~CanSucceed(h, statement) /\ UNCHANGED transactions
    /\ UNCHANGED <<pool, entries, phase, client, calls, rounds, open, tainted, timeouts>>

-----------------------------------------------------------------------------
(* The statements of a call, in the order of run() and withTransaction().    *)

(* The call goes on with another statement on the same handle.               *)
Continue(c, statement) ==
    /\ call' = [call EXCEPT ![c] = statement]
    /\ UNCHANGED <<acquiring, conn, outer, outcome, inUse>>

(* The finally block, and the result.                                        *)
End(c, result) ==
    /\ Release(conn[c])
    /\ call' = [call EXCEPT ![c] = "none"]
    /\ conn' = [conn EXCEPT ![c] = None]
    /\ outcome' = [outcome EXCEPT ![c] = result]
    /\ UNCHANGED <<acquiring, outer>>

(* The function of a transaction calls run() of the pool ...                 *)
CallPool(c) ==
    /\ call' = [call EXCEPT ![c] = "run"]
    /\ acquiring' = [acquiring EXCEPT ![c] = "trying"]
    /\ outer' = [outer EXCEPT ![c] = conn[c]]
    /\ conn' = [conn EXCEPT ![c] = None]
    /\ UNCHANGED <<outcome, inUse>>

(* ... which returns to it.                                                  *)
Return(c, statement) ==
    /\ Release(conn[c])
    /\ call' = [call EXCEPT ![c] = statement]
    /\ conn' = [conn EXCEPT ![c] = outer[c]]
    /\ outer' = [outer EXCEPT ![c] = None]
    /\ UNCHANGED <<acquiring, outcome>>

(* A statement is awaited.  The connection may be closed under it.           *)
At(c, statement) ==
    /\ call[c] = statement /\ acquiring[c] = "no"
    /\ UNCHANGED <<pool, db, failures, phase, calls, rounds, open>>

(* The function throws if its statement failed, and perhaps if it did not.   *)
FunctionEnds(ok) == IF ok THEN {"COMMIT", "ROLLBACK"} ELSE {"ROLLBACK"}

Run(c) ==
    /\ At(c, "run")
    /\ \E ok \in BOOLEAN :
        /\ Answered(c, ok)
        /\ \/ outer[c] = None /\ End(c, IF ok THEN "ok" ELSE "error")
           \/ /\ outer[c] # None
              /\ \E statement \in FunctionEnds(ok) : Return(c, statement)

(* A BEGIN that fails ends the call: its catch is inside.                    *)
Begin(c) ==
    /\ At(c, "BEGIN")
    /\ \E ok \in BOOLEAN :
        /\ Answered(c, ok)
        /\ \/ ok /\ (Continue(c, "write") \/ CallPool(c))
           \/ ~ok /\ End(c, "error")

(* The function writes on the connection, without a timeout.                 *)
Write(c) ==
    /\ At(c, "write")
    /\ \E ok \in BOOLEAN :
        /\ Answered(c, ok)
        /\ \E statement \in FunctionEnds(ok) : Continue(c, statement)

(* Mutant of Commit: a COMMIT that fails ends the call. *)
CommitOrEnd(c) ==
    /\ At(c, "COMMIT")
    /\ \E ok \in BOOLEAN :
        /\ Answered(c, ok)
        /\ End(c, IF ok THEN "ok" ELSE "error")

Commit(c) ==
    /\ At(c, "COMMIT")
    /\ \E ok \in BOOLEAN :
        /\ Answered(c, ok)
        /\ \/ ok /\ End(c, "ok")
           \/ ~ok /\ Continue(c, "ROLLBACK")

(* Mutant of Rollback: the error is not thrown again. *)
RollbackQuietly(c) ==
    /\ At(c, "ROLLBACK")
    /\ \E ok \in BOOLEAN :
        /\ Answered(c, ok)
        /\ End(c, IF ok THEN "ok" ELSE "error")

Rollback(c) ==
    /\ At(c, "ROLLBACK")
    /\ \E ok \in BOOLEAN :
        /\ Answered(c, ok)
        /\ End(c, IF ok THEN "rolledback" ELSE "error")

-----------------------------------------------------------------------------
(* Health checks, the cleanup of idle connections, and close().              *)

(* close() of the handles takes effect when their statements have run; it    *)
(* rolls back the transaction that is open on one.                           *)
CloseHandles(handles) ==
    /\ \A h \in handles : late[h] = {}
    /\ open' = open \ handles
    /\ inTx' = inTx \ handles
    /\ writes' = [h \in Handles |-> IF h \in handles THEN {} ELSE writes[h]]
    /\ UNCHANGED <<committed, patience>>

(* A round comes to a connection that is not in use and awaits SELECT 1.     *)
Select(r) ==
    /\ check[r] = "none"
    /\ \E e \in pool :
        /\ ~inUse[e]
        /\ checked' = [checked EXCEPT ![r] = e]
    /\ check' = [check EXCEPT ![r] = "select"]
    /\ UNCHANGED <<pool, entries, phase, client, calls, checks, open,
                   transactions, patience>>

CheckPasses(r) ==
    /\ check[r] = "select" /\ db[checked[r]] \in open
    /\ failures' = [failures EXCEPT ![checked[r]] = 0]
    /\ check' = [check EXCEPT ![r] = "none"]
    /\ UNCHANGED <<pool, db, inUse, phase, client, calls, checked, checks, open,
                   transactions, patience>>

(* An error or five seconds without an answer.  Failures are only compared   *)
(* with MaxFailures and stop there.                                          *)
CheckFails(r) ==
    /\ check[r] = "select" /\ checks < MaxChecks
    /\ checks' = checks + 1
    /\ \/ /\ failures[checked[r]] + 1 < MaxFailures
          /\ failures' = [failures EXCEPT ![checked[r]] = @ + 1]
          /\ check' = [check EXCEPT ![r] = "none"]
       \/ /\ failures[checked[r]] + 1 >= MaxFailures
          /\ failures' = [failures EXCEPT ![checked[r]] = MaxFailures]
          /\ check' = [check EXCEPT ![r] = "close"]
    /\ UNCHANGED <<pool, db, inUse, phase, client, calls, checked, open,
                   transactions, patience>>

ReconnectCloses(r) ==
    /\ check[r] = "close"
    /\ CloseHandles({db[checked[r]]})
    /\ check' = [check EXCEPT ![r] = "create"]
    /\ UNCHANGED <<pool, entries, phase, client, calls, checked, checks>>

(* The new handle is installed whoever has the connection by now.            *)
Reconnected(r) ==
    /\ check[r] = "create" /\ FreshHandles # {}
    /\ db' = [db EXCEPT ![checked[r]] = NewHandle]
    /\ failures' = [failures EXCEPT ![checked[r]] = 0]
    /\ inUse' = [inUse EXCEPT ![checked[r]] = FALSE]
    /\ open' = open \union {NewHandle}
    /\ check' = [check EXCEPT ![r] = "none"]
    /\ UNCHANGED <<pool, phase, client, calls, checked, checks, transactions, patience>>

ReconnectFails(r) ==
    /\ check[r] = "create"
    /\ pool' = pool \ {checked[r]}
    /\ check' = [check EXCEPT ![r] = "none"]
    /\ UNCHANGED <<entries, phase, client, calls, checked, checks, open,
                   transactions, patience>>

(* Some have been idle for idleTimeout; those above minConnections go.       *)
CleanupIdleConnections ==
    /\ phase = "open"
    /\ \E old \in SUBSET pool :
        /\ old # {} /\ \A e \in old : ~inUse[e]
        /\ Cardinality(pool \ old) >= MinConnections
        /\ pool' = pool \ old
        /\ CloseHandles({db[e] : e \in old})
    /\ UNCHANGED <<entries, phase, client, calls, rounds>>

BeginClose ==
    /\ phase = "open"
    /\ phase' = "closing"
    /\ UNCHANGED <<pool, entries, client, calls, rounds, open, transactions, patience>>

(* No connection is in use, or thirty seconds have passed: release() frees   *)
(* none meanwhile.                                                           *)
CloseConnections ==
    /\ phase = "closing"
    /\ CloseHandles({db[e] : e \in pool})
    /\ phase' = "draining"
    /\ UNCHANGED <<pool, entries, client, calls, rounds>>

Closed ==
    /\ phase = "draining"
    /\ phase' = "closed"
    /\ pool' = {}
    /\ UNCHANGED <<entries, client, calls, rounds, open, transactions, patience>>

-----------------------------------------------------------------------------
(* What acquire() and the statement of a call do without a timer.            *)
Progress(c) ==
    \/ Take(c) \/ Create(c) \/ Created(c) \/ CreateFails(c) \/ Wait(c) \/ Retry(c)
    \/ Run(c) \/ Begin(c) \/ Write(c) \/ Commit(c) \/ Rollback(c)

CheckStep(r) ==
    \/ CheckPasses(r) \/ CheckFails(r)
    \/ ReconnectCloses(r) \/ Reconnected(r) \/ ReconnectFails(r)

Close == CloseConnections \/ Closed

Next ==
    \/ \E c \in Clients : \/ \E statement \in {"run", "BEGIN"} : Start(c, statement)
                          \/ Progress(c) \/ AcquireTimesOut(c)
    \/ \E h \in Handles : LateStatement(h)
    \/ \E r \in Rounds : Select(r) \/ CheckStep(r)
    \/ CleanupIdleConnections
    \/ BeginClose \/ Close

(* Promises settle and timers fire: SQLite answers every statement, the loop *)
(* of acquire() comes round, and its clock passes acquireTimeout however     *)
(* often it tries again.  Nobody has to call, to check or to close.          *)
Fairness ==
    /\ \A c \in Clients : WF_vars(Progress(c)) /\ SF_vars(AcquireTimesOut(c))
    /\ \A h \in Handles : WF_vars(LateStatement(h))
    /\ \A r \in Rounds : WF_vars(CheckStep(r))
    /\ WF_vars(Close)

Spec == Init /\ [][Next]_vars /\ Fairness

-----------------------------------------------------------------------------
(* The variables stay in their types.                                        *)
TypeOK ==
    /\ pool \subseteq Entries
    /\ db \in [Entries -> Handles]
    /\ inUse \in [Entries -> BOOLEAN]
    /\ failures \in [Entries -> 0 .. MaxFailures]
    /\ phase \in {"open", "closing", "draining", "closed"}
    /\ call \in [Clients -> {"none", "run", "BEGIN", "write", "COMMIT", "ROLLBACK"}]
    /\ acquiring \in [Clients -> {"no", "trying", "waiting", "creating"}]
    /\ conn \in [Clients -> Handles \union {None}]
    /\ outer \in [Clients -> Handles \union {None}]
    /\ check \in [Rounds -> {"none", "select", "close", "create"}]
    /\ checked \in [Rounds -> Entries \union {None}]
    /\ open \subseteq Handles /\ inTx \subseteq open
    /\ writes \in [Handles -> SUBSET Clients]
    /\ committed \subseteq Clients
    /\ late \in [Handles -> SUBSET TransactionStatements]
    /\ outcome \in [Clients -> {"none", "ok", "rolledback", "error"}]
    /\ tainted \subseteq Handles
    /\ calls \in [Clients -> 0 .. MaxCalls]
    /\ timeouts \in 0 .. MaxTimeouts /\ checks \in 0 .. MaxChecks

(* A handle is with one call at most, and the pool offers none that a call   *)
(* has, whatever reconnects, cleanups and close() do to the connections      *)
(* meanwhile: two calls on one handle would share its transaction.           *)
HandlesAreExclusive ==
    /\ \A c, d \in Clients : c # d =>
        /\ conn[c] # None => conn[c] # conn[d]
        /\ outer[c] # None => outer[c] # conn[d] /\ outer[c] # outer[d]
    /\ \A c \in Clients : outer[c] # None => outer[c] # conn[c]
    /\ \A e \in pool : ~inUse[e] => db[e] \notin Held

(* The length of the pool is compared with maxConnections before the await   *)
(* of #createConnection, so calls that create at once overshoot it; never by *)
(* more than all the other calls.                                            *)
PoolSizeBound ==
    Cardinality(pool) <= MaxConnections - 1 + Cardinality(Clients)

(* withTransaction() ends its transaction before it gives the connection     *)
(* back, unless a timer made it stop waiting for BEGIN, COMMIT or ROLLBACK.  *)
IdleConnectionsAreClean ==
    \A e \in pool : ~inUse[e] /\ db[e] \in inTx => db[e] \in tainted

(* A call that reports success has made its write durable, unless a          *)
(* statement of a transaction was given up on: the transaction it opens      *)
(* later has no owner, and swallows the writes of whoever gets the handle.   *)
OkMeansCommitted ==
    \A c \in Clients : outcome[c] = "ok" => c \in committed \/ tainted # {}

(* Calls whose transactions wait for further connections of the same pool    *)
(* may wait for each other: acquireTimeout ends that.  And close() ends.     *)
CallsAndCloseEnd ==
    /\ \A c \in Clients : call[c] # "none" ~> call[c] = "none"
    /\ phase = "closing" ~> phase = "closed"

(* "Cross-repository transaction" (db/README.md:162): a transaction that was *)
(* rolled back leaves nothing.                                               *)
TransactionsAreAtomic ==
    \A c \in Clients : outcome[c] = "rolledback" => c \notin committed

=============================================================================
