--------------------------- MODULE CircuitBreaker ---------------------------
(* The circuit breaker, src/middleware/circuit-breaker.js.  execute() runs   *)
(* without interruption up to the call of fn, and again when fn settles or   *)
(* its timeout rejects: a call in between is one of inFlight.  Nothing says  *)
(* of a result which state its call was admitted in, so only their number    *)
(* matters.  Time is one bit per opening: openedAt is "recent" until         *)
(* config.timeout has elapsed, "old" from then on, None when it was never    *)
(* set.                                                                      *)
EXTENDS Integers

CONSTANTS
    FailureThreshold,   \* config.failureThreshold
    SuccessThreshold,   \* config.successThreshold
    HalfOpenMaxCalls,   \* config.halfOpenMaxCalls
    MaxInFlight,        \* bound: the calls in flight at once
    MaxCount,           \* bound: failureCount and successCount stop here
    MaxOperations,      \* bound: the operator's calls, loads and restarts
    None                \* no opening, no saved state

States == {"CLOSED", "OPEN", "HALF_OPEN"}
Openings == {"recent", "old", None}
Saved == [state: States, failureCount: 0 .. MaxCount,
          successCount: 0 .. MaxCount, openedAt: Openings]

(* The thresholds may be anything positive, but a breaker that lets fewer    *)
(* calls through than it wants successes would never close: the defaults     *)
(* (l. 60-66, and those of agents/supervisor.js:63-66) keep to this.         *)
ASSUME ThresholdAssumption ==
    /\ FailureThreshold \in Nat \ {0}
    /\ SuccessThreshold \in Nat \ {0}
    /\ HalfOpenMaxCalls \in Nat
    /\ HalfOpenMaxCalls >= SuccessThreshold

ASSUME BoundAssumption ==
    /\ MaxInFlight \in Nat
    /\ MaxOperations \in Nat
    /\ MaxCount \in Nat
    /\ MaxCount >= FailureThreshold
    /\ MaxCount >= SuccessThreshold
    /\ None \notin Saved \union {"recent", "old"}

VARIABLES
    state,          \* #state.state
    failureCount,   \* #state.failureCount
    successCount,   \* #state.successCount
    openedAt,       \* #state.openedAt
    halfOpenCalls,  \* #halfOpenCallCount
    inFlight,       \* the calls of execute() that await fn
    saved,          \* the file saveState() wrote, or None
    operations,     \* bound: how often the operator has stepped in
    rested          \* history: config.timeout has elapsed since the last
                    \* failure or forceOpen() that opened the circuit

circuit == <<state, failureCount, successCount, openedAt>>
vars == <<circuit, halfOpenCalls, inFlight, saved, operations, rested>>

Init ==
    /\ state = "CLOSED" /\ failureCount = 0 /\ successCount = 0
    /\ openedAt = None
    /\ halfOpenCalls = 0
    /\ inFlight = 0
    /\ saved = None
    /\ operations = 0
    /\ rested = TRUE

(* A counter only ever compared with a threshold may stop above it.          *)
Up(n) == IF n < MaxCount THEN n + 1 ELSE n

-----------------------------------------------------------------------------
(* Admission.                                                                *)

ShouldAttemptReset == openedAt = "old"

(* canExecute(), answering true: the state it leaves behind is OPEN no more. *)
CanExecute ==
    \/ /\ state = "CLOSED"
       /\ UNCHANGED state
    \/ /\ state = "OPEN" /\ ShouldAttemptReset
       /\ state' = "HALF_OPEN"
    \/ /\ state = "HALF_OPEN" /\ halfOpenCalls < HalfOpenMaxCalls
       /\ UNCHANGED state

(* Mutant of HalfOpenCalls: reopening does not start the count anew. *)
HalfOpenCallsKept(calls) ==
    IF state = "CLOSED" THEN halfOpenCalls ELSE halfOpenCalls + calls

(* The count of half-open calls once a caller has called canExecute() and,   *)
(* by execute(), made a call.                                                *)
HalfOpenCalls(calls) ==
    LET counted == IF state = "OPEN" THEN 0 ELSE halfOpenCalls IN
    IF state = "CLOSED" THEN counted ELSE counted + calls

(* A caller that only asks.                                                  *)
Ask ==
    /\ CanExecute
    /\ halfOpenCalls' = HalfOpenCalls(0)
    /\ UNCHANGED <<failureCount, successCount, openedAt, inFlight, saved,
                   operations, rested>>

(* execute() up to the call of fn; a rejected call changes only statistics.  *)
Execute ==
    /\ inFlight < MaxInFlight
    /\ CanExecute
    /\ halfOpenCalls' = HalfOpenCalls(1)
    /\ inFlight' = inFlight + 1
    /\ UNCHANGED <<failureCount, successCount, openedAt, saved, operations, rested>>

-----------------------------------------------------------------------------
(* Results.                                                                  *)

(* Mutant of RecordSuccess: closing keeps the count of failures. *)
RecordSuccessKeepingFailures ==
    LET closing == state = "HALF_OPEN" /\ Up(successCount) >= SuccessThreshold IN
    /\ state' = IF closing THEN "CLOSED" ELSE state
    /\ successCount' = IF closing THEN 0 ELSE Up(successCount)
    /\ failureCount' = IF state = "CLOSED" /\ failureCount > 0
                       THEN failureCount - 1 ELSE failureCount
    /\ halfOpenCalls' = IF closing THEN 0 ELSE halfOpenCalls
    /\ UNCHANGED <<openedAt, saved, operations, rested>>

(* Mutant of RecordSuccess: late successes close an open circuit. *)
RecordSuccessLate ==
    LET closing == state # "CLOSED" /\ Up(successCount) >= SuccessThreshold IN
    /\ state' = IF closing THEN "CLOSED" ELSE state
    /\ successCount' = IF closing THEN 0 ELSE Up(successCount)
    /\ failureCount' = IF closing THEN 0
                       ELSE IF state = "CLOSED" /\ failureCount > 0
                       THEN failureCount - 1 ELSE failureCount
    /\ halfOpenCalls' = IF closing THEN 0 ELSE halfOpenCalls
    /\ UNCHANGED <<openedAt, saved, operations, rested>>

(* recordSuccess(): in the half-open state enough successes close; in the    *)
(* closed one a success takes one failure back; in the open one it is late.  *)
RecordSuccess ==
    LET closing == state = "HALF_OPEN" /\ Up(successCount) >= SuccessThreshold IN
    /\ state' = IF closing THEN "CLOSED" ELSE state
    /\ successCount' = IF closing THEN 0 ELSE Up(successCount)
    /\ failureCount' = IF closing THEN 0
                       ELSE IF state = "CLOSED" /\ failureCount > 0
                       THEN failureCount - 1 ELSE failureCount
    /\ halfOpenCalls' = IF closing THEN 0 ELSE halfOpenCalls
    /\ UNCHANGED <<openedAt, saved, operations, rested>>

(* Mutant of Opening: the time of the first opening is kept. *)
OpeningAsBefore ==
    /\ state' = "OPEN"
    /\ openedAt' = IF openedAt = None THEN "recent" ELSE openedAt
    /\ rested' = FALSE

Opening ==
    /\ state' = "OPEN"
    /\ openedAt' = "recent"
    /\ rested' = FALSE

(* recordFailure(): any failure in the half-open state opens, and as many as *)
(* the threshold in the closed one.                                          *)
RecordFailure ==
    /\ failureCount' = Up(failureCount)
    /\ IF \/ state = "HALF_OPEN"
          \/ state = "CLOSED" /\ failureCount' >= FailureThreshold
       THEN Opening
       ELSE UNCHANGED <<state, openedAt, rested>>
    /\ UNCHANGED <<successCount, halfOpenCalls, saved, operations>>

(* The result of a call in flight.                                           *)
Settle ==
    /\ inFlight > 0
    /\ inFlight' = inFlight - 1
    /\ RecordSuccess \/ RecordFailure

(* A result recorded by a caller, as the agent supervisor does besides the   *)
(* one execute() records (agents/supervisor.js:298, 326).                    *)
RecordDirectly ==
    /\ RecordSuccess \/ RecordFailure
    /\ UNCHANGED inFlight

(* config.timeout elapses: for an opening that was saved, no later than for  *)
(* the one in memory, which is the same or a later one.                      *)
TimeoutElapses ==
    /\ openedAt = "recent"
    /\ openedAt' = "old"
    /\ rested' = TRUE
    /\ saved' = IF saved # None /\ saved.openedAt = "recent"
                THEN [saved EXCEPT !.openedAt = "old"] ELSE saved
    /\ UNCHANGED <<state, failureCount, successCount, halfOpenCalls, inFlight,
                   operations>>

SavedTimeoutElapses ==
    /\ saved # None /\ saved.openedAt = "recent"
    /\ saved' = [saved EXCEPT !.openedAt = "old"]
    /\ UNCHANGED <<circuit, halfOpenCalls, inFlight, operations, rested>>

-----------------------------------------------------------------------------
(* The operator: forcing a state, statistics, persistence, restarts.         *)

Operate ==
    /\ operations < MaxOperations
    /\ operations' = operations + 1

ForceOpen ==
    /\ Operate
    /\ Opening
    /\ UNCHANGED <<failureCount, successCount, halfOpenCalls, inFlight, saved>>

ForceClose ==
    /\ Operate
    /\ state' = "CLOSED"
    /\ failureCount' = 0 /\ successCount' = 0 /\ halfOpenCalls' = 0
    /\ UNCHANGED <<openedAt, inFlight, saved, rested>>

(* Mutant of ForceHalfOpen: the calls counted before are kept. *)
ForceHalfOpenKeepingCount ==
    /\ Operate
    /\ state' = "HALF_OPEN"
    /\ successCount' = 0
    /\ UNCHANGED <<failureCount, openedAt, halfOpenCalls, inFlight, saved, rested>>

ForceHalfOpen ==
    /\ Operate
    /\ state' = "HALF_OPEN"
    /\ halfOpenCalls' = 0 /\ successCount' = 0
    /\ UNCHANGED <<failureCount, openedAt, inFlight, saved, rested>>

ResetStats ==
    /\ Operate
    /\ failureCount' = 0 /\ successCount' = 0 /\ halfOpenCalls' = 0
    /\ UNCHANGED <<state, openedAt, inFlight, saved, rested>>

SaveState ==
    /\ saved' = [state |-> state, failureCount |-> failureCount,
                 successCount |-> successCount, openedAt |-> openedAt]
    /\ UNCHANGED <<circuit, halfOpenCalls, inFlight, operations, rested>>

(* The half-open state is not restored, and neither is the number of calls.  *)
LoadState ==
    /\ Operate
    /\ saved # None
    /\ state' = IF saved.state = "HALF_OPEN" THEN "OPEN" ELSE saved.state
    /\ failureCount' = saved.failureCount
    /\ successCount' = saved.successCount
    /\ openedAt' = saved.openedAt
    /\ rested' = (saved.openedAt # "recent")
    /\ UNCHANGED <<halfOpenCalls, inFlight, saved>>

(* The process ends, with its calls, and a new breaker is constructed.       *)
Restart ==
    /\ Operate
    /\ state' = "CLOSED" /\ failureCount' = 0 /\ successCount' = 0
    /\ openedAt' = None
    /\ halfOpenCalls' = 0 /\ inFlight' = 0
    /\ rested' = TRUE
    /\ UNCHANGED saved

Next ==
    \/ Ask \/ Execute
    \/ Settle \/ RecordDirectly
    \/ TimeoutElapses \/ SavedTimeoutElapses
    \/ ForceOpen \/ ForceClose \/ ForceHalfOpen \/ ResetStats
    \/ SaveState \/ LoadState \/ Restart

Spec == Init /\ [][Next]_vars

(* Calls keep coming, every call settles, and time passes.                   *)
Fairness == WF_vars(Execute) /\ WF_vars(Settle) /\ WF_vars(TimeoutElapses)

LiveSpec == Spec /\ Fairness

-----------------------------------------------------------------------------
(* What the breaker promises.                                                *)

(* Every counter and the saved state are in range (the typedef, l. 19-29).   *)
TypeOK ==
    /\ state \in States
    /\ failureCount \in 0 .. MaxCount /\ successCount \in 0 .. MaxCount
    /\ openedAt \in Openings
    /\ halfOpenCalls \in 0 .. HalfOpenMaxCalls
    /\ inFlight \in 0 .. MaxInFlight
    /\ saved \in Saved \union {None}
    /\ operations \in 0 .. MaxOperations
    /\ rested \in BOOLEAN

(* A closed circuit has recorded fewer failures than open it, also after     *)
(* late results, results recorded twice and a restored state (l. 298-315).   *)
ClosedBelowThreshold == state = "CLOSED" => failureCount < FailureThreshold

(* A half-open circuit that admits no more calls still awaits one: whatever  *)
(* late results, resets and reopenings came between, it cannot end up        *)
(* rejecting every call with no result left to move it (l. 187, 226, 280).   *)
HalfOpenNotStuck ==
    state = "HALF_OPEN" /\ halfOpenCalls >= HalfOpenMaxCalls => inFlight > 0

(* Between an opening and the end of its timeout no call is admitted, unless *)
(* the operator closed or half-opened the circuit or restored a state        *)
(* (l. 177-184, 306-315, 580).                                               *)
OpenRests ==
    [][inFlight' > inFlight => state # "OPEN" \/ rested]_vars

(* A circuit that opened is not closed by late results: only through the     *)
(* half-open state, or by the operator (l. 280).                             *)
OpenClosesThroughHalfOpen ==
    [][state = "OPEN" /\ state' = "CLOSED"
         => ForceClose \/ LoadState \/ Restart]_vars

(* While calls keep coming and settle, an open circuit becomes half-open and *)
(* a half-open one decides: neither state lasts (openedAt is missing only    *)
(* after a half-open state forced before any opening was saved and loaded).  *)
CircuitMoves ==
    /\ (state = "OPEN" /\ openedAt # None) ~> (state # "OPEN" \/ openedAt = None)
    /\ (state = "HALF_OPEN") ~> (state # "HALF_OPEN")
=============================================================================
