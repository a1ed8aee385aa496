------------------------ MODULE CircuitBreakerProofs ------------------------
(* Proofs about CircuitBreaker, for every threshold and every bound.         *)
(*                                                                           *)
(* None of the properties is inductive alone.  What makes HalfOpenNotStuck   *)
(* so is HalfOpenCounts: of the calls counted in the half-open state, those  *)
(* no longer in flight have succeeded, and there are fewer of them than it   *)
(* takes to close.  A restored state is one that was saved, so what holds of *)
(* the state has to be said of the saved one too.                            *)
EXTENDS CircuitBreaker, TLAPS

SavedBelowThreshold ==
    saved # None /\ saved.state = "CLOSED" => saved.failureCount < FailureThreshold

HalfOpenCounts ==
    state = "HALF_OPEN" =>
        /\ halfOpenCalls < inFlight + SuccessThreshold
        /\ successCount < SuccessThreshold => halfOpenCalls <= inFlight + successCount

RestingIsRecent == ~rested => openedAt = "recent"

Inv == TypeOK /\ ClosedBelowThreshold /\ SavedBelowThreshold
              /\ HalfOpenCounts /\ RestingIsRecent

LEMMA NoneIsNot == None # "recent" /\ None # "old" /\ None \notin Saved
BY BoundAssumption

LEMMA UpType ==
    ASSUME NEW n \in 0 .. MaxCount
    PROVE  /\ Up(n) \in 0 .. MaxCount
           /\ Up(n) < SuccessThreshold => Up(n) = n + 1
BY BoundAssumption, ThresholdAssumption DEF Up

LEMMA InitInv == Init => Inv
BY BoundAssumption, ThresholdAssumption
   DEF Init, Inv, TypeOK, ClosedBelowThreshold, SavedBelowThreshold,
       HalfOpenCounts, RestingIsRecent, States, Openings

(* Asking and calling. *)
LEMMA AdmissionStep == Inv /\ (Ask \/ Execute) => Inv'
<1> SUFFICES ASSUME Inv, Ask \/ Execute PROVE Inv'
  OBVIOUS
<1> USE BoundAssumption, ThresholdAssumption, NoneIsNot
<1>1. TypeOK'
  BY DEF Inv, TypeOK, Ask, Execute, CanExecute, HalfOpenCalls,
         ShouldAttemptReset, States, HalfOpenCounts
<1>2. ClosedBelowThreshold' /\ SavedBelowThreshold' /\ RestingIsRecent'
  BY DEF Inv, TypeOK, Ask, Execute, CanExecute, ClosedBelowThreshold,
         SavedBelowThreshold, RestingIsRecent
<1>3. HalfOpenCounts'
  BY DEF Inv, TypeOK, Ask, Execute, CanExecute, HalfOpenCalls, HalfOpenCounts
<1> QED
  BY <1>1, <1>2, <1>3 DEF Inv

LEMMA CountArithmetic ==
    ASSUME NEW calls \in Nat, NEW i \in Nat, NEW j \in Nat, NEW s \in Nat, NEW t,
           NEW threshold \in Nat,
           calls <= i + s, j >= i - 1, t = s + 1, t < threshold
    PROVE  calls <= j + t /\ calls < j + threshold
OBVIOUS

(* A success, of a call in flight or recorded by a caller. *)
LEMMA SuccessStep ==
    ASSUME Inv, RecordSuccess,
           inFlight' \in 0 .. MaxInFlight, inFlight' >= inFlight - 1
    PROVE  Inv'
<1> USE BoundAssumption, ThresholdAssumption, NoneIsNot
<1>1. /\ Up(successCount) \in 0 .. MaxCount
      /\ Up(successCount) < SuccessThreshold => Up(successCount) = successCount + 1
  BY UpType DEF Inv, TypeOK
<1>2. TypeOK'
  BY <1>1 DEF Inv, TypeOK, RecordSuccess, States
<1>3. ClosedBelowThreshold'
  BY DEF Inv, TypeOK, ClosedBelowThreshold, RecordSuccess
<1>4. SavedBelowThreshold' /\ RestingIsRecent'
  BY DEF Inv, SavedBelowThreshold, RestingIsRecent, RecordSuccess
<1>5. HalfOpenCounts'
  <2>1. SUFFICES ASSUME state' = "HALF_OPEN" PROVE HalfOpenCounts'
    BY DEF HalfOpenCounts
  <2>2. /\ state = "HALF_OPEN" /\ Up(successCount) < SuccessThreshold
        /\ successCount' = Up(successCount) /\ halfOpenCalls' = halfOpenCalls
    BY <1>1, <2>1 DEF RecordSuccess
  <2>3. /\ successCount' = successCount + 1 /\ successCount' < SuccessThreshold
        /\ halfOpenCalls <= inFlight + successCount
    BY <1>1, <2>2 DEF Inv, TypeOK, HalfOpenCounts
  <2>4. /\ inFlight \in Nat /\ inFlight' \in Nat /\ successCount \in Nat
        /\ halfOpenCalls \in Nat /\ SuccessThreshold \in Nat
    BY DEF Inv, TypeOK
  <2>5. /\ halfOpenCalls <= inFlight' + successCount'
        /\ halfOpenCalls < inFlight' + SuccessThreshold
    BY <2>3, <2>4, CountArithmetic
  <2> QED
    BY <2>2, <2>5 DEF HalfOpenCounts
<1> QED
  BY <1>2, <1>3, <1>4, <1>5 DEF Inv

(* A failure: the half-open state does not survive one. *)
LEMMA FailureStep ==
    ASSUME Inv, RecordFailure, inFlight' \in 0 .. MaxInFlight
    PROVE  Inv'
<1> USE BoundAssumption, ThresholdAssumption, NoneIsNot
<1>1. Up(failureCount) \in 0 .. MaxCount
  BY UpType DEF Inv, TypeOK
<1>2. TypeOK'
  BY <1>1 DEF Inv, TypeOK, RecordFailure, Opening, States, Openings
<1>3. ClosedBelowThreshold'
  BY <1>1 DEF Inv, TypeOK, ClosedBelowThreshold, RecordFailure, Opening
<1>4. SavedBelowThreshold' /\ RestingIsRecent' /\ HalfOpenCounts'
  BY DEF Inv, TypeOK, SavedBelowThreshold, RestingIsRecent, HalfOpenCounts,
         RecordFailure, Opening
<1> QED
  BY <1>2, <1>3, <1>4 DEF Inv

LEMMA ResultStep == Inv /\ (Settle \/ RecordDirectly) => Inv'
<1> SUFFICES ASSUME Inv, Settle \/ RecordDirectly PROVE Inv'
  OBVIOUS
<1>1. inFlight' \in 0 .. MaxInFlight /\ inFlight' >= inFlight - 1
  BY BoundAssumption DEF Inv, TypeOK, Settle, RecordDirectly
<1>2. RecordSuccess \/ RecordFailure
  BY DEF Settle, RecordDirectly
<1> QED
  BY <1>1, <1>2, SuccessStep, FailureStep

LEMMA TimeStep == Inv /\ (TimeoutElapses \/ SavedTimeoutElapses) => Inv'
<1> SUFFICES ASSUME Inv, TimeoutElapses \/ SavedTimeoutElapses PROVE Inv'
  OBVIOUS
<1> USE BoundAssumption, ThresholdAssumption, NoneIsNot
<1>1. /\ saved' \in Saved \union {None}
      /\ SavedBelowThreshold'
  <2>1. CASE saved' = saved
    BY <2>1 DEF Inv, TypeOK, SavedBelowThreshold
  <2>2. CASE saved # None /\ saved' = [saved EXCEPT !.openedAt = "old"]
    BY <2>2 DEF Inv, TypeOK, SavedBelowThreshold, Saved, Openings
  <2> QED
    BY <2>1, <2>2 DEF TimeoutElapses, SavedTimeoutElapses
<1>2. TypeOK'
  BY <1>1 DEF Inv, TypeOK, TimeoutElapses, SavedTimeoutElapses, circuit, Openings
<1>3. ClosedBelowThreshold' /\ HalfOpenCounts' /\ RestingIsRecent'
  BY DEF Inv, ClosedBelowThreshold, HalfOpenCounts, RestingIsRecent,
         TimeoutElapses, SavedTimeoutElapses, circuit
<1> QED
  BY <1>1, <1>2, <1>3 DEF Inv

(* The operator forces a state, resets the counters or restarts. *)
LEMMA ForceStep ==
    Inv /\ (ForceOpen \/ ForceClose \/ ForceHalfOpen \/ ResetStats \/ Restart) => Inv'
<1> SUFFICES ASSUME Inv,
                    ForceOpen \/ ForceClose \/ ForceHalfOpen \/ ResetStats \/ Restart
             PROVE  Inv'
  OBVIOUS
<1> USE BoundAssumption, ThresholdAssumption, NoneIsNot
<1>1. TypeOK'
  <2>1. operations' \in 0 .. MaxOperations
    BY DEF Inv, TypeOK, ForceOpen, ForceClose, ForceHalfOpen, ResetStats, Restart, Operate
  <2>2. /\ 0 \in 0 .. MaxCount /\ 0 \in 0 .. MaxInFlight /\ 0 \in 0 .. HalfOpenMaxCalls
        /\ {"OPEN", "CLOSED", "HALF_OPEN"} \subseteq States
        /\ "recent" \in Openings /\ None \in Openings
    BY DEF States, Openings
  <2> QED
    BY <2>1, <2>2 DEF Inv, TypeOK, ForceOpen, ForceClose, ForceHalfOpen, ResetStats,
                      Restart, Opening
<1>2. ClosedBelowThreshold' /\ SavedBelowThreshold' /\ RestingIsRecent'
  BY DEF Inv, TypeOK, ForceOpen, ForceClose, ForceHalfOpen, ResetStats, Restart,
         Opening, ClosedBelowThreshold, SavedBelowThreshold, RestingIsRecent
<1>3. HalfOpenCounts'
  BY DEF Inv, TypeOK, ForceOpen, ForceClose, ForceHalfOpen, ResetStats, Restart,
         Opening, HalfOpenCounts
<1> QED
  BY <1>1, <1>2, <1>3 DEF Inv

(* What is saved is what the circuit is, and what is loaded was saved. *)
LEMMA PersistenceStep == Inv /\ (SaveState \/ LoadState) => Inv'
<1> SUFFICES ASSUME Inv, SaveState \/ LoadState PROVE Inv'
  OBVIOUS
<1> USE BoundAssumption, ThresholdAssumption, NoneIsNot
<1>1. CASE SaveState
  <2>1. saved' \in Saved /\ SavedBelowThreshold'
    BY <1>1 DEF Inv, TypeOK, SaveState, Saved, SavedBelowThreshold, ClosedBelowThreshold
  <2> QED
    BY <1>1, <2>1 DEF Inv, TypeOK, SaveState, circuit, ClosedBelowThreshold,
                      HalfOpenCounts, RestingIsRecent
<1>2. CASE LoadState
  <2>1. saved \in Saved
    BY <1>2 DEF Inv, TypeOK, LoadState
  <2>2. TypeOK'
    BY <1>2, <2>1 DEF Inv, TypeOK, LoadState, Operate, Saved, States
  <2> QED
    BY <1>2, <2>1, <2>2 DEF Inv, LoadState, ClosedBelowThreshold, SavedBelowThreshold,
                            HalfOpenCounts, RestingIsRecent, Saved, Openings
<1> QED
  BY <1>1, <1>2

LEMMA InvStep == Inv /\ [Next]_vars => Inv'
<1>1. Inv /\ UNCHANGED vars => Inv'
  BY DEF Inv, TypeOK, ClosedBelowThreshold, SavedBelowThreshold, HalfOpenCounts,
         RestingIsRecent, vars, circuit
<1> QED
  BY <1>1, AdmissionStep, ResultStep, TimeStep, ForceStep, PersistenceStep DEF Next

LEMMA InvHolds == Spec => []Inv
<1> QED
  BY InitInv, InvStep, PTL DEF Spec

(* Every counter, and what was saved, stays in range. *)
THEOREM BreakerTypeCorrect == Spec => []TypeOK
<1>1. Inv => TypeOK
  BY DEF Inv
<1> QED
  BY InvHolds, <1>1, PTL

(* A closed circuit has recorded fewer failures than open it. *)
THEOREM BreakerClosedBelowThreshold == Spec => []ClosedBelowThreshold
<1>1. Inv => ClosedBelowThreshold
  BY DEF Inv
<1> QED
  BY InvHolds, <1>1, PTL

(* A half-open circuit that admits no more calls still awaits one. *)
THEOREM BreakerHalfOpenNotStuck == Spec => []HalfOpenNotStuck
<1>1. Inv => HalfOpenNotStuck
  BY ThresholdAssumption, BoundAssumption
     DEF Inv, TypeOK, HalfOpenCounts, HalfOpenNotStuck
<1> QED
  BY InvHolds, <1>1, PTL

(* Between an opening and the end of its timeout no call is admitted. *)
THEOREM BreakerOpenRests == Spec => OpenRests
<1>1. ASSUME Inv, [Next]_vars, inFlight' > inFlight
      PROVE  state # "OPEN" \/ rested
  <2>1. Execute
    BY <1>1 DEF Inv, TypeOK, Next, vars, circuit, Ask, Settle, RecordDirectly,
                TimeoutElapses, SavedTimeoutElapses, ForceOpen, ForceClose,
                ForceHalfOpen, ResetStats, SaveState, LoadState, Restart
  <2> QED
    BY <1>1, <2>1, BoundAssumption
       DEF Inv, Execute, CanExecute, ShouldAttemptReset, RestingIsRecent
<1>2. Inv /\ [Next]_vars => [inFlight' > inFlight => state # "OPEN" \/ rested]_vars
  BY <1>1
<1> QED
  BY InvHolds, <1>2, PTL DEF Spec, OpenRests

(* Late results never close an open circuit. *)
THEOREM BreakerOpenClosesThroughHalfOpen == Spec => OpenClosesThroughHalfOpen
<1>1. ASSUME [Next]_vars, state = "OPEN", state' = "CLOSED"
      PROVE  ForceClose \/ LoadState \/ Restart
  BY <1>1 DEF Next, vars, circuit, Ask, Execute, CanExecute, Settle,
              RecordDirectly, RecordSuccess, RecordFailure, Opening, TimeoutElapses,
              SavedTimeoutElapses, ForceOpen, ForceHalfOpen, ResetStats, SaveState
<1>2. [Next]_vars =>
        [state = "OPEN" /\ state' = "CLOSED" => ForceClose \/ LoadState \/ Restart]_vars
  BY <1>1
<1> QED
  BY <1>2, PTL DEF Spec, OpenClosesThroughHalfOpen
=============================================================================
