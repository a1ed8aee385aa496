----------------------------- MODULE BiosProofs -----------------------------
(* Type correctness, the transition lock and the task limits of Bios, proved *)
(* for every number of calls in flight, of components and of tasks, and for  *)
(* one call at a time that the mode of the reported state is active.         *)
EXTENDS Bios, TLAPS

Good(w) ==
    /\ w \in World
    /\ w.running <= ConcurrencyLimit
    /\ w.running = 0 => ~w.busy

(* What a call waits for goes with what was called; only a transition waits  *)
(* to enter a mode that may refuse.                                          *)
Shape(call) ==
    /\ call.pc = "enter" => \/ call.op = "transition"
                            \/ call.op = "boot" /\ call.wait = "none"
    /\ call.pc = "diagnose" => call.op = "boot"
    /\ call.pc = "stop" => call.op = "shutdown"

CallShapes == \A c \in Calls : calls[c] # None => Shape(calls[c])

Inv == TypeOK /\ TransitionLock /\ TaskLimits /\ CallShapes

-----------------------------------------------------------------------------
(* The operators of the modes keep a good world good. *)

LEMMA ActivateGood ==
    ASSUME NEW w, Good(w), NEW m \in Modes
    PROVE  Good(Activate(w, m)) /\ Good(Deactivate(w, m))
BY DEF Activate, Deactivate, Good, World

LEMMA DrainedGood ==
    ASSUME NEW w, Good(w)
    PROVE  Good(Drained(w))
BY DEF Drained, Good, World

LEMMA ExitGood ==
    ASSUME NEW w, Good(w), NEW m \in Modes, NEW force \in BOOLEAN, NEW wait
    PROVE  /\ ExitWait(w, m, force) \in Waits
           /\ Good(ExitBegin(w, m, force))
           /\ \A v \in ExitEnd(w, m, wait) : Good(v)
<1>1. ExitWait(w, m, force) \in Waits
  BY DEF ExitWait, Waits
<1>2. Good(Deactivate(w, m)) /\ Good(Drained(w)) /\ Good(Drained(Deactivate(w, m)))
  BY ActivateGood, DrainedGood
<1>3. Good(ExitBegin(w, m, force))
  BY <1>2 DEF ExitBegin
<1>4. \A v \in ExitEnd(w, m, wait) : v \in {w, Deactivate(w, m), Drained(w)}
  BY DEF ExitEnd
<1> QED BY <1>1, <1>2, <1>3, <1>4

LEMMA EnterGood ==
    ASSUME NEW w, Good(w), NEW m \in Modes, NEW wait
    PROVE  /\ EnterWait(w, m) \in Waits
           /\ Good(EnterBegin(w, m))
           /\ Good(EnterEnd(w, m, wait))
<1>1. ExitWait(w, "OPERATIONAL", FALSE) \in Waits
  BY ExitGood DEF Modes
<1>2. EnterWait(w, m) \in Waits
  BY <1>1 DEF EnterWait, Waits, Modes
<1>3. Good(Activate(w, m)) /\ Good(Drained(w)) /\ Good(Activate(Drained(w), m))
  BY ActivateGood, DrainedGood
<1>4. Good(EnterEnd(w, m, wait))
  BY <1>3 DEF EnterEnd
<1>5. Good([Activate(w, m) EXCEPT !.busy = FALSE])
  BY <1>3 DEF Good, World
<1>6. Good(ExitBegin(w, "OPERATIONAL", FALSE))
  BY ExitGood DEF Modes
<1>7. Good(EnterBegin(w, m))
  BY <1>3, <1>5, <1>6 DEF EnterBegin
<1> QED BY <1>2, <1>4, <1>7

-----------------------------------------------------------------------------
(* What a step does to the table of calls. *)

LEMMA CallSet ==
    ASSUME TypeOK, NEW c \in Calls, NEW r \in Call,
           calls' = [calls EXCEPT ![c] = r]
    PROVE  /\ calls' \in [Calls -> Call \union {None}]
           /\ calls'[c] = r /\ r # None
           /\ \A d \in Calls \ {c} : calls'[d] = calls[d]
BY BiosAssumption DEF TypeOK

LEMMA CallEnded ==
    ASSUME TypeOK, NEW c \in Calls, End(c)
    PROVE  /\ calls' \in [Calls -> Call \union {None}]
           /\ calls'[c] = None
           /\ \A d \in Calls \ {c} : calls'[d] = calls[d]
BY DEF TypeOK, End

LEMMA CallTyped ==
    ASSUME TypeOK, NEW c \in Calls, calls[c] # None
    PROVE  calls[c] \in Call
BY DEF TypeOK

(* Entering a mode: the call waits, and the world stays good. *)
LEMMA EnterStep ==
    ASSUME TypeOK, NEW c \in Calls, NEW w, Good(w), NEW m \in Modes,
           NEW op \in {"boot", "transition", "rescue", "critical"},
           EnterMode(c, op, w, m)
    PROVE  /\ calls' \in [Calls -> Call \union {None}]
           /\ calls'[c] # None
           /\ calls'[c].op = op
           /\ calls'[c].wait = EnterWait(w, m) /\ calls'[c].target = m
           /\ m = "OPERATIONAL" => calls'[c].wait = "none"
           /\ calls'[c].pc = IF m = "SAFE_MODE" THEN "close" ELSE "enter"
           /\ \A d \in Calls \ {c} : calls'[d] = calls[d]
           /\ Good(world')
<1> DEFINE pc == IF m = "SAFE_MODE" THEN "close" ELSE "enter"
           wait == EnterWait(w, m)
           todo == IF wait = "components" THEN components \ Minimal ELSE {}
           r == [op |-> op, pc |-> pc, wait |-> wait, mode |-> m, target |-> m,
                 force |-> FALSE, todo |-> todo]
<1>1. wait \in Waits /\ Good(world')
  BY EnterGood DEF EnterMode
<1>2. pc \in {"exit", "enter", "close", "diagnose", "stop"}
  OBVIOUS
<1>3. todo \in SUBSET Registrable
  BY DEF TypeOK
<1>4. calls' = [calls EXCEPT ![c] = r]
  BY DEF EnterMode, Await
<1>5. m = "OPERATIONAL" => wait = "none"
  BY DEF EnterWait
<1>6. pc = IF m = "SAFE_MODE" THEN "close" ELSE "enter"
  OBVIOUS
<1>7. r.op = op /\ r.pc = pc /\ r.wait = wait /\ r.target = m
  OBVIOUS
<1>10. wait = EnterWait(w, m)
  OBVIOUS
<1> HIDE DEF pc, wait, todo
<1>8. r \in Call
  BY <1>1, <1>2, <1>3 DEF Call
<1> HIDE DEF r
<1>9. /\ calls' \in [Calls -> Call \union {None}]
      /\ calls'[c] = r /\ r # None
      /\ \A d \in Calls \ {c} : calls'[d] = calls[d]
  BY <1>4, <1>8, CallSet
<1> QED BY <1>1, <1>5, <1>6, <1>7, <1>9, <1>10

-----------------------------------------------------------------------------
(* The lock: a step leaves every call what it was, starts the transition     *)
(* that takes the lock, or ends the one that holds it.                       *)

LEMMA LockKept ==
    ASSUME TransitionLock, transitioning' = transitioning,
           \A d \in Calls : Transitional(calls[d])' <=> Transitional(calls[d])
    PROVE  TransitionLock'
BY DEF TransitionLock

LEMMA LockTaken ==
    ASSUME TransitionLock, ~transitioning, transitioning' = TRUE,
           NEW c \in Calls, Transitional(calls[c])',
           \A d \in Calls \ {c} : calls'[d] = calls[d]
    PROVE  TransitionLock'
<1>1. \A d \in Calls : ~Transitional(calls[d])
  BY DEF TransitionLock
<1>2. \A d \in Calls \ {c} : ~Transitional(calls[d])'
  BY <1>1 DEF Transitional
<1> QED BY <1>2 DEF TransitionLock

LEMMA LockFreed ==
    ASSUME TransitionLock, transitioning' = FALSE,
           NEW c \in Calls, Transitional(calls[c]), ~Transitional(calls[c])',
           \A d \in Calls \ {c} : calls'[d] = calls[d]
    PROVE  TransitionLock'
<1>1. \A d \in Calls \ {c} : ~Transitional(calls[d])
  BY DEF TransitionLock
<1>2. \A d \in Calls : ~Transitional(calls[d])'
  BY <1>1 DEF Transitional
<1> QED BY <1>2 DEF TransitionLock

(* A step that leaves every call alone, or changes one without making it a   *)
(* transition or ending one, keeps what the invariant says of the calls.     *)
LEMMA CallsKept ==
    ASSUME Inv, transitioning' = transitioning, NEW c \in Calls,
           Transitional(calls[c])' <=> Transitional(calls[c]),
           \A d \in Calls \ {c} : calls'[d] = calls[d],
           calls'[c] # None => Shape(calls'[c])
    PROVE  TransitionLock' /\ CallShapes'
<1>1. \A d \in Calls : Transitional(calls[d])' <=> Transitional(calls[d])
  BY DEF Transitional
<1>2. TransitionLock'
  BY <1>1, LockKept DEF Inv
<1>3. CallShapes'
  BY DEF Inv, CallShapes
<1> QED BY <1>2, <1>3

(* A step that ends a call which is no transition. *)
LEMMA CallDone ==
    ASSUME Inv, transitioning' = transitioning, NEW c \in Calls,
           ~Transitional(calls[c]), End(c)
    PROVE  TransitionLock' /\ CallShapes'
<1>1. calls'[c] = None /\ \A d \in Calls \ {c} : calls'[d] = calls[d]
  BY CallEnded DEF Inv
<1> QED BY <1>1, CallsKept DEF Transitional

(* A step that ends the transition that holds the lock. *)
LEMMA TransitionDone ==
    ASSUME Inv, transitioning' = FALSE, NEW c \in Calls,
           Transitional(calls[c]), End(c)
    PROVE  TransitionLock' /\ CallShapes'
<1>1. calls'[c] = None /\ \A d \in Calls \ {c} : calls'[d] = calls[d]
  BY CallEnded DEF Inv
<1>2. ~Transitional(calls[c])'
  BY <1>1 DEF Transitional
<1>3. TransitionLock'
  BY <1>1, <1>2, LockFreed DEF Inv
<1>4. CallShapes'
  BY <1>1 DEF Inv, CallShapes
<1> QED BY <1>3, <1>4

(* A call that starts to enter a mode is as much a transition as before. *)
LEMMA EnterKept ==
    ASSUME Inv, NEW c \in Calls, NEW w, Good(w), NEW m \in Modes,
           NEW op \in {"boot", "transition", "rescue", "critical"},
           EnterMode(c, op, w, m), UNCHANGED <<state, transitioning, listening>>,
           Transitional(calls[c]) <=> op \in {"transition", "rescue"},
           \/ op = "transition"
           \/ m = "SAFE_MODE"
           \/ op = "boot" /\ m = "OPERATIONAL",
           components' \subseteq Registrable
    PROVE  Inv'
<1>1. /\ calls' \in [Calls -> Call \union {None}]
      /\ calls'[c] # None /\ calls'[c].op = op
      /\ m = "OPERATIONAL" => calls'[c].wait = "none"
      /\ calls'[c].pc = IF m = "SAFE_MODE" THEN "close" ELSE "enter"
      /\ \A d \in Calls \ {c} : calls'[d] = calls[d]
      /\ Good(world')
  BY EnterStep DEF Inv
<1>2. Transitional(calls[c])' <=> Transitional(calls[c])
  BY <1>1 DEF Transitional
<1>3. TransitionLock' /\ CallShapes'
  BY <1>1, <1>2, CallsKept DEF Shape
<1>4. TypeOK' /\ TaskLimits'
  BY <1>1 DEF Inv, TypeOK, TaskLimits, Good
<1> QED BY <1>3, <1>4 DEF Inv

LEMMA SafeKept ==
    ASSUME Inv, NEW c \in Calls, NEW op \in {"boot", "rescue", "critical"},
           ToSafeMode(c, op), Transitional(calls[c]) <=> op = "rescue",
           components' \subseteq Registrable
    PROVE  Inv'
<1> PICK w : w = world
  OBVIOUS
<1>1. Good(w) /\ "SAFE_MODE" \in Modes
  BY DEF Inv, TypeOK, TaskLimits, Good, Modes
<1>2. /\ EnterMode(c, op, w, "SAFE_MODE")
      /\ UNCHANGED <<state, transitioning, listening>>
  BY DEF ToSafeMode, EnterMode
<1>3. op \in {"boot", "transition", "rescue", "critical"}
  OBVIOUS
<1>4. Transitional(calls[c]) <=> op \in {"transition", "rescue"}
  OBVIOUS
<1>5. PICK m \in Modes : m = "SAFE_MODE"
  BY <1>1
<1>6. EnterMode(c, op, w, m)
  BY <1>2, <1>5
<1> QED BY <1>1, <1>2, <1>3, <1>4, <1>5, <1>6, EnterKept

(* A failed transition that still holds the lock. *)
LEMMA FailKept ==
    ASSUME Inv, NEW c \in Calls, Transitional(calls[c]), Fail(c),
           UNCHANGED components
    PROVE  Inv'
<1>1. components' \subseteq Registrable
  BY DEF Inv, TypeOK
<1>2. CASE calls[c].target = "SAFE_MODE"
  <2>1. TransitionLock' /\ CallShapes'
    BY <1>2, TransitionDone DEF Fail
  <2>2. TypeOK' /\ TaskLimits'
    BY <1>2, CallEnded DEF Fail, Inv, TypeOK, TaskLimits
  <2> QED BY <2>1, <2>2 DEF Inv
<1>3. CASE calls[c].target # "SAFE_MODE"
  <2>1. ToSafeMode(c, "rescue")
    BY <1>3 DEF Fail
  <2> QED BY <1>1, <2>1, SafeKept
<1> QED BY <1>2, <1>3

(* A call that waits for the exit of the current mode. *)
LEMMA ExitAwaited ==
    ASSUME Inv, NEW c \in Calls, calls[c] = None,
           NEW op \in {"transition", "shutdown"}, NEW target \in Modes,
           NEW force \in BOOLEAN,
           Await(c, op, "exit", ExitWait(world, state, force), state, target,
                 force, {}),
           world' = ExitBegin(world, state, force)
    PROVE  /\ calls' \in [Calls -> Call \union {None}]
           /\ calls'[c] # None /\ calls'[c].op = op /\ calls'[c].pc = "exit"
           /\ \A d \in Calls \ {c} : calls'[d] = calls[d]
           /\ Good(world')
<1> DEFINE wait == ExitWait(world, state, force)
           r == [op |-> op, pc |-> "exit", wait |-> wait, mode |-> state,
                 target |-> target, force |-> force, todo |-> {}]
<1>1. Good(world) /\ state \in Modes
  BY DEF Inv, TypeOK, TaskLimits, Good
<1>2. wait \in Waits /\ Good(world')
  BY <1>1, ExitGood
<1>3. calls' = [calls EXCEPT ![c] = r]
  BY DEF Await
<1>4. r.op = op /\ r.pc = "exit"
  OBVIOUS
<1> HIDE DEF wait
<1>5. r \in Call
  BY <1>1, <1>2 DEF Call
<1> HIDE DEF r
<1> QED BY <1>2, <1>3, <1>4, <1>5, CallSet DEF Inv

LEMMA InvInit == Init => Inv
<1> SUFFICES ASSUME Init PROVE Inv
  OBVIOUS
<1>1. TypeOK
  BY DEF Init, TypeOK, World, Modes
<1>2. TransitionLock /\ CallShapes
  BY DEF Init, TransitionLock, CallShapes, Transitional
<1>3. TaskLimits
  BY BiosAssumption DEF Init, TaskLimits
<1> QED BY <1>1, <1>2, <1>3 DEF Inv

LEMMA BootStep ==
    ASSUME Inv, NEW c \in Calls, NEW skip \in BOOLEAN, Boot(c, skip)
    PROVE  Inv'
<1>1. ~Transitional(calls[c])
  BY DEF Boot, Transitional
<1>2. components' \subseteq Registrable
  BY DEF Boot, Inv, TypeOK, Registrable
<1>3. CASE "monitor" \in components
  BY <1>1, <1>2, <1>3, SafeKept DEF Boot
<1>4. CASE "monitor" \notin components /\ skip
  <2> PICK w : w = world
    OBVIOUS
  <2> PICK m \in Modes : m = "OPERATIONAL"
    BY DEF Modes
  <2>1. Good(w)
    BY DEF Inv, TypeOK, TaskLimits, Good
  <2>2. EnterMode(c, "boot", w, m)
    BY <1>4 DEF Boot, EnterMode
  <2>3. PICK op \in {"boot", "transition", "rescue", "critical"} : op = "boot"
    OBVIOUS
  <2>4. EnterMode(c, op, w, m) /\ UNCHANGED <<state, transitioning, listening>>
    BY <1>4, <2>2, <2>3 DEF Boot
  <2>5. Transitional(calls[c]) <=> op \in {"transition", "rescue"}
    BY <1>1, <2>3
  <2> QED BY <1>2, <2>1, <2>3, <2>4, <2>5, EnterKept
<1>5. CASE "monitor" \notin components /\ ~skip
  <2> DEFINE r == [op |-> "boot", pc |-> "diagnose", wait |-> "diagnostics",
                   mode |-> "OPERATIONAL", target |-> "OPERATIONAL",
                   force |-> FALSE, todo |-> {}]
  <2>1. r \in Call
    BY DEF Call, Waits, Modes
  <2>2. calls' = [calls EXCEPT ![c] = r]
    BY <1>5 DEF Boot, Await
  <2>3. UNCHANGED <<state, transitioning, listening, world>>
    BY <1>5 DEF Boot
  <2>4. r.op = "boot" /\ r.pc = "diagnose"
    OBVIOUS
  <2> HIDE DEF r
  <2>5. /\ calls' \in [Calls -> Call \union {None}]
        /\ calls'[c] = r /\ \A d \in Calls \ {c} : calls'[d] = calls[d]
    BY <2>1, <2>2, CallSet DEF Inv
  <2>6. ~Transitional(calls[c])'
    BY <2>4, <2>5 DEF Transitional
  <2>7. TransitionLock' /\ CallShapes'
    BY <1>1, <2>3, <2>4, <2>5, <2>6, CallsKept DEF Shape
  <2>8. TypeOK' /\ TaskLimits'
    BY <1>2, <2>3, <2>5 DEF Inv, TypeOK, TaskLimits
  <2> QED BY <2>7, <2>8 DEF Inv
<1> QED BY <1>3, <1>4, <1>5

(* Going on to enter a mode from what a call waited for, in a good world. *)
LEMMA GoOn ==
    ASSUME Inv, NEW c \in Calls, NEW w, Good(w), NEW m \in Modes,
           NEW op \in {"boot", "transition"}, EnterMode(c, op, w, m),
           UNCHANGED <<state, transitioning, components, listening>>,
           Transitional(calls[c]) <=> op = "transition",
           op = "boot" => m = "OPERATIONAL"
    PROVE  Inv'
<1>1. op \in {"boot", "transition", "rescue", "critical"}
  OBVIOUS
<1>2. Transitional(calls[c]) <=> op \in {"transition", "rescue"}
  OBVIOUS
<1>3. components' \subseteq Registrable
  BY DEF Inv, TypeOK
<1> QED BY <1>1, <1>2, <1>3, EnterKept

LEMMA DiagnosedStep ==
    ASSUME Inv, NEW c \in Calls, BootDiagnosed(c)
    PROVE  Inv'
<1>1. ~Transitional(calls[c])
  BY DEF BootDiagnosed, Transitional, Inv, CallShapes, Shape
<1>2. components' \subseteq Registrable
  BY DEF BootDiagnosed, Inv, TypeOK
<1>3. CASE ToSafeMode(c, "boot")
  BY <1>1, <1>2, <1>3, SafeKept
<1>4. CASE /\ EnterMode(c, "boot", world, "OPERATIONAL")
           /\ UNCHANGED <<state, transitioning, listening>>
  <2> PICK w : w = world
    OBVIOUS
  <2> PICK m \in Modes : m = "OPERATIONAL"
    BY DEF Modes
  <2> PICK op \in {"boot", "transition"} : op = "boot"
    OBVIOUS
  <2>1. Good(w)
    BY DEF Inv, TypeOK, TaskLimits, Good
  <2>2. EnterMode(c, op, w, m)
    BY <1>4 DEF EnterMode
  <2>3. UNCHANGED <<state, transitioning, components, listening>>
    BY <1>4 DEF BootDiagnosed
  <2> QED BY <1>1, <2>1, <2>2, <2>3, GoOn
<1> QED BY <1>3, <1>4 DEF BootDiagnosed

LEMMA TransitionStep ==
    ASSUME Inv, NEW c \in Calls, NEW target \in Modes, NEW force \in BOOLEAN,
           Transition(c, target, force)
    PROVE  Inv'
<1> PICK op \in {"transition", "shutdown"} : op = "transition"
  OBVIOUS
<1>1. /\ Await(c, op, "exit", ExitWait(world, state, force), state, target,
               force, {})
      /\ world' = ExitBegin(world, state, force)
      /\ calls[c] = None
  BY DEF Transition, Await
<1>2. /\ calls' \in [Calls -> Call \union {None}]
      /\ calls'[c] # None /\ calls'[c].op = op /\ calls'[c].pc = "exit"
      /\ \A d \in Calls \ {c} : calls'[d] = calls[d]
      /\ Good(world')
  BY <1>1, ExitAwaited
<1>3. Transitional(calls[c])'
  BY <1>2 DEF Transitional
<1>4. TransitionLock'
  BY <1>2, <1>3, LockTaken DEF Transition, Inv
<1>5. CallShapes'
  BY <1>2 DEF CallShapes, Shape, Inv
<1>6. TypeOK' /\ TaskLimits'
  BY <1>2 DEF Transition, Inv, TypeOK, TaskLimits, Good
<1> QED BY <1>4, <1>5, <1>6 DEF Inv

LEMMA ShutdownStep ==
    ASSUME Inv, NEW c \in Calls, NEW force \in BOOLEAN, Shutdown(c, force)
    PROVE  Inv'
<1> PICK op \in {"transition", "shutdown"} : op = "shutdown"
  OBVIOUS
<1> PICK target \in Modes : target = "BOOT"
  BY DEF Modes
<1>1. /\ Await(c, op, "exit", ExitWait(world, state, force), state, target,
               force, {})
      /\ world' = ExitBegin(world, state, force)
      /\ calls[c] = None
  BY DEF Shutdown, Await
<1>2. /\ calls' \in [Calls -> Call \union {None}]
      /\ calls'[c] # None /\ calls'[c].op = op /\ calls'[c].pc = "exit"
      /\ \A d \in Calls \ {c} : calls'[d] = calls[d]
      /\ Good(world')
  BY <1>1, ExitAwaited
<1>3. ~Transitional(calls[c]) /\ ~Transitional(calls[c])'
  BY <1>1, <1>2 DEF Transitional
<1>4. TransitionLock' /\ CallShapes'
  BY <1>2, <1>3, CallsKept DEF Shape, Shutdown
<1>5. TypeOK' /\ TaskLimits'
  BY <1>2 DEF Shutdown, Inv, TypeOK, TaskLimits, Good
<1> QED BY <1>4, <1>5 DEF Inv

LEMMA CriticalStep ==
    ASSUME Inv, NEW c \in Calls, Critical(c)
    PROVE  Inv'
<1>1. ~Transitional(calls[c])
  BY DEF Critical, Transitional
<1>2. components' \subseteq Registrable
  BY DEF Critical, Inv, TypeOK
<1> QED BY <1>1, <1>2, SafeKept DEF Critical

LEMMA ExitedStep ==
    ASSUME Inv, NEW c \in Calls, TransitionExited(c)
    PROVE  Inv'
<1>1. Transitional(calls[c]) /\ calls[c] \in Call
  BY CallTyped DEF TransitionExited, Transitional, Inv
<1>2. CASE Fail(c)
  BY <1>1, <1>2, FailKept DEF TransitionExited
<1>3. CASE /\ \E w \in ExitEnd(world, calls[c].mode, calls[c].wait) :
                EnterMode(c, "transition", w, calls[c].target)
           /\ UNCHANGED <<state, transitioning, listening>>
  <2>1. Good(world) /\ calls[c].mode \in Modes /\ calls[c].target \in Modes
    BY <1>1 DEF Inv, TypeOK, TaskLimits, Good, Call
  <2>2. PICK w \in ExitEnd(world, calls[c].mode, calls[c].wait) :
           EnterMode(c, "transition", w, calls[c].target)
    BY <1>3
  <2>3. Good(w)
    BY <2>1, ExitGood
  <2> PICK m \in Modes : m = calls[c].target
    BY <2>1
  <2> PICK op \in {"boot", "transition"} : op = "transition"
    OBVIOUS
  <2>4. EnterMode(c, op, w, m)
    BY <2>2 DEF EnterMode
  <2>5. UNCHANGED <<state, transitioning, components, listening>>
    BY <1>3 DEF TransitionExited
  <2> QED BY <1>1, <2>3, <2>4, <2>5, GoOn
<1> QED BY <1>2, <1>3 DEF TransitionExited

LEMMA EnteredStep ==
    ASSUME Inv, NEW c \in Calls, Entered(c)
    PROVE  Inv'
<1> DEFINE call == calls[c]
<1>1. call \in Call /\ call # None /\ call.pc = "enter" /\ Shape(call)
  BY CallTyped DEF Entered, Inv, CallShapes
<1>2. CASE FALSE \in Outcomes(call) /\ Fail(c)
  <2>1. call.wait # "none"
    BY <1>2 DEF Outcomes
  <2>2. Transitional(call)
    BY <1>1, <2>1 DEF Shape, Transitional
  <2> QED BY <1>2, <2>2, FailKept DEF Entered
<1>3. CASE /\ world' = EnterEnd(world, call.target, call.wait)
           /\ UNCHANGED listening
           /\ \/ call.op = "transition" /\ Commit(c)
              \/ /\ call.op = "boot" /\ state' = "OPERATIONAL" /\ End(c)
                 /\ UNCHANGED transitioning
  <2>1. Good(world) /\ call.target \in Modes
    BY <1>1 DEF Inv, TypeOK, TaskLimits, Good, Call
  <2>2. Good(world')
    BY <1>3, <2>1, EnterGood
  <2>3. CASE call.op = "transition" /\ Commit(c)
    <3>1. Transitional(call)
      BY <1>1, <2>3 DEF Transitional
    <3>2. TransitionLock' /\ CallShapes'
      BY <2>3, <3>1, TransitionDone DEF Commit
    <3>3. TypeOK' /\ TaskLimits'
      BY <1>3, <2>1, <2>2, <2>3, CallEnded
      DEF Commit, Entered, Inv, TypeOK, TaskLimits, Good
    <3> QED BY <3>2, <3>3 DEF Inv
  <2>4. CASE /\ call.op = "boot" /\ state' = "OPERATIONAL" /\ End(c)
             /\ UNCHANGED transitioning
    <3>1. ~Transitional(call)
      BY <2>4 DEF Transitional
    <3>2. TransitionLock' /\ CallShapes'
      BY <2>4, <3>1, CallDone
    <3>3. TypeOK' /\ TaskLimits'
      BY <1>3, <2>2, <2>4, CallEnded
      DEF Entered, Inv, TypeOK, TaskLimits, Good, Modes
    <3> QED BY <3>2, <3>3 DEF Inv
  <2> QED BY <1>3, <2>3, <2>4
<1> QED BY <1>2, <1>3 DEF Entered

LEMMA CloseStep ==
    ASSUME Inv, NEW c \in Calls, NEW x \in Components, CloseComponent(c, x)
    PROVE  Inv'
<1> DEFINE r == [calls[c] EXCEPT !.todo = @ \ {x}]
<1>1. calls[c] \in Call /\ calls[c].pc = "close"
  BY CallTyped DEF CloseComponent, Inv
<1>2. /\ r \in Call /\ r.pc = "close" /\ r.op = calls[c].op
  BY <1>1 DEF Call
<1>3. calls' = [calls EXCEPT ![c] = r]
  BY DEF CloseComponent
<1> HIDE DEF r
<1>4. /\ calls' \in [Calls -> Call \union {None}]
      /\ calls'[c] = r /\ r # None
      /\ \A d \in Calls \ {c} : calls'[d] = calls[d]
  BY <1>2, <1>3, CallSet DEF Inv
<1>5. Transitional(calls[c])' <=> Transitional(calls[c])
  BY <1>1, <1>2, <1>4 DEF Transitional, CloseComponent
<1>6. TransitionLock' /\ CallShapes'
  BY <1>2, <1>4, <1>5, CallsKept DEF Shape, CloseComponent
<1>7. TypeOK' /\ TaskLimits'
  BY <1>4 DEF CloseComponent, Inv, TypeOK, TaskLimits
<1> QED BY <1>6, <1>7 DEF Inv

LEMMA SafeStep ==
    ASSUME Inv, NEW c \in Calls, SafeEntered(c)
    PROVE  Inv'
<1> DEFINE call == calls[c]
<1>1. call \in Call /\ call # None /\ Good(world) /\ "SAFE_MODE" \in Modes
  BY CallTyped DEF SafeEntered, Inv, TypeOK, TaskLimits, Good, Modes
<1>2. Good(world')
  BY <1>1, EnterGood DEF SafeEntered
<1>3. End(c) /\ state' \in Modes /\ transitioning' \in BOOLEAN
  BY <1>1 DEF SafeEntered, Commit, Modes, Call
<1>4. TypeOK' /\ TaskLimits'
  BY <1>2, <1>3, CallEnded DEF SafeEntered, Inv, TypeOK, TaskLimits, Good
<1>5. CASE call.op \in {"transition", "rescue"}
  <2>1. Transitional(call) /\ transitioning' = FALSE
    BY <1>1, <1>5 DEF Transitional, SafeEntered, Commit
  <2>2. TransitionLock' /\ CallShapes'
    BY <1>3, <2>1, TransitionDone
  <2> QED BY <1>4, <2>2 DEF Inv
<1>6. CASE call.op \notin {"transition", "rescue"}
  <2>1. ~Transitional(call)
    BY <1>6 DEF Transitional
  <2>2. transitioning' = transitioning
    BY <1>6 DEF SafeEntered, Inv, TypeOK
  <2>3. TransitionLock' /\ CallShapes'
    BY <1>3, <2>1, <2>2, CallDone
  <2> QED BY <1>4, <2>3 DEF Inv
<1> QED BY <1>5, <1>6

LEMMA ShutdownExitedStep ==
    ASSUME Inv, NEW c \in Calls, ShutdownExited(c)
    PROVE  Inv'
<1> DEFINE call == calls[c]
           r == [call EXCEPT !.pc = "stop"]
<1>1. call \in Call /\ Good(world) /\ call.op = "shutdown"
  BY CallTyped DEF ShutdownExited, Inv, TypeOK, TaskLimits, Good
<1>2. r \in Call /\ r.pc = "stop" /\ r.op = "shutdown"
  BY <1>1 DEF Call
<1>3. calls' = [calls EXCEPT ![c] = r]
  BY DEF ShutdownExited
<1> HIDE DEF r
<1>4. /\ calls' \in [Calls -> Call \union {None}]
      /\ calls'[c] = r /\ r # None
      /\ \A d \in Calls \ {c} : calls'[d] = calls[d]
  BY <1>2, <1>3, CallSet DEF Inv
<1>5. ~Transitional(calls[c])' /\ ~Transitional(calls[c])
  BY <1>1, <1>2, <1>4 DEF Transitional
<1>6. TransitionLock' /\ CallShapes'
  BY <1>2, <1>4, <1>5, CallsKept DEF Shape, ShutdownExited
<1>7. call.mode \in Modes
  BY <1>1 DEF Call
<1>8. \A v \in ExitEnd(world, call.mode, call.wait) : Good(v)
  BY <1>1, <1>7, ExitGood
<1>9. Good(world')
  BY <1>1, <1>8 DEF ShutdownExited
<1>10. TypeOK' /\ TaskLimits'
  BY <1>4, <1>9 DEF ShutdownExited, Inv, TypeOK, TaskLimits, Good
<1> QED BY <1>6, <1>10 DEF Inv

LEMMA ShutdownDoneStep ==
    ASSUME Inv, NEW c \in Calls, ShutdownDone(c)
    PROVE  Inv'
<1>1. ~Transitional(calls[c])
  BY DEF ShutdownDone, Inv, CallShapes, Shape, Transitional
<1>2. TransitionLock' /\ CallShapes'
  BY <1>1, CallDone DEF ShutdownDone
<1>3. TypeOK' /\ TaskLimits'
  BY CallEnded DEF ShutdownDone, Inv, TypeOK, TaskLimits, Modes
<1> QED BY <1>2, <1>3 DEF Inv

(* Steps that leave the calls alone. *)
LEMMA OtherStep ==
    ASSUME Inv, UNCHANGED <<state, transitioning, listening, calls>>,
           components' \subseteq Registrable, Good(world')
    PROVE  Inv'
<1>1. TypeOK' /\ TaskLimits'
  BY DEF Inv, TypeOK, TaskLimits, Good
<1>2. TransitionLock' /\ CallShapes'
  BY DEF Inv, TransitionLock, CallShapes, Transitional
<1> QED BY <1>1, <1>2 DEF Inv

LEMMA TaskStep ==
    ASSUME Inv, QueueTask \/ ProcessTasks \/ FinishTask
    PROVE  Inv'
<1>1. world \in World /\ Good(world) /\ components \subseteq Registrable
  BY DEF Inv, TypeOK, TaskLimits, Good
<1>2. /\ world.queued \in Nat /\ world.running \in Nat
      /\ world.busy \in BOOLEAN
      /\ world.running <= ConcurrencyLimit /\ ConcurrencyLimit \in Nat
      /\ world.running = 0 => ~world.busy
  BY <1>1, BiosAssumption DEF World, Good
<1>3. PICK q \in Nat, n \in Nat, b \in BOOLEAN :
        SetTasks(q, n, b) /\ n <= ConcurrencyLimit /\ (n = 0 => ~b)
  <2>1. CASE QueueTask
    BY <1>2, <2>1 DEF QueueTask
  <2>2. CASE ProcessTasks
    <3> DEFINE room == ConcurrencyLimit - world.running
               n == IF world.queued < room THEN world.queued ELSE room
    <3>1. /\ n > 0
          /\ SetTasks(world.queued - n, world.running + n, TRUE)
      BY <2>2 DEF ProcessTasks
    <3>2. /\ n \in Nat /\ world.queued - n \in Nat
          /\ world.running + n \in Nat
          /\ world.running + n <= ConcurrencyLimit /\ world.running + n # 0
      BY <1>2, <3>1
    <3> QED BY <3>1, <3>2
  <2>3. CASE FinishTask
    <3> DEFINE b == world.busy /\ world.running > 1
    <3>1. /\ world.running > 0
          /\ SetTasks(world.queued, world.running - 1, b)
      BY <2>3 DEF FinishTask
    <3>2. /\ world.running - 1 \in Nat /\ b \in BOOLEAN
          /\ world.running - 1 <= ConcurrencyLimit
          /\ world.running - 1 = 0 => ~b
      BY <1>2, <3>1
    <3> QED BY <1>2, <3>1, <3>2
  <2> QED BY <2>1, <2>2, <2>3
<1>4. world' = [world EXCEPT !.queued = q, !.running = n, !.busy = b]
  BY <1>3 DEF SetTasks
<1>5. Good(world')
  BY <1>1, <1>3, <1>4 DEF Good, World
<1> QED BY <1>1, <1>3, <1>5, OtherStep DEF SetTasks

LEMMA InvNext == Inv /\ [Next]_vars => Inv'
<1> SUFFICES ASSUME Inv, [Next]_vars PROVE Inv'
  OBVIOUS
<1>1. ASSUME NEW c \in Calls, Step(c) PROVE Inv'
  BY <1>1, DiagnosedStep, ExitedStep, EnteredStep, CloseStep, SafeStep,
     ShutdownExitedStep, ShutdownDoneStep DEF Step
<1>2. Good(world) /\ components \subseteq Registrable
  BY DEF Inv, TypeOK, TaskLimits, Good
<1>3. ASSUME NEW x \in Components, Register(x) \/ Unregister(x) PROVE Inv'
  BY <1>2, <1>3, OtherStep DEF Register, Unregister, Registrable
<1>4. CASE UNCHANGED vars
  BY <1>2, <1>4, OtherStep DEF vars
<1> QED
  BY <1>1, <1>3, <1>4, BootStep, TransitionStep, CriticalStep, ShutdownStep,
     TaskStep DEF Next

(* The inductive invariant of the BIOS. *)
LEMMA InvAlways == Spec => []Inv
BY InvInit, InvNext, PTL DEF Spec

(* Every reachable state of the BIOS is well typed. *)
THEOREM BiosTypeCorrect == Spec => []TypeOK
<1>1. Inv => TypeOK
  BY DEF Inv
<1> QED BY <1>1, InvAlways, PTL

(* transitionTo() of src/bios/index.js: the flag is up exactly while one     *)
(* transition is in flight, on every way a transition ends.                  *)
THEOREM BiosTransitionLock == Spec => []TransitionLock
<1>1. Inv => TransitionLock
  BY DEF Inv
<1> QED BY <1>1, InvAlways, PTL

(* The operational mode never runs more tasks than its limit, and never      *)
(* waits for tasks when none runs.                                           *)
THEOREM BiosTaskLimits == Spec => []TaskLimits
<1>1. Inv => TaskLimits
  BY DEF Inv
<1> QED BY <1>1, InvAlways, PTL

-----------------------------------------------------------------------------
(* One call at a time.  What a call has reached says which mode it found or  *)
(* made active; the state it began in is reported until it ends.             *)

OneCaller == \A c, d \in Calls : c = d

Under(call) ==
    /\ call.op = "transition" =>
        /\ call.pc \in {"exit", "enter", "close"}
        /\ call.pc = "exit" =>
            /\ call.wait \in {"none", "tasks", "operations", "recovery"}
            /\ call.wait = "tasks" => state = "OPERATIONAL"
        /\ call.pc = "close" => call.target = "SAFE_MODE"
    /\ call.pc = "enter" =>
        /\ call.target # "SAFE_MODE"
        /\ call.target = "DIAGNOSE" => "DIAGNOSE" \in world.active
    /\ call.pc = "close" =>
        call.wait = "components" \/ "SAFE_MODE" \in world.active

ModesFollow == \A c \in Calls : calls[c] # None => Under(calls[c])

LoneInv == Inv /\ ModesFollow /\ ReportedModeIsActive

(* While the only call is in flight nothing is asked of the state.           *)
LEMMA InFlight ==
    ASSUME OneCaller, NEW c \in Calls, calls'[c] # None, Under(calls[c])'
    PROVE  ModesFollow' /\ ReportedModeIsActive'
<1>1. \A d \in Calls : d = c
  BY DEF OneCaller
<1>2. ModesFollow'
  BY <1>1 DEF ModesFollow
<1>3. ReportedModeIsActive'
  BY DEF ReportedModeIsActive, NoCall
<1> QED BY <1>2, <1>3

(* It ends with the mode of the new state active.                            *)
LEMMA Ended ==
    ASSUME OneCaller, TypeOK, NEW c \in Calls, End(c),
           state' \notin {"BOOT", "OPERATIONAL"} => state' \in world'.active
    PROVE  ModesFollow' /\ ReportedModeIsActive'
<1>1. calls'[c] = None /\ \A d \in Calls : d = c
  BY CallEnded DEF OneCaller
<1>2. ModesFollow'
  BY <1>1 DEF ModesFollow
<1>3. ReportedModeIsActive'
  BY DEF ReportedModeIsActive
<1> QED BY <1>2, <1>3

(* The call goes on to enter a mode. *)
LEMMA EnterFollows ==
    ASSUME OneCaller, TypeOK, NEW c \in Calls, NEW w, Good(w), NEW m \in Modes,
           NEW op \in {"boot", "transition", "rescue", "critical"},
           EnterMode(c, op, w, m)
    PROVE  ModesFollow' /\ ReportedModeIsActive'
<1>1. /\ calls'[c] # None /\ calls'[c].op = op
      /\ calls'[c].wait = EnterWait(w, m) /\ calls'[c].target = m
      /\ calls'[c].pc = IF m = "SAFE_MODE" THEN "close" ELSE "enter"
  BY EnterStep
<1>2. world' = EnterBegin(w, m)
  BY DEF EnterMode
<1>3. m = "DIAGNOSE" => "DIAGNOSE" \in world'.active
  BY <1>2 DEF EnterBegin, Activate, Good, World
<1>4. m = "SAFE_MODE" =>
        EnterWait(w, m) = "components" \/ "SAFE_MODE" \in world'.active
  BY <1>2 DEF EnterBegin, EnterWait
<1>5. Under(calls[c])'
  BY <1>1, <1>3, <1>4 DEF Under
<1> QED BY <1>1, <1>5, InFlight

(* The same from the world as it is. *)
LEMMA GoesOn ==
    ASSUME OneCaller, Inv, NEW c \in Calls, NEW m \in Modes,
           NEW op \in {"boot", "transition", "rescue", "critical"},
           EnterMode(c, op, world, m)
    PROVE  ModesFollow' /\ ReportedModeIsActive'
<1> PICK w : w = world
  OBVIOUS
<1>1. EnterMode(c, op, w, m) /\ Good(w) /\ TypeOK
  BY DEF EnterMode, Inv, TypeOK, TaskLimits, Good
<1> QED BY <1>1, EnterFollows

LEMMA GoesToSafeMode ==
    ASSUME OneCaller, Inv, NEW c \in Calls,
           NEW op \in {"boot", "rescue", "critical"}, ToSafeMode(c, op)
    PROVE  ModesFollow' /\ ReportedModeIsActive'
<1>1. PICK m \in Modes : m = "SAFE_MODE"
  BY DEF Modes
<1>2. EnterMode(c, op, world, m)
  BY <1>1 DEF ToSafeMode
<1>3. op \in {"boot", "transition", "rescue", "critical"}
  OBVIOUS
<1> QED BY <1>2, <1>3, GoesOn

LEMMA BootFollows ==
    ASSUME OneCaller, Inv, NEW c \in Calls, NEW skip \in BOOLEAN, Boot(c, skip)
    PROVE  ModesFollow' /\ ReportedModeIsActive'
<1>1. CASE "monitor" \in components
  BY <1>1, GoesToSafeMode DEF Boot
<1>2. CASE "monitor" \notin components /\ skip
  <2> PICK m \in Modes : m = "OPERATIONAL"
    BY DEF Modes
  <2> PICK op \in {"boot", "transition", "rescue", "critical"} : op = "boot"
    OBVIOUS
  <2>1. EnterMode(c, op, world, m)
    BY <1>2 DEF Boot
  <2> QED BY <2>1, GoesOn
<1>3. CASE "monitor" \notin components /\ ~skip
  <2>1. Await(c, "boot", "diagnose", "diagnostics", "OPERATIONAL",
              "OPERATIONAL", FALSE, {})
    BY <1>3 DEF Boot
  <2>2. calls'[c].op = "boot" /\ calls'[c].pc = "diagnose"
    BY <2>1 DEF Await, Inv, TypeOK
  <2>3. Under(calls[c])'
    BY <2>2 DEF Under
  <2>4. calls'[c] # None
    <3> DEFINE r == [op |-> "boot", pc |-> "diagnose", wait |-> "diagnostics",
                     mode |-> "OPERATIONAL", target |-> "OPERATIONAL",
                     force |-> FALSE, todo |-> {}]
    <3>1. r \in Call
      BY DEF Call, Waits, Modes
    <3>2. calls'[c] = r
      BY <2>1 DEF Await, Inv, TypeOK
    <3> HIDE DEF r
    <3> QED BY <3>1, <3>2, BiosAssumption
  <2> QED BY <2>3, <2>4, InFlight
<1> QED BY <1>1, <1>2, <1>3

(* transitionTo() and shutdown() begin with the exit of the current mode.    *)
LEMMA ExitFollows ==
    ASSUME OneCaller, Inv, NEW c \in Calls,
           \/ \E target \in Modes, force \in BOOLEAN : Transition(c, target, force)
           \/ \E force \in BOOLEAN : Shutdown(c, force)
    PROVE  ModesFollow' /\ ReportedModeIsActive'
<1>1. PICK op \in {"transition", "shutdown"}, target \in Modes, force \in BOOLEAN :
        /\ Await(c, op, "exit", ExitWait(world, state, force), state, target,
                 force, {})
        /\ world' = ExitBegin(world, state, force)
        /\ calls[c] = None /\ state' = state
  BY DEF Transition, Shutdown, Await, Modes
<1>2. calls'[c] # None /\ calls'[c].op = op /\ calls'[c].pc = "exit"
  BY <1>1, ExitAwaited
<1>3. calls'[c].wait = ExitWait(world, state, force)
  BY <1>1 DEF Await, Inv, TypeOK
<1>4. /\ ExitWait(world, state, force) \in {"none", "tasks", "operations", "recovery"}
      /\ ExitWait(world, state, force) = "tasks" => state = "OPERATIONAL"
  BY DEF ExitWait
<1>5. Under(calls[c])'
  BY <1>1, <1>2, <1>3, <1>4 DEF Under
<1> QED BY <1>2, <1>5, InFlight

LEMMA DiagnosedFollows ==
    ASSUME OneCaller, Inv, NEW c \in Calls, BootDiagnosed(c)
    PROVE  ModesFollow' /\ ReportedModeIsActive'
<1>1. CASE ToSafeMode(c, "boot")
  BY <1>1, GoesToSafeMode
<1>2. CASE EnterMode(c, "boot", world, "OPERATIONAL")
  <2> PICK m \in Modes : m = "OPERATIONAL"
    BY DEF Modes
  <2> PICK op \in {"boot", "transition", "rescue", "critical"} : op = "boot"
    OBVIOUS
  <2>1. EnterMode(c, op, world, m)
    BY <1>2
  <2> QED BY <2>1, GoesOn
<1> QED BY <1>1, <1>2 DEF BootDiagnosed

(* Only the drain of the operational mode makes the exit of a transition     *)
(* fail, and its state says OPERATIONAL.                                     *)
LEMMA ExitedFollows ==
    ASSUME OneCaller, LoneInv, NEW c \in Calls, TransitionExited(c)
    PROVE  ModesFollow' /\ ReportedModeIsActive'
<1> DEFINE call == calls[c]
<1>1. /\ call # None /\ call.op = "transition" /\ call.pc = "exit"
      /\ call \in Call /\ Under(call) /\ Inv /\ TypeOK /\ Good(world)
  BY CallTyped
  DEF TransitionExited, LoneInv, Inv, ModesFollow, TypeOK, TaskLimits, Good
<1>2. CASE FALSE \in Outcomes(call) /\ Fail(c)
  <2>1. call.wait = "tasks"
    BY <1>1, <1>2 DEF Under, Outcomes
  <2>2. state = "OPERATIONAL"
    BY <1>1, <2>1 DEF Under
  <2>3. CASE call.target = "SAFE_MODE"
    BY <1>1, <1>2, <2>2, <2>3, Ended DEF Fail
  <2>4. CASE call.target # "SAFE_MODE"
    BY <1>1, <1>2, <2>4, GoesToSafeMode DEF Fail
  <2> QED BY <2>3, <2>4
<1>3. CASE \E w \in ExitEnd(world, call.mode, call.wait) :
             EnterMode(c, "transition", w, call.target)
  <2>1. call.mode \in Modes /\ call.target \in Modes
    BY <1>1 DEF Call
  <2>2. PICK w \in ExitEnd(world, call.mode, call.wait) :
           EnterMode(c, "transition", w, call.target)
    BY <1>3
  <2>3. Good(w)
    BY <1>1, <2>1, ExitGood
  <2> PICK m \in Modes : m = call.target
    BY <2>1
  <2> PICK op \in {"boot", "transition", "rescue", "critical"} : op = "transition"
    OBVIOUS
  <2>4. EnterMode(c, op, w, m)
    BY <2>2
  <2> QED BY <1>1, <2>3, <2>4, EnterFollows
<1> QED BY <1>2, <1>3 DEF TransitionExited

LEMMA EnteredFollows ==
    ASSUME OneCaller, LoneInv, NEW c \in Calls, Entered(c)
    PROVE  ModesFollow' /\ ReportedModeIsActive'
<1> DEFINE call == calls[c]
<1>1. /\ call # None /\ call.pc = "enter" /\ call \in Call
      /\ Under(call) /\ Inv /\ TypeOK
  BY CallTyped DEF Entered, LoneInv, Inv, ModesFollow
<1>2. CASE Fail(c)
  <2>1. ToSafeMode(c, "rescue")
    BY <1>1, <1>2 DEF Fail, Under
  <2> QED BY <1>1, <2>1, GoesToSafeMode
<1>3. CASE /\ world' = EnterEnd(world, call.target, call.wait)
           /\ call.op = "transition" /\ Commit(c)
  <2>1. call.target \in Modes
    BY <1>1 DEF Call
  <2>2. call.target \notin {"BOOT", "OPERATIONAL"} =>
          call.target \in world'.active
    BY <1>1, <1>3, <2>1
    DEF Under, EnterEnd, Activate, Drained, Modes, TypeOK, World
  <2> QED BY <1>1, <1>3, <2>2, Ended DEF Commit
<1>4. CASE state' = "OPERATIONAL" /\ End(c)
  BY <1>1, <1>4, Ended
<1> QED BY <1>2, <1>3, <1>4 DEF Entered

LEMMA SafeFollows ==
    ASSUME OneCaller, LoneInv, NEW c \in Calls, SafeEntered(c)
    PROVE  ModesFollow' /\ ReportedModeIsActive'
<1> DEFINE call == calls[c]
<1>1. Under(call) /\ call # None /\ call.pc = "close" /\ TypeOK
  BY DEF SafeEntered, LoneInv, Inv, ModesFollow
<1>2. state' = "SAFE_MODE" /\ End(c)
  BY <1>1 DEF SafeEntered, Commit, Under
<1>3. world' = EnterEnd(world, "SAFE_MODE", call.wait)
  BY DEF SafeEntered
<1>4. "SAFE_MODE" \in world'.active
  BY <1>1, <1>3 DEF Under, EnterEnd, Activate, Drained, TypeOK, World
<1> QED BY <1>1, <1>2, <1>4, Ended

(* The other steps of a call leave it in flight, or end in BOOT. *)
LEMMA OtherCallSteps ==
    ASSUME OneCaller, LoneInv, NEW c \in Calls,
           \/ \E x \in Components : CloseComponent(c, x)
           \/ ShutdownExited(c)
           \/ ShutdownDone(c)
    PROVE  ModesFollow' /\ ReportedModeIsActive'
<1> DEFINE call == calls[c]
<1>1. CASE \E x \in Components : CloseComponent(c, x)
  <2>1. PICK x \in Components : CloseComponent(c, x)
    BY <1>1
  <2> DEFINE r == [call EXCEPT !.todo = @ \ {x}]
  <2>2. call \in Call /\ call # None /\ Under(call)
    BY <2>1, CallTyped DEF CloseComponent, LoneInv, Inv, ModesFollow
  <2>3. r \in Call /\ r.op = call.op /\ r.pc = call.pc /\ r.wait = call.wait
        /\ r.target = call.target
    BY <2>2 DEF Call
  <2>4. calls' = [calls EXCEPT ![c] = r] /\ UNCHANGED <<state, world>>
    BY <2>1 DEF CloseComponent
  <2> HIDE DEF r
  <2>5. calls'[c] = r /\ r # None
    BY <2>3, <2>4, CallSet DEF LoneInv, Inv
  <2>6. Under(calls[c])'
    BY <2>2, <2>3, <2>4, <2>5 DEF Under
  <2> QED BY <2>5, <2>6, InFlight
<1>2. CASE ShutdownExited(c)
  <2> DEFINE r == [call EXCEPT !.pc = "stop"]
  <2>1. call \in Call /\ call.op = "shutdown"
    BY <1>2, CallTyped DEF ShutdownExited, LoneInv, Inv
  <2>2. r \in Call /\ r.op = "shutdown" /\ r.pc = "stop"
    BY <2>1 DEF Call
  <2>3. calls' = [calls EXCEPT ![c] = r]
    BY <1>2 DEF ShutdownExited
  <2> HIDE DEF r
  <2>4. calls'[c] = r /\ r # None
    BY <2>2, <2>3, CallSet DEF LoneInv, Inv
  <2>5. Under(calls[c])'
    BY <2>2, <2>4 DEF Under
  <2> QED BY <2>4, <2>5, InFlight
<1>3. CASE ShutdownDone(c)
  BY <1>3, Ended DEF ShutdownDone, LoneInv, Inv
<1> QED BY <1>1, <1>2, <1>3

(* Nothing else touches the modes. *)
LEMMA ModesAlone ==
    ASSUME LoneInv, UNCHANGED <<state, calls>>, world'.active = world.active
    PROVE  ModesFollow' /\ ReportedModeIsActive'
<1>1. ModesFollow'
  BY DEF LoneInv, ModesFollow, Under
<1>2. ReportedModeIsActive'
  BY DEF LoneInv, ReportedModeIsActive, NoCall
<1> QED BY <1>1, <1>2

LEMMA LoneInductive ==
    ASSUME OneCaller
    PROVE  LoneInv /\ [Next]_vars => LoneInv'
<1> SUFFICES ASSUME LoneInv, [Next]_vars PROVE ModesFollow' /\ ReportedModeIsActive'
  BY InvNext DEF LoneInv
<1> USE DEF LoneInv
<1>1. ASSUME NEW c \in Calls, Step(c) PROVE ModesFollow' /\ ReportedModeIsActive'
  BY <1>1, DiagnosedFollows, ExitedFollows, EnteredFollows, SafeFollows,
     OtherCallSteps DEF Step
<1>2. CASE QueueTask \/ ProcessTasks \/ FinishTask
  <2>1. \E q, n, b : SetTasks(q, n, b)
    BY <1>2 DEF QueueTask, ProcessTasks, FinishTask
  <2>2. world'.active = world.active /\ UNCHANGED <<state, calls>>
    BY <2>1 DEF SetTasks, Inv, TypeOK, World
  <2> QED BY <2>2, ModesAlone
<1>3. CASE \/ \E x \in Components : Register(x) \/ Unregister(x)
           \/ UNCHANGED vars
  BY <1>3, ModesAlone DEF Register, Unregister, vars
<1>4. ASSUME NEW c \in Calls, Critical(c) PROVE ModesFollow' /\ ReportedModeIsActive'
  BY <1>4, GoesToSafeMode DEF Critical
<1> QED BY <1>1, <1>2, <1>3, <1>4, BootFollows, ExitFollows DEF Next

(* Of calls that come one at a time, none, however it fails, leaves the BIOS *)
(* reporting a special mode that is not active.                              *)
THEOREM BiosReportedModeIsActive ==
    ASSUME OneCaller
    PROVE  Spec => []ReportedModeIsActive
<1>1. Init => LoneInv
  BY InvInit DEF Init, LoneInv, ModesFollow, ReportedModeIsActive
<1>2. LoneInv => ReportedModeIsActive
  BY DEF LoneInv
<1> QED BY <1>1, <1>2, LoneInductive, PTL DEF Spec
=============================================================================
