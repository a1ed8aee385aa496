-------------------------------- MODULE Bios --------------------------------
(* The BIOS, src/bios/index.js with the modes of src/bios/modes: the state   *)
(* machine server.js boots, shuts down and registers its components with,    *)
(* and that a critical alert of the system monitor throws into safe mode.    *)
(*                                                                           *)
(* A method runs without interruption up to its next await; there any other  *)
(* call, alert or task may run.  So a call in flight is a record in `calls`, *)
(* and each step takes one call from one await to the next.                  *)
EXTENDS Naturals, FiniteSets

CONSTANTS
    Calls,             \* bound: the calls that may be in flight at once
    Components,        \* the components callers register, besides the monitor
    FailingShutdown,   \* those whose shutdown() may throw
    ConcurrencyLimit,  \* OperationalMode._concurrencyLimit
    MaxQueued,         \* bound: the longest task queue explored
    None               \* "no call"

Modes == {"BOOT", "DIAGNOSE", "OPERATIONAL", "MAINTENANCE", "SAFE_MODE"}
Minimal == {"monitor", "logger"}            \* SafeMode._minimalComponents
Registrable == Components \union {"monitor"}

Waits == {"none", "error", "tasks", "operations", "recovery", "post",
          "diagnostics", "components"}
Call == [op: {"boot", "transition", "rescue", "critical", "shutdown"},
         pc: {"exit", "enter", "close", "diagnose", "stop"},
         wait: Waits, mode: Modes, target: Modes, force: BOOLEAN,
         todo: SUBSET Registrable]
World == [active: SUBSET Modes, queued: Nat, running: Nat, busy: BOOLEAN]

ASSUME BiosAssumption ==
    /\ "monitor" \notin Components
    /\ FailingShutdown \subseteq Components
    /\ ConcurrencyLimit \in Nat \ {0}
    /\ MaxQueued \in Nat
    /\ None \notin Call

VARIABLES
    state,           \* this._state
    transitioning,   \* this._transitioning
    components,      \* the keys of this._components
    listening,       \* the 'critical' listener is on the monitor
    world,           \* the modes that are active, and the operational mode's
                     \* queue: waiting tasks, running tasks, _state # IDLE
    calls            \* the call in flight in each slot, or None

vars == <<state, transitioning, components, listening, world, calls>>

Init ==
    /\ state = "BOOT"
    /\ transitioning = FALSE
    /\ components = {}
    /\ listening = TRUE
    /\ world = [active |-> {}, queued |-> 0, running |-> 0, busy |-> FALSE]
    /\ calls = [c \in Calls |-> None]

-----------------------------------------------------------------------------
(* What the modes do.  An operator takes the world at the call and returns   *)
(* the world at the first await, or after the last one.                      *)

(* _isValidTransition() *)
ValidTransitions ==
    ({"BOOT"} \X {"DIAGNOSE", "OPERATIONAL", "SAFE_MODE"}) \union
    ({"DIAGNOSE"} \X {"OPERATIONAL", "SAFE_MODE", "BOOT"}) \union
    ({"OPERATIONAL"} \X {"MAINTENANCE", "SAFE_MODE", "DIAGNOSE"}) \union
    ({"MAINTENANCE"} \X {"OPERATIONAL", "SAFE_MODE", "BOOT"}) \union
    ({"SAFE_MODE"} \X {"BOOT", "DIAGNOSE"})

Activate(w, m)   == [w EXCEPT !.active = @ \union {m}]
Deactivate(w, m) == [w EXCEPT !.active = @ \ {m}]

(* The end of OperationalMode.exit(): the waiting tasks are rejected. *)
Drained(w) == [w EXCEPT !.queued = 0, !.busy = FALSE]

(* What the exit of mode m has to wait for. *)
ExitWait(w, m, force) ==
    IF m \notin w.active THEN "none"
    ELSE CASE m = "OPERATIONAL" ->
                IF force \/ w.running = 0 THEN "none" ELSE "tasks"
           [] m = "MAINTENANCE" -> "operations"
           [] m = "SAFE_MODE"   -> IF force THEN "none" ELSE "recovery"
           [] OTHER             -> "none"

(* The exit of mode m up to its first await. *)
ExitBegin(w, m, force) ==
    LET wait == ExitWait(w, m, force) IN
    IF m \notin w.active \/ wait \in {"operations", "recovery"} THEN w
    ELSE IF m = "OPERATIONAL" /\ wait = "none" THEN Drained(Deactivate(w, m))
    ELSE Deactivate(w, m)

(* The exit of mode m once what it waited for is over.  Safe mode is left    *)
(* only if the recovery worked, which takes every minimal component.         *)
ExitEnd(w, m, wait) ==
    CASE wait = "tasks"      -> {Drained(w)}
      [] wait = "operations" -> {Deactivate(w, m)}
      [] wait = "recovery"   -> {w} \union
           (IF Minimal \subseteq components THEN {Deactivate(w, m)} ELSE {})
      [] OTHER               -> {w}

(* What entering mode m has to wait for. *)
EnterWait(w, m) ==
    CASE m = "BOOT"        -> "post"
      [] m = "OPERATIONAL" -> "none"
      [] m = "MAINTENANCE" ->
           IF m \in w.active THEN "error" ELSE ExitWait(w, "OPERATIONAL", FALSE)
      [] m = "DIAGNOSE"    -> IF m \in w.active THEN "none" ELSE "diagnostics"
      [] m = "SAFE_MODE"   -> IF m \in w.active THEN "none" ELSE "components"

(* Entering mode m up to its first await. *)
EnterBegin(w, m) ==
    CASE m = "OPERATIONAL" /\ m \notin w.active ->
           [Activate(w, m) EXCEPT !.busy = FALSE]
      [] m = "MAINTENANCE" /\ m \notin w.active ->
           ExitBegin(w, "OPERATIONAL", FALSE)
      [] m = "DIAGNOSE"    -> Activate(w, m)
      [] OTHER             -> w

(* Mutant of EnterEnd: maintenance mode is entered and not marked active. *)
EnterEndUnmarked(w, m, wait) == IF wait = "tasks" THEN Drained(w) ELSE w

(* Entering mode m once what it waited for is over. *)
EnterEnd(w, m, wait) ==
    LET v == IF wait = "tasks" THEN Drained(w) ELSE w
    IN  IF m = "MAINTENANCE" \/ wait = "components" THEN Activate(v, m) ELSE v

(* How the awaited exit or enter of a call may settle.  Waiting for the      *)
(* running tasks polls until there are none or the time is up; diagnostics   *)
(* whose session exit() took away throw; the rest of them, and the power-on  *)
(* self test, depend on the machine.                                         *)
Outcomes(call) ==
    CASE call.wait = "error"       -> {FALSE}
      [] call.wait = "tasks"       -> {world.running = 0}
      [] call.wait = "post"        -> BOOLEAN
      [] call.wait = "diagnostics" ->
           IF call.pc = "enter" /\ "DIAGNOSE" \in world.active
           THEN {TRUE} ELSE BOOLEAN
      [] OTHER                     -> {TRUE}

-----------------------------------------------------------------------------
(* The calls. *)

End(c) == calls' = [calls EXCEPT ![c] = None]

Await(c, op, pc, wait, mode, target, force, todo) ==
    calls' = [calls EXCEPT
                ![c] = [op |-> op, pc |-> pc, wait |-> wait, mode |-> mode,
                        target |-> target, force |-> force, todo |-> todo]]

(* Mode m.enter() of call c, in world w.  SafeMode.enter() does nothing when *)
(* safe mode is active; otherwise it is to shut down every component that is *)
(* registered now but the minimal ones.                                      *)
EnterMode(c, op, w, m) ==
    LET wait == EnterWait(w, m) IN
    /\ world' = EnterBegin(w, m)
    /\ Await(c, op, IF m = "SAFE_MODE" THEN "close" ELSE "enter", wait, m, m,
             FALSE, IF wait = "components" THEN components \ Minimal ELSE {})

(* _transitionToSafeMode(): the current mode is not asked to exit. *)
ToSafeMode(c, op) ==
    /\ EnterMode(c, op, world, "SAFE_MODE")
    /\ UNCHANGED <<state, transitioning, listening>>

(* boot(), up to the diagnostics or to entering the operational mode; a      *)
(* monitor that is registered already fails it.  (Bound: nobody boots a      *)
(* system that is not in BOOT.)                                              *)
Boot(c, skipDiagnostics) ==
    /\ calls[c] = None
    /\ state = "BOOT"
    /\ \/ /\ "monitor" \in components
          /\ ToSafeMode(c, "boot")
          /\ UNCHANGED components
       \/ /\ "monitor" \notin components
          /\ components' = components \union {"monitor"}
          /\ IF skipDiagnostics
             THEN EnterMode(c, "boot", world, "OPERATIONAL")
             ELSE /\ Await(c, "boot", "diagnose", "diagnostics", "OPERATIONAL",
                           "OPERATIONAL", FALSE, {})
                  /\ UNCHANGED world
          /\ UNCHANGED <<state, transitioning, listening>>

(* boot() after its diagnostics. *)
BootDiagnosed(c) ==
    /\ calls[c] # None
    /\ calls[c].pc = "diagnose"
    /\ \/ /\ FALSE \in Outcomes(calls[c])
          /\ ToSafeMode(c, "boot")
       \/ /\ TRUE \in Outcomes(calls[c])
          /\ EnterMode(c, "boot", world, "OPERATIONAL")
          /\ UNCHANGED <<state, transitioning, listening>>
    /\ UNCHANGED components

(* transitionTo(): a call that passes the checks takes the lock and starts   *)
(* to exit the current mode.  (Bound: only after a first boot(), so that the *)
(* monitor is registered.)                                                   *)
Transition(c, target, force) ==
    /\ calls[c] = None
    /\ "monitor" \in components
    /\ ~transitioning
    /\ <<state, target>> \in ValidTransitions
    /\ transitioning' = TRUE
    /\ Await(c, "transition", "exit", ExitWait(world, state, force), state,
             target, force, {})
    /\ world' = ExitBegin(world, state, force)
    /\ UNCHANGED <<state, components, listening>>

(* The monitor emits 'critical'. *)
Critical(c) ==
    /\ calls[c] = None
    /\ "monitor" \in components
    /\ listening
    /\ ToSafeMode(c, "critical")
    /\ UNCHANGED components

Shutdown(c, force) ==
    /\ calls[c] = None
    /\ Await(c, "shutdown", "exit", ExitWait(world, state, force), state,
             "BOOT", force, {})
    /\ world' = ExitBegin(world, state, force)
    /\ UNCHANGED <<state, transitioning, components, listening>>

(* transitionTo() fails: unless it was on its way to safe mode it goes there *)
(* now, still holding the lock.                                              *)
Fail(c) ==
    IF calls[c].target = "SAFE_MODE"
    THEN /\ End(c)
         /\ transitioning' = FALSE
         /\ UNCHANGED <<state, listening, world>>
    ELSE ToSafeMode(c, "rescue")

(* The exit a transition waited for has settled: enter the target. *)
TransitionExited(c) ==
    LET call == calls[c] IN
    /\ call # None /\ call.op = "transition" /\ call.pc = "exit"
    /\ \/ /\ FALSE \in Outcomes(call)
          /\ Fail(c)
       \/ /\ TRUE \in Outcomes(call)
          /\ \E w \in ExitEnd(world, call.mode, call.wait) :
               EnterMode(c, "transition", w, call.target)
          /\ UNCHANGED <<state, transitioning, listening>>
    /\ UNCHANGED components

(* The target has been entered: the lock goes, whatever the state was. *)
Commit(c) ==
    /\ state' = calls[c].target
    /\ transitioning' = FALSE
    /\ End(c)

(* The enter a transition, or boot(), waited for has settled. *)
Entered(c) ==
    LET call == calls[c] IN
    /\ call # None /\ call.pc = "enter"
    /\ \/ /\ FALSE \in Outcomes(call)
          /\ Fail(c)
       \/ /\ TRUE \in Outcomes(call)
          /\ world' = EnterEnd(world, call.target, call.wait)
          /\ UNCHANGED listening
          /\ \/ call.op = "transition" /\ Commit(c)
             \/ /\ call.op = "boot"
                /\ state' = "OPERATIONAL"
                /\ End(c)
                /\ UNCHANGED transitioning
    /\ UNCHANGED components

(* Mutant of CloseComponent: the entry does not get past a shutdown that     *)
(* throws.                                                                   *)
CloseComponentUncaught(c, x) ==
    /\ calls[c] # None /\ calls[c].pc = "close" /\ x \in calls[c].todo
    /\ x \notin FailingShutdown
    /\ calls' = [calls EXCEPT ![c].todo = @ \ {x}]
    /\ components' = components \ {x}
    /\ UNCHANGED <<state, transitioning, listening, world>>

(* Safe mode's shutdown() of a component settles; one that throws stays      *)
(* registered.                                                               *)
CloseComponent(c, x) ==
    /\ calls[c] # None /\ calls[c].pc = "close" /\ x \in calls[c].todo
    /\ calls' = [calls EXCEPT ![c].todo = @ \ {x}]
    /\ \/ components' = components \ {x}
       \/ x \in FailingShutdown /\ UNCHANGED components
    /\ UNCHANGED <<state, transitioning, listening, world>>

(* Mutant of SafeEntered: a failed transition keeps the lock. *)
SafeEnteredKeepingLock(c) ==
    LET call == calls[c] IN
    /\ call # None /\ call.pc = "close" /\ call.todo = {}
    /\ world' = EnterEnd(world, "SAFE_MODE", call.wait)
    /\ \/ call.op = "transition" /\ Commit(c)
       \/ /\ call.op # "transition"
          /\ state' = "SAFE_MODE"
          /\ End(c)
          /\ UNCHANGED transitioning
    /\ UNCHANGED <<components, listening>>

(* SafeMode.enter() is over. *)
SafeEntered(c) ==
    LET call == calls[c] IN
    /\ call # None /\ call.pc = "close" /\ call.todo = {}
    /\ world' = EnterEnd(world, "SAFE_MODE", call.wait)
    /\ \/ call.op = "transition" /\ Commit(c)
       \/ /\ call.op # "transition"
          /\ state' = "SAFE_MODE"
          /\ transitioning' = (call.op # "rescue" /\ transitioning)
          /\ End(c)
    /\ UNCHANGED <<components, listening>>

(* The exit shutdown() waited for has settled, well or not: the components   *)
(* are shut down, the monitor, which loses its listeners with it, first.     *)
ShutdownExited(c) ==
    LET call == calls[c] IN
    /\ call # None /\ call.op = "shutdown" /\ call.pc = "exit"
    /\ calls' = [calls EXCEPT ![c].pc = "stop"]
    /\ \/ /\ TRUE \in Outcomes(call)
          /\ world' \in ExitEnd(world, call.mode, call.wait)
       \/ FALSE \in Outcomes(call) /\ UNCHANGED world
    /\ listening' = (listening /\ (call.force \/ "monitor" \notin components))
    /\ UNCHANGED <<state, transitioning, components>>

(* shutdown() disposes the monitor, whose listeners go, and is back in BOOT. *)
ShutdownDone(c) ==
    /\ calls[c] # None /\ calls[c].pc = "stop"
    /\ state' = "BOOT"
    /\ listening' = FALSE
    /\ End(c)
    /\ UNCHANGED <<transitioning, components, world>>

Register(x) ==
    /\ x \notin components
    /\ components' = components \union {x}
    /\ UNCHANGED <<state, transitioning, listening, world, calls>>

Unregister(x) ==
    /\ x \in components
    /\ components' = components \ {x}
    /\ UNCHANGED <<state, transitioning, listening, world, calls>>

-----------------------------------------------------------------------------
(* The operational mode's tasks. *)

SetTasks(queued, running, busy) ==
    /\ world' = [world EXCEPT !.queued = queued, !.running = running,
                              !.busy = busy]
    /\ UNCHANGED <<state, transitioning, components, listening, calls>>

(* queueTask(): in any mode. *)
QueueTask ==
    LET w == world IN
    /\ w.queued < MaxQueued
    /\ SetTasks(w.queued + 1, w.running, w.busy)

(* Mutant of ProcessTasks: what is running already is forgotten. *)
ProcessTasksAnew ==
    LET w == world
        n == IF w.queued < ConcurrencyLimit THEN w.queued ELSE ConcurrencyLimit
    IN
    /\ "OPERATIONAL" \in world.active
    /\ ~w.busy
    /\ n > 0
    /\ SetTasks(w.queued - n, w.running + n, TRUE)

(* _processTasks(), on the timer of an active operational mode. *)
ProcessTasks ==
    LET w == world
        room == ConcurrencyLimit - w.running
        n == IF w.queued < room THEN w.queued ELSE room
    IN
    /\ "OPERATIONAL" \in world.active
    /\ ~w.busy
    /\ n > 0
    /\ SetTasks(w.queued - n, w.running + n, TRUE)

(* A task completes or fails. *)
FinishTask ==
    LET w == world IN
    /\ w.running > 0
    /\ SetTasks(w.queued, w.running - 1, w.busy /\ w.running > 1)

Step(c) ==
    \/ BootDiagnosed(c)
    \/ TransitionExited(c)
    \/ Entered(c)
    \/ \E x \in Components : CloseComponent(c, x)
    \/ SafeEntered(c)
    \/ ShutdownExited(c)
    \/ ShutdownDone(c)

Next ==
    \/ \E c \in Calls :
         \/ \E skipDiagnostics \in BOOLEAN : Boot(c, skipDiagnostics)
         \/ \E target \in Modes, force \in BOOLEAN : Transition(c, target, force)
         \/ Critical(c)
         \/ \E force \in BOOLEAN : Shutdown(c, force)
         \/ Step(c)
    \/ \E x \in Components : Register(x) \/ Unregister(x)
    \/ QueueTask
    \/ ProcessTasks
    \/ FinishTask

(* What an await waits for settles: a component's shutdown(), a diagnostic   *)
(* test, the modes' own timeouts.                                            *)
Fairness == \A c \in Calls : WF_vars(Step(c))

Spec == Init /\ [][Next]_vars
LiveSpec == Spec /\ Fairness

-----------------------------------------------------------------------------
Transitional(call) == call # None /\ call.op \in {"transition", "rescue"}
NoCall == \A c \in Calls : calls[c] = None

TypeOK ==
    /\ state \in Modes
    /\ transitioning \in BOOLEAN
    /\ components \subseteq Registrable
    /\ listening \in BOOLEAN
    /\ world \in World
    /\ calls \in [Calls -> Call \union {None}]

(* The flag is up exactly while one transition is in flight: two never are,  *)
(* and none of the ways one ends, well, in safe mode or by an exception,     *)
(* leaves the machine locked for good.                                       *)
TransitionLock ==
    /\ transitioning <=> \E c \in Calls : Transitional(calls[c])
    /\ \A c, d \in Calls :
         Transitional(calls[c]) /\ Transitional(calls[d]) => c = d

(* No more tasks run than the limit allows, whatever was exited by force and *)
(* entered again over tasks that still run; and the processor never waits    *)
(* for tasks when none is left to wait for.                                  *)
TaskLimits ==
    /\ world.running <= ConcurrencyLimit
    /\ world.running = 0 => ~world.busy

(* Where calls come one at a time: between two calls the mode that goes with *)
(* the state the BIOS reports is active, whatever failed on the way to it.   *)
(* (Not OPERATIONAL: a move to SAFE_MODE that fails leaves that state with   *)
(* the operational mode stopped.)                                            *)
ReportedModeIsActive ==
    NoCall /\ state \notin {"BOOT", "OPERATIONAL"} => state \in world.active

(* A critical alert that is heard brings the BIOS into safe mode, whatever   *)
(* it interrupts.                                                            *)
CriticalEndsInSafeMode ==
    \A c \in Calls :
       (calls[c] # None /\ calls[c].op = "critical") ~> (state = "SAFE_MODE")

(* No transition keeps the lock for ever. *)
TransitionEnds == transitioning ~> ~transitioning
=============================================================================
