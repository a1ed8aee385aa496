---------------------------- MODULE LockManager ----------------------------
(* The lock manager of the GSD engine, src/engine/lock.js: one LockManager   *)
(* per member of Managers, all of them over ONE store (their own Map when    *)
(* there is a single manager, an external store passed as options.store      *)
(* when there are several).  Every method runs without interruption up to    *)
(* its next await, and the only await is the sleep between two attempts of   *)
(* acquire(): so a method is one action, except acquire(), which is its      *)
(* first attempt and then one Retry per wake-up.                             *)
EXTENDS Naturals, FiniteSets

CONSTANTS
    Managers,       \* the LockManager instances that share the store
    Resources,      \* the resources locked
    Owners,         \* the owner identifiers passed as options.owner
    TTLs,           \* the times to live callers ask for
    Retries,        \* the values of options.maxRetries callers pass
    RetryDelay,     \* options.retryDelay
    ExternalStore,  \* this.isExternalStore: dispose() leaves the store alone
    Unverified,     \* the methods callers use without naming the owner
    MaxTime,        \* bound: the clock stops here
    MaxCount,       \* bound: the deepest re-entrancy explored
    Nothing         \* "no entry", "no timer", "no call"

Entry == [owner: Owners, expiry: Nat, count: Nat]
Call  == [manager: Managers, resource: Resources, ttl: TTLs,
          left: Nat, wake: Nat]
Callback == [kind: {"expire", "release"}, resource: Resources, owner: Owners]

ASSUME ConstantsAssumption ==
    /\ TTLs \subseteq Nat \ {0}
    /\ Retries \subseteq Nat
    /\ RetryDelay \in Nat
    /\ ExternalStore \in BOOLEAN
    /\ Unverified \subseteq {"release", "extend"}
    /\ MaxTime \in Nat
    /\ MaxCount \in Nat

ASSUME NoneAssumption ==
    Nothing \notin Entry \union Call \union Callback \union Nat \union Owners

VARIABLES
    now,        \* Date.now()
    store,      \* this.store: the entry of each resource, or Nothing
    timers,     \* this.timers of each manager: the deadline of the pending
                \* expiry timer of each resource, or Nothing
    pending,    \* the acquire() call each owner is sleeping in, or Nothing
    callback,   \* the callback the last step invoked, or Nothing
    lease       \* history: until when each owner was last told it holds each
                \* resource; 0 once it was told it does not

lockVars == <<now, store, timers, pending, callback, lease>>

LockInit ==
    /\ now = 0
    /\ store = [r \in Resources |-> Nothing]
    /\ timers = [m \in Managers |-> [r \in Resources |-> Nothing]]
    /\ pending = [o \in Owners |-> Nothing]
    /\ callback = Nothing
    /\ lease = [o \in Owners |-> [r \in Resources |-> 0]]

-----------------------------------------------------------------------------
Locked(r)  == store[r] # Nothing
Expired(r) == Locked(r) /\ store[r].expiry <= now
Deadline(m, r) == timers[m][r]

(* Mutant of HeldByOther: a lock is taken over one tick too early. *)
HeldByOtherTooShort(r, o) ==
    Locked(r) /\ store[r].owner # o /\ store[r].expiry > now + 1

HeldByOther(r, o) == Locked(r) /\ store[r].owner # o /\ store[r].expiry > now

(* Mutant of Drop: the entry goes, its timer stays. *)
DropKeepingTimer(m, r) ==
    /\ store' = [store EXCEPT ![r] = Nothing]
    /\ UNCHANGED timers

(* Deleting the entry and clearing this manager's timer for it. *)
Drop(m, r) ==
    /\ store' = [store EXCEPT ![r] = Nothing]
    /\ timers' = [timers EXCEPT ![m][r] = Nothing]

(* Mutant of Grant: re-entering leaves the first grant's timer running. *)
GrantWithoutRearm(m, r, o, ttl) ==
    /\ ~HeldByOther(r, o)
    /\ LET again == Locked(r) /\ store[r].owner = o
           count == IF again THEN store[r].count + 1 ELSE 1
       IN /\ count <= MaxCount
          /\ store' = [store EXCEPT
                         ![r] = [owner |-> o, expiry |-> now + ttl,
                                 count |-> count]]
          /\ timers' = IF again THEN timers
                       ELSE [timers EXCEPT ![m][r] = now + ttl]
    /\ lease' = [lease EXCEPT ![o][r] = now + ttl]

(* One pass of acquire()'s loop that succeeds: the same owner re-enters,     *)
(* without a look at the expiry; anyone takes a free or an expired lock.     *)
Grant(m, r, o, ttl) ==
    /\ ~HeldByOther(r, o)
    /\ LET count == IF Locked(r) /\ store[r].owner = o
                    THEN store[r].count + 1 ELSE 1
       IN /\ count <= MaxCount
          /\ store' = [store EXCEPT
                         ![r] = [owner |-> o, expiry |-> now + ttl,
                                 count |-> count]]
    /\ timers' = [timers EXCEPT ![m][r] = now + ttl]
    /\ lease' = [lease EXCEPT ![o][r] = now + ttl]

Sleep(m, r, o, ttl, left) ==
    pending' = [pending EXCEPT
                  ![o] = [manager |-> m, resource |-> r, ttl |-> ttl,
                          left |-> left, wake |-> now + RetryDelay]]

(* acquire(): the first attempt. *)
Acquire(m, r, o, ttl, n) ==
    /\ pending[o] = Nothing
    /\ callback' = Nothing
    /\ UNCHANGED now
    /\ \/ Grant(m, r, o, ttl) /\ UNCHANGED pending
       \/ /\ HeldByOther(r, o)
          /\ n > 0
          /\ Sleep(m, r, o, ttl, n)
          /\ UNCHANGED <<store, timers, lease>>

(* acquire(): an attempt after a sleep; the last one that finds the lock     *)
(* held returns failure.                                                     *)
Retry(o) ==
    /\ pending[o] # Nothing
    /\ pending[o].wake <= now
    /\ callback' = Nothing
    /\ UNCHANGED now
    /\ LET c == pending[o] IN
       \/ /\ Grant(c.manager, c.resource, o, c.ttl)
          /\ pending' = [pending EXCEPT ![o] = Nothing]
       \/ /\ HeldByOther(c.resource, o)
          /\ IF c.left > 1
             THEN Sleep(c.manager, c.resource, o, c.ttl, c.left - 1)
             ELSE pending' = [pending EXCEPT ![o] = Nothing]
          /\ UNCHANGED <<store, timers, lease>>

(* The owner a caller names, or Nothing where it may leave it out. *)
Named(op) == Owners \union (IF op \in Unverified THEN {Nothing} ELSE {})

(* release(): one level of re-entrancy; the last level frees the lock. *)
Release(m, r, o) ==
    /\ Locked(r)
    /\ o \in {store[r].owner, Nothing}
    /\ LET e == store[r] IN
       \/ /\ e.count <= 1
          /\ Drop(m, r)
          /\ callback' = [kind |-> "release", resource |-> r, owner |-> e.owner]
          /\ lease' = [lease EXCEPT ![e.owner][r] = 0]
       \/ /\ e.count > 1
          /\ store' = [store EXCEPT ![r].count = e.count - 1]
          /\ callback' = Nothing
          /\ UNCHANGED <<timers, lease>>
    /\ UNCHANGED <<now, pending>>

(* extend(): the new expiry replaces the old one; an expired entry that is   *)
(* still in the store comes back to life.                                    *)
Extend(m, r, o, ttl) ==
    /\ Locked(r)
    /\ o \in {store[r].owner, Nothing}
    /\ store' = [store EXCEPT ![r].expiry = now + ttl]
    /\ timers' = [timers EXCEPT ![m][r] = now + ttl]
    /\ lease' = IF o = Nothing THEN lease
                ELSE [lease EXCEPT ![o][r] = now + ttl]
    /\ callback' = Nothing
    /\ UNCHANGED <<now, pending>>

(* isLocked(): drops an expired entry, silently. *)
IsLocked(m, r) ==
    /\ Expired(r)
    /\ Drop(m, r)
    /\ callback' = Nothing
    /\ UNCHANGED <<now, pending, lease>>

(* forceRelease(): the administrative override. *)
ForceRelease(m, r) ==
    /\ Locked(r)
    /\ Drop(m, r)
    /\ callback' = [kind |-> "release", resource |-> r, owner |-> store[r].owner]
    /\ lease' = [lease EXCEPT ![store[r].owner][r] = 0]
    /\ UNCHANGED <<now, pending>>

(* Mutant of HandleExpiry: the timer is consumed, the entry stays. *)
HandleExpiryKeepingEntry(m, r) ==
    /\ Deadline(m, r) # Nothing
    /\ Deadline(m, r) <= now
    /\ timers' = [timers EXCEPT ![m][r] = Nothing]
    /\ callback' = Nothing
    /\ UNCHANGED <<now, store, pending, lease>>

(* _handleExpiry(): the timer fires, at its deadline or later, and deletes   *)
(* whatever entry the store has under the resource.                          *)
HandleExpiry(m, r) ==
    /\ Deadline(m, r) # Nothing
    /\ Deadline(m, r) <= now
    /\ Drop(m, r)
    /\ callback' = IF Locked(r)
                   THEN [kind |-> "expire", resource |-> r,
                         owner |-> store[r].owner]
                   ELSE Nothing
    /\ UNCHANGED <<now, pending, lease>>

(* dispose(): with an own store every lock goes, and its holder with it. *)
Dispose(m) ==
    /\ timers' = [timers EXCEPT ![m] = [r \in Resources |-> Nothing]]
    /\ IF ExternalStore
       THEN UNCHANGED <<store, lease>>
       ELSE /\ store' = [r \in Resources |-> Nothing]
            /\ lease' = [o \in Owners |-> [r \in Resources |-> 0]]
    /\ callback' = Nothing
    /\ UNCHANGED <<now, pending>>

Tick ==
    /\ now < MaxTime
    /\ now' = now + 1
    /\ callback' = Nothing
    /\ UNCHANGED <<store, timers, pending, lease>>

LockNext ==
    \/ \E m \in Managers, r \in Resources :
         \/ \E o \in Owners, ttl \in TTLs, n \in Retries :
              Acquire(m, r, o, ttl, n)
         \/ \E o \in Named("release") : Release(m, r, o)
         \/ \E o \in Named("extend"), ttl \in TTLs : Extend(m, r, o, ttl)
         \/ IsLocked(m, r)
         \/ ForceRelease(m, r)
         \/ HandleExpiry(m, r)
    \/ \E o \in Owners : Retry(o)
    \/ \E m \in Managers : Dispose(m)
    \/ Tick

(* A due timer is run by the event loop: nothing else is promised. *)
Fairness == \A m \in Managers, r \in Resources : WF_lockVars(HandleExpiry(m, r))

LockSpec == LockInit /\ [][LockNext]_lockVars
LockLiveSpec == LockSpec /\ Fairness

-----------------------------------------------------------------------------
LockTypeOK ==
    /\ now \in Nat
    /\ store \in [Resources -> Entry \union {Nothing}]
    /\ timers \in [Managers -> [Resources -> Nat \union {Nothing}]]
    /\ pending \in [Owners -> Call \union {Nothing}]
    /\ callback \in Callback \union {Nothing}
    /\ lease \in [Owners -> [Resources -> Nat]]

(* A pending expiry timer stands for the entry in the store: it fires at     *)
(* that entry's expiry (no timer of an earlier holder is left behind to hit  *)
(* a later one), and with a store of its own no entry lacks a timer.         *)
TimerMatchesEntry ==
    \A m \in Managers, r \in Resources :
       /\ Deadline(m, r) # Nothing =>
            Locked(r) /\ store[r].expiry = Deadline(m, r)
       /\ ~ExternalStore => (Locked(r) => Deadline(m, r) # Nothing)

(* While the time an owner was granted has not run out, the store has the    *)
(* lock under that owner and with that expiry: nobody took it over.          *)
LeaseHonoured ==
    \A o \in Owners, r \in Resources :
       lease[o][r] > now =>
         Locked(r) /\ store[r].owner = o /\ store[r].expiry = lease[o][r]

(* The timers, the store and what the owners were granted agree, through      *)
(* re-entries, extensions, takeovers and late releases.                       *)
GrantsAgree == TimerMatchesEntry /\ LeaseHonoured

(* Two owners never both have an unexpired grant of one resource. *)
MutualExclusion ==
    \A r \in Resources, o1, o2 \in Owners :
       lease[o1][r] > now /\ lease[o2][r] > now => o1 = o2

(* onExpire is "Callback when lock expires": it is never invoked for a lock  *)
(* whose time has not run out.                                               *)
ExpireCallbackIsTrue ==
    [][ callback' # Nothing /\ callback'.kind = "expire" =>
          Expired(callback'.resource) ]_lockVars

(* An entry whose time has run out does not stay: its timer frees it, or its *)
(* owner renews it, whether or not anyone asks for the resource.             *)
ExpiredLockIsFreed ==
    \A r \in Resources : Expired(r) ~> ~Expired(r)
=============================================================================
