---------------------------- MODULE CfitsioGate ----------------------------
(***************************************************************************)
(* The gate in front of the CFITSIO library (fits/backend.rs): an owner    *)
(* and a nesting depth behind a mutex, and a condition variable on which   *)
(* blocked callers wait.  Each thread runs nested closures under           *)
(* with_cfitsio and try_with_cfitsio and drops a permit after each, also   *)
(* when the closure panics.                                                *)
(*                                                                         *)
(* Taking the mutex is one step and the code under it, up to the unlock    *)
(* or the wait, another: in between, a try_lock of another thread fails.   *)
(* Condvar::wait may wake without a notification.  The mutex cannot be     *)
(* poisoned (no caller's code runs under it), so the recovery from a       *)
(* poisoned mutex is the plain lock.                                       *)
(***************************************************************************)
EXTENDS Integers, FiniteSets

CONSTANTS
  Thread,
  NoThread,   \* None of State.owner, and of the mutex
  MaxCalls    \* bound: calls of with_cfitsio and try_with_cfitsio per thread

ASSUME GateAssumption ==
  /\ NoThread \notin Thread
  /\ MaxCalls \in Nat

VARIABLES
  reentrant,  \* Gate.reentrant, reported by the linked library
  owner,      \* State.owner
  depth,      \* State.depth
  mutex,      \* thread holding Gate.state's mutex, or NoThread
  parked,     \* threads waiting on Gate.available
  place,      \* what each thread does next
  held,       \* permits of each thread: the closures it is in
  calls       \* calls each thread has made, for MaxCalls

gateVars == <<reentrant, owner, depth, mutex, parked, place, held, calls>>
state == <<owner, depth>>

(* "run": in a closure when held > 0, in code of its own when held = 0.    *)
ThreadPhases == {"run", "lock", "check", "parked", "try", "drop", "release"}

GateInit ==
  /\ reentrant \in BOOLEAN
  /\ owner = NoThread /\ depth = 0
  /\ mutex = NoThread
  /\ parked = {}
  /\ place = [t \in Thread |-> "run"]
  /\ held = [t \in Thread |-> 0]
  /\ calls = [t \in Thread |-> 0]

Move(t, from, to) ==
  /\ place[t] = from
  /\ place' = [place EXCEPT ![t] = to]

NextCall(t) ==
  /\ calls[t] < MaxCalls
  /\ calls' = [calls EXCEPT ![t] = @ + 1]

LockFor(t, from, to) ==
  /\ Move(t, from, to)
  /\ mutex = NoThread
  /\ mutex' = t
  /\ UNCHANGED <<reentrant, state, parked, held, calls>>

(* Mutant: an owner is an owner, the calling thread included. *)
OwnedByAnyone(t) == owner # NoThread

OwnedByOther(t) == owner \notin {NoThread, t}

(* Mutant: `let _ = acquire()`, whose permit is dropped at once. *)
TakeForgotten(t) ==
  /\ held' = [held EXCEPT ![t] = @ + 1]
  /\ mutex' = NoThread
  /\ UNCHANGED state

(* state.owner = Some(owner); state.depth += 1, and the guard is dropped.  *)
Take(t) ==
  /\ owner' = t
  /\ depth' = depth + 1
  /\ held' = [held EXCEPT ![t] = @ + 1]
  /\ mutex' = NoThread
-----------------------------------------------------------------------------
(* with_cfitsio: a reentrant backend gives the permit with no bookkeeping. *)
Acquire(t) ==
  /\ NextCall(t)
  /\ \/ /\ reentrant
        /\ place[t] = "run"
        /\ held' = [held EXCEPT ![t] = @ + 1]
        /\ UNCHANGED place
     \/ /\ ~reentrant
        /\ Move(t, "run", "lock")
        /\ UNCHANGED held
  /\ UNCHANGED <<reentrant, state, mutex, parked>>

LockToAcquire(t) == LockFor(t, "lock", "check")

(* The body of the while loop: wait, which parks and unlocks in one step,  *)
(* or leave the loop with the gate.                                        *)
CheckOwner(t) ==
  \/ /\ OwnedByOther(t)
     /\ Move(t, "check", "parked")
     /\ parked' = parked \cup {t}
     /\ mutex' = NoThread
     /\ UNCHANGED <<reentrant, state, held, calls>>
  \/ /\ ~OwnedByOther(t)
     /\ Move(t, "check", "run")
     /\ Take(t)
     /\ UNCHANGED <<reentrant, parked, calls>>

SpuriousWake(t) ==
  /\ t \in parked
  /\ parked' = parked \ {t}
  /\ Move(t, "parked", "lock")
  /\ UNCHANGED <<reentrant, state, mutex, held, calls>>

(* try_with_cfitsio up to its try_lock: a locked mutex is a CfitsioBusy.   *)
TryAcquire(t) ==
  /\ NextCall(t)
  /\ \/ /\ reentrant
        /\ place[t] = "run"
        /\ held' = [held EXCEPT ![t] = @ + 1]
        /\ UNCHANGED <<place, mutex>>
     \/ /\ ~reentrant
        /\ mutex # NoThread
        /\ place[t] = "run"
        /\ UNCHANGED <<place, mutex, held>>
     \/ /\ ~reentrant
        /\ mutex = NoThread
        /\ Move(t, "run", "try")
        /\ mutex' = t
        /\ UNCHANGED held
  /\ UNCHANGED <<reentrant, state, parked>>

(* Mutant: the nonblocking call does not look at the owner. *)
TryTakes(t) ==
  /\ Move(t, "try", "run")
  /\ Take(t)
  /\ UNCHANGED <<reentrant, parked, calls>>

TryOwner(t) ==
  /\ Move(t, "try", "run")
  /\ \/ /\ OwnedByOther(t)
        /\ mutex' = NoThread
        /\ UNCHANGED <<state, held>>
     \/ /\ ~OwnedByOther(t)
        /\ Take(t)
  /\ UNCHANGED <<reentrant, parked, calls>>

(* A closure returns or unwinds, and its permit is dropped.                *)
DropPermit(t) ==
  /\ held[t] > 0
  /\ \/ /\ reentrant
        /\ place[t] = "run"
        /\ held' = [held EXCEPT ![t] = @ - 1]
        /\ UNCHANGED place
     \/ /\ ~reentrant
        /\ Move(t, "run", "drop")
        /\ UNCHANGED held
  /\ UNCHANGED <<reentrant, state, mutex, parked, calls>>

LockToDrop(t) == LockFor(t, "drop", "release")

(* Mutant: no notification. *)
NotifyNobody(t) ==
  /\ UNCHANGED parked
  /\ place' = [place EXCEPT ![t] = "run"]

(* notify_one wakes one waiter, if there is one. *)
NotifyOne(t) ==
  \/ /\ parked = {}
     /\ UNCHANGED parked
     /\ place' = [place EXCEPT ![t] = "run"]
  \/ \E w \in parked :
       /\ parked' = parked \ {w}
       /\ place' = [place EXCEPT ![t] = "run", ![w] = "lock"]

(* Mutant: every drop opens the gate, the inner ones included. *)
ReleaseAtAnyDepth(t) ==
  /\ place[t] = "release"
  /\ depth' = depth - 1
  /\ held' = [held EXCEPT ![t] = @ - 1]
  /\ mutex' = NoThread
  /\ owner' = NoThread
  /\ NotifyOne(t)
  /\ UNCHANGED <<reentrant, calls>>

ReleaseGate(t) ==
  /\ place[t] = "release"
  /\ depth' = depth - 1
  /\ held' = [held EXCEPT ![t] = @ - 1]
  /\ mutex' = NoThread
  /\ \/ /\ depth = 1
        /\ owner' = NoThread
        /\ NotifyOne(t)
     \/ /\ depth # 1
        /\ place' = [place EXCEPT ![t] = "run"]
        /\ UNCHANGED <<owner, parked>>
  /\ UNCHANGED <<reentrant, calls>>

GateNext ==
  \E t \in Thread :
    \/ Acquire(t) \/ LockToAcquire(t) \/ CheckOwner(t) \/ SpuriousWake(t)
    \/ TryAcquire(t) \/ TryOwner(t)
    \/ DropPermit(t) \/ LockToDrop(t) \/ ReleaseGate(t)

GateSpec == GateInit /\ [][GateNext]_gateVars

(* Closures end and threads are scheduled.  A thread that wants the mutex  *)
(* while others keep taking and releasing it gets it sometime (strong      *)
(* fairness): it is a futex that wakes its waiters, held for a few         *)
(* instructions.  Nothing is assumed of wake-ups nobody sent.              *)
GateFairness ==
  \A t \in Thread :
    /\ SF_gateVars(LockToAcquire(t))
    /\ SF_gateVars(LockToDrop(t))
    /\ WF_gateVars(CheckOwner(t))
    /\ WF_gateVars(TryOwner(t))
    /\ WF_gateVars(DropPermit(t))
    /\ WF_gateVars(ReleaseGate(t))

FairGateSpec == GateSpec /\ GateFairness
-----------------------------------------------------------------------------
(* Every variable keeps its type; the depth, a usize that drops decrement  *)
(* without a test, never goes below zero (Drop for Permit).                *)
GateTypeOK ==
  /\ reentrant \in BOOLEAN
  /\ owner \in Thread \cup {NoThread}
  /\ depth \in Nat
  /\ mutex \in Thread \cup {NoThread}
  /\ parked \in SUBSET Thread
  /\ place \in [Thread -> ThreadPhases]
  /\ held \in [Thread -> Nat]
  /\ calls \in [Thread -> Nat]

(* Native calls of a backend that is not reentrant never overlap between   *)
(* threads (with_cfitsio, module doc of backend.rs).                       *)
OneThreadInside ==
  ~reentrant => \A t, u \in Thread : held[t] > 0 /\ held[u] > 0 => t = u

(* Owner and depth are exactly the permits that are out: nesting, refused  *)
(* tries and unwinding leave neither a gate nobody can enter nor an open   *)
(* one with a permit out.  A reentrant build keeps them untouched.         *)
GateMatchesPermits ==
  IF reentrant
  THEN owner = NoThread /\ depth = 0
  ELSE \A t \in Thread : held[t] = IF owner = t THEN depth ELSE 0

(* No wake-up is lost: when the gate is free and callers wait on the       *)
(* condition variable, one caller is awake and on its way to the gate,     *)
(* although notify_one runs only when the depth reaches 0, other callers   *)
(* may take the gate before the one that was woken, and it parks again.    *)
NoLostWakeup ==
  owner = NoThread /\ parked # {} =>
    \E t \in Thread : place[t] \in {"lock", "check"}

(* The mutex, the owner test and the waiting implement the section that is *)
(* entered and left in one step.                                           *)
Section == INSTANCE NativeSection
             WITH inside <- held, exclusive <- ~reentrant
ImplementsSection == Section!Spec

(* Every blocking call comes to the gate, when every thread makes finitely *)
(* many calls and closures end.                                            *)
CallersServed == \A t \in Thread : place[t] = "lock" ~> place[t] = "run"
=============================================================================
