---------------------------- MODULE MemoryBudget ----------------------------
(***************************************************************************)
(* The byte allowance that concurrent validation calls share               *)
(* (validation/resources.rs).  MemoryBudget is a capacity and two atomic   *)
(* counters; try_reserve is a load, a compare-exchange loop and a          *)
(* fetch_max, each one step here, so that other threads run in between.    *)
(* A validation call goes through its Account: a per-call budget checked   *)
(* and charged before the shared one.  A host thread of the application    *)
(* uses the same budget directly (try_reserve is public).                  *)
(*                                                                         *)
(* The per-call budget belongs to one thread, so its own load, exchange    *)
(* and fetch_sub are folded into the step of that thread next to them.     *)
(* All orderings are Relaxed; each counter is one memory location, whose   *)
(* modifications are totally ordered, and no decision reads both, so an    *)
(* interleaving of the single accesses is what the build can produce.      *)
(* compare_exchange_weak may also fail with the expected value in place:   *)
(* that step reloads the same value and is a stuttering step here.         *)
(***************************************************************************)
EXTENDS ByteTotals

CONSTANTS
  Call,        \* threads running validation calls
  Host,        \* threads of the application reserving directly
  Slot,        \* names for the live reservations of one thread
  Request,     \* request sizes
  Capacity,    \* MemoryBudget.capacity, shared
  Limit,       \* working limit of one call: capacity of its local budget
  MaxAttempts  \* bound: calls begun plus reservations attempted, per thread

ASSUME BudgetAssumption ==
  /\ IsFiniteSet(Call) /\ IsFiniteSet(Host) /\ IsFiniteSet(Slot)
  /\ Call \cap Host = {}
  /\ Slot # {}
  /\ Request \subseteq Nat
  /\ Capacity \in Nat \ {0}
  /\ Limit \in Nat \ {0}
  /\ MaxAttempts \in Nat

Actor == Call \cup Host

VARIABLES
  used,      \* State.used
  peak,      \* State.peak
  live,      \* bytes of the live MemoryReservation <<thread, slot>>
  local,     \* used counter of the thread's per-call budget
  pc,        \* what the thread does next
  seen,      \* try_reserve's local variable `used`
  size,      \* bytes of the request under way
  attempts,  \* counts the bound MaxAttempts
  high       \* history: greatest value `used` ever had

vars == <<used, peak, live, local, pc, seen, size, attempts, high>>

Phases == {"out", "idle", "load", "swap", "peak", "unwind"}

(* Mutant: the shared capacity is not part of what remains. *)
RemainingLocalOnly(a) ==
  IF a \in Call THEN Greater(0, Limit - local[a]) ELSE Capacity

(* Account::remaining for a call; try_reserve's first test for a host. *)
Remaining(a) ==
  IF a \in Call
  THEN Greater(0, Lesser(Limit, Capacity) - local[a])
  ELSE Capacity

Init ==
  /\ used = 0 /\ peak = 0 /\ high = 0
  /\ live = [r \in Actor \X Slot |-> 0]
  /\ local = [a \in Actor |-> 0]
  /\ pc = [a \in Actor |-> IF a \in Call THEN "out" ELSE "idle"]
  /\ seen = [a \in Actor |-> 0]
  /\ size = [a \in Actor |-> 0]
  /\ attempts = [a \in Actor |-> 0]
-----------------------------------------------------------------------------
(* Account::new: a fresh per-call budget over the shared one. *)
Begin(a) ==
  /\ a \in Call
  /\ pc[a] = "out"
  /\ attempts[a] < MaxAttempts
  /\ attempts' = [attempts EXCEPT ![a] = @ + 1]
  /\ local' = [local EXCEPT ![a] = 0]
  /\ pc' = [pc EXCEPT ![a] = "idle"]
  /\ UNCHANGED <<used, peak, live, seen, size, high>>

(* Account::reserve, Reservation::grow or try_reserve begins: a request    *)
(* that no release of others could admit is a ResourceLimit, and ends a    *)
(* call; otherwise the per-call budget is charged and the shared one next. *)
TryReserve(a, b) ==
  /\ pc[a] = "idle"
  /\ attempts[a] < MaxAttempts
  /\ attempts' = [attempts EXCEPT ![a] = @ + 1]
  /\ \/ /\ b > Remaining(a)
        /\ pc' = [pc EXCEPT ![a] = IF a \in Call THEN "unwind" ELSE "idle"]
        /\ UNCHANGED <<local, size>>
     \/ /\ b <= Remaining(a)
        /\ local' = [local EXCEPT ![a] = IF a \in Call THEN @ + b ELSE @]
        /\ size' = [size EXCEPT ![a] = b]
        /\ pc' = [pc EXCEPT ![a] = "load"]
  /\ UNCHANGED <<used, peak, live, seen, high>>

(* let mut used = self.used_bytes() *)
Load(a) ==
  /\ pc[a] = "load"
  /\ seen' = [seen EXCEPT ![a] = used]
  /\ pc' = [pc EXCEPT ![a] = "swap"]
  /\ UNCHANGED <<used, peak, live, local, size, attempts, high>>

(* Mutant: the request is compared with the whole capacity. *)
AdmittedByCapacity(a) == size[a] <= Capacity

Admitted(a) == size[a] <= Capacity - seen[a]

(* Mutant: a plain store instead of the exchange. *)
SwapWithoutCompare(a, s) ==
  /\ pc[a] = "swap"
  /\ Admitted(a)
  /\ used' = seen[a] + size[a]
  /\ live' = [live EXCEPT ![<<a, s>>] = @ + size[a]]
  /\ high' = Greater(high, used')
  /\ pc' = [pc EXCEPT ![a] = "peak"]
  /\ UNCHANGED <<peak, local, seen, size, attempts>>

(* compare_exchange_weak succeeds.  From here on the bytes belong to a       *)
(* reservation: a new one, or one that grows and absorbs them.             *)
Swap(a, s) ==
  /\ pc[a] = "swap"
  /\ Admitted(a)
  /\ used = seen[a]
  /\ used' = seen[a] + size[a]
  /\ live' = [live EXCEPT ![<<a, s>>] = @ + size[a]]
  /\ high' = Greater(high, used')
  /\ pc' = [pc EXCEPT ![a] = "peak"]
  /\ UNCHANGED <<peak, local, seen, size, attempts>>

(* Another thread moved the counter: Err(actual) => used = actual. *)
SwapFails(a) ==
  /\ pc[a] = "swap"
  /\ Admitted(a)
  /\ used # seen[a]
  /\ seen' = [seen EXCEPT ![a] = used]
  /\ UNCHANGED <<used, peak, live, local, pc, size, attempts,
                 high>>

(* The variables of try_reserve go out of scope. *)
EndRequest(a) ==
  /\ seen' = [seen EXCEPT ![a] = 0]
  /\ size' = [size EXCEPT ![a] = 0]

(* Mutant: the local reservation outlives the refusal. *)
BusyKeepsLocal(a) ==
  /\ pc[a] = "swap"
  /\ ~Admitted(a)
  /\ pc' = [pc EXCEPT ![a] = IF a \in Call THEN "unwind" ELSE "idle"]
  /\ EndRequest(a)
  /\ UNCHANGED <<used, peak, live, local, attempts, high>>

(* Mutant: a refused request is retried with everything else held. *)
BusyRetries(a) ==
  /\ pc[a] = "swap"
  /\ ~Admitted(a)
  /\ pc' = [pc EXCEPT ![a] = "load"]
  /\ UNCHANGED <<used, peak, live, local, seen, size, attempts, high>>

(* ResourceBusy: the local reservation is dropped and the call unwinds. *)
Busy(a) ==
  /\ pc[a] = "swap"
  /\ ~Admitted(a)
  /\ local' = [local EXCEPT ![a] = IF a \in Call THEN @ - size[a] ELSE @]
  /\ pc' = [pc EXCEPT ![a] = IF a \in Call THEN "unwind" ELSE "idle"]
  /\ EndRequest(a)
  /\ UNCHANGED <<used, peak, live, attempts, high>>

(* Mutant: store instead of fetch_max. *)
RecordPeakByStore(a) ==
  /\ pc[a] = "peak"
  /\ peak' = seen[a] + size[a]
  /\ pc' = [pc EXCEPT ![a] = "idle"]
  /\ EndRequest(a)
  /\ UNCHANGED <<used, live, local, attempts, high>>

(* Mutant: absorb leaves its argument's bytes, whose drop returns them. *)
RecordPeakDropsAbsorbed(a) ==
  /\ pc[a] = "peak"
  /\ peak' = Greater(peak, seen[a] + size[a])
  /\ used' = used - size[a]
  /\ pc' = [pc EXCEPT ![a] = "idle"]
  /\ EndRequest(a)
  /\ UNCHANGED <<live, local, attempts, high>>

(* self.peak.fetch_max(used + bytes) *)
RecordPeak(a) ==
  /\ pc[a] = "peak"
  /\ peak' = Greater(peak, seen[a] + size[a])
  /\ pc' = [pc EXCEPT ![a] = "idle"]
  /\ EndRequest(a)
  /\ UNCHANGED <<used, live, local, attempts, high>>

(* Drop of a reservation, at the end of a stage or while unwinding. *)
Release(a, s) ==
  /\ pc[a] \in {"idle", "unwind"}
  /\ live[<<a, s>>] > 0
  /\ used' = used - live[<<a, s>>]
  /\ local' = [local EXCEPT ![a] =
                 IF a \in Call THEN @ - live[<<a, s>>] ELSE @]
  /\ live' = [live EXCEPT ![<<a, s>>] = 0]
  /\ UNCHANGED <<peak, pc, seen, size, attempts, high>>

(* The call returns once every guard of its frames has been dropped. *)
Return(a) ==
  /\ a \in Call
  /\ pc[a] \in {"idle", "unwind"}
  /\ \A s \in Slot : live[<<a, s>>] = 0
  /\ pc' = [pc EXCEPT ![a] = "out"]
  /\ UNCHANGED <<used, peak, live, local, seen, size, attempts,
                 high>>

Next ==
  \E a \in Actor :
    \/ Begin(a)
    \/ \E b \in Request : TryReserve(a, b)
    \/ Load(a)
    \/ \E s \in Slot : Swap(a, s)
    \/ SwapFails(a)
    \/ Busy(a)
    \/ RecordPeak(a)
    \/ \E s \in Slot : Release(a, s)
    \/ Return(a)

(* A started reservation runs to its end, and a call does not keep its     *)
(* thread busy forever: it drops its guards and returns.  A host may keep  *)
(* what it reserved, so its Release is not fair.                           *)
Reserving(a) ==
  \/ Load(a) \/ SwapFails(a) \/ Busy(a) \/ RecordPeak(a)
  \/ \E s \in Slot : Swap(a, s)
Leaving(a) == Return(a) \/ \E s \in Slot : Release(a, s)

Fairness ==
  /\ \A a \in Actor : WF_vars(Reserving(a))
  /\ \A a \in Call : WF_vars(Leaving(a))

Spec == Init /\ [][Next]_vars
FairSpec == Spec /\ Fairness
-----------------------------------------------------------------------------
(* Every variable keeps its type; used, seen and local are u64 values that *)
(* no fetch_sub may take below zero (resources.rs, Drop).                  *)
TypeOK ==
  /\ used \in Nat /\ peak \in Nat /\ high \in Nat
  /\ live \in [Actor \X Slot -> Nat]
  /\ local \in [Actor -> Nat]
  /\ pc \in [Actor -> Phases]
  /\ seen \in [Actor -> Nat]
  /\ size \in [Actor -> Nat]
  /\ attempts \in [Actor -> Nat]

(* The shared counter is the bytes of the live reservations of all         *)
(* threads, at every instant: no race of the compare-exchange loop, no     *)
(* growth, absorption or unwinding loses or duplicates a byte.             *)
UsedIsHeld == used = Total(live)

(* The counter stays within the capacity, and so does the value a thread   *)
(* read: `capacity - used` in the loop never wraps below zero.             *)
WithinCapacity ==
  /\ used <= Capacity
  /\ \A a \in Actor : pc[a] = "swap" => seen[a] <= Capacity

(* peak_bytes, the lifetime high-water count, is behind the true maximum   *)
(* only by what a thread between its exchange and its fetch_max is about   *)
(* to record: two threads recording in either order lose no maximum.       *)
InFlightPeak(a) == seen[a] + size[a]
PeakIsHighWater ==
  /\ peak <= high
  /\ \A a \in Actor : pc[a] = "peak" => InFlightPeak(a) <= high
  /\ \/ peak = high
     \/ \E a \in Actor : pc[a] = "peak" /\ InFlightPeak(a) = high

(* The per-call ledger and the shared one agree on what a call holds,      *)
(* except for a request already charged to the first and not yet admitted  *)
(* by the second: a refusal by the shared budget returns the local charge. *)
Share(a) == Total([s \in Slot |-> live[<<a, s>>]])
InFlight(a) == IF pc[a] \in {"load", "swap"} THEN size[a] ELSE 0
LedgersAgree == \A a \in Call : local[a] = Share(a) + InFlight(a)

(* ResourceBusy is temporary, ResourceLimit is final (try_reserve's doc):  *)
(* a busy call would fit if every other thread released, a call refused    *)
(* for good would not fit even then.                                       *)
VerdictsAreRight ==
  [][\A a \in Call :
       /\ Busy(a) => Share(a) + size[a] <= Lesser(Limit, Capacity)
       /\ \A b \in Request :
            TryReserve(a, b) /\ pc'[a] = "unwind"
              => Share(a) + b > Lesser(Limit, Capacity)]_vars

(* The loop of loads, exchanges and retries is linearizable to the         *)
(* allowance that grants or refuses in one step: granted at the exchange,  *)
(* refused at the read that found too little.                              *)
StageOf(a) ==
  CASE pc[a] = "load" -> "asked"
    [] pc[a] = "swap" -> IF Admitted(a) THEN "asked" ELSE "refused"
    [] pc[a] = "peak" -> "granted"
    [] OTHER          -> "none"
Ideal == INSTANCE Allowance
           WITH Holder <- Actor, granted <- live, wanted <- size,
                stage <- [a \in Actor |-> StageOf(a)]
ImplementsAllowance == Ideal!Spec

(* Admission never waits: each call comes to its end, whatever the other   *)
(* threads hold, and holds nothing from then on.                           *)
CallsReturn == \A a \in Call : pc[a] # "out" ~> pc[a] = "out"
=============================================================================
