---------------------------- MODULE SharedProofs ----------------------------
(***************************************************************************)
(* Proofs about the two things concurrent calls share: the allowance and,  *)
(* after the line, the gate.  They hold for any set of calls, hosts and  *)
(* threads, any capacity, limit and request sizes.                         *)
(*                                                                         *)
(* None of the allowance's invariants is inductive alone: a release keeps  *)
(* `used` a natural number only because the counter is the bytes of the    *)
(* live reservations, and the per-call counter only because the two        *)
(* ledgers agree.  IInv is their conjunction.                              *)
(***************************************************************************)
EXTENDS MemoryBudget, CfitsioGate, ByteTotalsProofs

(* A call that has returned, or not begun, holds nothing. *)
ReturnedHoldsNothing ==
  \A a \in Call, s \in Slot : pc[a] = "out" => live[<<a, s>>] = 0

(* No call is charged beyond its own limit or the shared capacity. *)
CallsWithinLimit ==
  \A a \in Call : local[a] <= Lesser(Limit, Capacity)

IInv ==
  /\ TypeOK
  /\ UsedIsHeld
  /\ WithinCapacity
  /\ used <= high
  /\ PeakIsHighWater
  /\ LedgersAgree
  /\ ReturnedHoldsNothing
  /\ CallsWithinLimit

(* There are finitely many threads and reservations. *)
LEMMA ActorsFinite == IsFiniteSet(Actor) /\ IsFiniteSet(Actor \X Slot)
<1>1. IsFiniteSet(Actor)
  BY BudgetAssumption, FS_Union DEF Actor
<1>2. QED
  BY <1>1, BudgetAssumption, FS_Product

(* The bytes thread a holds in each slot: what Share(a) adds up. *)
SlotsOf(f, a) == [s \in Slot |-> f[<<a, s>>]]

(* What one thread holds is a natural number of bytes. *)
LEMMA ShareType ==
  ASSUME live \in [Actor \X Slot -> Nat], NEW a \in Actor
  PROVE  /\ Share(a) \in Nat
         /\ \A s \in Slot : live[<<a, s>>] <= Share(a)
<1> DEFINE mine == SlotsOf(live, a)
<1>1. mine \in [Slot -> Nat] /\ Share(a) = Total(mine)
  BY DEF SlotsOf, Share
<1> HIDE DEF mine
<1>2. IsFiniteSet(Slot)
  BY BudgetAssumption
<1>3. Share(a) \in Nat
  BY <1>1, <1>2, TotalType
<1>4. \A s \in Slot : mine[s] <= Total(mine)
  BY <1>1, <1>2, TotalAtLeast
<1>5. QED
  BY <1>1, <1>3, <1>4 DEF mine, SlotsOf

(* A reservation that gains b bytes moves the total and its own thread's   *)
(* share by b, and no other share.                                         *)
LEMMA LiveGrows ==
  ASSUME live \in [Actor \X Slot -> Nat],
         NEW a \in Actor, NEW s \in Slot, NEW b \in Nat,
         live' = [live EXCEPT ![<<a, s>>] = @ + b]
  PROVE  /\ live' \in [Actor \X Slot -> Nat]
         /\ Total(live') = Total(live) + b
         /\ Share(a)' = Share(a) + b
         /\ \A c \in Actor \ {a} : Share(c)' = Share(c)
<1>1. live' \in [Actor \X Slot -> Nat]
  OBVIOUS
<1>2. Total(live') = Total(live) + b
  <2> DEFINE R == Actor \X Slot
             r == <<a, s>>
             f == live
             g == live'
  <2>1. /\ r \in R /\ IsFiniteSet(R)
        /\ f \in [R -> Nat] /\ g \in [R -> Nat]
        /\ g[r] = f[r] + b
        /\ \A e \in R \ {r} : g[e] = f[e]
    BY <1>1, ActorsFinite
  <2> HIDE DEF R, r, f, g
  <2>2. Total(g) = Total(f) + b
    BY <2>1, TotalAdd
  <2>3. QED
    BY <2>2 DEF f, g
<1>3. Share(a)' = Share(a) + b
  <2> DEFINE old == SlotsOf(live, a)
             new == SlotsOf(live', a)
  <2>1. /\ old \in [Slot -> Nat] /\ new \in [Slot -> Nat]
        /\ new[s] = old[s] + b
        /\ \A e \in Slot \ {s} : new[e] = old[e]
    BY <1>1 DEF SlotsOf
  <2>2. Share(a) = Total(old) /\ Share(a)' = Total(new)
    BY DEF Share, SlotsOf
  <2> HIDE DEF old, new
  <2>3. QED
    BY <2>1, <2>2, BudgetAssumption, TotalAdd
<1>4. ASSUME NEW c \in Actor \ {a} PROVE Share(c)' = Share(c)
  <2>1. \A e \in Slot : live'[<<c, e>>] = live[<<c, e>>]
    OBVIOUS
  <2>2. QED
    BY <2>1 DEF Share
<1>5. QED
  BY <1>1, <1>2, <1>3, <1>4

(* A reservation that is dropped takes its bytes from the total and from   *)
(* its own thread's share; neither goes below zero.                        *)
LEMMA LiveFreed ==
  ASSUME live \in [Actor \X Slot -> Nat],
         NEW a \in Actor, NEW s \in Slot,
         live' = [live EXCEPT ![<<a, s>>] = 0]
  PROVE  /\ live' \in [Actor \X Slot -> Nat]
         /\ Total(live) \in Nat
         /\ live[<<a, s>>] <= Total(live)
         /\ Total(live') = Total(live) - live[<<a, s>>]
         /\ Share(a)' = Share(a) - live[<<a, s>>]
         /\ \A c \in Actor \ {a} : Share(c)' = Share(c)
<1> DEFINE b == live[<<a, s>>]
<1>0. <<a, s>> \in Actor \X Slot /\ b \in Nat
  OBVIOUS
<1>1. live' \in [Actor \X Slot -> Nat]
  OBVIOUS
<1>2. Total(live) \in Nat /\ live[<<a, s>>] <= Total(live)
  BY <1>0, ActorsFinite, TotalType, TotalAtLeast
<1>3. Total(live') = Total(live) - b
  <2> DEFINE R == Actor \X Slot
             r == <<a, s>>
             f == live
             g == live'
  <2>1. /\ r \in R /\ IsFiniteSet(R) /\ b \in Nat
        /\ f \in [R -> Nat] /\ g \in [R -> Nat]
        /\ f[r] = g[r] + b
        /\ \A e \in R \ {r} : f[e] = g[e]
    BY <1>0, <1>1, ActorsFinite
  <2> HIDE DEF R, r, f, g, b
  <2>2. Total(f) = Total(g) + b
    BY <2>1, TotalAdd
  <2>3. Total(f) \in Nat /\ Total(g) \in Nat
    BY <2>1, TotalType
  <2>4. QED
    BY <2>1, <2>2, <2>3 DEF f, g
<1>4. Share(a)' = Share(a) - b
  <2> DEFINE old == SlotsOf(live, a)
             new == SlotsOf(live', a)
  <2>1. /\ old \in [Slot -> Nat] /\ new \in [Slot -> Nat]
        /\ new[s] = old[s] - b
        /\ \A e \in Slot \ {s} : new[e] = old[e]
    BY <1>0, <1>1 DEF SlotsOf
  <2>2. Share(a) = Total(old) /\ Share(a)' = Total(new)
    BY DEF Share, SlotsOf
  <2> HIDE DEF old, new, b
  <2>3. QED
    BY <1>0, <2>1, <2>2, BudgetAssumption, TotalSubtract
<1>5. ASSUME NEW c \in Actor \ {a} PROVE Share(c)' = Share(c)
  <2>1. \A e \in Slot : live'[<<c, e>>] = live[<<c, e>>]
    OBVIOUS
  <2>2. QED
    BY <2>1 DEF Share
<1>6. QED
  BY <1>1, <1>2, <1>3, <1>4, <1>5
-----------------------------------------------------------------------------
(* A new budget satisfies the invariant. *)
LEMMA InitIInv == Init => IInv
<1> SUFFICES ASSUME Init PROVE IInv
  OBVIOUS
<1>1. TypeOK
  BY DEF Init, TypeOK, Phases
<1>2. Total(live) = 0 /\ \A a \in Actor : Share(a) = 0
  <2>1. Total(live) = 0
    BY TotalZero DEF Init
  <2>2. ASSUME NEW a \in Actor PROVE Share(a) = 0
    <3>1. /\ SlotsOf(live, a) \in [Slot -> Nat]
          /\ \A s \in Slot : SlotsOf(live, a)[s] = 0
      BY DEF Init, SlotsOf
    <3>2. QED
      BY <3>1, TotalZero DEF Share, SlotsOf
  <2>3. QED
    BY <2>1, <2>2
<1>3. QED
  BY <1>1, <1>2, BudgetAssumption
     DEF Init, IInv, UsedIsHeld, WithinCapacity, PeakIsHighWater,
         LedgersAgree, InFlight, Actor,
         ReturnedHoldsNothing, CallsWithinLimit, Lesser

(* Steps that leave the reservations alone leave every share alone. *)
LEMMA LiveSame ==
  ASSUME live' = live
  PROVE  Total(live') = Total(live) /\ \A a \in Actor : Share(a)' = Share(a)
BY DEF Share

(* Opening a validation account keeps the invariant. *)
LEMMA BeginStep ==
  ASSUME IInv, NEW a \in Actor, Begin(a)
  PROVE  IInv'
<1> USE DEF IInv, TypeOK, Begin
<1>1. Total(live') = Total(live) /\ \A c \in Actor : Share(c)' = Share(c)
  BY LiveSame
<1>2. \A c \in Call : c \in Actor /\ Share(c) \in Nat
  BY ShareType DEF Actor
<1>3. TypeOK'
  BY <1>2, BudgetAssumption
     DEF Phases, Remaining, Lesser, Greater, LedgersAgree, InFlight
<1>4. UsedIsHeld'
  BY <1>1 DEF UsedIsHeld
<1>5. WithinCapacity' /\ (used <= high)'
  BY BudgetAssumption DEF WithinCapacity
<1>6. PeakIsHighWater'
  BY DEF PeakIsHighWater, InFlightPeak, Greater
<1>7. LedgersAgree'
  <2>1. Share(a) = 0
    <3>1. /\ SlotsOf(live, a) \in [Slot -> Nat]
          /\ \A s \in Slot : SlotsOf(live, a)[s] = 0
      BY DEF SlotsOf, ReturnedHoldsNothing
    <3>2. QED
      BY <3>1, TotalZero DEF Share, SlotsOf
  <2>2. QED
    BY <1>1, <1>2, <2>1 DEF LedgersAgree, InFlight, Actor
<1>8. ReturnedHoldsNothing'
  BY DEF ReturnedHoldsNothing, Actor
<1>9. CallsWithinLimit'
  BY BudgetAssumption DEF CallsWithinLimit, Remaining, Lesser, Greater, Actor
<1>10. QED
  BY <1>3, <1>4, <1>5, <1>6, <1>7, <1>8, <1>9

(* The local verdict and the local charge keep the invariant. *)
LEMMA TryReserveStep ==
  ASSUME IInv, NEW a \in Actor, NEW b \in Request, TryReserve(a, b)
  PROVE  IInv'
<1> USE DEF IInv, TypeOK, TryReserve
<1>1. Total(live') = Total(live) /\ \A c \in Actor : Share(c)' = Share(c)
  BY LiveSame
<1>2. \A c \in Call : c \in Actor /\ Share(c) \in Nat
  BY ShareType DEF Actor
<1>3. TypeOK'
  BY <1>2, BudgetAssumption
     DEF Phases, Remaining, Lesser, Greater, LedgersAgree, InFlight
<1>4. UsedIsHeld'
  BY <1>1 DEF UsedIsHeld
<1>5. WithinCapacity' /\ (used <= high)'
  BY BudgetAssumption DEF WithinCapacity
<1>6. PeakIsHighWater'
  BY DEF PeakIsHighWater, InFlightPeak, Greater
<1>7. LedgersAgree'
  BY <1>1, <1>2, BudgetAssumption DEF LedgersAgree, InFlight, Actor
<1>8. ReturnedHoldsNothing'
  BY DEF ReturnedHoldsNothing, Actor
<1>9. CallsWithinLimit'
  BY BudgetAssumption DEF CallsWithinLimit, Remaining, Lesser, Greater, Actor
<1>10. QED
  BY <1>3, <1>4, <1>5, <1>6, <1>7, <1>8, <1>9

(* Reading the shared counter keeps the invariant. *)
LEMMA LoadStep ==
  ASSUME IInv, NEW a \in Actor, Load(a)
  PROVE  IInv'
<1> USE DEF IInv, TypeOK, Load
<1>1. Total(live') = Total(live) /\ \A c \in Actor : Share(c)' = Share(c)
  BY LiveSame
<1>2. \A c \in Call : c \in Actor /\ Share(c) \in Nat
  BY ShareType DEF Actor
<1>3. TypeOK'
  BY <1>2, BudgetAssumption
     DEF Phases, Remaining, Lesser, Greater, LedgersAgree, InFlight
<1>4. UsedIsHeld'
  BY <1>1 DEF UsedIsHeld
<1>5. WithinCapacity' /\ (used <= high)'
  BY BudgetAssumption DEF WithinCapacity
<1>6. PeakIsHighWater'
  BY DEF PeakIsHighWater, InFlightPeak, Greater
<1>7. LedgersAgree'
  BY <1>1, <1>2, BudgetAssumption DEF LedgersAgree, InFlight, Actor
<1>8. ReturnedHoldsNothing'
  BY DEF ReturnedHoldsNothing, Actor
<1>9. CallsWithinLimit'
  BY BudgetAssumption DEF CallsWithinLimit, Remaining, Lesser, Greater, Actor
<1>10. QED
  BY <1>3, <1>4, <1>5, <1>6, <1>7, <1>8, <1>9

(* A lost exchange, which reloads the counter, keeps the invariant. *)
LEMMA SwapFailsStep ==
  ASSUME IInv, NEW a \in Actor, SwapFails(a)
  PROVE  IInv'
<1> USE DEF IInv, TypeOK, SwapFails
<1>1. Total(live') = Total(live) /\ \A c \in Actor : Share(c)' = Share(c)
  BY LiveSame
<1>2. \A c \in Call : c \in Actor /\ Share(c) \in Nat
  BY ShareType DEF Actor
<1>3. TypeOK'
  BY <1>2, BudgetAssumption
     DEF Phases, Remaining, Lesser, Greater, LedgersAgree, InFlight
<1>4. UsedIsHeld'
  BY <1>1 DEF UsedIsHeld
<1>5. WithinCapacity' /\ (used <= high)'
  BY BudgetAssumption DEF WithinCapacity
<1>6. PeakIsHighWater'
  BY DEF PeakIsHighWater, InFlightPeak, Greater
<1>7. LedgersAgree'
  BY <1>1, <1>2, BudgetAssumption DEF LedgersAgree, InFlight, Actor
<1>8. ReturnedHoldsNothing'
  BY DEF ReturnedHoldsNothing, Actor
<1>9. CallsWithinLimit'
  BY BudgetAssumption DEF CallsWithinLimit, Remaining, Lesser, Greater, Actor
<1>10. QED
  BY <1>3, <1>4, <1>5, <1>6, <1>7, <1>8, <1>9

(* A refusal, which returns the local charge, keeps the invariant. *)
LEMMA BusyStep ==
  ASSUME IInv, NEW a \in Actor, Busy(a)
  PROVE  IInv'
<1> USE DEF IInv, TypeOK, Busy, EndRequest
<1>1. Total(live') = Total(live) /\ \A c \in Actor : Share(c)' = Share(c)
  BY LiveSame
<1>2. \A c \in Call : c \in Actor /\ Share(c) \in Nat
  BY ShareType DEF Actor
<1>3. TypeOK'
  BY <1>2, BudgetAssumption
     DEF Phases, Remaining, Lesser, Greater, LedgersAgree, InFlight
<1>4. UsedIsHeld'
  BY <1>1 DEF UsedIsHeld
<1>5. WithinCapacity' /\ (used <= high)'
  BY BudgetAssumption DEF WithinCapacity
<1>6. PeakIsHighWater'
  BY DEF PeakIsHighWater, InFlightPeak, Greater
<1>7. LedgersAgree'
  BY <1>1, <1>2, BudgetAssumption DEF LedgersAgree, InFlight, Actor
<1>8. ReturnedHoldsNothing'
  BY DEF ReturnedHoldsNothing, Actor
<1>9. CallsWithinLimit'
  BY BudgetAssumption DEF CallsWithinLimit, Remaining, Lesser, Greater, Actor
<1>10. QED
  BY <1>3, <1>4, <1>5, <1>6, <1>7, <1>8, <1>9

(* Recording the high-water count keeps the invariant. *)
LEMMA RecordPeakStep ==
  ASSUME IInv, NEW a \in Actor, RecordPeak(a)
  PROVE  IInv'
<1> USE DEF IInv, TypeOK, RecordPeak, EndRequest
<1>1. Total(live') = Total(live) /\ \A c \in Actor : Share(c)' = Share(c)
  BY LiveSame
<1>2. \A c \in Call : c \in Actor /\ Share(c) \in Nat
  BY ShareType DEF Actor
<1>3. TypeOK'
  BY <1>2, BudgetAssumption
     DEF Phases, Remaining, Lesser, Greater, LedgersAgree, InFlight
<1>4. UsedIsHeld'
  BY <1>1 DEF UsedIsHeld
<1>5. WithinCapacity' /\ (used <= high)'
  BY BudgetAssumption DEF WithinCapacity
<1>6. PeakIsHighWater'
  BY DEF PeakIsHighWater, InFlightPeak, Greater
<1>7. LedgersAgree'
  BY <1>1, <1>2, BudgetAssumption DEF LedgersAgree, InFlight, Actor
<1>8. ReturnedHoldsNothing'
  BY DEF ReturnedHoldsNothing, Actor
<1>9. CallsWithinLimit'
  BY BudgetAssumption DEF CallsWithinLimit, Remaining, Lesser, Greater, Actor
<1>10. QED
  BY <1>3, <1>4, <1>5, <1>6, <1>7, <1>8, <1>9

(* The return of a call, which holds nothing, keeps the invariant. *)
LEMMA ReturnStep ==
  ASSUME IInv, NEW a \in Actor, Return(a)
  PROVE  IInv'
<1> USE DEF IInv, TypeOK, Return
<1>1. Total(live') = Total(live) /\ \A c \in Actor : Share(c)' = Share(c)
  BY LiveSame
<1>2. \A c \in Call : c \in Actor /\ Share(c) \in Nat
  BY ShareType DEF Actor
<1>3. TypeOK'
  BY <1>2, BudgetAssumption
     DEF Phases, Remaining, Lesser, Greater, LedgersAgree, InFlight
<1>4. UsedIsHeld'
  BY <1>1 DEF UsedIsHeld
<1>5. WithinCapacity' /\ (used <= high)'
  BY BudgetAssumption DEF WithinCapacity
<1>6. PeakIsHighWater'
  BY DEF PeakIsHighWater, InFlightPeak, Greater
<1>7. LedgersAgree'
  BY <1>1, <1>2, BudgetAssumption DEF LedgersAgree, InFlight, Actor
<1>8. ReturnedHoldsNothing'
  BY DEF ReturnedHoldsNothing, Actor
<1>9. CallsWithinLimit'
  BY BudgetAssumption DEF CallsWithinLimit, Remaining, Lesser, Greater, Actor
<1>10. QED
  BY <1>3, <1>4, <1>5, <1>6, <1>7, <1>8, <1>9

(* The exchange that admits a request keeps the invariant. *)
LEMMA SwapStep ==
  ASSUME IInv, NEW a \in Actor, NEW s \in Slot, Swap(a, s)
  PROVE  IInv'
<1> USE DEF IInv, TypeOK, Swap
<1>1. /\ live' \in [Actor \X Slot -> Nat]
      /\ Total(live') = Total(live) + size[a]
      /\ Share(a)' = Share(a) + size[a]
      /\ \A c \in Actor \ {a} : Share(c)' = Share(c)
  BY LiveGrows
<1>2. /\ used' = used + size[a] /\ used' \in Nat
      /\ used' <= Capacity
      /\ high' = Greater(high, used')
  BY BudgetAssumption DEF Admitted, WithinCapacity
<1>3. TypeOK'
  BY <1>1, <1>2 DEF Phases, Greater
<1>4. UsedIsHeld'
  BY <1>1, <1>2 DEF UsedIsHeld
<1>5. WithinCapacity' /\ (used <= high)'
  BY <1>2 DEF WithinCapacity, Greater
<1>6. PeakIsHighWater'
  BY <1>2 DEF PeakIsHighWater, InFlightPeak, Greater
<1>7. LedgersAgree'
  <2> SUFFICES ASSUME NEW c \in Call
               PROVE  (local[c] = Share(c) + InFlight(c))'
    BY DEF LedgersAgree
  <2>1. c \in Actor /\ Share(c) \in Nat
    BY ShareType DEF Actor
  <2>2. QED
    BY <1>1, <2>1 DEF LedgersAgree, InFlight
<1>8. ReturnedHoldsNothing'
  BY DEF ReturnedHoldsNothing, Actor
<1>9. CallsWithinLimit'
  BY BudgetAssumption DEF CallsWithinLimit, Remaining, Lesser, Greater, Actor
<1>10. QED
  BY <1>3, <1>4, <1>5, <1>6, <1>7, <1>8, <1>9

(* The drop of a reservation keeps the invariant. *)
LEMMA ReleaseStep ==
  ASSUME IInv, NEW a \in Actor, NEW s \in Slot, Release(a, s)
  PROVE  IInv'
<1> USE DEF IInv, TypeOK, Release
<1>1. /\ live' \in [Actor \X Slot -> Nat]
      /\ Total(live) \in Nat
      /\ live[<<a, s>>] <= Total(live)
      /\ Total(live') = Total(live) - live[<<a, s>>]
      /\ Share(a)' = Share(a) - live[<<a, s>>]
      /\ \A c \in Actor \ {a} : Share(c)' = Share(c)
  BY LiveFreed
<1>2. \A c \in Actor :
        Share(c) \in Nat /\ \A r \in Slot : live[<<c, r>>] <= Share(c)
  BY ShareType
<1>3. used' \in Nat /\ used' <= used
  BY <1>1 DEF UsedIsHeld
<1>4. TypeOK'
  <2>1. a \in Call => local[a] - live[<<a, s>>] \in Nat
    BY <1>2 DEF LedgersAgree, InFlight
  <2>2. QED
    BY <1>1, <1>3, <2>1
<1>5. UsedIsHeld'
  BY <1>1 DEF UsedIsHeld
<1>6. WithinCapacity' /\ (used <= high)'
  BY <1>3, BudgetAssumption DEF WithinCapacity
<1>7. PeakIsHighWater'
  BY DEF PeakIsHighWater, InFlightPeak
<1>8. LedgersAgree'
  <2> SUFFICES ASSUME NEW c \in Call
               PROVE  (local[c] = Share(c) + InFlight(c))'
    BY DEF LedgersAgree
  <2>1. c \in Actor
    BY DEF Actor
  <2>2. QED
    BY <1>1, <1>2, <2>1 DEF LedgersAgree, InFlight
<1>9. ReturnedHoldsNothing'
  BY DEF ReturnedHoldsNothing, Actor
<1>10. CallsWithinLimit'
  BY BudgetAssumption DEF CallsWithinLimit, Lesser, Actor
<1>11. QED
  BY <1>4, <1>5, <1>6, <1>7, <1>8, <1>9, <1>10

(* Every step keeps the invariant. *)
LEMMA NextIInv == IInv /\ [Next]_vars => IInv'
<1> SUFFICES ASSUME IInv, [Next]_vars PROVE IInv'
  OBVIOUS
<1>1. CASE UNCHANGED vars
  <2>1. Total(live') = Total(live) /\ \A c \in Actor : Share(c)' = Share(c)
    BY <1>1, LiveSame DEF vars
  <2>2. QED
    BY <1>1, <2>1 DEF vars, IInv, TypeOK, UsedIsHeld, WithinCapacity,
         PeakIsHighWater, InFlightPeak, LedgersAgree, InFlight, Actor,
         ReturnedHoldsNothing, CallsWithinLimit
<1>2. CASE Next
  BY <1>2, BeginStep, TryReserveStep, LoadStep, SwapStep, SwapFailsStep,
     BusyStep, RecordPeakStep, ReleaseStep, ReturnStep DEF Next
<1>3. QED
  BY <1>1, <1>2

(* The strengthening of all the invariants below. *)
THEOREM Strengthening == Spec => []IInv
BY InitIInv, NextIInv, PTL DEF Spec

(* No u64 of the budget leaves its range: neither the counters nor what a  *)
(* drop subtracts (Drop for MemoryReservation).                            *)
THEOREM TypeCorrect == Spec => []TypeOK
<1>1. IInv => TypeOK
  BY DEF IInv
<1>2. QED
  BY <1>1, Strengthening, PTL

(* The shared counter is what the live reservations hold, for every        *)
(* interleaving of the exchange loop with releases and unwinding.          *)
THEOREM CounterIsExact == Spec => []UsedIsHeld
<1>1. IInv => UsedIsHeld
  BY DEF IInv
<1>2. QED
  BY <1>1, Strengthening, PTL

(* The shared capacity is never exceeded and `capacity - used` never wraps. *)
THEOREM CapacityHolds == Spec => []WithinCapacity
<1>1. IInv => WithinCapacity
  BY DEF IInv
<1>2. QED
  BY <1>1, Strengthening, PTL

(* peak_bytes misses no maximum, whatever order the fetch_max calls take.  *)
THEOREM PeakIsExact == Spec => []PeakIsHighWater
<1>1. IInv => PeakIsHighWater
  BY DEF IInv
<1>2. QED
  BY <1>1, Strengthening, PTL

(* The per-call ledger and the shared one never drift apart.               *)
THEOREM LedgersStayTogether == Spec => []LedgersAgree
<1>1. IInv => LedgersAgree
  BY DEF IInv
<1>2. QED
  BY <1>1, Strengthening, PTL

(* ResourceBusy is only ever contention, and ResourceLimit only ever a     *)
(* request that no release by others could admit.                          *)
THEOREM VerdictsCorrect == Spec => VerdictsAreRight
<1> DEFINE A ==
      \A a \in Call :
        /\ Busy(a) => Share(a) + size[a] <= Lesser(Limit, Capacity)
        /\ \A b \in Request :
             TryReserve(a, b) /\ pc'[a] = "unwind"
               => Share(a) + b > Lesser(Limit, Capacity)
<1>1. IInv => A
  <2> SUFFICES ASSUME IInv, NEW a \in Call PROVE A!(a)
    OBVIOUS
  <2>1. a \in Actor /\ Share(a) \in Nat
    BY ShareType DEF IInv, TypeOK, Actor
  <2>2. Busy(a) => Share(a) + size[a] <= Lesser(Limit, Capacity)
    BY <2>1 DEF IInv, Busy, LedgersAgree, InFlight, CallsWithinLimit
  <2>3. ASSUME NEW b \in Request, TryReserve(a, b), pc'[a] = "unwind"
        PROVE  Share(a) + b > Lesser(Limit, Capacity)
    <3>1. b > Remaining(a)
      BY <2>1, <2>3 DEF IInv, TypeOK, TryReserve
    <3>2. local[a] = Share(a) /\ local[a] <= Lesser(Limit, Capacity)
      BY <2>1, <2>3
         DEF IInv, TypeOK, TryReserve, LedgersAgree, InFlight, CallsWithinLimit
    <3>3. QED
      BY <2>1, <3>1, <3>2, BudgetAssumption DEF Remaining, Greater, Lesser
  <2>4. QED
    BY <2>2, <2>3
<1>2. QED
  BY <1>1, Strengthening, PTL DEF VerdictsAreRight
-----------------------------------------------------------------------------
(* The stages of the abstract allowance, as the threads' places show them. *)
stage == [a \in Actor |-> StageOf(a)]

(* A step of one thread leaves the stages of the others as they are. *)
LEMMA StageOthers ==
  ASSUME TypeOK, NEW a \in Actor, NEW p \in Phases, NEW n \in Nat, NEW z \in Nat,
         pc' = [pc EXCEPT ![a] = p],
         seen' = [seen EXCEPT ![a] = n],
         size' = [size EXCEPT ![a] = z]
  PROVE  stage' = [stage EXCEPT ![a] = StageOf(a)']
<1>1. ASSUME NEW c \in Actor \ {a} PROVE StageOf(c)' = StageOf(c)
  <2>1. pc'[c] = pc[c] /\ seen'[c] = seen[c] /\ size'[c] = size[c]
    BY DEF TypeOK
  <2>2. QED
    BY <2>1 DEF StageOf, Admitted
<1>2. QED
  BY <1>1 DEF stage

(* What fits the abstract allowance, in the terms of this module. *)
LEMMA IdealFits ==
  ASSUME NEW b
  PROVE  Ideal!Fits(b) <=> Total(live) + b <= Capacity
BY DEF Ideal!Fits, Ideal!Total, Ideal!Cells, Ideal!CellsOf,
       Ideal!Cardinality, Total, Cells, CellsOf, Cardinality

(* Every step is a step of the allowance or leaves it as it is. *)
LEMMA AllowanceStep ==
  ASSUME IInv, IInv', NEW a \in Actor,
         \/ Begin(a)
         \/ \E b \in Request : TryReserve(a, b)
         \/ Load(a)
         \/ \E s \in Slot : Swap(a, s)
         \/ SwapFails(a)
         \/ Busy(a)
         \/ RecordPeak(a)
         \/ \E s \in Slot : Release(a, s)
         \/ Return(a)
  PROVE  Ideal!Next \/ UNCHANGED Ideal!vars
<1> USE DEF IInv, TypeOK
<1>0. /\ pc' = [pc EXCEPT ![a] = pc'[a]] /\ pc'[a] \in Phases
      /\ seen' = [seen EXCEPT ![a] = seen'[a]] /\ seen'[a] \in Nat
      /\ size' = [size EXCEPT ![a] = size'[a]] /\ size'[a] \in Nat
  BY DEF Begin, TryReserve, Load, Swap, SwapFails, Busy, RecordPeak, Release,
         Return, EndRequest
<1>1. stage' = [stage EXCEPT ![a] = StageOf(a)'] /\ stage[a] = StageOf(a)
  BY <1>0, StageOthers DEF stage
<1>2. CASE Begin(a) \/ Return(a)
  <2>1. StageOf(a)' = StageOf(a)
    BY <1>2 DEF Begin, Return, StageOf
  <2>2. QED
    BY <1>1, <1>2, <2>1 DEF Begin, Return, Ideal!vars, stage
<1>3. ASSUME NEW b \in Request, TryReserve(a, b)
      PROVE  Ideal!Next \/ UNCHANGED Ideal!vars
  <2>1. CASE b > Remaining(a)
    <3>1. StageOf(a)' = StageOf(a) /\ live' = live /\ size' = size
      BY <1>3, <2>1, BudgetAssumption
         DEF TryReserve, StageOf, Remaining, Greater, Lesser
    <3>2. QED
      BY <1>1, <3>1 DEF Ideal!vars, stage
  <2>2. CASE b <= Remaining(a)
    <3>1. /\ StageOf(a) = "none" /\ StageOf(a)' = "asked"
          /\ live' = live /\ size' = [size EXCEPT ![a] = b]
      BY <1>3, <2>2, BudgetAssumption
         DEF TryReserve, StageOf, Remaining, Greater, Lesser
    <3>2. Ideal!Ask(a, b)
      BY <1>1, <3>1 DEF Ideal!Ask, stage
    <3>3. QED
      BY <3>2 DEF Ideal!Next
  <2>3. QED
    BY <2>1, <2>2, BudgetAssumption DEF Remaining, Greater, Lesser
<1>4. CASE Load(a) \/ SwapFails(a)
  <2>1. /\ StageOf(a) = "asked" /\ live' = live /\ size' = size
        /\ seen'[a] = Total(live) /\ pc'[a] = "swap"
    BY <1>4 DEF Load, SwapFails, StageOf, UsedIsHeld
  <2>2. CASE Admitted(a)'
    <3>1. StageOf(a)' = StageOf(a)
      BY <2>1, <2>2 DEF StageOf
    <3>2. QED
      BY <1>1, <2>1, <3>1 DEF Ideal!vars, stage
  <2>3. CASE ~Admitted(a)'
    <3>1. StageOf(a)' = "refused"
      BY <2>1, <2>3 DEF StageOf
    <3>2. ~(Total(live) + size[a] <= Capacity)
      BY <2>1, <2>3, BudgetAssumption DEF Admitted, UsedIsHeld
    <3>3. Ideal!Refuse(a)
      BY <1>1, <2>1, <3>1, <3>2, IdealFits DEF Ideal!Refuse, stage
    <3>4. QED
      BY <3>3 DEF Ideal!Next
  <2>4. QED
    BY <2>2, <2>3
<1>5. ASSUME NEW s \in Slot, Swap(a, s)
      PROVE  Ideal!Next \/ UNCHANGED Ideal!vars
  <2>1. /\ StageOf(a) = "asked" /\ StageOf(a)' = "granted" /\ size' = size
        /\ live' = [live EXCEPT ![<<a, s>>] = @ + size[a]]
    BY <1>5 DEF Swap, StageOf
  <2>2. Total(live) + size[a] <= Capacity
    BY <1>5, BudgetAssumption DEF Swap, Admitted, UsedIsHeld
  <2>3. Ideal!Grant(a, s)
    BY <1>1, <2>1, <2>2, IdealFits DEF Ideal!Grant, stage
  <2>4. QED
    BY <2>3 DEF Ideal!Next
<1>6. CASE Busy(a) \/ RecordPeak(a)
  <2>1. /\ StageOf(a) \in {"granted", "refused"} /\ StageOf(a)' = "none"
        /\ live' = live /\ size' = [size EXCEPT ![a] = 0]
    BY <1>6 DEF Busy, RecordPeak, EndRequest, StageOf
  <2>2. Ideal!Answer(a)
    BY <1>1, <2>1 DEF Ideal!Answer, stage
  <2>3. QED
    BY <2>2 DEF Ideal!Next
<1>7. ASSUME NEW s \in Slot, Release(a, s)
      PROVE  Ideal!Next \/ UNCHANGED Ideal!vars
  <2>1. /\ StageOf(a) = "none" /\ StageOf(a)' = "none" /\ size' = size
        /\ live[<<a, s>>] > 0 /\ live' = [live EXCEPT ![<<a, s>>] = 0]
    BY <1>7 DEF Release, StageOf
  <2>2. stage' = stage
    BY <1>1, <2>1 DEF stage
  <2>3. Ideal!GiveBack(a, s)
    BY <2>1, <2>2 DEF Ideal!GiveBack, stage
  <2>4. QED
    BY <2>3 DEF Ideal!Next
<1>8. QED
  BY <1>2, <1>3, <1>4, <1>5, <1>6, <1>7

(* try_reserve is linearizable: the compare-exchange loop, its retries and *)
(* its stale reads implement the allowance that grants or refuses at once. *)
THEOREM Linearizable == Spec => ImplementsAllowance
<1>1. Init => Ideal!Init
  BY DEF Init, Ideal!Init, StageOf, Actor
<1>2. IInv /\ IInv' /\ [Next]_vars => [Ideal!Next]_(Ideal!vars)
  <2> SUFFICES ASSUME IInv, IInv', [Next]_vars
               PROVE  Ideal!Next \/ UNCHANGED Ideal!vars
    OBVIOUS
  <2>1. CASE UNCHANGED vars
    BY <2>1 DEF vars, Ideal!vars, StageOf, Admitted
  <2>2. CASE Next
    BY <2>2, AllowanceStep DEF Next
  <2>3. QED
    BY <2>1, <2>2
<1>3. QED
  BY <1>1, <1>2, Strengthening, PTL DEF Spec, Ideal!Spec, ImplementsAllowance
-----------------------------------------------------------------------------
(***************************************************************************)
(* The gate.  Its inductive invariant ties the mutex and the parked set to *)
(* what the threads do next, and owner and depth to the permits out.       *)
(***************************************************************************)
(* The mutex is held exactly by the thread that is under it. *)
MutexMatchesPhase ==
  \A t \in Thread : place[t] \in {"check", "try", "release"} <=> mutex = t

(* Waiting on the condition variable is a phase of its own. *)
ParkedMatchesPhase == \A t \in Thread : t \in parked <=> place[t] = "parked"

(* A permit that is being dropped is still out. *)
DroppingHolds ==
  \A t \in Thread : place[t] \in {"drop", "release"} => held[t] > 0

(* The gate is open exactly at depth 0. *)
OpenAtDepthZero == owner = NoThread <=> depth = 0

(* A reentrant backend never touches the gate. *)
ReentrantRuns == reentrant => \A t \in Thread : place[t] = "run"

GateInv ==
  /\ GateTypeOK
  /\ MutexMatchesPhase
  /\ ParkedMatchesPhase
  /\ DroppingHolds
  /\ OpenAtDepthZero
  /\ ReentrantRuns
  /\ GateMatchesPermits
  /\ NoLostWakeup

(* A new gate satisfies the invariant. *)
LEMMA InitGateInv == GateInit => GateInv
  BY GateAssumption
  DEF GateInit, GateInv, GateTypeOK, ThreadPhases, MutexMatchesPhase, ParkedMatchesPhase,
      DroppingHolds, OpenAtDepthZero, ReentrantRuns, GateMatchesPermits,
      NoLostWakeup

(* Entering a call keeps the invariant. *)
LEMMA AcquireStep ==
  ASSUME GateInv, NEW t \in Thread, Acquire(t)
  PROVE  GateInv'
  BY GateAssumption
  DEF GateInv, GateTypeOK, ThreadPhases, MutexMatchesPhase, ParkedMatchesPhase,
      DroppingHolds, OpenAtDepthZero, ReentrantRuns, GateMatchesPermits,
      NoLostWakeup, Acquire, NextCall, Move, state

(* Taking the mutex, for admission or for a drop, keeps the invariant. *)
LEMMA LockStep ==
  ASSUME GateInv, NEW t \in Thread, LockToAcquire(t) \/ LockToDrop(t)
  PROVE  GateInv'
  BY GateAssumption
  DEF GateInv, GateTypeOK, ThreadPhases, MutexMatchesPhase, ParkedMatchesPhase,
      DroppingHolds, OpenAtDepthZero, ReentrantRuns, GateMatchesPermits,
      NoLostWakeup, LockToAcquire, LockToDrop, LockFor, Move, state

(* Parking and leaving the loop with the gate keep the invariant. *)
LEMMA CheckStep ==
  ASSUME GateInv, NEW t \in Thread, CheckOwner(t)
  PROVE  GateInv'
  BY GateAssumption
  DEF GateInv, GateTypeOK, ThreadPhases, MutexMatchesPhase, ParkedMatchesPhase,
      DroppingHolds, OpenAtDepthZero, ReentrantRuns, GateMatchesPermits,
      NoLostWakeup, CheckOwner, OwnedByOther, Take, Move, state

(* A wake-up nobody sent keeps the invariant. *)
LEMMA SpuriousStep ==
  ASSUME GateInv, NEW t \in Thread, SpuriousWake(t)
  PROVE  GateInv'
  BY GateAssumption
  DEF GateInv, GateTypeOK, ThreadPhases, MutexMatchesPhase, ParkedMatchesPhase,
      DroppingHolds, OpenAtDepthZero, ReentrantRuns, GateMatchesPermits,
      NoLostWakeup, SpuriousWake, Move, state

(* The nonblocking call keeps the invariant, busy or not. *)
LEMMA TryStep ==
  ASSUME GateInv, NEW t \in Thread, TryAcquire(t) \/ TryOwner(t)
  PROVE  GateInv'
  BY GateAssumption
  DEF GateInv, GateTypeOK, ThreadPhases, MutexMatchesPhase, ParkedMatchesPhase,
      DroppingHolds, OpenAtDepthZero, ReentrantRuns, GateMatchesPermits,
      NoLostWakeup, TryAcquire, TryOwner, NextCall, OwnedByOther, Take, Move,
      state

(* The end of a closure keeps the invariant. *)
LEMMA DropStep ==
  ASSUME GateInv, NEW t \in Thread, DropPermit(t)
  PROVE  GateInv'
  BY GateAssumption
  DEF GateInv, GateTypeOK, ThreadPhases, MutexMatchesPhase, ParkedMatchesPhase,
      DroppingHolds, OpenAtDepthZero, ReentrantRuns, GateMatchesPermits,
      NoLostWakeup, DropPermit, Move, state

(* The last permit opens the gate and wakes a waiter, an inner one lowers  *)
(* the depth: both keep the invariant.                                     *)
LEMMA ReleaseGateStep ==
  ASSUME GateInv, NEW t \in Thread, ReleaseGate(t)
  PROVE  GateInv'
<1> USE GateAssumption
      DEF GateInv, GateTypeOK, ThreadPhases, MutexMatchesPhase, ParkedMatchesPhase,
          DroppingHolds, OpenAtDepthZero, ReentrantRuns, GateMatchesPermits,
          NoLostWakeup
<1>1. owner = t /\ held[t] = depth /\ depth > 0 /\ ~reentrant
  BY DEF ReleaseGate
<1>2. CASE depth = 1 /\ parked = {}
  BY <1>1, <1>2 DEF ReleaseGate, NotifyOne
<1>3. CASE depth = 1 /\ parked # {}
  <2>1. PICK w \in parked : /\ parked' = parked \ {w}
                            /\ place' = [place EXCEPT ![t] = "run", ![w] = "lock"]
    BY <1>1, <1>3 DEF ReleaseGate, NotifyOne
  <2>2. w \in Thread /\ w # t
    BY <2>1 DEF ReleaseGate
  <2> QED
    BY <1>1, <1>3, <2>1, <2>2 DEF ReleaseGate
<1>4. CASE depth # 1
  BY <1>1, <1>4 DEF ReleaseGate
<1> QED
  BY <1>2, <1>3, <1>4

(* Every step keeps the invariant. *)
LEMMA NextGateInv == GateInv /\ [GateNext]_gateVars => GateInv'
<1> SUFFICES ASSUME GateInv, [GateNext]_gateVars PROVE GateInv'
  OBVIOUS
<1>1. CASE UNCHANGED gateVars
  BY <1>1
  DEF gateVars, GateInv, GateTypeOK, MutexMatchesPhase, ParkedMatchesPhase,
      DroppingHolds, OpenAtDepthZero, ReentrantRuns, GateMatchesPermits,
      NoLostWakeup
<1>2. CASE GateNext
  BY <1>2, AcquireStep, LockStep, CheckStep, SpuriousStep, TryStep, DropStep,
     ReleaseGateStep DEF GateNext
<1> QED
  BY <1>1, <1>2

(* The strengthening holds in every reachable state. *)
THEOREM GateStrengthening == GateSpec => []GateInv
  BY InitGateInv, NextGateInv, PTL DEF GateSpec

(* The variables keep their types; the depth never goes below zero. *)
THEOREM GateTypeCorrect == GateSpec => []GateTypeOK
<1>1. GateInv => GateTypeOK
  BY DEF GateInv
<1> QED
  BY <1>1, GateStrengthening, PTL

(* Owner and depth are exactly the permits that are out. *)
THEOREM GateIsExact == GateSpec => []GateMatchesPermits
<1>1. GateInv => GateMatchesPermits
  BY DEF GateInv
<1> QED
  BY <1>1, GateStrengthening, PTL

(* Two threads are never in a closure of a backend that is not reentrant.  *)
THEOREM MutualExclusion == GateSpec => []OneThreadInside
<1>1. GateInv => OneThreadInside
  BY DEF GateInv, GateTypeOK, GateMatchesPermits, OneThreadInside
<1> QED
  BY <1>1, GateStrengthening, PTL

(* While callers are parked at a free gate, another one is awake. *)
THEOREM WakeupsArrive == GateSpec => []NoLostWakeup
<1>1. GateInv => NoLostWakeup
  BY DEF GateInv
<1> QED
  BY <1>1, GateStrengthening, PTL

(* The thread that is about to take the gate is alone with it. *)
LEMMA OthersOutside ==
  ASSUME GateInv, ~reentrant, NEW t \in Thread, ~OwnedByOther(t)
  PROVE  \A u \in Thread \ {t} : held[u] = 0
  BY GateAssumption DEF GateInv, GateTypeOK, GateMatchesPermits, OwnedByOther

(* Every step is a step of the section or leaves it as it is. *)
LEMMA SectionStep ==
  ASSUME GateInv, [GateNext]_gateVars
  PROVE  [Section!Next]_(Section!vars)
<1> USE DEF Section!vars, Section!Next
<1>1. CASE UNCHANGED gateVars
  BY <1>1 DEF gateVars
<1>2. ASSUME NEW t \in Thread, reentrant, Acquire(t) \/ TryAcquire(t)
      PROVE  Section!Enter(t)
  BY <1>2 DEF Section!Enter, Acquire, TryAcquire
<1>3. ASSUME NEW t \in Thread, ~OwnedByOther(t), Take(t),
             UNCHANGED reentrant, ~reentrant
      PROVE  Section!Enter(t)
  BY <1>3, OthersOutside DEF Section!Enter, Take
<1>4. ASSUME NEW t \in Thread, CheckOwner(t) \/ TryOwner(t)
      PROVE  Section!Enter(t) \/ UNCHANGED Section!vars
  <2>1. ~reentrant
    BY <1>4 DEF GateInv, ReentrantRuns, CheckOwner, TryOwner, Move
  <2> QED
    BY <1>3, <1>4, <2>1 DEF CheckOwner, TryOwner
<1>5. ASSUME NEW t \in Thread, ReleaseGate(t) \/ (reentrant /\ DropPermit(t))
      PROVE  Section!Leave(t)
  BY <1>5
  DEF Section!Leave, ReleaseGate, DropPermit, GateInv, GateTypeOK, DroppingHolds
<1>6. ASSUME NEW t \in Thread,
             \/ ~reentrant /\ (Acquire(t) \/ TryAcquire(t) \/ DropPermit(t))
             \/ LockToAcquire(t) \/ LockToDrop(t) \/ SpuriousWake(t)
      PROVE  UNCHANGED Section!vars
  BY <1>6 DEF Acquire, TryAcquire, DropPermit, LockToAcquire, LockToDrop,
              LockFor, SpuriousWake
<1> QED
  BY <1>1, <1>2, <1>4, <1>5, <1>6 DEF GateNext

(* The gate implements the section that is entered and left in one step.   *)
THEOREM GateIsASection == GateSpec => ImplementsSection
<1>1. GateInit => Section!Init
  BY DEF GateInit, Section!Init
<1>2. GateInv /\ [GateNext]_gateVars => [Section!Next]_(Section!vars)
  BY SectionStep
<1> QED
  BY <1>1, <1>2, GateStrengthening, PTL DEF GateSpec, ImplementsSection, Section!Spec
=============================================================================
