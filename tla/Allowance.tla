------------------------------ MODULE Allowance ------------------------------
(***************************************************************************)
(* What a shared memory allowance promises, with no counter, no retry loop *)
(* and no clock: a holder asks for some bytes on top of one of its         *)
(* reservations, and in ONE indivisible step the request is granted, when  *)
(* it fits beside everything granted at that instant, or refused, when it  *)
(* does not.  Refusal needs a reason: a request that fits is never         *)
(* refused.  MemoryBudget, with its atomic counters, implements this.      *)
(***************************************************************************)
EXTENDS ByteTotals

CONSTANTS
  Holder,    \* the threads that reserve
  Slot,      \* names for the reservations of one holder
  Request,   \* the request sizes a holder may ask for
  Capacity   \* the bytes there are

VARIABLES
  granted,   \* bytes of each reservation, <<holder, slot>>
  stage,     \* where the one request of a holder stands
  wanted     \* the bytes it asks for

vars == <<granted, stage, wanted>>

Stages == {"none", "asked", "granted", "refused"}

Fits(b) == Total(granted) + b <= Capacity

Init ==
  /\ granted = [r \in Holder \X Slot |-> 0]
  /\ stage = [h \in Holder |-> "none"]
  /\ wanted = [h \in Holder |-> 0]

Ask(h, b) ==
  /\ stage[h] = "none"
  /\ stage' = [stage EXCEPT ![h] = "asked"]
  /\ wanted' = [wanted EXCEPT ![h] = b]
  /\ UNCHANGED granted

Grant(h, s) ==
  /\ stage[h] = "asked"
  /\ Fits(wanted[h])
  /\ granted' = [granted EXCEPT ![<<h, s>>] = @ + wanted[h]]
  /\ stage' = [stage EXCEPT ![h] = "granted"]
  /\ UNCHANGED wanted

Refuse(h) ==
  /\ stage[h] = "asked"
  /\ ~Fits(wanted[h])
  /\ stage' = [stage EXCEPT ![h] = "refused"]
  /\ UNCHANGED <<granted, wanted>>

(* The holder learns the answer, and may ask again. *)
Answer(h) ==
  /\ stage[h] \in {"granted", "refused"}
  /\ stage' = [stage EXCEPT ![h] = "none"]
  /\ wanted' = [wanted EXCEPT ![h] = 0]
  /\ UNCHANGED granted

GiveBack(h, s) ==
  /\ stage[h] = "none"
  /\ granted[<<h, s>>] > 0
  /\ granted' = [granted EXCEPT ![<<h, s>>] = 0]
  /\ UNCHANGED <<stage, wanted>>

Next ==
  \E h \in Holder :
    \/ \E b \in Request : Ask(h, b)
    \/ \E s \in Slot : Grant(h, s)
    \/ Refuse(h)
    \/ Answer(h)
    \/ \E s \in Slot : GiveBack(h, s)

Spec == Init /\ [][Next]_vars
=============================================================================
