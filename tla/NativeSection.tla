---------------------------- MODULE NativeSection ----------------------------
(***************************************************************************)
(* What the CFITSIO gate promises its callers: native work of a backend    *)
(* that is not reentrant runs on one thread at a time, and that thread may *)
(* nest its calls; a reentrant backend admits everyone.                    *)
(***************************************************************************)
EXTENDS Integers

CONSTANTS Thread

VARIABLES
  inside,     \* inside[t]: native sections t has entered and not left
  exclusive   \* the backend is not reentrant; fixed when the gate is built

vars == <<inside, exclusive>>

Init ==
  /\ inside = [t \in Thread |-> 0]
  /\ exclusive \in BOOLEAN

Enter(t) ==
  /\ exclusive => \A u \in Thread \ {t} : inside[u] = 0
  /\ inside' = [inside EXCEPT ![t] = @ + 1]
  /\ UNCHANGED exclusive

Leave(t) ==
  /\ inside[t] > 0
  /\ inside' = [inside EXCEPT ![t] = @ - 1]
  /\ UNCHANGED exclusive

Next == \E t \in Thread : Enter(t) \/ Leave(t)

Spec == Init /\ [][Next]_vars
=============================================================================
