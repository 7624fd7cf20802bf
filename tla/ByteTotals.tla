----------------------------- MODULE ByteTotals -----------------------------
(***************************************************************************)
(* The sum of a function f : D -> Nat, such as the bytes that reservations *)
(* hold or the checksums of units, is written as the size of a set: a cell *)
(* <<d, i>> for each unit i that d holds.  Written so, the sum has no      *)
(* recursion, and the theorems about finite sets give its arithmetic.      *)
(* Sums and products of a list, whose order matters, are functions that    *)
(* give at n what the first n terms come to.                               *)
(***************************************************************************)
EXTENDS Integers, FiniteSets, Sequences

(* One cell for each unit held. *)
CellsOf(f, d) == {d} \X (1 .. f[d])
Cells(f) == UNION {CellsOf(f, d) : d \in DOMAIN f}

(* What all of DOMAIN f hold together. *)
Total(f) == Cardinality(Cells(f))

RunningSums(terms) ==
  LET sum[n \in 0..Len(terms)] == IF n = 0 THEN 0 ELSE sum[n - 1] + terms[n]
  IN  sum
RunningProducts(factors) ==
  LET product[n \in 0..Len(factors)] ==
        IF n = 0 THEN 1 ELSE product[n - 1] * factors[n]
  IN  product

Lesser(a, b)  == IF a <= b THEN a ELSE b
Greater(a, b) == IF a >= b THEN a ELSE b
=============================================================================
