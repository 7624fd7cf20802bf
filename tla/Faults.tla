------------------------------- MODULE Faults -------------------------------
(* Checks made one after the other.  A fault is the kind of an error, or   *)
(* "none".                                                                 *)
EXTENDS ByteTotals, Sequences, FiniteSetsExt, SequencesExt

(* The first of a list of checks that fails. *)
FirstFault(checks) ==
  LET failing == {i \in DOMAIN checks : checks[i] # "none"}
  IN  IF failing = {} THEN "none" ELSE checks[Min(failing)]
Check(fails, kind) == IF fails THEN kind ELSE "none"

SumOf(terms) == RunningSums(terms)[Len(terms)]
Product(factors) == RunningProducts(factors)[Len(factors)]
=============================================================================
