--------------------------- MODULE MCMemoryBudget ---------------------------
(* Two validation calls and a host thread on one shared allowance.          *)
EXTENDS MemoryBudget

CONSTANTS c1, c2, h1, r1, r2
=============================================================================
