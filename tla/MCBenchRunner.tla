---------------------------- MODULE MCBenchRunner ----------------------------
(* Two workers on five files: one result more than the channel holds.       *)
EXTENDS BenchRunner

CONSTANTS w1, w2
=============================================================================
