---------------------------- MODULE MCBenchParent ----------------------------
(* Two frames, two samples, a deadline of two ticks. *)
EXTENDS BenchParent
=============================================================================
