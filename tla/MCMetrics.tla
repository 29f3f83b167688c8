----------------------------- MODULE MCMetrics -----------------------------
(* An instance of Metrics for TLC. *)
EXTENDS Metrics, TLC

CONSTANTS r1, r2, r3

Goroutines == Permutations({r1, r2, r3})
=============================================================================
