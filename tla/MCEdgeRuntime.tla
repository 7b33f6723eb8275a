---------------------------- MODULE MCEdgeRuntime ----------------------------
(* The screens, warnings and Tier-2 callers are model values of the .cfg.   *)
(* They are interchangeable, which the runs without a liveness property use. *)
EXTENDS EdgeRuntime, TLC

MCSymmetry == Permutations(Check) \cup Permutations(Signal)

=============================================================================
