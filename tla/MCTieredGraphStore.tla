------------------------- MODULE MCTieredGraphStore -------------------------
(* A small instance of TieredGraphStore: nodes are interchangeable. *)
EXTENDS TieredGraphStore, TLC

MCSymmetry == Permutations(Node)

=============================================================================
