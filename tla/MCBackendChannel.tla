-------------------------- MODULE MCBackendChannel --------------------------
(* BackendChannel for TLC. *)
EXTENDS BackendRefinement, TLC

Symmetry == Permutations(Owners)

=============================================================================
