----------------------------- MODULE MCIoBuffer -----------------------------
(* IoBuffer for TLC. *)
EXTENDS IoBuffer

Symmetry == Permutations(Blocks) \cup Permutations(Chains)
=============================================================================
