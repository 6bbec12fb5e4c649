----------------------------- MODULE MCCoSocket -----------------------------
(* CoSocket for TLC. *)
EXTENDS CoSocket

\* Chains as slicePrefix() and appendChain() make them, of one slice up to one
\* more than two rounds of iov hold; each sequence lists where the slices end.
MCChains == {<<3>>, <<1, 2, 4, 5, 6>>}
=============================================================================
