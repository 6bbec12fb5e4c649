------------------------- MODULE BackendRefinement --------------------------
(* How the channel implements the contract its users rely on. *)
EXTENDS BackendChannel

Contract == INSTANCE BackendContract WITH
              up <- isHealthy, load <- queued_commands

\* The channel keeps the contract its users rely on: per-owner order, exactly
\* one callback per command or one failure, no callback after detachOwner(),
\* and a load that counts every command Redis still has to answer.
KeepsContract == Contract!Spec

=============================================================================
