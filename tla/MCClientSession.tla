-------------------------- MODULE MCClientSession ---------------------------
(* ClientSession for TLC. *)
EXTENDS ClientSession, SequencesExt

CONSTANTS MaxScript   \* bound: requests a client sends

\* An unfinished request is the last thing a client sends.
ScriptsUpTo(n) ==
  {x \in BoundedSeq({"cmd", "rej", "bad", "part"}, n) :
     \A i \in DOMAIN x : x[i] = "part" => i = Len(x)}

MCScripts == ScriptsUpTo(MaxScript)
\* Two sessions at a time: both may share a channel, lose it together, or leave
\* commands behind for the other to queue after.
PairScripts == {<<"cmd", "cmd">>, <<"cmd", "rej">>}
Symmetry  == Permutations(Sessions)
=============================================================================
