---------------------------- MODULE StickySignal ----------------------------
(***************************************************************************)
(* What the users of CoroutineSignal rely on, and all that BackendChannel  *)
(* and ClientSession model of it: a flag that notify() sets and that       *)
(* wait() takes, with at most one coroutine blocked in wait().             *)
(***************************************************************************)
CONSTANT Users       \* the coroutines that wait, each on a signal of its own

VARIABLES flag,      \* notified, and no wait() has returned for it yet
          blocked    \* suspended in wait()

vars == <<flag, blocked>>

Init ==
  /\ flag = [u \in Users |-> FALSE]
  /\ blocked = [u \in Users |-> FALSE]

\* One step of a caller may notify several signals.
Notify(S) ==
  /\ flag' = [u \in Users |-> u \in S \/ flag[u]]
  /\ UNCHANGED blocked

Returns(u) ==
  /\ ~blocked[u] /\ flag[u]
  /\ flag' = [flag EXCEPT ![u] = FALSE]
  /\ UNCHANGED blocked

Blocks(u) ==
  /\ ~blocked[u] /\ ~flag[u]
  /\ blocked' = [blocked EXCEPT ![u] = TRUE]
  /\ UNCHANGED flag

Wakes(u) ==
  /\ blocked[u] /\ flag[u]
  /\ flag' = [flag EXCEPT ![u] = FALSE]
  /\ blocked' = [blocked EXCEPT ![u] = FALSE]

Next ==
  \/ \E S \in SUBSET Users : Notify(S)
  \/ \E u \in Users : Returns(u) \/ Blocks(u) \/ Wakes(u)

Safe == Init /\ [][Next]_vars
Spec == Safe /\ \A u \in Users : WF_vars(Wakes(u))
=============================================================================
