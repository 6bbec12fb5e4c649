---------------------------- MODULE BackendPool ----------------------------
(***************************************************************************)
(* BackendPool::select() of src/src/backend_pool.cpp: which of a worker's  *)
(* channels a session's next batch goes to.  Channels are numbered in the  *)
(* order of channels_.                                                     *)
(***************************************************************************)
EXTENDS Integers

NoChannel == 0     \* nullptr

Healthy(up) == {c \in DOMAIN up : up[c]}

\* The loop keeps the first of the least loaded channels.
FirstLeastLoaded(up, load) ==
  CHOOSE c \in Healthy(up) : \A d \in Healthy(up) :
    load[c] < load[d] \/ (load[c] = load[d] /\ c <= d)

\* Variant: the least loaded channel, also for a session with replies to come.
selectAnew(current, up, load) ==
  IF Healthy(up) = {} THEN NoChannel ELSE FirstLeastLoaded(up, load)

\* A session with replies outstanding stays with its channel or gets none.
select(current, up, load) ==
  IF current # NoChannel
  THEN IF up[current] THEN current ELSE NoChannel
  ELSE IF Healthy(up) = {} THEN NoChannel ELSE FirstLeastLoaded(up, load)
=============================================================================
