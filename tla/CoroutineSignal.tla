-------------------------- MODULE CoroutineSignal ---------------------------
(***************************************************************************)
(* CoroutineSignal (src/src/coroutine_signal.cpp) on the event loop of one *)
(* thread: the flag pending_ over a condition variable that by itself      *)
(* forgets a Signal() nobody waits for, and whose Signal() does not run    *)
(* the waiter but queues it behind the coroutines that are already         *)
(* runnable, while more notify() calls may come.                           *)
(*                                                                         *)
(* Every coroutine owns one signal and is the only one to wait on it, as   *)
(* the loops of BackendChannel and ClientSession are; any running          *)
(* coroutine may notify any signal, its own included.                      *)
(***************************************************************************)
EXTENDS Naturals, Sequences, SequencesExt

CONSTANT Coroutines

VARIABLES
  pending,   \* pending_ of each signal
  cond,      \* the coroutines in the list of each cond_
  active,    \* the event loop's list of runnable coroutines
  pc,        \* per coroutine: "run", "wait" in wait(), "poll" elsewhere
  news       \* per coroutine: notified since its last wait() returned

vars == <<pending, cond, active, pc, news>>

Idle == \A c \in Coroutines : pc[c] # "run"

Init ==
  /\ pending = [c \in Coroutines |-> FALSE]
  /\ cond = [c \in Coroutines |-> {}]
  /\ active = <<>>
  /\ pc = [c \in Coroutines |-> "poll"]
  /\ news = [c \in Coroutines |-> FALSE]

-----------------------------------------------------------------------------
(* CoCond, of the coroutine library: Signal() queues a waiter if there is one *)

Signal(d) ==
  IF cond[d] = {}
  THEN UNCHANGED <<cond, active>>
  ELSE \E w \in cond[d] : /\ cond' = [cond EXCEPT ![d] = @ \ {w}]
                          /\ active' = Append(active, w)

\* Variant: only a waiter makes notify() set the flag.
notifyWaiterOnly(c, d) ==
  /\ pc[c] = "run"
  /\ pending' = [pending EXCEPT ![d] = cond[d] # {} \/ @]
  /\ news' = [news EXCEPT ![d] = TRUE]
  /\ Signal(d)
  /\ UNCHANGED pc

notify(c, d) ==
  /\ pc[c] = "run"
  /\ pending' = [pending EXCEPT ![d] = TRUE]
  /\ news' = [news EXCEPT ![d] = TRUE]
  /\ Signal(d)
  /\ UNCHANGED pc

\* wait() with the flag set: returns at once.
waitReturns(c) ==
  /\ pc[c] = "run" /\ pending[c]
  /\ pending' = [pending EXCEPT ![c] = FALSE]
  /\ news' = [news EXCEPT ![c] = FALSE]
  /\ UNCHANGED <<cond, active, pc>>

\* Variant: wait() always goes to the condition variable.
waitAnyway(c) ==
  /\ pc[c] = "run"
  /\ cond' = [cond EXCEPT ![c] = @ \cup {c}]
  /\ pc' = [pc EXCEPT ![c] = "wait"]
  /\ UNCHANGED <<pending, active, news>>

\* wait() without: Timedwait(0), which has no timeout.
waitBlocks(c) ==
  /\ pc[c] = "run" /\ ~pending[c]
  /\ cond' = [cond EXCEPT ![c] = @ \cup {c}]
  /\ pc' = [pc EXCEPT ![c] = "wait"]
  /\ UNCHANGED <<pending, active, news>>

-----------------------------------------------------------------------------
(* The event loop and the coroutines' other suspensions (external) *)

Suspends(c) ==
  /\ pc[c] = "run"
  /\ pc' = [pc EXCEPT ![c] = "poll"]
  /\ UNCHANGED <<pending, cond, active, news>>

PollEnds(c) ==
  /\ pc[c] = "poll" /\ ~Contains(active, c)
  /\ active' = Append(active, c)
  /\ UNCHANGED <<pending, cond, pc, news>>

\* Variant: wait() leaves the flag as it finds it when it wakes.
FlagStays(c) ==
  /\ news' = [news EXCEPT ![c] = pc[c] # "wait" /\ @]
  /\ UNCHANGED pending

\* The end of wait() after Timedwait() returned: whatever was notified up to
\* now is taken together.
WaitTakes(c) ==
  IF pc[c] = "wait"
  THEN /\ pending' = [pending EXCEPT ![c] = FALSE]
       /\ news' = [news EXCEPT ![c] = FALSE]
  ELSE UNCHANGED <<pending, news>>

Resume ==
  /\ Idle /\ active # <<>>
  /\ LET c == Head(active)
     IN  pc' = [pc EXCEPT ![c] = "run"] /\ WaitTakes(c)
  /\ active' = Tail(active)
  /\ UNCHANGED cond

Next ==
  \/ Resume
  \/ \E c \in Coroutines :
       \/ waitReturns(c) \/ waitBlocks(c) \/ Suspends(c) \/ PollEnds(c)
       \/ \E d \in Coroutines : notify(c, d)

Spec == Init /\ [][Next]_vars

\* A coroutine gives up the thread, and the loop resumes who is runnable.
FairSpec ==
  /\ Spec
  /\ WF_vars(Resume)
  /\ \A c \in Coroutines : WF_vars(Suspends(c))

-----------------------------------------------------------------------------
(* Properties *)

\* A coroutine left in the list of cond_ has taken everything it was notified
\* of: no notify() falls between the test of pending_ and Timedwait(), or is
\* lost because it came before the waiter was resumed.
NothingMissed == \A c \in Coroutines : c \in cond[c] => ~news[c]

\* wait() returns only if it was notified since the last time it returned, so
\* that a loop around it does not spin on a flag it has already acted upon.
ReturnsOnNews ==
  [][\A c \in Coroutines :
       (waitReturns(c) \/ (pc[c] = "wait" /\ pc'[c] = "run")) => news[c]]_vars

Sticky == INSTANCE StickySignal
            WITH Users <- Coroutines, flag <- pending,
                 blocked <- [c \in Coroutines |-> pc[c] = "wait"]

\* Each signal is the sticky flag the other modules take it for, and a waiter
\* that was notified does run, however many others are queued before it.
ImplementsSticky == Sticky!Spec
=============================================================================
