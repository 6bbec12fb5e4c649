------------------------------- MODULE Worker -------------------------------
(***************************************************************************)
(* How an accepted connection reaches a worker thread and becomes a        *)
(* session, and how a finished session is freed: acceptLoop() of           *)
(* src/src/proxy_server.cpp and Worker of src/src/worker.cpp.  The         *)
(* acceptor and the workers are threads; they share pending_fds_ under     *)
(* mutex_, the atomic has_pending_fds_ that is also read without the       *)
(* mutex, and the FdNotifier (external: readable from notify() to          *)
(* drain()).  On a worker's thread the sessions' coroutines run only while *)
(* the coroutine of run() is in co_poll().                                 *)
(*                                                                         *)
(* A connection is the number of its accept; a session is its connection.  *)
(***************************************************************************)
EXTENDS Integers, Sequences, FiniteSets, SequencesExt

CONSTANTS NumWorkers,   \* config_.workers
          MaxFds        \* bound: connections accepted

ASSUME WorkersAssumption == NumWorkers \in Nat \ {0} /\ MaxFds \in Nat

VARIABLES
  acceptor_pc, next_worker,   \* acceptLoop(), and next_worker of it
  accepted,                   \* the last connection accepted
  worker_pc,                  \* where the coroutine of each run() is
  mutex,                      \* mutex_: who holds it
  pending_fds,                \* pending_fds_
  has_pending_fds,            \* has_pending_fds_
  readable,                   \* fd_notifier_ has something to read
  fds,                        \* the local deque of reapFds()
  sessions,                   \* sessions_
  finished_sessions           \* finished_sessions_

acceptor == <<acceptor_pc, next_worker, accepted>>
freeing  == <<sessions, finished_sessions>>
vars == <<acceptor, worker_pc, mutex, pending_fds, has_pending_fds, readable,
          fds, freeing>>

Workers == 1 .. NumWorkers

Init ==
  /\ acceptor_pc = "accept" /\ next_worker = 1 /\ accepted = 0
  /\ worker_pc = [w \in Workers |-> "reapFds"]
  /\ mutex = [w \in Workers |-> "free"]
  /\ pending_fds = [w \in Workers |-> <<>>]
  /\ has_pending_fds = [w \in Workers |-> FALSE]
  /\ readable = [w \in Workers |-> FALSE]
  /\ fds = [w \in Workers |-> <<>>]
  /\ sessions = [w \in Workers |-> {}]
  /\ finished_sessions = [w \in Workers |-> <<>>]

-----------------------------------------------------------------------------
(* The acceptor thread: dispatchFd() in its three visible steps *)

\* Variant: no turn.
SameWorker(n) == n

NextWorker(n) == (n % NumWorkers) + 1

Accept ==
  /\ acceptor_pc = "accept" /\ accepted < MaxFds
  /\ accepted' = accepted + 1
  /\ acceptor_pc' = "push"
  /\ UNCHANGED <<next_worker, worker_pc, mutex, pending_fds, has_pending_fds,
                 readable, fds, freeing>>

DispatchPush ==
  /\ acceptor_pc = "push" /\ mutex[next_worker] = "free"
  /\ mutex' = [mutex EXCEPT ![next_worker] = "acceptor"]
  /\ pending_fds' = [pending_fds EXCEPT ![next_worker] = Append(@, accepted)]
  /\ acceptor_pc' = "flag"
  /\ UNCHANGED <<next_worker, accepted, worker_pc, has_pending_fds, readable,
                 fds, freeing>>

DispatchFlag ==
  /\ acceptor_pc = "flag"
  /\ has_pending_fds' = [has_pending_fds EXCEPT ![next_worker] = TRUE]
  /\ mutex' = [mutex EXCEPT ![next_worker] = "free"]
  /\ acceptor_pc' = "notify"
  /\ UNCHANGED <<next_worker, accepted, worker_pc, pending_fds, readable, fds,
                 freeing>>

DispatchNotify ==
  /\ acceptor_pc = "notify"
  /\ readable' = [readable EXCEPT ![next_worker] = TRUE]
  /\ next_worker' = NextWorker(next_worker)
  /\ acceptor_pc' = "accept"
  /\ UNCHANGED <<accepted, worker_pc, mutex, pending_fds, has_pending_fds, fds,
                 freeing>>

-----------------------------------------------------------------------------
(* The coroutine of Worker::run() *)

\* The test of has_pending_fds_ without the mutex.
ReapTests(w) ==
  /\ worker_pc[w] = "reapFds"
  /\ worker_pc' = [worker_pc EXCEPT ![w] =
                     IF has_pending_fds[w] THEN "lock" ELSE "reapSessions"]
  /\ UNCHANGED <<acceptor, mutex, pending_fds, has_pending_fds, readable, fds,
                 freeing>>

\* Variant: the swap outside the mutex.
SwapsUnlocked(w) ==
  /\ worker_pc[w] = "lock" /\ mutex[w] = "free"
  /\ fds' = [fds EXCEPT ![w] = pending_fds[w]]
  /\ pending_fds' = [pending_fds EXCEPT ![w] = <<>>]
  /\ worker_pc' = [worker_pc EXCEPT ![w] = "clear"]
  /\ UNCHANGED <<acceptor, mutex, has_pending_fds, readable, freeing>>

ReapSwaps(w) ==
  /\ worker_pc[w] = "lock" /\ mutex[w] = "free"
  /\ mutex' = [mutex EXCEPT ![w] = "worker"]
  /\ fds' = [fds EXCEPT ![w] = pending_fds[w]]
  /\ pending_fds' = [pending_fds EXCEPT ![w] = <<>>]
  /\ worker_pc' = [worker_pc EXCEPT ![w] = "clear"]
  /\ UNCHANGED <<acceptor, has_pending_fds, readable, freeing>>

ReapClears(w) ==
  /\ worker_pc[w] = "clear"
  /\ has_pending_fds' = [has_pending_fds EXCEPT ![w] = FALSE]
  /\ mutex' = [mutex EXCEPT ![w] = "free"]
  /\ worker_pc' = [worker_pc EXCEPT ![w] = "create"]
  /\ UNCHANGED <<acceptor, pending_fds, readable, fds, freeing>>

\* One session per descriptor taken, started at once.
ReapCreates(w) ==
  /\ worker_pc[w] = "create"
  /\ sessions' = [sessions EXCEPT ![w] = @ \cup ToSet(fds[w])]
  /\ fds' = [fds EXCEPT ![w] = <<>>]
  /\ worker_pc' = [worker_pc EXCEPT ![w] = "reapSessions"]
  /\ UNCHANGED <<acceptor, mutex, pending_fds, has_pending_fds, readable,
                 finished_sessions>>

reapSessions(w) ==
  /\ worker_pc[w] = "reapSessions"
  /\ sessions' = [sessions EXCEPT ![w] = @ \ ToSet(finished_sessions[w])]
  /\ finished_sessions' = [finished_sessions EXCEPT ![w] = <<>>]
  /\ worker_pc' = [worker_pc EXCEPT ![w] = "poll"]
  /\ UNCHANGED <<acceptor, mutex, pending_fds, has_pending_fds, readable, fds>>

\* co_poll() returns; drain() follows unless it returned an error.
PollReturns(w) ==
  /\ worker_pc[w] = "poll"
  /\ \/ readable[w] /\ worker_pc' = [worker_pc EXCEPT ![w] = "drain"]
     \/ worker_pc' = [worker_pc EXCEPT ![w] = "reapFds"]
  /\ UNCHANGED <<acceptor, mutex, pending_fds, has_pending_fds, readable, fds,
                 freeing>>

Drain(w) ==
  /\ worker_pc[w] = "drain"
  /\ readable' = [readable EXCEPT ![w] = FALSE]
  /\ worker_pc' = [worker_pc EXCEPT ![w] = "reapFds"]
  /\ UNCHANGED <<acceptor, mutex, pending_fds, has_pending_fds, fds, freeing>>

\* Variant: the callback without notify().
EndsUnnoticed(w, x) ==
  /\ worker_pc[w] = "poll"
  /\ x \in sessions[w] \ ToSet(finished_sessions[w])
  /\ finished_sessions' = [finished_sessions EXCEPT ![w] = Append(@, x)]
  /\ UNCHANGED <<acceptor, worker_pc, mutex, pending_fds, has_pending_fds,
                 readable, fds, sessions>>

\* A session's last loop ends: the on_finished_ callback given to start().
SessionEnds(w, x) ==
  /\ worker_pc[w] = "poll"
  /\ x \in sessions[w] \ ToSet(finished_sessions[w])
  /\ finished_sessions' = [finished_sessions EXCEPT ![w] = Append(@, x)]
  /\ readable' = [readable EXCEPT ![w] = TRUE]
  /\ UNCHANGED <<acceptor, worker_pc, mutex, pending_fds, has_pending_fds, fds,
                 sessions>>

-----------------------------------------------------------------------------
AcceptorStep == DispatchPush \/ DispatchFlag \/ DispatchNotify

WorkerStep(w) ==
  \/ ReapTests(w) \/ ReapSwaps(w) \/ ReapClears(w) \/ ReapCreates(w)
  \/ reapSessions(w) \/ Drain(w)

Next ==
  \/ Accept \/ AcceptorStep
  \/ \E w \in Workers : \/ WorkerStep(w) \/ PollReturns(w)
                        \/ \E x \in 1 .. MaxFds : SessionEnds(w, x)

Spec == Init /\ [][Next]_vars

\* The threads keep running; a coroutine in co_poll() is resumed when its
\* descriptor is readable, and an error of co_poll() may never come.
FairSpec ==
  /\ Spec
  /\ WF_vars(AcceptorStep)
  /\ \A w \in Workers : /\ WF_vars(WorkerStep(w))
                        /\ WF_vars(readable[w] /\ PollReturns(w))

-----------------------------------------------------------------------------
(* Properties *)

\* A worker's coroutine never sleeps in co_poll() with connections to take or
\* sessions to free, unless the notifier is readable or notify() comes next.
NoLostWakeup ==
  \A w \in Workers :
    worker_pc[w] = "poll"
      /\ (pending_fds[w] # <<>> \/ finished_sessions[w] # <<>>)
    => readable[w] \/ (next_worker = w /\ acceptor_pc \in {"flag", "notify"})

\* The unlocked test of has_pending_fds_ never hides a connection for good:
\* with the mutex free, the flag says whether pending_fds_ holds something.
FlagIsExact ==
  \A w \in Workers :
    mutex[w] = "free" => (has_pending_fds[w] <=> pending_fds[w] # <<>>)

\* Connections go to the workers in turn, and a worker serves its own in the
\* order they were accepted, each once: those it has not taken yet are ordered
\* and later than every session it has.
HandedOverInTurn ==
  \A w \in Workers :
    LET waiting == fds[w] \o pending_fds[w]
    IN  /\ \A x \in sessions[w] \cup ToSet(waiting) : x % NumWorkers = w % NumWorkers
        /\ \A i, j \in DOMAIN waiting : i < j => waiting[i] < waiting[j]
        /\ \A x \in sessions[w], i \in DOMAIN waiting : x < waiting[i]

\* Every accepted connection becomes a session.
EveryFdServed ==
  \A x \in 1 .. MaxFds :
    \/ accepted = x /\ acceptor_pc = "push"
    \/ \E w \in Workers : x \in ToSet(fds[w] \o pending_fds[w])
    ~> \E w \in Workers : x \in sessions[w]

\* Every finished session is freed.
EverySessionFreed ==
  \A x \in 1 .. MaxFds, w \in Workers :
    x \in ToSet(finished_sessions[w]) ~> x \notin sessions[w]
=============================================================================
