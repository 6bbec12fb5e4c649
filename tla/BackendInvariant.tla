-------------------------- MODULE BackendInvariant --------------------------
(***************************************************************************)
(* The inductive invariant of BackendChannel.                              *)
(***************************************************************************)
EXTENDS BackendChannel

\* A connection exists from ConnectSucceeds to WriterJoins.
Connected == run_pc \in {"cpu", "wait", "write"}

\* Which combinations of state_, the two coroutines, the descriptor and the
\* queues occur.
LifeCycle ==
  /\ reader_done <=> reader_pc = "none"
  /\ isStopped <=> run_pc = "none"
  /\ isHealthy => Connected /\ reader_pc # "none"
  /\ reader_pc # "none" => Connected
  /\ socket = "closed" <=> run_pc \in {"none", "sched", "sleep"}
  /\ ~(run_pc = "cpu" /\ reader_pc = "cpu")
  /\ reader_pc \in {"read", "sched"} => redis_in = <<>>
  /\ ~isHealthy => /\ write_queue = {} /\ pending_queue = <<>>
                   /\ queued_commands = 0
                   /\ \A o \in Owners : owed[o] = {}
  /\ ~Connected => /\ redis_in = <<>> /\ partial = Nothing
                   /\ stream = <<>> /\ written = 0 /\ emitted = 0
                   /\ inbound = <<>> /\ spoiled = FALSE /\ answered = 0

\* Commands leave in the order they were accepted in.
CommandsOrdered ==
  isHealthy =>
    /\ \A i, j \in 1 .. Len(stream) : i < j => stream[i] < stream[j]
    /\ \A i \in 1 .. Len(stream) : 0 < stream[i] /\ stream[i] <= accepted
    /\ \A b \in write_queue :
         /\ b.first > 0 /\ b.first + b.command_count <= accepted + 1
         /\ \A i \in 1 .. Len(stream) : stream[i] < b.first
         /\ \A c \in write_queue :
              b # c => \/ b.first + b.command_count <= c.first
                       \/ c.first + c.command_count <= b.first

\* The pending batches, in queue order, divide the unanswered part of the
\* reply stream among themselves.
Partitioned(pq, a, n) ==
  /\ a <= n
  /\ \A i \in 1 .. Len(pq) :
       a + pq[i].remaining_replies <= pq[i].upto /\ pq[i].upto <= n
  /\ \A i, j \in 1 .. Len(pq) :
       i < j => pq[i].upto + pq[j].remaining_replies <= pq[j].upto
  /\ \A k \in (a + 1) .. n : \E i \in 1 .. Len(pq) : k \in SlotsOf(pq[i])

SlotsPartitioned ==
  isHealthy => Partitioned(pending_queue, answered, Len(stream))

\* Redis answers what it received, which is what was started.
WireBounds ==
  /\ written <= Len(stream) /\ emitted <= written
  /\ run_pc = "write" => written < Len(stream)

\* What Redis has sent and the reader has not dispatched are the replies to
\* the next commands of the stream.
RepliesAligned ==
  isHealthy /\ ~spoiled =>
    /\ emitted = answered + Len(redis_in) + Len(inbound)
    /\ \A j \in 1 .. Len(redis_in) : redis_in[j] = stream[answered + j]
    /\ \A j \in 1 .. Len(inbound) :
         inbound[j] = stream[answered + Len(redis_in) + j]
    /\ partial # Nothing => Len(inbound) > 0 /\ partial = inbound[1]

\* TypeOK without queued_commands, whose type follows from the load's exactness.
TypesButLoad ==
  /\ state \in States
  /\ stop_requested \in BOOLEAN /\ reader_done \in BOOLEAN
  /\ write_queue \subseteq Batches
  /\ pending_queue \in Seq(Pendings)
  /\ writer_signal \in BOOLEAN
  /\ redis_in \in Seq(Int) /\ partial \in Int
  /\ run_pc \in RunPCs /\ reader_pc \in ReadPCs
  /\ socket \in {"closed", "open", "shut"}
  /\ stream \in Seq(Nat) /\ written \in Nat /\ emitted \in Nat
  /\ inbound \in Seq(Int) /\ spoiled \in BOOLEAN /\ answered \in Nat
  /\ accepted \in Nat
  /\ owed \in [Owners -> SUBSET Nat]

\* The inductive invariant.
IInv ==
  /\ TypesButLoad /\ LifeCycle /\ NoLostWakeup /\ CommandsOrdered
  /\ SlotsPartitioned /\ WireBounds /\ RepliesAligned
  /\ OwedIsQueued /\ QueuedCountExact

=============================================================================
