--------------------------- MODULE BackendChannel ---------------------------
(***************************************************************************)
(* One pipelined Redis connection shared by many reply sinks:              *)
(* BackendChannel of src/src/backend_channel.cpp.                          *)
(*                                                                         *)
(* All of it runs on one worker thread as cooperative coroutines.  A       *)
(* coroutine gives up the thread only where it suspends (connectTo,        *)
(* readSome, writeAll, CoroutineSignal::wait, co_poll) or ends, so the     *)
(* program counters below name exactly those places, plus one value, "cpu",*)
(* for a coroutine that is between two of them.  While a coroutine is at   *)
(* "cpu" nothing else on the thread moves (Yielded), but Redis does.       *)
(*                                                                         *)
(* Data: a command is the number it got when submit() accepted it; a batch *)
(* of command_count commands is the interval of numbers that starts at     *)
(* .first.  A reply is the number of the command it answers.               *)
(***************************************************************************)
EXTENDS Integers, Sequences, FiniteSets

CONSTANTS Owners,       \* the ReplySinks that use the channel
          NoOwner,      \* nullptr
          MaxBatch,     \* bound: commands per submitted batch
          MaxCommands   \* bound: commands submitted in a behaviour

ASSUME OwnersAssumption == NoOwner \notin Owners
ASSUME BoundsAssumption == MaxBatch \in Nat /\ MaxCommands \in Nat

VARIABLES
  state,            \* state_
  stop_requested,   \* stop_requested_
  reader_done,      \* reader_done_
  write_queue,      \* write_queue_: batches accepted, not started; a set, as
                    \* the deque's order is always the order of .first
  pending_queue,    \* pending_queue_: batches started, replies outstanding
  queued_commands,  \* queued_commands_
  writer_signal,    \* writer_signal_: the sticky flag of the CoroutineSignal
  redis_in,         \* redis_in_: complete replies read, not parsed
  partial,          \* redis_in_: the reply of which only a first part was read
  run_pc,           \* where the coroutine of run() and writerLoop() is
  reader_pc,        \* where the coroutine of readerLoop() is
  socket,           \* the descriptor of socket_: closed, open or shut down
  stream,           \* commands started on this connection, in order
  written,          \* how many of them are completely in the socket
  emitted,          \* how many of them Redis has answered
  inbound,          \* replies in the socket, not read
  spoiled,          \* Redis sent something that answers no command
  answered,         \* replies dispatched on this connection
  accepted,         \* commands submit() accepted so far
  owed              \* per owner, the commands it still expects a callback for

queues == <<write_queue, pending_queue, queued_commands, owed>>
input  == <<redis_in, partial>>
wire   == <<stream, written, emitted, inbound, spoiled, answered>>
vars   == <<state, stop_requested, reader_done, queues, writer_signal, input,
            run_pc, reader_pc, socket, wire, accepted>>

-----------------------------------------------------------------------------
(* Values *)

Unsolicited == 0     \* a well-formed reply nobody asked for
Malformed   == -1    \* bytes the reply parser refuses
Nothing     == -2    \* no partial reply in redis_in

Sinks    == Owners \cup {NoOwner}
Batches  == [owner : Owners, first : Nat, command_count : Nat \ {0}]
\* upto: position in stream of the batch's last command (history only).
Pendings == [owner : Sinks, remaining_replies : Nat \ {0}, upto : Nat]
States   == {"Stopped", "Connecting", "Ready", "Closing"}
RunPCs   == {"none", "sched", "connect", "cpu", "wait", "write", "sleep"}
ReadPCs  == {"none", "sched", "read", "cpu"}

isHealthy == state = "Ready"
isStopped == state = "Stopped"

\* No coroutine of the channel is between two suspension points, so another
\* one, or a caller on the same thread, may run.
Yielded == run_pc # "cpu" /\ reader_pc # "cpu"

CommandsOf(b) == b.first .. (b.first + b.command_count - 1)
InOrder(b)    == [i \in 1 .. b.command_count |-> b.first + i - 1]
SlotsOf(p)    == (p.upto - p.remaining_replies + 1) .. p.upto

\* Commands of o in the write queue, and in its places of the reply stream.
UnstartedOf(wq, o) == UNION {CommandsOf(b) : b \in {x \in wq : x.owner = o}}
StartedOf(cmds, pq, o) ==
  {cmds[k] : k \in UNION {SlotsOf(pq[i]) :
                              i \in {j \in DOMAIN pq : pq[j].owner = o}}}

\* All commands of the two queues, those of owners that left included.
QueuedIn(wq, cmds, pq) ==
  (UNION {UnstartedOf(wq, o) : o \in Owners}) \cup
  (UNION {StartedOf(cmds, pq, o) : o \in Sinks})

\* What an owner still expects once it has taken a reply for the oldest.
AfterReply(s) == {x \in s : \E y \in s : y < x}

\* Variant: failConnection() overlooks owners with unstarted batches only.
OwnersStarted(wq, pq) == {pq[i].owner : i \in DOMAIN pq} \ {NoOwner}

\* The set of owners failConnection() collects from the two queues.
OwnersIn(wq, pq) == {b.owner : b \in wq}
                      \cup ({pq[i].owner : i \in DOMAIN pq} \ {NoOwner})

-----------------------------------------------------------------------------
(* Operations of the owners *)

Init ==
  /\ state = "Stopped" /\ stop_requested = FALSE /\ reader_done = TRUE
  /\ write_queue = {} /\ pending_queue = <<>> /\ queued_commands = 0
  /\ writer_signal = FALSE
  /\ redis_in = <<>> /\ partial = Nothing
  /\ run_pc = "none" /\ reader_pc = "none" /\ socket = "closed"
  /\ stream = <<>> /\ written = 0 /\ emitted = 0 /\ inbound = <<>>
  /\ spoiled = FALSE /\ answered = 0
  /\ accepted = 0 /\ owed = [o \in Owners |-> {}]

\* submit(): a refused call (unhealthy channel, no commands) changes nothing.
submit(o, n) ==
  /\ Yielded
  /\ isHealthy /\ n > 0
  /\ accepted + n <= MaxCommands
  /\ write_queue' = write_queue \cup
       {[owner |-> o, first |-> accepted + 1, command_count |-> n]}
  /\ queued_commands' = queued_commands + n
  /\ writer_signal' = TRUE
  /\ accepted' = accepted + n
  /\ owed' = [owed EXCEPT ![o] = @ \cup ((accepted + 1) .. (accepted + n))]
  /\ UNCHANGED <<state, stop_requested, reader_done, pending_queue, input,
                 run_pc, reader_pc, socket, wire>>

\* Variants: detachOwner() leaves the unstarted batches in the queue, or takes
\* the started ones out of the reply stream.
UnstartedStay(wq, o) == wq
StartedErased(pq, o) == SelectSeq(pq, LAMBDA p : p.owner # o)

\* The two loops of detachOwner(): unstarted batches go, started ones keep
\* their place in the reply stream without an owner.
WithoutOwner(wq, o) == {b \in wq : b.owner # o}
Orphan(p) == [owner |-> NoOwner, remaining_replies |-> p.remaining_replies,
              upto |-> p.upto]
Disowned(pq, o) ==
  [i \in 1 .. Len(pq) |-> IF pq[i].owner = o THEN Orphan(pq[i]) ELSE pq[i]]

detachOwner(o) ==
  /\ Yielded
  /\ write_queue' = WithoutOwner(write_queue, o)
  /\ pending_queue' = Disowned(pending_queue, o)
  /\ queued_commands' =
       queued_commands - Cardinality(UnstartedOf(write_queue, o))
  /\ owed' = [owed EXCEPT ![o] = {}]
  /\ UNCHANGED <<state, stop_requested, reader_done, writer_signal, input,
                 run_pc, reader_pc, socket, wire, accepted>>

-----------------------------------------------------------------------------
(* Failure, start and stop *)

Shutdown(s) == IF s = "open" THEN "shut" ELSE s

\* failConnection(): a no-op unless Ready.  Every owner found in a queue gets
\* one onBackendFailure() and expects nothing more.
failConnection ==
  IF isHealthy
  THEN /\ state' = "Closing"
       /\ socket' = Shutdown(socket)
       /\ writer_signal' = TRUE
       /\ write_queue' = {} /\ pending_queue' = <<>> /\ queued_commands' = 0
       /\ owed' = [o \in Owners |->
                     IF o \in OwnersIn(write_queue, pending_queue)
                     THEN {} ELSE owed[o]]
  ELSE UNCHANGED <<state, socket, writer_signal, queues>>

start ==
  /\ Yielded
  /\ isStopped
  /\ stop_requested' = FALSE
  /\ state' = "Connecting"
  /\ run_pc' = "sched"
  /\ UNCHANGED <<reader_done, queues, writer_signal, input, reader_pc, socket,
                 wire, accepted>>

stop ==
  /\ Yielded
  /\ stop_requested' = TRUE
  /\ IF isHealthy
     THEN failConnection
     ELSE /\ socket' = Shutdown(socket)
          /\ writer_signal' = TRUE
          /\ UNCHANGED <<state, queues>>
  /\ UNCHANGED <<reader_done, input, run_pc, reader_pc, wire, accepted>>

-----------------------------------------------------------------------------
(* The coroutine of run(): connect, write, join the reader, tear down *)

\* Lines 110-114: close, clear, then sleep or leave the loop.
Teardown ==
  /\ socket' = "closed"
  /\ redis_in' = <<>> /\ partial' = Nothing
  /\ stream' = <<>> /\ written' = 0 /\ emitted' = 0 /\ inbound' = <<>>
  /\ spoiled' = FALSE /\ answered' = 0
  /\ IF stop_requested
     THEN state' = "Stopped" /\ run_pc' = "none"
     ELSE run_pc' = "sleep" /\ UNCHANGED state

\* Top of the loop, on the first run or after the 100 ms sleep.
RunLoop ==
  /\ Yielded
  /\ run_pc \in {"sched", "sleep"}
  /\ \/ /\ stop_requested
        /\ state' = "Stopped" /\ run_pc' = "none"
        /\ UNCHANGED socket
     \/ /\ ~stop_requested
        /\ state' = "Connecting"
        /\ \/ socket' = "open" /\ run_pc' = "connect"
           \/ run_pc' = "sleep" /\ UNCHANGED socket    \* no descriptor
  /\ UNCHANGED <<stop_requested, reader_done, queues, writer_signal, input,
                 reader_pc, wire, accepted>>

ConnectSucceeds ==
  /\ Yielded
  /\ run_pc = "connect" /\ ~stop_requested
  /\ state' = "Ready"
  /\ reader_done' = FALSE
  /\ reader_pc' = "sched"
  /\ run_pc' = "cpu"
  /\ UNCHANGED <<stop_requested, queues, writer_signal, input, socket, wire,
                 accepted>>

\* The connection is refused or times out, or stop() came meanwhile.
ConnectFails ==
  /\ Yielded
  /\ run_pc = "connect"
  /\ Teardown
  /\ UNCHANGED <<stop_requested, reader_done, queues, writer_signal,
                 reader_pc, accepted>>

\* What the coroutine waits for: work while Ready, the reader's end after.
NothingToDo == IF isHealthy THEN write_queue = {} ELSE ~reader_done

\* CoroutineSignal::wait() in writerLoop() and in run().
WriterWaits ==
  /\ run_pc = "cpu"
  /\ NothingToDo
  /\ IF writer_signal
     THEN writer_signal' = FALSE /\ UNCHANGED run_pc
     ELSE run_pc' = "wait" /\ UNCHANGED writer_signal
  /\ UNCHANGED <<state, stop_requested, reader_done, queues, input, reader_pc,
                 socket, wire, accepted>>

WriterWakes ==
  /\ Yielded
  /\ run_pc = "wait" /\ writer_signal
  /\ writer_signal' = FALSE
  /\ run_pc' = "cpu"
  /\ UNCHANGED <<state, stop_requested, reader_done, queues, input, reader_pc,
                 socket, wire, accepted>>

\* pop_front() of write_queue: the batch accepted first.
FrontBatch(wq) == CHOOSE b \in wq : \A c \in wq : b.first <= c.first

\* The batch gets its places in the reply stream before writeAll() starts.
WriterStarts ==
  /\ run_pc = "cpu"
  /\ isHealthy /\ write_queue # {}
  /\ LET batch == FrontBatch(write_queue)
         end   == Len(stream) + batch.command_count
     IN  /\ write_queue' = write_queue \ {batch}
         /\ stream' = stream \o InOrder(batch)
         /\ pending_queue' = Append(pending_queue,
              [owner |-> batch.owner,
               remaining_replies |-> batch.command_count, upto |-> end])
  /\ run_pc' = "write"
  /\ UNCHANGED <<state, stop_requested, reader_done, queued_commands, owed,
                 writer_signal, input, reader_pc, socket, written, emitted,
                 inbound, spoiled, answered, accepted>>

\* writeAll() makes progress by one more complete command; it returns when
\* the last one is out.
Writes ==
  /\ Yielded
  /\ run_pc = "write" /\ socket = "open"
  /\ written' = written + 1
  /\ run_pc' = IF written' = Len(stream) THEN "cpu" ELSE "write"
  /\ UNCHANGED <<state, stop_requested, reader_done, queues, writer_signal,
                 input, reader_pc, socket, stream, emitted, inbound, spoiled,
                 answered, accepted>>

\* writeAll() returns an error: shut down, reset, or write timeout.
WriteFails ==
  /\ Yielded
  /\ run_pc = "write"
  /\ run_pc' = "cpu"
  /\ failConnection
  /\ UNCHANGED <<stop_requested, reader_done, input, reader_pc, wire, accepted>>

\* Variant: run() does not wait for reader_done_.
JoinsEarly ==
  /\ run_pc = "cpu"
  /\ ~isHealthy
  /\ Teardown
  /\ UNCHANGED <<stop_requested, reader_done, queues, writer_signal,
                 reader_pc, accepted>>

\* writerLoop() is over and so is the reader.
WriterJoins ==
  /\ run_pc = "cpu"
  /\ ~isHealthy /\ reader_done
  /\ Teardown
  /\ UNCHANGED <<stop_requested, reader_done, queues, writer_signal,
                 reader_pc, accepted>>

-----------------------------------------------------------------------------
(* The coroutine of readerLoop() *)

ReaderStarts ==
  /\ Yielded
  /\ reader_pc = "sched"
  /\ reader_pc' = "cpu"
  /\ UNCHANGED <<state, stop_requested, reader_done, queues, writer_signal,
                 input, run_pc, socket, wire, accepted>>

\* The k replies a read completes.  A reply half of which was read from an
\* earlier connection does not continue with the bytes of this one.
Frames(k) ==
  [i \in 1 .. k |-> IF i = 1 /\ partial \notin {Nothing, inbound[1]}
                    THEN Malformed ELSE inbound[i]]

\* readSome() returns bytes: k complete replies and, if half, a part of one
\* more.  What the socket had received can still be read after a shutdown.
ReadSome(k, half) ==
  /\ Yielded
  /\ reader_pc = "read"
  /\ k <= Len(inbound) /\ (half => k < Len(inbound))
  /\ k > 0 \/ (half /\ partial = Nothing)
  /\ redis_in' = redis_in \o Frames(k)
  /\ partial' = IF half THEN inbound[k + 1] ELSE Nothing
  /\ inbound' = SubSeq(inbound, k + 1, Len(inbound))
  /\ reader_pc' = "cpu"
  /\ UNCHANGED <<state, stop_requested, reader_done, queues, writer_signal,
                 run_pc, socket, stream, written, emitted, spoiled, answered,
                 accepted>>

\* readSome() returns an error: closed or reset by Redis, shut down here, or
\* read timeout.
ReadFails ==
  /\ Yielded
  /\ reader_pc = "read"
  /\ reader_pc' = "cpu"
  /\ failConnection
  /\ UNCHANGED <<stop_requested, reader_done, input, run_pc, wire, accepted>>

\* kNeedMore: back to readSome().
ParserNeedsMore ==
  /\ reader_pc = "cpu"
  /\ isHealthy /\ redis_in = <<>>
  /\ reader_pc' = "read"
  /\ UNCHANGED <<state, stop_requested, reader_done, queues, writer_signal,
                 input, run_pc, socket, wire, accepted>>

ParserFails ==
  /\ reader_pc = "cpu"
  /\ isHealthy /\ redis_in # <<>> /\ Head(redis_in) = Malformed
  /\ failConnection
  /\ UNCHANGED <<stop_requested, reader_done, input, run_pc, reader_pc, wire,
                 accepted>>

ReplyParsed ==
  /\ reader_pc = "cpu"
  /\ isHealthy /\ redis_in # <<>> /\ Head(redis_in) # Malformed
  /\ redis_in' = Tail(redis_in)
  /\ UNCHANGED <<stop_requested, reader_done, partial, run_pc, reader_pc,
                 stream, written, emitted, inbound, spoiled, accepted>>

UnexpectedReply ==
  /\ ReplyParsed
  /\ pending_queue = <<>>
  /\ failConnection
  /\ UNCHANGED answered

\* Line 57: the front batch is one reply shorter, and gone after its last.
OneReplyLess(p) == [owner |-> p.owner, upto |-> p.upto,
                    remaining_replies |-> p.remaining_replies - 1]
\* Variant: the answered batch is never popped.
FrontKept(pq) == [pq EXCEPT ![1] = OneReplyLess(@)]

FrontAnswered(pq) ==
  IF Head(pq).remaining_replies = 1
  THEN Tail(pq)
  ELSE [pq EXCEPT ![1] = OneReplyLess(@)]

\* dispatchReply(); the callback of a live owner may call detachOwner().
dispatchReply(leaves) ==
  /\ ReplyParsed
  /\ pending_queue # <<>>
  /\ answered' = answered + 1
  /\ LET o == Head(pending_queue).owner
     IN  IF leaves
         THEN /\ o # NoOwner
              /\ write_queue' = WithoutOwner(write_queue, o)
              /\ pending_queue' = Disowned(FrontAnswered(pending_queue), o)
              /\ queued_commands' = queued_commands - 1
                   - Cardinality(UnstartedOf(write_queue, o))
              /\ owed' = [owed EXCEPT ![o] = {}]
         ELSE /\ pending_queue' = FrontAnswered(pending_queue)
              /\ queued_commands' = queued_commands - 1
              /\ owed' = [p \in Owners |->
                            IF p = o THEN AfterReply(owed[p]) ELSE owed[p]]
              /\ UNCHANGED write_queue
  /\ UNCHANGED <<state, writer_signal, socket>>

\* Variant: the reader ends without notify().
EndsQuietly ==
  /\ reader_pc = "cpu"
  /\ ~isHealthy
  /\ reader_pc' = "none"
  /\ reader_done' = TRUE
  /\ UNCHANGED <<state, stop_requested, queues, writer_signal, input, run_pc,
                 socket, wire, accepted>>

ReaderEnds ==
  /\ reader_pc = "cpu"
  /\ ~isHealthy
  /\ reader_pc' = "none"
  /\ reader_done' = TRUE
  /\ writer_signal' = TRUE
  /\ UNCHANGED <<state, stop_requested, queues, input, run_pc, socket, wire,
                 accepted>>

-----------------------------------------------------------------------------
(* Redis: answers the commands it has received, in order; or breaks that *)

RedisAnswers ==
  /\ socket # "closed" /\ emitted < written
  /\ emitted' = emitted + 1
  /\ inbound' = Append(inbound, stream[emitted + 1])
  /\ UNCHANGED <<state, stop_requested, reader_done, queues, writer_signal,
                 input, run_pc, reader_pc, socket, stream, written, spoiled,
                 answered, accepted>>

RedisSpoils ==
  /\ isHealthy /\ ~spoiled
  /\ spoiled' = TRUE
  /\ \E item \in {Unsolicited, Malformed} : inbound' = Append(inbound, item)
  /\ UNCHANGED <<state, stop_requested, reader_done, queues, writer_signal,
                 input, run_pc, reader_pc, socket, stream, written, emitted,
                 answered, accepted>>

-----------------------------------------------------------------------------
RunStep ==
  \/ RunLoop \/ ConnectSucceeds \/ ConnectFails \/ WriterWaits \/ WriterWakes
  \/ WriterStarts \/ Writes \/ WriteFails \/ WriterJoins

ReaderStep ==
  \/ ReaderStarts \/ ReadFails \/ ParserNeedsMore \/ ParserFails
  \/ UnexpectedReply \/ ReaderEnds
  \/ \E k \in 0 .. Len(inbound), half \in BOOLEAN : ReadSome(k, half)
  \/ \E leaves \in BOOLEAN : dispatchReply(leaves)

Next ==
  \/ start \/ stop
  \/ \E o \in Owners, n \in 0 .. MaxBatch : submit(o, n)
  \/ \E o \in Owners : detachOwner(o)
  \/ RunStep \/ ReaderStep
  \/ RedisAnswers \/ RedisSpoils

Spec == Init /\ [][Next]_vars

\* The scheduler takes runnable coroutines in turn, so one that is runnable
\* again and again, with others holding the thread in between, does run: strong
\* fairness.  Every suspension except a wait is bounded: connectTo, readSome and
\* writeAll by their timeouts, the sleep by 100 ms.  Redis owes nothing.
FairSpec == Spec /\ SF_vars(RunStep) /\ SF_vars(ReaderStep)

-----------------------------------------------------------------------------
(* Properties *)

\* The state variables of BackendChannel hold values of their types; in
\* particular queued_commands_ (unsigned) never wraps below zero and no
\* pending batch is left with zero replies.
TypeOK ==
  /\ state \in States
  /\ stop_requested \in BOOLEAN /\ reader_done \in BOOLEAN
  /\ write_queue \subseteq Batches
  /\ pending_queue \in Seq(Pendings)
  /\ queued_commands \in Nat
  /\ writer_signal \in BOOLEAN
  /\ redis_in \in Seq(Int) /\ partial \in Int
  /\ run_pc \in RunPCs /\ reader_pc \in ReadPCs
  /\ socket \in {"closed", "open", "shut"}
  /\ stream \in Seq(Nat) /\ written \in Nat /\ emitted \in Nat
  /\ inbound \in Seq(Int) /\ spoiled \in BOOLEAN /\ answered \in Nat
  /\ accepted \in Nat
  /\ owed \in [Owners -> SUBSET Nat]

\* dispatchReply() hands each reply to the owner of the command it answers,
\* as the answer to that owner's oldest command, and drops a reply only when
\* nobody expects it; also when owners left while their batches were started
\* and across reconnects.  (Until Redis itself breaks the protocol.)
ReplyGoesToItsOwner ==
  reader_pc = "cpu" /\ isHealthy /\ redis_in # <<>> /\ ~spoiled =>
    /\ pending_queue # <<>>
    /\ \A o \in Owners :
         /\ Head(redis_in) \in owed[o] <=> o = Head(pending_queue).owner
         /\ Head(redis_in) \in owed[o] =>
              \A c \in owed[o] : Head(redis_in) <= c

\* No command is lost and none is answered twice: what an owner expects a
\* callback for is exactly what the two queues hold for it.
OwedIsQueued ==
  \A o \in Owners :
    owed[o] = UnstartedOf(write_queue, o) \cup StartedOf(stream, pending_queue, o)

\* queued_commands_, the load that BackendPool::select() compares, counts the
\* commands in the two queues, those of owners that left included.
QueuedCountExact ==
  queued_commands = Cardinality(QueuedIn(write_queue, stream, pending_queue))

\* The coroutine of run() never sleeps on writer_signal_ while there is a
\* batch to write, a failed connection to tear down or a reader to join,
\* unless a wake-up is on its way.
NoLostWakeup == run_pc = "wait" /\ ~NothingToDo => writer_signal

\* "close/reuse only after both directions have exited": no coroutine is in
\* an I/O call on a descriptor that was closed, and the reader of one
\* connection is gone before the next connection is opened.
DescriptorHeld ==
  /\ reader_pc # "none" => socket # "closed" /\ run_pc # "connect"
  /\ run_pc \in {"connect", "write"} => socket # "closed"

\* "stop(), then wait for isStopped() before destruction": once stopped, no
\* coroutine is left that would touch the channel, and nobody is owed.
StoppedIsQuiet ==
  isStopped => /\ run_pc = "none" /\ reader_pc = "none" /\ socket = "closed"
               /\ write_queue = {} /\ pending_queue = <<>>
               /\ \A o \in Owners : owed[o] = {}

\* stop() is always completed: isStopped() becomes true.
StopCompletes == stop_requested ~> isStopped

\* Every accepted command is eventually answered, failed or given up by its
\* owner, whatever Redis does.
EveryCommandSettles ==
  \A c \in 1 .. MaxCommands :
    (\E o \in Owners : c \in owed[o]) ~> (\A o \in Owners : c \notin owed[o])
=============================================================================
