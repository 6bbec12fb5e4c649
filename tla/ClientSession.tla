--------------------------- MODULE ClientSession ----------------------------
(***************************************************************************)
(* The client sessions of one worker (src/src/client_session.cpp), the     *)
(* pool they share (src/src/backend_pool.cpp) and, as far as a session can *)
(* see them, the pool's channels: a channel does here whatever             *)
(* BackendContract allows it to do, and calls its sinks synchronously.     *)
(*                                                                         *)
(* As in BackendChannel, a program counter names the place where a         *)
(* coroutine is suspended, or is one of Running: then the coroutine holds  *)
(* the worker thread and nothing else moves.                               *)
(*                                                                         *)
(* Data: a client sends the requests of its script, in order, and a        *)
(* request is its position there.  Its kind says how the parser and the    *)
(* command rules take it: "cmd" is valid, "rej" refused by validate(),     *)
(* "bad" malformed, "part" a last request of which the end never comes.    *)
(* A reply, or an error the proxy makes, is the position it answers.       *)
(***************************************************************************)
EXTENDS BackendPool, Sequences, FiniteSets, FiniteSetsExt

CONSTANTS Sessions,
          NumChannels,   \* backend_conns_per_worker
          Scripts,       \* the scripts clients may send
          Budget,        \* max_pipeline_commands_per_read
          OutBatch       \* the 64 replies writerLoop() joins at most

ASSUME BudgetAssumption == Budget \in Nat \ {0} /\ OutBatch \in Nat \ {0}
ASSUME ChannelsAssumption == NumChannels \in Nat
ASSUME ScriptsAssumption == Scripts \subseteq Seq({"cmd", "rej", "bad", "part"})

VARIABLES
  script,         \* what each client sends
  got,            \* client_in_ holds the requests parsed + 1 .. got
  parsed,         \* requests consumed from client_in_
  state,          \* state_
  final_error,    \* final_error_: the request it is about, 0 when empty
  current,        \* current_backend_
  pending,        \* pending_replies_
  client_out,     \* client_out_
  chunk,          \* the replies writeAll() has still to write
  received,       \* what the client was sent
  output_signal,  \* the sticky flags of output_signal_ and reply_signal_
  reply_signal,
  reader_pc,      \* where the coroutines of the two loops are; a loop that
  writer_pc,      \* is "done" no longer counts in active_loops_
  running,        \* the pool's channels were started and not stopped
  up,             \* per channel: isHealthy()
  owed,           \* per channel: <<s, i>> when it is to answer request i of s
  orphans         \* per channel: commands started whose session left

input    == <<script, got, parsed>>
output   == <<client_out, chunk, received, final_error>>
signals  == <<output_signal, reply_signal>>
backend  == <<current, pending>>
channels == <<up, owed, orphans>>
vars == <<input, output, signals, backend, channels, running, state, reader_pc, writer_pc>>

Channels == 1 .. NumChannels
Running  == {"cpu", "rej", "exit"}
Yielded  == \A s \in Sessions : {reader_pc[s], writer_pc[s]} \cap Running = {}
Finished(s) == reader_pc[s] = "done" /\ writer_pc[s] = "done"

Load == [c \in Channels |-> orphans[c] + Cardinality(owed[c])]
OwedTo(c, s) == {p \in owed[c] : p[1] = s}

Init ==
  /\ script \in [Sessions -> Scripts]
  /\ got = [s \in Sessions |-> 0] /\ parsed = [s \in Sessions |-> 0]
  /\ state = [s \in Sessions |-> "Open"]
  /\ final_error = [s \in Sessions |-> 0]
  /\ current = [s \in Sessions |-> NoChannel]
  /\ pending = [s \in Sessions |-> 0]
  /\ client_out = [s \in Sessions |-> <<>>]
  /\ chunk = [s \in Sessions |-> <<>>]
  /\ received = [s \in Sessions |-> <<>>]
  /\ output_signal = [s \in Sessions |-> FALSE]
  /\ reply_signal = [s \in Sessions |-> FALSE]
  /\ reader_pc = [s \in Sessions |-> "ready"]
  /\ writer_pc = [s \in Sessions |-> "ready"]
  /\ running = FALSE /\ up = [c \in Channels |-> FALSE]
  /\ owed = [c \in Channels |-> {}] /\ orphans = [c \in Channels |-> 0]

-----------------------------------------------------------------------------
(* What the loops and the channels' callbacks share *)

\* Variant: the channels go on pointing at a session that left.
detachNobody(S, failed) ==
  /\ owed' = [c \in Channels |-> IF c \in failed THEN {} ELSE owed[c]]
  /\ orphans' = [c \in Channels |-> IF c \in failed THEN 0 ELSE orphans[c]]

\* BackendPool::detachOwner() for the sessions S, with the channels of failed
\* emptied before: each channel forgets S; of the commands it had for S those
\* it had started stay as load.
detachOwner(S, failed) ==
  /\ owed' = [c \in Channels |->
                IF c \in failed THEN {} ELSE {p \in owed[c] : p[1] \notin S}]
  /\ \E started \in [Channels -> 0 .. Cardinality(UNION {owed[c] : c \in Channels})] :
       /\ \A c \in Channels :
            started[c] <= Cardinality({p \in owed[c] : p[1] \in S})
       /\ orphans' = [c \in Channels |-> IF c \in failed THEN 0
                                         ELSE orphans[c] + started[c]]

\* abort() of every session of S that has not aborted before.
abort(S, failed) ==
  LET now == {s \in S : state[s] # "Aborted"}
      Set(f, v) == [s \in Sessions |-> IF s \in now THEN v ELSE f[s]]
  IN  /\ state' = Set(state, "Aborted")
      /\ detachOwner(now, failed)
      /\ current' = Set(current, NoChannel)
      /\ pending' = Set(pending, 0)
      /\ client_out' = Set(client_out, <<>>)
      /\ output_signal' = Set(output_signal, TRUE)
      /\ reply_signal' = Set(reply_signal, TRUE)

\* Variant: drain() without notify().
drainQuietly(s, error) ==
  /\ state' = [state EXCEPT ![s] = "Draining"]
  /\ final_error' = [final_error EXCEPT ![s] = error]
  /\ UNCHANGED output_signal

\* drain(): no more input; error is the request it is about, or 0.
drain(s, error) ==
  /\ state' = [state EXCEPT ![s] = "Draining"]
  /\ final_error' = [final_error EXCEPT ![s] = error]
  /\ output_signal' = [output_signal EXCEPT ![s] = TRUE]

\* wait() of a CoroutineSignal at pc: with the flag set it returns at once.
wait(signal, pc, s, blocked) ==
  IF signal[s]
  THEN signal' = [signal EXCEPT ![s] = FALSE] /\ UNCHANGED pc
  ELSE pc' = [pc EXCEPT ![s] = blocked] /\ UNCHANGED signal

\* finishLoop(): the loop that ends last detaches the session everywhere and
\* closes the socket; on_finished_() lets the worker destroy the session.
finishLoop(s, other_pc) ==
  IF other_pc[s] = "done" THEN detachOwner({s}, {})
                          ELSE UNCHANGED <<owed, orphans>>

-----------------------------------------------------------------------------
(* The coroutine of readerLoop() *)

\* The loop of peekFrame() and validate(): the last request of the longest run
\* of valid ones in client_in_, at most Budget long, and how the run ended.
LastValid(s) ==
  Max({m \in parsed[s] .. got[s] :
         /\ m - parsed[s] <= Budget
         /\ \A i \in (parsed[s] + 1) .. m : script[s][i] = "cmd"})

ParseEnd(s, m) ==
  IF m - parsed[s] = Budget THEN "ok"
  ELSE IF m = got[s] THEN "part" ELSE script[s][m + 1]

ReaderResumes(s) ==
  /\ Yielded
  /\ reader_pc[s] = "ready"
  /\ reader_pc' = [reader_pc EXCEPT ![s] = "cpu"]
  /\ UNCHANGED <<input, output, signals, backend, channels, state, writer_pc>>

\* submitBatch() finds no channel: the session aborts.
NoBackend(s) ==
  /\ reader_pc[s] = "cpu" /\ state[s] = "Open"
  /\ LastValid(s) > parsed[s]
  /\ select(current[s], up, Load) = NoChannel
  /\ parsed' = [parsed EXCEPT ![s] = LastValid(s)]
  /\ abort({s}, {})
  /\ reader_pc' = [reader_pc EXCEPT ![s] = "exit"]
  /\ UNCHANGED <<script, got, chunk, received, final_error, up, writer_pc>>

\* submitBatch() of the n requests after parsed[s]; none is a no-op.
submitBatch(s, n, channel) ==
  IF n = 0
  THEN UNCHANGED <<owed, backend>>
  ELSE /\ owed' = [owed EXCEPT ![channel] = @ \cup
                     {<<s, i>> : i \in (parsed[s] + 1) .. (parsed[s] + n)}]
       /\ current' = [current EXCEPT ![s] = channel]
       /\ pending' = [pending EXCEPT ![s] = @ + n]

\* One turn of the loop up to where it suspends, waits or breaks.
ReaderTurn(s) ==
  /\ reader_pc[s] = "cpu" /\ state[s] = "Open"
  /\ LET m       == LastValid(s)
         how     == ParseEnd(s, m)
         channel == select(current[s], up, Load)
     IN  /\ m > parsed[s] => channel # NoChannel
         /\ submitBatch(s, m - parsed[s], channel)
         /\ parsed' = [parsed EXCEPT ![s] = IF how = "rej" THEN m + 1 ELSE m]
         /\ IF how = "bad"
            THEN drain(s, m + 1)
            ELSE UNCHANGED <<state, final_error, output_signal>>
         /\ reader_pc' = [reader_pc EXCEPT ![s] =
              CASE how = "bad"                -> "exit"
                [] how = "rej"                -> "rej"
                [] how = "ok" /\ m < got[s]   -> "ready"   \* co_poll of 1 ms
                [] OTHER                      -> "read"]
  /\ UNCHANGED <<script, got, client_out, chunk, received, reply_signal, up,
                 orphans, writer_pc>>

\* A refused request is answered by the proxy, after everything before it.
AwaitReplies(s) ==
  /\ reader_pc[s] = "rej" /\ state[s] = "Open" /\ pending[s] # 0
  /\ wait(reply_signal, reader_pc, s, "reply")
  /\ UNCHANGED <<input, output, output_signal, backend, channels, state, writer_pc>>

RepliesWake(s) ==
  /\ Yielded
  /\ reader_pc[s] = "reply" /\ reply_signal[s]
  /\ reply_signal' = [reply_signal EXCEPT ![s] = FALSE]
  /\ reader_pc' = [reader_pc EXCEPT ![s] = "rej"]
  /\ UNCHANGED <<input, output, output_signal, backend, channels, state, writer_pc>>

\* Variant: the error does not wait for the replies before it.
RejectAtOnce(s) ==
  /\ reader_pc[s] = "rej" /\ state[s] = "Open"
  /\ client_out' = [client_out EXCEPT ![s] = Append(@, parsed[s])]
  /\ output_signal' = [output_signal EXCEPT ![s] = TRUE]
  /\ reader_pc' = [reader_pc EXCEPT ![s] = "cpu"]
  /\ UNCHANGED <<input, chunk, received, final_error, reply_signal, backend,
                 channels, state, writer_pc>>

Reject(s) ==
  /\ reader_pc[s] = "rej" /\ state[s] = "Open" /\ pending[s] = 0
  /\ client_out' = [client_out EXCEPT ![s] = Append(@, parsed[s])]
  /\ output_signal' = [output_signal EXCEPT ![s] = TRUE]
  /\ reader_pc' = [reader_pc EXCEPT ![s] = "cpu"]
  /\ UNCHANGED <<input, chunk, received, final_error, reply_signal, backend,
                 channels, state, writer_pc>>

ReadSome(s) ==
  /\ Yielded
  /\ reader_pc[s] = "read" /\ state[s] = "Open"
  /\ \E upto \in (got[s] + 1) .. Len(script[s]) : got' = [got EXCEPT ![s] = upto]
  /\ reader_pc' = [reader_pc EXCEPT ![s] = "cpu"]
  /\ UNCHANGED <<script, parsed, output, signals, backend, channels, state, writer_pc>>

\* kClosed: the client has no more to send; a request left unfinished in
\* client_in_ is a protocol error.
ReadCloses(s) ==
  /\ Yielded
  /\ reader_pc[s] = "read" /\ state[s] = "Open"
  /\ got[s] = Len(script[s])
  /\ drain(s, IF got[s] = parsed[s] THEN 0 ELSE parsed[s] + 1)
  /\ reader_pc' = [reader_pc EXCEPT ![s] = "exit"]
  /\ UNCHANGED <<input, client_out, chunk, received, reply_signal, backend,
                 channels, writer_pc>>

\* Reset or read timeout.
ReadFails(s) ==
  /\ Yielded
  /\ reader_pc[s] = "read" /\ state[s] = "Open"
  /\ abort({s}, {})
  /\ reader_pc' = [reader_pc EXCEPT ![s] = "exit"]
  /\ UNCHANGED <<input, chunk, received, final_error, up, writer_pc>>

\* The state changed while the reader was suspended: every wait is followed by
\* a test of state_, and the loop breaks.
ReaderBreaks(s) ==
  /\ state[s] # "Open"
  /\ \/ reader_pc[s] \in {"cpu", "rej"}
     \/ Yielded /\ reader_pc[s] = "read"
  /\ reader_pc' = [reader_pc EXCEPT ![s] = "exit"]
  /\ UNCHANGED <<input, output, signals, backend, channels, state, writer_pc>>

ReaderEnds(s) ==
  /\ reader_pc[s] = "exit"
  /\ finishLoop(s, writer_pc)
  /\ reader_pc' = [reader_pc EXCEPT ![s] = "done"]
  /\ UNCHANGED <<input, output, signals, backend, up, state, writer_pc>>

-----------------------------------------------------------------------------
(* The coroutine of writerLoop() *)

WriterResumes(s) ==
  /\ Yielded
  /\ \/ writer_pc[s] = "ready" /\ UNCHANGED output_signal
     \/ /\ writer_pc[s] = "wait" /\ output_signal[s]
        /\ output_signal' = [output_signal EXCEPT ![s] = FALSE]
  /\ writer_pc' = [writer_pc EXCEPT ![s] = "cpu"]
  /\ UNCHANGED <<input, output, reply_signal, backend, channels, state, reader_pc>>

\* Variant: draining stops at an empty queue.
NothingQueued(s) == state[s] = "Draining"

\* A draining session has sent every reply when none is pending.
AllAnswered(s) == state[s] = "Draining" /\ pending[s] = 0

WriterWaits(s) ==
  /\ writer_pc[s] = "cpu" /\ state[s] # "Aborted"
  /\ client_out[s] = <<>> /\ ~AllAnswered(s)
  /\ wait(output_signal, writer_pc, s, "wait")
  /\ UNCHANGED <<input, output, reply_signal, backend, channels, state, reader_pc>>

\* Up to OutBatch replies, or else the final error, go to writeAll().
WriterTakes(s) ==
  /\ writer_pc[s] = "cpu" /\ state[s] # "Aborted"
  /\ IF client_out[s] # <<>>
     THEN LET n == Min({OutBatch, Len(client_out[s])})
          IN  /\ chunk' = [chunk EXCEPT ![s] = SubSeq(client_out[s], 1, n)]
              /\ client_out' = [client_out EXCEPT ![s] = SubSeq(@, n + 1, Len(@))]
              /\ UNCHANGED final_error
     ELSE /\ AllAnswered(s) /\ final_error[s] # 0
          /\ chunk' = [chunk EXCEPT ![s] = <<final_error[s]>>]
          /\ final_error' = [final_error EXCEPT ![s] = 0]
          /\ UNCHANGED client_out
  /\ writer_pc' = [writer_pc EXCEPT ![s] = "write"]
  /\ UNCHANGED <<input, received, signals, backend, channels, state, reader_pc>>

\* writeAll() makes progress, and returns after the last reply.
Writes(s) ==
  /\ Yielded
  /\ writer_pc[s] = "write" /\ state[s] # "Aborted"
  /\ received' = [received EXCEPT ![s] = Append(@, Head(chunk[s]))]
  /\ chunk' = [chunk EXCEPT ![s] = Tail(@)]
  /\ writer_pc' = [writer_pc EXCEPT ![s] = IF Len(chunk[s]) = 1 THEN "cpu" ELSE "write"]
  /\ UNCHANGED <<input, client_out, final_error, signals, backend, channels,
                 state, reader_pc>>

\* Reset, write timeout, or shut down by abort().
WriteFails(s) ==
  /\ Yielded
  /\ writer_pc[s] = "write"
  /\ chunk' = [chunk EXCEPT ![s] = <<>>]
  /\ abort({s}, {})
  /\ writer_pc' = [writer_pc EXCEPT ![s] = "exit"]
  /\ UNCHANGED <<input, received, final_error, up, reader_pc>>

WriterBreaks(s) ==
  /\ writer_pc[s] = "cpu"
  /\ \/ state[s] = "Aborted"
     \/ client_out[s] = <<>> /\ AllAnswered(s) /\ final_error[s] = 0
  /\ writer_pc' = [writer_pc EXCEPT ![s] = "exit"]
  /\ UNCHANGED <<input, output, signals, backend, channels, state, reader_pc>>

WriterEnds(s) ==
  /\ writer_pc[s] = "exit"
  /\ finishLoop(s, reader_pc)
  /\ writer_pc' = [writer_pc EXCEPT ![s] = "done"]
  /\ UNCHANGED <<input, output, signals, backend, up, state, reader_pc>>

-----------------------------------------------------------------------------
(* The channels: the steps of BackendContract, with the callbacks they make *)

\* Variant: reply_signal_ is notified before the last reply is counted.
LastReplyMissed(s) ==
  /\ IF pending[s] = 1
     THEN current' = [current EXCEPT ![s] = NoChannel]
     ELSE UNCHANGED current
  /\ reply_signal' = [reply_signal EXCEPT ![s] = pending[s] = 2 \/ @]

\* With the last reply the session is free to choose a channel again, and a
\* reader that waits for it goes on.
LastReply(s) ==
  IF pending[s] = 1
  THEN /\ current' = [current EXCEPT ![s] = NoChannel]
       /\ reply_signal' = [reply_signal EXCEPT ![s] = TRUE]
  ELSE UNCHANGED <<current, reply_signal>>

\* A reply for the oldest command of s: onBackendReply().
onBackendReply(c, s) ==
  /\ Yielded
  /\ OwedTo(c, s) # {}
  /\ LET i == Min({p[2] : p \in OwedTo(c, s)})
     IN  /\ owed' = [owed EXCEPT ![c] = @ \ {<<s, i>>}]
         /\ client_out' = [client_out EXCEPT ![s] = Append(@, i)]
  /\ pending' = [pending EXCEPT ![s] = @ - 1]
  /\ LastReply(s)
  /\ output_signal' = [output_signal EXCEPT ![s] = TRUE]
  /\ UNCHANGED <<input, chunk, received, final_error, up, orphans, state,
                 reader_pc, writer_pc>>

\* The connection fails: onBackendFailure() of every session it owes.
onBackendFailure(c) ==
  /\ Yielded
  /\ up[c]
  /\ up' = [up EXCEPT ![c] = FALSE]
  /\ abort({p[1] : p \in owed[c]}, {c})
  /\ UNCHANGED <<input, chunk, received, final_error, reader_pc, writer_pc>>

\* A reply nobody waits for, and a new connection.
OrphanAnswered(c) ==
  /\ Yielded
  /\ orphans[c] > 0
  /\ orphans' = [orphans EXCEPT ![c] = @ - 1]
  /\ UNCHANGED <<input, output, signals, backend, up, owed, state, reader_pc, writer_pc>>

Connected(c) ==
  /\ Yielded
  /\ running /\ ~up[c]
  /\ up' = [up EXCEPT ![c] = TRUE]
  /\ UNCHANGED <<input, output, signals, backend, owed, orphans, state, reader_pc, writer_pc>>

\* start() of the pool, when its channels are stopped.
start ==
  /\ Yielded
  /\ ~running /\ running' = TRUE
  /\ UNCHANGED <<input, output, signals, backend, channels, state, reader_pc, writer_pc>>

\* Variant: the sessions are not told.
stopQuietly ==
  /\ Yielded
  /\ running /\ running' = FALSE
  /\ up' = [c \in Channels |-> FALSE]
  /\ owed' = [c \in Channels |-> {}] /\ orphans' = [c \in Channels |-> 0]
  /\ UNCHANGED <<input, output, signals, backend, state, reader_pc, writer_pc>>

\* stop() of the pool stops channel after channel; each fails the connection it
\* has, which aborts the sessions it owes.
stop ==
  /\ Yielded
  /\ running /\ running' = FALSE
  /\ up' = [c \in Channels |-> FALSE]
  /\ abort({p[1] : p \in UNION {owed[c] : c \in Channels}}, Channels)
  /\ UNCHANGED <<input, chunk, received, final_error, reader_pc, writer_pc>>

-----------------------------------------------------------------------------
ReaderStep(s) ==
  /\ \/ ReaderResumes(s) \/ NoBackend(s) \/ ReaderTurn(s) \/ AwaitReplies(s)
     \/ RepliesWake(s) \/ Reject(s) \/ ReadSome(s) \/ ReadCloses(s)
     \/ ReadFails(s) \/ ReaderBreaks(s) \/ ReaderEnds(s)
  /\ UNCHANGED running

WriterStep(s) ==
  /\ \/ WriterResumes(s) \/ WriterWaits(s) \/ WriterTakes(s) \/ Writes(s)
     \/ WriteFails(s) \/ WriterBreaks(s) \/ WriterEnds(s)
  /\ UNCHANGED running

Replies(c, s) == onBackendReply(c, s) /\ UNCHANGED running
Fails(c)      == onBackendFailure(c) /\ UNCHANGED running

Next ==
  \/ \E s \in Sessions : ReaderStep(s) \/ WriterStep(s)
  \/ \E c \in Channels, s \in Sessions : Replies(c, s)
  \/ \E c \in Channels : \/ Fails(c)
                         \/ (OrphanAnswered(c) \/ Connected(c)) /\ UNCHANGED running
  \/ start \/ stop

Spec == Init /\ [][Next]_vars

\* Runnable coroutines take turns; reads and writes end by their timeouts; and
\* a channel answers or fails every command it accepted (EveryCommandSettles
\* of BackendChannel).
FairSpec ==
  /\ Spec
  /\ \A s \in Sessions : SF_vars(ReaderStep(s)) /\ SF_vars(WriterStep(s))
  /\ \A c \in Channels, s \in Sessions :
       SF_vars(Replies(c, s) \/ (OwedTo(c, s) # {} /\ Fails(c)))

-----------------------------------------------------------------------------
(* Properties *)

\* A client is answered in the order of its requests, each request once, with
\* no gap: commands sent through different channels, the proxy's own errors
\* for refused requests and the final error included.
RepliesInRequestOrder ==
  \A s \in Sessions :
    LET sent == received[s] \o chunk[s] \o client_out[s]
    IN  \A k \in DOMAIN sent : sent[k] = k

\* pending_replies_ counts the callbacks the channels owe the session, all of
\* them from current_backend_, which is up: what select() relies on to keep a
\* session on one channel until it is idle.
PendingOnCurrent ==
  \A s \in Sessions :
    /\ pending[s] = Cardinality(UNION {OwedTo(c, s) : c \in Channels})
    /\ (current[s] = NoChannel) <=> (pending[s] = 0)
    /\ \A c \in Channels : OwedTo(c, s) # {} => current[s] = c /\ up[c]

\* When both loops have ended, and the worker may destroy the session, no
\* channel holds a pointer to it.
FinishedIsForgotten ==
  \A s \in Sessions, c \in Channels : Finished(s) => OwedTo(c, s) = {}

\* A session that ends without abort() has sent an answer to every request it
\* read, the final error for a malformed or unfinished one included.
DrainedIsComplete ==
  \A s \in Sessions : Finished(s) /\ state[s] = "Draining" =>
    Len(received[s]) = parsed[s]
      + (IF parsed[s] < got[s] THEN 1 ELSE 0)

\* Once draining or aborted, a session ends: both loops return and the worker
\* can free it.
ClosingEnds ==
  \A s \in Sessions : state[s] # "Open" ~> Finished(s)

\* Every request consumed from client_in_ is answered, unless the session aborts.
EveryRequestAnswered ==
  \A s \in Sessions : \A i \in 1 .. Max({Len(x) : x \in Scripts}) :
    parsed[s] >= i ~> Len(received[s]) >= i \/ state[s] = "Aborted"
=============================================================================
