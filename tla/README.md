# redis_proxy in TLA+

A TLA+ model of redis_proxy, a Redis proxy that multiplexes many clients over a
few pipelined Redis connections per worker thread, using stackful coroutines.
TLC checks it on small instances; TLAPS proves the safety of its core for all values
of the constants: the backend channel and its contract with the sessions, the sessions
themselves, the hand-over of connections to workers, the socket's writes, and the
wake-up signal that every loop rests on.
`PROJECT.json` lists, for every definition, the source lines it stands for, and
the hazards of the code with the properties that guard against each.

## The system and its parts

| part | source | what it does | module |
|------|--------|--------------|--------|
| ProxyServer | `proxy_server.cpp` | accepts connections, hands them to the workers in turn | `Worker` |
| Worker | `worker.cpp` | one thread: takes connections, owns sessions, frees finished ones | `Worker` |
| ClientSession | `client_session.cpp` | reader and writer coroutine of one client: parses requests, refuses some, submits batches, writes replies | `ClientSession` |
| BackendPool | `backend_pool.cpp` | a worker's channels; picks one for a session; starts and stops them | `BackendPool` (select), `ClientSession` |
| BackendChannel | `backend_channel.cpp` | one Redis connection shared by the sessions: write queue, reply matching, failure, reconnect, stop | `BackendChannel`, `BackendContract` |
| CoroutineSignal | `coroutine_signal.cpp` | sticky wake-up flag with one waiter, over a condition variable | `CoroutineSignal`, `StickySignal` |
| CoSocket | `co_socket.cpp` | connect, read, write with timeouts; shutdown and close | `CoSocket` |
| Buffers | `buffer.cpp` | block pool, reference counted slices, input buffers | `IoBuffer` |
| RespParser | `resp_parser.cpp` | frames and command names | `RespParser`, `RequestReader` |
| CommandRules | `command_rules.cpp` | which commands may be forwarded | `CommandRules` |
| Config | `config.cpp` | settings from files and arguments | `Config` |
| Status, main, bench | | values, start-up, measuring | not modelled |

Not under `src/`, and modelled from their use: Redis itself, the coroutine
scheduler with its condition variables, `FdNotifier` (readable from `notify()` to
`drain()`), the kernel's sockets, the RESP codec, `Endpoint::parse`.

A request's way: the acceptor pushes the descriptor to a worker and notifies it;
the worker makes a session; its reader cuts a run of valid requests from
`client_in_` and submits it to one channel; the channel's writer gives it places
in the reply stream and writes it; the channel's reader matches the replies and
calls the session back; the session's writer sends them.

## How the code is modelled

**Coroutines.** Everything on a worker runs on one thread. A program counter
names a place where a coroutine suspends (`connectTo`, `readSome`, `writeAll`,
`wait`, `co_poll`, not yet scheduled). A value for "holds the thread" (`"cpu"`;
also `"rej"` and `"exit"` in `ClientSession`) cuts a long stretch between two
suspensions into several actions, and `Yielded` keeps everything else on the
thread still meanwhile. Redis may move at any time. A call that need not
suspend (a read with data at hand) is the case in which nobody else moves.

**Signals.** In `BackendChannel` and `ClientSession` a `CoroutineSignal` is a Boolean.
`wait()` with the flag set clears it and goes on; otherwise it blocks, and a blocked
coroutine with the flag set is runnable. That is `StickySignal`, and
`CoroutineSignal` is shown to implement it.

**Data.** A command is the number it got when accepted and a batch an interval of
them; a reply is the number of the command it answers. A client's request is its
position in the client's script, and its kind says what the parser and the rules
make of it: valid, refused, malformed, never finished. A byte in `IoBuffer` is
its position in the input. So a misplaced reply or byte is visible as a number
in the wrong place, and no text is modelled.

**Ghost state.** `BackendChannel` records what each owner still expects (`owed`),
what was started on the connection (`stream`) and where a pending batch ends in
it (`upto`); `ClientSession` what the client `received`; `IoBuffer` what a chain
was cut from. None of it is read by a guard of the code's actions, except that
Redis answers from `stream`.

### BackendChannel
`submit`, `detachOwner`, `start`, `stop` are the callers' operations. The coroutine
of `run()` is `RunLoop`, `ConnectSucceeds`/`ConnectFails`, `WriterWaits`/`WriterWakes`,
`WriterStarts`, `Writes`, `WriteFails`, `WriterJoins`; that of `readerLoop()` is
`ReaderStarts`, `ReadSome`, `ReadFails`, `ParserNeedsMore`, `ParserFails`,
`UnexpectedReply`, `dispatchReply`, `ReaderEnds`. `failConnection` is the shared
failure path. `write_queue` is a set, ordered by the numbers of its batches.
A read may end inside a reply; the other half must come from the same connection.
Redis answers what it received in order, and may once per connection send a reply
nobody asked for or something malformed (`RedisSpoils`).

### BackendContract
What a channel's users rely on: acceptance only while up; an owner answered in
its own order; a failure that tells everybody who is owed something; silence for
an owner that left, whose started commands still count as load.
`BackendRefinement!KeepsContract` says that the channel implements it, with
`up <- isHealthy`, `load <- queued_commands`; TLC checks it and TLAPS proves it.

### ClientSession with BackendPool
Several sessions, the pool, and channels that take any step the contract allows
(`onBackendReply`, `onBackendFailure`, `OrphanAnswered`, `Connected`). Callbacks are
part of the channel's step, as in the code, and a failure aborts all the sessions
concerned in one step. `ReaderTurn` is one turn of the reader's loop, from parsing to where
it waits or breaks; a turn whose submit finds no channel is `NoBackend`.
`active_loops_` is the number of program counters that are not `"done"`. `start` and
`stop` are the pool's: `stop` fails every channel in one step, and with it the sessions
that any of them owes a reply.

### Worker
Threads: the acceptor's `dispatchFd` in three steps (push under the mutex, flag and
unlock, notify), the worker's loop in the steps another thread can tell apart.
A session's coroutines run only while the worker's own coroutine polls.

### IoBuffer
The pool, blocks with `begin_`, `end_` and `refcount_`, one buffer's block list, its
cached linear copy, and chains. A read of zero bytes leaves a reserved block behind,
as an unsuccessful `readSome` does. `MakeBufferChain` fills a buffer of its own from the
pool (`append`), cuts it and destroys it, so that chains of a session's own errors
compete for blocks with chains of replies.

### CoroutineSignal and StickySignal
`StickySignal` is one flag per user: set by `Notify`, cleared when a wait returns.
`CoroutineSignal` has what is really there: `pending_`, the list of the condition
variable, and the event loop's queue of runnable coroutines. `Signal()` takes a waiter
off the list and queues it behind others, who may notify again before it is resumed.
Every coroutine is the only waiter of its signal, as the loops of the code are. `news`
(ghost) says whether it was notified since its last `wait()` returned.

### CoSocket
The three calls, each at rest, suspended in `co_poll` or on the thread; a kernel socket
with its two buffers, shut-down directions and connection state; and a peer that may
send, read, close, reset or do nothing. `writeAll` is one `writev` (`Send`), one turn of
the loop that moves `index` and `offset` (`Skip`), and the waits. A byte is its position
in the chain, and `wire` what the kernel took. The owner closes the descriptor only when
no call is pending, which `DescriptorHeld` shows for `BackendChannel`.

### RespParser and RequestReader
`RespParser` is `unpack()`: first scratch array, codec, growth, verdict, `bad_alloc`. A
frame is the sequence of its values with the bytes and slots needed up to each; the codec
stops at the first value that is cut off, malformed, or beyond its slots. Depth and bulk
limits are the codec's and show as malformed values. `RequestReader` composes it with
`ClientSession::readerLoop()` on the bytes of a client: `Peek`, the parser's steps, `Unusable`,
`Refused`, `Accepted`, then `Submit`, and where the loop suspends or ends. `ClientSession`
models the same loop with its requests already cut, together with everything after it.

### CommandRules
The table of `Default()`, row by row; a command is a word and whether it is spelled in
capitals. `validate` changes nothing, so it is an operator, and the property quantifies
over its calls in every table; `setRuleForTest` is the only action. `NotForSharing` lists what cannot be sent over a connection shared by clients
under the Redis protocol, independently of the table.

### Config
`LoadConfigFromArgs` argument by argument and `LoadConfigFile` line by line. A number text is
the number at its start and whether something follows; `ParseSize` wraps negative numbers
and saturates as `strtoull` does.

## What the runs check

| run | bounds | states | shows |
|-----|--------|--------|-------|
| `channel_safety` | 2 owners, 3 commands, batches of 1-2 | 52 k | replies go to their owners, nothing is lost or miscounted, no lost wake-up, no early close, a stopped channel is quiet |
| `channel_liveness` | 2 owners, 2 commands | 10 k | `stop()` completes; every command is settled; the contract holds |
| `session_safety` | 1 session, 2 channels, all scripts of up to 4 requests, budget 2 | 243 k | request order, exact bookkeeping, complete drain |
| `session_pair` | 2 sessions, 2 channels, 2 requests each | 478 k | request order when sessions share channels, fail together, leave orphans; no channel points at a session that has ended |
| `session_liveness` | 1 session, scripts of up to 2, budget 1 | 9 k | closing sessions end, a stopped pool included; every request is answered unless aborted |
| `worker_handoff` | 2 workers, 3 connections | 11 k | every connection served, in turn, once; every finished session freed |
| `buffers` | 3 blocks of 2 bytes, 4 bytes read, 2 chains, chains made of up to 3 bytes | 118 k | contents, views and reference counts |
| `signal` | 3 coroutines | 648 | nothing missed, nothing acted upon twice; implements `StickySignal` with its liveness |
| `socket` | chains of 1 and of 5 slices, 2 iovecs, kernel buffer of 3 | 19 k | every byte once and in order; `shutdown()` releases suspended calls without a timeout; with timeouts every call returns |
| `request_reader` | 1 first slot, limits 6 and 1000 bytes, budget 2, all splits into reads | 63 k | parser verdicts by the bytes alone, bounded scratch array; bytes accounted for, ends only for cause, nothing left waiting |
| `command_rules` | all words of the table and others, 2 spellings, counts round every bound, 5 words overridden | 243 | what is forwarded can be shared |
| `config` | 3 arguments, 4-bit words | 13 k | usable; the last setting of every key, or nothing at all |

**Why the bounds suffice.** Three commands with batches up to two give a batch with
a reply outstanding, one behind it and one not yet started, of two owners that may
leave or fail in any state, over any number of reconnects (commands are bounded,
connections are not). Scripts of four requests with budget two fill the budget,
leave complete requests behind it and put a refused one between two runs. Three
connections for two workers give one worker a second connection while the first is
being taken. Four bytes over blocks of two give a view over two blocks, of which the
first is partly consumed or shared; chains made from text compete with it for the three
blocks, which are used up and recycled. Two iovecs for
five slices take several calls of `writev`, and a buffer of three is filled inside a slice
and at the end of one. A limit of 6 bytes is the length of one of the commands, and others
are longer; one first slot makes every array grow the scratch array, which later frames
find as earlier ones left it. A number of four bits has overflow, wrap and the largest
accepted value within reach.

**Fairness.** Coroutines that are runnable again and again run (strong fairness:
others hold the thread in between); every suspension except `wait()` ends, by the
configured timeout at the latest. Redis is under no obligation at all. In
`ClientSession` a channel answers or fails what it accepted, which is
`EveryCommandSettles` of the channel. In `Worker` the threads keep running and a
readable notifier resumes the poll; an error return of the poll is possible but
never relied on. Timeouts are taken to be finite. `Config` lets 0 through, as the code
does: a call that would suspend then fails at once, which is the timeout's action taken
before any other, and no property needs it to come later.
In `CoSocket`, `ReadySpec` assumes only that a coroutine whose descriptor is ready is
resumed; only `CallsReturn` assumes that timeouts expire too; the peer owes nothing. In
`CoroutineSignal` the loop resumes the head of its queue and a running coroutine suspends
in the end. The loops of `RespParser` and `RequestReader` run on by themselves; a
`bad_alloc` or a byte from the client is never relied on.

**Variants.** Next to the definition it alters, a few operators marked *Variant*
state a plausible slip (a missing notify, a batch taken out of the reply stream, a
flag cleared outside the mutex). With any of them in place of the original the
property named in `PROJECT.json` fails, which shows that the property depends on it.

No disagreement between the code and its comments or tests was found.

## What is proved

`BackendChannelProofs` proves, for every set of owners and all bounds, from
`NoOwner \notin Owners` and the bounds being natural numbers:

* `TypeCorrectness`: `[]TypeOK`, so the unsigned counters never wrap;
* `RepliesMatched`: `[]ReplyGoesToItsOwner`;
* `NothingLost`: `[]OwedIsQueued`; `LoadExact`: `[]QueuedCountExact`;
* `WakeupsKept`, `DescriptorSafe`, `StoppedSafe`: `NoLostWakeup`, `DescriptorHeld`,
  `StoppedIsQuiet`;
* `ContractKept`: `Spec => KeepsContract`, the channel implements `BackendContract`.

None is inductive alone. `IInv` (in `BackendInvariant`) joins the types (without the counter) with

* `LifeCycle`: which program counters, socket and `reader_done_` go with each state;
* `CommandsOrdered`: the stream is increasing and everything in the write queue is
  newer, with disjoint batches;
* `SlotsPartitioned`: while Ready, the pending batches partition the places of the
  reply stream after those answered, in order;
* `WireBounds` and `RepliesAligned`: until Redis misbehaves, what was dispatched, is
  in `redis_in_`, half read or in the socket is, in this order, the stream's prefix
  that Redis has answered;
* `OwedIsQueued`, `QueuedCountExact` and `NoLostWakeup` themselves.

A reply is matched because the first undispatched place of the stream lies in the
front batch (`SlotsPartitioned`) and the next reply to parse is that place's command
(`RepliesAligned`); it is its owner's oldest since places and queue are in order
(`CommandsOrdered`). The proof goes conjunct by conjunct, one lemma each with a
case per action: types, life cycle, wake-ups, wire bounds and the order of the commands in
`BackendLifeProofs`, places, replies and what owners are owed in `BackendReplyProofs`, the
load and the contract in `BackendChannelProofs`.
`queued_commands` is a natural number because it is the size of a finite set
(`QueuedCountExact`), which is why `TypeOK` follows only at the end.

The contract is proved step by step from `IInv`: `submit` is `Submit`, `detachOwner` is
`Leave`, `failConnection` is `Fail` (everybody who is owed something is in a queue, so
everybody is told), `ConnectSucceeds` is `Recover`, and the rest changes nothing a user
sees. `dispatchReply` is `Answer`, `AnswerNobody` or, when the callback detaches, `Leave`:
the load then drops by the reply and by the unstarted commands, which together are no
more than what the owner was owed, because the answered command is not an unstarted one.

`SignalProofs` proves, for every set of coroutines and with no assumption:

* `SignalMissesNothing`: `[]NothingMissed`;
* `SignalReturnsOnNews`: the action property `ReturnsOnNews`;
* `SignalImplementsSticky`: `Spec => Sticky!Safe`, the safety part of the refinement.

`SignalInv` joins the types and `news = pending` with `WaitersKnown` (a coroutine in the list of its signal is
blocked with the flag clear, and one that is blocked and no longer in the list has its flag
set) and `QueuedOnce` (nobody is twice in the queue of runnable coroutines, and nobody in it
is running or in a list). The second is needed since a coroutine queued twice would be
resumed out of a later `wait()` that nobody ended.

`WorkerProofs` proves, for every number of workers (at least one) and of connections:

* `WakeupsKept`: `[]NoLostWakeup`; `FlagExact`: `[]FlagIsExact`;
* `DealtInTurn`: `[]HandedOverInTurn`.

`IInv` joins the types and `FlagIsExact` with `Locking` (who holds the mutex, and what
`pending_fds_` is meanwhile), `Announced` (from the worker's unlocked test of
`has_pending_fds_` on, a connection it missed is announced, or the acceptor is between its
push and its `notify()`) and `InTurn` (the connection in the acceptor's hand has the turn of
`next_worker`; what a worker has in `fds`, `pending_fds_` and `sessions_` has that worker's
turn, ascends, and is older than the one in hand). `Announced` is what makes the test
outside the mutex safe, and it is not implied by the flag being exact.

`SessionReaderProofs` and `SessionProofs` prove, for every set of sessions, number of
channels, read budget and size of an output batch (both positive), and every set of scripts:

* `AnsweredInOrder`: `[]RepliesInRequestOrder`; `PendingCounted`: `[]PendingOnCurrent`;
* `CompleteWhenDrained`: `[]DrainedIsComplete`; `ForgottenWhenFinished`:
  `[]FinishedIsForgotten`.

`IInv` is the types and, for each session,

* `Numbered`: what was sent, is being written and waits in `client_out_` are the answers
  1, 2, 3, ... without a gap;
* `Outstanding`: `current_backend_` owes the session exactly the `pending_replies_` answers
  that follow, and no other channel owes it anything;
* `Accounted`: answers and outstanding ones together are what was consumed from `client_in_`,
  with one more for a refused request the reader is about to answer, and one less for the
  one `final_error_` is about; an aborted session has neither;
* `Writing`: the writer holds a chunk only while in `writeAll()`, and leaves its loop only
  when aborted, or drained with nothing left.

A reply is in order since the oldest outstanding one is the next number (`Outstanding`,
`Numbered`); a refused request may be answered at once because it waits until nothing is
outstanding (`Accounted`). A session owns only its own entries of a channel, so a step of
one session changes nothing for another (`OnlyOwn`); when a channel fails or the pool
stops, the sessions it owes are aborted and the others are untouched, in one step.
The reader's steps are in the first module, the writer's, the channels' and the theorems in
the second. The channels of `ClientSession` do what `BackendContract` allows, which is the
part `ContractKept` proves of the real one.

`SocketProofs` proves `BytesInOrder`: `[]SentInOrder`, for every length of `iov` and size of
the kernel's buffers (all positive) and every chain whose slices have a size of zero or
more. `Progress` in `IInv` says that what the kernel took ends `left` bytes after the place of
`index` and `offset`, within the chain. The loop that fills `iov` passes over empty slices and
the one that moves `index` does not, so a `writev` need not start in slice `index`: that it
still starts at the same byte (`EmptyBetween`) is shown by the least slice for which it
would not, as induction over the slices is not available.

Only model-checked: liveness everywhere, also that of `Sticky!Spec`, which is out of the
prover's reach; and the modules `IoBuffer`, `RespParser`, `RequestReader`, `CommandRules` and
`Config`. `RequestReader` measures where a frame ends with a recursive function, and what a
recursion computes cannot be proved here by induction.

## Not modelled, and the plan

Next, proofs: `VerdictExact` and `ScratchBounded` of `RespParser`; `BytesAccounted` and
`EndsForCause` of `RequestReader`, once its scripts carry the offsets at which frames end;
`RefcountExact` of `IoBuffer`.

Left out for good, and why:

* the RESP codec, the coroutine library and `Endpoint` are not part of this source; they
  appear as the code uses them;
* socket options, listening and signal set-up in `ProxyServer::run`, `main`: system calls in
  a row, with no state that later steps depend on;
* moving a descriptor from one `CoSocket` to another, trimming of blanks, error texts, the
  value type `Status`: data without control;
* `proxy_bench`: a measuring client that shares no state with the proxy;
* `slicePrefix(n)` for more than is readable, and the test of the offset in `peekFrame`: the
  callers pass what the parser has just measured in the same buffer;
* there is no bound on `client_out_` or `write_queue_` in the code, so none is stated.
