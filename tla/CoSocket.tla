------------------------------ MODULE CoSocket ------------------------------
(***************************************************************************)
(* CoSocket (src/src/co_socket.cpp) over a kernel socket and a peer: the   *)
(* calls connectTo(), readSome() and writeAll(), which suspend in          *)
(* co_poll() with a timeout, and shutdown(), shutdownRead() and close(),   *)
(* which another coroutine of the thread calls meanwhile.  The owner uses  *)
(* it as BackendChannel and ClientSession do: one coroutine reads and one  *)
(* writes, each until a call fails, and the descriptor is closed when      *)
(* neither is in a call.                                                   *)
(*                                                                         *)
(* A byte to be written is its position in the chain, and a chain is the   *)
(* sequence of the positions where its slices end.  Bytes read are         *)
(* counted; IoBuffer models where they go.                                 *)
(***************************************************************************)
EXTENDS Integers, Sequences, FiniteSets, FiniteSetsExt

CONSTANTS Chains,    \* the chains the owner writes
          MaxIov,    \* the 64 entries of iov
          SndBuf,    \* what the kernel buffers to be sent, in bytes
          RcvBuf     \* and to be read

ASSUME SocketAssumption ==
  /\ MaxIov \in Nat \ {0} /\ SndBuf \in Nat \ {0} /\ RcvBuf \in Nat \ {0}
\* Slices have a size of zero or more.
ASSUME ChainsAssumption ==
  \A x \in Chains : /\ x \in Seq(Nat)
                    /\ \A i, j \in 1 .. Len(x) : i <= j => x[i] <= x[j]

VARIABLES
  pc,               \* where each call is: "idle", suspended in "poll", or at
                    \* a place of Running
  status,           \* what each kind of call returned last
  chain, index, offset,  \* writeAll(): its argument and its place there
  left,             \* written: bytes of the last writev() not yet skipped
  wire,             \* bytes of chain the kernel took, in its order
  link,             \* the connection: "none", "syn" while connecting, "up",
                    \* "down" after a refusal, a reset or a disconnect
  rd_shut, wr_shut, \* directions shut down on this side
  fin,              \* the peer has sent its last byte
  inbox, outbox     \* bytes in the kernel's buffers

kernel   == <<link, rd_shut, wr_shut, fin, inbox, outbox>>
writing  == <<chain, index, offset, left, wire>>
vars     == <<pc, status, writing, kernel>>

Calls   == {"connect", "read", "write"}
Running == {"recv", "send", "skip"}
Yielded == \A c \in Calls : pc[c] \notin Running

\* A call returns st.
Return(c, st) ==
  /\ pc' = [pc EXCEPT ![c] = "idle"]
  /\ status' = [status EXCEPT ![c] = st]

Goto(c, place) == pc' = [pc EXCEPT ![c] = place] /\ UNCHANGED status

\* What the calls of a socket have returned before the first of them: an
\* accepted socket needs no connectTo().
NoResult(l) == [c \in Calls |-> IF c = "connect" /\ l = "none" THEN "none" ELSE "Ok"]

\* CoSocket(fd) or reset(fd): an accepted socket, or a fresh one.
Init ==
  /\ link \in {"none", "up"}
  /\ status = NoResult(link)
  /\ pc = [c \in Calls |-> "idle"]
  /\ chain = <<>> /\ index = 1 /\ offset = 0 /\ left = 0 /\ wire = <<>>
  /\ rd_shut = FALSE /\ wr_shut = FALSE /\ fin = FALSE
  /\ inbox = 0 /\ outbox = 0

-----------------------------------------------------------------------------
(* connectTo() *)

\* connect() succeeds or fails at once, or is in progress.
connectTo ==
  /\ Yielded
  /\ pc["connect"] = "idle" /\ status["connect"] = "none"
  /\ \/ link' = "up" /\ Return("connect", "Ok")
     \/ link' = "down" /\ Return("connect", "IoError")
     \/ link' = "syn" /\ Goto("connect", "poll")
  /\ UNCHANGED <<writing, rd_shut, wr_shut, fin, inbox, outbox>>

\* co_poll() found the descriptor ready: SO_ERROR tells how it went.
ConnectEnds ==
  /\ Yielded
  /\ pc["connect"] = "poll" /\ link # "syn"
  /\ Return("connect", IF link = "up" THEN "Ok" ELSE "IoError")
  /\ UNCHANGED <<writing, kernel>>

ConnectTimesOut ==
  /\ Yielded
  /\ pc["connect"] = "poll"
  /\ Return("connect", "IoError")
  /\ UNCHANGED <<writing, kernel>>

-----------------------------------------------------------------------------
(* readSome() *)

readSome ==
  /\ Yielded
  /\ pc["read"] = "idle" /\ \A c \in {"connect", "read"} : status[c] = "Ok"
  /\ Goto("read", "recv")
  /\ UNCHANGED <<writing, kernel>>

\* One read(): bytes, the end of the stream, an error, or nothing yet.
Recv ==
  /\ pc["read"] = "recv"
  /\ \/ /\ link = "up" /\ inbox > 0
        /\ \E n \in 1 .. inbox : inbox' = inbox - n
        /\ Return("read", "Ok")
     \/ /\ link = "up" /\ inbox = 0 /\ (fin \/ rd_shut)
        /\ Return("read", "Closed")
        /\ UNCHANGED inbox
     \/ link = "down" /\ Return("read", "IoError") /\ UNCHANGED inbox
     \/ /\ link = "up" /\ inbox = 0 /\ ~fin /\ ~rd_shut
        /\ Goto("read", "poll")
        /\ UNCHANGED inbox
  /\ UNCHANGED <<writing, link, rd_shut, wr_shut, fin, outbox>>

\* Ready: readSome() calls itself again.
ReadReady ==
  /\ Yielded
  /\ pc["read"] = "poll" /\ (inbox > 0 \/ fin \/ rd_shut \/ link = "down")
  /\ Goto("read", "recv")
  /\ UNCHANGED <<writing, kernel>>

ReadTimesOut ==
  /\ Yielded
  /\ pc["read"] = "poll"
  /\ Return("read", "IoError")
  /\ UNCHANGED <<writing, kernel>>

-----------------------------------------------------------------------------
(* writeAll() *)

writeAll(x) ==
  /\ Yielded
  /\ pc["write"] = "idle" /\ \A c \in {"connect", "write"} : status[c] = "Ok"
  /\ chain' = x /\ index' = 1 /\ offset' = 0 /\ left' = 0 /\ wire' = <<>>
  /\ Goto("write", "send")
  /\ UNCHANGED kernel

Start(i) == IF i = 1 THEN 0 ELSE chain[i - 1]
Size(i)  == chain[i] - Start(i)

\* The slices that get an entry in iov, and the position before its first byte.
SliceOffset(i) == IF i = index THEN offset ELSE 0
iov ==
  LET live == {i \in index .. Len(chain) : Size(i) > SliceOffset(i)}
  IN  {i \in live : Cardinality({j \in live : j < i}) < MaxIov}
iov_base == LET i == Min(iov) IN Start(i) + SliceOffset(i)

\* One writev() that takes n > 0 bytes.
Send ==
  /\ pc["write"] = "send" /\ index <= Len(chain) /\ iov # {}
  /\ link = "up" /\ ~wr_shut
  /\ \E n \in 1 .. Min({SndBuf - outbox, chain[Max(iov)] - iov_base}) :
       /\ wire' = wire \o [k \in 1 .. n |-> iov_base + k]
       /\ outbox' = outbox + n
       /\ left' = n
  /\ Goto("write", "skip")
  /\ UNCHANGED <<chain, index, offset, link, rd_shut, wr_shut, fin, inbox>>

\* Variant: a second partial write of a slice forgets the first.
SkipFromStart ==
  /\ pc["write"] = "skip" /\ left > 0 /\ index <= Len(chain)
  /\ IF left < Size(index) - offset
     THEN offset' = left /\ left' = 0 /\ UNCHANGED index
     ELSE left' = left - (Size(index) - offset) /\ index' = index + 1 /\ offset' = 0
  /\ UNCHANGED <<pc, status, chain, wire, kernel>>

\* One turn of the loop that moves index and offset past what was written.
Skip ==
  /\ pc["write"] = "skip" /\ left > 0 /\ index <= Len(chain)
  /\ LET available == Size(index) - offset
     IN  IF left < available
         THEN offset' = offset + left /\ left' = 0 /\ UNCHANGED index
         ELSE left' = left - available /\ index' = index + 1 /\ offset' = 0
  /\ UNCHANGED <<pc, status, chain, wire, kernel>>

Skipped ==
  /\ pc["write"] = "skip" /\ (left = 0 \/ index > Len(chain))
  /\ Goto("write", "send")
  /\ UNCHANGED <<writing, kernel>>

\* No slice is left, or none with bytes.
WriteDone ==
  /\ pc["write"] = "send" /\ (index > Len(chain) \/ iov = {})
  /\ Return("write", "Ok")
  /\ UNCHANGED <<writing, kernel>>

\* writev() fails, or takes nothing.
WriteFails ==
  /\ pc["write"] = "send" /\ index <= Len(chain) /\ iov # {}
  /\ link = "down" \/ wr_shut
  /\ Return("write", "IoError")
  /\ UNCHANGED <<writing, kernel>>

\* EAGAIN.
WriteBlocks ==
  /\ pc["write"] = "send" /\ index <= Len(chain) /\ iov # {}
  /\ link = "up" /\ ~wr_shut /\ outbox = SndBuf
  /\ Goto("write", "poll")
  /\ UNCHANGED <<writing, kernel>>

WriteReady ==
  /\ Yielded
  /\ pc["write"] = "poll" /\ (outbox < SndBuf \/ wr_shut \/ link = "down")
  /\ Goto("write", "send")
  /\ UNCHANGED <<writing, kernel>>

\* Variant: the result of co_poll() is not looked at.
WriteTriesOn ==
  /\ Yielded
  /\ pc["write"] = "poll"
  /\ Goto("write", "send")
  /\ UNCHANGED <<writing, kernel>>

WriteTimesOut ==
  /\ Yielded
  /\ pc["write"] = "poll"
  /\ Return("write", "IoError")
  /\ UNCHANGED <<writing, kernel>>

-----------------------------------------------------------------------------
(* The other coroutines *)

shutdownRead ==
  /\ Yielded /\ link # "none"
  /\ rd_shut' = TRUE
  /\ UNCHANGED <<pc, status, writing, link, wr_shut, fin, inbox, outbox>>

\* Variant: SHUT_WR instead of SHUT_RDWR.
shutdownWrite ==
  /\ Yielded /\ link # "none"
  /\ wr_shut' = TRUE
  /\ link' = IF link = "syn" THEN "down" ELSE link
  /\ UNCHANGED <<pc, status, writing, rd_shut, fin, inbox, outbox>>

\* A socket that is still connecting is disconnected by it.
shutdown ==
  /\ Yielded /\ link # "none"
  /\ rd_shut' = TRUE /\ wr_shut' = TRUE
  /\ link' = IF link = "syn" THEN "down" ELSE link
  /\ UNCHANGED <<pc, status, writing, fin, inbox, outbox>>

\* close(), and the next socket takes its place.
close ==
  /\ \A c \in Calls : pc[c] = "idle"
  /\ \E c \in Calls : status[c] \in {"Closed", "IoError"}
  /\ link' \in {"none", "up"}
  /\ status' = NoResult(link')
  /\ chain' = <<>> /\ index' = 1 /\ offset' = 0 /\ left' = 0 /\ wire' = <<>>
  /\ rd_shut' = FALSE /\ wr_shut' = FALSE /\ fin' = FALSE
  /\ inbox' = 0 /\ outbox' = 0
  /\ UNCHANGED pc

-----------------------------------------------------------------------------
(* The peer and the network (external) *)

Handshake ==
  /\ link = "syn" /\ link' \in {"up", "down"}
  /\ UNCHANGED <<pc, status, writing, rd_shut, wr_shut, fin, inbox, outbox>>

PeerSends ==
  /\ link = "up" /\ ~fin /\ inbox < RcvBuf
  /\ inbox' = inbox + 1
  /\ UNCHANGED <<pc, status, writing, link, rd_shut, wr_shut, fin, outbox>>

PeerCloses ==
  /\ link = "up" /\ ~fin /\ fin' = TRUE
  /\ UNCHANGED <<pc, status, writing, link, rd_shut, wr_shut, inbox, outbox>>

PeerReads ==
  /\ link = "up" /\ outbox > 0
  /\ outbox' = outbox - 1
  /\ UNCHANGED <<pc, status, writing, link, rd_shut, wr_shut, fin, inbox>>

Reset ==
  /\ link = "up" /\ link' = "down"
  /\ UNCHANGED <<pc, status, writing, rd_shut, wr_shut, fin, inbox, outbox>>

-----------------------------------------------------------------------------
Timeout == ConnectTimesOut \/ ReadTimesOut \/ WriteTimesOut

\* What the coroutines in a call do, timeouts apart.
Step ==
  \/ ConnectEnds \/ Recv \/ ReadReady
  \/ Send \/ Skip \/ Skipped \/ WriteDone \/ WriteFails \/ WriteBlocks \/ WriteReady

Owner ==
  \/ connectTo \/ readSome \/ (\E x \in Chains : writeAll(x))
  \/ shutdownRead \/ shutdown \/ close

Network == Handshake \/ PeerSends \/ PeerCloses \/ PeerReads \/ Reset

Next == Step \/ Timeout \/ Owner \/ Network

Spec == Init /\ [][Next]_vars

\* The scheduler resumes a coroutine whose descriptor is ready, though others
\* hold the thread in between.
ReadySpec ==
  /\ Spec
  /\ SF_vars(ConnectEnds) /\ SF_vars(ReadReady) /\ SF_vars(WriteReady)
  /\ WF_vars(Recv)
  /\ WF_vars(Send \/ Skip \/ Skipped \/ WriteDone \/ WriteFails \/ WriteBlocks)

TimeoutsExpire ==
  SF_vars(ConnectTimesOut) /\ SF_vars(ReadTimesOut) /\ SF_vars(WriteTimesOut)

-----------------------------------------------------------------------------
(* Properties *)

\* The peer gets the bytes of the chain in order, none twice and none left
\* out, however writev() cuts them and however often writeAll() is suspended
\* in between; and writeAll() says Ok only when all of them are out.
SentInOrder ==
  /\ wire = [k \in 1 .. Len(wire) |-> k]
  /\ pc["write"] = "idle" /\ status["write"] = "Ok" /\ chain # <<>>
       => Len(wire) = chain[Len(chain)]

\* "Interrupt outstanding I/O without recycling the descriptor" (co_socket.h):
\* after shutdown() no call stays suspended, even if no timeout ever expires.
ShutdownReleases ==
  \A c \in Calls : wr_shut /\ pc[c] = "poll" ~> pc[c] # "poll"

\* With finite timeouts every call returns, whatever the peer does or does not do.
CallsReturn ==
  TimeoutsExpire => \A c \in Calls : pc[c] # "idle" ~> pc[c] = "idle"
=============================================================================
