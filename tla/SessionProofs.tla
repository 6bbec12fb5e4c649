--------------------------- MODULE SessionProofs ----------------------------
(***************************************************************************)
(* The rest of the proof that ClientSession keeps its invariant: the steps *)
(* of the writer and of the channels; and what follows from the invariant. *)
(***************************************************************************)
EXTENDS SessionReaderProofs

-----------------------------------------------------------------------------
(* The coroutine of writerLoop() *)

\* The writer's steps that only move it: its resumption, its wait for output
\* and the break out of its loop.
LEMMA WriterMoves ==
  ASSUME IInv, NEW s \in Sessions, WriterResumes(s) \/ WriterWaits(s) \/ WriterBreaks(s)
  PROVE  IInv'
<1>1. /\ UNCHANGED <<input, output, reply_signal, backend, channels, state, reader_pc>>
      /\ output_signal' \in [Sessions -> BOOLEAN]
  BY Zenon DEF WriterResumes, WriterWaits, WriterBreaks, wait, signals, IInv, Types,
         SessionTypes, StateTypes
<1>2. PICK pc \in {"cpu", "wait", "exit"} :
        /\ writer_pc' = [writer_pc EXCEPT ![s] = pc]
        /\ writer_pc[s] \in {"ready", "wait", "cpu"}
        /\ pc = "exit" => WriterBreaks(s)
  BY Zenon DEF WriterResumes, WriterWaits, WriterBreaks, wait, IInv, Types, SessionTypes
<1>3. SessionTypes'
  BY <1>1, <1>2 DEF IInv, Types, SessionTypes, StateTypes, input, output, backend
<1>4. ChannelTypes' /\ \A c \in Channels, t \in Sessions : OwedTo(c, t)' = OwedTo(c, t)
  BY <1>1, ChannelFrame, Zenon DEF IInv, Types
<1>5. \A t \in Sessions : Untouched(t)
  BY <1>1, <1>4, Zenon DEF Untouched, input, output, backend, channels, Refused, IInv,
                           SessionInv, Outstanding
<1>6. \A t \in Sessions \ {s} : Untouched(t) /\ writer_pc'[t] = writer_pc[t]
  BY <1>2, <1>5 DEF IInv, Types, SessionTypes
<1>7. SessionInv(s)'
  <2>1. Numbered(s)' /\ Outstanding(s)' /\ Accounted(s)'
    BY <1>5, Frame, Zenon DEF IInv
  <2>2. Writing(s)'
    <3>1. writer_pc'[s] = pc /\ chunk[s] = <<>> /\ chunk'[s] = <<>>
      BY <1>1, <1>2, Zenon DEF IInv, Types, SessionTypes, SessionInv, Writing, output
    <3>2. pc = "exit" => \/ state[s] = "Aborted"
                         \/ /\ state[s] = "Draining" /\ pending[s] = 0
                            /\ client_out[s] = <<>> /\ final_error[s] = 0
      BY <1>2, Zenon DEF WriterBreaks, AllAnswered
    <3> QED BY <1>1, <1>2, <3>1, <3>2 DEF Writing, output, backend
  <2> QED BY <2>1, <2>2, Zenon DEF SessionInv
<1>8. Types'
  BY <1>3, <1>4 DEF Types
<1> QED BY <1>6, <1>7, <1>8, OnlyOwn

\* WriterEnds: as ReaderEnds.
LEMMA WriterEndsKeeps ==
  ASSUME IInv, NEW s \in Sessions, WriterEnds(s)
  PROVE  IInv'
<1>1. /\ writer_pc[s] = "exit" /\ writer_pc' = [writer_pc EXCEPT ![s] = "done"]
      /\ UNCHANGED <<input, output, signals, backend, up, state, reader_pc>>
  BY DEF WriterEnds
<1>2. OwedTypes' /\ \A c \in Channels, t \in Sessions : OwedTo(c, t)' = OwedTo(c, t)
  <2>1. CASE reader_pc[s] = "done"
    <3>1. detachOwner({s}, {})
      BY <2>1 DEF WriterEnds, finishLoop
    <3>2. OwedTypes' /\ \A c \in Channels : \A t : OwedTo(c, t)' =
            IF c \in {} \/ t \in {s} THEN {} ELSE OwedTo(c, t)
      BY <3>1, DetachedOwed DEF IInv, Types
    <3>3. pending[s] = 0
      BY <1>1 DEF IInv, SessionInv, Writing, Accounted
    <3>4. \A c \in Channels : OwedTo(c, s) = {}
      BY <3>3, OwedOnCurrent DEF IInv
    <3> QED BY <3>2, <3>4
  <2>2. CASE reader_pc[s] # "done"
    <3>1. UNCHANGED <<owed, orphans>>
      BY <2>2 DEF WriterEnds, finishLoop
    <3> QED BY <3>1 DEF OwedTypes, OwedTo, IInv, Types, ChannelTypes
  <2> QED BY <2>1, <2>2
<1>3. Types'
  BY <1>1, <1>2 DEF IInv, Types, SessionTypes, StateTypes, ChannelTypes, input, output,
                    backend, signals
<1>4. \A t \in Sessions : Untouched(t)
  BY <1>1, <1>2, Zenon DEF Untouched, input, output, backend, Refused, IInv, SessionInv,
                           Outstanding
<1>5. \A t \in Sessions \ {s} : Untouched(t) /\ writer_pc'[t] = writer_pc[t]
  BY <1>1, <1>4 DEF IInv, Types, SessionTypes
<1>6. SessionInv(s)'
  <2>1. Numbered(s)' /\ Outstanding(s)' /\ Accounted(s)'
    BY <1>4, Frame, Zenon DEF IInv
  <2>2. Writing(s)'
    BY <1>1, Zenon DEF IInv, Types, SessionTypes, SessionInv, Writing, output, backend
  <2> QED BY <2>1, <2>2, Zenon DEF SessionInv
<1> QED BY <1>3, <1>5, <1>6, OnlyOwn

\* WriteFails: the session aborts, what was being written is lost.
LEMMA WriteFailsKeeps ==
  ASSUME IInv, NEW s \in Sessions, WriteFails(s)
  PROVE  IInv'
<1>1. /\ abort({s}, {}) /\ chunk' = [chunk EXCEPT ![s] = <<>>]
      /\ writer_pc' = [writer_pc EXCEPT ![s] = "exit"]
      /\ UNCHANGED <<script, got, parsed, received, final_error, up, reader_pc>>
  BY DEF WriteFails, input
<1>2. OwedTypes' /\ StateTypes' /\ LetGo(s)
  BY <1>1, AbortEffect
<1>3. Types'
  <2>1. chunk' \in [Sessions -> Seq(Nat)]
    <3>1. <<>> \in Seq(Nat) /\ chunk \in [Sessions -> Seq(Nat)]
      BY DEF IInv, Types, SessionTypes
    <3> QED BY <1>1, <3>1, Zenon
  <2> QED BY <1>1, <1>2, <2>1 DEF IInv, Types, SessionTypes, ChannelTypes
<1>4. ASSUME NEW t \in Sessions
      PROVE  /\ Numbered(t)' /\ Outstanding(t)' /\ Accounted(t)'
             /\ writer_pc'[t] = writer_pc[t] /\ chunk'[t] = chunk[t] => SessionInv(t)'
  <2>1. chunk'[t] = chunk[t] \/ (t \in {s} /\ chunk'[t] = <<>>)
    BY <1>1 DEF IInv, Types, SessionTypes
  <2> QED BY <1>1, <2>1, AbortKeeps
<1>5. ASSUME NEW t \in Sessions PROVE SessionInv(t)'
  <2>1. CASE t = s
    <3>1. Writing(s)'
      BY <1>1, <1>2, Zenon DEF Writing, LetGo, IInv, Types, SessionTypes
    <3> QED BY <1>4, <2>1, <3>1, Zenon DEF SessionInv
  <2>2. CASE t # s
    <3>1. writer_pc'[t] = writer_pc[t] /\ chunk'[t] = chunk[t]
      BY <1>1, <2>2 DEF IInv, Types, SessionTypes
    <3> QED BY <1>4, <3>1, Zenon
  <2> QED BY <2>1, <2>2
<1> QED BY <1>3, <1>5 DEF IInv

\* The first element of a sequence, and the rest, in order.
LEMMA FromTail ==
  ASSUME NEW seq \in Seq(Nat), NEW n \in Nat, From(seq, n), seq # <<>>
  PROVE  /\ Head(seq) = n + 1 /\ From(Tail(seq), n + 1) /\ Tail(seq) \in Seq(Nat)
         /\ Len(seq) \in Nat \ {0} /\ Len(Tail(seq)) = Len(seq) - 1
<1>1. Len(seq) \in Nat \ {0} /\ Head(seq) = seq[1] /\ 1 \in DOMAIN seq
  OBVIOUS
<1>2. Head(seq) = n + 1
  BY <1>1 DEF From
<1>3. Tail(seq) \in Seq(Nat) /\ Len(Tail(seq)) = Len(seq) - 1
  BY <1>1
<1>4. ASSUME NEW k \in DOMAIN Tail(seq) PROVE Tail(seq)[k] = n + 1 + k
  <2>1. k \in 1 .. (Len(seq) - 1)
    BY <1>1, <1>3
  <2>2. k + 1 \in DOMAIN seq /\ Tail(seq)[k] = seq[k + 1] /\ k \in Nat
    BY <1>1, <2>1
  <2>3. seq[k + 1] = n + (k + 1)
    BY <2>2 DEF From
  <2> QED BY <2>2, <2>3
<1> QED BY <1>1, <1>2, <1>3, <1>4, Zenon DEF From

\* A part of a sequence, in order.
LEMMA FromPart ==
  ASSUME NEW seq \in Seq(Nat), NEW n \in Nat, From(seq, n),
         NEW a \in Nat, NEW b \in Nat, a <= b, b <= Len(seq)
  PROVE  /\ SubSeq(seq, a + 1, b) \in Seq(Nat) /\ Len(SubSeq(seq, a + 1, b)) = b - a
         /\ From(SubSeq(seq, a + 1, b), n + a)
<1>1. \A k \in (a + 1) .. b : seq[k] \in Nat /\ seq[k] = n + k
  <2>1. \A k \in (a + 1) .. b : k \in DOMAIN seq /\ seq[k] \in Nat
    OBVIOUS
  <2> QED BY <2>1, Zenon DEF From
<1>2. PICK m \in Nat : m = b - a
  OBVIOUS
<1>3. SubSeq(seq, a + 1, b) = [k \in 1 .. m |-> seq[a + k]]
  BY <1>2
<1>4. ASSUME NEW k \in 1 .. m PROVE seq[a + k] \in Nat /\ seq[a + k] = n + a + k
  <2>1. a + k \in (a + 1) .. b /\ n + (a + k) = n + a + k
    BY <1>2
  <2> QED BY <1>1, <2>1, Zenon
<1>5. PICK q : q = [k \in 1 .. m |-> seq[a + k]]
  BY Zenon
<1>6. q \in [1 .. m -> Nat] /\ \A k \in 1 .. m : q[k] = n + a + k
  BY <1>4, <1>5, Zenon
<1>7. q \in Seq(Nat) /\ Len(q) = m /\ DOMAIN q = 1 .. m
  BY <1>6
<1> QED BY <1>2, <1>3, <1>5, <1>6, <1>7, Zenon DEF From

\* The two parts of a sequence that is cut after i elements, in order.
LEMMA FromSplit ==
  ASSUME NEW seq \in Seq(Nat), NEW n \in Nat, From(seq, n),
         NEW i \in 1 .. Len(seq)
  PROVE  /\ SubSeq(seq, 1, i) \in Seq(Nat) /\ SubSeq(seq, i + 1, Len(seq)) \in Seq(Nat)
         /\ Len(SubSeq(seq, 1, i)) = i
         /\ Len(SubSeq(seq, i + 1, Len(seq))) = Len(seq) - i
         /\ From(SubSeq(seq, 1, i), n)
         /\ From(SubSeq(seq, i + 1, Len(seq)), n + i)
<1>1. /\ i \in Nat /\ Len(seq) \in Nat /\ 0 \in Nat /\ 0 <= i /\ i <= Len(seq)
      /\ Len(seq) <= Len(seq) /\ 0 + 1 = 1 /\ i - 0 = i /\ n + 0 = n
  OBVIOUS
<1>2. /\ SubSeq(seq, 0 + 1, i) \in Seq(Nat) /\ Len(SubSeq(seq, 0 + 1, i)) = i - 0
      /\ From(SubSeq(seq, 0 + 1, i), n + 0)
  BY <1>1, FromPart, Zenon
<1>3. /\ SubSeq(seq, i + 1, Len(seq)) \in Seq(Nat)
      /\ Len(SubSeq(seq, i + 1, Len(seq))) = Len(seq) - i
      /\ From(SubSeq(seq, i + 1, Len(seq)), n + i)
  BY <1>1, FromPart, Zenon
<1> QED BY <1>1, <1>2, <1>3, Zenon

\* The one sequence without elements.
LEMMA NoElements ==
  ASSUME NEW seq \in Seq(Nat)
  PROVE  Len(seq) \in Nat /\ (seq = <<>> <=> Len(seq) = 0)
OBVIOUS

\* What Writes does to the three parts of the output.
LEMMA OneWritten ==
  ASSUME NEW r \in Seq(Nat), NEW k \in Seq(Nat), NEW o \in Seq(Nat), k # <<>>,
         From(r, 0), From(k, Len(r)), From(o, Len(r) + Len(k))
  PROVE  \E r2 \in Seq(Nat), k2 \in Seq(Nat) :
           /\ r2 = Append(r, Head(k)) /\ k2 = Tail(k)
           /\ From(r2, 0) /\ From(k2, Len(r2)) /\ From(o, Len(r2) + Len(k2))
           /\ Len(r2) + Len(k2) + Len(o) = Len(r) + Len(k) + Len(o)
           /\ k2 = <<>> <=> Len(k) = 1
<1>1. PICK x \in Nat : x = Len(r)
  OBVIOUS
<1>2. PICK h \in Nat, k2 \in Seq(Nat), y \in Nat \ {0} :
        /\ h = Head(k) /\ k2 = Tail(k) /\ y = Len(k)
        /\ h = x + 1 /\ From(k2, x + 1) /\ Len(k2) = y - 1
  <2>1. From(k, x) /\ x + 1 \in Nat
    BY <1>1
  <2>2. /\ Head(k) = x + 1 /\ From(Tail(k), x + 1) /\ Tail(k) \in Seq(Nat)
        /\ Len(k) \in Nat \ {0} /\ Len(Tail(k)) = Len(k) - 1
    BY <2>1, FromTail, Zenon
  <2> QED BY <2>1, <2>2, Zenon
<1>3. h = 0 + x + 1 /\ 0 \in Nat
  BY <1>2
<1>4. PICK r2 \in Seq(Nat) : r2 = Append(r, h) /\ From(r2, 0) /\ Len(r2) = x + 1
  BY <1>1, <1>3, FromAppend, Zenon
<1>5. (x + 1) + (y - 1) = x + y
  OBVIOUS
<1>6. k2 = <<>> <=> y = 1
  <2>1. k2 = <<>> <=> Len(k2) = 0
    BY NoElements, Zenon
  <2>2. y - 1 = 0 <=> y = 1
    OBVIOUS
  <2> QED BY <1>2, <2>1, <2>2, Zenon
<1> QED BY <1>1, <1>2, <1>4, <1>5, <1>6, Zenon

\* A step of the writer of s that moves replies along.
LEMMA WriterKeeps ==
  ASSUME IInv, NEW s \in Sessions, SessionTypes',
         UNCHANGED <<input, signals, backend, channels, state, reader_pc>>,
         \A t \in Sessions \ {s} :
           /\ received'[t] = received[t] /\ chunk'[t] = chunk[t]
           /\ client_out'[t] = client_out[t] /\ final_error'[t] = final_error[t]
           /\ writer_pc'[t] = writer_pc[t],
         Numbered(s)', Accounted(s)', Writing(s)', Sent(s)' \in Nat,
         Sent(s)' = Sent(s) \/ pending[s] = 0
  PROVE  IInv'
<1>1. ChannelTypes' /\ \A c \in Channels, t \in Sessions : OwedTo(c, t)' = OwedTo(c, t)
  BY ChannelFrame, Zenon DEF IInv, Types
<1>2. Types'
  BY <1>1 DEF Types
<1>3. Due(s)' = Due(s)
  <2>1. CASE Sent(s)' = Sent(s)
    BY <2>1 DEF Due, backend
  <2>2. CASE pending[s] = 0
    <3>1. Sent(s) \in Nat /\ pending'[s] = 0
      BY <2>2, OwedOnCurrent DEF IInv, backend
    <3>2. Due(s) = {} /\ Due(s)' = {}
      BY <2>2, <3>1 DEF Due
    <3> QED BY <3>2
  <2> QED BY <2>1, <2>2
<1>4. Outstanding(s)'
  BY <1>1, <1>3 DEF IInv, SessionInv, Outstanding, backend, channels
<1>5. SessionInv(s)'
  BY <1>4, Zenon DEF SessionInv
<1>6. ASSUME NEW t \in Sessions \ {s} PROVE Untouched(t) /\ writer_pc'[t] = writer_pc[t]
  <2>1. current[t] # NoChannel => up'[current[t]]
    BY Zenon DEF IInv, SessionInv, Outstanding, channels
  <2>2. /\ parsed'[t] = parsed[t] /\ got'[t] = got[t] /\ state'[t] = state[t]
        /\ Refused(t)' = Refused(t) /\ current'[t] = current[t] /\ pending'[t] = pending[t]
    BY Zenon DEF input, backend, Refused
  <2>3. /\ received'[t] = received[t] /\ chunk'[t] = chunk[t]
        /\ client_out'[t] = client_out[t] /\ final_error'[t] = final_error[t]
        /\ writer_pc'[t] = writer_pc[t]
    BY Zenon
  <2>4. \A c \in Channels : OwedTo(c, t)' = OwedTo(c, t)
    BY <1>1, Zenon
  <2> QED BY <2>1, <2>2, <2>3, <2>4, Zenon DEF Untouched
<1> QED BY <1>2, <1>5, <1>6, OnlyOwn, Zenon

\* A step of the writer that moves replies along and keeps their number.
LEMMA WriterShifts ==
  ASSUME IInv, NEW s \in Sessions, SessionTypes', state[s] # "Aborted",
         UNCHANGED <<input, signals, backend, channels, state, reader_pc, final_error>>,
         \A t \in Sessions \ {s} :
           /\ received'[t] = received[t] /\ chunk'[t] = chunk[t]
           /\ client_out'[t] = client_out[t] /\ writer_pc'[t] = writer_pc[t],
         Numbered(s)', Writing(s)', Sent(s)' = Sent(s)
  PROVE  IInv'
<1>1. Accounted(s)'
  <2>1. Accounted(s) /\ Refused(s)' = Refused(s)
    BY Zenon DEF IInv, SessionInv, Refused
  <2> QED BY <2>1, Zenon DEF Accounted, backend, input
<1>2. Sent(s)' \in Nat
  BY OwedOnCurrent, Zenon DEF IInv
<1> QED BY <1>1, <1>2, WriterKeeps, Zenon

\* Writes: the first reply of the chunk goes to the client.
LEMMA WritesKeeps ==
  ASSUME IInv, NEW s \in Sessions, Writes(s)
  PROVE  IInv'
<1>1. /\ writer_pc[s] = "write" /\ state[s] # "Aborted"
      /\ received' = [received EXCEPT ![s] = Append(received[s], Head(chunk[s]))]
      /\ chunk' = [chunk EXCEPT ![s] = Tail(chunk[s])]
      /\ writer_pc' = [writer_pc EXCEPT ![s] = IF Len(chunk[s]) = 1 THEN "cpu" ELSE "write"]
      /\ UNCHANGED <<input, client_out, final_error, signals, backend, channels,
                     state, reader_pc>>
  BY DEF Writes
<1>2. PICK r \in Seq(Nat), k \in Seq(Nat), o \in Seq(Nat) :
        /\ r = received[s] /\ k = chunk[s] /\ o = client_out[s] /\ k # <<>>
        /\ From(r, 0) /\ From(k, Len(r)) /\ From(o, Len(r) + Len(k))
  <2>1. chunk[s] # <<>>
    BY <1>1 DEF IInv, SessionInv, Writing
  <2> QED BY <2>1, Zenon DEF IInv, Types, SessionTypes, StateTypes, SessionInv, Numbered
<1>3. PICK r2 \in Seq(Nat), k2 \in Seq(Nat) :
        /\ r2 = Append(r, Head(k)) /\ k2 = Tail(k)
        /\ From(r2, 0) /\ From(k2, Len(r2)) /\ From(o, Len(r2) + Len(k2))
        /\ Len(r2) + Len(k2) + Len(o) = Len(r) + Len(k) + Len(o)
        /\ k2 = <<>> <=> Len(k) = 1
  <2>1. k # <<>> /\ From(r, 0) /\ From(k, Len(r)) /\ From(o, Len(r) + Len(k))
    BY <1>2, Zenon
  <2> QED BY <2>1, OneWritten, Zenon
<1>7. received'[s] = r2 /\ chunk'[s] = k2 /\ client_out'[s] = o
  <2>1. received'[s] = Append(r, Head(k)) /\ chunk'[s] = Tail(k)
    BY <1>1, <1>2, Zenon DEF IInv, Types, SessionTypes
  <2> QED BY <1>1, <1>2, <1>3, <2>1, Zenon
<1>9. Numbered(s)'
  BY <1>3, <1>7, Zenon DEF Numbered
<1>10. Sent(s)' = Sent(s)
  BY <1>2, <1>3, <1>7, Zenon DEF Sent
<1>11. Writing(s)'
  <2>1. writer_pc'[s] = IF Len(k) = 1 THEN "cpu" ELSE "write"
    BY <1>1, <1>2, Zenon DEF IInv, Types, SessionTypes
  <2>2. k2 = <<>> <=> Len(k) = 1
    BY <1>3, Zenon
  <2> QED BY <1>7, <2>1, <2>2 DEF Writing
<1>12. SessionTypes'
  <2>1. received' \in [Sessions -> Seq(Nat)] /\ chunk' \in [Sessions -> Seq(Nat)]
    <3>1. /\ received \in [Sessions -> Seq(Nat)] /\ chunk \in [Sessions -> Seq(Nat)]
          /\ Append(received[s], Head(chunk[s])) \in Seq(Nat) /\ Tail(chunk[s]) \in Seq(Nat)
      BY <1>2, <1>3, Zenon DEF IInv, Types, SessionTypes
    <3> QED BY <1>1, <3>1, Zenon
  <2> QED BY <1>1, <2>1, Zenon DEF IInv, Types, SessionTypes, StateTypes, input, signals, backend
<1>13. \A t \in Sessions \ {s} :
         /\ received'[t] = received[t] /\ chunk'[t] = chunk[t]
         /\ client_out'[t] = client_out[t] /\ writer_pc'[t] = writer_pc[t]
  BY <1>1, Zenon DEF IInv, Types, SessionTypes
<1> QED BY <1>1, <1>9, <1>10, <1>11, <1>12, <1>13, WriterShifts, Zenon

\* The replies o after number x, cut in two parts after the first i.
Cut(x, o, i, k2, o2) ==
  /\ k2 = SubSeq(o, 1, i) /\ o2 = SubSeq(o, i + 1, Len(o)) /\ k2 # <<>>
  /\ From(k2, x) /\ From(o2, x + Len(k2))
  /\ x + Len(k2) + Len(o2) = x + Len(o)

\* What WriterTakes does to the output: at least one reply is taken.
LEMMA BatchTaken ==
  ASSUME NEW x \in Nat, NEW o \in Seq(Nat), o # <<>>, From(o, x),
         NEW i, i = Min({OutBatch, Len(o)})
  PROVE  \E k2 \in Seq(Nat), o2 \in Seq(Nat) : Cut(x, o, i, k2, o2)
<1>1. PICK l \in Nat \ {0} : l = Len(o)
  OBVIOUS
<1>2. i \in 1 .. Len(o)
  <2>1. OutBatch \in Nat /\ OutBatch > 0
    BY BudgetAssumption
  <2>2. \E v \in {OutBatch, l} : \A w \in {OutBatch, l} : v <= w
    BY <2>1
  <2>3. i \in {OutBatch, l} /\ \A w \in {OutBatch, l} : i <= w
    BY <1>1, <2>2, Zenon DEF Min
  <2> QED BY <1>1, <2>1, <2>3
<1>3. /\ SubSeq(o, 1, i) \in Seq(Nat) /\ SubSeq(o, i + 1, Len(o)) \in Seq(Nat)
      /\ Len(SubSeq(o, 1, i)) = i
      /\ Len(SubSeq(o, i + 1, Len(o))) = Len(o) - i
      /\ From(SubSeq(o, 1, i), x)
      /\ From(SubSeq(o, i + 1, Len(o)), x + i)
  BY <1>2, FromSplit, Zenon
<1>4. PICK k2 \in Seq(Nat), o2 \in Seq(Nat) :
        /\ k2 = SubSeq(o, 1, i) /\ o2 = SubSeq(o, i + 1, Len(o))
        /\ Len(k2) = i /\ Len(o2) = l - i /\ From(k2, x) /\ From(o2, x + i)
  BY <1>1, <1>3, Zenon
<1>5. x + i + (l - i) = x + l /\ i # 0
  <2>1. PICK j \in Nat \ {0} : j = i
    BY <1>2
  <2>2. x + j + (l - j) = x + l
    OBVIOUS
  <2> QED BY <2>1, <2>2, Zenon
<1>6. k2 # <<>>
  BY <1>4, <1>5, NoElements, Zenon
<1> QED BY <1>1, <1>4, <1>5, <1>6, Zenon DEF Cut

\* WriterTakes: the next replies, or after all of them the final error.
LEMMA WriterTakesKeeps ==
  ASSUME IInv, NEW s \in Sessions, WriterTakes(s)
  PROVE  IInv'
<1>1. /\ writer_pc[s] = "cpu" /\ state[s] # "Aborted"
      /\ writer_pc' = [writer_pc EXCEPT ![s] = "write"]
      /\ UNCHANGED <<input, received, signals, backend, channels, state, reader_pc>>
  BY DEF WriterTakes
<1>2. PICK r \in Seq(Nat), o \in Seq(Nat), x \in Nat :
        /\ r = received[s] /\ o = client_out[s] /\ x = Len(r) /\ chunk[s] = <<>>
        /\ From(r, 0) /\ From(o, x) /\ Sent(s) = x + Len(o)
  <2>1. chunk[s] = <<>>
    BY <1>1 DEF IInv, SessionInv, Writing
  <2>2. Len(received[s]) \in Nat /\ Len(client_out[s]) \in Nat /\ Len(<<>>) = 0
    BY DEF IInv, Types, SessionTypes, StateTypes
  <2>3. Len(received[s]) + 0 = Len(received[s])
    BY <2>2
  <2> QED BY <2>1, <2>2, <2>3, Zenon
          DEF IInv, Types, SessionTypes, StateTypes, SessionInv, Numbered, Sent
<1>3. CASE client_out[s] # <<>>
  <2>1. PICK i : /\ i = Min({OutBatch, Len(o)})
                 /\ chunk' = [chunk EXCEPT ![s] = SubSeq(o, 1, i)]
                 /\ client_out' = [client_out EXCEPT ![s] = SubSeq(o, i + 1, Len(o))]
                 /\ UNCHANGED final_error
    BY <1>2, <1>3, Zenon DEF WriterTakes
  <2>2. PICK k2 \in Seq(Nat), o2 \in Seq(Nat) :
          /\ k2 = SubSeq(o, 1, i) /\ o2 = SubSeq(o, i + 1, Len(o)) /\ k2 # <<>>
          /\ From(k2, x) /\ From(o2, x + Len(k2))
          /\ x + Len(k2) + Len(o2) = x + Len(o)
    <3>1. o # <<>> /\ From(o, x) /\ i = Min({OutBatch, Len(o)})
      BY <1>2, <1>3, <2>1, Zenon
    <3>2. \E k2 \in Seq(Nat), o2 \in Seq(Nat) : Cut(x, o, i, k2, o2)
      BY <3>1, BatchTaken, Zenon
    <3> QED BY <3>2, Zenon DEF Cut
  <2>3. chunk' = [chunk EXCEPT ![s] = k2] /\ client_out' = [client_out EXCEPT ![s] = o2]
    BY <2>1, <2>2, Zenon
  <2>4. chunk'[s] = k2 /\ client_out'[s] = o2 /\ received'[s] = r /\ writer_pc'[s] = "write"
    BY <1>1, <1>2, <2>3, Zenon DEF IInv, Types, SessionTypes, StateTypes
  <2>5. Numbered(s)' /\ Sent(s)' = Sent(s)
    BY <1>2, <2>2, <2>4, Zenon DEF Numbered, Sent
  <2>6. Writing(s)'
    BY <2>2, <2>4 DEF Writing
  <2>7. SessionTypes'
    <3>1. chunk' \in [Sessions -> Seq(Nat)] /\ client_out' \in [Sessions -> Seq(Nat)]
      BY <2>3, Zenon DEF IInv, Types, SessionTypes, StateTypes
    <3> QED BY <1>1, <2>1, <3>1, Zenon DEF IInv, Types, SessionTypes, StateTypes, input, signals, backend
  <2>8. \A t \in Sessions \ {s} :
          /\ received'[t] = received[t] /\ chunk'[t] = chunk[t]
          /\ client_out'[t] = client_out[t] /\ writer_pc'[t] = writer_pc[t]
    BY <1>1, <2>3, Zenon DEF IInv, Types, SessionTypes, StateTypes
  <2> QED BY <1>1, <2>1, <2>5, <2>6, <2>7, <2>8, WriterShifts, Zenon
<1>4. CASE client_out[s] = <<>>
  <2>1. /\ state[s] = "Draining" /\ pending[s] = 0 /\ final_error[s] # 0
        /\ chunk' = [chunk EXCEPT ![s] = <<final_error[s]>>]
        /\ final_error' = [final_error EXCEPT ![s] = 0] /\ UNCHANGED client_out
    BY <1>4, Zenon DEF WriterTakes, AllAnswered
  <2>2. PICK e \in Nat : e = final_error[s] /\ <<e>> \in Seq(Nat) /\ Len(<<e>>) = 1
    BY DEF IInv, Types, SessionTypes
  <2>3. e = x + 1 /\ parsed[s] = x /\ parsed[s] < got[s] /\ Sent(s) = x
    <3>1. Sent(s) = x
      BY <1>2, <1>4
    <3>2. /\ final_error[s] = parsed[s] + 1 /\ parsed[s] < got[s]
          /\ Sent(s) + 0 = parsed[s]
      BY <2>1, Zenon DEF IInv, SessionInv, Accounted
    <3> QED BY <2>2, <3>1, <3>2
  <2>4. /\ chunk'[s] = <<e>> /\ client_out'[s] = <<>> /\ received'[s] = r
        /\ writer_pc'[s] = "write" /\ final_error'[s] = 0
    BY <1>1, <1>2, <1>4, <2>1, <2>2, Zenon DEF IInv, Types, SessionTypes
  <2>5. From(<<e>>, x) /\ From(<<>>, x + 1)
    BY <2>2, <2>3 DEF From
  <2>6. Numbered(s)' /\ Sent(s)' = x + 1 + 0
    <3>1. Len(<<>>) = 0
      OBVIOUS
    <3> QED BY <1>2, <2>2, <2>4, <2>5, <3>1, Zenon DEF Numbered, Sent
  <2>7. Accounted(s)'
    <3>1. /\ state'[s] = "Draining" /\ pending'[s] = 0 /\ parsed'[s] = x
          /\ parsed'[s] < got'[s] /\ Sent(s)' = parsed'[s] + 1
      BY <1>1, <2>1, <2>3, <2>6 DEF input, backend
    <3> QED BY <2>4, <3>1, Zenon DEF Accounted
  <2>8. Writing(s)'
    BY <2>2, <2>4 DEF Writing
  <2>9. SessionTypes'
    <3>1. chunk' \in [Sessions -> Seq(Nat)]
      BY <2>1, <2>2, Zenon DEF IInv, Types, SessionTypes
    <3> QED BY <1>1, <2>1, <3>1, Zenon DEF IInv, Types, SessionTypes, StateTypes, input, signals, backend
  <2>10. \A t \in Sessions \ {s} :
           /\ received'[t] = received[t] /\ chunk'[t] = chunk[t]
           /\ client_out'[t] = client_out[t] /\ final_error'[t] = final_error[t]
           /\ writer_pc'[t] = writer_pc[t]
    BY <1>1, <2>1, Zenon DEF IInv, Types, SessionTypes
  <2>11. Sent(s)' \in Nat
    BY <2>6
  <2> QED BY <1>1, <2>1, <2>6, <2>7, <2>8, <2>9, <2>10, <2>11, WriterKeeps, Zenon
<1> QED BY <1>3, <1>4

-----------------------------------------------------------------------------
(* The channels *)

Oldest(D) == Min({p[2] : p \in D})

\* The oldest request owed is the next one to answer.
LEMMA OldestDue ==
  ASSUME NEW s, NEW x \in Nat, NEW y \in Nat \ {0}
  PROVE  /\ Oldest(Batch(s, x, y)) = x + 1
         /\ Batch(s, x, y) \ {<<s, x + 1>>} = Batch(s, x + 1, y - 1)
<1> DEFINE D == {<<s, i>> : i \in (x + 1) .. (x + y)}
<1>1. {p[2] : p \in D} = (x + 1) .. (x + y)
  <2>1. \A p \in D : p[2] \in (x + 1) .. (x + y)
    OBVIOUS
  <2>2. ASSUME NEW i \in (x + 1) .. (x + y) PROVE \E p \in D : p[2] = i
    <3>1. <<s, i>> \in D /\ <<s, i>>[2] = i
      OBVIOUS
    <3> QED BY <3>1, Zenon
  <2> QED BY <2>1, <2>2, Zenon
<1>2. x + 1 \in (x + 1) .. (x + y) /\ \A w \in (x + 1) .. (x + y) : x + 1 <= w
  OBVIOUS
<1>3. Min((x + 1) .. (x + y)) = x + 1
  <2>1. PICK v : v = Min((x + 1) .. (x + y))
    OBVIOUS
  <2>2. v \in (x + 1) .. (x + y) /\ \A w \in (x + 1) .. (x + y) : v <= w
    BY <1>2, <2>1, Zenon DEF Min
  <2>3. v <= x + 1 /\ x + 1 <= v /\ v \in Int
    BY <1>2, <2>2
  <2> QED BY <2>1, <2>3
<1>4. \A i : i \in (x + 1 + 1) .. (x + 1 + (y - 1))
               <=> i \in (x + 1) .. (x + y) /\ i # x + 1
  OBVIOUS
<1>5. D \ {<<s, x + 1>>} = {<<s, i>> : i \in (x + 1 + 1) .. (x + 1 + (y - 1))}
  BY <1>4
<1> QED BY <1>1, <1>3, <1>5, Zenon DEF Batch, Oldest

\* onBackendReply(): the reply is the next one, and after the last one s has
\* no channel.
LEMMA ReplyKeeps ==
  ASSUME IInv, NEW c \in Channels, NEW s \in Sessions, onBackendReply(c, s)
  PROVE  IInv'
<1>1. PICK x \in Nat, y \in Nat \ {0} :
        /\ x = Sent(s) /\ y = pending[s] /\ c = current[s] /\ OwedTo(c, s) = Due(s)
  <2>1. OwedTo(c, s) # {}
    BY DEF onBackendReply
  <2>2. c = current[s] /\ OwedTo(c, s) = Due(s)
    BY <2>1 DEF IInv, SessionInv, Outstanding
  <2>3. pending[s] # 0 /\ pending[s] \in Nat /\ Sent(s) \in Nat
    BY <2>1, OwedOnCurrent DEF IInv, Types, SessionTypes, StateTypes
  <2> QED BY <2>2, <2>3
<1>2. OwedTo(c, s) = Batch(s, x, y)
  BY <1>1, Zenon DEF Due, Batch
<1>3. /\ Min({p[2] : p \in OwedTo(c, s)}) = x + 1
      /\ OwedTo(c, s) \ {<<s, x + 1>>} = Batch(s, x + 1, y - 1)
  <2>1. /\ Oldest(Batch(s, x, y)) = x + 1
        /\ Batch(s, x, y) \ {<<s, x + 1>>} = Batch(s, x + 1, y - 1)
    BY OldestDue, Zenon
  <2> QED BY <1>2, <2>1, Zenon DEF Oldest
<1>4. /\ owed' = [owed EXCEPT ![c] = owed[c] \ {<<s, x + 1>>}]
      /\ client_out' = [client_out EXCEPT ![s] = Append(client_out[s], x + 1)]
      /\ pending' = [pending EXCEPT ![s] = y - 1] /\ y - 1 \in Nat
      /\ output_signal' = [output_signal EXCEPT ![s] = TRUE]
      /\ UNCHANGED <<input, chunk, received, final_error, up, orphans, state,
                     reader_pc, writer_pc>>
  <2>1. y - 1 \in Nat
    OBVIOUS
  <2>2. /\ owed' = [owed EXCEPT ![c] = owed[c] \ {<<s, x + 1>>}]
        /\ client_out' = [client_out EXCEPT ![s] = Append(client_out[s], x + 1)]
    BY <1>3, Zenon DEF onBackendReply
  <2>3. /\ pending' = [pending EXCEPT ![s] = y - 1]
        /\ output_signal' = [output_signal EXCEPT ![s] = TRUE]
        /\ UNCHANGED <<input, chunk, received, final_error, up, orphans, state,
                       reader_pc, writer_pc>>
    BY <1>1, Zenon DEF onBackendReply
  <2> QED BY <2>1, <2>2, <2>3, Zenon
<1>5. PICK d \in Channels \cup {NoChannel} :
        /\ current' = [current EXCEPT ![s] = d]
        /\ d = IF y = 1 THEN NoChannel ELSE c
        /\ reply_signal' \in [Sessions -> BOOLEAN]
  <2>1. LastReply(s)
    BY Zenon DEF onBackendReply
  <2>2. CASE y = 1
    <3>1. /\ current' = [current EXCEPT ![s] = NoChannel]
          /\ reply_signal' = [reply_signal EXCEPT ![s] = TRUE]
      BY <1>1, <2>1, <2>2, Zenon DEF LastReply
    <3>2. reply_signal' \in [Sessions -> BOOLEAN]
      BY <3>1, Zenon DEF IInv, Types, SessionTypes, StateTypes
    <3> QED BY <2>2, <3>1, <3>2, Zenon
  <2>3. CASE y # 1
    <3>1. UNCHANGED <<current, reply_signal>>
      BY <1>1, <2>1, <2>3, Zenon DEF LastReply
    <3>2. current' = [current EXCEPT ![s] = c] /\ reply_signal' \in [Sessions -> BOOLEAN]
      BY <1>1, <3>1 DEF IInv, Types, SessionTypes, StateTypes
    <3> QED BY <2>3, <3>2, Zenon
  <2> QED BY <2>2, <2>3, Zenon
<1>6. /\ Numbered(s)' /\ Sent(s)' = x + 1 /\ client_out'[s] \in Seq(Nat)
  <2>1. /\ received'[s] = received[s] /\ chunk'[s] = chunk[s]
        /\ client_out'[s] = Append(client_out[s], Sent(s) + 1)
    BY <1>1, <1>4, Zenon DEF IInv, Types, SessionTypes, StateTypes
  <2>2. Types /\ SessionInv(s)
    BY Zenon DEF IInv
  <2> QED BY <1>1, <2>1, <2>2, OutputGrows, Zenon
<1>7. /\ OwedTo(c, s)' = OwedTo(c, s) \ {<<s, x + 1>>}
      /\ \A b \in Channels \ {c} : OwedTo(b, s)' = OwedTo(b, s)
      /\ \A b \in Channels, t \in Sessions \ {s} : OwedTo(b, t)' = OwedTo(b, t)
  <2>1. /\ owed'[c] = owed[c] \ {<<s, x + 1>>}
        /\ \A b \in Channels \ {c} : owed'[b] = owed[b]
    BY <1>4 DEF IInv, Types, ChannelTypes, OwedTypes
  <2> QED BY <2>1 DEF OwedTo
<1>8. OwedTypes'
  <2>1. owed' \in [Channels -> SUBSET (Sessions \X Nat)]
    BY <1>4 DEF IInv, Types, ChannelTypes, OwedTypes
  <2>2. ASSUME NEW b \in Channels PROVE IsFiniteSet(owed'[b])
    <3>1. owed'[b] \in SUBSET owed[b]
      BY <1>4 DEF IInv, Types, ChannelTypes, OwedTypes
    <3> QED BY <3>1, FS_Subset, Zenon DEF IInv, Types, ChannelTypes, OwedTypes
  <2> QED BY <1>4, <2>1, <2>2, Zenon DEF IInv, Types, ChannelTypes, OwedTypes
<1>9. Types'
  <2>1. client_out' \in [Sessions -> Seq(Nat)]
    BY <1>4, <1>6, Zenon DEF IInv, Types, SessionTypes, StateTypes
  <2>2. /\ pending' \in [Sessions -> Nat] /\ output_signal' \in [Sessions -> BOOLEAN]
        /\ current' \in [Sessions -> Channels \cup {NoChannel}]
    BY <1>4, <1>5, Zenon DEF IInv, Types, SessionTypes, StateTypes
  <2>3. StateTypes'
    BY <1>4, <1>5, <2>1, <2>2, Zenon DEF IInv, Types, SessionTypes, StateTypes
  <2>4. SessionTypes'
    BY <1>4, <2>3 DEF IInv, Types, SessionTypes, input
  <2> QED BY <1>4, <1>8, <2>4 DEF IInv, Types, ChannelTypes
<1>10. SessionInv(s)'
  <2>1. pending'[s] = y - 1 /\ current'[s] = d
    BY <1>4, <1>5 DEF IInv, Types, SessionTypes, StateTypes
  <2>2. Due(s)' = OwedTo(c, s)'
    BY <1>3, <1>6, <1>7, <2>1, Zenon DEF Due, Batch
  <2>3. Outstanding(s)'
    <3>1. \A b \in Channels \ {c} : OwedTo(b, s)' = {}
      BY <1>1, <1>7, Zenon DEF IInv, SessionInv, Outstanding
    <3>2. c # NoChannel /\ up'[c]
      BY <1>1, <1>4, ChannelsAssumption
         DEF IInv, SessionInv, Outstanding, NoChannel, Channels
    <3>3. y = 1 => OwedTo(c, s)' = {}
      BY <1>3, <1>7 DEF Batch
    <3>4. d = NoChannel <=> y - 1 = 0
      BY <1>5, <3>2
    <3>5. \A b \in Channels : b # NoChannel
      BY ChannelsAssumption DEF NoChannel, Channels
    <3> QED BY <1>5, <2>1, <2>2, <3>1, <3>2, <3>3, <3>4, <3>5, Zenon DEF Outstanding
  <2>4. Accounted(s)'
    <3>1. /\ state'[s] = state[s] /\ final_error'[s] = final_error[s]
          /\ parsed'[s] = parsed[s] /\ got'[s] = got[s] /\ Refused(s)' = Refused(s)
      BY <1>4 DEF input, Refused
    <3>2. Accounted(s) /\ state[s] # "Aborted"
      BY <1>1, Zenon DEF IInv, SessionInv, Accounted
    <3>3. Sent(s)' + pending'[s] = Sent(s) + pending[s]
      BY <1>1, <1>6, <2>1
    <3>4. pending[s] # 0
      BY <1>1
    <3> QED BY <3>1, <3>2, <3>3, <3>4, Zenon DEF Accounted
  <2>5. Writing(s)'
    BY <1>1, <1>4, Zenon DEF IInv, SessionInv, Writing, Accounted
  <2> QED BY <1>6, <2>3, <2>4, <2>5, Zenon DEF SessionInv
<1>11. ASSUME NEW t \in Sessions \ {s} PROVE Untouched(t) /\ writer_pc'[t] = writer_pc[t]
  <2>1. /\ current'[t] = current[t] /\ pending'[t] = pending[t] /\ client_out'[t] = client_out[t]
    BY <1>4, <1>5, Zenon DEF IInv, Types, SessionTypes, StateTypes
  <2>2. current[t] # NoChannel => up'[current[t]]
    BY <1>4, Zenon DEF IInv, SessionInv, Outstanding
  <2> QED BY <1>4, <1>7, <2>1, <2>2, Zenon DEF Untouched, Refused, input
<1> QED BY <1>9, <1>10, <1>11, OnlyOwn

\* A channel fails, or all are stopped: the sessions they owe something abort,
\* and the others keep their channel.
LEMMA FailureKeeps ==
  ASSUME IInv, NEW S \in SUBSET Sessions, NEW failed \in SUBSET Channels,
         abort(S, failed), \A c \in failed : \A p \in owed[c] : p[1] \in S,
         \A c \in Channels \ failed : up'[c] = up[c], up' \in [Channels -> BOOLEAN],
         UNCHANGED <<input, chunk, received, final_error, reader_pc, writer_pc>>
  PROVE  IInv'
<1>1. OwedTypes' /\ StateTypes'
  BY AbortEffect, Zenon
<1>2. UNCHANGED <<script, got, parsed, received, final_error>>
  BY DEF input
<1>3. Types'
  BY <1>1, <1>2, Zenon DEF IInv, Types, SessionTypes, ChannelTypes
<1>4. ASSUME NEW t \in Sessions PROVE SessionInv(t)'
  <2>1. /\ parsed'[t] = parsed[t] /\ reader_pc'[t] = reader_pc[t] /\ chunk'[t] = chunk[t]
        /\ writer_pc'[t] = writer_pc[t] /\ UNCHANGED <<script, got, received, final_error>>
    BY <1>2, Zenon
  <2> QED BY <2>1, AbortKeeps, Zenon
<1> QED BY <1>3, <1>4, Zenon DEF IInv

\* onBackendFailure() of one channel.
LEMMA OneFails ==
  ASSUME IInv, NEW c \in Channels, onBackendFailure(c)
  PROVE  IInv'
<1>1. /\ up' = [up EXCEPT ![c] = FALSE] /\ abort({p[1] : p \in owed[c]}, {c})
      /\ UNCHANGED <<input, chunk, received, final_error, reader_pc, writer_pc>>
  BY DEF onBackendFailure
<1>2. {p[1] : p \in owed[c]} \in SUBSET Sessions
  BY DEF IInv, Types, ChannelTypes, OwedTypes
<1>3. \A b \in Channels \ {c} : up'[b] = up[b]
  BY <1>1, Zenon DEF IInv, Types, ChannelTypes
<1>4. up' \in [Channels -> BOOLEAN]
  BY <1>1, Zenon DEF IInv, Types, ChannelTypes
<1>5. PICK S \in SUBSET Sessions, failed \in SUBSET Channels :
        /\ S = {p[1] : p \in owed[c]} /\ failed = {c}
  BY <1>2, Zenon
<1>6. \A b \in failed : \A p \in owed[b] : p[1] \in S
  BY <1>5, Zenon
<1>7. abort(S, failed) /\ \A b \in Channels \ failed : up'[b] = up[b]
  BY <1>1, <1>3, <1>5, Zenon
<1>8. UNCHANGED <<input, chunk, received, final_error, reader_pc, writer_pc>>
  BY <1>1, Zenon
<1> QED BY <1>4, <1>6, <1>7, <1>8, FailureKeeps, Zenon

\* stop() of the pool.
LEMMA AllStop ==
  ASSUME IInv, stop
  PROVE  IInv'
<1>1. /\ up' = [c \in Channels |-> FALSE]
      /\ abort({p[1] : p \in UNION {owed[c] : c \in Channels}}, Channels)
      /\ UNCHANGED <<input, chunk, received, final_error, reader_pc, writer_pc>>
  BY DEF stop
<1>2. \A p \in UNION {owed[c] : c \in Channels} : p[1] \in Sessions
  BY DEF IInv, Types, ChannelTypes, OwedTypes
<1>3. up' \in [Channels -> BOOLEAN] /\ \A c \in Channels \ Channels : up'[c] = up[c]
  BY <1>1, Zenon
<1>4. PICK S \in SUBSET Sessions, failed \in SUBSET Channels :
        /\ S = {p[1] : p \in UNION {owed[c] : c \in Channels}} /\ failed = Channels
  BY <1>2, Zenon
<1>5. \A b \in failed : \A p \in owed[b] : p[1] \in S
  BY <1>4, Zenon
<1>6. abort(S, failed) /\ \A c \in Channels \ failed : up'[c] = up[c]
  BY <1>1, <1>3, <1>4, Zenon
<1> QED BY <1>1, <1>3, <1>5, <1>6, FailureKeeps, Zenon

\* Steps of the pool that no session notices: an answer to a command whose
\* session left, a new connection, start().
LEMMA PoolMoves ==
  ASSUME IInv,
         \/ \E c \in Channels : OrphanAnswered(c) \/ Connected(c)
         \/ start
         \/ UNCHANGED vars
  PROVE  IInv'
<1>1. UNCHANGED <<input, output, signals, backend, owed, state, reader_pc, writer_pc>>
  BY DEF OrphanAnswered, Connected, start, vars, channels
<1>2. orphans' \in [Channels -> Nat] /\ up' \in [Channels -> BOOLEAN]
      /\ \A c \in Channels : up[c] => up'[c]
  <2>1. orphans \in [Channels -> Nat] /\ up \in [Channels -> BOOLEAN]
    BY DEF IInv, Types, ChannelTypes, OwedTypes
  <2>2. CASE \E c \in Channels : OrphanAnswered(c)
    <3>1. PICK c \in Channels : /\ orphans' = [orphans EXCEPT ![c] = orphans[c] - 1]
                                /\ orphans[c] > 0 /\ up' = up
      BY <2>2, Zenon DEF OrphanAnswered
    <3>2. orphans' \in [Channels -> Nat]
      BY <2>1, <3>1
    <3> QED BY <2>1, <3>1, <3>2, Zenon
  <2>3. CASE \E c \in Channels : Connected(c)
    <3>1. PICK c \in Channels : up' = [up EXCEPT ![c] = TRUE] /\ orphans' = orphans
      BY <2>3, Zenon DEF Connected
    <3> QED BY <2>1, <3>1, Zenon
  <2>4. CASE start \/ UNCHANGED vars
    BY <2>1, <2>4 DEF start, vars, channels
  <2> QED BY <2>2, <2>3, <2>4
<1>3. \A c \in Channels, t \in Sessions : OwedTo(c, t)' = OwedTo(c, t)
  BY <1>1 DEF OwedTo
<1>4. Types'
  <2>1. SessionTypes'
    BY <1>1 DEF IInv, Types, SessionTypes, StateTypes, input, output, signals, backend
  <2>2. ChannelTypes'
    BY <1>1, <1>2, Zenon DEF IInv, Types, ChannelTypes, OwedTypes
  <2> QED BY <2>1, <2>2 DEF Types
<1>5. ASSUME NEW t \in Sessions PROVE Untouched(t)
  <2>1. current[t] # NoChannel => up'[current[t]]
    BY <1>2 DEF IInv, Types, SessionTypes, StateTypes, SessionInv, Outstanding
  <2> QED BY <1>1, <1>3, <2>1, Zenon DEF Untouched, Refused, input, output, backend
<1>6. \A t \in Sessions : SessionInv(t)'
  BY <1>1, <1>5, Frame, Zenon DEF IInv
<1> QED BY <1>4, <1>6 DEF IInv

\* Every step keeps the invariant.
LEMMA NextInvariant == IInv /\ [Next]_vars => IInv'
<1> SUFFICES ASSUME IInv, [Next]_vars PROVE IInv'
  OBVIOUS
<1>1. ASSUME NEW s \in Sessions, ReaderStep(s) PROVE IInv'
  <2>1. CASE ReaderResumes(s) \/ AwaitReplies(s) \/ RepliesWake(s) \/ ReaderBreaks(s)
    BY <2>1, ReaderMoves, Zenon
  <2>2. CASE NoBackend(s) \/ ReadFails(s)  BY <2>2, ReaderAborts, Zenon
  <2>3. CASE ReaderTurn(s)  BY <2>3, ReaderTurnKeeps, Zenon
  <2>4. CASE Reject(s)      BY <2>4, RejectKeeps, Zenon
  <2>5. CASE ReadSome(s)    BY <2>5, ReadSomeKeeps, Zenon
  <2>6. CASE ReadCloses(s)  BY <2>6, ReadClosesKeeps, Zenon
  <2>7. CASE ReaderEnds(s)  BY <2>7, ReaderEndsKeeps, Zenon
  <2> QED BY <1>1, <2>1, <2>2, <2>3, <2>4, <2>5, <2>6, <2>7, Zenon DEF ReaderStep
<1>2. ASSUME NEW s \in Sessions, WriterStep(s) PROVE IInv'
  <2>1. CASE WriterResumes(s) \/ WriterWaits(s) \/ WriterBreaks(s)
    BY <2>1, WriterMoves, Zenon
  <2>2. CASE WriterTakes(s)  BY <2>2, WriterTakesKeeps, Zenon
  <2>3. CASE Writes(s)       BY <2>3, WritesKeeps, Zenon
  <2>4. CASE WriteFails(s)   BY <2>4, WriteFailsKeeps, Zenon
  <2>5. CASE WriterEnds(s)   BY <2>5, WriterEndsKeeps, Zenon
  <2> QED BY <1>2, <2>1, <2>2, <2>3, <2>4, <2>5, Zenon DEF WriterStep
<1>3. ASSUME NEW c \in Channels, NEW s \in Sessions, Replies(c, s) PROVE IInv'
  BY <1>3, ReplyKeeps, Zenon DEF Replies
<1>4. ASSUME NEW c \in Channels, Fails(c) PROVE IInv'
  BY <1>4, OneFails, Zenon DEF Fails
<1>5. ASSUME NEW c \in Channels, OrphanAnswered(c) \/ Connected(c) PROVE IInv'
  BY <1>5, PoolMoves, Zenon
<1>6. CASE start \/ UNCHANGED vars  BY <1>6, PoolMoves, Zenon
<1>7. CASE stop                     BY <1>7, AllStop, Zenon
<1> QED BY <1>1, <1>2, <1>3, <1>4, <1>5, <1>6, <1>7, Zenon DEF Next

\* IInv holds in every state of every session.
THEOREM Invariance == Spec => []IInv
<1> QED BY InitInvariant, NextInvariant, PTL DEF Spec

-----------------------------------------------------------------------------
(* What follows from the invariant *)

\* Three parts, each in order after the one before, are in order together.
LEMMA InOrderTogether ==
  ASSUME NEW r \in Seq(Nat), NEW k \in Seq(Nat), NEW o \in Seq(Nat),
         From(r, 0), From(k, Len(r)), From(o, Len(r) + Len(k))
  PROVE  From(r \o k \o o, 0)
<1>1. PICK x \in Nat, y \in Nat, z \in Nat : x = Len(r) /\ y = Len(k) /\ z = Len(o)
  OBVIOUS
<1>2. PICK rk \in Seq(Nat) :
        /\ rk = r \o k /\ Len(rk) = x + y
        /\ \A i \in 1 .. (x + y) : rk[i] = IF i <= x THEN r[i] ELSE k[i - x]
  <2>1. /\ r \o k \in Seq(Nat) /\ Len(r \o k) = Len(r) + Len(k)
        /\ \A i \in 1 .. Len(r) + Len(k) :
             (r \o k)[i] = IF i <= Len(r) THEN r[i] ELSE k[i - Len(r)]
    BY ConcatProperties, Zenon
  <2> QED BY <1>1, <2>1, Zenon
<1>3. \A i \in 1 .. (x + y) : rk[i] = i
  <2>1. ASSUME NEW i \in 1 .. x PROVE rk[i] = i
    <3>1. rk[i] = r[i]
      BY <1>2
    <3>2. i \in DOMAIN r
      BY <1>1
    <3>3. r[i] = 0 + i
      BY <3>2, Zenon DEF From
    <3> QED BY <3>1, <3>3
  <2>2. ASSUME NEW i \in (x + 1) .. (x + y) PROVE rk[i] = i
    <3>1. i - x \in DOMAIN k /\ rk[i] = k[i - x]
      BY <1>1, <1>2
    <3>2. k[i - x] = x + (i - x)
      BY <1>1, <3>1, Zenon DEF From
    <3> QED BY <3>1, <3>2
  <2> QED BY <2>1, <2>2
<1>4. ASSUME NEW i \in DOMAIN (rk \o o) PROVE (rk \o o)[i] = 0 + i
  <2>1. i \in 1 .. (x + y + z)
    BY <1>1, <1>2
  <2>2. CASE i \in 1 .. (x + y)
    <3>1. (rk \o o)[i] = rk[i]
      BY <1>2, <2>2
    <3> QED BY <1>3, <2>2, <3>1
  <2>3. CASE i \in (x + y + 1) .. (x + y + z)
    <3>1. i - (x + y) \in DOMAIN o /\ (rk \o o)[i] = o[i - (x + y)]
      BY <1>1, <1>2, <2>3
    <3>2. o[i - (x + y)] = (x + y) + (i - (x + y))
      BY <1>1, <3>1 DEF From
    <3> QED BY <2>3, <3>1, <3>2
  <2> QED BY <2>1, <2>2, <2>3
<1> QED BY <1>2, <1>4, Zenon DEF From

\* The order of the answers follows from the numbers.
LEMMA OrderFollows == IInv => RepliesInRequestOrder
<1> SUFFICES ASSUME IInv, NEW s \in Sessions
             PROVE  \A k \in DOMAIN (received[s] \o chunk[s] \o client_out[s]) :
                      (received[s] \o chunk[s] \o client_out[s])[k] = k
  BY Zenon DEF RepliesInRequestOrder
<1>1. From(received[s] \o chunk[s] \o client_out[s], 0)
  <2>1. received[s] \in Seq(Nat) /\ chunk[s] \in Seq(Nat) /\ client_out[s] \in Seq(Nat)
    BY Zenon DEF IInv, Types, SessionTypes, StateTypes
  <2>2. /\ From(received[s], 0) /\ From(chunk[s], Len(received[s]))
        /\ From(client_out[s], Len(received[s]) + Len(chunk[s]))
    BY Zenon DEF IInv, SessionInv, Numbered
  <2> QED BY <2>1, <2>2, InOrderTogether, Zenon
<1>2. PICK q : q = received[s] \o chunk[s] \o client_out[s]
  BY Zenon
<1>3. \A k \in DOMAIN q : q[k] = 0 + k /\ k \in Nat
  <2>1. q \in Seq(Nat)
    BY <1>2 DEF IInv, Types, SessionTypes, StateTypes
  <2>2. \A k \in DOMAIN q : k \in Nat
    BY <2>1
  <2> QED BY <1>1, <1>2, <2>2, Zenon DEF From
<1>4. \A k \in DOMAIN q : q[k] = k
  BY <1>3
<1> QED BY <1>2, <1>4, Zenon

\* A client is answered in the order of its requests, each request once and with
\* no gap, whichever channels carried them and whatever errors the proxy made.
THEOREM AnsweredInOrder == Spec => []RepliesInRequestOrder
<1> QED BY Invariance, OrderFollows, PTL

\* All that the channels owe s is what Due says.
LEMMA PendingFollows == IInv => PendingOnCurrent
<1> SUFFICES ASSUME IInv, NEW s \in Sessions
             PROVE  /\ pending[s] = Cardinality(UNION {OwedTo(c, s) : c \in Channels})
                    /\ (current[s] = NoChannel) <=> (pending[s] = 0)
                    /\ \A c \in Channels : OwedTo(c, s) # {} => current[s] = c /\ up[c]
  BY Zenon DEF PendingOnCurrent
<1>1. /\ Outstanding(s) /\ Sent(s) \in Nat /\ pending[s] \in Nat
      /\ current[s] \in Channels \cup {NoChannel}
      /\ pending[s] = 0 => \A c \in Channels : OwedTo(c, s) = {}
  BY OwedOnCurrent, Zenon DEF IInv, Types, SessionTypes, StateTypes, SessionInv
<1>2. UNION {OwedTo(c, s) : c \in Channels} = Due(s)
  <2>1. CASE current[s] = NoChannel
    <3>1. pending[s] = 0 /\ \A c \in Channels : OwedTo(c, s) = {}
      BY <1>1, <2>1 DEF Outstanding
    <3>2. Due(s) = {}
      BY <1>1, <3>1 DEF Due
    <3> QED BY <3>1, <3>2, Zenon
  <2>2. CASE current[s] # NoChannel
    <3>1. /\ current[s] \in Channels /\ OwedTo(current[s], s) = Due(s)
          /\ \A c \in Channels : c # current[s] => OwedTo(c, s) = {}
      BY <1>1, <2>2 DEF Outstanding
    <3> QED BY <3>1, Zenon
  <2> QED BY <2>1, <2>2
<1>3. Cardinality(Due(s)) = pending[s]
  <2>1. Cardinality(Batch(s, Sent(s), pending[s])) = pending[s]
    BY <1>1, BatchIsFinite, Zenon
  <2> QED BY <2>1, Zenon DEF Due, Batch
<1>4. /\ (current[s] = NoChannel) <=> (pending[s] = 0)
      /\ \A c \in Channels : OwedTo(c, s) # {} => current[s] = c /\ up[c]
  BY <1>1, ChannelsAssumption DEF Outstanding, NoChannel, Channels
<1> QED BY <1>2, <1>3, <1>4, Zenon

\* pending_replies_ counts what the channels owe a session, all of it on its
\* current_backend_, which is up.
THEOREM PendingCounted == Spec => []PendingOnCurrent
<1> QED BY Invariance, PendingFollows, PTL

\* A writer has ended: what it left.
LEMMA EndedFollows ==
  ASSUME IInv, NEW s \in Sessions, Finished(s)
  PROVE  /\ \A c \in Channels : OwedTo(c, s) = {}
         /\ state[s] = "Draining" =>
              Len(received[s]) = parsed[s] + (IF parsed[s] < got[s] THEN 1 ELSE 0)
<1>1. writer_pc[s] = "done"
  BY DEF Finished
<1>2. /\ pending[s] = 0 /\ chunk[s] = <<>>
      /\ state[s] = "Draining" => client_out[s] = <<>> /\ final_error[s] = 0
  BY <1>1 DEF IInv, SessionInv, Writing, Accounted
<1>3. \A c \in Channels : OwedTo(c, s) = {}
  BY <1>2, OwedOnCurrent DEF IInv
<1>4. ASSUME state[s] = "Draining"
      PROVE  Len(received[s]) = parsed[s] + (IF parsed[s] < got[s] THEN 1 ELSE 0)
  <2>1. PICK x \in Nat, p \in Nat, g \in Nat :
          x = Len(received[s]) /\ p = parsed[s] /\ g = got[s]
    BY DEF IInv, Types, SessionTypes
  <2>2. Sent(s) = x
    <3>1. Len(<<>>) = 0 /\ x + 0 + 0 = x
      OBVIOUS
    <3> QED BY <1>2, <1>4, <2>1, <3>1, Zenon DEF Sent
  <2>3. \/ final_error[s] = p + 1
        \/ p = g /\ x + 0 = p
        \/ p < g /\ x = p + 1
    <3>1. \/ final_error[s] = parsed[s] + 1
          \/ parsed[s] = got[s] /\ Sent(s) + pending[s] = parsed[s]
          \/ parsed[s] < got[s] /\ Sent(s) = parsed[s] + 1
      BY <1>4, Zenon DEF IInv, SessionInv, Accounted
    <3> QED BY <1>2, <2>1, <2>2, <3>1, Zenon
  <2>4. final_error[s] = 0
    BY <1>2, <1>4
  <2> QED BY <2>1, <2>3, <2>4
<1> QED BY <1>3, <1>4

\* When both loops of a session have ended, and the worker may destroy it, no
\* channel holds a pointer to it.
THEOREM ForgottenWhenFinished == Spec => []FinishedIsForgotten
<1>1. IInv => FinishedIsForgotten
  BY EndedFollows, Zenon DEF FinishedIsForgotten
<1> QED BY <1>1, Invariance, PTL

\* A session that ends without abort() has answered every request it read, the
\* final error for a malformed or unfinished one included.
THEOREM CompleteWhenDrained == Spec => []DrainedIsComplete
<1>1. IInv => DrainedIsComplete
  BY EndedFollows, Zenon DEF DrainedIsComplete
<1> QED BY <1>1, Invariance, PTL
=============================================================================
