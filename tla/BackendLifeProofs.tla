------------------------- MODULE BackendLifeProofs --------------------------
(***************************************************************************)
(* BackendInvariant, first part: the types, the life cycle, wake-ups and   *)
(* the bounds of what is written and answered; then the order in which     *)
(* commands wait and leave.                                                *)
(***************************************************************************)
EXTENDS BackendInvariant, FiniteSetTheorems, SequenceTheorems,
        WellFoundedInduction, TLAPS

(* Type correctness *)

\* failConnection() keeps the types of what it changes.
LEMMA FailTypes ==
  ASSUME TypesButLoad, failConnection
  PROVE  /\ state' \in States /\ writer_signal' \in BOOLEAN
         /\ socket' \in {"closed", "open", "shut"}
         /\ write_queue' \subseteq Batches /\ pending_queue' \in Seq(Pendings)
         /\ owed' \in [Owners -> SUBSET Nat]
<1>1. CASE isHealthy
  <2>1. /\ state' = "Closing" /\ socket' = Shutdown(socket) /\ writer_signal' = TRUE
        /\ write_queue' = {} /\ pending_queue' = <<>>
        /\ owed' = [o \in Owners |->
                     IF o \in OwnersIn(write_queue, pending_queue)
                     THEN {} ELSE owed[o]]
    BY <1>1 DEF failConnection
  <2>2. owed' \in [Owners -> SUBSET Nat]
    BY <2>1 DEF TypesButLoad
  <2>3. socket' \in {"closed", "open", "shut"}
    BY <2>1 DEF TypesButLoad, Shutdown
  <2>4. QED
    BY <2>1, <2>2, <2>3 DEF States
<1>2. CASE ~isHealthy
  BY <1>2 DEF failConnection, TypesButLoad, queues
<1>3. QED
  BY <1>1, <1>2

\* The end of a connection, lines 110-114 of run(), keeps the types.
LEMMA TeardownTypes ==
  ASSUME TypesButLoad, Teardown
  PROVE  /\ state' \in States /\ run_pc' \in RunPCs
         /\ socket' \in {"closed", "open", "shut"}
         /\ redis_in' \in Seq(Int) /\ partial' \in Int
         /\ stream' \in Seq(Nat) /\ written' \in Nat /\ emitted' \in Nat
         /\ inbound' \in Seq(Int) /\ spoiled' \in BOOLEAN /\ answered' \in Nat
<1>1. state' \in States /\ run_pc' \in RunPCs
  BY DEF Teardown, TypesButLoad, States, RunPCs
<1>2. redis_in' \in Seq(Int) /\ stream' \in Seq(Nat) /\ inbound' \in Seq(Int)
  BY DEF Teardown
<1>3. partial' \in Int
  BY DEF Teardown, Nothing
<1>4. written' \in Nat /\ emitted' \in Nat /\ answered' \in Nat
  BY DEF Teardown
<1>5. QED
  BY <1>1, <1>2, <1>3, <1>4, Zenon DEF Teardown

\* A nonempty set of command numbers has a least one (the front of a deque).
LEMMA NatMinimum ==
  ASSUME NEW T \in SUBSET Nat, T # {}
  PROVE  \E n \in T : \A m \in T : n <= m
<1>1. PICK n \in T : \A m \in T : <<m, n>> \notin OpToRel(<, Nat)
  BY NatLessThanWellFounded, WFMin, Zenon
<1>2. \A m \in T : ~(m < n)
  BY <1>1, Zenon DEF OpToRel
<1>3. QED
  BY <1>2

\* A nonempty write_queue has a front.
LEMMA FrontExists ==
  ASSUME NEW wq \in SUBSET Batches, wq # {}
  PROVE  /\ FrontBatch(wq) \in wq
         /\ \A c \in wq : FrontBatch(wq).first <= c.first
<1> DEFINE T == {b.first : b \in wq}
<1>1. T \subseteq Nat /\ T # {}
  BY DEF Batches
<1>2. \E n \in T : \A m \in T : n <= m
  BY <1>1, NatMinimum, Zenon
<1>3. \E b \in wq : \A c \in wq : b.first <= c.first
  BY <1>2
<1>4. QED
  BY <1>3 DEF FrontBatch

\* The commands of a batch, in the order writeAll() sends them.
LEMMA InOrderType ==
  ASSUME NEW b \in Batches
  PROVE  /\ InOrder(b) \in Seq(Nat)
         /\ Len(InOrder(b)) = b.command_count
         /\ \A i \in 1 .. b.command_count : InOrder(b)[i] = b.first + i - 1
<1>1. PICK n \in Nat : n = b.command_count /\ n > 0
  BY DEF Batches
<1>2. PICK f \in Nat : f = b.first
  BY DEF Batches
<1>3. InOrder(b) = [i \in 1 .. n |-> f + i - 1]
  BY <1>1, <1>2 DEF InOrder
<1>4. [i \in 1 .. n |-> f + i - 1] \in [1 .. n -> Nat]
  OBVIOUS
<1>5. InOrder(b) \in Seq(Nat) /\ Len(InOrder(b)) = n
  BY <1>3, <1>4
<1>6. QED
  BY <1>1, <1>2, <1>3, <1>5

\* detachOwner() changes nothing but the owner of pending batches.
LEMMA DisownedType ==
  ASSUME NEW pq \in Seq(Pendings), NEW o \in Owners
  PROVE  /\ Disowned(pq, o) \in Seq(Pendings)
         /\ Len(Disowned(pq, o)) = Len(pq)
         /\ \A i \in 1 .. Len(pq) :
              /\ Disowned(pq, o)[i].owner =
                   IF pq[i].owner = o THEN NoOwner ELSE pq[i].owner
              /\ Disowned(pq, o)[i].remaining_replies = pq[i].remaining_replies
              /\ Disowned(pq, o)[i].upto = pq[i].upto
<1>1. \A i \in 1 .. Len(pq) : pq[i] \in Pendings
  OBVIOUS
<1>2. \A i \in 1 .. Len(pq) : Orphan(pq[i]) \in Pendings
  BY <1>1 DEF Orphan, Pendings, Sinks
<1>3. QED
  BY <1>1, <1>2 DEF Disowned, Orphan, Pendings, Sinks

\* dispatchReply() leaves no batch with zero replies in pending_queue_.
LEMMA FrontAnsweredType ==
  ASSUME NEW pq \in Seq(Pendings), pq # <<>>
  PROVE  FrontAnswered(pq) \in Seq(Pendings)
<1>1. pq[1] \in Pendings /\ Head(pq) = pq[1]
  OBVIOUS
<1>2. CASE Head(pq).remaining_replies = 1
  BY <1>2 DEF FrontAnswered
<1>3. CASE Head(pq).remaining_replies # 1
  <2>1. OneReplyLess(pq[1]) \in Pendings
    BY <1>1, <1>3 DEF OneReplyLess, Pendings
  <2>2. QED
    BY <1>3, <2>1 DEF FrontAnswered
<1>4. QED
  BY <1>2, <1>3

\* Every step keeps the types.
LEMMA TypesStep ==
  ASSUME TypesButLoad, WireBounds, [Next]_vars
  PROVE  TypesButLoad'
<1> USE DEF TypesButLoad
<1>1. CASE start
  BY <1>1, Zenon DEF start, States, RunPCs, input, wire, queues
<1>2. CASE stop
  <2>1. CASE isHealthy
    BY <1>2, <2>1, FailTypes DEF stop, input, wire
  <2>2. CASE ~isHealthy
    BY <1>2, <2>2 DEF stop, Shutdown, input, wire, queues
  <2>3. QED
    BY <2>1, <2>2
<1>3. ASSUME NEW o \in Owners, NEW n \in 0 .. MaxBatch, submit(o, n)
      PROVE  TypesButLoad'
  BY <1>3, BoundsAssumption DEF submit, Batches, input, wire
<1>4. ASSUME NEW o \in Owners, detachOwner(o)
      PROVE  TypesButLoad'
  BY <1>4, DisownedType DEF detachOwner, WithoutOwner, input, wire
<1>5. CASE RunLoop
  BY <1>5 DEF RunLoop, States, RunPCs, input, wire, queues
<1>6. CASE ConnectSucceeds
  BY <1>6, Zenon DEF ConnectSucceeds, States, RunPCs, ReadPCs, input, wire, queues
<1>7. CASE ConnectFails
  BY <1>7, TeardownTypes DEF ConnectFails, queues
<1>8. CASE WriterWaits
  BY <1>8, Zenon DEF WriterWaits, RunPCs, input, wire, queues
<1>9. CASE WriterWakes
  BY <1>9, Zenon DEF WriterWakes, RunPCs, input, wire, queues
<1>10. CASE WriterStarts
  <2> DEFINE batch == FrontBatch(write_queue)
  <2>1. batch \in Batches
    BY <1>10, FrontExists, Zenon DEF WriterStarts
  <2>2. InOrder(batch) \in Seq(Nat)
    BY <2>1, InOrderType
  <2>3. [owner |-> batch.owner, remaining_replies |-> batch.command_count,
         upto |-> Len(stream) + batch.command_count] \in Pendings
    BY <2>1 DEF Batches, Pendings, Sinks
  <2> HIDE DEF batch
  <2>4. stream' \in Seq(Nat) /\ pending_queue' \in Seq(Pendings)
    BY <1>10, <2>2, <2>3 DEF WriterStarts, batch
  <2>5. QED
    BY <1>10, <2>4 DEF WriterStarts, RunPCs, input
<1>11. CASE Writes
  BY <1>11 DEF Writes, RunPCs, input, queues
<1>12. CASE WriteFails
  BY <1>12, FailTypes DEF WriteFails, RunPCs, input, wire
<1>13. CASE WriterJoins
  BY <1>13, TeardownTypes DEF WriterJoins, queues
<1>14. CASE ReaderStarts
  BY <1>14 DEF ReaderStarts, ReadPCs, input, wire, queues
<1>15. CASE ReadFails
  BY <1>15, FailTypes DEF ReadFails, ReadPCs, input, wire
<1>16. CASE ParserNeedsMore
  BY <1>16 DEF ParserNeedsMore, ReadPCs, input, wire, queues
<1>17. CASE ParserFails
  BY <1>17, FailTypes DEF ParserFails, input, wire
<1>18. CASE UnexpectedReply
  BY <1>18, FailTypes DEF UnexpectedReply, ReplyParsed
<1>19. CASE ReaderEnds
  BY <1>19 DEF ReaderEnds, ReadPCs, input, wire, queues
<1>20. ASSUME NEW k \in 0 .. Len(inbound), NEW half \in BOOLEAN, ReadSome(k, half)
       PROVE  TypesButLoad'
  <2>1. Frames(k) \in Seq(Int)
    <3>1. \A i \in 1 .. k : inbound[i] \in Int
      BY <1>20
    <3>2. QED
      BY <3>1 DEF Frames, Malformed
  <2>2. redis_in' \in Seq(Int)
    BY <1>20, <2>1 DEF ReadSome
  <2>3. inbound' \in Seq(Int)
    <3>1. inbound' = SubSeq(inbound, k + 1, Len(inbound))
      BY <1>20 DEF ReadSome
    <3>2. inbound \in Seq(Int) /\ k + 1 \in 1 .. Len(inbound) + 1
      BY <1>20
    <3>3. QED
      BY <3>1, <3>2, SubSeqProperties
  <2>4. partial' \in Int
    BY <1>20 DEF ReadSome, Nothing
  <2>5. QED
    BY <1>20, <2>2, <2>3, <2>4 DEF ReadSome, ReadPCs, queues
<1>21. ASSUME NEW leaves \in BOOLEAN, dispatchReply(leaves)
       PROVE  TypesButLoad'
  <2>1. redis_in' \in Seq(Int) /\ answered' \in Nat
    BY <1>21 DEF dispatchReply, ReplyParsed
  <2>2. /\ FrontAnswered(pending_queue) \in Seq(Pendings)
        /\ Head(pending_queue).owner \in Sinks
    <3>1. pending_queue[1] \in Pendings /\ Head(pending_queue) = pending_queue[1]
      BY <1>21 DEF dispatchReply
    <3>2. QED
      BY <1>21, <3>1, FrontAnsweredType, Zenon DEF dispatchReply, Pendings
  <2>3. CASE leaves
    <3>1. PICK o \in Owners : o = Head(pending_queue).owner
      BY <1>21, <2>2, <2>3 DEF dispatchReply, Sinks
    <3>2. pending_queue' \in Seq(Pendings)
      BY <1>21, <2>2, <2>3, <3>1, DisownedType DEF dispatchReply
    <3>3. QED
      BY <1>21, <2>1, <2>3, <3>1, <3>2, Zenon DEF dispatchReply, ReplyParsed, WithoutOwner
  <2>4. CASE ~leaves
    BY <1>21, <2>1, <2>2, <2>4, Zenon DEF dispatchReply, ReplyParsed, AfterReply
  <2>5. QED
    BY <2>3, <2>4
<1>22. CASE RedisAnswers
  <2>1. stream[emitted + 1] \in Int
    BY <1>22 DEF RedisAnswers, WireBounds
  <2>2. QED
    BY <1>22, <2>1 DEF RedisAnswers, input, queues
<1>23. CASE RedisSpoils
  BY <1>23 DEF RedisSpoils, Unsolicited, Malformed, input, queues
<1>24. CASE UNCHANGED vars
  BY <1>24 DEF vars, queues, input, wire
<1>25. QED
  BY <1>1, <1>2, <1>3, <1>4, <1>5, <1>6, <1>7, <1>8, <1>9, <1>10, <1>11,
     <1>12, <1>13, <1>14, <1>15, <1>16, <1>17, <1>18, <1>19, <1>20, <1>21,
     <1>22, <1>23, <1>24, Zenon DEF Next, RunStep, ReaderStep

-----------------------------------------------------------------------------
(* The life cycle *)

\* The commands an owner has in write_queue_.
LEMMA UnstartedElements ==
  ASSUME NEW wq, NEW o, NEW x
  PROVE  x \in UnstartedOf(wq, o) <=>
           \E b \in wq : b.owner = o /\ x \in CommandsOf(b)
BY DEF UnstartedOf

\* The commands an owner has in pending_queue_.
LEMMA StartedElements ==
  ASSUME NEW cmds, NEW pq \in Seq(Pendings), NEW o, NEW x
  PROVE  x \in StartedOf(cmds, pq, o) <=>
           \E i \in 1 .. Len(pq) : \E k \in SlotsOf(pq[i]) :
             pq[i].owner = o /\ x = cmds[k]
<1>1. DOMAIN pq = 1 .. Len(pq)
  OBVIOUS
<1>2. QED
  BY <1>1 DEF StartedOf

\* After failConnection() nobody is owed anything: whoever was is in a queue.
LEMMA FailEffect ==
  ASSUME TypesButLoad, LifeCycle, OwedIsQueued, failConnection
  PROVE  /\ state' # "Ready" /\ (isHealthy => state' = "Closing")
         /\ ~isHealthy => state' = state
         /\ write_queue' = {} /\ pending_queue' = <<>> /\ queued_commands' = 0
         /\ \A o \in Owners : owed'[o] = {}
         /\ socket' = "closed" <=> socket = "closed"
         /\ IF isHealthy THEN writer_signal' ELSE writer_signal' = writer_signal
<1>1. CASE isHealthy
  <2>1. ASSUME NEW o \in Owners, o \notin OwnersIn(write_queue, pending_queue)
        PROVE  owed[o] = {}
    <3>1. \A b \in write_queue : b.owner # o
      BY <2>1 DEF OwnersIn
    <3>2. \A i \in 1 .. Len(pending_queue) : pending_queue[i].owner # o
      <4>1. DOMAIN pending_queue = 1 .. Len(pending_queue)
        BY DEF TypesButLoad
      <4>2. QED
        BY <2>1, <4>1, OwnersAssumption DEF OwnersIn
    <3>3. UnstartedOf(write_queue, o) = {}
      BY <3>1, UnstartedElements
    <3>4. StartedOf(stream, pending_queue, o) = {}
      <4>1. pending_queue \in Seq(Pendings)
        BY DEF TypesButLoad
      <4>2. \A x : x \notin StartedOf(stream, pending_queue, o)
        BY <3>2, <4>1, StartedElements
      <4>3. QED
        BY <4>2
    <3>5. QED
      BY <3>3, <3>4 DEF OwedIsQueued
  <2>2. \A o \in Owners : owed'[o] = {}
    BY <1>1, <2>1 DEF failConnection
  <2>3. QED
    BY <1>1, <2>2 DEF failConnection, Shutdown, isHealthy
<1>2. CASE ~isHealthy
  BY <1>2 DEF failConnection, LifeCycle, queues, isHealthy
<1>3. QED
  BY <1>1, <1>2

\* start(), stop(), run(), the reader and the failures keep the life cycle.
LEMMA LifeCycleStep ==
  ASSUME TypesButLoad, LifeCycle, OwedIsQueued, [Next]_vars
  PROVE  LifeCycle'
<1> USE DEF LifeCycle, Connected, isHealthy, isStopped
<1>1. CASE start
  BY <1>1 DEF start, input, wire, queues
<1>2. CASE stop
  <2>1. CASE isHealthy
    BY <1>2, <2>1, FailEffect, Zenon DEF stop, input, wire
  <2>2. CASE ~isHealthy
    BY <1>2, <2>2 DEF stop, Shutdown, input, wire, queues
  <2>3. QED
    BY <2>1, <2>2, Zenon
<1>3. ASSUME NEW o \in Owners, NEW n \in 0 .. MaxBatch, submit(o, n)
      PROVE  LifeCycle'
  BY <1>3 DEF submit, input, wire
<1>4. ASSUME NEW o \in Owners, detachOwner(o)
      PROVE  LifeCycle'
  <2>1. CASE isHealthy
    BY <1>4, <2>1 DEF detachOwner, input, wire
  <2>2. CASE ~isHealthy
    <3>1. UnstartedOf(write_queue, o) = {}
      BY <2>2, UnstartedElements
    <3>2. Cardinality(UnstartedOf(write_queue, o)) = 0
      BY <3>1, FS_EmptySet
    <3>3. write_queue' = {} /\ queued_commands' = 0
      BY <1>4, <2>2, <3>2 DEF detachOwner, WithoutOwner
    <3>4. pending_queue' = <<>>
      <4>1. pending_queue \in Seq(Pendings) /\ Len(pending_queue) = 0
        BY <2>2 DEF TypesButLoad
      <4>2. pending_queue' \in Seq(Pendings) /\ Len(pending_queue') = 0
        BY <1>4, <4>1, DisownedType, Zenon DEF detachOwner
      <4>3. QED
        BY <4>2
    <3>5. \A p \in Owners : owed'[p] = {}
      BY <1>4, <2>2 DEF detachOwner, TypesButLoad
    <3>6. QED
      BY <1>4, <2>2, <3>3, <3>4, <3>5 DEF detachOwner, input, wire
  <2>3. QED
    BY <2>1, <2>2, Zenon
<1>5. CASE RunLoop
  BY <1>5 DEF RunLoop, input, wire, queues
<1>6. CASE ConnectSucceeds
  BY <1>6 DEF ConnectSucceeds, input, wire, queues
<1>7. CASE ConnectFails
  BY <1>7 DEF ConnectFails, Teardown, queues
<1>8. CASE WriterWaits
  BY <1>8 DEF WriterWaits, input, wire, queues
<1>9. CASE WriterWakes
  BY <1>9 DEF WriterWakes, Yielded, input, wire, queues
<1>10. CASE WriterStarts
  BY <1>10 DEF WriterStarts, input
<1>11. CASE Writes
  BY <1>11 DEF Writes, Yielded, input, queues
<1>12. CASE WriteFails
  BY <1>12, FailEffect DEF WriteFails, Yielded, input, wire
<1>13. CASE WriterJoins
  BY <1>13 DEF WriterJoins, Teardown, queues
<1>14. CASE ReaderStarts
  BY <1>14 DEF ReaderStarts, Yielded, input, wire, queues
<1>15. CASE ReadFails
  BY <1>15, FailEffect, Zenon DEF ReadFails, Yielded, input, wire
<1>16. CASE ParserNeedsMore
  BY <1>16 DEF ParserNeedsMore, input, wire, queues
<1>17. CASE ParserFails
  BY <1>17, FailEffect, Zenon DEF ParserFails, input, wire
<1>18. CASE UnexpectedReply
  BY <1>18, FailEffect, Zenon DEF UnexpectedReply, ReplyParsed
<1>19. CASE ReaderEnds
  BY <1>19 DEF ReaderEnds, input, wire, queues
<1>20. ASSUME NEW k \in 0 .. Len(inbound), NEW half \in BOOLEAN, ReadSome(k, half)
       PROVE  LifeCycle'
  BY <1>20 DEF ReadSome, Yielded, queues
<1>21. ASSUME NEW leaves \in BOOLEAN, dispatchReply(leaves)
       PROVE  LifeCycle'
  BY <1>21 DEF dispatchReply, ReplyParsed
<1>22. CASE RedisAnswers
  BY <1>22 DEF RedisAnswers, input, queues
<1>23. CASE RedisSpoils
  BY <1>23 DEF RedisSpoils, input, queues
<1>24. CASE UNCHANGED vars
  BY <1>24 DEF vars, queues, input, wire
<1>25. QED
  BY <1>1, <1>2, <1>3, <1>4, <1>5, <1>6, <1>7, <1>8, <1>9, <1>10, <1>11,
     <1>12, <1>13, <1>14, <1>15, <1>16, <1>17, <1>18, <1>19, <1>20, <1>21,
     <1>22, <1>23, <1>24, Zenon DEF Next, RunStep, ReaderStep

\* Whatever gives the sleeping coroutine something to do also notifies it.
LEMMA WakeupStep ==
  ASSUME TypesButLoad, LifeCycle, OwedIsQueued, NoLostWakeup, [Next]_vars
  PROVE  NoLostWakeup'
<1> USE DEF NoLostWakeup, NothingToDo, isHealthy
<1>1. CASE start
  BY <1>1 DEF start
<1>2. CASE stop
  <2>1. CASE isHealthy
    BY <1>2, <2>1, FailEffect DEF stop
  <2>2. CASE ~isHealthy
    BY <1>2, <2>2 DEF stop, queues
  <2>3. QED
    BY <2>1, <2>2
<1>3. ASSUME NEW o \in Owners, NEW n \in 0 .. MaxBatch, submit(o, n)
      PROVE  NoLostWakeup'
  BY <1>3 DEF submit
<1>4. ASSUME NEW o \in Owners, detachOwner(o)
      PROVE  NoLostWakeup'
  BY <1>4 DEF detachOwner, WithoutOwner
<1>5. CASE RunLoop
  BY <1>5 DEF RunLoop
<1>6. CASE ConnectSucceeds
  BY <1>6 DEF ConnectSucceeds
<1>7. CASE ConnectFails
  BY <1>7 DEF ConnectFails, Teardown
<1>8. CASE WriterWaits
  BY <1>8 DEF WriterWaits, queues
<1>9. CASE WriterWakes
  BY <1>9 DEF WriterWakes
<1>10. CASE WriterStarts
  BY <1>10 DEF WriterStarts
<1>11. CASE Writes
  BY <1>11 DEF Writes
<1>12. CASE WriteFails
  BY <1>12 DEF WriteFails
<1>13. CASE WriterJoins
  BY <1>13 DEF WriterJoins, Teardown
<1>14. CASE ReaderStarts
  BY <1>14 DEF ReaderStarts, queues
<1>15. CASE ReadFails
  BY <1>15, FailEffect DEF ReadFails, Yielded, LifeCycle
<1>16. CASE ParserNeedsMore
  BY <1>16 DEF ParserNeedsMore, queues
<1>17. CASE ParserFails
  BY <1>17, FailEffect DEF ParserFails
<1>18. CASE UnexpectedReply
  BY <1>18, FailEffect DEF UnexpectedReply, ReplyParsed
<1>19. CASE ReaderEnds
  BY <1>19 DEF ReaderEnds
<1>20. ASSUME NEW k \in 0 .. Len(inbound), NEW half \in BOOLEAN, ReadSome(k, half)
       PROVE  NoLostWakeup'
  BY <1>20 DEF ReadSome, queues
<1>21. ASSUME NEW leaves \in BOOLEAN, dispatchReply(leaves)
       PROVE  NoLostWakeup'
  BY <1>21 DEF dispatchReply, ReplyParsed, WithoutOwner
<1>22. CASE RedisAnswers
  BY <1>22 DEF RedisAnswers, queues
<1>23. CASE RedisSpoils
  BY <1>23 DEF RedisSpoils, queues
<1>24. CASE UNCHANGED vars
  BY <1>24 DEF vars, queues
<1>25. QED
  BY <1>1, <1>2, <1>3, <1>4, <1>5, <1>6, <1>7, <1>8, <1>9, <1>10, <1>11,
     <1>12, <1>13, <1>14, <1>15, <1>16, <1>17, <1>18, <1>19, <1>20, <1>21,
     <1>22, <1>23, <1>24, Zenon DEF Next, RunStep, ReaderStep

-----------------------------------------------------------------------------
(* The connection *)

\* Redis has received no more than was started, and answers no more than it
\* received.
LEMMA WireBoundsStep ==
  ASSUME TypesButLoad, LifeCycle, WireBounds, [Next]_vars
  PROVE  WireBounds'
<1> USE DEF WireBounds
<1>1. CASE ConnectFails \/ WriterJoins
  BY <1>1 DEF ConnectFails, WriterJoins, Teardown
<1>2. CASE RunLoop \/ ConnectSucceeds \/ WriterWaits \/ WriterWakes \/ WriteFails
  BY <1>2 DEF RunLoop, ConnectSucceeds, WriterWaits, WriterWakes, WriteFails, wire
<1>3. CASE WriterStarts
  <2> DEFINE batch == FrontBatch(write_queue)
  <2>1. batch \in Batches
    BY <1>3, FrontExists, Zenon DEF WriterStarts, TypesButLoad
  <2>2. /\ InOrder(batch) \in Seq(Nat) /\ batch.command_count \in Nat \ {0}
        /\ Len(InOrder(batch)) = batch.command_count
    BY <2>1, InOrderType DEF Batches
  <2>3. stream' = stream \o InOrder(batch) /\ written' = written /\ emitted' = emitted
    BY <1>3 DEF WriterStarts
  <2> HIDE DEF batch
  <2>4. Len(stream') = Len(stream) + batch.command_count
    <3>1. stream \in Seq(Nat)
      BY DEF TypesButLoad
    <3>2. QED
      BY <2>2, <2>3, <3>1, ConcatProperties
  <2>5. QED
    BY <2>2, <2>3, <2>4 DEF TypesButLoad
<1>4. CASE Writes
  BY <1>4 DEF Writes, TypesButLoad
<1>5. CASE RedisAnswers
  BY <1>5 DEF RedisAnswers, TypesButLoad
<1>6. CASE start \/ stop \/ ReaderStep \/ RedisSpoils
  <2>1. UNCHANGED <<stream, written, emitted>> /\ (run_pc' = "write" => run_pc = "write")
    BY <1>6, Zenon DEF start, stop, ReaderStep, RedisSpoils, ReaderStarts, ReadFails,
                ParserNeedsMore, ParserFails, UnexpectedReply, ReplyParsed,
                ReaderEnds, ReadSome, dispatchReply, wire
  <2>2. QED
    BY <2>1
<1>7. ASSUME NEW o \in Owners, NEW n \in 0 .. MaxBatch, submit(o, n)
      PROVE  WireBounds'
  BY <1>7 DEF submit, wire
<1>8. ASSUME NEW o \in Owners, detachOwner(o)
      PROVE  WireBounds'
  BY <1>8 DEF detachOwner, wire
<1>9. CASE UNCHANGED vars
  BY <1>9 DEF vars, wire
<1>10. QED
  BY <1>1, <1>2, <1>3, <1>4, <1>5, <1>6, <1>7, <1>8, <1>9 DEF Next, RunStep

\* What the queues and the command stream consist of.
queueVars == <<queues, stream, answered, accepted>>

\* The steps that can leave the channel Ready (state_ == kReady) either change
\* none of queueVars, or are submit, detachOwner, the writer or the dispatch.
LEMMA ReadySteps ==
  ASSUME TypesButLoad, LifeCycle, OwedIsQueued, [Next]_vars, isHealthy'
  PROVE  \/ UNCHANGED queueVars /\ (isHealthy \/ ConnectSucceeds)
         \/ isHealthy /\ \/ \E o \in Owners, n \in 0 .. MaxBatch : submit(o, n)
                         \/ \E o \in Owners : detachOwner(o)
                         \/ WriterStarts
                         \/ \E leaves \in BOOLEAN : dispatchReply(leaves)
<1> USE DEF queueVars, isHealthy
<1>1. CASE start \/ stop
  BY <1>1, FailEffect DEF start, stop
<1>2. CASE RunLoop \/ ConnectFails \/ WriterJoins
  BY <1>2 DEF RunLoop, ConnectFails, WriterJoins, Teardown, LifeCycle, Connected
<1>3. CASE ConnectSucceeds
  BY <1>3 DEF ConnectSucceeds, wire
<1>4. CASE WriteFails \/ ReadFails \/ ParserFails \/ UnexpectedReply
  BY <1>4, FailEffect DEF WriteFails, ReadFails, ParserFails, UnexpectedReply
<1>5. CASE WriterWaits \/ WriterWakes \/ Writes
  BY <1>5 DEF WriterWaits, WriterWakes, Writes, wire
<1>6. CASE ReaderStarts \/ ParserNeedsMore \/ ReaderEnds
  BY <1>6 DEF ReaderStarts, ParserNeedsMore, ReaderEnds, wire
<1>7. ASSUME NEW k \in 0 .. Len(inbound), NEW half \in BOOLEAN, ReadSome(k, half)
      PROVE  UNCHANGED queueVars /\ isHealthy
  BY <1>7 DEF ReadSome
<1>8. CASE RedisAnswers \/ RedisSpoils
  BY <1>8 DEF RedisAnswers, RedisSpoils
<1>9. CASE UNCHANGED vars
  BY <1>9 DEF vars, wire
<1>10. (\E o \in Owners, n \in 0 .. MaxBatch : submit(o, n)) => isHealthy
  BY DEF submit
<1>11. (\E o \in Owners : detachOwner(o)) => isHealthy
  BY DEF detachOwner
<1>12. WriterStarts \/ (\E leaves \in BOOLEAN : dispatchReply(leaves)) => isHealthy
  BY Zenon DEF WriterStarts, dispatchReply, ReplyParsed
<1>13. QED
  BY <1>1, <1>2, <1>3, <1>4, <1>5, <1>6, <1>7, <1>8, <1>9, <1>10, <1>11, <1>12
  DEF Next, RunStep, ReaderStep

-----------------------------------------------------------------------------
(* The queues *)

\* qq is pq with one more batch, of c commands of o after the n started ones.
Appended(qq, pq, o, c, n) ==
  /\ Len(qq) = Len(pq) + 1
  /\ \A i \in 1 .. Len(pq) : qq[i] = pq[i]
  /\ qq[Len(pq) + 1] = [owner |-> o, remaining_replies |-> c, upto |-> n + c]

\* The front batch of the write queue moves to the end of the other two.
LEMMA StartEffect ==
  ASSUME TypesButLoad, WriterStarts
  PROVE  \E b \in write_queue :
           /\ b \in Batches
           /\ \A c \in write_queue : b.first <= c.first
           /\ write_queue' = write_queue \ {b}
           /\ Len(stream') = Len(stream) + b.command_count
           /\ \A i \in 1 .. Len(stream) : stream'[i] = stream[i]
           /\ \A i \in 1 .. b.command_count :
                stream'[Len(stream) + i] = b.first + i - 1
           /\ Appended(pending_queue', pending_queue, b.owner, b.command_count,
                       Len(stream))
<1>1. /\ stream \in Seq(Nat) /\ pending_queue \in Seq(Pendings)
      /\ write_queue \in SUBSET Batches /\ write_queue # {}
  BY DEF TypesButLoad, WriterStarts
<1>2. PICK b \in write_queue : b = FrontBatch(write_queue)
  BY <1>1, FrontExists
<1>3. b \in Batches /\ \A c \in write_queue : b.first <= c.first
  BY <1>1, <1>2, FrontExists
<1> DEFINE p == [owner |-> b.owner, remaining_replies |-> b.command_count,
                 upto |-> Len(stream) + b.command_count]
<1>4. /\ write_queue' = write_queue \ {b}
      /\ stream' = stream \o InOrder(b)
      /\ pending_queue' = Append(pending_queue, p)
  BY <1>2 DEF WriterStarts
<1>5. p \in Pendings
  BY <1>1, <1>3 DEF Batches, Pendings, Sinks
<1> HIDE DEF p
<1>6. /\ Len(pending_queue') = Len(pending_queue) + 1
      /\ \A i \in 1 .. Len(pending_queue) : pending_queue'[i] = pending_queue[i]
      /\ pending_queue'[Len(pending_queue) + 1] = p
  BY <1>1, <1>4, <1>5, AppendProperties
<1>7. /\ InOrder(b) \in Seq(Nat) /\ Len(InOrder(b)) = b.command_count
      /\ \A i \in 1 .. b.command_count : InOrder(b)[i] = b.first + i - 1
      /\ b.command_count \in Nat
  BY <1>3, InOrderType DEF Batches
<1>8. /\ Len(stream') = Len(stream) + b.command_count
      /\ \A i \in 1 .. Len(stream) + b.command_count :
           stream'[i] = IF i <= Len(stream) THEN stream[i]
                        ELSE InOrder(b)[i - Len(stream)]
  <2>1. stream \in Seq(Nat) /\ InOrder(b) \in Seq(Nat) /\ stream' = stream \o InOrder(b)
    BY <1>1, <1>4, <1>7
  <2>2. /\ Len(stream \o InOrder(b)) = Len(stream) + Len(InOrder(b))
        /\ \A i \in 1 .. Len(stream) + Len(InOrder(b)) :
             (stream \o InOrder(b))[i] = IF i <= Len(stream) THEN stream[i]
                                         ELSE InOrder(b)[i - Len(stream)]
    BY <2>1, ConcatProperties, Zenon
  <2>3. QED
    BY <1>7, <2>1, <2>2, Zenon
<1>9. ASSUME NEW i \in 1 .. Len(stream)
      PROVE  stream'[i] = stream[i]
  <2>1. i \in 1 .. Len(stream) + b.command_count /\ i <= Len(stream)
    BY <1>1, <1>7
  <2>2. QED
    BY <1>8, <2>1
<1>10. ASSUME NEW i \in 1 .. b.command_count
       PROVE  stream'[Len(stream) + i] = b.first + i - 1
  <2>1. /\ Len(stream) + i \in 1 .. Len(stream) + b.command_count
        /\ ~(Len(stream) + i <= Len(stream))
        /\ Len(stream) + i - Len(stream) = i
    BY <1>1, <1>7
  <2>2. stream'[Len(stream) + i] = InOrder(b)[i]
    BY <1>8, <2>1
  <2>3. QED
    BY <1>7, <2>2
<1>11. QED
  BY <1>3, <1>4, <1>6, <1>8, <1>9, <1>10, Zenon DEF p, Appended

\* The write queue and the stream stay in the order of acceptance.
LEMMA CommandsOrderedStep ==
  ASSUME TypesButLoad, LifeCycle, OwedIsQueued, CommandsOrdered, [Next]_vars
  PROVE  CommandsOrdered'
<1> SUFFICES ASSUME isHealthy'
             PROVE  CommandsOrdered'
  BY DEF CommandsOrdered
<1>1. CASE UNCHANGED queueVars /\ isHealthy
  BY <1>1 DEF CommandsOrdered, queueVars, queues, isHealthy
<1>2. CASE UNCHANGED queueVars /\ ConnectSucceeds
  BY <1>2 DEF ConnectSucceeds, LifeCycle, Connected, CommandsOrdered, queueVars, queues, isHealthy
<1>3. ASSUME isHealthy, NEW o \in Owners, NEW n \in 0 .. MaxBatch, submit(o, n)
      PROVE  CommandsOrdered'
  <2> DEFINE new == [owner |-> o, first |-> accepted + 1, command_count |-> n]
  <2>1. /\ write_queue' = write_queue \cup {new} /\ accepted' = accepted + n
        /\ stream' = stream /\ n \in Nat \ {0} /\ accepted \in Nat
        /\ new.first = accepted + 1 /\ new.command_count = n
    BY <1>3, BoundsAssumption DEF submit, wire, TypesButLoad
  <2>2. \A b \in write_queue : b.first \in Nat /\ b.command_count \in Nat
    BY DEF TypesButLoad, Batches
  <2>3. \A i \in 1 .. Len(stream) : stream[i] \in Nat
    BY DEF TypesButLoad
  <2> HIDE DEF new
  <2>4. QED
    BY <1>3, <2>1, <2>2, <2>3 DEF CommandsOrdered
<1>4. ASSUME isHealthy, NEW o \in Owners, detachOwner(o)
      PROVE  CommandsOrdered'
  BY <1>4 DEF CommandsOrdered, detachOwner, WithoutOwner, wire, isHealthy
<1>5. ASSUME isHealthy, WriterStarts
      PROVE  CommandsOrdered'
  <2>1. PICK b \in write_queue :
           /\ b \in Batches
           /\ \A c \in write_queue : b.first <= c.first
           /\ write_queue' = write_queue \ {b}
           /\ Len(stream') = Len(stream) + b.command_count
           /\ \A i \in 1 .. Len(stream) : stream'[i] = stream[i]
           /\ \A i \in 1 .. b.command_count :
                stream'[Len(stream) + i] = b.first + i - 1
    BY <1>5, StartEffect
  <2>2. /\ \A c \in write_queue : c.first \in Nat /\ c.command_count \in Nat \ {0}
        /\ accepted' = accepted /\ accepted \in Nat /\ Len(stream) \in Nat
        /\ \A i \in 1 .. Len(stream) : stream[i] \in Nat
    <3>1. write_queue \subseteq Batches /\ accepted \in Nat /\ stream \in Seq(Nat)
      BY DEF TypesButLoad
    <3>2. accepted' = accepted
      BY <1>5 DEF WriterStarts
    <3>3. QED
      BY <3>1, <3>2 DEF Batches
  <2>a. /\ \A i, j \in 1 .. Len(stream) : i < j => stream[i] < stream[j]
        /\ \A i \in 1 .. Len(stream) : 0 < stream[i] /\ stream[i] <= accepted
        /\ \A i \in 1 .. Len(stream) : stream[i] < b.first
        /\ b.first > 0 /\ b.first + b.command_count <= accepted + 1
    BY <1>5, <2>1 DEF CommandsOrdered
  <2>3. \A i \in 1 .. Len(stream') :
          \/ i \in 1 .. Len(stream) /\ stream'[i] = stream[i]
          \/ \E k \in 1 .. b.command_count :
               i = Len(stream) + k /\ stream'[i] = b.first + k - 1
    <3>1. SUFFICES ASSUME NEW i \in 1 .. Len(stream'), i \notin 1 .. Len(stream)
                   PROVE  \E k \in 1 .. b.command_count :
                            i = Len(stream) + k /\ stream'[i] = b.first + k - 1
      BY <2>1
    <3>2. i - Len(stream) \in 1 .. b.command_count /\ i = Len(stream) + (i - Len(stream))
      BY <2>1, <2>2, <3>1
    <3>3. QED
      BY <2>1, <3>2
  <2>4. ASSUME NEW i \in 1 .. Len(stream'), NEW j \in 1 .. Len(stream'), i < j
        PROVE  stream'[i] < stream'[j]
    <3>1. CASE j \in 1 .. Len(stream)
      <4>1. i \in 1 .. Len(stream)
        BY <2>1, <2>2, <2>4, <3>1
      <4>2. QED
        BY <2>1, <2>4, <2>a, <3>1, <4>1
    <3>2. CASE j \notin 1 .. Len(stream)
      <4>1. PICK k \in 1 .. b.command_count :
              j = Len(stream) + k /\ stream'[j] = b.first + k - 1
        BY <2>3, <3>2, Zenon
      <4>2. CASE i \in 1 .. Len(stream)
        <5>1. stream'[i] = stream[i] /\ stream[i] < b.first /\ stream[i] \in Nat
          BY <2>1, <2>2, <2>a, <4>2
        <5>2. b.first \in Nat
          BY <2>2
        <5>3. QED
          BY <4>1, <5>1, <5>2
      <4>3. CASE i \notin 1 .. Len(stream)
        <5>1. PICK m \in 1 .. b.command_count :
                i = Len(stream) + m /\ stream'[i] = b.first + m - 1
          BY <2>3, <4>3, Zenon
        <5>2. m < k /\ b.first \in Nat
          BY <2>2, <2>4, <4>1, <5>1
        <5>3. QED
          BY <4>1, <5>1, <5>2
      <4>4. QED
        BY <4>2, <4>3
    <3>3. QED
      BY <3>1, <3>2
  <2>5. ASSUME NEW i \in 1 .. Len(stream')
        PROVE  0 < stream'[i] /\ stream'[i] <= accepted /\ stream'[i] < b.first + b.command_count
    <3>1. CASE i \in 1 .. Len(stream)
      <4>1. stream'[i] = stream[i] /\ stream[i] < b.first /\ stream[i] \in Nat
        BY <2>1, <2>2, <2>a, <3>1
      <4>2. 0 < stream[i] /\ stream[i] <= accepted
        BY <2>a, <3>1
      <4>3. b.first \in Nat /\ b.command_count \in Nat
        BY <2>2
      <4>4. QED
        BY <4>1, <4>2, <4>3
    <3>2. CASE i \notin 1 .. Len(stream)
      <4>1. PICK m \in 1 .. b.command_count :
              i = Len(stream) + m /\ stream'[i] = b.first + m - 1
        BY <2>3, <3>2, Zenon
      <4>2. PICK f \in Nat, c \in Nat : f = b.first /\ c = b.command_count
        BY <2>1, <2>2, Zenon
      <4>3. f > 0 /\ f + c <= accepted + 1 /\ m \in 1 .. c /\ accepted \in Nat
        BY <2>2, <2>a, <4>1, <4>2
      <4>4. 0 < f + m - 1 /\ f + m - 1 <= accepted /\ f + m - 1 < f + c
        BY <4>3
      <4>5. QED
        BY <4>1, <4>2, <4>4
    <3>3. QED
      BY <3>1, <3>2
  <2>6. \A c \in write_queue' : c \in write_queue /\ b.first + b.command_count <= c.first
    <3>1. SUFFICES ASSUME NEW c \in write_queue, c # b
                   PROVE  b.first + b.command_count <= c.first
      BY <2>1
    <3>2. /\ b.first <= c.first
          /\ \/ b.first + b.command_count <= c.first
             \/ c.first + c.command_count <= b.first
      BY <1>5, <2>1, <3>1 DEF CommandsOrdered
    <3>3. c.first \in Nat /\ c.command_count \in Nat \ {0} /\ b.first \in Nat
      BY <2>2
    <3>4. QED
      BY <3>2, <3>3
  <2>7. ASSUME NEW c \in write_queue', NEW i \in 1 .. Len(stream')
        PROVE  stream'[i] < c.first
    <3>1. b.first \in Nat /\ b.command_count \in Nat /\ c.first \in Nat
      BY <2>2, <2>6
    <3>2. stream'[i] \in Int
      <4>1. CASE i \in 1 .. Len(stream)
        BY <2>1, <2>2, <4>1
      <4>2. CASE i \notin 1 .. Len(stream)
        <5>1. PICK m \in 1 .. b.command_count : stream'[i] = b.first + m - 1
          BY <2>3, <4>2, Zenon
        <5>2. QED
          BY <3>1, <5>1
      <4>3. QED
        BY <4>1, <4>2
    <3>3. stream'[i] < b.first + b.command_count /\ b.first + b.command_count <= c.first
      BY <2>5, <2>6
    <3>4. QED
      BY <3>1, <3>2, <3>3
  <2>8. QED
    BY <1>5, <2>1, <2>2, <2>4, <2>5, <2>6, <2>7 DEF CommandsOrdered
<1>6. ASSUME isHealthy, NEW leaves \in BOOLEAN, dispatchReply(leaves)
      PROVE  CommandsOrdered'
  BY <1>6, Zenon DEF CommandsOrdered, dispatchReply, ReplyParsed, WithoutOwner, isHealthy
<1>7. QED
  BY <1>1, <1>2, <1>3, <1>4, <1>5, <1>6, ReadySteps

=============================================================================
