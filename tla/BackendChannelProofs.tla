------------------------ MODULE BackendChannelProofs ------------------------
(***************************************************************************)
(* BackendChannel: type correctness, life cycle, reply matching, the load  *)
(* count and the contract with its users, for any set of owners, batch     *)
(* size and number of commands.                                            *)
(***************************************************************************)
EXTENDS BackendReplyProofs, BackendRefinement

(* The load *)

\* The commands of the write queue and those awaiting an answer.
Numbers(wq, cmds, a) ==
  {x \in Nat : \/ \E b \in wq : x \in CommandsOf(b)
               \/ \E k \in (a + 1) .. Len(cmds) : x = cmds[k]}

\* They are what the two queues hold, for owners present and gone.
LEMMA QueuedNumbers ==
  ASSUME NEW wq \in SUBSET Batches, NEW cmds \in Seq(Nat), NEW a \in Nat,
         NEW pq \in Seq(Pendings), Partitioned(pq, a, Len(cmds))
  PROVE  QueuedIn(wq, cmds, pq) = Numbers(wq, cmds, a)
<1> DEFINE L == UNION {UnstartedOf(wq, o) : o \in Owners}
           R == UNION {StartedOf(cmds, pq, o) : o \in Sinks}
<1>1. \A x : x \in L <=> \E b \in wq : x \in CommandsOf(b)
  <2>1. \A b \in wq : b.owner \in Owners
    BY DEF Batches
  <2>2. QED
    BY <2>1, UnstartedElements
<1>2. ASSUME NEW x
      PROVE  x \in R <=> \E k \in (a + 1) .. Len(cmds) : x = cmds[k]
  <2>1. x \in R <=> \E o \in Sinks : \E k : Holds(pq, k, o) /\ x = cmds[k]
    BY StartedHolds
  <2>2. ASSUME NEW k, NEW o \in Sinks, Holds(pq, k, o)
        PROVE  k \in (a + 1) .. Len(cmds)
    <3>1. Len(cmds) \in Nat
      OBVIOUS
    <3>2. QED
      BY <2>2, <3>1, HoldsBounds
  <2>3. ASSUME NEW k \in (a + 1) .. Len(cmds)
        PROVE  \E o \in Sinks : Holds(pq, k, o)
    <3>1. PICK i \in 1 .. Len(pq) : k \in SlotsOf(pq[i])
      BY DEF Partitioned
    <3>2. pq[i].owner \in Sinks
      BY EntryTypes
    <3>3. QED
      BY <3>1, <3>2 DEF Holds
  <2>4. QED
    BY <2>1, <2>2, <2>3
<1>3. \A b \in wq : \A x \in CommandsOf(b) : x \in Nat
  <2>1. SUFFICES ASSUME NEW b \in wq, NEW x \in CommandsOf(b)
                 PROVE  x \in Nat
    OBVIOUS
  <2>2. PICK f \in Nat, c \in Nat : f = b.first /\ c = b.command_count
    BY DEF Batches
  <2>3. x \in f .. (f + c - 1)
    BY <2>2 DEF CommandsOf
  <2>4. QED
    BY <2>3
<1>4. \A k \in (a + 1) .. Len(cmds) : cmds[k] \in Nat
  OBVIOUS
<1>5. \A x : x \in QueuedIn(wq, cmds, pq) <=> x \in L \/ x \in R
  BY DEF QueuedIn
<1> HIDE DEF L, R
<1>6. ASSUME NEW x
      PROVE  x \in QueuedIn(wq, cmds, pq) <=> x \in Numbers(wq, cmds, a)
  <2>1. x \in Numbers(wq, cmds, a) <=>
          /\ x \in Nat
          /\ \/ \E b \in wq : x \in CommandsOf(b)
             \/ \E k \in (a + 1) .. Len(cmds) : x = cmds[k]
    BY DEF Numbers
  <2>2. (\E b \in wq : x \in CommandsOf(b)) => x \in Nat
    BY <1>3
  <2>3. (\E k \in (a + 1) .. Len(cmds) : x = cmds[k]) => x \in Nat
    BY <1>4
  <2>4. QED
    BY <1>1, <1>2, <1>5, <2>1, <2>2, <2>3
<1>7. QED
  BY <1>6, Zenon

\* Of a Ready channel they are among the accepted ones.
LEMMA NumbersFinite ==
  ASSUME TypesButLoad, CommandsOrdered, isHealthy
  PROVE  /\ \A x \in Numbers(write_queue, stream, answered) : x <= accepted
         /\ IsFiniteSet(Numbers(write_queue, stream, answered))
         /\ Cardinality(Numbers(write_queue, stream, answered)) \in Nat
<1>t. /\ stream \in Seq(Nat) /\ answered \in Nat /\ Len(stream) \in Nat
      /\ write_queue \subseteq Batches /\ accepted \in Nat
  BY DEF TypesButLoad
<1>1. ASSUME NEW x \in Numbers(write_queue, stream, answered)
      PROVE  x \in 0 .. accepted
  <2>1. ASSUME NEW b \in write_queue, x \in CommandsOf(b)
        PROVE  x \in 0 .. accepted
    <3>1. PICK f \in Nat, c \in Nat : f = b.first /\ c = b.command_count
      BY <1>t DEF Batches
    <3>2. x \in f .. (f + c - 1) /\ f + c <= accepted + 1
      BY <2>1, <3>1 DEF CommandsOf, CommandsOrdered
    <3>3. QED
      BY <1>t, <3>2
  <2>2. ASSUME NEW k \in (answered + 1) .. Len(stream), x = stream[k]
        PROVE  x \in 0 .. accepted
    <3>1. k \in 1 .. Len(stream)
      BY <1>t
    <3>2. stream[k] \in Nat /\ stream[k] <= accepted
      BY <1>t, <3>1 DEF CommandsOrdered
    <3>3. QED
      BY <1>t, <2>2, <3>2
  <2>3. QED
    BY <2>1, <2>2 DEF Numbers
<1>2. IsFiniteSet(0 .. accepted)
  BY <1>t, FS_Interval
<1>3. IsFiniteSet(Numbers(write_queue, stream, answered))
  BY <1>1, <1>2, FS_Subset, Zenon
<1>4. \A x \in Numbers(write_queue, stream, answered) : x <= accepted
  BY <1>1, <1>t
<1>5. QED
  BY <1>3, <1>4, FS_CardinalityType

\* Batches of different owners have no command in common, nor has an
\* unstarted batch one with those started.
LEMMA UnstartedApart ==
  ASSUME TypesButLoad, CommandsOrdered, isHealthy, NEW o \in Owners, NEW x,
         x \in UnstartedOf(write_queue, o)
  PROVE  /\ x \in Numbers(write_queue, stream, answered)
         /\ \A b \in write_queue : x \in CommandsOf(b) => b.owner = o
         /\ \A k \in 1 .. Len(stream) : x # stream[k]
<1>t. /\ stream \in Seq(Nat) /\ write_queue \subseteq Batches
  BY DEF TypesButLoad
<1>1. PICK b \in write_queue : b.owner = o /\ x \in CommandsOf(b)
  BY UnstartedElements
<1>2. PICK f \in Nat, c \in Nat : f = b.first /\ c = b.command_count
  BY <1>t DEF Batches
<1>3. x \in f .. (f + c - 1)
  BY <1>1, <1>2 DEF CommandsOf
<1>4. x \in Numbers(write_queue, stream, answered)
  <2>1. x \in Nat
    BY <1>3
  <2>2. QED
    BY <1>1, <2>1 DEF Numbers
<1>5. ASSUME NEW d \in write_queue, x \in CommandsOf(d)
      PROVE  d.owner = o
  <2>1. PICK g \in Nat, e \in Nat : g = d.first /\ e = d.command_count
    BY <1>t DEF Batches
  <2>2. x \in g .. (g + e - 1)
    BY <1>5, <2>1 DEF CommandsOf
  <2>3. b # d => f + c <= g \/ g + e <= f
    BY <1>2, <2>1 DEF CommandsOrdered
  <2>4. b = d
    BY <1>3, <2>2, <2>3
  <2>5. QED
    BY <1>1, <2>4
<1>6. ASSUME NEW k \in 1 .. Len(stream)
      PROVE  x # stream[k]
  <2>1. stream[k] \in Nat /\ stream[k] < f
    BY <1>t, <1>2 DEF CommandsOrdered
  <2>2. QED
    BY <1>3, <2>1
<1>7. QED
  BY <1>4, <1>5, <1>6

\* queued_commands_ follows the queues through every operation; when an owner
\* leaves, only its unstarted commands are subtracted.
LEMMA QueuedCountStep ==
  ASSUME TypesButLoad, LifeCycle, CommandsOrdered, SlotsPartitioned, OwedIsQueued,
         QueuedCountExact, [Next]_vars, TypesButLoad', LifeCycle', SlotsPartitioned'
  PROVE  QueuedCountExact'
<1> DEFINE N == Numbers(write_queue, stream, answered)
           N1 == Numbers(write_queue', stream', answered')
<1>t. /\ stream \in Seq(Nat) /\ answered \in Nat /\ Len(stream) \in Nat
      /\ write_queue \subseteq Batches /\ accepted \in Nat
      /\ pending_queue \in Seq(Pendings)
  BY DEF TypesButLoad
<1>0. CASE ~isHealthy'
  <2>1. queued_commands' = 0 /\ write_queue' = {} /\ pending_queue' = <<>>
    BY <1>0 DEF LifeCycle
  <2>2. \A o : UnstartedOf(write_queue', o) = {}
    BY <2>1, UnstartedElements
  <2>3. \A o : StartedOf(stream', pending_queue', o) = {}
    BY <2>1 DEF StartedOf
  <2>4. QueuedIn(write_queue', stream', pending_queue') = {}
    BY <2>2, <2>3 DEF QueuedIn
  <2>5. QED
    BY <2>1, <2>4, FS_EmptySet DEF QueuedCountExact
<1>1. CASE UNCHANGED queueVars
  BY <1>1 DEF QueuedCountExact, queueVars, queues
<1> SUFFICES ASSUME isHealthy, isHealthy',
                    \/ \E o \in Owners, n \in 0 .. MaxBatch : submit(o, n)
                    \/ \E o \in Owners : detachOwner(o)
                    \/ WriterStarts
                    \/ \E leaves \in BOOLEAN : dispatchReply(leaves)
             PROVE  queued_commands' = Cardinality(N1)
  <2>1. SUFFICES ASSUME isHealthy'
                 PROVE  queued_commands' = Cardinality(N1) => QueuedCountExact'
    BY <1>0, <1>1, ReadySteps
  <2>2. PICK wq \in SUBSET Batches, cmds \in Seq(Nat), a \in Nat, pq \in Seq(Pendings) :
          /\ wq = write_queue' /\ cmds = stream' /\ a = answered' /\ pq = pending_queue'
          /\ Partitioned(pq, a, Len(cmds))
    BY <2>1, Zenon DEF TypesButLoad, SlotsPartitioned, Partitioned, SlotsOf
  <2>3. QueuedIn(wq, cmds, pq) = Numbers(wq, cmds, a)
    BY <2>2, QueuedNumbers
  <2>4. QED
    BY <2>2, <2>3 DEF QueuedCountExact
<1>2. queued_commands = Cardinality(N)
  BY <1>t, QueuedNumbers DEF QueuedCountExact, SlotsPartitioned
<1>3. /\ \A x \in N : x <= accepted
      /\ IsFiniteSet(N) /\ Cardinality(N) \in Nat
  BY NumbersFinite
<1>e. \A x : x \in N <=> /\ x \in Nat
                         /\ \/ \E b \in write_queue : x \in CommandsOf(b)
                            \/ \E k \in (answered + 1) .. Len(stream) : x = stream[k]
  BY DEF Numbers
<1>f. \A x : x \in N1 <=> /\ x \in Nat
                          /\ \/ \E b \in write_queue' : x \in CommandsOf(b)
                             \/ \E k \in (answered' + 1) .. Len(stream') : x = stream'[k]
  BY DEF Numbers
<1> HIDE DEF N, N1
<1>4. ASSUME NEW o \in Owners, NEW n \in 0 .. MaxBatch, submit(o, n)
      PROVE  queued_commands' = Cardinality(N1)
  <2> DEFINE new == [owner |-> o, first |-> accepted + 1, command_count |-> n]
             I == (accepted + 1) .. (accepted + n)
  <2>1. /\ write_queue' = write_queue \cup {new} /\ UNCHANGED <<stream, answered>>
        /\ queued_commands' = queued_commands + n /\ n > 0
    BY <1>4 DEF submit, wire
  <2>2. n \in Nat /\ CommandsOf(new) = I
    <3>1. n \in Nat /\ accepted + 1 + n - 1 = accepted + n
      BY <1>t, BoundsAssumption
    <3>2. QED
      BY <3>1 DEF CommandsOf
  <2>3. /\ IsFiniteSet(I) /\ Cardinality(I) = n /\ I \subseteq Nat
    BY <1>t, <2>1, <2>2, FS_Interval
  <2>4. \A x \in N : x \notin I
    <3>1. \A x \in N : x \in Nat
      BY <1>e
    <3>2. QED
      BY <1>t, <1>3, <2>2, <3>1
  <2> HIDE DEF new, I
  <2>5. N1 = N \cup I /\ N \cap I = {}
    <3>1. ASSUME NEW x
          PROVE  (\E b \in write_queue' : x \in CommandsOf(b))
                   <=> (\E b \in write_queue : x \in CommandsOf(b)) \/ x \in I
      BY <2>1, <2>2
    <3>2. ASSUME NEW x
          PROVE  x \in N1 <=> x \in N \/ x \in I
      BY <1>e, <1>f, <2>1, <2>3, <3>1, Zenon
    <3>3. QED
      BY <2>4, <3>2
  <2>6. Cardinality(N1) = Cardinality(N) + n - 0
    <3>1. Cardinality(N \cup I) = Cardinality(N) + Cardinality(I) - Cardinality(N \cap I)
      BY <1>3, <2>3, FS_Union
    <3>2. Cardinality(N \cap I) = 0
      BY <2>5, FS_EmptySet
    <3>3. QED
      BY <2>3, <2>5, <3>1, <3>2
  <2>7. QED
    BY <1>2, <1>3, <2>1, <2>2, <2>6
<1>5. ASSUME NEW o \in Owners
      PROVE  /\ UnstartedOf(write_queue, o) \subseteq N
             /\ IsFiniteSet(UnstartedOf(write_queue, o))
             /\ Cardinality(UnstartedOf(write_queue, o)) \in Nat
             /\ \A x : x \in UnstartedOf(write_queue, o) =>
                  /\ \A b \in write_queue : x \in CommandsOf(b) => b.owner = o
                  /\ \A k \in (answered + 1) .. Len(stream) : x # stream[k]
             /\ \A x : (\E b \in WithoutOwner(write_queue, o) : x \in CommandsOf(b))
                  <=> /\ x \notin UnstartedOf(write_queue, o)
                      /\ \E b \in write_queue : x \in CommandsOf(b)
  <2>1. \A x : x \in UnstartedOf(write_queue, o) =>
                 /\ x \in N
                 /\ \A b \in write_queue : x \in CommandsOf(b) => b.owner = o
                 /\ \A k \in 1 .. Len(stream) : x # stream[k]
    BY UnstartedApart DEF N
  <2>2. \A k \in (answered + 1) .. Len(stream) : k \in 1 .. Len(stream)
    BY <1>t
  <2>3. IsFiniteSet(UnstartedOf(write_queue, o))
    BY <1>3, <2>1, FS_Subset
  <2>4. \A x : (\E b \in WithoutOwner(write_queue, o) : x \in CommandsOf(b))
                  <=> /\ x \notin UnstartedOf(write_queue, o)
                      /\ \E b \in write_queue : x \in CommandsOf(b)
    BY <2>1, UnstartedElements DEF WithoutOwner
  <2>5. QED
    BY <2>1, <2>2, <2>3, <2>4, FS_CardinalityType
<1>6. ASSUME NEW o \in Owners, detachOwner(o)
      PROVE  queued_commands' = Cardinality(N1)
  <2> DEFINE U == UnstartedOf(write_queue, o)
  <2>1. /\ write_queue' = WithoutOwner(write_queue, o) /\ UNCHANGED <<stream, answered>>
        /\ queued_commands' = queued_commands - Cardinality(U)
    BY <1>6 DEF detachOwner, wire
  <2>2. /\ U \subseteq N /\ Cardinality(U) \in Nat
        /\ \A x : x \in U => \A k \in (answered + 1) .. Len(stream) : x # stream[k]
        /\ \A x : (\E b \in write_queue' : x \in CommandsOf(b))
             <=> x \notin U /\ \E b \in write_queue : x \in CommandsOf(b)
    BY <1>5, <2>1
  <2> HIDE DEF U
  <2>3. \A x : x \in N1 <=> x \in N /\ x \notin U
    BY <1>e, <1>f, <2>1, <2>2
  <2>4. N1 = N \ U /\ N \cap U = U
    BY <2>2, <2>3
  <2>5. Cardinality(N1) = Cardinality(N) - Cardinality(U)
    BY <1>3, <2>4, FS_Difference
  <2>6. QED
    BY <1>2, <2>1, <2>5
<1>7. CASE WriterStarts
  <2>1. PICK b \in write_queue :
           /\ b \in Batches
           /\ write_queue' = write_queue \ {b}
           /\ Len(stream') = Len(stream) + b.command_count
           /\ \A i \in 1 .. Len(stream) : stream'[i] = stream[i]
           /\ \A i \in 1 .. b.command_count :
                stream'[Len(stream) + i] = b.first + i - 1
    BY <1>7, StartEffect
  <2>2. PICK f \in Nat, c \in Nat, n \in Nat :
          f = b.first /\ c = b.command_count /\ n = Len(stream)
    BY <1>t, <2>1 DEF Batches
  <2>3. answered' = answered /\ queued_commands' = queued_commands /\ answered <= n
    BY <1>7, <2>2 DEF WriterStarts, SlotsPartitioned, Partitioned
  <2>4. ASSUME NEW x
        PROVE  (\E k \in (answered + 1) .. (n + c) : x = stream'[k]) <=>
                 \/ \E k \in (answered + 1) .. n : x = stream[k]
                 \/ x \in CommandsOf(b)
    <3>1. ASSUME NEW k \in (answered + 1) .. (n + c), x = stream'[k]
          PROVE  \/ \E j \in (answered + 1) .. n : x = stream[j]
                 \/ x \in CommandsOf(b)
      <4>1. CASE k <= n
        <5>1. k \in (answered + 1) .. n /\ k \in 1 .. n
          BY <1>t, <4>1
        <5>2. QED
          BY <2>1, <2>2, <3>1, <5>1
      <4>2. CASE ~(k <= n)
        <5>1. k - n \in 1 .. c /\ n + (k - n) = k
          BY <1>t, <4>2
        <5>2. x = f + (k - n) - 1
          BY <2>1, <2>2, <3>1, <5>1
        <5>3. x \in f .. (f + c - 1)
          BY <5>1, <5>2
        <5>4. QED
          BY <2>2, <5>3 DEF CommandsOf
      <4>3. QED
        BY <4>1, <4>2
    <3>2. ASSUME NEW k \in (answered + 1) .. n, x = stream[k]
          PROVE  \E j \in (answered + 1) .. (n + c) : x = stream'[j]
      <4>1. k \in (answered + 1) .. (n + c) /\ k \in 1 .. n
        BY <1>t
      <4>2. QED
        BY <2>1, <2>2, <3>2, <4>1
    <3>3. ASSUME x \in CommandsOf(b)
          PROVE  \E j \in (answered + 1) .. (n + c) : x = stream'[j]
      <4>1. x \in f .. (f + c - 1)
        BY <2>2, <3>3 DEF CommandsOf
      <4>2. PICK i \in 1 .. c : x = f + i - 1
        <5>1. x - f + 1 \in 1 .. c /\ x = f + (x - f + 1) - 1
          BY <4>1
        <5>2. QED
          BY <5>1, Zenon
      <4>3. n + i \in (answered + 1) .. (n + c)
        BY <1>t, <2>3
      <4>4. x = stream'[n + i]
        BY <2>1, <2>2, <4>2
      <4>5. QED
        BY <4>3, <4>4
    <3>4. QED
      BY <3>1, <3>2, <3>3
  <2>5. \A x : x \in N1 <=> x \in N
    <3>1. \A x : (\E d \in write_queue : x \in CommandsOf(d)) <=>
                   (\E d \in write_queue' : x \in CommandsOf(d)) \/ x \in CommandsOf(b)
      BY <2>1
    <3>2. \A x : x \in N1 <=>
            /\ x \in Nat
            /\ \/ \E d \in write_queue' : x \in CommandsOf(d)
               \/ \E k \in (answered + 1) .. (n + c) : x = stream'[k]
      BY <1>f, <2>1, <2>2, <2>3
    <3>3. \A x : x \in N <=>
            /\ x \in Nat
            /\ \/ \E d \in write_queue : x \in CommandsOf(d)
               \/ \E k \in (answered + 1) .. n : x = stream[k]
      BY <1>e, <2>2
    <3>4. QED
      BY <2>4, <3>1, <3>2, <3>3
  <2>6. N1 = N
    BY <2>5
  <2>7. QED
    BY <1>2, <2>3, <2>6
<1>8. ASSUME NEW leaves \in BOOLEAN, dispatchReply(leaves)
      PROVE  queued_commands' = Cardinality(N1)
  <2> DEFINE next == stream[answered + 1]
             o == Head(pending_queue).owner
             U == UnstartedOf(write_queue, o)
             M == N \ {next}
  <2>1. /\ answered' = answered + 1 /\ stream' = stream /\ pending_queue # <<>>
        /\ answered + 1 \in 1 .. Len(stream)
        /\ \A b \in write_queue : next < b.first
    BY <1>8, DispatchEffect, NextIsOldest
  <2>2. next \in Nat /\ next \in N
    <3>1. answered + 1 \in (answered + 1) .. Len(stream) /\ next \in Nat
      BY <1>t, <2>1
    <3>2. QED
      BY <1>e, <3>1
  <2>3. /\ \A k \in (answered + 2) .. Len(stream) : stream[k] # next
        /\ \A x : (\E k \in (answered + 1) .. Len(stream) : x = stream[k]) /\ x # next
             <=> \E k \in (answered + 2) .. Len(stream) : x = stream[k]
    <3>1. \A k \in (answered + 2) .. Len(stream) : stream[k] # next
      <4>1. ASSUME NEW k \in (answered + 2) .. Len(stream), stream[k] = next
            PROVE  FALSE
        <5>1. k \in 1 .. Len(stream) /\ k # answered + 1
          BY <1>t
        <5>2. QED
          BY <2>1, <4>1, <5>1, StreamInjective
      <4>2. QED
        BY <4>1
    <3>2. \A k : k \in (answered + 1) .. Len(stream) /\ k # answered + 1
                   <=> k \in (answered + 2) .. Len(stream)
      BY <1>t
    <3>3. QED
      BY <3>1, <3>2
  <2>4. \A b \in write_queue : next \notin CommandsOf(b)
    <3>1. SUFFICES ASSUME NEW b \in write_queue, next \in CommandsOf(b)
                   PROVE  FALSE
      OBVIOUS
    <3>2. PICK f \in Nat, c \in Nat : f = b.first /\ c = b.command_count
      BY <1>t DEF Batches
    <3>3. next \in f .. (f + c - 1) /\ next < f
      BY <2>1, <3>1, <3>2 DEF CommandsOf
    <3>4. QED
      BY <2>2, <3>3
  <2>5. answered' + 1 = answered + 2
    BY <1>t, <2>1
  <2>6. IsFiniteSet(M) /\ Cardinality(M) = Cardinality(N) - 1
    BY <1>3, <2>2, FS_RemoveElement
  <2> HIDE DEF next
  <2>7. \A x : x \in M <=> /\ x \in Nat
                           /\ \/ \E b \in write_queue : x \in CommandsOf(b)
                              \/ \E k \in (answered + 2) .. Len(stream) : x = stream[k]
    BY <1>e, <2>3, <2>4, Zenon
  <2> HIDE DEF M
  <2>8. CASE leaves
    <3>1. /\ o \in Owners /\ write_queue' = WithoutOwner(write_queue, o)
          /\ queued_commands' = queued_commands - 1 - Cardinality(U)
      BY <1>8, <2>8, DispatchEffect, Zenon DEF dispatchReply
    <3>2. /\ U \subseteq N /\ Cardinality(U) \in Nat
          /\ \A x : x \in U => \A k \in (answered + 1) .. Len(stream) : x # stream[k]
          /\ \A x : (\E b \in write_queue' : x \in CommandsOf(b))
               <=> x \notin U /\ \E b \in write_queue : x \in CommandsOf(b)
      BY <1>5, <3>1
    <3>3. next \notin U
      BY <2>4, UnstartedElements
    <3>4. \A k \in (answered + 2) .. Len(stream) : k \in (answered + 1) .. Len(stream)
      BY <1>t
    <3> HIDE DEF U, o
    <3>5. \A x : x \in N1 <=> x \in M /\ x \notin U
      <4>1. \A x : x \in U => \A k \in (answered + 2) .. Len(stream) : x # stream[k]
        BY <3>2, <3>4
      <4>2. \A x : x \in N1 <=>
              /\ x \in Nat
              /\ \/ \E b \in write_queue' : x \in CommandsOf(b)
                 \/ \E k \in (answered + 2) .. Len(stream) : x = stream[k]
        BY <1>f, <2>1, <2>5
      <4>3. \A x : (\E b \in write_queue' : x \in CommandsOf(b))
                     <=> x \notin U /\ \E b \in write_queue : x \in CommandsOf(b)
        BY <3>2
      <4>4. QED
        BY <2>7, <4>1, <4>2, <4>3
    <3>6. N1 = M \ U /\ M \cap U = U
      BY <3>2, <3>3, <3>5 DEF M
    <3>7. Cardinality(N1) = Cardinality(M) - Cardinality(U)
      BY <2>6, <3>6, FS_Difference
    <3>8. QED
      BY <1>2, <2>6, <3>1, <3>7
  <2>9. CASE ~leaves
    <3>1. write_queue' = write_queue /\ queued_commands' = queued_commands - 1
      BY <1>8, <2>9 DEF dispatchReply
    <3>2. \A x : x \in N1 <=> x \in M
      BY <1>f, <2>1, <2>5, <2>7, <3>1
    <3>3. N1 = M
      BY <3>2
    <3>4. QED
      BY <1>2, <2>6, <3>1, <3>3
  <2>10. QED
    BY <2>8, <2>9
<1>9. QED
  BY <1>4, <1>6, <1>7, <1>8

-----------------------------------------------------------------------------
(* The theorems *)

\* A channel object that was just constructed satisfies the invariant.
LEMMA InitInvariant == Init => IInv
<1> SUFFICES ASSUME Init
             PROVE  IInv
  OBVIOUS
<1>1. TypesButLoad
  <2>1. state \in States /\ run_pc \in RunPCs /\ reader_pc \in ReadPCs
    BY DEF Init, States, RunPCs, ReadPCs
  <2>2. pending_queue \in Seq(Pendings) /\ redis_in \in Seq(Int)
        /\ stream \in Seq(Nat) /\ inbound \in Seq(Int)
    BY DEF Init
  <2>3. partial \in Int
    BY DEF Init, Nothing
  <2>4. QED
    BY <2>1, <2>2, <2>3, Zenon DEF Init, TypesButLoad
<1>2. LifeCycle
  BY DEF Init, LifeCycle, Connected, isHealthy, isStopped
<1>3. NoLostWakeup
  BY DEF Init, NoLostWakeup
<1>4. CommandsOrdered /\ SlotsPartitioned /\ RepliesAligned
  BY DEF Init, CommandsOrdered, SlotsPartitioned, RepliesAligned, isHealthy
<1>5. WireBounds
  BY DEF Init, WireBounds
<1>6. \A o : UnstartedOf(write_queue, o) = {} /\ StartedOf(stream, pending_queue, o) = {}
  <2>1. \A o : UnstartedOf(write_queue, o) = {}
    BY UnstartedElements DEF Init
  <2>2. \A o : StartedOf(stream, pending_queue, o) = {}
    BY DEF Init, StartedOf
  <2>3. QED
    BY <2>1, <2>2
<1>7. OwedIsQueued
  BY <1>6 DEF Init, OwedIsQueued
<1>8. QueuedCountExact
  <2>1. QueuedIn(write_queue, stream, pending_queue) = {}
    BY <1>6 DEF QueuedIn
  <2>2. QED
    BY <2>1, FS_EmptySet DEF Init, QueuedCountExact
<1>9. QED
  BY <1>1, <1>2, <1>3, <1>4, <1>5, <1>7, <1>8 DEF IInv

\* Every operation, callback and coroutine step preserves the invariant.
LEMMA NextInvariant == IInv /\ [Next]_vars => IInv'
<1> SUFFICES ASSUME IInv, [Next]_vars
             PROVE  IInv'
  OBVIOUS
<1>1. /\ TypesButLoad /\ LifeCycle /\ NoLostWakeup /\ CommandsOrdered
      /\ SlotsPartitioned /\ WireBounds /\ RepliesAligned
      /\ OwedIsQueued /\ QueuedCountExact
  BY DEF IInv
<1>2. TypesButLoad' /\ LifeCycle' /\ NoLostWakeup' /\ CommandsOrdered'
  BY <1>1, TypesStep, LifeCycleStep, WakeupStep, CommandsOrderedStep
<1>3. SlotsPartitioned' /\ WireBounds' /\ RepliesAligned'
  BY <1>1, SlotsPartitionedStep, WireBoundsStep, RepliesAlignedStep
<1>4. OwedIsQueued'
  BY <1>1, <1>2, OwedIsQueuedStep
<1>5. QueuedCountExact'
  BY <1>1, <1>2, <1>3, QueuedCountStep
<1>6. QED
  BY <1>2, <1>3, <1>4, <1>5 DEF IInv

\* The inductive invariant holds of every behaviour of the channel.
THEOREM Invariance == Spec => []IInv
  BY InitInvariant, NextInvariant, PTL DEF Spec

\* The variables keep their types: queued_commands_ never wraps, and no batch
\* waits in pending_queue_ for zero replies.
THEOREM TypeCorrectness == Spec => []TypeOK
<1>1. IInv => TypeOK
  <2>1. SUFFICES ASSUME IInv
                 PROVE  queued_commands \in Nat
    BY DEF IInv, TypeOK, TypesButLoad
  <2>2. CASE isHealthy
    <3>1. /\ write_queue \in SUBSET Batches /\ stream \in Seq(Nat)
          /\ answered \in Nat /\ pending_queue \in Seq(Pendings)
      BY <2>1 DEF IInv, TypesButLoad
    <3>2. QueuedIn(write_queue, stream, pending_queue)
            = Numbers(write_queue, stream, answered)
      BY <2>1, <2>2, <3>1, QueuedNumbers DEF IInv, SlotsPartitioned
    <3>3. QED
      BY <2>1, <2>2, <3>2, NumbersFinite DEF IInv, QueuedCountExact
  <2>3. CASE ~isHealthy
    BY <2>1, <2>3 DEF IInv, LifeCycle
  <2>4. QED
    BY <2>2, <2>3
<1>2. QED
  BY <1>1, Invariance, PTL

\* No command is lost, duplicated or answered twice: submit(), detachOwner(),
\* dispatchReply() and failConnection() keep what each owner expects equal to
\* what the queues hold for it.
THEOREM NothingLost == Spec => []OwedIsQueued
<1>1. IInv => OwedIsQueued
  BY DEF IInv
<1>2. QED
  BY <1>1, Invariance, PTL

\* The load compared by BackendPool::select() is exact at all times.
THEOREM LoadExact == Spec => []QueuedCountExact
<1>1. IInv => QueuedCountExact
  BY DEF IInv
<1>2. QED
  BY <1>1, Invariance, PTL

\* writer_signal_ misses no wake-up.
THEOREM WakeupsKept == Spec => []NoLostWakeup
<1>1. IInv => NoLostWakeup
  BY DEF IInv
<1>2. QED
  BY <1>1, Invariance, PTL

\* run() closes the descriptor only when the reader is gone, and nobody is in
\* connectTo() or writeAll() on a closed one.
THEOREM DescriptorSafe == Spec => []DescriptorHeld
<1>1. IInv => DescriptorHeld
  BY DEF IInv, LifeCycle, DescriptorHeld, Connected
<1>2. QED
  BY <1>1, Invariance, PTL

\* After isStopped() the channel may be destroyed.
THEOREM StoppedSafe == Spec => []StoppedIsQuiet
<1>1. IInv => StoppedIsQuiet
  BY DEF IInv, LifeCycle, StoppedIsQuiet, Connected, isStopped, isHealthy
<1>2. QED
  BY <1>1, Invariance, PTL

\* dispatchReply() gives every reply to the owner of the command it answers,
\* as the answer to that owner's oldest command.
THEOREM RepliesMatched == Spec => []ReplyGoesToItsOwner
<1>1. IInv => ReplyGoesToItsOwner
  <2>1. SUFFICES ASSUME IInv, reader_pc = "cpu", isHealthy, redis_in # <<>>, ~spoiled
                 PROVE  /\ pending_queue # <<>>
                        /\ \A o \in Owners :
                             /\ Head(redis_in) \in owed[o] <=> o = Head(pending_queue).owner
                             /\ Head(redis_in) \in owed[o] =>
                                  \A c \in owed[o] : Head(redis_in) <= c
    BY DEF ReplyGoesToItsOwner
  <2>2. /\ TypesButLoad /\ CommandsOrdered /\ SlotsPartitioned /\ OwedIsQueued
        /\ WireBounds /\ RepliesAligned
    BY <2>1 DEF IInv
  <2>3. /\ redis_in \in Seq(Int) /\ stream \in Seq(Nat) /\ inbound \in Seq(Int)
        /\ answered \in Nat /\ emitted \in Nat /\ written \in Nat
        /\ pending_queue \in Seq(Pendings)
    BY <2>2 DEF TypesButLoad
  <2>4. Head(redis_in) = redis_in[1] /\ 1 \in 1 .. Len(redis_in)
    BY <2>1, <2>3
  <2>5. Head(redis_in) = stream[answered + 1]
    BY <2>1, <2>2, <2>4 DEF RepliesAligned
  <2>6. pending_queue # <<>>
    <3>1. emitted = answered + Len(redis_in) + Len(inbound) /\ emitted <= written
          /\ written <= Len(stream)
      BY <2>1, <2>2 DEF RepliesAligned, WireBounds
    <3>2. answered + 1 \in (answered + 1) .. Len(stream)
      BY <2>3, <2>4, <3>1
    <3>3. PICK i \in 1 .. Len(pending_queue) : answered + 1 \in SlotsOf(pending_queue[i])
      BY <2>1, <2>2, <3>2 DEF SlotsPartitioned, Partitioned
    <3>4. QED
      BY <3>3
  <2>7. QED
    BY <2>1, <2>2, <2>5, <2>6, NextIsOldest
<1>2. QED
  BY <1>1, Invariance, PTL

-----------------------------------------------------------------------------
(* The contract *)

\* Of a Ready channel the load counts a finite set of commands, which contains
\* what each owner expects, and that what it has not had started.
LEMMA OwedCounted ==
  ASSUME IInv, isHealthy
  PROVE  /\ IsFiniteSet(Numbers(write_queue, stream, answered))
         /\ queued_commands = Cardinality(Numbers(write_queue, stream, answered))
         /\ queued_commands \in Nat
         /\ \A o \in Owners :
              /\ owed[o] \subseteq Numbers(write_queue, stream, answered)
              /\ UnstartedOf(write_queue, o) \subseteq owed[o]
<1>t. /\ stream \in Seq(Nat) /\ answered \in Nat
      /\ write_queue \in SUBSET Batches /\ pending_queue \in Seq(Pendings)
  BY DEF IInv, TypesButLoad
<1>1. QueuedIn(write_queue, stream, pending_queue)
        = Numbers(write_queue, stream, answered)
  BY <1>t, QueuedNumbers DEF IInv, SlotsPartitioned
<1>2. /\ IsFiniteSet(Numbers(write_queue, stream, answered))
      /\ Cardinality(Numbers(write_queue, stream, answered)) \in Nat
  BY NumbersFinite DEF IInv
<1>3. queued_commands = Cardinality(Numbers(write_queue, stream, answered))
  BY <1>1 DEF IInv, QueuedCountExact
<1>4. ASSUME NEW o \in Owners
      PROVE  /\ owed[o] \subseteq QueuedIn(write_queue, stream, pending_queue)
             /\ UnstartedOf(write_queue, o) \subseteq owed[o]
  <2>1. owed[o] = UnstartedOf(write_queue, o) \cup StartedOf(stream, pending_queue, o)
    BY DEF IInv, OwedIsQueued
  <2>2. o \in Sinks
    BY DEF Sinks
  <2>3. QED
    BY <2>1, <2>2 DEF QueuedIn
<1>5. QED
  BY <1>1, <1>2, <1>3, <1>4

\* The contract counts as the channel does.
LEMMA SameCount ==
  ASSUME NEW s
  PROVE  Contract!Cardinality(s) = Cardinality(s)
BY DEF Contract!Cardinality, Cardinality

\* Taking a reply removes the oldest command, and that one only.
LEMMA OldestTaken ==
  ASSUME NEW s \in SUBSET Nat
  PROVE  AfterReply(s) = s \ Contract!Oldest(s)
<1>1. ASSUME NEW x \in s
      PROVE  (\E y \in s : y < x) <=> ~(\A y \in s : x <= y)
  <2>1. \A y \in s : y < x <=> ~(x <= y)
    OBVIOUS
  <2>2. QED
    BY <2>1, Zenon
<1>2. QED
  BY <1>1, Zenon DEF AfterReply, Contract!Oldest

\* detachOwner() is the contract's Leave.
LEMMA DetachLeaves ==
  ASSUME IInv, NEW o \in Owners, detachOwner(o)
  PROVE  Contract!Leave(o)
<1> DEFINE U == UnstartedOf(write_queue, o)
<1>1. /\ owed' = [owed EXCEPT ![o] = {}] /\ accepted' = accepted
      /\ state' = state
      /\ queued_commands' = queued_commands - Cardinality(U)
  BY DEF detachOwner
<1>2. /\ queued_commands \in Nat /\ IsFiniteSet(owed[o]) /\ U \subseteq owed[o]
  <2>1. CASE isHealthy
    BY <2>1, OwedCounted, FS_Subset
  <2>2. CASE ~isHealthy
    <3>1. queued_commands = 0 /\ write_queue = {} /\ owed[o] = {}
      BY <2>2 DEF IInv, LifeCycle
    <3>2. U = {}
      BY <3>1, UnstartedElements
    <3>3. QED
      BY <3>1, <3>2, FS_EmptySet
  <2>3. QED
    BY <2>1, <2>2
<1> HIDE DEF U
<1>3. /\ Cardinality(U) \in Nat /\ Cardinality(owed[o]) \in Nat
      /\ Cardinality(U) <= Cardinality(owed[o])
  <2>1. IsFiniteSet(U) /\ Cardinality(U) <= Cardinality(owed[o])
    BY <1>2, FS_Subset
  <2>2. QED
    BY <1>2, <2>1, FS_CardinalityType
<1>4. queued_commands' \in (queued_commands - Cardinality(owed[o])) .. queued_commands
  BY <1>1, <1>2, <1>3
<1>5. QED
  BY <1>1, <1>4, SameCount DEF Contract!Leave, isHealthy

\* dispatchReply() answers the oldest command of a live owner, which may leave
\* from its callback, or one that nobody expects.
LEMMA DispatchAnswers ==
  ASSUME IInv, NEW leaves \in BOOLEAN, dispatchReply(leaves)
  PROVE  Contract!Next
<1> DEFINE o == Head(pending_queue).owner
           c == stream[answered + 1]
           N == Numbers(write_queue, stream, answered)
<1>1. TypesButLoad
  BY DEF IInv
<1>2. isHealthy /\ pending_queue # <<>> /\ pending_queue \in Seq(Pendings)
  BY <1>1, DispatchEffect
<1>3. o \in Owners \/ o = NoOwner
  BY <1>2, EntryTypes DEF Sinks
<1>4. /\ answered + 1 \in 1 .. Len(stream)
      /\ \A b \in write_queue : c < b.first
      /\ \A p \in Owners : /\ c \in owed[p] <=> p = o
                           /\ \A d \in owed[p] : c <= d
  BY <1>2, NextIsOldest DEF IInv
<1>5. /\ IsFiniteSet(N) /\ queued_commands = Cardinality(N) /\ queued_commands \in Nat
      /\ \A p \in Owners : /\ owed[p] \subseteq N
                           /\ UnstartedOf(write_queue, p) \subseteq owed[p]
  BY <1>2, OwedCounted
<1>6. state' = state /\ accepted' = accepted
  BY DEF dispatchReply, ReplyParsed
<1>7. owed \in [Owners -> SUBSET Nat]
  BY <1>1 DEF TypesButLoad
<1>8. c \in N
  <2>1. /\ stream \in Seq(Nat) /\ answered \in Nat
    BY <1>1 DEF TypesButLoad
  <2>2. c \in Nat /\ answered + 1 \in (answered + 1) .. Len(stream)
    BY <1>4, <2>1
  <2>3. QED
    BY <2>2 DEF Numbers
<1> HIDE DEF c, N
<1>9. CASE leaves
  <2> DEFINE U == UnstartedOf(write_queue, o)
  <2>1. /\ o \in Owners /\ owed' = [owed EXCEPT ![o] = {}]
        /\ queued_commands' = queued_commands - 1 - Cardinality(U)
    BY <1>3, <1>9 DEF dispatchReply
  <2>2. c \notin U
    <3>1. ASSUME NEW b \in write_queue, c \in CommandsOf(b)
          PROVE  FALSE
      <4>1. PICK f \in Nat, m \in Nat : f = b.first /\ m = b.command_count
        BY <1>1, Zenon DEF TypesButLoad, Batches
      <4>2. c \in f .. (f + m - 1)
        BY <3>1, <4>1 DEF CommandsOf
      <4>3. c < f
        BY <1>4, <4>1
      <4>4. QED
        BY <4>2, <4>3
    <3>2. QED
      BY <3>1, UnstartedElements
  <2>3. U \subseteq owed[o] \ {c} /\ c \in owed[o] /\ IsFiniteSet(owed[o])
    BY <1>4, <1>5, <2>1, <2>2, FS_Subset
  <2> HIDE DEF U, o
  <2>4. /\ IsFiniteSet(owed[o] \ {c})
        /\ Cardinality(owed[o] \ {c}) = Cardinality(owed[o]) - 1
    BY <2>3, FS_RemoveElement
  <2>5. IsFiniteSet(U) /\ Cardinality(U) <= Cardinality(owed[o] \ {c})
    BY <2>3, <2>4, FS_Subset
  <2>6. Cardinality(U) \in Nat /\ Cardinality(owed[o]) \in Nat
    BY <2>3, <2>5, FS_CardinalityType
  <2>7. queued_commands' \in (queued_commands - Cardinality(owed[o])) .. queued_commands
    BY <1>5, <2>1, <2>4, <2>5, <2>6
  <2>8. Contract!Leave(o)
    BY <1>6, <2>1, <2>7, SameCount DEF Contract!Leave, isHealthy
  <2>9. QED
    BY <2>1, <2>8 DEF Contract!Next
<1>10. CASE ~leaves /\ o \in Owners
  <2>1. /\ queued_commands' = queued_commands - 1
        /\ owed' = [p \in Owners |-> IF p = o THEN AfterReply(owed[p]) ELSE owed[p]]
    BY <1>10 DEF dispatchReply
  <2>2. c \in owed[o] /\ owed[o] \in SUBSET Nat
    BY <1>4, <1>7, <1>10
  <2> HIDE DEF o
  <2>3. AfterReply(owed[o]) = owed[o] \ Contract!Oldest(owed[o])
    BY <2>2, OldestTaken
  <2>4. owed' = [owed EXCEPT ![o] = @ \ Contract!Oldest(@)]
    BY <1>7, <1>10, <2>1, <2>3, Zenon
  <2>5. Contract!Answer(o)
    BY <1>6, <2>1, <2>2, <2>4, Zenon DEF Contract!Answer, isHealthy
  <2>6. QED
    BY <1>10, <2>5 DEF Contract!Next
<1>11. CASE ~leaves /\ o = NoOwner
  <2>1. queued_commands' = queued_commands - 1
    BY <1>11 DEF dispatchReply
  <2>2. owed' = owed
    <3>1. owed' = [p \in Owners |-> owed[p]]
      BY <1>11, OwnersAssumption DEF dispatchReply
    <3>2. QED
      BY <1>7, <3>1
  <2>3. \A p \in Owners : c \notin owed[p]
    BY <1>4, <1>11, OwnersAssumption
  <2>4. Contract!Owing \subseteq N \ {c}
    BY <1>5, <2>3 DEF Contract!Owing
  <2>5. IsFiniteSet(N \ {c}) /\ Cardinality(N \ {c}) = Cardinality(N) - 1
    BY <1>5, <1>8, FS_RemoveElement
  <2>6. IsFiniteSet(Contract!Owing)
        /\ Cardinality(Contract!Owing) <= Cardinality(N \ {c})
    BY <2>4, <2>5, FS_Subset
  <2>7. Cardinality(Contract!Owing) \in Nat
    BY <2>6, FS_CardinalityType
  <2>8. queued_commands > Cardinality(Contract!Owing)
    BY <1>5, <2>5, <2>6, <2>7
  <2>9. Contract!AnswerNobody
    BY <1>6, <2>1, <2>2, <2>8, SameCount DEF Contract!AnswerNobody, isHealthy
  <2>10. QED
    BY <2>9 DEF Contract!Next
<1>12. QED
  BY <1>3, <1>9, <1>10, <1>11

\* submit() is the contract's Submit.
LEMMA SubmitSubmits ==
  ASSUME IInv, NEW o \in Owners, NEW n \in 0 .. MaxBatch, submit(o, n)
  PROVE  Contract!Submit(o)
<1>1. accepted \in Nat /\ n \in Nat
  BY BoundsAssumption DEF IInv, TypesButLoad
<1>2. accepted' = accepted + n /\ n > 0
  BY DEF submit
<1>3. accepted' > accepted /\ accepted' - accepted = n
  BY <1>1, <1>2
<1>4. /\ isHealthy /\ isHealthy' = isHealthy
      /\ queued_commands' = queued_commands + n
      /\ owed' = [owed EXCEPT ![o] = @ \cup ((accepted + 1) .. accepted')]
  BY <1>2 DEF submit, isHealthy
<1>5. QED
  BY <1>3, <1>4 DEF Contract!Submit

\* failConnection() is the contract's Fail, or does nothing.
LEMMA FailFails ==
  ASSUME IInv, failConnection, accepted' = accepted, owed' \in [Owners -> SUBSET Nat]
  PROVE  Contract!Fail \/ UNCHANGED Contract!vars
<1>1. CASE isHealthy
  <2>1. /\ state' # "Ready" /\ queued_commands' = 0
        /\ \A o \in Owners : owed'[o] = {}
    BY FailEffect DEF IInv
  <2>2. owed' = [o \in Owners |-> {}]
    BY <2>1
  <2>3. QED
    BY <1>1, <2>1, <2>2 DEF Contract!Fail, isHealthy
<1>2. CASE ~isHealthy
  BY <1>2 DEF failConnection, queues, Contract!vars, isHealthy
<1>3. QED
  BY <1>1, <1>2

\* Every step of the channel is one the contract allows, or invisible to it.
LEMMA ContractStep ==
  ASSUME IInv, IInv', [Next]_vars
  PROVE  [Contract!Next]_(Contract!vars)
<1>t. owed' \in [Owners -> SUBSET Nat]
  BY DEF IInv, TypesButLoad
<1>1. CASE start \/ RunLoop \/ ConnectFails \/ WriterJoins
  <2>1. UNCHANGED <<queued_commands, owed, accepted>>
    BY <1>1 DEF start, RunLoop, ConnectFails, WriterJoins, queues
  <2>2. ~isHealthy /\ state' # "Ready"
    BY <1>1, Zenon DEF IInv, LifeCycle, Connected, start, RunLoop, ConnectFails, WriterJoins,
                Teardown, isHealthy, isStopped
  <2>3. QED
    BY <2>1, <2>2 DEF Contract!vars, isHealthy
<1>2. CASE stop
  <2>1. CASE isHealthy
    BY <1>t, <1>2, <2>1, FailFails DEF stop, Contract!Next
  <2>2. CASE ~isHealthy
    BY <1>2, <2>2 DEF stop, queues, Contract!vars, isHealthy
  <2>3. QED
    BY <2>1, <2>2
<1>3. CASE ConnectSucceeds
  <2>1. ~isHealthy /\ state' = "Ready" /\ UNCHANGED <<queued_commands, owed, accepted>>
    BY <1>3, Zenon DEF IInv, LifeCycle, Connected, ConnectSucceeds, queues
  <2>2. Contract!Recover
    BY <2>1 DEF Contract!Recover, isHealthy
  <2>3. QED
    BY <2>2 DEF Contract!Next
<1>4. CASE WriteFails \/ ReadFails \/ ParserFails \/ UnexpectedReply
  <2>1. failConnection /\ accepted' = accepted
    BY <1>4 DEF WriteFails, ReadFails, ParserFails, UnexpectedReply, ReplyParsed
  <2>2. QED
    BY <1>t, <2>1, FailFails DEF Contract!Next
<1>5. CASE WriterWaits \/ WriterWakes \/ Writes \/ WriterStarts
  BY <1>5 DEF WriterWaits, WriterWakes, Writes, WriterStarts, queues, Contract!vars,
              isHealthy
<1>6. CASE ReaderStarts \/ ParserNeedsMore \/ ReaderEnds
  BY <1>6 DEF ReaderStarts, ParserNeedsMore, ReaderEnds, queues, Contract!vars, isHealthy
<1>7. ASSUME NEW k \in 0 .. Len(inbound), NEW half \in BOOLEAN, ReadSome(k, half)
      PROVE  UNCHANGED Contract!vars
  BY <1>7 DEF ReadSome, queues, Contract!vars, isHealthy
<1>8. CASE RedisAnswers \/ RedisSpoils
  BY <1>8 DEF RedisAnswers, RedisSpoils, queues, Contract!vars, isHealthy
<1>9. CASE UNCHANGED vars
  BY <1>9 DEF vars, queues, Contract!vars, isHealthy
<1>10. ASSUME NEW o \in Owners, NEW n \in 0 .. MaxBatch, submit(o, n)
       PROVE  Contract!Next
  BY <1>10, SubmitSubmits DEF Contract!Next
<1>11. ASSUME NEW o \in Owners, detachOwner(o)
       PROVE  Contract!Next
  BY <1>11, DetachLeaves DEF Contract!Next
<1>12. ASSUME NEW leaves \in BOOLEAN, dispatchReply(leaves)
       PROVE  Contract!Next
  BY <1>12, DispatchAnswers
<1>13. QED
  BY <1>1, <1>2, <1>3, <1>4, <1>5, <1>6, <1>7, <1>8, <1>9, <1>10, <1>11, <1>12
  DEF Next, RunStep, ReaderStep

\* The channel implements the contract: whatever the interleaving of callers,
\* coroutines and Redis, a caller sees only steps BackendContract allows.
THEOREM ContractKept == Spec => KeepsContract
<1>1. Init => Contract!Init
  BY DEF Init, Contract!Init, isHealthy
<1>2. IInv /\ IInv' /\ [Next]_vars => [Contract!Next]_(Contract!vars)
  BY ContractStep
<1>3. QED
  BY <1>1, <1>2, Invariance, PTL DEF Spec, KeepsContract, Contract!Spec

=============================================================================
