------------------------ MODULE SessionReaderProofs -------------------------
(***************************************************************************)
(* The inductive invariant of ClientSession, for any sessions, channels,   *)
(* scripts, budget and batch size, the facts about the operators the model *)
(* is built from, and the proof that the reader's steps keep it.           *)
(***************************************************************************)
EXTENDS ClientSession, SequenceTheorems, FiniteSetTheorems, WellFoundedInduction, TLAPS

\* What abort() assigns.
StateTypes ==
  /\ state \in [Sessions -> {"Open", "Draining", "Aborted"}]
  /\ current \in [Sessions -> Channels \cup {NoChannel}]
  /\ pending \in [Sessions -> Nat]
  /\ client_out \in [Sessions -> Seq(Nat)]
  /\ output_signal \in [Sessions -> BOOLEAN]
  /\ reply_signal \in [Sessions -> BOOLEAN]

OwedTypes ==
  /\ owed \in [Channels -> SUBSET (Sessions \X Nat)]
  /\ \A c \in Channels : IsFiniteSet(owed[c])
  /\ orphans \in [Channels -> Nat]

SessionTypes ==
  /\ script \in [Sessions -> Scripts]
  /\ got \in [Sessions -> Nat] /\ parsed \in [Sessions -> Nat]
  /\ \A s \in Sessions : parsed[s] <= got[s] /\ got[s] <= Len(script[s])
  /\ final_error \in [Sessions -> Nat]
  /\ chunk \in [Sessions -> Seq(Nat)]
  /\ received \in [Sessions -> Seq(Nat)]
  /\ reader_pc \in [Sessions -> {"ready", "cpu", "rej", "reply", "read", "exit", "done"}]
  /\ writer_pc \in [Sessions -> {"ready", "cpu", "wait", "write", "exit", "done"}]
  /\ StateTypes

ChannelTypes == up \in [Channels -> BOOLEAN] /\ OwedTypes

Types == SessionTypes /\ ChannelTypes

\* seq answers the requests after n, in order.
From(seq, n) == \A k \in DOMAIN seq : seq[k] = n + k

\* What was sent, is being written, and waits to be written: in order.
Numbered(s) ==
  /\ From(received[s], 0)
  /\ From(chunk[s], Len(received[s]))
  /\ From(client_out[s], Len(received[s]) + Len(chunk[s]))

Sent(s) == Len(received[s]) + Len(chunk[s]) + Len(client_out[s])

\* The requests that the channels have still to answer are the next ones, all
\* on current_backend_, which is up.
Due(s) == {<<s, i>> : i \in (Sent(s) + 1) .. (Sent(s) + pending[s])}

Outstanding(s) ==
  /\ \A c \in Channels : OwedTo(c, s) = IF c = current[s] THEN Due(s) ELSE {}
  /\ (current[s] = NoChannel) <=> (pending[s] = 0)
  /\ current[s] # NoChannel => up[current[s]]

\* A refused request that is not answered yet.
Refused(s) == IF reader_pc[s] \in {"rej", "reply"} THEN 1 ELSE 0

\* Every request consumed from client_in_ is answered or outstanding, or is
\* the one final_error_ is about.
Accounted(s) ==
  /\ state[s] = "Open" => Sent(s) + pending[s] + Refused(s) = parsed[s]
  /\ state[s] = "Draining" =>
       \/ /\ final_error[s] = parsed[s] + 1 /\ parsed[s] < got[s]
          /\ Sent(s) + pending[s] = parsed[s]
       \/ /\ final_error[s] = 0 /\ parsed[s] = got[s]
          /\ Sent(s) + pending[s] = parsed[s]
       \/ /\ final_error[s] = 0 /\ parsed[s] < got[s]
          /\ pending[s] = 0 /\ Sent(s) = parsed[s] + 1
  /\ state[s] = "Aborted" => pending[s] = 0 /\ client_out[s] = <<>>

\* writeAll() has something to write, and writerLoop() ends for a reason.
Writing(s) ==
  /\ writer_pc[s] = "write" <=> chunk[s] # <<>>
  /\ writer_pc[s] \in {"exit", "done"} =>
       \/ state[s] = "Aborted"
       \/ /\ state[s] = "Draining" /\ pending[s] = 0
          /\ client_out[s] = <<>> /\ final_error[s] = 0

SessionInv(s) == Numbered(s) /\ Outstanding(s) /\ Accounted(s) /\ Writing(s)

\* The inductive invariant.
IInv == Types /\ \A s \in Sessions : SessionInv(s)

-----------------------------------------------------------------------------
(* The operators the session is built from *)

\* A set of naturals that is not empty has a least element.
LEMMA LeastExists ==
  ASSUME NEW T \in SUBSET Nat, T # {}
  PROVE  \E x \in T : \A y \in T : x <= y
<1>1. PICK x \in T : \A y \in T : ~ (<<y, x>> \in OpToRel(<, Nat))
  BY NatLessThanWellFounded, WFMin, Zenon
<1>2. \A y \in T : ~ (y < x)
  BY <1>1, Zenon DEF OpToRel
<1> QED BY <1>2

\* Max of a set of naturals that is bounded and not empty is its greatest
\* element: the loop of peekFrame() and validate() has a last valid request.
LEMMA MaxIsGreatest ==
  ASSUME NEW T \in SUBSET Nat, NEW b \in Nat, T # {}, \A x \in T : x <= b
  PROVE  Max(T) \in T /\ \A y \in T : Max(T) >= y
<1> DEFINE D == {b - x : x \in T}
<1>1. D \in SUBSET Nat /\ D # {}
  <2>1. \A x \in T : x \in Nat /\ b - x \in Nat  OBVIOUS
  <2>2. D \in SUBSET Nat  BY <2>1
  <2>3. PICK x : x \in T  BY Zenon
  <2>4. b - x \in D  BY <2>3, Zenon
  <2> QED BY <2>2, <2>4, Zenon
<1>2. PICK d \in D : \A e \in D : d <= e
  BY <1>1, LeastExists, Zenon
<1>3. PICK m \in T : d = b - m
  BY <1>2
<1>4. \A y \in T : m >= y
  <2> TAKE y \in T
  <2>1. b - y \in D  BY Zenon
  <2>2. b - m <= b - y  BY <1>2, <1>3, <2>1, Zenon
  <2>3. m \in Nat /\ y \in Nat  OBVIOUS
  <2> QED BY <2>2, <2>3
<1> QED BY <1>4, Zenon DEF Max

\* submitBatch() takes a batch of at least no request, all of them read.
LEMMA LastValidBounds ==
  ASSUME SessionTypes, NEW s \in Sessions
  PROVE  LastValid(s) \in parsed[s] .. got[s]
<1> DEFINE T == {m \in parsed[s] .. got[s] :
                   /\ m - parsed[s] <= Budget
                   /\ \A i \in (parsed[s] + 1) .. m : script[s][i] = "cmd"}
<1>1. parsed[s] \in Nat /\ got[s] \in Nat /\ parsed[s] <= got[s]
  BY DEF SessionTypes, StateTypes
<1>2. T \in SUBSET Nat /\ \A x \in T : x <= got[s]
  BY <1>1
<1>3. parsed[s] \in T
  BY <1>1, BudgetAssumption
<1>4. Max(T) \in T
  <2> HIDE DEF T
  <2> QED BY <1>1, <1>2, <1>3, MaxIsGreatest, Zenon
<1> QED BY <1>4 DEF LastValid

\* FirstLeastLoaded is one of the healthy channels when there is one.
LEMMA FirstLeastLoadedIsHealthy ==
  ASSUME NEW u \in [Channels -> BOOLEAN], NEW load \in [Channels -> Nat],
         Healthy(u) # {}
  PROVE  FirstLeastLoaded(u, load) \in Healthy(u)
<1>1. Healthy(u) \subseteq Channels /\ Channels \subseteq Nat
  BY ChannelsAssumption DEF Healthy, Channels
<1> DEFINE Loads == {load[c] : c \in Healthy(u)}
<1>2. PICK least \in Loads : \A l \in Loads : least <= l
  <2>1. Loads \in SUBSET Nat /\ Loads # {}
    BY <1>1, Zenon
  <2> QED BY <2>1, LeastExists, Zenon
<1> DEFINE Candidates == {c \in Healthy(u) : load[c] = least}
<1>3. PICK c \in Candidates : \A d \in Candidates : c <= d
  <2>1. Candidates \in SUBSET Nat /\ Candidates # {}
    BY <1>1, <1>2, Zenon
  <2> QED BY <2>1, LeastExists, Zenon
<1>4. \A d \in Healthy(u) : load[c] < load[d] \/ (load[c] = load[d] /\ c <= d)
  <2> TAKE d \in Healthy(u)
  <2>1. least <= load[d] /\ load[d] \in Nat /\ least \in Nat /\ load[c] = least
    BY <1>1, <1>2, Zenon
  <2>2. CASE load[d] = least
    <3>1. d \in Candidates  BY <2>2
    <3> QED BY <1>3, <2>1, <2>2, <3>1
  <2>3. CASE load[d] # least  BY <2>1, <2>3
  <2> QED BY <2>2, <2>3
<1> QED BY <1>4 DEF FirstLeastLoaded

\* The n requests of s after number a, as a channel holds them.
Batch(s, a, n) == {<<s, i>> : i \in (a + 1) .. (a + n)}

\* A batch of n requests.
LEMMA BatchIsFinite ==
  ASSUME NEW s, NEW a \in Nat, NEW n \in Nat
  PROVE  IsFiniteSet(Batch(s, a, n)) /\ Cardinality(Batch(s, a, n)) = n
<1>1. IsFiniteSet((a + 1) .. (a + n)) /\ Cardinality((a + 1) .. (a + n)) = n
  BY FS_Interval
<1>2. IsFiniteSet({s}) /\ Cardinality({s}) = 1
  BY FS_Singleton, Zenon
<1>3. {<<s, i>> : i \in (a + 1) .. (a + n)} = {s} \X ((a + 1) .. (a + n))
  OBVIOUS
<1>4. /\ IsFiniteSet({s} \X ((a + 1) .. (a + n)))
      /\ Cardinality({s} \X ((a + 1) .. (a + n))) = 1 * n
  BY <1>1, <1>2, FS_Product
<1>5. 1 * n = n
  OBVIOUS
<1> QED BY <1>3, <1>4, <1>5, Zenon DEF Batch

-----------------------------------------------------------------------------
(* What the channels owe *)

\* select() gives a healthy channel or none, and a session's own channel when
\* it has one that is up.
LEMMA SelectedIsUp ==
  ASSUME ChannelTypes, NEW c \in Channels \cup {NoChannel},
         NEW d, d = select(c, up, Load), d # NoChannel
  PROVE  d \in Channels /\ up[d] /\ (c # NoChannel => d = c)
<1>1. Load \in [Channels -> Nat]
  BY FS_CardinalityType DEF ChannelTypes, OwedTypes, Load
<1>2. CASE c # NoChannel
  BY <1>2 DEF select, ChannelTypes, OwedTypes
<1>3. CASE c = NoChannel
  <2>1. Healthy(up) # {} /\ d = FirstLeastLoaded(up, Load)
    BY <1>3, Zenon DEF select
  <2>2. d \in Healthy(up)
    BY <1>1, <2>1, FirstLeastLoadedIsHealthy DEF ChannelTypes, OwedTypes
  <2> QED BY <1>3, <2>2 DEF Healthy, ChannelTypes, OwedTypes
<1> QED BY <1>2, <1>3

\* detachOwner() keeps what the channels owe to other sessions, unless the
\* channel failed.
LEMMA DetachedOwed ==
  ASSUME ChannelTypes, NEW S, NEW failed, detachOwner(S, failed)
  PROVE  /\ OwedTypes'
         /\ \A c \in Channels : \A s : OwedTo(c, s)' =
              IF c \in failed \/ s \in S THEN {} ELSE OwedTo(c, s)
<1>1. owed' = [c \in Channels |->
                 IF c \in failed THEN {} ELSE {p \in owed[c] : p[1] \notin S}]
  BY DEF detachOwner
<1>2. owed' \in [Channels -> SUBSET (Sessions \X Nat)]
  BY <1>1 DEF ChannelTypes, OwedTypes
<1>3. ASSUME NEW c \in Channels PROVE IsFiniteSet(owed'[c])
  <2>1. owed'[c] \in SUBSET owed[c]
    BY <1>1
  <2> QED BY <2>1, FS_Subset, Zenon DEF ChannelTypes, OwedTypes
<1>4. orphans' \in [Channels -> Nat]
  <2> DEFINE all == UNION {owed[c] : c \in Channels}
  <2>1. IsFiniteSet({owed[c] : c \in Channels})
    <3>1. IsFiniteSet(Channels)
      BY ChannelsAssumption, FS_Interval DEF Channels
    <3>2. owed \in Surjection(Channels, {owed[c] : c \in Channels})
      BY DEF Surjection, ChannelTypes, OwedTypes
    <3> QED BY <3>1, <3>2, FS_Surjection, Zenon
  <2>2. Cardinality(all) \in Nat
    <3>1. \A T \in {owed[c] : c \in Channels} : IsFiniteSet(T)
      BY DEF ChannelTypes, OwedTypes
    <3>2. IsFiniteSet(all)
      BY <2>1, <3>1, FS_UNION, Zenon
    <3> QED BY <3>2, FS_CardinalityType, Zenon
  <2>3. PICK started \in [Channels -> 0 .. Cardinality(all)] :
          orphans' = [c \in Channels |-> IF c \in failed THEN 0
                                         ELSE orphans[c] + started[c]]
    BY Zenon DEF detachOwner
  <2> HIDE DEF all
  <2>4. \A c \in Channels : started[c] \in Nat /\ orphans[c] \in Nat
    BY <2>2, <2>3 DEF ChannelTypes, OwedTypes
  <2> QED BY <2>3, <2>4
<1>5. ASSUME NEW c \in Channels, NEW s
      PROVE  OwedTo(c, s)' = IF c \in failed \/ s \in S THEN {} ELSE OwedTo(c, s)
  <2>1. OwedTo(c, s)' = {p \in owed'[c] : p[1] = s}
    BY DEF OwedTo
  <2> QED BY <1>1, <2>1 DEF OwedTo
<1>6. OwedTypes'
  BY <1>2, <1>3, <1>4 DEF OwedTypes
<1> QED BY <1>5, <1>6

-----------------------------------------------------------------------------
(* Steps that do not concern a session *)

\* Nothing that the invariant says of t changes, its writer's place aside.
Untouched(t) ==
  /\ received'[t] = received[t] /\ chunk'[t] = chunk[t]
  /\ client_out'[t] = client_out[t] /\ final_error'[t] = final_error[t]
  /\ parsed'[t] = parsed[t] /\ (state[t] # "Open" => got'[t] = got[t])
  /\ state'[t] = state[t] /\ (state[t] = "Open" => Refused(t)' = Refused(t))
  /\ current'[t] = current[t] /\ pending'[t] = pending[t]
  /\ \A c \in Channels : OwedTo(c, t)' = OwedTo(c, t)
  /\ current[t] # NoChannel => up'[current[t]]

\* A step that does not touch a session keeps what holds of it.
LEMMA Frame ==
  ASSUME NEW t \in Sessions, SessionInv(t), Untouched(t)
  PROVE  /\ Numbered(t)' /\ Outstanding(t)' /\ Accounted(t)'
         /\ writer_pc'[t] = writer_pc[t] => SessionInv(t)'
<1> USE DEF Untouched, SessionInv
<1>1. Numbered(t)'  BY Zenon DEF Numbered
<1>2. Sent(t)' = Sent(t) /\ Due(t)' = Due(t)  BY DEF Sent, Due
<1>3. Outstanding(t)'  BY <1>2 DEF Outstanding
<1>4. Accounted(t)'  BY <1>2 DEF Accounted
<1>5. writer_pc'[t] = writer_pc[t] => Writing(t)'  BY DEF Writing
<1> QED BY <1>1, <1>3, <1>4, <1>5

\* A channel that is left alone keeps its types.
LEMMA ChannelFrame ==
  ASSUME ChannelTypes, UNCHANGED channels
  PROVE  ChannelTypes' /\ \A c \in Channels : \A t : OwedTo(c, t)' = OwedTo(c, t)
BY DEF ChannelTypes, OwedTypes, channels, OwedTo

\* Before the first step no request was read and nothing is owed.
LEMMA InitInvariant == Init => IInv
<1> SUFFICES ASSUME Init PROVE IInv
  OBVIOUS
<1>1. SessionTypes
  <2>1. \A s \in Sessions : Len(script[s]) \in Nat
    BY ScriptsAssumption DEF Init
  <2> QED BY <2>1 DEF Init, SessionTypes, StateTypes
<1>2. ChannelTypes
  BY FS_EmptySet DEF Init, ChannelTypes, OwedTypes
<1>3. ASSUME NEW s \in Sessions PROVE SessionInv(s)
  <2>1. /\ received[s] = <<>> /\ chunk[s] = <<>> /\ client_out[s] = <<>>
        /\ pending[s] = 0 /\ current[s] = NoChannel /\ parsed[s] = 0
        /\ state[s] = "Open" /\ reader_pc[s] = "ready" /\ writer_pc[s] = "ready"
        /\ \A c \in Channels : OwedTo(c, s) = {}
    BY DEF Init, OwedTo
  <2>2. Numbered(s) /\ Sent(s) = 0  BY <2>1 DEF Numbered, From, Sent
  <2>3. Outstanding(s)  BY <2>1, ChannelsAssumption DEF Outstanding, NoChannel, Channels
  <2>4. Accounted(s)  BY <2>1, <2>2 DEF Accounted, Refused
  <2>5. Writing(s)  BY <2>1 DEF Writing
  <2> QED BY <2>2, <2>3, <2>4, <2>5 DEF SessionInv
<1> QED BY <1>1, <1>2, <1>3 DEF IInv, Types

-----------------------------------------------------------------------------
(* abort() *)

\* A session that a channel owes nothing has no channel, and the other way
\* round: current_backend_ is set while replies are pending.
LEMMA OwedOnCurrent ==
  ASSUME Types, NEW t \in Sessions, SessionInv(t)
  PROVE  /\ current[t] # NoChannel => OwedTo(current[t], t) # {}
         /\ pending[t] = 0 => \A c \in Channels : OwedTo(c, t) = {}
         /\ Sent(t) \in Nat
<1>1. Sent(t) \in Nat /\ pending[t] \in Nat
  BY DEF Types, SessionTypes, StateTypes, Sent
<1>2. pending[t] = 0 => Due(t) = {}
  BY <1>1 DEF Due
<1>3. ASSUME current[t] # NoChannel PROVE OwedTo(current[t], t) # {}
  <2>1. pending[t] # 0 /\ current[t] \in Channels
    BY <1>3 DEF SessionInv, Outstanding, Types, SessionTypes, StateTypes
  <2>2. Sent(t) + 1 \in (Sent(t) + 1) .. (Sent(t) + pending[t])
    BY <1>1, <2>1
  <2>3. <<t, Sent(t) + 1>> \in Due(t)
    BY <2>2 DEF Due
  <2> QED BY <2>1, <2>3 DEF SessionInv, Outstanding
<1> QED BY <1>1, <1>2, <1>3 DEF SessionInv, Outstanding

\* Session t aborted, or did so before: no channel owes it anything.
LetGo(t) ==
  /\ state'[t] = "Aborted" /\ current'[t] = NoChannel
  /\ pending'[t] = 0 /\ client_out'[t] = <<>>
  /\ \A c \in Channels : OwedTo(c, t)' = {}

Spared(t) ==
  /\ state'[t] = state[t] /\ current'[t] = current[t]
  /\ pending'[t] = pending[t] /\ client_out'[t] = client_out[t]
  /\ \A c \in Channels : OwedTo(c, t)' = OwedTo(c, t)

\* abort() of S, with everybody told whom the failed channels owed something:
\* the sessions of S are detached everywhere, the others see no difference.
LEMMA AbortEffect ==
  ASSUME IInv, NEW S \in SUBSET Sessions, NEW failed \in SUBSET Channels,
         abort(S, failed), \A c \in failed : \A p \in owed[c] : p[1] \in S
  PROVE  /\ OwedTypes' /\ StateTypes'
         /\ \A t \in Sessions : IF t \in S THEN LetGo(t)
                                ELSE Spared(t) /\ current[t] \notin failed
<1> DEFINE now == {s \in S : state[s] # "Aborted"}
<1>1. /\ state' = [s \in Sessions |-> IF s \in now THEN "Aborted" ELSE state[s]]
      /\ current' = [s \in Sessions |-> IF s \in now THEN NoChannel ELSE current[s]]
      /\ pending' = [s \in Sessions |-> IF s \in now THEN 0 ELSE pending[s]]
      /\ client_out' = [s \in Sessions |-> IF s \in now THEN <<>> ELSE client_out[s]]
      /\ output_signal' = [s \in Sessions |-> IF s \in now THEN TRUE ELSE output_signal[s]]
      /\ reply_signal' = [s \in Sessions |-> IF s \in now THEN TRUE ELSE reply_signal[s]]
      /\ detachOwner(now, failed)
  BY DEF abort
<1>2. /\ OwedTypes'
      /\ \A c \in Channels : \A s : OwedTo(c, s)' =
           IF c \in failed \/ s \in now THEN {} ELSE OwedTo(c, s)
  <2> HIDE DEF now
  <2> QED BY <1>1, DetachedOwed DEF IInv, Types
<1>3. ASSUME NEW t \in S PROVE LetGo(t)
  <2> USE DEF LetGo
  <2>1. CASE t \in now
    BY <1>1, <1>2, <2>1
  <2>2. CASE t \notin now
    <3>1. state[t] = "Aborted"
      BY <2>2
    <3>2. pending[t] = 0 /\ client_out[t] = <<>> /\ current[t] = NoChannel
      BY <3>1 DEF IInv, SessionInv, Accounted, Outstanding
    <3>3. \A c \in Channels : OwedTo(c, t) = {}
      BY <3>2, OwedOnCurrent DEF IInv
    <3> QED BY <1>1, <1>2, <2>2, <3>1, <3>2, <3>3
  <2> QED BY <2>1, <2>2
<1>4. ASSUME NEW t \in Sessions \ S
      PROVE  Spared(t) /\ current[t] \notin failed
  <2>1. \A c \in failed : OwedTo(c, t) = {}
    BY DEF OwedTo
  <2>2. current[t] \notin failed
    <3>1. NoChannel \notin failed
      BY ChannelsAssumption DEF NoChannel, Channels
    <3> QED BY <2>1, <3>1, OwedOnCurrent DEF IInv
  <2> QED BY <1>1, <1>2, <2>1, <2>2, Zenon DEF Spared
<1>5. StateTypes'
  <2> HIDE DEF now
  <2>1. /\ state' \in [Sessions -> {"Open", "Draining", "Aborted"}]
        /\ current' \in [Sessions -> Channels \cup {NoChannel}]
        /\ pending' \in [Sessions -> Nat]
    BY <1>1 DEF IInv, Types, SessionTypes, StateTypes
  <2>2. client_out' \in [Sessions -> Seq(Nat)]
    <3>1. <<>> \in Seq(Nat) /\ client_out \in [Sessions -> Seq(Nat)]
      BY DEF IInv, Types, SessionTypes, StateTypes
    <3> QED BY <1>1, <3>1, Zenon
  <2>3. output_signal' \in [Sessions -> BOOLEAN]
    BY <1>1, Zenon DEF IInv, Types, SessionTypes, StateTypes
  <2>4. reply_signal' \in [Sessions -> BOOLEAN]
    BY <1>1, Zenon DEF IInv, Types, SessionTypes, StateTypes
  <2> QED BY <2>1, <2>2, <2>3, <2>4 DEF StateTypes
<1> QED BY <1>2, <1>3, <1>4, <1>5, Zenon

\* The same for one session.
LEMMA AbortOutcome ==
  ASSUME IInv, NEW S \in SUBSET Sessions, NEW failed \in SUBSET Channels,
         abort(S, failed), \A c \in failed : \A p \in owed[c] : p[1] \in S
  PROVE  \A t \in Sessions : IF t \in S THEN LetGo(t)
                             ELSE Spared(t) /\ current[t] \notin failed
BY AbortEffect, Zenon

\* abort() of S keeps the invariant of every session but for its writer.
LEMMA AbortKeeps ==
  ASSUME IInv, NEW S \in SUBSET Sessions, NEW failed \in SUBSET Channels,
         abort(S, failed), \A c \in failed : \A p \in owed[c] : p[1] \in S,
         \A c \in Channels \ failed : up'[c] = up[c],
         UNCHANGED <<script, got, received, final_error>>,
         NEW t \in Sessions,
         t \notin S => parsed'[t] = parsed[t] /\ reader_pc'[t] = reader_pc[t],
         chunk'[t] = chunk[t] \/ (t \in S /\ chunk'[t] = <<>>)
  PROVE  /\ Numbered(t)' /\ Outstanding(t)' /\ Accounted(t)'
         /\ writer_pc'[t] = writer_pc[t] /\ chunk'[t] = chunk[t] => SessionInv(t)'
<1>1. CASE t \in S
  <2>1. LetGo(t)
    BY <1>1, AbortOutcome
  <2>2. Numbered(t)'
    <3>1. From(received'[t], 0) /\ From(chunk'[t], Len(received'[t]))
      <4>1. From(<<>>, Len(received[t]))  BY DEF From
      <4> QED BY <4>1, Zenon DEF IInv, SessionInv, Numbered
    <3>2. From(client_out'[t], Len(received'[t]) + Len(chunk'[t]))
      BY <2>1 DEF LetGo, From
    <3> QED BY <3>1, <3>2, Zenon DEF Numbered
  <2>3. Outstanding(t)'
    BY <2>1, ChannelsAssumption DEF LetGo, Outstanding, NoChannel, Channels
  <2>4. Accounted(t)'
    BY <2>1 DEF LetGo, Accounted
  <2>5. writer_pc'[t] = writer_pc[t] /\ chunk'[t] = chunk[t] => Writing(t)'
    BY <2>1 DEF LetGo, IInv, SessionInv, Writing
  <2> QED BY <2>2, <2>3, <2>4, <2>5 DEF SessionInv
<1>2. CASE t \notin S
  <2>1. Spared(t) /\ current[t] \notin failed
    BY <1>2, AbortOutcome
  <2>2. current[t] # NoChannel => up'[current[t]]
    <3>1. current[t] # NoChannel => current[t] \in Channels \ failed /\ up[current[t]]
      BY <2>1 DEF IInv, Types, SessionTypes, StateTypes, SessionInv, Outstanding
    <3> QED BY <3>1
  <2>3. Untouched(t)
    BY <1>2, <2>1, <2>2 DEF Spared, Untouched, Refused
  <2> QED BY <2>3, Frame DEF IInv
<1> QED BY <1>1, <1>2

\* A step of session s leaves the others alone.
LEMMA OnlyOwn ==
  ASSUME IInv, NEW s \in Sessions, Types', SessionInv(s)',
         \A t \in Sessions \ {s} : Untouched(t) /\ writer_pc'[t] = writer_pc[t]
  PROVE  IInv'
<1>1. ASSUME NEW t \in Sessions, t # s PROVE SessionInv(t)'
  <2>1. SessionInv(t) /\ Untouched(t) /\ writer_pc'[t] = writer_pc[t]
    BY <1>1 DEF IInv
  <2> QED BY <2>1, Frame
<1> QED BY <1>1 DEF IInv

-----------------------------------------------------------------------------
(* The coroutine of readerLoop() *)

\* The reader's steps that only move it: its resumption, its waits for replies
\* and the break out of its loop.
LEMMA ReaderMoves ==
  ASSUME IInv, NEW s \in Sessions,
         ReaderResumes(s) \/ AwaitReplies(s) \/ RepliesWake(s) \/ ReaderBreaks(s)
  PROVE  IInv'
<1>1. PICK pc \in {"cpu", "rej", "reply", "exit"} : reader_pc' = [reader_pc EXCEPT ![s] = pc]
  BY DEF ReaderResumes, AwaitReplies, RepliesWake, ReaderBreaks, wait, IInv, Types,
         SessionTypes, StateTypes
<1>2. /\ UNCHANGED <<input, output, output_signal, backend, channels, state, writer_pc>>
      /\ reply_signal' \in [Sessions -> BOOLEAN]
      /\ state[s] = "Open" => Refused(s)' = Refused(s)
  BY Zenon DEF ReaderResumes, AwaitReplies, RepliesWake, ReaderBreaks, wait, signals,
         IInv, Types, SessionTypes, StateTypes, Refused
<1>3. SessionTypes'
  BY <1>1, <1>2, Zenon DEF IInv, Types, SessionTypes, StateTypes, input, output, backend
<1>4. ChannelTypes' /\ \A c \in Channels, t \in Sessions : OwedTo(c, t)' = OwedTo(c, t)
  BY <1>2, ChannelFrame DEF IInv, Types
<1>5. \A t \in Sessions : Untouched(t)
  BY <1>1, <1>2, <1>4, Zenon
     DEF Untouched, input, output, backend, channels, Refused, IInv, Types, SessionTypes, StateTypes,
         SessionInv, Outstanding
<1>6. \A t \in Sessions : SessionInv(t)'
  BY <1>2, <1>5, Frame DEF IInv
<1> QED BY <1>3, <1>4, <1>6 DEF IInv, Types

\* ReaderEnds: the last loop to end detaches a session nothing is owed to.
LEMMA ReaderEndsKeeps ==
  ASSUME IInv, NEW s \in Sessions, ReaderEnds(s)
  PROVE  IInv'
<1>1. /\ reader_pc[s] = "exit" /\ reader_pc' = [reader_pc EXCEPT ![s] = "done"]
      /\ UNCHANGED <<input, output, signals, backend, up, state, writer_pc>>
  BY DEF ReaderEnds
<1>2. OwedTypes' /\ \A c \in Channels, t \in Sessions : OwedTo(c, t)' = OwedTo(c, t)
  <2>1. CASE writer_pc[s] = "done"
    <3>1. detachOwner({s}, {})
      BY <2>1 DEF ReaderEnds, finishLoop
    <3>2. OwedTypes' /\ \A c \in Channels : \A t : OwedTo(c, t)' =
            IF c \in {} \/ t \in {s} THEN {} ELSE OwedTo(c, t)
      BY <3>1, DetachedOwed DEF IInv, Types
    <3>3. pending[s] = 0
      BY <2>1 DEF IInv, SessionInv, Writing, Accounted
    <3>4. \A c \in Channels : OwedTo(c, s) = {}
      BY <3>3, OwedOnCurrent DEF IInv
    <3> QED BY <3>2, <3>4
  <2>2. CASE writer_pc[s] # "done"
    <3>1. UNCHANGED <<owed, orphans>>
      BY <2>2 DEF ReaderEnds, finishLoop
    <3> QED BY <3>1 DEF OwedTypes, OwedTo, IInv, Types, ChannelTypes
  <2> QED BY <2>1, <2>2
<1>3. Types'
  BY <1>1, <1>2, Zenon DEF IInv, Types, SessionTypes, StateTypes, ChannelTypes, input, output,
                    backend, signals
<1>4. \A t \in Sessions : Untouched(t)
  BY <1>1, <1>2 DEF Untouched, input, output, backend, Refused, IInv, Types, SessionTypes,
                    SessionInv, Outstanding
<1>5. \A t \in Sessions : SessionInv(t)'
  BY <1>1, <1>4, Frame DEF IInv
<1> QED BY <1>3, <1>5 DEF IInv

\* The session of s aborts in a step of its reader: no channel for a batch, or
\* a read that fails.
LEMMA ReaderAborts ==
  ASSUME IInv, NEW s \in Sessions, NoBackend(s) \/ ReadFails(s)
  PROVE  IInv'
<1>1. /\ abort({s}, {}) /\ reader_pc' = [reader_pc EXCEPT ![s] = "exit"]
      /\ UNCHANGED <<script, got, chunk, received, final_error, up, writer_pc>>
  BY DEF NoBackend, ReadFails, input
<1>2. PICK m \in Nat : /\ m <= got[s] /\ parsed' = [parsed EXCEPT ![s] = m]
  <2>1. LastValid(s) \in Nat /\ LastValid(s) <= got[s] /\ parsed[s] \in Nat /\ parsed[s] <= got[s]
    BY LastValidBounds DEF IInv, Types, SessionTypes
  <2>2. CASE NoBackend(s)  BY <2>1, <2>2, Zenon DEF NoBackend
  <2>3. CASE ReadFails(s)
    <3>1. parsed' = [parsed EXCEPT ![s] = parsed[s]]
      BY <2>3 DEF ReadFails, input, IInv, Types, SessionTypes
    <3> QED BY <2>1, <3>1, Zenon
  <2> QED BY <2>2, <2>3
<1>3. OwedTypes' /\ StateTypes'
  BY <1>1, AbortEffect
<1>4. Types'
  BY <1>1, <1>2, <1>3 DEF IInv, Types, SessionTypes, ChannelTypes
<1>5. ASSUME NEW t \in Sessions PROVE SessionInv(t)'
  <2>1. t \notin {s} => parsed'[t] = parsed[t] /\ reader_pc'[t] = reader_pc[t]
    BY <1>1, <1>2 DEF IInv, Types, SessionTypes
  <2>2. /\ UNCHANGED <<script, got, received, final_error>>
        /\ chunk'[t] = chunk[t] /\ writer_pc'[t] = writer_pc[t]
        /\ \A c \in Channels \ {} : up'[c] = up[c]
        /\ \A c \in {} : \A p \in owed[c] : p[1] \in {s}
        /\ {s} \in SUBSET Sessions /\ {} \in SUBSET Channels
    BY <1>1, Zenon
  <2> QED BY <1>1, <2>1, <2>2, AbortKeeps, Zenon
<1> QED BY <1>4, <1>5 DEF IInv

\* One more element in order.
LEMMA FromAppend ==
  ASSUME NEW seq \in Seq(Nat), NEW n \in Nat, From(seq, n), NEW e, e = n + Len(seq) + 1
  PROVE  /\ From(Append(seq, e), n) /\ Append(seq, e) \in Seq(Nat)
         /\ Len(Append(seq, e)) = Len(seq) + 1
<1>1. e \in Nat /\ Len(seq) \in Nat  OBVIOUS
<1>2. Append(seq, e) \in Seq(Nat) /\ Len(Append(seq, e)) = Len(seq) + 1
  BY <1>1
<1>3. ASSUME NEW k \in DOMAIN Append(seq, e) PROVE Append(seq, e)[k] = n + k
  <2>1. CASE k \in DOMAIN seq  BY <2>1 DEF From
  <2>2. CASE k \notin DOMAIN seq
    <3>1. k = Len(seq) + 1 /\ Append(seq, e)[k] = e  BY <2>2
    <3> QED BY <1>1, <3>1
  <2> QED BY <2>1, <2>2
<1> QED BY <1>2, <1>3 DEF From

\* The parts of what s was sent, and their lengths.
LEMMA OutputParts ==
  ASSUME Types, NEW s \in Sessions, SessionInv(s)
  PROVE  \E r \in Seq(Nat), k \in Seq(Nat), o \in Seq(Nat), n \in Nat, m \in Nat :
           /\ r = received[s] /\ k = chunk[s] /\ o = client_out[s]
           /\ n = Len(r) + Len(k) /\ m = Len(o) /\ Sent(s) = n + m
           /\ From(r, 0) /\ From(k, Len(r)) /\ From(o, n)
<1>1. /\ received[s] \in Seq(Nat) /\ chunk[s] \in Seq(Nat) /\ client_out[s] \in Seq(Nat)
      /\ Len(received[s]) + Len(chunk[s]) \in Nat /\ Len(client_out[s]) \in Nat
  BY DEF Types, SessionTypes, StateTypes
<1>2. Sent(s) = (Len(received[s]) + Len(chunk[s])) + Len(client_out[s])
  BY DEF Sent
<1>3. /\ From(received[s], 0) /\ From(chunk[s], Len(received[s]))
      /\ From(client_out[s], Len(received[s]) + Len(chunk[s]))
  BY Zenon DEF SessionInv, Numbered
<1> QED BY <1>1, <1>2, <1>3, Zenon

\* The number of the reply that comes next.
LEMMA NextNumber ==
  ASSUME NEW x, NEW n \in Nat, NEW m \in Nat, x = n + m
  PROVE  x \in Nat /\ x + 1 = n + m + 1 /\ n + (m + 1) = x + 1
OBVIOUS

\* One more reply for s, to the next request, is queued.
LEMMA OutputGrows ==
  ASSUME Types, NEW s \in Sessions, SessionInv(s),
         received'[s] = received[s], chunk'[s] = chunk[s],
         client_out'[s] = Append(client_out[s], Sent(s) + 1)
  PROVE  /\ Numbered(s)' /\ Sent(s) \in Nat /\ Sent(s)' = Sent(s) + 1
         /\ client_out'[s] \in Seq(Nat)
<1>1. PICK r \in Seq(Nat), k \in Seq(Nat), o \in Seq(Nat), n \in Nat, m \in Nat :
        /\ r = received[s] /\ k = chunk[s] /\ o = client_out[s]
        /\ n = Len(r) + Len(k) /\ m = Len(o) /\ Sent(s) = n + m
        /\ From(r, 0) /\ From(k, Len(r)) /\ From(o, n)
  BY OutputParts, Zenon
<1>2. PICK e : e = Sent(s) + 1
  OBVIOUS
<1>3. e = n + Len(o) + 1 /\ Sent(s) \in Nat /\ n + (m + 1) = Sent(s) + 1
  <2>1. Sent(s) = n + m /\ m = Len(o) /\ e = Sent(s) + 1
    BY <1>1, <1>2, Zenon
  <2>2. Sent(s) \in Nat /\ Sent(s) + 1 = n + m + 1 /\ n + (m + 1) = Sent(s) + 1
    BY <2>1, NextNumber, Zenon
  <2> QED BY <2>1, <2>2, Zenon
<1>4. /\ From(Append(o, e), n) /\ Append(o, e) \in Seq(Nat)
      /\ Len(Append(o, e)) = m + 1
  BY <1>1, <1>3, FromAppend, Zenon
<1>5. received'[s] = r /\ chunk'[s] = k /\ client_out'[s] = Append(o, e)
  BY <1>1, <1>2, Zenon
<1>6. Numbered(s)'
  BY <1>1, <1>4, <1>5, Zenon DEF Numbered
<1>7. Sent(s)' = n + (m + 1)
  BY <1>1, <1>4, <1>5, Zenon DEF Sent
<1> QED BY <1>3, <1>4, <1>5, <1>6, <1>7, Zenon

\* The answer to a refused request: all replies before it have come, so its
\* number is the next one.
LEMMA RejectKeeps ==
  ASSUME IInv, NEW s \in Sessions, Reject(s)
  PROVE  IInv'
<1>1. /\ reader_pc[s] = "rej" /\ state[s] = "Open" /\ pending[s] = 0
      /\ client_out' = [client_out EXCEPT ![s] = Append(client_out[s], parsed[s])]
      /\ output_signal' = [output_signal EXCEPT ![s] = TRUE]
      /\ reader_pc' = [reader_pc EXCEPT ![s] = "cpu"]
      /\ UNCHANGED <<input, chunk, received, final_error, reply_signal, backend,
                     channels, state, writer_pc>>
  BY DEF Reject
<1>2. parsed[s] = Sent(s) + 1
  <2>1. Sent(s) + pending[s] + Refused(s) = parsed[s] /\ pending[s] = 0
    BY <1>1, Zenon DEF IInv, SessionInv, Accounted
  <2>2. Refused(s) = 1 /\ Sent(s) \in Nat
    BY <1>1, OwedOnCurrent DEF Refused, IInv
  <2> QED BY <2>1, <2>2
<1>3. client_out'[s] = Append(client_out[s], Sent(s) + 1)
  BY <1>1, <1>2 DEF IInv, Types, SessionTypes, StateTypes
<1>4. /\ Numbered(s)' /\ Sent(s) \in Nat /\ Sent(s)' = Sent(s) + 1
      /\ client_out'[s] \in Seq(Nat)
  BY <1>1, <1>3, OutputGrows, Zenon DEF IInv
<1>5. Types'
  <2>1. client_out' \in [Sessions -> Seq(Nat)]
    BY <1>1, <1>4, Zenon DEF IInv, Types, SessionTypes, StateTypes
  <2>2. StateTypes'
    BY <1>1, <2>1 DEF IInv, Types, SessionTypes, StateTypes, backend
  <2>3. SessionTypes'
    BY <1>1, <2>2 DEF IInv, Types, SessionTypes, input
  <2> QED BY <1>1, <2>3, ChannelFrame DEF IInv, Types
<1>6. \A c \in Channels, t \in Sessions : OwedTo(c, t)' = OwedTo(c, t)
  BY <1>1, ChannelFrame, Zenon DEF IInv, Types
<1>7. SessionInv(s)'
  <2>1. Outstanding(s)'
    <3>1. pending'[s] = 0 /\ current'[s] = NoChannel
      BY <1>1 DEF IInv, SessionInv, Outstanding, backend
    <3>2. \A c \in Channels : OwedTo(c, s)' = {}
      BY <1>1, <1>6, OwedOnCurrent, Zenon DEF IInv
    <3>3. NoChannel \notin Channels
      BY ChannelsAssumption DEF NoChannel, Channels
    <3> QED BY <3>1, <3>2, <3>3, Zenon DEF Outstanding
  <2>2. Accounted(s)'
    <3>1. /\ state'[s] = "Open" /\ Sent(s)' = parsed'[s] /\ pending'[s] = 0
      BY <1>1, <1>2, <1>4, Zenon DEF backend, input
    <3>2. Refused(s)' = 0 /\ parsed'[s] \in Nat
      BY <1>1, <1>5 DEF Refused, Types, SessionTypes
    <3> QED BY <3>1, <3>2 DEF Accounted
  <2>3. Writing(s)'
    BY <1>1, Zenon DEF IInv, SessionInv, Writing
  <2> QED BY <1>4, <2>1, <2>2, <2>3, Zenon DEF SessionInv
<1>8. \A t \in Sessions \ {s} : Untouched(t) /\ writer_pc'[t] = writer_pc[t]
  BY <1>1, <1>6, Zenon
     DEF Untouched, Refused, input, backend, channels, IInv, Types, SessionTypes,
         StateTypes, SessionInv, Outstanding
<1> QED BY <1>5, <1>7, <1>8, OnlyOwn

\* More requests arrive.
LEMMA ReadSomeKeeps ==
  ASSUME IInv, NEW s \in Sessions, ReadSome(s)
  PROVE  IInv'
<1>1. /\ reader_pc[s] = "read" /\ state[s] = "Open"
      /\ reader_pc' = [reader_pc EXCEPT ![s] = "cpu"]
      /\ UNCHANGED <<script, parsed, output, signals, backend, channels, state, writer_pc>>
  BY DEF ReadSome
<1>2. PICK upto \in (got[s] + 1) .. Len(script[s]) : got' = [got EXCEPT ![s] = upto]
  BY Zenon DEF ReadSome
<1>3. SessionTypes'
  <2>1. got[s] \in Nat /\ Len(script[s]) \in Nat /\ parsed[s] \in Nat
    BY ScriptsAssumption DEF IInv, Types, SessionTypes
  <2>2. upto \in Nat /\ upto <= Len(script[s]) /\ got[s] < upto
    BY <1>2, <2>1
  <2> QED BY <1>1, <1>2, <2>1, <2>2
          DEF IInv, Types, SessionTypes, StateTypes, output, signals, backend
<1>4. ChannelTypes' /\ \A c \in Channels, t \in Sessions : OwedTo(c, t)' = OwedTo(c, t)
  BY <1>1, ChannelFrame DEF IInv, Types
<1>5. \A t \in Sessions : Untouched(t)
  BY <1>1, <1>2, <1>4, Zenon DEF Untouched, Refused, output, backend, channels, IInv, Types,
                          SessionTypes, SessionInv, Outstanding
<1>6. \A t \in Sessions : SessionInv(t)'
  BY <1>1, <1>5, Frame, Zenon DEF IInv
<1> QED BY <1>3, <1>4, <1>6 DEF IInv, Types

\* The client has sent everything: the session drains.
LEMMA ReadClosesKeeps ==
  ASSUME IInv, NEW s \in Sessions, ReadCloses(s)
  PROVE  IInv'
<1>1. /\ reader_pc[s] = "read" /\ state[s] = "Open"
      /\ state' = [state EXCEPT ![s] = "Draining"]
      /\ output_signal' = [output_signal EXCEPT ![s] = TRUE]
      /\ reader_pc' = [reader_pc EXCEPT ![s] = "exit"]
      /\ UNCHANGED <<input, client_out, chunk, received, reply_signal, backend,
                     channels, writer_pc>>
  BY DEF ReadCloses, drain
<1>2. PICK e \in Nat :
        /\ e = IF got[s] = parsed[s] THEN 0 ELSE parsed[s] + 1
        /\ final_error' = [final_error EXCEPT ![s] = e]
  <2>1. (IF got[s] = parsed[s] THEN 0 ELSE parsed[s] + 1) \in Nat
    BY DEF IInv, Types, SessionTypes
  <2>2. final_error' = [final_error EXCEPT ![s] =
                          IF got[s] = parsed[s] THEN 0 ELSE parsed[s] + 1]
    BY Zenon DEF ReadCloses, drain
  <2> QED BY <2>1, <2>2, Zenon
<1>3. Types'
  <2>1. StateTypes'
    BY <1>1 DEF IInv, Types, SessionTypes, StateTypes, backend
  <2>2. SessionTypes'
    BY <1>1, <1>2, <2>1 DEF IInv, Types, SessionTypes, input
  <2> QED BY <1>1, <2>2, ChannelFrame DEF IInv, Types
<1>4. \A c \in Channels, t \in Sessions : OwedTo(c, t)' = OwedTo(c, t)
  BY <1>1, ChannelFrame, Zenon DEF IInv, Types
<1>5. SessionInv(s)'
  <2>1. Sent(s)' = Sent(s) /\ Due(s)' = Due(s) /\ Sent(s) \in Nat
    BY <1>1, OwedOnCurrent, Zenon DEF Sent, Due, backend, IInv
  <2>2. Numbered(s)'
    BY <1>1, Zenon DEF IInv, SessionInv, Numbered
  <2>3. Outstanding(s)'
    BY <1>1, <1>4, <2>1 DEF IInv, SessionInv, Outstanding, backend, channels
  <2>4. Accounted(s)'
    <3>1. Sent(s) + pending[s] = parsed[s]
      <4>1. Sent(s) + pending[s] + Refused(s) = parsed[s]
        BY <1>1, Zenon DEF IInv, SessionInv, Accounted
      <4>2. Refused(s) = 0 /\ pending[s] \in Nat
        BY <1>1 DEF Refused, IInv, Types, SessionTypes, StateTypes
      <4> QED BY <2>1, <4>1, <4>2
    <3>2. /\ state'[s] = "Draining" /\ final_error'[s] = e /\ parsed'[s] = parsed[s]
          /\ got'[s] = got[s] /\ pending'[s] = pending[s]
          /\ parsed[s] \in Nat /\ got[s] \in Nat /\ parsed[s] <= got[s]
      BY <1>1, <1>2 DEF IInv, Types, SessionTypes, StateTypes, input, backend
    <3>3. \/ e = parsed[s] + 1 /\ parsed[s] < got[s]
          \/ e = 0 /\ parsed[s] = got[s]
      BY <1>2, <3>2
    <3>4. Sent(s)' + pending'[s] = parsed'[s]
      BY <2>1, <3>1, <3>2, Zenon
    <3> QED BY <3>2, <3>3, <3>4, Zenon DEF Accounted
  <2>5. Writing(s)'
    BY <1>1 DEF IInv, SessionInv, Writing
  <2> QED BY <2>2, <2>3, <2>4, <2>5, Zenon DEF SessionInv
<1>6. \A t \in Sessions \ {s} : Untouched(t) /\ writer_pc'[t] = writer_pc[t]
  BY <1>1, <1>2, <1>4, Zenon
     DEF Untouched, Refused, input, backend, channels, IInv, Types, SessionTypes,
         StateTypes, SessionInv, Outstanding
<1> QED BY <1>3, <1>5, <1>6, OnlyOwn

\* submitBatch(): the channel owes s its next n requests after those it owed
\* before, and no other session sees a difference.
LEMMA SubmitKeeps ==
  ASSUME IInv, NEW s \in Sessions, Sent(s) + pending[s] = parsed[s],
         NEW n \in Nat, NEW d, d = select(current[s], up, Load),
         n > 0 => d # NoChannel, submitBatch(s, n, d),
         UNCHANGED <<up, orphans, received, chunk, client_out>>
  PROVE  /\ OwedTypes' /\ pending' \in [Sessions -> Nat]
         /\ current' \in [Sessions -> Channels \cup {NoChannel}]
         /\ Outstanding(s)' /\ pending'[s] = pending[s] + n
         /\ \A t \in Sessions \ {s} :
              /\ current'[t] = current[t] /\ pending'[t] = pending[t]
              /\ \A c \in Channels : OwedTo(c, t)' = OwedTo(c, t)
<1>1. /\ Types /\ SessionInv(s) /\ ChannelTypes /\ Outstanding(s)
      /\ pending \in [Sessions -> Nat] /\ Sent(s) \in Nat /\ parsed[s] \in Nat
      /\ current \in [Sessions -> Channels \cup {NoChannel}]
  BY OwedOnCurrent, Zenon DEF IInv, Types, SessionTypes, StateTypes, SessionInv
<1>2. Sent(s)' = Sent(s)
  BY DEF Sent
<1>3. CASE n = 0
  <2>1. UNCHANGED <<owed, current, pending>>
    BY <1>3 DEF submitBatch, backend
  <2>2. \A c \in Channels : \A t : OwedTo(c, t)' = OwedTo(c, t)
    BY <2>1 DEF OwedTo
  <2>3. OwedTypes'
    BY <1>1, <2>1 DEF ChannelTypes, OwedTypes
  <2>4. Due(s)' = Due(s)
    BY <1>2, <2>1 DEF Due
  <2>5. Outstanding(s)'
    BY <1>1, <2>1, <2>2, <2>4 DEF Outstanding
  <2> QED BY <1>1, <1>3, <2>1, <2>2, <2>3, <2>5
<1>4. CASE n # 0
  <2> DEFINE batch == {<<s, i>> : i \in (parsed[s] + 1) .. (parsed[s] + n)}
  <2>1. /\ owed' = [owed EXCEPT ![d] = owed[d] \cup batch]
        /\ current' = [current EXCEPT ![s] = d]
        /\ pending' = [pending EXCEPT ![s] = pending[s] + n]
    BY <1>4, Zenon DEF submitBatch
  <2>2. d \in Channels /\ up[d] /\ (current[s] # NoChannel => d = current[s])
    <3>1. d # NoChannel /\ current[s] \in Channels \cup {NoChannel}
      BY <1>1, <1>4
    <3> QED BY <1>1, <3>1, SelectedIsUp, Zenon
  <2>3. /\ IsFiniteSet(batch) /\ batch \in SUBSET (Sessions \X Nat)
        /\ \A p \in batch : p[1] = s
    <3>1. parsed[s] \in Nat
      BY <1>1, Zenon
    <3>2. IsFiniteSet(batch)
      <4>1. IsFiniteSet(Batch(s, parsed[s], n))
        BY <3>1, BatchIsFinite, Zenon
      <4> QED BY <4>1, Zenon DEF Batch
    <3>3. \A i \in (parsed[s] + 1) .. (parsed[s] + n) :
            <<s, i>> \in Sessions \X Nat /\ <<s, i>>[1] = s
      BY <3>1
    <3> QED BY <3>2, <3>3, Zenon
  <2>4. Due(s) \cup batch = {<<s, i>> : i \in (Sent(s) + 1) .. (Sent(s) + (pending[s] + n))}
    <3>1. pending[s] \in Nat /\ Sent(s) \in Nat
      BY <1>1
    <3>2. \A i : i \in (Sent(s) + 1) .. (Sent(s) + (pending[s] + n))
            <=> \/ i \in (Sent(s) + 1) .. (Sent(s) + pending[s])
                \/ i \in (parsed[s] + 1) .. (parsed[s] + n)
      BY <3>1
    <3> QED BY <3>2, Zenon DEF Due
  <2> HIDE DEF batch
  <2>5. OwedTo(d, s) = Due(s) /\ \A c \in Channels \ {d} : OwedTo(c, s) = {}
    <3>1. CASE current[s] = d
      BY <1>1, <2>2, <3>1 DEF Outstanding
    <3>2. CASE current[s] = NoChannel
      <4>1. pending[s] = 0 /\ \A c \in Channels : OwedTo(c, s) = {}
        BY <1>1, <3>2, OwedOnCurrent DEF Outstanding
      <4>2. Due(s) = {}
        BY <1>1, <4>1 DEF Due
      <4> QED BY <2>2, <4>1, <4>2
    <3> QED BY <2>2, <3>1, <3>2
  <2>6. owed'[d] = owed[d] \cup batch /\ \A c \in Channels \ {d} : owed'[c] = owed[c]
    BY <1>1, <2>1, <2>2 DEF ChannelTypes, OwedTypes
  <2>7. OwedTo(d, s)' = Due(s) \cup batch /\ \A c \in Channels \ {d} : OwedTo(c, s)' = {}
    BY <2>3, <2>5, <2>6 DEF OwedTo
  <2>8. \A c \in Channels, t \in Sessions \ {s} : OwedTo(c, t)' = OwedTo(c, t)
    BY <2>3, <2>6 DEF OwedTo
  <2>9. OwedTypes'
    <3>1. owed' \in [Channels -> SUBSET (Sessions \X Nat)]
      BY <1>1, <2>1, <2>2, <2>3 DEF ChannelTypes, OwedTypes
    <3>2. IsFiniteSet(owed[d] \cup batch)
      BY <1>1, <2>2, <2>3, FS_Union, Zenon DEF ChannelTypes, OwedTypes
    <3> QED BY <1>1, <2>6, <3>1, <3>2, Zenon DEF ChannelTypes, OwedTypes
  <2>10. pending'[s] = pending[s] + n /\ current'[s] = d
    BY <1>1, <2>1
  <2>11. Due(s)' = Due(s) \cup batch
    BY <1>2, <2>4, <2>10 DEF Due
  <2>12. Outstanding(s)'
    <3>1. d # NoChannel /\ pending[s] + n # 0
      BY <1>1, <1>4
    <3> QED BY <2>2, <2>7, <2>10, <2>11, <3>1 DEF Outstanding
  <2> QED BY <1>1, <2>1, <2>2, <2>8, <2>9, <2>10, <2>12
<1> QED BY <1>3, <1>4, Zenon

\* A turn of the reader: it submits the valid requests, and consumes a refused
\* one or drains for a malformed one.
LEMMA ReaderTurnKeeps ==
  ASSUME IInv, NEW s \in Sessions, ReaderTurn(s)
  PROVE  IInv'
<1>1. PICK m, d, how :
        /\ m = LastValid(s) /\ d = select(current[s], up, Load) /\ how = ParseEnd(s, m)
        /\ m > parsed[s] => d # NoChannel
        /\ submitBatch(s, m - parsed[s], d)
        /\ parsed' = [parsed EXCEPT ![s] = IF how = "rej" THEN m + 1 ELSE m]
        /\ IF how = "bad" THEN drain(s, m + 1)
           ELSE UNCHANGED <<state, final_error, output_signal>>
        /\ reader_pc' = [reader_pc EXCEPT ![s] =
             CASE how = "bad" -> "exit"
               [] how = "rej" -> "rej"
               [] how = "ok" /\ m < got[s] -> "ready"
               [] OTHER -> "read"]
  BY Zenon DEF ReaderTurn
<1>2. /\ reader_pc[s] = "cpu" /\ state[s] = "Open"
      /\ UNCHANGED <<script, got, client_out, chunk, received, reply_signal, up,
                     orphans, writer_pc>>
  BY DEF ReaderTurn
<1>3. PICK p \in Nat, g \in Nat, n \in Nat :
        /\ p = parsed[s] /\ g = got[s] /\ m \in Nat /\ m = p + n /\ m <= g
        /\ n = m - parsed[s]
  <2>1. m \in parsed[s] .. got[s] /\ parsed[s] \in Nat /\ got[s] \in Nat
    BY <1>1, LastValidBounds DEF IInv, Types, SessionTypes
  <2> QED BY <2>1
<1>4. how \in {"rej", "bad"} => m + 1 <= g
  BY <1>1, <1>3 DEF ParseEnd
<1>5. Sent(s) + pending[s] = p /\ Sent(s) \in Nat /\ pending[s] \in Nat
  <2>1. Sent(s) + pending[s] + Refused(s) = p
    BY <1>2, <1>3, Zenon DEF IInv, SessionInv, Accounted
  <2>2. Refused(s) = 0
    BY <1>2 DEF Refused
  <2>3. Sent(s) \in Nat /\ pending[s] \in Nat
    BY OwedOnCurrent, Zenon DEF IInv, Types, SessionTypes, StateTypes
  <2> QED BY <2>1, <2>2, <2>3
<1>6. /\ OwedTypes' /\ pending' \in [Sessions -> Nat]
      /\ current' \in [Sessions -> Channels \cup {NoChannel}]
      /\ Outstanding(s)' /\ pending'[s] = pending[s] + n
      /\ \A t \in Sessions \ {s} :
           /\ current'[t] = current[t] /\ pending'[t] = pending[t]
           /\ \A c \in Channels : OwedTo(c, t)' = OwedTo(c, t)
  <2>1. /\ submitBatch(s, n, d) /\ Sent(s) + pending[s] = parsed[s]
        /\ UNCHANGED <<up, orphans, received, chunk, client_out>>
        /\ d = select(current[s], up, Load)
    BY <1>1, <1>2, <1>3, <1>5, Zenon
  <2>2. n > 0 => d # NoChannel
    BY <1>1, <1>3
  <2> QED BY <2>1, <2>2, SubmitKeeps, Zenon
<1>7. PICK q \in Nat, pc \in {"exit", "rej", "ready", "read"} :
        /\ parsed' = [parsed EXCEPT ![s] = q] /\ reader_pc' = [reader_pc EXCEPT ![s] = pc]
        /\ q = (IF how = "rej" THEN m + 1 ELSE m) /\ q <= g
        /\ pc = "rej" <=> how = "rej"
  <2>1. PICK q \in Nat : q = (IF how = "rej" THEN m + 1 ELSE m) /\ q <= g
    BY <1>3, <1>4
  <2>2. PICK pc \in {"exit", "rej", "ready", "read"} :
          /\ pc = CASE how = "bad" -> "exit"
                    [] how = "rej" -> "rej"
                    [] how = "ok" /\ m < got[s] -> "ready"
                    [] OTHER -> "read"
          /\ pc = "rej" <=> how = "rej"
    OBVIOUS
  <2> QED BY <1>1, <2>1, <2>2, Zenon
<1>8. PICK st \in {"Open", "Draining"}, e \in Nat :
        /\ state' = [state EXCEPT ![s] = st] /\ final_error' = [final_error EXCEPT ![s] = e]
        /\ IF how = "bad" THEN st = "Draining" /\ e = m + 1 ELSE st = "Open"
        /\ output_signal' \in [Sessions -> BOOLEAN]
  <2>1. CASE how = "bad"
    <3>1. /\ state' = [state EXCEPT ![s] = "Draining"]
          /\ final_error' = [final_error EXCEPT ![s] = m + 1]
          /\ output_signal' = [output_signal EXCEPT ![s] = TRUE]
      BY <1>1, <2>1 DEF drain
    <3>2. output_signal' \in [Sessions -> BOOLEAN]
      BY <3>1, Zenon DEF IInv, Types, SessionTypes, StateTypes
    <3>3. m + 1 \in Nat
      BY <1>3
    <3> QED BY <2>1, <3>1, <3>2, <3>3, Zenon
  <2>2. CASE how # "bad"
    BY <1>1, <1>2, <2>2 DEF IInv, Types, SessionTypes, StateTypes
  <2> QED BY <2>1, <2>2
<1>9. Types'
  <2>1. StateTypes'
    BY <1>2, <1>6, <1>8, Zenon DEF IInv, Types, SessionTypes, StateTypes
  <2>2. SessionTypes'
    BY <1>2, <1>3, <1>7, <1>8, <2>1, Zenon DEF IInv, Types, SessionTypes
  <2>3. ChannelTypes'
    BY <1>2, <1>6, Zenon DEF IInv, Types, ChannelTypes
  <2> QED BY <2>2, <2>3 DEF Types
<1>10. SessionInv(s)'
  <2>1. Numbered(s)'
    BY <1>2, Zenon DEF IInv, SessionInv, Numbered
  <2>2. Accounted(s)'
    <3>1. Sent(s)' = Sent(s)
      BY <1>2 DEF Sent
    <3>2. /\ state'[s] = st /\ final_error'[s] = e /\ parsed'[s] = q /\ got'[s] = g
          /\ reader_pc'[s] = pc
      BY <1>2, <1>3, <1>7, <1>8 DEF IInv, Types, SessionTypes, StateTypes
    <3>3. pending'[s] = pending[s] + n
      BY <1>6
    <3>4. Refused(s)' = IF how = "rej" THEN 1 ELSE 0
      BY <1>7, <3>2 DEF Refused
    <3>5. /\ q = (IF how = "rej" THEN m + 1 ELSE m) /\ q <= g
          /\ IF how = "bad" THEN st = "Draining" /\ e = m + 1 ELSE st = "Open"
      BY <1>7, <1>8, Zenon
    <3>6. PICK x \in Nat, y \in Nat, z \in Nat :
            /\ x = Sent(s)' /\ y = pending'[s] /\ z = Refused(s)'
            /\ x + y = m /\ z = IF how = "rej" THEN 1 ELSE 0
      <4>1. PICK x \in Nat, y \in Nat : x = Sent(s) /\ y = pending[s] /\ x + y = p
        BY <1>5, Zenon
      <4>2. y + n \in Nat /\ x + (y + n) = m
        BY <1>3, <4>1
      <4>3. (IF how = "rej" THEN 1 ELSE 0) \in Nat
        OBVIOUS
      <4> QED BY <3>1, <3>3, <3>4, <4>1, <4>2, <4>3, Zenon
    <3>7. x + y + z = q /\ (how = "bad" => x + y = q /\ e = q + 1 /\ q < g)
      <4>1. /\ m \in Nat /\ x + y = m /\ (how = "bad" => m + 1 <= g)
            /\ z = (IF how = "rej" THEN 1 ELSE 0)
            /\ q = (IF how = "rej" THEN m + 1 ELSE m)
        BY <1>3, <1>4, <3>5, <3>6, Zenon
      <4>2. how = "bad" => e = m + 1 /\ how # "rej"
        BY <3>5
      <4> QED BY <4>1, <4>2
    <3>8. CASE how = "bad"
      <4>1. state'[s] = "Draining" /\ final_error'[s] = parsed'[s] + 1
            /\ parsed'[s] < got'[s] /\ Sent(s)' + pending'[s] = parsed'[s]
        BY <3>2, <3>5, <3>6, <3>7, <3>8, Zenon
      <4> QED BY <4>1 DEF Accounted
    <3>9. CASE how # "bad"
      <4>1. state'[s] = "Open" /\ Sent(s)' + pending'[s] + Refused(s)' = parsed'[s]
        BY <3>2, <3>5, <3>6, <3>7, <3>9, Zenon
      <4> QED BY <4>1 DEF Accounted
    <3> QED BY <3>8, <3>9
  <2>3. Writing(s)'
    BY <1>2 DEF IInv, SessionInv, Writing
  <2> QED BY <1>6, <2>1, <2>2, <2>3, Zenon DEF SessionInv
<1>11. ASSUME NEW t \in Sessions \ {s} PROVE Untouched(t) /\ writer_pc'[t] = writer_pc[t]
  <2>1. /\ current'[t] = current[t] /\ pending'[t] = pending[t]
        /\ \A c \in Channels : OwedTo(c, t)' = OwedTo(c, t)
    BY <1>6
  <2>2. current[t] # NoChannel => up'[current[t]]
    BY <1>2 DEF IInv, SessionInv, Outstanding
  <2>3. /\ parsed'[t] = parsed[t] /\ reader_pc'[t] = reader_pc[t]
        /\ state'[t] = state[t] /\ final_error'[t] = final_error[t]
    BY <1>7, <1>8 DEF IInv, Types, SessionTypes, StateTypes
  <2> QED BY <1>2, <2>1, <2>2, <2>3, Zenon DEF Untouched, Refused
<1> QED BY <1>9, <1>10, <1>11, OnlyOwn
=============================================================================
