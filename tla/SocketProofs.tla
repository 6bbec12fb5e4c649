---------------------------- MODULE SocketProofs ----------------------------
(***************************************************************************)
(* CoSocket::writeAll() sends every byte once and in order, for any chains *)
(* of slices, any length of iov and any size of the kernel's buffers.      *)
(***************************************************************************)
EXTENDS CoSocket, SequenceTheorems, FiniteSetTheorems, WellFoundedInduction, TLAPS

Types ==
  /\ pc \in [Calls -> {"idle", "poll", "recv", "send", "skip"}]
  /\ status \in [Calls -> {"none", "Ok", "IoError", "Closed"}]
  /\ index \in Nat /\ offset \in Nat /\ left \in Nat
  /\ wire \in Seq(Nat) /\ outbox \in Nat

\* The slices of a chain end one after the other.
Slices(x) ==
  /\ x \in Seq(Nat)
  /\ \A i, j \in 1 .. Len(x) : i <= j => x[i] <= x[j]

\* Where slice i of x starts; after the last one, where the chain ends.
Before(x, i) == IF i = 1 THEN 0 ELSE x[i - 1]

\* index and offset are at a byte of the chain, or at its end.
PlaceIn(x, i, o) ==
  /\ i \in 1 .. (Len(x) + 1) /\ o \in Nat
  /\ i <= Len(x) => Before(x, i) + o <= x[i]
  /\ i = Len(x) + 1 => o = 0

\* The first n bytes, in order.
FirstBytes(seq, n) == Len(seq) = n /\ \A k \in 1 .. n : seq[k] = k

\* What the kernel took ends left bytes after the place of index and offset, and
\* left is only not zero while they are moved there.
Progress ==
  /\ PlaceIn(chain, index, offset)
  /\ FirstBytes(wire, Before(chain, index) + offset + left)
  /\ Before(chain, index) + offset + left <= Before(chain, Len(chain) + 1)
  /\ pc["write"] # "skip" => left = 0

\* writeAll() returned Ok with all of it.
Finished ==
  pc["write"] = "idle" /\ status["write"] = "Ok" /\ chain # <<>> =>
    Len(wire) = Before(chain, Len(chain) + 1)

\* The inductive invariant.
IInv == Types /\ Slices(chain) /\ Progress /\ Finished

-----------------------------------------------------------------------------
(* Least and greatest elements *)

\* A set of naturals that is not empty has a least element.
LEMMA LeastExists ==
  ASSUME NEW T \in SUBSET Nat, T # {}
  PROVE  \E x \in T : \A y \in T : x <= y
<1>1. PICK x \in T : \A y \in T : ~ (<<y, x>> \in OpToRel(<, Nat))
  BY NatLessThanWellFounded, WFMin, Zenon
<1>2. \A y \in T : ~ (y < x)
  BY <1>1, Zenon DEF OpToRel
<1> QED BY <1>2

\* Min is the least element.
LEMMA MinIsLeast ==
  ASSUME NEW T \in SUBSET Nat, NEW m \in T, \A y \in T : m <= y
  PROVE  Min(T) = m
<1>1. \E x \in T : \A y \in T : x <= y  BY Zenon
<1>2. Min(T) \in T /\ \A y \in T : Min(T) <= y
  BY <1>1, Zenon DEF Min
<1>3. Min(T) <= m /\ m <= Min(T)  BY <1>2, Zenon
<1>4. Min(T) \in Nat /\ m \in Nat  BY <1>2, Zenon
<1> QED BY <1>3, <1>4

\* Max of a bounded set of naturals is one of its elements.
LEMMA MaxIsElement ==
  ASSUME NEW T \in SUBSET Nat, NEW b \in Nat, T # {}, \A x \in T : x <= b
  PROVE  Max(T) \in T
<1> DEFINE D == {b - x : x \in T}
<1>1. D \in SUBSET Nat /\ D # {}
  <2>1. \A x \in T : x \in Nat /\ b - x \in Nat  OBVIOUS
  <2>2. D \in SUBSET Nat  BY <2>1
  <2>3. PICK x : x \in T  BY Zenon
  <2>4. b - x \in D  BY <2>3, Zenon
  <2> QED BY <2>2, <2>4, Zenon
<1>2. PICK d \in D : \A e \in D : d <= e
  BY <1>1, LeastExists, Zenon
<1>3. PICK m \in T : d = b - m
  BY <1>2
<1>4. \A y \in T : m >= y
  <2> TAKE y \in T
  <2>1. b - y \in D  BY Zenon
  <2>2. b - m <= b - y  BY <1>2, <1>3, <2>1, Zenon
  <2>3. m \in Nat /\ y \in Nat  OBVIOUS
  <2> QED BY <2>2, <2>3
<1> QED BY <1>4, Zenon DEF Max

\* The number of bytes one writev() takes is within both of its bounds.
LEMMA MinOfTwo ==
  ASSUME NEW a \in Int, NEW b \in Int
  PROVE  Min({a, b}) <= a /\ Min({a, b}) <= b /\ Min({a, b}) \in Int
<1>1. \E x \in {a, b} : \A y \in {a, b} : x <= y
  OBVIOUS
<1>2. Min({a, b}) \in {a, b} /\ \A y \in {a, b} : Min({a, b}) <= y
  BY <1>1, Zenon DEF Min
<1> QED BY <1>2

-----------------------------------------------------------------------------
(* The slices *)

\* Slices start at natural positions, in order.
LEMMA BeforeOrdered ==
  ASSUME NEW x, Slices(x), NEW i \in 1 .. (Len(x) + 1)
  PROVE  /\ Before(x, i) \in Nat
         /\ \A j \in i .. Len(x) : Before(x, i) <= x[j] /\ x[j] \in Nat
         /\ Before(x, i) <= Before(x, Len(x) + 1)
         /\ Before(x, Len(x) + 1) \in Nat
         /\ i <= Len(x) => Before(x, i + 1) = x[i]
<1>1. x \in Seq(Nat) /\ Len(x) \in Nat
  BY DEF Slices
<1>2. \A k \in 1 .. Len(x) : x[k] \in Nat
  BY <1>1
<1>3. \A k \in 1 .. (Len(x) + 1) : k = 1 \/ k - 1 \in 1 .. Len(x)
  BY <1>1
<1>4. \A k \in 1 .. (Len(x) + 1) : Before(x, k) \in Nat
  BY <1>2, <1>3 DEF Before
<1>5. ASSUME NEW j \in i .. Len(x)
      PROVE  Before(x, i) <= x[j] /\ x[j] \in Nat
  <2>1. j \in 1 .. Len(x) /\ (i = 1 \/ (i - 1 \in 1 .. Len(x) /\ i - 1 <= j))
    BY <1>1, <1>3
  <2>2. CASE i = 1
    BY <1>2, <2>1, <2>2 DEF Before
  <2>3. CASE i # 1
    <3>1. x[i - 1] <= x[j]
      BY <2>1, <2>3 DEF Slices
    <3> QED BY <1>2, <2>1, <2>3, <3>1 DEF Before
  <2> QED BY <2>2, <2>3
<1>6. Len(x) + 1 \in 1 .. (Len(x) + 1)
  BY <1>1
<1>7. Before(x, i) <= Before(x, Len(x) + 1)
  <2>1. CASE i = Len(x) + 1
    BY <1>4, <2>1
  <2>2. CASE i # Len(x) + 1
    <3>1. Len(x) \in i .. Len(x) /\ Len(x) + 1 # 1 /\ Len(x) + 1 - 1 = Len(x)
      BY <1>1, <2>2
    <3>2. Before(x, i) <= x[Len(x)]
      BY <1>5, <3>1
    <3> QED BY <3>1, <3>2 DEF Before
  <2> QED BY <2>1, <2>2
<1>8. i + 1 # 1 /\ i + 1 - 1 = i
  BY <1>1
<1>9. Before(x, i + 1) = x[i]
  BY <1>8 DEF Before
<1> QED BY <1>4, <1>5, <1>6, <1>7, <1>9

\* What is written of slice m when index and offset are i and o.
WrittenOf(m, i, o) == IF m = i THEN o ELSE 0

\* From slice i, offset o, to slice m nothing is left to be written.
NothingBetween(x, i, o, m) ==
  \A j \in i .. (m - 1) : ~(x[j] - Before(x, j) > WrittenOf(j, i, o))

\* The first slice with bytes starts where the last writev() stopped: the slices
\* that get no entry in iov hold nothing.
LEMMA EmptyBetween ==
  ASSUME NEW x, Slices(x), NEW i, NEW o, PlaceIn(x, i, o),
         NEW m \in i .. (Len(x) + 1), NothingBetween(x, i, o, m)
  PROVE  Before(x, m) + WrittenOf(m, i, o) = Before(x, i) + o
<1>1. /\ Len(x) \in Nat /\ i \in 1 .. (Len(x) + 1) /\ o \in Nat
  BY DEF Slices, PlaceIn
<1>2. Before(x, i) \in Nat
  BY <1>1, BeforeOrdered
<1>3. CASE m = i
  BY <1>3 DEF WrittenOf
<1>4. CASE m # i
  <2> DEFINE p == Before(x, i) + o
             T == {j \in i .. (m - 1) : x[j] # p}
  <2>1. T = {}
    <3> SUFFICES ASSUME T # {} PROVE FALSE
      OBVIOUS
    <3>1. T \in SUBSET Nat
      BY <1>1
    <3>2. PICK j \in T : \A k \in T : j <= k
      BY <3>1, LeastExists, Zenon
    <3>3. j \in i .. (m - 1) /\ x[j] # p /\ j \in 1 .. Len(x) /\ x[j] \in Nat
      <4>1. j \in i .. (m - 1) /\ x[j] # p  BY <3>2
      <4>2. j \in 1 .. Len(x)  BY <1>1, <4>1
      <4>3. x[j] \in Nat  BY <4>2 DEF Slices
      <4> QED BY <4>1, <4>2, <4>3
    <3>4. CASE j = i
      <4>1. ~(x[i] - Before(x, i) > o)
        BY <3>3, <3>4 DEF NothingBetween, WrittenOf
      <4>2. Before(x, i) + o <= x[i]
        BY <3>3, <3>4 DEF PlaceIn
      <4>3. PICK a \in Nat, b \in Nat : a = x[i] /\ b = Before(x, i)
        BY <1>2, <3>3, <3>4
      <4>4. a # b + o /\ ~(a - b > o) /\ b + o <= a
        BY <3>3, <3>4, <4>1, <4>2, <4>3, Zenon
      <4> QED BY <1>1, <4>4
    <3>5. CASE j # i
      <4>1. j - 1 \in i .. (m - 1) /\ j - 1 \in 1 .. Len(x) /\ ~(j <= j - 1) /\ j # 1
            /\ j - 1 <= j
        BY <1>1, <3>3, <3>5
      <4>2. x[j - 1] = p
        BY <3>2, <4>1
      <4>3. ~(x[j] - x[j - 1] > 0)
        BY <3>3, <3>5, <4>1, Zenon DEF NothingBetween, Before, WrittenOf
      <4>4. x[j - 1] <= x[j]
        BY <3>3, <4>1, Zenon DEF Slices
      <4>5. p \in Nat
        BY <1>1, <1>2
      <4> HIDE DEF p
      <4> QED BY <3>3, <4>2, <4>3, <4>4, <4>5
    <3> QED BY <3>4, <3>5
  <2>2. m - 1 \in i .. (m - 1) /\ m # 1
    BY <1>1, <1>4
  <2>3. x[m - 1] = p
    BY <2>1, <2>2
  <2>4. x[m - 1] + 0 = p
    BY <1>1, <1>2, <2>3
  <2> QED BY <1>4, <2>2, <2>4 DEF Before, WrittenOf
<1> QED BY <1>3, <1>4

-----------------------------------------------------------------------------
(* writev() *)

Live == {i \in index .. Len(chain) : Size(i) > SliceOffset(i)}

\* Start() is where the slices of chain start.
LEMMA StartIsBefore ==
  ASSUME NEW i
  PROVE  Start(i) = Before(chain, i) /\ Size(i) = chain[i] - Before(chain, i)
BY DEF Start, Size, Before

\* iov takes the first live slices: at least one if there is any.
LEMMA FirstInIov ==
  ASSUME NEW m \in Live, \A j \in Live : m <= j, Live \in SUBSET Nat
  PROVE  m \in iov
<1>1. {j \in Live : j < m} = {}
  <2>1. \A j \in Live : j \in Nat /\ m \in Nat  OBVIOUS
  <2>2. \A j \in Live : ~(j < m)  BY <2>1
  <2> QED BY <2>2, Zenon
<1>2. Cardinality({j \in Live : j < m}) = 0
  BY <1>1, FS_EmptySet, Zenon
<1>3. 0 < MaxIov
  BY SocketAssumption
<1> QED BY <1>2, <1>3, Zenon DEF iov, Live

\* When no slice is live, all of the chain is written; otherwise the bytes of
\* iov begin where the last writev() stopped, and end within the chain.
LEMMA IovBegins ==
  ASSUME Slices(chain), PlaceIn(chain, index, offset)
  PROVE  /\ iov = {} => Before(chain, index) + offset = Before(chain, Len(chain) + 1)
         /\ iov # {} => /\ iov_base = Before(chain, index) + offset
                        /\ Max(iov) \in index .. Len(chain)
<1>1. Len(chain) \in Nat /\ index \in 1 .. (Len(chain) + 1) /\ offset \in Nat
  BY DEF Slices, PlaceIn
<1>2. Live \in SUBSET Nat /\ iov \subseteq Live /\ Live \subseteq index .. Len(chain)
  <2>1. iov \subseteq Live /\ Live \subseteq index .. Len(chain)
    BY Zenon DEF iov, Live
  <2>2. \A j \in index .. Len(chain) : j \in Nat
    BY <1>1
  <2> QED BY <2>1, <2>2, Zenon
<1>3. ASSUME NEW m \in index .. (Len(chain) + 1), \A j \in Live : m <= j
      PROVE  Before(chain, m) + SliceOffset(m) = Before(chain, index) + offset
  <2>1. ASSUME NEW j \in index .. (m - 1)
        PROVE  ~(chain[j] - Before(chain, j) > WrittenOf(j, index, offset))
    <3>1. j \in index .. Len(chain) /\ ~(m <= j)
      BY <1>1
    <3>2. ~(Size(j) > SliceOffset(j))
      BY <1>3, <3>1, Zenon DEF Live
    <3> QED BY <3>2, StartIsBefore, Zenon DEF SliceOffset, WrittenOf
  <2>2. NothingBetween(chain, index, offset, m)
    BY <2>1, Zenon DEF NothingBetween
  <2>3. Before(chain, m) + WrittenOf(m, index, offset) = Before(chain, index) + offset
    BY <2>2, EmptyBetween
  <2> QED BY <2>3, Zenon DEF SliceOffset, WrittenOf
<1>4. CASE Live = {}
  <2>1. iov = {}  BY <1>2, <1>4, Zenon
  <2>2. Len(chain) + 1 \in index .. (Len(chain) + 1)  BY <1>1
  <2>3. Before(chain, Len(chain) + 1) + SliceOffset(Len(chain) + 1)
          = Before(chain, index) + offset
    BY <1>3, <1>4, <2>2, Zenon
  <2>4. SliceOffset(Len(chain) + 1) = 0
    BY DEF SliceOffset, PlaceIn
  <2>5. Before(chain, Len(chain) + 1) \in Nat
    BY <1>1, BeforeOrdered
  <2> QED BY <2>1, <2>3, <2>4, <2>5
<1>5. CASE Live # {}
  <2>1. PICK m \in Live : \A j \in Live : m <= j
    BY <1>2, <1>5, LeastExists, Zenon
  <2>2. m \in iov
    BY <1>2, <2>1, FirstInIov, Zenon
  <2>3. Min(iov) = m
    <3>1. iov \in SUBSET Nat /\ \A j \in iov : m <= j
      BY <1>2, <2>1, Zenon
    <3> QED BY <2>2, <3>1, MinIsLeast, Zenon
  <2>4. m \in index .. Len(chain)
    BY <1>2, <2>1, Zenon
  <2>5. m \in index .. (Len(chain) + 1) /\ m # Len(chain) + 1
    BY <1>1, <2>4
  <2>6. Before(chain, m) + SliceOffset(m) = Before(chain, index) + offset
    BY <1>3, <2>1, <2>5, Zenon
  <2>7. iov_base = Before(chain, index) + offset
    BY <2>3, <2>6, StartIsBefore, Zenon DEF iov_base
  <2>8. Max(iov) \in iov
    <3>1. \A j \in iov : j \in index .. Len(chain)
      BY <1>2, Zenon
    <3>2. iov \in SUBSET Nat /\ \A j \in iov : j <= Len(chain)
      BY <1>1, <3>1
    <3> QED BY <1>1, <2>2, <3>2, MaxIsElement, Zenon
  <2> QED BY <1>2, <2>2, <2>7, <2>8, Zenon
<1> QED BY <1>4, <1>5

\* What writev() takes extends what it took before.
LEMMA BytesAppended ==
  ASSUME NEW w \in Seq(Nat), NEW b \in Nat, FirstBytes(w, b), NEW n \in Nat
  PROVE  /\ w \o [k \in 1 .. n |-> b + k] \in Seq(Nat)
         /\ FirstBytes(w \o [k \in 1 .. n |-> b + k], b + n)
<1> DEFINE e == [k \in 1 .. n |-> b + k]
<1>1. e \in Seq(Nat) /\ Len(e) = n /\ \A k \in 1 .. n : e[k] = b + k
  OBVIOUS
<1>2. Len(w) = b /\ \A k \in 1 .. b : w[k] = k
  BY DEF FirstBytes
<1> HIDE DEF e
<1>3. w \o e \in Seq(Nat) /\ Len(w \o e) = b + n
  <2>1. w \o e \in Seq(Nat) /\ Len(w \o e) = Len(w) + Len(e)
    BY <1>1, ConcatProperties, Zenon
  <2> QED BY <1>1, <1>2, <2>1, Zenon
<1>4. ASSUME NEW k \in 1 .. (b + n)
      PROVE  (w \o e)[k] = k
  <2>1. CASE k <= b
    BY <1>1, <1>2, <2>1
  <2>2. CASE ~(k <= b)
    <3>1. k - b \in 1 .. n /\ (w \o e)[k] = e[k - b]
      BY <1>1, <1>2, <2>2
    <3>2. e[k - b] = b + (k - b)
      BY <1>1, <3>1
    <3> QED BY <3>1, <3>2
  <2> QED BY <2>1, <2>2, Zenon
<1>5. FirstBytes(w \o e, b + n)
  BY <1>3, <1>4, Zenon DEF FirstBytes
<1> QED BY <1>3, <1>5, Zenon DEF e

-----------------------------------------------------------------------------
(* Each step keeps the invariant *)

\* A new socket has nothing to write.
LEMMA FreshSocket ==
  ASSUME chain = <<>>, index = 1, offset = 0, left = 0, wire = <<>>
  PROVE  Slices(chain) /\ Progress /\ Finished
<1>1. chain \in Seq(Nat) /\ Len(chain) = 0 /\ Len(wire) = 0
  OBVIOUS
<1>2. Before(chain, 1) = 0
  BY DEF Before
<1>3. Slices(chain)
  BY <1>1 DEF Slices
<1>4. PlaceIn(chain, index, offset)
  BY <1>1, <1>2 DEF PlaceIn
<1>5. FirstBytes(wire, 0)
  BY <1>1 DEF FirstBytes
<1>6. Progress
  BY <1>1, <1>2, <1>4, <1>5 DEF Progress
<1> QED BY <1>3, <1>6 DEF Finished

\* CoSocket(fd) and reset(fd).
LEMMA InitInvariant == Init => IInv
<1> SUFFICES ASSUME Init PROVE IInv
  OBVIOUS
<1>1. Types
  BY DEF Init, Types, NoResult
<1>2. Slices(chain) /\ Progress /\ Finished
  BY FreshSocket, Zenon DEF Init
<1> QED BY <1>1, <1>2 DEF IInv

\* Calls return to their caller or go on at another of their places.
LEMMA CallTypes ==
  ASSUME Types, NEW c \in Calls,
         \/ \E st \in {"none", "Ok", "IoError", "Closed"} : Return(c, st)
         \/ \E place \in {"idle", "poll", "recv", "send", "skip"} : Goto(c, place)
  PROVE  /\ pc' \in [Calls -> {"idle", "poll", "recv", "send", "skip"}]
         /\ status' \in [Calls -> {"none", "Ok", "IoError", "Closed"}]
BY DEF Types, Return, Goto

\* connectTo() and readSome() leave writeAll() alone.
LEMMA OtherCalls ==
  ASSUME Types, NEW c \in Calls, c # "write",
         (\E st : Return(c, st)) \/ (\E place : Goto(c, place))
  PROVE  pc'["write"] = pc["write"] /\ status'["write"] = status["write"]
<1>1. "write" \in Calls
  BY DEF Calls
<1> QED BY <1>1 DEF Types, Return, Goto

\* A step that moves no byte of the chain keeps the invariant if writeAll() is
\* where it was, or suspends, fails or tries again.
LEMMA NothingMoves ==
  ASSUME IInv, Types', UNCHANGED writing,
         pc'["write"] = "skip" \/ left = 0,
         pc'["write"] = "idle" /\ status'["write"] = "Ok"
           => pc["write"] = "idle" /\ status["write"] = "Ok"
  PROVE  IInv'
<1>1. /\ chain' = chain /\ index' = index /\ offset' = offset /\ left' = left
      /\ wire' = wire
  BY DEF writing
<1>2. Slices(chain)' /\ Progress'
  <2>1. Slices(chain')
    BY <1>1 DEF IInv
  <2>2. Progress'
    BY <1>1 DEF IInv, Progress, PlaceIn, FirstBytes, Before
  <2> QED BY <2>1, <2>2 DEF Slices
<1>3. Finished'
  BY <1>1 DEF IInv, Finished, Before
<1> QED BY <1>2, <1>3 DEF IInv

\* writeAll() begins at the first byte of its chain.
LEMMA WriteBegins ==
  ASSUME IInv, NEW x \in Chains, writeAll(x)
  PROVE  IInv'
<1>1. /\ chain' = x /\ index' = 1 /\ offset' = 0 /\ left' = 0 /\ wire' = <<>>
      /\ Goto("write", "send") /\ outbox' = outbox
  BY DEF writeAll, kernel
<1>2. "write" \in Calls
  BY DEF Calls
<1>3. pc'["write"] = "send"
  BY <1>1, <1>2 DEF Goto, IInv, Types
<1>4. Types'
  <2>1. /\ pc' \in [Calls -> {"idle", "poll", "recv", "send", "skip"}]
        /\ status' \in [Calls -> {"none", "Ok", "IoError", "Closed"}]
    BY <1>1, <1>2, CallTypes DEF IInv
  <2> QED BY <1>1, <2>1 DEF IInv, Types
<1>5. Slices(x)
  BY ChainsAssumption, Zenon DEF Slices
<1>6. Len(x) \in Nat /\ 1 \in 1 .. (Len(x) + 1)
  BY <1>5 DEF Slices
<1>7. Before(x, 1) = 0
  BY DEF Before
<1>8. /\ 1 <= Len(x) => 0 <= x[1]
      /\ 0 <= Before(x, Len(x) + 1)
  <2>1. 1 <= Len(x) => 1 \in 1 .. Len(x)
    BY <1>6
  <2> QED BY <1>5, <1>6, <1>7, <2>1, BeforeOrdered
<1>9. PlaceIn(x, 1, 0)
  BY <1>6, <1>7, <1>8 DEF PlaceIn
<1>10. FirstBytes(<<>>, 0)
  BY DEF FirstBytes
<1>11. Progress'
  <2>1. /\ PlaceIn(chain', index', offset')
        /\ FirstBytes(wire', Before(chain', index') + offset' + left')
        /\ Before(chain', index') + offset' + left' <= Before(chain', Len(chain') + 1)
    BY <1>1, <1>7, <1>8, <1>9, <1>10
  <2> QED BY <1>1, <2>1 DEF Progress, PlaceIn, FirstBytes, Before
<1>12. Slices(chain)' /\ Finished'
  BY <1>1, <1>3, <1>5 DEF Slices, Finished
<1> QED BY <1>4, <1>11, <1>12 DEF IInv

\* writev() takes bytes from where the last one stopped.
LEMMA SendKeeps ==
  ASSUME IInv, Send
  PROVE  IInv'
<1>1. /\ Types /\ Slices(chain) /\ PlaceIn(chain, index, offset) /\ left = 0
      /\ FirstBytes(wire, Before(chain, index) + offset + left)
  BY DEF IInv, Progress, Send
<1>2. /\ Len(chain) \in Nat /\ index \in 1 .. (Len(chain) + 1)
      /\ offset \in Nat /\ wire \in Seq(Nat) /\ outbox \in Nat
  BY <1>1 DEF Slices, PlaceIn, Types
<1>3. PICK b \in Nat, t \in Nat :
        b = Before(chain, index) /\ t = Before(chain, Len(chain) + 1)
  BY <1>1, <1>2, BeforeOrdered
<1>4. iov_base = b + offset /\ Max(iov) \in index .. Len(chain)
  BY <1>1, <1>3, IovBegins DEF Send
<1>5. PICK e \in Nat : e = chain[Max(iov)] /\ e <= t
  <2>1. Max(iov) + 1 \in 1 .. (Len(chain) + 1) /\ Max(iov) \in 1 .. (Len(chain) + 1)
        /\ Max(iov) <= Len(chain)
    BY <1>2, <1>4
  <2>2. Before(chain, Max(iov) + 1) = chain[Max(iov)]
    BY <1>1, <2>1, BeforeOrdered
  <2>3. Before(chain, Max(iov) + 1) \in Nat /\ Before(chain, Max(iov) + 1) <= t
    BY <1>1, <1>3, <2>1, BeforeOrdered
  <2> QED BY <2>2, <2>3
<1>6. PICK n \in 1 .. Min({SndBuf - outbox, e - (b + offset)}) :
        /\ wire' = wire \o [k \in 1 .. n |-> (b + offset) + k]
        /\ outbox' = outbox + n /\ left' = n
  BY <1>4, <1>5, Zenon DEF Send
<1>7. n \in Nat /\ n <= e - (b + offset)
  <2>1. SndBuf - outbox \in Int /\ e - (b + offset) \in Int
    BY <1>2, SocketAssumption
  <2>2. Min({SndBuf - outbox, e - (b + offset)}) \in Int
        /\ Min({SndBuf - outbox, e - (b + offset)}) <= e - (b + offset)
    BY <2>1, MinOfTwo, Zenon
  <2> QED BY <2>1, <2>2
<1>8. UNCHANGED <<chain, index, offset>> /\ Goto("write", "skip")
  BY DEF Send
<1>9. b + offset \in Nat /\ b + offset + 0 = b + offset
  BY <1>2
<1>10. wire' \in Seq(Nat) /\ FirstBytes(wire', b + offset + n)
  <2>1. FirstBytes(wire, b + offset)
    BY <1>1, <1>3, <1>9
  <2> QED BY <1>2, <1>6, <1>7, <1>9, <2>1, BytesAppended
<1>11. b + offset + n <= t
  BY <1>2, <1>5, <1>7
<1>12. "write" \in Calls
  BY DEF Calls
<1>13. Types' /\ pc'["write"] = "skip"
  <2>1. /\ pc' \in [Calls -> {"idle", "poll", "recv", "send", "skip"}]
        /\ status' \in [Calls -> {"none", "Ok", "IoError", "Closed"}]
    BY <1>1, <1>8, <1>12, CallTypes
  <2>2. outbox' \in Nat
    BY <1>2, <1>6, <1>7
  <2>3. pc'["write"] = "skip"
    BY <1>1, <1>8, <1>12 DEF Goto, Types
  <2> QED BY <1>1, <1>6, <1>7, <1>8, <1>10, <2>1, <2>2, <2>3 DEF Types
<1>14. Progress'
  BY <1>1, <1>3, <1>6, <1>8, <1>10, <1>11, <1>13, Zenon DEF Progress, PlaceIn, FirstBytes, Before
<1>15. Slices(chain)' /\ Finished'
  BY <1>1, <1>8, <1>13 DEF Slices, Finished
<1> QED BY <1>13, <1>14, <1>15 DEF IInv

\* The arithmetic of that loop: written < available, or not.
LEMMA SkipArithmetic ==
  ASSUME NEW b \in Nat, NEW e \in Nat, NEW o \in Nat, NEW n \in Nat, b + o <= e
  PROVE  /\ n < (e - b) - o => /\ b + (o + n) <= e /\ o + n \in Nat
                               /\ b + (o + n) + 0 = b + o + n
         /\ ~(n < (e - b) - o) => /\ n - ((e - b) - o) \in Nat
                                  /\ e + 0 + (n - ((e - b) - o)) = b + o + n
OBVIOUS

\* One turn of the loop that moves index and offset past what was written.
LEMMA SkipKeeps ==
  ASSUME IInv, Skip
  PROVE  IInv'
<1>1. /\ Types /\ Slices(chain) /\ PlaceIn(chain, index, offset)
      /\ index <= Len(chain)
      /\ FirstBytes(wire, Before(chain, index) + offset + left)
      /\ Before(chain, index) + offset + left <= Before(chain, Len(chain) + 1)
      /\ UNCHANGED <<pc, status, chain, wire, outbox>>
  BY DEF IInv, Progress, Skip, kernel
<1>2. /\ Len(chain) \in Nat /\ index \in 1 .. (Len(chain) + 1)
      /\ index \in 1 .. Len(chain) /\ offset \in Nat /\ left \in Nat
  BY <1>1 DEF Slices, PlaceIn, Types
<1>3. PICK b \in Nat, t \in Nat, e \in Nat :
        /\ b = Before(chain, index) /\ t = Before(chain, Len(chain) + 1)
        /\ e = chain[index] /\ e = Before(chain, index + 1)
  <2>1. /\ Before(chain, index) \in Nat /\ Before(chain, Len(chain) + 1) \in Nat
        /\ Before(chain, index + 1) = chain[index]
    BY <1>1, <1>2, BeforeOrdered
  <2>2. chain[index] \in Nat
    BY <1>1, <1>2 DEF Slices
  <2> QED BY <2>1, <2>2
<1>4. b + offset <= e
  BY <1>1, <1>3 DEF PlaceIn
<1>5. Size(index) = e - b
  BY <1>3, StartIsBefore, Zenon
<1>6. /\ PlaceIn(chain, index', offset') /\ left' \in Nat
      /\ Before(chain, index') + offset' + left' = b + offset + left
  <2>1. CASE left < (e - b) - offset
    <3>1. offset' = offset + left /\ left' = 0 /\ index' = index
      BY <1>5, <2>1 DEF Skip
    <3>2. b + (offset + left) <= e /\ offset + left \in Nat
          /\ b + (offset + left) + 0 = b + offset + left
      BY <1>2, <1>4, <2>1, SkipArithmetic
    <3>3. index # Len(chain) + 1
      BY <1>2
    <3> QED BY <1>2, <1>3, <3>1, <3>2, <3>3, Zenon DEF PlaceIn
  <2>2. CASE ~(left < (e - b) - offset)
    <3>1. left' = left - ((e - b) - offset) /\ index' = index + 1 /\ offset' = 0
      BY <1>5, <2>2 DEF Skip
    <3>2. /\ left - ((e - b) - offset) \in Nat
          /\ e + 0 + (left - ((e - b) - offset)) = b + offset + left
      BY <1>2, <1>4, <2>2, SkipArithmetic
    <3>3. index + 1 \in 1 .. (Len(chain) + 1) /\ e + 0 = e
      BY <1>2
    <3>4. index + 1 <= Len(chain) => e <= chain[index + 1]
      <4>1. index + 1 <= Len(chain) => index + 1 \in (index + 1) .. Len(chain)
        BY <1>2
      <4> QED BY <1>1, <1>3, <3>3, <4>1, BeforeOrdered
    <3>5. PlaceIn(chain, index + 1, 0)
      BY <1>3, <3>3, <3>4 DEF PlaceIn
    <3> QED BY <1>3, <3>1, <3>2, <3>5
  <2> QED BY <2>1, <2>2
<1>7. /\ index' \in Nat /\ offset' \in Nat
  BY <1>2, <1>6 DEF PlaceIn
<1>8. Types'
  BY <1>1, <1>6, <1>7 DEF Types
<1>9. Progress'
  <2>1. pc["write"] = "skip"
    BY DEF Skip
  <2>2. /\ FirstBytes(wire, Before(chain, index') + offset' + left')
        /\ Before(chain, index') + offset' + left' <= Before(chain, Len(chain) + 1)
    BY <1>1, <1>3, <1>6
  <2> QED BY <1>1, <1>6, <2>1, <2>2, Zenon DEF Progress, PlaceIn, FirstBytes, Before
<1>10. Slices(chain)' /\ Finished'
  BY <1>1 DEF Slices, Finished, IInv, Before
<1> QED BY <1>8, <1>9, <1>10 DEF IInv

\* When the loop over index is over, nothing is left.
LEMMA SkippedKeeps ==
  ASSUME IInv, Skipped
  PROVE  IInv'
<1>1. /\ Types /\ Slices(chain) /\ PlaceIn(chain, index, offset)
      /\ Before(chain, index) + offset + left <= Before(chain, Len(chain) + 1)
      /\ left = 0 \/ index > Len(chain)
      /\ UNCHANGED <<writing, outbox>> /\ Goto("write", "send")
  BY DEF IInv, Progress, Skipped, kernel
<1>2. left = 0
  <2> SUFFICES ASSUME index > Len(chain) PROVE left = 0
    BY <1>1
  <2>1. Len(chain) \in Nat /\ index \in 1 .. (Len(chain) + 1) /\ left \in Nat
    BY <1>1 DEF Slices, PlaceIn, Types
  <2>2. index = Len(chain) + 1
    BY <2>1
  <2>3. PICK t \in Nat : t = Before(chain, index)
    BY <1>1, <2>1, BeforeOrdered
  <2>4. t + 0 + left <= t
    BY <1>1, <2>2, <2>3 DEF PlaceIn
  <2> QED BY <2>1, <2>4
<1>3. "write" \in Calls
  BY DEF Calls
<1>4. Types'
  <2>1. /\ pc' \in [Calls -> {"idle", "poll", "recv", "send", "skip"}]
        /\ status' \in [Calls -> {"none", "Ok", "IoError", "Closed"}]
    BY <1>1, <1>3, CallTypes
  <2> QED BY <1>1, <2>1 DEF Types, writing
<1>5. pc'["write"] = "send"
  BY <1>1, <1>3 DEF Goto, Types
<1> QED BY <1>1, <1>2, <1>4, <1>5, NothingMoves

\* writeAll() returns Ok when no slice has a byte left: all are written.
LEMMA WriteDoneKeeps ==
  ASSUME IInv, WriteDone
  PROVE  IInv'
<1>1. /\ Types /\ Slices(chain) /\ PlaceIn(chain, index, offset) /\ left = 0
      /\ FirstBytes(wire, Before(chain, index) + offset + left)
      /\ index > Len(chain) \/ iov = {}
      /\ UNCHANGED <<writing, outbox>> /\ Return("write", "Ok")
  BY DEF IInv, Progress, WriteDone, kernel
<1>2. Len(chain) \in Nat /\ index \in 1 .. (Len(chain) + 1) /\ offset \in Nat
  BY <1>1 DEF Slices, PlaceIn
<1>3. PICK b \in Nat : b = Before(chain, index)
  BY <1>1, <1>2, BeforeOrdered
<1>4. Before(chain, index) + offset = Before(chain, Len(chain) + 1)
  <2>1. CASE index > Len(chain)
    <3>1. index = Len(chain) + 1
      BY <1>2, <2>1
    <3>2. offset = 0 /\ b + 0 = b
      BY <1>1, <3>1 DEF PlaceIn
    <3> QED BY <1>3, <3>1, <3>2
  <2>2. CASE iov = {}
    BY <1>1, <2>2, IovBegins
  <2> QED BY <1>1, <2>1, <2>2
<1>5. Len(wire) = Before(chain, Len(chain) + 1)
  <2>1. b + offset + 0 = b + offset
    BY <1>2
  <2> QED BY <1>1, <1>3, <1>4, <2>1 DEF FirstBytes
<1>6. "write" \in Calls
  BY DEF Calls
<1>7. Types'
  <2>1. /\ pc' \in [Calls -> {"idle", "poll", "recv", "send", "skip"}]
        /\ status' \in [Calls -> {"none", "Ok", "IoError", "Closed"}]
    BY <1>1, <1>6, CallTypes
  <2> QED BY <1>1, <2>1 DEF Types, writing
<1>8. Slices(chain)' /\ Progress'
  <2>1. Slices(chain')
    BY <1>1 DEF writing
  <2>2. Progress'
    BY <1>1, Zenon DEF IInv, Progress, PlaceIn, FirstBytes, Before, writing
  <2> QED BY <2>1, <2>2 DEF Slices
<1>9. Finished'
  BY <1>1, <1>5 DEF Finished, Before, writing
<1> QED BY <1>7, <1>8, <1>9 DEF IInv

\* close(): the next socket starts afresh.
LEMMA CloseKeeps ==
  ASSUME IInv, close
  PROVE  IInv'
<1>1. /\ chain' = <<>> /\ index' = 1 /\ offset' = 0 /\ left' = 0 /\ wire' = <<>>
      /\ pc' = pc /\ status' = NoResult(link') /\ outbox' = 0
  BY DEF close
<1>2. Types'
  <2>1. NoResult(link') \in [Calls -> {"none", "Ok", "IoError", "Closed"}]
    BY DEF NoResult
  <2> QED BY <1>1, <2>1 DEF IInv, Types
<1>3. (Slices(chain) /\ Progress /\ Finished)'
  <2>1. Before(<<>>, 1) = 0 /\ Len(<<>>) = 0 /\ <<>> \in Seq(Nat)
    BY DEF Before
  <2>2. Slices(<<>>)
    BY <2>1 DEF Slices
  <2>3. PlaceIn(<<>>, 1, 0) /\ FirstBytes(<<>>, 0)
    BY <2>1 DEF PlaceIn, FirstBytes
  <2>4. /\ PlaceIn(chain', index', offset')
        /\ FirstBytes(wire', Before(chain', index') + offset' + left')
        /\ Before(chain', index') + offset' + left' <= Before(chain', Len(chain') + 1)
    BY <1>1, <2>1, <2>3
  <2>5. Progress'
    BY <1>1, <2>4, Zenon DEF Progress, PlaceIn, FirstBytes, Before
  <2> QED BY <1>1, <2>2, <2>5, Zenon DEF Slices, Finished
<1> QED BY <1>2, <1>3, Zenon DEF IInv

\* writeAll() fails, is suspended, or is resumed.
LEMMA WriteWaits ==
  ASSUME IInv, WriteFails \/ WriteBlocks \/ WriteReady \/ WriteTimesOut
  PROVE  IInv'
<1>1. /\ Return("write", "IoError") \/ Goto("write", "poll") \/ Goto("write", "send")
      /\ UNCHANGED <<writing, outbox>> /\ pc["write"] # "skip"
  BY DEF WriteFails, WriteBlocks, WriteReady, WriteTimesOut, kernel
<1>2. "write" \in Calls
  BY DEF Calls
<1>3. Types'
  <2>1. /\ pc' \in [Calls -> {"idle", "poll", "recv", "send", "skip"}]
        /\ status' \in [Calls -> {"none", "Ok", "IoError", "Closed"}]
    BY <1>1, <1>2, CallTypes DEF IInv
  <2> QED BY <1>1, <2>1 DEF IInv, Types, writing
<1>4. left = 0
  BY <1>1 DEF IInv, Progress
<1>5. ~(pc'["write"] = "idle" /\ status'["write"] = "Ok")
  BY <1>1, <1>2 DEF Return, Goto, IInv, Types
<1> QED BY <1>1, <1>3, <1>4, <1>5, NothingMoves

\* The other calls and the other coroutines, the peer and the network.
LEMMA OthersKeep ==
  ASSUME IInv,
         \/ connectTo \/ ConnectEnds \/ ConnectTimesOut
         \/ readSome \/ Recv \/ ReadReady \/ ReadTimesOut
         \/ shutdownRead \/ shutdown \/ Network \/ UNCHANGED vars
  PROVE  IInv'
<1>1. "connect" \in Calls /\ "read" \in Calls /\ "connect" # "write" /\ "read" # "write"
  BY DEF Calls
<1>2. UNCHANGED writing /\ outbox' \in Nat
  BY DEF connectTo, ConnectEnds, ConnectTimesOut, readSome, Recv, ReadReady, ReadTimesOut,
         shutdownRead, shutdown, Network, Handshake, PeerSends, PeerCloses, PeerReads,
         Reset, vars, kernel, IInv, Types
<1>3. \/ UNCHANGED <<pc, status>>
      \/ \E c \in {"connect", "read"} :
           \/ \E st \in {"none", "Ok", "IoError", "Closed"} : Return(c, st)
           \/ \E place \in {"idle", "poll", "recv", "send", "skip"} : Goto(c, place)
  <2>1. CASE connectTo \/ ConnectEnds \/ ConnectTimesOut
    BY <2>1 DEF connectTo, ConnectEnds, ConnectTimesOut
  <2>2. CASE readSome \/ Recv \/ ReadReady \/ ReadTimesOut
    BY <2>2 DEF readSome, Recv, ReadReady, ReadTimesOut
  <2>3. CASE shutdownRead \/ shutdown \/ Network \/ UNCHANGED vars
    BY <2>3 DEF shutdownRead, shutdown, Network, Handshake, PeerSends, PeerCloses,
                PeerReads, Reset, vars
  <2> QED BY <2>1, <2>2, <2>3
<1>4. /\ pc' \in [Calls -> {"idle", "poll", "recv", "send", "skip"}]
      /\ status' \in [Calls -> {"none", "Ok", "IoError", "Closed"}]
      /\ pc'["write"] = pc["write"] /\ status'["write"] = status["write"]
  <2>1. CASE UNCHANGED <<pc, status>>
    BY <2>1 DEF IInv, Types
  <2>2. CASE ~UNCHANGED <<pc, status>>
    BY <1>1, <1>3, <2>2, CallTypes, OtherCalls DEF IInv
  <2> QED BY <2>1, <2>2
<1>5. Types'
  BY <1>2, <1>4 DEF IInv, Types, writing
<1>6. pc'["write"] = "skip" \/ left = 0
  BY <1>4 DEF IInv, Progress
<1> QED BY <1>2, <1>4, <1>5, <1>6, NothingMoves

\* Every step of the calls, their owner and the network keeps the invariant.
LEMMA NextInvariant == IInv /\ [Next]_vars => IInv'
<1> SUFFICES ASSUME IInv, [Next]_vars PROVE IInv'
  OBVIOUS
<1>1. CASE \E x \in Chains : writeAll(x)  BY <1>1, WriteBegins, Zenon
<1>2. CASE Send  BY <1>2, SendKeeps
<1>3. CASE Skip  BY <1>3, SkipKeeps
<1>4. CASE Skipped  BY <1>4, SkippedKeeps
<1>5. CASE WriteDone  BY <1>5, WriteDoneKeeps
<1>6. CASE close  BY <1>6, CloseKeeps
<1>7. CASE WriteFails \/ WriteBlocks \/ WriteReady \/ WriteTimesOut  BY <1>7, WriteWaits
<1>8. CASE \/ connectTo \/ ConnectEnds \/ ConnectTimesOut
           \/ readSome \/ Recv \/ ReadReady \/ ReadTimesOut
           \/ shutdownRead \/ shutdown \/ Network \/ UNCHANGED vars
  BY <1>8, OthersKeep
<1> QED BY <1>1, <1>2, <1>3, <1>4, <1>5, <1>6, <1>7, <1>8, Zenon
        DEF Next, Step, Timeout, Owner

\* The inductive invariant holds of every behaviour of the socket.
THEOREM Invariance == Spec => []IInv
<1> QED BY InitInvariant, NextInvariant, PTL DEF Spec

\* writeAll() sends the bytes of its chain in order, each once, and returns Ok
\* only when all of them are out, for any chain and however writev() cuts it.
THEOREM BytesInOrder == Spec => []SentInOrder
<1>1. IInv => SentInOrder
  <2> SUFFICES ASSUME IInv PROVE SentInOrder
    OBVIOUS
  <2>1. wire \in Seq(Nat) /\ \A k \in 1 .. Len(wire) : wire[k] = k
    BY DEF IInv, Types, Progress, FirstBytes
  <2>2. wire = [k \in 1 .. Len(wire) |-> k]
    BY <2>1
  <2>3. ASSUME pc["write"] = "idle", status["write"] = "Ok", chain # <<>>
        PROVE  Len(wire) = chain[Len(chain)]
    <3>1. chain \in Seq(Nat)
      BY DEF IInv, Slices
    <3>2. Len(chain) + 1 # 1 /\ Len(chain) + 1 - 1 = Len(chain)
      BY <2>3, <3>1
    <3> QED BY <2>3, <3>2 DEF IInv, Finished, Before
  <2> QED BY <2>2, <2>3 DEF SentInOrder
<1> QED BY <1>1, Invariance, PTL

=============================================================================
