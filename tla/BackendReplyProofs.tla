------------------------- MODULE BackendReplyProofs -------------------------
(***************************************************************************)
(* BackendInvariant, second part: the places the pending batches hold in   *)
(* the reply stream; replies are not reordered or shifted, and owners are  *)
(* owed what the queues hold.                                              *)
(***************************************************************************)
EXTENDS BackendLifeProofs

(* The pending queue *)

\* What dispatchReply() does to pending_queue_, entry by entry.
LEMMA FrontAnsweredEffect ==
  ASSUME NEW pq \in Seq(Pendings), pq # <<>>
  PROVE  /\ Head(pq) = pq[1] /\ pq[1] \in Pendings /\ Len(pq) \in Nat \ {0}
         /\ pq[1].remaining_replies = 1 =>
              /\ Len(FrontAnswered(pq)) = Len(pq) - 1
              /\ \A i \in 1 .. Len(pq) - 1 : FrontAnswered(pq)[i] = pq[i + 1]
         /\ pq[1].remaining_replies # 1 =>
              /\ Len(FrontAnswered(pq)) = Len(pq)
              /\ FrontAnswered(pq)[1].owner = pq[1].owner
              /\ FrontAnswered(pq)[1].upto = pq[1].upto
              /\ FrontAnswered(pq)[1].remaining_replies =
                   pq[1].remaining_replies - 1
              /\ \A i \in 2 .. Len(pq) : FrontAnswered(pq)[i] = pq[i]
<1>1. Head(pq) = pq[1] /\ pq[1] \in Pendings /\ Len(pq) \in Nat \ {0}
  OBVIOUS
<1>2. CASE pq[1].remaining_replies = 1
  <2>1. FrontAnswered(pq) = Tail(pq)
    BY <1>1, <1>2 DEF FrontAnswered
  <2>2. QED
    BY <1>1, <1>2, <2>1
<1>3. CASE pq[1].remaining_replies # 1
  <2>1. FrontAnswered(pq) = [pq EXCEPT ![1] = OneReplyLess(pq[1])]
    BY <1>1, <1>3 DEF FrontAnswered
  <2>2. Len(FrontAnswered(pq)) = Len(pq)
    BY <1>1, <2>1
  <2>3. FrontAnswered(pq)[1] = OneReplyLess(pq[1])
    BY <1>1, <2>1
  <2>4. \A i \in 2 .. Len(pq) : FrontAnswered(pq)[i] = pq[i]
    BY <1>1, <2>1
  <2>5. QED
    BY <1>1, <1>3, <2>2, <2>3, <2>4 DEF OneReplyLess
<1>4. QED
  BY <1>1, <1>2, <1>3

\* The fields of an entry of the pending queue.
LEMMA EntryTypes ==
  ASSUME NEW pq \in Seq(Pendings)
  PROVE  /\ Len(pq) \in Nat /\ (pq # <<>> => 1 \in 1 .. Len(pq) /\ Head(pq) = pq[1])
         /\ \A i \in 1 .. Len(pq) : /\ pq[i].remaining_replies \in Nat \ {0}
                                    /\ pq[i].upto \in Nat /\ pq[i].owner \in Sinks
<1>1. \A i \in 1 .. Len(pq) : pq[i] \in Pendings
  OBVIOUS
<1>2. \A i \in 1 .. Len(pq) : /\ pq[i].remaining_replies \in Nat \ {0}
                              /\ pq[i].upto \in Nat /\ pq[i].owner \in Sinks
  BY <1>1 DEF Pendings
<1>3. Len(pq) \in Nat /\ (pq # <<>> => 1 \in 1 .. Len(pq) /\ Head(pq) = pq[1])
  OBVIOUS
<1>4. QED
  BY <1>2, <1>3

\* The front batch covers the position of the next reply.
LEMMA FrontCovers ==
  ASSUME NEW pq \in Seq(Pendings), pq # <<>>, NEW a \in Nat, NEW n \in Nat,
         Partitioned(pq, a, n)
  PROVE  pq[1].upto = a + pq[1].remaining_replies /\ a + 1 <= n
<1>1. /\ 1 \in 1 .. Len(pq) /\ Len(pq) \in Nat
      /\ \A i \in 1 .. Len(pq) : pq[i].remaining_replies \in Nat \ {0} /\ pq[i].upto \in Nat
  BY EntryTypes
<1>2. a + pq[1].remaining_replies <= pq[1].upto /\ pq[1].upto <= n
  BY <1>1 DEF Partitioned
<1>3. a + 1 <= pq[1].upto
  BY <1>1, <1>2
<1>4. a + 1 \in (a + 1) .. n
  BY <1>1, <1>2, <1>3
<1>5. PICK i \in 1 .. Len(pq) : a + 1 \in SlotsOf(pq[i])
  BY <1>4 DEF Partitioned
<1>6. pq[i].upto - pq[i].remaining_replies + 1 <= a + 1
  BY <1>1, <1>5 DEF SlotsOf
<1>7. i = 1
  <2>1. SUFFICES ASSUME 1 < i
                 PROVE  FALSE
    BY <1>1
  <2>2. pq[1].upto + pq[i].remaining_replies <= pq[i].upto
    BY <1>1, <2>1 DEF Partitioned
  <2>3. PICK u \in Nat, v \in Nat, r \in Nat \ {0} :
          u = pq[1].upto /\ v = pq[i].upto /\ r = pq[i].remaining_replies
    BY <1>1
  <2>4. a + 1 <= u /\ u + r <= v /\ v - r + 1 <= a + 1
    BY <1>3, <1>6, <2>2, <2>3
  <2>5. QED
    BY <2>4
<1>8. pq[1].upto - pq[1].remaining_replies + 1 <= a + 1
  BY <1>6, <1>7
<1>9. a + 1 <= n
  BY <1>4
<1>10. pq[1].upto = a + pq[1].remaining_replies
  <2>1. pq[1].upto \in Nat /\ pq[1].remaining_replies \in Nat
    BY <1>1
  <2>2. QED
    BY <1>2, <1>8, <2>1
<1>11. QED
  BY <1>9, <1>10

\* o owns position k of the reply stream.
Holds(pq, k, o) ==
  \E i \in 1 .. Len(pq) : pq[i].owner = o /\ k \in SlotsOf(pq[i])

\* A reply takes away the first unanswered position and nothing else.
LEMMA FrontAnsweredSlots ==
  ASSUME NEW pq \in Seq(Pendings), pq # <<>>, NEW a \in Nat, NEW n \in Nat,
         Partitioned(pq, a, n)
  PROVE  /\ Partitioned(FrontAnswered(pq), a + 1, n)
         /\ \A k, o : Holds(FrontAnswered(pq), k, o) <=>
                        Holds(pq, k, o) /\ k # a + 1
         /\ \A o : Holds(pq, a + 1, o) <=> o = Head(pq).owner
<1> DEFINE fa == FrontAnswered(pq)
<1>1. /\ Len(pq) \in Nat /\ 1 \in 1 .. Len(pq) /\ Head(pq) = pq[1]
      /\ \A i \in 1 .. Len(pq) : pq[i].remaining_replies \in Nat \ {0} /\ pq[i].upto \in Nat
  BY EntryTypes
<1>2. pq[1].upto = a + pq[1].remaining_replies /\ a + 1 <= n
  BY FrontCovers
<1>3. \A i \in 2 .. Len(pq) : pq[1].upto + pq[i].remaining_replies <= pq[i].upto
  BY <1>1 DEF Partitioned
<1>4. \A i \in 2 .. Len(pq) : a + 1 \notin SlotsOf(pq[i])
  <2>1. SUFFICES ASSUME NEW i \in 2 .. Len(pq), a + 1 \in SlotsOf(pq[i])
                 PROVE  FALSE
    OBVIOUS
  <2>2. i \in 1 .. Len(pq) /\ pq[i].remaining_replies \in Nat /\ pq[i].upto \in Nat
    BY <1>1
  <2>3. pq[1].upto \in Nat /\ pq[1].remaining_replies \in Nat \ {0}
    BY <1>1
  <2>4. pq[1].upto + pq[i].remaining_replies <= pq[i].upto
    BY <1>3
  <2>5. pq[i].upto - pq[i].remaining_replies + 1 <= a + 1
    BY <2>1, <2>2 DEF SlotsOf
  <2>6. PICK u, v, r \in Nat : u = pq[1].upto /\ v = pq[i].upto /\ r = pq[i].remaining_replies
    BY <2>2, <2>3
  <2>7. u + r <= v /\ v - r + 1 <= a + 1
    BY <2>4, <2>5, <2>6
  <2>8. a + 1 <= u
    BY <1>2, <2>3, <2>6
  <2>9. QED
    BY <2>7, <2>8
<1>5. a + 1 \in SlotsOf(pq[1])
  BY <1>1, <1>2 DEF SlotsOf
<1>6. \A o : Holds(pq, a + 1, o) <=> o = Head(pq).owner
  BY <1>1, <1>4, <1>5 DEF Holds
<1>7. CASE pq[1].remaining_replies = 1
  <2>1. Len(fa) = Len(pq) - 1 /\ \A i \in 1 .. Len(pq) - 1 : fa[i] = pq[i + 1]
    BY <1>7, FrontAnsweredEffect
  <2>2. SlotsOf(pq[1]) = {a + 1}
    BY <1>1, <1>2, <1>7 DEF SlotsOf
  <2> HIDE DEF fa
  <2>3. ASSUME NEW k, NEW o
        PROVE  Holds(fa, k, o) <=> Holds(pq, k, o) /\ k # a + 1
    <3>1. ASSUME Holds(fa, k, o) PROVE Holds(pq, k, o) /\ k # a + 1
      <4>1. PICK i \in 1 .. Len(fa) : fa[i].owner = o /\ k \in SlotsOf(fa[i])
        BY <3>1 DEF Holds
      <4>2. i + 1 \in 2 .. Len(pq) /\ i + 1 \in 1 .. Len(pq) /\ fa[i] = pq[i + 1]
        BY <1>1, <2>1
      <4>3. QED
        BY <1>4, <4>1, <4>2 DEF Holds
    <3>2. ASSUME Holds(pq, k, o), k # a + 1 PROVE Holds(fa, k, o)
      <4>1. PICK i \in 1 .. Len(pq) : pq[i].owner = o /\ k \in SlotsOf(pq[i])
        BY <3>2 DEF Holds
      <4>2. i # 1
        BY <2>2, <3>2, <4>1
      <4>3. i - 1 \in 1 .. Len(fa) /\ fa[i - 1] = pq[i]
        BY <1>1, <2>1, <4>2
      <4>4. QED
        BY <4>1, <4>3 DEF Holds
    <3>3. QED
      BY <3>1, <3>2
  <2>4. Partitioned(fa, a + 1, n)
    <3>1. pq[1].upto = a + 1
      BY <1>1, <1>2, <1>7
    <3>2. ASSUME NEW i \in 1 .. Len(fa)
          PROVE  /\ i + 1 \in 2 .. Len(pq) /\ i + 1 \in 1 .. Len(pq)
                 /\ fa[i] = pq[i + 1]
                 /\ a + 1 + fa[i].remaining_replies <= fa[i].upto /\ fa[i].upto <= n
      <4>1. i + 1 \in 2 .. Len(pq) /\ i + 1 \in 1 .. Len(pq) /\ fa[i] = pq[i + 1]
        BY <1>1, <2>1
      <4>2. QED
        BY <1>3, <3>1, <4>1 DEF Partitioned
    <3>3. ASSUME NEW i \in 1 .. Len(fa), NEW j \in 1 .. Len(fa), i < j
          PROVE  fa[i].upto + fa[j].remaining_replies <= fa[j].upto
      <4>1. i + 1 < j + 1
        BY <1>1, <2>1, <3>3
      <4>2. QED
        BY <3>2, <4>1 DEF Partitioned
    <3>4. ASSUME NEW k \in (a + 1 + 1) .. n
          PROVE  \E i \in 1 .. Len(fa) : k \in SlotsOf(fa[i])
      <4>1. k \in (a + 1) .. n /\ k # a + 1
        OBVIOUS
      <4>2. \E o : Holds(pq, k, o)
        BY <4>1 DEF Partitioned, Holds
      <4>3. \E o : Holds(fa, k, o)
        BY <2>3, <4>1, <4>2
      <4>4. QED
        BY <4>3 DEF Holds
    <3>5. QED
      BY <1>2, <3>2, <3>3, <3>4 DEF Partitioned
  <2>5. QED
    BY <1>6, <2>3, <2>4 DEF fa
<1>8. CASE pq[1].remaining_replies # 1
  <2>1. /\ Len(fa) = Len(pq) /\ \A i \in 2 .. Len(pq) : fa[i] = pq[i]
        /\ fa[1].owner = pq[1].owner /\ fa[1].upto = pq[1].upto
        /\ fa[1].remaining_replies = pq[1].remaining_replies - 1
    BY <1>8, FrontAnsweredEffect
  <2> HIDE DEF fa
  <2>2. SlotsOf(fa[1]) = SlotsOf(pq[1]) \ {a + 1}
    <3>1. pq[1].remaining_replies \in Nat \ {0} /\ pq[1].upto \in Nat
      BY <1>1
    <3>2. SlotsOf(pq[1]) = (a + 1) .. pq[1].upto
      BY <1>2, <3>1 DEF SlotsOf
    <3>3. SlotsOf(fa[1]) = (a + 2) .. pq[1].upto
      BY <1>2, <2>1, <3>1 DEF SlotsOf
    <3>4. QED
      BY <3>1, <3>2, <3>3
  <2>3. ASSUME NEW i \in 1 .. Len(pq)
        PROVE  /\ fa[i].owner = pq[i].owner /\ fa[i].upto = pq[i].upto
               /\ SlotsOf(fa[i]) = SlotsOf(pq[i]) \ {a + 1}
               /\ fa[i].remaining_replies <= pq[i].remaining_replies
               /\ a + 1 + fa[i].remaining_replies <= fa[i].upto
               /\ fa[i].remaining_replies \in Nat
    <3>1. CASE i = 1
      BY <1>1, <1>2, <2>1, <2>2, <3>1
    <3>2. CASE i # 1
      <4>1. i \in 2 .. Len(pq) /\ fa[i] = pq[i]
        BY <2>1, <3>2
      <4>2. /\ pq[1].remaining_replies \in Nat \ {0} /\ pq[1].upto \in Nat
            /\ pq[i].remaining_replies \in Nat \ {0} /\ pq[i].upto \in Nat
        BY <1>1
      <4>3. a + 1 + pq[i].remaining_replies <= pq[i].upto
        <5>1. PICK u, v, r \in Nat :
                u = pq[1].upto /\ v = pq[i].upto /\ r = pq[i].remaining_replies
          BY <4>2
        <5>2. u + r <= v
          BY <1>3, <4>1, <5>1
        <5>3. a + 1 <= u
          BY <1>2, <4>2, <5>1
        <5>4. a + 1 + r <= v
          BY <5>2, <5>3
        <5>5. QED
          BY <5>1, <5>4
      <4>4. QED
        BY <1>4, <4>1, <4>2, <4>3
    <3>3. QED
      BY <3>1, <3>2
  <2>4. \A k, o : Holds(fa, k, o) <=> Holds(pq, k, o) /\ k # a + 1
    BY <2>1, <2>3, Zenon DEF Holds
  <2>5. Partitioned(fa, a + 1, n)
    <3>1. \A i \in 1 .. Len(fa) :
            a + 1 + fa[i].remaining_replies <= fa[i].upto /\ fa[i].upto <= n
      BY <2>1, <2>3 DEF Partitioned
    <3>2. ASSUME NEW i \in 1 .. Len(fa), NEW j \in 1 .. Len(fa), i < j
          PROVE  fa[i].upto + fa[j].remaining_replies <= fa[j].upto
      <4>1. pq[i].upto + pq[j].remaining_replies <= pq[j].upto
        BY <2>1, <3>2 DEF Partitioned
      <4>2. fa[j] = pq[j]
        BY <1>1, <2>1, <3>2
      <4>3. QED
        BY <2>1, <2>3, <4>1, <4>2
    <3>3. ASSUME NEW k \in (a + 1 + 1) .. n
          PROVE  \E i \in 1 .. Len(fa) : k \in SlotsOf(fa[i])
      <4>1. k \in (a + 1) .. n /\ k # a + 1
        OBVIOUS
      <4>2. PICK i \in 1 .. Len(pq) : k \in SlotsOf(pq[i])
        BY <4>1 DEF Partitioned
      <4>3. QED
        BY <2>1, <2>3, <4>1, <4>2
    <3>4. QED
      BY <1>2, <3>1, <3>2, <3>3, Zenon DEF Partitioned
  <2>6. QED
    BY <1>6, <2>4, <2>5 DEF fa
<1>9. QED
  BY <1>1, <1>7, <1>8

\* detachOwner() leaves the division of the reply stream as it is.
LEMMA DisownedSlots ==
  ASSUME NEW pq \in Seq(Pendings), NEW o \in Owners
  PROVE  /\ \A a, n : Partitioned(pq, a, n) => Partitioned(Disowned(pq, o), a, n)
         /\ \A k : \A p \in Owners :
              Holds(Disowned(pq, o), k, p) <=> p # o /\ Holds(pq, k, p)
<1> DEFINE dq == Disowned(pq, o)
<1>1. /\ Len(dq) = Len(pq)
      /\ \A i \in 1 .. Len(pq) :
           /\ dq[i].owner = IF pq[i].owner = o THEN NoOwner ELSE pq[i].owner
           /\ dq[i].remaining_replies = pq[i].remaining_replies
           /\ dq[i].upto = pq[i].upto
  BY DisownedType
<1> HIDE DEF dq
<1>2. \A i \in 1 .. Len(pq) : SlotsOf(dq[i]) = SlotsOf(pq[i])
  BY <1>1 DEF SlotsOf
<1>3. \A a, n : Partitioned(pq, a, n) => Partitioned(dq, a, n)
  BY <1>1, <1>2 DEF Partitioned
<1>4. \A k : \A p \in Owners : Holds(dq, k, p) <=> p # o /\ Holds(pq, k, p)
  BY <1>1, <1>2, OwnersAssumption DEF Holds
<1>5. QED
  BY <1>3, <1>4 DEF dq

\* A started batch holds the positions after the n started before it.
LEMMA AppendedHolds ==
  ASSUME NEW pq \in Seq(Pendings), NEW qq, NEW n \in Nat, NEW o,
         NEW c \in Nat \ {0}, Appended(qq, pq, o, c, n), NEW k, NEW p
  PROVE  Holds(qq, k, p) <=>
           Holds(pq, k, p) \/ (p = o /\ k \in (n + 1) .. (n + c))
<1>1. Len(pq) \in Nat /\ Len(qq) = Len(pq) + 1
  BY DEF Appended
<1> DEFINE z == Len(pq) + 1
<1>2. /\ qq[z].owner = o /\ qq[z].remaining_replies = c /\ qq[z].upto = n + c
      /\ z \in 1 .. Len(qq)
  BY <1>1 DEF Appended
<1>3. SlotsOf(qq[z]) = (n + 1) .. (n + c)
  BY <1>2 DEF SlotsOf
<1>4. \A i \in 1 .. Len(qq) : i = z \/ i \in 1 .. Len(pq)
  BY <1>1
<1>5. \A i \in 1 .. Len(pq) : i \in 1 .. Len(qq) /\ qq[i] = pq[i]
  BY <1>1 DEF Appended
<1> HIDE DEF z
<1>6. QED
  BY <1>2, <1>3, <1>4, <1>5, Zenon DEF Holds

\* The positions of a started batch extend the division of the stream.
LEMMA AppendedSlots ==
  ASSUME NEW pq \in Seq(Pendings), NEW qq, NEW a \in Nat, NEW n \in Nat,
         Partitioned(pq, a, n), NEW o, NEW c \in Nat \ {0}, Appended(qq, pq, o, c, n)
  PROVE  Partitioned(qq, a, n + c)
<1>1. /\ Len(pq) \in Nat
      /\ \A i \in 1 .. Len(pq) : /\ pq[i].remaining_replies \in Nat \ {0}
                                 /\ pq[i].upto \in Nat
  BY EntryTypes, Zenon
<1>a. /\ Len(qq) = Len(pq) + 1 /\ \A i \in 1 .. Len(pq) : qq[i] = pq[i]
      /\ qq[Len(pq) + 1] = [owner |-> o, remaining_replies |-> c, upto |-> n + c]
  BY DEF Appended
<1> DEFINE z == Len(pq) + 1
<1>2. /\ qq[z].owner = o /\ qq[z].remaining_replies = c /\ qq[z].upto = n + c
      /\ z \in Nat /\ z \in 1 .. Len(qq)
  BY <1>1, <1>a
<1>3. SlotsOf(qq[z]) = (n + 1) .. (n + c)
  BY <1>2 DEF SlotsOf
<1>4. \A i \in 1 .. Len(qq) : i = z \/ (i \in 1 .. Len(pq) /\ qq[i] = pq[i])
  BY <1>1, <1>a
<1>5. 1 .. Len(pq) \subseteq 1 .. Len(qq)
  BY <1>1, <1>a
<1> HIDE DEF z
<1>7. /\ a <= n
      /\ \A i \in 1 .. Len(pq) :
           a + pq[i].remaining_replies <= pq[i].upto /\ pq[i].upto <= n
      /\ \A i, j \in 1 .. Len(pq) :
           i < j => pq[i].upto + pq[j].remaining_replies <= pq[j].upto
      /\ \A k \in (a + 1) .. n : \E i \in 1 .. Len(pq) : k \in SlotsOf(pq[i])
  BY DEF Partitioned
<1>8. ASSUME NEW i \in 1 .. Len(qq)
      PROVE  a + qq[i].remaining_replies <= qq[i].upto /\ qq[i].upto <= n + c
  <2>1. CASE i = z
    BY <1>2, <1>7, <2>1
  <2>2. CASE i \in 1 .. Len(pq) /\ qq[i] = pq[i]
    <3>1. pq[i].upto \in Nat /\ pq[i].upto <= n
      BY <1>1, <1>7, <2>2
    <3>2. pq[i].upto <= n + c
      BY <3>1
    <3>3. QED
      BY <1>7, <2>2, <3>2
  <2>3. QED
    BY <1>4, <2>1, <2>2
<1>9. ASSUME NEW i \in 1 .. Len(qq), NEW j \in 1 .. Len(qq), i < j
      PROVE  qq[i].upto + qq[j].remaining_replies <= qq[j].upto
  <2>1. i \in 1 .. Len(pq) /\ qq[i] = pq[i]
    BY <1>1, <1>4, <1>9, <1>a DEF z
  <2>2. CASE j = z
    <3>1. pq[i].upto \in Nat /\ pq[i].upto <= n
      BY <1>1, <1>7, <2>1, Zenon
    <3>2. pq[i].upto + c <= n + c
      BY <3>1
    <3>3. QED
      BY <1>2, <2>1, <2>2, <3>2
  <2>3. CASE j \in 1 .. Len(pq) /\ qq[j] = pq[j]
    BY <1>7, <1>9, <2>1, <2>3, Zenon
  <2>4. QED
    BY <1>4, <2>2, <2>3, Zenon
<1>10. ASSUME NEW k \in (a + 1) .. (n + c)
       PROVE  \E i \in 1 .. Len(qq) : k \in SlotsOf(qq[i])
  <2>1. CASE k <= n
    <3>1. k \in (a + 1) .. n
      BY <2>1
    <3>2. PICK i \in 1 .. Len(pq) : k \in SlotsOf(pq[i])
      BY <1>7, <3>1, Zenon
    <3>3. QED
      BY <1>5, <1>a, <3>2, Zenon
  <2>2. CASE ~(k <= n)
    <3>1. k \in (n + 1) .. (n + c)
      BY <2>2
    <3>2. QED
      BY <1>2, <1>3, <3>1
  <2>3. QED
    BY <2>1, <2>2
<1>11. a <= n + c
  BY <1>7
<1>12. QED
  BY <1>8, <1>9, <1>10, <1>11, Zenon DEF Partitioned

\* The commands an owner waits for are those at the positions it holds.
LEMMA StartedHolds ==
  ASSUME NEW cmds, NEW pq \in Seq(Pendings), NEW o, NEW x
  PROVE  x \in StartedOf(cmds, pq, o) <=> \E k : Holds(pq, k, o) /\ x = cmds[k]
BY StartedElements DEF Holds

\* What dispatchReply() does to the reply stream and the two queues.
LEMMA DispatchEffect ==
  ASSUME TypesButLoad, NEW leaves \in BOOLEAN, dispatchReply(leaves)
  PROVE  /\ isHealthy /\ pending_queue # <<>> /\ redis_in # <<>>
         /\ pending_queue \in Seq(Pendings) /\ answered' = answered + 1
         /\ stream' = stream /\ accepted' = accepted
         /\ FrontAnswered(pending_queue) \in Seq(Pendings)
         /\ ~leaves => /\ pending_queue' = FrontAnswered(pending_queue)
                       /\ write_queue' = write_queue
         /\ leaves => /\ Head(pending_queue).owner \in Owners
                      /\ pending_queue' = Disowned(FrontAnswered(pending_queue),
                                                   Head(pending_queue).owner)
                      /\ write_queue' =
                           WithoutOwner(write_queue, Head(pending_queue).owner)
<1>1. pending_queue \in Seq(Pendings) /\ pending_queue # <<>>
  BY Zenon DEF TypesButLoad, dispatchReply
<1>2. Head(pending_queue).owner \in Sinks
  BY <1>1, EntryTypes
<1>3. leaves => Head(pending_queue).owner \in Owners
  BY <1>2, Zenon DEF dispatchReply, Sinks
<1>4. FrontAnswered(pending_queue) \in Seq(Pendings)
  BY <1>1, FrontAnsweredType
<1>5. QED
  BY <1>1, <1>3, <1>4, Zenon DEF dispatchReply, ReplyParsed

\* Every step that changes the pending queue or the reply stream keeps the
\* division of the one among the other.
LEMMA SlotsPartitionedStep ==
  ASSUME TypesButLoad, LifeCycle, OwedIsQueued, SlotsPartitioned, [Next]_vars
  PROVE  SlotsPartitioned'
<1> SUFFICES ASSUME isHealthy'
             PROVE  Partitioned(pending_queue', answered', Len(stream'))
  BY DEF SlotsPartitioned, Partitioned, SlotsOf
<1>t. /\ pending_queue \in Seq(Pendings) /\ stream \in Seq(Nat)
      /\ answered \in Nat /\ Len(stream) \in Nat
  BY DEF TypesButLoad
<1>p. isHealthy => Partitioned(pending_queue, answered, Len(stream))
  BY DEF SlotsPartitioned
<1>1. CASE UNCHANGED queueVars /\ isHealthy
  BY <1>1, <1>p DEF queueVars, queues
<1>2. CASE UNCHANGED queueVars /\ ConnectSucceeds
  <2>1. pending_queue' = <<>> /\ answered' = 0 /\ Len(stream') = 0 /\ Len(pending_queue') = 0
    BY <1>2 DEF queueVars, queues, ConnectSucceeds, LifeCycle, Connected, isHealthy
  <2>2. QED
    BY <2>1 DEF Partitioned
<1>3. ASSUME isHealthy, NEW o \in Owners, NEW n \in 0 .. MaxBatch, submit(o, n)
      PROVE  Partitioned(pending_queue', answered', Len(stream'))
  BY <1>3, <1>p DEF submit, wire
<1>4. ASSUME isHealthy, NEW o \in Owners, detachOwner(o)
      PROVE  Partitioned(pending_queue', answered', Len(stream'))
  <2>1. pending_queue' = Disowned(pending_queue, o) /\ answered' = answered /\ stream' = stream
    BY <1>4 DEF detachOwner, wire
  <2>2. Partitioned(Disowned(pending_queue, o), answered, Len(stream))
    BY <1>4, <1>p, <1>t, DisownedSlots
  <2>3. QED
    BY <2>1, <2>2
<1>5. ASSUME isHealthy, WriterStarts
      PROVE  Partitioned(pending_queue', answered', Len(stream'))
  <2>1. PICK b \in write_queue :
           /\ b \in Batches
           /\ Len(stream') = Len(stream) + b.command_count
           /\ Appended(pending_queue', pending_queue, b.owner, b.command_count,
                       Len(stream))
    BY <1>5, StartEffect
  <2>2. b.command_count \in Nat \ {0} /\ answered' = answered
    BY <1>5, <2>1 DEF Batches, WriterStarts
  <2>3. Partitioned(pending_queue', answered, Len(stream) + b.command_count)
    BY <1>5, <1>p, <1>t, <2>1, <2>2, AppendedSlots, Zenon
  <2>4. QED
    BY <2>1, <2>2, <2>3
<1>6. ASSUME isHealthy, NEW leaves \in BOOLEAN, dispatchReply(leaves)
      PROVE  Partitioned(pending_queue', answered', Len(stream'))
  <2> DEFINE fa == FrontAnswered(pending_queue)
  <2>1. Partitioned(fa, answered + 1, Len(stream))
    BY <1>6, <1>p, <1>t, DispatchEffect, FrontAnsweredSlots
  <2>2. fa \in Seq(Pendings) /\ answered' = answered + 1 /\ stream' = stream
    BY <1>6, DispatchEffect
  <2>3. CASE leaves
    <3>1. PICK o \in Owners : pending_queue' = Disowned(fa, o)
      BY <1>6, <2>3, DispatchEffect, Zenon
    <3> HIDE DEF fa
    <3>2. Partitioned(Disowned(fa, o), answered + 1, Len(stream))
      BY <2>1, <2>2, DisownedSlots
    <3>3. QED
      BY <2>2, <3>1, <3>2
  <2>4. CASE ~leaves
    BY <1>6, <2>1, <2>2, <2>4, DispatchEffect
  <2>5. QED
    BY <2>3, <2>4
<1>7. QED
  BY <1>1, <1>2, <1>3, <1>4, <1>5, <1>6, ReadySteps

-----------------------------------------------------------------------------
(* The replies *)

replyVars == <<emitted, answered, redis_in, inbound, partial, spoiled>>

\* The steps that move replies on a connection that stays Ready.
LEMMA ReplySteps ==
  ASSUME TypesButLoad, LifeCycle, OwedIsQueued, [Next]_vars, isHealthy', ~spoiled'
  PROVE  \/ /\ UNCHANGED replyVars
            /\ (isHealthy /\ (UNCHANGED stream \/ WriterStarts)) \/ ConnectSucceeds
         \/ isHealthy /\ \/ \E k \in 0 .. Len(inbound), half \in BOOLEAN : ReadSome(k, half)
                         \/ \E leaves \in BOOLEAN : dispatchReply(leaves)
                         \/ RedisAnswers
<1> USE DEF replyVars, isHealthy
<1>1. CASE start \/ stop
  BY <1>1, FailEffect DEF start, stop
<1>2. CASE RunLoop \/ ConnectFails \/ WriterJoins
  BY <1>2 DEF RunLoop, ConnectFails, WriterJoins, Teardown, LifeCycle, Connected
<1>3. CASE ConnectSucceeds
  BY <1>3 DEF ConnectSucceeds, wire, input
<1>4. CASE WriteFails \/ ReadFails \/ ParserFails \/ UnexpectedReply
  BY <1>4, FailEffect DEF WriteFails, ReadFails, ParserFails, UnexpectedReply
<1>5. CASE WriterWaits \/ WriterWakes \/ Writes \/ WriterStarts
  BY <1>5 DEF WriterWaits, WriterWakes, Writes, WriterStarts, wire, input
<1>6. CASE ReaderStarts \/ ParserNeedsMore \/ ReaderEnds
  BY <1>6 DEF ReaderStarts, ParserNeedsMore, ReaderEnds, wire, input
<1>7. (\E k \in 0 .. Len(inbound), half \in BOOLEAN : ReadSome(k, half)) => isHealthy
  BY DEF ReadSome
<1>8. CASE RedisAnswers \/ RedisSpoils
  BY <1>8 DEF RedisAnswers, RedisSpoils
<1>9. CASE UNCHANGED vars
  BY <1>9 DEF vars, wire, input
<1>10. ASSUME NEW o \in Owners, NEW n \in 0 .. MaxBatch, submit(o, n)
       PROVE  UNCHANGED replyVars /\ UNCHANGED stream /\ isHealthy
  BY <1>10 DEF submit, wire, input
<1>11. ASSUME NEW o \in Owners, detachOwner(o)
       PROVE  UNCHANGED replyVars /\ UNCHANGED stream /\ isHealthy
  BY <1>11 DEF detachOwner, wire, input
<1>12. (\E leaves \in BOOLEAN : dispatchReply(leaves)) => isHealthy
  BY DEF dispatchReply, ReplyParsed
<1>13. QED
  BY <1>1, <1>2, <1>3, <1>4, <1>5, <1>6, <1>7, <1>8, <1>9, <1>10, <1>11, <1>12
  DEF Next, RunStep, ReaderStep

\* Replies are neither reordered nor shifted on their way from Redis to
\* dispatchReply(), however the reads split them.
LEMMA RepliesAlignedStep ==
  ASSUME TypesButLoad, LifeCycle, OwedIsQueued, WireBounds, RepliesAligned, [Next]_vars
  PROVE  RepliesAligned'
<1> SUFFICES ASSUME isHealthy', ~spoiled'
             PROVE  RepliesAligned'
  BY DEF RepliesAligned
<1>t. /\ stream \in Seq(Nat) /\ redis_in \in Seq(Int) /\ inbound \in Seq(Int)
      /\ answered \in Nat /\ emitted \in Nat /\ written \in Nat
      /\ Len(stream) \in Nat /\ Len(redis_in) \in Nat /\ Len(inbound) \in Nat
  BY DEF TypesButLoad
<1>r. isHealthy /\ ~spoiled =>
        /\ emitted = answered + Len(redis_in) + Len(inbound)
        /\ \A j \in 1 .. Len(redis_in) : redis_in[j] = stream[answered + j]
        /\ \A j \in 1 .. Len(inbound) :
             inbound[j] = stream[answered + Len(redis_in) + j]
        /\ partial # Nothing => Len(inbound) > 0 /\ partial = inbound[1]
  BY DEF RepliesAligned
<1>1. CASE UNCHANGED replyVars /\ isHealthy /\ UNCHANGED stream
  BY <1>1, <1>r DEF replyVars, RepliesAligned
<1>2. CASE UNCHANGED replyVars /\ ConnectSucceeds
  <2>1. /\ emitted' = 0 /\ answered' = 0 /\ redis_in' = <<>> /\ inbound' = <<>>
        /\ partial' = Nothing
    BY <1>2 DEF replyVars, ConnectSucceeds, LifeCycle, Connected
  <2>2. QED
    BY <2>1 DEF RepliesAligned
<1>3. CASE UNCHANGED replyVars /\ isHealthy /\ WriterStarts
  <2>1. \A i \in 1 .. Len(stream) : stream'[i] = stream[i]
    BY <1>3, StartEffect
  <2>2. /\ answered + Len(redis_in) + Len(inbound) <= Len(stream)
        /\ UNCHANGED replyVars /\ ~spoiled
    BY <1>t, <1>3, <1>r DEF WireBounds, replyVars
  <2>3. \A j \in 1 .. Len(redis_in) : answered + j \in 1 .. Len(stream)
    BY <1>t, <2>2
  <2>4. \A j \in 1 .. Len(inbound) : answered + Len(redis_in) + j \in 1 .. Len(stream)
    BY <1>t, <2>2
  <2>5. QED
    BY <1>3, <1>r, <2>1, <2>2, <2>3, <2>4, Zenon DEF RepliesAligned, replyVars
<1>4. ASSUME isHealthy, NEW k \in 0 .. Len(inbound), NEW half \in BOOLEAN, ReadSome(k, half)
      PROVE  RepliesAligned'
  <2>1. /\ redis_in = <<>> /\ Len(redis_in) = 0 /\ ~spoiled
        /\ UNCHANGED <<stream, emitted, answered>>
        /\ redis_in' = redis_in \o Frames(k)
        /\ inbound' = SubSeq(inbound, k + 1, Len(inbound))
        /\ partial' = IF half THEN inbound[k + 1] ELSE Nothing
        /\ half => k < Len(inbound)
    BY <1>4 DEF ReadSome, LifeCycle
  <2>2. k \in Nat /\ k <= Len(inbound)
    BY <1>t
  <2>3. Frames(k) = [i \in 1 .. k |-> inbound[i]]
    BY <1>4, <1>r, <2>1 DEF Frames
  <2>4. /\ Frames(k) \in Seq(Int) /\ Len(Frames(k)) = k
        /\ \A i \in 1 .. k : Frames(k)[i] = inbound[i]
    <3>1. \A i \in 1 .. k : inbound[i] \in Int
      BY <1>t, <2>2
    <3>2. QED
      BY <2>2, <2>3, <3>1
  <2>5. redis_in' = Frames(k)
    BY <2>1, <2>4
  <2>6. /\ Len(inbound') = Len(inbound) - k
        /\ \A j \in 1 .. Len(inbound) - k : inbound'[j] = inbound[k + j]
    <3>a. k + 1 \in Nat /\ Len(inbound) \in Nat
      BY <1>t, <2>2
    <3>1. PICK m \in Nat, n \in Nat : m = k + 1 /\ n = Len(inbound)
      BY <3>a, Zenon
    <3>2. \A i \in m .. n : inbound[i] \in Int
      BY <1>t, <3>1
    <3>3. /\ Len(SubSeq(inbound, m, n)) = IF m <= n THEN n - m + 1 ELSE 0
          /\ \A j \in 1 .. n - m + 1 : SubSeq(inbound, m, n)[j] = inbound[m + j - 1]
      BY <3>2, SubSeqProperties
    <3>4. (IF m <= n THEN n - m + 1 ELSE 0) = n - k /\ n - m + 1 = n - k
      BY <2>2, <3>1
    <3>5. \A j \in 1 .. n - k : m + j - 1 = k + j
      BY <2>2, <3>1
    <3>6. inbound' = SubSeq(inbound, m, n)
      BY <2>1, <3>1
    <3>7. QED
      BY <3>1, <3>3, <3>4, <3>5, <3>6
  <2>7. emitted' = answered' + Len(redis_in') + Len(inbound')
    <3>1. emitted = answered + 0 + Len(inbound)
      BY <1>4, <1>r, <2>1
    <3>2. answered + k + (Len(inbound) - k) = answered + 0 + Len(inbound)
      BY <1>t, <2>2
    <3>3. /\ emitted' = emitted /\ answered' = answered
          /\ Len(redis_in') = k /\ Len(inbound') = Len(inbound) - k
      BY <2>1, <2>4, <2>5, <2>6
    <3>4. QED
      BY <3>1, <3>2, <3>3
  <2>8. \A j \in 1 .. Len(redis_in') : redis_in'[j] = stream'[answered' + j]
    <3>1. ASSUME NEW j \in 1 .. k
          PROVE  inbound[j] = stream[answered + j]
      <4>1. j \in 1 .. Len(inbound) /\ answered + 0 + j = answered + j
        BY <1>t, <2>2
      <4>2. QED
        BY <1>4, <1>r, <2>1, <4>1
    <3>2. Len(redis_in') = k /\ \A j \in 1 .. k : redis_in'[j] = inbound[j]
      BY <2>4, <2>5
    <3>3. QED
      BY <2>1, <3>1, <3>2
  <2>9. ASSUME NEW j \in 1 .. Len(inbound')
        PROVE  inbound'[j] = stream'[answered' + Len(redis_in') + j]
    <3>1. /\ j \in 1 .. Len(inbound) - k /\ k + j \in 1 .. Len(inbound)
          /\ answered + 0 + (k + j) = answered + k + j
      <4>1. PICK n \in Nat : n = Len(inbound)
        BY <1>t
      <4>2. j \in 1 .. n - k /\ k <= n /\ answered \in Nat
        BY <1>t, <2>2, <2>6, <4>1
      <4>3. QED
        BY <2>2, <4>1, <4>2
    <3>2. inbound[k + j] = stream[answered + 0 + (k + j)]
      BY <1>4, <1>r, <2>1, <3>1
    <3>3. inbound'[j] = inbound[k + j]
      BY <2>6, <3>1
    <3>4. stream' = stream /\ answered' = answered /\ Len(redis_in') = k
      BY <2>1, <2>4, <2>5
    <3>5. QED
      BY <3>1, <3>2, <3>3, <3>4
  <2>10. partial' # Nothing => Len(inbound') > 0 /\ partial' = inbound'[1]
    BY <1>t, <2>1, <2>2, <2>6
  <2>11. QED
    BY <2>7, <2>8, <2>9, <2>10 DEF RepliesAligned
<1>5. ASSUME isHealthy, NEW leaves \in BOOLEAN, dispatchReply(leaves)
      PROVE  RepliesAligned'
  <2>1. /\ redis_in # <<>> /\ redis_in' = Tail(redis_in) /\ ~spoiled
        /\ answered' = answered + 1 /\ UNCHANGED <<stream, emitted, inbound, partial>>
    BY <1>5 DEF dispatchReply, ReplyParsed
  <2>2. /\ Len(redis_in') = Len(redis_in) - 1 /\ Len(redis_in) > 0
        /\ \A j \in 1 .. Len(redis_in) - 1 : redis_in'[j] = redis_in[j + 1]
    BY <1>t, <2>1
  <2>3. emitted' = answered' + Len(redis_in') + Len(inbound')
    BY <1>t, <1>5, <1>r, <2>1, <2>2
  <2>4. ASSUME NEW j \in 1 .. Len(redis_in')
        PROVE  redis_in'[j] = stream'[answered' + j]
    <3>1. j \in 1 .. Len(redis_in) - 1 /\ j + 1 \in 1 .. Len(redis_in)
          /\ answered + (j + 1) = answered + 1 + j
      BY <1>t, <2>2
    <3>2. QED
      BY <1>5, <1>r, <2>1, <2>2, <3>1
  <2>5. ASSUME NEW j \in 1 .. Len(inbound')
        PROVE  inbound'[j] = stream'[answered' + Len(redis_in') + j]
    <3>1. answered + 1 + (Len(redis_in) - 1) + j = answered + Len(redis_in) + j
      BY <1>t, <2>1
    <3>2. QED
      BY <1>5, <1>r, <2>1, <2>2, <3>1
  <2>6. QED
    BY <1>5, <1>r, <2>1, <2>3, <2>4, <2>5 DEF RepliesAligned
<1>6. CASE isHealthy /\ RedisAnswers
  <2>1. /\ inbound' = Append(inbound, stream[emitted + 1]) /\ emitted' = emitted + 1
        /\ ~spoiled /\ UNCHANGED <<stream, answered, redis_in, partial>>
    BY <1>6 DEF RedisAnswers, input
  <2>2. stream[emitted + 1] \in Int
    BY <1>t, <1>6 DEF RedisAnswers, WireBounds
  <2>3. /\ Len(inbound') = Len(inbound) + 1
        /\ \A j \in 1 .. Len(inbound) : inbound'[j] = inbound[j]
        /\ inbound'[Len(inbound) + 1] = stream[emitted + 1]
    BY <1>t, <2>1, <2>2, AppendProperties
  <2>4. ASSUME NEW j \in 1 .. Len(inbound')
        PROVE  inbound'[j] = stream[answered + Len(redis_in) + j]
    <3>1. CASE j \in 1 .. Len(inbound)
      BY <1>6, <1>r, <2>1, <2>3, <3>1
    <3>2. CASE j \notin 1 .. Len(inbound)
      <4>1. j = Len(inbound) + 1
        <5>1. j \in 1 .. Len(inbound) + 1
          BY <2>3
        <5>2. QED
          BY <1>t, <3>2, <5>1
      <4>2. emitted + 1 = answered + Len(redis_in) + j
        BY <1>t, <1>6, <1>r, <2>1, <4>1
      <4>3. QED
        BY <2>3, <4>1, <4>2
    <3>3. QED
      BY <3>1, <3>2
  <2>5. emitted' = answered' + Len(redis_in') + Len(inbound')
    BY <1>t, <1>6, <1>r, <2>1, <2>3
  <2>6. partial' # Nothing => Len(inbound') > 0 /\ partial' = inbound'[1]
    BY <1>t, <1>6, <1>r, <2>1, <2>3
  <2>7. QED
    BY <1>6, <1>r, <2>1, <2>4, <2>5, <2>6 DEF RepliesAligned
<1>7. QED
  BY <1>1, <1>2, <1>3, <1>4, <1>5, <1>6, ReplySteps

-----------------------------------------------------------------------------
(* What owners expect *)

\* Every position a batch holds is one of the unanswered ones.
LEMMA HoldsBounds ==
  ASSUME NEW pq \in Seq(Pendings), NEW a \in Nat, NEW n \in Nat,
         Partitioned(pq, a, n), NEW k, NEW o, Holds(pq, k, o)
  PROVE  k \in (a + 1) .. n
<1>1. PICK i \in 1 .. Len(pq) : k \in SlotsOf(pq[i])
  BY DEF Holds
<1>2. PICK u \in Nat, r \in Nat : u = pq[i].upto /\ r = pq[i].remaining_replies
  BY EntryTypes
<1>3. a + r <= u /\ u <= n
  BY <1>2 DEF Partitioned
<1>4. k \in (u - r + 1) .. u
  BY <1>1, <1>2 DEF SlotsOf
<1>5. QED
  BY <1>3, <1>4

\* The next reply answers the oldest command of the front batch's owner, and
\* no command of anybody else.
LEMMA NextIsOldest ==
  ASSUME TypesButLoad, CommandsOrdered, SlotsPartitioned, OwedIsQueued,
         isHealthy, pending_queue # <<>>
  PROVE  /\ answered + 1 \in 1 .. Len(stream)
         /\ \A b \in write_queue : stream[answered + 1] < b.first
         /\ \A o \in Owners :
              /\ stream[answered + 1] \in owed[o] <=> o = Head(pending_queue).owner
              /\ \A c \in owed[o] : stream[answered + 1] <= c
<1>t. /\ pending_queue \in Seq(Pendings) /\ stream \in Seq(Nat)
      /\ answered \in Nat /\ Len(stream) \in Nat /\ write_queue \subseteq Batches
  BY DEF TypesButLoad
<1>p. Partitioned(pending_queue, answered, Len(stream))
  BY DEF SlotsPartitioned
<1>1. answered + 1 \in 1 .. Len(stream)
  <2>1. answered + 1 <= Len(stream)
    BY <1>t, <1>p, FrontCovers
  <2>2. QED
    BY <1>t, <2>1
<1>2. \A b \in write_queue : stream[answered + 1] < b.first
  BY <1>1 DEF CommandsOrdered
<1>3. stream[answered + 1] \in Nat
  BY <1>t, <1>1
<1>4. ASSUME NEW o \in Owners, NEW c \in UnstartedOf(write_queue, o)
      PROVE  stream[answered + 1] < c
  <2>1. PICK b \in write_queue : c \in CommandsOf(b)
    BY <1>4, UnstartedElements
  <2>2. PICK f \in Nat, m \in Nat : f = b.first /\ m = b.command_count
    BY <1>t DEF Batches
  <2>3. c \in f .. (f + m - 1) /\ stream[answered + 1] < f
    BY <1>2, <2>1, <2>2 DEF CommandsOf
  <2>4. QED
    BY <1>3, <2>3
<1>5. ASSUME NEW o \in Owners, NEW k, Holds(pending_queue, k, o)
      PROVE  /\ k \in 1 .. Len(stream) /\ stream[answered + 1] <= stream[k]
             /\ stream[k] = stream[answered + 1] => k = answered + 1
  <2>1. k \in (answered + 1) .. Len(stream)
    BY <1>5, <1>t, <1>p, HoldsBounds
  <2>2. k \in 1 .. Len(stream) /\ stream[k] \in Nat
    BY <1>t, <2>1
  <2>3. k = answered + 1 \/ answered + 1 < k
    BY <1>t, <2>1
  <2>4. answered + 1 < k => stream[answered + 1] < stream[k]
    BY <1>1, <2>2 DEF CommandsOrdered
  <2>5. QED
    BY <1>3, <2>2, <2>3, <2>4
<1>6. \A o : Holds(pending_queue, answered + 1, o) <=> o = Head(pending_queue).owner
  BY <1>t, <1>p, FrontAnsweredSlots
<1>7. ASSUME NEW o \in Owners
      PROVE  /\ stream[answered + 1] \in owed[o] <=> o = Head(pending_queue).owner
             /\ \A c \in owed[o] : stream[answered + 1] <= c
  <2>1. owed[o] = UnstartedOf(write_queue, o) \cup StartedOf(stream, pending_queue, o)
    BY DEF OwedIsQueued
  <2>2. stream[answered + 1] \notin UnstartedOf(write_queue, o)
    <3>1. ~(stream[answered + 1] < stream[answered + 1])
      BY <1>3
    <3>2. QED
      BY <1>4, <3>1
  <2>3. stream[answered + 1] \in StartedOf(stream, pending_queue, o)
          <=> o = Head(pending_queue).owner
    <3>1. stream[answered + 1] \in StartedOf(stream, pending_queue, o)
            <=> \E k : Holds(pending_queue, k, o) /\ stream[answered + 1] = stream[k]
      BY <1>t, StartedHolds
    <3>2. QED
      BY <1>5, <1>6, <3>1
  <2>4. ASSUME NEW c \in owed[o]
        PROVE  stream[answered + 1] <= c
    <3>1. CASE c \in UnstartedOf(write_queue, o)
      <4>1. stream[answered + 1] < c /\ c \in Nat
        BY <1>4, <3>1 DEF TypesButLoad
      <4>2. QED
        BY <1>3, <4>1
    <3>2. CASE c \in StartedOf(stream, pending_queue, o)
      <4>1. PICK k : Holds(pending_queue, k, o) /\ c = stream[k]
        BY <1>t, <3>2, StartedHolds
      <4>2. QED
        BY <1>5, <4>1
    <3>3. QED
      BY <2>1, <3>1, <3>2
  <2>5. QED
    BY <2>1, <2>2, <2>3, <2>4
<1>8. QED
  BY <1>1, <1>2, <1>7

\* The commands at two different positions are different.
LEMMA StreamInjective ==
  ASSUME TypesButLoad, CommandsOrdered, isHealthy,
         NEW i \in 1 .. Len(stream), NEW j \in 1 .. Len(stream), stream[i] = stream[j]
  PROVE  i = j
<1>1. stream[i] \in Nat /\ Len(stream) \in Nat
  BY DEF TypesButLoad
<1>2. (i < j => stream[i] < stream[j]) /\ (j < i => stream[j] < stream[i])
  BY DEF CommandsOrdered
<1>3. ~(i < j) /\ ~(j < i)
  BY <1>1, <1>2
<1>4. QED
  BY <1>1, <1>3

\* What a started batch adds to the answers of an owner is what the write
\* queue loses; an owner that leaves takes all of its commands away; a reply
\* takes away the owner's oldest.
LEMMA OwedIsQueuedStep ==
  ASSUME TypesButLoad, LifeCycle, CommandsOrdered, SlotsPartitioned,
         OwedIsQueued, [Next]_vars, TypesButLoad', LifeCycle'
  PROVE  OwedIsQueued'
<1> SUFFICES ASSUME NEW p \in Owners
             PROVE  owed'[p] = UnstartedOf(write_queue', p)
                                 \cup StartedOf(stream', pending_queue', p)
  BY DEF OwedIsQueued, UnstartedOf, StartedOf, CommandsOf, SlotsOf
<1>t. /\ pending_queue \in Seq(Pendings) /\ pending_queue' \in Seq(Pendings)
      /\ stream \in Seq(Nat) /\ answered \in Nat /\ Len(stream) \in Nat
      /\ write_queue \subseteq Batches /\ owed \in [Owners -> SUBSET Nat]
      /\ accepted \in Nat
  BY DEF TypesButLoad
<1>q. owed[p] = UnstartedOf(write_queue, p) \cup StartedOf(stream, pending_queue, p)
  BY DEF OwedIsQueued
<1>p. isHealthy => Partitioned(pending_queue, answered, Len(stream))
  BY DEF SlotsPartitioned
<1> DEFINE U == UnstartedOf(write_queue, p)
           S == StartedOf(stream, pending_queue, p)
           U1 == UnstartedOf(write_queue', p)
           S1 == StartedOf(stream', pending_queue', p)
<1>u. \A x : /\ x \in U <=> \E b \in write_queue : b.owner = p /\ x \in CommandsOf(b)
             /\ x \in U1 <=> \E b \in write_queue' : b.owner = p /\ x \in CommandsOf(b)
  BY UnstartedElements
<1>s. \A x : /\ x \in S <=> \E k : Holds(pending_queue, k, p) /\ x = stream[k]
             /\ x \in S1 <=> \E k : Holds(pending_queue', k, p) /\ x = stream'[k]
  <2>1. ASSUME NEW x
        PROVE  x \in S <=> \E k : Holds(pending_queue, k, p) /\ x = stream[k]
    BY <1>t, StartedHolds
  <2>2. ASSUME NEW x
        PROVE  x \in S1 <=> \E k : Holds(pending_queue', k, p) /\ x = stream'[k]
    <3>1. PICK q \in Seq(Pendings) : q = pending_queue'
      BY <1>t
    <3>2. PICK st : st = stream'
      OBVIOUS
    <3>3. x \in StartedOf(st, q, p) <=> \E k : Holds(q, k, p) /\ x = st[k]
      BY StartedHolds
    <3>4. QED
      BY <3>1, <3>2, <3>3
  <2>3. QED
    BY <2>1, <2>2
<1>0. CASE ~isHealthy'
  <2>1. owed'[p] = {} /\ write_queue' = {} /\ Len(pending_queue') = 0
    BY <1>0 DEF LifeCycle
  <2>2. \A k : ~Holds(pending_queue', k, p)
    BY <2>1 DEF Holds
  <2> HIDE DEF U1, S1
  <2>3. \A x : x \notin U1 /\ x \notin S1
    BY <1>u, <1>s, <2>1, <2>2
  <2>4. U1 = {} /\ S1 = {}
    BY <2>3
  <2>5. QED
    BY <2>1, <2>4 DEF U1, S1
<1>1. CASE UNCHANGED queueVars
  BY <1>1, <1>q DEF queueVars, queues
<1>2. ASSUME isHealthy, NEW o \in Owners, NEW n \in 0 .. MaxBatch, submit(o, n)
      PROVE  owed'[p] = U1 \cup S1
  <2> DEFINE new == [owner |-> o, first |-> accepted + 1, command_count |-> n]
  <2>1. /\ write_queue' = write_queue \cup {new} /\ S1 = S
        /\ owed' = [owed EXCEPT ![o] = @ \cup ((accepted + 1) .. (accepted + n))]
    BY <1>2 DEF submit, wire
  <2>2. new.owner = o /\ CommandsOf(new) = (accepted + 1) .. (accepted + n)
    <3>1. accepted + 1 + n - 1 = accepted + n
      BY <1>t, BoundsAssumption
    <3>2. QED
      BY <3>1 DEF CommandsOf
  <2>3. owed'[p] = IF p = o THEN owed[p] \cup ((accepted + 1) .. (accepted + n)) ELSE owed[p]
    BY <1>t, <2>1, Zenon
  <2> HIDE DEF new, U, S, U1, S1
  <2>4. \A x : x \in U1 <=> x \in U \/ (p = o /\ x \in (accepted + 1) .. (accepted + n))
    BY <1>u, <2>1, <2>2, Zenon
  <2>5. QED
    BY <1>q, <2>1, <2>3, <2>4 DEF U, S
<1>3. ASSUME isHealthy, NEW o \in Owners, detachOwner(o)
      PROVE  owed'[p] = U1 \cup S1
  <2>1. /\ write_queue' = {b \in write_queue : b.owner # o} /\ stream' = stream
        /\ pending_queue' = Disowned(pending_queue, o)
        /\ owed'[p] = IF p = o THEN {} ELSE owed[p]
    BY <1>3, <1>t DEF detachOwner, WithoutOwner, wire
  <2>2. \A k : Holds(pending_queue', k, p) <=> p # o /\ Holds(pending_queue, k, p)
    BY <1>t, <2>1, DisownedSlots, Zenon
  <2> HIDE DEF U, S, U1, S1
  <2>3. \A x : /\ x \in U1 <=> p # o /\ x \in U
               /\ x \in S1 <=> p # o /\ x \in S
    BY <1>u, <1>s, <2>1, <2>2
  <2>4. QED
    BY <1>q, <2>1, <2>3 DEF U, S
<1>4. ASSUME isHealthy, WriterStarts
      PROVE  owed'[p] = U1 \cup S1
  <2>1. PICK b \in write_queue :
           /\ b \in Batches
           /\ write_queue' = write_queue \ {b}
           /\ Len(stream') = Len(stream) + b.command_count
           /\ \A i \in 1 .. Len(stream) : stream'[i] = stream[i]
           /\ \A i \in 1 .. b.command_count :
                stream'[Len(stream) + i] = b.first + i - 1
           /\ Appended(pending_queue', pending_queue, b.owner, b.command_count,
                       Len(stream))
    BY <1>4, StartEffect
  <2>2. b.command_count \in Nat \ {0} /\ b.first \in Nat /\ owed' = owed
    BY <1>4, <2>1 DEF Batches, WriterStarts
  <2> DEFINE c == b.command_count
             n == Len(stream)
  <2>3. \A k : Holds(pending_queue', k, p) <=>
                 Holds(pending_queue, k, p) \/ (p = b.owner /\ k \in (n + 1) .. (n + c))
    <3>1. PICK q : q = pending_queue'
      OBVIOUS
    <3>2. Appended(q, pending_queue, b.owner, c, n)
      BY <2>1, <3>1
    <3>3. ASSUME NEW k
          PROVE  Holds(q, k, p) <=> Holds(pending_queue, k, p)
                                      \/ (p = b.owner /\ k \in (n + 1) .. (n + c))
      BY <1>t, <2>2, <3>2, AppendedHolds
    <3>4. QED
      BY <3>1, <3>3
  <2>4. \A k : Holds(pending_queue, k, p) => stream'[k] = stream[k]
    <3>1. \A k : Holds(pending_queue, k, p) => k \in (answered + 1) .. n
      BY <1>4, <1>t, <1>p, HoldsBounds
    <3>2. \A k \in (answered + 1) .. n : k \in 1 .. n
      BY <1>t
    <3>3. QED
      BY <2>1, <3>1, <3>2
  <2>5. ASSUME NEW x
        PROVE  (\E k \in (n + 1) .. (n + c) : x = stream'[k]) <=> x \in CommandsOf(b)
    <3>1. ASSUME NEW k \in (n + 1) .. (n + c), x = stream'[k]
          PROVE  x \in CommandsOf(b)
      <4>1. k - n \in 1 .. c /\ n + (k - n) = k
        BY <1>t, <2>2
      <4>2. stream'[k] = b.first + (k - n) - 1
        BY <2>1, <4>1
      <4>3. QED
        BY <2>2, <3>1, <4>1, <4>2 DEF CommandsOf
    <3>2. ASSUME x \in CommandsOf(b)
          PROVE  \E k \in (n + 1) .. (n + c) : x = stream'[k]
      <4>1. PICK i \in 1 .. c : x = b.first + i - 1
        <5>1. x - b.first + 1 \in 1 .. c /\ x = b.first + (x - b.first + 1) - 1
          BY <2>2, <3>2 DEF CommandsOf
        <5>2. QED
          BY <5>1
      <4>2. n + i \in (n + 1) .. (n + c)
        BY <1>t, <2>2
      <4>3. QED
        BY <2>1, <4>1, <4>2
    <3>3. QED
      BY <3>1, <3>2
  <2> HIDE DEF U, S, U1, S1, n, c
  <2>6. \A x : x \in S1 <=> x \in S \/ (p = b.owner /\ x \in CommandsOf(b))
    BY <1>s, <2>3, <2>4, <2>5
  <2>7. \A x : x \in U <=> x \in U1 \/ (p = b.owner /\ x \in CommandsOf(b))
    BY <1>u, <2>1
  <2>8. QED
    BY <1>q, <2>2, <2>6, <2>7 DEF U, S
<1>5. ASSUME isHealthy, NEW leaves \in BOOLEAN, dispatchReply(leaves)
      PROVE  owed'[p] = U1 \cup S1
  <2> DEFINE o == Head(pending_queue).owner
             next == stream[answered + 1]
             fa == FrontAnswered(pending_queue)
  <2>1. /\ pending_queue # <<>> /\ stream' = stream /\ fa \in Seq(Pendings)
        /\ \A k, r : Holds(fa, k, r) <=>
                       Holds(pending_queue, k, r) /\ k # answered + 1
        /\ \A r : Holds(pending_queue, answered + 1, r) <=> r = o
    BY <1>5, <1>p, <1>t, DispatchEffect, FrontAnsweredSlots, Zenon
  <2>2. CASE leaves
    <3>1. /\ o \in Owners /\ write_queue' = {b \in write_queue : b.owner # o}
          /\ pending_queue' = Disowned(fa, o)
      BY <1>5, <2>2, DispatchEffect, Zenon DEF WithoutOwner
    <3>2. owed'[p] = IF p = o THEN {} ELSE owed[p]
      BY <1>5, <1>t, <2>2, <3>1 DEF dispatchReply
    <3> HIDE DEF U, S, U1, S1, o, fa
    <3>3. \A k : Holds(pending_queue', k, p) <=> p # o /\ Holds(fa, k, p)
      BY <2>1, <3>1, DisownedSlots
    <3>4. \A k : Holds(pending_queue', k, p) <=> p # o /\ Holds(pending_queue, k, p)
      BY <2>1, <3>3
    <3>5. \A x : /\ x \in U1 <=> p # o /\ x \in U
                 /\ x \in S1 <=> p # o /\ x \in S
      BY <1>u, <1>s, <2>1, <3>1, <3>4
    <3>6. QED
      BY <1>q, <3>2, <3>5, Zenon DEF U, S
  <2>3. CASE ~leaves
    <3>1. write_queue' = write_queue /\ pending_queue' = fa
      BY <1>5, <2>3, DispatchEffect
    <3>2. owed'[p] = IF p = o THEN AfterReply(owed[p]) ELSE owed[p]
      BY <1>5, <2>3 DEF dispatchReply
    <3>3. U1 = U
      BY <3>1
    <3>4. /\ next \in owed[p] <=> p = o
          /\ \A c \in owed[p] : next <= c
          /\ next \in Nat /\ answered + 1 \in 1 .. Len(stream)
          /\ \A b \in write_queue : next < b.first
      BY <1>5, <1>t, <2>1, NextIsOldest
    <3>5. ASSUME NEW k, Holds(pending_queue, k, p)
          PROVE  stream[k] = next <=> k = answered + 1
      <4>1. k \in (answered + 1) .. Len(stream)
        BY <1>5, <1>t, <1>p, <3>5, HoldsBounds
      <4>2. k \in 1 .. Len(stream)
        BY <1>t, <4>1
      <4>3. QED
        BY <1>5, <3>4, <4>2, StreamInjective
    <3>6. next \notin U
      <4>1. SUFFICES ASSUME NEW b \in write_queue, next \in CommandsOf(b)
                     PROVE  FALSE
        BY <1>u
      <4>2. PICK f \in Nat, m \in Nat : f = b.first /\ m = b.command_count
        BY <1>t, Zenon DEF Batches
      <4>3. next \in f .. (f + m - 1) /\ next < f
        BY <3>4, <4>1, <4>2 DEF CommandsOf
      <4>4. QED
        BY <3>4, <4>3
    <3> HIDE DEF U, S, U1, S1, o, fa, next
    <3>7. \A x : x \in S1 <=> x \in S /\ x # next
      BY <1>s, <2>1, <3>1, <3>5
    <3>8. U1 \cup S1 = owed[p] \ {next}
      BY <1>q, <3>3, <3>6, <3>7 DEF U, S
    <3>9. p = o => AfterReply(owed[p]) = owed[p] \ {next}
      <4>1. \A c \in owed[p] : c \in Nat
        BY <1>t
      <4>2. \A c \in owed[p] : c # next => next < c
        BY <3>4, <4>1
      <4>3. \A y \in owed[p] : ~(y < next)
        BY <3>4, <4>1
      <4>4. QED
        BY <3>4, <4>2, <4>3 DEF AfterReply
    <3>10. p # o => owed[p] \ {next} = owed[p]
      BY <3>4
    <3>11. QED
      BY <3>2, <3>8, <3>9, <3>10
  <2>4. QED
    BY <2>2, <2>3
<1>6. QED
  <2> HIDE DEF U, S, U1, S1
  <2>1. SUFFICES ASSUME isHealthy'
                 PROVE  owed'[p] = U1 \cup S1
    BY <1>0 DEF U1, S1
  <2>2. UNCHANGED queueVars => owed'[p] = U1 \cup S1
    BY <1>1 DEF U1, S1
  <2>3. QED
    BY <1>2, <1>3, <1>4, <1>5, <2>1, <2>2, ReadySteps

=============================================================================
