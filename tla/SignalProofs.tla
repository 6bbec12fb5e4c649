---------------------------- MODULE SignalProofs ----------------------------
(***************************************************************************)
(* CoroutineSignal is a sticky flag, for any number of coroutines.         *)
(***************************************************************************)
EXTENDS CoroutineSignal, TLAPS

SignalTypes ==
  /\ pending \in [Coroutines -> BOOLEAN]
  /\ news = pending
  /\ pc \in [Coroutines -> {"run", "wait", "poll"}]
  /\ cond \in [Coroutines -> SUBSET Coroutines]
  /\ active \in Seq(Coroutines)

\* A coroutine in the list of its cond_ waits, and was not notified; one that
\* waits and is no longer in the list was notified.
WaitersKnown ==
  \A c \in Coroutines :
    /\ cond[c] \subseteq {c}
    /\ c \in cond[c] => pc[c] = "wait" /\ ~pending[c]
    /\ pc[c] = "wait" /\ c \notin cond[c] => pending[c]

\* The runnable coroutines are queued once, and neither run nor are in a list.
QueuedOnce ==
  /\ \A i, j \in 1 .. Len(active) : active[i] = active[j] => i = j
  /\ \A i \in 1 .. Len(active) :
       pc[active[i]] # "run" /\ active[i] \notin cond[active[i]]

SignalInv == SignalTypes /\ WaitersKnown /\ QueuedOnce

\* The last conjuncts of QueuedOnce survive an Append of a coroutine that is not
\* queued yet: what notify() and the end of a co_poll() do to the event loop.
LEMMA AppendKeepsOnce ==
  ASSUME NEW s \in Seq(Coroutines), NEW w \in Coroutines,
         \A i, j \in 1 .. Len(s) : s[i] = s[j] => i = j,
         \A i \in 1 .. Len(s) : s[i] # w
  PROVE  /\ Append(s, w) \in Seq(Coroutines)
         /\ \A i, j \in 1 .. Len(Append(s, w)) :
              Append(s, w)[i] = Append(s, w)[j] => i = j
         /\ \A i \in 1 .. Len(Append(s, w)) :
              (i \in 1 .. Len(s) /\ Append(s, w)[i] = s[i]) \/ Append(s, w)[i] = w
  OBVIOUS

\* What the event loop has left after it resumed the first coroutine.
LEMMA TailKeepsOnce ==
  ASSUME NEW s \in Seq(Coroutines), s # <<>>,
         \A i, j \in 1 .. Len(s) : s[i] = s[j] => i = j
  PROVE  /\ Head(s) \in Coroutines /\ Head(s) = s[1] /\ 1 \in 1 .. Len(s)
         /\ Tail(s) \in Seq(Coroutines)
         /\ \A i, j \in 1 .. Len(Tail(s)) : Tail(s)[i] = Tail(s)[j] => i = j
         /\ \A i \in 1 .. Len(Tail(s)) :
              i + 1 \in 1 .. Len(s) /\ Tail(s)[i] = s[i + 1] /\ Tail(s)[i] # Head(s)
  OBVIOUS

\* SignalInv holds at the start, when every coroutine is suspended elsewhere.
LEMMA SignalInvInit == Init => SignalInv
  BY DEF Init, SignalInv, SignalTypes, WaitersKnown, QueuedOnce

\* notify() keeps SignalInv: it moves the waiter, if there is one, from the list
\* of cond_ to the runnable coroutines.
LEMMA NotifyKeepsInv ==
  ASSUME SignalInv, NEW c \in Coroutines, NEW d \in Coroutines, notify(c, d)
  PROVE  SignalInv'
<1> USE DEF SignalInv
<1>1. CASE cond[d] = {}
  <2>1. UNCHANGED <<cond, active, pc>>
    BY <1>1 DEF notify, Signal
  <2>2. SignalTypes'
    BY <2>1 DEF notify, SignalTypes
  <2>3. WaitersKnown'
    BY <1>1, <2>1 DEF notify, WaitersKnown, SignalTypes
  <2>4. QueuedOnce'
    BY <2>1 DEF QueuedOnce
  <2> QED BY <2>2, <2>3, <2>4
<1>2. CASE cond[d] # {}
  <2>1. d \in cond[d] /\ cond[d] = {d}
    BY <1>2 DEF WaitersKnown
  <2>2. /\ cond' = [cond EXCEPT ![d] = {}]
        /\ active' = Append(active, d)
        /\ pending' = [pending EXCEPT ![d] = TRUE]
        /\ news' = [news EXCEPT ![d] = TRUE]
        /\ pc' = pc
    BY <1>2, <2>1 DEF notify, Signal, SignalTypes
  <2>3. \A i \in 1 .. Len(active) : active[i] # d
    BY <2>1 DEF QueuedOnce
  <2>4. /\ active' \in Seq(Coroutines)
        /\ \A i, j \in 1 .. Len(active') : active'[i] = active'[j] => i = j
        /\ \A i \in 1 .. Len(active') :
             (i \in 1 .. Len(active) /\ active'[i] = active[i]) \/ active'[i] = d
    BY <2>2, <2>3, AppendKeepsOnce DEF QueuedOnce, SignalTypes
  <2>5. SignalTypes'
    BY <2>2, <2>4 DEF SignalTypes
  <2>6. WaitersKnown'
    BY <2>1, <2>2 DEF WaitersKnown, SignalTypes
  <2>7. pc[d] = "wait"
    BY <2>1 DEF WaitersKnown
  <2>8. ASSUME NEW i \in 1 .. Len(active')
        PROVE  pc'[active'[i]] # "run" /\ active'[i] \notin cond'[active'[i]]
    <3>1. CASE i \in 1 .. Len(active) /\ active'[i] = active[i]
      <4>1. active[i] \in Coroutines
        BY <3>1 DEF SignalTypes
      <4> QED BY <3>1, <4>1, <2>2 DEF QueuedOnce, SignalTypes
    <3>2. CASE active'[i] = d
      BY <3>2, <2>2, <2>7 DEF SignalTypes
    <3> QED BY <3>1, <3>2, <2>4
  <2>9. QueuedOnce'
    BY <2>4, <2>8 DEF QueuedOnce
  <2> QED BY <2>5, <2>6, <2>9
<1> QED BY <1>1, <1>2

\* Resuming the first runnable coroutine keeps SignalInv, and one that resumes
\* from wait() was notified.
LEMMA ResumeKeepsInv ==
  ASSUME SignalInv, Resume
  PROVE  /\ SignalInv'
         /\ Head(active) \in Coroutines
         /\ pc[Head(active)] = "wait" => pending[Head(active)]
<1> USE DEF SignalInv
<1> DEFINE c == Head(active)
<1>1. /\ c \in Coroutines /\ c = active[1] /\ 1 \in 1 .. Len(active)
      /\ Tail(active) \in Seq(Coroutines)
      /\ \A i, j \in 1 .. Len(Tail(active)) : Tail(active)[i] = Tail(active)[j] => i = j
      /\ \A i \in 1 .. Len(Tail(active)) :
           /\ i + 1 \in 1 .. Len(active)
           /\ Tail(active)[i] = active[i + 1] /\ Tail(active)[i] # c
  BY TailKeepsOnce DEF Resume, QueuedOnce, SignalTypes
<1>2. c \notin cond[c] /\ (pc[c] = "wait" => pending[c])
  BY <1>1 DEF QueuedOnce, WaitersKnown
<1>3. pc' = [pc EXCEPT ![c] = "run"] /\ active' = Tail(active) /\ cond' = cond
  BY DEF Resume
<1>4. /\ pending' = (IF pc[c] = "wait" THEN [pending EXCEPT ![c] = FALSE] ELSE pending)
      /\ news' = (IF pc[c] = "wait" THEN [news EXCEPT ![c] = FALSE] ELSE news)
  BY DEF Resume, WaitTakes
<1> HIDE DEF c
<1>5. SignalTypes'
  BY <1>1, <1>3, <1>4 DEF SignalTypes
<1>6. WaitersKnown'
  BY <1>1, <1>2, <1>3, <1>4 DEF WaitersKnown, SignalTypes
<1>7. ASSUME NEW i \in 1 .. Len(active')
      PROVE  pc'[active'[i]] # "run" /\ active'[i] \notin cond'[active'[i]]
  <2>1. i \in 1 .. Len(Tail(active))
    BY <1>3
  <2>2. active'[i] = active[i + 1] /\ active[i + 1] # c /\ i + 1 \in 1 .. Len(active)
    BY <1>1, <1>3, <2>1
  <2>3. pc[active[i + 1]] # "run" /\ active[i + 1] \notin cond[active[i + 1]]
    BY <2>2 DEF QueuedOnce
  <2> QED BY <2>2, <2>3, <1>3 DEF SignalTypes
<1>8. QueuedOnce'
  BY <1>1, <1>3, <1>7 DEF QueuedOnce
<1> QED BY <1>1, <1>2, <1>5, <1>6, <1>8 DEF c

\* Every step keeps SignalInv.
LEMMA SignalInvStep == SignalInv /\ [Next]_vars => SignalInv'
<1> SUFFICES ASSUME SignalInv, [Next]_vars PROVE SignalInv'
  OBVIOUS
<1>1. CASE Resume
  BY <1>1, ResumeKeepsInv
<1>2. ASSUME NEW c \in Coroutines, NEW d \in Coroutines, notify(c, d) PROVE SignalInv'
  BY <1>2, NotifyKeepsInv
<1>3. ASSUME NEW c \in Coroutines, waitReturns(c) PROVE SignalInv'
  <2>1. SignalTypes'
    BY <1>3 DEF waitReturns, SignalInv, SignalTypes
  <2>2. WaitersKnown'
    BY <1>3 DEF waitReturns, SignalInv, SignalTypes, WaitersKnown
  <2>3. QueuedOnce'
    BY <1>3 DEF waitReturns, SignalInv, QueuedOnce
  <2> QED BY <2>1, <2>2, <2>3 DEF SignalInv
<1>4. ASSUME NEW c \in Coroutines, waitBlocks(c) PROVE SignalInv'
  <2>1. SignalTypes'
    BY <1>4 DEF waitBlocks, SignalInv, SignalTypes
  <2>2. WaitersKnown'
    BY <1>4 DEF waitBlocks, SignalInv, SignalTypes, WaitersKnown
  <2>3. \A i \in 1 .. Len(active) : active[i] \in Coroutines /\ active[i] # c
    BY <1>4 DEF waitBlocks, SignalInv, SignalTypes, QueuedOnce
  <2>4. QueuedOnce'
    BY <1>4, <2>3 DEF waitBlocks, SignalInv, SignalTypes, QueuedOnce
  <2> QED BY <2>1, <2>2, <2>4 DEF SignalInv
<1>5. ASSUME NEW c \in Coroutines, Suspends(c) PROVE SignalInv'
  <2>1. SignalTypes'
    BY <1>5 DEF Suspends, SignalInv, SignalTypes
  <2>2. WaitersKnown'
    BY <1>5 DEF Suspends, SignalInv, SignalTypes, WaitersKnown
  <2>3. \A i \in 1 .. Len(active) : active[i] \in Coroutines
    BY DEF SignalInv, SignalTypes
  <2>4. QueuedOnce'
    BY <1>5, <2>3 DEF Suspends, SignalInv, SignalTypes, QueuedOnce
  <2> QED BY <2>1, <2>2, <2>4 DEF SignalInv
<1>6. ASSUME NEW c \in Coroutines, PollEnds(c) PROVE SignalInv'
  <2>1. \A i \in 1 .. Len(active) : active[i] # c
    BY <1>6 DEF PollEnds, Contains, SignalInv, SignalTypes
  <2>2. /\ active' \in Seq(Coroutines)
        /\ \A i, j \in 1 .. Len(active') : active'[i] = active'[j] => i = j
        /\ \A i \in 1 .. Len(active') :
             (i \in 1 .. Len(active) /\ active'[i] = active[i]) \/ active'[i] = c
    BY <1>6, <2>1, AppendKeepsOnce DEF PollEnds, SignalInv, SignalTypes, QueuedOnce
  <2>3. SignalTypes' /\ WaitersKnown'
    BY <1>6, <2>2 DEF PollEnds, SignalInv, SignalTypes, WaitersKnown
  <2>4. pc[c] = "poll" /\ c \notin cond[c]
    BY <1>6 DEF PollEnds, SignalInv, WaitersKnown
  <2>5. QueuedOnce'
    BY <1>6, <2>2, <2>4 DEF PollEnds, SignalInv, QueuedOnce
  <2> QED BY <2>3, <2>5 DEF SignalInv
<1>7. CASE UNCHANGED vars
  BY <1>7 DEF vars, SignalInv, SignalTypes, WaitersKnown, QueuedOnce
<1> QED BY <1>1, <1>2, <1>3, <1>4, <1>5, <1>6, <1>7 DEF Next

\* A coroutine that is left in the list of cond_ was not notified, however
\* many coroutines there are and whatever they do.
THEOREM SignalMissesNothing == Spec => []NothingMissed
<1>1. SignalInv => NothingMissed
  BY DEF SignalInv, SignalTypes, WaitersKnown, NothingMissed
<1> QED BY <1>1, SignalInvInit, SignalInvStep, PTL DEF Spec

\* wait() returns only to news.
THEOREM SignalReturnsOnNews == Spec => ReturnsOnNews
<1> DEFINE Honest == \A c \in Coroutines :
             (waitReturns(c) \/ (pc[c] = "wait" /\ pc'[c] = "run")) => news[c]
<1>1. SignalInv /\ [Next]_vars => [Honest]_vars
  <2> SUFFICES ASSUME SignalInv, Next, NEW c \in Coroutines,
                      waitReturns(c) \/ (pc[c] = "wait" /\ pc'[c] = "run")
               PROVE  news[c]
    OBVIOUS
  <2>1. CASE waitReturns(c)
    BY <2>1 DEF waitReturns, SignalInv, SignalTypes
  <2>2. CASE pc[c] = "wait" /\ pc'[c] = "run"
    <3>1. Resume
      BY <2>2 DEF Next, waitReturns, waitBlocks, Suspends, PollEnds, notify,
                  SignalInv, SignalTypes
    <3>2. c = Head(active)
      BY <2>2, <3>1 DEF Resume, SignalInv, SignalTypes
    <3> QED BY <2>2, <3>1, <3>2, ResumeKeepsInv DEF SignalInv, SignalTypes
  <2> QED BY <2>1, <2>2
<1> QED BY <1>1, SignalInvInit, SignalInvStep, PTL DEF Spec, ReturnsOnNews

\* Every step is a step of the sticky flags, or leaves them alone.
LEMMA StickyStep == SignalInv /\ [Next]_vars => [Sticky!Next]_(Sticky!vars)
<1> DEFINE blocked == [c \in Coroutines |-> pc[c] = "wait"]
<1> SUFFICES ASSUME SignalInv, [Next]_vars
             PROVE  Sticky!Next \/ (pending' = pending /\ blocked' = blocked)
  BY DEF Sticky!vars
<1> USE DEF SignalInv, SignalTypes
<1>1. CASE Resume
  <2>1. PICK c \in Coroutines : c = Head(active) /\ (pc[c] = "wait" => pending[c])
    BY <1>1, ResumeKeepsInv
  <2>2. pc' = [pc EXCEPT ![c] = "run"] /\ WaitTakes(c)
    BY <1>1, <2>1 DEF Resume
  <2>3. CASE pc[c] = "wait"
    <3>1. blocked[c] /\ pending[c] /\ pending' = [pending EXCEPT ![c] = FALSE]
      BY <2>1, <2>2, <2>3 DEF WaitTakes
    <3>2. blocked' = [blocked EXCEPT ![c] = FALSE]
      BY <2>1, <2>2
    <3>3. Sticky!Wakes(c)
      BY <3>1, <3>2 DEF Sticky!Wakes
    <3> QED BY <3>3 DEF Sticky!Next
  <2>4. CASE pc[c] # "wait"
    BY <2>1, <2>2, <2>4 DEF WaitTakes
  <2> QED BY <2>3, <2>4
<1>2. ASSUME NEW c \in Coroutines, NEW d \in Coroutines, notify(c, d)
      PROVE  Sticky!Next
  <2>1. pending' = [u \in Coroutines |-> u \in {d} \/ pending[u]] /\ blocked' = blocked
    BY <1>2 DEF notify
  <2>2. Sticky!Notify({d})
    BY <2>1 DEF Sticky!Notify
  <2>3. {d} \in SUBSET Coroutines
    OBVIOUS
  <2> QED BY <2>2, <2>3 DEF Sticky!Next
<1>3. ASSUME NEW c \in Coroutines, waitReturns(c) PROVE Sticky!Next
  <2>1. ~blocked[c] /\ blocked' = blocked
    BY <1>3 DEF waitReturns
  <2>2. Sticky!Returns(c)
    BY <1>3, <2>1 DEF waitReturns, Sticky!Returns
  <2> QED BY <2>2 DEF Sticky!Next
<1>4. ASSUME NEW c \in Coroutines, waitBlocks(c) PROVE Sticky!Next
  <2>1. ~blocked[c] /\ blocked' = [blocked EXCEPT ![c] = TRUE]
    BY <1>4 DEF waitBlocks
  <2>2. Sticky!Blocks(c)
    BY <1>4, <2>1 DEF waitBlocks, Sticky!Blocks
  <2> QED BY <2>2 DEF Sticky!Next
<1>5. ASSUME NEW c \in Coroutines, Suspends(c) \/ PollEnds(c)
      PROVE  pending' = pending /\ blocked' = blocked
  BY <1>5 DEF Suspends, PollEnds
<1>6. CASE UNCHANGED vars
  BY <1>6 DEF vars
<1> QED BY <1>1, <1>2, <1>3, <1>4, <1>5, <1>6 DEF Next

\* CoroutineSignal implements the sticky flags that BackendChannel and
\* ClientSession model it by (the safety part of ImplementsSticky).
THEOREM SignalImplementsSticky == Spec => Sticky!Safe
<1>1. Init => Sticky!Init
  BY DEF Init, Sticky!Init
<1> QED BY <1>1, SignalInvInit, SignalInvStep, StickyStep, PTL DEF Spec, Sticky!Safe
=============================================================================
