---------------------------- MODULE WorkerProofs ----------------------------
(***************************************************************************)
(* Worker keeps its safety properties for any number of workers and any    *)
(* number of connections.                                                  *)
(***************************************************************************)
EXTENDS Worker, SequenceTheorems, TLAPS

Types ==
  /\ acceptor_pc \in {"accept", "push", "flag", "notify"}
  /\ next_worker \in Workers /\ accepted \in Nat
  /\ worker_pc \in [Workers -> {"reapFds", "lock", "clear", "create",
                                "reapSessions", "poll", "drain"}]
  /\ mutex \in [Workers -> {"free", "acceptor", "worker"}]
  /\ pending_fds \in [Workers -> Seq(Nat)] /\ fds \in [Workers -> Seq(Nat)]
  /\ has_pending_fds \in [Workers -> BOOLEAN]
  /\ readable \in [Workers -> BOOLEAN]
  /\ sessions \in [Workers -> SUBSET Nat]
  /\ finished_sessions \in [Workers -> Seq(Nat)]

\* Who holds mutex_, and what pending_fds_ is while somebody does.
Locking ==
  \A w \in Workers :
    /\ mutex[w] = "acceptor" <=> acceptor_pc = "flag" /\ next_worker = w
    /\ mutex[w] = "worker" <=> worker_pc[w] = "clear"
    /\ mutex[w] = "acceptor" => pending_fds[w] # <<>>
    /\ mutex[w] = "worker" => pending_fds[w] = <<>>
    /\ fds[w] # <<>> => worker_pc[w] \in {"clear", "create"}

\* From the unlocked test on, a connection that the worker missed is announced.
Announced ==
  \A w \in Workers :
    /\ /\ worker_pc[w] \in {"create", "reapSessions", "poll"}
       /\ pending_fds[w] # <<>>
       => readable[w] \/ (next_worker = w /\ acceptor_pc \in {"flag", "notify"})
    /\ worker_pc[w] = "poll" /\ finished_sessions[w] # <<>> => readable[w]

\* The connection being dispatched, or accepted next.
Turn == IF acceptor_pc = "accept" THEN accepted + 1 ELSE accepted

Waiting(w) == fds[w] \o pending_fds[w]

\* Ascending connections, later than those of S and before n.
Ascending(seq, S, n) ==
  /\ \A i, j \in DOMAIN seq : i < j => seq[i] < seq[j]
  /\ \A x \in S, i \in DOMAIN seq : x < seq[i]
  /\ \A i \in DOMAIN seq : seq[i] < n
  /\ \A x \in S : x < n

\* The number the next connection that is queued will have.
NextQueued == IF acceptor_pc = "push" THEN accepted ELSE accepted + 1

\* All of seq have their turn at worker w.
SameTurn(seq, w) == \A i \in DOMAIN seq : seq[i] % NumWorkers = w % NumWorkers

InTurn ==
  /\ Turn % NumWorkers = next_worker % NumWorkers
  /\ \A w \in Workers :
       /\ Ascending(Waiting(w), sessions[w], NextQueued)
       /\ \A x \in sessions[w] : x % NumWorkers = w % NumWorkers
       /\ SameTurn(Waiting(w), w)

\* The inductive invariant.
IInv == Types /\ Locking /\ FlagIsExact /\ Announced /\ InTurn

-----------------------------------------------------------------------------
(* Turns modulo the number of workers *)

\* Division with remainder, for any divisor: the remainder is the one below n.
LEMMA RemainderUnique ==
  ASSUME NEW n \in Nat \ {0}, NEW q \in Int, NEW r \in 0 .. n - 1
  PROVE  (n * q + r) % n = r
OBVIOUS

\* Every integer has a quotient and a remainder.
LEMMA Division ==
  ASSUME NEW n \in Nat \ {0}, NEW a \in Int
  PROVE  \E q \in Int : a = n * q + (a % n) /\ a % n \in 0 .. n - 1
<1>1. a = n * (a \div n) + (a % n) /\ a % n \in 0 .. n - 1 /\ a \div n \in Int
  OBVIOUS
<1> QED BY <1>1, Zenon

\* When connection a goes to worker b, connection a + 1 goes to the worker that
\* next_worker becomes in acceptLoop().
LEMMA TurnAdvances ==
  ASSUME NEW n \in Nat \ {0}, NEW a \in Nat, NEW b \in Nat, a % n = b % n
  PROVE  (a + 1) % n = ((b % n) + 1) % n
<1>1. PICK q \in Int : a = n * q + (a % n) /\ a % n \in 0 .. n - 1
  <2>1. a \in Int  OBVIOUS
  <2> QED BY <2>1, Division, Zenon
<1>2. PICK r \in 0 .. n - 1 : r = a % n
  BY <1>1
<1>3. CASE r + 1 < n
  <2>1. a + 1 = n * q + (r + 1)  BY <1>1, <1>2
  <2>2. r + 1 \in 0 .. n - 1  BY <1>3
  <2>3. (n * q + (r + 1)) % n = r + 1  BY <2>2, RemainderUnique, Zenon
  <2>4. (n * 0 + (r + 1)) % n = r + 1  BY <2>2, RemainderUnique
  <2> QED BY <1>2, <2>1, <2>3, <2>4
<1>4. CASE r + 1 = n
  <2>1. a + 1 = n * (q + 1) + 0  BY <1>1, <1>2, <1>4
  <2>2. (n * (q + 1) + 0) % n = 0  BY RemainderUnique
  <2>3. r + 1 = n * 1 + 0  BY <1>4
  <2>4. (n * 1 + 0) % n = 0  BY RemainderUnique
  <2> QED BY <1>2, <2>1, <2>2, <2>3, <2>4
<1> QED BY <1>3, <1>4

-----------------------------------------------------------------------------
(* Each conjunct is kept by every step *)

\* Init, the initial state of the acceptor and of the workers, satisfies IInv.
LEMMA InitInvariant == Init => IInv
<1> SUFFICES ASSUME Init PROVE IInv
  OBVIOUS
<1> USE WorkersAssumption DEF Init, Workers
<1>1. Types  BY DEF Types
<1>2. Locking /\ FlagIsExact /\ Announced
  BY DEF Locking, FlagIsExact, Announced
<1>3. InTurn
  <2>1. Turn % NumWorkers = next_worker % NumWorkers  BY DEF Turn
  <2>2. \A w \in Workers : Waiting(w) = <<>> /\ sessions[w] = {}
    BY DEF Waiting
  <2> QED BY <2>1, <2>2 DEF InTurn, Ascending, SameTurn
<1> QED BY <1>1, <1>2, <1>3 DEF IInv

\* Every step of acceptLoop() and of the workers keeps the variables' types.
LEMMA TypesKept == Types /\ [Next]_vars => Types'
<1> SUFFICES ASSUME Types, [Next]_vars PROVE Types'
  OBVIOUS
<1> USE WorkersAssumption DEF Types, acceptor, freeing
<1>1. CASE Accept  BY <1>1 DEF Accept
<1>2. CASE DispatchPush  BY <1>2 DEF DispatchPush
<1>3. CASE DispatchFlag  BY <1>3 DEF DispatchFlag
<1>4. CASE DispatchNotify
  <2>1. NextWorker(next_worker) \in Workers  BY DEF NextWorker, Workers
  <2> QED BY <1>4, <2>1 DEF DispatchNotify
<1>5. ASSUME NEW w \in Workers,
             WorkerStep(w) \/ PollReturns(w) \/ \E x \in 1 .. MaxFds : SessionEnds(w, x)
      PROVE  Types'
  <2>1. CASE ReapTests(w)  BY <2>1 DEF ReapTests
  <2>2. CASE ReapSwaps(w)  BY <2>2 DEF ReapSwaps
  <2>3. CASE ReapClears(w)  BY <2>3 DEF ReapClears
  <2>4. CASE ReapCreates(w)
    <3>1. ToSet(fds[w]) \subseteq Nat  BY DEF ToSet
    <3> QED BY <2>4, <3>1 DEF ReapCreates
  <2>5. CASE reapSessions(w)  BY <2>5 DEF reapSessions
  <2>6. CASE PollReturns(w)  BY <2>6, Zenon DEF PollReturns
  <2>7. CASE Drain(w)  BY <2>7 DEF Drain
  <2>8. ASSUME NEW x \in 1 .. MaxFds, SessionEnds(w, x) PROVE Types'
    BY <2>8 DEF SessionEnds
  <2> QED BY <1>5, <2>1, <2>2, <2>3, <2>4, <2>5, <2>6, <2>7, <2>8, Zenon DEF WorkerStep
<1>6. CASE UNCHANGED vars  BY <1>6 DEF vars
<1> QED BY <1>1, <1>2, <1>3, <1>4, <1>5, <1>6, Zenon DEF Next, AcceptorStep

\* pending_fds_ is not empty after push_back().
LEMMA AppendNonEmpty ==
  ASSUME NEW seq \in Seq(Nat), NEW e \in Nat
  PROVE  Append(seq, e) # <<>>
<1>1. Len(Append(seq, e)) = Len(seq) + 1 /\ Len(seq) \in Nat
  OBVIOUS
<1> QED BY <1>1

\* The mutex is held by who is between its lock and its unlock, and
\* has_pending_fds_ is exact whenever nobody is.
LEMMA LockingKept ==
  Types /\ Locking /\ FlagIsExact /\ [Next]_vars => Locking' /\ FlagIsExact'
<1> SUFFICES ASSUME Types, Locking, FlagIsExact, [Next]_vars
             PROVE  Locking' /\ FlagIsExact'
  OBVIOUS
<1> USE DEF Types, Locking, FlagIsExact, acceptor, freeing
<1>1. CASE Accept  BY <1>1 DEF Accept
<1>2. CASE DispatchPush
  <2>1. pending_fds[next_worker] \in Seq(Nat) /\ accepted \in Nat
    OBVIOUS
  <2>2. Append(pending_fds[next_worker], accepted) # <<>>
    BY <2>1, AppendNonEmpty, Zenon
  <2> QED BY <1>2, <2>2, Zenon DEF DispatchPush
<1>3. CASE DispatchFlag  BY <1>3 DEF DispatchFlag
<1>4. CASE DispatchNotify  BY <1>4 DEF DispatchNotify
<1>5. ASSUME NEW w \in Workers,
             WorkerStep(w) \/ PollReturns(w) \/ \E x \in 1 .. MaxFds : SessionEnds(w, x)
      PROVE  Locking' /\ FlagIsExact'
  <2>1. CASE ReapTests(w)  BY <2>1 DEF ReapTests
  <2>2. CASE ReapSwaps(w)  BY <2>2, Zenon DEF ReapSwaps
  <2>3. CASE ReapClears(w)  BY <2>3 DEF ReapClears
  <2>4. CASE ReapCreates(w)  BY <2>4 DEF ReapCreates
  <2>5. CASE reapSessions(w)  BY <2>5 DEF reapSessions
  <2>6. CASE PollReturns(w)
    <3>1. PICK pc \in {"drain", "reapFds"} : worker_pc' = [worker_pc EXCEPT ![w] = pc]
      BY <2>6, Zenon DEF PollReturns
    <3> QED BY <2>6, <3>1 DEF PollReturns
  <2>7. CASE Drain(w)  BY <2>7 DEF Drain
  <2>8. ASSUME NEW x \in 1 .. MaxFds, SessionEnds(w, x)
        PROVE  Locking' /\ FlagIsExact'
    BY <2>8 DEF SessionEnds
  <2> QED BY <1>5, <2>1, <2>2, <2>3, <2>4, <2>5, <2>6, <2>7, <2>8 DEF WorkerStep
<1>6. CASE UNCHANGED vars  BY <1>6 DEF vars
<1> QED BY <1>1, <1>2, <1>3, <1>4, <1>5, <1>6, Zenon DEF Next, AcceptorStep

\* A connection that the worker's unlocked test of has_pending_fds_ missed is
\* announced by notify() after the test.
LEMMA AnnouncedKept ==
  Types /\ Locking /\ FlagIsExact /\ Announced /\ [Next]_vars => Announced'
<1> SUFFICES ASSUME Types, Locking, FlagIsExact, Announced, [Next]_vars
             PROVE  Announced'
  OBVIOUS
<1> USE DEF Types, Announced, acceptor, freeing
<1>1. CASE Accept  BY <1>1 DEF Accept
<1>2. CASE DispatchPush  BY <1>2 DEF DispatchPush
<1>3. CASE DispatchFlag  BY <1>3 DEF DispatchFlag
<1>4. CASE DispatchNotify  BY <1>4 DEF DispatchNotify
<1>5. ASSUME NEW w \in Workers,
             WorkerStep(w) \/ PollReturns(w) \/ \E x \in 1 .. MaxFds : SessionEnds(w, x)
      PROVE  Announced'
  <2>1. CASE ReapTests(w)  BY <2>1 DEF ReapTests, Locking, FlagIsExact
  <2>2. CASE ReapSwaps(w)  BY <2>2 DEF ReapSwaps
  <2>3. CASE ReapClears(w)  BY <2>3 DEF ReapClears, Locking
  <2>4. CASE ReapCreates(w)  BY <2>4 DEF ReapCreates
  <2>5. CASE reapSessions(w)  BY <2>5 DEF reapSessions
  <2>6. CASE PollReturns(w)  BY <2>6 DEF PollReturns
  <2>7. CASE Drain(w)  BY <2>7 DEF Drain
  <2>8. ASSUME NEW x \in 1 .. MaxFds, SessionEnds(w, x) PROVE Announced'
    BY <2>8 DEF SessionEnds
  <2> QED BY <1>5, <2>1, <2>2, <2>3, <2>4, <2>5, <2>6, <2>7, <2>8 DEF WorkerStep
<1>6. CASE UNCHANGED vars  BY <1>6 DEF vars
<1> QED BY <1>1, <1>2, <1>3, <1>4, <1>5, <1>6, Zenon DEF Next, AcceptorStep

-----------------------------------------------------------------------------
(* The order of the connections *)

\* dispatchFd() appends the connection just accepted.
LEMMA AscendingGrows ==
  ASSUME NEW seq \in Seq(Nat), NEW S \in SUBSET Nat, NEW n \in Nat,
         Ascending(seq, S, n)
  PROVE  Ascending(Append(seq, n), S, n + 1)
<1>1. PICK t : t = Append(seq, n)
  BY Zenon
<1>2. /\ t \in Seq(Nat) /\ Len(seq) \in Nat /\ DOMAIN seq = 1 .. Len(seq)
      /\ DOMAIN t = 1 .. Len(seq) + 1 /\ t[Len(seq) + 1] = n
      /\ \A i \in 1 .. Len(seq) : t[i] = seq[i]
  BY <1>1
<1>3. \A i \in DOMAIN t : IF i \in DOMAIN seq THEN t[i] = seq[i] ELSE t[i] = n
  BY <1>2
<1>4. \A i \in DOMAIN seq : seq[i] \in Nat /\ seq[i] < n
  BY DEF Ascending
<1>5. \A i, j \in DOMAIN t : i < j => t[i] < t[j]
  BY <1>2, <1>3, <1>4 DEF Ascending
<1>6. \A i \in DOMAIN t : t[i] < n + 1 /\ \A x \in S : x < t[i]
  BY <1>3, <1>4 DEF Ascending
<1>7. \A x \in S : x < n + 1
  BY DEF Ascending
<1>8. Ascending(t, S, n + 1)
  BY <1>5, <1>6, <1>7 DEF Ascending
<1> QED BY <1>1, <1>8

\* reapFds() makes sessions of the connections at the front.
LEMMA AscendingMoves ==
  ASSUME NEW f \in Seq(Nat), NEW p \in Seq(Nat), NEW S \in SUBSET Nat,
         NEW n \in Nat, Ascending(f \o p, S, n)
  PROVE  Ascending(p, S \cup ToSet(f), n)
<1>1. PICK c : c = f \o p
  BY Zenon
<1>2. /\ c \in Seq(Nat) /\ Len(c) = Len(f) + Len(p)
      /\ \A i \in 1 .. Len(f) : c[i] = f[i]
      /\ \A i \in 1 .. Len(p) : c[Len(f) + i] = p[i]
  BY <1>1, ConcatProperties
<1>3. /\ Len(f) \in Nat /\ Len(p) \in Nat /\ DOMAIN f = 1 .. Len(f)
      /\ DOMAIN p = 1 .. Len(p) /\ DOMAIN c = 1 .. Len(f) + Len(p)
  BY <1>2
<1>4. /\ \A i \in DOMAIN f : i \in DOMAIN c /\ c[i] = f[i]
      /\ \A i \in DOMAIN p : Len(f) + i \in DOMAIN c /\ c[Len(f) + i] = p[i]
  <2>1. PICK a \in Nat, b \in Nat : a = Len(f) /\ b = Len(p)
    BY <1>3, Zenon
  <2>2. ASSUME NEW i \in 1 .. a PROVE i \in 1 .. a + b
    OBVIOUS
  <2>3. ASSUME NEW i \in 1 .. b PROVE a + i \in 1 .. a + b
    OBVIOUS
  <2> QED BY <1>2, <1>3, <2>1, <2>2, <2>3, Zenon
<1>5. Ascending(c, S, n)
  BY <1>1
<1>6. ASSUME NEW i \in DOMAIN p
      PROVE  /\ p[i] < n
             /\ \A j \in DOMAIN p : i < j => p[i] < p[j]
             /\ \A x \in S : x < p[i]
             /\ \A k \in DOMAIN f : f[k] < p[i]
  <2>1. p[i] < n /\ \A x \in S : x < p[i]
    BY <1>4, <1>5 DEF Ascending
  <2>2. ASSUME NEW j \in DOMAIN p, i < j PROVE p[i] < p[j]
    <3>1. Len(f) + i < Len(f) + j  BY <1>3, <2>2
    <3> QED BY <1>4, <1>5, <3>1 DEF Ascending
  <2>3. ASSUME NEW k \in DOMAIN f PROVE f[k] < p[i]
    <3>1. k < Len(f) + i  BY <1>3
    <3> QED BY <1>4, <1>5, <3>1 DEF Ascending
  <2> QED BY <2>1, <2>2, <2>3
<1>7. \A k \in DOMAIN f : f[k] < n
  BY <1>4, <1>5 DEF Ascending
<1> QED BY <1>5, <1>6, <1>7 DEF Ascending, ToSet

\* The connection appended to pending_fds_ is the last of those that wait.
LEMMA AppendedIsLast ==
  ASSUME NEW f \in Seq(Nat), NEW p \in Seq(Nat), NEW e \in Nat
  PROVE  f \o Append(p, e) = Append(f \o p, e)
<1>1. <<e>> \in Seq(Nat) /\ f \o p \in Seq(Nat)
  OBVIOUS
<1>2. Append(p, e) = p \o <<e>> /\ Append(f \o p, e) = (f \o p) \o <<e>>
  BY <1>1, AppendIsConcat, Zenon
<1>3. (f \o p) \o <<e>> = f \o (p \o <<e>>)
  BY <1>1, ConcatAssociative
<1> QED BY <1>2, <1>3

\* The connections of one worker, and one more whose turn is the same.
LEMMA AppendedInTurn ==
  ASSUME NEW seq \in Seq(Nat), NEW e \in Nat, NEW w \in Workers,
         SameTurn(seq, w), e % NumWorkers = w % NumWorkers
  PROVE  SameTurn(Append(seq, e), w)
<1> USE DEF SameTurn
<1> SUFFICES \A i \in DOMAIN Append(seq, e) :
               Append(seq, e)[i] % NumWorkers = w % NumWorkers
  OBVIOUS
<1> TAKE i \in DOMAIN Append(seq, e)
<1>1. CASE i \in DOMAIN seq
  <2>1. Append(seq, e)[i] = seq[i]  BY <1>1
  <2> QED BY <1>1, <2>1
<1>2. CASE i \notin DOMAIN seq
  <2>1. Append(seq, e)[i] = e  BY <1>2
  <2> QED BY <2>1
<1> QED BY <1>1, <1>2

\* What holds of all the connections that wait holds of those taken and of
\* those still in pending_fds_.
LEMMA PartsInTurn ==
  ASSUME NEW f \in Seq(Nat), NEW p \in Seq(Nat), NEW w \in Workers,
         SameTurn(f \o p, w)
  PROVE  SameTurn(f, w) /\ SameTurn(p, w)
<1> USE DEF SameTurn
<1>1. PICK a \in Nat, b \in Nat : a = Len(f) /\ b = Len(p)
  OBVIOUS
<1>2. DOMAIN (f \o p) = 1 .. a + b /\ DOMAIN f = 1 .. a /\ DOMAIN p = 1 .. b
  BY <1>1
<1>3. ASSUME NEW i \in 1 .. a PROVE f[i] % NumWorkers = w % NumWorkers
  <2>1. i \in 1 .. a + b /\ (f \o p)[i] = f[i]  BY <1>1
  <2> QED BY <1>2, <2>1
<1>4. ASSUME NEW i \in 1 .. b PROVE p[i] % NumWorkers = w % NumWorkers
  <2>1. PICK k \in 1 .. a + b : k = a + i  OBVIOUS
  <2>2. (f \o p)[k] = p[i]  BY <1>1, <2>1
  <2>3. (f \o p)[k] % NumWorkers = w % NumWorkers  BY <1>2, Zenon
  <2> QED BY <2>2, <2>3
<1> QED BY <1>2, <1>3, <1>4

\* Every step keeps the turns: dispatchFd() extends the order, reapFds() moves
\* its front into sessions_, reapSessions() only takes away.
LEMMA InTurnKept ==
  Types /\ Locking /\ InTurn /\ [Next]_vars => InTurn'
<1> SUFFICES ASSUME Types, Locking, InTurn, [Next]_vars PROVE InTurn'
  OBVIOUS
<1> USE WorkersAssumption DEF acceptor, freeing
<1>t. \A w \in Workers : /\ fds[w] \in Seq(Nat) /\ pending_fds[w] \in Seq(Nat)
                         /\ Waiting(w) \in Seq(Nat) /\ sessions[w] \in SUBSET Nat
  BY DEF Types, Waiting
<1>n. accepted \in Nat /\ next_worker \in Workers /\ NextQueued \in Nat
  BY DEF Types, NextQueued
\* A step that moves no connection.
<1>1. ASSUME UNCHANGED <<fds, pending_fds, sessions>>,
             Turn' % NumWorkers = next_worker' % NumWorkers,
             NextQueued' = NextQueued
      PROVE  InTurn'
  BY <1>1 DEF InTurn, Waiting
<1>2. CASE Accept
  <2>1. Turn' = Turn /\ next_worker' = next_worker
    BY <1>2 DEF Accept, Turn
  <2>2. NextQueued' = NextQueued
    BY <1>2, <1>n DEF Accept, NextQueued
  <2> QED BY <1>1, <1>2, <2>1, <2>2 DEF Accept, InTurn
<1>3. CASE DispatchPush
  <2>1. Turn' = Turn /\ Turn = accepted /\ next_worker' = next_worker
    BY <1>3 DEF DispatchPush, Turn
  <2>2. NextQueued = accepted /\ NextQueued' = accepted + 1
    BY <1>3 DEF DispatchPush, NextQueued
  <2>3. PICK n \in Workers, a \in Nat : n = next_worker /\ a = accepted
    BY <1>n
  <2>4. /\ \A w \in Workers : w # n => Waiting(w)' = Waiting(w)
        /\ Waiting(n)' = fds[n] \o Append(pending_fds[n], a)
        /\ sessions' = sessions
    BY <1>3, <2>3, Zenon DEF DispatchPush, Waiting, Types
  <2>5. Waiting(n)' = Append(Waiting(n), a)
    BY <1>t, <2>4, AppendedIsLast, Zenon DEF Waiting
  <2>6. \A w \in Workers :
          /\ Ascending(Waiting(w), sessions[w], a)
          /\ SameTurn(Waiting(w), w)
    BY <2>2, <2>3 DEF InTurn
  <2>7. Ascending(Waiting(n)', sessions[n], a + 1)
    BY <1>t, <2>5, <2>6, AscendingGrows
  <2>8. SameTurn(Waiting(n)', n)
    <3>1. a % NumWorkers = n % NumWorkers
      BY <2>1, <2>3 DEF InTurn
    <3> QED BY <1>t, <2>5, <2>6, <3>1, AppendedInTurn
  <2>9. \A w \in Workers : w # n => Ascending(Waiting(w)', sessions[w], a + 1)
    BY <1>t, <2>4, <2>6 DEF Ascending
  <2> QED BY <2>1, <2>2, <2>3, <2>4, <2>6, <2>7, <2>8, <2>9, Zenon DEF InTurn
<1>4. CASE DispatchFlag
  BY <1>1, <1>4 DEF DispatchFlag, Turn, NextQueued, InTurn
<1>5. CASE DispatchNotify
  <2>1. Turn = accepted /\ Turn' = accepted + 1
    BY <1>5 DEF DispatchNotify, Turn
  <2>2. NextQueued' = NextQueued
    BY <1>5 DEF DispatchNotify, NextQueued
  <2>3. (accepted + 1) % NumWorkers = ((next_worker % NumWorkers) + 1) % NumWorkers
    <3>1. accepted % NumWorkers = next_worker % NumWorkers /\ next_worker \in Nat
      BY <1>n, <2>1 DEF InTurn, Workers
    <3> QED BY <1>n, <3>1, TurnAdvances, Zenon
  <2> QED BY <1>1, <1>5, <2>1, <2>2, <2>3 DEF DispatchNotify, NextWorker
<1>6. ASSUME NEW w \in Workers,
             WorkerStep(w) \/ PollReturns(w) \/ \E x \in 1 .. MaxFds : SessionEnds(w, x)
      PROVE  InTurn'
  <2>1. Turn' = Turn /\ next_worker' = next_worker /\ NextQueued' = NextQueued
    BY <1>6 DEF WorkerStep, ReapTests, ReapSwaps, ReapClears, ReapCreates,
                reapSessions, Drain, PollReturns, SessionEnds, Turn, NextQueued
  <2>2. CASE UNCHANGED <<fds, pending_fds, sessions>>
    BY <1>1, <2>1, <2>2 DEF InTurn
  <2>3. CASE ReapSwaps(w)
    <3>1. sessions' = sessions /\ fds[w] = <<>> /\ fds[w]' = pending_fds[w]
          /\ pending_fds[w]' = <<>>
      BY <2>3 DEF ReapSwaps, Locking, Types
    <3>2. Waiting(w)' = Waiting(w)
      BY <1>t, <3>1, ConcatEmptySeq DEF Waiting
    <3>3. \A v \in Workers : Waiting(v)' = Waiting(v)
      BY <2>3, <3>2, Zenon DEF ReapSwaps, Waiting, Types
    <3> QED BY <2>1, <3>1, <3>3 DEF InTurn
  <2>4. CASE ReapCreates(w)
    <3>1. /\ sessions[w]' = sessions[w] \cup ToSet(fds[w])
          /\ Waiting(w)' = <<>> \o pending_fds[w]
      BY <2>4 DEF ReapCreates, Waiting, Types
    <3>2. Waiting(w)' = pending_fds[w]
      BY <1>t, <3>1, ConcatEmptySeq
    <3>3. \A v \in Workers : v # w => sessions[v]' = sessions[v] /\ Waiting(v)' = Waiting(v)
      BY <2>4, Zenon DEF ReapCreates, Waiting, Types
    <3>4. PICK f \in Seq(Nat), p \in Seq(Nat), S \in SUBSET Nat, n \in Nat :
            f = fds[w] /\ p = pending_fds[w] /\ S = sessions[w] /\ n = NextQueued
      BY <1>t, <1>n
    <3>5. /\ Ascending(f \o p, S, n)
          /\ SameTurn(f \o p, w)
          /\ \A x \in S : x % NumWorkers = w % NumWorkers
      BY <3>4 DEF InTurn, Waiting
    <3>6. Ascending(p, S \cup ToSet(f), n)
      BY <3>5, AscendingMoves
    <3>7. SameTurn(f, w) /\ SameTurn(p, w)
      BY <3>5, PartsInTurn
    <3>8. Waiting(w)' = p /\ sessions[w]' = S \cup ToSet(f) /\ NextQueued' = n
      BY <2>1, <3>1, <3>2, <3>4
    <3>9. \A x \in S \cup ToSet(f) : x % NumWorkers = w % NumWorkers
      BY <3>5, <3>7 DEF SameTurn, ToSet
    <3>10. ASSUME NEW v \in Workers
          PROVE  /\ Ascending(Waiting(v)', sessions[v]', NextQueued')
                 /\ \A x \in sessions[v]' : x % NumWorkers = v % NumWorkers
                 /\ SameTurn(Waiting(v)', v)
      <4>1. CASE v = w  BY <3>6, <3>7, <3>8, <3>9, <4>1, Zenon
      <4>2. CASE v # w  BY <2>1, <3>3, <4>2 DEF InTurn
      <4> QED BY <4>1, <4>2
    <3> QED BY <2>1, <3>10 DEF InTurn
  <2>5. CASE reapSessions(w)
    <3>1. /\ \A v \in Workers : sessions[v]' \subseteq sessions[v]
          /\ UNCHANGED <<fds, pending_fds>>
      BY <2>5 DEF reapSessions, Types
    <3>2. \A v \in Workers : Waiting(v)' = Waiting(v)
      BY <3>1 DEF Waiting
    <3>3. \A v \in Workers : Ascending(Waiting(v)', sessions[v]', NextQueued')
      BY <2>1, <3>1, <3>2 DEF InTurn, Ascending
    <3> QED BY <2>1, <3>1, <3>2, <3>3 DEF InTurn
  <2> QED BY <1>6, <2>2, <2>3, <2>4, <2>5
          DEF WorkerStep, ReapTests, ReapClears, Drain, PollReturns, SessionEnds
<1>7. CASE UNCHANGED vars
  BY <1>1, <1>7 DEF vars, Turn, NextQueued, InTurn
<1> QED BY <1>2, <1>3, <1>4, <1>5, <1>6, <1>7 DEF Next, AcceptorStep

-----------------------------------------------------------------------------
(* The theorems *)

\* IInv holds in every reachable state, for any number of workers.
THEOREM Invariance == Spec => []IInv
<1>1. IInv /\ [Next]_vars => IInv'
  BY TypesKept, LockingKept, AnnouncedKept, InTurnKept DEF IInv
<1> QED BY <1>1, InitInvariant, PTL DEF Spec

\* No worker sleeps in co_poll() on connections to take or sessions to free
\* that nobody announces: the protocol of dispatchFd() and reapFds(), with its
\* test outside the mutex, loses no wake-up.
THEOREM WakeupsKept == Spec => []NoLostWakeup
<1>1. IInv => NoLostWakeup
  BY DEF IInv, Announced, NoLostWakeup
<1> QED BY <1>1, Invariance, PTL

\* has_pending_fds_ says what pending_fds_ holds whenever the mutex is free.
THEOREM FlagExact == Spec => []FlagIsExact
<1>1. IInv => FlagIsExact
  BY DEF IInv
<1> QED BY <1>1, Invariance, PTL

\* acceptLoop() deals the connections out in turn, and each worker serves its
\* own in the order of their accept, each once.
THEOREM DealtInTurn == Spec => []HandedOverInTurn
<1>1. IInv => HandedOverInTurn
  <2> SUFFICES ASSUME IInv, NEW w \in Workers, NEW c, c = Waiting(w)
               PROVE  /\ \A x \in sessions[w] \cup ToSet(c) : x % NumWorkers = w % NumWorkers
                      /\ \A i, j \in DOMAIN c : i < j => c[i] < c[j]
                      /\ \A x \in sessions[w], i \in DOMAIN c : x < c[i]
    BY Zenon DEF HandedOverInTurn, Waiting
  <2>1. Ascending(c, sessions[w], NextQueued)
    BY DEF IInv, InTurn
  <2>2. \A x \in sessions[w] \cup ToSet(c) : x % NumWorkers = w % NumWorkers
    BY DEF IInv, InTurn, SameTurn, ToSet
  <2> QED BY <2>1, <2>2 DEF Ascending
<1> QED BY <1>1, Invariance, PTL
=============================================================================
