-------------------------- MODULE BackendContract ---------------------------
(***************************************************************************)
(* What a backend channel promises to its reply sinks, and all that        *)
(* ClientSession and BackendPool rely on: commands are accepted only while *)
(* the channel is up; an owner is answered in the order of its commands;   *)
(* when the channel goes down everybody who is owed something is told at   *)
(* once; an owner that leaves hears nothing more, but what was already     *)
(* sent to Redis for it goes on counting as load until it is answered.     *)
(***************************************************************************)
EXTENDS Integers, FiniteSets

CONSTANTS Owners

VARIABLES up,        \* isHealthy()
          owed,      \* per owner, the commands it still expects a callback for
          load,      \* queuedCommandCount()
          accepted   \* commands accepted so far; the next one gets the next number

vars == <<up, owed, load, accepted>>

Owing  == UNION {owed[o] : o \in Owners}
Oldest(s) == {c \in s : \A d \in s : c <= d}

Init == /\ up = FALSE
        /\ owed = [o \in Owners |-> {}]
        /\ load = 0
        /\ accepted = 0

Submit(o) ==
  /\ up
  /\ accepted' > accepted
  /\ load' = load + (accepted' - accepted)
  /\ owed' = [owed EXCEPT ![o] = @ \cup (accepted + 1 .. accepted')]
  /\ UNCHANGED up

Answer(o) ==
  /\ owed[o] # {}
  /\ owed' = [owed EXCEPT ![o] = @ \ Oldest(@)]
  /\ load' = load - 1
  /\ UNCHANGED <<up, accepted>>

\* A reply to a command whose owner has left.
AnswerNobody ==
  /\ load > Cardinality(Owing)
  /\ load' = load - 1
  /\ UNCHANGED <<up, owed, accepted>>

\* Some of the commands of o, those not yet sent, are dropped; the others
\* stay as load without an owner.
Leave(o) ==
  /\ owed' = [owed EXCEPT ![o] = {}]
  /\ load' \in (load - Cardinality(owed[o])) .. load
  /\ UNCHANGED <<up, accepted>>

Fail ==
  /\ up
  /\ up' = FALSE
  /\ owed' = [o \in Owners |-> {}]
  /\ load' = 0
  /\ UNCHANGED accepted

Recover ==
  /\ ~up
  /\ up' = TRUE
  /\ UNCHANGED <<owed, load, accepted>>

Next ==
  \/ AnswerNobody \/ Fail \/ Recover
  \/ \E o \in Owners : Submit(o) \/ Answer(o) \/ Leave(o)

Spec == Init /\ [][Next]_vars
=============================================================================
