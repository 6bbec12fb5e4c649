--------------------------- MODULE RequestReader ----------------------------
(***************************************************************************)
(* ClientSession::readerLoop() (src/src/client_session.cpp) on the bytes   *)
(* of the client, composed with the parser it calls: which bytes it        *)
(* forwards as how many commands, which it refuses, which end the session, *)
(* and when it asks the socket for more.  ClientSession has the replies    *)
(* and the backends; here the session may stop wherever the loop suspends. *)
(*                                                                         *)
(* A byte of the client is its offset in the stream, and client_in_ holds  *)
(* the offsets from base up to arrived.                                    *)
(***************************************************************************)
EXTENDS RespParser

CONSTANTS Scripts,   \* what clients send: sequences of frames
          Budget     \* max_pipeline_commands_per_read

ASSUME BudgetAssumption == Budget \in Nat \ {0}

VARIABLES
  script, arrived, base,
  reader_pc,        \* "parse", "peek", "submit", "answer", "poll", "read", "ended"
  parsed, consumed, rejected_bytes, error, ps,   \* the locals of readerLoop()
  log,              \* the batches forwarded and the commands refused, in order
  outcome           \* the error the session ends with

locals == <<parsed, consumed, rejected_bytes, error, ps>>
reader == <<script, arrived, base, reader_pc, locals, log, outcome>>

\* The offset at which the k-th frame ends.
End(k) ==
  LET end[i \in 0 .. k] == IF i = 0 THEN 0 ELSE end[i - 1] + Bytes(script[i]) IN end[k]
SentBytes == End(Len(script))

\* The bytes from offset p on, as the codec sees them: an offset inside a frame
\* reads as something malformed.
Garbage == <<[end |-> 1, need |-> 1, type |-> "other", ok |-> FALSE]>>
BytesAt(p) ==
  [frame |-> IF p = SentBytes THEN <<>>
             ELSE IF \E k \in DOMAIN script : End(k - 1) = p
             THEN script[CHOOSE k \in DOMAIN script : End(k - 1) = p]
             ELSE Garbage,
   size  |-> arrived - p]

\* extractCommandInfo(): an array of bulk strings, and not an empty one.
extractCommandInfo(frame) ==
  /\ frame[1].type = "array" /\ Len(frame) > 1
  /\ \A i \in 2 .. Len(frame) : frame[i].type = "bulk"

\* CommandRules::validate() (external here: module CommandRules).
Validates(frame) == frame[2].text # "refused"

peekFrame ==
  IF result.status = "Ok" /\ ~extractCommandInfo(input.frame)
  THEN "Error" ELSE result.status

-----------------------------------------------------------------------------
ReaderInit ==
  /\ ParserInit
  /\ script \in Scripts
  /\ arrived = 0 /\ base = 0 /\ log = <<>> /\ outcome = "none"
  /\ reader_pc = "parse"
  /\ parsed = 0 /\ consumed = 0 /\ rejected_bytes = 0
  /\ error = "none" /\ ps = "NeedMore"

Turn ==
  /\ reader_pc' = "parse"
  /\ parsed' = 0 /\ consumed' = 0 /\ rejected_bytes' = 0
  /\ error' = "none" /\ ps' = "NeedMore"

Peek ==
  /\ reader_pc = "parse" /\ parsed < Budget
  /\ unpack(BytesAt(base + consumed))
  /\ reader_pc' = "peek"
  /\ UNCHANGED <<script, arrived, base, locals, log, outcome>>

BudgetSpent ==
  /\ reader_pc = "parse" /\ parsed = Budget
  /\ reader_pc' = "submit"
  /\ UNCHANGED <<parser, script, arrived, base, locals, log, outcome>>

Peeked ==
  /\ reader_pc = "peek" /\ unpack_pc = "idle"
  /\ ps' = peekFrame
  /\ UNCHANGED <<parser, script, arrived, base, log, outcome>>

Unusable ==
  /\ Peeked /\ peekFrame # "Ok"
  /\ error' = CASE peekFrame = "NeedMore" -> "none"
                [] peekFrame = "NoMemory" -> "memory"
                [] OTHER                  -> "protocol"
  /\ reader_pc' = "submit"
  /\ UNCHANGED <<parsed, consumed, rejected_bytes>>

\* Variant: the command is counted before it is validated.
RefusedCounts ==
  /\ Peeked /\ peekFrame = "Ok" /\ ~Validates(input.frame)
  /\ error' = "rules"
  /\ rejected_bytes' = result.consumed
  /\ parsed' = parsed + 1
  /\ reader_pc' = "submit"
  /\ UNCHANGED consumed

Refused ==
  /\ Peeked /\ peekFrame = "Ok" /\ ~Validates(input.frame)
  /\ error' = "rules"
  /\ rejected_bytes' = result.consumed
  /\ reader_pc' = "submit"
  /\ UNCHANGED <<parsed, consumed>>

Accepted ==
  /\ Peeked /\ peekFrame = "Ok" /\ Validates(input.frame)
  /\ consumed' = consumed + result.consumed
  /\ parsed' = parsed + 1
  /\ reader_pc' = "parse"
  /\ UNCHANGED <<rejected_bytes, error>>

Entry(kind, from, to, n) == [kind |-> kind, from |-> from, to |-> to, n |-> n]
Batch ==
  IF parsed = 0 THEN <<>> ELSE <<Entry("forward", base, base + consumed, parsed)>>

\* Variant: the refused command stays in client_in_.
NotRemoved == 0

\* client_in_.consume(rejected_bytes)
Removed == rejected_bytes
Refusal ==
  IF Removed = 0 THEN <<>>
  ELSE <<Entry("refuse", base + consumed, base + consumed + Removed, 1)>>

SubmitFails ==
  /\ reader_pc = "submit" /\ parsed > 0
  /\ base' = base + consumed
  /\ reader_pc' = "ended" /\ outcome' = "aborted"
  /\ log' = log \o Batch
  /\ UNCHANGED <<parser, script, arrived, locals>>

MoreToParse(left) == ps = "Ok" /\ left # 0

\* slicePrefix() and submitBatch(), and what is done about an error.
Submit ==
  /\ reader_pc = "submit"
  /\ base' = base + consumed + Removed
  /\ log' = log \o Batch \o Refusal
  /\ reader_pc' = CASE error = "none" /\ MoreToParse(arrived - base')  -> "poll"
                    [] error = "none" /\ ~MoreToParse(arrived - base') -> "read"
                    [] error # "none" /\ rejected_bytes = 0            -> "ended"
                    [] error # "none" /\ rejected_bytes # 0            -> "answer"
  /\ outcome' = IF error # "none" /\ rejected_bytes = 0 THEN error ELSE outcome
  /\ UNCHANGED <<parser, script, arrived, locals>>

\* The replies to earlier commands are out, and the refusal follows them; or
\* co_poll() returns.
Continue ==
  /\ reader_pc \in {"answer", "poll"}
  /\ Turn
  /\ UNCHANGED <<parser, script, arrived, base, log, outcome>>

Read ==
  /\ reader_pc = "read"
  /\ \E n \in 1 .. (SentBytes - arrived) : arrived' = arrived + n
  /\ Turn
  /\ UNCHANGED <<parser, script, base, log, outcome>>

\* Variant: what is left in the buffer at the end is not looked at.
EndCleanly ==
  /\ reader_pc = "read"
  /\ reader_pc' = "ended" /\ outcome' = "none"
  /\ UNCHANGED <<parser, script, arrived, base, locals, log>>

\* readSome() finds the end of the client's stream.
ReadEnd ==
  /\ reader_pc = "read"
  /\ reader_pc' = "ended"
  /\ outcome' = IF arrived = base THEN "none" ELSE "protocol"
  /\ UNCHANGED <<parser, script, arrived, base, locals, log>>

\* The session is no longer open when the loop is resumed, or the read fails.
Stopped ==
  /\ reader_pc \in {"answer", "poll", "read"}
  /\ reader_pc' = "ended" /\ outcome' = "aborted"
  /\ UNCHANGED <<parser, script, arrived, base, locals, log>>

Parsing == UnpackStep /\ UNCHANGED reader

OutOfMemory == BadAlloc /\ UNCHANGED reader

ReaderStep ==
  Peek \/ Parsing \/ BudgetSpent \/ Unusable \/ Refused \/ Accepted \/ Submit \/ Continue

ReaderNext == ReaderStep \/ OutOfMemory \/ SubmitFails \/ Read \/ ReadEnd \/ Stopped

\* The loop runs on by itself, except that it waits for the client in a read.
ReaderSpec ==
  ReaderInit /\ [][ReaderNext]_<<parser, reader>> /\ WF_<<parser, reader>>(ReaderStep)

-----------------------------------------------------------------------------
(* Properties *)

Command(frame) ==
  WellFormed(frame) /\ Bytes(frame) <= max_frame_bytes /\ extractCommandInfo(frame)

\* Every byte taken from the client is accounted for, once and in order: a batch
\* covers exactly the number of whole, valid commands it is submitted as (the
\* number of replies the backend channel then waits for), and a refusal exactly
\* one command that the rules refuse.
BytesAccounted ==
  /\ \A i \in DOMAIN log : log[i].from = (IF i = 1 THEN 0 ELSE log[i - 1].to)
  /\ base = IF log = <<>> THEN 0 ELSE Last(log).to
  /\ \A i \in DOMAIN log : \E j \in 0 .. (Len(script) - log[i].n) :
       /\ log[i].from = End(j) /\ log[i].to = End(j + log[i].n)
       /\ \A k \in (j + 1) .. (j + log[i].n) :
            Command(script[k]) /\ (Validates(script[k]) <=> log[i].kind = "forward")

\* A session ends with "ERR proxy protocol error" only over bytes that are no
\* command: malformed, too long, of another shape, or cut off by the end of the
\* stream; and it ends without an error only when nothing is left over.
EndsForCause ==
  /\ outcome = "protocol" =>
       \E k \in 1 .. Len(script) : /\ base = End(k - 1)
                                   /\ ~Command(script[k]) \/ arrived < End(k)
  /\ reader_pc = "ended" /\ outcome = "none" => base = arrived

LongestScript == Max({Len(s) : s \in Scripts})
Arrived(k) ==
  k <= Len(script) /\ arrived >= End(k) /\ \A j \in 1 .. k : WellFormed(script[j])
Taken(k)   == k > Len(script) \/ base >= End(k)

\* Every command that has arrived whole, behind others that are well-formed, is
\* taken without another byte from the client, however many arrive in one read,
\* unless the session ends: "the parsing budget is a scheduling boundary, not a
\* demand for new I/O" (client_session.cpp).
ArrivedIsTaken ==
  \A k \in 1 .. LongestScript : Arrived(k) ~> (Taken(k) \/ reader_pc = "ended")
=============================================================================
