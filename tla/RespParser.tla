----------------------------- MODULE RespParser -----------------------------
(***************************************************************************)
(* RespParser::unpack() (src/src/resp_parser.cpp): it calls the RESP codec *)
(* with a scratch array of value slots, which it keeps from call to call   *)
(* and enlarges when the codec runs out of slots, up to a limit derived    *)
(* from the bytes at hand, and it refuses frames longer than               *)
(* max_frame_bytes_.                                                       *)
(*                                                                         *)
(* A frame is the sequence of its values in the order they are encoded,    *)
(* arrays before their elements.  A value has a type, may be malformed,    *)
(* and comes with the bytes of the frame up to its end (for an array, the  *)
(* end of its header) and the slots that the codec needs up to there: one  *)
(* for the first value, and one for each element an array announces.  An   *)
(* input is a number of bytes and the frame that they begin with.          *)
(***************************************************************************)
EXTENDS Integers, SequencesExt

CONSTANTS InitialSlots,   \* the 16 slots of a new scratch array
          Limits          \* values of max_frame_bytes_

ASSUME SlotsAssumption == InitialSlots \in Nat \ {0}

VARIABLES
  max_frame_bytes,   \* max_frame_bytes_
  scratch,           \* scratch_.size()
  unpack_pc,         \* "idle", or inside unpack(): "call", then "loop"
  input,             \* the argument of unpack(), before substr()
  result,            \* what unpack() returned last
  longest            \* the longest input so far, in units of three bytes

parser == <<max_frame_bytes, scratch, unpack_pc, input, result, longest>>

Bytes(frame) == Last(frame).end

\* The codec (external): it reads value after value until the bytes end, a value
\* is malformed, the slots do not suffice, or all of the values are there.
UnpackOne(frame, size, slots_) ==
  LET part(k)  == k > Len(frame) \/ frame[k].end > size
      stops(k) == part(k) \/ ~frame[k].ok \/ frame[k].need > slots_ \/ frame[k].need = k
      stop == Min({k \in 1 .. (Len(frame) + 1) : stops(k)})
  IN  [status   |-> IF part(stop) THEN "NeedMore"
                    ELSE IF ~frame[stop].ok THEN "Error"
                    ELSE IF frame[stop].need > slots_ THEN "NoMemory" ELSE "Ok",
       consumed |-> IF part(stop) THEN 0 ELSE frame[stop].end]

-----------------------------------------------------------------------------
Size == Min({input.size, max_frame_bytes})

\* Variant: as many slots as bytes.
SlotPerByte(size) == size + 1

\* Every encoded value takes at least three bytes.
MaxSlots(size) == size \div 3 + 1

slots   == Min({scratch, MaxSlots(Size)})
Attempt == UnpackOne(input.frame, Size, slots)
Grows   == Attempt.status = "NoMemory" /\ slots < MaxSlots(Size)

\* Variant: the limit is only noticed one byte late.
AtLimitLate == Size > max_frame_bytes

AtLimit == Size >= max_frame_bytes

\* The status returned when the scratch array is not enlarged: more slots than
\* the bytes can fill means that bytes are missing, and a frame of which bytes
\* are missing at the limit is too long.
Verdict ==
  LET st == IF Attempt.status = "NoMemory" THEN "NeedMore" ELSE Attempt.status
  IN  IF st = "NeedMore" /\ AtLimit THEN "Error" ELSE st

NoResult == [status |-> "NeedMore", consumed |-> 0]

ParserInit ==
  /\ max_frame_bytes \in Limits
  /\ scratch = 0 /\ unpack_pc = "idle" /\ longest = 0
  /\ input = [frame |-> <<>>, size |-> 0]
  /\ result = NoResult

unpack(in) ==
  /\ unpack_pc = "idle"
  /\ input' = in
  /\ longest' = Max({longest, in.size \div 3})
  /\ unpack_pc' = "call"
  /\ result' = NoResult
  /\ UNCHANGED <<max_frame_bytes, scratch>>

\* A parser that has no scratch array yet makes one.
FirstSlots ==
  /\ unpack_pc = "call"
  /\ scratch' = IF scratch = 0 THEN Min({InitialSlots, MaxSlots(Size)}) ELSE scratch
  /\ unpack_pc' = "loop"
  /\ UNCHANGED <<max_frame_bytes, input, result, longest>>

Grow ==
  /\ unpack_pc = "loop" /\ Grows
  /\ scratch' = slots + Min({slots, MaxSlots(Size) - slots})
  /\ UNCHANGED <<max_frame_bytes, unpack_pc, input, result, longest>>

\* resize() throws.
BadAlloc ==
  /\ (unpack_pc = "call" /\ scratch = 0) \/ (unpack_pc = "loop" /\ Grows)
  /\ result' = [status |-> "NoMemory", consumed |-> 0]
  /\ unpack_pc' = "idle"
  /\ UNCHANGED <<max_frame_bytes, scratch, input, longest>>

Return ==
  /\ unpack_pc = "loop" /\ ~Grows
  /\ result' = [status |-> Verdict, consumed |-> Attempt.consumed]
  /\ unpack_pc' = "idle"
  /\ UNCHANGED <<max_frame_bytes, scratch, input, longest>>

UnpackStep == FirstSlots \/ Grow \/ Return

-----------------------------------------------------------------------------
(* Properties *)

WellFormed(frame) == \A i \in DOMAIN frame : frame[i].ok

\* The verdict depends on the bytes alone, never on what earlier frames made of
\* the scratch array: a complete frame within the limit is found, with its
\* length; only a malformed or too long one is refused; and more bytes are asked
\* for only while more could help.
VerdictExact ==
  unpack_pc = "idle" /\ input.frame # <<>> /\ result.status # "NoMemory" =>
    LET frame == input.frame
        whole == WellFormed(frame) /\ Bytes(frame) <= Size
    IN  /\ (result.status = "Ok") <=> whole
        /\ whole => result.consumed = Bytes(frame)
        /\ result.status = "Error" =>
             ~WellFormed(frame) \/ Bytes(frame) > max_frame_bytes
        /\ result.status = "NeedMore" => input.size < max_frame_bytes

\* "A declaration without its payload must not allocate an arena proportional
\* to its count" (resp_parser.cpp): the scratch array is bounded by the bytes
\* that really came, whatever number of elements an array announces.
ScratchBounded == scratch <= longest + 1

=============================================================================
