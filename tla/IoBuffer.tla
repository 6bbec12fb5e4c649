------------------------------ MODULE IoBuffer ------------------------------
(***************************************************************************)
(* The buffers of one worker: the BlockPool, the reference counted blocks, *)
(* the IoBuffers that sockets read into and the BufferChains cut from them *)
(* without copying (src/src/buffer.cpp).  Sequential code; the difficulty  *)
(* is that one block is shared by a buffer that still appends to it and by *)
(* any number of chains, and that readableView() caches a linear copy.     *)
(*                                                                         *)
(* A byte is the pair of the buffer it was read into and its position in   *)
(* that buffer's input, so that a misplaced byte is seen.                  *)
(***************************************************************************)
EXTENDS Integers, FiniteSets, SequencesExt

CONSTANTS Buffers, Chains,
          Blocks,      \* bound: blocks that can be allocated
          BlockSize,   \* block_size_
          MaxBytes,    \* bound: bytes read into one buffer
          MaxSlices,   \* bound: slices of a chain made by appendChain()
          MaxMade      \* bound: bytes given to MakeBufferChain()

ASSUME SizesAssumption == BlockSize \in Nat \ {0} /\ MaxBytes \in Nat

VARIABLES
  mem,        \* data_ of each block
  begin, end, \* begin_ and end_ of each block
  refcount,   \* refcount_ of each block
  allocated,  \* blocks made by new
  free,       \* free_
  blocks,     \* blocks_ of each buffer
  readable_bytes, linearized, linearized_offset,
  written,    \* bytes read into each buffer so far
  consumed,   \* bytes taken out of each buffer so far
  chain,      \* slices_ of each chain, <<>> when it does not exist
  text        \* the bytes each chain was cut from

pool   == <<mem, begin, end, refcount, allocated, free>>
caches == <<linearized, linearized_offset>>
cut    == <<chain, text>>
vars   == <<pool, blocks, readable_bytes, caches, written, consumed, cut>>

Init ==
  /\ mem = [b \in Blocks |-> <<>>]
  /\ begin = [b \in Blocks |-> 0] /\ end = [b \in Blocks |-> 0]
  /\ refcount = [b \in Blocks |-> 1]
  /\ allocated = {} /\ free = {}
  /\ blocks = [f \in Buffers |-> <<>>]
  /\ readable_bytes = [f \in Buffers |-> 0]
  /\ linearized = [f \in Buffers |-> <<>>]
  /\ linearized_offset = [f \in Buffers |-> 0]
  /\ written = [f \in Buffers |-> 0] /\ consumed = [f \in Buffers |-> 0]
  /\ chain = [c \in Chains |-> <<>>] /\ text = [c \in Chains |-> <<>>]

-----------------------------------------------------------------------------
(* Blocks and references *)

Size(b) == end[b] - begin[b]
Content(b) == SubSeq(mem[b], begin[b] + 1, end[b])

\* The blocks of a sequence of slices, and how often a sequence has block b.
BlocksOf(slices) == [i \in DOMAIN slices |-> slices[i].block]
Refs(bs, b) == Cardinality({i \in DOMAIN bs : bs[i] = b})

\* Variants: a slice without a reference, a slice that keeps it.
RetainNone(rc, bs) == rc
ReleaseNone(rc, bs) == rc

retain(rc, bs)  == [b \in Blocks |-> rc[b] + Refs(bs, b)]
release(rc, bs) == [b \in Blocks |-> rc[b] - Refs(bs, b)]

\* What the release() of each block does in the end: those left without a
\* reference are reset and go back to the pool.
recycle(rc, bg) ==
  LET idle == {b \in allocated \ free : rc[b] = 0}
  IN  /\ free' = free \cup idle
      /\ refcount' = [b \in Blocks |-> IF b \in idle THEN 1 ELSE rc[b]]
      /\ begin' = [b \in Blocks |-> IF b \in idle THEN 0 ELSE bg[b]]
      /\ end' = [b \in Blocks |-> IF b \in idle THEN 0 ELSE end[b]]
      /\ UNCHANGED <<mem, allocated>>

-----------------------------------------------------------------------------
(* Writing: reserveWritable(), then commitWrite() of n bytes unless the read *)
(* failed (n = 0)                                                            *)

NeedsBlock(f) == blocks[f] = <<>> \/ end[Last(blocks[f])] = BlockSize

\* acquire(): a free block before a new one.
acquire == IF free # {} THEN free ELSE Blocks \ allocated

commitWrite(f, b, n) ==
  /\ n <= BlockSize - end[b] /\ written[f] + n <= MaxBytes
  /\ mem' = [mem EXCEPT ![b] = SubSeq(@, 1, end[b]) \o
                                 [i \in 1 .. n |-> <<f, written[f] + i>>]]
  /\ end' = [end EXCEPT ![b] = @ + n]
  /\ readable_bytes' = [readable_bytes EXCEPT ![f] = @ + n]
  /\ written' = [written EXCEPT ![f] = @ + n]
  /\ IF n = 0
     THEN UNCHANGED caches
     ELSE /\ linearized' = [linearized EXCEPT ![f] = <<>>]
          /\ linearized_offset' = [linearized_offset EXCEPT ![f] = 0]

reserveWritable(f, n) ==
  /\ IF NeedsBlock(f)
     THEN \E b \in acquire :
            /\ blocks' = [blocks EXCEPT ![f] = Append(@, b)]
            /\ free' = free \ {b} /\ allocated' = allocated \cup {b}
            /\ commitWrite(f, b, n)
     ELSE /\ commitWrite(f, Last(blocks[f]), n)
          /\ UNCHANGED <<blocks, free, allocated>>
  /\ UNCHANGED <<begin, refcount, consumed, cut>>

-----------------------------------------------------------------------------
(* Reading *)

\* Bytes in the first k blocks of f.
SizeOf(f, k) == MapThenSumSet(LAMBDA i : Size(blocks[f][i]), 1 .. k)

\* How many blocks the loops of consume() and slicePrefix() visit for n bytes,
\* and how many of these are empty afterwards.
Visited(f, n) == Cardinality({k \in DOMAIN blocks[f] : SizeOf(f, k - 1) < n})
Emptied(f, n) == Cardinality({k \in 1 .. Visited(f, n) : SizeOf(f, k) <= n})

\* begin_ of each block after consume() of n bytes.
Advanced(f, n) ==
  [b \in Blocks |->
     IF \E k \in 1 .. Visited(f, n) : blocks[f][k] = b
     THEN LET k == CHOOSE j \in 1 .. Visited(f, n) : blocks[f][j] = b
          IN  Min({end[b], begin[b] + n - SizeOf(f, k - 1)})
     ELSE begin[b]]

\* Variant: the cache keeps its place.
OffsetKept(f, n) == linearized_offset[f]

NewOffset(f, n) ==
  IF linearized[f] = <<>> THEN linearized_offset[f] ELSE linearized_offset[f] + n

\* The body of consume(), from reference counts rc.
Take(f, n, rc) ==
  LET k == Emptied(f, n)
  IN  /\ readable_bytes' = [readable_bytes EXCEPT ![f] = @ - n]
      /\ consumed' = [consumed EXCEPT ![f] = @ + n]
      /\ linearized_offset' = [linearized_offset EXCEPT ![f] = NewOffset(f, n)]
      /\ blocks' = [blocks EXCEPT ![f] = SubSeq(@, k + 1, Len(@))]
      /\ recycle(release(rc, SubSeq(blocks[f], 1, k)), Advanced(f, n))
      /\ UNCHANGED <<linearized, written>>

\* Variant: consume() trusts its argument.
Unclamped(f, n) == n

Clamped(f, n) == Min({n, readable_bytes[f]})

consume(f, n) ==
  /\ Take(f, Clamped(f, n), refcount)
  /\ UNCHANGED cut

\* The slices share the blocks they are cut from.
slicePrefix(f, n, c) ==
  /\ chain[c] = <<>> /\ n \in 1 .. readable_bytes[f]
  /\ LET slices == [k \in 1 .. Visited(f, n) |->
           LET b == blocks[f][k]
           IN  [block |-> b, offset |-> begin[b],
                length |-> Min({n - SizeOf(f, k - 1), Size(b)})]]
     IN  /\ chain' = [chain EXCEPT ![c] = slices]
         /\ Take(f, n, retain(refcount, BlocksOf(slices)))
  /\ text' = [text EXCEPT ![c] = [i \in 1 .. n |-> <<f, consumed[f] + i>>]]

\* What readableView() shows: the only block that holds bytes, or the copy.
OneBlock(f) == Size(Head(blocks[f])) = readable_bytes[f]
Linear(f)   == FlattenSeq([i \in DOMAIN blocks[f] |-> Content(blocks[f][i])])
View(f) ==
  IF readable_bytes[f] = 0 THEN <<>>
  ELSE IF OneBlock(f) THEN Content(Head(blocks[f]))
  ELSE IF linearized[f] = <<>> THEN Linear(f)
  ELSE SubSeq(linearized[f], linearized_offset[f] + 1, Len(linearized[f]))

\* The call fills the cache when it needs one and has none.
readableView(f) ==
  /\ readable_bytes[f] # 0 /\ ~OneBlock(f) /\ linearized[f] = <<>>
  /\ linearized' = [linearized EXCEPT ![f] = Linear(f)]
  /\ linearized_offset' = [linearized_offset EXCEPT ![f] = 0]
  /\ UNCHANGED <<pool, blocks, readable_bytes, written, consumed, cut>>

clear(f) ==
  /\ blocks' = [blocks EXCEPT ![f] = <<>>]
  /\ readable_bytes' = [readable_bytes EXCEPT ![f] = 0]
  /\ linearized' = [linearized EXCEPT ![f] = <<>>]
  /\ linearized_offset' = [linearized_offset EXCEPT ![f] = 0]
  /\ consumed' = [consumed EXCEPT ![f] = written[f]]
  /\ recycle(release(refcount, blocks[f]), begin)
  /\ UNCHANGED <<written, cut>>

-----------------------------------------------------------------------------
(* Chains *)

\* appendChain(): the slices of d move to c.
appendChain(c, d) ==
  /\ c # d /\ chain[d] # <<>>
  /\ Len(chain[c]) + Len(chain[d]) <= MaxSlices
  /\ chain' = [chain EXCEPT ![c] = @ \o chain[d], ![d] = <<>>]
  /\ text' = [text EXCEPT ![c] = @ \o text[d], ![d] = <<>>]
  /\ UNCHANGED <<pool, blocks, readable_bytes, caches, written, consumed>>

\* The destructor releases every slice.
Destroy(c) ==
  /\ chain[c] # <<>>
  /\ chain' = [chain EXCEPT ![c] = <<>>]
  /\ text' = [text EXCEPT ![c] = <<>>]
  /\ recycle(release(refcount, BlocksOf(chain[c])), begin)
  /\ UNCHANGED <<blocks, readable_bytes, caches, written, consumed>>

\* The copy of a chain retains every slice.
Copy(c, d) ==
  /\ chain[c] # <<>> /\ chain[d] = <<>>
  /\ chain' = [chain EXCEPT ![d] = chain[c]]
  /\ text' = [text EXCEPT ![d] = text[c]]
  /\ refcount' = retain(refcount, BlocksOf(chain[c]))
  /\ UNCHANGED <<mem, begin, end, allocated, free, blocks, readable_bytes,
                 caches, written, consumed>>

\* The move assignment of a chain releases what the target had.
Move(c, d) ==
  /\ c # d /\ chain[c] # <<>> /\ chain[d] # <<>>
  /\ chain' = [chain EXCEPT ![d] = chain[c], ![c] = <<>>]
  /\ text' = [text EXCEPT ![d] = text[c], ![c] = <<>>]
  /\ recycle(release(refcount, BlocksOf(chain[d])), begin)
  /\ UNCHANGED <<blocks, readable_bytes, caches, written, consumed>>

\* The k-th acquire() in a row takes a free block as long as there is one.
AcquireInARow(k) ==
  {bs \in [1 .. k -> free \cup (Blocks \ allocated)] :
     /\ \A i, j \in 1 .. k : bs[i] = bs[j] => i = j
     /\ \A i \in 1 .. k : bs[i] \in free <=> i <= Cardinality(free)}

\* MakeBufferChain(): a buffer of its own is filled with n bytes, which are cut
\* into c, and destroyed; each block is left with the reference of its slice.
MakeBufferChain(c, n) ==
  /\ chain[c] = <<>>
  /\ LET k == (n + BlockSize - 1) \div BlockSize
         len(i) == Min({BlockSize, n - (i - 1) * BlockSize})
         byte(j) == <<c, j>>
     IN  \E bs \in AcquireInARow(k) :
           LET at(b) == CHOOSE i \in 1 .. k : bs[i] = b
               used(b) == \E i \in 1 .. k : bs[i] = b
               filled == [b \in Blocks |-> IF used(b) THEN len(at(b)) ELSE end[b]]
           IN  /\ mem' = [b \in Blocks |-> IF ~used(b) THEN mem[b] ELSE
                            [j \in 1 .. len(at(b)) |-> byte((at(b) - 1) * BlockSize + j)]]
               /\ end' = filled
               /\ begin' = [b \in Blocks |-> IF used(b) THEN filled[b] ELSE begin[b]]
               /\ allocated' = allocated \cup ToSet(bs) /\ free' = free \ ToSet(bs)
               /\ chain' = [chain EXCEPT ![c] = [i \in 1 .. k |->
                             [block |-> bs[i], offset |-> 0, length |-> len(i)]]]
  /\ text' = [text EXCEPT ![c] = [j \in 1 .. n |-> <<c, j>>]]
  /\ UNCHANGED <<refcount, blocks, readable_bytes, caches, written, consumed>>

-----------------------------------------------------------------------------
Next ==
  \/ \E f \in Buffers :
       \/ readableView(f) \/ clear(f)
       \/ \E n \in 0 .. BlockSize : reserveWritable(f, n)
       \/ \E n \in 0 .. (MaxBytes + 1) :
            consume(f, n) \/ \E c \in Chains : slicePrefix(f, n, c)
  \/ \E c, d \in Chains : appendChain(c, d) \/ Copy(c, d) \/ Move(c, d)
  \/ \E c \in Chains : Destroy(c) \/ \E n \in 1 .. MaxMade : MakeBufferChain(c, n)

Spec == Init /\ [][Next]_vars

-----------------------------------------------------------------------------
(* Properties *)

\* The variables of the buffer classes hold values of their types; neither
\* readable_bytes_ nor a reference count (both unsigned) wraps below zero, and
\* a block never holds more than its capacity.
TypeOK ==
  /\ \A b \in Blocks : /\ begin[b] \in 0 .. end[b] /\ end[b] \in 0 .. BlockSize
                       /\ refcount[b] \in Nat \ {0}
  /\ free \subseteq allocated /\ allocated \subseteq Blocks
  /\ \A f \in Buffers :
       /\ blocks[f] \in Seq(allocated)
       /\ readable_bytes[f] \in 0 .. MaxBytes
       /\ linearized_offset[f] \in 0 .. Len(linearized[f])

\* readableView() is the input not yet consumed, whether it is served from a
\* block or from the cached copy, after any mix of reads, consumes and cuts.
ViewIsUnread ==
  \A f \in Buffers :
    View(f) = [i \in 1 .. (written[f] - consumed[f]) |-> <<f, consumed[f] + i>>]

\* A chain keeps the bytes it was cut from for as long as it lives: no block it
\* shares is recycled or overwritten, whatever happens to the buffer.
ChainsIntact ==
  \A c \in Chains :
    /\ \A i \in DOMAIN chain[c] :
         chain[c][i].offset + chain[c][i].length <= Len(mem[chain[c][i].block])
    /\ text[c] = FlattenSeq([i \in DOMAIN chain[c] |->
         LET s == chain[c][i] IN SubSeq(mem[s.block], s.offset + 1, s.offset + s.length)])

\* A block in use is counted once for its buffer and once for each slice, and a
\* block nobody refers to is in the pool: nothing leaks, nothing is freed twice.
RefcountExact ==
  \A b \in allocated :
    LET refs == MapThenSumSet(LAMBDA f : Refs(blocks[f], b), Buffers)
                + MapThenSumSet(LAMBDA c : Refs(BlocksOf(chain[c]), b), Chains)
    IN  IF b \in free THEN refs = 0 ELSE refs = refcount[b]
=============================================================================
