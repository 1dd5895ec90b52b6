------------------------------- MODULE Stream -------------------------------
(***************************************************************************)
(* The runtime's byte streams (hilti/runtime/include/types/stream.h,       *)
(* hilti/runtime/src/types/stream.cc): a chain of chunks that is extended  *)
(* at its tail and trimmed at its head, iterators that outlive the chunks  *)
(* they point into, and a view made of two iterators.                      *)
(*                                                                         *)
(* A pointer to a chunk is a number: chunks are numbered in the order of   *)
(* their allocation, so those of the chain are first .. next-1.  A number  *)
(* below first is a pointer to a chunk that has been freed.                *)
(***************************************************************************)
EXTENDS Integers, FiniteSets

CONSTANTS
  Null,       \* the null pointer
  Missing,    \* a byte in a gap
  Iters,      \* variables of the host that hold an iterator
  Sizes,      \* lengths of what is appended, and of what iterators move by
  MaxOffset,  \* bound on offsets
  MaxChunks,  \* bound on the chunks allocated
  MaxChains,  \* bound on the chains that the stream has in turn
  CutsGaps    \* whether the host may trim to a place inside a gap

ASSUME SizesAssumption == Sizes \subseteq Nat \ {0}
ASSUME BoundsAssumption == {MaxOffset, MaxChunks, MaxChains} \subseteq Nat
ASSUME NullAssumption == Null \notin Int /\ Missing \notin Int
ASSUME CutsAssumption == CutsGaps \in BOOLEAN

VARIABLES
  first, next, \* chunks first .. next-1 are linked: _head is first, _tail is next-1
  chunk,      \* the linked chunks
  headOffset, \* Chain::_head_offset
  frozen,     \* whether the chain's state is Frozen (else Mutable)
  chain,      \* which chain the stream has; chains with a smaller number are Invalid
  iter,       \* the host's iterators, Null for an unbound one
  count,      \* history: number of bytes appended so far
  wild        \* history: a pointer to a freed chunk was dereferenced
vars == <<first, next, chunk, headOffset, frozen, chain, iter, count, wild>>
chainVars == <<first, next, chunk, headOffset, frozen, chain, count>>

Chunks == first .. next-1
Iterator == [chain : Nat, offset : Nat, hint : Nat \cup {Null}]
\* A chunk holds the bytes number serial, serial + 1, ..., or is a gap.
Chunk == [offset : Nat, size : Nat \ {0}, gap : BOOLEAN, serial : Nat]

(***************************** Chain and Chunk *****************************)
ChunkEnd(c) == c.offset + c.size
InRange(c, o) == o >= c.offset /\ o < ChunkEnd(c)
EndOffset == IF first = next THEN headOffset ELSE ChunkEnd(chunk[next-1])
ChainInRange(o) == o >= headOffset /\ o < EndOffset

\* The chunk that a walk along the chain from chunk k finds for an offset.
WalkFrom(k, o) ==
  LET hits == {j \in k .. next-1 : InRange(chunk[j], o)}
  IN  IF hits = {} THEN Null ELSE CHOOSE j \in hits : \A i \in hits : j <= i

\* Faulty: trusts the hint even if it is behind the offset.
FindChunk_AnyHint(o, hint) ==
  LET start == IF hint = Null THEN next-1 ELSE hint
  IN  IF start \in Chunks THEN WalkFrom(start, o) ELSE WalkFrom(first, o)

\* The walk begins at the hint, or at the tail if there is none, provided that
\* chunk is not behind the offset; otherwise at the head.
FindChunk(o, hint) ==
  LET start == IF hint = Null THEN next-1 ELSE hint
  IN  IF start \in Chunks /\ chunk[start].offset <= o
        THEN WalkFrom(start, o) ELSE WalkFrom(first, o)

ByteIn(k, o) ==
  IF chunk[k].gap THEN Missing ELSE chunk[k].serial + (o - chunk[k].offset)

(**************************** SafeConstIterator ****************************)
Stale(hint) == hint # Null /\ hint \notin Chunks

\* SafeConstIterator::chunk(): the hint is used only if the offset is in range.
UsableHint(it) ==
  IF it.chain = chain /\ ChainInRange(it.offset) THEN it.hint ELSE Null

BeginOf == [chain |-> chain, offset |-> headOffset, hint |-> IF first = next THEN Null ELSE first]
EndOf == [chain |-> chain, offset |-> EndOffset, hint |-> IF first = next THEN Null ELSE next-1]
At(o) == [chain |-> chain, offset |-> o, hint |-> FindChunk(o, Null)]

\* operator+: an iterator of an invalidated chain only counts.
Forward(it, n) ==
  LET moved == [it EXCEPT !.offset = @ + n]
  IN  IF it.chain # chain THEN moved
      ELSE [moved EXCEPT !.hint = FindChunk(moved.offset, UsableHint(moved))]
ForwardReads(it, n) == UsableHint([it EXCEPT !.offset = @ + n])

\* operator-: the fast path looks at the hint before anything is checked.
Backward(it, n) ==
  LET moved == [it EXCEPT !.offset = @ - n]
  IN  IF it.hint # Null /\ it.hint \in Chunks /\ moved.offset > chunk[it.hint].offset THEN moved
      ELSE IF it.chain # chain THEN moved
      ELSE [moved EXCEPT !.hint = FindChunk(moved.offset, it.hint)]

\* operator*: a byte, or Null for an exception.
Readable(it) == it.chain = chain /\ ChainInRange(it.offset)
Deref(it) ==
  IF ~Readable(it) THEN Null
  ELSE LET k == FindChunk(it.offset, UsableHint(it))
       IN  IF k = Null THEN Null ELSE ByteIn(k, it.offset)

(*********************************** View **********************************)
\* A view is a pair of iterators, the second one Null if it is open-ended.
Min2(a, b) == IF a < b THEN a ELSE b
Max2(a, b) == IF a < b THEN b ELSE a

\* View::size(): what lies beyond the end of the data is not counted.
ViewSize(v) ==
  IF first = next \/ v.begin.offset > EndOffset THEN 0
  ELSE IF v.end = Null \/ v.end.offset >= EndOffset THEN EndOffset - v.begin.offset
  ELSE Max2(v.end.offset - v.begin.offset, 0)

\* Iterating over blocks: chunk k is the last one to look at.
IsLastBlock(v, k) == k = next-1 \/ (v.end # Null /\ v.end.offset <= ChunkEnd(chunk[k]))
\* Faulty: takes the view's end for the end of the data.
BlockIn_EndUncapped(v, k, from) ==
  from .. (IF v.end # Null /\ IsLastBlock(v, k) THEN Max2(v.end.offset, from)
             ELSE ChunkEnd(chunk[k])) - 1
\* The offsets that the block in chunk k covers, if its first one is from.
BlockIn(v, k, from) ==
  from .. (IF v.end # Null /\ IsLastBlock(v, k)
             THEN Max2(Min2(v.end.offset, EndOffset), from)
             ELSE ChunkEnd(chunk[k])) - 1
\* The chunks that iterating over blocks goes to, each with what is the view's of it.
Visits(v) ==
  LET k == FindChunk(v.begin.offset, UsableHint(v.begin))
      visited == {j \in k .. next-1 : \A i \in k .. j-1 : ~IsLastBlock(v, i)}
  IN  IF \/ ~ChainInRange(v.begin.offset)
         \/ v.end # Null /\ v.end.offset = v.begin.offset
        THEN [j \in {} |-> {}]
        ELSE [j \in visited |-> BlockIn(v, j, IF j = k THEN v.begin.offset ELSE chunk[j].offset)]
\* firstBlock(), nextBlock(): data() of a gap throws, which ends the iteration.
GapsMet(v) == {j \in DOMAIN Visits(v) : chunk[j].gap}
Blocks(v) == [j \in {k \in DOMAIN Visits(v) : \A g \in GapsMet(v) : k < g} |-> Visits(v)[j]]
ThrowsMissingData(v) == GapsMet(v) # {}

\* advanceToNextData(): the place after a gap, or one byte on.
AfterGap(k) ==
  LET data == {j \in k .. next-1 : ~chunk[j].gap}
  IN  IF data = {} THEN EndOffset ELSE chunk[CHOOSE j \in data : \A i \in data : j <= i].offset
NextData(it) ==
  LET i == Forward(it, 1)
      k == IF Readable(i) THEN i.hint ELSE Null
  IN  IF k = Null \/ ~chunk[k].gap THEN i ELSE At(AfterGap(k))

(******************************* The stream's calls ************************)
Init ==
  /\ first = 0 /\ next = 0 /\ chunk = [k \in {} |-> Null]
  /\ headOffset = 0 /\ frozen = FALSE /\ chain = 0
  /\ iter = [i \in Iters |-> Null]
  /\ count = 0
  /\ wild = FALSE

\* append(): empty data is ignored, and a frozen stream throws.
Append(n, gap) ==
  /\ ~frozen
  /\ next < MaxChunks /\ EndOffset + n <= MaxOffset
  /\ next' = next + 1
  /\ chunk' = [k \in first..next |->
                 IF k = next THEN [offset |-> EndOffset, size |-> n, gap |-> gap, serial |-> count]
                             ELSE chunk[k]]
  /\ count' = IF gap THEN count ELSE count + n
  /\ UNCHANGED <<first, headOffset, frozen, chain, iter, wild>>

\* Faulty: forgets to set the chunk's new offset.
CutAt_KeepsOffset(c, o) ==
  IF c.gap THEN c ELSE [c EXCEPT !.size = ChunkEnd(c) - o, !.serial = @ + (o - c.offset)]
\* Faulty: shortens the data without moving it to the front.
CutAt_NotMoved(c, o) ==
  IF c.gap THEN [c EXCEPT !.offset = o] ELSE [c EXCEPT !.offset = o, !.size = ChunkEnd(c) - o]
\* Chunk::trim(): a gap keeps its size.
CutAt(c, o) ==
  IF c.gap THEN [c EXCEPT !.offset = o]
  ELSE [c EXCEPT !.offset = o, !.size = ChunkEnd(c) - o, !.serial = @ + (o - c.offset)]

\* Faulty: frees the chunk whose last byte is the one to trim to.
TrimTo_OneTooFar(o) ==
  LET kept == {k \in Chunks : o + 1 < ChunkEnd(chunk[k])}
      head == IF kept = {} THEN next ELSE CHOOSE k \in kept : \A j \in kept : k <= j
  IN  /\ first' = head
      /\ chunk' = [k \in head..next-1 |-> IF k = head THEN CutAt(chunk[k], o) ELSE chunk[k]]
      /\ headOffset' = o
      /\ UNCHANGED <<next, frozen, chain, iter, count, wild>>
\* Chain::trim(): chunks up to the offset are freed, the one with it is cut.
TrimTo(o) ==
  LET kept == {k \in Chunks : o < ChunkEnd(chunk[k])}
      head == IF kept = {} THEN next ELSE CHOOSE k \in kept : \A j \in kept : k <= j
  IN  /\ first' = head
      /\ chunk' = [k \in head..next-1 |-> IF k = head THEN CutAt(chunk[k], o) ELSE chunk[k]]
      /\ headOffset' = o
      /\ UNCHANGED <<next, frozen, chain, iter, count, wild>>

\* What may be trimmed to: going back is a loop that never ends, and is ruled
\* out by the documentation.
Trimmable(it) ==
  /\ it.chain = chain
  /\ it.offset >= headOffset
  /\ CutsGaps \/ ~\E k \in Chunks : chunk[k].gap /\ InRange(chunk[k], it.offset)
                                                /\ it.offset # chunk[k].offset

Trim(i) == iter[i] # Null /\ Trimmable(iter[i]) /\ TrimTo(iter[i].offset)
TrimAll == TrimTo(EndOffset)

Freeze == ~frozen /\ frozen' = TRUE
       /\ UNCHANGED <<first, next, chunk, headOffset, chain, iter, count, wild>>
Unfreeze == frozen /\ frozen' = FALSE
         /\ UNCHANGED <<first, next, chunk, headOffset, chain, iter, count, wild>>

\* operator= with a copy of the stream: the chunks are copied, each placed at
\* the end of the one before, and the old chain is invalidated.
AssignCopy ==
  LET size == next - first
      shift(k) == IF k = first THEN 0
                  ELSE chunk[first].size + (chunk[k].offset - chunk[first+1].offset)
  IN  /\ next + size <= MaxChunks /\ chain + 1 < MaxChains
      /\ first' = next
      /\ next' = next + size
      /\ chunk' = [k \in next .. next+size-1 |->
                     [chunk[k - size] EXCEPT !.offset = shift(k - size)]]
      /\ headOffset' = 0 /\ frozen' = FALSE /\ chain' = chain + 1
      /\ UNCHANGED <<iter, count, wild>>

\* operator= with a new stream.
AssignEmpty ==
  /\ chain + 1 < MaxChains
  /\ first' = next /\ chunk' = [k \in {} |-> Null]
  /\ headOffset' = 0 /\ frozen' = FALSE /\ chain' = chain + 1
  /\ UNCHANGED <<next, iter, count, wild>>

(****************************** The iterators' calls ************************)
\* A new value for an iterator, computed from a hint that was followed.
Assign(i, it, followed) ==
  /\ iter' = [iter EXCEPT ![i] = it]
  /\ wild' = Stale(followed)
  /\ UNCHANGED chainVars

SetBegin(i) == Assign(i, BeginOf, Null)
SetEnd(i) == Assign(i, EndOf, Null)
SetAt(i, o) == Assign(i, At(o), Null)
Increment(i, n) ==
  /\ iter[i] # Null /\ iter[i].offset + n <= MaxOffset
  /\ Assign(i, Forward(iter[i], n), ForwardReads(iter[i], n))
\* Faulty: moves back before the beginning of the stream.
Decrement_Unchecked(i, n) ==
  iter[i] # Null /\ Assign(i, Backward(iter[i], n), iter[i].hint)
Decrement(i, n) ==
  /\ iter[i] # Null /\ n <= iter[i].offset
  /\ Assign(i, Backward(iter[i], n), iter[i].hint)
Dereference(i) == iter[i] # Null /\ Assign(i, iter[i], UsableHint(iter[i]))

(****************************** The view's calls ****************************)
\* advanceToNextData(): unless the next byte is in a data chunk, an iterator to
\* offset 0 is made from the view's begin, which looks at its hint.
AdvanceToNextData(i) ==
  /\ iter[i] # Null /\ iter[i].chain = chain /\ iter[i].offset < MaxOffset
  /\ LET hint == ForwardReads(iter[i], 1)
         moved == Forward(iter[i], 1)
         direct == Readable(moved) /\ ~chunk[moved.hint].gap
     IN  Assign(i, NextData(iter[i]),
                IF Stale(hint) \/ direct \/ iter[i].offset = 0 THEN hint ELSE iter[i].hint)

\* extract(): the caller has made sure that the view holds n bytes.
Extract(i, n) ==
  /\ iter[i] # Null /\ Readable(iter[i])
  /\ n <= ViewSize([begin |-> iter[i], end |-> Null])
  /\ \A o \in iter[i].offset .. iter[i].offset + n - 1 :
       Deref([iter[i] EXCEPT !.offset = o]) # Missing
  /\ LET hint == UsableHint(iter[i])
         o == iter[i].offset + n
         fast == hint \in Chunks /\ InRange(chunk[hint], o)
     IN  Assign(i, [iter[i] EXCEPT !.offset = o, !.hint = IF fast THEN hint ELSE FindChunk(o, hint)],
                hint)

ChainCalls ==
  \/ \E n \in Sizes, gap \in BOOLEAN : Append(n, gap)
  \/ \E i \in Iters : Trim(i)
  \/ TrimAll
  \/ Freeze \/ Unfreeze
  \/ AssignCopy \/ AssignEmpty
IteratorCalls ==
  \E i \in Iters :
    \/ SetBegin(i) \/ SetEnd(i)
    \/ \E o \in 0..MaxOffset : SetAt(i, o)
    \/ \E n \in Sizes : Increment(i, n) \/ Decrement(i, n)
    \/ Dereference(i)
    \/ AdvanceToNextData(i)
    \/ \E n \in Sizes : Extract(i, n)

\* After a pointer to a freed chunk was followed, anything may happen.
Next == ~wild /\ (ChainCalls \/ IteratorCalls)

Spec == Init /\ [][Next]_vars

(******************************** Properties *******************************)
\* All variables stay within their types.
TypeOK ==
  /\ first \in Nat /\ next \in Nat /\ first <= next
  /\ chunk \in [Chunks -> Chunk]
  /\ headOffset \in Nat /\ frozen \in BOOLEAN /\ chain \in Nat /\ count \in Nat
  /\ iter \in [Iters -> Iterator \cup {Null}]
  /\ wild \in BOOLEAN

\* The chunks cover the window from _head_offset to the end without holes or
\* overlaps (setNext(), trim()).
ChunksContiguous ==
  \A k \in Chunks :
    chunk[k].offset = IF k = first THEN headOffset ELSE ChunkEnd(chunk[k-1])

\* What the chain holds, byte by byte.
Content ==
  [o \in headOffset .. EndOffset-1 |->
     ByteIn(CHOOSE k \in Chunks : InRange(chunk[k], o), o)]

\* The chain of chunks implements a window of bytes with fixed offsets: the
\* comment at stream.h:1488-1497 ("continuous data ... cheap append").
Bytes == INSTANCE ByteStream WITH
  base <- headOffset, end <- EndOffset, byte <- Content
ImplementsByteStream == Bytes!Spec

\* The iterators that someone holds.
Held == {iter[i] : i \in Iters} \ {Null}

\* However an iterator got its hint, before or behind its offset, in a chunk
\* since extended or cut: while the hint points to a chunk of the chain, reading
\* gives the byte at the iterator's offset (findChunk(), _dereference()).
IteratorsRead ==
  \A it \in Held : Readable(it) /\ ~Stale(it.hint) => Deref(it) = Content[it.offset]

\* The hint of an iterator inside the valid range is a chunk of the chain.
HintsAreCurrent == \A it \in Held : Readable(it) => ~Stale(it.hint)

\* An iterator whose hint is the chunk that it is in.
Settled(it) ==
  /\ Readable(it)
  /\ it.hint # Null => it.hint \in Chunks /\ InRange(chunk[it.hint], it.offset)

\* Appending and trimming what lies in front of it leave an iterator alone: it
\* goes on to show the same byte, and needs no new hint (stream.h:1601-1634).
IteratorsSurvive ==
  [][\A it \in Held :
       Settled(it) /\ chain' = chain /\ it.offset >= headOffset'
         => Settled(it)' /\ Deref(it)' = Deref(it)]_vars

InGap(o) == \E k \in Chunks : chunk[k].gap /\ InRange(chunk[k], o)
\* Iterating over a view's blocks shows each byte that size() counts, once and
\* from the chunk that has it, also if the view ends in the middle of a chunk,
\* beyond the data, or before its own beginning; or else each byte up to the
\* first gap, where it throws (and of what is empty it does not matter).
ViewIsWhole ==
  \A begin \in Held, end \in Held \cup {Null} :
    LET v == [begin |-> begin, end |-> end]
        b == Blocks(v)
        counted == begin.offset .. begin.offset + ViewSize(v) - 1
        missing == {o \in counted : InGap(o)}
    IN  /\ begin.chain = chain /\ begin.offset >= headOffset /\ ~Stale(begin.hint)
        /\ end # Null => end.chain = chain
        => /\ UNION {b[k] : k \in DOMAIN b} = {o \in counted : \A m \in missing : o < m}
           /\ \A k \in DOMAIN b : ~chunk[k].gap /\ \A o \in b[k] : InRange(chunk[k], o)
           /\ counted # {} => (ThrowsMissingData(v) <=> missing # {})

\* The chains are well typed, and their chunks follow each other.
WellFormed == TypeOK /\ ChunksContiguous

\* What iterators and views show is what the stream holds there.
ReadsAreRight == IteratorsRead /\ ViewIsWhole
=============================================================================
