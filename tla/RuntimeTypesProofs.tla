-------------------------- MODULE RuntimeTypesProofs ------------------------
(***************************************************************************)
(* Proofs about the runtime's types, for any numbers of variables,         *)
(* elements, cells and units.                                              *)
(*                                                                         *)
(* First the byte streams, for any lengths and any number of chunks and    *)
(* iterators, of a host that does not trim into the middle of a gap (such  *)
(* a trim leaves a gap that is too long).  ChunksContiguous relates        *)
(* neighbours only.  What the walks along the chain rely on is that the    *)
(* chunks are in order, and that one of them has the offset that is looked *)
(* for: Ordered and Covered, which follow from it by induction over the    *)
(* chain and are here carried along instead.                               *)
(*                                                                         *)
(* Then containers, references, counting pointers and the values of a      *)
(* host, each with an invariant of its own: ContainersInv, RefsInv,        *)
(* PointersInv and TraversalInv.                                           *)
(***************************************************************************)
EXTENDS RuntimeTypes, FiniteSetTheorems, WellFoundedInduction, TLAPS

Ordered == \A i, j \in Chunks : i < j => ChunkEnd(chunk[i]) <= chunk[j].offset
Covered == \A o \in headOffset .. EndOffset-1 : \E k \in Chunks : InRange(chunk[k], o)

IInv == TypeOK /\ ChunksContiguous /\ Ordered /\ Covered

\* What the invariant says of the chain's numbers.
LEMMA ChainFacts ==
  ASSUME IInv
  PROVE  /\ first \in Nat /\ next \in Nat /\ first <= next
         /\ headOffset \in Nat /\ EndOffset \in Nat /\ headOffset <= EndOffset
         /\ first = next => EndOffset = headOffset
         /\ first # next => first \in Chunks /\ next-1 \in Chunks /\ EndOffset = ChunkEnd(chunk[next-1])
         /\ \A k \in Chunks :
              /\ k \in Nat /\ first <= k /\ k <= next-1 /\ chunk[k] \in Chunk
              /\ chunk[k].offset \in Nat /\ ChunkEnd(chunk[k]) \in Nat
              /\ headOffset <= chunk[k].offset /\ chunk[k].offset < ChunkEnd(chunk[k])
              /\ ChunkEnd(chunk[k]) <= EndOffset
              /\ ChunkEnd(chunk[k]) = chunk[k].offset + chunk[k].size /\ chunk[k].size \in Nat \ {0}
<1>1. first \in Nat /\ next \in Nat /\ first <= next /\ headOffset \in Nat
  BY DEF IInv, TypeOK
<1>2. \A k \in Chunks : k \in Nat /\ first <= k /\ k <= next-1
  BY <1>1 DEF Chunks
<1>3. \A k \in Chunks :
        /\ chunk[k] \in Chunk /\ chunk[k].offset \in Nat /\ ChunkEnd(chunk[k]) \in Nat
        /\ chunk[k].offset < ChunkEnd(chunk[k])
        /\ ChunkEnd(chunk[k]) = chunk[k].offset + chunk[k].size /\ chunk[k].size \in Nat \ {0}
  <2>1. \A c \in Chunk : /\ c.offset \in Nat /\ ChunkEnd(c) \in Nat /\ c.offset < ChunkEnd(c)
                         /\ ChunkEnd(c) = c.offset + c.size /\ c.size \in Nat \ {0}
    BY DEF Chunk, ChunkEnd
  <2>2. \A k \in Chunks : chunk[k] \in Chunk
    BY DEF IInv, TypeOK
  <2>3. QED BY <2>1, <2>2
<1>4. first # next => first \in Chunks /\ next-1 \in Chunks
  BY <1>1 DEF Chunks
<1>5. \A k \in Chunks : headOffset <= chunk[k].offset
  <2>1. SUFFICES ASSUME NEW k \in Chunks PROVE headOffset <= chunk[k].offset
    OBVIOUS
  <2>2. first \in Chunks
    BY <1>1, <1>2 DEF Chunks
  <2>3. chunk[first].offset = headOffset
    BY <2>2 DEF IInv, ChunksContiguous
  <2>4. CASE k = first
    BY <1>1, <2>3, <2>4
  <2>5. CASE k # first
    <3>1. first < k
      BY <1>1, <1>2, <2>5
    <3>2. ChunkEnd(chunk[first]) <= chunk[k].offset
      BY <2>2, <3>1 DEF IInv, Ordered
    <3>3. QED BY <1>1, <1>3, <2>2, <2>3, <3>2
  <2>6. QED BY <2>4, <2>5
<1>6. first # next => EndOffset = ChunkEnd(chunk[next-1]) /\ EndOffset \in Nat
  BY <1>3, <1>4 DEF EndOffset
<1>7. first = next => EndOffset = headOffset
  BY DEF EndOffset
<1>8. \A k \in Chunks : ChunkEnd(chunk[k]) <= EndOffset
  <2>1. SUFFICES ASSUME NEW k \in Chunks PROVE ChunkEnd(chunk[k]) <= EndOffset
    OBVIOUS
  <2>2. first # next /\ next-1 \in Chunks
    BY <1>1, <1>2, <1>4
  <2>3. CASE k = next-1
    BY <1>3, <1>6, <2>2, <2>3
  <2>4. CASE k # next-1
    <3>1. k < next-1
      BY <1>1, <1>2, <2>4
    <3>2. ChunkEnd(chunk[k]) <= chunk[next-1].offset
      BY <2>2, <3>1 DEF IInv, Ordered
    <3>3. QED BY <1>3, <1>6, <2>2, <3>2
  <2>5. QED BY <2>3, <2>4
<1>9. headOffset <= EndOffset /\ EndOffset \in Nat
  <2>1. CASE first = next
    BY <1>1, <1>7, <2>1
  <2>2. CASE first # next
    BY <1>1, <1>3, <1>4, <1>5, <1>6, <1>8, <2>2
  <2>3. QED BY <2>1, <2>2
<1>10. QED
  BY <1>1, <1>2, <1>3, <1>4, <1>5, <1>6, <1>7, <1>8, <1>9

\* An offset is in one chunk at most.
LEMMA OneHome ==
  ASSUME IInv, NEW i \in Chunks, NEW j \in Chunks, NEW o \in Int,
         InRange(chunk[i], o), InRange(chunk[j], o)
  PROVE  i = j
<1>1. /\ i \in Nat /\ j \in Nat
      /\ chunk[i].offset \in Nat /\ ChunkEnd(chunk[i]) \in Nat
      /\ chunk[j].offset \in Nat /\ ChunkEnd(chunk[j]) \in Nat
  BY ChainFacts
<1>2. i < j => ChunkEnd(chunk[i]) <= chunk[j].offset
  BY DEF IInv, Ordered
<1>3. j < i => ChunkEnd(chunk[j]) <= chunk[i].offset
  BY DEF IInv, Ordered
<1>4. QED
  BY <1>1, <1>2, <1>3 DEF InRange

\* What the chain holds at an offset is in the chunk that has that offset.
LEMMA ContentFacts ==
  ASSUME IInv
  PROVE  /\ DOMAIN Content = headOffset .. EndOffset-1
         /\ \A k \in Chunks : \A o \in Int :
              InRange(chunk[k], o) => /\ o \in headOffset .. EndOffset-1
                                      /\ Content[o] = ByteIn(k, o)
<1>1. DOMAIN Content = headOffset .. EndOffset-1
  BY DEF Content
<1>2. ASSUME NEW k \in Chunks, NEW o \in Int, InRange(chunk[k], o)
      PROVE  o \in headOffset .. EndOffset-1 /\ Content[o] = ByteIn(k, o)
  <2>1. o \in headOffset .. EndOffset-1
    BY <1>2, ChainFacts DEF InRange
  <2>2. (CHOOSE j \in Chunks : InRange(chunk[j], o)) = k
    BY <1>2, OneHome
  <2>3. QED BY <2>1, <2>2 DEF Content
<1>3. QED BY <1>1, <1>2

\* A walk finds the chunk that has an offset, if it does not begin behind it.
LEMMA WalkFinds ==
  ASSUME IInv, NEW o \in Int, NEW k \in Chunks, InRange(chunk[k], o),
         NEW start \in Nat, first <= start, start <= k
  PROVE  WalkFrom(start, o) = k
<1> DEFINE hits == {j \in start .. next-1 : InRange(chunk[j], o)}
<1>1. k \in hits
  BY ChainFacts
<1>2. \A j \in hits : j = k
  <2>1. \A j \in hits : j \in Chunks /\ InRange(chunk[j], o)
    BY ChainFacts DEF Chunks
  <2>2. QED BY <2>1, OneHome
<1>3. (CHOOSE j \in hits : \A i \in hits : j <= i) = k
  <2>1. k <= k
    BY ChainFacts
  <2>2. QED BY <1>1, <1>2, <2>1
<1>4. QED
  BY <1>1, <1>3 DEF WalkFrom

\* Whatever hint it is given, findChunk() finds the chunk with an offset.
LEMMA FindChunkFinds ==
  ASSUME IInv, NEW o \in Int, NEW hint \in Nat \cup {Null}, NEW k \in Chunks, InRange(chunk[k], o)
  PROVE  FindChunk(o, hint) = k
<1> DEFINE start == IF hint = Null THEN next-1 ELSE hint
<1>1. first \in Nat /\ next \in Nat /\ first <= k /\ k \in Nat /\ k <= next-1
  BY ChainFacts
<1>2. start \in Nat
  BY <1>1
<1>3. CASE start \in Chunks /\ chunk[start].offset <= o
  <2>1. first <= start
    BY <1>3, ChainFacts
  <2>2. start <= k
    <3>1. k < start => ChunkEnd(chunk[k]) <= chunk[start].offset
      BY <1>3 DEF IInv, Ordered
    <3>2. o < ChunkEnd(chunk[k]) /\ ChunkEnd(chunk[k]) \in Nat /\ chunk[start].offset \in Nat
      BY <1>3, ChainFacts DEF InRange
    <3>3. QED BY <1>1, <1>2, <1>3, <3>1, <3>2
  <2>3. WalkFrom(start, o) = k
    BY <1>2, <2>1, <2>2, WalkFinds
  <2>4. QED BY <1>3, <2>3 DEF FindChunk
<1>4. CASE ~(start \in Chunks /\ chunk[start].offset <= o)
  <2>1. WalkFrom(first, o) = k
    BY <1>1, WalkFinds
  <2>2. QED BY <1>4, <2>1 DEF FindChunk
<1>5. QED BY <1>3, <1>4

\* What it finds is a chunk with that offset, or nothing.
LEMMA FindChunkType ==
  ASSUME IInv, NEW o \in Int, NEW hint \in Nat \cup {Null}
  PROVE  \/ FindChunk(o, hint) = Null /\ ~ChainInRange(o)
         \/ FindChunk(o, hint) \in Chunks /\ InRange(chunk[FindChunk(o, hint)], o)
<1>1. CASE o \in headOffset .. EndOffset-1
  <2>1. PICK k \in Chunks : InRange(chunk[k], o)
    BY <1>1 DEF IInv, Covered
  <2>2. QED BY <2>1, FindChunkFinds
<1>2. CASE o \notin headOffset .. EndOffset-1
  <2>1. \A k \in Chunks : ~InRange(chunk[k], o)
    BY <1>2, ContentFacts
  <2>2. ASSUME NEW s \in Nat, first <= s
        PROVE  WalkFrom(s, o) = Null
    <3>1. \A j \in s .. next-1 : j \in Chunks
      BY <2>2, ChainFacts DEF Chunks
    <3>2. {j \in s .. next-1 : InRange(chunk[j], o)} = {}
      BY <2>1, <3>1
    <3>3. QED BY <3>2 DEF WalkFrom
  <2>3. \A s \in Chunks : s \in Nat /\ first <= s
    BY ChainFacts
  <2>4. FindChunk(o, hint) = Null
    BY <2>2, <2>3, ChainFacts DEF FindChunk
  <2>5. ~ChainInRange(o)
    BY <1>2, ChainFacts DEF ChainInRange
  <2>6. QED BY <2>4, <2>5
<1>3. QED BY <1>1, <1>2

-----------------------------------------------------------------------------
\* Appending adds a chunk at the end, and changes no other.
LEMMA AppendFacts ==
  ASSUME IInv, NEW n \in Sizes, NEW gap \in BOOLEAN, Append(n, gap)
  PROVE  /\ first' = first /\ next' = next + 1 /\ headOffset' = headOffset
         /\ n \in Nat \ {0}
         /\ Chunks' = Chunks \cup {next} /\ next \notin Chunks
         /\ \A k \in Chunks : chunk'[k] = chunk[k]
         /\ chunk'[next] = [offset |-> EndOffset, size |-> n, gap |-> gap, serial |-> count]
         /\ chunk'[next].offset = EndOffset
         /\ chunk'[next] \in Chunk /\ ChunkEnd(chunk'[next]) = EndOffset + n
         /\ EndOffset' = EndOffset + n
         /\ chunk' \in [Chunks' -> Chunk]
<1>1. first \in Nat /\ next \in Nat /\ first <= next /\ EndOffset \in Nat /\ count \in Nat
  BY ChainFacts DEF IInv, TypeOK
<1>2. n \in Nat \ {0}
  BY SizesAssumption
<1>3. first' = first /\ next' = next + 1 /\ headOffset' = headOffset
  BY DEF Append
<1>4. Chunks' = first .. next
  BY <1>1, <1>3 DEF Chunks
<1>5. next \notin Chunks /\ Chunks' = Chunks \cup {next}
  <2>1. \A k \in Int : k \in first .. next <=> k \in first .. next-1 \/ k = next
    BY <1>1
  <2>2. \A k \in first .. next : k \in Int
    BY <1>1
  <2>3. \A k \in first .. next-1 \cup {next} : k \in Int
    BY <1>1
  <2>4. first .. next = first .. next-1 \cup {next}
    BY <2>1, <2>2, <2>3
  <2>5. next \notin first .. next-1
    BY <1>1
  <2>6. QED BY <1>4, <2>4, <2>5 DEF Chunks
<1>6. chunk' = [k \in first..next |->
                 IF k = next THEN [offset |-> EndOffset, size |-> n, gap |-> gap, serial |-> count]
                             ELSE chunk[k]]
  BY DEF Append
<1>7. \A k \in Chunks : chunk'[k] = chunk[k]
  BY <1>4, <1>5, <1>6
<1>8. chunk'[next] = [offset |-> EndOffset, size |-> n, gap |-> gap, serial |-> count]
  BY <1>4, <1>5, <1>6
<1>9. chunk'[next] \in Chunk /\ ChunkEnd(chunk'[next]) = EndOffset + n
  BY <1>1, <1>2, <1>8 DEF Chunk, ChunkEnd
<1>10. EndOffset' = EndOffset + n
  BY <1>1, <1>3, <1>9 DEF EndOffset
<1>11. chunk' \in [Chunks' -> Chunk]
  <2>1. \A k \in Chunks' : chunk'[k] \in Chunk
    BY <1>5, <1>7, <1>9, ChainFacts
  <2>2. QED BY <1>4, <1>6, <2>1
<1>12. chunk'[next].offset = EndOffset
  BY <1>8
<1>13. QED
  BY <1>12, <1>2, <1>3, <1>5, <1>7, <1>8, <1>9, <1>10, <1>11

\* Appending keeps the chain in order.
LEMMA AppendChain ==
  ASSUME IInv, NEW n \in Sizes, NEW gap \in BOOLEAN, Append(n, gap)
  PROVE  ChunksContiguous' /\ Ordered' /\ Covered'
<1>1. /\ next \in Nat /\ EndOffset \in Nat /\ headOffset \in Nat
      /\ \A k \in Chunks : k \in Nat /\ first <= k /\ k < next
      /\ \A k \in Chunks : chunk[k].offset \in Nat /\ ChunkEnd(chunk[k]) <= EndOffset
  BY ChainFacts
<1>a. /\ first' = first /\ headOffset' = headOffset /\ EndOffset' = EndOffset + n /\ n \in Nat \ {0}
      /\ Chunks' = Chunks \cup {next} /\ next \notin Chunks
      /\ \A k \in Chunks : chunk'[k] = chunk[k]
      /\ chunk'[next].offset = EndOffset /\ ChunkEnd(chunk'[next]) = EndOffset + n
  BY AppendFacts
<1>2. ChunksContiguous'
  <2>1. SUFFICES ASSUME NEW k \in Chunks'
                 PROVE  chunk'[k].offset = IF k = first' THEN headOffset' ELSE ChunkEnd(chunk'[k-1])
    BY DEF ChunksContiguous
  <2>2. CASE k \in Chunks
    <3>1. k # first => k-1 \in Chunks
      BY <2>2, ChainFacts DEF Chunks
    <3>2. chunk[k].offset = IF k = first THEN headOffset ELSE ChunkEnd(chunk[k-1])
      BY <2>2 DEF IInv, ChunksContiguous
    <3>3. QED BY <2>2, <3>1, <3>2, <1>a
  <2>3. CASE k = next
    <3>1. k # first => k-1 \in Chunks /\ ChunkEnd(chunk[k-1]) = EndOffset
      BY <2>3, ChainFacts
    <3>2. k = first => EndOffset = headOffset
      BY <2>3, ChainFacts
    <3>3. CASE k = first
      BY <1>a, <2>3, <3>2, <3>3
    <3>4. CASE k # first
      BY <1>a, <2>3, <3>1, <3>4
    <3>5. QED BY <3>3, <3>4
  <2>4. QED BY <2>2, <2>3, <1>a
<1>3. Ordered'
  <2>1. SUFFICES ASSUME NEW i \in Chunks', NEW j \in Chunks', i < j
                 PROVE  ChunkEnd(chunk'[i]) <= chunk'[j].offset
    BY DEF Ordered
  <2>2. i \in Chunks
    BY <1>1, <1>a, <2>1
  <2>3. CASE j \in Chunks
    BY <2>1, <2>2, <2>3, <1>a DEF IInv, Ordered
  <2>4. CASE j = next
    BY <1>1, <1>a, <2>2, <2>4
  <2>5. QED BY <2>3, <2>4, <1>a
<1>4. Covered'
  <2>1. SUFFICES ASSUME NEW o \in headOffset' .. EndOffset'-1
                 PROVE  \E k \in Chunks' : InRange(chunk'[k], o)
    BY DEF Covered
  <2>2. CASE o < EndOffset
    <3>1. o \in headOffset .. EndOffset-1
      BY <1>1, <1>a, <2>1, <2>2
    <3>2. PICK k \in Chunks : InRange(chunk[k], o)
      BY <3>1 DEF IInv, Covered
    <3>3. QED BY <3>2, <1>a
  <2>3. CASE ~(o < EndOffset)
    <3>1. InRange(chunk'[next], o)
      BY <1>1, <1>a, <2>1, <2>3 DEF InRange
    <3>2. QED BY <3>1, <1>a
  <2>4. QED BY <2>2, <2>3
<1>5. QED BY <1>2, <1>3, <1>4

-----------------------------------------------------------------------------
\* Of several sets of elements of a finite set one has no other as a subset,
\* which gives the induction that the chain needs.
Family(F, S) == F \subseteq SUBSET S
IsMinimal(X, F) == X \in F /\ \A Y \in F : Y \subseteq X => Y = X

\* Any sets of elements of a finite set have a minimal one among them.
LEMMA MinimalSet ==
  ASSUME NEW S, IsFiniteSet(S), NEW F, Family(F, S), F # {}
  PROVE  \E X : IsMinimal(X, F)
<1>1. IsWellFoundedOn(StrictSubsetOrdering(S), SUBSET S)
  BY FS_StrictSubsetOrderingWellFounded, FS_FiniteSubsetsOfFinite
<1>2. \E X \in F : \A Y \in F : ~ (<<Y, X>> \in StrictSubsetOrdering(S))
  BY <1>1, WFMin DEF Family
<1>3. \A X, Y \in F : Y \subseteq X /\ Y # X => <<Y, X>> \in StrictSubsetOrdering(S)
  BY DEF StrictSubsetOrdering, Family
<1>4. QED BY <1>2, <1>3 DEF IsMinimal

\* A finite set of integers has a least element.
LEMMA Least ==
  ASSUME NEW S, IsFiniteSet(S), S \subseteq Int, S # {}
  PROVE  \E m \in S : \A k \in S : m <= k
<1> DEFINE F == {X \in SUBSET S : X # {} /\ ~ \E m \in X : \A k \in X : m <= k}
<1>1. SUFFICES ASSUME F # {} PROVE FALSE
  OBVIOUS
<1>a. Family(F, S)
  BY DEF Family
<1>2. PICK X \in F : \A Y \in F : Y \subseteq X => Y = X
  <2> HIDE DEF F
  <2>1. \E X : IsMinimal(X, F)
    BY <1>1, <1>a, MinimalSet
  <2>2. QED BY <2>1 DEF IsMinimal
<1>3. PICK x \in X : TRUE
  OBVIOUS
<1>4. X \ {x} \notin F
  BY <1>2, <1>3
<1>5. CASE X \ {x} = {}
  <2>1. \A k \in X : x <= k
    BY <1>3, <1>5
  <2>2. QED BY <1>3, <2>1
<1>6. CASE X \ {x} # {}
  <2>1. PICK m \in X \ {x} : \A k \in X \ {x} : m <= k
    BY <1>4, <1>6
  <2>2. m \in Int /\ x \in Int /\ \A k \in X : k \in Int
    OBVIOUS
  <2>3. CASE x <= m
    <3>1. \A k \in X : x <= k
      BY <2>1, <2>2, <2>3
    <3>2. QED BY <1>3, <3>1
  <2>4. CASE ~(x <= m)
    <3>1. \A k \in X : m <= k
      BY <2>1, <2>2, <2>4
    <3>2. QED BY <3>1
  <2>5. QED BY <2>3, <2>4
<1>7. QED BY <1>5, <1>6

\* Where trimming cuts: at the chunk with that offset, or behind the last one.
TrimPoint(o, head) ==
  \/ head = next /\ o >= EndOffset
  \/ /\ head \in Chunks /\ InRange(chunk[head], o)
     /\ chunk[head].gap => chunk[head].offset = o

\* Trimming cuts at such a place.
LEMMA TrimPoints ==
  ASSUME IInv, NEW o \in Nat, headOffset <= o, TrimTo(o),
         o < EndOffset =>
           ~\E k \in Chunks : chunk[k].gap /\ InRange(chunk[k], o) /\ o # chunk[k].offset
  PROVE  \E head \in Nat :
           /\ TrimPoint(o, head)
           /\ first' = head /\ next' = next /\ headOffset' = o
           /\ chunk' = [k \in head..next-1 |-> IF k = head THEN CutAt(chunk[k], o) ELSE chunk[k]]
<1> DEFINE kept == {k \in Chunks : o < ChunkEnd(chunk[k])}
<1>1. CASE o >= EndOffset
  <2>1. kept = {}
    BY <1>1, ChainFacts
  <2>2. next \in Nat
    BY ChainFacts
  <2>3. QED BY <1>1, <2>1, <2>2 DEF TrimTo, TrimPoint
<1>2. CASE ~(o >= EndOffset)
  <2>1. o \in headOffset .. EndOffset-1
    BY <1>2, ChainFacts
  <2>2. PICK k \in Chunks : InRange(chunk[k], o)
    BY <2>1 DEF IInv, Covered
  <2>3. k \in kept
    BY <2>2 DEF InRange
  <2>4. \A j \in kept : k <= j
    <3>1. SUFFICES ASSUME NEW j \in kept, j < k PROVE FALSE
      BY ChainFacts
    <3>2. ChunkEnd(chunk[j]) <= chunk[k].offset
      BY <3>1 DEF IInv, Ordered
    <3>3. QED BY <2>2, <3>1, <3>2, ChainFacts DEF InRange
  <2>5. (CHOOSE i \in kept : \A j \in kept : i <= j) = k
    <3>1. \A i \in kept : i \in Nat
      BY ChainFacts
    <3>2. \A i \in kept : (\A j \in kept : i <= j) => i = k
      BY <2>3, <2>4, <3>1
    <3> HIDE DEF kept
    <3>3. QED BY <2>3, <2>4, <3>2
  <2>6. TrimPoint(o, k)
    BY <1>2, <2>1, <2>2, ChainFacts DEF TrimPoint
  <2>7. k \in Nat
    BY ChainFacts
  <2>8. kept # {}
    BY <2>3
  <2>9. QED BY <2>5, <2>6, <2>7, <2>8 DEF TrimTo
<1>3. QED BY <1>1, <1>2

\* What is left after trimming: the chunk that is cut ends where it did, and
\* the ones behind it are the same.
LEMMA TrimFacts ==
  ASSUME IInv, NEW o \in Nat, headOffset <= o, NEW head \in Nat, TrimPoint(o, head),
         first' = head, next' = next, headOffset' = o,
         chunk' = [k \in head..next-1 |-> IF k = head THEN CutAt(chunk[k], o) ELSE chunk[k]]
  PROVE  /\ first <= head /\ head <= next
         /\ \A k \in Chunks' : k \in Chunks
         /\ \A k \in Chunks : k \in Chunks' <=> head <= k
         /\ \A k \in Chunks' : k # head => chunk'[k] = chunk[k]
         /\ head \in Chunks => /\ head \in Chunks' /\ InRange(chunk[head], o)
                               /\ chunk'[head] = CutAt(chunk[head], o)
                               /\ chunk'[head].offset = o /\ chunk'[head] \in Chunk
                               /\ ChunkEnd(chunk'[head]) = ChunkEnd(chunk[head])
         /\ \A k \in Chunks' : ChunkEnd(chunk'[k]) = ChunkEnd(chunk[k])
         /\ chunk' \in [Chunks' -> Chunk]
         /\ EndOffset' = IF o > EndOffset THEN o ELSE EndOffset
<1>1. /\ first \in Nat /\ next \in Nat /\ first <= next /\ EndOffset \in Nat
      /\ \A k \in Chunks : k \in Nat /\ first <= k /\ k <= next-1 /\ chunk[k] \in Chunk
  BY ChainFacts
<1>2. head = next \/ (head \in Chunks /\ head # next /\ InRange(chunk[head], o))
  <2>1. head = next \/ (head \in Chunks /\ InRange(chunk[head], o))
    BY DEF TrimPoint
  <2>2. \A k \in Chunks : k # next
    BY <1>1
  <2>3. QED BY <2>1, <2>2
<1>3. first <= head /\ head <= next
  BY <1>1, <1>2
<1>4. Chunks' = head .. next-1
  BY DEF Chunks
<1>5. \A k \in Chunks' : k \in Chunks
  BY <1>1, <1>3, <1>4 DEF Chunks
<1>6. \A k \in Chunks : k \in Chunks' <=> head <= k
  BY <1>1, <1>3, <1>4 DEF Chunks
<1>7. \A k \in Chunks' : chunk'[k] = IF k = head THEN CutAt(chunk[k], o) ELSE chunk[k]
  BY <1>4
<1>8. ASSUME head \in Chunks
      PROVE  /\ head \in Chunks' /\ InRange(chunk[head], o)
             /\ chunk'[head] = CutAt(chunk[head], o)
             /\ chunk'[head].offset = o /\ chunk'[head] \in Chunk
             /\ ChunkEnd(chunk'[head]) = ChunkEnd(chunk[head])
  <2> DEFINE c == chunk[head]
  <2>1. head \in Chunks' /\ InRange(chunk[head], o) /\ chunk'[head] = CutAt(chunk[head], o)
    BY <1>1, <1>2, <1>6, <1>7, <1>8
  <2>2. c \in Chunk /\ (c.gap => c.offset = o)
    BY <1>1, <1>2, <1>8 DEF TrimPoint
  <2>3. InRange(c, o)
    BY <2>1
  <2> HIDE DEF c
  <2>4. CASE c.gap
    <3>1. CutAt(c, o) = c
      BY <2>2, <2>4 DEF CutAt, Chunk
    <3>2. QED BY <2>1, <2>2, <2>4, <3>1 DEF c
  <2>5. CASE ~c.gap
    <3>1. CutAt(c, o) = [offset |-> o, size |-> ChunkEnd(c) - o, gap |-> c.gap,
                         serial |-> c.serial + (o - c.offset)]
      BY <2>2, <2>5 DEF CutAt, Chunk
    <3>2. ChunkEnd(c) - o \in Nat \ {0} /\ c.serial + (o - c.offset) \in Nat /\ c.gap \in BOOLEAN
      BY <2>2, <2>3 DEF InRange, ChunkEnd, Chunk
    <3>3. CutAt(c, o) \in Chunk /\ CutAt(c, o).offset = o
      BY <3>1, <3>2 DEF Chunk
    <3>4. ChunkEnd(CutAt(c, o)) = ChunkEnd(c)
      <4>1. ChunkEnd(CutAt(c, o)) = o + (ChunkEnd(c) - o)
        BY <3>1 DEF ChunkEnd
      <4>2. ChunkEnd(c) \in Nat
        BY <2>2 DEF ChunkEnd, Chunk
      <4>3. QED BY <4>1, <4>2
    <3>5. QED BY <2>1, <3>3, <3>4 DEF c
  <2>6. QED BY <2>4, <2>5
<1>9. \A k \in Chunks' : ChunkEnd(chunk'[k]) = ChunkEnd(chunk[k]) /\ chunk'[k] \in Chunk
  <2>1. SUFFICES ASSUME NEW k \in Chunks'
                 PROVE  ChunkEnd(chunk'[k]) = ChunkEnd(chunk[k]) /\ chunk'[k] \in Chunk
    OBVIOUS
  <2>2. CASE k = head
    BY <1>5, <1>8, <2>2
  <2>3. CASE k # head
    BY <1>1, <1>5, <1>7, <2>3
  <2>4. QED BY <2>2, <2>3
<1>10. chunk' \in [Chunks' -> Chunk]
  BY <1>4, <1>9
<1>11. EndOffset' = IF o > EndOffset THEN o ELSE EndOffset
  <2>1. CASE head = next
    <3>1. EndOffset' = o
      BY <2>1 DEF EndOffset
    <3>2. o >= EndOffset
      BY <1>1, <2>1 DEF TrimPoint
    <3>3. QED BY <1>1, <3>1, <3>2
  <2>2. CASE head # next
    <3>1. head \in Chunks /\ InRange(chunk[head], o)
      BY <1>2, <2>2
    <3>2. next-1 \in Chunks' /\ next-1 \in Chunks /\ first # next
      BY <1>1, <1>4, <1>5, <3>1
    <3>3. EndOffset = ChunkEnd(chunk[next-1])
      BY <3>2 DEF EndOffset
    <3>4. EndOffset' = ChunkEnd(chunk'[next-1])
      BY <2>2 DEF EndOffset
    <3>5. o < EndOffset
      BY <3>1, ChainFacts DEF InRange
    <3>6. QED BY <1>1, <1>9, <3>2, <3>3, <3>4, <3>5
  <2>3. QED BY <2>1, <2>2
<1>12. QED
  BY <1>3, <1>5, <1>6, <1>7, <1>8, <1>9, <1>10, <1>11

\* Trimming keeps the chain in order.
LEMMA TrimChain ==
  ASSUME IInv, NEW o \in Nat, headOffset <= o, NEW head \in Nat, TrimPoint(o, head),
         first' = head, next' = next, headOffset' = o,
         chunk' = [k \in head..next-1 |-> IF k = head THEN CutAt(chunk[k], o) ELSE chunk[k]]
  PROVE  ChunksContiguous' /\ Ordered' /\ Covered'
<1>1. /\ next \in Nat /\ EndOffset \in Nat /\ first \in Nat
      /\ \A k \in Chunks : /\ k \in Nat /\ first <= k /\ k <= next-1 /\ chunk[k].offset \in Nat
                           /\ ChunkEnd(chunk[k]) \in Nat /\ ChunkEnd(chunk[k]) <= EndOffset
  BY ChainFacts
<1>2. /\ first <= head /\ head <= next
      /\ \A k \in Chunks' : k \in Chunks
      /\ \A k \in Chunks : k \in Chunks' <=> head <= k
      /\ \A k \in Chunks' : k # head => chunk'[k] = chunk[k]
      /\ head \in Chunks => chunk'[head].offset = o /\ InRange(chunk[head], o)
      /\ \A k \in Chunks' : ChunkEnd(chunk'[k]) = ChunkEnd(chunk[k])
      /\ EndOffset' = IF o > EndOffset THEN o ELSE EndOffset
  BY TrimFacts
<1>3. \A k \in Chunks' : head <= k
  BY <1>2
<1>4. ChunksContiguous'
  <2>1. SUFFICES ASSUME NEW k \in Chunks'
                 PROVE  chunk'[k].offset = IF k = first' THEN headOffset' ELSE ChunkEnd(chunk'[k-1])
    BY DEF ChunksContiguous
  <2>2. CASE k = head
    BY <1>2, <2>2
  <2>3. CASE k # head
    <3>1. k \in Chunks /\ k # first /\ head <= k-1
      BY <1>1, <1>2, <1>3, <2>3
    <3>2. k-1 \in Chunks
      BY <1>1, <1>2, <3>1 DEF Chunks
    <3>3. k-1 \in Chunks'
      BY <1>2, <3>1, <3>2
    <3>4. chunk[k].offset = ChunkEnd(chunk[k-1])
      BY <3>1 DEF IInv, ChunksContiguous
    <3>5. QED BY <1>2, <2>3, <3>3, <3>4
  <2>4. QED BY <2>2, <2>3
<1>5. Ordered'
  <2>1. SUFFICES ASSUME NEW i \in Chunks', NEW j \in Chunks', i < j
                 PROVE  ChunkEnd(chunk'[i]) <= chunk'[j].offset
    BY DEF Ordered
  <2>2. i \in Chunks /\ j \in Chunks /\ j # head
    BY <1>1, <1>2, <1>3, <2>1
  <2>3. QED BY <1>2, <2>1, <2>2 DEF IInv, Ordered
<1>6. Covered'
  <2>1. SUFFICES ASSUME NEW x \in headOffset' .. EndOffset'-1
                 PROVE  \E k \in Chunks' : InRange(chunk'[k], x)
    BY DEF Covered
  <2>2. o <= x /\ x < EndOffset /\ x \in Nat
    BY <1>1, <1>2
  <2>3. x \in headOffset .. EndOffset-1
    BY <1>1, <2>2, ChainFacts
  <2>4. PICK k \in Chunks : InRange(chunk[k], x)
    BY <2>3 DEF IInv, Covered
  <2>5. head <= k
    <3>1. CASE head = next
      BY <1>1, <2>2, <3>1 DEF TrimPoint
    <3>2. CASE head \in Chunks
      <4>1. k < head => ChunkEnd(chunk[k]) <= chunk[head].offset
        BY <3>2 DEF IInv, Ordered
      <4>2. chunk[head].offset <= o /\ x < ChunkEnd(chunk[k])
        BY <1>2, <2>4, <3>2 DEF InRange
      <4>3. QED BY <1>1, <2>2, <3>2, <4>1, <4>2
    <3>3. QED BY <3>1, <3>2 DEF TrimPoint
  <2>6. k \in Chunks'
    BY <1>2, <2>5
  <2>7. CASE k = head
    BY <1>2, <2>2, <2>4, <2>6, <2>7 DEF InRange
  <2>8. CASE k # head
    BY <1>2, <2>4, <2>6, <2>8
  <2>9. QED BY <2>6, <2>7, <2>8
<1>7. QED BY <1>4, <1>5, <1>6

\* A copy of the stream has the same chunks, counted from 0.
LEMMA CopyFacts ==
  ASSUME IInv, AssignCopy
  PROVE  LET size == next - first IN
         /\ size \in Nat /\ first' = next /\ next' = next + size /\ headOffset' = 0
         /\ \A k \in Chunks' : k - size \in Chunks
         /\ \A k \in Chunks : k + size \in Chunks'
         /\ \A k \in Chunks' : /\ k \in Nat /\ chunk'[k] \in Chunk
                               /\ chunk'[k].offset = chunk[k - size].offset - headOffset
                               /\ ChunkEnd(chunk'[k]) = ChunkEnd(chunk[k - size]) - headOffset
                               /\ chunk'[k].gap = chunk[k - size].gap
                               /\ chunk'[k].serial = chunk[k - size].serial
         /\ EndOffset' = EndOffset - headOffset
         /\ chunk' \in [Chunks' -> Chunk]
<1> DEFINE size == next - first
<1> DEFINE shift(k) == IF k = first THEN 0
                       ELSE chunk[first].size + (chunk[k].offset - chunk[first+1].offset)
<1>1. /\ first \in Nat /\ next \in Nat /\ first <= next /\ EndOffset \in Nat /\ headOffset \in Nat
      /\ \A k \in Chunks : /\ k \in Nat /\ first <= k /\ k <= next-1 /\ chunk[k] \in Chunk
                           /\ chunk[k].offset \in Nat /\ headOffset <= chunk[k].offset
                           /\ ChunkEnd(chunk[k]) = chunk[k].offset + chunk[k].size
                           /\ chunk[k].size \in Nat
  BY ChainFacts
<1>2. /\ first' = next /\ next' = next + size /\ headOffset' = 0
      /\ chunk' = [k \in next .. next+size-1 |->
                     [chunk[k - size] EXCEPT !.offset = shift(k - size)]]
  BY DEF AssignCopy
<1>3. size \in Nat /\ next + size \in Nat /\ first + size = next
  BY <1>1
<1> HIDE DEF shift, size
<1>4. Chunks' = next .. next+size-1
  <2>1. Chunks' = first' .. next'-1
    BY DEF Chunks
  <2>2. first' = next /\ next' = next + size
    BY <1>2
  <2>3. QED BY <1>1, <1>3, <2>1, <2>2
<1>5. \A k \in Chunks' : k \in Nat /\ k - size \in Chunks
  <2>1. \A k \in next .. next+size-1 : k \in Nat /\ k - size \in first .. next-1
    BY <1>1, <1>3
  <2>2. QED BY <1>4, <2>1 DEF Chunks
<1>6. \A k \in Chunks : k + size \in Chunks'
  <2>1. \A k \in first .. next-1 : k + size \in next .. next+size-1
    BY <1>1, <1>3
  <2>2. QED BY <1>4, <2>1 DEF Chunks
<1>7. ASSUME NEW k \in Chunks PROVE shift(k) = chunk[k].offset - headOffset
  <2>1. CASE k = first
    <3>1. chunk[first].offset = headOffset
      BY <2>1 DEF IInv, ChunksContiguous
    <3>2. QED BY <1>1, <2>1, <3>1 DEF shift
  <2>2. CASE k # first
    <3>1. first \in Chunks /\ first+1 \in Chunks /\ first+1 # first
      BY <1>1, <2>2 DEF Chunks
    <3>2. chunk[first].offset = headOffset
      BY <3>1 DEF IInv, ChunksContiguous
    <3>3. chunk[first+1].offset = ChunkEnd(chunk[(first+1)-1])
      BY <3>1 DEF IInv, ChunksContiguous
    <3>4. (first+1)-1 = first
      BY <1>1
    <3>5. chunk[first+1].offset = headOffset + chunk[first].size
      BY <1>1, <3>1, <3>2, <3>3, <3>4
    <3>6. shift(k) = chunk[first].size + (chunk[k].offset - (headOffset + chunk[first].size))
      BY <2>2, <3>5 DEF shift
    <3>7. QED BY <1>1, <3>1, <3>6
  <2>3. QED BY <2>1, <2>2
<1>8. ASSUME NEW k \in Chunks'
      PROVE  /\ chunk'[k] \in Chunk
             /\ chunk'[k].offset = chunk[k - size].offset - headOffset
             /\ ChunkEnd(chunk'[k]) = ChunkEnd(chunk[k - size]) - headOffset
             /\ chunk'[k].gap = chunk[k - size].gap
             /\ chunk'[k].serial = chunk[k - size].serial
  <2> DEFINE c == chunk[k - size]
  <2>1. k - size \in Chunks
    BY <1>5
  <2>2. chunk'[k] = [c EXCEPT !.offset = c.offset - headOffset]
    BY <1>2, <1>4, <1>7, <2>1
  <2>3. c \in Chunk /\ c.offset \in Nat /\ headOffset <= c.offset
    BY <1>1, <2>1
  <2> HIDE DEF c
  <2>4. chunk'[k] = [offset |-> c.offset - headOffset, size |-> c.size, gap |-> c.gap, serial |-> c.serial]
    BY <2>2, <2>3 DEF Chunk
  <2>5. c.offset - headOffset \in Nat /\ c.size \in Nat \ {0} /\ c.gap \in BOOLEAN /\ c.serial \in Nat
    BY <1>1, <2>3 DEF Chunk
  <2>6. chunk'[k] \in Chunk
    BY <2>4, <2>5 DEF Chunk
  <2>7. ChunkEnd(chunk'[k]) = ChunkEnd(c) - headOffset
    BY <1>1, <2>3, <2>4, <2>5 DEF ChunkEnd
  <2>8. QED BY <2>4, <2>6, <2>7 DEF c
<1>9. chunk' \in [Chunks' -> Chunk]
  BY <1>2, <1>4, <1>8
<1>10. EndOffset' = EndOffset - headOffset
  <2>1. CASE first = next
    <3>1. size = 0
      BY <1>1, <2>1 DEF size
    <3>2. first' = next'
      BY <1>1, <1>2, <3>1
    <3>3. EndOffset' = 0
      BY <1>2, <3>2 DEF EndOffset
    <3>4. EndOffset = headOffset
      BY <2>1 DEF EndOffset
    <3>5. QED BY <1>1, <3>3, <3>4
  <2>2. CASE first # next
    <3>1. first' # next' /\ next'-1 \in Chunks' /\ (next'-1) - size = next-1
      BY <1>1, <1>2, <1>4, <2>2 DEF size
    <3>2. EndOffset' = ChunkEnd(chunk'[next'-1])
      BY <3>1 DEF EndOffset
    <3>3. EndOffset = ChunkEnd(chunk[next-1])
      BY <2>2 DEF EndOffset
    <3>4. QED BY <1>8, <3>1, <3>2, <3>3
  <2>3. QED BY <2>1, <2>2
<1>11. QED
  BY <1>2, <1>3, <1>5, <1>6, <1>8, <1>9, <1>10 DEF size

\* So it is in order as well.
LEMMA CopyChain ==
  ASSUME IInv, AssignCopy
  PROVE  ChunksContiguous' /\ Ordered' /\ Covered'
<1> DEFINE size == next - first
<1>1. /\ next \in Nat /\ first \in Nat /\ first <= next /\ EndOffset \in Nat /\ headOffset \in Nat
      /\ headOffset <= EndOffset
      /\ \A k \in Chunks : /\ k \in Nat /\ first <= k /\ k <= next-1 /\ chunk[k].offset \in Nat
                           /\ ChunkEnd(chunk[k]) \in Nat /\ ChunkEnd(chunk[k]) <= EndOffset
  BY ChainFacts
<1>2. /\ size \in Nat /\ first' = next /\ headOffset' = 0
      /\ \A k \in Chunks' : k - size \in Chunks /\ k \in Nat
      /\ \A k \in Chunks : k + size \in Chunks'
      /\ \A k \in Chunks' : /\ chunk'[k].offset = chunk[k - size].offset - headOffset
                            /\ ChunkEnd(chunk'[k]) = ChunkEnd(chunk[k - size]) - headOffset
      /\ EndOffset' = EndOffset - headOffset
  BY CopyFacts
<1>3. first + size = next
  BY <1>1
<1> HIDE DEF size
<1>4. ChunksContiguous'
  <2>1. SUFFICES ASSUME NEW k \in Chunks'
                 PROVE  chunk'[k].offset = IF k = first' THEN headOffset' ELSE ChunkEnd(chunk'[k-1])
    BY DEF ChunksContiguous
  <2> DEFINE j == k - size
  <2>2. j \in Chunks /\ j \in Nat /\ k \in Nat /\ chunk'[k].offset = chunk[j].offset - headOffset
    BY <1>1, <1>2
  <2>3. chunk[j].offset = IF j = first THEN headOffset ELSE ChunkEnd(chunk[j-1])
    BY <2>2 DEF IInv, ChunksContiguous
  <2>4. CASE k = next
    <3>1. j = first
      BY <1>1, <1>2, <1>3, <2>4
    <3>2. QED BY <1>1, <1>2, <2>2, <2>3, <2>4, <3>1
  <2>5. CASE k # next
    <3>1. j # first
      BY <1>1, <1>2, <1>3, <2>2, <2>5
    <3>2. j-1 \in Chunks
      BY <1>1, <2>2, <3>1 DEF Chunks
    <3>3. (j-1) + size = k-1 /\ (k-1) - size = j-1
      BY <1>2, <2>2
    <3>4. k-1 \in Chunks'
      BY <1>2, <3>2, <3>3
    <3>5. ChunkEnd(chunk'[k-1]) = ChunkEnd(chunk[j-1]) - headOffset
      BY <1>2, <3>3, <3>4
    <3>6. QED BY <1>2, <2>2, <2>3, <2>5, <3>1, <3>5
  <2>6. QED BY <2>4, <2>5
<1>5. Ordered'
  <2>1. SUFFICES ASSUME NEW i \in Chunks', NEW j \in Chunks', i < j
                 PROVE  ChunkEnd(chunk'[i]) <= chunk'[j].offset
    BY DEF Ordered
  <2>2. i - size \in Chunks /\ j - size \in Chunks /\ i - size < j - size
    BY <1>2, <2>1
  <2>3. ChunkEnd(chunk[i - size]) <= chunk[j - size].offset
    BY <2>2 DEF IInv, Ordered
  <2>4. QED BY <1>1, <1>2, <2>2, <2>3
<1>6. Covered'
  <2>1. SUFFICES ASSUME NEW x \in headOffset' .. EndOffset'-1
                 PROVE  \E k \in Chunks' : InRange(chunk'[k], x)
    BY DEF Covered
  <2>2. x \in Int /\ 0 <= x /\ x < EndOffset - headOffset
    BY <1>1, <1>2
  <2>3. x + headOffset \in headOffset .. EndOffset-1
    BY <1>1, <2>2
  <2>4. PICK j \in Chunks : InRange(chunk[j], x + headOffset)
    BY <2>3 DEF IInv, Covered
  <2>5. (j + size) - size = j /\ j + size \in Chunks'
    BY <1>1, <1>2
  <2>6. /\ chunk'[j + size].offset = chunk[j].offset - headOffset
        /\ ChunkEnd(chunk'[j + size]) = ChunkEnd(chunk[j]) - headOffset
    BY <1>2, <2>5
  <2>7. InRange(chunk'[j + size], x)
    BY <1>1, <2>2, <2>4, <2>6 DEF InRange
  <2>8. QED BY <2>5, <2>7
<1>7. QED BY <1>4, <1>5, <1>6

\* A new stream has no chunks.
LEMMA EmptyChain ==
  ASSUME IInv, AssignEmpty
  PROVE  /\ Chunks' = {} /\ EndOffset' = 0
         /\ ChunksContiguous' /\ Ordered' /\ Covered' /\ chunk' \in [Chunks' -> Chunk]
<1>1. next \in Nat
  BY ChainFacts
<1>2. Chunks' = {}
  BY <1>1 DEF AssignEmpty, Chunks
<1>3. EndOffset' = 0 /\ headOffset' = 0
  BY DEF AssignEmpty, EndOffset
<1>4. ChunksContiguous' /\ Ordered'
  BY <1>2 DEF ChunksContiguous, Ordered
<1>5. Covered'
  BY <1>3 DEF Covered
<1>6. chunk' \in [Chunks' -> Chunk]
  BY <1>2 DEF AssignEmpty
<1>7. QED BY <1>2, <1>3, <1>4, <1>5, <1>6

-----------------------------------------------------------------------------
\* An iterator's hint, and the iterators that its operations return, are well
\* typed.
LEMMA HintType ==
  ASSUME NEW it \in Iterator
  PROVE  UsableHint(it) \in Nat \cup {Null}
BY DEF UsableHint, Iterator

\* The search for a chunk starts from any offset.
LEMMA FindChunkNat ==
  ASSUME IInv, NEW o \in Nat, NEW hint \in Nat \cup {Null}
  PROVE  FindChunk(o, hint) \in Nat \cup {Null}
BY FindChunkType, ChainFacts

\* Iterators that a stream or a view makes are iterators.
LEMMA MadeIterators ==
  ASSUME IInv
  PROVE  /\ BeginOf \in Iterator /\ EndOf \in Iterator
         /\ \A o \in Nat : At(o) \in Iterator
<1>1. /\ first \in Nat /\ next \in Nat /\ headOffset \in Nat /\ EndOffset \in Nat /\ chain \in Nat
      /\ first # next => next-1 \in Nat
  BY ChainFacts DEF IInv, TypeOK
<1>2. BeginOf \in Iterator /\ EndOf \in Iterator
  BY <1>1 DEF BeginOf, EndOf, Iterator
<1>3. ASSUME NEW o \in Nat PROVE At(o) \in Iterator
  <2>1. FindChunk(o, Null) \in Nat \cup {Null}
    BY FindChunkNat
  <2>2. QED BY <1>1, <2>1 DEF At, Iterator
<1>4. QED BY <1>2, <1>3

\* Iterators that are moved are iterators.
LEMMA MovedIterators ==
  ASSUME IInv, NEW it \in Iterator, NEW n \in Nat
  PROVE  /\ Forward(it, n) \in Iterator
         /\ Forward(it, n).offset = it.offset + n /\ Forward(it, n).chain = it.chain
         /\ it.chain = chain => \E h \in Nat \cup {Null} : Forward(it, n).hint = FindChunk(it.offset + n, h)
         /\ n <= it.offset => Backward(it, n) \in Iterator
<1> DEFINE fwd == [it EXCEPT !.offset = @ + n]
<1> DEFINE bwd == [it EXCEPT !.offset = @ - n]
<1>1. /\ it.offset \in Nat /\ it.chain \in Nat /\ it.hint \in Nat \cup {Null}
      /\ it = [chain |-> it.chain, offset |-> it.offset, hint |-> it.hint]
  BY DEF Iterator
<1>2. /\ fwd \in Iterator /\ fwd.offset = it.offset + n /\ fwd.chain = it.chain
      /\ \A h : [fwd EXCEPT !.hint = h] = [chain |-> it.chain, offset |-> it.offset + n, hint |-> h]
  <2>1. fwd = [chain |-> it.chain, offset |-> it.offset + n, hint |-> it.hint]
    BY <1>1
  <2>2. it.offset + n \in Nat
    BY <1>1
  <2> HIDE DEF fwd
  <2>3. fwd \in Iterator /\ fwd.offset = it.offset + n /\ fwd.chain = it.chain
    BY <1>1, <2>1, <2>2 DEF Iterator
  <2>4. \A h : [fwd EXCEPT !.hint = h] = [chain |-> it.chain, offset |-> it.offset + n, hint |-> h]
    BY <2>1
  <2>5. QED BY <2>3, <2>4
<1>3. /\ n <= it.offset => bwd \in Iterator /\ bwd.offset \in Nat
      /\ bwd.offset = it.offset - n
      /\ \A h : [bwd EXCEPT !.hint = h] = [chain |-> it.chain, offset |-> it.offset - n, hint |-> h]
  <2>1. bwd = [chain |-> it.chain, offset |-> it.offset - n, hint |-> it.hint]
    BY <1>1
  <2>2. n <= it.offset => it.offset - n \in Nat
    BY <1>1
  <2> HIDE DEF bwd
  <2>3. bwd.offset = it.offset - n /\ (n <= it.offset => bwd \in Iterator /\ bwd.offset \in Nat)
    BY <1>1, <2>1, <2>2 DEF Iterator
  <2>4. \A h : [bwd EXCEPT !.hint = h] = [chain |-> it.chain, offset |-> it.offset - n, hint |-> h]
    BY <2>1
  <2>5. QED BY <2>3, <2>4
<1> HIDE DEF fwd, bwd
<1>4. /\ Forward(it, n) \in Iterator
      /\ Forward(it, n).offset = it.offset + n /\ Forward(it, n).chain = it.chain
      /\ it.chain = chain => \E h \in Nat \cup {Null} : Forward(it, n).hint = FindChunk(it.offset + n, h)
  <2>1. Forward(it, n) = IF it.chain # chain THEN fwd
                         ELSE [fwd EXCEPT !.hint = FindChunk(fwd.offset, UsableHint(fwd))]
    BY DEF Forward, fwd
  <2>2. UsableHint(fwd) \in Nat \cup {Null}
    BY <1>2, HintType
  <2>3. FindChunk(fwd.offset, UsableHint(fwd)) \in Nat \cup {Null}
    BY <1>1, <1>2, <2>2, FindChunkNat
  <2>4. CASE it.chain # chain
    BY <1>2, <2>1, <2>4
  <2>5. CASE it.chain = chain
    <3>1. Forward(it, n) = [chain |-> it.chain, offset |-> it.offset + n,
                            hint |-> FindChunk(it.offset + n, UsableHint(fwd))]
      BY <1>2, <2>1, <2>5
    <3>2. QED BY <1>1, <1>2, <2>2, <2>3, <3>1 DEF Iterator
  <2>6. QED BY <2>4, <2>5
<1>5. ASSUME n <= it.offset PROVE Backward(it, n) \in Iterator
  <2>1. Backward(it, n) = bwd \/ Backward(it, n) = [bwd EXCEPT !.hint = FindChunk(bwd.offset, it.hint)]
    BY DEF Backward, bwd
  <2>2. FindChunk(it.offset - n, it.hint) \in Nat \cup {Null} /\ it.offset - n \in Nat
    BY <1>1, <1>5, FindChunkNat
  <2>3. bwd \in Iterator
    BY <1>3, <1>5
  <2>4. [bwd EXCEPT !.hint = FindChunk(bwd.offset, it.hint)] \in Iterator
    BY <1>1, <1>3, <2>2 DEF Iterator
  <2>5. QED BY <2>1, <2>3, <2>4
<1>6. QED BY <1>4, <1>5

\* The place behind a gap is the beginning of a chunk or the end.
LEMMA AfterGapType ==
  ASSUME IInv, NEW k \in Chunks
  PROVE  AfterGap(k) \in Nat
<1> DEFINE data == {j \in k .. next-1 : ~chunk[j].gap}
<1>1. k \in Nat /\ first <= k /\ next \in Nat /\ EndOffset \in Nat /\ first \in Nat
  BY ChainFacts
<1>2. data \subseteq Chunks /\ data \subseteq Int
  BY <1>1 DEF Chunks
<1>3. IsFiniteSet(data)
  <2>1. IsFiniteSet(k .. next-1)
    BY <1>1, FS_Interval
  <2>2. data \subseteq k .. next-1
    OBVIOUS
  <2> HIDE DEF data
  <2>3. QED BY <2>1, <2>2, FS_Subset
<1>4. CASE data = {}
  BY <1>1, <1>4 DEF AfterGap
<1>5. CASE data # {}
  <2> HIDE DEF data
  <2>1. \E m \in data : \A i \in data : m <= i
    BY <1>2, <1>3, <1>5, Least
  <2> DEFINE m == CHOOSE j \in data : \A i \in data : j <= i
  <2>2. m \in data
    BY <2>1
  <2> HIDE DEF m
  <2>3. chunk[m].offset \in Nat
    BY <1>2, <2>2, ChainFacts
  <2>4. AfterGap(k) = chunk[m].offset
    BY <1>5 DEF AfterGap, data, m
  <2>5. QED BY <2>3, <2>4
<1>6. QED BY <1>4, <1>5

\* So is the next place with data.
LEMMA NextDataType ==
  ASSUME IInv, NEW it \in Iterator
  PROVE  NextData(it) \in Iterator
<1> DEFINE i == Forward(it, 1)
<1> DEFINE k == IF Readable(i) THEN i.hint ELSE Null
<1>1. /\ i \in Iterator /\ i.offset = it.offset + 1 /\ i.chain = it.chain /\ it.offset \in Nat
      /\ it.chain = chain => \E h \in Nat \cup {Null} : i.hint = FindChunk(it.offset + 1, h)
  BY MovedIterators DEF Iterator
<1>2. NextData(it) = IF k = Null \/ ~chunk[k].gap THEN i ELSE At(AfterGap(k))
  BY DEF NextData
<1> HIDE DEF i
<1>3. CASE k = Null
  BY <1>1, <1>2, <1>3
<1>4. CASE k # Null
  <2>1. k = i.hint /\ i.chain = chain
    BY <1>4 DEF Readable
  <2>2. k \in Chunks
    BY <1>1, <1>4, <2>1, FindChunkType
  <2>3. AfterGap(k) \in Nat
    BY <2>2, AfterGapType
  <2>4. At(AfterGap(k)) \in Iterator
    BY <2>3, MadeIterators
  <2>5. QED BY <1>1, <1>2, <2>4
<1>5. QED BY <1>3, <1>4

-----------------------------------------------------------------------------
\* A call that leaves the chain alone, and the iterators well typed, keeps the
\* invariant.
LEMMA ChainUnchanged ==
  ASSUME IInv, UNCHANGED <<first, next, chunk, headOffset, count>>,
         frozen' \in BOOLEAN, chain' = chain,
         iter' \in [Iters -> Iterator \cup {Null}], wild' \in BOOLEAN
  PROVE  IInv'
<1>1. Chunks' = Chunks /\ EndOffset' = EndOffset
  BY DEF Chunks, EndOffset
<1>2. TypeOK'
  BY <1>1 DEF IInv, TypeOK
<1>3. ChunksContiguous' /\ Ordered' /\ Covered'
  BY <1>1 DEF IInv, ChunksContiguous, Ordered, Covered
<1>4. QED BY <1>2, <1>3 DEF IInv

\* Appending keeps the invariant.
LEMMA AppendKeeps ==
  ASSUME IInv, NEW n \in Sizes, NEW gap \in BOOLEAN, Append(n, gap)
  PROVE  IInv'
<1>1. ChunksContiguous' /\ Ordered' /\ Covered'
  BY AppendChain
<1>2. first' = first /\ next' = next + 1 /\ headOffset' = headOffset /\ n \in Nat
      /\ chunk' \in [Chunks' -> Chunk]
  BY AppendFacts
<1>3. first' \in Nat /\ next' \in Nat /\ first' <= next' /\ headOffset' \in Nat
  BY <1>2, ChainFacts
<1>4. frozen' = frozen /\ chain' = chain /\ iter' = iter /\ wild' = wild
      /\ count' = IF gap THEN count ELSE count + n
  BY DEF Append
<1>5. count' \in Nat
  BY <1>2, <1>4 DEF IInv, TypeOK
<1>6. TypeOK'
  BY <1>2, <1>3, <1>4, <1>5 DEF IInv, TypeOK
<1>7. QED BY <1>1, <1>6 DEF IInv

\* A place to trim to is not behind the head, and not inside a gap.
TrimPlace(o) ==
  /\ o \in Nat /\ headOffset <= o
  /\ o < EndOffset =>
       ~\E k \in Chunks : chunk[k].gap /\ InRange(chunk[k], o) /\ o # chunk[k].offset

\* Where a trim cuts the chain.
LEMMA TrimPlaces ==
  ASSUME ~CutsGaps, IInv, (\E i \in Iters : Trim(i)) \/ TrimAll
  PROVE  \E o \in Nat : TrimPlace(o) /\ TrimTo(o)
<1>1. CASE TrimAll
  <2>1. EndOffset \in Nat /\ headOffset <= EndOffset
    BY ChainFacts
  <2>2. TrimPlace(EndOffset)
    BY <2>1 DEF TrimPlace
  <2>3. QED BY <1>1, <2>1, <2>2 DEF TrimAll
<1>2. ASSUME NEW i \in Iters, Trim(i)
      PROVE  \E o \in Nat : TrimPlace(o) /\ TrimTo(o)
  <2>1. iter[i] \in Iterator /\ Trimmable(iter[i]) /\ TrimTo(iter[i].offset)
    BY <1>2 DEF Trim, IInv, TypeOK
  <2>2. iter[i].offset \in Nat
    BY <2>1 DEF Iterator
  <2>3. TrimPlace(iter[i].offset)
    <3>1. headOffset <= iter[i].offset
      BY <2>1, <2>2, ChainFacts DEF Trimmable
    <3>2. ~\E k \in Chunks : chunk[k].gap /\ InRange(chunk[k], iter[i].offset)
                                          /\ iter[i].offset # chunk[k].offset
      BY <2>1 DEF Trimmable
    <3>3. QED BY <2>2, <3>1, <3>2 DEF TrimPlace
  <2>4. QED BY <2>1, <2>2, <2>3
<1>3. QED BY <1>1, <1>2

\* Trimming keeps the invariant.
LEMMA TrimKeeps ==
  ASSUME IInv, NEW o \in Nat, TrimPlace(o), TrimTo(o)
  PROVE  IInv'
<1>1. PICK head \in Nat :
        /\ TrimPoint(o, head)
        /\ first' = head /\ next' = next /\ headOffset' = o
        /\ chunk' = [k \in head..next-1 |-> IF k = head THEN CutAt(chunk[k], o) ELSE chunk[k]]
  BY TrimPoints DEF TrimPlace
<1>2. headOffset <= o
  BY DEF TrimPlace
<1>3. ChunksContiguous' /\ Ordered' /\ Covered'
  BY <1>1, <1>2, TrimChain
<1>4. head <= next /\ chunk' \in [Chunks' -> Chunk]
  BY <1>1, <1>2, TrimFacts
<1>5. frozen' = frozen /\ chain' = chain /\ iter' = iter /\ count' = count /\ wild' = wild
  BY DEF TrimTo
<1>6. TypeOK'
  BY <1>1, <1>4, <1>5 DEF IInv, TypeOK
<1>7. QED BY <1>3, <1>6 DEF IInv

\* Assigning another stream keeps the invariant.
LEMMA AssignKeeps ==
  ASSUME IInv, AssignCopy \/ AssignEmpty
  PROVE  IInv'
<1>1. next \in Nat /\ chain \in Nat /\ first \in Nat /\ first <= next
  BY DEF IInv, TypeOK
<1>2. CASE AssignCopy
  <2>1. ChunksContiguous' /\ Ordered' /\ Covered'
    BY <1>2, CopyChain
  <2>2. next - first \in Nat /\ first' = next /\ next' = next + (next - first) /\ headOffset' = 0
        /\ chunk' \in [Chunks' -> Chunk]
    BY <1>2, CopyFacts
  <2>3. first' \in Nat /\ next' \in Nat /\ first' <= next' /\ headOffset' \in Nat
    BY <1>1, <2>2
  <2>4. frozen' = FALSE /\ chain' = chain + 1 /\ iter' = iter /\ count' = count /\ wild' = wild
    BY <1>2 DEF AssignCopy
  <2>5. chain' \in Nat /\ frozen' \in BOOLEAN /\ count' \in Nat /\ wild' \in BOOLEAN
        /\ iter' \in [Iters -> Iterator \cup {Null}]
    <3>1. chain' \in Nat
      BY <1>1, <2>4
    <3>2. count' \in Nat /\ wild' \in BOOLEAN /\ iter' \in [Iters -> Iterator \cup {Null}]
      BY <2>4 DEF IInv, TypeOK
    <3>3. QED BY <2>4, <3>1, <3>2
  <2>6. TypeOK'
    BY <2>2, <2>3, <2>5 DEF TypeOK
  <2>7. QED BY <2>1, <2>6 DEF IInv
<1>3. CASE AssignEmpty
  <2>1. ChunksContiguous' /\ Ordered' /\ Covered' /\ chunk' \in [Chunks' -> Chunk]
    BY <1>3, EmptyChain
  <2>2. /\ first' = next /\ next' = next /\ headOffset' = 0
        /\ frozen' = FALSE /\ chain' = chain + 1 /\ iter' = iter /\ count' = count /\ wild' = wild
    BY <1>3 DEF AssignEmpty
  <2>3. chain' \in Nat /\ frozen' \in BOOLEAN /\ count' \in Nat /\ wild' \in BOOLEAN
        /\ iter' \in [Iters -> Iterator \cup {Null}]
    <3>1. chain' \in Nat
      BY <1>1, <2>2
    <3>2. count' \in Nat /\ wild' \in BOOLEAN /\ iter' \in [Iters -> Iterator \cup {Null}]
      BY <2>2 DEF IInv, TypeOK
    <3>3. QED BY <2>2, <3>1, <3>2
  <2>4. first' \in Nat /\ next' \in Nat /\ first' <= next' /\ headOffset' \in Nat
    BY <1>1, <2>2
  <2>5. TypeOK'
    BY <2>1, <2>3, <2>4 DEF TypeOK
  <2>6. QED BY <2>1, <2>5 DEF IInv
<1>4. QED BY <1>2, <1>3

\* Assigning a well-typed iterator keeps the invariant.
LEMMA AssignType ==
  ASSUME IInv, NEW i \in Iters, NEW it \in Iterator, NEW followed, Assign(i, it, followed)
  PROVE  IInv'
<1>1. iter' \in [Iters -> Iterator \cup {Null}] /\ wild' \in BOOLEAN
  BY DEF Assign, Stale, IInv, TypeOK
<1>2. UNCHANGED <<first, next, chunk, headOffset, count, frozen, chain>>
  BY DEF Assign, chainVars
<1>3. frozen' \in BOOLEAN
  BY <1>2 DEF IInv, TypeOK
<1>4. QED BY <1>1, <1>2, <1>3, ChainUnchanged

\* What each call on an iterator assigns is an iterator.
LEMMA IteratorCallAssigns ==
  ASSUME IInv, IteratorCalls
  PROVE  \E i \in Iters, it \in Iterator, followed \in Nat \cup {Null} : Assign(i, it, followed)
<1>1. PICK i \in Iters :
        \/ SetBegin(i) \/ SetEnd(i)
        \/ \E o \in 0..MaxOffset : SetAt(i, o)
        \/ \E n \in Sizes : Increment(i, n) \/ Decrement(i, n)
        \/ Dereference(i)
        \/ AdvanceToNextData(i)
        \/ \E n \in Sizes : Extract(i, n)
  BY DEF IteratorCalls
<1>2. \A n \in Sizes : n \in Nat
  BY SizesAssumption
<1>3. iter[i] # Null => iter[i] \in Iterator
  BY DEF IInv, TypeOK
<1>4. CASE SetBegin(i)
  BY <1>4, MadeIterators DEF SetBegin
<1>5. CASE SetEnd(i)
  BY <1>5, MadeIterators DEF SetEnd
<1>6. ASSUME NEW o \in 0..MaxOffset, SetAt(i, o)
      PROVE  \E it \in Iterator, followed \in Nat \cup {Null} : Assign(i, it, followed)
  <2>1. o \in Nat
    BY BoundsAssumption
  <2>2. QED BY <1>6, <2>1, MadeIterators DEF SetAt
<1>7. ASSUME NEW n \in Sizes, Increment(i, n)
      PROVE  \E it \in Iterator, followed \in Nat \cup {Null} : Assign(i, it, followed)
  <2>1. iter[i] \in Iterator /\ Assign(i, Forward(iter[i], n), ForwardReads(iter[i], n))
    BY <1>3, <1>7 DEF Increment
  <2>2. Forward(iter[i], n) \in Iterator
    BY <1>2, <2>1, MovedIterators
  <2>3. ForwardReads(iter[i], n) \in Nat \cup {Null}
    <3>1. [iter[i] EXCEPT !.offset = @ + n].hint = iter[i].hint
      BY <2>1 DEF Iterator
    <3>2. iter[i].hint \in Nat \cup {Null}
      BY <2>1 DEF Iterator
    <3>3. QED BY <3>1, <3>2 DEF ForwardReads, UsableHint
  <2>4. QED BY <2>1, <2>2, <2>3
<1>8. ASSUME NEW n \in Sizes, Decrement(i, n)
      PROVE  \E it \in Iterator, followed \in Nat \cup {Null} : Assign(i, it, followed)
  <2>1. iter[i] \in Iterator /\ n <= iter[i].offset /\ Assign(i, Backward(iter[i], n), iter[i].hint)
    BY <1>3, <1>8 DEF Decrement
  <2>2. Backward(iter[i], n) \in Iterator
    BY <1>2, <2>1, MovedIterators
  <2>3. iter[i].hint \in Nat \cup {Null}
    BY <2>1 DEF Iterator
  <2>4. QED BY <2>1, <2>2, <2>3
<1>9. CASE Dereference(i)
  BY <1>3, <1>9, HintType DEF Dereference
<1>10. CASE AdvanceToNextData(i)
  <2> DEFINE hint == ForwardReads(iter[i], 1)
  <2>1. iter[i] \in Iterator
    BY <1>3, <1>10 DEF AdvanceToNextData
  <2>2. Assign(i, NextData(iter[i]), hint) \/ Assign(i, NextData(iter[i]), iter[i].hint)
    BY <1>10 DEF AdvanceToNextData
  <2>3. NextData(iter[i]) \in Iterator
    BY <2>1, NextDataType
  <2>4. iter[i].hint \in Nat \cup {Null}
    BY <2>1 DEF Iterator
  <2>5. hint \in Nat \cup {Null}
    <3>1. [iter[i] EXCEPT !.offset = @ + 1].hint = iter[i].hint
      BY <2>1 DEF Iterator
    <3>2. QED BY <2>4, <3>1 DEF ForwardReads, UsableHint
  <2> HIDE DEF hint
  <2>6. QED BY <2>2, <2>3, <2>4, <2>5
<1>11. ASSUME NEW n \in Sizes, Extract(i, n)
       PROVE  \E it \in Iterator, followed \in Nat \cup {Null} : Assign(i, it, followed)
  <2> DEFINE hint == UsableHint(iter[i])
  <2> DEFINE o == iter[i].offset + n
  <2> DEFINE h == IF hint \in Chunks /\ InRange(chunk[hint], o) THEN hint ELSE FindChunk(o, hint)
  <2>1. iter[i] \in Iterator /\ Assign(i, [iter[i] EXCEPT !.offset = o, !.hint = h], hint)
    BY <1>3, <1>11 DEF Extract
  <2>2. hint \in Nat \cup {Null}
    BY <2>1, HintType
  <2>3. o \in Nat
    BY <1>2, <2>1 DEF Iterator
  <2> HIDE DEF hint, o
  <2>4. FindChunk(o, hint) \in Nat \cup {Null}
    BY <2>2, <2>3, FindChunkNat
  <2>5. h \in Nat \cup {Null}
    BY <2>2, <2>4
  <2> HIDE DEF h
  <2>6. [iter[i] EXCEPT !.offset = o, !.hint = h] \in Iterator
    BY <2>1, <2>3, <2>5 DEF Iterator
  <2>7. QED BY <2>1, <2>2, <2>6
<1>12. QED
  BY <1>1, <1>4, <1>5, <1>6, <1>7, <1>8, <1>9, <1>10, <1>11

-----------------------------------------------------------------------------
\* The invariant holds at first.
LEMMA InitInv == Init => IInv
<1>1. SUFFICES ASSUME Init PROVE IInv
  OBVIOUS
<1>2. Chunks = {} /\ EndOffset = 0
  BY <1>1 DEF Init, Chunks, EndOffset
<1>3. TypeOK
  <2>1. chunk = [k \in {} |-> Null] /\ iter = [i \in Iters |-> Null]
    BY <1>1 DEF Init
  <2>2. chunk \in [{} -> Chunk]
    BY <2>1
  <2>3. iter \in [Iters -> Iterator \cup {Null}]
    BY <2>1
  <2>4. /\ first = 0 /\ next = 0 /\ headOffset = 0 /\ frozen = FALSE /\ chain = 0
        /\ count = 0 /\ wild = FALSE
    BY <1>1 DEF Init
  <2>5. /\ first \in Nat /\ next \in Nat /\ first <= next /\ headOffset \in Nat /\ chain \in Nat
        /\ count \in Nat
    BY <2>4
  <2>6. frozen \in BOOLEAN /\ wild \in BOOLEAN
    BY <2>4
  <2>7. QED BY <1>2, <2>2, <2>3, <2>5, <2>6 DEF TypeOK
<1>4. ChunksContiguous /\ Ordered
  BY <1>1, <1>2 DEF ChunksContiguous, Ordered
<1>5. Covered
  BY <1>1, <1>2 DEF Init, Covered
<1>6. QED BY <1>3, <1>4, <1>5 DEF IInv

\* Every step keeps the invariant.
LEMMA NextInv == ASSUME ~CutsGaps, IInv, [Next]_vars PROVE IInv'
<1>1. CASE ChainCalls
  <2>1. ASSUME NEW n \in Sizes, NEW gap \in BOOLEAN, Append(n, gap) PROVE IInv'
    BY <2>1, AppendKeeps
  <2>2. CASE (\E i \in Iters : Trim(i)) \/ TrimAll
    BY <2>2, TrimPlaces, TrimKeeps
  <2>3. CASE Freeze \/ Unfreeze
    <3>1. /\ UNCHANGED <<first, next, chunk, headOffset, count>>
          /\ frozen' \in BOOLEAN /\ chain' = chain /\ iter' = iter /\ wild' = wild
      BY <2>3 DEF Freeze, Unfreeze
    <3>2. iter' \in [Iters -> Iterator \cup {Null}] /\ wild' \in BOOLEAN
      BY <3>1 DEF IInv, TypeOK
    <3>3. QED BY <3>1, <3>2, ChainUnchanged
  <2>4. CASE AssignCopy \/ AssignEmpty
    BY <2>4, AssignKeeps
  <2>5. QED BY <1>1, <2>1, <2>2, <2>3, <2>4 DEF ChainCalls
<1>2. CASE IteratorCalls
  BY <1>2, IteratorCallAssigns, AssignType
<1>3. CASE UNCHANGED vars
  <2>1. /\ UNCHANGED <<first, next, chunk, headOffset, count>>
        /\ frozen' \in BOOLEAN /\ chain' = chain
        /\ iter' \in [Iters -> Iterator \cup {Null}] /\ wild' \in BOOLEAN
    BY <1>3 DEF vars, IInv, TypeOK
  <2>2. QED BY <2>1, ChainUnchanged
<1>4. QED BY <1>1, <1>2, <1>3 DEF Next

\* The chain of a host that does not trim into gaps is always well formed.
LEMMA Invariant == ASSUME ~CutsGaps PROVE Spec => []IInv
<1>1. IInv /\ [Next]_vars => IInv'
  BY NextInv
<1>2. QED BY <1>1, InitInv, PTL DEF Spec

\* Whatever is appended, trimmed, copied and assigned in whatever order: the
\* chunks follow each other without holes and overlaps, and every iterator
\* keeps its type (setNext(), trim(), Chain::deepCopy()).
THEOREM ChainStaysWhole == ASSUME ~CutsGaps PROVE Spec => []WellFormed
<1>1. IInv => WellFormed
  BY DEF IInv, WellFormed
<1>2. QED BY <1>1, Invariant, PTL

-----------------------------------------------------------------------------
\* What is read from an offset does not depend on the hint.
LEMMA DerefFinds ==
  ASSUME IInv, NEW it \in Iterator, Readable(it), NEW k \in Chunks, InRange(chunk[k], it.offset)
  PROVE  Deref(it) = ByteIn(k, it.offset)
<1>1. it.offset \in Int /\ UsableHint(it) \in Nat \cup {Null}
  BY HintType DEF Iterator
<1>2. FindChunk(it.offset, UsableHint(it)) = k
  BY <1>1, FindChunkFinds
<1>3. k # Null
  BY ChainFacts, NullAssumption
<1>4. QED BY <1>2, <1>3 DEF Deref

\* The chunk that an iterator in the valid range is in.
LEMMA Home ==
  ASSUME IInv, NEW o \in Int, ChainInRange(o)
  PROVE  \E k \in Chunks : InRange(chunk[k], o)
<1>1. o \in headOffset .. EndOffset-1
  BY ChainFacts DEF ChainInRange
<1>2. QED BY <1>1 DEF IInv, Covered

\* The iterators that are held are iterators.
LEMMA HeldType == ASSUME IInv, NEW it \in Held PROVE it \in Iterator
BY DEF IInv, TypeOK, Held

\* Iterators read the bytes at their offsets.
LEMMA ReadingIsRight == ASSUME IInv PROVE IteratorsRead
<1>1. SUFFICES ASSUME NEW it \in Held, Readable(it)
               PROVE  Deref(it) = Content[it.offset]
  BY DEF IteratorsRead
<1>2. it \in Iterator /\ it.offset \in Int
  BY HeldType DEF Iterator
<1>3. PICK k \in Chunks : InRange(chunk[k], it.offset)
  BY <1>1, <1>2, Home DEF Readable
<1>4. Deref(it) = ByteIn(k, it.offset)
  BY <1>1, <1>2, <1>3, DerefFinds
<1>5. Content[it.offset] = ByteIn(k, it.offset)
  BY <1>2, <1>3, ContentFacts
<1>6. QED BY <1>4, <1>5

\* Where a view of the data ends.
ViewEnd(v) ==
  IF v.end = Null THEN EndOffset ELSE Max2(Min2(v.end.offset, EndOffset), v.begin.offset)

\* A view into the data, its beginning in chunk k.
ViewAt(v, k) ==
  /\ v.begin \in Iterator /\ v.end \in Iterator \cup {Null}
  /\ k \in Chunks /\ InRange(chunk[k], v.begin.offset)

\* How many bytes a view has.
LEMMA SizeOfView ==
  ASSUME IInv, NEW v, v.begin \in Iterator, v.end \in Iterator \cup {Null},
         headOffset <= v.begin.offset
  PROVE  /\ ChainInRange(v.begin.offset) => v.begin.offset + ViewSize(v) = ViewEnd(v)
         /\ ~ChainInRange(v.begin.offset) => ViewSize(v) = 0
         /\ v.end # Null /\ v.end.offset = v.begin.offset => ViewSize(v) = 0
<1> DEFINE b == v.begin.offset
<1>1. b \in Nat /\ (v.end # Null => v.end.offset \in Nat)
  BY DEF Iterator
<1>2. EndOffset \in Nat /\ headOffset \in Nat /\ (first = next => EndOffset = headOffset)
  BY ChainFacts
<1>3. CASE ChainInRange(b)
  <2>1. first # next /\ ~(b > EndOffset) /\ b < EndOffset
    BY <1>1, <1>2, <1>3 DEF ChainInRange
  <2>2. ViewSize(v) = IF v.end = Null \/ v.end.offset >= EndOffset THEN EndOffset - b
                      ELSE Max2(v.end.offset - b, 0)
    BY <2>1 DEF ViewSize
  <2>3. CASE v.end = Null
    BY <1>1, <1>2, <1>3, <2>2, <2>3 DEF ViewEnd
  <2>4. CASE v.end # Null
    BY <1>1, <1>2, <1>3, <2>1, <2>2, <2>4 DEF ViewEnd, Max2, Min2
  <2>5. QED BY <2>3, <2>4
<1>4. CASE ~ChainInRange(b)
  <2>1. b >= EndOffset
    BY <1>1, <1>2, <1>4 DEF ChainInRange
  <2>2. QED BY <1>1, <1>2, <1>4, <2>1 DEF ViewSize, Max2
<1>5. QED BY <1>1, <1>2, <1>3, <1>4 DEF ViewEnd, Max2, Min2

\* A block holds what its chunk has of the view.
LEMMA BlockFacts ==
  ASSUME IInv, NEW v, NEW k, ViewAt(v, k), NEW j \in Chunks, k <= j,
         NEW from \in Nat, from = (IF j = k THEN v.begin.offset ELSE chunk[j].offset), NEW o \in Int
  PROVE  /\ o \in BlockIn(v, j, from) =>
              InRange(chunk[j], o) /\ v.begin.offset <= o /\ o < ViewEnd(v)
         /\ InRange(chunk[j], o) /\ v.begin.offset <= o /\ o < ViewEnd(v) => o \in BlockIn(v, j, from)
<1> DEFINE b == v.begin.offset
<1> DEFINE limit == IF v.end # Null /\ IsLastBlock(v, j)
                      THEN Max2(Min2(v.end.offset, EndOffset), from) ELSE ChunkEnd(chunk[j])
<1>1. b \in Nat /\ (v.end # Null => v.end.offset \in Nat)
  BY DEF ViewAt, Iterator
<1>2. /\ k \in Nat /\ j \in Nat /\ next \in Nat /\ EndOffset \in Nat
      /\ chunk[j].offset \in Nat /\ ChunkEnd(chunk[j]) \in Nat /\ ChunkEnd(chunk[j]) <= EndOffset
      /\ chunk[j].offset < ChunkEnd(chunk[j])
      /\ chunk[k].offset \in Nat /\ ChunkEnd(chunk[k]) \in Nat
      /\ j = next-1 => ChunkEnd(chunk[j]) = EndOffset
  BY ChainFacts DEF ViewAt
<1>3. InRange(chunk[k], b) /\ k \in Chunks
  BY DEF ViewAt
<1>4. b <= from /\ chunk[j].offset <= from /\ from < ChunkEnd(chunk[j])
  <2>1. CASE j = k
    BY <1>1, <1>2, <1>3, <2>1 DEF InRange
  <2>2. CASE j # k
    <3>1. ChunkEnd(chunk[k]) <= chunk[j].offset
      BY <1>2, <1>3, <2>2 DEF IInv, Ordered
    <3>2. QED BY <1>1, <1>2, <1>3, <2>2, <3>1 DEF InRange
  <2>3. QED BY <2>1, <2>2
<1>5. BlockIn(v, j, from) = from .. limit-1
  BY DEF BlockIn
<1>6. limit \in Nat
  BY <1>1, <1>2 DEF Max2, Min2
<1>7. o \in BlockIn(v, j, from) <=> from <= o /\ o < limit
  BY <1>5, <1>6
<1>8. CASE v.end = Null
  <2>1. limit = ChunkEnd(chunk[j]) /\ ViewEnd(v) = EndOffset
    BY <1>8 DEF ViewEnd
  <2>2. InRange(chunk[j], o) /\ b <= o => from <= o
    BY <1>1, <1>2 DEF InRange
  <2> HIDE DEF limit
  <2>3. QED BY <1>1, <1>2, <1>4, <1>7, <2>1, <2>2 DEF InRange
<1>9. CASE v.end # Null
  <2> DEFINE e == v.end.offset
  <2>1. e \in Nat /\ ViewEnd(v) = Max2(Min2(e, EndOffset), b)
    BY <1>1, <1>9 DEF ViewEnd
  <2>2. InRange(chunk[j], o) /\ b <= o => from <= o
    BY <1>1, <1>2 DEF InRange
  <2>3. CASE IsLastBlock(v, j)
    <3>1. limit = Max2(Min2(e, EndOffset), from)
      BY <1>9, <2>3
    <3>2. e <= ChunkEnd(chunk[j]) \/ EndOffset = ChunkEnd(chunk[j])
      BY <1>2, <1>9, <2>3 DEF IsLastBlock
    <3> HIDE DEF limit, e
    <3>3. from <= o => (o < limit <=> o < Min2(e, EndOffset))
      BY <1>2, <2>1, <3>1 DEF Max2, Min2
    <3>4. b <= o => (o < ViewEnd(v) <=> o < Min2(e, EndOffset))
      BY <1>1, <1>2, <2>1 DEF Max2, Min2
    <3>5. o < Min2(e, EndOffset) => o < ChunkEnd(chunk[j])
      BY <1>2, <2>1, <3>2 DEF Min2
    <3>6. QED BY <1>1, <1>2, <1>4, <1>7, <2>2, <3>3, <3>4, <3>5 DEF InRange
  <2>4. CASE ~IsLastBlock(v, j)
    <3>1. limit = ChunkEnd(chunk[j])
      BY <2>4
    <3>2. ~(e <= ChunkEnd(chunk[j]))
      BY <1>9, <2>4 DEF IsLastBlock
    <3> HIDE DEF limit, e
    <3>3. o < ChunkEnd(chunk[j]) => o < Min2(e, EndOffset)
      BY <1>2, <2>1, <3>2 DEF Min2
    <3>4. b <= o => (o < ViewEnd(v) <=> o < Min2(e, EndOffset))
      BY <1>1, <1>2, <2>1 DEF Max2, Min2
    <3>5. QED BY <1>1, <1>2, <1>4, <1>7, <2>2, <3>1, <3>3, <3>4 DEF InRange
  <2>5. QED BY <2>3, <2>4
<1>10. QED BY <1>8, <1>9

\* The chunks that a view beginning in chunk k visits, and where it begins in each.
VisitedFrom(v, k) == {j \in k .. next-1 : \A i \in k .. j-1 : ~IsLastBlock(v, i)}
StartIn(v, k, j) == IF j = k THEN v.begin.offset ELSE chunk[j].offset

\* What is visited of a view that begins in chunk k are the chunks up to the first
\* one that is its last.
LEMMA VisitsOf ==
  ASSUME IInv, NEW v, NEW k, ViewAt(v, k), ~(v.end # Null /\ v.end.offset = v.begin.offset)
  PROVE  Visits(v) = [j \in VisitedFrom(v, k) |-> BlockIn(v, j, StartIn(v, k, j))]
<1>1. v.begin.offset \in Int /\ UsableHint(v.begin) \in Nat \cup {Null}
      /\ k \in Chunks /\ InRange(chunk[k], v.begin.offset)
  BY HintType DEF ViewAt, Iterator
<1>2. FindChunk(v.begin.offset, UsableHint(v.begin)) = k
  BY <1>1, FindChunkFinds
<1>3. ChainInRange(v.begin.offset)
  BY <1>1, ChainFacts DEF InRange, ChainInRange
<1>4. QED BY <1>2, <1>3 DEF Visits, VisitedFrom, StartIn

\* A chunk with a byte of the view is visited.
LEMMA Visited ==
  ASSUME IInv, NEW v, NEW k, ViewAt(v, k), NEW o \in Int, v.begin.offset <= o, o < ViewEnd(v),
         NEW j \in Chunks, InRange(chunk[j], o)
  PROVE  j \in k .. next-1 /\ \A i \in k .. j-1 : ~IsLastBlock(v, i)
<1>1. /\ k \in Nat /\ j \in Nat /\ next \in Nat /\ first \in Nat /\ first <= k /\ EndOffset \in Nat
      /\ j <= next-1 /\ chunk[k].offset \in Nat /\ ChunkEnd(chunk[j]) \in Nat
      /\ chunk[j].offset \in Nat
  BY ChainFacts DEF ViewAt
<1>2. v.begin.offset \in Nat /\ (v.end # Null => v.end.offset \in Nat)
      /\ chunk[k].offset <= v.begin.offset /\ k \in Chunks
  BY DEF ViewAt, Iterator, InRange
<1>3. k <= j
  <2>1. j < k => ChunkEnd(chunk[j]) <= chunk[k].offset
    BY <1>2 DEF IInv, Ordered
  <2>2. QED BY <1>1, <1>2, <2>1 DEF InRange
<1>4. ASSUME NEW i \in k .. j-1 PROVE ~IsLastBlock(v, i)
  <2>1. i \in Chunks /\ i < j /\ i # next-1
    BY <1>1 DEF Chunks
  <2>2. ChunkEnd(chunk[i]) <= chunk[j].offset /\ ChunkEnd(chunk[i]) \in Nat
    BY <2>1, ChainFacts DEF IInv, Ordered
  <2>3. chunk[j].offset <= o
    BY DEF InRange
  <2>4. v.end # Null => o < v.end.offset
    BY <1>1, <1>2 DEF ViewEnd, Max2, Min2
  <2>5. QED BY <1>1, <1>2, <2>1, <2>2, <2>3, <2>4 DEF IsLastBlock
<1>5. QED BY <1>1, <1>3, <1>4

\* Without gaps, the blocks of a view would be the bytes between its ends.
LEMMA VisitsCover ==
  ASSUME IInv, NEW v, v.begin \in Iterator, v.end \in Iterator \cup {Null},
         headOffset <= v.begin.offset
  PROVE  LET b == Visits(v) IN
         /\ UNION {b[k] : k \in DOMAIN b} = v.begin.offset .. v.begin.offset + ViewSize(v) - 1
         /\ \A k \in DOMAIN b : \A o \in b[k] : InRange(chunk[k], o)
<1> DEFINE b == Visits(v)
<1> DEFINE from == v.begin.offset
<1>1. from \in Nat
  BY DEF Iterator
<1>2. CASE ~ChainInRange(from) \/ (v.end # Null /\ v.end.offset = from)
  <2>1. b = [j \in {} |-> {}]
    BY <1>2 DEF Visits
  <2>2. ViewSize(v) = 0
    BY <1>2, SizeOfView
  <2>3. from .. from + ViewSize(v) - 1 = {}
    BY <1>1, <2>2
  <2> HIDE DEF b, from
  <2>4. DOMAIN b = {}
    BY <2>1
  <2>5. UNION {b[k] : k \in DOMAIN b} = {}
    BY <2>4
  <2>6. QED BY <2>3, <2>4, <2>5 DEF b, from
<1>3. CASE ChainInRange(from) /\ ~(v.end # Null /\ v.end.offset = from)
  <2>1. PICK k \in Chunks : InRange(chunk[k], from)
    BY <1>1, <1>3, Home
  <2>2. ViewAt(v, k)
    BY <2>1 DEF ViewAt
  <2> DEFINE visited == VisitedFrom(v, k)
  <2> DEFINE start(j) == StartIn(v, k, j)
  <2>3. b = [j \in visited |-> BlockIn(v, j, start(j))]
    BY <1>3, <2>2, VisitsOf
  <2>4. from + ViewSize(v) = ViewEnd(v)
    BY <1>3, SizeOfView
  <2>5. ViewEnd(v) \in Int
    BY <1>1, ChainFacts DEF ViewEnd, Max2, Min2, Iterator
  <2>6. ASSUME NEW j \in visited PROVE j \in Chunks /\ k <= j /\ start(j) \in Nat
    <3>1. k \in Nat /\ next \in Nat /\ first \in Nat /\ first <= k
      BY ChainFacts
    <3>2. j \in Chunks /\ k <= j
      BY <3>1 DEF Chunks, VisitedFrom
    <3>3. QED BY <1>1, <3>2, ChainFacts DEF StartIn
  <2>7. ASSUME NEW j \in visited, NEW o \in BlockIn(v, j, start(j))
        PROVE  InRange(chunk[j], o) /\ o \in from .. ViewEnd(v) - 1
    <3>1. j \in Chunks /\ k <= j /\ start(j) \in Nat
      BY <2>6
    <3>2. o \in Int
      BY <1>1, <3>1, ChainFacts DEF BlockIn, Max2, Min2
    <3>3. InRange(chunk[j], o) /\ from <= o /\ o < ViewEnd(v)
      BY <2>2, <3>1, <3>2, BlockFacts DEF StartIn
    <3>4. QED BY <1>1, <2>5, <3>2, <3>3
  <2>8. ASSUME NEW o \in from .. ViewEnd(v) - 1
        PROVE  \E j \in visited : o \in BlockIn(v, j, start(j))
    <3>1. o \in Int /\ from <= o /\ o < ViewEnd(v)
      BY <1>1, <2>5
    <3>2. ChainInRange(o)
      BY <1>1, <2>5, <3>1, ChainFacts, <1>3 DEF ChainInRange, ViewEnd, Max2, Min2, Iterator
    <3>3. PICK j \in Chunks : InRange(chunk[j], o)
      BY <3>1, <3>2, Home
    <3>4. j \in visited
      BY <2>2, <3>1, <3>3, Visited DEF VisitedFrom
    <3>5. k <= j /\ start(j) \in Nat
      BY <2>6, <3>4
    <3>6. o \in BlockIn(v, j, start(j))
      BY <2>2, <3>1, <3>3, <3>5, BlockFacts DEF StartIn
    <3>7. QED BY <3>4, <3>6
  <2> HIDE DEF b, visited, start, from
  <2>9. DOMAIN b = visited /\ \A j \in visited : b[j] = BlockIn(v, j, start(j))
    BY <2>3
  <2>10. UNION {b[j] : j \in DOMAIN b} = from .. ViewEnd(v) - 1
    <3>1. ASSUME NEW o \in UNION {b[j] : j \in DOMAIN b} PROVE o \in from .. ViewEnd(v) - 1
      BY <2>7, <2>9
    <3>2. ASSUME NEW o \in from .. ViewEnd(v) - 1 PROVE o \in UNION {b[j] : j \in DOMAIN b}
      BY <2>8, <2>9
    <3>3. QED BY <3>1, <3>2
  <2>11. \A j \in DOMAIN b : \A o \in b[j] : InRange(chunk[j], o)
    BY <2>7, <2>9
  <2>12. from .. from + ViewSize(v) - 1 = from .. ViewEnd(v) - 1
    <3>1. from \in Int /\ ViewSize(v) \in Int
      BY <1>1, ChainFacts DEF ViewSize, Max2, Iterator, from
    <3>2. from + (ViewSize(v) - 1) = ViewEnd(v) - 1
      BY <2>4, <2>5, <3>1
    <3>3. QED BY <3>2
  <2>13. UNION {b[j] : j \in DOMAIN b} = from .. from + ViewSize(v) - 1
    BY <2>10, <2>12
  <2>14. QED BY <2>11, <2>13 DEF b, from
<1>4. QED BY <1>2, <1>3

\* A gap that is met in a view with a byte is one of the view's.
LEMMA GapsMetAreMissing ==
  ASSUME IInv, NEW v, v.begin \in Iterator, v.end \in Iterator \cup {Null}, headOffset <= v.begin.offset,
         v.begin.offset .. v.begin.offset + ViewSize(v) - 1 # {}, NEW g \in GapsMet(v)
  PROVE  \E m \in v.begin.offset .. v.begin.offset + ViewSize(v) - 1 : InGap(m) /\ m < ChunkEnd(chunk[g])
<1> DEFINE from == v.begin.offset
           upto == from + ViewSize(v) - 1
<1>1. g \in DOMAIN Visits(v) /\ chunk[g].gap
  BY DEF GapsMet
<1>2. from \in Nat /\ (v.end # Null => v.end.offset \in Nat)
  BY DEF Iterator
<1>3. ChainInRange(from) /\ ~(v.end # Null /\ v.end.offset = from)
  <2>1. ~(ViewSize(v) = 0)
    BY <1>2
  <2>2. QED BY <2>1, SizeOfView
<1>4. PICK k \in Chunks : InRange(chunk[k], from)
  BY <1>2, <1>3, Home
<1>5. ViewAt(v, k)
  BY <1>4 DEF ViewAt
<1>6. g \in VisitedFrom(v, k)
  <2>1. Visits(v) = [j \in VisitedFrom(v, k) |-> BlockIn(v, j, StartIn(v, k, j))]
    BY <1>3, <1>5, VisitsOf
  <2>2. QED BY <1>1, <2>1
<1>7. /\ g \in k .. next-1 /\ \A i \in k .. g-1 : ~IsLastBlock(v, i)
      /\ k \in Nat /\ next \in Nat /\ first \in Nat /\ first <= k /\ EndOffset \in Nat
  BY <1>4, <1>6, ChainFacts DEF VisitedFrom
<1>8. g \in Chunks
  BY <1>7 DEF Chunks
<1>9. chunk[g].offset \in Nat /\ ChunkEnd(chunk[g]) \in Nat /\ chunk[g].offset < ChunkEnd(chunk[g])
      /\ ChunkEnd(chunk[g]) <= EndOffset
  BY <1>8, ChainFacts
<1>10. ViewSize(v) \in Int /\ upto + 1 = ViewEnd(v) /\ from <= upto /\ ViewEnd(v) \in Int
  <2>1. from + ViewSize(v) = ViewEnd(v)
    BY <1>3, SizeOfView
  <2>2. ViewSize(v) \in Int /\ ViewEnd(v) \in Int
    BY <1>2, <1>7 DEF ViewSize, ViewEnd, Max2, Min2
  <2>3. QED BY <1>2, <2>1, <2>2
<1>11. CASE g = k
  <2>1. from \in from .. upto /\ InGap(from) /\ from < ChunkEnd(chunk[g])
    BY <1>1, <1>2, <1>4, <1>8, <1>10, <1>11 DEF InGap, InRange
  <2>2. QED BY <2>1
<1>12. CASE g # k
  <2> DEFINE m == chunk[g].offset
  <2>1. g-1 \in Chunks /\ g-1 \in k .. g-1 /\ g-1 \in Nat /\ g # first /\ k <= g-1
    BY <1>7, <1>12 DEF Chunks
  <2>2. m = ChunkEnd(chunk[g-1])
    BY <1>8, <2>1 DEF IInv, ChunksContiguous
  <2>3. v.end # Null => v.end.offset > m
    BY <1>2, <1>7, <1>9, <2>1, <2>2 DEF IsLastBlock
  <2>4. from <= m
    <3>1. ChunkEnd(chunk[k]) <= ChunkEnd(chunk[g-1])
      <4>1. k = g-1 \/ k < g-1
        BY <1>7, <2>1
      <4>2. k < g-1 => ChunkEnd(chunk[k]) <= chunk[g-1].offset
        BY <1>4, <2>1 DEF IInv, Ordered
      <4>3. QED BY <1>4, <2>1, <4>1, <4>2, ChainFacts
    <3>2. QED BY <1>2, <1>4, <1>9, <2>1, <2>2, <3>1, ChainFacts DEF InRange
  <2>5. m < ViewEnd(v)
    BY <1>2, <1>7, <1>9, <2>3, <2>4 DEF ViewEnd, Max2, Min2
  <2>6. m \in from .. upto /\ InGap(m) /\ m < ChunkEnd(chunk[g])
    BY <1>1, <1>2, <1>8, <1>9, <1>10, <2>4, <2>5 DEF InGap, InRange
  <2>7. QED BY <2>6
<1>13. QED BY <1>11, <1>12

\* The blocks of a view are the bytes between its ends, up to the first gap.
LEMMA BlocksCover ==
  ASSUME IInv, NEW v, v.begin \in Iterator, v.end \in Iterator \cup {Null},
         headOffset <= v.begin.offset
  PROVE  LET b == Blocks(v)
             counted == v.begin.offset .. v.begin.offset + ViewSize(v) - 1
             missing == {o \in counted : InGap(o)}
         IN /\ UNION {b[k] : k \in DOMAIN b} = {o \in counted : \A m \in missing : o < m}
            /\ \A k \in DOMAIN b : ~chunk[k].gap /\ \A o \in b[k] : InRange(chunk[k], o)
            /\ counted # {} => (ThrowsMissingData(v) <=> missing # {})
<1> DEFINE w == Visits(v)
           b == Blocks(v)
           counted == v.begin.offset .. v.begin.offset + ViewSize(v) - 1
           missing == {o \in counted : InGap(o)}
           met == GapsMet(v)
<1>1. UNION {w[k] : k \in DOMAIN w} = counted /\ \A k \in DOMAIN w : \A o \in w[k] : InRange(chunk[k], o)
  BY VisitsCover
<1>2. DOMAIN b = {k \in DOMAIN w : \A g \in met : k < g} /\ \A k \in DOMAIN b : b[k] = w[k]
  BY DEF Blocks
<1>3. met \subseteq DOMAIN w /\ \A g \in DOMAIN w : g \in met <=> chunk[g].gap
  BY DEF GapsMet
<1>4. v.begin.offset \in Nat /\ \A o \in counted : o \in Int
  BY DEF Iterator
<1>5. counted # {} => \A g \in met : \E m \in missing : m < ChunkEnd(chunk[g])
  BY GapsMetAreMissing
<1>6. DOMAIN w \subseteq Chunks
  <2>1. CASE ~ChainInRange(v.begin.offset) \/ (v.end # Null /\ v.end.offset = v.begin.offset)
    <3>1. w = [j \in {} |-> {}]
      BY <2>1 DEF Visits
    <3>2. QED BY <3>1
  <2>2. CASE ChainInRange(v.begin.offset) /\ ~(v.end # Null /\ v.end.offset = v.begin.offset)
    <3>1. PICK k \in Chunks : InRange(chunk[k], v.begin.offset)
      BY <1>4, <2>2, Home
    <3>2. DOMAIN w = VisitedFrom(v, k)
      BY <2>2, <3>1, VisitsOf DEF ViewAt
    <3>3. QED BY <3>1, <3>2, ChainFacts DEF VisitedFrom, Chunks
  <2>3. QED BY <2>1, <2>2
<1> HIDE DEF w, b, met, counted
<1>7. ASSUME NEW m \in missing PROVE \E g \in met : InRange(chunk[g], m)
  <2>1. PICK g \in DOMAIN w : m \in w[g]
    BY <1>1
  <2>2. InRange(chunk[g], m) /\ g \in Chunks
    BY <1>1, <1>6, <2>1
  <2>3. PICK k \in Chunks : chunk[k].gap /\ InRange(chunk[k], m)
    BY DEF InGap
  <2>4. k = g
    BY <1>4, <2>2, <2>3, OneHome
  <2>5. QED BY <1>3, <2>2, <2>3, <2>4
<1>8. ASSUME NEW k \in DOMAIN b, NEW o \in b[k]
      PROVE  o \in counted /\ (\A m \in missing : o < m) /\ InRange(chunk[k], o)
  <2>1. k \in DOMAIN w /\ o \in w[k] /\ (\A g \in met : k < g) /\ k \in Chunks
    BY <1>2, <1>6
  <2>2. o \in counted /\ InRange(chunk[k], o)
    BY <1>1, <2>1
  <2>3. ASSUME NEW m \in missing PROVE o < m
    <3>1. PICK g \in met : InRange(chunk[g], m)
      BY <1>7
    <3>2. g \in Chunks /\ k < g
      BY <1>3, <1>6, <2>1
    <3>3. ChunkEnd(chunk[k]) <= chunk[g].offset /\ ChunkEnd(chunk[k]) \in Nat /\ chunk[g].offset \in Nat
      BY <2>1, <3>2, ChainFacts DEF IInv, Ordered
    <3>4. o \in Int /\ m \in Int
      BY <1>4, <2>2
    <3>5. QED BY <2>2, <3>1, <3>3, <3>4 DEF InRange
  <2>4. QED BY <2>2, <2>3
<1>9. ASSUME NEW o \in counted, \A m \in missing : o < m
      PROVE  \E k \in DOMAIN b : o \in b[k]
  <2>1. PICK k \in DOMAIN w : o \in w[k]
    BY <1>1
  <2>2. InRange(chunk[k], o) /\ k \in Chunks /\ o \in Int /\ k \in Nat
    BY <1>1, <1>4, <1>6, <2>1, ChainFacts
  <2>3. ASSUME NEW g \in met PROVE k < g
    <3>1. g \in Chunks /\ chunk[g].gap /\ g \in Nat
      BY <1>3, <1>6, ChainFacts
    <3>2. PICK m \in missing : m < ChunkEnd(chunk[g])
      BY <1>5
    <3>3. o < m /\ m \in Int
      BY <1>4, <1>9
    <3>4. ~(g = k)
      <4>1. SUFFICES ASSUME g = k PROVE FALSE
        OBVIOUS
      <4>2. o \in missing
        BY <2>2, <3>1, <4>1 DEF InGap
      <4>3. QED BY <1>9, <2>2, <4>2
    <3>5. ~(g < k)
      <4>1. g < k => ChunkEnd(chunk[g]) <= chunk[k].offset
        BY <2>2, <3>1 DEF IInv, Ordered
      <4>2. ChunkEnd(chunk[g]) \in Nat /\ chunk[k].offset \in Nat
        BY <2>2, <3>1, ChainFacts
      <4>3. QED BY <2>2, <3>2, <3>3, <4>1, <4>2 DEF InRange
    <3>6. QED BY <2>2, <3>1, <3>4, <3>5
  <2>4. QED BY <1>2, <2>1, <2>3
<1>10. UNION {b[k] : k \in DOMAIN b} = {o \in counted : \A m \in missing : o < m}
  <2> HIDE DEF missing
  <2>1. \A o : o \in UNION {b[k] : k \in DOMAIN b} <=> \E k \in DOMAIN b : o \in b[k]
    OBVIOUS
  <2>2. QED BY <1>8, <1>9, <2>1
<1>11. \A k \in DOMAIN b : ~chunk[k].gap /\ \A o \in b[k] : InRange(chunk[k], o)
  <2>1. ASSUME NEW k \in DOMAIN b PROVE ~chunk[k].gap
    <3>1. k \in DOMAIN w /\ (\A g \in met : k < g) /\ k \in Nat
      BY <1>2, <1>6, ChainFacts
    <3>2. ~(k < k)
      BY <3>1
    <3>3. QED BY <1>3, <3>1, <3>2
  <2>2. QED BY <1>8, <2>1
<1>12. counted # {} => (ThrowsMissingData(v) <=> missing # {})
  <2>1. ThrowsMissingData(v) <=> met # {}
    BY DEF ThrowsMissingData, met
  <2>2. QED BY <1>5, <1>7, <2>1
<1>13. QED BY <1>10, <1>11, <1>12 DEF b, counted

\* Views hold the bytes between their ends.
LEMMA ViewingIsRight == ASSUME IInv PROVE ViewIsWhole
<1>1. SUFFICES
        ASSUME NEW begin \in Held, NEW end \in Held \cup {Null}, begin.offset >= headOffset
        PROVE  LET v == [begin |-> begin, end |-> end]
                   b == Blocks(v)
                   counted == begin.offset .. begin.offset + ViewSize(v) - 1
                   missing == {o \in counted : InGap(o)}
               IN  /\ UNION {b[k] : k \in DOMAIN b} = {o \in counted : \A m \in missing : o < m}
                   /\ \A k \in DOMAIN b : ~chunk[k].gap /\ \A o \in b[k] : InRange(chunk[k], o)
                   /\ counted # {} => (ThrowsMissingData(v) <=> missing # {})
  BY DEF ViewIsWhole
<1> DEFINE v == [begin |-> begin, end |-> end]
<1>2. v.begin = begin /\ v.end = end
  OBVIOUS
<1>3. begin \in Iterator /\ end \in Iterator \cup {Null}
  BY HeldType
<1>4. headOffset <= begin.offset
  BY <1>1, <1>3, ChainFacts DEF Iterator
<1> HIDE DEF v
<1> DEFINE b == Blocks(v)
           counted == begin.offset .. begin.offset + ViewSize(v) - 1
           missing == {o \in counted : InGap(o)}
<1>5. /\ UNION {b[k] : k \in DOMAIN b} = {o \in counted : \A m \in missing : o < m}
      /\ \A k \in DOMAIN b : ~chunk[k].gap /\ \A o \in b[k] : InRange(chunk[k], o)
      /\ counted # {} => (ThrowsMissingData(v) <=> missing # {})
  BY <1>2, <1>3, <1>4, BlocksCover
<1>6. QED BY <1>5 DEF v

\* Whatever was appended, trimmed and assigned since an iterator got its hint:
\* what it shows is what the stream holds at its offset, and the blocks of a view
\* are exactly the bytes that its size counts, up to the first gap in it (findChunk(), firstBlock()).
THEOREM ReadsStayRight == ASSUME ~CutsGaps PROVE Spec => []ReadsAreRight
<1>1. IInv => ReadsAreRight
  BY ReadingIsRight, ViewingIsRight DEF ReadsAreRight
<1>2. QED BY <1>1, Invariant, PTL

-----------------------------------------------------------------------------
\* Laws of a state that the steps below use in the state that they lead to.
ContentLaw ==
  \A k \in Chunks : \A o \in Int :
    InRange(chunk[k], o) => o \in headOffset .. EndOffset-1 /\ Content[o] = ByteIn(k, o)
ContentUnique ==
  \A F : /\ F = [o \in headOffset .. EndOffset-1 |-> F[o]]
         /\ \A k \in Chunks : \A o \in Int : InRange(chunk[k], o) => F[o] = ByteIn(k, o)
         => Content = F
DerefLaw ==
  \A it \in Iterator, k \in Chunks :
    Readable(it) /\ InRange(chunk[k], it.offset) => Deref(it) = ByteIn(k, it.offset)
Laws == ContentLaw /\ ContentUnique /\ DerefLaw /\ EndOffset \in Int

\* What the abstract stream needs holds in every state of the invariant.
LEMMA LawsHold == IInv => Laws
<1>1. SUFFICES ASSUME IInv PROVE Laws
  OBVIOUS
<1>2. ContentLaw
  BY <1>1, ContentFacts DEF ContentLaw
<1>3. DerefLaw
  BY <1>1, DerefFinds DEF DerefLaw
<1>4. ASSUME NEW F, F = [o \in headOffset .. EndOffset-1 |-> F[o]],
             \A k \in Chunks : \A o \in Int : InRange(chunk[k], o) => F[o] = ByteIn(k, o)
      PROVE  Content = F
  <2>1. ASSUME NEW o \in headOffset .. EndOffset-1 PROVE Content[o] = F[o]
    <3>1. o \in Int
      BY <1>1, ChainFacts
    <3>2. PICK k \in Chunks : InRange(chunk[k], o)
      BY <1>1 DEF IInv, Covered
    <3>3. QED BY <1>2, <1>4, <3>1, <3>2 DEF ContentLaw
  <2>2. Content = [o \in headOffset .. EndOffset-1 |-> Content[o]]
    BY DEF Content
  <2>3. QED BY <1>4, <2>1, <2>2
<1>5. EndOffset \in Int
  BY <1>1, ChainFacts
<1>6. QED BY <1>2, <1>3, <1>4, <1>5 DEF Laws, ContentUnique

\* And in the state after a step.
LEMMA LawsAfter == (IInv => Laws)'
BY LawsHold, PTL

\* Appending data, or a gap.
LEMMA AppendImplements ==
  ASSUME IInv, IInv', NEW n \in Sizes, NEW gap \in BOOLEAN, Append(n, gap)
  PROVE  IF gap THEN Bytes!AppendGap(n) ELSE Bytes!AppendData(n)
<1> DEFINE F == [o \in headOffset .. EndOffset+(n-1) |->
                   IF o < EndOffset THEN Content[o]
                   ELSE IF gap THEN Missing ELSE count + (o - EndOffset)]
<1>1. /\ headOffset' = headOffset /\ EndOffset' = EndOffset + n /\ n \in Nat \ {0}
      /\ Chunks' = Chunks \cup {next}
      /\ \A k \in Chunks : chunk'[k] = chunk[k]
      /\ chunk'[next] = [offset |-> EndOffset, size |-> n, gap |-> gap, serial |-> count]
      /\ chunk'[next].offset = EndOffset /\ ChunkEnd(chunk'[next]) = EndOffset + n
  BY AppendFacts
<1>2. /\ EndOffset \in Nat /\ headOffset \in Nat /\ headOffset <= EndOffset
      /\ \A k \in Chunks : ChunkEnd(chunk[k]) \in Nat /\ ChunkEnd(chunk[k]) <= EndOffset
                           /\ headOffset <= chunk[k].offset /\ chunk[k].offset \in Nat
  BY ChainFacts
<1>3. Content' = F
  <2>1. headOffset' .. EndOffset'-1 = headOffset .. EndOffset+(n-1)
    BY <1>1, <1>2
  <2>2. ASSUME NEW k \in Chunks', NEW o \in Int, InRange(chunk'[k], o)
        PROVE  F[o] = ByteIn(k, o)'
    <3>1. CASE k \in Chunks
      <4>1. chunk'[k] = chunk[k] /\ InRange(chunk[k], o)
        BY <1>1, <2>2, <3>1
      <4>2. o < EndOffset /\ o \in headOffset .. EndOffset+(n-1)
        BY <1>1, <1>2, <3>1, <4>1 DEF InRange
      <4>3. Content[o] = ByteIn(k, o)
        BY <3>1, <4>1, ContentFacts
      <4>4. ByteIn(k, o)' = ByteIn(k, o)
        BY <4>1 DEF ByteIn
      <4>5. QED BY <4>2, <4>3, <4>4
    <3>2. CASE k = next
      <4>1. chunk'[k].gap = gap /\ chunk'[k].serial = count /\ chunk'[k].offset = EndOffset
        BY <1>1, <3>2
      <4>2. ~(o < EndOffset) /\ o \in headOffset .. EndOffset+(n-1)
        <5>1. EndOffset <= o /\ o < EndOffset + n
          BY <1>1, <2>2, <3>2 DEF InRange
        <5>2. n \in Nat \ {0}
          BY SizesAssumption
        <5>3. EndOffset \in Nat /\ headOffset \in Nat /\ headOffset <= EndOffset
          BY <1>2
        <5> HIDE DEF F
        <5>4. QED BY <5>1, <5>2, <5>3
      <4>3. F[o] = IF gap THEN Missing ELSE count + (o - EndOffset)
        BY <4>2
      <4>4. QED BY <4>1, <4>3 DEF ByteIn
    <3>3. QED BY <1>1, <3>1, <3>2
  <2>3. F = [o \in headOffset' .. EndOffset'-1 |-> F[o]]
    BY <2>1
  <2> HIDE DEF F
  <2>4. ContentUnique'
    BY LawsAfter DEF Laws
  <2>5. QED BY <2>2, <2>3, <2>4 DEF ContentUnique
<1>4. /\ ~frozen /\ frozen' = frozen
      /\ count' = IF gap THEN count ELSE count + n
  BY DEF Append
<1>5. CASE gap
  <2>1. F = [o \in headOffset .. EndOffset+(n-1) |-> IF o < EndOffset THEN Content[o] ELSE Missing]
    BY <1>5
  <2> HIDE DEF F
  <2>2. QED BY <1>1, <1>3, <1>4, <1>5, <2>1 DEF Bytes!AppendGap
<1>6. CASE ~gap
  <2>1. F = [o \in headOffset .. EndOffset+(n-1) |->
               IF o < EndOffset THEN Content[o] ELSE count + (o - EndOffset)]
    BY <1>6
  <2> HIDE DEF F
  <2>2. QED BY <1>1, <1>3, <1>4, <1>6, <2>1 DEF Bytes!AppendData
<1>7. QED BY <1>5, <1>6

\* What trimming does not free is the same as before.
LEMMA TrimStays ==
  ASSUME IInv, NEW o \in Nat, TrimPlace(o), TrimTo(o), NEW k \in Chunks, NEW x \in Int, o <= x,
         InRange(chunk[k], x)
  PROVE  k \in Chunks' /\ InRange(chunk'[k], x) /\ ByteIn(k, x)' = ByteIn(k, x)
<1>1. PICK head \in Nat :
        /\ TrimPoint(o, head)
        /\ first' = head /\ next' = next /\ headOffset' = o
        /\ chunk' = [j \in head..next-1 |-> IF j = head THEN CutAt(chunk[j], o) ELSE chunk[j]]
  BY TrimPoints DEF TrimPlace
<1>2. headOffset <= o
  BY DEF TrimPlace
<1>3. /\ head <= next
      /\ \A j \in Chunks : j \in Chunks' <=> head <= j
      /\ \A j \in Chunks' : j # head => chunk'[j] = chunk[j]
      /\ head \in Chunks => /\ chunk'[head] = CutAt(chunk[head], o) /\ chunk'[head].offset = o
                            /\ InRange(chunk[head], o)
      /\ \A j \in Chunks' : ChunkEnd(chunk'[j]) = ChunkEnd(chunk[j])
  BY <1>1, <1>2, TrimFacts
<1>4. /\ k \in Nat /\ chunk[k] \in Chunk /\ chunk[k].offset \in Nat /\ ChunkEnd(chunk[k]) \in Nat
      /\ k <= next-1 /\ next \in Nat /\ ChunkEnd(chunk[k]) <= EndOffset /\ EndOffset \in Nat
  BY ChainFacts
<1>5. head <= k
  <2>1. CASE head = next
    <3>1. next \notin Chunks
      BY <1>4 DEF Chunks
    <3>2. o >= EndOffset
      BY <1>1, <2>1, <3>1 DEF TrimPoint
    <3>3. x < ChunkEnd(chunk[k])
      BY DEF InRange
    <3>4. QED BY <1>4, <3>2, <3>3
  <2>2. CASE head \in Chunks
    <3>1. k < head => ChunkEnd(chunk[k]) <= chunk[head].offset
      BY <2>2 DEF IInv, Ordered
    <3>2. chunk[head].offset <= o /\ x < ChunkEnd(chunk[k]) /\ chunk[head].offset \in Nat
      BY <1>3, <2>2, ChainFacts DEF InRange
    <3>3. QED BY <1>1, <1>4, <3>1, <3>2
  <2>3. QED BY <1>1, <2>1, <2>2 DEF TrimPoint
<1>6. k \in Chunks'
  BY <1>3, <1>5
<1>7. CASE k # head
  BY <1>3, <1>6, <1>7 DEF ByteIn
<1>8. CASE k = head
  <2>1. /\ chunk'[k] = CutAt(chunk[k], o) /\ chunk'[k].offset = o
        /\ ChunkEnd(chunk'[k]) = ChunkEnd(chunk[k])
    BY <1>3, <1>6, <1>8
  <2>2. InRange(chunk'[k], x)
    BY <2>1 DEF InRange
  <2> DEFINE c == chunk[k]
  <2>3. c \in Chunk /\ chunk'[k] = CutAt(c, o)
    BY <1>4, <2>1
  <2> HIDE DEF c
  <2>4. CASE c.gap
    <3>1. chunk'[k].gap = c.gap
      BY <2>3, <2>4 DEF CutAt, Chunk
    <3>2. QED BY <1>6, <2>2, <2>4, <3>1 DEF ByteIn, c
  <2>5. CASE ~c.gap
    <3>1. CutAt(c, o) = [offset |-> o, size |-> ChunkEnd(c) - o, gap |-> c.gap,
                         serial |-> c.serial + (o - c.offset)]
      BY <2>3, <2>5 DEF CutAt, Chunk
    <3>2. chunk'[k].gap = c.gap /\ chunk'[k].serial = c.serial + (o - c.offset)
          /\ chunk'[k].offset = o
      BY <2>3, <3>1
    <3>3. c.serial \in Nat /\ c.offset \in Nat
      BY <2>3 DEF Chunk
    <3>4. (c.serial + (o - c.offset)) + (x - o) = c.serial + (x - c.offset)
      BY <3>3
    <3>5. QED BY <1>6, <2>2, <2>5, <3>2, <3>4 DEF ByteIn, c
  <2>6. QED BY <2>4, <2>5
<1>9. QED BY <1>7, <1>8, <1>6

\* Trimming the chunks trims the bytes.
LEMMA TrimImplements ==
  ASSUME IInv, IInv', NEW o \in Nat, TrimPlace(o), TrimTo(o)
  PROVE  Bytes!Trim
<1>1. PICK head \in Nat :
        /\ TrimPoint(o, head)
        /\ first' = head /\ next' = next /\ headOffset' = o
        /\ chunk' = [k \in head..next-1 |-> IF k = head THEN CutAt(chunk[k], o) ELSE chunk[k]]
  BY TrimPoints DEF TrimPlace
<1>2. headOffset <= o
  BY DEF TrimPlace
<1>3. /\ EndOffset' = IF o > EndOffset THEN o ELSE EndOffset
      /\ \A k \in Chunks' : k \in Chunks
      /\ \A k \in Chunks' : ChunkEnd(chunk'[k]) = ChunkEnd(chunk[k])
  BY <1>1, <1>2, TrimFacts
<1>4. EndOffset \in Nat /\ headOffset \in Nat
      /\ \A k \in Chunks : ChunkEnd(chunk[k]) \in Nat /\ chunk[k].offset \in Nat
  BY ChainFacts
<1>5. o .. EndOffset'-1 = o .. EndOffset-1
  BY <1>3, <1>4
<1> DEFINE F == [x \in o .. EndOffset-1 |-> Content[x]]
<1>6. ASSUME NEW k \in Chunks', NEW x \in Int, InRange(chunk'[k], x)
      PROVE  F[x] = ByteIn(k, x)'
  <2>1. ContentLaw'
    BY LawsAfter DEF Laws
  <2>2. x \in o .. EndOffset-1
    BY <1>1, <1>5, <1>6, <2>1 DEF ContentLaw
  <2>3. x \in headOffset .. EndOffset-1 /\ o <= x
    BY <1>2, <1>4, <2>2
  <2>4. PICK j \in Chunks : InRange(chunk[j], x)
    BY <2>3 DEF IInv, Covered
  <2>5. j \in Chunks' /\ InRange(chunk'[j], x) /\ ByteIn(j, x)' = ByteIn(j, x)
    BY <2>3, <2>4, TrimStays
  <2>6. Content'[x] = ByteIn(k, x)' /\ Content'[x] = ByteIn(j, x)'
    BY <1>6, <2>1, <2>5 DEF ContentLaw
  <2>7. F[x] = ByteIn(j, x)
    BY <2>2, <2>4, ContentFacts
  <2>8. QED BY <2>5, <2>6, <2>7
<1>7. F = [x \in headOffset' .. EndOffset'-1 |-> F[x]]
  BY <1>1, <1>5
<1>8. Content' = F
  <2> HIDE DEF F
  <2>1. ContentUnique'
    BY LawsAfter DEF Laws
  <2>2. QED BY <1>6, <1>7, <2>1 DEF ContentUnique
<1>9. frozen' = frozen /\ count' = count
  BY DEF TrimTo
<1>10. headOffset' >= headOffset
  BY <1>1, <1>2, <1>4
<1>11. F = [x \in headOffset' .. EndOffset-1 |-> Content[x]]
  BY <1>1
<1> HIDE DEF F
<1>12. EndOffset' = IF headOffset' > EndOffset THEN headOffset' ELSE EndOffset
  BY <1>1, <1>3
<1>13. QED BY <1>8, <1>9, <1>10, <1>11, <1>12 DEF Bytes!Trim

\* Assigning a stream copies its bytes.
LEMMA AssignImplements ==
  ASSUME IInv, IInv', AssignCopy \/ AssignEmpty
  PROVE  Bytes!Next
<1>1. EndOffset \in Nat /\ headOffset \in Nat /\ headOffset <= EndOffset
      /\ \A k \in Chunks : chunk[k].offset \in Nat /\ ChunkEnd(chunk[k]) \in Nat
  BY ChainFacts
<1>2. ContentLaw' /\ ContentUnique'
  BY LawsAfter DEF Laws
<1>3. CASE AssignCopy
  <2> DEFINE size == next - first
  <2> DEFINE F == [o \in 0 .. (EndOffset-headOffset)-1 |-> Content[headOffset + o]]
  <2>1. /\ headOffset' = 0 /\ EndOffset' = EndOffset - headOffset
        /\ \A k \in Chunks' : /\ k - size \in Chunks
                              /\ chunk'[k].offset = chunk[k - size].offset - headOffset
                              /\ ChunkEnd(chunk'[k]) = ChunkEnd(chunk[k - size]) - headOffset
                              /\ chunk'[k].gap = chunk[k - size].gap
                              /\ chunk'[k].serial = chunk[k - size].serial
    BY <1>3, CopyFacts
  <2>2. 0 .. (EndOffset-headOffset)-1 = headOffset' .. EndOffset'-1
    BY <2>1
  <2> HIDE DEF size
  <2>3. ASSUME NEW k \in Chunks', NEW o \in Int, InRange(chunk'[k], o)
        PROVE  F[o] = ByteIn(k, o)'
    <3> DEFINE j == k - size
    <3>1. /\ j \in Chunks /\ chunk'[k].offset = chunk[j].offset - headOffset
          /\ ChunkEnd(chunk'[k]) = ChunkEnd(chunk[j]) - headOffset
          /\ chunk'[k].gap = chunk[j].gap /\ chunk'[k].serial = chunk[j].serial
      BY <2>1
    <3> HIDE DEF j
    <3>2. InRange(chunk[j], headOffset + o)
      BY <1>1, <2>3, <3>1 DEF InRange
    <3>3. headOffset + o \in Int
      BY <1>1
    <3>4. Content[headOffset + o] = ByteIn(j, headOffset + o)
      BY <3>1, <3>2, <3>3, ContentFacts
    <3>5. o \in 0 .. (EndOffset-headOffset)-1
      BY <1>2, <2>2, <2>3 DEF ContentLaw
    <3>6. (headOffset + o) - chunk[j].offset = o - chunk'[k].offset
      BY <1>1, <3>1
    <3>7. QED BY <3>1, <3>4, <3>5, <3>6 DEF ByteIn
  <2>4. F = [o \in headOffset' .. EndOffset'-1 |-> F[o]]
    BY <2>2
  <2>5. Content' = F
    <3> HIDE DEF F
    <3>1. QED BY <1>2, <2>3, <2>4 DEF ContentUnique
  <2>6. frozen' = FALSE /\ count' = count
    BY <1>3 DEF AssignCopy
  <2> HIDE DEF F
  <2>7. Bytes!Copy
    BY <2>1, <2>5, <2>6 DEF Bytes!Copy, F
  <2>8. QED BY <2>7 DEF Bytes!Next
<1>4. CASE AssignEmpty
  <2>1. Chunks' = {} /\ EndOffset' = 0
    BY <1>4, EmptyChain
  <2>2. headOffset' = 0 /\ frozen' = FALSE /\ count' = count
    BY <1>4 DEF AssignEmpty
  <2> DEFINE F == [o \in 0..-1 |-> Missing]
  <2>3. F = [o \in headOffset' .. EndOffset'-1 |-> F[o]]
    BY <2>1, <2>2
  <2>4. Content' = F
    <3> HIDE DEF F
    <3>1. QED BY <1>2, <2>1, <2>3 DEF ContentUnique
  <2>5. Bytes!Clear
    BY <2>1, <2>2, <2>4 DEF Bytes!Clear
  <2>6. QED BY <2>5 DEF Bytes!Next
<1>5. QED BY <1>3, <1>4

\* A step that leaves the chain alone.
LEMMA SameContent ==
  ASSUME UNCHANGED <<first, next, chunk, headOffset>>
  PROVE  EndOffset' = EndOffset /\ Content' = Content /\ Chunks' = Chunks
<1>1. Chunks' = Chunks /\ EndOffset' = EndOffset
  BY DEF Chunks, EndOffset
<1>2. QED BY <1>1 DEF Content, ByteIn

\* Every step is one of the abstract stream, or none.
LEMMA NextImplements ==
  ASSUME ~CutsGaps, IInv, IInv', [Next]_vars
  PROVE  [Bytes!Next]_(Bytes!vars)
<1>1. ASSUME NEW n \in Sizes, NEW gap \in BOOLEAN, Append(n, gap) PROVE Bytes!Next
  BY <1>1, AppendImplements DEF Bytes!Next
<1>2. CASE (\E i \in Iters : Trim(i)) \/ TrimAll
  BY <1>2, TrimPlaces, TrimImplements DEF Bytes!Next
<1>3. CASE Freeze \/ Unfreeze
  <2>1. UNCHANGED <<first, next, chunk, headOffset, count>> /\ frozen' \in BOOLEAN
    BY <1>3 DEF Freeze, Unfreeze
  <2>2. Bytes!SetFrozen(frozen')
    BY <2>1, SameContent DEF Bytes!SetFrozen
  <2>3. QED BY <2>1, <2>2 DEF Bytes!Next
<1>4. CASE AssignCopy \/ AssignEmpty
  BY <1>4, AssignImplements
<1>5. CASE IteratorCalls
  <2>1. UNCHANGED <<first, next, chunk, headOffset, frozen, count>>
    BY <1>5, IteratorCallAssigns DEF Assign, chainVars
  <2>2. QED BY <2>1, SameContent DEF Bytes!vars
<1>6. CASE UNCHANGED vars
  BY <1>6, SameContent DEF vars, Bytes!vars
<1>7. QED BY <1>1, <1>2, <1>3, <1>4, <1>5, <1>6 DEF Next, ChainCalls

\* And so is the beginning.
LEMMA InitImplements == Init => Bytes!Init
<1>1. SUFFICES ASSUME Init PROVE Bytes!Init
  OBVIOUS
<1>2. headOffset = 0 /\ EndOffset = 0 /\ count = 0 /\ frozen = FALSE /\ Chunks = {}
  BY <1>1 DEF Init, EndOffset, Chunks
<1>3. ContentUnique
  BY <1>1, InitInv, LawsHold DEF Laws
<1> DEFINE F == [o \in 0..-1 |-> Missing]
<1>4. F = [o \in headOffset .. EndOffset-1 |-> F[o]]
  BY <1>2
<1>5. Content = F
  <2> HIDE DEF F
  <2>1. QED BY <1>2, <1>3, <1>4 DEF ContentUnique
<1>6. QED BY <1>2, <1>5 DEF Bytes!Init

\* Each call on the chain of chunks is one on the window of bytes with fixed
\* offsets, and the iterators' calls are none.
THEOREM StreamIsBytes == ASSUME ~CutsGaps PROVE Spec => ImplementsByteStream
<1>1. IInv /\ IInv' /\ [Next]_vars => [Bytes!Next]_(Bytes!vars)
  BY NextImplements
<1>2. QED BY <1>1, Invariant, InitImplements, PTL DEF Spec, Bytes!Spec, ImplementsByteStream

-----------------------------------------------------------------------------
\* Unless the stream is assigned, a step leaves alone what it does not trim.
LEMMA StepStays ==
  ASSUME ~CutsGaps, IInv, [Next]_vars, chain' = chain,
         NEW k \in Chunks, NEW x \in Int, InRange(chunk[k], x), headOffset' <= x
  PROVE  k \in Chunks' /\ InRange(chunk'[k], x) /\ ByteIn(k, x)' = ByteIn(k, x)
<1>1. ASSUME NEW n \in Sizes, NEW gap \in BOOLEAN, Append(n, gap)
      PROVE  k \in Chunks' /\ InRange(chunk'[k], x) /\ ByteIn(k, x)' = ByteIn(k, x)
  <2>1. k \in Chunks' /\ chunk'[k] = chunk[k]
    BY <1>1, AppendFacts
  <2>2. QED BY <2>1 DEF ByteIn
<1>2. CASE (\E i \in Iters : Trim(i)) \/ TrimAll
  <2>1. PICK o \in Nat : TrimPlace(o) /\ TrimTo(o)
    BY <1>2, TrimPlaces
  <2>2. o <= x
    BY <2>1 DEF TrimTo
  <2>3. QED BY <2>1, <2>2, TrimStays
<1>3. CASE AssignCopy \/ AssignEmpty
  <2>1. chain' = chain + 1
    BY <1>3 DEF AssignCopy, AssignEmpty
  <2>2. chain \in Nat
    BY DEF IInv, TypeOK
  <2>3. QED BY <2>1, <2>2
<1>4. CASE Freeze \/ Unfreeze \/ IteratorCalls \/ UNCHANGED vars
  <2>1. UNCHANGED <<first, next, chunk>>
    <3>1. CASE IteratorCalls
      BY <3>1, IteratorCallAssigns DEF Assign, chainVars
    <3>2. CASE Freeze \/ Unfreeze \/ UNCHANGED vars
      BY <3>2 DEF Freeze, Unfreeze, vars
    <3>3. QED BY <1>4, <3>1, <3>2
  <2>2. Chunks' = Chunks
    BY <2>1 DEF Chunks
  <2>3. QED BY <2>1, <2>2 DEF ByteIn
<1>5. QED BY <1>1, <1>2, <1>3, <1>4 DEF Next, ChainCalls

\* An iterator that is settled stays so.
LEMMA SettledStays ==
  ASSUME ~CutsGaps, IInv, IInv', [Next]_vars, chain' = chain,
         NEW it \in Held, Settled(it), it.offset >= headOffset'
  PROVE  Settled(it)' /\ Deref(it)' = Deref(it)
<1>1. it \in Iterator /\ it.offset \in Int
  BY HeldType DEF Iterator
<1>2. headOffset' <= it.offset
  BY <1>1 DEF IInv, TypeOK
<1>3. Readable(it) /\ (it.hint # Null => it.hint \in Chunks /\ InRange(chunk[it.hint], it.offset))
  BY DEF Settled
<1>4. PICK k \in Chunks : InRange(chunk[k], it.offset)
  BY <1>1, <1>3, Home DEF Readable
<1>5. k \in Chunks' /\ InRange(chunk'[k], it.offset) /\ ByteIn(k, it.offset)' = ByteIn(k, it.offset)
  BY <1>1, <1>2, <1>4, StepStays
<1>6. it.hint # Null => it.hint \in Chunks' /\ InRange(chunk'[it.hint], it.offset)
  BY <1>1, <1>2, <1>3, StepStays
<1>7. ContentLaw' /\ DerefLaw'
  BY LawsAfter DEF Laws
<1>8. it.offset \in headOffset' .. EndOffset'-1
  BY <1>1, <1>5, <1>7 DEF ContentLaw
<1>9. Readable(it)'
  <2>1. it.chain = chain'
    BY <1>3 DEF Readable
  <2>2. headOffset' \in Int /\ EndOffset' \in Int
    BY LawsAfter DEF Laws, IInv, TypeOK
  <2>3. QED BY <1>8, <2>1, <2>2 DEF Readable, ChainInRange
<1>10. Deref(it) = ByteIn(k, it.offset)
  BY <1>1, <1>3, <1>4, DerefFinds
<1>11. Deref(it)' = ByteIn(k, it.offset)'
  BY <1>1, <1>5, <1>7, <1>9 DEF DerefLaw
<1>12. Settled(it)'
  BY <1>6, <1>9 DEF Settled
<1>13. QED BY <1>5, <1>10, <1>11, <1>12

\* Appending, trimming in front of it and moving others leave an iterator that
\* is inside the data where it is: it shows the same byte, and its hint stays
\* good (Chain::append(), Chain::trim()).
THEOREM IteratorsStay == ASSUME ~CutsGaps PROVE Spec => IteratorsSurvive
<1> DEFINE Survive == \A it \in Held :
                        Settled(it) /\ chain' = chain /\ it.offset >= headOffset'
                          => Settled(it)' /\ Deref(it)' = Deref(it)
<1>1. IInv /\ IInv' /\ [Next]_vars => Survive
  BY SettledStays
<1>2. IInv /\ IInv' /\ [Next]_vars => [Survive]_vars
  BY <1>1
<1> HIDE DEF Survive
<1>3. Spec => [][Survive]_vars
  BY <1>2, Invariant, PTL DEF Spec
<1>4. QED BY <1>3 DEF Survive, IteratorsSurvive

-----------------------------------------------------------------------------
(******************************** Containers *******************************)
ControlBlocks == [id : Nat, to : Objects \cup {None}]
Elements == [at : Nat, key : Nat]
Boxes == [alive : BOOLEAN, block : ControlBlocks \cup {None}, elems : SUBSET Elements]
Spots == [block : ControlBlocks \cup {None}, of : Objects \cup {None}, at : Int, key : Nat, from : Objects \cup {None}]

\* The elements of a vector of that size.
Indexed(elems, n) ==
  /\ \A e \in elems : e.at < n
  /\ \A j \in 0 .. n-1 : \E e \in elems : e.at = j
  /\ \A e, d \in elems : e.at = d.at => e = d

\* Live containers have blocks of their own.
BlocksApart(objs) ==
  /\ objs \in [Objects -> Boxes] /\ \A o \in Objects : IsFiniteSet(objs[o].elems)
  /\ \A o \in Objects : objs[o].alive => objs[o].block # None
  /\ \A o \in Objects : ~objs[o].alive => objs[o] = Containers!Dead
  /\ \A o, p \in Objects : objs[o].alive /\ objs[p].alive /\ objs[o].block = objs[p].block => o = p

\* A vector keeps its block, and an iterator follows the vector that made it.
VectorsFollow(objs, its) ==
  /\ \A o \in Objects : objs[o].alive =>
       objs[o].block.to = o /\ Indexed(objs[o].elems, Cardinality(objs[o].elems))
  /\ \A i \in Cursors : its[i].at >= 0 /\
       IF its[i].from = None THEN \A o \in Objects : objs[o].alive => objs[o].block # its[i].block
       ELSE objs[its[i].from].alive /\ its[i].block = objs[its[i].from].block

\* No two nodes share an address, and an iterator with the block of a container is at
\* a node of that container; that of a map knows whose end it is at.
NodesStay(objs, its) ==
  /\ \A o \in Objects : objs[o].alive => \A e \in objs[o].elems : e.at > 0
  /\ \A o, p \in Objects : objs[o].alive /\ objs[p].alive =>
       \A e \in objs[o].elems, d \in objs[p].elems : e.at = d.at => o = p /\ e = d
  /\ \A i \in Cursors, o \in Objects : objs[o].alive /\ objs[o].block = its[i].block =>
       IF its[i].at = 0 THEN kind = "map" => its[i].of = o
       ELSE \E e \in objs[o].elems : e.at = its[i].at /\ e.key = its[i].key
  /\ kind = "map" => \A o \in Objects : objs[o].alive => objs[o].block.to = o

Sound(objs, its) ==
  /\ BlocksApart(objs) /\ its \in [Cursors -> Spots]
  /\ IF kind = "vector" THEN VectorsFollow(objs, its) ELSE NodesStay(objs, its)
ContainersInv == kind \in {"vector", "set", "map"} /\ Sound(obj, cursor)

\* The instance's Cardinality is that of the library's theorems.
LEMMA ContainersCardinality == \A S : Containers!Cardinality(S) = Cardinality(S)
BY DEF Containers!Cardinality, Cardinality

\* There is no block, and no container, None.
LEMMA NoneIsApart == None \notin Objects /\ None \notin ControlBlocks
<1>1. ControlBlocks = [id : Nat, to : Objects \cup {None}]
  BY DEF ControlBlocks
<1> QED BY <1>1, ContainersAssumption

\* A vector has as many elements as it has indices.
LEMMA IndexedCount ==
  ASSUME NEW S \in SUBSET Elements, NEW n \in Nat, Indexed(S, n)
  PROVE  IsFiniteSet(S) /\ Cardinality(S) = n
<1> DEFINE f == [j \in 1 .. n |-> CHOOSE e \in S : e.at = j-1]
<1>1. ASSUME NEW j \in 1 .. n PROVE f[j] \in S /\ f[j].at = j-1
  <2>1. \E e \in S : e.at = j-1
    <3>1. j-1 \in 0 .. n-1
      OBVIOUS
    <3> QED BY <3>1 DEF Indexed
  <2>2. f[j] = CHOOSE e \in S : e.at = j-1
    OBVIOUS
  <2> HIDE DEF f
  <2> QED BY <2>1, <2>2
<1>2. f \in [1 .. n -> S]
  <2>1. f = [j \in 1 .. n |-> f[j]]
    OBVIOUS
  <2> HIDE DEF f
  <2> QED BY <1>1, <2>1
<1> HIDE DEF f
<1>3. ASSUME NEW e \in S PROVE \E j \in 1 .. n : f[j] = e
  <2>1. e.at \in Nat /\ e.at < n
    BY DEF Indexed, Elements
  <2>2. e.at + 1 \in 1 .. n /\ (e.at + 1) - 1 = e.at
    BY <2>1
  <2>3. f[e.at + 1] \in S /\ f[e.at + 1].at = e.at
    BY <2>2, <1>1
  <2>4. f[e.at + 1] = e
    BY <2>3 DEF Indexed
  <2> QED BY <2>2, <2>4
<1>4. ASSUME NEW i \in 1 .. n, NEW j \in 1 .. n, f[i] = f[j] PROVE i = j
  <2>1. i-1 = j-1
    BY <1>1, <1>4
  <2> QED BY <2>1
<1>5. f \in Bijection(1 .. n, S)
  BY <1>2, <1>3, <1>4 DEF Bijection, Injection, Surjection, IsInjective
<1>6. ExistsBijection(1 .. n, S)
  BY <1>5 DEF ExistsBijection
<1>7. n + 0 = n /\ IsFiniteSet(1 .. n) /\ Cardinality(1 .. n) = n
  BY FS_Interval
<1> QED BY <1>6, <1>7, FS_Bijection

\* More candidates than are taken leave one that is not.
LEMMA OneIsLeft ==
  ASSUME NEW T, IsFiniteSet(T), NEW f, DOMAIN f = 0 .. Cardinality(T),
         \A i, j \in 0 .. Cardinality(T) : f[i] = f[j] => i = j
  PROVE  \E j \in 0 .. Cardinality(T) : f[j] \notin T
<1> DEFINE n == Cardinality(T)
<1>1. n \in Nat
  BY FS_CardinalityType
<1>2. IsFiniteSet(0 .. n) /\ Cardinality(0 .. n) = n + 1
  BY <1>1, FS_Interval
<1>3. SUFFICES ASSUME \A j \in 0 .. n : f[j] \in T PROVE FALSE
  OBVIOUS
<1> DEFINE g == [j \in 0 .. n |-> f[j]]
<1>4. g \in Injection(0 .. n, T)
  BY <1>3 DEF Injection, IsInjective
<1>5. Cardinality(0 .. n) <= n
  BY <1>4, FS_Injection
<1> HIDE DEF n
<1> QED BY <1>1, <1>2, <1>5

\* ControlBlocks, and addresses, that are in use.
TakenBlocks == {obj[p].block : p \in Containers!Live} \cup {cursor[i].block : i \in Cursors}
TakenAddresses == {e.at : e \in Containers!Held} \cup {cursor[i].at : i \in Cursors}
\* Only so many are in use.
LEMMA TakenAreFinite ==
  ASSUME ContainersInv
  PROVE  IsFiniteSet(TakenBlocks) /\ IsFiniteSet(TakenAddresses)
<1>1. IsFiniteSet(Objects) /\ IsFiniteSet(Cursors)
  BY ContainersAssumption
<1>2. IsFiniteSet(Containers!Live)
  <2>1. Containers!Live \in SUBSET Objects
    BY DEF Containers!Live
  <2> QED BY <1>1, <2>1, FS_Subset
<1>3. IsFiniteSet({obj[p].block : p \in Containers!Live})
  <2> DEFINE F == [p \in Containers!Live |-> obj[p].block]
  <2>1. F \in Surjection(Containers!Live, {obj[p].block : p \in Containers!Live})
    BY DEF Surjection
  <2> QED BY <1>2, <2>1, FS_Surjection
<1>4. IsFiniteSet({cursor[i].block : i \in Cursors}) /\ IsFiniteSet({cursor[i].at : i \in Cursors})
  <2> DEFINE F == [i \in Cursors |-> cursor[i].block]
             G == [i \in Cursors |-> cursor[i].at]
  <2>1. F \in Surjection(Cursors, {cursor[i].block : i \in Cursors})
    BY DEF Surjection
  <2>2. G \in Surjection(Cursors, {cursor[i].at : i \in Cursors})
    BY DEF Surjection
  <2> HIDE DEF F, G
  <2> QED BY <1>1, <2>1, <2>2, FS_Surjection
<1>5. IsFiniteSet(Containers!Held)
  <2> DEFINE all == {obj[o].elems : o \in Containers!Live}
             F == [p \in Containers!Live |-> obj[p].elems]
  <2>1. F \in Surjection(Containers!Live, all)
    BY DEF Surjection
  <2>2. IsFiniteSet(all)
    BY <1>2, <2>1, FS_Surjection
  <2>3. \A T \in all : IsFiniteSet(T)
    BY DEF ContainersInv, Sound, BlocksApart, Containers!Live
  <2> HIDE DEF all
  <2>4. IsFiniteSet(UNION all)
    BY <2>2, <2>3, FS_UNION
  <2> QED BY <2>4 DEF all, Containers!Held
<1>6. IsFiniteSet({e.at : e \in Containers!Held})
  <2> DEFINE F == [e \in Containers!Held |-> e.at]
  <2>1. F \in Surjection(Containers!Held, {e.at : e \in Containers!Held})
    BY DEF Surjection
  <2> QED BY <1>5, <2>1, FS_Surjection
<1> QED BY <1>3, <1>4, <1>6, FS_Union DEF TakenBlocks, TakenAddresses

\* A new block is one that nothing refers to.
LEMMA BlockIsNew ==
  ASSUME ContainersInv, NEW o \in Objects \cup {None}
  PROVE  /\ Containers!NewBlock(o) \in ControlBlocks /\ Containers!NewBlock(o).to = o
         /\ \A p \in Objects : obj[p].alive => obj[p].block # Containers!NewBlock(o)
         /\ \A i \in Cursors : cursor[i].block # Containers!NewBlock(o)
<1> DEFINE n == Cardinality(TakenBlocks)
           f == [j \in 0 .. n |-> [id |-> j+1, to |-> o]]
<1>1. n \in Nat /\ IsFiniteSet(TakenBlocks)
  BY TakenAreFinite, FS_CardinalityType
<1>2. \E j \in 0 .. n : f[j] \notin TakenBlocks
  <2>1. ASSUME NEW i \in 0 .. n, NEW j \in 0 .. n, f[i] = f[j] PROVE i = j
    <3>1. f[i].id = i+1 /\ f[j].id = j+1
      OBVIOUS
    <3> QED BY <2>1, <3>1
  <2>2. DOMAIN f = 0 .. n
    OBVIOUS
  <2> HIDE DEF f
  <2> QED BY <1>1, <2>1, <2>2, OneIsLeft
<1>3. PICK j \in 0 .. n : f[j] \notin TakenBlocks
  BY <1>2
<1>4. f[j] \in [id : 1 .. n + 1, to : {o}]
  BY <1>1
<1>5. Containers!NewBlock(o) = CHOOSE b \in [id : 1 .. n + 1, to : {o}] : b \notin TakenBlocks
  BY ContainersCardinality DEF Containers!NewBlock, TakenBlocks
<1> HIDE DEF f, n
<1>6. Containers!NewBlock(o) \in [id : 1 .. n + 1, to : {o}] /\ Containers!NewBlock(o) \notin TakenBlocks
  BY <1>3, <1>4, <1>5
<1>7. Containers!NewBlock(o) \in ControlBlocks /\ Containers!NewBlock(o).to = o
  <2>1. \A b \in [id : 1 .. n + 1, to : {o}] : b \in ControlBlocks /\ b.to = o
    BY <1>1 DEF ControlBlocks
  <2> QED BY <1>6, <2>1
<1> QED BY <1>6, <1>7 DEF TakenBlocks, Containers!Live

\* A new address is one at which there is nothing and that no iterator has.
LEMMA AddressIsNew ==
  ASSUME ContainersInv, NEW k \in Keys
  PROVE  /\ Containers!NewAddress(k) \in Nat /\ Containers!NewAddress(k) > 0
         /\ \A p \in Objects : obj[p].alive => \A e \in obj[p].elems : e.at # Containers!NewAddress(k)
         /\ \A i \in Cursors : cursor[i].at # Containers!NewAddress(k)
<1> DEFINE n == Cardinality(TakenAddresses)
           c == Cardinality(Keys)
           f == [j \in 0 .. n |-> k + j * c]
<1>1. n \in Nat /\ IsFiniteSet(TakenAddresses)
  BY TakenAreFinite, FS_CardinalityType
<1>2. c \in Nat /\ c > 0 /\ k \in Nat /\ k > 0
  <2>1. IsFiniteSet(Keys) /\ Keys \subseteq Nat \ {0} /\ Keys # {}
    BY ContainersAssumption
  <2>2. c \in Nat /\ c # 0
    BY <2>1, FS_CardinalityType, FS_EmptySet
  <2> QED BY <2>1, <2>2
<1>a. ASSUME NEW i \in Nat PROVE i * c \in Nat
  BY <1>2
<1>b. ASSUME NEW i \in Nat, NEW d \in Nat, d > 0 PROVE (i + d) * c > i * c
  <2>1. (i + d) * c = i * c + d * c
    BY <1>2
  <2>2. d * c > 0
    BY <1>2, <1>b
  <2> QED BY <2>1, <2>2, <1>a
<1>3. \E j \in 0 .. n : f[j] \notin TakenAddresses
  <2>1. ASSUME NEW i \in 0 .. n, NEW j \in 0 .. n, i < j PROVE f[i] # f[j]
    <3>1. i \in Nat /\ j - i \in Nat /\ j - i > 0 /\ i + (j - i) = j
      BY <1>1, <2>1
    <3>2. j * c > i * c
      BY <3>1, <1>b
    <3>3. f[i] = k + i * c /\ f[j] = k + j * c /\ i * c \in Nat /\ j * c \in Nat
      BY <1>a, <1>1
    <3> HIDE DEF f
    <3> QED BY <3>2, <3>3, <1>2
  <2>2. DOMAIN f = 0 .. n
    OBVIOUS
  <2> HIDE DEF f
  <2>3. \A i, j \in 0 .. n : f[i] = f[j] => i = j
    BY <2>1, <1>1
  <2> QED BY <1>1, <2>2, <2>3, OneIsLeft
<1>4. PICK j \in 0 .. n : f[j] \notin TakenAddresses
  BY <1>3
<1>5. Containers!NewAddress(k) = CHOOSE x \in {k + h * c : h \in 0 .. n} : x \notin TakenAddresses
  BY ContainersCardinality DEF Containers!NewAddress, TakenAddresses
<1>6. f[j] = k + j * c
  OBVIOUS
<1> HIDE DEF f, n, c
<1>7. Containers!NewAddress(k) \in {k + h * c : h \in 0 .. n} /\ Containers!NewAddress(k) \notin TakenAddresses
  BY <1>4, <1>5, <1>6
<1>8. PICK h \in 0 .. n : Containers!NewAddress(k) = k + h * c
  BY <1>7
<1>9. Containers!NewAddress(k) \in Nat /\ Containers!NewAddress(k) > 0
  BY <1>1, <1>2, <1>8, <1>a
<1> QED BY <1>7, <1>9 DEF TakenAddresses, Containers!Live, Containers!Held

\* No container is there at first, and no iterator.
LEMMA ContainersInit == Containers!Init => ContainersInv
<1> SUFFICES ASSUME Containers!Init PROVE ContainersInv
  OBVIOUS
<1>1. \A o \in Objects : obj[o] = Containers!Dead /\ ~obj[o].alive /\ obj[o].elems = {}
  BY DEF Containers!Init, Containers!Dead
<1>2. Containers!Dead \in Boxes /\ Containers!Unset \in Spots
  BY DEF Containers!Dead, Containers!Unset, Containers!Iterator, Boxes, Spots
<1>3. \A i \in Cursors : cursor[i] = Containers!Unset /\ cursor[i].at = 0 /\ cursor[i].from = None
  BY DEF Containers!Init, Containers!Unset, Containers!Iterator
<1>4. obj \in [Objects -> Boxes] /\ cursor \in [Cursors -> Spots]
  BY <1>2 DEF Containers!Init
<1>5. IsFiniteSet({})
  BY FS_EmptySet
<1>6. BlocksApart(obj)
  BY <1>1, <1>4, <1>5 DEF BlocksApart
<1>7. VectorsFollow(obj, cursor) /\ NodesStay(obj, cursor)
  BY <1>1, <1>3 DEF VectorsFollow, NodesStay
<1>8. kind \in {"vector", "set", "map"}
  BY ContainersAssumption DEF Containers!Init
<1> QED BY <1>4, <1>6, <1>7, <1>8 DEF ContainersInv, Sound

\* What is so of containers that satisfy the invariant.
LEMMA ContainersSafe == ContainersInv => Containers!IteratorsAreSafe
<1> SUFFICES ASSUME ContainersInv PROVE Containers!IteratorsAreSafe
  OBVIOUS
<1>1. /\ BlocksApart(obj) /\ cursor \in [Cursors -> Spots]
      /\ kind = "vector" => VectorsFollow(obj, cursor)
      /\ kind # "vector" => NodesStay(obj, cursor)
  BY DEF ContainersInv, Sound
<1>2. \A o, p \in Objects : obj[o].alive /\ obj[p].alive /\ obj[o].block = obj[p].block => o = p
  BY <1>1 DEF BlocksApart
<1>3. Containers!NeverStale
  <2> SUFFICES ASSUME NEW i \in Cursors, kind # "vector", cursor[i].at # 0, Containers!Locked(i)
               PROVE  Containers!Deref(i) = cursor[i].key
    BY DEF Containers!NeverStale, Containers!End, Containers!Deref
  <2>1. PICK o \in Objects : obj[o].alive /\ obj[o].block = cursor[i].block
    BY DEF Containers!Locked, Containers!Live
  <2>2. PICK e \in obj[o].elems : e.at = cursor[i].at /\ e.key = cursor[i].key
    BY <1>1, <2>1 DEF NodesStay
  <2>3. o \in Containers!Live /\ e \in Containers!Held /\ Containers!Owners(i) # {}
    BY <2>1, <2>2 DEF Containers!Live, Containers!Held, Containers!Owners
  <2>4. ASSUME NEW d \in Containers!Held, d.at = cursor[i].at PROVE d = e
    <3>1. PICK p \in Objects : obj[p].alive /\ d \in obj[p].elems
      BY DEF Containers!Held, Containers!Live
    <3> QED BY <3>1, <1>1, <2>1, <2>2, <2>4 DEF NodesStay
  <2>5. (CHOOSE d \in Containers!Held : d.at = cursor[i].at) = e
    BY <2>2, <2>3, <2>4
  <2> QED BY <2>2, <2>3, <2>5 DEF Containers!Deref, Containers!End
<1>4. Containers!EndsThrow
  <2> SUFFICES ASSUME NEW i \in Cursors, kind = "map", cursor[i].at = 0, Containers!Locked(i)
               PROVE  cursor[i].of = cursor[i].block.to /\ cursor[i].of \in Containers!Live
    BY DEF Containers!EndsThrow, Containers!End, Containers!Deref
  <2>1. PICK o \in Objects : obj[o].alive /\ obj[o].block = cursor[i].block
    BY DEF Containers!Locked, Containers!Live
  <2>2. cursor[i].of = o /\ obj[o].block.to = o
    BY <1>1, <2>1 DEF NodesStay
  <2> QED BY <2>1, <2>2 DEF Containers!Live
<1>5. Containers!FollowsItsVector
  <2> SUFFICES ASSUME NEW i \in Cursors, kind = "vector"
               PROVE  LET o == cursor[i].from
                          there == IF o = None THEN {} ELSE {e \in obj[o].elems : e.at = cursor[i].at}
                      IN  Containers!Deref(i) = IF there = {} THEN Containers!Throws ELSE (CHOOSE e \in there : TRUE).key
    BY DEF Containers!FollowsItsVector
  <2> DEFINE o == cursor[i].from
             there == IF o = None THEN {} ELSE {e \in obj[o].elems : e.at = cursor[i].at}
  <2>1. VectorsFollow(obj, cursor) /\ cursor[i] \in Spots
    BY <1>1
  <2>2. CASE o = None
    <3>1. ~Containers!Locked(i)
      BY <2>1, <2>2 DEF VectorsFollow, Containers!Locked, Containers!Live
    <3> QED BY <2>2, <3>1 DEF Containers!Deref
  <2>3. CASE o # None
    <3>1. o \in Objects /\ obj[o].alive /\ cursor[i].block = obj[o].block
      BY <2>1, <2>3 DEF VectorsFollow, Spots
    <3>2. Containers!Locked(i)
      BY <3>1 DEF Containers!Locked, Containers!Live
    <3>3. cursor[i].block.to = o /\ Indexed(obj[o].elems, Cardinality(obj[o].elems))
          /\ cursor[i].at \in Int /\ cursor[i].at >= 0
      BY <2>1, <3>1 DEF VectorsFollow, Spots
    <3>4. Cardinality(obj[o].elems) \in Nat
      BY <1>1, <3>1, FS_CardinalityType DEF BlocksApart
    <3> DEFINE n == Cardinality(obj[o].elems)
    <3>5. Containers!Size(o) = n
      BY ContainersCardinality DEF Containers!Size
    <3> HIDE DEF n
    <3>6. Containers!Deref(i) = IF cursor[i].at >= n THEN Containers!Throws
                                ELSE (CHOOSE e \in obj[o].elems : e.at = cursor[i].at).key
      BY <3>2, <3>3, <3>5 DEF Containers!Deref
    <3>7. CASE cursor[i].at >= n
      <4>1. ASSUME NEW e \in obj[o].elems PROVE e.at # cursor[i].at
        <5>1. e.at < n /\ e.at \in Nat
          <6>1. e \in Elements
            BY <1>1, <3>1 DEF BlocksApart, Boxes
          <6> QED BY <6>1, <3>3 DEF Indexed, Elements, n
        <5> QED BY <5>1, <3>3, <3>4, <3>7 DEF n
      <4>2. there = {}
        BY <4>1
      <4> QED BY <4>2, <3>6, <3>7
    <3>8. CASE ~(cursor[i].at >= n)
      <4>1. cursor[i].at \in 0 .. n-1
        BY <3>3, <3>4, <3>8 DEF n
      <4>2. PICK e \in obj[o].elems : e.at = cursor[i].at
        BY <3>3, <4>1 DEF Indexed, n
      <4>3. \A d \in obj[o].elems : d.at = cursor[i].at => d = e
        BY <3>3, <4>2 DEF Indexed
      <4>4. (CHOOSE d \in obj[o].elems : d.at = cursor[i].at) = e
        BY <4>2, <4>3
      <4>5. there = {e}
        BY <4>2, <4>3, <2>3
      <4> QED BY <4>4, <4>5, <3>6, <3>8
    <3> QED BY <3>7, <3>8
  <2> QED BY <2>2, <2>3
<1> QED BY <1>3, <1>4, <1>5 DEF Containers!IteratorsAreSafe

\* One container gets other elements, or another block that nothing refers to.
LEMMA BoxChanges ==
  ASSUME ContainersInv, NEW o \in Objects, NEW b \in ControlBlocks, NEW elems \in SUBSET Elements, IsFiniteSet(elems),
         NEW objs, objs \in [Objects -> Boxes], objs[o] = Containers!Is(b, elems),
         \A p \in Objects : p # o => objs[p] = obj[p],
         \/ obj[o].alive /\ b = obj[o].block
         \/ (\A p \in Objects : obj[p].alive => obj[p].block # b) /\ (\A i \in Cursors : cursor[i].block # b),
         kind = "vector" => /\ b.to = o /\ Indexed(elems, Cardinality(elems))
                            /\ obj[o].alive => b = obj[o].block,
         kind = "map" => b.to = o,
         kind # "vector" =>
           /\ \A e \in elems : e.at > 0 /\ \A d \in elems : e.at = d.at => e = d
           /\ \A e \in elems, p \in Objects : p # o /\ obj[p].alive => \A d \in obj[p].elems : e.at # d.at
           /\ obj[o].alive /\ b = obj[o].block => obj[o].elems \subseteq elems
  PROVE  Sound(objs, cursor)
<1>1. objs[o].alive /\ objs[o].block = b /\ objs[o].elems = elems
  BY DEF Containers!Is
<1>2. /\ BlocksApart(obj) /\ cursor \in [Cursors -> Spots]
      /\ kind = "vector" => VectorsFollow(obj, cursor)
      /\ kind # "vector" => NodesStay(obj, cursor)
  BY DEF ContainersInv, Sound
<1>3. \A p \in Objects : p # o /\ obj[p].alive => obj[p].block # b
  BY <1>2 DEF BlocksApart
<1>4. BlocksApart(objs)
  <2>1. \A p \in Objects : IsFiniteSet(objs[p].elems)
    BY <1>1, <1>2 DEF BlocksApart
  <2>2. \A p \in Objects : objs[p].alive => objs[p].block # None
    BY <1>1, <1>2, NoneIsApart DEF BlocksApart
  <2>3. \A p \in Objects : ~objs[p].alive => objs[p] = Containers!Dead
    BY <1>1, <1>2 DEF BlocksApart
  <2>4. ASSUME NEW p \in Objects, NEW q \in Objects, objs[p].alive, objs[q].alive, objs[p].block = objs[q].block
        PROVE  p = q
    BY <2>4, <1>1, <1>2, <1>3 DEF BlocksApart
  <2> QED BY <2>1, <2>2, <2>3, <2>4 DEF BlocksApart
<1>5. CASE kind = "vector"
  <2>1. \A p \in Objects : objs[p].alive =>
          objs[p].block.to = p /\ Indexed(objs[p].elems, Cardinality(objs[p].elems))
    BY <1>1, <1>2, <1>5 DEF VectorsFollow
  <2>2. ASSUME NEW i \in Cursors
        PROVE  cursor[i].at >= 0 /\
          IF cursor[i].from = None THEN \A p \in Objects : objs[p].alive => objs[p].block # cursor[i].block
          ELSE objs[cursor[i].from].alive /\ cursor[i].block = objs[cursor[i].from].block
    <3>1. cursor[i].at >= 0 /\
          IF cursor[i].from = None THEN \A p \in Objects : obj[p].alive => obj[p].block # cursor[i].block
          ELSE obj[cursor[i].from].alive /\ cursor[i].block = obj[cursor[i].from].block
      BY <1>2, <1>5 DEF VectorsFollow
    <3>2. CASE cursor[i].from = None
      <4>1. ASSUME NEW p \in Objects, objs[p].alive PROVE objs[p].block # cursor[i].block
        <5>1. CASE p = o
          BY <5>1, <1>1, <3>1, <3>2
        <5>2. CASE p # o
          BY <5>2, <4>1, <3>1, <3>2
        <5> QED BY <5>1, <5>2
      <4> QED BY <4>1, <3>1, <3>2
    <3>3. CASE cursor[i].from # None
      <4>1. cursor[i].from \in Objects
        BY <1>2, <3>3 DEF Spots
      <4>2. cursor[i].from = o => b = obj[o].block
        BY <3>1, <3>3, <1>5
      <4> QED BY <4>1, <4>2, <3>1, <3>3, <1>1
    <3> QED BY <3>2, <3>3
  <2> QED BY <2>1, <2>2, <1>2, <1>4, <1>5 DEF Sound, VectorsFollow
<1>6. CASE kind # "vector"
  <2>1. NodesStay(obj, cursor)
    BY <1>2, <1>6
  <2>2. \A p \in Objects : objs[p].alive => \A e \in objs[p].elems : e.at > 0
    BY <2>1, <1>1, <1>6 DEF NodesStay
  <2>3. ASSUME NEW p \in Objects, NEW q \in Objects, objs[p].alive, objs[q].alive,
               NEW e \in objs[p].elems, NEW d \in objs[q].elems, e.at = d.at
        PROVE  p = q /\ e = d
    <3>1. CASE p = o /\ q = o
      BY <2>3, <3>1, <1>1, <1>6
    <3>2. CASE p = o /\ q # o
      BY <2>3, <3>2, <1>1, <1>6
    <3>3. CASE p # o /\ q = o
      BY <2>3, <3>3, <1>1, <1>6
    <3>4. CASE p # o /\ q # o
      BY <2>3, <3>4, <2>1 DEF NodesStay
    <3> QED BY <3>1, <3>2, <3>3, <3>4
  <2>4. ASSUME NEW i \in Cursors, NEW p \in Objects, objs[p].alive, objs[p].block = cursor[i].block
        PROVE  IF cursor[i].at = 0 THEN kind = "map" => cursor[i].of = p
               ELSE \E e \in objs[p].elems : e.at = cursor[i].at /\ e.key = cursor[i].key
    <3>1. CASE p # o
      BY <2>4, <3>1, <2>1 DEF NodesStay
    <3>2. CASE p = o
      <4>1. obj[o].alive /\ obj[o].block = cursor[i].block /\ b = obj[o].block
        BY <2>4, <3>2, <1>1
      <4>2. obj[o].elems \subseteq objs[o].elems
        BY <4>1, <1>1, <1>6
      <4> QED BY <4>1, <4>2, <3>2, <2>1 DEF NodesStay
    <3> QED BY <3>1, <3>2
  <2>5. kind = "map" => \A p \in Objects : objs[p].alive => objs[p].block.to = p
    BY <2>1, <1>1 DEF NodesStay
  <2>6. NodesStay(objs, cursor)
    BY <2>2, <2>3, <2>4, <2>5 DEF NodesStay
  <2> QED BY <2>6, <1>2, <1>4, <1>6 DEF Sound
<1> QED BY <1>5, <1>6

\* One container goes away; its iterators are nobody's.
LEMMA BoxDies ==
  ASSUME NEW objs, NEW its, Sound(objs, its), NEW o \in Objects, objs[o].alive,
         NEW new, new \in [Objects -> Boxes], new[o] = Containers!Dead, \A p \in Objects : p # o => new[p] = objs[p],
         NEW its2, its2 \in [Cursors -> Spots],
         \A i \in Cursors :
           /\ its2[i].block = its[i].block /\ its2[i].of = its[i].of
           /\ its2[i].at = its[i].at /\ its2[i].key = its[i].key
           /\ its2[i].from = IF its[i].from = o THEN None ELSE its[i].from
  PROVE  Sound(new, its2)
<1>1. /\ BlocksApart(objs) /\ its \in [Cursors -> Spots]
      /\ kind = "vector" => VectorsFollow(objs, its)
      /\ kind # "vector" => NodesStay(objs, its)
  BY DEF Sound
<1>2. ~Containers!Dead.alive /\ IsFiniteSet(Containers!Dead.elems)
  BY FS_EmptySet DEF Containers!Dead
<1>3. new \in [Objects -> Boxes] /\ new[o] = Containers!Dead /\ \A p \in Objects : p # o => new[p] = objs[p]
  OBVIOUS
<1>4. \A p \in Objects : new[p].alive => p # o /\ objs[p].alive /\ new[p] = objs[p]
  BY <1>2, <1>3
<1>5. BlocksApart(new)
  <2>1. \A p \in Objects : IsFiniteSet(new[p].elems)
    BY <1>1, <1>2, <1>3 DEF BlocksApart
  <2>2. \A p \in Objects : new[p].alive => new[p].block # None
    BY <1>1, <1>4 DEF BlocksApart
  <2>3. \A p \in Objects : ~new[p].alive => new[p] = Containers!Dead
    BY <1>1, <1>3 DEF BlocksApart
  <2>4. \A p, q \in Objects : new[p].alive /\ new[q].alive /\ new[p].block = new[q].block => p = q
    BY <1>1, <1>4 DEF BlocksApart
  <2> QED BY <1>3, <2>1, <2>2, <2>3, <2>4 DEF BlocksApart
<1>6. CASE kind = "vector"
  <2>1. VectorsFollow(objs, its)
    BY <1>1, <1>6
  <2>2. \A p \in Objects : new[p].alive => new[p].block.to = p /\ Indexed(new[p].elems, Cardinality(new[p].elems))
    BY <2>1, <1>4 DEF VectorsFollow
  <2>3. ASSUME NEW i \in Cursors
        PROVE  its2[i].at >= 0 /\
          IF its2[i].from = None THEN \A p \in Objects : new[p].alive => new[p].block # its2[i].block
          ELSE new[its2[i].from].alive /\ its2[i].block = new[its2[i].from].block
    <3>1. its[i].at >= 0 /\
          IF its[i].from = None THEN \A p \in Objects : objs[p].alive => objs[p].block # its[i].block
          ELSE objs[its[i].from].alive /\ its[i].block = objs[its[i].from].block
      BY <2>1 DEF VectorsFollow
    <3>2. o # None
      BY NoneIsApart
    <3>3. CASE its[i].from = None
      <4>1. its2[i].from = None
        BY <3>2, <3>3
      <4> QED BY <4>1, <3>1, <3>3, <1>4
    <3>4. CASE its[i].from = o
      <4>1. its2[i].from = None /\ its2[i].block = objs[o].block
        BY <3>1, <3>2, <3>4
      <4>2. \A p \in Objects : new[p].alive => new[p].block # objs[o].block
        BY <1>1, <1>4 DEF BlocksApart
      <4> QED BY <4>1, <4>2, <3>1
    <3>5. CASE its[i].from # None /\ its[i].from # o
      <4>1. its2[i].from = its[i].from /\ its[i].from \in Objects
        BY <3>5, <1>1 DEF Spots
      <4>2. new[its[i].from] = objs[its[i].from]
        BY <4>1, <3>5, <1>3
      <4> QED BY <4>1, <4>2, <3>1, <3>5
    <3> QED BY <3>3, <3>4, <3>5
  <2>4. VectorsFollow(new, its2)
    BY <2>2, <2>3 DEF VectorsFollow
  <2> QED BY <2>4, <1>5, <1>6 DEF Sound
<1>7. CASE kind # "vector"
  <2>1. NodesStay(objs, its)
    BY <1>1, <1>7
  <2>2. NodesStay(new, its2)
    <3>1. \A p \in Objects : new[p].alive => \A e \in new[p].elems : e.at > 0
      BY <2>1, <1>4 DEF NodesStay
    <3>2. \A p, q \in Objects : new[p].alive /\ new[q].alive =>
            \A e \in new[p].elems, d \in new[q].elems : e.at = d.at => p = q /\ e = d
      BY <2>1, <1>4 DEF NodesStay
    <3>3. \A i \in Cursors, p \in Objects : new[p].alive /\ new[p].block = its2[i].block =>
            IF its2[i].at = 0 THEN kind = "map" => its2[i].of = p
            ELSE \E e \in new[p].elems : e.at = its2[i].at /\ e.key = its2[i].key
      BY <2>1, <1>4 DEF NodesStay
    <3>4. kind = "map" => \A p \in Objects : new[p].alive => new[p].block.to = p
      BY <2>1, <1>4 DEF NodesStay
    <3> QED BY <3>1, <3>2, <3>3, <3>4 DEF NodesStay
  <2> QED BY <2>2, <1>5, <1>7 DEF Sound
<1> QED BY <1>6, <1>7

\* The iterators of a container that goes away, field by field.
LEMMA OrphansAre ==
  ASSUME cursor \in [Cursors -> Spots], NEW o \in Objects
  PROVE  /\ Containers!Orphaned(o) \in [Cursors -> Spots]
         /\ \A i \in Cursors :
              /\ Containers!Orphaned(o)[i].block = cursor[i].block /\ Containers!Orphaned(o)[i].of = cursor[i].of
              /\ Containers!Orphaned(o)[i].at = cursor[i].at /\ Containers!Orphaned(o)[i].key = cursor[i].key
              /\ Containers!Orphaned(o)[i].from = IF cursor[i].from = o THEN None ELSE cursor[i].from
<1>1. ASSUME NEW i \in Cursors
      PROVE  LET it == IF cursor[i].from = o THEN [cursor[i] EXCEPT !.from = None] ELSE cursor[i]
             IN  /\ it \in Spots /\ it.block = cursor[i].block /\ it.of = cursor[i].of
                 /\ it.at = cursor[i].at /\ it.key = cursor[i].key
                 /\ it.from = IF cursor[i].from = o THEN None ELSE cursor[i].from
  <2>1. cursor[i] \in Spots
    OBVIOUS
  <2> QED BY <2>1 DEF Spots
<1> QED BY <1>1 DEF Containers!Orphaned

\* One iterator is set to another place.
LEMMA CursorMoves ==
  ASSUME ContainersInv, NEW i \in Cursors, NEW it \in Spots,
         kind = "vector" => it.at >= 0 /\
           IF it.from = None THEN \A o \in Objects : obj[o].alive => obj[o].block # it.block
           ELSE obj[it.from].alive /\ it.block = obj[it.from].block,
         kind # "vector" => \A o \in Objects : obj[o].alive /\ obj[o].block = it.block =>
           IF it.at = 0 THEN kind = "map" => it.of = o
           ELSE \E e \in obj[o].elems : e.at = it.at /\ e.key = it.key
  PROVE  Sound(obj, [cursor EXCEPT ![i] = it])
<1> DEFINE its == [cursor EXCEPT ![i] = it]
<1>1. /\ BlocksApart(obj) /\ cursor \in [Cursors -> Spots]
      /\ kind = "vector" => VectorsFollow(obj, cursor)
      /\ kind # "vector" => NodesStay(obj, cursor)
  BY DEF ContainersInv, Sound
<1>2. its \in [Cursors -> Spots] /\ its[i] = it /\ \A j \in Cursors : j # i => its[j] = cursor[j]
  BY <1>1
<1> HIDE DEF its
<1>3. CASE kind = "vector"
  <2>1. VectorsFollow(obj, cursor)
    BY <1>1, <1>3
  <2>2. ASSUME NEW j \in Cursors
        PROVE  its[j].at >= 0 /\
          IF its[j].from = None THEN \A o \in Objects : obj[o].alive => obj[o].block # its[j].block
          ELSE obj[its[j].from].alive /\ its[j].block = obj[its[j].from].block
    <3>1. CASE j = i
      BY <3>1, <1>2, <1>3
    <3>2. CASE j # i
      BY <3>2, <1>2, <2>1 DEF VectorsFollow
    <3> QED BY <3>1, <3>2
  <2>3. VectorsFollow(obj, its)
    BY <2>1, <2>2 DEF VectorsFollow
  <2> QED BY <2>3, <1>1, <1>2, <1>3 DEF Sound, its
<1>4. CASE kind # "vector"
  <2>1. NodesStay(obj, cursor)
    BY <1>1, <1>4
  <2>2. ASSUME NEW j \in Cursors, NEW o \in Objects, obj[o].alive, obj[o].block = its[j].block
        PROVE  IF its[j].at = 0 THEN kind = "map" => its[j].of = o
               ELSE \E e \in obj[o].elems : e.at = its[j].at /\ e.key = its[j].key
    <3>1. CASE j = i
      BY <2>2, <3>1, <1>2, <1>4
    <3>2. CASE j # i
      <4>1. its[j] = cursor[j]
        BY <3>2, <1>2
      <4> QED BY <4>1, <2>2, <2>1 DEF NodesStay
    <3> QED BY <3>1, <3>2
  <2>3. NodesStay(obj, its)
    BY <2>1, <2>2 DEF NodesStay
  <2> QED BY <2>3, <1>1, <1>2, <1>4 DEF Sound, its
<1> QED BY <1>3, <1>4

\* The first of some elements is one of them.
LEMMA FirstIs ==
  ASSUME NEW elems \in SUBSET Elements, IsFiniteSet(elems), elems # {}
  PROVE  Containers!FirstOf(elems) \in elems
<1> DEFINE keys == {e.key : e \in elems}
<1>1. IsFiniteSet(keys) /\ keys \subseteq Int /\ keys # {}
  <2> DEFINE F == [e \in elems |-> e.key]
  <2>1. F \in Surjection(elems, keys)
    BY DEF Surjection
  <2>2. keys \subseteq Int
    BY DEF Elements
  <2> HIDE DEF F, keys
  <2>3. IsFiniteSet(keys)
    BY <2>1, FS_Surjection
  <2> QED BY <2>2, <2>3 DEF keys
<1>2. PICK m \in keys : \A k \in keys : m <= k
  BY <1>1, Least
<1>3. \E e \in elems : \A d \in elems : e.key <= d.key
  BY <1>2
<1> QED BY <1>3 DEF Containers!FirstOf

\* What a container with other elements is.
LEMMA BecomesIs ==
  ASSUME ContainersInv, NEW o \in Containers!Live, NEW b \in ControlBlocks, NEW elems \in SUBSET Elements,
         Containers!Becomes(o, b, elems)
  PROVE  /\ o \in Objects /\ obj[o].alive
         /\ obj' \in [Objects -> Boxes] /\ obj'[o] = Containers!Is(b, elems)
         /\ \A p \in Objects : p # o => obj'[p] = obj[p]
         /\ kind' = kind /\ cursor' = cursor
<1>1. obj \in [Objects -> Boxes] /\ o \in Objects /\ obj[o].alive
  BY DEF ContainersInv, Sound, BlocksApart, Containers!Live
<1>2. obj' = [obj EXCEPT ![o] = Containers!Is(b, elems)]
  BY DEF Containers!Becomes
<1>3. Containers!Is(b, elems) \in Boxes
  BY DEF Containers!Is, Boxes
<1> QED BY <1>1, <1>2, <1>3 DEF Containers!Becomes

\* A vector gets other elements.
LEMMA VectorChanges ==
  ASSUME ContainersInv, kind = "vector", NEW o \in Containers!Live, NEW elems \in SUBSET Elements,
         NEW n \in Nat, Indexed(elems, n), Containers!Becomes(o, obj[o].block, elems)
  PROVE  ContainersInv'
<1>1. IsFiniteSet(elems) /\ Cardinality(elems) = n
  BY IndexedCount
<1>2. o \in Objects /\ obj[o].alive /\ obj[o].block \in ControlBlocks /\ obj[o].block.to = o
  <2>1. o \in Objects /\ obj[o].alive /\ obj[o] \in Boxes
    BY DEF ContainersInv, Sound, BlocksApart, Containers!Live
  <2> QED BY <2>1 DEF ContainersInv, Sound, BlocksApart, VectorsFollow, Boxes
<1>3. /\ obj' \in [Objects -> Boxes] /\ obj'[o] = Containers!Is(obj[o].block, elems)
      /\ \A p \in Objects : p # o => obj'[p] = obj[p]
      /\ kind' = kind /\ cursor' = cursor
  BY <1>2, BecomesIs
<1>4. Sound(obj', cursor)
  BY <1>1, <1>2, <1>3, BoxChanges
<1>5. Sound(obj, cursor)'
  BY <1>3, <1>4 DEF Sound, VectorsFollow, NodesStay
<1> QED BY <1>3, <1>5 DEF ContainersInv

\* The elements that a vector has.
LEMMA VectorIs ==
  ASSUME ContainersInv, kind = "vector", NEW o \in Containers!Live
  PROVE  /\ obj[o].elems \in SUBSET Elements /\ Containers!Size(o) \in Nat
         /\ Indexed(obj[o].elems, Containers!Size(o))
<1>1. o \in Objects /\ obj[o].alive
  BY DEF Containers!Live
<1>2. obj[o].elems \in SUBSET Elements /\ IsFiniteSet(obj[o].elems)
  BY <1>1 DEF ContainersInv, Sound, BlocksApart, Boxes
<1>3. Containers!Size(o) = Cardinality(obj[o].elems)
  BY ContainersCardinality DEF Containers!Size
<1> QED BY <1>1, <1>2, <1>3, FS_CardinalityType DEF ContainersInv, Sound, VectorsFollow

\* push_back(), assign() and resize(): the gap up to a new element is filled.
LEMMA VectorAssigns ==
  ASSUME ContainersInv, NEW o \in Objects, NEW at \in Nat, NEW k \in Keys, Containers!Assign(o, at, k)
  PROVE  ContainersInv'
<1> DEFINE n == Containers!Size(o)
           m == IF at < n THEN n ELSE at + 1
           S == obj[o].elems
           T == {e \in S : e.at # at} \cup {[at |-> at, key |-> k]} \cup {[at |-> j, key |-> 0] : j \in n .. at - 1}
<1>1. kind = "vector" /\ o \in Containers!Live /\ Containers!Becomes(o, obj[o].block, T)
  BY DEF Containers!Assign, Containers!Element
<1>2. S \in SUBSET Elements /\ n \in Nat /\ Indexed(S, n) /\ k \in Nat
  BY <1>1, VectorIs, ContainersAssumption
<1> HIDE DEF n, S
<1>3. \A e \in S : e \in Elements /\ e.at \in Nat /\ e.at < n
  BY <1>2 DEF Indexed, Elements
<1>4. m \in Nat /\ at < m /\ n <= m /\ (at < n => m = n) /\ (~(at < n) => m = at + 1)
  BY <1>2
<1>5. T \in SUBSET Elements
  BY <1>2 DEF Elements
<1>6. \A e \in T : \/ (e \in S /\ e.at # at)
                   \/ e = [at |-> at, key |-> k]
                   \/ \E j \in n .. at - 1 : e = [at |-> j, key |-> 0]
  OBVIOUS
<1>7. \A e \in T : e.at < m
  <2> SUFFICES ASSUME NEW e \in T PROVE e.at < m
    OBVIOUS
  <2>1. CASE e \in S
    BY <2>1, <1>2, <1>3, <1>4
  <2>2. CASE e = [at |-> at, key |-> k]
    BY <2>2, <1>4
  <2>3. ASSUME NEW j \in n .. at - 1, e = [at |-> j, key |-> 0] PROVE e.at < m
    BY <2>3, <1>2, <1>4
  <2> QED BY <1>6, <2>1, <2>2, <2>3
<1>8. ASSUME NEW j \in 0 .. m-1 PROVE \E e \in T : e.at = j
  <2>1. CASE j = at
    <3>1. [at |-> at, key |-> k] \in T /\ [at |-> at, key |-> k].at = j
      BY <2>1
    <3> QED BY <3>1
  <2>2. CASE j # at /\ j < n
    <3>1. j \in 0 .. n-1
      BY <2>2, <1>2, <1>4
    <3>2. PICK e \in S : e.at = j
      BY <3>1, <1>2 DEF Indexed
    <3>3. e \in T
      BY <3>2, <2>2
    <3> QED BY <3>2, <3>3
  <2>3. CASE j # at /\ ~(j < n)
    <3>1. j \in n .. at - 1
      BY <2>3, <1>2, <1>4
    <3>2. [at |-> j, key |-> 0] \in T /\ [at |-> j, key |-> 0].at = j
      BY <3>1
    <3> QED BY <3>2
  <2> QED BY <2>1, <2>2, <2>3
<1>9. ASSUME NEW e \in T, NEW d \in T, e.at = d.at PROVE e = d
  <2>1. e \in S /\ d \in S => e = d
    BY <1>2, <1>9 DEF Indexed
  <2>2. ASSUME NEW x \in T, x \notin S
        PROVE  \/ x.at = at /\ x = [at |-> at, key |-> k]
               \/ x.at \in n .. at - 1 /\ x = [at |-> x.at, key |-> 0]
    <3>1. CASE x = [at |-> at, key |-> k]
      BY <3>1
    <3>2. ASSUME NEW j \in n .. at - 1, x = [at |-> j, key |-> 0]
          PROVE  x.at \in n .. at - 1 /\ x = [at |-> x.at, key |-> 0]
      BY <3>2
    <3> QED BY <1>6, <2>2, <3>1, <3>2
  <2>3. \A x \in T : x \in S /\ x \notin {[at |-> at, key |-> k]} \cup {[at |-> j, key |-> 0] : j \in n .. at - 1} => x.at # at
    BY <1>6
  <2>4. CASE e \in S /\ d \in S
    BY <2>1, <2>4
  <2>5. CASE e \notin S /\ d \notin S
    <3>1. e.at = at \/ e.at \in n .. at - 1
      BY <2>2, <2>5
    <3>2. e.at \in n .. at - 1 => e.at # at
      BY <1>2
    <3> QED BY <2>2, <2>5, <1>9, <3>1, <3>2
  <2>6. ASSUME NEW x \in S, NEW y \in T, x \in T, y \notin S, x.at = y.at PROVE x = y
    <3>1. x.at \in Nat /\ x.at < n
      BY <1>3
    <3>2. y.at \notin n .. at - 1
      BY <3>1, <2>6, <1>2
    <3>3. y.at = at /\ y = [at |-> at, key |-> k]
      BY <2>2, <2>6, <3>2
    <3>4. \/ x.at # at \/ x = [at |-> at, key |-> k] \/ \E j \in n .. at - 1 : x = [at |-> j, key |-> 0]
      BY <1>6, <2>6
    <3>5. \A j \in n .. at - 1 : x # [at |-> j, key |-> 0]
      BY <3>1, <1>2
    <3> QED BY <2>6, <3>3, <3>4, <3>5
  <2>7. CASE e \in S /\ d \notin S
    BY <2>6, <2>7, <1>9
  <2>8. CASE e \notin S /\ d \in S
    BY <2>6, <2>8, <1>9
  <2> QED BY <2>4, <2>5, <2>7, <2>8
<1> HIDE DEF T, m
<1>10. Indexed(T, m)
  BY <1>7, <1>8, <1>9 DEF Indexed
<1> QED BY <1>1, <1>4, <1>5, <1>10, VectorChanges

\* pop_back() takes away the last index.
LEMMA VectorPops ==
  ASSUME ContainersInv, NEW o \in Objects, Containers!PopBack(o)
  PROVE  ContainersInv'
<1> DEFINE n == Containers!Size(o)
           S == obj[o].elems
           T == {e \in S : e.at # n - 1}
<1>1. kind = "vector" /\ o \in Containers!Live /\ n > 0 /\ Containers!Becomes(o, obj[o].block, T)
  BY DEF Containers!PopBack
<1>2. S \in SUBSET Elements /\ n \in Nat /\ Indexed(S, n)
  BY <1>1, VectorIs
<1> HIDE DEF n, S
<1>3. \A e \in S : e.at \in Nat /\ e.at < n
  BY <1>2 DEF Indexed, Elements
<1>4. Indexed(T, n - 1)
  <2>1. \A e \in T : e.at < n - 1
    BY <1>2, <1>3
  <2>2. ASSUME NEW j \in 0 .. (n-1)-1 PROVE \E e \in T : e.at = j
    <3>1. j \in 0 .. n-1 /\ j # n - 1
      BY <1>2
    <3> QED BY <3>1, <1>2 DEF Indexed
  <2>3. \A e, d \in T : e.at = d.at => e = d
    BY <1>2 DEF Indexed
  <2> QED BY <2>1, <2>2, <2>3 DEF Indexed
<1>5. n - 1 \in Nat /\ T \in SUBSET Elements
  BY <1>1, <1>2
<1> HIDE DEF T
<1> QED BY <1>1, <1>4, <1>5, VectorChanges

\* insert() moves up what is behind the iterator.
LEMMA VectorInserts ==
  ASSUME ContainersInv, NEW o \in Objects, NEW i \in Cursors, NEW k \in Keys, Containers!InsertBefore(o, i, k)
  PROVE  ContainersInv'
<1> DEFINE n == Containers!Size(o)
           S == obj[o].elems
           a == cursor[i].at
           Moved(e) == IF e.at < a THEN e ELSE [at |-> e.at + 1, key |-> e.key]
           x == [at |-> a, key |-> k]
           T == {Moved(e) : e \in S} \cup {x}
<1>1. kind = "vector" /\ o \in Containers!Live /\ a <= n /\ Containers!Becomes(o, obj[o].block, T)
  BY DEF Containers!InsertBefore, Containers!Element
<1>2. S \in SUBSET Elements /\ n \in Nat /\ Indexed(S, n) /\ k \in Nat
  BY <1>1, VectorIs, ContainersAssumption
<1>3. a \in Nat
  BY <1>1 DEF ContainersInv, Sound, VectorsFollow, Spots
<1> HIDE DEF n, S, a
<1>4. ASSUME NEW e \in S
      PROVE  /\ e \in Elements /\ e.at \in Nat /\ e.at < n
             /\ Moved(e) \in Elements /\ Moved(e).at \in Nat /\ Moved(e).at < n + 1 /\ Moved(e).at # a
             /\ e.at < a => Moved(e).at = e.at
             /\ ~(e.at < a) => Moved(e).at = e.at + 1
  <2>1. e \in Elements /\ e.at \in Nat /\ e.key \in Nat /\ e.at < n
    BY <1>2 DEF Indexed, Elements
  <2>2. [at |-> e.at + 1, key |-> e.key] \in Elements
    BY <2>1 DEF Elements
  <2> QED BY <2>1, <2>2, <1>2, <1>3
<1>5. x \in Elements /\ x.at = a
  BY <1>2, <1>3 DEF Elements
<1> HIDE DEF x, Moved
<1>6. \A e \in T : e \in Elements /\ e.at < n + 1
  BY <1>1, <1>2, <1>3, <1>4, <1>5
<1>7. ASSUME NEW j \in 0 .. (n+1)-1 PROVE \E e \in T : e.at = j
  <2>1. CASE j < a
    <3>1. j \in 0 .. n-1
      BY <2>1, <1>1, <1>2, <1>3
    <3>2. PICK e \in S : e.at = j
      BY <3>1, <1>2 DEF Indexed
    <3>3. Moved(e) \in T /\ Moved(e).at = j
      BY <3>2, <2>1, <1>4
    <3> QED BY <3>3
  <2>2. CASE j = a
    BY <2>2, <1>5
  <2>3. CASE j > a
    <3>1. j - 1 \in 0 .. n-1 /\ ~(j - 1 < a)
      BY <2>3, <1>1, <1>2, <1>3
    <3>2. PICK e \in S : e.at = j - 1
      BY <3>1, <1>2 DEF Indexed
    <3>3. Moved(e) \in T /\ Moved(e).at = j
      BY <3>1, <3>2, <1>2, <1>4
    <3> QED BY <3>3
  <2> QED BY <2>1, <2>2, <2>3, <1>2, <1>3
<1>8. ASSUME NEW e \in T, NEW d \in T, e.at = d.at PROVE e = d
  <2>1. ASSUME NEW p \in S, NEW q \in S, Moved(p).at = Moved(q).at PROVE p = q
    <3>1. p.at = q.at
      BY <2>1, <1>4, <1>3
    <3> QED BY <3>1, <1>2 DEF Indexed
  <2>2. CASE e = x /\ d = x
    BY <2>2
  <2>3. ASSUME NEW p \in S, e = Moved(p), d = x PROVE e = d
    BY <2>3, <1>4, <1>5, <1>8
  <2>4. ASSUME NEW q \in S, e = x, d = Moved(q) PROVE e = d
    BY <2>4, <1>4, <1>5, <1>8
  <2>5. ASSUME NEW p \in S, NEW q \in S, e = Moved(p), d = Moved(q) PROVE e = d
    <3>1. p = q
      BY <2>1, <2>5, <1>8
    <3> QED BY <3>1, <2>5
  <2> QED BY <2>2, <2>3, <2>4, <2>5
<1> HIDE DEF T
<1>9. Indexed(T, n + 1)
  BY <1>6, <1>7, <1>8 DEF Indexed
<1>10. n + 1 \in Nat /\ T \in SUBSET Elements
  BY <1>2, <1>6
<1> QED BY <1>1, <1>9, <1>10, VectorChanges

\* Concatenation (operator+=) adds the other vector's elements behind the last one.
LEMMA VectorExtends ==
  ASSUME ContainersInv, NEW o \in Objects, NEW p \in Objects, Containers!Extend(o, p)
  PROVE  ContainersInv'
<1> DEFINE n == Containers!Size(o)
           m == Containers!Size(p)
           S == obj[o].elems
           R == obj[p].elems
           Moved(e) == [at |-> e.at + n, key |-> e.key]
           T == S \cup {Moved(e) : e \in R}
<1>1. kind = "vector" /\ o \in Containers!Live /\ p \in Containers!Live /\ Containers!Becomes(o, obj[o].block, T)
  BY DEF Containers!Extend, Containers!Element
<1>2. S \in SUBSET Elements /\ n \in Nat /\ Indexed(S, n) /\ R \in SUBSET Elements /\ m \in Nat /\ Indexed(R, m)
  BY <1>1, VectorIs
<1> HIDE DEF n, S, m, R
<1>3. \A e \in S : e \in Elements /\ e.at \in Nat /\ e.at < n
  BY <1>2 DEF Indexed, Elements
<1>4. ASSUME NEW e \in R
      PROVE  /\ e.at \in Nat /\ e.at < m
             /\ Moved(e) \in Elements /\ Moved(e).at = e.at + n
  <2>1. e.at \in Nat /\ e.key \in Nat /\ e.at < m
    BY <1>2 DEF Indexed, Elements
  <2> QED BY <2>1, <1>2 DEF Elements
<1>5. \A e \in T : e \in Elements /\ e.at < n + m
  BY <1>2, <1>3, <1>4
<1>6. ASSUME NEW j \in 0 .. (n+m)-1 PROVE \E e \in T : e.at = j
  <2>1. CASE j < n
    <3>1. j \in 0 .. n-1
      BY <2>1, <1>2
    <3> QED BY <3>1, <1>2 DEF Indexed
  <2>2. CASE ~(j < n)
    <3>1. j - n \in 0 .. m-1
      BY <2>2, <1>2
    <3>2. PICK e \in R : e.at = j - n
      BY <3>1, <1>2 DEF Indexed
    <3>3. Moved(e) \in T /\ Moved(e).at = j
      BY <3>2, <1>2, <1>4
    <3> QED BY <3>3
  <2> QED BY <2>1, <2>2
<1>7. ASSUME NEW e \in T, NEW d \in T, e.at = d.at PROVE e = d
  <2>1. CASE e \in S /\ d \in S
    BY <2>1, <1>2, <1>7 DEF Indexed
  <2>2. ASSUME NEW u \in R, NEW v \in R, e = Moved(u), d = Moved(v) PROVE e = d
    <3>1. u.at = v.at
      BY <2>2, <1>2, <1>4, <1>7
    <3>2. u = v
      BY <3>1, <1>2 DEF Indexed
    <3> QED BY <3>2, <2>2
  <2>3. ASSUME NEW u \in R, e = Moved(u), d \in S PROVE FALSE
    BY <2>3, <1>2, <1>3, <1>4, <1>7
  <2>4. ASSUME NEW v \in R, d = Moved(v), e \in S PROVE FALSE
    BY <2>4, <1>2, <1>3, <1>4, <1>7
  <2> QED BY <2>1, <2>2, <2>3, <2>4
<1> HIDE DEF T
<1>8. Indexed(T, n + m)
  BY <1>5, <1>6, <1>7 DEF Indexed
<1>9. n + m \in Nat /\ T \in SUBSET Elements
  BY <1>2, <1>5
<1> QED BY <1>1, <1>8, <1>9, VectorChanges

\* A container that is gone, for a solver.
LEMMA DeadPut ==
  ASSUME NEW objs, objs \in [Objects -> Boxes], NEW o \in Objects
  PROVE  /\ [objs EXCEPT ![o] = Containers!Dead] \in [Objects -> Boxes]
         /\ [objs EXCEPT ![o] = Containers!Dead][o] = Containers!Dead
         /\ \A p \in Objects : p # o => [objs EXCEPT ![o] = Containers!Dead][p] = objs[p]
<1>1. Containers!Dead \in Boxes
  BY DEF Containers!Dead, Boxes
<1> QED BY <1>1

\* The step leads to what satisfies the invariant.
LEMMA SoundNext ==
  ASSUME kind \in {"vector", "set", "map"}, kind' = kind, NEW objs, NEW its, Sound(objs, its),
         obj' = objs, cursor' = its
  PROVE  ContainersInv'
<1>1. Sound(obj, cursor)'
  BY DEF Sound, VectorsFollow, NodesStay
<1> QED BY <1>1 DEF ContainersInv

\* The containers, as far as their types go.
LEMMA BoxFacts ==
  ASSUME ContainersInv
  PROVE  /\ kind \in {"vector", "set", "map"} /\ cursor \in [Cursors -> Spots]
         /\ obj \in [Objects -> Boxes] /\ Containers!Live \subseteq Objects
         /\ \A o \in Objects : o \in Containers!Live <=> obj[o].alive
         /\ \A o \in Objects : obj[o].elems \in SUBSET Elements /\ IsFiniteSet(obj[o].elems)
         /\ \A o \in Objects : obj[o].alive => obj[o].block \in ControlBlocks
         /\ \A o, p \in Objects : obj[o].alive /\ obj[p].alive /\ obj[o].block = obj[p].block => o = p
         /\ kind = "vector" => VectorsFollow(obj, cursor)
         /\ kind # "vector" => NodesStay(obj, cursor)
<1>1. \A o \in Objects : obj[o].elems \in SUBSET Elements /\ obj[o].block \in ControlBlocks \cup {None}
  BY DEF ContainersInv, Sound, BlocksApart, Boxes
<1> QED BY <1>1 DEF ContainersInv, Sound, BlocksApart, Containers!Live

\* A container that becomes another, for a solver.
LEMMA BoxPut ==
  ASSUME ContainersInv, NEW o \in Objects, NEW b \in ControlBlocks, NEW elems \in SUBSET Elements
  PROVE  LET objs == [obj EXCEPT ![o] = Containers!Is(b, elems)]
         IN  /\ objs \in [Objects -> Boxes] /\ objs[o] = Containers!Is(b, elems)
             /\ \A p \in Objects : p # o => objs[p] = obj[p]
<1>1. Containers!Is(b, elems) \in Boxes
  BY DEF Containers!Is, Boxes
<1>2. obj \in [Objects -> Boxes]
  BY BoxFacts
<1> QED BY <1>1, <1>2

\* An empty vector has no indices.
LEMMA EmptyIndexed == IsFiniteSet({}) /\ Indexed({}, Cardinality({})) /\ Indexed({}, 0)
BY FS_EmptySet DEF Indexed

\* A vector's elements and block, and those iterators that no vector has made.
LEMMA VectorIndexed ==
  ASSUME ContainersInv, kind = "vector", NEW o \in Objects, obj[o].alive
  PROVE  /\ Indexed(obj[o].elems, Cardinality(obj[o].elems)) /\ obj[o].block.to = o
         /\ \A i \in Cursors : cursor[i].from = None => cursor[i].block # obj[o].block
BY BoxFacts DEF VectorsFollow

\* A new container has a block of its own.
LEMMA NewKeepsSound ==
  ASSUME ContainersInv, NEW o \in Objects, Containers!New(o)
  PROVE  ContainersInv'
<1> DEFINE b == Containers!NewBlock(o)
           objs == [obj EXCEPT ![o] = Containers!Is(b, {})]
<1>1. /\ b \in ControlBlocks /\ b.to = o
      /\ \A p \in Objects : obj[p].alive => obj[p].block # b
      /\ \A i \in Cursors : cursor[i].block # b
  BY BlockIsNew
<1>2. ~obj[o].alive /\ obj' = objs /\ kind' = kind /\ cursor' = cursor
  BY BoxFacts DEF Containers!New
<1> HIDE DEF b
<1>3. /\ objs \in [Objects -> Boxes] /\ objs[o] = Containers!Is(b, {})
      /\ \A p \in Objects : p # o => objs[p] = obj[p]
  BY <1>1, BoxPut
<1> HIDE DEF objs
<1>4. Sound(objs, cursor)
  BY <1>1, <1>2, <1>3, EmptyIndexed, BoxChanges
<1> QED BY <1>2, <1>4, BoxFacts, SoundNext

\* The copy of a vector has a block of its own (the copy constructor of Vector).
LEMMA CopyKeepsSound ==
  ASSUME ContainersInv, NEW o \in Objects, NEW p \in Objects, Containers!Copy(o, p)
  PROVE  ContainersInv'
<1> DEFINE b == Containers!NewBlock(o)
           elems == obj[p].elems
           objs == [obj EXCEPT ![o] = Containers!Is(b, elems)]
<1>1. /\ b \in ControlBlocks /\ b.to = o
      /\ \A q \in Objects : obj[q].alive => obj[q].block # b
      /\ \A i \in Cursors : cursor[i].block # b
  BY BlockIsNew
<1>2. kind = "vector" /\ ~obj[o].alive /\ obj[p].alive
  BY BoxFacts DEF Containers!Copy
<1>3. obj' = objs /\ kind' = kind /\ cursor' = cursor
  BY <1>2 DEF Containers!Copy, Containers!CopyBlock, Containers!Copied
<1>4. elems \in SUBSET Elements /\ IsFiniteSet(elems) /\ Indexed(elems, Cardinality(elems))
  BY <1>2, BoxFacts, VectorIndexed
<1> HIDE DEF b, elems
<1>5. /\ objs \in [Objects -> Boxes] /\ objs[o] = Containers!Is(b, elems)
      /\ \A q \in Objects : q # o => objs[q] = obj[q]
  BY <1>1, <1>4, BoxPut
<1> HIDE DEF objs
<1>6. Sound(objs, cursor)
  BY <1>1, <1>2, <1>4, <1>5, BoxChanges
<1> QED BY <1>3, <1>6, BoxFacts, SoundNext

\* Assignment leaves a vector its block.
LEMMA CopyAssignKeepsSound ==
  ASSUME ContainersInv, NEW o \in Objects, NEW p \in Objects, Containers!CopyAssign(o, p)
  PROVE  ContainersInv'
<1> DEFINE b == obj[o].block
           elems == obj[p].elems
           objs == [obj EXCEPT ![o] = Containers!Is(b, elems)]
<1>1. kind = "vector" /\ obj[o].alive /\ obj[p].alive
  BY BoxFacts DEF Containers!CopyAssign
<1>2. b \in ControlBlocks /\ b.to = o
  BY <1>1, BoxFacts, VectorIndexed
<1>3. obj' = objs /\ kind' = kind /\ cursor' = cursor
  BY <1>1, BoxFacts DEF Containers!CopyAssign, Containers!Copied
<1>4. elems \in SUBSET Elements /\ IsFiniteSet(elems) /\ Indexed(elems, Cardinality(elems))
  BY <1>1, BoxFacts, VectorIndexed
<1>5. obj[o].alive /\ b = obj[o].block
  BY <1>1
<1> HIDE DEF b, elems
<1>6. /\ objs \in [Objects -> Boxes] /\ objs[o] = Containers!Is(b, elems)
      /\ \A q \in Objects : q # o => objs[q] = obj[q]
  BY <1>2, <1>4, BoxPut
<1> HIDE DEF objs
<1>7. Sound(objs, cursor)
  BY <1>1, <1>2, <1>4, <1>5, <1>6, BoxChanges
<1> QED BY <1>3, <1>7, BoxFacts, SoundNext

\* So does assignment from a temporary, which is gone afterwards.
LEMMA MoveKeepsSound ==
  ASSUME ContainersInv, NEW o \in Objects, NEW p \in Objects, Containers!Move(o, p)
  PROVE  ContainersInv'
<1> DEFINE b == IF o \in Containers!Live THEN obj[o].block ELSE Containers!NewBlock(o)
           elems == obj[p].elems
           objs == [obj EXCEPT ![o] = Containers!Is(b, elems)]
<1>1. kind = "vector" /\ obj[p].alive /\ o # p
  BY BoxFacts DEF Containers!Move
<1>2. /\ b \in ControlBlocks /\ b.to = o
      /\ \/ obj[o].alive /\ b = obj[o].block
         \/ (\A q \in Objects : obj[q].alive => obj[q].block # b) /\ (\A i \in Cursors : cursor[i].block # b)
      /\ obj[o].alive => b = obj[o].block
  <2>1. CASE o \in Containers!Live
    BY <2>1, <1>1, BoxFacts, VectorIndexed
  <2>2. CASE o \notin Containers!Live
    <3>1. ~obj[o].alive /\ b = Containers!NewBlock(o)
      BY <2>2, BoxFacts
    <3> QED BY <3>1, BlockIsNew
  <2> QED BY <2>1, <2>2
<1>3. /\ obj' = [objs EXCEPT ![p] = Containers!Dead]
      /\ cursor' = Containers!Orphaned(p) /\ kind' = kind
  <2>1. obj \in [Objects -> Boxes]
    BY BoxFacts
  <2> QED BY <2>1, <1>1 DEF Containers!Move
<1>4. elems \in SUBSET Elements /\ IsFiniteSet(elems) /\ Indexed(elems, Cardinality(elems))
  BY <1>1, BoxFacts, VectorIndexed
<1> HIDE DEF b, elems
<1>5. /\ objs \in [Objects -> Boxes] /\ objs[o] = Containers!Is(b, elems)
      /\ \A q \in Objects : q # o => objs[q] = obj[q]
  BY <1>2, <1>4, BoxPut
<1> HIDE DEF objs
<1>6. Sound(objs, cursor)
  BY <1>1, <1>2, <1>4, <1>5, BoxChanges
<1>7. objs[p].alive
  BY <1>1, <1>5
<1>8. /\ Containers!Orphaned(p) \in [Cursors -> Spots]
      /\ \A i \in Cursors :
           /\ Containers!Orphaned(p)[i].block = cursor[i].block /\ Containers!Orphaned(p)[i].of = cursor[i].of
           /\ Containers!Orphaned(p)[i].at = cursor[i].at /\ Containers!Orphaned(p)[i].key = cursor[i].key
           /\ Containers!Orphaned(p)[i].from = IF cursor[i].from = p THEN None ELSE cursor[i].from
  BY BoxFacts, OrphansAre
<1>9. obj' \in [Objects -> Boxes] /\ obj'[p] = Containers!Dead /\ \A q \in Objects : q # p => obj'[q] = objs[q]
  BY <1>3, <1>5, DeadPut
<1>10. Sound(obj', Containers!Orphaned(p))
  BY <1>6, <1>7, <1>8, <1>9, BoxDies
<1> QED BY <1>3, <1>10, BoxFacts, SoundNext

\* Nothing is locked any more by the iterators of what is destroyed.
LEMMA DestroyKeepsSound ==
  ASSUME ContainersInv, NEW o \in Objects, Containers!Destroy(o)
  PROVE  ContainersInv'
<1>1. /\ obj[o].alive /\ obj' = [obj EXCEPT ![o] = Containers!Dead]
      /\ cursor' = Containers!Orphaned(o) /\ kind' = kind
  BY BoxFacts DEF Containers!Destroy
<1>2. /\ Containers!Orphaned(o) \in [Cursors -> Spots]
      /\ \A i \in Cursors :
           /\ Containers!Orphaned(o)[i].block = cursor[i].block /\ Containers!Orphaned(o)[i].of = cursor[i].of
           /\ Containers!Orphaned(o)[i].at = cursor[i].at /\ Containers!Orphaned(o)[i].key = cursor[i].key
           /\ Containers!Orphaned(o)[i].from = IF cursor[i].from = o THEN None ELSE cursor[i].from
  BY BoxFacts, OrphansAre
<1>3. Sound(obj, cursor)
  BY DEF ContainersInv
<1>4. obj' \in [Objects -> Boxes] /\ obj'[o] = Containers!Dead /\ \A q \in Objects : q # o => obj'[q] = obj[q]
  BY <1>1, BoxFacts, DeadPut
<1>5. obj[o].alive
  BY <1>1
<1>6. Sound(obj', Containers!Orphaned(o))
  BY <1>2, <1>3, <1>4, <1>5, BoxDies
<1> QED BY <1>1, <1>6, BoxFacts, SoundNext

\* A set or a map gets other elements.
LEMMA NodesChange ==
  ASSUME ContainersInv, kind # "vector", NEW o \in Containers!Live, NEW b \in ControlBlocks,
         NEW elems \in SUBSET Elements, IsFiniteSet(elems), Containers!Becomes(o, b, elems),
         \/ b = obj[o].block /\ obj[o].elems \subseteq elems
         \/ (\A p \in Objects : obj[p].alive => obj[p].block # b) /\ (\A i \in Cursors : cursor[i].block # b),
         kind = "map" => b.to = o,
         \A e \in elems : e.at > 0 /\ \A d \in elems : e.at = d.at => e = d,
         \A e \in elems, p \in Objects : p # o /\ obj[p].alive => \A d \in obj[p].elems : e.at # d.at
  PROVE  ContainersInv'
<1>1. /\ o \in Objects /\ obj[o].alive
      /\ obj' \in [Objects -> Boxes] /\ obj'[o] = Containers!Is(b, elems)
      /\ \A p \in Objects : p # o => obj'[p] = obj[p]
      /\ kind' = kind /\ cursor' = cursor
  BY BecomesIs
<1>2. Sound(obj', cursor)
  BY <1>1, BoxChanges
<1> QED BY <1>1, <1>2, BoxFacts, SoundNext

\* The elements that a set or a map has.
LEMMA NodesAre ==
  ASSUME ContainersInv, kind # "vector", NEW o \in Containers!Live
  PROVE  /\ o \in Objects /\ obj[o].alive /\ obj[o].block \in ControlBlocks
         /\ obj[o].elems \in SUBSET Elements /\ IsFiniteSet(obj[o].elems)
         /\ \A e \in obj[o].elems : e.at > 0 /\ \A d \in obj[o].elems : e.at = d.at => e = d
         /\ \A e \in obj[o].elems, p \in Objects : p # o /\ obj[p].alive => \A d \in obj[p].elems : e.at # d.at
         /\ kind = "map" => obj[o].block.to = o
<1>1. o \in Objects /\ obj[o].alive /\ NodesStay(obj, cursor)
  BY BoxFacts
<1>2. obj[o].block \in ControlBlocks /\ obj[o].elems \in SUBSET Elements /\ IsFiniteSet(obj[o].elems)
  BY <1>1, BoxFacts
<1> QED BY <1>1, <1>2 DEF NodesStay

\* A new node has an address of its own (Set::insert(), Map::index_assign()).
LEMMA InsertKeepsSound ==
  ASSUME ContainersInv, NEW o \in Objects, NEW k \in Keys, Containers!Insert(o, k)
  PROVE  ContainersInv'
<1> DEFINE a == Containers!NewAddress(k)
           x == [at |-> a, key |-> k]
           b == IF kind = "map" THEN Containers!NewBlock(o) ELSE obj[o].block
           S == obj[o].elems
<1>1. kind # "vector" /\ o \in Containers!Live /\ Containers!Becomes(o, b, S \cup {x})
  BY DEF Containers!Insert, Containers!Add, Containers!Element
<1>2. /\ a \in Nat /\ a > 0
      /\ \A p \in Objects : obj[p].alive => \A e \in obj[p].elems : e.at # a
  BY AddressIsNew
<1>3. /\ obj[o].alive /\ S \in SUBSET Elements /\ IsFiniteSet(S)
      /\ \A e \in S : e.at > 0 /\ \A d \in S : e.at = d.at => e = d
      /\ \A e \in S, p \in Objects : p # o /\ obj[p].alive => \A d \in obj[p].elems : e.at # d.at
  BY <1>1, NodesAre
<1>4. /\ b \in ControlBlocks /\ (kind = "map" => b.to = o)
      /\ \/ b = obj[o].block
         \/ (\A p \in Objects : obj[p].alive => obj[p].block # b) /\ (\A i \in Cursors : cursor[i].block # b)
  BY <1>1, NodesAre, BlockIsNew
<1>5. x \in Elements /\ x.at = a
  BY <1>2, ContainersAssumption DEF Elements
<1> HIDE DEF a, b, x
<1>6. S \cup {x} \in SUBSET Elements /\ IsFiniteSet(S \cup {x}) /\ S \subseteq S \cup {x}
  BY <1>3, <1>5, FS_AddElement
<1>7. \A e \in S \cup {x} : e.at > 0 /\ \A d \in S \cup {x} : e.at = d.at => e = d
  BY <1>2, <1>3, <1>5
<1>8. \A e \in S \cup {x}, p \in Objects : p # o /\ obj[p].alive => \A d \in obj[p].elems : e.at # d.at
  BY <1>2, <1>3, <1>5
<1> QED BY <1>1, <1>4, <1>6, <1>7, <1>8, NodesChange

\* Whoever was at an element that is erased has the block of nobody.
LEMMA EraseKeepsSound ==
  ASSUME ContainersInv, NEW o \in Objects, NEW k \in Keys, Containers!Erase(o, k)
  PROVE  ContainersInv'
<1> DEFINE b == IF kind = "map" THEN Containers!NewBlock(o) ELSE Containers!NewBlock(None)
           S == obj[o].elems
           T == {e \in S : e.key # k}
<1>1. kind # "vector" /\ o \in Containers!Live /\ Containers!Becomes(o, b, T)
  BY DEF Containers!Erase, Containers!Without
<1>2. /\ S \in SUBSET Elements /\ IsFiniteSet(S)
      /\ \A e \in S : e.at > 0 /\ \A d \in S : e.at = d.at => e = d
      /\ \A e \in S, p \in Objects : p # o /\ obj[p].alive => \A d \in obj[p].elems : e.at # d.at
  BY <1>1, NodesAre
<1>3. /\ b \in ControlBlocks /\ (kind = "map" => b.to = o)
      /\ (\A p \in Objects : obj[p].alive => obj[p].block # b) /\ (\A i \in Cursors : cursor[i].block # b)
  BY BlockIsNew
<1>4. T \in SUBSET S /\ T \in SUBSET Elements /\ IsFiniteSet(T)
  <2>1. T \in SUBSET S
    OBVIOUS
  <2> QED BY <2>1, <1>2, FS_Subset
<1> HIDE DEF b, T, S
<1> QED BY <1>1, <1>2, <1>3, <1>4, NodesChange

\* clear() empties a vector, which its iterators see, or takes a new block.
LEMMA ClearKeepsSound ==
  ASSUME ContainersInv, NEW o \in Objects, Containers!Clear(o)
  PROVE  ContainersInv'
<1>1. o \in Containers!Live
  BY DEF Containers!Clear
<1>2. CASE kind = "vector"
  <2>1. Containers!Becomes(o, obj[o].block, {})
    BY <1>2 DEF Containers!Clear
  <2>2. {} \in SUBSET Elements /\ 0 \in Nat
    OBVIOUS
  <2> QED BY <1>1, <1>2, <2>1, <2>2, EmptyIndexed, VectorChanges
<1>3. CASE kind # "vector"
  <2> DEFINE b == IF kind = "map" THEN Containers!NewBlock(o) ELSE Containers!NewBlock(None)
  <2>1. kind \in {"set", "map"}
    BY <1>3, BoxFacts
  <2>2. Containers!Becomes(o, b, {})
    BY <2>1 DEF Containers!Clear
  <2>3. /\ b \in ControlBlocks /\ (kind = "map" => b.to = o)
        /\ (\A p \in Objects : obj[p].alive => obj[p].block # b) /\ (\A i \in Cursors : cursor[i].block # b)
    BY BlockIsNew
  <2> HIDE DEF b
  <2>4. {} \in SUBSET Elements /\ IsFiniteSet({})
    BY EmptyIndexed
  <2> QED BY <1>1, <1>3, <2>2, <2>3, <2>4, NodesChange
<1> QED BY <1>2, <1>3

\* An iterator that is given a new place.
LEMMA CursorSet ==
  ASSUME ContainersInv, NEW i \in Cursors, NEW it \in Spots,
         cursor' = [cursor EXCEPT ![i] = it], kind' = kind, obj' = obj,
         kind = "vector" => it.at >= 0 /\
           IF it.from = None THEN \A o \in Objects : obj[o].alive => obj[o].block # it.block
           ELSE obj[it.from].alive /\ it.block = obj[it.from].block,
         kind # "vector" => \A o \in Objects : obj[o].alive /\ obj[o].block = it.block =>
           IF it.at = 0 THEN kind = "map" => it.of = o
           ELSE \E e \in obj[o].elems : e.at = it.at /\ e.key = it.key
  PROVE  ContainersInv'
<1>1. Sound(obj, [cursor EXCEPT ![i] = it])
  BY CursorMoves
<1> QED BY <1>1, BoxFacts, SoundNext

\* An iterator at the first of some elements of a set or a map, or at its end.
LEMMA AtFirstIs ==
  ASSUME ContainersInv, kind # "vector", NEW o \in Containers!Live, NEW b \in ControlBlocks \cup {None},
         b = obj[o].block \/ b = None, NEW S, S \subseteq obj[o].elems,
         NEW it \in Spots, it.block = b, it.of = o,
         it.at = Containers!AtFirst(b, o, S).at, it.key = Containers!AtFirst(b, o, S).key
  PROVE  \A p \in Objects : obj[p].alive /\ obj[p].block = it.block =>
           IF it.at = 0 THEN kind = "map" => it.of = p
           ELSE \E e \in obj[p].elems : e.at = it.at /\ e.key = it.key
<1> SUFFICES ASSUME NEW p \in Objects, obj[p].alive, obj[p].block = it.block
             PROVE  IF it.at = 0 THEN kind = "map" => it.of = p
                    ELSE \E e \in obj[p].elems : e.at = it.at /\ e.key = it.key
  OBVIOUS
<1>1. p = o
  BY BoxFacts, NoneIsApart
<1>2. CASE S = {}
  BY <1>1, <1>2 DEF Containers!AtFirst, Containers!Iterator, Containers!End
<1>3. CASE S # {}
  <2>1. S \in SUBSET Elements /\ IsFiniteSet(S)
    <3>1. obj[o].elems \in SUBSET Elements /\ IsFiniteSet(obj[o].elems)
      BY NodesAre
    <3> QED BY <3>1, FS_Subset
  <2>2. Containers!FirstOf(S) \in S
    BY <1>3, <2>1, FirstIs
  <2>3. it.at = Containers!FirstOf(S).at /\ it.key = Containers!FirstOf(S).key
    BY <1>3 DEF Containers!AtFirst, Containers!Iterator
  <2>4. Containers!FirstOf(S) \in obj[o].elems /\ Containers!FirstOf(S).at > 0
    BY <2>2, NodesAre
  <2>5. it.at # 0
    BY <2>3, <2>4
  <2> QED BY <1>1, <2>3, <2>4, <2>5
<1> QED BY <1>2, <1>3

\* The parts of such an iterator.
LEMMA AtFirstType ==
  ASSUME ContainersInv, NEW o \in Containers!Live, NEW b \in ControlBlocks \cup {None}, NEW S, S \subseteq obj[o].elems
  PROVE  /\ Containers!AtFirst(b, o, S) \in Spots
         /\ Containers!AtFirst(b, o, S).block = b /\ Containers!AtFirst(b, o, S).of = o
<1>1. o \in Objects
  BY BoxFacts
<1>2. CASE S = {}
  BY <1>1, <1>2 DEF Containers!AtFirst, Containers!Iterator, Spots, Containers!End
<1>3. CASE S # {}
  <2>1. S \in SUBSET Elements /\ IsFiniteSet(S)
    <3>1. obj[o].elems \in SUBSET Elements /\ IsFiniteSet(obj[o].elems)
      BY <1>1, BoxFacts
    <3> QED BY <3>1, FS_Subset
  <2>2. Containers!FirstOf(S) \in Elements
    BY <1>3, <2>1, FirstIs
  <2>3. Containers!FirstOf(S).at \in Int /\ Containers!FirstOf(S).key \in Nat
    BY <2>2 DEF Elements
  <2> QED BY <1>1, <1>3, <2>3 DEF Containers!AtFirst, Containers!Iterator, Spots
<1> QED BY <1>2, <1>3

\* begin().
LEMMA BeginKeepsSound ==
  ASSUME ContainersInv, NEW i \in Cursors, NEW o \in Objects, Containers!Begin(i, o)
  PROVE  ContainersInv'
<1>1. o \in Containers!Live /\ kind' = kind /\ obj' = obj
  BY DEF Containers!Begin
<1>2. CASE kind = "vector"
  <2> DEFINE it == Containers!Iterator(obj[o].block, o, 0, 0)
  <2>1. cursor' = [cursor EXCEPT ![i] = it]
    BY <1>2 DEF Containers!Begin
  <2>2. obj[o].alive /\ obj[o].block \in ControlBlocks /\ o # None
    BY <1>1, BoxFacts, NoneIsApart
  <2>3. it \in Spots /\ it.at = 0 /\ it.from = o /\ it.block = obj[o].block
    BY <2>2 DEF Containers!Iterator, Spots
  <2>4. it.at >= 0 /\
          IF it.from = None THEN \A p \in Objects : obj[p].alive => obj[p].block # it.block
          ELSE obj[it.from].alive /\ it.block = obj[it.from].block
    BY <2>2, <2>3
  <2> HIDE DEF it
  <2> QED BY <1>1, <1>2, <2>1, <2>3, <2>4, CursorSet
<1>3. CASE kind # "vector"
  <2> DEFINE b == Containers!BlockFor(o)
             it == Containers!AtFirst(b, o, obj[o].elems)
  <2>1. cursor' = [cursor EXCEPT ![i] = it]
    BY <1>3 DEF Containers!Begin
  <2>2. b \in ControlBlocks \cup {None} /\ (b = obj[o].block \/ b = None)
    BY <1>1, <1>3, NodesAre DEF Containers!BlockFor
  <2> HIDE DEF b
  <2>3. it \in Spots /\ it.block = b /\ it.of = o
    BY <1>1, <2>2, AtFirstType
  <2>4. \A p \in Objects : obj[p].alive /\ obj[p].block = it.block =>
          IF it.at = 0 THEN kind = "map" => it.of = p
          ELSE \E e \in obj[p].elems : e.at = it.at /\ e.key = it.key
    BY <1>1, <1>3, <2>2, <2>3, AtFirstIs
  <2> HIDE DEF it
  <2> QED BY <1>1, <1>3, <2>1, <2>3, <2>4, CursorSet
<1> QED BY <1>2, <1>3

\* end().
LEMMA EndKeepsSound ==
  ASSUME ContainersInv, NEW i \in Cursors, NEW o \in Objects, Containers!EndOf(i, o)
  PROVE  ContainersInv'
<1> DEFINE b == Containers!BlockFor(o)
           it == Containers!Iterator(b, o, IF kind = "vector" THEN Containers!Size(o) ELSE 0, 0)
<1>1. o \in Containers!Live /\ o \in Objects /\ kind' = kind /\ obj' = obj /\ cursor' = [cursor EXCEPT ![i] = it]
  BY DEF Containers!EndOf, Containers!End
<1>2. obj[o].alive /\ obj[o].block \in ControlBlocks /\ o # None
  BY <1>1, BoxFacts, NoneIsApart
<1>3. b \in ControlBlocks \cup {None} /\ (b = obj[o].block \/ b = None) /\ (kind = "vector" => b = obj[o].block)
  BY <1>2 DEF Containers!BlockFor
<1> HIDE DEF b
<1>4. kind = "vector" => Containers!Size(o) \in Nat
  BY <1>1, VectorIs
<1>5. /\ it \in Spots /\ it.of = o /\ it.from = o /\ it.block = b
      /\ it.at = IF kind = "vector" THEN Containers!Size(o) ELSE 0
  BY <1>1, <1>3, <1>4 DEF Containers!Iterator, Spots
<1> HIDE DEF it
<1>6. kind = "vector" => it.at >= 0 /\
        IF it.from = None THEN \A p \in Objects : obj[p].alive => obj[p].block # it.block
        ELSE obj[it.from].alive /\ it.block = obj[it.from].block
  BY <1>2, <1>3, <1>4, <1>5
<1>7. kind # "vector" => \A p \in Objects : obj[p].alive /\ obj[p].block = it.block => it.at = 0 /\ it.of = p
  <2> SUFFICES ASSUME kind # "vector", NEW p \in Objects, obj[p].alive, obj[p].block = it.block
               PROVE  it.at = 0 /\ it.of = p
    OBVIOUS
  <2>1. obj[p].block \in ControlBlocks /\ None \notin ControlBlocks
    BY BoxFacts, NoneIsApart
  <2>2. obj[p].block = obj[o].block
    BY <2>1, <1>3, <1>5
  <2>3. p = o
    BY <2>2, <1>1, <1>2, BoxFacts
  <2> QED BY <2>3, <1>5
<1> QED BY <1>1, <1>5, <1>6, <1>7, CursorSet

\* operator++(): the next element is found by the one that the iterator is at.
LEMMA AdvanceKeepsSound ==
  ASSUME ContainersInv, NEW i \in Cursors, Containers!Advance(i)
  PROVE  ContainersInv'
<1>1. kind' = kind /\ obj' = obj /\ cursor[i] \in Spots /\ cursor \in [Cursors -> Spots]
  BY BoxFacts DEF Containers!Advance
<1>2. CASE kind = "vector"
  <2> DEFINE it == [cursor[i] EXCEPT !.at = cursor[i].at + 1]
  <2>1. cursor' = [cursor EXCEPT ![i] = it]
    BY <1>1, <1>2 DEF Containers!Advance
  <2>2. cursor[i].at \in Int /\ cursor[i].at >= 0
    BY <1>1, <1>2, BoxFacts DEF VectorsFollow, Spots
  <2>3. /\ it \in Spots /\ it.block = cursor[i].block /\ it.from = cursor[i].from
        /\ it.at = cursor[i].at + 1
    BY <1>1, <2>2 DEF Spots
  <2>4. it.at >= 0
    BY <2>2, <2>3
  <2>5. IF cursor[i].from = None THEN \A p \in Objects : obj[p].alive => obj[p].block # cursor[i].block
        ELSE obj[cursor[i].from].alive /\ cursor[i].block = obj[cursor[i].from].block
    BY <1>2, BoxFacts DEF VectorsFollow
  <2> HIDE DEF it
  <2> QED BY <1>1, <1>2, <2>1, <2>3, <2>4, <2>5, CursorSet
<1>3. CASE kind # "vector"
  <2>1. Containers!Locked(i) /\ cursor[i].at > 0
    BY <1>3 DEF Containers!Advance, Containers!End
  <2>2. PICK o \in Objects : obj[o].alive /\ obj[o].block = cursor[i].block
    BY <2>1, BoxFacts DEF Containers!Locked
  <2>3. PICK e \in obj[o].elems : e.at = cursor[i].at /\ e.key = cursor[i].key
    <3>1. cursor[i].at # 0
      BY <2>1
    <3> QED BY <3>1, <2>2, <1>3, BoxFacts DEF NodesStay
  <2>4. o \in Containers!Live
    BY <2>2 DEF Containers!Live
  <2>5. Containers!Owners(i) = {o}
    <3>1. o \in Containers!Owners(i)
      BY <2>3, <2>4 DEF Containers!Owners
    <3>2. ASSUME NEW p \in Containers!Owners(i) PROVE p = o
      <4>1. p \in Containers!Live /\ \E d \in obj[p].elems : d.at = cursor[i].at
        BY DEF Containers!Owners
      <4>2. p \in Objects /\ obj[p].alive /\ NodesStay(obj, cursor)
        BY <4>1, <1>3, BoxFacts
      <4> QED BY <4>1, <4>2, <2>2, <2>3 DEF NodesStay
    <3> QED BY <3>1, <3>2
  <2> DEFINE rest == {d \in obj[o].elems : d.key > cursor[i].key}
             at == Containers!AtFirst(cursor[i].block, o, rest)
             it == [at EXCEPT !.from = cursor[i].from]
  <2>6. cursor' = [cursor EXCEPT ![i] = it]
    <3>1. (CHOOSE p \in Containers!Owners(i) : TRUE) = o
      BY <2>5
    <3>2. Containers!Owners(i) # {}
      BY <2>5
    <3>3. cursor' = [cursor EXCEPT ![i] =
             IF Containers!Owners(i) = {} THEN [cursor[i] EXCEPT !.at = -1]
             ELSE LET p == CHOOSE q \in Containers!Owners(i) : TRUE
                      left == {d \in obj[p].elems : d.key > cursor[i].key}
                  IN  [Containers!AtFirst(cursor[i].block, p, left) EXCEPT !.from = cursor[i].from]]
      BY <1>3 DEF Containers!Advance, Containers!Beyond
    <3> QED BY <3>1, <3>2, <3>3
  <2>7. rest \subseteq obj[o].elems /\ cursor[i].block \in ControlBlocks \cup {None}
    BY <1>1 DEF Spots
  <2> HIDE DEF rest
  <2>8. at \in Spots /\ at.block = cursor[i].block /\ at.of = o
    BY <2>4, <2>7, AtFirstType
  <2> HIDE DEF at
  <2>9. /\ it \in Spots /\ it.block = cursor[i].block /\ it.of = o
        /\ it.at = at.at /\ it.key = at.key
    BY <2>8, <1>1 DEF Spots
  <2> HIDE DEF it
  <2>10. it.at = Containers!AtFirst(cursor[i].block, o, rest).at /\ it.key = Containers!AtFirst(cursor[i].block, o, rest).key
    BY <2>9 DEF at
  <2>11. \A p \in Objects : obj[p].alive /\ obj[p].block = it.block =>
          IF it.at = 0 THEN kind = "map" => it.of = p
          ELSE \E d \in obj[p].elems : d.at = it.at /\ d.key = it.key
    BY <1>3, <2>2, <2>4, <2>7, <2>9, <2>10, AtFirstIs
  <2> QED BY <1>1, <1>3, <2>6, <2>9, <2>11, CursorSet
<1> QED BY <1>2, <1>3

\* Every step keeps the invariant.
LEMMA ContainersStep == ContainersInv /\ [Containers!Next]_Containers!vars => ContainersInv'
<1> SUFFICES ASSUME ContainersInv, [Containers!Next]_Containers!vars PROVE ContainersInv'
  OBVIOUS
<1>1. CASE UNCHANGED Containers!vars
  <2>1. kind' = kind /\ obj' = obj /\ cursor' = cursor
    BY <1>1 DEF Containers!vars
  <2>2. Sound(obj, cursor)
    BY DEF ContainersInv
  <2> QED BY <2>1, <2>2, BoxFacts, SoundNext
<1>2. ASSUME NEW o \in Objects, Containers!New(o) PROVE ContainersInv'
  BY <1>2, NewKeepsSound
<1>3. ASSUME NEW o \in Objects, Containers!Destroy(o) PROVE ContainersInv'
  BY <1>3, DestroyKeepsSound
<1>4. ASSUME NEW o \in Objects, Containers!Clear(o) PROVE ContainersInv'
  BY <1>4, ClearKeepsSound
<1>5. ASSUME NEW o \in Objects, Containers!PopBack(o) PROVE ContainersInv'
  BY <1>5, VectorPops
<1>6. ASSUME NEW o \in Objects, NEW p \in Objects, Containers!Copy(o, p) PROVE ContainersInv'
  BY <1>6, CopyKeepsSound
<1>7. ASSUME NEW o \in Objects, NEW p \in Objects, Containers!CopyAssign(o, p) PROVE ContainersInv'
  BY <1>7, CopyAssignKeepsSound
<1>8. ASSUME NEW o \in Objects, NEW p \in Objects, Containers!Move(o, p) PROVE ContainersInv'
  BY <1>8, MoveKeepsSound
<1>9. ASSUME NEW o \in Objects, NEW p \in Objects, Containers!Extend(o, p) PROVE ContainersInv'
  BY <1>9, VectorExtends
<1>10. ASSUME NEW o \in Objects, NEW k \in Keys, Containers!Insert(o, k) PROVE ContainersInv'
  BY <1>10, InsertKeepsSound
<1>11. ASSUME NEW o \in Objects, NEW k \in Keys, Containers!Erase(o, k) PROVE ContainersInv'
  BY <1>11, EraseKeepsSound
<1>12. ASSUME NEW o \in Objects, NEW k \in Keys, NEW at \in 0 .. MaxSize-1, Containers!Assign(o, at, k) PROVE ContainersInv'
  <2>1. at \in Nat
    OBVIOUS
  <2> QED BY <2>1, <1>12, VectorAssigns
<1>13. ASSUME NEW o \in Objects, NEW k \in Keys, NEW i \in Cursors, Containers!InsertBefore(o, i, k) PROVE ContainersInv'
  BY <1>13, VectorInserts
<1>14. ASSUME NEW i \in Cursors, Containers!Advance(i) PROVE ContainersInv'
  BY <1>14, AdvanceKeepsSound
<1>15. ASSUME NEW i \in Cursors, NEW o \in Objects, Containers!Begin(i, o) PROVE ContainersInv'
  BY <1>15, BeginKeepsSound
<1>16. ASSUME NEW i \in Cursors, NEW o \in Objects, Containers!EndOf(i, o) PROVE ContainersInv'
  BY <1>16, EndKeepsSound
<1> QED BY <1>1, <1>2, <1>3, <1>4, <1>5, <1>6, <1>7, <1>8, <1>9, <1>10, <1>11, <1>12, <1>13, <1>14, <1>15, <1>16
        DEF Containers!Next

-----------------------------------------------------------------------------
(******************************** References *******************************)
Refs == Vals \cup {Self} \cup Strongs \cup Weaks
Pointees == Cells \cup {0, None}
Contained == Contents \cup {None}

\* What a reference is made of, by its type; what is raw has been moved from, or is
\* the reference of the method that runs.
Shaped(reps, callee, gone) ==
  /\ reps \in [Refs -> [held : {"shared", "raw", "weak"}, to : Pointees]]
  /\ callee \in {None, 0} \cup Vals \cup Strongs \cup Weaks
  /\ gone \subseteq Vals
  /\ \A r \in Refs : r # Self => reps[r].to # 0
  /\ \A r \in Strongs : reps[r].held = "shared"
  /\ \A r \in Weaks : reps[r].held = "weak"
  /\ \A r \in Vals : reps[r].held # "shared" => reps[r].held = "raw" /\ reps[r].to = None /\ r \in gone
  /\ callee = None => reps[Self].held = "shared" /\ reps[Self].to = None
  /\ callee = 0 => reps[Self].held = "raw" /\ reps[Self].to = 0
  /\ callee \notin {None, 0} => reps[Self].held = "raw" /\ reps[Self].to \in Cells

\* References are kin if they refer to one value.
Kinship(reps, kins) ==
  /\ kins \in [Refs -> SUBSET Refs]
  /\ \A r, q \in Refs : q \in kins[r] <=> reps[r].to # None /\ reps[r].to = reps[q].to

RefsInv ==
  /\ Shaped(rep, via, moved) /\ Kinship(rep, kin)
  /\ content \in [Cells \cup {0} -> Contained] /\ content[0] # None
  /\ meant \in [Refs -> Contained]
  /\ \A c \in Cells : content[c] # None <=> \E r \in Refs : rep[r].held = "shared" /\ rep[r].to = c
  /\ \A r \in Refs : References!Alive(rep[r].to) => content[rep[r].to] = meant[r]

\* What the invariant rests on.
LEMMA RefAssumptions ==
  /\ None \notin Cells /\ None # 0 /\ 0 \notin Cells /\ None \notin Contents
  /\ None \notin Vals /\ None \notin Strongs /\ None \notin Weaks
  /\ 0 \notin Vals /\ 0 \notin Strongs /\ 0 \notin Weaks
  /\ Self \notin Vals /\ Self \notin Strongs /\ Self \notin Weaks
  /\ Vals \cap Strongs = {} /\ Vals \cap Weaks = {} /\ Strongs \cap Weaks = {}
<1>1. 0 \in Nat /\ None \notin Nat /\ \A c \in Cells : c \in Nat /\ c # 0
  BY ReferencesAssumption
<1>2. None \notin Cells /\ None # 0 /\ 0 \notin Cells
  BY <1>1
<1>3. Vals \cap Strongs = {} /\ Vals \cap Weaks = {} /\ Strongs \cap Weaks = {}
  BY ReferencesAssumption
<1>4. /\ None \notin Contents
      /\ None \notin Vals /\ None \notin Strongs /\ None \notin Weaks
      /\ 0 \notin Vals /\ 0 \notin Strongs /\ 0 \notin Weaks
      /\ Self \notin Vals /\ Self \notin Strongs /\ Self \notin Weaks
  BY ReferencesAssumption
<1> QED BY <1>2, <1>3, <1>4

\* The owners of a cell, for a solver.
LEMMA OwnersAre ==
  ASSUME NEW reps, reps \in [Refs -> [held : {"shared", "raw", "weak"}, to : Pointees]], NEW c
  PROVE  References!Owners(reps, c) # {} <=> \E r \in Refs : reps[r].held = "shared" /\ reps[r].to = c
<1>1. ASSUME NEW r \in Refs
      PROVE  reps[r] = References!Owns(c) <=> reps[r].held = "shared" /\ reps[r].to = c
  BY DEF References!Owns
<1>2. References!Refs = Refs
  BY DEF References!Refs, References!Values, Refs
<1> QED BY <1>1, <1>2 DEF References!Owners

\* A reference's value is there if one that shares it owns it, or it is that on which
\* the running method has been called.
LEMMA LiveIsAlive ==
  ASSUME RefsInv, NEW q \in Refs
  PROVE  References!Live(q) <=> References!Alive(rep[q].to)
<1> USE RefAssumptions DEF References!Inline
<1>1. /\ rep \in [Refs -> [held : {"shared", "raw", "weak"}, to : Pointees]]
      /\ \A r, p \in Refs : p \in kin[r] <=> rep[r].to # None /\ rep[r].to = rep[p].to
      /\ kin[q] \subseteq Refs
  BY DEF RefsInv, Shaped, Kinship
<1>2. ASSUME NEW p \in kin[q], p \in Vals \cup Strongs PROVE References!Alive(rep[q].to)
  <2>1. p \in Refs /\ rep[p].to = rep[q].to /\ rep[q].to # None
    BY <1>1
  <2>2. rep[p].held = "shared" /\ rep[p].to # 0
    BY <1>2, <2>1 DEF RefsInv, Shaped, Refs
  <2>3. rep[q].to \in Cells
    BY <2>1, <2>2, <1>1 DEF Pointees
  <2> QED BY <2>1, <2>2, <2>3 DEF RefsInv, References!Alive
<1>3. ASSUME via = 0, Self \in kin[q] PROVE References!Alive(rep[q].to)
  <2>1. rep[Self].to = 0 /\ rep[q].to = 0
    BY <1>3, <1>1 DEF RefsInv, Shaped, Refs
  <2> QED BY <2>1 DEF RefsInv, References!Alive
<1>4. ASSUME References!Alive(rep[q].to) PROVE References!Live(q)
  <2>1. rep[q].to # None /\ content[rep[q].to] # None
    BY <1>4 DEF References!Alive
  <2>2. CASE rep[q].to = 0
    <3>1. q = Self /\ via = 0
      BY <2>2 DEF RefsInv, Shaped, Refs
    <3> QED BY <3>1, <2>1, <1>1 DEF References!Live
  <2>3. CASE rep[q].to # 0
    <3>1. rep[q].to \in Cells
      BY <2>1, <2>3, <1>1 DEF Pointees
    <3>2. PICK p \in Refs : rep[p].held = "shared" /\ rep[p].to = rep[q].to
      BY <2>1, <3>1 DEF RefsInv
    <3>3. p # Self
      BY <3>1, <3>2 DEF RefsInv, Shaped
    <3>4. p \notin Weaks
      BY <3>2 DEF RefsInv, Shaped
    <3>5. p \in Vals \cup Strongs
      BY <3>3, <3>4 DEF Refs
    <3>6. p \in kin[q]
      BY <3>2, <2>1, <1>1
    <3> QED BY <3>5, <3>6 DEF References!Live
  <2> QED BY <2>2, <2>3
<1> QED BY <1>2, <1>3, <1>4 DEF References!Live

\* What is so of references that satisfy the invariant.
LEMMA ReferencesSafe == RefsInv => References!ReferencesAreSafe
<1> SUFFICES ASSUME RefsInv PROVE References!ReferencesAreSafe
  OBVIOUS
<1> USE RefAssumptions
<1>r. References!Refs = Refs /\ References!Values = Vals \cup {Self}
  BY DEF References!Refs, References!Values, Refs
<1>t. rep \in [Refs -> [held : {"shared", "raw", "weak"}, to : Pointees]]
  BY DEF RefsInv, Shaped
<1>1. References!ValuesShared
  BY <1>r DEF RefsInv, Kinship, References!ValuesShared, References!Sees
<1>2. References!Lifetimes
  <2>1. \A c : References!Owners(rep, c) # {} <=> \E r \in Refs : rep[r].held = "shared" /\ rep[r].to = c
    BY <1>t, OwnersAre
  <2> QED BY <2>1 DEF RefsInv, References!Lifetimes
<1>3. References!NoDanglingAccess
  <2> SUFFICES ASSUME References!Intact, NEW r \in Refs, References!InScope(r)
               PROVE  References!Answered(r)
    BY <1>r DEF References!NoDanglingAccess
  <2> DEFINE to == rep[r].to
             A == References!Alive(to)
  <2>1. moved = {} /\ (via # None => References!Live(Self))
    BY DEF References!Intact
  <2>2. References!Live(r) <=> A
    BY LiveIsAlive
  <2>3. (kin[r] = {} <=> to = None) /\ (A => to # None)
    BY DEF RefsInv, Kinship, References!Alive
  <2>4. to # None /\ to # 0 => to \in Cells
    BY <1>t DEF Pointees
  <2>5. CASE r = Self
    <3>1. via # None
      BY <2>5 DEF References!InScope
    <3>2. A
      BY <3>1, <2>1, <2>2, <2>5
    <3>3. References!Finds(r) = "ok"
      BY <2>3, <2>5, <3>2, <1>r DEF References!Finds, References!SafeGet
    <3> QED BY <3>3, <3>2, <2>2, <2>3 DEF References!Answered
  <2>6. CASE r \in Vals
    <3>1. rep[r].held = "shared" /\ to # 0
      BY <2>6, <2>1 DEF RefsInv, Shaped
    <3>2. to # None => A
      BY <3>1, <2>4 DEF RefsInv, References!Alive
    <3>3. References!Finds(r) = IF A THEN "ok" ELSE "null"
      BY <2>3, <2>6, <3>1, <3>2, <1>r DEF References!Finds, References!SafeGet
    <3> QED BY <3>2, <3>3, <2>2, <2>3 DEF References!Answered
  <2>7. CASE r \in Strongs
    <3>1. rep[r].held = "shared" /\ to # 0
      BY <2>7 DEF RefsInv, Shaped
    <3>2. to # None => A
      BY <3>1, <2>4 DEF RefsInv, References!Alive
    <3>3. References!Finds(r) = IF to = None THEN "null" ELSE "ok"
      BY <2>7, <1>r DEF References!Finds, References!CheckStrong
    <3> QED BY <3>2, <3>3, <2>2, <2>3 DEF References!Answered
  <2>8. CASE r \in Weaks
    <3>1. References!Finds(r) = IF to # None /\ ~A THEN "expired" ELSE IF to = None THEN "null" ELSE "ok"
      BY <2>8, <1>r DEF References!Finds, References!CheckWeak, References!IsExpired
    <3> QED BY <3>1, <2>2, <2>3 DEF References!Answered
  <2> QED BY <2>5, <2>6, <2>7, <2>8 DEF Refs
<1> QED BY <1>1, <1>2, <1>3 DEF References!ReferencesAreSafe

\* All references are null at first.
LEMMA ReferencesInit == References!Init => RefsInv
<1> SUFFICES ASSUME References!Init PROVE RefsInv
  OBVIOUS
<1> USE RefAssumptions
<1>r. References!Refs = Refs
  BY DEF References!Refs, References!Values, Refs
<1>1. rep = [r \in Refs |-> IF r \in Weaks THEN [held |-> "weak", to |-> None] ELSE [held |-> "shared", to |-> None]]
  BY <1>r DEF References!Init, References!Weakly, References!Owns
<1>2. \A r \in Refs : rep[r].to = None /\ (rep[r].held = IF r \in Weaks THEN "weak" ELSE "shared")
  BY <1>1
<1>3. rep \in [Refs -> [held : {"shared", "raw", "weak"}, to : Pointees]]
  BY <1>1 DEF Pointees
<1>4. Shaped(rep, via, moved)
  BY <1>2, <1>3 DEF References!Init, Shaped, Refs
<1>5. Kinship(rep, kin)
  BY <1>2, <1>r DEF References!Init, Kinship
<1>6. (CHOOSE x \in Contents : TRUE) \in Contents
  BY ReferencesAssumption
<1>7. content \in [Cells \cup {0} -> Contained] /\ content[0] # None /\ \A c \in Cells : content[c] = None
  BY <1>6 DEF References!Init, References!Inline, Contained
<1> QED BY <1>2, <1>4, <1>5, <1>7, <1>r DEF References!Init, RefsInv, References!Alive, Contained

\* What is assigned, and what it is remembered as: the cells that are owned have
\* been written to or had an owner.
Written(reps, writes) ==
  /\ DOMAIN writes \subseteq Cells \cup {0} /\ \A c \in DOMAIN writes : writes[c] \in Contents
  /\ \A r \in Refs : reps[r].held = "shared" /\ reps[r].to \in Cells /\ reps[r].to \notin DOMAIN writes
       => \E q \in Refs : rep[q].held = "shared" /\ rep[q].to = reps[r].to
Remembered(reps, writes, sense) ==
  /\ sense \in [Refs -> Contained]
  /\ \A r \in Refs :
       LET c == reps[r].to
       IN  c # None => IF c \in DOMAIN writes THEN sense[r] = writes[c]
                       ELSE content[c] # None => sense[r] = content[c]

\* A step that does no more than that keeps the invariant.
LEMMA BecomesKeeps ==
  ASSUME RefsInv, NEW reps, NEW writes, References!Becomes(reps, writes),
         Shaped(reps, via', moved'), Kinship(reps, kin'),
         Written(reps, writes), Remembered(reps, writes, meant')
  PROVE  RefsInv'
<1> USE RefAssumptions
<1>1. rep' = reps /\ reps \in [Refs -> [held : {"shared", "raw", "weak"}, to : Pointees]]
  BY DEF References!Becomes, Shaped
<1>2. content \in [Cells \cup {0} -> Contained] /\ content[0] # None
  BY DEF RefsInv
<1>3. content' = [c \in Cells \cup {0} |->
         IF c # 0 /\ References!Owners(reps, c) = {} THEN None
         ELSE IF c \in DOMAIN writes THEN writes[c] ELSE content[c]]
  BY <1>2 DEF References!Becomes, References!Inline
<1>4. content' \in [Cells \cup {0} -> Contained]
  BY <1>2, <1>3 DEF Contained, Written
<1>5. content'[0] # None
  BY <1>2, <1>3 DEF Written
<1>6. ASSUME NEW c \in Cells
      PROVE  content'[c] # None <=> \E r \in Refs : reps[r].held = "shared" /\ reps[r].to = c
  <2>1. References!Owners(reps, c) # {} <=> \E r \in Refs : reps[r].held = "shared" /\ reps[r].to = c
    BY <1>1, OwnersAre
  <2>2. CASE References!Owners(reps, c) = {}
    BY <2>1, <2>2, <1>3
  <2>3. CASE References!Owners(reps, c) # {}
    <3>1. PICK r \in Refs : reps[r].held = "shared" /\ reps[r].to = c
      BY <2>1, <2>3
    <3>2. content'[c] = IF c \in DOMAIN writes THEN writes[c] ELSE content[c]
      BY <2>3, <1>3
    <3>3. CASE c \in DOMAIN writes
      BY <3>1, <3>2, <3>3 DEF Written
    <3>4. CASE c \notin DOMAIN writes
      <4>1. \E q \in Refs : rep[q].held = "shared" /\ rep[q].to = c
        BY <3>1, <3>4 DEF Written
      <4>2. content[c] # None
        BY <4>1 DEF RefsInv
      <4> QED BY <3>1, <3>2, <3>4, <4>2
    <3> QED BY <3>3, <3>4
  <2> QED BY <2>2, <2>3
<1>7. ASSUME NEW r \in Refs, reps[r].to # None, content'[reps[r].to] # None
      PROVE  content'[reps[r].to] = meant'[r]
  <2>1. reps[r].to \in Cells \cup {0}
    BY <1>1, <1>7 DEF Pointees
  <2>2. content'[reps[r].to] =
          IF reps[r].to \in DOMAIN writes THEN writes[reps[r].to] ELSE content[reps[r].to]
    BY <2>1, <1>3, <1>7
  <2> QED BY <2>2, <1>7 DEF Remembered
<1> QED BY <1>1, <1>4, <1>5, <1>6, <1>7 DEF RefsInv, Remembered, References!Alive

Shapes == [held : {"shared", "raw", "weak"}, to : Pointees]
\* All but one of the references are as they were.
ButFor(reps, v) == reps \in [Refs -> Shapes] /\ \A q \in Refs : q # v => reps[q] = rep[q]

\* The invariant, reference by reference.
LEMMA RefFacts ==
  ASSUME RefsInv
  PROVE  /\ References!Refs = Refs /\ References!Values = Vals \cup {Self}
         /\ Vals \subseteq Refs /\ Strongs \subseteq Refs /\ Weaks \subseteq Refs /\ Self \in Refs
         /\ rep \in [Refs -> Shapes] /\ \A r \in Refs : rep[r].to \in Pointees
         /\ via \in {None, 0} \cup Vals \cup Strongs \cup Weaks /\ moved \subseteq Vals
         /\ \A r \in Refs : r # Self => rep[r].to # 0
         /\ \A r \in Strongs : rep[r].held = "shared"
         /\ \A r \in Weaks : rep[r].held = "weak"
         /\ \A r \in Vals : rep[r].held # "shared" => rep[r].held = "raw" /\ rep[r].to = None /\ r \in moved
         /\ via = None => rep[Self].held = "shared" /\ rep[Self].to = None
         /\ via = 0 => rep[Self].held = "raw" /\ rep[Self].to = 0
         /\ via \notin {None, 0} => rep[Self].held = "raw" /\ rep[Self].to \in Cells
         /\ kin \in [Refs -> SUBSET Refs]
         /\ \A r, q \in Refs : q \in kin[r] <=> rep[r].to # None /\ rep[r].to = rep[q].to
         /\ content \in [Cells \cup {0} -> Contained] /\ content[0] # None
         /\ meant \in [Refs -> Contained]
         /\ \A c \in Cells : content[c] # None <=> \E r \in Refs : rep[r].held = "shared" /\ rep[r].to = c
         /\ \A r \in Refs : rep[r].to # None /\ content[rep[r].to] # None => content[rep[r].to] = meant[r]
<1>1. References!Refs = Refs /\ References!Values = Vals \cup {Self}
  BY DEF References!Refs, References!Values, Refs
<1>2. Vals \subseteq Refs /\ Strongs \subseteq Refs /\ Weaks \subseteq Refs /\ Self \in Refs
  BY DEF Refs
<1>3. rep \in [Refs -> Shapes]
  BY DEF RefsInv, Shaped, Shapes
<1>4. \A r \in Refs : rep[r].to \in Pointees
  BY <1>3 DEF Shapes
<1> QED BY <1>1, <1>2, <1>3, <1>4 DEF RefsInv, Shaped, Kinship, References!Alive

\* The references that share a value, when one stands alone,
LEMMA KinAlone ==
  ASSUME RefsInv, NEW v \in Refs, NEW reps, ButFor(reps, v), NEW kins,
         reps[v].to # None, \A q \in Refs : q # v => rep[q].to # reps[v].to,
         kins = [References!Leaves(v) EXCEPT ![v] = {v}]
  PROVE  Kinship(reps, kins)
<1>1. kins = [q \in Refs |-> IF q = v THEN {v} ELSE kin[q] \ {v}]
  BY RefFacts DEF References!Leaves
<1>2. kins \in [Refs -> SUBSET Refs]
  <2>1. kin \in [Refs -> SUBSET Refs]
    BY RefFacts
  <2>2. ASSUME NEW q \in Refs PROVE (IF q = v THEN {v} ELSE kin[q] \ {v}) \in SUBSET Refs
    <3>1. kin[q] \in SUBSET Refs
      BY <2>1
    <3> QED BY <3>1
  <2> QED BY <1>1, <2>2
<1>3. ASSUME NEW r \in Refs, NEW q \in Refs
      PROVE  q \in kins[r] <=> reps[r].to # None /\ reps[r].to = reps[q].to
  <2>1. q \in kin[r] <=> rep[r].to # None /\ rep[r].to = rep[q].to
    BY RefFacts
  <2>2. \A p \in Refs : p # v => reps[p].to = rep[p].to
    BY DEF ButFor
  <2> QED BY <1>1, <2>1, <2>2
<1> QED BY <1>2, <1>3 DEF Kinship

\* ... one is set to nothing,
LEMMA KinUnset ==
  ASSUME RefsInv, NEW v \in Refs, NEW reps, ButFor(reps, v), NEW kins, reps[v].to = None,
         kins = [References!Leaves(v) EXCEPT ![v] = {}]
  PROVE  Kinship(reps, kins)
<1>1. kins = [q \in Refs |-> IF q = v THEN {} ELSE kin[q] \ {v}]
  BY RefFacts DEF References!Leaves
<1>2. kins \in [Refs -> SUBSET Refs]
  <2>1. kin \in [Refs -> SUBSET Refs]
    BY RefFacts
  <2> QED BY <1>1, <2>1
<1>3. ASSUME NEW r \in Refs, NEW q \in Refs
      PROVE  q \in kins[r] <=> reps[r].to # None /\ reps[r].to = reps[q].to
  <2>1. q \in kin[r] <=> rep[r].to # None /\ rep[r].to = rep[q].to
    BY RefFacts
  <2>2. \A p \in Refs : p # v => reps[p].to = rep[p].to
    BY DEF ButFor
  <2> QED BY <1>1, <2>1, <2>2
<1> QED BY <1>2, <1>3 DEF Kinship

\* ... one joins another,
LEMMA KinJoined ==
  ASSUME RefsInv, NEW v \in Refs, NEW u \in Refs, v # u, NEW reps, ButFor(reps, v), NEW kins,
         rep[u].to # None, reps[v].to = rep[u].to,
         kins = [p \in References!Refs |-> IF p \in kin[u] \cup {v} THEN kin[u] \cup {v} ELSE kin[p] \ {v}]
  PROVE  Kinship(reps, kins)
<1>1. kins = [p \in Refs |-> IF p \in kin[u] \cup {v} THEN kin[u] \cup {v} ELSE kin[p] \ {v}]
  BY RefFacts
<1>2. kins \in [Refs -> SUBSET Refs]
  BY <1>1, RefFacts
<1>3. ASSUME NEW r \in Refs, NEW q \in Refs
      PROVE  q \in kins[r] <=> reps[r].to # None /\ reps[r].to = reps[q].to
  <2>1. \A p \in Refs : p \in kin[u] <=> rep[u].to = rep[p].to
    BY RefFacts
  <2>2. \A p \in Refs : p \in kin[r] <=> rep[r].to # None /\ rep[r].to = rep[p].to
    BY RefFacts
  <2>3. kins[r] = IF r \in kin[u] \cup {v} THEN kin[u] \cup {v} ELSE kin[r] \ {v}
    BY <1>1
  <2>4. \A p \in Refs : p # v => reps[p].to = rep[p].to
    BY DEF ButFor
  <2>5. CASE r = v \/ r \in kin[u]
    <3>1. reps[r].to = rep[u].to
      BY <2>1, <2>4, <2>5
    <3>2. q \in kins[r] <=> q = v \/ rep[u].to = rep[q].to
      BY <2>1, <2>3, <2>5
    <3> QED BY <3>1, <3>2, <2>4
  <2>6. CASE ~(r = v \/ r \in kin[u])
    <3>1. reps[r].to = rep[r].to /\ rep[r].to # rep[u].to
      BY <2>1, <2>4, <2>6
    <3>2. q \in kins[r] <=> q # v /\ rep[r].to # None /\ rep[r].to = rep[q].to
      BY <2>2, <2>3, <2>6
    <3> QED BY <3>1, <3>2, <2>4
  <2> QED BY <2>5, <2>6
<1> QED BY <1>2, <1>3 DEF Kinship

\* ... one takes the place of another.
LEMMA KinMoved ==
  ASSUME RefsInv, NEW v \in Refs, NEW u \in Refs, v # u, NEW reps, reps \in [Refs -> Shapes], NEW kins,
         \A q \in Refs : q # v /\ q # u => reps[q] = rep[q],
         reps[v].to = rep[u].to, reps[u].to = None,
         kins = [q \in References!Refs |->
           IF q = u THEN {}
           ELSE IF q = v \/ q \in kin[u] THEN IF kin[u] = {} THEN {} ELSE (kin[u] \ {u}) \cup {v}
           ELSE kin[q] \ {v}]
  PROVE  Kinship(reps, kins)
<1>1. \A q \in Refs :
        /\ q = u => kins[q] = {}
        /\ q # u /\ (q = v \/ q \in kin[u]) => kins[q] = IF kin[u] = {} THEN {} ELSE (kin[u] \ {u}) \cup {v}
        /\ q # u /\ ~(q = v \/ q \in kin[u]) => kins[q] = kin[q] \ {v}
  BY RefFacts
<1>2. kins \in [Refs -> SUBSET Refs]
  <2>1. kin[u] \subseteq Refs /\ \A q \in Refs : kin[q] \subseteq Refs
    BY RefFacts
  <2>2. DOMAIN kins = Refs /\ kins = [q \in Refs |-> kins[q]]
    BY RefFacts
  <2>3. ASSUME NEW q \in Refs PROVE kins[q] \subseteq Refs
    <3>1. CASE q = u
      BY <3>1, <1>1
    <3>2. CASE q # u /\ (q = v \/ q \in kin[u])
      <4>1. kins[q] = IF kin[u] = {} THEN {} ELSE (kin[u] \ {u}) \cup {v}
        BY <3>2, <1>1
      <4>2. CASE kin[u] = {}
        BY <4>1, <4>2
      <4>3. CASE kin[u] # {}
        <5>1. kins[q] = (kin[u] \ {u}) \cup {v}
          BY <4>1, <4>3
        <5>2. \A p \in kins[q] : p \in Refs
          BY <5>1, <2>1
        <5> QED BY <5>2
      <4> QED BY <4>2, <4>3
    <3>3. CASE q # u /\ ~(q = v \/ q \in kin[u])
      BY <3>3, <1>1, <2>1
    <3> QED BY <3>1, <3>2, <3>3
  <2> QED BY <2>2, <2>3
<1>3. ASSUME NEW r \in Refs, NEW q \in Refs
      PROVE  q \in kins[r] <=> reps[r].to # None /\ reps[r].to = reps[q].to
  <2>1. \A p \in Refs : p \in kin[u] <=> rep[u].to # None /\ rep[u].to = rep[p].to
    BY RefFacts
  <2>2. \A p \in Refs : p \in kin[r] <=> rep[r].to # None /\ rep[r].to = rep[p].to
    BY RefFacts
  <2>3. \A p \in Refs : p # v /\ p # u => reps[p].to = rep[p].to
    OBVIOUS
  <2>4. CASE r = u
    BY <2>4, <1>1
  <2>5. CASE r # u /\ rep[u].to = None
    <3>1. kin[u] = {}
      BY <2>1, <2>5, RefFacts
    <3>2. r = v => kins[r] = {}
      BY <3>1, <2>5, <1>1
    <3>3. r # v => kins[r] = kin[r] \ {v}
      BY <3>1, <2>5, <1>1
    <3>4. CASE r = v
      BY <3>2, <3>4, <2>5
    <3>5. CASE r # v
      BY <3>3, <3>5, <2>2, <2>3, <2>5
    <3> QED BY <3>4, <3>5
  <2>6. CASE r # u /\ rep[u].to # None /\ (r = v \/ r \in kin[u])
    <3>1. kins[r] = (kin[u] \ {u}) \cup {v}
      <4>1. u \in kin[u]
        BY <2>1, <2>6
      <4> QED BY <4>1, <2>6, <1>1
    <3>2. reps[r].to = rep[u].to
      BY <2>1, <2>3, <2>6
    <3> QED BY <3>1, <3>2, <2>1, <2>3, <2>6
  <2>7. CASE r # u /\ rep[u].to # None /\ ~(r = v \/ r \in kin[u])
    <3>1. kins[r] = kin[r] \ {v}
      BY <2>7, <1>1
    <3>2. reps[r].to = rep[r].to /\ rep[r].to # rep[u].to
      BY <2>1, <2>3, <2>7
    <3> QED BY <3>1, <3>2, <2>2, <2>3, <2>7
  <2> QED BY <2>4, <2>5, <2>6, <2>7
<1> QED BY <1>2, <1>3 DEF Kinship

\* A reference that is made of something else, for a solver.
LEMMA Put ==
  ASSUME RefsInv, NEW v \in Refs, NEW p \in Shapes
  PROVE  ButFor([rep EXCEPT ![v] = p], v) /\ [rep EXCEPT ![v] = p][v] = p
BY RefFacts DEF ButFor

\* What a reference other than `self' may be made of.
Fits(v, p, gone) ==
  /\ p \in Shapes /\ p.to # 0
  /\ v \in Strongs => p.held = "shared"
  /\ v \in Weaks => p.held = "weak"
  /\ v \in Vals /\ p.held # "shared" => p.held = "raw" /\ p.to = None /\ v \in gone

\* References that fit, or stay as they are, keep their shapes.
LEMMA ShapeStays ==
  ASSUME RefsInv, NEW reps \in [Refs -> Shapes], NEW gone, gone \subseteq Vals,
         \A q \in Refs : Fits(q, reps[q], gone) \/ (reps[q] = rep[q] /\ (q \in moved => q \in gone)),
         reps[Self] = rep[Self]
  PROVE  Shaped(reps, via, gone)
<1> USE RefAssumptions
<1>1. ASSUME NEW r \in Refs, r # Self PROVE reps[r].to # 0
  BY <1>1, RefFacts DEF Fits
<1>2. ASSUME NEW r \in Strongs PROVE reps[r].held = "shared"
  <2>1. r \in Refs /\ rep[r].held = "shared"
    BY RefFacts
  <2> QED BY <2>1 DEF Fits
<1>3. ASSUME NEW r \in Weaks PROVE reps[r].held = "weak"
  <2>1. r \in Refs /\ rep[r].held = "weak"
    BY RefFacts
  <2> QED BY <2>1 DEF Fits
<1>4. ASSUME NEW r \in Vals, reps[r].held # "shared"
      PROVE  reps[r].held = "raw" /\ reps[r].to = None /\ r \in gone
  <2>1. r \in Refs /\ (rep[r].held # "shared" => rep[r].held = "raw" /\ rep[r].to = None /\ r \in moved)
    BY RefFacts
  <2>2. Fits(r, reps[r], gone) \/ (reps[r] = rep[r] /\ (r \in moved => r \in gone))
    BY <2>1
  <2>3. CASE reps[r] = rep[r] /\ (r \in moved => r \in gone)
    BY <1>4, <2>1, <2>3
  <2>4. CASE Fits(r, reps[r], gone)
    BY <1>4, <2>4 DEF Fits
  <2> QED BY <2>2, <2>3, <2>4
<1>5. /\ via = None => reps[Self].held = "shared" /\ reps[Self].to = None
      /\ via = 0 => reps[Self].held = "raw" /\ reps[Self].to = 0
      /\ via \notin {None, 0} => reps[Self].held = "raw" /\ reps[Self].to \in Cells
      /\ via \in {None, 0} \cup Vals \cup Strongs \cup Weaks
  BY RefFacts
<1> QED BY <1>1, <1>2, <1>3, <1>4, <1>5 DEF Shaped, Shapes

\* A step in which one reference is made anew.
LEMMA OneChanges ==
  ASSUME RefsInv, NEW v \in Refs, v # Self, NEW p, NEW writes, NEW x \in Contained,
         References!Becomes([rep EXCEPT ![v] = p], writes),
         via' = via, moved' \subseteq Vals, moved \ {v} \subseteq moved', Fits(v, p, moved'),
         DOMAIN writes \subseteq Cells \cup {0}, \A c \in DOMAIN writes : writes[c] \in Contents,
         \A q \in Refs : q # v => rep[q].to \notin DOMAIN writes,
         p.held = "shared" /\ p.to \in Cells /\ p.to \notin DOMAIN writes
           => \E q \in Refs : rep[q].held = "shared" /\ rep[q].to = p.to,
         p.to # None => IF p.to \in DOMAIN writes THEN x = writes[p.to]
                        ELSE content[p.to] # None => x = content[p.to],
         Kinship([rep EXCEPT ![v] = p], kin'), meant' = [meant EXCEPT ![v] = x]
  PROVE  RefsInv'
<1> DEFINE reps == [rep EXCEPT ![v] = p]
<1>1. ButFor(reps, v) /\ reps[v] = p
  BY Put DEF Fits
<1> HIDE DEF reps
<1>2. reps \in [Refs -> Shapes] /\ \A q \in Refs : q # v => reps[q] = rep[q]
  BY <1>1 DEF ButFor
<1>3. Self \in Refs /\ Vals \subseteq Refs
  BY RefFacts
<1>4. Shaped(reps, via', moved')
  <2>1. ASSUME NEW q \in Refs
        PROVE  Fits(q, reps[q], moved') \/ (reps[q] = rep[q] /\ (q \in moved => q \in moved'))
    <3>1. CASE q = v
      BY <3>1, <1>1
    <3>2. CASE q # v
      BY <3>2, <1>2
    <3> QED BY <3>1, <3>2
  <2>3. Shaped(reps, via, moved')
    BY <2>1, <1>2, <1>3, ShapeStays
  <2> QED BY <2>3
<1>5. Written(reps, writes)
  <2>1. ASSUME NEW r \in Refs, reps[r].held = "shared", reps[r].to \in Cells, reps[r].to \notin DOMAIN writes
        PROVE  \E q \in Refs : rep[q].held = "shared" /\ rep[q].to = reps[r].to
    <3>1. CASE r = v
      BY <2>1, <3>1, <1>1
    <3>2. CASE r # v
      BY <2>1, <3>2, <1>2
    <3> QED BY <3>1, <3>2
  <2> QED BY <2>1 DEF Written
<1>6. Remembered(reps, writes, meant')
  <2>1. meant \in [Refs -> Contained]
    BY RefFacts
  <2>2. meant' \in [Refs -> Contained] /\ meant'[v] = x /\ \A q \in Refs : q # v => meant'[q] = meant[q]
    BY <2>1
  <2>3. ASSUME NEW r \in Refs, reps[r].to # None
        PROVE  IF reps[r].to \in DOMAIN writes THEN meant'[r] = writes[reps[r].to]
               ELSE content[reps[r].to] # None => meant'[r] = content[reps[r].to]
    <3>1. CASE r = v
      BY <2>2, <2>3, <3>1, <1>1
    <3>2. CASE r # v
      <4>1. reps[r] = rep[r] /\ rep[r].to \notin DOMAIN writes
        BY <3>2, <1>2
      <4>2. rep[r].to # None /\ content[rep[r].to] # None => content[rep[r].to] = meant[r]
        BY RefFacts
      <4> QED BY <4>1, <4>2, <2>2, <2>3, <3>2
    <3> QED BY <3>1, <3>2
  <2> QED BY <2>2, <2>3 DEF Remembered
<1> QED BY <1>4, <1>5, <1>6, BecomesKeeps DEF reps

\* A step in which one reference takes the value from another.
LEMMA TwoChange ==
  ASSUME RefsInv, NEW v \in Refs, NEW u \in Refs, v # u, v # Self, u # Self, NEW p,
         References!Becomes([rep EXCEPT ![v] = rep[u], ![u] = p], References!Nothing),
         via' = via, moved' \subseteq Vals, moved \ {v} \subseteq moved',
         Fits(v, rep[u], moved'), Fits(u, p, moved'), p.to = None,
         References!Replaced(v, u)
  PROVE  RefsInv'
<1> DEFINE reps == [rep EXCEPT ![v] = rep[u], ![u] = p]
<1>1. /\ reps \in [Refs -> Shapes] /\ reps[v] = rep[u] /\ reps[u] = p
      /\ \A q \in Refs : q # v /\ q # u => reps[q] = rep[q]
  <2>1. rep \in [Refs -> Shapes] /\ p \in Shapes
    BY RefFacts DEF Fits
  <2> QED BY <2>1
<1>2. Kinship(reps, kin')
  <2>1. kin' = [q \in References!Refs |->
           IF q = u THEN {}
           ELSE IF q = v \/ q \in kin[u] THEN IF kin[u] = {} THEN {} ELSE (kin[u] \ {u}) \cup {v}
           ELSE kin[q] \ {v}]
    BY DEF References!Replaced
  <2>2. reps[v].to = rep[u].to /\ reps[u].to = None
    BY <1>1
  <2> HIDE DEF reps
  <2> QED BY <1>1, <2>1, <2>2, KinMoved
<1> HIDE DEF reps
<1>3. Self \in Refs /\ Vals \subseteq Refs
  BY RefFacts
<1>4. Shaped(reps, via', moved')
  <2>1. ASSUME NEW q \in Refs
        PROVE  Fits(q, reps[q], moved') \/ (reps[q] = rep[q] /\ (q \in moved => q \in moved'))
    <3>1. CASE q = v \/ q = u
      BY <3>1, <1>1
    <3>2. CASE q # v /\ q # u
      BY <3>2, <1>1
    <3> QED BY <3>1, <3>2
  <2>2. Shaped(reps, via, moved')
    BY <2>1, <1>1, <1>3, ShapeStays
  <2> QED BY <2>2
<1>5. DOMAIN References!Nothing = {}
  BY DEF References!Nothing
<1>6. Written(reps, References!Nothing)
  <2>1. ASSUME NEW r \in Refs, reps[r].held = "shared", reps[r].to \in Cells
        PROVE  \E q \in Refs : rep[q].held = "shared" /\ rep[q].to = reps[r].to
    <3>1. CASE r = v
      BY <2>1, <3>1, <1>1
    <3>2. CASE r = u
      BY <2>1, <3>2, <1>1, RefAssumptions
    <3>3. CASE r # v /\ r # u
      BY <2>1, <3>3, <1>1
    <3> QED BY <3>1, <3>2, <3>3
  <2> QED BY <2>1, <1>5 DEF Written
<1>7. Remembered(reps, References!Nothing, meant')
  <2>1. meant \in [Refs -> Contained]
    BY RefFacts
  <2>2. meant' = [meant EXCEPT ![v] = meant[u], ![u] = None]
    BY DEF References!Replaced
  <2>3. /\ meant' \in [Refs -> Contained] /\ meant'[v] = meant[u]
        /\ \A q \in Refs : q # v /\ q # u => meant'[q] = meant[q]
    BY <2>1, <2>2 DEF Contained
  <2>4. ASSUME NEW r \in Refs, reps[r].to # None, content[reps[r].to] # None
        PROVE  meant'[r] = content[reps[r].to]
    <3>1. \A q \in Refs : rep[q].to # None /\ content[rep[q].to] # None => content[rep[q].to] = meant[q]
      BY RefFacts
    <3>2. CASE r = v
      BY <2>3, <2>4, <3>1, <3>2, <1>1
    <3>3. CASE r = u
      BY <2>4, <3>3, <1>1
    <3>4. CASE r # v /\ r # u
      BY <2>3, <2>4, <3>1, <3>4, <1>1
    <3> QED BY <3>2, <3>3, <3>4
  <2> QED BY <2>3, <2>4, <1>5 DEF Remembered
<1> QED BY <1>2, <1>4, <1>6, <1>7, BecomesKeeps DEF reps

\* A step that assigns to the value that a reference refers to.
LEMMA ValueChanges ==
  ASSUME RefsInv, NEW v \in Refs, References!Alive(rep[v].to), NEW x \in Contents,
         References!Becomes(rep, References!One(rep[v].to, x)), References!Changes(v, x),
         UNCHANGED <<via, moved>>
  PROVE  RefsInv'
<1> USE RefAssumptions
<1> DEFINE writes == References!One(rep[v].to, x)
<1>1. DOMAIN writes = {rep[v].to} /\ writes[rep[v].to] = x
  BY DEF References!One
<1>2. rep[v].to # None /\ rep[v].to \in Cells \cup {0}
  BY RefFacts DEF References!Alive, Pointees
<1>3. kin' = kin /\ meant' = [q \in Refs |-> IF q \in kin[v] THEN x ELSE meant[q]]
  BY RefFacts DEF References!Changes
<1>4. Shaped(rep, via', moved') /\ Kinship(rep, kin')
  BY <1>3 DEF RefsInv
<1> HIDE DEF writes
<1>5. Written(rep, writes)
  BY <1>1, <1>2 DEF Written
<1>6. Remembered(rep, writes, meant')
  <2>1. meant \in [Refs -> Contained]
    BY RefFacts
  <2>2. meant' \in [Refs -> Contained]
    BY <2>1, <1>3 DEF Contained
  <2>3. ASSUME NEW r \in Refs, rep[r].to # None
        PROVE  IF rep[r].to \in DOMAIN writes THEN meant'[r] = writes[rep[r].to]
               ELSE content[rep[r].to] # None => meant'[r] = content[rep[r].to]
    <3>1. r \in kin[v] <=> rep[v].to = rep[r].to
      BY <1>2, RefFacts
    <3>2. rep[r].to # None /\ content[rep[r].to] # None => content[rep[r].to] = meant[r]
      BY RefFacts
    <3> QED BY <1>1, <1>3, <2>3, <3>1, <3>2
  <2> QED BY <2>2, <2>3 DEF Remembered
<1> QED BY <1>4, <1>5, <1>6, BecomesKeeps DEF writes

\* The cell of a new value is one that no reference refers to.
LEMMA FreshIsFree ==
  ASSUME RefsInv, References!FreshCells # {}
  PROVE  References!Fresh \in Cells /\ \A r \in Refs : rep[r].to # References!Fresh
<1>1. References!Fresh \in References!FreshCells
  BY DEF References!Fresh
<1> QED BY <1>1, RefFacts DEF References!FreshCells

\* A new value.
LEMMA Anew ==
  ASSUME RefsInv, NEW v \in Vals \cup Strongs, NEW x \in Contents, References!FreshCells # {},
         References!Becomes([rep EXCEPT ![v] = References!Owns(References!Fresh)],
                            References!One(References!Fresh, x)),
         References!Alone(v, x), via' = via, moved' \subseteq Vals, moved \ {v} \subseteq moved'
  PROVE  RefsInv'
<1> USE RefAssumptions
<1> DEFINE f == References!Fresh
           p == References!Owns(f)
           writes == References!One(f, x)
<1>1. f \in Cells /\ \A r \in Refs : rep[r].to # f
  BY FreshIsFree
<1>2. v \in Refs /\ v # Self
  BY RefFacts
<1>3. p \in Shapes /\ p.to = f /\ p.held = "shared"
  BY <1>1 DEF Shapes, Pointees, References!Owns
<1>4. DOMAIN writes = {f} /\ writes[f] = x
  BY DEF References!One
<1>5. kin' = [References!Leaves(v) EXCEPT ![v] = {v}] /\ meant' = [meant EXCEPT ![v] = x]
  BY DEF References!Alone
<1> HIDE DEF f, p, writes
<1>6. Kinship([rep EXCEPT ![v] = p], kin')
  <2> DEFINE reps == [rep EXCEPT ![v] = p]
  <2>1. ButFor(reps, v) /\ reps[v].to = f
    BY <1>2, <1>3, Put
  <2>2. reps[v].to # None /\ \A q \in Refs : q # v => rep[q].to # reps[v].to
    BY <2>1, <1>1
  <2> HIDE DEF reps
  <2>3. Kinship(reps, kin')
    BY <2>1, <2>2, <1>2, <1>5, KinAlone
  <2> QED BY <2>3 DEF reps
<1>7. Fits(v, p, moved')
  BY <1>1, <1>3 DEF Fits
<1>8. References!Becomes([rep EXCEPT ![v] = p], writes)
  BY DEF f, p, writes
<1> QED
  <2>1. DOMAIN writes \subseteq Cells \cup {0} /\ \A c \in DOMAIN writes : writes[c] \in Contents
    BY <1>1, <1>4
  <2>2. \A q \in Refs : q # v => rep[q].to \notin DOMAIN writes
    BY <1>1, <1>4
  <2>3. p.to \in DOMAIN writes /\ x = writes[p.to]
    BY <1>3, <1>4
  <2>4. x \in Contained
    BY DEF Contained
  <2> QED BY <1>2, <1>5, <1>6, <1>7, <1>8, <2>1, <2>2, <2>3, <2>4, OneChanges

\* A reference that is set to nothing.
LEMMA ToNothing ==
  ASSUME RefsInv, NEW v \in Refs, v # Self, NEW p, p.to = None,
         References!Becomes([rep EXCEPT ![v] = p], References!Nothing), References!Unset(v),
         via' = via, moved' \subseteq Vals, moved \ {v} \subseteq moved', Fits(v, p, moved')
  PROVE  RefsInv'
<1> USE RefAssumptions
<1>1. DOMAIN References!Nothing = {}
  BY DEF References!Nothing
<1>2. kin' = [References!Leaves(v) EXCEPT ![v] = {}] /\ meant' = [meant EXCEPT ![v] = None]
  BY DEF References!Unset
<1>3. Kinship([rep EXCEPT ![v] = p], kin')
  <2> DEFINE reps == [rep EXCEPT ![v] = p]
  <2>1. ButFor(reps, v) /\ reps[v].to = None
    BY Put DEF Fits
  <2> HIDE DEF reps
  <2>2. Kinship(reps, kin')
    BY <2>1, <1>2, KinUnset
  <2> QED BY <2>2 DEF reps
<1>4. None \in Contained
  BY DEF Contained
<1> QED BY <1>1, <1>2, <1>3, <1>4, OneChanges

\* A reference that refers to what another does.
LEMMA ToAnother ==
  ASSUME RefsInv, NEW v \in Refs, v # Self, NEW u \in Refs, v # u, NEW p,
         p.to = rep[u].to, p.to # None, p.held = "shared" => References!Alive(p.to),
         References!Becomes([rep EXCEPT ![v] = p], References!Nothing),
         kin' = [q \in References!Refs |-> IF q \in kin[u] \cup {v} THEN kin[u] \cup {v} ELSE kin[q] \ {v}],
         meant' = [meant EXCEPT ![v] = meant[u]],
         via' = via, moved' \subseteq Vals, moved \ {v} \subseteq moved', Fits(v, p, moved')
  PROVE  RefsInv'
<1> USE RefAssumptions
<1>1. DOMAIN References!Nothing = {}
  BY DEF References!Nothing
<1>2. Kinship([rep EXCEPT ![v] = p], kin')
  <2> DEFINE reps == [rep EXCEPT ![v] = p]
  <2>1. ButFor(reps, v) /\ reps[v].to = rep[u].to
    BY Put DEF Fits
  <2> HIDE DEF reps
  <2>2. Kinship(reps, kin')
    BY <2>1, KinJoined
  <2> QED BY <2>2 DEF reps
<1>3. meant[u] \in Contained
  BY RefFacts
<1>4. p.held = "shared" /\ p.to \in Cells
        => \E q \in Refs : rep[q].held = "shared" /\ rep[q].to = p.to
  BY RefFacts DEF References!Alive
<1>5. content[p.to] # None => meant[u] = content[p.to]
  BY RefFacts
<1> QED BY <1>1, <1>2, <1>3, <1>4, <1>5, OneChanges

\* Nothing changes when an operation throws.
LEMMA FailsKeeps == ASSUME RefsInv, NEW what, References!Fails(what) PROVE RefsInv'
BY DEF References!Fails, RefsInv, References!Alive

\* Who sees a value sees what it is remembered as.
LEMMA AliveSees ==
  ASSUME RefsInv, NEW u \in Refs, References!Alive(rep[u].to)
  PROVE  References!Sees(u) = meant[u] /\ meant[u] \in Contents
<1>1. content[rep[u].to] = meant[u] /\ meant[u] \in Contained /\ meant[u] # None
  BY RefFacts DEF References!Alive
<1> QED BY <1>1 DEF References!Sees, Contained

\* ValueReference(T).
LEMMA NewKeeps == ASSUME RefsInv, NEW v \in Vals, NEW x \in Contents, References!New(v, x) PROVE RefsInv'
<1>1. moved \subseteq Vals
  BY RefFacts
<1> QED BY <1>1, Anew DEF References!New

\* The copy constructor makes a value of its own.
LEMMA CopyConstructKeeps ==
  ASSUME RefsInv, NEW v \in Vals, NEW u \in Refs, References!CopyConstruct(v, u)
  PROVE  RefsInv'
<1> USE RefAssumptions
<1>1. v \in Refs /\ v # Self /\ moved \subseteq Vals
  BY RefFacts
<1>2. CASE rep[u].to = None
  <2>1. /\ References!Becomes([rep EXCEPT ![v] = References!Owns(None)], References!Nothing)
        /\ References!Unset(v) /\ moved' = moved \ {v} /\ via' = via
    BY <1>2 DEF References!CopyConstruct
  <2>2. References!Owns(None).to = None /\ Fits(v, References!Owns(None), moved')
    BY <1>1 DEF References!Owns, Fits, Shapes, Pointees
  <2> QED BY <1>1, <2>1, <2>2, ToNothing
<1>3. CASE rep[u].to # None /\ ~References!Alive(rep[u].to)
  BY <1>3, FailsKeeps DEF References!CopyConstruct
<1>4. CASE rep[u].to # None /\ References!Alive(rep[u].to)
  <2>1. /\ References!FreshCells # {}
        /\ References!Becomes([rep EXCEPT ![v] = References!Owns(References!Fresh)],
                              References!One(References!Fresh, References!Sees(u)))
        /\ References!Alone(v, meant[u]) /\ moved' = moved \ {v} /\ via' = via
    BY <1>4 DEF References!CopyConstruct
  <2>2. References!Sees(u) = meant[u] /\ meant[u] \in Contents
    BY <1>4, AliveSees
  <2> QED BY <1>1, <2>1, <2>2, Anew
<1> QED BY <1>2, <1>3, <1>4

\* The move constructor leaves null behind, or a raw pointer where it was.
LEMMA MoveConstructKeeps ==
  ASSUME RefsInv, NEW v \in Vals, NEW u \in Vals, References!MoveConstruct(v, u)
  PROVE  RefsInv'
<1> USE RefAssumptions
<1> DEFINE p == IF rep[u].held = "shared" THEN References!Owns(None) ELSE rep[u]
<1>1. v \in Refs /\ v # Self /\ u \in Refs /\ u # Self /\ v # u /\ moved \subseteq Vals
  BY RefFacts DEF References!MoveConstruct
<1>2. /\ References!Becomes([rep EXCEPT ![v] = rep[u], ![u] = p], References!Nothing)
      /\ References!Replaced(v, u) /\ via' = via
      /\ moved' = (moved \ {v}) \cup (IF u \in moved THEN {v, u} ELSE {})
  BY DEF References!MoveConstruct
<1>3. moved' \subseteq Vals /\ moved \ {v} \subseteq moved' /\ (u \in moved => v \in moved' /\ u \in moved')
  BY <1>1, <1>2
<1>4. rep[u] \in Shapes /\ rep[u].to # 0
      /\ (rep[u].held # "shared" => rep[u].held = "raw" /\ rep[u].to = None /\ u \in moved)
  BY <1>1, RefFacts
<1>5. Fits(v, rep[u], moved') /\ Fits(u, p, moved') /\ p.to = None
  <2>1. CASE rep[u].held = "shared"
    BY <2>1, <1>1, <1>3, <1>4 DEF References!Owns, Fits, Shapes, Pointees
  <2>2. CASE rep[u].held # "shared"
    BY <2>2, <1>1, <1>3, <1>4 DEF Fits
  <2> QED BY <2>1, <2>2
<1> HIDE DEF p
<1> QED BY <1>1, <1>2, <1>3, <1>5, TwoChange

\* Assignment of a value, which those that share it see.
LEMMA AssignsKeeps ==
  ASSUME RefsInv, NEW v \in Refs, NEW x \in Contents, References!Assign(v, x)
  PROVE  RefsInv'
<1>1. CASE References!SafeGet(v) # "ok"
  BY <1>1, FailsKeeps DEF References!Assign
<1>2. CASE References!SafeGet(v) = "ok"
  <2>1. References!Alive(rep[v].to)
    BY <1>2 DEF References!SafeGet
  <2>2. References!Becomes(rep, References!One(rep[v].to, x)) /\ References!Changes(v, x)
        /\ UNCHANGED <<via, moved>>
    BY <1>2 DEF References!Assign, References!Keep
  <2> QED BY <2>1, <2>2, ValueChanges
<1> QED BY <1>1, <1>2

\* Assignment of another reference's value.
LEMMA CopyAssignKeeps ==
  ASSUME RefsInv, NEW v \in Refs, NEW u \in Refs, References!CopyAssign(v, u)
  PROVE  RefsInv'
<1>1. CASE References!SafeGet(u) # "ok"
  BY <1>1, FailsKeeps DEF References!CopyAssign
<1>2. CASE References!SafeGet(u) = "ok" /\ References!SafeGet(v) # "ok"
  BY <1>2, FailsKeeps DEF References!CopyAssign
<1>3. CASE References!SafeGet(u) = "ok" /\ References!SafeGet(v) = "ok"
  <2>1. References!Alive(rep[v].to) /\ References!Alive(rep[u].to)
    BY <1>3 DEF References!SafeGet
  <2>2. References!Sees(u) = meant[u] /\ meant[u] \in Contents
    BY <2>1, AliveSees
  <2>3. References!Becomes(rep, References!One(rep[v].to, meant[u])) /\ References!Changes(v, meant[u])
        /\ UNCHANGED <<via, moved>>
    BY <1>3, <2>2 DEF References!CopyAssign, References!Keep
  <2> QED BY <2>1, <2>2, <2>3, ValueChanges
<1> QED BY <1>1, <1>2, <1>3

\* The move assignment leaves a raw null pointer behind.
LEMMA MoveAssignKeeps ==
  ASSUME RefsInv, NEW v \in Refs, NEW u \in Vals, References!MoveAssign(v, u)
  PROVE  RefsInv'
<1> USE RefAssumptions
<1>1. CASE ~References!Alive(rep[u].to) \/ ~References!Alive(rep[v].to)
  BY <1>1, FailsKeeps DEF References!MoveAssign
<1>2. CASE References!Alive(rep[u].to) /\ References!Alive(rep[v].to)
  <2> DEFINE p == References!Raw(None)
             reps == [rep EXCEPT ![u] = p]
             writes == References!One(rep[v].to, meant[u])
  <2>1. References!Sees(u) = meant[u] /\ meant[u] \in Contents /\ u \in Refs /\ u # Self /\ moved \subseteq Vals
    <3>1. u \in Refs /\ u # Self /\ moved \subseteq Vals
      BY RefFacts
    <3> QED BY <3>1, <1>2, AliveSees
  <2>2. /\ References!Becomes(reps, writes)
        /\ meant' = [q \in References!Refs |-> IF q = u THEN None ELSE IF q \in kin[v] THEN meant[u] ELSE meant[q]]
        /\ kin' = [References!Leaves(u) EXCEPT ![u] = {}]
        /\ moved' = moved \cup {u} /\ via' = via
    BY <1>2, <2>1 DEF References!MoveAssign
  <2>3. p \in Shapes /\ p.to = None /\ p.held = "raw"
    BY DEF References!Raw, Shapes, Pointees
  <2>4. ButFor(reps, u) /\ reps[u] = p
    BY <2>1, <2>3, Put
  <2>5. reps \in [Refs -> Shapes] /\ \A q \in Refs : q # u => reps[q] = rep[q]
    BY <2>4 DEF ButFor
  <2>6. DOMAIN writes = {rep[v].to} /\ writes[rep[v].to] = meant[u]
    BY DEF References!One
  <2>7. rep[v].to # None /\ rep[v].to \in Cells \cup {0}
    BY <1>2, RefFacts DEF References!Alive, Pointees
  <2> HIDE DEF p, reps, writes
  <2>8. Kinship(reps, kin')
    BY <2>1, <2>2, <2>3, <2>4, KinUnset
  <2>9. Shaped(reps, via', moved')
    <3>1. Fits(u, p, moved')
      BY <2>2, <2>3 DEF Fits
    <3>2. ASSUME NEW q \in Refs
          PROVE  Fits(q, reps[q], moved') \/ (reps[q] = rep[q] /\ (q \in moved => q \in moved'))
      BY <3>1, <2>2, <2>4, <2>5
    <3>3. moved' \subseteq Vals /\ Self \in Refs
      BY <2>1, <2>2, RefFacts
    <3>4. Shaped(reps, via, moved')
      BY <3>2, <3>3, <2>1, <2>5, ShapeStays
    <3> QED BY <3>4, <2>2
  <2>10. Written(reps, writes)
    <3>1. ASSUME NEW r \in Refs, reps[r].held = "shared", reps[r].to \in Cells
          PROVE  \E q \in Refs : rep[q].held = "shared" /\ rep[q].to = reps[r].to
      BY <3>1, <2>3, <2>4, <2>5
    <3> QED BY <3>1, <2>1, <2>6, <2>7 DEF Written
  <2>11. Remembered(reps, writes, meant')
    <3>1. meant' = [q \in Refs |-> IF q = u THEN None ELSE IF q \in kin[v] THEN meant[u] ELSE meant[q]]
      BY <2>2, RefFacts
    <3>2. meant \in [Refs -> Contained]
      BY RefFacts
    <3>3. meant' \in [Refs -> Contained]
      BY <3>1, <3>2, <2>1 DEF Contained
    <3>4. ASSUME NEW r \in Refs, reps[r].to # None
          PROVE  IF reps[r].to \in DOMAIN writes THEN meant'[r] = writes[reps[r].to]
                 ELSE content[reps[r].to] # None => meant'[r] = content[reps[r].to]
      <4>1. r # u /\ reps[r] = rep[r]
        BY <3>4, <2>3, <2>4, <2>5
      <4>2. r \in kin[v] <=> rep[v].to = rep[r].to
        BY <2>7, RefFacts
      <4>3. rep[r].to # None /\ content[rep[r].to] # None => content[rep[r].to] = meant[r]
        BY RefFacts
      <4> QED BY <3>1, <3>4, <4>1, <4>2, <4>3, <2>6
    <3> QED BY <3>3, <3>4 DEF Remembered
  <2> QED BY <2>2, <2>8, <2>9, <2>10, <2>11, BecomesKeeps
<1> QED BY <1>1, <1>2

\* Assignment of what a strong or a weak reference refers to.
LEMMA AssignSharedKeeps ==
  ASSUME RefsInv, NEW v \in Vals, NEW r \in Strongs \cup Weaks, References!AssignShared(v, r)
  PROVE  RefsInv'
<1> USE RefAssumptions
<1> DEFINE p == IF References!Alive(rep[r].to) THEN rep[r].to ELSE None
           made == IF rep[v].to = p THEN rep[v] ELSE References!Owns(p)
<1>1. v \in Refs /\ v # Self /\ r \in Refs /\ r # Self /\ v # r /\ moved \subseteq Vals
  BY RefFacts
<1>2. /\ References!Becomes(IF rep[v].to = p THEN rep ELSE [rep EXCEPT ![v] = References!Owns(p)], References!Nothing)
      /\ References!Joined(v, r) /\ via' = via
      /\ moved' = IF rep[v].to = p THEN moved ELSE moved \ {v}
  BY DEF References!AssignShared
<1>3. References!Becomes([rep EXCEPT ![v] = made], References!Nothing)
  <2>1. rep = [rep EXCEPT ![v] = rep[v]]
    BY RefFacts
  <2> QED BY <1>2, <2>1
<1>4. p \in Pointees /\ p # 0 /\ (p # None => References!Alive(p))
  BY <1>1, RefFacts DEF Pointees
<1>5. made.to = p /\ Fits(v, made, moved')
  <2>1. CASE rep[v].to = p
    <3>1. made = rep[v] /\ moved' = moved
      BY <2>1, <1>2
    <3>2. rep[v] \in Shapes
      BY <1>1, RefFacts
    <3>3. rep[v].held # "shared" => rep[v].held = "raw" /\ rep[v].to = None /\ v \in moved
      BY RefFacts
    <3> QED BY <3>1, <3>2, <3>3, <2>1, <1>4 DEF Fits
  <2>2. CASE rep[v].to # p
    BY <2>2, <1>1, <1>4 DEF References!Owns, Fits, Shapes
  <2> QED BY <2>1, <2>2
<1>6. moved' \subseteq Vals /\ moved \ {v} \subseteq moved'
  BY <1>1, <1>2
<1>7. References!Live(r) <=> References!Alive(rep[r].to)
  BY <1>1, LiveIsAlive
<1>8. CASE References!Live(r)
  <2>1. p = rep[r].to /\ p # None
    BY <1>7, <1>8 DEF References!Alive
  <2>2. /\ kin' = [q \in References!Refs |-> IF q \in kin[r] \cup {v} THEN kin[r] \cup {v} ELSE kin[q] \ {v}]
        /\ meant' = [meant EXCEPT ![v] = meant[r]]
    BY <1>2, <1>8 DEF References!Joined
  <2> HIDE DEF p, made
  <2> QED BY <1>1, <1>2, <1>3, <1>4, <1>5, <1>6, <2>1, <2>2, ToAnother
<1>9. CASE ~References!Live(r)
  <2>1. p = None /\ References!Unset(v)
    BY <1>2, <1>7, <1>9 DEF References!Joined
  <2> HIDE DEF p, made
  <2> QED BY <1>1, <1>2, <1>3, <1>5, <1>6, <2>1, ToNothing
<1> QED BY <1>8, <1>9

\* reset().
LEMMA ResetKeeps == ASSUME RefsInv, NEW v \in Vals, References!Reset(v) PROVE RefsInv'
<1> USE RefAssumptions
<1>1. v \in Refs /\ v # Self /\ moved \subseteq Vals
  BY RefFacts
<1>2. References!Owns(None).to = None /\ Fits(v, References!Owns(None), moved')
  BY <1>1 DEF References!Owns, Fits, Shapes, Pointees
<1> QED BY <1>1, <1>2, ToNothing DEF References!Reset

\* A strong reference to a new value.
LEMMA NewStrongKeeps ==
  ASSUME RefsInv, NEW s \in Strongs, NEW x \in Contents, References!NewStrong(s, x)
  PROVE  RefsInv'
<1>1. moved \subseteq Vals /\ via' = via /\ moved' = moved
  BY RefFacts DEF References!NewStrong, References!Keep
<1> QED BY <1>1, Anew DEF References!NewStrong

\* What a strong or a weak reference is made of.
LEMMA AsIs ==
  ASSUME NEW s \in Strongs \cup Weaks, NEW c \in Pointees, c # 0, NEW gone
  PROVE  /\ References!As(s, c).to = c /\ Fits(s, References!As(s, c), gone)
         /\ References!As(s, c).held = IF s \in Strongs THEN "shared" ELSE "weak"
<1> USE RefAssumptions
<1>1. References!As(s, c) = [held |-> IF s \in Strongs THEN "shared" ELSE "weak", to |-> c]
  BY DEF References!As, References!Owns, References!Weakly
<1> QED BY <1>1 DEF Fits, Shapes

\* Binding to the value of a value reference.
LEMMA BindKeeps ==
  ASSUME RefsInv, NEW s \in Strongs \cup Weaks, NEW v \in Vals \cup {Self}, References!Bind(s, v)
  PROVE  RefsInv'
<1> USE RefAssumptions
<1>1. CASE References!AsSharedPtr(v) # "ok"
  BY <1>1, FailsKeeps DEF References!Bind
<1>2. CASE References!AsSharedPtr(v) = "ok"
  <2>1. s \in Refs /\ s # Self /\ v \in Refs /\ v # s /\ moved \subseteq Vals
    BY RefFacts
  <2>2. /\ References!Becomes([rep EXCEPT ![s] = References!As(s, rep[v].to)], References!Nothing)
        /\ References!Joined(s, v) /\ via' = via /\ moved' = moved
    BY <1>2 DEF References!Bind, References!Keep
  <2>3. rep[v].to \in Pointees
    BY <2>1, RefFacts
  <2>4. rep[v].to # 0 /\ (rep[v].to # None => References!Alive(rep[v].to))
    <3>1. CASE rep[v].held = "shared"
      <4>1. rep[v].to # 0
        BY <2>1, <3>1, RefFacts
      <4>2. rep[v].to \in Cells => content[rep[v].to] # None
        BY <2>1, <3>1, RefFacts
      <4> QED BY <4>1, <4>2, <2>3 DEF Pointees, References!Alive
    <3>2. CASE rep[v].held # "shared"
      BY <3>2, <1>2 DEF References!AsSharedPtr, References!Inline
    <3> QED BY <3>1, <3>2
  <2>5. References!Live(v) <=> References!Alive(rep[v].to)
    BY <2>1, LiveIsAlive
  <2> DEFINE p == References!As(s, rep[v].to)
  <2>6. p.to = rep[v].to /\ Fits(s, p, moved')
    BY <2>3, <2>4, AsIs
  <2>7. CASE References!Live(v)
    <3>1. /\ kin' = [q \in References!Refs |-> IF q \in kin[v] \cup {s} THEN kin[v] \cup {s} ELSE kin[q] \ {s}]
          /\ meant' = [meant EXCEPT ![s] = meant[v]]
      BY <2>2, <2>7 DEF References!Joined
    <3>2. p.to # None /\ References!Alive(p.to)
      BY <2>5, <2>6, <2>7 DEF References!Alive
    <3> HIDE DEF p
    <3>3. References!Becomes([rep EXCEPT ![s] = p], References!Nothing)
      BY <2>2 DEF p
    <3> QED BY <2>1, <2>2, <2>6, <3>1, <3>2, <3>3, ToAnother
  <2>8. CASE ~References!Live(v)
    <3>1. References!Unset(s)
      BY <2>2, <2>8 DEF References!Joined
    <3>2. p.to = None
      BY <2>4, <2>5, <2>6, <2>8
    <3> HIDE DEF p
    <3>3. References!Becomes([rep EXCEPT ![s] = p], References!Nothing)
      BY <2>2 DEF p
    <3> QED BY <2>1, <2>2, <2>6, <3>1, <3>2, <3>3, ToNothing
  <2> QED BY <2>7, <2>8
<1> QED BY <1>1, <1>2

\* Binding to what another refers to, which may have expired.
LEMMA ShareKeeps ==
  ASSUME RefsInv, NEW s \in Strongs \cup Weaks, NEW t \in Strongs \cup Weaks, References!Share(s, t)
  PROVE  RefsInv'
<1> USE RefAssumptions
<1>1. s \in Refs /\ s # Self /\ t \in Refs /\ t # Self /\ s # t /\ moved \subseteq Vals /\ (s \in Strongs => t \in Strongs)
  BY RefFacts DEF References!Share
<1>2. /\ References!Becomes([rep EXCEPT ![s] = References!As(s, rep[t].to)], References!Nothing)
      /\ via' = via /\ moved' = moved
      /\ IF References!Live(t) \/ kin[t] = {} THEN References!Joined(s, t)
         ELSE /\ kin' = [q \in References!Refs |-> IF q \in kin[t] \cup {s} THEN kin[t] \cup {s} ELSE kin[q] \ {s}]
              /\ meant' = [meant EXCEPT ![s] = meant[t]]
  BY DEF References!Share, References!Keep
<1> DEFINE p == References!As(s, rep[t].to)
<1>3. rep[t].to \in Pointees /\ rep[t].to # 0
  BY <1>1, RefFacts
<1>4. p.to = rep[t].to /\ Fits(s, p, moved') /\ (p.held = "shared" => s \in Strongs)
  BY <1>3, AsIs
<1>5. References!Live(t) <=> References!Alive(rep[t].to)
  BY <1>1, LiveIsAlive
<1>6. kin[t] = {} <=> rep[t].to = None
  BY <1>1, RefFacts
<1>7. References!Becomes([rep EXCEPT ![s] = p], References!Nothing)
  BY <1>2
<1>8. p.held = "shared" /\ p.to # None => References!Alive(p.to)
  <2>1. t \in Strongs => rep[t].held = "shared"
    BY RefFacts
  <2>2. rep[t].held = "shared" /\ rep[t].to \in Cells => content[rep[t].to] # None
    BY <1>1, RefFacts
  <2> QED BY <2>1, <2>2, <1>1, <1>3, <1>4 DEF Pointees, References!Alive
<1> HIDE DEF p
<1>9. CASE kin[t] = {}
  <2>1. References!Unset(s) /\ p.to = None
    BY <1>2, <1>4, <1>5, <1>6, <1>9 DEF References!Joined, References!Alive
  <2> QED BY <1>1, <1>2, <1>4, <1>7, <2>1, ToNothing
<1>10. CASE kin[t] # {}
  <2>1. /\ kin' = [q \in References!Refs |-> IF q \in kin[t] \cup {s} THEN kin[t] \cup {s} ELSE kin[q] \ {s}]
        /\ meant' = [meant EXCEPT ![s] = meant[t]]
    BY <1>2, <1>10 DEF References!Joined
  <2>2. p.to # None
    BY <1>4, <1>6, <1>10
  <2> QED BY <1>1, <1>2, <1>4, <1>7, <1>8, <2>1, <2>2, ToAnother
<1> QED BY <1>9, <1>10

\* Taking over what another refers to.
LEMMA MoveRefKeeps ==
  ASSUME RefsInv, NEW s \in Strongs \cup Weaks, NEW t \in Strongs \cup Weaks, References!MoveRef(s, t)
  PROVE  RefsInv'
<1> USE RefAssumptions
<1>1. s \in Refs /\ s # Self /\ t \in Refs /\ t # Self /\ s # t /\ moved \subseteq Vals
  BY RefFacts DEF References!MoveRef
<1>2. {s, t} \subseteq Strongs \/ {s, t} \subseteq Weaks
  BY DEF References!MoveRef
<1> DEFINE p == References!As(t, None)
<1>3. p.to = None /\ Fits(t, p, moved')
  BY AsIs DEF Pointees
<1>4. /\ References!Becomes([rep EXCEPT ![s] = rep[t], ![t] = p], References!Nothing)
      /\ References!Replaced(s, t) /\ via' = via /\ moved' = moved
  BY DEF References!MoveRef, References!Keep
<1>5. Fits(s, rep[t], moved')
  <2>1. rep[t] \in Shapes /\ rep[t].to # 0
    BY <1>1, RefFacts
  <2>2. t \in Strongs => rep[t].held = "shared"
    BY RefFacts
  <2>3. t \in Weaks => rep[t].held = "weak"
    BY RefFacts
  <2> QED BY <1>2, <2>1, <2>2, <2>3 DEF Fits
<1> HIDE DEF p
<1> QED BY <1>1, <1>3, <1>4, <1>5, TwoChange

\* reset() of a strong or a weak reference.
LEMMA ResetRefKeeps == ASSUME RefsInv, NEW s \in Strongs \cup Weaks, References!ResetRef(s) PROVE RefsInv'
<1> USE RefAssumptions
<1> DEFINE p == References!As(s, None)
<1>1. s \in Refs /\ s # Self /\ moved \subseteq Vals
  BY RefFacts
<1>2. p.to = None /\ Fits(s, p, moved')
  BY AsIs DEF Pointees
<1>3. References!Becomes([rep EXCEPT ![s] = p], References!Nothing) /\ References!Unset(s) /\ via' = via /\ moved' = moved
  BY DEF References!ResetRef, References!Keep
<1> HIDE DEF p
<1> QED BY <1>1, <1>2, <1>3, ToNothing

\* Only the reference `self' changes, and no value.
LEMMA SelfChanges ==
  ASSUME RefsInv, NEW p \in Shapes, NEW x \in Contained,
         rep' = [rep EXCEPT ![Self] = p], content' = content, moved' = moved,
         via' \in {None, 0} \cup Vals \cup Strongs \cup Weaks,
         rep[Self].held = "shared" => rep[Self].to = None, p.held = "shared" => p.to = None,
         via' = None => p.held = "shared" /\ p.to = None,
         via' = 0 => p.held = "raw" /\ p.to = 0,
         via' \notin {None, 0} => p.held = "raw" /\ p.to \in Cells,
         p.to # None /\ content[p.to] # None => content[p.to] = x,
         Kinship([rep EXCEPT ![Self] = p], kin'), meant' = [meant EXCEPT ![Self] = x]
  PROVE  RefsInv'
<1> USE RefAssumptions
<1>1. Self \in Refs /\ Vals \subseteq Refs /\ Strongs \subseteq Refs /\ Weaks \subseteq Refs /\ moved \subseteq Vals
  BY RefFacts
<1>2. ButFor(rep', Self) /\ rep'[Self] = p
  BY <1>1, Put
<1>3. rep' \in [Refs -> Shapes] /\ \A q \in Refs : q # Self => rep'[q] = rep[q]
  BY <1>2 DEF ButFor
<1>4. Shaped(rep', via', moved')
  <2>1. \A r \in Refs : r # Self => rep'[r].to # 0
    BY <1>3, RefFacts
  <2>2. \A r \in Strongs : rep'[r].held = "shared"
    BY <1>1, <1>3, RefFacts
  <2>3. \A r \in Weaks : rep'[r].held = "weak"
    BY <1>1, <1>3, RefFacts
  <2>4. \A r \in Vals : rep'[r].held # "shared" => rep'[r].held = "raw" /\ rep'[r].to = None /\ r \in moved'
    <3>1. \A r \in Vals : rep[r].held # "shared" => rep[r].held = "raw" /\ rep[r].to = None /\ r \in moved
      BY RefFacts
    <3>2. \A r \in Vals : rep'[r] = rep[r]
      BY <1>1, <1>3
    <3> QED BY <3>1, <3>2
  <2> QED BY <2>1, <2>2, <2>3, <2>4, <1>1, <1>2, <1>3 DEF Shaped, Shapes
<1>5. meant' \in [Refs -> Contained] /\ meant'[Self] = x /\ \A q \in Refs : q # Self => meant'[q] = meant[q]
  BY <1>1, RefFacts
<1>6. ASSUME NEW c \in Cells
      PROVE  content'[c] # None <=> \E r \in Refs : rep'[r].held = "shared" /\ rep'[r].to = c
  <2>1. content[c] # None <=> \E r \in Refs : rep[r].held = "shared" /\ rep[r].to = c
    BY RefFacts
  <2>2. ASSUME NEW r \in Refs
        PROVE  (rep[r].held = "shared" /\ rep[r].to = c) <=> (rep'[r].held = "shared" /\ rep'[r].to = c)
    <3>1. CASE r = Self
      BY <3>1, <1>2
    <3>2. CASE r # Self
      BY <3>2, <1>3
    <3> QED BY <3>1, <3>2
  <2> QED BY <2>1, <2>2
<1>7. ASSUME NEW r \in Refs, rep'[r].to # None, content'[rep'[r].to] # None
      PROVE  content'[rep'[r].to] = meant'[r]
  <2>1. CASE r = Self
    BY <2>1, <1>2, <1>5, <1>7
  <2>2. CASE r # Self
    <3>1. rep[r].to # None /\ content[rep[r].to] # None => content[rep[r].to] = meant[r]
      BY RefFacts
    <3> QED BY <3>1, <2>2, <1>3, <1>5, <1>7
  <2> QED BY <2>1, <2>2
<1>8. content \in [Cells \cup {0} -> Contained] /\ content[0] # None
  BY RefFacts
<1> QED BY <1>4, <1>5, <1>6, <1>7, <1>8 DEF RefsInv, References!Alive

\* A method's `self' refers to what the method is called on.
LEMMA EnterKeeps ==
  ASSUME RefsInv, NEW r \in Vals \cup Strongs \cup Weaks \cup {0}, References!Enter(r)
  PROVE  RefsInv'
<1> USE RefAssumptions DEF References!Inline
<1>1. via = None /\ rep[Self].held = "shared" /\ rep[Self].to = None /\ Self \in Refs
  BY RefFacts DEF References!Enter
<1>2. CASE r = 0
  <2> DEFINE p == References!Raw(0)
  <2>1. /\ rep' = [rep EXCEPT ![Self] = p] /\ content' = content
        /\ kin' = [References!Leaves(Self) EXCEPT ![Self] = {Self}]
        /\ meant' = [meant EXCEPT ![Self] = content[0]] /\ via' = 0 /\ moved' = moved
    BY <1>2 DEF References!Enter, References!Alone
  <2>2. p \in Shapes /\ p.to = 0 /\ p.held = "raw"
    BY DEF References!Raw, Shapes, Pointees
  <2>3. Kinship([rep EXCEPT ![Self] = p], kin')
    <3> DEFINE reps == [rep EXCEPT ![Self] = p]
    <3>1. ButFor(reps, Self) /\ reps[Self].to = 0
      BY <1>1, <2>2, Put
    <3>2. \A q \in Refs : q # Self => rep[q].to # reps[Self].to
      BY <3>1, RefFacts
    <3> HIDE DEF reps
    <3>3. Kinship(reps, kin')
      BY <1>1, <2>1, <3>1, <3>2, KinAlone
    <3> QED BY <3>3 DEF reps
  <2>4. content[0] \in Contained
    BY RefFacts
  <2> HIDE DEF p
  <2> QED BY <1>1, <2>1, <2>2, <2>3, <2>4, SelfChanges
<1>3. CASE r # 0 /\ References!Finds(r) # "ok"
  BY <1>3, FailsKeeps DEF References!Enter
<1>4. CASE r # 0 /\ References!Finds(r) = "ok"
  <2> DEFINE p == References!Raw(rep[r].to)
  <2>1. /\ rep' = [rep EXCEPT ![Self] = p] /\ content' = content
        /\ References!Joined(Self, r) /\ via' = r /\ moved' = moved
    BY <1>4 DEF References!Enter
  <2>2. r \in Refs /\ r # Self /\ r # None /\ rep[r].to # 0 /\ rep[r].to \in Pointees
    BY <1>4, RefFacts
  <2>3. References!Alive(rep[r].to)
    <3>1. CASE r \in Vals
      BY <1>4, <3>1, RefFacts DEF References!Finds, References!SafeGet
    <3>2. CASE r \in Strongs
      <4>1. rep[r].to # None
        BY <1>4, <3>2, RefFacts DEF References!Finds, References!CheckStrong
      <4>2. rep[r].held = "shared"
        BY <3>2, RefFacts
      <4>3. rep[r].to \in Cells
        BY <2>2, <4>1 DEF Pointees
      <4>4. content[rep[r].to] # None
        BY <2>2, <4>2, <4>3, RefFacts
      <4> QED BY <4>1, <4>4 DEF References!Alive
    <3>3. CASE r \in Weaks
      <4>1. References!Finds(r) = References!CheckWeak(r)
        BY <3>3, RefFacts DEF References!Finds
      <4>2. ~(rep[r].to # None /\ ~References!Alive(rep[r].to)) /\ rep[r].to # None
        BY <1>4, <4>1 DEF References!CheckWeak, References!IsExpired
      <4> QED BY <4>2
    <3> QED BY <1>4, <3>1, <3>2, <3>3
  <2>4. References!Live(r)
    BY <2>2, <2>3, LiveIsAlive
  <2>5. /\ kin' = [q \in References!Refs |-> IF q \in kin[r] \cup {Self} THEN kin[r] \cup {Self} ELSE kin[q] \ {Self}]
        /\ meant' = [meant EXCEPT ![Self] = meant[r]]
    BY <2>1, <2>4 DEF References!Joined
  <2>6. p \in Shapes /\ p.to = rep[r].to /\ p.held = "raw"
    BY <2>2 DEF References!Raw, Shapes
  <2>7. rep[r].to # None /\ rep[r].to \in Cells
    BY <2>2, <2>3 DEF Pointees, References!Alive
  <2>8. Kinship([rep EXCEPT ![Self] = p], kin')
    <3> DEFINE reps == [rep EXCEPT ![Self] = p]
    <3>1. ButFor(reps, Self) /\ reps[Self].to = rep[r].to
      BY <1>1, <2>6, Put
    <3> HIDE DEF reps
    <3>2. Kinship(reps, kin')
      BY <1>1, <2>2, <2>5, <2>7, <3>1, KinJoined
    <3> QED BY <3>2 DEF reps
  <2>9. meant[r] \in Contained /\ (content[rep[r].to] # None => content[rep[r].to] = meant[r])
    BY <2>2, <2>7, RefFacts
  <2>10. via' \notin {None, 0} /\ via' \in Vals \cup Strongs \cup Weaks
    BY <2>1, <2>2, <1>4
  <2> HIDE DEF p
  <2> QED BY <1>1, <2>1, <2>5, <2>6, <2>7, <2>8, <2>9, <2>10, SelfChanges
<1> QED BY <1>2, <1>3, <1>4

\* It is gone when the method returns.
LEMMA LeaveKeeps == ASSUME RefsInv, References!Leave PROVE RefsInv'
<1> USE RefAssumptions
<1> DEFINE p == References!Owns(None)
<1>1. /\ rep' = [rep EXCEPT ![Self] = p] /\ content' = content
      /\ kin' = [References!Leaves(Self) EXCEPT ![Self] = {}]
      /\ meant' = [meant EXCEPT ![Self] = None] /\ via # None /\ via' = None /\ moved' = moved
  BY DEF References!Leave, References!Unset
<1>2. p \in Shapes /\ p.to = None /\ p.held = "shared"
  BY DEF References!Owns, Shapes, Pointees
<1>3. Self \in Refs /\ rep[Self].held = "raw"
  BY <1>1, RefFacts
<1>4. Kinship([rep EXCEPT ![Self] = p], kin')
  <2> DEFINE reps == [rep EXCEPT ![Self] = p]
  <2>1. ButFor(reps, Self) /\ reps[Self].to = None
    BY <1>2, <1>3, Put
  <2> HIDE DEF reps
  <2>2. Kinship(reps, kin')
    BY <1>1, <1>3, <2>1, KinUnset
  <2> QED BY <2>2 DEF reps
<1>5. None \in Contained
  BY DEF Contained
<1> HIDE DEF p
<1> QED BY <1>1, <1>2, <1>3, <1>4, <1>5, SelfChanges

\* Every step keeps the invariant.
LEMMA ReferencesStep == RefsInv /\ [References!Next]_References!refVars => RefsInv'
<1> SUFFICES ASSUME RefsInv, [References!Next]_References!refVars PROVE RefsInv'
  OBVIOUS
<1>1. CASE UNCHANGED References!refVars
  BY <1>1 DEF References!refVars, RefsInv, References!Alive
<1>2. CASE References!Next
  <2> USE DEF References!Values
  <2>1. Vals \subseteq Refs /\ Self \in Refs /\ References!Refs = Refs
    BY RefFacts
  <2>2. CASE References!ValueStep
    <3>1. ASSUME NEW v \in Vals, NEW x \in Contents, References!New(v, x) PROVE RefsInv'
      BY <3>1, NewKeeps
    <3>2. ASSUME NEW v \in Vals, NEW u \in Vals \cup {Self}, References!CopyConstruct(v, u) PROVE RefsInv'
      BY <3>2, <2>1, CopyConstructKeeps
    <3>3. ASSUME NEW v \in Vals, NEW u \in Vals \cup {Self}, References!MoveConstruct(v, u) PROVE RefsInv'
      <4>1. u \in Vals
        BY <3>3 DEF References!MoveConstruct
      <4> QED BY <3>3, <4>1, MoveConstructKeeps
    <3>4. ASSUME NEW v \in Vals \cup {Self}, NEW x \in Contents, References!Assign(v, x) PROVE RefsInv'
      BY <3>4, <2>1, AssignsKeeps
    <3>5. ASSUME NEW v \in Vals \cup {Self}, NEW u \in Vals \cup {Self}, References!CopyAssign(v, u) PROVE RefsInv'
      BY <3>5, <2>1, CopyAssignKeeps
    <3>6. ASSUME NEW v \in Vals \cup {Self}, NEW u \in Vals \cup {Self}, References!MoveAssign(v, u) PROVE RefsInv'
      <4>1. u \in Vals
        BY <3>6 DEF References!MoveAssign
      <4> QED BY <3>6, <4>1, <2>1, MoveAssignKeeps
    <3>7. ASSUME NEW v \in Vals, NEW r \in Strongs \cup Weaks, References!AssignShared(v, r) PROVE RefsInv'
      BY <3>7, AssignSharedKeeps
    <3>8. ASSUME NEW v \in Vals, References!Reset(v) PROVE RefsInv'
      BY <3>8, ResetKeeps
    <3> QED BY <2>2, <3>1, <3>2, <3>3, <3>4, <3>5, <3>6, <3>7, <3>8 DEF References!ValueStep
  <2>3. CASE References!RefStep
    <3>1. ASSUME NEW s \in Strongs, NEW x \in Contents, References!NewStrong(s, x) PROVE RefsInv'
      BY <3>1, NewStrongKeeps
    <3>2. ASSUME NEW s \in Strongs \cup Weaks, NEW v \in Vals \cup {Self}, References!Bind(s, v) PROVE RefsInv'
      BY <3>2, BindKeeps
    <3>3. ASSUME NEW s \in Strongs \cup Weaks, NEW t \in Strongs \cup Weaks, References!Share(s, t) PROVE RefsInv'
      BY <3>3, ShareKeeps
    <3>4. ASSUME NEW s \in Strongs \cup Weaks, NEW t \in Strongs \cup Weaks, References!MoveRef(s, t) PROVE RefsInv'
      BY <3>4, MoveRefKeeps
    <3>5. ASSUME NEW s \in Strongs \cup Weaks, References!ResetRef(s) PROVE RefsInv'
      BY <3>5, ResetRefKeeps
    <3> QED BY <2>3, <3>1, <3>2, <3>3, <3>4, <3>5 DEF References!RefStep
  <2>4. CASE References!Leave
    BY <2>4, LeaveKeeps
  <2>5. ASSUME NEW r \in References!Refs, References!Deref(r) PROVE RefsInv'
    BY <2>5, FailsKeeps DEF References!Deref
  <2>6. ASSUME NEW r \in Vals \cup Strongs \cup Weaks \cup {0}, References!Enter(r) PROVE RefsInv'
    BY <2>6, EnterKeeps
  <2> QED BY <1>2, <2>2, <2>3, <2>4, <2>5, <2>6 DEF References!Next, References!Inline
<1> QED BY <1>1, <1>2

-----------------------------------------------------------------------------
(***************************** Counting pointers ***************************)
\* Those who hold an object; an object that has been deleted has none.
PointersInv ==
  /\ ptr \in [Ptrs -> Managed \cup {Nil}]
  /\ references \in [Managed -> Nat] /\ deleted \in [Managed -> Nat] /\ raw \in [Managed -> Nat]
  /\ Pointers!CountsExact

\* The instance's Cardinality is that of the library's theorems.
LEMMA PointersCardinality == \A S : Pointers!Cardinality(S) = Cardinality(S)
BY DEF Pointers!Cardinality, Cardinality

\* A statement mentions one object at most.
LEMMA CountOne ==
  ASSUME NEW x, NEW y
  PROVE  Pointers!Count(x, <<y>>) = IF x = y THEN 1 ELSE 0
<1> DEFINE S == {k \in DOMAIN <<y>> : <<y>>[k] = x}
<1>1. S = IF x = y THEN {1} ELSE {}
  OBVIOUS
<1>2. Cardinality({1}) = 1 /\ Cardinality({}) = 0
  BY FS_EmptySet, FS_Singleton
<1>3. Pointers!Count(x, <<y>>) = Cardinality(S)
  BY PointersCardinality DEF Pointers!Count
<1> HIDE DEF S
<1> QED BY <1>1, <1>2, <1>3

\* A statement that mentions nothing counts for nobody.
LEMMA CountNone ==
  ASSUME NEW x
  PROVE  Pointers!Count(x, <<>>) = 0
<1> DEFINE S == {k \in DOMAIN <<>> : <<>>[k] = x}
<1>1. S = {}
  OBVIOUS
<1>2. Pointers!Count(x, <<>>) = Cardinality(S)
  BY PointersCardinality DEF Pointers!Count
<1> HIDE DEF S
<1> QED BY <1>1, <1>2, FS_EmptySet

\* How many hold an object when one pointer has been redirected.
Redirected(f, p, y) == [f EXCEPT ![p] = y]
\* How many hold an object once a pointer has been redirected.
LEMMA HoldersOfOne ==
  ASSUME NEW f, f \in [Ptrs -> Managed \cup {Nil}], NEW p \in Ptrs, NEW y \in Managed \cup {Nil},
         NEW x \in Managed
  PROVE  /\ Redirected(f, p, y) \in [Ptrs -> Managed \cup {Nil}]
         /\ Cardinality(Pointers!Holders(f, x)) \in Nat
         /\ f[p] = x => Cardinality(Pointers!Holders(f, x)) > 0
         /\ Cardinality(Pointers!Holders(Redirected(f, p, y), x)) \in Nat
         /\ Cardinality(Pointers!Holders(Redirected(f, p, y), x)) =
              Cardinality(Pointers!Holders(f, x)) + (IF y = x THEN 1 ELSE 0) - (IF f[p] = x THEN 1 ELSE 0)
<1> DEFINE H == Pointers!Holders(f, x)
           G == Pointers!Holders(Redirected(f, p, y), x)
<1>0. Redirected(f, p, y) \in [Ptrs -> Managed \cup {Nil}]
  BY DEF Redirected
<1>1. IsFiniteSet(Ptrs) /\ H \in SUBSET Ptrs
  BY PointersAssumption DEF Pointers!Holders
<1>2. IsFiniteSet(H)
  BY <1>1, FS_Subset
<1>3. Cardinality(H) \in Nat
  BY <1>2, FS_CardinalityType
<1>4. f[p] = x => Cardinality(H) > 0
  <2>1. f[p] = x => p \in H
    BY DEF Pointers!Holders
  <2> QED BY <2>1, <1>2, <1>3, FS_EmptySet
<1>5. G = IF y = x THEN H \cup {p} ELSE H \ {p}
  BY DEF Pointers!Holders, Redirected
<1>6. Cardinality(H \cup {p}) = IF p \in H THEN Cardinality(H) ELSE Cardinality(H) + 1
  BY <1>2, FS_AddElement
<1>7. Cardinality(H \ {p}) = IF p \in H THEN Cardinality(H) - 1 ELSE Cardinality(H)
  BY <1>2, FS_RemoveElement
<1>8. p \in H <=> f[p] = x
  BY DEF Pointers!Holders
<1>9. Cardinality(G) = Cardinality(H) + (IF y = x THEN 1 ELSE 0) - (IF f[p] = x THEN 1 ELSE 0)
  <2> HIDE DEF H, G
  <2> QED BY <1>3, <1>5, <1>6, <1>7, <1>8
<1>10. Cardinality(G) \in Nat
  <2>1. IsFiniteSet(G)
    BY <1>5, <1>2, FS_AddElement, FS_RemoveElement
  <2> QED BY <2>1, FS_CardinalityType
<1> QED BY <1>0, <1>3, <1>4, <1>9, <1>10

\* What the invariant says of one object.
LEMMA PointerFacts ==
  ASSUME PointersInv, NEW x \in Managed
  PROVE  /\ references[x] = Cardinality(Pointers!Holders(ptr, x)) + raw[x]
         /\ references[x] \in Nat /\ raw[x] \in Nat /\ Cardinality(Pointers!Holders(ptr, x)) \in Nat
         /\ (deleted[x] = 1 => references[x] = 0) /\ (deleted[x] = 0 \/ deleted[x] = 1)
         /\ \A p \in Ptrs : ptr[p] = x => deleted[x] = 0
<1>1. /\ references[x] = Cardinality(Pointers!Holders(ptr, x)) + raw[x] /\ deleted[x] <= 1
      /\ references[x] \in Nat /\ deleted[x] \in Nat /\ raw[x] \in Nat
      /\ (deleted[x] = 1 => references[x] = 0)
  BY PointersCardinality DEF PointersInv, Pointers!CountsExact
<1>2. IsFiniteSet(Pointers!Holders(ptr, x))
  <2>1. Pointers!Holders(ptr, x) \in SUBSET Ptrs
    BY DEF Pointers!Holders
  <2> QED BY <2>1, PointersAssumption, FS_Subset
<1>3. Cardinality(Pointers!Holders(ptr, x)) \in Nat
  BY <1>2, FS_CardinalityType
<1>4. ASSUME NEW p \in Ptrs, ptr[p] = x PROVE Cardinality(Pointers!Holders(ptr, x)) > 0
  <2>1. p \in Pointers!Holders(ptr, x)
    BY <1>4 DEF Pointers!Holders
  <2> QED BY <2>1, <1>2, <1>3, FS_EmptySet
<1> QED BY <1>1, <1>3, <1>4

\* A statement counts what it does: it takes the references of those who newly hold
\* an object, which has not been deleted, and gives up one that a pointer has held.
Balanced(new, refs, unrefs) ==
  \A x \in Managed :
    /\ Pointers!Count(x, refs) \in {0, 1} /\ Pointers!Count(x, unrefs) \in {0, 1}
    /\ Cardinality(Pointers!Holders(new, x)) \in Nat
    /\ Cardinality(Pointers!Holders(new, x)) + raw'[x] =
         Cardinality(Pointers!Holders(ptr, x)) + raw[x] + Pointers!Count(x, refs) - Pointers!Count(x, unrefs)
    /\ Pointers!Count(x, refs) = 1 => deleted[x] = 0
    /\ Pointers!Count(x, unrefs) = 1 => \E p \in Ptrs : ptr[p] = x

\* Then its counts stay exact.
LEMMA StatementCounts ==
  ASSUME PointersInv, NEW new, new \in [Ptrs -> Managed \cup {Nil}], NEW refs, NEW unrefs,
         Pointers!Statement(new, refs, unrefs), raw' \in [Managed -> Nat], Balanced(new, refs, unrefs)
  PROVE  PointersInv'
<1> DEFINE R(x) == Pointers!Count(x, refs)
           U(x) == Pointers!Count(x, unrefs)
           N(x) == Cardinality(Pointers!Holders(new, x))
           C(x) == Cardinality(Pointers!Holders(ptr, x))
<1>1. /\ ptr' = new
      /\ references' = [x \in Managed |-> references[x] + R(x) - U(x)]
      /\ deleted' = [x \in Managed |->
           IF U(x) > 0 /\ references'[x] = 0 THEN deleted[x] + 1 ELSE deleted[x]]
  BY DEF Pointers!Statement, Pointers!Counted
<1>2. ASSUME NEW x \in Managed
      PROVE  /\ R(x) \in {0, 1} /\ U(x) \in {0, 1} /\ N(x) \in Nat
             /\ N(x) + raw'[x] = C(x) + raw[x] + R(x) - U(x)
             /\ R(x) = 1 => deleted[x] = 0
             /\ U(x) = 1 => \E p \in Ptrs : ptr[p] = x
  BY DEF Balanced
<1> HIDE DEF R, U, N
<1>3. ASSUME NEW x \in Managed
      PROVE  /\ references'[x] \in Nat /\ deleted'[x] \in Nat
             /\ references'[x] = N(x) + raw'[x]
             /\ deleted'[x] <= 1 /\ (deleted'[x] = 1 => references'[x] = 0)
  <2>1. /\ references[x] = C(x) + raw[x]
        /\ references[x] \in Nat /\ raw[x] \in Nat /\ C(x) \in Nat
        /\ (deleted[x] = 1 => references[x] = 0) /\ (deleted[x] = 0 \/ deleted[x] = 1)
        /\ \A p \in Ptrs : ptr[p] = x => deleted[x] = 0
    BY PointerFacts
  <2> HIDE DEF C
  <2>2. references'[x] = references[x] + R(x) - U(x)
    BY <1>1
  <2>3. raw'[x] \in Nat
    OBVIOUS
  <2>4. references'[x] = N(x) + raw'[x] /\ references'[x] \in Nat
    BY <2>1, <2>2, <2>3, <1>2
  <2>5. U(x) = 1 => deleted[x] = 0
    BY <2>1, <1>2
  <2>6. deleted'[x] = IF U(x) > 0 /\ references'[x] = 0 THEN deleted[x] + 1 ELSE deleted[x]
    BY <1>1
  <2>7. deleted[x] = 1 => references'[x] = 0
    BY <2>1, <2>2, <2>4, <1>2
  <2>8. U(x) \in {0, 1}
    BY <1>2
  <2> QED BY <2>1, <2>4, <2>5, <2>6, <2>7, <2>8
<1>4. references' \in [Managed -> Nat] /\ deleted' \in [Managed -> Nat]
  BY <1>1, <1>3
<1>5. Pointers!CountsExact'
  BY <1>1, <1>3, PointersCardinality DEF N, Pointers!CountsExact, Pointers!Holders
<1> QED BY <1>1, <1>4, <1>5 DEF PointersInv

\* Nobody holds anything at first.
LEMMA PointersInit == Pointers!Init => PointersInv
<1> SUFFICES ASSUME Pointers!Init PROVE PointersInv
  OBVIOUS
<1>1. Nil \notin Managed
  BY PointersAssumption
<1>2. \A x \in Managed : Pointers!Holders(ptr, x) = {}
  BY <1>1 DEF Pointers!Init, Pointers!Holders
<1>3. \A x \in Managed : Pointers!Cardinality(Pointers!Holders(ptr, x)) = 0
  BY <1>2, PointersCardinality, FS_EmptySet
<1>4. Pointers!CountsExact
  BY <1>3 DEF Pointers!Init, Pointers!CountsExact
<1> QED BY <1>4 DEF Pointers!Init, PointersInv

\* Every step keeps the invariant.
LEMMA PointersStep == PointersInv /\ [Pointers!Next]_(Pointers!ptrVars) => PointersInv'
<1> SUFFICES ASSUME PointersInv, [Pointers!Next]_(Pointers!ptrVars) PROVE PointersInv'
  OBVIOUS
<1> DEFINE F == [Ptrs -> Managed \cup {Nil}]
           C(f, x) == Cardinality(Pointers!Holders(f, x))
<1>t. /\ ptr \in F /\ raw \in [Managed -> Nat] /\ Nil \notin Managed
      /\ (\A p \in Ptrs : ptr[p] \in Managed \cup {Nil}) /\ Nil \in Managed \cup {Nil}
  BY PointersAssumption DEF PointersInv
<1>1. ASSUME NEW p \in Ptrs, NEW x \in Managed, Pointers!Make(p, x) PROVE PointersInv'
  <2> DEFINE n == Redirected(ptr, p, x)
  <2>1. Pointers!Statement(n, <<x>>, <<ptr[p]>>) /\ raw' = raw /\ references[x] = 0 /\ deleted[x] = 0
    BY <1>1, <1>t DEF Pointers!Make, Redirected
  <2>2. raw' \in [Managed -> Nat] /\ \A y \in Managed : raw'[y] = raw[y]
    BY <2>1, <1>t
  <2>3. n \in F /\ x \in Managed \cup {Nil}
    BY <1>t DEF Redirected
  <2>4. ASSUME NEW y \in Managed
        PROVE  /\ C(n, y) \in Nat /\ C(ptr, y) \in Nat
               /\ C(n, y) = C(ptr, y) + (IF x = y THEN 1 ELSE 0) - (IF ptr[p] = y THEN 1 ELSE 0)
    BY <1>t, <2>3, HoldersOfOne
  <2>5. \A y \in Managed : Pointers!Count(y, <<x>>) = (IF y = x THEN 1 ELSE 0)
                           /\ Pointers!Count(y, <<ptr[p]>>) = (IF y = ptr[p] THEN 1 ELSE 0)
    BY CountOne, CountNone
  <2> HIDE DEF n
  <2>6. Balanced(n, <<x>>, <<ptr[p]>>)
    <3> SUFFICES ASSUME NEW y \in Managed
                 PROVE  /\ Pointers!Count(y, <<x>>) \in {0, 1} /\ Pointers!Count(y, <<ptr[p]>>) \in {0, 1}
                        /\ C(n, y) \in Nat
                        /\ C(n, y) + raw'[y] =
                             C(ptr, y) + raw[y] + Pointers!Count(y, <<x>>) - Pointers!Count(y, <<ptr[p]>>)
                        /\ Pointers!Count(y, <<x>>) = 1 => deleted[y] = 0
                        /\ Pointers!Count(y, <<ptr[p]>>) = 1 => \E r \in Ptrs : ptr[r] = y
      BY DEF Balanced
    <3>1. raw[y] \in Nat /\ raw'[y] = raw[y] /\ (\A r \in Ptrs : ptr[r] = y => deleted[y] = 0)
      BY <2>2, PointerFacts
    <3>2. /\ Pointers!Count(y, <<x>>) = (IF y = x THEN 1 ELSE 0)
          /\ Pointers!Count(y, <<ptr[p]>>) = (IF y = ptr[p] THEN 1 ELSE 0)
      BY <2>5
    <3>3. C(n, y) \in Nat /\ C(ptr, y) \in Nat /\ C(n, y) = C(ptr, y) + (IF x = y THEN 1 ELSE 0) - (IF ptr[p] = y THEN 1 ELSE 0)
      BY <2>4
    <3> HIDE DEF C
    <3> QED BY <3>1, <3>2, <3>3, <2>1, <2>3, <1>t
  <2> QED BY <2>1, <2>2, <2>3, <2>6, StatementCounts
<1>2. ASSUME NEW p \in Ptrs, NEW x \in Managed, Pointers!Adopt(p, x) PROVE PointersInv'
  <2> DEFINE n == Redirected(ptr, p, x)
  <2>1. Pointers!Statement(n, <<>>, <<ptr[p]>>) /\ raw' = [raw EXCEPT ![x] = @ - 1] /\ raw[x] > 0
    BY <1>2, <1>t DEF Pointers!Adopt, Redirected
  <2>2. raw' \in [Managed -> Nat] /\ \A y \in Managed : raw'[y] = raw[y] - (IF x = y THEN 1 ELSE 0)
    BY <2>1, <1>t
  <2>3. n \in F /\ x \in Managed \cup {Nil}
    BY <1>t DEF Redirected
  <2>4. ASSUME NEW y \in Managed
        PROVE  /\ C(n, y) \in Nat /\ C(ptr, y) \in Nat
               /\ C(n, y) = C(ptr, y) + (IF x = y THEN 1 ELSE 0) - (IF ptr[p] = y THEN 1 ELSE 0)
    BY <1>t, <2>3, HoldersOfOne
  <2>5. \A y \in Managed : Pointers!Count(y, <<>>) = 0
                           /\ Pointers!Count(y, <<ptr[p]>>) = (IF y = ptr[p] THEN 1 ELSE 0)
    BY CountOne, CountNone
  <2> HIDE DEF n
  <2>6. Balanced(n, <<>>, <<ptr[p]>>)
    <3> SUFFICES ASSUME NEW y \in Managed
                 PROVE  /\ Pointers!Count(y, <<>>) \in {0, 1} /\ Pointers!Count(y, <<ptr[p]>>) \in {0, 1}
                        /\ C(n, y) \in Nat
                        /\ C(n, y) + raw'[y] =
                             C(ptr, y) + raw[y] + Pointers!Count(y, <<>>) - Pointers!Count(y, <<ptr[p]>>)
                        /\ Pointers!Count(y, <<>>) = 1 => deleted[y] = 0
                        /\ Pointers!Count(y, <<ptr[p]>>) = 1 => \E r \in Ptrs : ptr[r] = y
      BY DEF Balanced
    <3>1. raw[y] \in Nat /\ raw'[y] = raw[y] - (IF x = y THEN 1 ELSE 0) /\ (\A r \in Ptrs : ptr[r] = y => deleted[y] = 0)
      BY <2>2, PointerFacts
    <3>2. /\ Pointers!Count(y, <<>>) = 0
          /\ Pointers!Count(y, <<ptr[p]>>) = (IF y = ptr[p] THEN 1 ELSE 0)
      BY <2>5
    <3>3. C(n, y) \in Nat /\ C(ptr, y) \in Nat /\ C(n, y) = C(ptr, y) + (IF x = y THEN 1 ELSE 0) - (IF ptr[p] = y THEN 1 ELSE 0)
      BY <2>4
    <3> HIDE DEF C
    <3> QED BY <3>1, <3>2, <3>3, <1>t
  <2> QED BY <2>1, <2>2, <2>3, <2>6, StatementCounts
<1>3. ASSUME NEW p \in Ptrs, NEW q \in Ptrs, Pointers!CopyPtr(p, q) PROVE PointersInv'
  <2> DEFINE n == Redirected(ptr, p, ptr[q])
  <2>1. Pointers!Statement(n, <<ptr[q]>>, <<ptr[p]>>) /\ raw' = raw
    BY <1>3, <1>t DEF Pointers!CopyPtr, Redirected
  <2>2. raw' \in [Managed -> Nat] /\ \A y \in Managed : raw'[y] = raw[y]
    BY <2>1, <1>t
  <2>3. n \in F /\ ptr[q] \in Managed \cup {Nil}
    BY <1>t DEF Redirected
  <2>4. ASSUME NEW y \in Managed
        PROVE  /\ C(n, y) \in Nat /\ C(ptr, y) \in Nat
               /\ C(n, y) = C(ptr, y) + (IF ptr[q] = y THEN 1 ELSE 0) - (IF ptr[p] = y THEN 1 ELSE 0)
    BY <1>t, <2>3, HoldersOfOne
  <2>5. \A y \in Managed : Pointers!Count(y, <<ptr[q]>>) = (IF y = ptr[q] THEN 1 ELSE 0)
                           /\ Pointers!Count(y, <<ptr[p]>>) = (IF y = ptr[p] THEN 1 ELSE 0)
    BY CountOne, CountNone
  <2> HIDE DEF n
  <2>6. Balanced(n, <<ptr[q]>>, <<ptr[p]>>)
    <3> SUFFICES ASSUME NEW y \in Managed
                 PROVE  /\ Pointers!Count(y, <<ptr[q]>>) \in {0, 1} /\ Pointers!Count(y, <<ptr[p]>>) \in {0, 1}
                        /\ C(n, y) \in Nat
                        /\ C(n, y) + raw'[y] =
                             C(ptr, y) + raw[y] + Pointers!Count(y, <<ptr[q]>>) - Pointers!Count(y, <<ptr[p]>>)
                        /\ Pointers!Count(y, <<ptr[q]>>) = 1 => deleted[y] = 0
                        /\ Pointers!Count(y, <<ptr[p]>>) = 1 => \E r \in Ptrs : ptr[r] = y
      BY DEF Balanced
    <3>1. raw[y] \in Nat /\ raw'[y] = raw[y] /\ (\A r \in Ptrs : ptr[r] = y => deleted[y] = 0)
      BY <2>2, PointerFacts
    <3>2. /\ Pointers!Count(y, <<ptr[q]>>) = (IF y = ptr[q] THEN 1 ELSE 0)
          /\ Pointers!Count(y, <<ptr[p]>>) = (IF y = ptr[p] THEN 1 ELSE 0)
      BY <2>5
    <3>3. C(n, y) \in Nat /\ C(ptr, y) \in Nat /\ C(n, y) = C(ptr, y) + (IF ptr[q] = y THEN 1 ELSE 0) - (IF ptr[p] = y THEN 1 ELSE 0)
      BY <2>4
    <3> HIDE DEF C
    <3> QED BY <3>1, <3>2, <3>3, <2>1, <2>3, <1>t
  <2> QED BY <2>1, <2>2, <2>3, <2>6, StatementCounts
<1>4. ASSUME NEW p \in Ptrs, NEW q \in Ptrs, Pointers!MovePtr(p, q) PROVE PointersInv'
  <2> DEFINE old == IF p = q THEN Nil ELSE ptr[p]
             m == Redirected(ptr, q, Nil)
             n == Redirected(m, p, ptr[q])
  <2>1. Pointers!Statement(n, <<>>, <<old>>) /\ raw' = raw
    BY <1>4, <1>t DEF Pointers!MovePtr, Redirected
  <2>2. raw' \in [Managed -> Nat] /\ \A y \in Managed : raw'[y] = raw[y]
    BY <2>1, <1>t
  <2>3. n \in F /\ m \in F /\ ptr[q] \in Managed \cup {Nil} /\ m[p] = old /\ (\A y \in Managed : old = y => ptr[p] = y)
    BY <1>t DEF Redirected
  <2>4. ASSUME NEW y \in Managed
        PROVE  /\ C(n, y) \in Nat /\ C(ptr, y) \in Nat
               /\ C(n, y) = C(ptr, y) - (IF old = y THEN 1 ELSE 0)
    <3>1. /\ C(ptr, y) \in Nat /\ C(m, y) \in Nat
          /\ C(m, y) = C(ptr, y) + (IF Nil = y THEN 1 ELSE 0) - (IF ptr[q] = y THEN 1 ELSE 0)
      BY <1>t, HoldersOfOne
    <3>2. /\ C(n, y) \in Nat
          /\ C(n, y) = C(m, y) + (IF ptr[q] = y THEN 1 ELSE 0) - (IF m[p] = y THEN 1 ELSE 0)
      BY <1>t, <2>3, HoldersOfOne
    <3> HIDE DEF n, m, C, old
    <3> QED BY <3>1, <3>2, <2>3, <1>t
  <2>5. \A y \in Managed : Pointers!Count(y, <<>>) = 0
                           /\ Pointers!Count(y, <<old>>) = (IF y = old THEN 1 ELSE 0)
    BY CountOne, CountNone
  <2> HIDE DEF n, m, old
  <2>6. Balanced(n, <<>>, <<old>>)
    <3> SUFFICES ASSUME NEW y \in Managed
                 PROVE  /\ Pointers!Count(y, <<>>) \in {0, 1} /\ Pointers!Count(y, <<old>>) \in {0, 1}
                        /\ C(n, y) \in Nat
                        /\ C(n, y) + raw'[y] =
                             C(ptr, y) + raw[y] + Pointers!Count(y, <<>>) - Pointers!Count(y, <<old>>)
                        /\ Pointers!Count(y, <<>>) = 1 => deleted[y] = 0
                        /\ Pointers!Count(y, <<old>>) = 1 => \E r \in Ptrs : ptr[r] = y
      BY DEF Balanced
    <3>1. raw[y] \in Nat /\ raw'[y] = raw[y] /\ (\A r \in Ptrs : ptr[r] = y => deleted[y] = 0)
      BY <2>2, PointerFacts
    <3>2. /\ Pointers!Count(y, <<>>) = 0
          /\ Pointers!Count(y, <<old>>) = (IF y = old THEN 1 ELSE 0)
      BY <2>5
    <3>3. C(n, y) \in Nat /\ C(ptr, y) \in Nat /\ C(n, y) = C(ptr, y) - (IF old = y THEN 1 ELSE 0)
      BY <2>4
    <3> HIDE DEF C
    <3> QED BY <3>1, <3>2, <3>3, <2>1, <2>3, <1>t
  <2> QED BY <2>1, <2>2, <2>3, <2>6, StatementCounts
<1>5. ASSUME NEW p \in Ptrs, NEW q \in Ptrs, Pointers!Swap(p, q) PROVE PointersInv'
  <2> DEFINE m == Redirected(ptr, p, ptr[q])
             n == Redirected(m, q, ptr[p])
  <2>1. Pointers!Statement(n, <<>>, <<>>) /\ raw' = raw
    BY <1>5, <1>t DEF Pointers!Swap, Redirected
  <2>2. raw' \in [Managed -> Nat] /\ \A y \in Managed : raw'[y] = raw[y]
    BY <2>1, <1>t
  <2>3. n \in F /\ m \in F /\ ptr[p] \in Managed \cup {Nil} /\ m[q] = ptr[q]
    BY <1>t DEF Redirected
  <2>4. ASSUME NEW y \in Managed
        PROVE  /\ C(n, y) \in Nat /\ C(ptr, y) \in Nat
               /\ C(n, y) = C(ptr, y)
    <3>1. /\ C(ptr, y) \in Nat /\ C(m, y) \in Nat
          /\ C(m, y) = C(ptr, y) + (IF ptr[q] = y THEN 1 ELSE 0) - (IF ptr[p] = y THEN 1 ELSE 0)
      BY <1>t, HoldersOfOne
    <3>2. /\ C(n, y) \in Nat
          /\ C(n, y) = C(m, y) + (IF ptr[p] = y THEN 1 ELSE 0) - (IF m[q] = y THEN 1 ELSE 0)
      BY <1>t, <2>3, HoldersOfOne
    <3> HIDE DEF n, m, C
    <3> QED BY <3>1, <3>2, <2>3, <1>t
  <2>5. \A y \in Managed : Pointers!Count(y, <<>>) = 0
                           /\ Pointers!Count(y, <<>>) = 0
    BY CountOne, CountNone
  <2> HIDE DEF n, m
  <2>6. Balanced(n, <<>>, <<>>)
    <3> SUFFICES ASSUME NEW y \in Managed
                 PROVE  /\ Pointers!Count(y, <<>>) \in {0, 1} /\ Pointers!Count(y, <<>>) \in {0, 1}
                        /\ C(n, y) \in Nat
                        /\ C(n, y) + raw'[y] =
                             C(ptr, y) + raw[y] + Pointers!Count(y, <<>>) - Pointers!Count(y, <<>>)
                        /\ Pointers!Count(y, <<>>) = 1 => deleted[y] = 0
                        /\ Pointers!Count(y, <<>>) = 1 => \E r \in Ptrs : ptr[r] = y
      BY DEF Balanced
    <3>1. raw[y] \in Nat /\ raw'[y] = raw[y] /\ (\A r \in Ptrs : ptr[r] = y => deleted[y] = 0)
      BY <2>2, PointerFacts
    <3>2. /\ Pointers!Count(y, <<>>) = 0
          /\ Pointers!Count(y, <<>>) = 0
      BY <2>5
    <3>3. C(n, y) \in Nat /\ C(ptr, y) \in Nat /\ C(n, y) = C(ptr, y)
      BY <2>4
    <3> HIDE DEF C
    <3> QED BY <3>1, <3>2, <3>3, <2>1, <2>3, <1>t
  <2> QED BY <2>1, <2>2, <2>3, <2>6, StatementCounts
<1>6. ASSUME NEW p \in Ptrs, Pointers!Release(p) PROVE PointersInv'
  <2> DEFINE n == Redirected(ptr, p, Nil)
  <2>1. Pointers!Statement(n, <<>>, <<>>) /\ raw' = [raw EXCEPT ![ptr[p]] = @ + 1] /\ ptr[p] \in Managed
    BY <1>6, <1>t DEF Pointers!Release, Redirected
  <2>2. raw' \in [Managed -> Nat] /\ \A y \in Managed : raw'[y] = raw[y] + (IF ptr[p] = y THEN 1 ELSE 0)
    BY <2>1, <1>t
  <2>3. n \in F /\ Nil \in Managed \cup {Nil}
    BY <1>t DEF Redirected
  <2>4. ASSUME NEW y \in Managed
        PROVE  /\ C(n, y) \in Nat /\ C(ptr, y) \in Nat
               /\ C(n, y) = C(ptr, y) + (IF Nil = y THEN 1 ELSE 0) - (IF ptr[p] = y THEN 1 ELSE 0)
    BY <1>t, <2>3, HoldersOfOne
  <2>5. \A y \in Managed : Pointers!Count(y, <<>>) = 0
                           /\ Pointers!Count(y, <<>>) = 0
    BY CountOne, CountNone
  <2> HIDE DEF n
  <2>6. Balanced(n, <<>>, <<>>)
    <3> SUFFICES ASSUME NEW y \in Managed
                 PROVE  /\ Pointers!Count(y, <<>>) \in {0, 1} /\ Pointers!Count(y, <<>>) \in {0, 1}
                        /\ C(n, y) \in Nat
                        /\ C(n, y) + raw'[y] =
                             C(ptr, y) + raw[y] + Pointers!Count(y, <<>>) - Pointers!Count(y, <<>>)
                        /\ Pointers!Count(y, <<>>) = 1 => deleted[y] = 0
                        /\ Pointers!Count(y, <<>>) = 1 => \E r \in Ptrs : ptr[r] = y
      BY DEF Balanced
    <3>1. raw[y] \in Nat /\ raw'[y] = raw[y] + (IF ptr[p] = y THEN 1 ELSE 0) /\ (\A r \in Ptrs : ptr[r] = y => deleted[y] = 0)
      BY <2>2, PointerFacts
    <3>2. /\ Pointers!Count(y, <<>>) = 0
          /\ Pointers!Count(y, <<>>) = 0
      BY <2>5
    <3>3. C(n, y) \in Nat /\ C(ptr, y) \in Nat /\ C(n, y) = C(ptr, y) + (IF Nil = y THEN 1 ELSE 0) - (IF ptr[p] = y THEN 1 ELSE 0)
      BY <2>4
    <3> HIDE DEF C
    <3> QED BY <3>1, <3>2, <3>3, <1>t
  <2> QED BY <2>1, <2>2, <2>3, <2>6, StatementCounts
<1>7. ASSUME NEW p \in Ptrs, Pointers!Destroy(p) PROVE PointersInv'
  <2> DEFINE n == Redirected(ptr, p, Nil)
  <2>1. Pointers!Statement(n, <<>>, <<ptr[p]>>) /\ raw' = raw
    BY <1>7, <1>t DEF Pointers!Destroy, Redirected
  <2>2. raw' \in [Managed -> Nat] /\ \A y \in Managed : raw'[y] = raw[y]
    BY <2>1, <1>t
  <2>3. n \in F /\ Nil \in Managed \cup {Nil}
    BY <1>t DEF Redirected
  <2>4. ASSUME NEW y \in Managed
        PROVE  /\ C(n, y) \in Nat /\ C(ptr, y) \in Nat
               /\ C(n, y) = C(ptr, y) + (IF Nil = y THEN 1 ELSE 0) - (IF ptr[p] = y THEN 1 ELSE 0)
    BY <1>t, <2>3, HoldersOfOne
  <2>5. \A y \in Managed : Pointers!Count(y, <<>>) = 0
                           /\ Pointers!Count(y, <<ptr[p]>>) = (IF y = ptr[p] THEN 1 ELSE 0)
    BY CountOne, CountNone
  <2> HIDE DEF n
  <2>6. Balanced(n, <<>>, <<ptr[p]>>)
    <3> SUFFICES ASSUME NEW y \in Managed
                 PROVE  /\ Pointers!Count(y, <<>>) \in {0, 1} /\ Pointers!Count(y, <<ptr[p]>>) \in {0, 1}
                        /\ C(n, y) \in Nat
                        /\ C(n, y) + raw'[y] =
                             C(ptr, y) + raw[y] + Pointers!Count(y, <<>>) - Pointers!Count(y, <<ptr[p]>>)
                        /\ Pointers!Count(y, <<>>) = 1 => deleted[y] = 0
                        /\ Pointers!Count(y, <<ptr[p]>>) = 1 => \E r \in Ptrs : ptr[r] = y
      BY DEF Balanced
    <3>1. raw[y] \in Nat /\ raw'[y] = raw[y] /\ (\A r \in Ptrs : ptr[r] = y => deleted[y] = 0)
      BY <2>2, PointerFacts
    <3>2. /\ Pointers!Count(y, <<>>) = 0
          /\ Pointers!Count(y, <<ptr[p]>>) = (IF y = ptr[p] THEN 1 ELSE 0)
      BY <2>5
    <3>3. C(n, y) \in Nat /\ C(ptr, y) \in Nat /\ C(n, y) = C(ptr, y) + (IF Nil = y THEN 1 ELSE 0) - (IF ptr[p] = y THEN 1 ELSE 0)
      BY <2>4
    <3> HIDE DEF C
    <3> QED BY <3>1, <3>2, <3>3, <2>1, <2>3, <1>t
  <2> QED BY <2>1, <2>2, <2>3, <2>6, StatementCounts
<1>8. CASE UNCHANGED Pointers!ptrVars
  BY <1>8 DEF PointersInv, Pointers!CountsExact, Pointers!Holders, Pointers!ptrVars
<1> QED BY <1>1, <1>2, <1>3, <1>4, <1>5, <1>6, <1>7, <1>8 DEF Pointers!Next

-----------------------------------------------------------------------------
(************************** Values that a host holds ***********************)
\* What a place may be in, and the values and iterators that the host may hold.
Whats ==
  {<<k>> : k \in {"unit", "vector", "union", "reference", "tuple", "content", "component"}}
    \cup {<<k, n>> : k \in {"element", "alternative"}, n \in Nat}
Places == [unit : Units, what : Whats, gen : Nat]
HeldValues == [place : Places, handle : Nat]

\* A unit that a parent keeps alive, by itself or through a reference.
IsInside(u) == u = Root \/ u = unit[Root].ref
\* Nothing has happened to what is at a place.
IsThere(p) ==
  /\ IsInside(p.unit)
  /\ p.what[1] = "element" => p.gen = unit[p.unit].gen /\ p.what[2] <= unit[p.unit].elems
  /\ p.what[1] = "content" => unit[p.unit].set
  /\ p.what[1] = "alternative" => unit[p.unit].alternative = p.what[2]

\* The iterator is at an element or behind the last one.
IsOver(it) ==
  /\ IsInside(it.value.place.unit) /\ it.end = unit[it.value.place.unit].elems + 1
  /\ it.at # None => it.at < it.end

TraversalInv ==
  /\ unit \in [Units -> [elems : Nat, gen : Nat, set : BOOLEAN, alternative : Nat, ref : Units \cup {None}]]
  /\ \A u \in Units : u # Root => unit[u].ref = None
  /\ held \subseteq Units /\ changes \in Nat /\ touched \in BOOLEAN
  /\ parent \in [Parents -> [handle : Nat, keeps : {Root}] \cup {Traversal!Unmade}]
  /\ value \in HeldValues \cup {Traversal!NoValue}
  /\ walk \in [at : (Nat \ {0}) \cup {None}, end : Nat \ {0}, value : HeldValues] \cup {Traversal!NoIter}
  /\ ~touched /\ value # Traversal!NoValue => IsThere(value.place)
  /\ ~touched /\ walk # Traversal!NoIter => IsOver(walk)

\* The instance's Cardinality is that of the library's theorems.
LEMMA TraversalCardinality == \A S : Traversal!Cardinality(S) = Cardinality(S)
BY DEF Traversal!Cardinality, Cardinality

\* A parent that keeps nothing has no handle, and nobody else has the handle None.
LEMMA ParentsKeep ==
  ASSUME TraversalInv, NEW p \in Parents
  PROVE  \/ parent[p] = Traversal!Unmade /\ parent[p].handle = None /\ parent[p].keeps = None
         \/ parent[p] # Traversal!Unmade /\ parent[p].handle \in Nat /\ parent[p].keeps = Root
BY TraversalAssumption DEF TraversalInv, Traversal!Unmade

\* What is inside a unit that a parent with that handle keeps is alive.
LEMMA InsideIsAlive ==
  ASSUME TraversalInv, NEW h \in Nat, Traversal!Alive(h), NEW u \in Units, IsInside(u)
  PROVE  u \in Traversal!LiveUnits
<1>1. PICK p \in Parents : parent[p].handle = h
  BY DEF Traversal!Alive
<1>2. parent[p].keeps = Root /\ Root # None /\ u # None
  BY <1>1, ParentsKeep, TraversalAssumption
<1>3. Root \in Traversal!Kept(parent)
  BY <1>2 DEF Traversal!Kept
<1> QED BY <1>2, <1>3 DEF Traversal!LiveUnits, Traversal!Reached, IsInside

\* Properties of a state that satisfies the invariant.
LEMMA TraversalSafe == TraversalInv => Traversal!TraversalIsSafe
<1> SUFFICES ASSUME TraversalInv PROVE Traversal!TraversalIsSafe
  OBVIOUS
<1>1. Traversal!ValuesStay
  <2> SUFFICES ASSUME ~touched, Traversal!Readable(value) PROVE Traversal!Exists(value.place)
    BY DEF Traversal!ValuesStay
  <2>1. value.place # None /\ Traversal!Alive(value.handle)
    BY DEF Traversal!Readable
  <2>2. value # Traversal!NoValue
    BY <2>1 DEF Traversal!NoValue
  <2>3. value \in HeldValues /\ IsThere(value.place)
    BY <2>2 DEF TraversalInv
  <2>4. value.handle \in Nat /\ value.place.unit \in Units /\ IsInside(value.place.unit)
    BY <2>3 DEF HeldValues, Places, IsThere
  <2>5. value.place.unit \in Traversal!LiveUnits
    BY <2>1, <2>4, InsideIsAlive
  <2> QED BY <2>3, <2>5 DEF IsThere, Traversal!Exists
<1>2. Traversal!VisitsAll
  <2> SUFFICES ASSUME ~touched, walk # Traversal!NoIter
               PROVE  /\ walk.at # None => walk.at \in 1 .. unit[walk.value.place.unit].elems
                      /\ walk.at = None => walk.end = unit[walk.value.place.unit].elems + 1
    BY DEF Traversal!VisitsAll
  <2>1. walk \in [at : (Nat \ {0}) \cup {None}, end : Nat \ {0}, value : HeldValues] /\ IsOver(walk)
    BY DEF TraversalInv
  <2>2. walk.value.place.unit \in Units
    BY <2>1 DEF HeldValues, Places
  <2>3. unit[walk.value.place.unit].elems \in Nat
    BY <2>2 DEF TraversalInv
  <2> QED BY <2>1, <2>3 DEF IsOver
<1> QED BY <1>1, <1>2 DEF Traversal!TraversalIsSafe

\* One more element.
LEMMA AddOne ==
  ASSUME NEW S, IsFiniteSet(S), NEW x
  PROVE  /\ IsFiniteSet(S \cup {x}) /\ Cardinality(S) \in Nat /\ Cardinality(S \cup {x}) \in Nat
         /\ Cardinality(S \cup {x}) <= Cardinality(S) + 1
<1>1. Cardinality(S) \in Nat
  BY FS_CardinalityType
<1>2. /\ IsFiniteSet(S \cup {x})
      /\ Cardinality(S \cup {x}) = IF x \in S THEN Cardinality(S) ELSE Cardinality(S) + 1
  BY FS_AddElement
<1> QED BY <1>1, <1>2

\* There is a handle that nobody has, and one is found.
LEMMA HandleIsFresh ==
  ASSUME TraversalInv, NEW p \in Parents, parent[p] = Traversal!Unmade
  PROVE  Traversal!FreshHandle(p) \in Nat
<1> DEFINE N == Cardinality(Parents)
           T == {parent[q].handle : q \in Parents \ {p}}
           S == T \cup {value.handle} \cup {walk.value.handle}
           I == 1 .. 2 * N + 1
<1>1. IsFiniteSet(Parents) /\ N \in Nat /\ N > 0
  BY TraversalAssumption, FS_CardinalityType, FS_EmptySet
<1>2. IsFiniteSet(Parents \ {p}) /\ Cardinality(Parents \ {p}) = N - 1
  BY <1>1, FS_RemoveElement
<1>3. IsFiniteSet(T) /\ Cardinality(T) <= N - 1
  <2> DEFINE f == [q \in Parents \ {p} |-> parent[q].handle]
  <2>1. f \in Surjection(Parents \ {p}, T)
    BY DEF Surjection
  <2> QED BY <2>1, <1>2, FS_Surjection
<1>4. IsFiniteSet(S) /\ Cardinality(S) <= N + 1
  <2> HIDE DEF T
  <2> DEFINE V == T \cup {value.handle}
  <2>1. IsFiniteSet(V) /\ Cardinality(T) \in Nat /\ Cardinality(V) \in Nat /\ Cardinality(V) <= Cardinality(T) + 1
    BY <1>3, AddOne
  <2> HIDE DEF V
  <2>2. /\ IsFiniteSet(V \cup {walk.value.handle}) /\ Cardinality(V \cup {walk.value.handle}) \in Nat
        /\ Cardinality(V \cup {walk.value.handle}) <= Cardinality(V) + 1
    BY <2>1, AddOne
  <2>3. S = V \cup {walk.value.handle}
    BY DEF V
  <2> HIDE DEF S, N
  <2> QED BY <2>1, <2>2, <2>3, <1>1, <1>3
<1>5. IsFiniteSet(I) /\ Cardinality(I) = 2 * N + 1
  BY <1>1, FS_Interval
<1>6. \E h \in I : h \notin S
  <2>1. SUFFICES ASSUME I \subseteq S PROVE FALSE
    OBVIOUS
  <2>2. Cardinality(I) <= Cardinality(S)
    BY <2>1, <1>4, FS_Subset
  <2>3. Cardinality(S) \in Nat
    BY <1>4, FS_CardinalityType
  <2> HIDE DEF S, I, N
  <2> QED BY <2>2, <2>3, <1>1, <1>4, <1>5
<1>7. PICK h \in I : h \notin S
  BY <1>6
<1>8. parent[p].handle # h
  BY <1>7, ParentsKeep, TraversalAssumption
<1>9. \A q \in Parents : parent[q].handle # h
  BY <1>7, <1>8
<1>10. /\ h \in 1 .. 2 * Traversal!Cardinality(Parents) + 1
       /\ \A q \in Parents : parent[q].handle # h
       /\ value.handle # h /\ walk.value.handle # h
  BY <1>7, <1>9, TraversalCardinality
<1>11. Traversal!FreshHandle(p) \in 1 .. 2 * Traversal!Cardinality(Parents) + 1
  BY <1>10 DEF Traversal!FreshHandle
<1> QED BY <1>11

\* The host holds nothing at first.
LEMMA TraversalInit == Traversal!Init => TraversalInv
<1> SUFFICES ASSUME Traversal!Init PROVE TraversalInv
  OBVIOUS
<1>1. (CHOOSE v \in Units : v # Root) \in Units
  BY TraversalAssumption
<1> QED BY <1>1, TraversalAssumption DEF Traversal!Init, TraversalInv

\* Every step keeps the invariant.
LEMMA TraversalStep == TraversalInv /\ [Traversal!Next]_(Traversal!infoVars) => TraversalInv'
<1> SUFFICES ASSUME TraversalInv, [Traversal!Next]_(Traversal!infoVars) PROVE TraversalInv'
  OBVIOUS
<1> DEFINE Made == [handle : Nat, keeps : {Root}]
           Walks == [at : (Nat \ {0}) \cup {None}, end : Nat \ {0}, value : HeldValues]
           Data == [elems : Nat, gen : Nat, set : BOOLEAN, alternative : Nat, ref : Units \cup {None}]
<1>t. /\ unit \in [Units -> Data] /\ (\A u \in Units : u # Root => unit[u].ref = None)
      /\ held \subseteq Units /\ changes \in Nat /\ touched \in BOOLEAN
      /\ parent \in [Parents -> Made \cup {Traversal!Unmade}]
      /\ value \in HeldValues \cup {Traversal!NoValue} /\ walk \in Walks \cup {Traversal!NoIter}
      /\ (~touched /\ value # Traversal!NoValue => IsThere(value.place))
      /\ (~touched /\ walk # Traversal!NoIter => IsOver(walk))
      /\ Root \in Units /\ None \notin Nat /\ None \notin Units
  BY TraversalAssumption DEF TraversalInv
\* Actions of the parents leave what the host holds alone.
<1>p. ASSUME parent' \in [Parents -> Made \cup {Traversal!Unmade}],
             UNCHANGED <<unit, held, value, walk, touched, changes>>
      PROVE  TraversalInv'
  BY <1>p, <1>t DEF TraversalInv, IsThere, IsOver, IsInside
<1>1. ASSUME NEW p \in Parents, Traversal!Initialize(p, Root) PROVE TraversalInv'
  <2>1. Traversal!FreshHandle(p) \in Nat
    BY <1>1, HandleIsFresh DEF Traversal!Initialize
  <2>2. parent' = [parent EXCEPT ![p] = [handle |-> Traversal!FreshHandle(p), keeps |-> Root]]
    BY <1>1 DEF Traversal!Initialize
  <2>3. parent' \in [Parents -> Made \cup {Traversal!Unmade}]
    BY <2>1, <2>2, <1>t
  <2> QED BY <2>3, <1>1, <1>p DEF Traversal!Initialize
<1>2. ASSUME NEW p \in Parents, Traversal!Destroy(p) PROVE TraversalInv'
  BY <1>2, <1>p, <1>t DEF Traversal!Destroy
<1>3. ASSUME NEW p \in Parents, NEW q \in Parents, Traversal!CopyParent(p, q) PROVE TraversalInv'
  BY <1>3, <1>p, <1>t DEF Traversal!CopyParent
<1>4. ASSUME NEW p \in Parents, Traversal!Start(p) PROVE TraversalInv'
  <2>1. parent[p].handle \in Nat /\ parent[p].keeps = Root
    BY <1>4, ParentsKeep DEF Traversal!Start
  <2>2. Traversal!Place(Root, <<"unit">>) = [unit |-> Root, what |-> <<"unit">>, gen |-> 0]
    BY DEF Traversal!Place
  <2>3. /\ value' = [place |-> [unit |-> Root, what |-> <<"unit">>, gen |-> 0], handle |-> parent[p].handle]
        /\ walk' = Traversal!NoIter /\ touched' = FALSE /\ UNCHANGED <<unit, held, parent, changes>>
    BY <1>4, <2>1, <2>2 DEF Traversal!Start
  <2>4. value' \in HeldValues
    BY <2>1, <2>3, <1>t DEF HeldValues, Places, Whats
  <2>5. IsThere(value.place)'
    BY <2>3 DEF IsThere, IsInside
  <2> QED BY <2>3, <2>4, <2>5, <1>t DEF TraversalInv
\* Whatever the host gets instead of its value is there if the value was.
<1>g. ASSUME NEW v, Traversal!Gets(v),
             v \in HeldValues \cup {Traversal!NoValue},
             ~touched /\ v # Traversal!NoValue => IsThere(v.place)
      PROVE  TraversalInv'
  BY <1>g, <1>t DEF Traversal!Gets, TraversalInv, IsThere, IsOver, IsInside
\* A child of a value that is there.
<1>c. ASSUME NEW v \in HeldValues, NEW what \in Whats,
             what[1] = "element" => what[2] <= unit[v.place.unit].elems,
             what[1] = "content" => unit[v.place.unit].set,
             what[1] = "alternative" => unit[v.place.unit].alternative = what[2]
      PROVE  /\ Traversal!Child(v, what) \in HeldValues
             /\ IsInside(v.place.unit) => IsThere(Traversal!Child(v, what).place)
  <2>1. v.place.unit \in Units /\ v.handle \in Nat
    BY <1>c DEF HeldValues, Places
  <2>2. unit[v.place.unit].gen \in Nat
    BY <2>1, <1>t
  <2> DEFINE g == IF what[1] = "element" THEN unit[v.place.unit].gen ELSE 0
  <2>3. Traversal!Place(v.place.unit, what) = [unit |-> v.place.unit, what |-> what, gen |-> g]
    BY DEF Traversal!Place
  <2>4. Traversal!Child(v, what) = [place |-> [unit |-> v.place.unit, what |-> what, gen |-> g], handle |-> v.handle]
    BY <2>3, <1>c DEF Traversal!Child, HeldValues
  <2>5. g \in Nat
    BY <2>2
  <2>6. Traversal!Child(v, what) \in HeldValues
    BY <2>1, <2>4, <2>5, <1>c DEF HeldValues, Places
  <2>7. ASSUME IsInside(v.place.unit) PROVE IsThere(Traversal!Child(v, what).place)
    BY <2>4, <2>7, <1>c DEF IsThere
  <2> QED BY <2>6, <2>7
\* A value that can be read.
<1>r. ASSUME Traversal!Readable(value)
      PROVE  /\ value \in HeldValues /\ value # Traversal!NoValue /\ value.place.unit \in Units
             /\ value.place \in Places /\ (~touched => IsInside(value.place.unit))
  BY <1>r, <1>t DEF Traversal!Readable, Traversal!NoValue, HeldValues, Places, IsThere
<1>5. ASSUME Traversal!Fields PROVE TraversalInv'
  <2>1. /\ value \in HeldValues /\ value.place.unit \in Units /\ (~touched => IsInside(value.place.unit))
    BY <1>5, <1>r DEF Traversal!Fields, Traversal!IsA
  <2>2. CASE \E f \in {"vector", "union", "reference", "tuple"} : Traversal!Gets(Traversal!Child(value, <<f>>))
    <3>1. PICK f \in {"vector", "union", "reference", "tuple"} : Traversal!Gets(Traversal!Child(value, <<f>>))
      BY <2>2
    <3>2. <<f>> \in Whats /\ <<f>>[1] = f
      BY DEF Whats
    <3>3. Traversal!Child(value, <<f>>) \in HeldValues
          /\ (~touched => IsThere(Traversal!Child(value, <<f>>).place))
      BY <2>1, <3>2, <1>c
    <3> QED BY <3>1, <3>3, <1>g
  <2>3. CASE Traversal!Gets(IF unit[value.place.unit].set
                            THEN Traversal!Child(value, <<"content">>) ELSE Traversal!NoValue)
    <3>1. CASE unit[value.place.unit].set
      <4>1. <<"content">> \in Whats /\ <<"content">>[1] = "content"
        BY DEF Whats
      <4>2. Traversal!Child(value, <<"content">>) \in HeldValues
            /\ (~touched => IsThere(Traversal!Child(value, <<"content">>).place))
        BY <2>1, <3>1, <4>1, <1>c
      <4> QED BY <2>3, <3>1, <4>2, <1>g
    <3>2. CASE ~unit[value.place.unit].set
      BY <2>3, <3>2, <1>g
    <3> QED BY <3>1, <3>2
  <2> QED BY <2>2, <2>3, <1>5 DEF Traversal!Fields
<1>6. ASSUME Traversal!Elements PROVE TraversalInv'
  <2>1. /\ value \in HeldValues /\ value.place.unit \in Units /\ (~touched => IsInside(value.place.unit))
    BY <1>6, <1>r DEF Traversal!Elements, Traversal!IsA
  <2>2. <<"component">> \in Whats /\ <<"component">>[1] = "component"
    BY DEF Whats
  <2>3. Traversal!Child(value, <<"component">>) \in HeldValues
        /\ (~touched => IsThere(Traversal!Child(value, <<"component">>).place))
    BY <2>1, <2>2, <1>c
  <2> QED BY <2>3, <1>6, <1>g DEF Traversal!Elements
<1>7. ASSUME Traversal!Selected PROVE TraversalInv'
  <2>1. /\ value \in HeldValues /\ value.place.unit \in Units /\ (~touched => IsInside(value.place.unit))
    BY <1>7, <1>r DEF Traversal!Selected, Traversal!IsA
  <2> DEFINE n == unit[value.place.unit].alternative
  <2>2. n \in Nat /\ Traversal!Gets(IF n > 0 THEN Traversal!Child(value, <<"alternative", n>>) ELSE Traversal!NoValue)
    BY <2>1, <1>7, <1>t DEF Traversal!Selected
  <2>3. <<"alternative", n>> \in Whats /\ <<"alternative", n>>[1] = "alternative" /\ <<"alternative", n>>[2] = n
    BY <2>2 DEF Whats
  <2>4. Traversal!Child(value, <<"alternative", n>>) \in HeldValues
        /\ (~touched => IsThere(Traversal!Child(value, <<"alternative", n>>).place))
    BY <2>1, <2>3, <1>c
  <2> HIDE DEF n
  <2>5. CASE n > 0
    BY <2>2, <2>4, <2>5, <1>g
  <2>6. CASE ~(n > 0)
    BY <2>2, <2>6, <1>g
  <2> QED BY <2>5, <2>6
<1>8. ASSUME Traversal!Dereference PROVE TraversalInv'
  <2>1. /\ value \in HeldValues /\ value.place.unit \in Units /\ (~touched => IsInside(value.place.unit))
    BY <1>8, <1>r DEF Traversal!Dereference, Traversal!IsA
  <2> DEFINE u == unit[value.place.unit].ref
             v == [value EXCEPT !.place = Traversal!Place(u, <<"unit">>)]
  <2>2. u \in Units \cup {None} /\ Traversal!Gets(IF u = None THEN Traversal!NoValue ELSE v)
    BY <2>1, <1>8, <1>t DEF Traversal!Dereference
  <2>3. CASE u = None
    BY <2>2, <2>3, <1>g
  <2>4. CASE u # None
    <3>1. Traversal!Place(u, <<"unit">>) = [unit |-> u, what |-> <<"unit">>, gen |-> 0] /\ <<"unit">> \in Whats
      BY DEF Traversal!Place, Whats
    <3>2. v = [place |-> [unit |-> u, what |-> <<"unit">>, gen |-> 0], handle |-> value.handle]
      BY <2>1, <3>1 DEF HeldValues
    <3>3. v \in HeldValues
      BY <2>1, <2>2, <2>4, <3>1, <3>2 DEF HeldValues, Places
    <3>4. ~touched => IsInside(u)
      BY <2>1, <2>2, <2>4, <1>t DEF IsInside
    <3> HIDE DEF v, u
    <3>5. ~touched => IsThere(v.place)
      BY <3>2, <3>4 DEF IsThere
    <3> QED BY <2>2, <2>4, <3>3, <3>5, <1>g
  <2> QED BY <2>3, <2>4
<1>9. ASSUME Traversal!Begin PROVE TraversalInv'
  <2>1. /\ value \in HeldValues /\ value.place.unit \in Units /\ (~touched => IsInside(value.place.unit))
    BY <1>9, <1>r DEF Traversal!Begin, Traversal!IsA
  <2> DEFINE e == unit[value.place.unit].elems + 1
  <2>2. /\ e \in Nat \ {0} /\ walk' = [at |-> IF 1 = e THEN None ELSE 1, end |-> e, value |-> value]
        /\ UNCHANGED <<unit, held, parent, value, touched, changes>>
    BY <2>1, <1>9, <1>t DEF Traversal!Begin, Traversal!At
  <2>3. walk' \in Walks
    BY <2>1, <2>2
  <2>4. ~touched => IsOver(walk)'
    BY <2>1, <2>2, <1>t DEF IsOver, IsInside
  <2> QED BY <2>2, <2>3, <2>4, <1>t DEF TraversalInv, IsThere, IsInside
<1>10. ASSUME Traversal!Increment PROVE TraversalInv'
  <2>1. walk.at # None /\ walk \in Walks
    BY <1>10, <1>t DEF Traversal!Increment, Traversal!NoIter
  <2>2. /\ walk' = [at |-> IF walk.at + 1 = walk.end THEN None ELSE walk.at + 1, end |-> walk.end, value |-> walk.value]
        /\ UNCHANGED <<unit, held, parent, value, touched, changes>>
    BY <1>10 DEF Traversal!Increment, Traversal!At
  <2>3. walk' \in Walks
    BY <2>1, <2>2
  <2>4. walk # Traversal!NoIter
    BY <2>1 DEF Traversal!NoIter
  <2>5. ~touched => IsOver(walk)'
    BY <2>1, <2>2, <2>4, <1>t DEF IsOver, IsInside
  <2> QED BY <2>2, <2>3, <2>5, <1>t DEF TraversalInv, IsThere, IsInside
<1>11. ASSUME Traversal!Element PROVE TraversalInv'
  <2>1. walk.at # None /\ walk \in Walks /\ walk # Traversal!NoIter
    BY <1>11, <1>t DEF Traversal!Element, Traversal!NoIter
  <2> DEFINE v == walk.value
             w == <<"element", walk.at>>
  <2>2. v \in HeldValues /\ w \in Whats /\ w[1] = "element" /\ w[2] = walk.at
    BY <2>1 DEF Whats
  <2>3. walk.at <= unit[v.place.unit].elems /\ Traversal!Gets(Traversal!Child(v, w))
    BY <1>11 DEF Traversal!Element, Traversal!Gets
  <2>4. ~touched => IsInside(v.place.unit)
    BY <2>1, <1>t DEF IsOver
  <2> HIDE DEF v, w
  <2>5. Traversal!Child(v, w) \in HeldValues /\ (~touched => IsThere(Traversal!Child(v, w).place))
    BY <2>2, <2>3, <2>4, <1>c
  <2> QED BY <2>3, <2>5, <1>g
<1>12. ASSUME Traversal!Forget PROVE TraversalInv'
  BY <1>12, <1>t DEF Traversal!Forget, TraversalInv
<1>13. ASSUME Traversal!Change(Root) PROVE TraversalInv'
  <2>1. /\ changes' = changes + 1 /\ UNCHANGED <<held, parent, value, walk>>
        /\ touched' = (touched \/ value # Traversal!NoValue \/ walk # Traversal!NoIter)
    BY <1>13 DEF Traversal!Change
  <2>2. unit' \in [Units -> Data] /\ \A u \in Units : u # Root => unit'[u].ref = None
    <3>1. CASE \E n \in 0 .. 3 : unit' = [unit EXCEPT ![Root].elems = n,
                 ![Root].gen = IF n > unit[Root].elems THEN changes' ELSE @]
      <4>1. PICK n \in 0 .. 3 : unit' = [unit EXCEPT ![Root].elems = n,
                 ![Root].gen = IF n > unit[Root].elems THEN changes' ELSE @]
        BY <3>1
      <4>2. unit[Root] \in Data /\ changes' \in Nat /\ n \in Nat
        BY <2>1, <1>t
      <4> DEFINE d == [unit[Root] EXCEPT !.elems = n, !.gen = IF n > unit[Root].elems THEN changes' ELSE @]
      <4>3. unit' = [unit EXCEPT ![Root] = d]
        BY <4>1, <1>t
      <4>4. d \in Data
        BY <4>2
      <4> HIDE DEF d
      <4> QED BY <4>3, <4>4, <1>t
    <3>2. CASE unit' = [unit EXCEPT ![Root].set = ~@]
      BY <3>2, <1>t
    <3>3. CASE unit' = [unit EXCEPT ![Root].alternative = 0]
      BY <3>3, <1>t
    <3>4. CASE unit' = [unit EXCEPT ![Root].ref = None]
      BY <3>4, <1>t
    <3> QED BY <3>1, <3>2, <3>3, <3>4, <1>13 DEF Traversal!Change
  <2>3. ~touched' => value' = Traversal!NoValue /\ walk' = Traversal!NoIter
    BY <2>1
  <2>4. touched' \in BOOLEAN /\ changes' \in Nat
    BY <2>1, <1>t
  <2> QED BY <2>1, <2>2, <2>3, <2>4, <1>t DEF TraversalInv, Traversal!NoValue, Traversal!NoIter
<1>14. ASSUME NEW u \in Units, Traversal!Drop(u) PROVE TraversalInv'
  BY <1>14, <1>t DEF Traversal!Drop, TraversalInv, IsThere, IsOver, IsInside
<1>15. CASE UNCHANGED Traversal!infoVars
  BY <1>15, <1>t DEF Traversal!infoVars, TraversalInv, IsThere, IsOver, IsInside
<1> QED BY <1>1, <1>2, <1>3, <1>4, <1>5, <1>6, <1>7, <1>8, <1>9, <1>10, <1>11, <1>12, <1>13, <1>14, <1>15
        DEF Traversal!Next


-----------------------------------------------------------------------------
\* An iterator of a vector, a set or a map reads the element that it is at, or
\* throws, whatever happens to the container (vector.h, set.h, map.h; sets and maps
\* that are not copied or moved).
THEOREM IteratorsStaySafe == Containers!Spec => []Containers!IteratorsAreSafe
<1>1. Containers!Spec => []ContainersInv
  BY ContainersInit, ContainersStep, PTL DEF Containers!Spec
<1> QED BY <1>1, ContainersSafe, PTL

\* References share a value if and only if they have been bound to each other, a
\* value lives as long as it has an owner, and whoever asks for one that is not
\* there is told why (reference.h).
THEOREM ReferencesStaySafe == References!Spec => []References!ReferencesAreSafe
<1>1. References!Spec => []RefsInv
  BY ReferencesInit, ReferencesStep, PTL DEF References!Spec
<1> QED BY <1>1, ReferencesSafe, PTL

\* An object's count is the number of pointers to it, and it is deleted once, by the
\* last of them (intrusive-ptr.h).
THEOREM CountsStayExact == Pointers!Spec => []Pointers!CountsExact
<1>1. Pointers!Spec => []PointersInv
  BY PointersInit, PointersStep, PTL DEF Pointers!Spec
<1>2. PointersInv => Pointers!CountsExact
  BY DEF PointersInv
<1> QED BY <1>1, <1>2, PTL

\* A value that a host can read is there, and an iteration over one visits its
\* elements, as long as nobody changes what they belong to (type-info.h).
THEOREM TraversalStaysSafe == Traversal!Spec => []Traversal!TraversalIsSafe
<1>1. Traversal!Spec => []TraversalInv
  BY TraversalInit, TraversalStep, PTL DEF Traversal!Spec
<1> QED BY <1>1, TraversalSafe, PTL

\* All of that side by side: nothing that generated code or a host gets hold of is
\* used after it has gone.
THEOREM AccessStaysSafe ==
  Containers!Spec /\ References!Spec /\ Pointers!Spec /\ Traversal!Spec => []AccessIsSafe
BY IteratorsStaySafe, ReferencesStaySafe, CountsStayExact, TraversalStaysSafe, PTL DEF AccessIsSafe
=============================================================================
