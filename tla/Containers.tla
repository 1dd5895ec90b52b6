----------------------------- MODULE Containers -----------------------------
(***************************************************************************)
(* The runtime's vectors, sets and maps with their safe iterators          *)
(* (hilti/runtime/include/types/vector.h, set.h, map.h).  A container owns *)
(* a control block, a shared pointer to a pointer to itself; an iterator   *)
(* has a weak pointer to the block of the container it was made by, and    *)
(* refuses to be used once that has expired.  What differs is who gets a   *)
(* new block when: a vector keeps its own for good, and its iterators are  *)
(* indices; sets and maps take a new one to invalidate iterators, and a    *)
(* copy of them shares the block of the original.  Their elements are      *)
(* nodes in memory that an iterator points at, without any check but that  *)
(* of the block.                                                           *)
(***************************************************************************)
EXTENDS Integers, FiniteSets

CONSTANTS
  None,
  Objects,   \* the variables that hold a container
  Iters,     \* the variables that hold an iterator
  Keys,      \* a set's elements, a map's keys, what a vector holds: naturals above 0
  Kinds,     \* the types of container, a subset of {"vector", "set", "map"}
  Shares,    \* whether sets and maps are also copied and moved
  MaxSize    \* how many elements a vector grows to

VARIABLES
  kind,   \* the type that the containers of a behaviour have
  obj,    \* the containers: whether one is alive, its block and its elements
  iter    \* the iterators

vars == <<kind, obj, iter>>

\* An element and where it is: its index, or the address of its node.
Element(at, key) == [at |-> at, key |-> key]
Dead == [alive |-> FALSE, block |-> None, elems |-> {}]
\* An iterator's block and place: an index, a node, or End for the header of
\* the container `of`.  The container that made it, while that exists, and the
\* key it should be at are no part of the program's state.
Iterator(block, of, at, key) == [block |-> block, of |-> of, at |-> at, key |-> key, from |-> of]
Unset == Iterator(None, None, 0, 0)
End == 0
Beyond == -1

Init ==
  /\ kind \in Kinds
  /\ obj = [o \in Objects |-> Dead]
  /\ iter = [i \in Iters |-> Unset]

Live == {o \in Objects : obj[o].alive}
Size(o) == Cardinality(obj[o].elems)
Has(o, k) == \E e \in obj[o].elems : e.key = k
Held == UNION {obj[o].elems : o \in Live}

\* An address at which there is nothing and no iterator points, for a node
\* with key k; which one it is is of no interest.
NewAddress(k) ==
  LET taken == {e.at : e \in Held} \cup {iter[i].at : i \in Iters}
  IN  CHOOSE n \in {k + j * Cardinality(Keys) : j \in 0 .. Cardinality(taken)} : n \notin taken
\* A block nobody else refers to, with a pointer to o.
NewBlock(o) ==
  LET taken == {obj[p].block : p \in Live} \cup {iter[i].block : i \in Iters}
  IN  CHOOSE b \in [id : 1 .. Cardinality(taken) + 1, to : {o}] : b \notin taken
\* The same elements in memory of their own.
Copied(elems) ==
  IF kind = "vector" THEN elems ELSE {Element(NewAddress(e.key), e.key) : e \in elems}

Is(block, elems) == [alive |-> TRUE, block |-> block, elems |-> elems]
\* The iterators once o is gone, or is another container than it was.
Orphaned(o) == [i \in Iters |-> IF iter[i].from = o THEN [iter[i] EXCEPT !.from = None] ELSE iter[i]]

-----------------------------------------------------------------------------
(***************** Construction, assignment and destruction ****************)
New(o) ==
  /\ o \notin Live
  /\ obj' = [obj EXCEPT ![o] = Is(NewBlock(o), {})]
  /\ UNCHANGED <<kind, iter>>

\* A fault: a vector shares its block with its copies, as sets and maps do.
CopyBlock_Shared(o, p) == obj[p].block

\* Vector(const Vector&) leaves the new vector its own block; the constructors
\* of Set and Map, which are implicit, copy that member like any other.
CopyBlock(o, p) == IF kind = "vector" THEN NewBlock(o) ELSE obj[p].block
Copy(o, p) ==
  /\ kind = "vector" \/ Shares
  /\ o \notin Live /\ p \in Live
  /\ obj' = [obj EXCEPT ![o] = Is(CopyBlock(o, p), Copied(obj[p].elems))]
  /\ UNCHANGED <<kind, iter>>

\* The nodes that the target had are freed.
CopyAssign(o, p) ==
  /\ kind = "vector" \/ Shares
  /\ o \in Live /\ p \in Live /\ o # p
  /\ obj' = [obj EXCEPT ![o] = Is(IF kind = "vector" THEN @.block ELSE obj[p].block,
                                  Copied(obj[p].elems))]
  /\ UNCHANGED <<kind, iter>>

\* Construction or assignment from a temporary, which is gone afterwards.
Move(o, p) ==
  /\ kind = "vector" \/ Shares
  /\ p \in Live /\ o # p
  /\ obj' = [obj EXCEPT
       ![o] = Is(IF kind # "vector" THEN obj[p].block
                 ELSE IF o \in Live THEN @.block ELSE NewBlock(o), obj[p].elems),
       ![p] = Dead]
  /\ iter' = Orphaned(p)
  /\ UNCHANGED kind

Destroy(o) ==
  /\ o \in Live
  /\ obj' = [obj EXCEPT ![o] = Dead]
  /\ iter' = Orphaned(o)
  /\ UNCHANGED kind

-----------------------------------------------------------------------------
(********************************* Mutation ********************************)
Becomes(o, block, elems) ==
  /\ obj' = [obj EXCEPT ![o] = Is(block, elems)]
  /\ UNCHANGED <<kind, iter>>
Add(o, k) == obj[o].elems \cup {Element(NewAddress(k), k)}
Without(o, k) == {e \in obj[o].elems : e.key # k}

\* Set::insert() never invalidates, Map::index_assign() does for a new key.
Insert(o, k) ==
  /\ kind \in {"set", "map"} /\ o \in Live
  /\ ~Has(o, k)
  /\ Becomes(o, IF kind = "map" THEN NewBlock(o) ELSE obj[o].block, Add(o, k))

\* A fault: Map::erase() leaves the iterators alone.
Erase_KeepsBlock(o, k) ==
  /\ kind \in {"set", "map"} /\ o \in Live
  /\ kind = "map" => Has(o, k)
  /\ Becomes(o, IF kind = "map" THEN obj[o].block ELSE NewBlock(None), Without(o, k))

\* Map::erase() takes a new block if it has removed something.  The one that
\* Set::erase() takes in any case points at nothing.
Erase(o, k) ==
  /\ kind \in {"set", "map"} /\ o \in Live
  /\ kind = "map" => Has(o, k)
  /\ Becomes(o, IF kind = "map" THEN NewBlock(o) ELSE NewBlock(None), Without(o, k))

\* A fault: a vector takes a new block as well.
Clear_BlockOfVector(o) ==
  /\ o \in Live
  /\ Becomes(o, IF kind = "set" THEN NewBlock(None) ELSE NewBlock(o), {})

Clear(o) ==
  /\ o \in Live
  /\ Becomes(o, CASE kind = "vector" -> obj[o].block
                  [] kind = "map" -> NewBlock(o)
                  [] kind = "set" -> NewBlock(None), {})

\* push_back(), assign() and resize() to a larger size: element `at` becomes k,
\* and what is missing before it gets a default.
Assign(o, at, k) ==
  /\ kind = "vector" /\ o \in Live /\ at < MaxSize
  /\ Becomes(o, obj[o].block,
             {e \in obj[o].elems : e.at # at} \cup {Element(at, k)}
               \cup {Element(j, 0) : j \in Size(o) .. at - 1})

PopBack(o) ==
  /\ kind = "vector" /\ o \in Live /\ Size(o) > 0
  /\ Becomes(o, obj[o].block, {e \in obj[o].elems : e.at # Size(o) - 1})

\* The iterator says where, whichever vector it belongs to.
InsertBefore(o, i, k) ==
  /\ kind = "vector" /\ o \in Live /\ Size(o) < MaxSize
  /\ iter[i].at <= Size(o)
  /\ Becomes(o, obj[o].block,
             {IF e.at < iter[i].at THEN e ELSE Element(e.at + 1, e.key) : e \in obj[o].elems}
               \cup {Element(iter[i].at, k)})

Extend(o, p) ==
  /\ kind = "vector" /\ o \in Live /\ p \in Live /\ o # p
  /\ Size(o) + Size(p) <= MaxSize
  /\ Becomes(o, obj[o].block,
             obj[o].elems \cup {Element(e.at + Size(o), e.key) : e \in obj[p].elems})

-----------------------------------------------------------------------------
(******************************** Iterators ********************************)
\* The first of a set's or map's elements, in the order of their keys.
FirstOf(elems) == CHOOSE e \in elems : \A d \in elems : e.key <= d.key
\* An iterator with that block at the first of those elements of o, or its end.
AtFirst(block, o, elems) ==
  IF elems = {} THEN Iterator(block, o, End, 0)
  ELSE Iterator(block, o, FirstOf(elems).at, FirstOf(elems).key)
\* Set::begin() and end() do not pass on the block of an empty set.
BlockFor(o) == IF kind = "set" /\ obj[o].elems = {} THEN None ELSE obj[o].block

Begin(i, o) ==
  /\ o \in Live
  /\ iter' = [iter EXCEPT ![i] = IF kind = "vector" THEN Iterator(obj[o].block, o, 0, 0)
                                 ELSE AtFirst(BlockFor(o), o, obj[o].elems)]
  /\ UNCHANGED <<kind, obj>>

EndOf(i, o) ==
  /\ o \in Live
  /\ iter' = [iter EXCEPT ![i] = Iterator(BlockFor(o), o, IF kind = "vector" THEN Size(o) ELSE End, 0)]
  /\ UNCHANGED <<kind, obj>>

Locked(i) == \E o \in Live : obj[o].block = iter[i].block
\* The container whose node an iterator points at, if it still exists.
Owners(i) == {o \in Live : \E e \in obj[o].elems : e.at = iter[i].at}

\* The iterator of a vector is not checked when it moves on, the others are
\* checked for their block.  A program does not move on from the end.
Advance(i) ==
  /\ iter[i] # Unset
  /\ \/ kind = "vector" /\ iter[i].at <= MaxSize
        /\ iter' = [iter EXCEPT ![i].at = @ + 1]
     \/ kind # "vector" /\ Locked(i) /\ iter[i].at > End
        /\ iter' = [iter EXCEPT ![i] =
             IF Owners(i) = {} THEN [iter[i] EXCEPT !.at = Beyond]
             ELSE LET o == CHOOSE p \in Owners(i) : TRUE
                      rest == {e \in obj[o].elems : e.key > iter[i].key}
                  IN  [AtFirst(iter[i].block, o, rest) EXCEPT !.from = iter[i].from]]
  /\ UNCHANGED <<kind, obj>>

\* What *i comes to: an exception, an element, or memory it has no business in.
Throws == -1
Wild == -2
\* A fault: the index is compared to the size by > instead of >=.
Deref_NoBounds(i) ==
  IF ~Locked(i) THEN Throws
  ELSE IF kind = "vector"
  THEN IF iter[i].at > Size(iter[i].block.to) THEN Throws
       ELSE IF iter[i].at = Size(iter[i].block.to) THEN Wild
       ELSE (CHOOSE e \in obj[iter[i].block.to].elems : e.at = iter[i].at).key
  ELSE IF iter[i].at = End
  THEN IF iter[i].of = iter[i].block.to /\ iter[i].of \in Live THEN Throws ELSE Wild
  ELSE IF Owners(i) = {} THEN Wild
  ELSE (CHOOSE e \in Held : e.at = iter[i].at).key

Deref(i) ==
  IF ~Locked(i) THEN Throws
  ELSE IF kind = "vector"
  THEN IF iter[i].at >= Size(iter[i].block.to) THEN Throws
       ELSE (CHOOSE e \in obj[iter[i].block.to].elems : e.at = iter[i].at).key
  ELSE IF iter[i].at = End
  THEN IF iter[i].of = iter[i].block.to /\ iter[i].of \in Live THEN Throws ELSE Wild
  ELSE IF Owners(i) = {} THEN Wild
  ELSE (CHOOSE e \in Held : e.at = iter[i].at).key

-----------------------------------------------------------------------------
Next ==
  \/ \E o \in Objects :
       \/ New(o) \/ Destroy(o) \/ Clear(o) \/ PopBack(o)
       \/ \E p \in Objects : Copy(o, p) \/ CopyAssign(o, p) \/ Move(o, p) \/ Extend(o, p)
       \/ \E k \in Keys : Insert(o, k) \/ Erase(o, k)
       \/ \E k \in Keys, at \in 0 .. MaxSize - 1 : Assign(o, at, k)
       \/ \E k \in Keys, i \in Iters : InsertBefore(o, i, k)
  \/ \E i \in Iters :
       \/ Advance(i)
       \/ \E o \in Objects : Begin(i, o) \/ EndOf(i, o)

Spec == Init /\ [][Next]_vars

-----------------------------------------------------------------------------
\* Iterators into sets and maps "are either valid, or throw an exception when
\* accessed" (set.h, map.h): one that is at an element reads that element, and
\* never memory that has been freed or belongs to another.
NeverStale ==
  \A i \in Iters :
    kind # "vector" /\ iter[i].at # End => Deref(i) \in {Throws, iter[i].key}

\* Dereferencing the end throws; not so for sets once something was erased.
EndsThrow == \A i \in Iters : kind = "map" /\ iter[i].at = End => Deref(i) = Throws

\* A vector's iterators "remain valid when elements are added, removed, or the
\* whole Vector is reassigned" (vector.h): they read what their vector, and no
\* other, has at their index, and throw if it has nothing there or is gone.
FollowsItsVector ==
  \A i \in Iters :
    kind = "vector" =>
      LET o == iter[i].from
          there == IF o = None THEN {} ELSE {e \in obj[o].elems : e.at = iter[i].at}
      IN  Deref(i) = IF there = {} THEN Throws ELSE (CHOOSE e \in there : TRUE).key

IteratorsAreSafe == NeverStale /\ EndsThrow /\ FollowsItsVector
=============================================================================
