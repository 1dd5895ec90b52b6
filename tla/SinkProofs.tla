----------------------------- MODULE SinkProofs -----------------------------
(***************************************************************************)
(* Proofs about the sink, for any sequence space, units and calls, of      *)
(* callers whose segments do not reach across the end of the space.        *)
(*                                                                         *)
(* The methods are operators on the object, a record; so each of them has  *)
(* a lemma that says what it does to the fields, and the invariant is one  *)
(* about a record.  The loops over the buffer are recursive functions: the *)
(* induction over them is one over the numbers up to n (UpTo).             *)
(*                                                                         *)
(* The first part is about any caller: the buffer is an ordered list.  The *)
(* second, from "What the buffer holds" on, is about careful ones: what    *)
(* the buffer holds, that nothing in order stays in it, and that the sink  *)
(* is the reassembler that Reassembly specifies.                           *)
(***************************************************************************)
EXTENDS SinkCallers, FiniteSetTheorems, WellFoundedInduction, TLAPS

(***************************** Induction *********************************)

\* A set of natural numbers has a least one.
LEMMA Least ==
  ASSUME NEW T, T \subseteq Nat, T # {}
  PROVE  \E m \in T : \A k \in T : m <= k
<1>1. IsWellFoundedOn(OpToRel(<, Nat), Nat)
  BY NatLessThanWellFounded
<1>2. PICK m \in T : \A k \in T : ~ (<<k, m>> \in OpToRel(<, Nat))
  BY <1>1, WFMin
<1>3. \A k \in T : ~(k < m)
  BY <1>2 DEF OpToRel
<1>4. QED BY <1>3

\* What holds of 0, and of k + 1 whenever it holds of k, holds of all up to n.
LEMMA UpTo ==
  ASSUME NEW n \in Nat, NEW S, 0 \in S, \A k \in 0..n : k \in S /\ k < n => k + 1 \in S
  PROVE  \A k \in 0..n : k \in S
<1> DEFINE T == {k \in 0..n : k \notin S}
<1>1. SUFFICES ASSUME T # {} PROVE FALSE
  OBVIOUS
<1>2. PICK m \in T : \A k \in T : m <= k
  <2>1. T \subseteq Nat
    OBVIOUS
  <2>2. QED BY <1>1, <2>1, Least
<1>3. m # 0 /\ m - 1 \in 0..n /\ m - 1 \notin T
  BY <1>2
<1>4. (m - 1) + 1 \in S
  BY <1>2, <1>3
<1>5. QED BY <1>2, <1>4

(****************************** Arithmetic ********************************)

\* Whole blocks of n bytes are at most n bytes.
LEMMA WholeBlocks ==
  ASSUME NEW n \in Nat
  PROVE  Block * (n \div Block) \in 0..n
<1>1. Block \in Nat /\ Block > 0
  BY ConstantsAssumption
<1>2. QED BY <1>1, SMTT(30)

\* The arithmetic of positions stays within the sequence space.
LEMMA PositionsWrap ==
  /\ SeqBound \in Nat /\ SeqBound > 0 /\ 0 \in Seqs /\ Seqs \subseteq Nat
  /\ \A a \in Seqs : a \in Nat /\ a < SeqBound
  /\ \A a \in Nat : a < SeqBound => a \in Seqs
  /\ \A a, b \in Int : Plus(a, b) \in Seqs /\ Minus(a, b) \in Seqs
  /\ \A a, b \in Nat : a + b < SeqBound => Plus(a, b) = a + b
  /\ \A a, b \in Nat : b <= a /\ a < SeqBound => Minus(a, b) = a - b
<1>1. SeqBound \in Nat /\ SeqBound > 0
  BY ConstantsAssumption
<1>2. QED BY <1>1, SMTT(30) DEF Seqs, Plus, Minus

(****************************** Sequences *********************************)

\* What is left of a sequence without its first n elements.
LEMMA DropFacts ==
  ASSUME NEW X, NEW q \in Seq(X), NEW n \in Nat, n <= Len(q)
  PROVE  /\ Drop(q, n) \in Seq(X) /\ Len(Drop(q, n)) = Len(q) - n
         /\ \A i \in 1 .. Len(q) - n : Drop(q, n)[i] = q[i + n]
<1>1. QED BY DEF Drop

\* The first n elements of a sequence.
LEMMA TakeFacts ==
  ASSUME NEW X, NEW q \in Seq(X), NEW n \in Nat, n <= Len(q)
  PROVE  /\ SubSeq(q, 1, n) \in Seq(X) /\ Len(SubSeq(q, 1, n)) = n
         /\ \A i \in 1..n : SubSeq(q, 1, n)[i] = q[i]
<1>1. QED OBVIOUS

\* The smaller of two numbers.
LEMMA MinFacts ==
  ASSUME NEW a \in Int, NEW b \in Int
  PROVE  Min({a, b}) = IF a <= b THEN a ELSE b
<1>1. QED BY DEF Min

(************************** The object's fields ***************************)

Holds(data, rseq, rupper) ==
  \/ data = Unset
  \/ /\ data \in Seq(Byte) /\ data # <<>> /\ Len(data) <= rupper - rseq
     /\ \A k \in DOMAIN data : data[k].pos = rseq + (k - 1)

\* A chunk, with its data within its bounds and where they say it is.
Piece == {c \in [data : Seq(Byte) \cup {Unset}, rseq : Seqs, rupper : Seqs] :
            c.rseq < c.rupper /\ Holds(c.data, c.rseq, c.rupper)}

Outcomes == {"ok", "gap", "thrown", "crashed"}
Object == [autoTrim : BOOLEAN, size : Nat, initial : Seqs, cur : Seqs, last : Seqs,
           trim : Seqs, chunks : Seq(Piece), units : Seq(Unit), filter : BOOLEAN, held : Seq(Byte),
           outcome : Outcomes, thrown : BOOLEAN, delivered : Seq(Byte), written : SUBSET Seqs,
           undelivered : SUBSET Seqs, missing : SUBSET Seqs, stuck : BOOLEAN, back : BOOLEAN]

Ordered(chunks) == \A i, j \in DOMAIN chunks : i < j => chunks[i].rupper <= chunks[j].rseq

\* A unit's data is in order, and all of it lies before the position upper.
Ascending(r, upper) ==
  /\ \A i \in DOMAIN r : r[i].pos < upper
  /\ \A i, j \in DOMAIN r : i < j => r[i].pos < r[j].pos
Undisturbed(s) == ~s.thrown /\ ~s.back /\ ~s.filter

\* What UnitsSeeOrder needs: nothing has been delivered from the position on
\* that comes next, be it for the chunk that is tried or for the next write.
InOrder(s) ==
  Undisturbed(s) =>
    /\ s.last <= s.cur /\ s.held = <<>>
    /\ \A u \in DOMAIN s.units : Ascending(s.units[u].received, s.last)

EndOf(r, q) == Len(r) <= Len(q) /\ \A i \in 1..Len(r) : r[i] = q[i + (Len(q) - Len(r))]
InStep(s) ==
  ~s.thrown =>
    \A u \in DOMAIN s.units : s.units[u].status = "parsing" => EndOf(s.units[u].received, s.delivered)

\* What every method leaves of the object that it finds.
Good(s) == s \in Object /\ Ordered(s.chunks) /\ InOrder(s) /\ InStep(s)

\* Both positions are beyond what has been delivered.
Onward(s) == ~s.filter /\ s.held = <<>> /\ \A p \in Delivered(s) : p < s.cur /\ p < s.last

\* What holds between the object before and after the parts of a method: it
\* stays good, and reports nothing that was delivered before as undelivered.
Becomes(s, d) ==
  /\ Good(d) /\ d.back = s.back
  /\ Onward(s) => /\ Onward(d) /\ Delivered(s) \subseteq Delivered(d)
                  /\ (d.undelivered \ s.undelivered) \cap Delivered(s) = {}

IInv == Good(sink) /\ calls \in 0..MaxCalls

\* The positions of some bytes are positions.
LEMMA PositionsType ==
  ASSUME NEW data \in Seq(Byte)
  PROVE  Positions(data) \subseteq Seqs
<1>1. \A i \in DOMAIN data : data[i] \in Byte
  OBVIOUS
<1>2. QED BY <1>1 DEF Positions, Byte

\* What the filter lets through are bytes; without one, it is everything.
LEMMA FilteredFacts ==
  ASSUME NEW s \in Object, NEW data \in Seq(Byte)
  PROVE  LET f == Filtered(s, data) IN
         /\ f.out \in Seq(Byte) /\ f.held \in Seq(Byte)
         /\ ~s.filter /\ s.held = <<>> => f.out = data /\ f.held = <<>>
<1> DEFINE all == s.held \o data
           ready == IF s.filter THEN Block * (Len(all) \div Block) ELSE Len(all)
<1>1. all \in Seq(Byte)
  BY DEF Object
<1>2. Len(all) \in Nat
  BY <1>1
<1>3. ready \in 0..Len(all)
  BY <1>2, WholeBlocks
<1>4. Filtered(s, data).out = SubSeq(all, 1, ready) /\ Filtered(s, data).held = Drop(all, ready)
  BY DEF Filtered
<1>5. Filtered(s, data).out \in Seq(Byte) /\ Filtered(s, data).held \in Seq(Byte)
  <2> HIDE DEF all, ready
  <2>1. QED BY <1>1, <1>2, <1>3, <1>4, DropFacts, TakeFacts
<1>6. ASSUME ~s.filter, s.held = <<>>
      PROVE  Filtered(s, data).out = data /\ Filtered(s, data).held = <<>>
  <2>1. all = data /\ ready = Len(data)
    BY <1>6
  <2> HIDE DEF all, ready
  <2>2. SubSeq(data, 1, Len(data)) = data /\ Drop(data, Len(data)) = <<>>
    BY DEF Drop
  <2>3. QED BY <1>4, <2>1, <2>2
<1>7. QED BY <1>5, <1>6

\* Feeding a unit: it has the data in addition.
LEMMA FeedFacts ==
  ASSUME NEW unit \in Unit, NEW data \in Seq(Byte)
  PROVE  /\ Feed(unit, data) \in Unit
         /\ Feed(unit, data).received = unit.received \o data
<1>1. unit.received \o data \in Seq(Byte)
  BY DEF Unit
<1>2. QED BY <1>1 DEF Feed, Unit

\* Feeding the units: each has the data in addition or nothing; while none has
\* completed, those that wait for data get it.
LEMMA FeedUnitsFacts ==
  ASSUME NEW units \in Seq(Unit), NEW data \in Seq(Byte)
  PROVE  LET fed == FeedUnits(units, data) IN
         /\ fed \in Seq(Unit) /\ DOMAIN fed = DOMAIN units
         /\ \A u \in DOMAIN units :
              /\ fed[u].received \in {units[u].received, units[u].received \o data}
              /\ fed[u].status = "parsing" => units[u].status = "parsing"
              /\ ~SomeCompleted(units) /\ units[u].status = "parsing" =>
                   fed[u].received = units[u].received \o data
<1> DEFINE fed == FeedUnits(units, data)
           completed == {i \in DOMAIN units : units[i].status = "done"}
           Reached(i) == \A j \in completed : i < j
<1>1. DOMAIN fed = DOMAIN units
  BY DEF FeedUnits
<1>2. \A u \in DOMAIN units :
        fed[u] = IF units[u].status = "parsing" /\ Reached(u) THEN Feed(units[u], data) ELSE units[u]
  BY DEF FeedUnits
<1>3. \A u \in DOMAIN units : units[u] \in Unit
  OBVIOUS
<1>4. ~SomeCompleted(units) => \A u \in DOMAIN units : Reached(u)
  BY DEF SomeCompleted
<1> HIDE DEF fed, Reached
<1>5. \A u \in DOMAIN units : fed[u] \in Unit
  BY <1>2, <1>3, FeedFacts
<1>6. fed \in Seq(Unit)
  <2>1. DOMAIN units = 1..Len(units) /\ Len(units) \in Nat
    OBVIOUS
  <2>2. fed = [u \in 1..Len(units) |-> fed[u]]
    BY <2>1, <1>1 DEF fed, FeedUnits
  <2>3. QED BY <1>5, <2>1, <2>2
<1>7. ASSUME NEW u \in DOMAIN units
      PROVE  /\ fed[u].received \in {units[u].received, units[u].received \o data}
             /\ fed[u].status = "parsing" => units[u].status = "parsing"
             /\ ~SomeCompleted(units) /\ units[u].status = "parsing" =>
                  fed[u].received = units[u].received \o data
  BY <1>2, <1>3, <1>4, <1>7, FeedFacts
<1>8. QED BY <1>1, <1>6, <1>7 DEF fed

\* The bytes of a sequence have positions.
LEMMA BytesFacts ==
  ASSUME NEW r \in Seq(Byte)
  PROVE  /\ DOMAIN r = 1..Len(r) /\ Len(r) \in Nat
         /\ \A i \in DOMAIN r : r[i] \in Byte /\ r[i].pos \in Int
<1>1. DOMAIN r = 1..Len(r) /\ Len(r) \in Nat /\ \A i \in DOMAIN r : r[i] \in Byte
  OBVIOUS
<1>2. \A b \in Byte : b.pos \in Seqs
  BY DEF Byte
<1>3. \A p \in Seqs : p \in Int
  BY PositionsWrap
<1>4. QED BY <1>1, <1>2, <1>3

(******************************* Delivery *********************************)

\* Data behind what a unit has seen keeps it in order.
LEMMA AscendingAppend ==
  ASSUME NEW r \in Seq(Byte), NEW data \in Seq(Byte), NEW from \in Int, NEW rseq \in Int, NEW upper \in Int,
         Ascending(r, from), from <= rseq, rseq <= upper, Len(data) <= upper - rseq,
         \A k \in DOMAIN data : data[k].pos = rseq + (k - 1)
  PROVE  Ascending(r \o data, upper)
<1> DEFINE all == r \o data
<1>1. Len(all) = Len(r) + Len(data) /\ DOMAIN all = 1..Len(all) /\ Len(r) \in Nat /\ Len(data) \in Nat
  OBVIOUS
<1>2. \A i \in 1..Len(r) : all[i] = r[i] /\ r[i].pos \in Int /\ i \in DOMAIN r
  <2>1. \A i \in 1..Len(r) : all[i] = r[i] /\ i \in DOMAIN r
    OBVIOUS
  <2>2. QED BY <2>1, BytesFacts
<1>3. \A i \in DOMAIN all : i > Len(r) => all[i] = data[i - Len(r)] /\ i - Len(r) \in DOMAIN data
  OBVIOUS
<1> HIDE DEF all
<1>4. \A i \in DOMAIN all : i <= Len(r) => all[i].pos < from
  BY <1>1, <1>2 DEF Ascending
<1>5. \A i \in DOMAIN all : i > Len(r) => all[i].pos = rseq + ((i - Len(r)) - 1)
  BY <1>1, <1>3
<1>6. ASSUME NEW i \in DOMAIN all
      PROVE  all[i].pos < upper /\ all[i].pos \in Int
  <2>1. CASE i <= Len(r)
    BY <2>1, <1>1, <1>2, <1>4
  <2>2. CASE i > Len(r)
    BY <2>2, <1>1, <1>5
  <2>3. QED BY <1>1, <2>1, <2>2
<1>7. ASSUME NEW i \in DOMAIN all, NEW j \in DOMAIN all, i < j
      PROVE  all[i].pos < all[j].pos
  <2>1. CASE j <= Len(r)
    <3>1. i \in 1..Len(r) /\ j \in 1..Len(r)
      BY <2>1, <1>1, <1>7
    <3>2. QED BY <3>1, <1>2, <1>7 DEF Ascending
  <2>2. CASE j > Len(r) /\ i <= Len(r)
    BY <2>2, <1>1, <1>4, <1>5, <1>6
  <2>3. CASE j > Len(r) /\ i > Len(r)
    BY <2>3, <1>1, <1>5, <1>7
  <2>4. QED BY <1>1, <2>1, <2>2, <2>3
<1>8. QED BY <1>6, <1>7 DEF Ascending, all

\* A later bound is a bound.
LEMMA AscendingLater ==
  ASSUME NEW r \in Seq(Byte), NEW from \in Int, NEW upper \in Int, from <= upper, Ascending(r, from)
  PROVE  Ascending(r, upper)
<1>1. \A i \in DOMAIN r : r[i].pos \in Int
  BY BytesFacts
<1>2. QED BY <1>1 DEF Ascending

\* The same data behind both keeps a unit at the end of the stream.
LEMMA EndOfAppend ==
  ASSUME NEW r \in Seq(Byte), NEW q \in Seq(Byte), NEW data \in Seq(Byte), EndOf(r, q)
  PROVE  EndOf(r \o data, q \o data)
<1>1. Len(r) <= Len(q) /\ \A i \in 1..Len(r) : r[i] = q[i + (Len(q) - Len(r))]
  BY DEF EndOf
<1>2. Len(r \o data) = Len(r) + Len(data) /\ Len(q \o data) = Len(q) + Len(data)
  OBVIOUS
<1>3. Len(r) \in Nat /\ Len(q) \in Nat /\ Len(data) \in Nat
  OBVIOUS
<1>4. ASSUME NEW i \in 1 .. Len(r) + Len(data)
      PROVE  (r \o data)[i] = (q \o data)[i + (Len(q) - Len(r))]
  <2>1. CASE i <= Len(r)
    BY <2>1, <1>1, <1>3
  <2>2. CASE i > Len(r)
    <3>1. (r \o data)[i] = data[i - Len(r)]
      BY <2>2, <1>3
    <3>2. (q \o data)[i + (Len(q) - Len(r))] = data[i - Len(r)]
      BY <2>2, <1>1, <1>3
    <3>3. QED BY <3>1, <3>2
  <2>3. i <= Len(r) \/ i > Len(r)
    BY <1>3
  <2>4. QED BY <2>1, <2>2, <2>3
<1>5. QED BY <1>1, <1>2, <1>3, <1>4 DEF EndOf

\* The positions of two sequences of bytes together.
LEMMA PositionsAppend ==
  ASSUME NEW q \in Seq(Byte), NEW data \in Seq(Byte)
  PROVE  Positions(q \o data) = Positions(q) \cup Positions(data)
<1> DEFINE all == q \o data
<1>1. /\ DOMAIN all = 1 .. Len(q) + Len(data) /\ Len(q) \in Nat /\ Len(data) \in Nat
      /\ DOMAIN q = 1..Len(q) /\ DOMAIN data = 1..Len(data)
  OBVIOUS
<1>2. \A i \in DOMAIN q : all[i] = q[i] /\ i \in DOMAIN all
  BY <1>1
<1>3. \A i \in DOMAIN data : all[i + Len(q)] = data[i] /\ i + Len(q) \in DOMAIN all
  BY <1>1
<1>4. \A i \in DOMAIN all : i \in DOMAIN q \/ (i - Len(q) \in DOMAIN data /\ i = (i - Len(q)) + Len(q))
  BY <1>1
<1> HIDE DEF all
<1>5. Positions(q) \cup Positions(data) \subseteq Positions(all)
  BY <1>2, <1>3 DEF Positions
<1>6. Positions(all) \subseteq Positions(q) \cup Positions(data)
  <2>1. ASSUME NEW i \in DOMAIN all
        PROVE  all[i].pos \in Positions(q) \cup Positions(data)
    <3>1. CASE i \in DOMAIN q
      BY <3>1, <1>2 DEF Positions
    <3>2. CASE i - Len(q) \in DOMAIN data /\ i = (i - Len(q)) + Len(q)
      <4>1. all[i] = data[i - Len(q)]
        BY <3>2, <1>3
      <4>2. QED BY <3>2, <4>1 DEF Positions
    <3>3. QED BY <1>4, <3>1, <3>2
  <2>2. QED BY <2>1 DEF Positions
<1>7. QED BY <1>5, <1>6 DEF all

\* A chunk's fields.
LEMMA PieceFacts ==
  ASSUME NEW c \in Piece
  PROVE  /\ c.rseq \in Seqs /\ c.rupper \in Seqs /\ c.rseq \in Nat /\ c.rupper \in Nat /\ c.rseq < c.rupper
         /\ c.data # Unset => /\ c.data \in Seq(Byte) /\ c.data # <<>> /\ Len(c.data) <= c.rupper - c.rseq
                              /\ \A k \in DOMAIN c.data : c.data[k].pos = c.rseq + (k - 1)
<1>1. QED BY PositionsWrap DEF Piece, Holds

\* Positions within bounds are positions.
LEMMA WithinType == \A from, to : Within(from, to) \subseteq Seqs
<1>1. QED BY DEF Within

\* The object's fields.
LEMMA ObjectFacts ==
  ASSUME NEW s \in Object
  PROVE  /\ s.autoTrim \in BOOLEAN /\ s.size \in Nat /\ s.initial \in Seqs /\ s.cur \in Seqs /\ s.last \in Seqs
         /\ s.trim \in Seqs /\ s.chunks \in Seq(Piece) /\ s.units \in Seq(Unit) /\ s.filter \in BOOLEAN
         /\ s.held \in Seq(Byte) /\ s.outcome \in Outcomes /\ s.thrown \in BOOLEAN
         /\ s.delivered \in Seq(Byte) /\ s.written \subseteq Seqs /\ s.undelivered \subseteq Seqs
         /\ s.missing \subseteq Seqs /\ s.stuck \in BOOLEAN /\ s.back \in BOOLEAN
<1>1. QED BY DEF Object

\* The object's units.
LEMMA UnitsFacts ==
  ASSUME NEW s \in Object
  PROVE  \A u \in DOMAIN s.units : s.units[u] \in Unit /\ s.units[u].received \in Seq(Byte)
<1>1. s.units \in Seq(Unit)
  BY ObjectFacts
<1>2. \A u \in DOMAIN s.units : s.units[u] \in Unit
  BY <1>1
<1>3. \A unit \in Unit : unit.received \in Seq(Byte)
  BY DEF Unit
<1>4. QED BY <1>2, <1>3

\* What does not change when a chunk is delivered.
Kept(s, d) ==
  /\ d \in Object
  /\ d.chunks = s.chunks /\ d.autoTrim = s.autoTrim /\ d.trim = s.trim /\ d.initial = s.initial
  /\ d.filter = s.filter /\ d.back = s.back /\ d.undelivered = s.undelivered
  /\ s.thrown => d.thrown

\* A gap moves one position only.
LEMMA DeliverGapFacts ==
  ASSUME NEW s \in Object, NEW c \in Piece
  PROVE  LET d == DeliverGap(s, c) IN
         /\ Kept(s, d) /\ d.cur = c.rupper /\ d.last = s.last
         /\ d.units = s.units /\ d.held = s.held /\ d.delivered = s.delivered /\ d.thrown = s.thrown
<1> DEFINE d == DeliverGap(s, c)
           m == IF s.cur # c.rupper THEN s.missing \cup Within(c.rseq, c.rupper) ELSE s.missing
<1>1. d = [s EXCEPT !.cur = c.rupper, !.outcome = "gap", !.missing = m]
  BY DEF DeliverGap
<1>2. m \in SUBSET Seqs
  BY ObjectFacts, WithinType
<1>3. c.rupper \in Seqs
  BY PieceFacts
<1> HIDE DEF m, d
<1>4. d \in Object
  BY <1>1, <1>2, <1>3 DEF Object, Outcomes
<1>5. QED BY <1>1, <1>4 DEF Kept, Object, d

\* Data is fed to the units and moves both positions, unless the filter keeps
\* all of it or a completed unit throws.
LEMMA DeliverDataFacts ==
  ASSUME NEW s \in Object, NEW c \in Piece, c.data # Unset
  PROVE  LET d == DeliverData(s, c)
             out == Filtered(s, c.data).out IN
         /\ Kept(s, d) /\ d.held = Filtered(s, c.data).held
         /\ out = <<>> => d.cur = s.cur /\ d.last = s.last /\ d.units = s.units
                             /\ d.delivered = s.delivered /\ d.thrown = s.thrown
         /\ out # <<>> /\ SomeCompleted(s.units) =>
                 d.thrown /\ d.cur = s.cur /\ d.last = s.last /\ d.delivered = s.delivered
         /\ out # <<>> /\ ~SomeCompleted(s.units) =>
                 /\ d.cur = c.rupper /\ d.last = c.rupper /\ d.units = FeedUnits(s.units, out)
                 /\ d.delivered = s.delivered \o out /\ d.thrown = s.thrown
<1> DEFINE d == DeliverData(s, c)
           f == Filtered(s, c.data)
           n == s.size + Len(f.out)
           units == FeedUnits(s.units, f.out)
<1>1. c.data \in Seq(Byte) /\ c.rupper \in Seqs
  BY PieceFacts
<1>2. f.out \in Seq(Byte) /\ f.held \in Seq(Byte)
  BY <1>1, FilteredFacts
<1>3. units \in Seq(Unit) /\ n \in Nat /\ s.delivered \o f.out \in Seq(Byte)
  <2>1. s.units \in Seq(Unit) /\ s.size \in Nat /\ s.delivered \in Seq(Byte)
    BY ObjectFacts
  <2> HIDE DEF f
  <2>2. units \in Seq(Unit)
    BY <1>2, <2>1, FeedUnitsFacts
  <2>3. Len(f.out) \in Nat /\ s.delivered \o f.out \in Seq(Byte)
    BY <1>2, <2>1
  <2>4. QED BY <2>1, <2>2, <2>3
<1>4. CASE f.out = <<>>
  <2>1. d = [s EXCEPT !.held = f.held, !.outcome = "ok"]
    BY <1>4 DEF DeliverData
  <2> HIDE DEF d, f
  <2>2. d \in Object
    BY <2>1, <1>2 DEF Object, Outcomes
  <2>3. QED BY <2>1, <2>2, <1>4 DEF Kept, Object, d, f
<1>5. CASE f.out # <<>> /\ SomeCompleted(s.units)
  <2>1. d = [s EXCEPT !.held = f.held, !.size = n, !.units = units, !.outcome = "thrown", !.thrown = TRUE]
    BY <1>5 DEF DeliverData
  <2> HIDE DEF d, f, n, units
  <2>2. d \in Object
    BY <2>1, <1>2, <1>3 DEF Object, Outcomes
  <2>3. QED BY <2>1, <2>2, <1>5 DEF Kept, Object, d, f
<1>6. CASE f.out # <<>> /\ ~SomeCompleted(s.units)
  <2>1. d = [s EXCEPT !.held = f.held, !.size = n, !.units = units, !.cur = c.rupper,
                      !.last = c.rupper, !.outcome = "ok", !.delivered = s.delivered \o f.out]
    BY <1>6 DEF DeliverData
  <2> HIDE DEF d, f, n, units
  <2>2. d \in Object
    BY <2>1, <1>1, <1>2, <1>3 DEF Object, Outcomes
  <2>3. QED BY <2>1, <2>2, <1>6 DEF Kept, Object, d, f, units
<1>7. QED BY <1>4, <1>5, <1>6

\* A chunk delivered where the stream is expected to go on leaves the units in
\* order and in step; TryDeliver moves the position past it beforehand.
LEMMA DeliverKeeps ==
  ASSUME NEW s \in Object, NEW c \in Piece, NEW v \in {s.last, c.rupper},
         Good(s), c.rseq \in {s.cur, s.last}
  PROVE  LET t == [s EXCEPT !.last = v] IN
         Becomes(s, Deliver(t, c)) /\ Kept(s, Deliver(t, c))
<1> DEFINE t == [s EXCEPT !.last = v]
           d == Deliver(t, c)
<1>1. /\ v \in Seqs /\ s.last \in Nat /\ c.rupper \in Nat /\ c.rseq \in Nat /\ c.rseq < c.rupper /\ v \in Nat
  BY PieceFacts, ObjectFacts, PositionsWrap
<1>o. Ordered(s.chunks) /\ InOrder(s) /\ InStep(s)
  BY DEF Good
<1>n. Undisturbed(s) => s.last <= c.rseq
  <2>1. s.cur \in Nat
    BY ObjectFacts, PositionsWrap
  <2>2. QED BY <1>1, <1>o, <2>1 DEF InOrder
<1>d. Onward(s) => \A p \in Delivered(s) : p < c.rupper /\ p < v
  <2>1. s.cur \in Nat /\ s.delivered \in Seq(Byte)
    BY ObjectFacts, PositionsWrap
  <2>2. \A p \in Delivered(s) : p \in Nat
    BY <2>1, PositionsType, PositionsWrap DEF Delivered
  <2>3. QED BY <1>1, <2>1, <2>2 DEF Onward
<1>2. t \in Object
  BY <1>1 DEF Object
<1>3. /\ t.last = v /\ t.chunks = s.chunks /\ t.autoTrim = s.autoTrim /\ t.trim = s.trim
      /\ t.initial = s.initial /\ t.filter = s.filter /\ t.back = s.back /\ t.thrown = s.thrown
      /\ t.units = s.units /\ t.held = s.held /\ t.delivered = s.delivered /\ t.cur = s.cur
      /\ t.undelivered = s.undelivered
  BY DEF Object
<1>4. \A u \in DOMAIN s.units : s.units[u] \in Unit /\ s.units[u].received \in Seq(Byte)
  BY UnitsFacts
<1> HIDE DEF t
<1>5. CASE c.data = Unset
  <2>1. d = DeliverGap(t, c)
    BY <1>5 DEF Deliver
  <2>2. /\ Kept(t, d) /\ d.cur = c.rupper /\ d.last = v
        /\ d.units = s.units /\ d.held = s.held /\ d.delivered = s.delivered /\ d.thrown = s.thrown
    BY <2>1, <1>2, <1>3, DeliverGapFacts
  <2> HIDE DEF d
  <2>3. Kept(s, d)
    BY <2>2, <1>3 DEF Kept
  <2>4. InStep(d)
    BY <2>2, <1>o DEF InStep
  <2>5. ASSUME Undisturbed(d)
        PROVE  /\ d.last <= d.cur /\ d.held = <<>>
               /\ \A u \in DOMAIN d.units : Ascending(d.units[u].received, d.last)
    <3>1. Undisturbed(s)
      BY <2>2, <2>3, <2>5 DEF Undisturbed, Kept
    <3>2. /\ s.last <= c.rseq /\ s.held = <<>>
          /\ \A u \in DOMAIN s.units : Ascending(s.units[u].received, s.last)
      BY <3>1, <1>o, <1>n DEF InOrder
    <3>3. s.last <= v /\ v <= c.rupper
      BY <1>1, <3>2
    <3>4. \A u \in DOMAIN s.units : Ascending(s.units[u].received, v)
      BY <1>1, <1>4, <3>2, <3>3, AscendingLater
    <3>5. QED BY <2>2, <3>2, <3>3, <3>4
  <2>6. InOrder(d)
    BY <2>5 DEF InOrder
  <2>7. Onward(s) => Onward(d) /\ Delivered(d) = Delivered(s)
    BY <2>2, <2>3, <1>d DEF Onward, Kept, Delivered
  <2>8. Becomes(s, d)
    BY <2>3, <2>4, <2>6, <2>7, <1>o DEF Becomes, Good, Kept
  <2>9. QED BY <2>3, <2>8 DEF d, t
<1>6. CASE c.data # Unset
  <2> DEFINE out == Filtered(t, c.data).out
             held == Filtered(t, c.data).held
  <2>1. d = DeliverData(t, c)
    BY <1>6 DEF Deliver
  <2>2. /\ Kept(t, d) /\ d.held = held
        /\ out = <<>> => d.cur = s.cur /\ d.last = v /\ d.units = s.units
                            /\ d.delivered = s.delivered /\ d.thrown = s.thrown
        /\ out # <<>> /\ SomeCompleted(s.units) =>
                d.thrown /\ d.cur = s.cur /\ d.last = v /\ d.delivered = s.delivered
        /\ out # <<>> /\ ~SomeCompleted(s.units) =>
                /\ d.cur = c.rupper /\ d.last = c.rupper /\ d.units = FeedUnits(s.units, out)
                /\ d.delivered = s.delivered \o out /\ d.thrown = s.thrown
    <3>1. /\ Kept(t, d) /\ d.held = held
          /\ out = <<>> => d.cur = t.cur /\ d.last = t.last /\ d.units = t.units
                              /\ d.delivered = t.delivered /\ d.thrown = t.thrown
          /\ out # <<>> /\ SomeCompleted(t.units) =>
                  d.thrown /\ d.cur = t.cur /\ d.last = t.last /\ d.delivered = t.delivered
          /\ out # <<>> /\ ~SomeCompleted(t.units) =>
                  /\ d.cur = c.rupper /\ d.last = c.rupper /\ d.units = FeedUnits(t.units, out)
                  /\ d.delivered = t.delivered \o out /\ d.thrown = t.thrown
      <4> HIDE DEF d
      <4>1. QED BY <2>1, <1>2, <1>6, DeliverDataFacts
    <3> HIDE DEF d, out, held
    <3>2. QED BY <3>1, <1>3
  <2>3. /\ c.data \in Seq(Byte) /\ c.data # <<>> /\ Len(c.data) <= c.rupper - c.rseq
        /\ \A k \in DOMAIN c.data : c.data[k].pos = c.rseq + (k - 1)
    BY <1>6, PieceFacts
  <2>4. out \in Seq(Byte) /\ (~s.filter /\ s.held = <<>> => out = c.data /\ held = <<>>)
    BY <2>3, <1>2, <1>3, FilteredFacts
  <2>5. s.units \in Seq(Unit)
    BY ObjectFacts
  <2> DEFINE fed == FeedUnits(s.units, out)
  <2>6. /\ DOMAIN fed = DOMAIN s.units
        /\ \A u \in DOMAIN s.units :
             /\ fed[u].received \in {s.units[u].received, s.units[u].received \o out}
             /\ fed[u].status = "parsing" => s.units[u].status = "parsing"
             /\ ~SomeCompleted(s.units) /\ s.units[u].status = "parsing" =>
                  fed[u].received = s.units[u].received \o out
    BY <2>4, <2>5, FeedUnitsFacts
  <2> HIDE DEF d, out, held, fed
  <2>7. Kept(s, d)
    BY <2>2, <1>3 DEF Kept
  <2>8. ASSUME ~d.thrown
        PROVE  \A u \in DOMAIN d.units : d.units[u].status = "parsing" => EndOf(d.units[u].received, d.delivered)
    <3>1. ~s.thrown
      BY <2>7, <2>8 DEF Kept
    <3>2. \A u \in DOMAIN s.units : s.units[u].status = "parsing" => EndOf(s.units[u].received, s.delivered)
      BY <3>1, <1>o DEF InStep
    <3>3. CASE out = <<>>
      BY <3>2, <3>3, <2>2
    <3>4. CASE out # <<>>
      <4>1. ~SomeCompleted(s.units) /\ d.units = fed /\ d.delivered = s.delivered \o out
        BY <2>2, <2>8, <3>4 DEF fed
      <4>2. ASSUME NEW u \in DOMAIN d.units, d.units[u].status = "parsing"
            PROVE  EndOf(d.units[u].received, d.delivered)
        <5>1. /\ u \in DOMAIN s.units /\ s.units[u].status = "parsing"
              /\ d.units[u].received = s.units[u].received \o out
          BY <4>1, <4>2, <2>6
        <5>2. EndOf(s.units[u].received, s.delivered) /\ s.units[u].received \in Seq(Byte)
          BY <5>1, <3>2, <1>4
        <5>3. s.delivered \in Seq(Byte)
          BY ObjectFacts
        <5>4. QED BY <5>1, <5>2, <5>3, <4>1, <2>4, EndOfAppend
      <4>3. QED BY <4>2
    <3>5. QED BY <3>3, <3>4
  <2>9. ASSUME Undisturbed(d)
        PROVE  /\ d.last <= d.cur /\ d.held = <<>>
               /\ \A u \in DOMAIN d.units : Ascending(d.units[u].received, d.last)
    <3>1. Undisturbed(s)
      BY <2>7, <2>9 DEF Undisturbed, Kept
    <3>2. /\ s.last <= c.rseq /\ s.held = <<>>
          /\ \A u \in DOMAIN s.units : Ascending(s.units[u].received, s.last)
      BY <3>1, <1>o, <1>n DEF InOrder
    <3>3. out = c.data /\ held = <<>> /\ out # <<>>
      BY <3>1, <3>2, <2>3, <2>4 DEF Undisturbed
    <3>4. ~SomeCompleted(s.units) /\ d.cur = c.rupper /\ d.last = c.rupper /\ d.units = fed /\ d.held = <<>>
      BY <2>2, <2>9, <3>3 DEF Undisturbed, fed
    <3>5. ASSUME NEW u \in DOMAIN d.units
          PROVE  Ascending(d.units[u].received, c.rupper)
      <4>1. /\ u \in DOMAIN s.units /\ s.units[u].received \in Seq(Byte)
            /\ Ascending(s.units[u].received, s.last)
        BY <3>2, <3>4, <3>5, <2>6, <1>4
      <4>2. Ascending(s.units[u].received, c.rupper)
        BY <4>1, <3>2, <1>1, AscendingLater
      <4>3. Ascending(s.units[u].received \o out, c.rupper)
        <5>1. Ascending(s.units[u].received \o c.data, c.rupper)
          <6>1. s.last \in Int /\ c.rseq \in Int /\ c.rupper \in Int /\ c.rseq <= c.rupper
            BY <1>1
          <6>2. s.last <= c.rseq
            BY <3>2
          <6>3. QED BY <4>1, <6>1, <6>2, <2>3, AscendingAppend, Zenon
        <5>2. QED BY <5>1, <3>3
      <4>4. QED BY <4>1, <4>2, <4>3, <3>4, <2>6
    <3>6. QED BY <3>4, <3>5, <1>1
  <2>10. Onward(s) => Onward(d) /\ Delivered(s) \subseteq Delivered(d)
    <3> SUFFICES ASSUME Onward(s) PROVE Onward(d) /\ Delivered(s) \subseteq Delivered(d)
      OBVIOUS
    <3>1. out = c.data /\ held = <<>> /\ out # <<>> /\ ~d.filter /\ d.held = <<>>
      BY <2>2, <2>3, <2>4, <2>7 DEF Onward, Kept
    <3>2. CASE SomeCompleted(s.units)
      <4>1. d.cur = s.cur /\ d.last = v /\ d.delivered = s.delivered
        BY <3>1, <3>2, <2>2
      <4>2. QED BY <3>1, <4>1, <1>d DEF Onward, Delivered
    <3>3. CASE ~SomeCompleted(s.units)
      <4>1. d.cur = c.rupper /\ d.last = c.rupper /\ d.delivered = s.delivered \o c.data
        BY <3>1, <3>3, <2>2
      <4>2. \A p \in Positions(c.data) : p < c.rupper
        <5>1. DOMAIN c.data = 1..Len(c.data) /\ Len(c.data) \in Nat
          BY <2>3
        <5>2. QED BY <2>3, <5>1, <1>1 DEF Positions
      <4>3. Delivered(d) = Delivered(s) \cup Positions(c.data)
        BY <4>1, <2>3, ObjectFacts, PositionsAppend DEF Delivered
      <4>4. QED BY <3>1, <4>1, <4>2, <4>3, <1>d DEF Onward
    <3>4. QED BY <3>2, <3>3
  <2>11. InOrder(d) /\ InStep(d)
    BY <2>8, <2>9 DEF InOrder, InStep
  <2>12. Becomes(s, d)
    BY <2>7, <2>10, <2>11, <1>o DEF Becomes, Good, Kept
  <2>13. QED BY <2>7, <2>12 DEF d, t
<1>7. QED BY <1>5, <1>6

\* The invariant speaks about some of the fields only.
LEMMA SameFields ==
  ASSUME NEW s \in Object, NEW d \in Object, Good(s), Ordered(d.chunks),
         d.cur = s.cur, d.last = s.last, d.units = s.units, d.filter = s.filter, d.held = s.held,
         d.thrown = s.thrown, d.delivered = s.delivered, d.back = s.back
  PROVE  /\ Good(d) /\ Delivered(d) = Delivered(s) /\ (Onward(s) => Onward(d))
         /\ d.undelivered = s.undelivered => Becomes(s, d)
<1>1. InOrder(d)
  BY DEF Good, InOrder, Undisturbed
<1>2. InStep(d)
  BY DEF Good, InStep
<1>3. Delivered(d) = Delivered(s) /\ (Onward(s) => Onward(d))
  BY DEF Onward, Delivered
<1>4. Good(d)
  BY <1>1, <1>2 DEF Good
<1>5. QED BY <1>3, <1>4 DEF Becomes

\* One part of a method after another.
LEMMA BecomesTwice ==
  ASSUME NEW s, NEW d, NEW e, Becomes(s, d), Becomes(d, e)
  PROVE  Becomes(s, e)
<1>1. QED BY DEF Becomes

\* A part of a method that does nothing.
LEMMA BecomesSelf ==
  ASSUME NEW s, Good(s)
  PROVE  Becomes(s, s)
<1>1. QED BY DEF Becomes

\* What is left of an ordered buffer without its first chunks is ordered.
LEMMA DropOrdered ==
  ASSUME NEW chunks \in Seq(Piece), NEW n \in Nat, n <= Len(chunks), Ordered(chunks)
  PROVE  Drop(chunks, n) \in Seq(Piece) /\ Ordered(Drop(chunks, n))
<1> DEFINE rest == Drop(chunks, n)
<1>1. rest \in Seq(Piece) /\ Len(rest) = Len(chunks) - n /\ \A i \in 1 .. Len(chunks) - n : rest[i] = chunks[i + n]
  BY DropFacts
<1>2. DOMAIN rest = 1 .. Len(chunks) - n /\ DOMAIN chunks = 1..Len(chunks)
  BY <1>1
<1> HIDE DEF rest
<1>3. ASSUME NEW i \in DOMAIN rest, NEW j \in DOMAIN rest, i < j
      PROVE  rest[i].rupper <= rest[j].rseq
  <2>1. i + n \in DOMAIN chunks /\ j + n \in DOMAIN chunks /\ i + n < j + n
    BY <1>2, <1>3
  <2>2. rest[i] = chunks[i + n] /\ rest[j] = chunks[j + n]
    BY <1>1, <1>2
  <2>3. QED BY <2>1, <2>2 DEF Ordered
<1>4. QED BY <1>1, <1>3 DEF Ordered, rest

\* A chunk in the buffer is a chunk, its data is bytes at positions.
LEMMA ChunkFacts ==
  ASSUME NEW chunks \in Seq(Piece), NEW i \in DOMAIN chunks
  PROVE  /\ chunks[i] \in Piece
         /\ chunks[i].data # Unset => Positions(chunks[i].data) \subseteq Seqs
<1>1. chunks[i] \in Piece
  OBVIOUS
<1>2. QED BY <1>1, PieceFacts, PositionsType

\* Trimming takes chunks off the front and touches nothing else that matters.
LEMMA TrimFacts ==
  ASSUME NEW s, Good(s), NEW rseq \in Seqs
  PROVE  LET t == Trim(s, rseq) IN
         /\ Becomes(s, t) /\ Good(t) /\ t.cur = s.cur /\ t.last = s.last /\ t.units = s.units /\ t.filter = s.filter
         /\ t.held = s.held /\ t.thrown = s.thrown /\ t.delivered = s.delivered /\ t.back = s.back
         /\ t.autoTrim = s.autoTrim /\ t.missing = s.missing
<1> DEFINE Before(i) == \A j \in 1..i : s.chunks[j].rseq < rseq
           erased == {i \in DOMAIN s.chunks : Before(i)}
           reported == {i \in erased : s.chunks[i].data # Unset /\ s.cur < s.chunks[i].rseq}
           rest == Drop(s.chunks, Cardinality(erased))
           undelivered == s.undelivered \cup UNION {Positions(s.chunks[i].data) : i \in reported}
           t == Trim(s, rseq)
<1>1. s \in Object /\ s.chunks \in Seq(Piece) /\ Ordered(s.chunks)
  BY ObjectFacts DEF Good
<1>2. t = [s EXCEPT !.chunks = rest, !.trim = rseq, !.undelivered = undelivered]
  BY DEF Trim
<1>3. Cardinality(erased) \in Nat /\ Cardinality(erased) <= Len(s.chunks)
  <2>1. DOMAIN s.chunks = 1..Len(s.chunks) /\ Len(s.chunks) \in Nat /\ erased \subseteq 1..Len(s.chunks)
    BY <1>1
  <2>2. IsFiniteSet(1..Len(s.chunks)) /\ Cardinality(1..Len(s.chunks)) = Len(s.chunks)
    BY <2>1, FS_Interval
  <2> HIDE DEF erased
  <2>3. erased \in SUBSET (1..Len(s.chunks))
    BY <2>1
  <2>4. IsFiniteSet(erased) /\ Cardinality(erased) <= Cardinality(1..Len(s.chunks))
    BY <2>2, <2>3, FS_Subset
  <2>5. QED BY <2>2, <2>4, FS_CardinalityType
<1>4. rest \in Seq(Piece) /\ Ordered(rest)
  <2> HIDE DEF erased
  <2>1. QED BY <1>1, <1>3, DropOrdered
<1>5. undelivered \in SUBSET Seqs
  <2>1. \A i \in reported : Positions(s.chunks[i].data) \subseteq Seqs
    BY <1>1, ChunkFacts
  <2>2. s.undelivered \subseteq Seqs
    BY <1>1, ObjectFacts
  <2> HIDE DEF reported
  <2>3. QED BY <2>1, <2>2
<1> HIDE DEF t, rest, undelivered
<1>6. t \in Object
  BY <1>1, <1>2, <1>4, <1>5 DEF Object
<1>7. /\ t.cur = s.cur /\ t.last = s.last /\ t.units = s.units /\ t.filter = s.filter
      /\ t.held = s.held /\ t.thrown = s.thrown /\ t.delivered = s.delivered /\ t.back = s.back
      /\ t.autoTrim = s.autoTrim /\ t.missing = s.missing /\ t.chunks = rest
  BY <1>1, <1>2 DEF Object
<1>8. Good(t) /\ Delivered(t) = Delivered(s) /\ (Onward(s) => Onward(t))
  BY <1>1, <1>4, <1>6, <1>7, SameFields
<1>9. ASSUME Onward(s)
      PROVE  (t.undelivered \ s.undelivered) \cap Delivered(s) = {}
  <2>1. t.undelivered = undelivered
    BY <1>1, <1>2 DEF Object
  <2>2. ASSUME NEW i \in reported, NEW p \in Positions(s.chunks[i].data)
        PROVE  p \notin Delivered(s)
    <3> DEFINE c == s.chunks[i]
    <3>1. c \in Piece /\ c.data # Unset /\ s.cur < c.rseq
      BY <1>1
    <3> HIDE DEF c
    <3>2. PICK k \in DOMAIN c.data : p = c.data[k].pos
      BY DEF Positions, c
    <3>3. c.data \in Seq(Byte) /\ c.data[k].pos = c.rseq + (k - 1) /\ c.rseq \in Nat
      BY <3>1, PieceFacts
    <3>4. k \in Nat /\ k >= 1 /\ s.cur \in Nat
      <4>1. k \in 1..Len(c.data) /\ Len(c.data) \in Nat
        BY <3>3
      <4>2. s.cur \in Seqs
        BY <1>1, ObjectFacts
      <4>3. s.cur \in Nat
        BY <4>2, PositionsWrap
      <4>4. QED BY <4>1, <4>3
    <3>5. ~(p < s.cur)
      BY <3>1, <3>2, <3>3, <3>4
    <3>6. QED BY <3>5, <1>9 DEF Onward
  <2> HIDE DEF reported
  <2>3. QED BY <2>1, <2>2 DEF undelivered
<1>10. Becomes(s, t)
  BY <1>7, <1>8, <1>9 DEF Becomes
<1>11. QED BY <1>7, <1>8, <1>10 DEF t

\* One turn of the loop keeps the object good.
LEMMA TryChunkGood ==
  ASSUME NEW s, Good(s), NEW c \in Piece
  PROVE  Becomes(s, TryChunk(s, c))
<1>1. CASE s.outcome # "ok" \/ c.rseq # s.last
  BY <1>1, BecomesSelf DEF TryChunk
<1>2. CASE ~(s.outcome # "ok" \/ c.rseq # s.last)
  <2> DEFINE t == [s EXCEPT !.last = c.rupper]
             d == Deliver(t, c)
  <2>1. s \in Object /\ Ordered(s.chunks) /\ InOrder(s) /\ InStep(s) /\ c.rseq = s.last
    BY <1>2 DEF Good
  <2>2. Plus(s.last, Minus(c.rupper, c.rseq)) = c.rupper
    <3>1. c.rseq \in Nat /\ c.rupper \in Nat /\ c.rseq < c.rupper /\ c.rupper < SeqBound
      BY PieceFacts, PositionsWrap
    <3>2. Minus(c.rupper, c.rseq) = c.rupper - c.rseq /\ c.rupper - c.rseq \in Nat
      BY <3>1, PositionsWrap
    <3>3. QED BY <2>1, <3>1, <3>2, PositionsWrap
  <2>3. TryChunk(s, c) = IF d.outcome = "gap" /\ d.autoTrim
                         THEN [Trim(d, c.rseq) EXCEPT !.stuck = TRUE] ELSE d
    BY <1>2, <2>2 DEF TryChunk
  <2>4. Becomes(s, d)
    BY <2>1, DeliverKeeps
  <2> HIDE DEF t, d
  <2>6. Good(d)
    BY <2>4 DEF Becomes
  <2> DEFINE e == Trim(d, c.rseq)
             r == [e EXCEPT !.stuck = TRUE]
  <2>7. Good(e) /\ Becomes(d, e)
    BY <2>6, PieceFacts, TrimFacts
  <2>8. Becomes(e, r)
    <3>1. e \in Object /\ Ordered(e.chunks)
      BY <2>7 DEF Good
    <3> HIDE DEF e
    <3>2. r \in Object
      BY <3>1 DEF Object
    <3>3. /\ r.cur = e.cur /\ r.last = e.last /\ r.units = e.units /\ r.filter = e.filter
          /\ r.held = e.held /\ r.thrown = e.thrown /\ r.delivered = e.delivered /\ r.back = e.back
          /\ r.chunks = e.chunks /\ r.undelivered = e.undelivered
      BY <3>1 DEF Object
    <3> HIDE DEF r
    <3>4. QED BY <2>7, <3>1, <3>2, <3>3, SameFields
  <2>9. Becomes(s, r)
    <3> HIDE DEF e, r
    <3>1. QED BY <2>4, <2>7, <2>8, BecomesTwice
  <2>10. QED BY <2>3, <2>4, <2>9
<1>3. QED BY <1>1, <1>2

\* The loop over the chunks is the function that its equation says.
LEMMA TurnsFacts ==
  ASSUME NEW s, NEW at \in Nat \ {0}, Len(s.chunks) \in Nat
  PROVE  \A k \in 0..Len(s.chunks) :
           Turns(s, at)[k] = IF k < at THEN s ELSE TryChunk(Turns(s, at)[k - 1], s.chunks[k])
<1> DEFINE n == Len(s.chunks)
           Turn(f, k) == IF k < at THEN s ELSE TryChunk(f[k - 1], s.chunks[k])
           IsTurns(f, m) == f = [k \in 0..m |-> Turn(f, k)]
           S == {m \in 0..n : \E f : IsTurns(f, m)}
<1>1. 0 \in S
  <2> DEFINE g == [k \in 0..0 |-> s]
  <2>1. \A k \in 0..0 : Turn(g, k) = s
    OBVIOUS
  <2>2. IsTurns(g, 0)
    BY <2>1
  <2>3. QED BY <2>2
<1>2. ASSUME NEW m \in 0..n, m \in S, m < n
      PROVE  m + 1 \in S
  <2>1. PICK f : IsTurns(f, m)
    BY <1>2
  <2> DEFINE g == [k \in 0 .. m + 1 |-> IF k <= m THEN f[k] ELSE Turn(f, k)]
  <2>2. ASSUME NEW k \in 0 .. m + 1
        PROVE  g[k] = Turn(g, k)
    <3>1. CASE k = 0
      <4>1. f[0] = Turn(f, 0)
        BY <2>1
      <4>2. QED BY <3>1, <4>1
    <3>2. CASE k \in 1 .. m + 1
      <4>1. k - 1 \in 0..m /\ g[k - 1] = f[k - 1]
        BY <3>2
      <4>2. Turn(g, k) = Turn(f, k)
        BY <4>1
      <4>3. k <= m => f[k] = Turn(f, k)
        BY <2>1
      <4>4. g[k] = IF k <= m THEN f[k] ELSE Turn(f, k)
        OBVIOUS
      <4> HIDE DEF g, Turn
      <4>5. QED BY <4>2, <4>3, <4>4
    <3>3. QED BY <3>1, <3>2
  <2>3. IsTurns(g, m + 1)
    <3>1. g = [k \in 0 .. m + 1 |-> g[k]]
      OBVIOUS
    <3> HIDE DEF g, Turn
    <3>2. QED BY <2>2, <3>1
  <2>4. m + 1 \in 0..n
    BY <1>2
  <2> HIDE DEF IsTurns, g
  <2>5. QED BY <2>3, <2>4
<1>3. \A k \in 0..n : k \in S
  <2> HIDE DEF S
  <2>1. QED BY <1>1, <1>2, UpTo
<1>4. n \in S
  BY <1>3
<1>5. \E f : IsTurns(f, n)
  BY <1>4
<1>6. Turns(s, at) = CHOOSE f : IsTurns(f, n)
  BY DEF Turns
<1>7. IsTurns(Turns(s, at), n)
  BY <1>5, <1>6
<1>8. QED BY <1>7

\* Delivering what is in order keeps the object good.
LEMMA TryDeliverGood ==
  ASSUME NEW s, Good(s), NEW at \in Nat \ {0}
  PROVE  Becomes(s, TryDeliver(s, at))
<1> DEFINE n == Len(s.chunks)
           S == {k \in 0..n : Becomes(s, Turns(s, at)[k])}
           d == Turns(s, at)[n]
<1>1. s.chunks \in Seq(Piece) /\ n \in Nat /\ \A k \in 1..n : s.chunks[k] \in Piece
  BY ObjectFacts DEF Good
<1>2. \A k \in 0..n :
        Turns(s, at)[k] = IF k < at THEN s ELSE TryChunk(Turns(s, at)[k - 1], s.chunks[k])
  BY <1>1, TurnsFacts
<1>3. 0 \in S
  <2>1. Turns(s, at)[0] = s
    BY <1>1, <1>2
  <2>2. QED BY <1>1, <2>1, BecomesSelf
<1>4. ASSUME NEW k \in 0..n, k \in S, k < n
      PROVE  k + 1 \in S
  <2>1. Becomes(s, Turns(s, at)[k]) /\ k + 1 \in 1..n /\ (k + 1) - 1 = k
    BY <1>4, <1>1
  <2>2. Turns(s, at)[k + 1] = IF k + 1 < at THEN s ELSE TryChunk(Turns(s, at)[k], s.chunks[k + 1])
    BY <1>2, <2>1
  <2> DEFINE was == Turns(s, at)[k]
             e == TryChunk(was, s.chunks[k + 1])
  <2>3. Becomes(s, e)
    <3>1. Becomes(s, was) /\ Good(was) /\ s.chunks[k + 1] \in Piece
      BY <1>1, <2>1 DEF Becomes
    <3> HIDE DEF was
    <3>2. Becomes(was, e)
      BY <3>1, TryChunkGood
    <3> HIDE DEF e
    <3>3. QED BY <3>1, <3>2, BecomesTwice
  <2>4. Becomes(s, Turns(s, at)[k + 1])
    BY <2>2, <2>3, BecomesSelf
  <2>5. QED BY <2>1, <2>4
<1>5. \A k \in 0..n : k \in S
  <2> HIDE DEF S, n
  <2>1. QED BY <1>1, <1>3, <1>4, UpTo
<1>6. Becomes(s, d) /\ Good(d)
  <2>1. n \in S
    BY <1>1, <1>5
  <2>2. QED BY <2>1 DEF Becomes
<1>7. d.last \in Seqs
  BY <1>6, ObjectFacts DEF Good
<1>8. Becomes(s, Trim(d, d.last))
  <2> DEFINE e == Trim(d, d.last)
  <2> HIDE DEF d
  <2>1. Becomes(d, e)
    BY <1>6, <1>7, TrimFacts
  <2> HIDE DEF e
  <2>2. Becomes(s, e)
    BY <1>6, <2>1, BecomesTwice
  <2>3. QED BY <2>2 DEF e
<1>9. QED BY <1>6, <1>8 DEF TryDeliver

(******************************* Buffering ********************************)

\* A new block fills its bounds.
Fills(data, rseq, rupper) == Holds(data, rseq, rupper) /\ (data # Unset => Len(data) = rupper - rseq)
EndsBy(list, p) == \A i \in DOMAIN list : list[i].rupper <= p

\* What is left of a new block while it is inserted: the part of the buffer
\* that has been passed is ordered, and ends before what is left.
Insertion == [list : Seq(Piece), data : Seq(Byte) \cup {Unset}, rseq : Seqs, first : Nat, met : Nat,
              placed : BOOLEAN, dangling : BOOLEAN]
Inserting(a, rupper) ==
  /\ a \in Insertion /\ Ordered(a.list)
  /\ ~a.placed => a.rseq < rupper /\ Fills(a.data, a.rseq, rupper) /\ EndsBy(a.list, a.rseq)

\* A chunk can be put behind a list that ends before it.
LEMMA AppendOrdered ==
  ASSUME NEW list \in Seq(Piece), Ordered(list), NEW c \in Piece, EndsBy(list, c.rseq)
  PROVE  /\ Append(list, c) \in Seq(Piece) /\ Ordered(Append(list, c))
         /\ \A p \in Nat : c.rupper <= p => EndsBy(Append(list, c), p)
         /\ EndsBy(Append(list, c), c.rupper)
<1> DEFINE more == Append(list, c)
<1>1. /\ more \in Seq(Piece) /\ Len(list) \in Nat /\ DOMAIN list = 1..Len(list)
      /\ DOMAIN more = 1 .. Len(list) + 1 /\ more[Len(list) + 1] = c
      /\ \A i \in 1..Len(list) : more[i] = list[i] /\ list[i] \in Piece
  OBVIOUS
<1>2. c.rseq \in Nat /\ c.rupper \in Nat /\ c.rseq < c.rupper
  BY PieceFacts
<1>3. \A i \in 1..Len(list) : list[i].rupper \in Nat /\ list[i].rupper <= c.rseq
  <2>1. \A i \in 1..Len(list) : list[i].rupper \in Nat
    BY <1>1, PieceFacts
  <2>2. QED BY <1>1, <2>1 DEF EndsBy
<1> HIDE DEF more
<1>4. ASSUME NEW i \in DOMAIN more, NEW j \in DOMAIN more, i < j
      PROVE  more[i].rupper <= more[j].rseq
  <2>1. i \in 1..Len(list)
    BY <1>1, <1>4
  <2>2. CASE j \in 1..Len(list)
    BY <2>1, <2>2, <1>1, <1>4 DEF Ordered
  <2>3. CASE j = Len(list) + 1
    BY <2>1, <2>3, <1>1, <1>3
  <2>4. QED BY <1>1, <2>2, <2>3
<1>5. ASSUME NEW p \in Nat, c.rupper <= p
      PROVE  EndsBy(more, p)
  <2>1. ASSUME NEW i \in DOMAIN more
        PROVE  more[i].rupper <= p
    <3>1. CASE i \in 1..Len(list)
      BY <3>1, <1>1, <1>2, <1>3, <1>5
    <3>2. CASE i = Len(list) + 1
      BY <3>2, <1>1, <1>5
    <3>3. QED BY <1>1, <3>1, <3>2
  <2>2. QED BY <2>1 DEF EndsBy
<1>6. EndsBy(more, c.rupper)
  BY <1>2, <1>5
<1>7. QED BY <1>1, <1>4, <1>5, <1>6 DEF Ordered, more

\* An ordered buffer ends where its last chunk ends.
LEMMA LastEnds ==
  ASSUME NEW chunks \in Seq(Piece), chunks # <<>>, Ordered(chunks)
  PROVE  EndsBy(chunks, Last(chunks).rupper)
<1> DEFINE n == Len(chunks)
<1>1. n \in Nat /\ n > 0 /\ DOMAIN chunks = 1..n /\ Last(chunks) = chunks[n] /\ \A i \in 1..n : chunks[i] \in Piece
  BY DEF Last
<1> HIDE DEF n
<1>2. \A i \in 1..n : /\ chunks[i].rseq \in Nat /\ chunks[i].rupper \in Nat
                      /\ chunks[i].rseq < chunks[i].rupper
  BY <1>1, PieceFacts
<1>3. ASSUME NEW i \in 1..n
      PROVE  chunks[i].rupper <= chunks[n].rupper
  <2>1. CASE i = n
    BY <2>1, <1>1, <1>2
  <2>2. CASE i < n
    <3>1. chunks[i].rupper <= chunks[n].rseq
      BY <2>2, <1>1 DEF Ordered
    <3>2. n \in 1..n
      BY <1>1
    <3>3. chunks[n].rseq < chunks[n].rupper /\ chunks[i].rupper \in Nat /\ chunks[n].rseq \in Nat
          /\ chunks[n].rupper \in Nat
      BY <1>2, <3>2
    <3>4. QED BY <3>1, <3>3
  <2>3. QED BY <1>1, <2>1, <2>2
<1>4. QED BY <1>1, <1>3 DEF EndsBy

\* A block that is cut in two at a position gives two blocks.
LEMMA Split ==
  ASSUME NEW data, NEW rseq \in Nat, NEW rupper \in Nat, NEW m \in Nat,
         data # Unset, Fills(data, rseq, rupper), rseq < m, m < rupper
  PROVE  LET n == m - rseq IN
         /\ SubSeq(data, 1, n) \in Seq(Byte) /\ Fills(SubSeq(data, 1, n), rseq, m)
         /\ Drop(data, n) \in Seq(Byte) /\ Fills(Drop(data, n), m, rupper)
<1> DEFINE n == m - rseq
           head == SubSeq(data, 1, n)
           tail == Drop(data, n)
<1>1. /\ data \in Seq(Byte) /\ Len(data) = rupper - rseq /\ DOMAIN data = 1..Len(data)
      /\ \A k \in DOMAIN data : data[k].pos = rseq + (k - 1)
  BY DEF Fills, Holds
<1>2. n \in Nat /\ n <= Len(data) /\ n > 0 /\ n < Len(data)
  BY <1>1
<1>3. head \in Seq(Byte) /\ Len(head) = n /\ \A i \in 1..n : head[i] = data[i]
  BY <1>1, <1>2, TakeFacts
<1>4. tail \in Seq(Byte) /\ Len(tail) = Len(data) - n /\ \A i \in 1 .. Len(data) - n : tail[i] = data[i + n]
  BY <1>1, <1>2, DropFacts
<1>5. \A k \in DOMAIN head : head[k].pos = rseq + (k - 1)
  <2>1. DOMAIN head = 1..n
    BY <1>3
  <2> HIDE DEF head, n
  <2>2. QED BY <1>1, <1>2, <1>3, <2>1
<1>6. \A k \in DOMAIN tail : tail[k].pos = m + (k - 1)
  <2>1. ASSUME NEW k \in DOMAIN tail
        PROVE  tail[k].pos = m + (k - 1)
    <3>1. k \in 1 .. Len(data) - n
      BY <1>4
    <3>2. k + n \in DOMAIN data /\ tail[k] = data[k + n]
      BY <1>1, <1>2, <1>4, <3>1
    <3>3. tail[k].pos = rseq + ((k + n) - 1)
      BY <1>1, <3>2
    <3>4. QED BY <3>1, <3>3
  <2>2. QED BY <2>1
<1>7. head # <<>> /\ tail # <<>>
  <2>1. Len(head) > 0 /\ Len(tail) > 0
    BY <1>1, <1>2, <1>3, <1>4
  <2> HIDE DEF head, tail
  <2>2. QED BY <2>1
<1>8. Len(head) = m - rseq /\ Len(tail) = rupper - m
  BY <1>1, <1>3, <1>4
<1> HIDE DEF head, tail
<1>9. Fills(head, rseq, m)
  BY <1>3, <1>5, <1>7, <1>8 DEF Fills, Holds
<1>10. Fills(tail, m, rupper)
  BY <1>4, <1>6, <1>7, <1>8 DEF Fills, Holds
<1>11. QED BY <1>3, <1>4, <1>9, <1>10 DEF head, tail

\* What fills its bounds is a chunk.
LEMMA ChunkIsPiece ==
  ASSUME NEW data \in Seq(Byte) \cup {Unset}, NEW rseq \in Seqs, NEW rupper \in Seqs,
         rseq < rupper, Holds(data, rseq, rupper)
  PROVE  /\ Chunk(data, rseq, rupper) \in Piece
         /\ Chunk(data, rseq, rupper).rseq = rseq /\ Chunk(data, rseq, rupper).rupper = rupper
<1>1. QED BY DEF Chunk, Piece

\* The fields of an insertion.
LEMMA InsertionFacts ==
  ASSUME NEW a \in Insertion
  PROVE  /\ a.list \in Seq(Piece) /\ a.data \in Seq(Byte) \cup {Unset} /\ a.rseq \in Seqs /\ a.rseq \in Nat
         /\ a.first \in Nat /\ a.met \in Nat /\ a.placed \in BOOLEAN /\ a.dangling \in BOOLEAN
         /\ Len(a.list) \in Nat
<1>1. /\ a.list \in Seq(Piece) /\ a.data \in Seq(Byte) \cup {Unset} /\ a.rseq \in Seqs
      /\ a.first \in Nat /\ a.met \in Nat /\ a.placed \in BOOLEAN /\ a.dangling \in BOOLEAN
  BY DEF Insertion
<1>2. Len(a.list) \in Nat
  BY <1>1
<1>3. a.rseq \in Nat
  BY <1>1, PositionsWrap
<1>4. QED BY <1>1, <1>2, <1>3

\* What is left is put behind the part of the buffer that has been passed.
LEMMA InsertFacts ==
  ASSUME NEW a, NEW rupper \in Seqs, Inserting(a, rupper), ~a.placed
  PROVE  LET i == Insert(a, rupper) IN
         /\ i \in Insertion /\ Ordered(i.list) /\ EndsBy(i.list, rupper) /\ i.placed
         /\ i.data = a.data /\ i.rseq = a.rseq
<1> DEFINE c == Chunk(a.data, a.rseq, rupper)
           i == Insert(a, rupper)
           first == IF a.first = 0 THEN Len(a.list) + 1 ELSE a.first
<1>1. a \in Insertion /\ Ordered(a.list) /\ a.rseq < rupper /\ Fills(a.data, a.rseq, rupper) /\ EndsBy(a.list, a.rseq)
  BY DEF Inserting
<1>2. c \in Piece /\ c.rseq = a.rseq /\ c.rupper = rupper
  BY <1>1, InsertionFacts, ChunkIsPiece DEF Fills
<1> HIDE DEF c
<1>3. /\ Append(a.list, c) \in Seq(Piece) /\ Ordered(Append(a.list, c)) /\ EndsBy(Append(a.list, c), rupper)
  BY <1>1, <1>2, InsertionFacts, AppendOrdered
<1>4. i = [a EXCEPT !.list = Append(a.list, c), !.placed = TRUE, !.first = first]
  BY DEF Insert, c
<1>5. first \in Nat
  BY <1>1, InsertionFacts
<1> HIDE DEF i, first
<1>6. i \in Insertion
  BY <1>1, <1>3, <1>4, <1>5 DEF Insertion
<1>7. i.list = Append(a.list, c) /\ i.placed = TRUE /\ i.data = a.data /\ i.rseq = a.rseq
  BY <1>1, <1>4 DEF Insertion
<1>8. QED BY <1>3, <1>6, <1>7 DEF i

\* The part of the block before a chunk is put before it, or, of a gap, dropped.
LEMMA InsertPrefixFacts ==
  ASSUME NEW a, NEW rupper \in Seqs, Inserting(a, rupper), ~a.placed,
         NEW c \in Piece, EndsBy(a.list, c.rseq), c.rseq < rupper, a.rseq < c.rupper
  PROVE  LET p == InsertPrefix(a, c) IN
         /\ Inserting(p, rupper) /\ ~p.placed /\ EndsBy(p.list, c.rseq)
         /\ c.rseq <= p.rseq /\ p.rseq < c.rupper
<1> DEFINE n == c.rseq - a.rseq
           p == InsertPrefix(a, c)
<1>1. /\ a \in Insertion /\ Ordered(a.list) /\ a.rseq < rupper /\ Fills(a.data, a.rseq, rupper)
      /\ EndsBy(a.list, a.rseq) /\ a.rseq \in Nat /\ a.data \in Seq(Byte) \cup {Unset}
  BY InsertionFacts DEF Inserting
<1>2. c.rseq \in Seqs /\ c.rseq \in Nat /\ c.rupper \in Nat /\ c.rseq < c.rupper /\ rupper \in Nat
  BY PieceFacts, PositionsWrap
<1>3. CASE a.rseq >= c.rseq
  <2>1. p = a
    BY <1>3 DEF InsertPrefix
  <2>2. QED BY <2>1, <1>1, <1>2, <1>3
<1>4. CASE a.rseq < c.rseq /\ a.data = Unset
  <2>1. p = [a EXCEPT !.rseq = c.rseq, !.dangling = TRUE]
    BY <1>4, <1>1, <1>2 DEF InsertPrefix
  <2> HIDE DEF p
  <2>2. p \in Insertion
    BY <2>1, <1>1, <1>2 DEF Insertion
  <2>3. p.list = a.list /\ p.data = Unset /\ p.rseq = c.rseq /\ p.placed = a.placed
    BY <2>1, <1>1, <1>4 DEF Insertion
  <2>4. Fills(p.data, p.rseq, rupper)
    BY <2>3 DEF Fills, Holds
  <2>5. QED BY <2>2, <2>3, <2>4, <1>1, <1>2 DEF Inserting, p
<1>5. CASE a.rseq < c.rseq /\ a.data # Unset
  <2> DEFINE b == [a EXCEPT !.data = SubSeq(a.data, 1, n)]
             i == Insert(b, c.rseq)
             rest == Drop(a.data, n)
  <2>1. /\ SubSeq(a.data, 1, n) \in Seq(Byte) /\ Fills(SubSeq(a.data, 1, n), a.rseq, c.rseq)
        /\ rest \in Seq(Byte) /\ Fills(rest, c.rseq, rupper)
    BY <1>1, <1>2, <1>5, Split
  <2>2. p = [i EXCEPT !.placed = FALSE, !.rseq = c.rseq, !.data = rest]
    <3>1. ~(a.rseq >= c.rseq)
      BY <1>1, <1>2, <1>5
    <3>2. QED BY <3>1, <1>5 DEF InsertPrefix
  <2>3. Inserting(b, c.rseq) /\ ~b.placed
    <3> HIDE DEF n
    <3>1. b \in Insertion
      BY <1>1, <2>1 DEF Insertion
    <3>2. b.list = a.list /\ b.placed = a.placed /\ b.rseq = a.rseq /\ b.data = SubSeq(a.data, 1, n)
      BY <1>1 DEF Insertion
    <3> HIDE DEF b
    <3>3. QED BY <3>1, <3>2, <1>1, <1>5, <2>1 DEF Inserting
  <2> HIDE DEF b, p, rest
  <2>4. i \in Insertion /\ Ordered(i.list) /\ EndsBy(i.list, c.rseq)
    BY <2>3, <1>2, InsertFacts
  <2> HIDE DEF i
  <2>5. p \in Insertion
    BY <2>1, <2>2, <2>4, <1>2 DEF Insertion
  <2>6. p.list = i.list /\ p.placed = FALSE /\ p.rseq = c.rseq /\ p.data = rest
    BY <2>2, <2>4 DEF Insertion
  <2>7. QED BY <2>1, <2>4, <2>5, <2>6, <1>2 DEF Inserting, p
<1>6. QED BY <1>1, <1>2, <1>3, <1>4, <1>5

\* The part of the block that a chunk covers is dropped.
LEMMA OverlapFacts ==
  ASSUME NEW a, NEW rupper \in Seqs, Inserting(a, rupper), ~a.placed,
         NEW c \in Piece, EndsBy(a.list, c.rseq), c.rseq < rupper, a.rseq < c.rupper
  PROVE  Inserting(Overlap(a, c, rupper), rupper) /\ EndsBy(Overlap(a, c, rupper).list, c.rupper)
<1> DEFINE p == InsertPrefix(a, c)
           n == Min({rupper - p.rseq, c.rupper - p.rseq})
           remainder == p.data # Unset /\ n < rupper - p.rseq
           o == Overlap(a, c, rupper)
<1>1. /\ Inserting(p, rupper) /\ ~p.placed /\ EndsBy(p.list, c.rseq)
      /\ c.rseq <= p.rseq /\ p.rseq < c.rupper
  BY InsertPrefixFacts
<1> HIDE DEF p
<1>2. p \in Insertion /\ Ordered(p.list) /\ p.rseq < rupper /\ Fills(p.data, p.rseq, rupper)
  BY <1>1 DEF Inserting
<1>3. /\ p.list \in Seq(Piece) /\ p.data \in Seq(Byte) \cup {Unset} /\ p.rseq \in Nat /\ Len(p.list) \in Nat
      /\ p.rseq \in Seqs /\ c.rupper \in Nat /\ c.rupper \in Seqs /\ rupper \in Nat
  BY <1>2, InsertionFacts, PieceFacts, PositionsWrap
<1> DEFINE list == Append(p.list, c)
           met == Len(p.list) + 1
<1>4. list \in Seq(Piece) /\ Ordered(list) /\ EndsBy(list, c.rupper)
  BY <1>1, <1>2, <1>3, AppendOrdered
<1>5. n = IF rupper <= c.rupper THEN rupper - p.rseq ELSE c.rupper - p.rseq
  BY <1>3, MinFacts
<1>6. o = [p EXCEPT !.list = list, !.met = met, !.placed = ~remainder,
                    !.data = IF remainder THEN Drop(p.data, n) ELSE p.data,
                    !.rseq = IF remainder THEN p.rseq + n ELSE p.rseq]
  BY DEF Overlap, p
<1>m. met \in Nat
  BY <1>3
<1> HIDE DEF list, o, n, met
<1>7. CASE remainder
  <2> DEFINE rest == Drop(p.data, c.rupper - p.rseq)
  <2>1. n = c.rupper - p.rseq /\ c.rupper < rupper /\ p.rseq + n = c.rupper
    BY <1>3, <1>5, <1>7
  <2>2. rest \in Seq(Byte) /\ Fills(rest, c.rupper, rupper)
    BY <2>1, <1>1, <1>2, <1>3, <1>7, Split
  <2>3. o = [p EXCEPT !.list = list, !.met = met, !.placed = FALSE,
                      !.data = rest, !.rseq = c.rupper]
    BY <2>1, <1>6, <1>7
  <2> HIDE DEF rest
  <2>a. rest \in Seq(Byte) \cup {Unset} /\ c.rupper \in Seqs /\ list \in Seq(Piece) /\ p \in Insertion
    BY <2>2, <1>2, <1>3, <1>4
  <2>4. o \in Insertion
    BY <2>3, <2>a, <1>m DEF Insertion
  <2>5. o.list = list /\ o.placed = FALSE /\ o.data = rest /\ o.rseq = c.rupper
    BY <2>3, <1>2 DEF Insertion
  <2>6. QED BY <2>1, <2>2, <2>4, <2>5, <1>4 DEF Inserting, o
<1>8. CASE ~remainder
  <2>1. o = [p EXCEPT !.list = list, !.met = met, !.placed = TRUE,
                      !.data = p.data, !.rseq = p.rseq]
    BY <1>6, <1>8
  <2>a. /\ p.data \in Seq(Byte) \cup {Unset} /\ p.rseq \in Seqs /\ list \in Seq(Piece)
        /\ p \in Insertion
    BY <1>2, <1>3, <1>4
  <2>2. o \in Insertion
    BY <2>1, <2>a, <1>m DEF Insertion
  <2>3. o.list = list /\ o.placed = TRUE
    BY <2>1, <1>2 DEF Insertion
  <2>4. QED BY <2>2, <2>3, <1>4 DEF Inserting, o
<1>9. QED BY <1>7, <1>8

\* Passing a chunk puts it behind what has been passed.
LEMMA PassFacts ==
  ASSUME NEW a \in Insertion, Ordered(a.list), NEW c \in Piece, EndsBy(a.list, c.rseq)
  PROVE  LET p == Pass(a, c) IN
         /\ p \in Insertion /\ Ordered(p.list) /\ EndsBy(p.list, c.rupper)
         /\ \A m \in Nat : c.rupper <= m => EndsBy(p.list, m)
         /\ p.placed = a.placed /\ p.data = a.data /\ p.rseq = a.rseq
<1> DEFINE list == Append(a.list, c)
           p == Pass(a, c)
<1>1. /\ list \in Seq(Piece) /\ Ordered(list) /\ EndsBy(list, c.rupper)
      /\ \A m \in Nat : c.rupper <= m => EndsBy(list, m)
  BY InsertionFacts, AppendOrdered
<1>2. p = [a EXCEPT !.list = list]
  BY DEF Pass
<1> HIDE DEF p, list
<1>3. p \in Insertion
  BY <1>1, <1>2 DEF Insertion
<1>4. p.list = list /\ p.placed = a.placed /\ p.data = a.data /\ p.rseq = a.rseq
  BY <1>2 DEF Insertion
<1>5. QED BY <1>1, <1>3, <1>4 DEF p

\* One turn of the loop over the buffer.
LEMMA VisitFacts ==
  ASSUME NEW a, NEW rupper \in Seqs, Inserting(a, rupper), NEW c \in Piece, EndsBy(a.list, c.rseq)
  PROVE  Inserting(Visit(a, c, rupper), rupper) /\ EndsBy(Visit(a, c, rupper).list, c.rupper)
<1>1. /\ a \in Insertion /\ Ordered(a.list) /\ a.placed \in BOOLEAN /\ a.rseq \in Nat
      /\ c.rseq \in Nat /\ c.rupper \in Nat /\ rupper \in Nat /\ a.list \in Seq(Piece)
  BY InsertionFacts, PieceFacts, PositionsWrap DEF Inserting
<1>2. CASE a.placed \/ c.rupper <= a.rseq
  <2>1. Visit(a, c, rupper) = Pass(a, c)
    BY <1>2 DEF Visit
  <2> DEFINE p == Pass(a, c)
  <2>2. /\ p \in Insertion /\ Ordered(p.list) /\ EndsBy(p.list, c.rupper)
        /\ \A m \in Nat : c.rupper <= m => EndsBy(p.list, m)
        /\ p.placed = a.placed /\ p.data = a.data /\ p.rseq = a.rseq
    BY <1>1, PassFacts
  <2> HIDE DEF p
  <2>3. ~p.placed => p.rseq < rupper /\ Fills(p.data, p.rseq, rupper) /\ EndsBy(p.list, p.rseq)
    BY <2>2, <1>1, <1>2 DEF Inserting
  <2>4. QED BY <2>1, <2>2, <2>3 DEF Inserting, p
<1>3. CASE ~(a.placed \/ c.rupper <= a.rseq) /\ rupper <= c.rseq
  <2> DEFINE i == Insert(a, rupper)
             p == Pass(i, c)
  <2>1. Visit(a, c, rupper) = p
    BY <1>3 DEF Visit
  <2>2. i \in Insertion /\ Ordered(i.list) /\ EndsBy(i.list, rupper) /\ i.placed
    BY <1>3, InsertFacts
  <2> HIDE DEF i
  <2>3. EndsBy(i.list, c.rseq)
    <3>1. \A k \in DOMAIN i.list : i.list[k] \in Piece
      BY <2>2, InsertionFacts
    <3>2. \A k \in DOMAIN i.list : i.list[k].rupper \in Nat
      BY <3>1, PieceFacts
    <3>3. QED BY <3>2, <2>2, <1>1, <1>3 DEF EndsBy
  <2>4. /\ p \in Insertion /\ Ordered(p.list) /\ EndsBy(p.list, c.rupper) /\ p.placed = i.placed
    BY <2>2, <2>3, PassFacts
  <2> HIDE DEF p
  <2>5. QED BY <2>1, <2>2, <2>4 DEF Inserting
<1>4. CASE ~(a.placed \/ c.rupper <= a.rseq) /\ ~(rupper <= c.rseq)
  <2>1. Visit(a, c, rupper) = Overlap(a, c, rupper)
    BY <1>4 DEF Visit
  <2>2. ~a.placed /\ a.rseq < c.rupper /\ c.rseq < rupper
    BY <1>1, <1>4
  <2>3. QED BY <2>1, <2>2, OverlapFacts
<1>5. QED BY <1>2, <1>3, <1>4

\* The loop over the buffer is the function that its equation says.
LEMMA VisitsFacts ==
  ASSUME NEW chunks, NEW data, NEW rseq, NEW rupper, Len(chunks) \in Nat
  PROVE  LET v == Visits(chunks, data, rseq, rupper) IN
         /\ v[0] = [list |-> <<>>, data |-> data, rseq |-> rseq, first |-> 0, met |-> 0,
                    placed |-> FALSE, dangling |-> FALSE]
         /\ \A k \in 1..Len(chunks) : v[k] = Visit(v[k - 1], chunks[k], rupper)
<1> DEFINE n == Len(chunks)
           start == [list |-> <<>>, data |-> data, rseq |-> rseq, first |-> 0, met |-> 0,
                     placed |-> FALSE, dangling |-> FALSE]
           Turn(f, k) == IF k = 0 THEN start ELSE Visit(f[k - 1], chunks[k], rupper)
           IsVisits(f, m) == f = [k \in 0..m |-> Turn(f, k)]
           S == {m \in 0..n : \E f : IsVisits(f, m)}
<1> HIDE DEF start
<1>1. 0 \in S
  <2> DEFINE g == [k \in 0..0 |-> start]
  <2>1. \A k \in 0..0 : Turn(g, k) = start
    OBVIOUS
  <2>2. IsVisits(g, 0)
    BY <2>1
  <2>3. 0 \in 0..n
    OBVIOUS
  <2> HIDE DEF IsVisits, g, n
  <2>4. QED BY <2>2, <2>3
<1>2. ASSUME NEW m \in 0..n, m \in S, m < n
      PROVE  m + 1 \in S
  <2>1. PICK f : IsVisits(f, m)
    BY <1>2
  <2> DEFINE g == [k \in 0 .. m + 1 |-> IF k <= m THEN f[k] ELSE Turn(f, k)]
  <2>2. ASSUME NEW k \in 0 .. m + 1
        PROVE  g[k] = Turn(g, k)
    <3>1. CASE k = 0
      <4>1. f[0] = Turn(f, 0)
        BY <2>1
      <4>2. QED BY <3>1, <4>1
    <3>2. CASE k \in 1 .. m + 1
      <4>1. k - 1 \in 0..m /\ g[k - 1] = f[k - 1]
        BY <3>2
      <4>2. Turn(g, k) = Turn(f, k)
        BY <4>1
      <4>3. k <= m => f[k] = Turn(f, k)
        BY <2>1
      <4>4. g[k] = IF k <= m THEN f[k] ELSE Turn(f, k)
        OBVIOUS
      <4> HIDE DEF g, Turn
      <4>5. QED BY <4>2, <4>3, <4>4
    <3>3. QED BY <3>1, <3>2
  <2>3. IsVisits(g, m + 1)
    <3>1. g = [k \in 0 .. m + 1 |-> g[k]]
      OBVIOUS
    <3> HIDE DEF g, Turn
    <3>2. QED BY <2>2, <3>1
  <2>4. m + 1 \in 0..n
    BY <1>2
  <2> HIDE DEF IsVisits, g
  <2>5. QED BY <2>3, <2>4
<1>3. \A k \in 0..n : k \in S
  <2> HIDE DEF S
  <2>1. QED BY <1>1, <1>2, UpTo
<1>4. n \in S
  BY <1>3
<1>5. \E f : IsVisits(f, n)
  BY <1>4
<1>6. Visits(chunks, data, rseq, rupper) = CHOOSE f : IsVisits(f, n)
  BY DEF Visits, start
<1>7. IsVisits(Visits(chunks, data, rseq, rupper), n)
  BY <1>5, <1>6
<1> DEFINE v == Visits(chunks, data, rseq, rupper)
<1> HIDE DEF v
<1>8. \A k \in 0..n : v[k] = Turn(v, k)
  BY <1>7 DEF v
<1>9. v[0] = start
  BY <1>8
<1>10. \A k \in 1..n : v[k] = Visit(v[k - 1], chunks[k], rupper)
  BY <1>8
<1>11. QED BY <1>9, <1>10 DEF v, start

\* Putting a block that fills its bounds into an ordered buffer gives one.
LEMMA AddAndCheckFacts ==
  ASSUME NEW chunks \in Seq(Piece), chunks # <<>>, Ordered(chunks),
         NEW data \in Seq(Byte) \cup {Unset}, NEW rseq \in Seqs, NEW rupper \in Seqs,
         rseq < rupper, Fills(data, rseq, rupper)
  PROVE  LET added == AddAndCheck(chunks, data, rseq, rupper) IN
         added.list \in Seq(Piece) /\ Ordered(added.list) /\ added.at \in Nat
<1> DEFINE n == Len(chunks)
           c == Chunk(data, rseq, rupper)
           v == Visits(chunks, data, rseq, rupper)
           S == {k \in 0..n : Inserting(v[k], rupper) /\ (k > 0 => EndsBy(v[k].list, chunks[k].rupper))}
           seen == v[n]
           end == IF seen.placed THEN seen ELSE Insert(seen, rupper)
           added == AddAndCheck(chunks, data, rseq, rupper)
<1>1. n \in Nat /\ n > 0 /\ DOMAIN chunks = 1..n /\ \A k \in 1..n : chunks[k] \in Piece
  OBVIOUS
<1>2. c \in Piece /\ c.rseq = rseq /\ c.rupper = rupper
  BY ChunkIsPiece DEF Fills
<1>3. /\ v[0] = [list |-> <<>>, data |-> data, rseq |-> rseq, first |-> 0, met |-> 0,
                 placed |-> FALSE, dangling |-> FALSE]
      /\ \A k \in 1..n : v[k] = Visit(v[k - 1], chunks[k], rupper)
  BY <1>1, VisitsFacts
<1> HIDE DEF n, v, c
<1>4. 0 \in S
  <2>1. v[0] \in Insertion
    BY <1>3 DEF Insertion
  <2>2. Ordered(v[0].list) /\ EndsBy(v[0].list, v[0].rseq) /\ v[0].rseq = rseq /\ v[0].data = data
    BY <1>3 DEF Ordered, EndsBy
  <2>3. Inserting(v[0], rupper)
    BY <2>1, <2>2 DEF Inserting
  <2>4. QED BY <2>3, <1>1
<1>5. ASSUME NEW k \in 0..n, k \in S, k < n
      PROVE  k + 1 \in S
  <2>1. k + 1 \in 1..n /\ v[k + 1] = Visit(v[k], chunks[k + 1], rupper) /\ chunks[k + 1] \in Piece
    BY <1>1, <1>3, <1>5
  <2>2. Inserting(v[k], rupper) /\ (k > 0 => EndsBy(v[k].list, chunks[k].rupper))
    BY <1>5
  <2>3. EndsBy(v[k].list, chunks[k + 1].rseq)
    <3>1. CASE k = 0
      BY <3>1, <1>3 DEF EndsBy
    <3>2. CASE k > 0
      <4>1. chunks[k].rupper <= chunks[k + 1].rseq /\ chunks[k] \in Piece
        BY <3>2, <2>1, <1>1 DEF Ordered
      <4>2. chunks[k].rupper \in Nat /\ chunks[k + 1].rseq \in Nat
        BY <4>1, <2>1, PieceFacts
      <4>3. v[k].list \in Seq(Piece)
        BY <2>2, InsertionFacts DEF Inserting
      <4>4. \A i \in DOMAIN v[k].list : v[k].list[i] \in Piece
        BY <4>3
      <4>5. \A i \in DOMAIN v[k].list : v[k].list[i].rupper \in Nat
        BY <4>4, PieceFacts
      <4>6. QED BY <3>2, <2>2, <4>1, <4>2, <4>5 DEF EndsBy
    <3>3. QED BY <3>1, <3>2
  <2>4. Inserting(v[k + 1], rupper) /\ EndsBy(v[k + 1].list, chunks[k + 1].rupper)
    BY <2>1, <2>2, <2>3, VisitFacts
  <2>5. QED BY <2>1, <2>4
<1>6. Inserting(seen, rupper)
  <2>1. \A k \in 0..n : k \in S
    <3> HIDE DEF S
    <3>1. QED BY <1>1, <1>4, <1>5, UpTo
  <2>2. n \in S
    BY <1>1, <2>1
  <2>3. QED BY <2>2
<1> HIDE DEF seen
<1>7. end \in Insertion /\ Ordered(end.list)
  BY <1>6, InsertFacts DEF Inserting
<1> HIDE DEF end
<1>8. end.list \in Seq(Piece) /\ end.first \in Nat /\ end.met \in Nat
  BY <1>7, InsertionFacts
<1>9. CASE rseq = Last(chunks).rupper
  <2>1. added.list = Append(chunks, c) /\ added.at = n + 1
    BY <1>9 DEF AddAndCheck, c, n
  <2>2. Append(chunks, c) \in Seq(Piece) /\ Ordered(Append(chunks, c))
    BY <1>2, <1>9, LastEnds, AppendOrdered
  <2>3. QED BY <2>1, <2>2, <1>1
<1>10. CASE rseq # Last(chunks).rupper
  <2>1. /\ added.list = end.list
        /\ added.at = IF end.dangling THEN 0 ELSE IF end.first # 0 THEN end.first ELSE end.met
    BY <1>10 DEF AddAndCheck, end, seen, v, n
  <2>2. QED BY <2>1, <1>7, <1>8
<1>11. QED BY <1>9, <1>10

(****************************** The methods *******************************)

\* The tail of newData.
LEMMA BufferedGood ==
  ASSUME NEW s, Good(s), NEW list \in Seq(Piece), Ordered(list), NEW at \in Nat
  PROVE  Becomes(s, Buffered(s, list, at))
<1> DEFINE b == [s EXCEPT !.chunks = list]
           x == [s EXCEPT !.outcome = "crashed"]
<1>1. s \in Object /\ Ordered(s.chunks)
  BY DEF Good
<1>2. Becomes(s, b) /\ Good(b)
  <2>1. b \in Object
    BY <1>1 DEF Object
  <2>2. /\ b.cur = s.cur /\ b.last = s.last /\ b.units = s.units /\ b.filter = s.filter
        /\ b.held = s.held /\ b.thrown = s.thrown /\ b.delivered = s.delivered /\ b.back = s.back
        /\ b.chunks = list /\ b.undelivered = s.undelivered
    BY <1>1 DEF Object
  <2> HIDE DEF b
  <2>3. QED BY <2>1, <2>2, <1>1, SameFields
<1>3. Becomes(s, x)
  <2>1. x \in Object
    BY <1>1 DEF Object, Outcomes
  <2>2. /\ x.cur = s.cur /\ x.last = s.last /\ x.units = s.units /\ x.filter = s.filter
        /\ x.held = s.held /\ x.thrown = s.thrown /\ x.delivered = s.delivered /\ x.back = s.back
        /\ x.chunks = s.chunks /\ x.undelivered = s.undelivered
    BY <1>1 DEF Object
  <2> HIDE DEF x
  <2>3. QED BY <2>1, <2>2, <1>1, SameFields
<1>4. ASSUME at # 0
      PROVE  Becomes(s, TryDeliver(b, at))
  <2> DEFINE d == TryDeliver(b, at)
  <2> HIDE DEF b
  <2>1. Becomes(b, d)
    BY <1>2, <1>4, TryDeliverGood
  <2> HIDE DEF d
  <2>2. Becomes(s, d)
    BY <1>2, <2>1, BecomesTwice
  <2>3. QED BY <2>2 DEF d
<1>5. QED BY <1>2, <1>3, <1>4 DEF Buffered

\* A chunk that comes where the stream has been delivered to is delivered.
LEMMA DeliverGood ==
  ASSUME NEW s, Good(s), NEW c \in Piece, c.rseq = s.cur
  PROVE  Becomes(s, Deliver(s, c))
<1>1. s \in Object
  BY DEF Good
<1>2. [s EXCEPT !.last = s.last] = s
  BY <1>1 DEF Object
<1>3. Becomes(s, Deliver([s EXCEPT !.last = s.last], c))
  BY <1>1, DeliverKeeps
<1>4. QED BY <1>2, <1>3

\* newData(), for a block that does not reach across the end of the space.
LEMMA NewDataGood ==
  ASSUME NEW s, Good(s), NEW data \in Seq(Byte) \cup {Unset}, NEW rseq \in Seqs, NEW len \in Nat,
         rseq + len < SeqBound, s.trim + len < SeqBound, len # 0 => Fills(data, rseq, rseq + len)
  PROVE  Becomes(s, NewData(s, data, rseq, len))
<1> DEFINE rupper == Plus(rseq, len)
           old == IF rseq < s.trim THEN s.trim - rseq ELSE 0
           from == rseq + old
           kept == IF data = Unset THEN Unset ELSE Drop(data, old)
           added == AddAndCheck(s.chunks, kept, from, rupper)
           r == NewData(s, data, rseq, len)
<1>1. /\ s \in Object /\ s.chunks \in Seq(Piece) /\ Ordered(s.chunks) /\ s.trim \in Nat /\ s.trim \in Seqs
      /\ rseq \in Nat /\ SeqBound \in Nat
  BY ObjectFacts, PositionsWrap DEF Good
<1>2. rupper = rseq + len /\ rupper \in Nat /\ rupper \in Seqs
  <2>1. rupper = rseq + len
    BY <1>1, PositionsWrap
  <2>2. rseq + len \in Nat /\ rseq + len \in Seqs
    BY <1>1, PositionsWrap
  <2> HIDE DEF rupper
  <2>3. QED BY <2>1, <2>2
<1>3. CASE len = 0
  BY <1>3, BecomesSelf DEF NewData
<1>4. CASE len # 0 /\ s.autoTrim /\ s.chunks = <<>> /\ rseq = s.cur
  <2> DEFINE c == Chunk(data, rseq, rupper)
  <2>1. r = Deliver(s, c)
    BY <1>4 DEF NewData
  <2>2. c \in Piece /\ c.rseq = rseq
    <3>1. rseq < rupper /\ Holds(data, rseq, rupper)
      BY <1>1, <1>2, <1>4 DEF Fills
    <3> HIDE DEF rupper
    <3>2. QED BY <3>1, <1>2, ChunkIsPiece
  <2> HIDE DEF c, r
  <2>3. Becomes(s, r)
    BY <2>1, <2>2, <1>4, DeliverGood
  <2>4. QED BY <2>3 DEF r
<1>5. CASE len # 0 /\ ~(s.autoTrim /\ s.chunks = <<>> /\ rseq = s.cur) /\ rupper <= s.trim
  BY <1>5, BecomesSelf DEF NewData
<1>6. CASE len # 0 /\ ~(s.autoTrim /\ s.chunks = <<>> /\ rseq = s.cur) /\ ~(rupper <= s.trim)
  <2>1. /\ from \in Nat /\ from < rupper /\ rseq <= from /\ from + len < SeqBound /\ old \in Nat
        /\ rupper <= from + len /\ (rseq < s.trim => from = s.trim) /\ (~(rseq < s.trim) => old = 0)
    BY <1>1, <1>2, <1>6
  <2>2. Fills(data, rseq, rupper)
    BY <1>2, <1>6
  <2> HIDE DEF rupper
  <2>3. Fills(kept, from, rupper) /\ kept \in Seq(Byte) \cup {Unset}
    <3>1. CASE data = Unset
      BY <3>1 DEF Fills, Holds
    <3>2. CASE data # Unset /\ rseq < s.trim
      <4>1. from = s.trim /\ old = from - rseq /\ rseq < from
        BY <3>2, <1>1, <2>1
      <4>2. kept = Drop(data, old)
        BY <3>2
      <4> HIDE DEF kept, from, old
      <4>3. Drop(data, from - rseq) \in Seq(Byte) /\ Fills(Drop(data, from - rseq), from, rupper)
        BY <4>1, <3>2, <2>1, <2>2, <1>1, <1>2, Split
      <4>4. QED BY <4>1, <4>2, <4>3
    <3>3. CASE data # Unset /\ ~(rseq < s.trim)
      <4>1. from = rseq /\ kept = Drop(data, 0)
        BY <3>3, <1>1
      <4>2. data \in Seq(Byte)
        BY <3>3
      <4>3. Drop(data, 0) = data
        BY <4>2 DEF Drop
      <4> HIDE DEF kept, from, old
      <4>4. QED BY <4>1, <4>2, <4>3, <2>2
    <3>4. QED BY <3>1, <3>2, <3>3
  <2>4. from \in Seqs
    BY <2>1, <1>1, <1>2 DEF Seqs
  <2>5. CASE s.chunks = <<>>
    <3> DEFINE c == Chunk(kept, from, Plus(from, len))
    <3>1. r = Buffered(s, <<c>>, 1)
      BY <1>6, <2>5 DEF NewData, rupper
    <3> HIDE DEF kept, from, old, r
    <3>2. Plus(from, len) = from + len /\ from + len \in Seqs /\ from < from + len
      <4>1. from + len \in Nat /\ from + len < SeqBound /\ from < from + len /\ from \in Nat
        BY <2>1, <1>1, <1>6
      <4>2. Plus(from, len) = from + len
        BY <4>1, PositionsWrap
      <4>3. from + len \in Seqs
        BY <4>1, PositionsWrap
      <4>4. QED BY <4>1, <4>2, <4>3
    <3>3. Holds(kept, from, from + len)
      BY <2>1, <2>3, <1>2 DEF Fills, Holds
    <3>4. c \in Piece
      BY <2>3, <2>4, <3>2, <3>3, ChunkIsPiece
    <3> HIDE DEF c
    <3>5. <<c>> \in Seq(Piece) /\ Ordered(<<c>>)
      BY <3>4 DEF Ordered
    <3>6. QED BY <3>1, <3>5, BufferedGood DEF r
  <2>6. CASE s.chunks # <<>>
    <3>1. r = Buffered(s, added.list, added.at)
      BY <1>6, <2>6 DEF NewData, rupper
    <3> HIDE DEF kept, from, old, r
    <3>2. added.list \in Seq(Piece) /\ Ordered(added.list) /\ added.at \in Nat
      BY <1>1, <1>2, <2>1, <2>3, <2>4, <2>6, AddAndCheckFacts
    <3> HIDE DEF added
    <3>3. QED BY <3>1, <3>2, BufferedGood DEF r
  <2>7. QED BY <2>5, <2>6
<1>7. QED BY <1>3, <1>4, <1>5, <1>6

\* Reporting what is skipped touches nothing but the report.
LEMMA ReportFacts ==
  ASSUME NEW s, Good(s), NEW rupper \in Seqs
  PROVE  LET t == ReportUndeliveredUpTo(s, rupper) IN
         /\ Good(t) /\ t.cur = s.cur /\ t.last = s.last /\ t.units = s.units /\ t.filter = s.filter
         /\ t.held = s.held /\ t.thrown = s.thrown /\ t.delivered = s.delivered /\ t.back = s.back
         /\ t.autoTrim = s.autoTrim /\ t.missing = s.missing
         /\ Delivered(t) = Delivered(s) /\ (Onward(s) => Onward(t))
<1> DEFINE Before(i) == \A j \in 1..i : s.chunks[j].rseq < rupper
           Reported(c) == IF c.rupper <= rupper THEN c.data
                          ELSE SubSeq(c.data, 1, Min({c.rupper - rupper, Len(c.data)}))
           visited == {i \in DOMAIN s.chunks : Before(i) /\ s.chunks[i].data # Unset}
           undelivered == s.undelivered \cup UNION {Positions(Reported(s.chunks[i])) : i \in visited}
           t == ReportUndeliveredUpTo(s, rupper)
<1>1. s \in Object /\ s.chunks \in Seq(Piece) /\ Ordered(s.chunks) /\ rupper \in Nat
  BY ObjectFacts, PositionsWrap DEF Good
<1>2. t = [s EXCEPT !.undelivered = undelivered]
  BY DEF ReportUndeliveredUpTo
<1>3. undelivered \in SUBSET Seqs
  <2>1. ASSUME NEW i \in visited
        PROVE  Positions(Reported(s.chunks[i])) \subseteq Seqs
    <3> DEFINE c == s.chunks[i]
    <3>1. c \in Piece /\ c.data # Unset
      BY <1>1
    <3> HIDE DEF c
    <3>2. c.data \in Seq(Byte) /\ c.rupper \in Nat
      BY <3>1, PieceFacts
    <3>3. Reported(c) \in Seq(Byte)
      <4>1. CASE c.rupper <= rupper
        BY <4>1, <3>2
      <4>2. CASE ~(c.rupper <= rupper)
        <5> DEFINE n == Min({c.rupper - rupper, Len(c.data)})
        <5>1. Len(c.data) \in Nat /\ c.rupper - rupper \in Nat
          BY <3>2, <1>1, <4>2
        <5>2. n \in Nat /\ n <= Len(c.data)
          BY <5>1, MinFacts
        <5>3. Reported(c) = SubSeq(c.data, 1, n)
          BY <4>2
        <5> HIDE DEF n, Reported
        <5>4. QED BY <5>2, <5>3, <3>2, TakeFacts
      <4>3. QED BY <4>1, <4>2
    <3> HIDE DEF Reported
    <3>4. Positions(Reported(c)) \subseteq Seqs
      BY <3>3, PositionsType
    <3>5. QED BY <3>4 DEF c
  <2>2. s.undelivered \subseteq Seqs
    BY <1>1, ObjectFacts
  <2> HIDE DEF visited, Reported
  <2>3. QED BY <2>1, <2>2
<1> HIDE DEF t, undelivered
<1>4. t \in Object
  BY <1>1, <1>2, <1>3 DEF Object
<1>5. /\ t.cur = s.cur /\ t.last = s.last /\ t.units = s.units /\ t.filter = s.filter
      /\ t.held = s.held /\ t.thrown = s.thrown /\ t.delivered = s.delivered /\ t.back = s.back
      /\ t.autoTrim = s.autoTrim /\ t.missing = s.missing /\ t.chunks = s.chunks
  BY <1>1, <1>2 DEF Object
<1>6. Good(t) /\ Delivered(t) = Delivered(s) /\ (Onward(s) => Onward(t))
  BY <1>1, <1>4, <1>5, SameFields
<1>7. QED BY <1>5, <1>6 DEF t

\* _skip(): the position is moved, and what is in order then is delivered.
LEMMA SkipToGood ==
  ASSUME NEW s, Good(s), NEW rseq \in Seqs
  PROVE  LET d == SkipTo(s, rseq) IN
         /\ Good(d)
         /\ ~d.back => ~s.back
         /\ ~d.back /\ Onward(s) =>
              /\ Onward(d)
              /\ s.autoTrim => (d.undelivered \ s.undelivered) \cap Delivered(s) = {}
<1> DEFINE t == IF s.autoTrim THEN Trim(s, rseq) ELSE ReportUndeliveredUpTo(s, rseq)
           missing == t.missing \cup Within(0, rseq)
           back == t.back \/ rseq < s.cur
           r == [t EXCEPT !.cur = rseq, !.last = rseq, !.stuck = FALSE, !.missing = missing, !.back = back]
<1>1. /\ Good(t) /\ t.cur = s.cur /\ t.back = s.back /\ t.filter = s.filter /\ t.held = s.held
      /\ t.delivered = s.delivered /\ (Onward(s) => Onward(t)) /\ (s.autoTrim => Becomes(s, t))
  <2>1. CASE s.autoTrim
    <3>1. t = Trim(s, rseq)
      BY <2>1
    <3>2. QED BY <3>1, <2>1, TrimFacts DEF Becomes
  <2>2. CASE ~s.autoTrim
    <3>1. t = ReportUndeliveredUpTo(s, rseq)
      BY <2>2
    <3>2. QED BY <3>1, <2>2, ReportFacts
  <2>3. QED BY <2>1, <2>2
<1>2. SkipTo(s, rseq) = TryDeliver(r, 1)
  BY DEF SkipTo
<1>3. rseq \in Nat /\ s.cur \in Nat
  BY ObjectFacts, PositionsWrap DEF Good
<1> HIDE DEF t
<1>4. t \in Object /\ Ordered(t.chunks) /\ InOrder(t) /\ InStep(t)
  BY <1>1 DEF Good
<1>5. missing \in SUBSET Seqs /\ t.back \in BOOLEAN /\ t.last \in Nat
  BY <1>4, ObjectFacts, WithinType, PositionsWrap
<1>6. back \in BOOLEAN
  BY <1>5
<1>7. ~back => ~t.back /\ s.cur <= rseq
  BY <1>3, <1>5
<1> HIDE DEF missing, back
<1>8. r \in Object
  BY <1>4, <1>5, <1>6 DEF Object
<1>9. /\ r.cur = rseq /\ r.last = rseq /\ r.back = back /\ r.chunks = t.chunks /\ r.units = t.units
      /\ r.filter = t.filter /\ r.held = t.held /\ r.thrown = t.thrown /\ r.delivered = t.delivered
      /\ r.undelivered = t.undelivered
  BY <1>4 DEF Object
<1> HIDE DEF r
<1>10. InStep(r)
  BY <1>4, <1>9 DEF InStep
<1>11. ASSUME Undisturbed(r)
       PROVE  r.held = <<>> /\ \A u \in DOMAIN r.units : Ascending(r.units[u].received, r.last)
  <2>1. Undisturbed(t) /\ s.cur <= rseq
    BY <1>7, <1>9, <1>11 DEF Undisturbed
  <2>2. /\ t.last <= t.cur /\ t.held = <<>>
        /\ \A u \in DOMAIN t.units : Ascending(t.units[u].received, t.last)
    BY <2>1, <1>4 DEF InOrder
  <2>3. t.last <= rseq
    BY <2>1, <2>2, <1>1, <1>3, <1>5
  <2>4. \A u \in DOMAIN t.units : Ascending(t.units[u].received, rseq)
    BY <2>2, <2>3, <1>3, <1>4, <1>5, UnitsFacts, AscendingLater
  <2>5. QED BY <2>2, <2>4, <1>9
<1>12. InOrder(r)
  BY <1>3, <1>9, <1>11 DEF InOrder
<1>13. Good(r)
  BY <1>4, <1>8, <1>9, <1>10, <1>12 DEF Good
<1> DEFINE d == TryDeliver(r, 1)
<1>14. Becomes(r, d)
  BY <1>13, TryDeliverGood
<1> HIDE DEF d
<1>15. ~d.back => ~s.back /\ ~(rseq < s.cur)
  <2>1. d.back = (s.back \/ rseq < s.cur)
    BY <1>1, <1>9, <1>14 DEF Becomes, back
  <2>2. QED BY <2>1
<1>16. ASSUME ~d.back, Onward(s)
       PROVE  /\ Onward(d)
              /\ s.autoTrim => (d.undelivered \ s.undelivered) \cap Delivered(s) = {}
  <2>1. \A p \in Delivered(s) : p < s.cur /\ p \in Nat
    <3>1. s.delivered \in Seq(Byte)
      BY ObjectFacts DEF Good
    <3>2. \A p \in Delivered(s) : p \in Seqs
      BY <3>1, PositionsType DEF Delivered
    <3>3. QED BY <3>2, <1>16, PositionsWrap DEF Onward
  <2>2. \A p \in Delivered(s) : p < rseq
    BY <2>1, <1>3, <1>15, <1>16
  <2>3. Delivered(r) = Delivered(s) /\ Onward(r)
    BY <2>2, <1>1, <1>9, <1>16 DEF Onward, Delivered
  <2>4. Onward(d) /\ (d.undelivered \ r.undelivered) \cap Delivered(s) = {}
    BY <2>3, <1>14 DEF Becomes
  <2>5. s.autoTrim => (r.undelivered \ s.undelivered) \cap Delivered(s) = {}
    BY <1>1, <1>9, <1>16 DEF Becomes
  <2>6. QED BY <2>4, <2>5
<1>17. QED BY <1>2, <1>14, <1>15, <1>16 DEF Becomes, d

\* The object after construction.
LEMMA FreshGood == Good(Fresh) /\ Onward(Fresh) /\ Fresh.undelivered = {}
<1>1. Fresh \in Object
  BY PositionsWrap DEF Fresh, Object, Outcomes
<1>2. Fresh.chunks = <<>> /\ Fresh.units = <<>> /\ Fresh.held = <<>> /\ Fresh.last = 0 /\ Fresh.cur = 0
  BY DEF Fresh
<1>3. Ordered(Fresh.chunks) /\ InOrder(Fresh) /\ InStep(Fresh)
  BY <1>2 DEF Ordered, InOrder, InStep
<1>4. ~Fresh.filter /\ Fresh.undelivered = {} /\ Fresh.delivered = <<>>
  BY DEF Fresh
<1>5. Delivered(Fresh) = {}
  BY <1>4 DEF Delivered, Positions
<1>6. QED BY <1>1, <1>2, <1>3, <1>4, <1>5 DEF Good, Onward

\* A call starts on a good object.
LEMMA CurrentGood ==
  ASSUME Good(sink)
  PROVE  /\ Good(Current) /\ Becomes(sink, Current) /\ Current.trim = sink.trim
         /\ Current.autoTrim = sink.autoTrim /\ Current.back = sink.back /\ Delivered(Current) = Delivered(sink)
         /\ Current.undelivered = sink.undelivered /\ Current.filter = sink.filter
<1> DEFINE c == Current
<1>1. sink \in Object /\ Ordered(sink.chunks)
  BY DEF Good
<1>2. c = [sink EXCEPT !.outcome = "ok"]
  BY DEF Current
<1> HIDE DEF c
<1>3. c \in Object
  BY <1>1, <1>2 DEF Object, Outcomes
<1>4. /\ c.cur = sink.cur /\ c.last = sink.last /\ c.units = sink.units /\ c.filter = sink.filter
      /\ c.held = sink.held /\ c.thrown = sink.thrown /\ c.delivered = sink.delivered
      /\ c.back = sink.back /\ c.chunks = sink.chunks /\ c.trim = sink.trim
      /\ c.undelivered = sink.undelivered /\ c.autoTrim = sink.autoTrim
  BY <1>1, <1>2 DEF Object
<1>5. Good(c) /\ Becomes(sink, c) /\ Delivered(c) = Delivered(sink)
  BY <1>1, <1>3, <1>4, SameFields
<1>6. QED BY <1>4, <1>5 DEF c

\* The bytes of one write fill its bounds.
LEMMA ContentFills ==
  ASSUME NEW rseq \in Nat, NEW len \in Nat, NEW v \in Values, rseq + len < SeqBound
  PROVE  /\ Content(rseq, len, v) \in Seq(Byte)
         /\ len # 0 => Fills(Content(rseq, len, v), rseq, rseq + len)
<1> DEFINE data == Content(rseq, len, v)
<1>1. \A i \in 1..len : Plus(rseq, i - 1) = rseq + (i - 1) /\ Plus(rseq, i - 1) \in Seqs
  <2>1. SeqBound \in Nat
    BY PositionsWrap
  <2>2. \A i \in 1..len : i - 1 \in Nat /\ rseq + (i - 1) < SeqBound
    BY <2>1
  <2>3. QED BY <2>2, PositionsWrap
<1>2. data = [i \in 1..len |-> [pos |-> Plus(rseq, i - 1), v |-> v]]
  BY DEF Content
<1> HIDE DEF data
<1>3. \A i \in 1..len : data[i] \in Byte /\ data[i].pos = rseq + (i - 1)
  BY <1>1, <1>2 DEF Byte
<1>4. data \in Seq(Byte) /\ Len(data) = len /\ DOMAIN data = 1..len
  <2>1. DOMAIN data = 1..len /\ data = [i \in 1..len |-> data[i]]
    BY <1>2
  <2>2. data \in Seq(Byte)
    BY <1>3, <2>1
  <2>3. QED BY <2>1, <2>2
<1>5. ASSUME len # 0
      PROVE  Fills(data, rseq, rseq + len)
  <2>1. data # <<>>
    BY <1>4, <1>5
  <2>2. Len(data) = (rseq + len) - rseq
    BY <1>4
  <2>3. QED BY <1>3, <1>4, <2>1, <2>2 DEF Fills, Holds
<1>6. QED BY <1>4, <1>5 DEF data

\* A position relative to the initial sequence number is a position.
LEMMA RseqType ==
  ASSUME NEW s \in Object, NEW seq \in Seqs
  PROVE  Rseq(s, seq) \in Seqs /\ Rseq(s, seq) \in Nat
<1>1. seq \in Int /\ s.initial \in Int
  <2>1. s.initial \in Seqs
    BY ObjectFacts
  <2>2. \A p \in Seqs : p \in Int
    BY PositionsWrap
  <2>3. QED BY <2>1, <2>2
<1>2. Rseq(s, seq) \in Seqs
  BY <1>1, PositionsWrap DEF Rseq
<1>3. QED BY <1>2, PositionsWrap

\* write(), when it does not reach across the end of the space.
LEMMA WriteGood ==
  ASSUME IInv, NEW seq \in Seqs, NEW len \in Nat, NEW v \in Values,
         Fits(Rseq(sink, seq), len), Write(seq, len, v)
  PROVE  Becomes(sink, sink')
<1> DEFINE at == Rseq(sink, seq)
           data == Content(at, len, v)
           w == [Current EXCEPT !.written = Current.written \cup Positions(data)]
<1>1. Good(sink) /\ sink \in Object
  BY DEF IInv, Good
<1>2. Good(Current) /\ Current \in Object /\ Ordered(Current.chunks) /\ Current.trim = sink.trim
      /\ Becomes(sink, Current)
  BY <1>1, CurrentGood DEF Good
<1>3. at \in Seqs /\ at \in Nat /\ at + len < SeqBound /\ sink.trim + len < SeqBound
  BY <1>1, RseqType DEF Fits
<1>4. data \in Seq(Byte) /\ (len # 0 => Fills(data, at, at + len))
  BY <1>3, ContentFills
<1>5. sink' = NewData(w, data, at, len)
  BY DEF Write, Returns
<1> HIDE DEF at, data
<1>6. Current.written \cup Positions(data) \in SUBSET Seqs
  BY <1>2, <1>4, ObjectFacts, PositionsType
<1> DEFINE c == Current
<1>7. /\ c \in Object /\ w = [c EXCEPT !.written = c.written \cup Positions(data)]
      /\ c.written \cup Positions(data) \in SUBSET Seqs
  BY <1>2, <1>6
<1> HIDE DEF w, c
<1>8. w \in Object
  BY <1>7 DEF Object
<1>9. /\ w.cur = c.cur /\ w.last = c.last /\ w.units = c.units /\ w.filter = c.filter
      /\ w.held = c.held /\ w.thrown = c.thrown /\ w.delivered = c.delivered /\ w.back = c.back
      /\ w.chunks = c.chunks /\ w.trim = c.trim /\ w.undelivered = c.undelivered
  BY <1>7 DEF Object
<1>10. Good(w) /\ Becomes(c, w)
  <2>1. Good(c) /\ Ordered(c.chunks)
    BY <1>2 DEF c
  <2>2. QED BY <2>1, <1>7, <1>8, <1>9, SameFields
<1>11. w.trim = sink.trim
  BY <1>2, <1>9 DEF c
<1>12. Becomes(w, sink')
  BY <1>3, <1>4, <1>5, <1>10, <1>11, NewDataGood
<1>13. Becomes(sink, w)
  <2>1. Becomes(sink, c)
    BY <1>2 DEF c
  <2>2. QED BY <2>1, <1>10, BecomesTwice
<1>14. QED BY <1>12, <1>13, BecomesTwice

\* gap(), when it does not reach across the end of the space.
LEMMA GapGood ==
  ASSUME IInv, NEW seq \in Seqs, NEW len \in Nat, Fits(Rseq(sink, seq), len), ReportGap(seq, len)
  PROVE  Becomes(sink, sink')
<1>1. Good(sink) /\ sink \in Object
  BY DEF IInv, Good
<1>2. Good(Current) /\ Current.trim = sink.trim /\ Becomes(sink, Current)
  BY <1>1, CurrentGood
<1>3. /\ Rseq(sink, seq) \in Seqs /\ Rseq(sink, seq) + len < SeqBound
      /\ Current.trim + len < SeqBound
  BY <1>1, <1>2, RseqType DEF Fits
<1>4. Fills(Unset, Rseq(sink, seq), Rseq(sink, seq) + len)
  BY DEF Fills, Holds
<1>5. Becomes(Current, NewData(Current, Unset, Rseq(sink, seq), len))
  BY <1>2, <1>3, <1>4, NewDataGood
<1>6. Becomes(Current, sink')
  BY <1>5 DEF ReportGap, Returns
<1>7. QED BY <1>2, <1>6, BecomesTwice

\* connect(): the new unit has seen nothing yet.
LEMMA ConnectGood ==
  ASSUME IInv, NEW unit \in Units, Connect(unit)
  PROVE  Becomes(sink, sink')
<1> DEFINE new == [received |-> <<>>, limit |-> unit[1], ending |-> unit[2], status |-> "parsing"]
           c == Current
           units == Append(c.units, new)
           d == [c EXCEPT !.units = units]
<1>1. Good(c) /\ c \in Object /\ Ordered(c.chunks) /\ InOrder(c) /\ InStep(c) /\ Becomes(sink, c)
  BY CurrentGood DEF IInv, Good
<1>2. sink' = d
  BY DEF Connect, Returns
<1>3. new \in Unit
  BY ConstantsAssumption DEF Unit
<1>4. c.units \in Seq(Unit)
  BY <1>1, ObjectFacts
<1>5. new.received = <<>>
  OBVIOUS
<1> HIDE DEF c, new
<1>6. /\ units \in Seq(Unit) /\ Len(c.units) \in Nat /\ DOMAIN units = 1 .. Len(c.units) + 1
      /\ DOMAIN c.units = 1..Len(c.units) /\ units[Len(c.units) + 1] = new
      /\ \A u \in 1..Len(c.units) : units[u] = c.units[u]
  BY <1>3, <1>4
<1> HIDE DEF units
<1>7. d \in Object
  BY <1>1, <1>6 DEF Object
<1>8. /\ d.cur = c.cur /\ d.last = c.last /\ d.units = units /\ d.filter = c.filter
      /\ d.held = c.held /\ d.thrown = c.thrown /\ d.delivered = c.delivered /\ d.back = c.back
      /\ d.chunks = c.chunks /\ d.undelivered = c.undelivered
  BY <1>1 DEF Object
<1> HIDE DEF d
<1>9. \A u \in DOMAIN units : (u \in DOMAIN c.units /\ units[u] = c.units[u]) \/ units[u].received = <<>>
  BY <1>5, <1>6
<1>10. Ascending(<<>>, c.last) /\ EndOf(<<>>, c.delivered)
  <2>1. c.delivered \in Seq(Byte)
    BY <1>1, ObjectFacts
  <2>2. QED BY <2>1 DEF Ascending, EndOf
<1>11. InOrder(d)
  BY <1>1, <1>8, <1>9, <1>10 DEF InOrder, Undisturbed
<1>12. InStep(d)
  BY <1>1, <1>8, <1>9, <1>10 DEF InStep
<1>13. Good(d)
  BY <1>1, <1>7, <1>8, <1>11, <1>12 DEF Good
<1>14. Becomes(c, d)
  BY <1>8, <1>13 DEF Becomes, Onward, Delivered
<1>15. QED BY <1>1, <1>2, <1>14, BecomesTwice

\* connect_filter(): from then on the units see whole blocks only.
LEMMA ConnectFilterGood ==
  ASSUME IInv, ConnectFilter
  PROVE  Good(sink') /\ (~sink'.filter => Becomes(sink, sink'))
<1> DEFINE c == Current
           d == [c EXCEPT !.filter = TRUE]
<1>1. Good(c) /\ c \in Object /\ Ordered(c.chunks) /\ InStep(c) /\ Becomes(sink, c)
  BY CurrentGood DEF IInv, Good
<1>2. sink' = c \/ sink' = d
  BY DEF ConnectFilter, Returns
<1> HIDE DEF c
<1>3. d \in Object
  BY <1>1 DEF Object
<1>4. /\ d.units = c.units /\ d.filter = TRUE /\ d.thrown = c.thrown /\ d.delivered = c.delivered
      /\ d.chunks = c.chunks
  BY <1>1 DEF Object
<1> HIDE DEF d
<1>5. Good(d)
  BY <1>1, <1>3, <1>4 DEF Good, InOrder, InStep, Undisturbed
<1>6. QED BY <1>1, <1>2, <1>4, <1>5

\* Setting a field that the invariant does not speak about.
LEMMA SettingsGood ==
  ASSUME NEW s, Good(s), NEW enable \in BOOLEAN, NEW seq \in Seqs
  PROVE  Becomes(s, [s EXCEPT !.autoTrim = enable]) /\ Becomes(s, [s EXCEPT !.initial = seq])
<1> DEFINE a == [s EXCEPT !.autoTrim = enable]
           b == [s EXCEPT !.initial = seq]
<1>1. s \in Object /\ Ordered(s.chunks)
  BY DEF Good
<1>2. a \in Object /\ b \in Object
  BY <1>1 DEF Object
<1>3. /\ a.cur = s.cur /\ a.last = s.last /\ a.units = s.units /\ a.filter = s.filter
      /\ a.held = s.held /\ a.thrown = s.thrown /\ a.delivered = s.delivered /\ a.back = s.back
      /\ a.chunks = s.chunks /\ a.undelivered = s.undelivered
  BY <1>1 DEF Object
<1>4. /\ b.cur = s.cur /\ b.last = s.last /\ b.units = s.units /\ b.filter = s.filter
      /\ b.held = s.held /\ b.thrown = s.thrown /\ b.delivered = s.delivered /\ b.back = s.back
      /\ b.chunks = s.chunks /\ b.undelivered = s.undelivered
  BY <1>1 DEF Object
<1> HIDE DEF a, b
<1>5. Becomes(s, a) /\ Becomes(s, b)
  BY <1>1, <1>2, <1>3, <1>4, SameFields
<1>6. QED BY <1>5 DEF a, b

(****************************** The theorems ******************************)

\* What the constants say of the calls' arguments.
LEMMA ArgumentFacts ==
  /\ \A range \in Segments \cup GapRanges : range[1] \in Seqs /\ range[2] \in Nat
  /\ SkipTargets \subseteq Seqs /\ TrimTargets \subseteq Seqs /\ Initials \subseteq Seqs
  /\ AutoTrims \subseteq BOOLEAN /\ Appends \subseteq Nat
<1>1. ASSUME NEW range \in Segments \cup GapRanges
      PROVE  range[1] \in Seqs /\ range[2] \in Nat
  <2>1. range \in (0 .. SeqBound - 1) \X (0 .. SeqBound - 1)
    BY ConstantsAssumption
  <2>2. range[1] \in 0 .. SeqBound - 1 /\ range[2] \in 0 .. SeqBound - 1
    BY <2>1
  <2>3. QED BY <2>2 DEF Seqs
<1>2. QED BY <1>1, ConstantsAssumption DEF Seqs

Steady == ~sink.back => Onward(sink)
\* What every call that does not reach across the end of the space does.
Advances ==
  /\ Good(sink')
  /\ Steady /\ ~sink'.back /\ ~sink'.filter =>
       /\ Onward(sink')
       /\ sink.autoTrim => (sink'.undelivered \ sink.undelivered) \cap Delivered(sink) = {}

\* What the lemmas about the methods say is enough.
LEMMA BecomesAdvances == Becomes(sink, sink') => Advances
<1>1. QED BY DEF Becomes, Advances, Steady

\* The object is good after every call that does not reach across the end.
LEMMA NextAdvances ==
  ASSUME IInv, NothingWraps, Next
  PROVE  Advances
<1>1. Good(sink) /\ Good(Current) /\ sink \in Object /\ Becomes(sink, Current)
  BY CurrentGood DEF IInv, Good
<1>2. ASSUME NEW segment \in Segments, NEW v \in Values, Write(segment[1], segment[2], v)
      PROVE  Advances
  BY <1>2, ArgumentFacts, WriteGood, BecomesAdvances DEF NothingWraps
<1>3. ASSUME NEW len \in Appends, NEW v \in Values, WriteNext(len, v)
      PROVE  Advances
  <2>1. SequenceNumber(sink) \in Seqs
    <3>1. sink.initial \in Seqs /\ sink.cur \in Seqs
      BY <1>1, ObjectFacts
    <3>2. \A p \in Seqs : p \in Int
      BY PositionsWrap
    <3>3. QED BY <3>1, <3>2, PositionsWrap DEF SequenceNumber
  <2>2. QED BY <1>3, <2>1, ArgumentFacts, WriteGood, BecomesAdvances DEF NothingWraps, WriteNext
<1>4. ASSUME NEW range \in GapRanges, ReportGap(range[1], range[2])
      PROVE  Advances
  BY <1>4, ArgumentFacts, GapGood, BecomesAdvances DEF NothingWraps
<1>5. ASSUME NEW seq \in SkipTargets, Skip(seq)
      PROVE  Advances
  <2>1. Rseq(sink, seq) \in Seqs
    BY <1>1, <1>5, ArgumentFacts, RseqType
  <2>2. sink' = SkipTo(Current, Rseq(sink, seq))
    BY <1>5 DEF Skip, Returns
  <2> DEFINE s == Current
  <2>3. /\ Good(s) /\ Becomes(sink, s) /\ s.autoTrim = sink.autoTrim /\ s.back = sink.back
        /\ Delivered(s) = Delivered(sink) /\ s.undelivered = sink.undelivered
    BY <1>1, CurrentGood
  <2> HIDE DEF s
  <2>4. /\ Good(sink')
        /\ ~sink'.back => ~s.back
        /\ ~sink'.back /\ Onward(s) =>
             /\ Onward(sink')
             /\ s.autoTrim => (sink'.undelivered \ s.undelivered) \cap Delivered(s) = {}
    BY <2>1, <2>2, <2>3, SkipToGood DEF s
  <2>5. ASSUME Steady, ~sink'.back
        PROVE  /\ Onward(sink')
               /\ sink.autoTrim => (sink'.undelivered \ sink.undelivered) \cap Delivered(sink) = {}
    <3>1. ~sink.back
      BY <2>3, <2>4, <2>5
    <3>2. Onward(s)
      BY <2>3, <2>5, <3>1 DEF Steady, Becomes
    <3>3. /\ Onward(sink')
          /\ s.autoTrim => (sink'.undelivered \ s.undelivered) \cap Delivered(s) = {}
      BY <2>4, <2>5, <3>2
    <3>4. Delivered(s) = Delivered(sink) /\ s.undelivered = sink.undelivered /\ s.autoTrim = sink.autoTrim
      BY <2>3
    <3>5. QED BY <3>3, <3>4
  <2>6. QED BY <2>4, <2>5 DEF Advances
<1>6. ASSUME NEW seq \in TrimTargets, TrimTo(seq)
      PROVE  Advances
  <2>1. Rseq(sink, seq) \in Seqs
    BY <1>1, <1>6, ArgumentFacts, RseqType
  <2>2. Becomes(Current, sink')
    BY <1>1, <1>6, <2>1, TrimFacts DEF TrimTo, Returns
  <2>3. QED BY <1>1, <2>2, BecomesTwice, BecomesAdvances
<1>7. ASSUME NEW enable \in AutoTrims, SetAutoTrim(enable)
      PROVE  Advances
  <2>1. Becomes(Current, sink')
    BY <1>1, <1>7, ArgumentFacts, PositionsWrap, SettingsGood DEF SetAutoTrim, Returns
  <2>2. QED BY <1>1, <2>1, BecomesTwice, BecomesAdvances
<1>8. CASE sink' = Fresh
  BY <1>8, FreshGood DEF Advances
<1>9. ASSUME NEW seq \in Initials, SetInitialSequenceNumber(seq)
      PROVE  Advances
  <2>1. CASE HaveInput(sink)
    BY <1>8, <1>9, <2>1 DEF SetInitialSequenceNumber, Returns
  <2>2. CASE ~HaveInput(sink)
    <3>1. Becomes(Current, sink')
      BY <1>1, <1>9, <2>2, ArgumentFacts, SettingsGood DEF SetInitialSequenceNumber, Returns
    <3>2. QED BY <1>1, <3>1, BecomesTwice, BecomesAdvances
  <2>3. QED BY <2>1, <2>2
<1>10. ASSUME NEW unit \in Units, Connect(unit)
       PROVE  Advances
  BY <1>10, ConnectGood, BecomesAdvances
<1>11. CASE ConnectFilter
  BY <1>11, ConnectFilterGood, BecomesAdvances DEF Advances
<1>12. CASE Close
  BY <1>8, <1>12 DEF Close, Returns
<1>13. QED BY <1>2, <1>3, <1>4, <1>5, <1>6, <1>7, <1>9, <1>10, <1>11, <1>12 DEF Next

\* No method leaves the call counter beyond its bound.
LEMMA NextCounts ==
  ASSUME calls \in 0..MaxCalls, Next
  PROVE  calls' \in 0..MaxCalls
<1>1. Ready /\ calls' = calls + 1
  BY DEF Next, Write, WriteNext, ReportGap, Skip, TrimTo, SetAutoTrim, SetInitialSequenceNumber,
         Connect, ConnectFilter, Close, Returns
<1>2. QED BY <1>1, ConstantsAssumption DEF Ready

\* While no call reaches across the end of the sequence space, the object
\* stays as the methods need it.
LEMMA StaysGood == Spec /\ []NothingWraps => []IInv
<1>1. Init => IInv
  BY FreshGood, ConstantsAssumption DEF Init, IInv
<1>2. IInv /\ NothingWraps /\ [Next]_vars => IInv'
  <2>1. CASE Next
    BY <2>1, NextAdvances, NextCounts DEF IInv, Advances
  <2>2. CASE UNCHANGED vars
    BY <2>2 DEF IInv, vars, Good, InOrder, InStep, Undisturbed
  <2>3. QED BY <2>1, <2>2
<1>3. QED BY <1>1, <1>2, PTL DEF Spec

\* A good object has the type that is said, and its buffer is ordered.
LEMMA GoodIsWellFormed == IInv => WellFormed
<1> SUFFICES ASSUME IInv PROVE WellFormed
  OBVIOUS
<1>1. sink \in Object /\ Ordered(sink.chunks) /\ calls \in 0..MaxCalls
  BY DEF IInv, Good
<1>2. \A i \in DOMAIN sink.chunks :
        /\ sink.chunks[i] \in Piece
        /\ sink.chunks[i].rseq \in Seqs /\ sink.chunks[i].rupper \in Seqs
        /\ sink.chunks[i].rseq < sink.chunks[i].rupper
        /\ sink.chunks[i].data = Unset \/ sink.chunks[i].data \in Seq(Byte)
  <2>1. \A i \in DOMAIN sink.chunks : sink.chunks[i] \in Piece
    BY <1>1, ObjectFacts
  <2>2. QED BY <2>1, PieceFacts
<1>3. TypeOK
  <2>1. \A i \in DOMAIN sink.chunks :
          /\ sink.chunks[i].data = Unset \/ sink.chunks[i].data \in Seq(Byte)
          /\ {sink.chunks[i].rseq, sink.chunks[i].rupper} \subseteq Seqs
    BY <1>2
  <2>2. {sink.initial, sink.cur, sink.last, sink.trim} \subseteq Seqs
    BY <1>1, ObjectFacts
  <2>3. sink.written \cup sink.undelivered \cup sink.missing \subseteq Seqs
    BY <1>1, ObjectFacts
  <2>4. /\ sink.autoTrim \in BOOLEAN /\ sink.filter \in BOOLEAN
        /\ sink.thrown \in BOOLEAN /\ sink.stuck \in BOOLEAN
    BY <1>1, ObjectFacts
  <2>5. /\ sink.size \in Nat /\ sink.units \in Seq(Unit)
        /\ sink.held \in Seq(Byte) /\ sink.delivered \in Seq(Byte) /\ sink.outcome \in Outcomes
    BY <1>1, ObjectFacts
  <2>6. QED BY <1>1, <2>1, <2>2, <2>3, <2>4, <2>5 DEF TypeOK, Outcomes
<1>4. ChunksOrdered
  BY <1>1, <1>2 DEF ChunksOrdered, Ordered
<1>5. QED BY <1>3, <1>4 DEF WellFormed

\* The end of a sequence, read backwards, is the beginning.
LEMMA EndIsSuffix ==
  ASSUME NEW r \in Seq(Byte), NEW q \in Seq(Byte), EndOf(r, q)
  PROVE  IsSuffix(r, q)
<1> DEFINE m == Len(r)
           n == Len(q)
           back == Reverse(r)
           whole == Reverse(q)
<1>1. m \in Nat /\ n \in Nat /\ m <= n /\ \A i \in 1..m : r[i] = q[i + (n - m)]
  BY DEF EndOf
<1>2. back = [i \in 1..m |-> r[(m - i) + 1]] /\ whole = [i \in 1..n |-> q[(n - i) + 1]]
  BY DEF Reverse
<1>3. /\ back \in Seq(Byte) /\ whole \in Seq(Byte) /\ Len(back) = m /\ Len(whole) = n
  <2>1. \A i \in 1..m : (m - i) + 1 \in 1..m
    BY <1>1
  <2>2. \A i \in 1..n : (n - i) + 1 \in 1..n
    BY <1>1
  <2>3. (\A i \in 1..m : r[(m - i) + 1] \in Byte) /\ \A i \in 1..n : q[(n - i) + 1] \in Byte
    BY <2>1, <2>2
  <2> HIDE DEF back, whole, m, n
  <2>4. QED BY <1>1, <1>2, <2>3
<1> HIDE DEF back, whole
<1>4. \A i \in 1..m : back[i] = whole[i]
  <2>1. ASSUME NEW i \in 1..m
        PROVE  back[i] = whole[i]
    <3>1. (m - i) + 1 \in 1..m /\ ((m - i) + 1) + (n - m) = (n - i) + 1 /\ i \in 1..n
      BY <1>1
    <3>2. back[i] = r[(m - i) + 1] /\ whole[i] = q[(n - i) + 1]
      BY <1>2, <3>1
    <3>3. r[(m - i) + 1] = q[((m - i) + 1) + (n - m)]
      BY <1>1, <3>1
    <3>4. QED BY <3>1, <3>2, <3>3
  <2>2. QED BY <2>1
<1> HIDE DEF m, n
<1>5. SubSeq(back, 1, m) = SubSeq(whole, 1, m)
  BY <1>1, <1>3, <1>4
<1>6. QED BY <1>1, <1>3, <1>5 DEF IsSuffix, IsPrefix, back, whole

\* The units of a good object agree on the stream, if they see all of it.
LEMMA GoodUnitsAgree == IInv /\ ~sink.filter => UnitsAgree
<1> SUFFICES ASSUME IInv, ~sink.filter PROVE UnitsAgree
  OBVIOUS
<1>1. sink \in Object /\ InOrder(sink) /\ InStep(sink)
  BY DEF IInv, Good
<1>2. UnitsSeeOrder
  BY <1>1 DEF UnitsSeeOrder, InOrder, Undisturbed, Ascending
<1>3. UnitsInStep
  BY <1>1, ObjectFacts, UnitsFacts, EndIsSuffix DEF UnitsInStep, InStep
<1>4. QED BY <1>2, <1>3 DEF UnitsAgree

\* The buffer stays an ordered list of chunks, none empty and no two
\* overlapping, whatever is called and in whatever order: _addAndCheck() and
\* _trim() rely on it, and each call has to leave it so for the next one.
THEOREM BufferStaysOrdered == Spec /\ []NothingWraps => []WellFormed
<1>1. QED BY StaysGood, GoodIsWellFormed, PTL

\* Every unit sees the stream in order and no byte twice, until a completed
\* unit makes a delivery fail half way or a skip goes back, and those that are
\* still parsing have all seen the end of what was delivered; no filter stands
\* between the sink and its units.
THEOREM UnitsStayInStep == Spec /\ []NothingWraps /\ [](~sink.filter) => []UnitsAgree
<1>1. QED BY StaysGood, GoodUnitsAgree, PTL

\* Without filters, both positions stay beyond what has been delivered.
LEMMA StaysSteady == Spec /\ []NothingWraps /\ [](~sink.filter) => []Steady
<1>1. Init => Steady
  BY FreshGood DEF Init, Steady
<1>2. IInv /\ NothingWraps /\ Steady /\ (~sink.filter)' /\ [Next]_vars => Steady'
  <2>1. CASE Next
    BY <2>1, NextAdvances DEF Advances, Steady
  <2>2. CASE UNCHANGED vars
    BY <2>2 DEF vars, Steady, Onward, Delivered, Positions
  <2>3. QED BY <2>1, <2>2
<1>3. QED BY <1>1, <1>2, StaysGood, PTL DEF Spec

\* With auto-trimming, what the units have already been given is never handed
\* to %undelivered, however segments, gaps, skips and trims follow each other,
\* as long as no skip goes back and no filter keeps data to itself.
THEOREM UndeliveredStaysNew ==
  Spec /\ []NothingWraps /\ [](~sink.filter) => UndeliveredIsNew
<1>1. IInv /\ NothingWraps /\ Steady /\ (~sink.filter)' /\ [Next]_vars =>
        [ sink.autoTrim /\ ~sink'.back =>
            (sink'.undelivered \ sink.undelivered) \cap Delivered(sink) = {} ]_vars
  BY NextAdvances DEF Advances
<1>2. QED BY <1>1, StaysGood, StaysSteady, PTL DEF Spec, UndeliveredIsNew

(************************** What the buffer holds *************************)

\* Chunks whose data is all that their bounds say.
FullPiece == {c \in Piece : c.data # Unset /\ Len(c.data) = c.rupper - c.rseq}
Covers(c, p) == c.rseq <= p /\ p < c.rupper
Spans(chunks, p) == \E i \in DOMAIN chunks : Covers(chunks[i], p)
\* The bytes that a buffer holds.
Store(chunks) == UNION {Elements(chunks[i].data) : i \in DOMAIN chunks}

\* The bytes of a full chunk are those of the positions that it covers.
LEMMA FullFacts ==
  ASSUME NEW c \in FullPiece
  PROVE  /\ c \in Piece /\ c.data # Unset /\ c.data \in Seq(Byte) /\ Len(c.data) = c.rupper - c.rseq
         /\ c.rseq \in Nat /\ c.rupper \in Nat /\ c.rseq < c.rupper /\ c.rseq \in Seqs /\ c.rupper \in Seqs
         /\ Fills(c.data, c.rseq, c.rupper)
         /\ \A b \in Elements(c.data) : /\ b \in Byte /\ b.pos \in Nat /\ Covers(c, b.pos)
                                        /\ b = c.data[(b.pos - c.rseq) + 1]
         /\ \A p \in Nat : Covers(c, p) => \E b \in Elements(c.data) : b.pos = p
<1>1. /\ c \in Piece /\ c.data # Unset /\ c.data \in Seq(Byte) /\ Len(c.data) = c.rupper - c.rseq
      /\ c.rseq \in Nat /\ c.rupper \in Nat /\ c.rseq < c.rupper /\ c.rseq \in Seqs /\ c.rupper \in Seqs
      /\ \A k \in DOMAIN c.data : c.data[k].pos = c.rseq + (k - 1)
  BY PieceFacts DEF FullPiece
<1>2. Fills(c.data, c.rseq, c.rupper)
  BY <1>1 DEF FullPiece, Piece, Fills
<1>3. DOMAIN c.data = 1 .. c.rupper - c.rseq
  BY <1>1
<1>4. ASSUME NEW b \in Elements(c.data)
      PROVE  b \in Byte /\ b.pos \in Nat /\ Covers(c, b.pos) /\ b = c.data[(b.pos - c.rseq) + 1]
  <2>1. PICK k \in DOMAIN c.data : b = c.data[k]
    BY DEF Elements
  <2>2. b.pos = c.rseq + (k - 1) /\ k \in 1 .. c.rupper - c.rseq /\ b \in Byte
    BY <1>1, <1>3, <2>1
  <2>3. b.pos \in Nat /\ Covers(c, b.pos) /\ (b.pos - c.rseq) + 1 = k
    BY <1>1, <2>2 DEF Covers
  <2>4. QED BY <2>1, <2>2, <2>3
<1>5. ASSUME NEW p \in Nat, Covers(c, p)
      PROVE  \E b \in Elements(c.data) : b.pos = p
  <2>1. (p - c.rseq) + 1 \in DOMAIN c.data
    BY <1>1, <1>3, <1>5 DEF Covers
  <2>2. c.data[(p - c.rseq) + 1].pos = c.rseq + (((p - c.rseq) + 1) - 1)
    BY <1>1, <2>1
  <2>3. c.data[(p - c.rseq) + 1].pos = p
    BY <1>1, <2>2
  <2>4. QED BY <2>1, <2>3 DEF Elements
<1>6. QED BY <1>1, <1>2, <1>4, <1>5

\* Full chunks are chunks.
LEMMA FullPieces ==
  ASSUME NEW chunks \in Seq(FullPiece)
  PROVE  /\ chunks \in Seq(Piece) /\ \A i \in DOMAIN chunks : chunks[i] \in FullPiece
         /\ DOMAIN chunks = 1..Len(chunks) /\ Len(chunks) \in Nat
<1>1. /\ \A i \in DOMAIN chunks : chunks[i] \in FullPiece
      /\ DOMAIN chunks = 1..Len(chunks) /\ Len(chunks) \in Nat
  OBVIOUS
<1>2. FullPiece \subseteq Piece
  BY DEF FullPiece
<1>3. QED BY <1>1, <1>2

\* In an ordered buffer, no two chunks cover the same position.
LEMMA CoverOnce ==
  ASSUME NEW chunks \in Seq(FullPiece), Ordered(chunks), NEW i \in DOMAIN chunks, NEW j \in DOMAIN chunks,
         NEW p \in Nat, Covers(chunks[i], p), Covers(chunks[j], p)
  PROVE  i = j
<1>1. chunks[i] \in FullPiece /\ chunks[j] \in FullPiece /\ i \in Nat /\ j \in Nat
  BY FullPieces
<1>2. /\ chunks[i].rseq \in Nat /\ chunks[i].rupper \in Nat
      /\ chunks[j].rseq \in Nat /\ chunks[j].rupper \in Nat
  BY <1>1, FullFacts
<1>3. CASE i < j
  <2>1. chunks[i].rupper <= chunks[j].rseq
    BY <1>3 DEF Ordered
  <2>2. QED BY <1>2, <2>1 DEF Covers
<1>4. CASE j < i
  <2>1. chunks[j].rupper <= chunks[i].rseq
    BY <1>4 DEF Ordered
  <2>2. QED BY <1>2, <2>1 DEF Covers
<1>5. QED BY <1>1, <1>3, <1>4

\* A buffer holds one byte for each position that its chunks cover.
LEMMA StoreFacts ==
  ASSUME NEW chunks \in Seq(FullPiece), Ordered(chunks)
  PROVE  /\ \A b \in Store(chunks) : b \in Byte /\ b.pos \in Nat /\ Spans(chunks, b.pos)
         /\ \A p \in Nat : Spans(chunks, p) => \E b \in Store(chunks) : b.pos = p
         /\ \A b, d \in Store(chunks) : b.pos = d.pos => b = d
         /\ \A i \in DOMAIN chunks : Elements(chunks[i].data) \subseteq Store(chunks)
<1>1. \A i \in DOMAIN chunks : chunks[i] \in FullPiece
  BY FullPieces
<1>2. \A i \in DOMAIN chunks : Elements(chunks[i].data) \subseteq Store(chunks)
  BY DEF Store
<1>3. \A b \in Store(chunks) : \E i \in DOMAIN chunks : b \in Elements(chunks[i].data)
  BY DEF Store
<1>4. ASSUME NEW b \in Store(chunks)
      PROVE  b \in Byte /\ b.pos \in Nat /\ Spans(chunks, b.pos)
  <2>1. PICK i \in DOMAIN chunks : b \in Elements(chunks[i].data)
    BY <1>3
  <2>2. b \in Byte /\ b.pos \in Nat /\ Covers(chunks[i], b.pos)
    BY <1>1, <2>1, FullFacts
  <2>3. QED BY <2>2 DEF Spans
<1>5. ASSUME NEW p \in Nat, Spans(chunks, p)
      PROVE  \E b \in Store(chunks) : b.pos = p
  <2>1. PICK i \in DOMAIN chunks : Covers(chunks[i], p)
    BY <1>5 DEF Spans
  <2>2. \E b \in Elements(chunks[i].data) : b.pos = p
    BY <1>1, <2>1, FullFacts
  <2>3. QED BY <2>2, <1>2
<1>6. ASSUME NEW b \in Store(chunks), NEW d \in Store(chunks), b.pos = d.pos
      PROVE  b = d
  <2>1. PICK i \in DOMAIN chunks : b \in Elements(chunks[i].data)
    BY <1>3
  <2>2. PICK j \in DOMAIN chunks : d \in Elements(chunks[j].data)
    BY <1>3
  <2>3. /\ b.pos \in Nat /\ Covers(chunks[i], b.pos) /\ b = chunks[i].data[(b.pos - chunks[i].rseq) + 1]
        /\ Covers(chunks[j], d.pos) /\ d = chunks[j].data[(d.pos - chunks[j].rseq) + 1]
    BY <1>1, <2>1, <2>2, FullFacts
  <2>4. i = j
    BY <1>6, <2>3, CoverOnce
  <2>5. QED BY <1>6, <2>3, <2>4
<1>7. QED BY <1>2, <1>4, <1>5, <1>6

\* What waits in a buffer of full chunks is what they cover.
LEMMA WaitingFacts ==
  ASSUME NEW s, s.chunks \in Seq(FullPiece), Ordered(s.chunks)
  PROVE  /\ BufferedData(s) = DOMAIN s.chunks
         /\ \A p : p \in Waiting(s) <=> \E b \in Store(s.chunks) : b.pos = p
         /\ \A p : p \in Waiting(s) <=> p \in Nat /\ Spans(s.chunks, p)
<1>1. BufferedData(s) = DOMAIN s.chunks
  BY FullPieces, FullFacts DEF BufferedData
<1>2. ASSUME NEW p
      PROVE  p \in Waiting(s) <=> \E b \in Store(s.chunks) : b.pos = p
  BY <1>1 DEF Waiting, Store, Positions, Elements
<1>3. ASSUME NEW p
      PROVE  p \in Waiting(s) <=> p \in Nat /\ Spans(s.chunks, p)
  BY <1>2, StoreFacts
<1>4. QED BY <1>1, <1>2, <1>3

(*************************** What is inserted *****************************)

\* Where a chunk may begin or end once the block has been inserted.
Bounds(chunks, block) ==
  {block.rseq, block.rupper} \cup {chunks[j].rseq : j \in DOMAIN chunks} \cup {chunks[j].rupper : j \in DOMAIN chunks}

\* What the list has of the first n chunks, and of the block.
Old(c, chunks, n) == \E j \in 1..n : c = chunks[j]
New(c, chunks, block) ==
  /\ c \in FullPiece /\ block.rseq <= c.rseq /\ c.rupper <= block.rupper
  /\ c.rseq \in Bounds(chunks, block) /\ c.rupper \in Bounds(chunks, block)
  /\ Elements(c.data) \subseteq Elements(block.data)

\* A list made of the first n chunks and pieces of the block.
Mixes(list, chunks, block, n) ==
  /\ list \in Seq(FullPiece)
  /\ \A i \in DOMAIN list : Old(list[i], chunks, n) \/ New(list[i], chunks, block)
  /\ \A j \in 1..n : \E i \in DOMAIN list : list[i] = chunks[j]

\* The first piece of the block in it is at index first; 0 stands for none.
Leads(list, first, chunks, block, n) ==
  IF first = 0 THEN \A i \in DOMAIN list : Old(list[i], chunks, n)
  ELSE /\ first \in DOMAIN list /\ New(list[first], chunks, block)
       /\ \A i \in DOMAIN list : i < first => Old(list[i], chunks, n)
       /\ \A j \in 1..n : \E i \in DOMAIN list : i # first /\ list[i] = chunks[j]

\* The elements of a list with one more at its end.
LEMMA AppendFacts ==
  ASSUME NEW X, NEW list \in Seq(X), NEW c \in X
  PROVE  /\ Append(list, c) \in Seq(X) /\ Len(list) \in Nat /\ DOMAIN list = 1..Len(list)
         /\ DOMAIN Append(list, c) = 1 .. Len(list) + 1 /\ Len(Append(list, c)) = Len(list) + 1
         /\ Append(list, c)[Len(list) + 1] = c
         /\ \A i \in 1..Len(list) : Append(list, c)[i] = list[i]
<1>1. QED OBVIOUS

\* One more chunk covers its positions in addition.
LEMMA AppendSpans ==
  ASSUME NEW list \in Seq(FullPiece), NEW c \in FullPiece, NEW p
  PROVE  Spans(Append(list, c), p) <=> Spans(list, p) \/ Covers(c, p)
<1> DEFINE more == Append(list, c)
<1>1. /\ Len(list) \in Nat /\ DOMAIN list = 1..Len(list) /\ DOMAIN more = 1 .. Len(list) + 1
      /\ more[Len(list) + 1] = c /\ \A i \in 1..Len(list) : more[i] = list[i]
  BY AppendFacts
<1> HIDE DEF more
<1>2. \A i \in DOMAIN more : i \in DOMAIN list \/ i = Len(list) + 1
  BY <1>1
<1>3. \A i \in DOMAIN list : i \in DOMAIN more
  BY <1>1
<1>4. Len(list) + 1 \in DOMAIN more
  BY <1>1
<1>5. Spans(more, p) => Spans(list, p) \/ Covers(c, p)
  BY <1>1, <1>2 DEF Spans
<1>6. Spans(list, p) \/ Covers(c, p) => Spans(more, p)
  BY <1>1, <1>3, <1>4 DEF Spans
<1>7. QED BY <1>5, <1>6 DEF more

\* The next chunk follows in the list.
LEMMA MixesOld ==
  ASSUME NEW list, NEW first \in Nat, NEW chunks \in Seq(FullPiece), NEW block, NEW n \in Nat, n + 1 \in DOMAIN chunks,
         Mixes(list, chunks, block, n), Leads(list, first, chunks, block, n)
  PROVE  LET more == Append(list, chunks[n + 1]) IN
         Mixes(more, chunks, block, n + 1) /\ Leads(more, first, chunks, block, n + 1)
<1> DEFINE c == chunks[n + 1]
           more == Append(list, c)
<1>1. list \in Seq(FullPiece) /\ c \in FullPiece
  BY FullPieces DEF Mixes
<1> HIDE DEF c
<1>2. /\ more \in Seq(FullPiece) /\ Len(list) \in Nat /\ DOMAIN list = 1..Len(list) /\ DOMAIN more = 1 .. Len(list) + 1
      /\ more[Len(list) + 1] = c /\ \A i \in 1..Len(list) : more[i] = list[i]
  BY <1>1, AppendFacts
<1> HIDE DEF more
<1>3. \A d : Old(d, chunks, n) => Old(d, chunks, n + 1)
  BY DEF Old
<1>4. Old(c, chunks, n + 1)
  BY DEF Old, c
<1>5. \A i \in DOMAIN more : i \in DOMAIN list \/ i = Len(list) + 1
  BY <1>2
<1>6. \A i \in DOMAIN list : i \in DOMAIN more /\ more[i] = list[i]
  BY <1>2
<1>7. \A i \in DOMAIN more : Old(more[i], chunks, n + 1) \/ New(more[i], chunks, block)
  BY <1>2, <1>3, <1>4, <1>5 DEF Mixes
<1>8. \A j \in 1 .. n + 1 : \E i \in DOMAIN more : more[i] = chunks[j]
  <2>1. \A j \in 1..n : \E i \in DOMAIN more : more[i] = chunks[j]
    BY <1>6 DEF Mixes
  <2>2. Len(list) + 1 \in DOMAIN more /\ more[Len(list) + 1] = chunks[n + 1]
    BY <1>2 DEF c
  <2>3. \A j \in 1 .. n + 1 : j \in 1..n \/ j = n + 1
    OBVIOUS
  <2>4. QED BY <2>1, <2>2, <2>3
<1>9. Leads(more, first, chunks, block, n + 1)
  <2>1. CASE first = 0
    BY <2>1, <1>2, <1>3, <1>4, <1>5 DEF Leads
  <2>2. CASE first # 0
    <3>1. first \in DOMAIN more /\ New(more[first], chunks, block)
      BY <2>2, <1>6 DEF Leads
    <3>2. \A i \in DOMAIN more : i < first => Old(more[i], chunks, n + 1)
      <4>1. \A i \in DOMAIN more : i < first => i \in DOMAIN list
        BY <2>2, <1>2 DEF Leads
      <4>2. QED BY <2>2, <4>1, <1>2, <1>3 DEF Leads
    <3>3. \A j \in 1 .. n + 1 : \E i \in DOMAIN more : i # first /\ more[i] = chunks[j]
      <4>1. \A j \in 1..n : \E i \in DOMAIN more : i # first /\ more[i] = chunks[j]
        BY <2>2, <1>6 DEF Leads
      <4>2. Len(list) + 1 \in DOMAIN more /\ more[Len(list) + 1] = chunks[n + 1] /\ Len(list) + 1 # first
        BY <2>2, <1>2 DEF c, Leads
      <4>3. \A j \in 1 .. n + 1 : j \in 1..n \/ j = n + 1
        OBVIOUS
      <4>4. QED BY <4>1, <4>2, <4>3
    <3>4. QED BY <2>2, <3>1, <3>2, <3>3 DEF Leads
  <2>3. QED BY <2>1, <2>2
<1>10. QED BY <1>2, <1>7, <1>8, <1>9 DEF Mixes, more, c

\* A piece of the block follows in the list.
LEMMA MixesNew ==
  ASSUME NEW list, NEW first \in Nat, NEW chunks \in Seq(FullPiece), NEW block, NEW n \in Nat,
         Mixes(list, chunks, block, n), Leads(list, first, chunks, block, n),
         NEW c, New(c, chunks, block)
  PROVE  LET more == Append(list, c) IN
         /\ Mixes(more, chunks, block, n)
         /\ Leads(more, IF first = 0 THEN Len(list) + 1 ELSE first, chunks, block, n)
<1> DEFINE more == Append(list, c)
<1>1. list \in Seq(FullPiece) /\ c \in FullPiece
  BY DEF Mixes, New
<1>2. /\ more \in Seq(FullPiece) /\ Len(list) \in Nat /\ DOMAIN list = 1..Len(list) /\ DOMAIN more = 1 .. Len(list) + 1
      /\ more[Len(list) + 1] = c /\ \A i \in 1..Len(list) : more[i] = list[i]
  BY <1>1, AppendFacts
<1> HIDE DEF more
<1>5. \A i \in DOMAIN more : i \in DOMAIN list \/ i = Len(list) + 1
  BY <1>2
<1>6. \A i \in DOMAIN list : i \in DOMAIN more /\ more[i] = list[i]
  BY <1>2
<1>7. \A i \in DOMAIN more : Old(more[i], chunks, n) \/ New(more[i], chunks, block)
  BY <1>2, <1>5 DEF Mixes
<1>8. \A j \in 1..n : \E i \in DOMAIN more : more[i] = chunks[j]
  BY <1>6 DEF Mixes
<1>9. CASE first = 0
  <2>1. Len(list) + 1 \in DOMAIN more /\ New(more[Len(list) + 1], chunks, block) /\ Len(list) + 1 # 0
    BY <1>2
  <2>2. \A i \in DOMAIN more : i < Len(list) + 1 => i \in DOMAIN list
    BY <1>2
  <2>3. \A i \in DOMAIN more : i < Len(list) + 1 => Old(more[i], chunks, n)
    BY <2>2, <1>6, <1>9 DEF Leads
  <2>6. \A j \in 1..n : \E i \in DOMAIN more : i # Len(list) + 1 /\ more[i] = chunks[j]
    <3>1. \A i \in DOMAIN list : i # Len(list) + 1
      BY <1>2
    <3>2. QED BY <3>1, <1>6 DEF Mixes
  <2>4. Leads(more, Len(list) + 1, chunks, block, n)
    BY <2>1, <2>3, <2>6 DEF Leads
  <2>5. QED BY <2>4, <1>2, <1>7, <1>8, <1>9 DEF Mixes, more
<1>10. CASE first # 0
  <2>1. first \in DOMAIN more /\ New(more[first], chunks, block)
    BY <1>6, <1>10 DEF Leads
  <2>2. \A i \in DOMAIN more : i < first => i \in DOMAIN list
    BY <1>2, <1>10 DEF Leads
  <2>3. \A i \in DOMAIN more : i < first => Old(more[i], chunks, n)
    BY <2>2, <1>6, <1>10 DEF Leads
  <2>6. \A j \in 1..n : \E i \in DOMAIN more : i # first /\ more[i] = chunks[j]
    BY <1>6, <1>10 DEF Leads
  <2>4. Leads(more, first, chunks, block, n)
    BY <2>1, <2>3, <2>6, <1>10 DEF Leads
  <2>5. QED BY <2>4, <1>2, <1>7, <1>8, <1>10 DEF Mixes, more
<1>11. QED BY <1>9, <1>10

\* While a block with data is inserted behind the first n chunks: each of its
\* positions is in the list or in what is left.
Partly(a, chunks, block, n) ==
  /\ Inserting(a, block.rupper) /\ a.data # Unset /\ ~a.dangling
  /\ Mixes(a.list, chunks, block, n) /\ Leads(a.list, a.first, chunks, block, n)
  /\ \A p \in Nat : Covers(block, p) => (~a.placed /\ a.rseq <= p) \/ Spans(a.list, p)
  /\ ~a.placed => /\ block.rseq <= a.rseq /\ a.rseq \in Bounds(chunks, block)
                  /\ Elements(a.data) \subseteq Elements(block.data)
  /\ a.met \in 0..Len(a.list)
  /\ a.placed /\ a.first = 0 => a.met # 0

\* A part of the block is a piece of it.
LEMMA PartIsNew ==
  ASSUME NEW chunks, NEW block \in FullPiece, NEW data, NEW from \in Seqs, NEW upto \in Seqs,
         data # Unset, from < upto, Fills(data, from, upto), block.rseq <= from, upto <= block.rupper,
         from \in Bounds(chunks, block), upto \in Bounds(chunks, block), Elements(data) \subseteq Elements(block.data)
  PROVE  New(Chunk(data, from, upto), chunks, block) /\ Chunk(data, from, upto) \in FullPiece
<1> DEFINE c == Chunk(data, from, upto)
<1>1. data \in Seq(Byte) /\ Holds(data, from, upto) /\ Len(data) = upto - from
  BY DEF Fills, Holds
<1>2. c \in Piece /\ c.rseq = from /\ c.rupper = upto /\ c.data = data
  BY <1>1, ChunkIsPiece DEF Chunk
<1> HIDE DEF c
<1>3. c \in FullPiece
  BY <1>1, <1>2 DEF FullPiece
<1>4. QED BY <1>2, <1>3 DEF New, c

\* Both parts of data that is cut have bytes of it only.
LEMMA CutElements ==
  ASSUME NEW data \in Seq(Byte), NEW n \in Nat, n <= Len(data)
  PROVE  /\ Elements(SubSeq(data, 1, n)) \subseteq Elements(data)
         /\ Elements(Drop(data, n)) \subseteq Elements(data)
<1> DEFINE head == SubSeq(data, 1, n)
           tail == Drop(data, n)
<1>0. DOMAIN data = 1..Len(data) /\ Len(data) \in Nat
  OBVIOUS
<1>1. head \in Seq(Byte) /\ Len(head) = n /\ \A i \in 1..n : head[i] = data[i]
  BY TakeFacts
<1>2. tail \in Seq(Byte) /\ Len(tail) = Len(data) - n /\ \A i \in 1 .. Len(data) - n : tail[i] = data[i + n]
  BY DropFacts
<1> HIDE DEF head, tail
<1>3. DOMAIN head = 1..n /\ DOMAIN tail = 1 .. Len(data) - n
  BY <1>1, <1>2
<1>4. \A i \in DOMAIN head : head[i] = data[i] /\ i \in DOMAIN data
  BY <1>0, <1>1, <1>3
<1>5. \A i \in DOMAIN tail : tail[i] = data[i + n] /\ i + n \in DOMAIN data
  BY <1>0, <1>2, <1>3
<1>6. Elements(head) \subseteq Elements(data)
  BY <1>4 DEF Elements
<1>7. Elements(tail) \subseteq Elements(data)
  BY <1>5 DEF Elements
<1>8. QED BY <1>6, <1>7 DEF head, tail

\* The fields after an insertion.
LEMMA InsertFields ==
  ASSUME NEW a \in Insertion, NEW upto
  PROVE  LET i == Insert(a, upto) IN
         /\ i.list = Append(a.list, Chunk(a.data, a.rseq, upto)) /\ i.placed = TRUE
         /\ i.first = (IF a.first = 0 THEN Len(a.list) + 1 ELSE a.first)
         /\ i.met = a.met /\ i.dangling = a.dangling /\ i.data = a.data /\ i.rseq = a.rseq
<1>1. QED BY DEF Insert, Insertion

\* What is left of the block is put into the list.
LEMMA InsertFull ==
  ASSUME NEW chunks \in Seq(FullPiece), NEW block \in FullPiece, NEW n \in Nat, NEW a,
         Partly(a, chunks, block, n), ~a.placed
  PROVE  LET i == Insert(a, block.rupper) IN Partly(i, chunks, block, n) /\ i.placed
<1> DEFINE c == Chunk(a.data, a.rseq, block.rupper)
           i == Insert(a, block.rupper)
<1>1. /\ a \in Insertion /\ Ordered(a.list) /\ a.rseq < block.rupper /\ Fills(a.data, a.rseq, block.rupper)
      /\ a.list \in Seq(FullPiece) /\ a.rseq \in Nat /\ a.rseq \in Seqs /\ a.first \in Nat /\ Len(a.list) \in Nat
  BY InsertionFacts DEF Partly, Inserting, Mixes
<1>2. block.rupper \in Seqs /\ block.rupper \in Nat /\ block.rupper \in Bounds(chunks, block)
  BY FullFacts DEF Bounds
<1>3. New(c, chunks, block) /\ c \in FullPiece /\ c.rseq = a.rseq /\ c.rupper = block.rupper
  <2>1. /\ a.data # Unset /\ block.rseq <= a.rseq /\ block.rupper <= block.rupper
        /\ a.rseq \in Bounds(chunks, block) /\ Elements(a.data) \subseteq Elements(block.data)
    BY <1>2 DEF Partly
  <2>2. a.rseq \in Seqs /\ a.rseq < block.rupper /\ Fills(a.data, a.rseq, block.rupper)
    BY <1>1
  <2>3. block.rupper \in Seqs /\ block.rupper \in Bounds(chunks, block)
    BY <1>2
  <2>4. New(c, chunks, block) /\ c \in FullPiece
    BY <2>1, <2>2, <2>3, PartIsNew, Zenon
  <2>5. QED BY <2>4 DEF Chunk
<1> HIDE DEF c
<1>4. /\ i.list = Append(a.list, c) /\ i.placed = TRUE
      /\ i.first = (IF a.first = 0 THEN Len(a.list) + 1 ELSE a.first)
      /\ i.met = a.met /\ i.dangling = a.dangling /\ i.data = a.data
  BY <1>1, InsertFields DEF c
<1>5. Inserting(i, block.rupper)
  BY <1>2, <1>4, InsertFacts DEF Inserting, Partly
<1> HIDE DEF i
<1>6. Mixes(i.list, chunks, block, n) /\ Leads(i.list, i.first, chunks, block, n)
  BY <1>1, <1>3, <1>4, MixesNew DEF Partly
<1>7. ASSUME NEW p \in Nat, Covers(block, p)
      PROVE  Spans(i.list, p)
  <2>1. a.rseq <= p => Covers(c, p)
    BY <1>3, <1>7 DEF Covers
  <2>2. QED BY <2>1, <1>1, <1>3, <1>4, <1>7, AppendSpans DEF Partly
<1>8. i.met \in 0..Len(i.list)
  <2>1. Len(i.list) = Len(a.list) + 1
    BY <1>1, <1>3, <1>4, AppendFacts
  <2>2. QED BY <2>1, <1>1, <1>4 DEF Partly
<1>9. i.first # 0
  BY <1>1, <1>4
<1>10. QED BY <1>4, <1>5, <1>6, <1>7, <1>8, <1>9 DEF Partly, i

\* The part of the block before the next chunk is put into the list.
LEMMA InsertPrefixFull ==
  ASSUME NEW chunks \in Seq(FullPiece), NEW block \in FullPiece, NEW n \in Nat, NEW a,
         Partly(a, chunks, block, n), ~a.placed, NEW c \in FullPiece, c.rseq \in Bounds(chunks, block),
         EndsBy(a.list, c.rseq), c.rseq < block.rupper, a.rseq < c.rupper
  PROVE  Partly(InsertPrefix(a, c), chunks, block, n)
<1> DEFINE m == c.rseq - a.rseq
           p == InsertPrefix(a, c)
<1>1. /\ a \in Insertion /\ Ordered(a.list) /\ a.rseq < block.rupper /\ Fills(a.data, a.rseq, block.rupper)
      /\ a.list \in Seq(FullPiece) /\ a.rseq \in Nat /\ a.rseq \in Seqs /\ a.first \in Nat /\ Len(a.list) \in Nat
      /\ a.data # Unset /\ a.data \in Seq(Byte) /\ Len(a.data) = block.rupper - a.rseq
  BY InsertionFacts DEF Partly, Inserting, Mixes, Fills, Holds
<1>2. /\ c \in Piece /\ c.rseq \in Seqs /\ c.rseq \in Nat /\ c.rupper \in Nat /\ block.rupper \in Nat
      /\ block.rupper \in Seqs
  BY FullFacts
<1>3. Inserting(p, block.rupper) /\ ~p.placed
  BY <1>2, InsertPrefixFacts DEF Partly
<1>4. CASE a.rseq >= c.rseq
  <2>1. p = a
    BY <1>4 DEF InsertPrefix
  <2>2. QED BY <2>1
<1>5. CASE a.rseq < c.rseq
  <2> DEFINE head == SubSeq(a.data, 1, m)
             rest == Drop(a.data, m)
             b == [a EXCEPT !.data = head]
             i == Insert(b, c.rseq)
             x == Chunk(head, a.rseq, c.rseq)
  <2>1. /\ head \in Seq(Byte) /\ Fills(head, a.rseq, c.rseq)
        /\ rest \in Seq(Byte) /\ Fills(rest, c.rseq, block.rupper)
    BY <1>1, <1>2, <1>5, Split
  <2>2. Elements(head) \subseteq Elements(a.data) /\ Elements(rest) \subseteq Elements(a.data)
    <3>1. m \in Nat /\ m <= Len(a.data)
      BY <1>1, <1>2, <1>5
    <3>2. QED BY <3>1, <1>1, CutElements
  <2>3. head # Unset /\ rest # Unset
    BY <2>1, UnsetAssumption
  <2>4. ~(a.rseq >= c.rseq)
    BY <1>1, <1>2, <1>5
  <2>5. p = [i EXCEPT !.placed = FALSE, !.rseq = c.rseq, !.data = rest]
    BY <2>4, <1>1 DEF InsertPrefix
  <2> HIDE DEF m, head, rest
  <2>6. b \in Insertion /\ b.list = a.list /\ b.rseq = a.rseq /\ b.data = head /\ b.first = a.first
        /\ b.met = a.met /\ b.dangling = a.dangling
    BY <2>1, <1>1 DEF Insertion
  <2> HIDE DEF b, p
  <2>7. /\ i.list = Append(a.list, x) /\ i.first = (IF a.first = 0 THEN Len(a.list) + 1 ELSE a.first)
        /\ i.met = a.met /\ i.dangling = a.dangling
    <3>1. /\ i.list = Append(b.list, Chunk(b.data, b.rseq, c.rseq))
          /\ i.first = (IF b.first = 0 THEN Len(b.list) + 1 ELSE b.first)
          /\ i.met = b.met /\ i.dangling = b.dangling
      BY <2>6, InsertFields, Zenon
    <3> HIDE DEF i
    <3>2. QED BY <2>6, <3>1
  <2>8. DOMAIN i = {"list", "data", "rseq", "first", "met", "placed", "dangling"}
    BY <2>6 DEF Insert, Insertion
  <2> HIDE DEF i
  <2>9. /\ p.list = Append(a.list, x) /\ p.first = (IF a.first = 0 THEN Len(a.list) + 1 ELSE a.first)
        /\ p.met = a.met /\ p.dangling = a.dangling /\ p.data = rest /\ p.rseq = c.rseq
    BY <2>5, <2>7, <2>8
  <2>10. block.rseq <= a.rseq /\ a.rseq \in Bounds(chunks, block) /\ Elements(a.data) \subseteq Elements(block.data)
         /\ block.rseq \in Nat
    BY FullFacts DEF Partly
  <2>11. New(x, chunks, block) /\ x \in FullPiece /\ x.rseq = a.rseq /\ x.rupper = c.rseq
    <3>1. c.rseq <= block.rupper
      BY <1>2
    <3>2. Elements(head) \subseteq Elements(block.data)
      BY <2>2, <2>10
    <3>3. a.rseq < c.rseq /\ c.rseq \in Bounds(chunks, block) /\ block \in FullPiece
      BY <1>5
    <3>4. a.rseq \in Seqs /\ c.rseq \in Seqs /\ head # Unset /\ Fills(head, a.rseq, c.rseq)
      BY <1>1, <1>2, <2>1, <2>3
    <3>5. block.rseq <= a.rseq /\ a.rseq \in Bounds(chunks, block)
      BY <2>10
    <3>6. New(x, chunks, block) /\ x \in FullPiece
      BY <3>1, <3>2, <3>3, <3>4, <3>5, PartIsNew, Zenon
    <3>7. QED BY <3>6 DEF Chunk
  <2> HIDE DEF x
  <2>12. Mixes(p.list, chunks, block, n) /\ Leads(p.list, p.first, chunks, block, n)
    BY <2>9, <2>11, <1>1, MixesNew DEF Partly
  <2>13. ASSUME NEW q \in Nat, Covers(block, q)
         PROVE  p.rseq <= q \/ Spans(p.list, q)
    <3>1. a.rseq <= q /\ ~(c.rseq <= q) => Covers(x, q)
      BY <2>11, <1>2 DEF Covers
    <3>2. a.rseq <= q \/ Spans(a.list, q)
      BY <2>13 DEF Partly
    <3>3. QED BY <3>1, <3>2, <2>9, <2>11, <1>1, AppendSpans
  <2>14. p.met \in 0..Len(p.list)
    <3>1. Len(p.list) = Len(a.list) + 1
      BY <1>1, <2>9, <2>11, AppendFacts
    <3>2. QED BY <3>1, <1>1, <2>9 DEF Partly
  <2>15. block.rseq <= p.rseq /\ p.rseq \in Bounds(chunks, block) /\ Elements(p.data) \subseteq Elements(block.data)
    BY <2>2, <2>9, <2>10, <1>1, <1>2, <1>5
  <2>16. ~p.dangling /\ p.data # Unset
    BY <2>3, <2>9 DEF Partly
  <2>17. QED BY <1>3, <2>12, <2>13, <2>14, <2>15, <2>16 DEF Partly, p
<1>6. QED BY <1>1, <1>2, <1>4, <1>5

\* The next chunk takes the place of the part of the block that it covers.
LEMMA OverlapFull ==
  ASSUME NEW chunks \in Seq(FullPiece), NEW block \in FullPiece, NEW n \in Nat, n + 1 \in DOMAIN chunks, NEW a,
         Partly(a, chunks, block, n), ~a.placed, EndsBy(a.list, chunks[n + 1].rseq),
         chunks[n + 1].rseq < block.rupper, a.rseq < chunks[n + 1].rupper
  PROVE  Partly(Overlap(a, chunks[n + 1], block.rupper), chunks, block, n + 1)
<1> DEFINE c == chunks[n + 1]
           p == InsertPrefix(a, c)
           m == Min({block.rupper - p.rseq, c.rupper - p.rseq})
           remainder == p.data # Unset /\ m < block.rupper - p.rseq
           o == Overlap(a, c, block.rupper)
<1>1. c \in FullPiece /\ c.rseq \in Bounds(chunks, block) /\ c.rupper \in Bounds(chunks, block)
  BY FullPieces DEF Bounds
<1>2. /\ c \in Piece /\ c.rseq \in Nat /\ c.rupper \in Nat /\ c.rseq < c.rupper /\ block.rupper \in Nat
      /\ block.rupper \in Seqs
  BY <1>1, FullFacts
<1>3. EndsBy(a.list, c.rseq) /\ c.rseq < block.rupper /\ a.rseq < c.rupper
  OBVIOUS
<1> HIDE DEF c
<1>4. Partly(p, chunks, block, n)
  BY <1>1, <1>3, InsertPrefixFull
<1>5. ~p.placed /\ c.rseq <= p.rseq /\ p.rseq < c.rupper
  <2>1. Inserting(a, block.rupper)
    BY DEF Partly
  <2>2. QED BY <1>2, <1>3, <2>1, InsertPrefixFacts
<1>6. Inserting(o, block.rupper)
  <2>1. Inserting(a, block.rupper)
    BY DEF Partly
  <2>2. QED BY <1>2, <1>3, <2>1, OverlapFacts
<1> HIDE DEF p
<1>7. /\ p \in Insertion /\ p.rseq < block.rupper /\ Fills(p.data, p.rseq, block.rupper)
      /\ p.list \in Seq(FullPiece) /\ p.rseq \in Nat /\ p.first \in Nat /\ Len(p.list) \in Nat
      /\ p.data # Unset /\ p.data \in Seq(Byte) /\ Len(p.data) = block.rupper - p.rseq
  BY <1>4, <1>5, InsertionFacts DEF Partly, Inserting, Mixes, Fills, Holds
<1>8. m = IF block.rupper <= c.rupper THEN block.rupper - p.rseq ELSE c.rupper - p.rseq
  <2> DEFINE x == block.rupper - p.rseq
             y == c.rupper - p.rseq
  <2>1. x \in Int /\ y \in Int /\ (x <= y <=> block.rupper <= c.rupper)
    BY <1>2, <1>7
  <2> HIDE DEF x, y
  <2>2. Min({x, y}) = IF x <= y THEN x ELSE y
    BY <2>1, MinFacts
  <2>3. QED BY <2>1, <2>2 DEF x, y
<1>9. /\ o.list = Append(p.list, c) /\ o.met = Len(p.list) + 1 /\ o.placed = ~remainder
      /\ o.first = p.first /\ o.dangling = p.dangling
      /\ o.data = (IF remainder THEN Drop(p.data, m) ELSE p.data)
      /\ o.rseq = (IF remainder THEN p.rseq + m ELSE p.rseq)
  <2>1. o = [p EXCEPT !.list = Append(@, c), !.met = Len(p.list) + 1, !.placed = ~remainder,
                      !.data = IF remainder THEN Drop(@, m) ELSE @,
                      !.rseq = IF remainder THEN @ + m ELSE @]
    BY DEF Overlap, p
  <2> HIDE DEF m, remainder, o
  <2>2. QED BY <2>1, <1>7 DEF Insertion
<1> HIDE DEF o, m
<1>10. Mixes(o.list, chunks, block, n + 1) /\ Leads(o.list, o.first, chunks, block, n + 1)
  BY <1>4, <1>7, <1>9, MixesOld DEF Partly, c
<1>11. o.met \in 0..Len(o.list) /\ o.met # 0
  <2>1. Len(o.list) = Len(p.list) + 1
    BY <1>1, <1>7, <1>9, AppendFacts
  <2>2. QED BY <2>1, <1>7, <1>9
<1>12. \A q \in Nat : Spans(o.list, q) <=> Spans(p.list, q) \/ Covers(c, q)
  BY <1>1, <1>7, <1>9, AppendSpans
<1>13. \A q \in Nat : Covers(block, q) => p.rseq <= q \/ Spans(p.list, q)
  BY <1>4 DEF Partly
<1>14. block.rseq <= p.rseq /\ p.rseq \in Bounds(chunks, block) /\ Elements(p.data) \subseteq Elements(block.data)
       /\ ~p.dangling /\ block.rseq \in Nat
  BY <1>4, <1>5, FullFacts DEF Partly
<1>15. ASSUME remainder PROVE Partly(o, chunks, block, n + 1)
  <2>1. m = c.rupper - p.rseq /\ c.rupper < block.rupper /\ p.rseq + m = c.rupper /\ m \in Nat /\ m <= Len(p.data)
    BY <1>2, <1>5, <1>7, <1>8, <1>15
  <2>2. ~o.placed /\ o.rseq = c.rupper /\ o.data = Drop(p.data, m)
    BY <2>1, <1>9, <1>15
  <2>3. Elements(o.data) \subseteq Elements(block.data) /\ o.data \in Seq(Byte)
    BY <2>1, <2>2, <1>7, <1>14, CutElements, DropFacts
  <2>4. o.data # Unset
    BY <2>3, UnsetAssumption
  <2>5. ASSUME NEW q \in Nat, Covers(block, q)
        PROVE  o.rseq <= q \/ Spans(o.list, q)
    <3>1. p.rseq <= q => c.rupper <= q \/ Covers(c, q)
      BY <1>2, <1>5, <1>7 DEF Covers
    <3>2. QED BY <3>1, <2>2, <2>5, <1>12, <1>13
  <2>6. block.rseq <= o.rseq
    BY <2>2, <1>2, <1>5, <1>7, <1>14
  <2>7. QED BY <2>2, <2>3, <2>4, <2>5, <2>6, <1>1, <1>6, <1>9, <1>10, <1>11, <1>14 DEF Partly
<1>16. ASSUME ~remainder PROVE Partly(o, chunks, block, n + 1)
  <2>1. block.rupper <= c.rupper
    BY <1>2, <1>5, <1>7, <1>8, <1>16
  <2>2. o.placed /\ o.data = p.data
    BY <1>9, <1>16
  <2>3. ASSUME NEW q \in Nat, Covers(block, q)
        PROVE  Spans(o.list, q)
    <3>1. p.rseq <= q => Covers(c, q)
      BY <2>1, <2>3, <1>2, <1>5, <1>7 DEF Covers
    <3>2. QED BY <3>1, <2>3, <1>12, <1>13
  <2>4. QED BY <2>2, <2>3, <1>6, <1>7, <1>9, <1>10, <1>11, <1>14 DEF Partly
<1>17. Partly(o, chunks, block, n + 1)
  BY <1>15, <1>16
<1>18. QED BY <1>17 DEF c, o

\* One turn of the loop over a buffer of full chunks.
LEMMA VisitFull ==
  ASSUME NEW chunks \in Seq(FullPiece), NEW block \in FullPiece, NEW n \in Nat, n + 1 \in DOMAIN chunks, NEW a,
         Partly(a, chunks, block, n), EndsBy(a.list, chunks[n + 1].rseq)
  PROVE  Partly(Visit(a, chunks[n + 1], block.rupper), chunks, block, n + 1)
<1> DEFINE c == chunks[n + 1]
           v == Visit(a, c, block.rupper)
<1>1. c \in FullPiece
  BY FullPieces
<1>2. /\ c \in Piece /\ c.rseq \in Nat /\ c.rupper \in Nat /\ block.rupper \in Nat /\ block.rupper \in Seqs
  BY <1>1, FullFacts
<1>3. a \in Insertion /\ a.rseq \in Nat /\ a.placed \in BOOLEAN
  BY InsertionFacts DEF Partly, Inserting
<1>4. EndsBy(a.list, c.rseq)
  OBVIOUS
<1>5. Inserting(v, block.rupper)
  <2>1. Inserting(a, block.rupper)
    BY DEF Partly
  <2> HIDE DEF c
  <2>2. QED BY <1>2, <1>4, <2>1, VisitFacts
\* The chunk is put behind a list that has the block or what is before the chunk of it.
<1>6. ASSUME NEW i, Partly(i, chunks, block, n), i.placed \/ c.rupper <= i.rseq, v = Pass(i, c)
      PROVE  Partly(v, chunks, block, n + 1)
  <2>1. i \in Insertion /\ i.list \in Seq(FullPiece) /\ i.first \in Nat /\ Len(i.list) \in Nat
    BY <1>6, InsertionFacts DEF Partly, Inserting, Mixes
  <2>2. /\ v.list = Append(i.list, c) /\ v.first = i.first /\ v.met = i.met /\ v.placed = i.placed
        /\ v.data = i.data /\ v.rseq = i.rseq /\ v.dangling = i.dangling
    <3> HIDE DEF v
    <3>1. QED BY <2>1, <1>6 DEF Pass, Insertion
  <2> HIDE DEF v
  <2>3. Mixes(v.list, chunks, block, n + 1) /\ Leads(v.list, v.first, chunks, block, n + 1)
    BY <2>1, <2>2, <1>6, MixesOld DEF Partly
  <2>4. Len(v.list) = Len(i.list) + 1
    BY <2>1, <2>2, <1>1, AppendFacts
  <2>5. v.met \in 0..Len(v.list)
    BY <2>1, <2>2, <2>4, <1>6 DEF Partly
  <2>6. ASSUME NEW q \in Nat, Covers(block, q)
        PROVE  (~v.placed /\ v.rseq <= q) \/ Spans(v.list, q)
    <3>1. Spans(i.list, q) => Spans(v.list, q)
      BY <2>1, <2>2, <1>1, AppendSpans
    <3>2. QED BY <3>1, <2>2, <2>6, <1>6 DEF Partly
  <2>7. v.placed /\ v.first = 0 => v.met # 0
    BY <2>2, <1>6 DEF Partly
  <2>8. QED BY <2>2, <2>3, <2>5, <2>6, <2>7, <1>5, <1>6 DEF Partly, v
<1>7. CASE a.placed \/ c.rupper <= a.rseq
  BY <1>6, <1>7 DEF Visit
<1>8. CASE ~(a.placed \/ c.rupper <= a.rseq) /\ block.rupper <= c.rseq
  <2>1. Partly(Insert(a, block.rupper), chunks, block, n) /\ Insert(a, block.rupper).placed
    BY <1>8, InsertFull
  <2>2. v = Pass(Insert(a, block.rupper), c)
    BY <1>8 DEF Visit
  <2>3. QED BY <1>6, <2>1, <2>2
<1>9. CASE ~(a.placed \/ c.rupper <= a.rseq) /\ ~(block.rupper <= c.rseq)
  <2>1. v = Overlap(a, c, block.rupper)
    BY <1>9 DEF Visit
  <2>2. ~a.placed /\ a.rseq < c.rupper /\ c.rseq < block.rupper
    BY <1>2, <1>3, <1>9
  <2>3. QED BY <2>1, <2>2, <1>4, OverlapFull
<1>10. QED BY <1>7, <1>8, <1>9

\* What a buffer has become that a block was put into: at is the index of the
\* first piece of the block, or of a chunk when the block brought nothing new.
Merged(list, at, chunks, block) ==
  /\ Ordered(list) /\ at \in DOMAIN list
  /\ Mixes(list, chunks, block, Len(chunks))
  /\ Leads(list, 0, chunks, block, Len(chunks)) \/ Leads(list, at, chunks, block, Len(chunks))
  /\ \A p \in Nat : Covers(block, p) => Spans(list, p)

\* A full chunk is the record of its fields.
LEMMA FullIsChunk ==
  ASSUME NEW c \in FullPiece
  PROVE  Chunk(c.data, c.rseq, c.rupper) = c
<1>1. c \in Piece
  BY FullFacts
<1>2. QED BY <1>1 DEF Chunk, Piece

\* The block is a piece of itself.
LEMMA WholeIsNew ==
  ASSUME NEW chunks, NEW block \in FullPiece
  PROVE  New(block, chunks, block)
<1>1. block.rseq \in Nat /\ block.rupper \in Nat
  BY FullFacts
<1>2. QED BY <1>1 DEF New, Bounds

\* Before its first chunk has been passed, nothing of the buffer is in the list.
LEMMA PartlyStarts ==
  ASSUME NEW chunks \in Seq(FullPiece), NEW block \in FullPiece, NEW a,
         a = [list |-> <<>>, data |-> block.data, rseq |-> block.rseq, first |-> 0, met |-> 0,
              placed |-> FALSE, dangling |-> FALSE]
  PROVE  Partly(a, chunks, block, 0)
<1>1. /\ a.list = <<>> /\ a.data = block.data /\ a.rseq = block.rseq /\ a.first = 0 /\ a.met = 0
      /\ a.placed = FALSE /\ a.dangling = FALSE
  OBVIOUS
<1>2. /\ block.data # Unset /\ block.data \in Seq(Byte) /\ block.rseq \in Seqs /\ block.rupper \in Nat
      /\ block.rseq \in Nat /\ block.rseq < block.rupper /\ Fills(block.data, block.rseq, block.rupper)
  BY FullFacts
<1>3. a \in Insertion
  BY <1>2 DEF Insertion
<1>4. DOMAIN a.list = {} /\ a.list \in Seq(FullPiece) /\ Len(a.list) = 0
  BY <1>1
<1>5. Inserting(a, block.rupper)
  BY <1>1, <1>2, <1>3, <1>4 DEF Inserting, Ordered, EndsBy
<1>6. 1..0 = {}
  OBVIOUS
<1>7. Mixes(a.list, chunks, block, 0)
  BY <1>4, <1>6 DEF Mixes
<1>8. Leads(a.list, a.first, chunks, block, 0)
  BY <1>1, <1>4 DEF Leads
<1>9. \A p \in Nat : Covers(block, p) => ~a.placed /\ a.rseq <= p
  BY <1>1 DEF Covers
<1>10. a.rseq \in Bounds(chunks, block)
  BY <1>1 DEF Bounds
<1>11. QED BY <1>1, <1>2, <1>4, <1>5, <1>7, <1>8, <1>9, <1>10 DEF Partly

\* Putting a block with data into an ordered buffer: every chunk of it stays,
\* and every position of the block is in it afterwards.
LEMMA AddAndCheckFull ==
  ASSUME NEW chunks \in Seq(FullPiece), chunks # <<>>, Ordered(chunks), NEW block \in FullPiece
  PROVE  LET added == AddAndCheck(chunks, block.data, block.rseq, block.rupper) IN
         Merged(added.list, added.at, chunks, block)
<1> DEFINE n == Len(chunks)
           v == Visits(chunks, block.data, block.rseq, block.rupper)
           S == {k \in 0..n : Partly(v[k], chunks, block, k) /\ (k > 0 => EndsBy(v[k].list, chunks[k].rupper))}
           seen == v[n]
           end == IF seen.placed THEN seen ELSE Insert(seen, block.rupper)
           added == AddAndCheck(chunks, block.data, block.rseq, block.rupper)
<1>1. n \in Nat /\ n > 0 /\ DOMAIN chunks = 1..n /\ \A k \in 1..n : chunks[k] \in FullPiece
  BY FullPieces
<1>2. /\ v[0] = [list |-> <<>>, data |-> block.data, rseq |-> block.rseq, first |-> 0, met |-> 0,
                 placed |-> FALSE, dangling |-> FALSE]
      /\ \A k \in 1..n : v[k] = Visit(v[k - 1], chunks[k], block.rupper)
  BY <1>1, VisitsFacts
<1>3. /\ block.rupper \in Seqs /\ chunks \in Seq(Piece) /\ block \in Piece
      /\ \A k \in 1..n : chunks[k] \in Piece /\ chunks[k].rseq \in Nat /\ chunks[k].rupper \in Nat
  BY <1>1, FullFacts, FullPieces
<1> HIDE DEF n, v
<1>4. 0 \in S
  BY <1>1, <1>2, PartlyStarts
<1>5. ASSUME NEW k \in 0..n, k \in S, k < n
      PROVE  k + 1 \in S
  <2>1. k + 1 \in 1..n /\ v[k + 1] = Visit(v[k], chunks[k + 1], block.rupper) /\ k \in Nat
    BY <1>1, <1>2, <1>5
  <2>2. Partly(v[k], chunks, block, k) /\ (k > 0 => EndsBy(v[k].list, chunks[k].rupper))
    BY <1>5
  <2>3. EndsBy(v[k].list, chunks[k + 1].rseq)
    <3>1. CASE k = 0
      BY <3>1, <1>2 DEF EndsBy
    <3>2. CASE k > 0
      <4>1. chunks[k].rupper <= chunks[k + 1].rseq /\ chunks[k].rupper \in Nat /\ chunks[k + 1].rseq \in Nat
        BY <3>2, <2>1, <1>1, <1>3 DEF Ordered
      <4>2. v[k].list \in Seq(FullPiece)
        BY <2>2 DEF Partly, Mixes
      <4>3. \A i \in DOMAIN v[k].list : v[k].list[i].rupper \in Nat
        BY <4>2, FullPieces, FullFacts
      <4>4. QED BY <3>2, <2>2, <4>1, <4>3 DEF EndsBy
    <3>3. QED BY <3>1, <3>2, <2>1
  <2>4. Inserting(v[k], block.rupper)
    BY <2>2 DEF Partly
  <2>5. EndsBy(v[k + 1].list, chunks[k + 1].rupper)
    BY <2>1, <2>3, <2>4, <1>3, VisitFacts
  <2>6. Partly(v[k + 1], chunks, block, k + 1)
    <3>1. k + 1 \in DOMAIN chunks
      BY <2>1, <1>1
    <3>2. QED BY <2>1, <2>2, <2>3, <3>1, VisitFull
  <2>7. k + 1 \in 0..n
    BY <2>1
  <2>8. QED BY <2>5, <2>6, <2>7
<1>6. Partly(seen, chunks, block, n)
  <2>1. \A k \in 0..n : k \in S
    <3> HIDE DEF S
    <3>1. QED BY <1>1, <1>4, <1>5, UpTo
  <2>2. n \in S
    BY <1>1, <2>1
  <2>3. QED BY <2>2
<1> HIDE DEF seen
<1>7. Partly(end, chunks, block, n) /\ end.placed
  <2>1. ~seen.placed => Partly(Insert(seen, block.rupper), chunks, block, n) /\ Insert(seen, block.rupper).placed
    BY <1>1, <1>6, InsertFull
  <2>2. QED BY <2>1, <1>6
<1> HIDE DEF end
<1>8. CASE block.rseq = Last(chunks).rupper
  <2>1. added.list = Append(chunks, block) /\ added.at = n + 1
    BY <1>8, FullIsChunk DEF AddAndCheck, n
  <2>2. Ordered(Append(chunks, block))
    BY <1>3, <1>8, LastEnds, AppendOrdered
  <2>3. Mixes(chunks, chunks, block, n) /\ Leads(chunks, 0, chunks, block, n)
    BY <1>1 DEF Mixes, Leads, Old
  <2>4. Mixes(Append(chunks, block), chunks, block, n) /\ Leads(Append(chunks, block), n + 1, chunks, block, n)
    <3>1. New(block, chunks, block) /\ 0 \in Nat
      BY WholeIsNew
    <3>2. QED BY <2>3, <3>1, <1>1, MixesNew DEF n
  <2>5. n + 1 \in DOMAIN Append(chunks, block)
    BY AppendFacts, <1>1 DEF n
  <2>6. \A p \in Nat : Covers(block, p) => Spans(Append(chunks, block), p)
    BY AppendSpans
  <2>7. QED BY <2>1, <2>2, <2>4, <2>5, <2>6 DEF Merged, n
<1>9. CASE block.rseq # Last(chunks).rupper
  <2>1. ~end.dangling
    BY <1>7 DEF Partly
  <2>2. added.list = end.list /\ added.at = IF end.first # 0 THEN end.first ELSE end.met
    BY <2>1, <1>9 DEF AddAndCheck, end, seen, v, n
  <2>3. Ordered(end.list) /\ Mixes(end.list, chunks, block, n) /\ end.list \in Seq(FullPiece)
    BY <1>7 DEF Partly, Inserting, Mixes
  <2>4. \A p \in Nat : Covers(block, p) => Spans(end.list, p)
    BY <1>7 DEF Partly
  <2>5. /\ added.at \in DOMAIN end.list
        /\ Leads(end.list, 0, chunks, block, n) \/ Leads(end.list, added.at, chunks, block, n)
    <3>1. CASE end.first = 0
      <4>1. end.met \in 0..Len(end.list) /\ end.met # 0 /\ Leads(end.list, 0, chunks, block, n)
        BY <3>1, <1>7 DEF Partly
      <4>2. DOMAIN end.list = 1..Len(end.list) /\ Len(end.list) \in Nat
        BY <2>3
      <4>3. end.met \in DOMAIN end.list
        BY <4>1, <4>2
      <4>4. QED BY <4>1, <4>3, <3>1, <2>2
    <3>2. CASE end.first # 0
      BY <3>2, <2>2, <1>7 DEF Partly, Leads
    <3>3. QED BY <3>1, <3>2
  <2>6. QED BY <2>2, <2>3, <2>4, <2>5 DEF Merged, n
<1>10. QED BY <1>8, <1>9

\* A block put into an empty buffer.
LEMMA FirstMerged ==
  ASSUME NEW block \in FullPiece
  PROVE  Merged(<<block>>, 1, <<>>, block)
<1> DEFINE list == <<block>>
<1>1. list \in Seq(FullPiece) /\ DOMAIN list = {1} /\ list[1] = block /\ Len(<<>>) = 0 /\ 1..0 = {}
  OBVIOUS
<1> HIDE DEF list
<1>2. New(list[1], <<>>, block)
  BY <1>1, WholeIsNew
<1>3. Ordered(list)
  BY <1>1 DEF Ordered
<1>4. Mixes(list, <<>>, block, 0) /\ Leads(list, 1, <<>>, block, 0)
  BY <1>1, <1>2 DEF Mixes, Leads
<1>5. \A p \in Nat : Covers(block, p) => Spans(list, p)
  BY <1>1 DEF Spans
<1>6. QED BY <1>1, <1>3, <1>4, <1>5 DEF Merged, list

\* The bytes that a buffer holds once data has been put into it: a position
\* that is in the buffer already keeps the byte that came first.
Pool(chunks, data) == Store(chunks) \cup {b \in Elements(data) : ~Spans(chunks, b.pos)}

\* A chunk of the list that covers a position of the buffer is a chunk of it.
LEMMA CoveredIsOld ==
  ASSUME NEW chunks \in Seq(FullPiece), NEW block, NEW list, Mixes(list, chunks, block, Len(chunks)), Ordered(list),
         NEW i \in DOMAIN list, NEW p \in Nat, Covers(list[i], p), Spans(chunks, p)
  PROVE  Old(list[i], chunks, Len(chunks))
<1>1. PICK j \in DOMAIN chunks : Covers(chunks[j], p)
  BY DEF Spans
<1>2. j \in 1..Len(chunks)
  BY <1>1, FullPieces
<1>3. PICK k \in DOMAIN list : list[k] = chunks[j]
  BY <1>2 DEF Mixes
<1>4. list \in Seq(FullPiece) /\ Covers(list[k], p)
  BY <1>1, <1>3 DEF Mixes
<1>5. i = k
  BY <1>4, CoverOnce
<1>6. QED BY <1>2, <1>3, <1>5 DEF Old

\* What a buffer holds with a block put into it.
LEMMA MergedStore ==
  ASSUME NEW chunks \in Seq(FullPiece), Ordered(chunks), NEW block \in FullPiece, NEW list, NEW at,
         Merged(list, at, chunks, block)
  PROVE  Store(list) = Pool(chunks, block.data)
<1>1. /\ Ordered(list) /\ Mixes(list, chunks, block, Len(chunks)) /\ list \in Seq(FullPiece)
      /\ \A p \in Nat : Covers(block, p) => Spans(list, p)
  BY DEF Merged, Mixes
<1>2. \A i \in DOMAIN list : list[i] \in FullPiece
  BY <1>1, FullPieces
<1>3. ASSUME NEW b \in Store(list)
      PROVE  b \in Pool(chunks, block.data)
  <2>1. PICK i \in DOMAIN list : b \in Elements(list[i].data)
    BY DEF Store
  <2>2. b.pos \in Nat /\ Covers(list[i], b.pos)
    BY <1>2, <2>1, FullFacts
  <2>3. CASE Old(list[i], chunks, Len(chunks))
    <3>1. PICK j \in 1..Len(chunks) : list[i] = chunks[j]
      BY <2>3 DEF Old
    <3>2. j \in DOMAIN chunks
      BY FullPieces
    <3>3. b \in Store(chunks)
      BY <2>1, <3>1, <3>2, StoreFacts
    <3>4. QED BY <3>3 DEF Pool
  <2>4. CASE ~Old(list[i], chunks, Len(chunks))
    <3>1. ~Spans(chunks, b.pos)
      BY <2>2, <2>4, <1>1, CoveredIsOld
    <3>2. New(list[i], chunks, block)
      BY <2>4, <1>1 DEF Mixes
    <3>3. b \in Elements(block.data)
      BY <2>1, <3>2 DEF New
    <3>4. QED BY <3>1, <3>3 DEF Pool
  <2>5. QED BY <2>3, <2>4
<1>4. ASSUME NEW b \in Store(chunks)
      PROVE  b \in Store(list)
  <2>1. PICK j \in DOMAIN chunks : b \in Elements(chunks[j].data)
    BY DEF Store
  <2>2. j \in 1..Len(chunks)
    BY FullPieces
  <2>3. PICK i \in DOMAIN list : list[i] = chunks[j]
    BY <1>1, <2>2 DEF Mixes
  <2>4. QED BY <1>1, <2>1, <2>3, StoreFacts
<1>5. ASSUME NEW b \in Elements(block.data), ~Spans(chunks, b.pos)
      PROVE  b \in Store(list)
  <2>1. b.pos \in Nat /\ Covers(block, b.pos) /\ b = block.data[(b.pos - block.rseq) + 1]
    BY FullFacts
  <2>2. PICK d \in Store(list) : d.pos = b.pos
    BY <1>1, <2>1, StoreFacts
  <2>3. d \in Pool(chunks, block.data)
    BY <1>3
  <2>4. d \notin Store(chunks)
    BY <1>5, <2>2, StoreFacts
  <2>5. d \in Elements(block.data)
    BY <2>3, <2>4 DEF Pool
  <2>6. d = block.data[(d.pos - block.rseq) + 1]
    BY <2>5, FullFacts
  <2>7. QED BY <2>1, <2>2, <2>6
<1>6. QED BY <1>3, <1>4, <1>5 DEF Pool

\* A chunk has been delivered, or waits for what is missing before it.
AtRest(c, p) == c.rupper <= p \/ p < c.rseq
Straddles(c, p) == c.rseq < p /\ p < c.rupper

\* When a block that does not straddle the position of the stream, or brings
\* nothing new before it, gets into a buffer at rest, then at tells right what
\* can be delivered: the chunk there is the only one that can come next.
LEMMA MergedRests ==
  ASSUME NEW chunks \in Seq(FullPiece), NEW block \in FullPiece, NEW list, NEW at, Merged(list, at, chunks, block),
         NEW last \in Nat, \A j \in DOMAIN chunks : AtRest(chunks[j], last),
         ~Straddles(block, last) \/ \A p \in Nat : p < last => Spans(chunks, p)
  PROVE  /\ \A i \in DOMAIN list : ~Straddles(list[i], last) /\ (i < at => AtRest(list[i], last))
         /\ AtRest(list[at], last) => \A i \in DOMAIN list : AtRest(list[i], last)
<1> DEFINE n == Len(chunks)
<1>1. Ordered(list) /\ Mixes(list, chunks, block, n) /\ list \in Seq(FullPiece) /\ at \in DOMAIN list
  BY DEF Merged, Mixes
<1>2. /\ \A i \in DOMAIN list : list[i] \in FullPiece /\ i \in Nat /\ i # 0
      /\ DOMAIN list = 1..Len(list) /\ DOMAIN chunks = 1..n
  BY <1>1, FullPieces
<1>3. \A i \in DOMAIN list : list[i].rseq \in Nat /\ list[i].rupper \in Nat /\ list[i].rseq < list[i].rupper
  BY <1>2, FullFacts
<1>4. block.rseq \in Nat /\ block.rupper \in Nat
  BY FullFacts
<1>5. \A i \in DOMAIN list : Old(list[i], chunks, n) => AtRest(list[i], last)
  BY <1>2 DEF Old
<1>6. \A i \in DOMAIN list : ~Old(list[i], chunks, n) => block.rseq <= list[i].rseq /\ list[i].rupper <= block.rupper
  BY <1>1 DEF Mixes, New
<1>7. ASSUME NEW i \in DOMAIN list, Straddles(list[i], last)
      PROVE  FALSE
  <2>1. ~AtRest(list[i], last)
    BY <1>3, <1>7 DEF AtRest, Straddles
  <2>2. ~Old(list[i], chunks, n)
    BY <1>5, <2>1
  <2>3. Straddles(block, last)
    BY <1>3, <1>4, <1>6, <1>7, <2>2 DEF Straddles
  <2>4. Spans(chunks, list[i].rseq) /\ Covers(list[i], list[i].rseq)
    BY <1>3, <1>7, <2>3 DEF Straddles, Covers
  <2>5. QED BY <1>1, <1>3, <2>2, <2>4, CoveredIsOld
<1>8. ASSUME NEW i \in DOMAIN list, i < at
      PROVE  Old(list[i], chunks, n)
  <2>1. at # 0
    BY <1>1, <1>2
  <2>2. QED BY <1>8, <2>1 DEF Merged, Leads
<1>9. ASSUME AtRest(list[at], last), NEW i \in DOMAIN list, ~AtRest(list[i], last)
      PROVE  FALSE
  <2>1. list[i].rseq = last /\ last < list[i].rupper
    BY <1>3, <1>7, <1>9 DEF AtRest, Straddles
  <2>2. ~Old(list[i], chunks, n) /\ ~(i < at) /\ i # at
    BY <1>5, <1>8, <1>9
  <2>3. Leads(list, at, chunks, block, n) /\ at # 0
    BY <2>2, <1>1, <1>2 DEF Merged, Leads
  <2>4. at < i
    BY <2>2, <1>1, <1>2
  <2>5. list[at].rupper <= last
    BY <2>1, <2>4, <1>1 DEF Ordered
  <2>6. list[at].rseq < last
    BY <2>5, <1>1, <1>3
  <2>7. block.rseq <= list[at].rseq
    BY <2>3 DEF Leads, New
  <2>8. Straddles(block, last)
    BY <2>1, <2>2, <2>6, <2>7, <1>1, <1>3, <1>4, <1>6 DEF Straddles
  <2>9. PICK j \in DOMAIN chunks : Covers(chunks[j], list[at].rseq)
    BY <2>6, <2>8, <1>1, <1>3 DEF Spans
  <2>10. PICK k \in DOMAIN list : k # at /\ list[k] = chunks[j]
    BY <2>3, <2>9, <1>2 DEF Leads
  <2>11. Covers(list[k], list[at].rseq) /\ Covers(list[at], list[at].rseq) /\ list[at].rseq \in Nat
    BY <2>9, <2>10, <1>1, <1>3 DEF Covers
  <2>12. QED BY <2>10, <2>11, <1>1, CoverOnce
<1>10. QED BY <1>5, <1>7, <1>8, <1>9

(************************** What is handed over ***************************)

\* A sink with no unit and no filter, after calls that all came to their end.
Plain(s) ==
  /\ Good(s) /\ s.initial = 0 /\ s.units = <<>> /\ ~s.filter /\ s.held = <<>> /\ ~s.thrown /\ ~s.stuck
  /\ s.cur = s.last /\ s.outcome = "ok" /\ s.chunks \in Seq(FullPiece) /\ s.trim <= s.last

\* What delivering data does not touch.
Fixed(s, d) ==
  /\ d.chunks = s.chunks /\ d.autoTrim = s.autoTrim /\ d.trim = s.trim /\ d.initial = s.initial /\ d.units = s.units
  /\ d.filter = s.filter /\ d.held = s.held /\ d.thrown = s.thrown /\ d.stuck = s.stuck
  /\ d.missing = s.missing /\ d.written = s.written /\ d.undelivered = s.undelivered

\* From position from on, bytes of the pool were handed over in order, behind
\* those of before.
Runs(before, d, from, pool) ==
  /\ from <= d.last
  /\ \E tail \in Seq(Byte) :
       /\ d.delivered = before \o tail /\ Len(tail) = d.last - from
       /\ \A i \in 1..Len(tail) : tail[i] \in pool /\ tail[i].pos = from + (i - 1)

\* The data of a chunk is handed over as it is.
LEMMA DeliverPlain ==
  ASSUME NEW s \in Object, s.units = <<>>, ~s.filter, s.held = <<>>, NEW c \in FullPiece, NEW p \in Seqs
  PROVE  LET d == Deliver([s EXCEPT !.last = p], c) IN
         /\ d.cur = c.rupper /\ d.last = c.rupper /\ d.outcome = "ok" /\ d.delivered = s.delivered \o c.data
         /\ Fixed(s, d)
<1> DEFINE t == [s EXCEPT !.last = p]
           d == Deliver(t, c)
           n == t.size + Len(c.data)
           q == t.delivered \o c.data
<1>1. c \in Piece /\ c.data # Unset /\ c.data \in Seq(Byte) /\ c.data # <<>>
  BY FullFacts, PieceFacts
<1>2. t \in Object /\ t.units = <<>> /\ ~t.filter /\ t.held = <<>> /\ t.delivered = s.delivered
  BY DEF Object
<1>3. Fixed(s, t)
  BY DEF Fixed, Object
<1> HIDE DEF t
<1>4. Filtered(t, c.data).out = c.data /\ Filtered(t, c.data).held = <<>>
  BY <1>1, <1>2, FilteredFacts
<1>5. ~SomeCompleted(t.units)
  BY <1>2 DEF SomeCompleted
<1>6. FeedUnits(t.units, c.data) = <<>>
  BY <1>2 DEF FeedUnits
<1>7. d = [t EXCEPT !.held = <<>>, !.size = n, !.units = <<>>, !.cur = c.rupper, !.last = c.rupper,
                    !.outcome = "ok", !.delivered = q]
  <2>1. d = DeliverData(t, c)
    BY <1>1 DEF Deliver
  <2>2. QED BY <2>1, <1>1, <1>4, <1>5, <1>6 DEF DeliverData
<1> HIDE DEF d, n
<1>8. d.cur = c.rupper /\ d.last = c.rupper /\ d.outcome = "ok" /\ d.delivered = q
  BY <1>2, <1>7 DEF Object
<1>9. Fixed(t, d)
  BY <1>2, <1>7 DEF Fixed, Object
<1>10. Fixed(s, d)
  BY <1>3, <1>9 DEF Fixed
<1>11. QED BY <1>2, <1>8, <1>10 DEF d, t

\* One sequence of bytes behind another.
LEMMA Joined ==
  ASSUME NEW a \in Seq(Byte), NEW b \in Seq(Byte), NEW c \in Seq(Byte)
  PROVE  /\ (a \o b) \o c = a \o (b \o c) /\ b \o c \in Seq(Byte) /\ a \o <<>> = a
         /\ Len(b \o c) = Len(b) + Len(c) /\ Len(b) \in Nat /\ Len(c) \in Nat
         /\ \A i \in 1..Len(b \o c) : (b \o c)[i] = IF i <= Len(b) THEN b[i] ELSE c[i - Len(b)]
<1>1. QED OBVIOUS

\* One more chunk is handed over.
LEMMA RunsOn ==
  ASSUME NEW before \in Seq(Byte), NEW e, e.last \in Nat, NEW from \in Nat, NEW pool, Runs(before, e, from, pool),
         NEW c \in FullPiece, c.rseq = e.last, Elements(c.data) \subseteq pool,
         NEW d, d.last = c.rupper, d.delivered = e.delivered \o c.data
  PROVE  Runs(before, d, from, pool)
<1>1. PICK tail \in Seq(Byte) :
        /\ e.delivered = before \o tail /\ Len(tail) = e.last - from
        /\ \A i \in 1..Len(tail) : tail[i] \in pool /\ tail[i].pos = from + (i - 1)
  BY DEF Runs
<1>2. /\ c.data \in Seq(Byte) /\ Len(c.data) = c.rupper - c.rseq /\ c.rupper \in Nat /\ c.rseq \in Nat
      /\ c.rseq < c.rupper /\ \A k \in 1..Len(c.data) : c.data[k].pos = c.rseq + (k - 1)
  BY FullFacts, PieceFacts
<1> DEFINE more == tail \o c.data
<1>3. d.delivered = before \o more /\ more \in Seq(Byte)
  <2>1. c.data \in Seq(Byte) /\ d.delivered = (before \o tail) \o c.data
    BY <1>1, <1>2
  <2>2. (before \o tail) \o c.data = before \o (tail \o c.data) /\ tail \o c.data \in Seq(Byte)
    <3> DEFINE data == c.data
    <3>1. data \in Seq(Byte)
      BY <2>1
    <3> HIDE DEF data
    <3>2. (before \o tail) \o data = before \o (tail \o data) /\ tail \o data \in Seq(Byte)
      BY <3>1, Joined
    <3>3. QED BY <3>2 DEF data
  <2>3. QED BY <2>1, <2>2
<1>4. /\ Len(more) = Len(tail) + Len(c.data) /\ Len(tail) \in Nat /\ Len(c.data) \in Nat
      /\ \A i \in 1..Len(more) : more[i] = IF i <= Len(tail) THEN tail[i] ELSE c.data[i - Len(tail)]
  <2>1. c.data \in Seq(Byte)
    BY <1>2
  <2>2. QED BY <2>1, Joined
<1> DEFINE t == Len(tail)
           l == Len(c.data)
<1>7. /\ t \in Nat /\ l \in Nat /\ Len(more) = t + l /\ t = e.last - from /\ l = d.last - e.last
      /\ e.last = c.rseq /\ d.last \in Nat
  BY <1>1, <1>2, <1>4
<1> HIDE DEF more, t, l
<1>5. Len(more) = d.last - from /\ from <= d.last
  BY <1>7
<1>6. ASSUME NEW i \in 1..Len(more)
      PROVE  more[i] \in pool /\ more[i].pos = from + (i - 1)
  <2>0. more[i] = (IF i <= t THEN tail[i] ELSE c.data[i - t]) /\ i \in 1 .. t + l
    BY <1>4, <1>7 DEF t
  <2>1. CASE i <= t
    <3>1. i \in 1..Len(tail) /\ more[i] = tail[i]
      BY <2>0, <2>1, <1>7 DEF t
    <3>2. QED BY <3>1, <1>1
  <2>2. CASE ~(i <= t)
    <3> DEFINE k == i - t
    <3>5. more[i] = c.data[k]
      BY <2>0, <2>2
    <3>6. i \in Int /\ i >= 1 /\ i <= t + l /\ t < i
      BY <2>0, <2>2, <1>7
    <3>7. k \in 1..l
      BY <3>6, <1>7
    <3>9. c.rseq = from + t /\ t \in Int /\ from \in Int
      BY <1>7
    <3>8. c.rseq + (k - 1) = from + (i - 1)
      BY <3>6, <3>9
    <3>1. k \in 1..l /\ more[i] = c.data[k] /\ c.rseq + (k - 1) = from + (i - 1)
      BY <3>5, <3>7, <3>8
    <3> HIDE DEF k
    <3>4. k \in 1..Len(c.data)
      BY <3>1 DEF l
    <3>2. c.data[k] \in Elements(c.data)
      BY <3>4, <1>2 DEF Elements
    <3>3. QED BY <3>1, <3>2, <3>4, <1>2
  <2>3. QED BY <2>1, <2>2
<1>8. QED BY <1>3, <1>5, <1>6 DEF Runs

\* The object once the loop has passed the first k chunks: they are at rest.
Turned(s, e, k) ==
  /\ Good(e) /\ Fixed(s, e) /\ e.cur = e.last /\ e.outcome = "ok"
  /\ Runs(s.delivered, e, s.last, Store(s.chunks))
  /\ e.last = s.last \/ \E j \in 1..k : e.last = s.chunks[j].rupper
  /\ \A j \in 1..k : AtRest(s.chunks[j], e.last)

\* A good object's positions are numbers.
LEMMA GoodNumbers ==
  ASSUME NEW s, Good(s)
  PROVE  /\ s \in Object /\ Ordered(s.chunks) /\ s.last \in Nat /\ s.cur \in Nat /\ s.trim \in Nat
         /\ s.last \in Seqs /\ s.trim \in Seqs /\ s.delivered \in Seq(Byte)
<1>1. s \in Object /\ Ordered(s.chunks)
  BY DEF Good
<1>2. QED BY <1>1, ObjectFacts, PositionsWrap

\* Before the loop nothing has been handed over.
LEMMA TurnStarts ==
  ASSUME NEW s, Plain(s), NEW k \in Nat, \A j \in 1..k : AtRest(s.chunks[j], s.last)
  PROVE  Turned(s, s, k)
<1>1. s.delivered \in Seq(Byte) /\ s.last \in Nat
  BY GoodNumbers DEF Plain
<1>2. s.delivered = s.delivered \o <<>>
  BY <1>1, Joined
<1>3. Runs(s.delivered, s, s.last, Store(s.chunks))
  <2>1. s.last <= s.last /\ <<>> \in Seq(Byte) /\ Len(<<>>) = s.last - s.last /\ 1..Len(<<>>) = {}
    BY <1>1
  <2>2. QED BY <1>2, <2>1, Zenon DEF Runs
<1>4. QED BY <1>3 DEF Turned, Plain, Fixed

\* One turn of the loop: the next chunk comes to rest.
LEMMA TurnExact ==
  ASSUME NEW s, Plain(s), NEW e, NEW k \in Nat, k + 1 \in DOMAIN s.chunks, Turned(s, e, k),
         ~Straddles(s.chunks[k + 1], s.last)
  PROVE  Turned(s, TryChunk(e, s.chunks[k + 1]), k + 1)
<1> DEFINE c == s.chunks[k + 1]
           d == TryChunk(e, c)
           n == Len(s.chunks)
<1>1. /\ s.chunks \in Seq(FullPiece) /\ Ordered(s.chunks) /\ s.last \in Nat /\ s.delivered \in Seq(Byte)
      /\ n \in Nat /\ DOMAIN s.chunks = 1..n /\ c \in FullPiece
      /\ \A j \in 1..n : s.chunks[j].rseq \in Nat /\ s.chunks[j].rupper \in Nat
  BY GoodNumbers, FullPieces, FullFacts DEF Plain
<1>2. /\ c \in Piece /\ c.rseq \in Nat /\ c.rupper \in Nat /\ c.rseq < c.rupper /\ c.rseq \in Seqs /\ c.rupper \in Seqs
      /\ Elements(c.data) \subseteq Store(s.chunks)
  BY <1>1, FullFacts, StoreFacts
<1>3. /\ Good(e) /\ Fixed(s, e) /\ e.cur = e.last /\ e.outcome = "ok" /\ e \in Object /\ e.last \in Nat
      /\ Runs(s.delivered, e, s.last, Store(s.chunks)) /\ s.last <= e.last
  BY GoodNumbers DEF Turned, Runs
<1>4. /\ ~Straddles(c, s.last) /\ k + 1 \in 1..n
      /\ \A j \in 1..k : AtRest(s.chunks[j], e.last)
      /\ \A j \in 1..k : s.chunks[j].rupper <= c.rseq /\ s.chunks[j].rupper \in Nat
      /\ e.last = s.last \/ \E j \in 1..k : e.last = s.chunks[j].rupper
  <2>1. k + 1 \in 1..n
    BY <1>1
  <2>2. \A j \in 1..k : j \in DOMAIN s.chunks /\ j \in 1..n /\ j < k + 1
    BY <2>1, <1>1
  <2>3. QED BY <2>1, <2>2, <1>1 DEF Turned, Ordered
<1> HIDE DEF c, n
<1>5. Good(d)
  BY <1>2, <1>3, TryChunkGood DEF Becomes
<1>6. \A j \in 1 .. k + 1 : j \in 1..k \/ j = k + 1
  OBVIOUS
<1>7. CASE c.rseq # e.last
  <2>1. d = e
    BY <1>7 DEF TryChunk
  <2>2. AtRest(c, e.last)
    <3>1. CASE e.last = s.last
      BY <3>1, <1>1, <1>2, <1>4, <1>7 DEF AtRest, Straddles
    <3>2. CASE e.last # s.last
      BY <3>2, <1>2, <1>3, <1>4, <1>7 DEF AtRest
    <3>3. QED BY <3>1, <3>2
  <2>3. \A j \in 1 .. k + 1 : AtRest(s.chunks[j], e.last)
    BY <2>2, <1>4, <1>6 DEF c
  <2>4. e.last = s.last \/ \E j \in 1 .. k + 1 : e.last = s.chunks[j].rupper
    BY <1>4
  <2> HIDE DEF d
  <2>5. Turned(s, d, k + 1)
    BY <2>1, <2>3, <2>4, <1>3 DEF Turned
  <2>6. QED BY <2>5 DEF d, c
<1>8. CASE c.rseq = e.last
  <2> DEFINE t == [e EXCEPT !.last = c.rupper]
  <2>1. Plus(e.last, Minus(c.rupper, c.rseq)) = c.rupper
    <3>1. c.rupper < SeqBound
      BY <1>2, PositionsWrap
    <3>2. Minus(c.rupper, c.rseq) = c.rupper - c.rseq /\ c.rupper - c.rseq \in Nat
      BY <1>2, PositionsWrap
    <3>3. QED BY <1>2, <1>8, <3>1, <3>2, PositionsWrap
  <2>2. e.units = <<>> /\ ~e.filter /\ e.held = <<>>
    BY <1>3 DEF Plain, Fixed
  <2>3. /\ Deliver(t, c).cur = c.rupper /\ Deliver(t, c).last = c.rupper /\ Deliver(t, c).outcome = "ok"
        /\ Deliver(t, c).delivered = e.delivered \o c.data /\ Fixed(e, Deliver(t, c))
    BY <2>2, <1>1, <1>2, <1>3, DeliverPlain DEF c
  <2>4. d = Deliver(t, c)
    <3>1. d = IF Deliver(t, c).outcome = "gap" /\ Deliver(t, c).autoTrim
              THEN [Trim(Deliver(t, c), c.rseq) EXCEPT !.stuck = TRUE] ELSE Deliver(t, c)
      BY <2>1, <1>3, <1>8 DEF TryChunk
    <3>2. QED BY <3>1, <2>3
  <2> HIDE DEF d, t
  <2>5. d.cur = c.rupper /\ d.last = c.rupper /\ d.outcome = "ok" /\ d.delivered = e.delivered \o c.data /\ Fixed(e, d)
    BY <2>3, <2>4
  <2>6. Runs(s.delivered, d, s.last, Store(s.chunks))
    BY <2>5, <1>1, <1>2, <1>3, <1>8, RunsOn DEF c
  <2>7. Fixed(s, d)
    BY <2>5, <1>3 DEF Fixed
  <2>8. \A j \in 1 .. k + 1 : AtRest(s.chunks[j], d.last)
    <3>1. \A j \in 1..k : s.chunks[j].rupper <= d.last
      BY <2>5, <1>2, <1>4
    <3>2. c.rupper <= d.last
      BY <2>5, <1>2
    <3>3. QED BY <3>1, <3>2, <1>6 DEF AtRest, c
  <2>9. \E j \in 1 .. k + 1 : d.last = s.chunks[j].rupper
    <3>1. k + 1 \in 1 .. k + 1
      OBVIOUS
    <3>2. QED BY <2>5, <3>1 DEF c
  <2>10. Turned(s, d, k + 1)
    BY <2>5, <2>6, <2>7, <2>8, <2>9, <1>5 DEF Turned, d
  <2>11. QED BY <2>10 DEF d, c
<1>9. QED BY <1>7, <1>8

\* Trimming takes the chunks at the front that begin before the position.
LEMMA ErasedFacts ==
  ASSUME NEW chunks \in Seq(FullPiece), Ordered(chunks), NEW rseq \in Nat
  PROVE  \E m \in 0..Len(chunks) :
           /\ {i \in DOMAIN chunks : \A j \in 1..i : chunks[j].rseq < rseq} = 1..m
           /\ \A i \in 1..m : chunks[i].rseq < rseq
           /\ \A i \in DOMAIN chunks : i > m => rseq <= chunks[i].rseq
<1> DEFINE n == Len(chunks)
           erased == {i \in DOMAIN chunks : \A j \in 1..i : chunks[j].rseq < rseq}
           T == {k \in 1 .. n + 1 : k \notin erased}
<1>1. /\ n \in Nat /\ DOMAIN chunks = 1..n
      /\ \A i \in 1..n : chunks[i].rseq \in Nat /\ chunks[i].rupper \in Nat /\ chunks[i].rseq < chunks[i].rupper
  BY FullPieces, FullFacts
<1> HIDE DEF n
<1>2. PICK k \in T : \A i \in T : k <= i
  <2>1. T \subseteq Nat /\ n + 1 \in T
    BY <1>1
  <2> HIDE DEF T
  <2>2. QED BY <2>1, Least
<1>3. k \in 1 .. n + 1 /\ k \notin erased /\ \A i \in 1 .. k - 1 : i \in erased
  <2>1. \A i \in 1 .. k - 1 : i \in 1 .. n + 1 /\ ~(k <= i)
    BY <1>1, <1>2
  <2>2. QED BY <1>2, <2>1
<1>4. ASSUME NEW i \in erased
      PROVE  i \in 1 .. k - 1
  <2>1. i \in 1..n /\ \A j \in 1..i : chunks[j].rseq < rseq
    BY <1>1
  <2>2. ASSUME ~(i <= k - 1)
        PROVE  FALSE
    <3>1. k \in 1..n /\ \A j \in 1..k : j \in 1..i
      BY <1>1, <1>3, <2>1, <2>2
    <3>2. k \in erased
      BY <1>1, <2>1, <3>1
    <3>3. QED BY <3>2, <1>3
  <2>3. QED BY <2>1, <2>2, <1>1, <1>3
<1>5. erased = 1 .. k - 1
  <2> HIDE DEF erased
  <2>1. QED BY <1>3, <1>4
<1>6. \A i \in 1 .. k - 1 : chunks[i].rseq < rseq
  <2>1. ASSUME NEW i \in 1 .. k - 1
        PROVE  chunks[i].rseq < rseq
    <3>1. i \in erased /\ i \in 1..i
      BY <1>3
    <3>2. QED BY <3>1
  <2>2. QED BY <2>1
<1>7. ASSUME NEW i \in DOMAIN chunks, i > k - 1
      PROVE  rseq <= chunks[i].rseq
  <2>1. i \in 1..n /\ k \in 1..n /\ k <= i
    BY <1>1, <1>3, <1>7
  <2>2. PICK j \in 1..k : ~(chunks[j].rseq < rseq)
    BY <1>1, <1>3, <2>1
  <2>3. ~(j \in 1 .. k - 1)
    BY <1>6, <2>2
  <2>4. j = k
    BY <2>3, <2>1
  <2>5. k = i \/ chunks[k].rupper <= chunks[i].rseq
    <3>1. k \in DOMAIN chunks /\ i \in DOMAIN chunks /\ (k = i \/ k < i)
      BY <2>1, <1>1
    <3>2. QED BY <3>1 DEF Ordered
  <2>6. /\ chunks[k].rseq \in Nat /\ chunks[k].rupper \in Nat /\ chunks[k].rseq < chunks[k].rupper
        /\ chunks[i].rseq \in Nat
    BY <2>1, <1>1
  <2>7. rseq <= chunks[k].rseq
    BY <2>2, <2>4, <2>6
  <2>8. CASE k = i
    BY <2>7, <2>8
  <2>9. CASE chunks[k].rupper <= chunks[i].rseq
    BY <2>6, <2>7, <2>9
  <2>10. QED BY <2>5, <2>8, <2>9
<1>8. k - 1 \in 0..n
  BY <1>1, <1>3
<1>9. QED BY <1>5, <1>6, <1>7, <1>8 DEF n

\* Trimming at a position that no chunk straddles leaves what is from it on.
LEMMA TrimExact ==
  ASSUME NEW s, Good(s), s.chunks \in Seq(FullPiece), NEW rseq \in Seqs,
         \A i \in DOMAIN s.chunks : ~Straddles(s.chunks[i], rseq)
  PROVE  LET t == Trim(s, rseq) IN
         /\ t.chunks \in Seq(FullPiece) /\ t.trim = rseq /\ t.initial = s.initial /\ t.outcome = s.outcome
         /\ t.stuck = s.stuck /\ t.written = s.written /\ s.undelivered \subseteq t.undelivered
         /\ \A i \in DOMAIN t.chunks :
             rseq <= t.chunks[i].rseq /\ \E j \in DOMAIN s.chunks : t.chunks[i] = s.chunks[j]
         /\ \A b \in Store(s.chunks) : rseq <= b.pos => b \in Store(t.chunks)
         /\ \A j \in DOMAIN s.chunks : s.cur < s.chunks[j].rseq /\ s.chunks[j].rseq < rseq =>
              Positions(s.chunks[j].data) \subseteq t.undelivered
<1> DEFINE chunks == s.chunks
           n == Len(chunks)
           erased == {i \in DOMAIN s.chunks : \A j \in 1..i : s.chunks[j].rseq < rseq}
           reported == {i \in erased : s.chunks[i].data # Unset /\ s.cur < s.chunks[i].rseq}
           rest == Drop(s.chunks, Cardinality(erased))
           undelivered == s.undelivered \cup UNION {Positions(s.chunks[i].data) : i \in reported}
           t == Trim(s, rseq)
<1>1. s \in Object /\ Ordered(chunks) /\ rseq \in Nat
  BY PositionsWrap DEF Good
<1>2. /\ n \in Nat /\ DOMAIN chunks = 1..n /\ chunks \in Seq(Piece)
      /\ \A i \in 1..n : /\ chunks[i] \in FullPiece /\ chunks[i].data # Unset
                         /\ chunks[i].rseq \in Nat /\ chunks[i].rupper \in Nat /\ chunks[i].rseq < chunks[i].rupper
  BY FullPieces, FullFacts
<1>3. PICK m \in 0..n : /\ erased = 1..m
                        /\ \A i \in 1..m : chunks[i].rseq < rseq
                        /\ \A i \in DOMAIN chunks : i > m => rseq <= chunks[i].rseq
  BY <1>1, ErasedFacts
<1>4. Cardinality(erased) = m
  <2>1. Cardinality(1..m) = m
    BY <1>2, FS_Interval
  <2>2. QED BY <1>3, <2>1
<1>5. t = [s EXCEPT !.chunks = rest, !.trim = rseq, !.undelivered = undelivered]
  BY DEF Trim
<1> HIDE DEF rest, undelivered, t
<1>6. /\ t.chunks = rest /\ t.trim = rseq /\ t.undelivered = undelivered /\ t.initial = s.initial
      /\ t.outcome = s.outcome /\ t.stuck = s.stuck /\ t.written = s.written
  BY <1>1, <1>5 DEF Object
<1>7. /\ rest \in Seq(FullPiece) /\ DOMAIN rest = 1 .. n - m /\ \A i \in 1 .. n - m : rest[i] = chunks[i + m]
  <2>1. rest = Drop(chunks, m)
    BY <1>4 DEF rest
  <2>2. chunks \in Seq(FullPiece) /\ m \in Nat /\ m <= Len(chunks)
    BY <1>2
  <2> HIDE DEF rest
  <2>3. rest \in Seq(FullPiece) /\ Len(rest) = n - m /\ \A i \in 1 .. n - m : rest[i] = chunks[i + m]
    BY <2>1, <2>2, DropFacts
  <2>4. QED BY <2>3
<1>8. ASSUME NEW i \in DOMAIN t.chunks
      PROVE  rseq <= t.chunks[i].rseq /\ \E j \in DOMAIN s.chunks : t.chunks[i] = s.chunks[j]
  <2>1. i + m \in 1..n /\ i + m > m /\ t.chunks[i] = chunks[i + m]
    BY <1>2, <1>6, <1>7
  <2>2. QED BY <2>1, <1>2, <1>3
<1>9. ASSUME NEW b \in Store(s.chunks), rseq <= b.pos
      PROVE  b \in Store(t.chunks)
  <2>1. PICK j \in DOMAIN chunks : b \in Elements(chunks[j].data)
    BY DEF Store
  <2>2. b.pos \in Nat /\ Covers(chunks[j], b.pos)
    BY <1>2, <2>1, FullFacts
  <2>3. rseq <= chunks[j].rseq
    <3>1. ~Straddles(chunks[j], rseq)
      OBVIOUS
    <3>2. QED BY <3>1, <2>2, <1>1, <1>2, <1>9 DEF Straddles, Covers
  <2>4. j > m
    <3>1. ~(j \in 1..m)
      BY <2>3, <1>1, <1>2, <1>3
    <3>2. QED BY <3>1, <1>2
  <2>5. j - m \in 1 .. n - m /\ (j - m) + m = j
    BY <2>4, <1>2
  <2>6. j - m \in DOMAIN t.chunks /\ t.chunks[j - m] = chunks[j]
    BY <2>5, <1>6, <1>7
  <2>7. QED BY <2>1, <2>6 DEF Store
<1>10. ASSUME NEW j \in DOMAIN s.chunks, s.cur < s.chunks[j].rseq, s.chunks[j].rseq < rseq
       PROVE  Positions(s.chunks[j].data) \subseteq t.undelivered
  <2>1. ~(rseq <= chunks[j].rseq)
    BY <1>1, <1>2, <1>10
  <2>2. j \in erased
    BY <2>1, <1>2, <1>3
  <2>3. j \in reported
    BY <2>2, <1>2, <1>10
  <2>4. QED BY <2>3, <1>6 DEF undelivered
<1>11. s.undelivered \subseteq t.undelivered
  BY <1>6 DEF undelivered
<1>12. QED BY <1>6, <1>7, <1>8, <1>9, <1>10, <1>11 DEF t

\* What a method that delivers leaves of the rest of the object.
Alike(s, d) ==
  d.autoTrim = s.autoTrim /\ d.missing = s.missing /\ d.written = s.written /\ s.undelivered \subseteq d.undelivered

\* What the object becomes once all that is in order in the list is delivered:
\* what was not waits in the buffer, for what is missing before it.
Delivers(s, list, d) ==
  /\ Plain(d) /\ Alike(s, d)
  /\ Runs(s.delivered, d, s.last, Store(list))
  /\ d.last = s.last \/ \E j \in DOMAIN list : d.last = list[j].rupper
  /\ d.trim = s.trim \/ (s.autoTrim /\ d.trim = d.last)
  /\ ~s.autoTrim => d.chunks = list
  /\ \A i \in DOMAIN d.chunks : \E j \in DOMAIN list : d.chunks[i] = list[j]
  /\ \A b \in Store(list) : d.last <= b.pos => b \in Store(d.chunks)
  /\ \A j \in DOMAIN list : AtRest(list[j], d.last)

\* The object after the loop, before it is trimmed.
LEMMA TurnedDelivers ==
  ASSUME NEW s, Plain(s), NEW e, Turned(s, e, Len(s.chunks))
  PROVE  Delivers(s, s.chunks, e)
<1>1. /\ Good(e) /\ Fixed(s, e) /\ e.cur = e.last /\ e.outcome = "ok" /\ s.last <= e.last
      /\ Runs(s.delivered, e, s.last, Store(s.chunks))
  BY DEF Turned, Runs
<1>2. s.last \in Nat /\ s.trim \in Nat /\ e.last \in Nat /\ e.trim = s.trim /\ s.trim <= s.last
  BY <1>1, GoodNumbers DEF Plain, Fixed
<1>3. e.trim <= e.last
  BY <1>1, <1>2
<1>4. Plain(e)
  BY <1>1, <1>3 DEF Plain, Fixed
<1>5. DOMAIN s.chunks = 1..Len(s.chunks)
  BY FullPieces DEF Plain
<1>6. Alike(s, e) /\ e.chunks = s.chunks /\ e.trim = s.trim
  BY <1>1 DEF Alike, Fixed
<1>7. /\ e.last = s.last \/ \E j \in DOMAIN s.chunks : e.last = s.chunks[j].rupper
      /\ \A j \in DOMAIN s.chunks : AtRest(s.chunks[j], e.last)
  BY <1>5 DEF Turned
<1>8. QED BY <1>1, <1>4, <1>6, <1>7 DEF Delivers

\* Trimming what has been delivered.
LEMMA TrimmedDelivers ==
  ASSUME NEW s, NEW e, Delivers(s, s.chunks, e), e.chunks = s.chunks, s.autoTrim
  PROVE  Delivers(s, s.chunks, Trim(e, e.last))
<1> DEFINE t == Trim(e, e.last)
<1>1. /\ Plain(e) /\ Good(e) /\ e.chunks \in Seq(FullPiece) /\ Alike(s, e)
      /\ Runs(s.delivered, e, s.last, Store(s.chunks))
  BY DEF Delivers, Plain
<1>2. e.last \in Nat /\ e.last \in Seqs
  BY <1>1, GoodNumbers
<1>3. ASSUME NEW i \in DOMAIN e.chunks
      PROVE  ~Straddles(e.chunks[i], e.last)
  <2>1. AtRest(e.chunks[i], e.last)
    BY DEF Delivers
  <2>2. e.chunks[i].rseq \in Nat /\ e.chunks[i].rupper \in Nat
    BY <1>1, FullPieces, FullFacts
  <2>3. QED BY <2>1, <2>2, <1>2 DEF AtRest, Straddles
<1>4. /\ t.chunks \in Seq(FullPiece) /\ t.trim = e.last /\ t.initial = e.initial /\ t.outcome = e.outcome
      /\ t.stuck = e.stuck /\ t.written = e.written /\ e.undelivered \subseteq t.undelivered
      /\ \A i \in DOMAIN t.chunks : \E j \in DOMAIN e.chunks : t.chunks[i] = e.chunks[j]
      /\ \A b \in Store(e.chunks) : e.last <= b.pos => b \in Store(t.chunks)
  BY <1>1, <1>2, <1>3, TrimExact
<1>5. /\ Good(t) /\ t.cur = e.cur /\ t.last = e.last /\ t.units = e.units /\ t.filter = e.filter
      /\ t.held = e.held /\ t.thrown = e.thrown /\ t.delivered = e.delivered
      /\ t.autoTrim = e.autoTrim /\ t.missing = e.missing
  BY <1>1, <1>2, TrimFacts
<1> HIDE DEF t
<1>6. Plain(t)
  <2>1. t.trim <= t.last
    BY <1>2, <1>4, <1>5
  <2>2. QED BY <2>1, <1>1, <1>4, <1>5 DEF Plain
<1>7. Alike(s, t)
  BY <1>1, <1>4, <1>5 DEF Alike
<1>8. Runs(s.delivered, t, s.last, Store(s.chunks))
  BY <1>1, <1>5 DEF Runs
<1>9. QED BY <1>4, <1>5, <1>6, <1>7, <1>8 DEF Delivers, t

\* The loop, when no chunk straddles the position of the stream and those
\* before at, where it starts, are at rest.
LEMMA TryDeliverExact ==
  ASSUME NEW s, Plain(s), NEW at \in Nat \ {0},
         \A i \in DOMAIN s.chunks : ~Straddles(s.chunks[i], s.last) /\ (i < at => AtRest(s.chunks[i], s.last))
  PROVE  Delivers(s, s.chunks, TryDeliver(s, at))
<1> DEFINE n == Len(s.chunks)
           v == Turns(s, at)
           S == {k \in 0..n : Turned(s, v[k], k)}
<1>1. n \in Nat /\ DOMAIN s.chunks = 1..n
  BY FullPieces DEF Plain
<1>2. \A k \in 0..n : v[k] = IF k < at THEN s ELSE TryChunk(v[k - 1], s.chunks[k])
  BY <1>1, TurnsFacts
<1> HIDE DEF n, v
<1>3. 0 \in S
  <2>1. v[0] = s /\ \A j \in 1..0 : AtRest(s.chunks[j], s.last)
    BY <1>1, <1>2
  <2>2. QED BY <2>1, <1>1, TurnStarts
<1>4. ASSUME NEW k \in 0..n, k \in S, k < n
      PROVE  k + 1 \in S
  <2>1. k + 1 \in 0..n /\ k + 1 \in DOMAIN s.chunks /\ k \in Nat /\ (k + 1) - 1 = k /\ Turned(s, v[k], k)
    BY <1>1, <1>4
  <2>2. CASE k + 1 < at
    <3>1. v[k + 1] = s
      BY <2>1, <2>2, <1>2
    <3>2. \A j \in 1 .. k + 1 : j \in DOMAIN s.chunks /\ j < at
      BY <2>1, <2>2, <1>1
    <3>3. \A j \in 1 .. k + 1 : AtRest(s.chunks[j], s.last)
      BY <3>2
    <3>4. Turned(s, s, k + 1)
      BY <2>1, <3>3, TurnStarts
    <3>5. QED BY <2>1, <3>1, <3>4
  <2>3. CASE ~(k + 1 < at)
    <3>1. v[k + 1] = TryChunk(v[k], s.chunks[k + 1])
      BY <2>1, <2>3, <1>2
    <3>2. Turned(s, v[k + 1], k + 1)
      BY <2>1, <3>1, TurnExact
    <3>3. QED BY <2>1, <3>2
  <2>4. QED BY <2>2, <2>3
<1>5. Turned(s, v[n], n)
  <2>1. \A k \in 0..n : k \in S
    <3> HIDE DEF S
    <3>1. QED BY <1>1, <1>3, <1>4, UpTo
  <2>2. n \in S
    BY <1>1, <2>1
  <2>3. QED BY <2>2
<1> DEFINE e == v[n]
<1> HIDE DEF e
<1>6. Delivers(s, s.chunks, e) /\ e.chunks = s.chunks /\ e.autoTrim = s.autoTrim /\ e.outcome = "ok"
  BY <1>5, TurnedDelivers DEF e, n, Turned, Fixed
<1>7. TryDeliver(s, at) = IF s.autoTrim THEN Trim(e, e.last) ELSE e
  BY <1>6 DEF TryDeliver, e, v, n
<1>8. QED BY <1>6, <1>7, TrimmedDelivers

\* The tail of newData.
LEMMA BufferedExact ==
  ASSUME NEW s, Plain(s), \A j \in DOMAIN s.chunks : AtRest(s.chunks[j], s.last),
         NEW block \in FullPiece, NEW list, NEW at, Merged(list, at, s.chunks, block),
         ~Straddles(block, s.last) \/ \A p \in Nat : p < s.last => Spans(s.chunks, p)
  PROVE  Delivers(s, list, Buffered(s, list, at))
<1> DEFINE b == [s EXCEPT !.chunks = list]
           d == Buffered(s, list, at)
<1>1. Good(s) /\ s \in Object /\ s.last \in Nat /\ s.chunks \in Seq(FullPiece)
  BY GoodNumbers DEF Plain
<1>2. list \in Seq(FullPiece) /\ Ordered(list) /\ at \in DOMAIN list
  BY DEF Merged, Mixes
<1>3. at \in Nat \ {0} /\ list \in Seq(Piece) /\ list[at].rseq \in Nat
  BY <1>2, FullPieces, FullFacts
<1>4. b \in Object
  BY <1>1, <1>3 DEF Object
<1>5. /\ b.cur = s.cur /\ b.last = s.last /\ b.units = s.units /\ b.filter = s.filter
      /\ b.held = s.held /\ b.thrown = s.thrown /\ b.delivered = s.delivered /\ b.back = s.back
      /\ b.chunks = list /\ b.trim = s.trim /\ b.autoTrim = s.autoTrim /\ b.initial = s.initial
      /\ b.outcome = s.outcome /\ b.stuck = s.stuck /\ b.missing = s.missing /\ b.written = s.written
      /\ b.undelivered = s.undelivered
  BY <1>1 DEF Object
<1>6. d = IF list[at].rseq > s.last \/ list[at].rupper <= s.last THEN b ELSE TryDeliver(b, at)
  BY <1>3 DEF Buffered
<1> HIDE DEF b, d
<1>7. Good(b)
  BY <1>1, <1>2, <1>4, <1>5, SameFields
<1>8. Plain(b)
  BY <1>2, <1>5, <1>7 DEF Plain
<1>9. /\ \A i \in DOMAIN list : ~Straddles(list[i], s.last) /\ (i < at => AtRest(list[i], s.last))
      /\ AtRest(list[at], s.last) => \A i \in DOMAIN list : AtRest(list[i], s.last)
  BY <1>1, MergedRests
<1>10. Delivers(b, list, d)
  <2>1. CASE list[at].rseq > s.last \/ list[at].rupper <= s.last
    <3>1. AtRest(list[at], s.last)
      BY <2>1, <1>1, <1>3 DEF AtRest
    <3>2. \A i \in 1..Len(list) : AtRest(b.chunks[i], b.last)
      BY <3>1, <1>2, <1>5, <1>9
    <3>3. Len(list) \in Nat
      BY <1>2
    <3>4. Turned(b, b, Len(b.chunks))
      BY <3>2, <3>3, <1>5, <1>8, TurnStarts
    <3>5. Delivers(b, b.chunks, b)
      BY <3>4, <1>8, TurnedDelivers
    <3>6. QED BY <3>5, <2>1, <1>5, <1>6
  <2>2. CASE ~(list[at].rseq > s.last \/ list[at].rupper <= s.last)
    <3>1. \A i \in DOMAIN b.chunks : ~Straddles(b.chunks[i], b.last) /\ (i < at => AtRest(b.chunks[i], b.last))
      BY <1>5, <1>9
    <3>2. Delivers(b, b.chunks, TryDeliver(b, at))
      BY <3>1, <1>3, <1>8, TryDeliverExact
    <3>3. QED BY <3>2, <2>2, <1>5, <1>6
  <2>3. QED BY <2>1, <2>2
<1>11. Delivers(s, list, d)
  BY <1>5, <1>10 DEF Delivers, Alike
<1>12. QED BY <1>11 DEF d

\* A block that is next in order, when nothing waits.
LEMMA DirectExact ==
  ASSUME NEW s, Plain(s), s.autoTrim, s.chunks = <<>>, NEW block \in FullPiece, block.rseq = s.cur
  PROVE  Delivers(s, <<block>>, Deliver(s, block))
<1> DEFINE d == Deliver(s, block)
           list == <<block>>
<1>1. /\ Good(s) /\ s \in Object /\ s.last \in Nat /\ s.last \in Seqs /\ s.trim \in Nat /\ s.delivered \in Seq(Byte)
      /\ s.units = <<>> /\ ~s.filter /\ s.held = <<>> /\ s.cur = s.last /\ s.trim <= s.last
  BY GoodNumbers DEF Plain
<1>2. block \in Piece /\ block.rseq \in Nat /\ block.rupper \in Nat /\ block.rseq < block.rupper
  BY FullFacts
<1>3. list \in Seq(FullPiece) /\ DOMAIN list = {1} /\ list[1] = block
  OBVIOUS
<1> HIDE DEF list
<1>4. Good(d)
  BY <1>1, <1>2, DeliverGood DEF Becomes
<1>5. [s EXCEPT !.last = s.last] = s
  BY <1>1 DEF Object
<1>6. /\ d.cur = block.rupper /\ d.last = block.rupper /\ d.outcome = "ok" /\ d.delivered = s.delivered \o block.data
      /\ Fixed(s, d)
  <2> DEFINE t == [s EXCEPT !.last = s.last]
  <2>1. /\ Deliver(t, block).cur = block.rupper /\ Deliver(t, block).last = block.rupper
        /\ Deliver(t, block).outcome = "ok" /\ Deliver(t, block).delivered = s.delivered \o block.data
        /\ Fixed(s, Deliver(t, block))
    BY <1>1, DeliverPlain
  <2>2. t = s
    BY <1>5
  <2> HIDE DEF t
  <2>3. QED BY <2>1, <2>2
<1> HIDE DEF d
<1>7. d.trim = s.trim /\ d.chunks = <<>> /\ d.trim <= d.last
  BY <1>1, <1>2, <1>6 DEF Fixed
<1>8. Plain(d) /\ Alike(s, d)
  BY <1>4, <1>6, <1>7 DEF Plain, Alike, Fixed
<1>9. Elements(block.data) = Store(list)
  BY <1>3 DEF Store
<1>10. Runs(s.delivered, d, s.last, Store(list))
  <2>1. Runs(s.delivered, s, s.last, Store(list))
    <3>1. s.last <= s.last /\ <<>> \in Seq(Byte) /\ Len(<<>>) = s.last - s.last /\ 1..Len(<<>>) = {}
      BY <1>1
    <3>2. s.delivered = s.delivered \o <<>>
      BY <1>1, Joined
    <3>3. QED BY <3>1, <3>2, Zenon DEF Runs
  <2>2. QED BY <2>1, <1>1, <1>6, <1>9, RunsOn
<1>11. \A b \in Store(list) : ~(d.last <= b.pos)
  <2>1. ASSUME NEW b \in Store(list)
        PROVE  ~(d.last <= b.pos)
    <3>1. b.pos \in Nat /\ Covers(block, b.pos)
      BY <1>9, FullFacts
    <3>2. QED BY <3>1, <1>2, <1>6 DEF Covers
  <2>2. QED BY <2>1
<1>12. AtRest(block, d.last)
  BY <1>2, <1>6 DEF AtRest
<1>13. DOMAIN d.chunks = {}
  BY <1>7
<1>14. QED BY <1>3, <1>6, <1>7, <1>8, <1>10, <1>11, <1>12, <1>13 DEF Delivers, d, list

\* newData() for a block that does not straddle the position of the stream, or
\* brings nothing new before it, and does not straddle the position trimmed to.
LEMMA NewDataExact ==
  ASSUME NEW s, Plain(s), \A j \in DOMAIN s.chunks : AtRest(s.chunks[j], s.last), NEW block \in FullPiece,
         NEW len \in Nat, block.rseq + len = block.rupper, ~Straddles(block, s.trim),
         ~Straddles(block, s.last) \/ \A p \in Nat : p < s.last => Spans(s.chunks, p)
  PROVE  LET d == NewData(s, block.data, block.rseq, len) IN
         \/ d = s /\ block.rupper <= s.trim
         \/ \E list, at : Merged(list, at, s.chunks, block) /\ Delivers(s, list, d)
<1> DEFINE d == NewData(s, block.data, block.rseq, len)
           old == IF block.rseq < s.trim THEN s.trim - block.rseq ELSE 0
           from == block.rseq + old
           kept == IF block.data = Unset THEN Unset ELSE Drop(block.data, old)
           added == AddAndCheck(s.chunks, kept, from, block.rupper)
<1>1. /\ Good(s) /\ s \in Object /\ s.trim \in Nat /\ s.chunks \in Seq(FullPiece) /\ Ordered(s.chunks)
  BY GoodNumbers DEF Plain
<1>2. /\ block.rseq \in Nat /\ block.rupper \in Nat /\ block.rseq < block.rupper /\ block.data # Unset
      /\ block.data \in Seq(Byte) /\ block.rupper \in Seqs /\ len # 0
  BY FullFacts
<1>3. Plus(block.rseq, len) = block.rupper
  <2>1. block.rupper < SeqBound
    BY <1>2, PositionsWrap
  <2>2. QED BY <2>1, <1>2, PositionsWrap
<1>4. d = IF s.autoTrim /\ s.chunks = <<>> /\ block.rseq = s.cur THEN Deliver(s, block)
          ELSE IF block.rupper <= s.trim THEN s
          ELSE IF s.chunks = <<>> THEN Buffered(s, <<Chunk(kept, from, Plus(from, len))>>, 1)
          ELSE Buffered(s, added.list, added.at)
  BY <1>2, <1>3, FullIsChunk DEF NewData
<1> HIDE DEF d
<1>5. CASE s.autoTrim /\ s.chunks = <<>> /\ block.rseq = s.cur
  <2>1. Merged(<<block>>, 1, s.chunks, block)
    BY <1>5, FirstMerged
  <2>2. Delivers(s, <<block>>, d)
    BY <1>4, <1>5, DirectExact
  <2>3. QED BY <2>1, <2>2 DEF d
<1>6. CASE ~(s.autoTrim /\ s.chunks = <<>> /\ block.rseq = s.cur) /\ block.rupper <= s.trim
  BY <1>4, <1>6 DEF d
<1>7. CASE ~(s.autoTrim /\ s.chunks = <<>> /\ block.rseq = s.cur) /\ ~(block.rupper <= s.trim)
  <2>1. old = 0 /\ from = block.rseq
    BY <1>1, <1>2, <1>7 DEF Straddles
  <2>2. kept = block.data
    <3>1. Drop(block.data, 0) = block.data
      BY <1>2 DEF Drop
    <3> HIDE DEF old
    <3>2. QED BY <3>1, <2>1, <1>2
  <2> HIDE DEF old, from, kept
  <2>3. CASE s.chunks = <<>>
    <3>1. d = Buffered(s, <<block>>, 1)
      BY <2>1, <2>2, <2>3, <1>3, <1>4, <1>7, FullIsChunk
    <3>2. Merged(<<block>>, 1, s.chunks, block)
      BY <2>3, FirstMerged
    <3>3. Delivers(s, <<block>>, d)
      BY <3>1, <3>2, BufferedExact
    <3>4. QED BY <3>2, <3>3 DEF d
  <2>4. CASE s.chunks # <<>>
    <3>1. d = Buffered(s, added.list, added.at)
      BY <2>4, <1>4, <1>7
    <3>2. Merged(added.list, added.at, s.chunks, block)
      BY <2>1, <2>2, <2>4, <1>1, AddAndCheckFull
    <3> HIDE DEF added
    <3>3. Delivers(s, added.list, d)
      BY <3>1, <3>2, BufferedExact
    <3>4. QED BY <3>2, <3>3 DEF d
  <2>5. QED BY <2>3, <2>4
<1>8. QED BY <1>5, <1>6, <1>7

\* Reporting what is before a position that no chunk straddles.
LEMMA ReportExact ==
  ASSUME NEW s, Good(s), s.chunks \in Seq(FullPiece), NEW rseq \in Seqs,
         \A i \in DOMAIN s.chunks : ~Straddles(s.chunks[i], rseq)
  PROVE  LET t == ReportUndeliveredUpTo(s, rseq) IN
         /\ t.chunks = s.chunks /\ t.trim = s.trim /\ t.initial = s.initial /\ t.outcome = s.outcome
         /\ t.stuck = s.stuck /\ t.written = s.written /\ s.undelivered \subseteq t.undelivered
         /\ \A j \in DOMAIN s.chunks : s.chunks[j].rseq < rseq => Positions(s.chunks[j].data) \subseteq t.undelivered
<1> DEFINE Before(i) == \A j \in 1..i : s.chunks[j].rseq < rseq
           Reported(c) == IF c.rupper <= rseq THEN c.data
                          ELSE SubSeq(c.data, 1, Min({c.rupper - rseq, Len(c.data)}))
           visited == {i \in DOMAIN s.chunks : Before(i) /\ s.chunks[i].data # Unset}
           u == s.undelivered \cup UNION {Positions(Reported(s.chunks[i])) : i \in visited}
           t == ReportUndeliveredUpTo(s, rseq)
<1>1. s \in Object /\ Ordered(s.chunks) /\ rseq \in Nat
  BY PositionsWrap DEF Good
<1>2. /\ DOMAIN s.chunks = 1..Len(s.chunks) /\ Len(s.chunks) \in Nat
      /\ \A i \in DOMAIN s.chunks : /\ s.chunks[i].data # Unset /\ s.chunks[i].rseq < s.chunks[i].rupper
                                    /\ s.chunks[i].rseq \in Nat /\ s.chunks[i].rupper \in Nat
  BY FullPieces, FullFacts
<1>3. t = [s EXCEPT !.undelivered = u]
  BY DEF ReportUndeliveredUpTo
<1>4. ASSUME NEW j \in DOMAIN s.chunks, s.chunks[j].rseq < rseq
      PROVE  Positions(s.chunks[j].data) \subseteq u
  <2>1. ASSUME NEW i \in 1..j
        PROVE  s.chunks[i].rseq < rseq
    <3>1. i \in DOMAIN s.chunks /\ j \in DOMAIN s.chunks /\ (i = j \/ i < j)
      BY <1>2
    <3>2. i = j \/ s.chunks[i].rupper <= s.chunks[j].rseq
      BY <3>1, <1>1 DEF Ordered
    <3>3. /\ s.chunks[i].rseq \in Nat /\ s.chunks[i].rupper \in Nat /\ s.chunks[j].rseq \in Nat
          /\ s.chunks[i].rseq < s.chunks[i].rupper
      BY <3>1, <1>2
    <3>4. QED BY <3>2, <3>3, <1>1, <1>4
  <2>2. Before(j)
    BY <2>1
  <2> HIDE DEF Before
  <2>3. j \in visited
    BY <2>2, <1>2
  <2>4. s.chunks[j].rupper <= rseq
    <3>1. ~Straddles(s.chunks[j], rseq)
      OBVIOUS
    <3>2. QED BY <3>1, <1>1, <1>2, <1>4 DEF Straddles
  <2>5. Reported(s.chunks[j]) = s.chunks[j].data
    BY <2>4
  <2> HIDE DEF Reported, visited
  <2>6. QED BY <2>3, <2>5
<1> HIDE DEF u, t
<1>5. /\ t.chunks = s.chunks /\ t.trim = s.trim /\ t.initial = s.initial /\ t.outcome = s.outcome
      /\ t.stuck = s.stuck /\ t.written = s.written /\ t.undelivered = u
  BY <1>1, <1>3 DEF Object
<1>6. s.undelivered \subseteq u
  BY DEF u
<1>7. QED BY <1>4, <1>5, <1>6 DEF t

\* What the object becomes when it skips to a position.
Skipped(s, rseq, d) ==
  /\ Plain(d) /\ d.autoTrim = s.autoTrim /\ d.written = s.written
  /\ d.missing = s.missing \cup Within(0, rseq)
  /\ Runs(s.delivered, d, rseq, Store(s.chunks))
  /\ d.last = rseq \/ \E j \in DOMAIN s.chunks : d.last = s.chunks[j].rupper
  /\ d.trim = s.trim \/ d.trim = rseq \/ d.trim = d.last
  /\ \A i \in DOMAIN d.chunks : AtRest(d.chunks[i], d.last) /\ \E j \in DOMAIN s.chunks : d.chunks[i] = s.chunks[j]
  /\ \A b \in Store(s.chunks) : d.last <= b.pos => b \in Store(d.chunks)
  /\ \A j \in DOMAIN s.chunks : s.cur < s.chunks[j].rseq /\ s.chunks[j].rseq < rseq =>
       Positions(s.chunks[j].data) \subseteq d.undelivered

\* skip(), forward and to a position that no chunk straddles.
LEMMA SkipToExact ==
  ASSUME NEW s, Plain(s), NEW rseq \in Seqs, s.last <= rseq, \A i \in DOMAIN s.chunks : ~Straddles(s.chunks[i], rseq)
  PROVE  Skipped(s, rseq, SkipTo(s, rseq))
<1> DEFINE t == IF s.autoTrim THEN Trim(s, rseq) ELSE ReportUndeliveredUpTo(s, rseq)
           missing == t.missing \cup Within(0, rseq)
           back == t.back \/ rseq < s.cur
           r == [t EXCEPT !.cur = rseq, !.last = rseq, !.stuck = FALSE, !.missing = missing, !.back = back]
           d == TryDeliver(r, 1)
<1>1. /\ Good(s) /\ s.last \in Nat /\ s.trim \in Nat /\ rseq \in Nat /\ s.chunks \in Seq(FullPiece)
      /\ s.trim <= s.last /\ s.cur \in Nat
  BY GoodNumbers, PositionsWrap DEF Plain
<1>2. /\ Good(t) /\ t.units = s.units /\ t.filter = s.filter /\ t.held = s.held /\ t.thrown = s.thrown
      /\ t.delivered = s.delivered /\ t.autoTrim = s.autoTrim /\ t.missing = s.missing
      /\ t.chunks \in Seq(FullPiece) /\ t.initial = s.initial /\ t.outcome = s.outcome /\ t.written = s.written
      /\ t.trim = s.trim \/ t.trim = rseq
      /\ \A i \in DOMAIN t.chunks : \E j \in DOMAIN s.chunks : t.chunks[i] = s.chunks[j]
      /\ \A b \in Store(s.chunks) : rseq <= b.pos => b \in Store(t.chunks)
      /\ \A j \in DOMAIN s.chunks : s.cur < s.chunks[j].rseq /\ s.chunks[j].rseq < rseq =>
           Positions(s.chunks[j].data) \subseteq t.undelivered
  <2>1. CASE s.autoTrim
    <3>1. t = Trim(s, rseq)
      BY <2>1
    <3> HIDE DEF t
    <3>2. QED BY <3>1, <1>1, TrimFacts, TrimExact
  <2>2. CASE ~s.autoTrim
    <3>1. t = ReportUndeliveredUpTo(s, rseq)
      BY <2>2
    <3> HIDE DEF t
    <3>2. QED BY <3>1, <1>1, ReportFacts, ReportExact
  <2>3. QED BY <2>1, <2>2
<1>3. SkipTo(s, rseq) = d
  BY DEF SkipTo
<1> HIDE DEF t
<1>4. t \in Object /\ missing \in SUBSET Seqs /\ back \in BOOLEAN
  <2>1. t \in Object
    BY <1>2 DEF Good
  <2>2. t.missing \subseteq Seqs /\ t.back \in BOOLEAN
    BY <2>1, ObjectFacts
  <2>3. QED BY <2>1, <2>2, <1>1, WithinType
<1> HIDE DEF missing, back
<1>5. r \in Object
  BY <1>4 DEF Object
<1>6. /\ r.cur = rseq /\ r.last = rseq /\ r.stuck = FALSE /\ r.missing = missing /\ r.units = t.units
      /\ r.filter = t.filter /\ r.held = t.held /\ r.thrown = t.thrown /\ r.delivered = t.delivered
      /\ r.autoTrim = t.autoTrim /\ r.chunks = t.chunks /\ r.initial = t.initial /\ r.outcome = t.outcome
      /\ r.trim = t.trim /\ r.written = t.written /\ r.undelivered = t.undelivered
  BY <1>4 DEF Object
<1> HIDE DEF r, d
<1>7. Plain(r)
  <2>1. r.units = <<>> /\ r.held = <<>>
    BY <1>2, <1>6 DEF Plain
  <2>2. InOrder(r) /\ InStep(r)
    BY <2>1, <1>1, <1>6 DEF InOrder, InStep
  <2>3. Good(r)
    BY <2>2, <1>2, <1>5, <1>6 DEF Good
  <2>4. r.trim <= r.last
    BY <1>1, <1>2, <1>6
  <2>5. QED BY <2>1, <2>3, <2>4, <1>2, <1>6 DEF Plain
<1>8. \A i \in DOMAIN r.chunks : ~Straddles(r.chunks[i], r.last) /\ ~(i < 1)
  <2>1. \A i \in DOMAIN r.chunks : i \in Nat \ {0}
    BY <1>2, <1>6, FullPieces
  <2>2. QED BY <2>1, <1>2, <1>6
<1>9. Delivers(r, r.chunks, d)
  BY <1>7, <1>8, TryDeliverExact DEF d
<1>10. /\ Plain(d) /\ d.autoTrim = s.autoTrim /\ d.written = s.written /\ t.undelivered \subseteq d.undelivered
       /\ d.missing = s.missing \cup Within(0, rseq)
  <2>1. Plain(d) /\ d.autoTrim = r.autoTrim /\ d.written = r.written /\ r.undelivered \subseteq d.undelivered
        /\ d.missing = r.missing
    BY <1>9 DEF Delivers, Alike
  <2>2. r.missing = s.missing \cup Within(0, rseq)
    BY <1>2, <1>6 DEF missing
  <2>3. QED BY <2>1, <2>2, <1>2, <1>6
<1>11. /\ rseq <= d.last /\ d.last \in Nat
       /\ Runs(s.delivered, d, rseq, Store(r.chunks))
  <2>1. Runs(r.delivered, d, r.last, Store(r.chunks)) /\ Plain(d)
    BY <1>9 DEF Delivers
  <2>2. Runs(s.delivered, d, rseq, Store(r.chunks))
    BY <2>1, <1>2, <1>6
  <2>3. d.last \in Nat
    BY <2>1, GoodNumbers DEF Plain
  <2>4. QED BY <2>2, <2>3 DEF Runs
<1>12. Store(r.chunks) \subseteq Store(s.chunks)
  BY <1>2, <1>6 DEF Store
<1>13. Runs(s.delivered, d, rseq, Store(s.chunks))
  BY <1>11, <1>12 DEF Runs
<1>14. \A i \in DOMAIN d.chunks : AtRest(d.chunks[i], d.last) /\ \E j \in DOMAIN s.chunks : d.chunks[i] = s.chunks[j]
  BY <1>2, <1>6, <1>9 DEF Delivers
<1>15. d.last = rseq \/ \E j \in DOMAIN s.chunks : d.last = s.chunks[j].rupper
  BY <1>2, <1>6, <1>9 DEF Delivers
<1>16. d.trim = s.trim \/ d.trim = rseq \/ d.trim = d.last
  BY <1>2, <1>6, <1>9 DEF Delivers
<1>17. ASSUME NEW b \in Store(s.chunks), d.last <= b.pos
       PROVE  b \in Store(d.chunks)
  <2>1. b.pos \in Nat
    BY <1>1, StoreFacts DEF Good
  <2>2. b \in Store(t.chunks)
    BY <2>1, <1>1, <1>2, <1>11, <1>17
  <2>3. QED BY <2>2, <1>6, <1>9, <1>17 DEF Delivers
<1>18. Skipped(s, rseq, d)
  BY <1>2, <1>10, <1>13, <1>14, <1>15, <1>16, <1>17 DEF Skipped
<1>19. QED BY <1>3, <1>18

(************************ What careful callers see ************************)

\* The positions delivered, when bytes were handed over.
LEMMA RunsPositions ==
  ASSUME NEW before \in Seq(Byte), NEW d, d.last \in Nat, NEW from \in Nat, NEW pool, Runs(before, d, from, pool)
  PROVE  /\ \A p : p \in Positions(d.delivered) <=> p \in Positions(before) \/ (p \in Nat /\ from <= p /\ p < d.last)
         /\ \A p \in Nat : from <= p /\ p < d.last => \E b \in pool : b.pos = p
<1>1. PICK tail \in Seq(Byte) :
        /\ d.delivered = before \o tail /\ Len(tail) = d.last - from
        /\ \A i \in 1..Len(tail) : tail[i] \in pool /\ tail[i].pos = from + (i - 1)
  BY DEF Runs
<1>2. from <= d.last
  BY DEF Runs
<1>3. DOMAIN tail = 1 .. d.last - from /\ \A i \in DOMAIN tail : tail[i] \in pool /\ tail[i].pos = from + (i - 1)
  BY <1>1
<1>4. Positions(d.delivered) = Positions(before) \cup Positions(tail)
  BY <1>1, PositionsAppend
<1>5. ASSUME NEW p \in Nat, from <= p, p < d.last
      PROVE  \E i \in DOMAIN tail : tail[i] \in pool /\ tail[i].pos = p
  <2>1. (p - from) + 1 \in 1 .. d.last - from /\ from + (((p - from) + 1) - 1) = p
    BY <1>2, <1>5
  <2>2. QED BY <2>1, <1>3
<1>6. ASSUME NEW p \in Positions(tail)
      PROVE  p \in Nat /\ from <= p /\ p < d.last
  <2>1. PICK i \in DOMAIN tail : p = tail[i].pos
    BY DEF Positions
  <2>2. i \in 1 .. d.last - from /\ p = from + (i - 1)
    BY <2>1, <1>3
  <2>3. QED BY <2>2, <1>2
<1>7. ASSUME NEW p \in Nat, from <= p, p < d.last
      PROVE  p \in Positions(tail)
  BY <1>5, <1>7 DEF Positions
<1>8. QED BY <1>4, <1>5, <1>6, <1>7

\* Nothing is handed over.
LEMMA RunsNowhere ==
  ASSUME NEW s, s.delivered \in Seq(Byte), s.last \in Nat, NEW pool
  PROVE  Runs(s.delivered, s, s.last, pool)
<1>1. s.last <= s.last /\ <<>> \in Seq(Byte) /\ Len(<<>>) = s.last - s.last /\ 1..Len(<<>>) = {}
  OBVIOUS
<1>2. s.delivered = s.delivered \o <<>>
  BY Joined
<1>3. QED BY <1>1, <1>2, Zenon DEF Runs

\* All before the position of the stream was delivered or is missing, and of
\* what was written, the rest waits.
Reached(s) ==
  /\ \A p \in Delivered(s) : p < s.last
  /\ \A p \in Nat : p < s.last => p \in Delivered(s) \cup s.missing
Exact(s) ==
  /\ Plain(s) /\ Reached(s)
  /\ \A i \in DOMAIN s.chunks : AtRest(s.chunks[i], s.last)
  /\ \A p \in s.written : p < s.last \/ Spans(s.chunks, p)

\* What a write of data from rseq to rupper, a block, makes of the object.
Wrote(s, block, d) ==
  /\ d.autoTrim = s.autoTrim /\ d.missing = s.missing
  /\ Runs(s.delivered, d, s.last, Pool(s.chunks, block.data))
  /\ Store(d.chunks) \subseteq Pool(s.chunks, block.data)
  /\ \A b \in Pool(s.chunks, block.data) : d.last <= b.pos => b \in Store(d.chunks)
  /\ ~s.autoTrim /\ s.trim = 0 => d.trim = 0 /\ Pool(s.chunks, block.data) \subseteq Store(d.chunks)
  /\ d.last = s.last \/ d.last \in Bounds(s.chunks, block)
  /\ d.trim = s.trim \/ d.trim = d.last
  /\ \A i \in DOMAIN d.chunks :
       Old(d.chunks[i], s.chunks, Len(s.chunks)) \/ New(d.chunks[i], s.chunks, block)

\* What delivering from a list makes of an object that was exact before.
LEMMA DeliversExact ==
  ASSUME NEW s, Plain(s), Reached(s), NEW list \in Seq(FullPiece), Ordered(list), NEW d, Delivers(s, list, d),
         \A p \in s.written : p < s.last \/ Spans(list, p)
  PROVE  Exact(d)
<1>1. /\ Plain(d) /\ Good(d) /\ d.written = s.written /\ d.missing = s.missing
      /\ Runs(s.delivered, d, s.last, Store(list))
      /\ \A i \in DOMAIN d.chunks : AtRest(d.chunks[i], d.last)
      /\ d.chunks \in Seq(FullPiece) /\ Ordered(d.chunks)
  <2>1. Plain(d) /\ Good(d) /\ d.written = s.written /\ d.missing = s.missing /\ d.chunks \in Seq(FullPiece)
        /\ Ordered(d.chunks) /\ Runs(s.delivered, d, s.last, Store(list))
    BY DEF Delivers, Alike, Plain, Good
  <2>2. \A i \in DOMAIN d.chunks : AtRest(d.chunks[i], d.last)
    BY DEF Delivers
  <2>3. QED BY <2>1, <2>2
<1>2. s.last \in Nat /\ d.last \in Nat /\ s.delivered \in Seq(Byte) /\ s.last <= d.last /\ s.written \subseteq Nat
  <2>1. s.last \in Nat /\ d.last \in Nat /\ s.delivered \in Seq(Byte) /\ s \in Object
    BY <1>1, GoodNumbers DEF Plain
  <2>2. s.written \subseteq Nat
    BY <2>1, ObjectFacts, PositionsWrap
  <2>3. QED BY <2>1, <2>2, <1>1 DEF Runs
<1>3. \A p : p \in Delivered(d) <=> p \in Delivered(s) \/ (p \in Nat /\ s.last <= p /\ p < d.last)
  BY <1>1, <1>2, RunsPositions DEF Delivered
<1>4. Delivered(s) \subseteq Nat
  BY <1>2, PositionsType, PositionsWrap DEF Delivered
<1>5. Reached(d)
  <2>1. \A p \in Delivered(d) : p < d.last
    BY <1>2, <1>3, <1>4 DEF Reached
  <2>2. \A p \in Nat : p < d.last => p \in Delivered(d) \cup d.missing
    BY <1>1, <1>2, <1>3 DEF Reached
  <2>3. QED BY <2>1, <2>2 DEF Reached
<1>6. ASSUME NEW p \in d.written, ~(p < d.last)
      PROVE  Spans(d.chunks, p)
  <2>1. p \in Nat /\ d.last <= p /\ Spans(list, p)
    BY <1>1, <1>2, <1>6
  <2>2. PICK b \in Store(list) : b.pos = p
    BY <2>1, StoreFacts
  <2>3. b \in Store(d.chunks)
    BY <2>1, <2>2 DEF Delivers
  <2>4. QED BY <2>2, <2>3, <1>1, StoreFacts
<1>7. QED BY <1>1, <1>5, <1>6 DEF Exact

\* skip(): what was announced as missing before the position skipped to, and
\* what is in order behind it.
LEMMA SkippedExact ==
  ASSUME NEW s, Exact(s), NEW rseq \in Seqs, s.last <= rseq, NEW d, Skipped(s, rseq, d)
  PROVE  Exact(d)
<1>1. /\ Plain(s) /\ Plain(d) /\ d.written = s.written /\ d.missing = s.missing \cup Within(0, rseq)
      /\ Runs(s.delivered, d, rseq, Store(s.chunks))
      /\ \A i \in DOMAIN d.chunks : AtRest(d.chunks[i], d.last)
      /\ \A b \in Store(s.chunks) : d.last <= b.pos => b \in Store(d.chunks)
  BY DEF Exact, Skipped
<1>2. /\ s.chunks \in Seq(FullPiece) /\ Ordered(s.chunks) /\ d.chunks \in Seq(FullPiece) /\ Ordered(d.chunks)
      /\ s.last \in Nat /\ d.last \in Nat /\ s.delivered \in Seq(Byte) /\ s \in Object /\ rseq \in Nat
  BY <1>1, GoodNumbers, PositionsWrap DEF Plain
<1>3. /\ s.written \subseteq Nat /\ rseq <= d.last /\ Delivered(s) \subseteq Nat
      /\ \A p \in Delivered(s) : p < s.last
  <2>1. s.written \subseteq Nat
    BY <1>2, ObjectFacts, PositionsWrap
  <2>2. Delivered(s) \subseteq Nat
    BY <1>2, PositionsType, PositionsWrap DEF Delivered
  <2>3. QED BY <2>1, <2>2, <1>1 DEF Runs, Exact, Reached
<1>4. \A p : p \in Delivered(d) <=> p \in Delivered(s) \/ (p \in Nat /\ rseq <= p /\ p < d.last)
  BY <1>1, <1>2, RunsPositions DEF Delivered
<1>5. \A p \in Nat : p < rseq => p \in d.missing
  <2>1. \A p \in Nat : p < rseq => p \in Seqs
    BY <1>2, PositionsWrap DEF Seqs
  <2>2. \A p \in Nat : p < rseq => p \in Within(0, rseq)
    BY <2>1 DEF Within
  <2>3. QED BY <2>2, <1>1
<1>6. Reached(d)
  <2>1. \A p \in Delivered(d) : p < d.last
    BY <1>2, <1>3, <1>4
  <2>2. \A p \in Nat : p < d.last => p \in Delivered(d) \cup d.missing
    BY <1>2, <1>4, <1>5
  <2>3. QED BY <2>1, <2>2 DEF Reached
<1>7. ASSUME NEW p \in d.written, ~(p < d.last)
      PROVE  Spans(d.chunks, p)
  <2>1. p \in Nat /\ d.last <= p /\ ~(p < s.last)
    BY <1>1, <1>2, <1>3, <1>7
  <2>2. Spans(s.chunks, p)
    BY <2>1, <1>1, <1>7 DEF Exact
  <2>3. PICK b \in Store(s.chunks) : b.pos = p
    BY <2>1, <2>2, <1>2, StoreFacts
  <2>4. b \in Store(d.chunks)
    BY <2>1, <2>3, <1>1
  <2>5. QED BY <2>3, <2>4, <1>2, StoreFacts
<1>8. QED BY <1>1, <1>6, <1>7 DEF Exact

\* The object with what is about to be written noted down.
Noted(s, more) == [s EXCEPT !.written = s.written \cup more]

\* It is as it was, but for the note.
LEMMA NotedFacts ==
  ASSUME NEW s, Exact(s), NEW more \in SUBSET Seqs, NEW w, w = Noted(s, more)
  PROVE  /\ Plain(w) /\ Reached(w) /\ w.chunks = s.chunks /\ w.last = s.last /\ w.trim = s.trim
         /\ w.autoTrim = s.autoTrim /\ w.missing = s.missing /\ w.delivered = s.delivered
         /\ w.written = s.written \cup more
<1>1. s \in Object /\ Ordered(s.chunks) /\ Good(s) /\ Plain(s) /\ Reached(s)
  BY GoodNumbers DEF Exact, Plain
<1>2. s.written \cup more \in SUBSET Seqs
  BY <1>1, ObjectFacts
<1>3. /\ w \in Object
      /\ w.cur = s.cur /\ w.last = s.last /\ w.units = s.units /\ w.filter = s.filter
      /\ w.held = s.held /\ w.thrown = s.thrown /\ w.delivered = s.delivered /\ w.back = s.back
      /\ w.chunks = s.chunks /\ w.trim = s.trim /\ w.undelivered = s.undelivered /\ w.autoTrim = s.autoTrim
      /\ w.initial = s.initial /\ w.stuck = s.stuck /\ w.outcome = s.outcome /\ w.missing = s.missing
      /\ w.written = s.written \cup more
  BY <1>1, <1>2 DEF Object, Noted
<1>4. Good(w)
  BY <1>1, <1>3, SameFields
<1>5. Plain(w)
  BY <1>1, <1>3, <1>4 DEF Plain
<1>6. Reached(w)
  BY <1>1, <1>3 DEF Reached, Delivered
<1>7. QED BY <1>1, <1>3, <1>5, <1>6

\* A write that brings nothing new beyond the position trimmed to changes nothing.
LEMMA WroteNothing ==
  ASSUME NEW s, Exact(s), NEW data \in Seq(Byte), NEW block, block.data = data,
         NEW w, w = Noted(s, Positions(data)),
         \A b \in Elements(data) : b.pos \in Nat /\ b.pos < s.trim
  PROVE  Exact(w) /\ Wrote(s, block, w)
<1> DEFINE more == Positions(data)
<1>1. more \in SUBSET Seqs /\ w = Noted(s, more)
  BY PositionsType
<1> HIDE DEF more
<1>2. /\ Plain(w) /\ Reached(w) /\ w.chunks = s.chunks /\ w.last = s.last /\ w.trim = s.trim
      /\ w.autoTrim = s.autoTrim /\ w.missing = s.missing /\ w.delivered = s.delivered
      /\ w.written = s.written \cup more
  BY <1>1, NotedFacts
<1>3. /\ s.last \in Nat /\ s.trim \in Nat /\ s.trim <= s.last /\ s.delivered \in Seq(Byte)
      /\ s.chunks \in Seq(FullPiece)
  BY GoodNumbers DEF Exact, Plain
<1>4. \A b \in Elements(data) : b.pos \in Nat /\ b.pos < s.last /\ s.trim # 0
  BY <1>3
<1>5. \A p \in Positions(data) : p < s.last
  BY <1>4 DEF Positions, Elements
<1>6. \A p \in w.written : p < w.last \/ Spans(w.chunks, p)
  BY <1>2, <1>5 DEF Exact, more
<1>7. Exact(w)
  <2>1. \A i \in DOMAIN s.chunks : AtRest(s.chunks[i], s.last)
    BY DEF Exact
  <2>2. \A i \in DOMAIN w.chunks : AtRest(w.chunks[i], w.last)
    BY <2>1, <1>2
  <2>3. QED BY <2>2, <1>2, <1>6 DEF Exact
<1>8. Runs(s.delivered, w, s.last, Pool(s.chunks, block.data))
  BY <1>2, <1>3, RunsNowhere
<1>9. Store(s.chunks) \subseteq Pool(s.chunks, block.data)
  BY DEF Pool
<1>10. ASSUME NEW b \in Pool(s.chunks, block.data), s.last <= b.pos \/ s.trim = 0
       PROVE  b \in Store(s.chunks)
  <2>1. CASE b \in Elements(data)
    BY <2>1, <1>3, <1>4, <1>10
  <2>2. QED BY <2>1 DEF Pool
<1>11. ASSUME NEW i \in DOMAIN s.chunks
       PROVE  Old(s.chunks[i], s.chunks, Len(s.chunks))
  BY <1>3, FullPieces DEF Old
<1>12. Wrote(s, block, w)
  BY <1>2, <1>8, <1>9, <1>10, <1>11 DEF Wrote
<1>13. QED BY <1>7, <1>12

\* What delivering from the list means for the buffer that the block was put into.
LEMMA WroteMerged ==
  ASSUME NEW s, Exact(s), NEW block \in FullPiece, NEW w,
         w = Noted(s, Positions(block.data)),
         NEW list, NEW at, Merged(list, at, s.chunks, block), NEW d, Delivers(w, list, d)
  PROVE  Exact(d) /\ Wrote(s, block, d)
<1> DEFINE n == Len(s.chunks)
<1> DEFINE more == Positions(block.data)
<1>1. more \in SUBSET Seqs /\ w = Noted(s, more)
  BY FullFacts, PositionsType
<1> HIDE DEF more
<1>2. /\ Plain(w) /\ Reached(w) /\ w.chunks = s.chunks /\ w.last = s.last /\ w.trim = s.trim
      /\ w.autoTrim = s.autoTrim /\ w.missing = s.missing /\ w.delivered = s.delivered
      /\ w.written = s.written \cup more
  BY <1>1, NotedFacts
<1>3. s.chunks \in Seq(FullPiece) /\ Ordered(s.chunks)
  BY GoodNumbers DEF Exact, Plain
<1>4. /\ Ordered(list) /\ list \in Seq(FullPiece) /\ Mixes(list, s.chunks, block, n)
      /\ \A p \in Nat : Covers(block, p) => Spans(list, p)
  BY DEF Merged, Mixes
<1>5. Store(list) = Pool(s.chunks, block.data)
  BY <1>3, MergedStore
<1>6. ASSUME NEW p \in w.written, ~(p < w.last)
      PROVE  Spans(list, p)
  <2>1. CASE p \in more
    <3>1. PICK b \in Elements(block.data) : b.pos = p
      BY <2>1 DEF Positions, Elements, more
    <3>2. QED BY <3>1, <1>4, FullFacts
  <2>2. CASE p \in s.written
    <3>1. Spans(s.chunks, p)
      BY <2>2, <1>2, <1>6 DEF Exact
    <3>2. PICK j \in DOMAIN s.chunks : Covers(s.chunks[j], p)
      BY <3>1 DEF Spans
    <3>3. j \in 1..n
      BY <1>3, FullPieces
    <3>4. QED BY <3>2, <3>3, <1>4 DEF Mixes, Spans
  <2>3. QED BY <2>1, <2>2, <1>2, <1>6
<1>7. Exact(d)
  BY <1>2, <1>4, <1>6, DeliversExact
<1>8. ASSUME NEW j \in DOMAIN list
      PROVE  /\ Old(list[j], s.chunks, n) \/ New(list[j], s.chunks, block)
             /\ list[j].rupper \in Bounds(s.chunks, block)
  <2>1. Old(list[j], s.chunks, n) \/ New(list[j], s.chunks, block)
    BY <1>4 DEF Mixes
  <2>2. CASE Old(list[j], s.chunks, n)
    <3>1. PICK i \in DOMAIN s.chunks : list[j] = s.chunks[i]
      BY <2>2, <1>3, FullPieces DEF Old
    <3>2. QED BY <2>1, <3>1 DEF Bounds
  <2>3. CASE New(list[j], s.chunks, block)
    BY <2>3 DEF New
  <2>4. QED BY <2>1, <2>2, <2>3
<1>9. /\ d.autoTrim = s.autoTrim /\ d.missing = s.missing
      /\ Runs(s.delivered, d, s.last, Store(list))
  BY <1>2 DEF Delivers, Alike
<1>10. \A i \in DOMAIN d.chunks : \E j \in DOMAIN list : d.chunks[i] = list[j]
  BY DEF Delivers
<1>11. Store(d.chunks) \subseteq Store(list)
  BY <1>10 DEF Store
<1>12. \A b \in Store(list) : d.last <= b.pos => b \in Store(d.chunks)
  BY DEF Delivers
<1>13. ~s.autoTrim /\ s.trim = 0 => d.trim = 0 /\ Store(list) \subseteq Store(d.chunks)
  BY <1>2 DEF Delivers
<1>14. d.last = s.last \/ d.last \in Bounds(s.chunks, block)
  BY <1>2, <1>8 DEF Delivers
<1>15. d.trim = s.trim \/ d.trim = d.last
  BY <1>2 DEF Delivers
<1>16. \A i \in DOMAIN d.chunks : Old(d.chunks[i], s.chunks, n) \/ New(d.chunks[i], s.chunks, block)
  BY <1>8, <1>10
<1>17. Wrote(s, block, d)
  BY <1>5, <1>9, <1>11, <1>12, <1>13, <1>14, <1>15, <1>16 DEF Wrote
<1>18. QED BY <1>7, <1>17

\* write() of a segment that does not straddle the position trimmed to, and
\* does not straddle that of the stream or brings nothing new before it.
LEMMA WriteExact ==
  ASSUME NEW s, Exact(s), NEW at \in Nat, NEW len \in Nat, NEW v \in Values, at + len < SeqBound,
         NEW block, block = Chunk(Content(at, len, v), at, at + len), ~Straddles(block, s.trim),
         ~Straddles(block, s.last) \/ \A p \in Nat : p < s.last => Spans(s.chunks, p)
  PROVE  LET d == NewData(Noted(s, Positions(block.data)), block.data, at, len) IN
         Exact(d) /\ Wrote(s, block, d)
<1> DEFINE w == Noted(s, Positions(block.data))
           d == NewData(w, block.data, at, len)
<1>1. /\ block.data = Content(at, len, v) /\ block.rseq = at /\ block.rupper = at + len
      /\ block.data \in Seq(Byte) /\ Positions(block.data) \in SUBSET Seqs
  BY ContentFills, PositionsType DEF Chunk
<1> DEFINE more == Positions(block.data)
<1>w. w = Noted(s, more) /\ more \in SUBSET Seqs
  BY <1>1
<1> HIDE DEF more, w, d
<1>2. /\ Plain(w) /\ w.chunks = s.chunks /\ w.last = s.last /\ w.trim = s.trim
  BY <1>w, NotedFacts
<1>3. s.trim \in Nat
  BY GoodNumbers DEF Exact, Plain
<1>a. \A i \in DOMAIN w.chunks : AtRest(w.chunks[i], w.last)
  <2>1. \A i \in DOMAIN s.chunks : AtRest(s.chunks[i], s.last)
    BY DEF Exact
  <2>2. QED BY <2>1, <1>2
<1>4. CASE len = 0
  <2>1. d = w
    BY <1>4 DEF NewData, d
  <2>2. Elements(block.data) = {}
    <3>1. DOMAIN block.data = {}
      BY <1>1, <1>4 DEF Content
    <3>2. QED BY <3>1 DEF Elements
  <2>3. Exact(w) /\ Wrote(s, block, w)
    BY <2>2, <1>1, WroteNothing DEF w
  <2>4. QED BY <2>1, <2>3 DEF d, w
<1>5. CASE len # 0
  <2>1. block \in FullPiece
    <3>1. Fills(block.data, at, at + len) /\ Len(block.data) = len
      BY <1>1, <1>5, ContentFills DEF Content
    <3>2. at \in Seqs /\ at + len \in Seqs /\ at < at + len
      BY <1>5, PositionsWrap DEF Seqs
    <3>3. block.data # Unset
      BY <1>1, UnsetAssumption
    <3>4. block \in Piece
      BY <3>1, <3>2, <1>1 DEF Piece, Fills, Chunk
    <3>5. QED BY <3>1, <3>3, <3>4, <1>1 DEF FullPiece
  <2>2. block.rseq + len = block.rupper /\ d = NewData(w, block.data, block.rseq, len)
    BY <1>1 DEF d
  <2>3. \/ d = w /\ block.rupper <= w.trim
        \/ \E list, k : Merged(list, k, w.chunks, block) /\ Delivers(w, list, d)
    BY <2>1, <2>2, <1>2, <1>a, NewDataExact
  <2>4. CASE d = w /\ block.rupper <= w.trim
    <3>1. \A b \in Elements(block.data) : b.pos \in Nat /\ b.pos < s.trim
      BY <2>1, <2>4, <1>1, <1>2, <1>3, FullFacts DEF Covers
    <3>2. Exact(w) /\ Wrote(s, block, w)
      BY <3>1, <1>1, WroteNothing DEF w
    <3>3. QED BY <2>4, <3>2 DEF d, w
  <2>5. CASE \E list, k : Merged(list, k, w.chunks, block) /\ Delivers(w, list, d)
    <3>1. PICK list, k : Merged(list, k, s.chunks, block) /\ Delivers(w, list, d)
      BY <2>5, <1>2
    <3>2. Exact(d) /\ Wrote(s, block, d)
      BY <3>1, <2>1, WroteMerged DEF w
    <3>3. QED BY <3>2 DEF d, w
  <2>6. QED BY <2>3, <2>4, <2>5
<1>6. QED BY <1>4, <1>5

\* What an untrimmed and an orderly caller add to that: all before the position
\* of the stream is still buffered; everything lies between cuts.
Untrimmed(s) ==
  ~s.autoTrim /\ s.trim = 0 /\ s.missing = {} /\ \A p \in Nat : p < s.last => Spans(s.chunks, p)
Between(c) == Cut(c.rseq) /\ Cut(c.rupper) /\ \A p \in Nat : Cut(p) => ~Straddles(c, p)
Orderly(s) == Cut(s.last) /\ Cut(s.trim) /\ \A i \in DOMAIN s.chunks : Between(s.chunks[i])

\* What is written without trimming stays in the buffer.
LEMMA WroteUntrimmed ==
  ASSUME NEW s, Exact(s), Untrimmed(s), NEW block, NEW d, Exact(d), Wrote(s, block, d)
  PROVE  Untrimmed(d)
<1>1. /\ s.chunks \in Seq(FullPiece) /\ Ordered(s.chunks) /\ d.chunks \in Seq(FullPiece) /\ Ordered(d.chunks)
      /\ s.last \in Nat /\ d.last \in Nat /\ s.delivered \in Seq(Byte)
  BY GoodNumbers DEF Exact, Plain
<1>2. /\ d.autoTrim = s.autoTrim /\ d.trim = 0 /\ d.missing = s.missing
      /\ Runs(s.delivered, d, s.last, Pool(s.chunks, block.data))
      /\ Pool(s.chunks, block.data) \subseteq Store(d.chunks)
  BY DEF Wrote, Untrimmed
<1>3. ASSUME NEW p \in Nat, p < d.last
      PROVE  Spans(d.chunks, p)
  <2>1. \E b \in Pool(s.chunks, block.data) : b.pos = p
    <3>1. CASE p < s.last
      <4>1. Spans(s.chunks, p)
        BY <3>1 DEF Untrimmed
      <4>2. PICK b \in Store(s.chunks) : b.pos = p
        BY <4>1, <1>1, StoreFacts
      <4>3. QED BY <4>2 DEF Pool
    <3>2. CASE ~(p < s.last)
      <4>1. s.last <= p
        BY <3>2, <1>1
      <4>2. QED BY <4>1, <1>1, <1>2, <1>3, RunsPositions
    <3>3. QED BY <3>1, <3>2
  <2>2. PICK b \in Store(d.chunks) : b.pos = p
    BY <2>1, <1>2
  <2>3. QED BY <2>2, <1>1, StoreFacts
<1>4. QED BY <1>2, <1>3 DEF Untrimmed

\* Cutting the stream only at cuts leaves everything between cuts.
LEMMA WroteOrderly ==
  ASSUME NEW s, Exact(s), Orderly(s), NEW block, block.rseq \in Nat, block.rupper \in Nat, Between(block),
         NEW d, Wrote(s, block, d)
  PROVE  Orderly(d)
<1>1. s.chunks \in Seq(FullPiece) /\ DOMAIN s.chunks = 1..Len(s.chunks)
  BY FullPieces DEF Exact, Plain
<1>2. \A b \in Bounds(s.chunks, block) : Cut(b)
  BY DEF Bounds, Between, Orderly
<1>3. Cut(d.last) /\ Cut(d.trim)
  BY <1>2 DEF Wrote, Orderly
<1>4. ASSUME NEW i \in DOMAIN d.chunks
      PROVE  Between(d.chunks[i])
  <2> DEFINE c == d.chunks[i]
  <2>1. Old(c, s.chunks, Len(s.chunks)) \/ New(c, s.chunks, block)
    BY DEF Wrote
  <2>2. CASE Old(c, s.chunks, Len(s.chunks))
    BY <2>2, <1>1 DEF Old, Orderly
  <2>3. CASE New(c, s.chunks, block)
    <3> HIDE DEF c
    <3>1. /\ Cut(c.rseq) /\ Cut(c.rupper) /\ block.rseq <= c.rseq /\ c.rupper <= block.rupper
          /\ c.rseq \in Nat /\ c.rupper \in Nat
      BY <2>3, <1>2, FullFacts DEF New
    <3>2. \A p \in Nat : Straddles(c, p) => Straddles(block, p)
      BY <3>1 DEF Straddles
    <3>3. Between(c)
      BY <3>1, <3>2 DEF Between
    <3>4. QED BY <3>3 DEF c
  <2>4. QED BY <2>1, <2>2, <2>3
<1>5. QED BY <1>3, <1>4 DEF Orderly

\* So does skipping to a cut.
LEMMA SkippedOrderly ==
  ASSUME NEW s, Exact(s), Orderly(s), NEW rseq, Cut(rseq), NEW d, Skipped(s, rseq, d)
  PROVE  Orderly(d)
<1>1. Cut(d.last)
  BY DEF Skipped, Orderly, Between
<1>2. Cut(d.trim)
  BY <1>1 DEF Skipped, Orderly
<1>3. \A i \in DOMAIN d.chunks : Between(d.chunks[i])
  BY DEF Skipped, Orderly
<1>4. QED BY <1>1, <1>2, <1>3 DEF Orderly

\* The calls of a careful caller act on the object as it is, at the positions
\* that they are given.
LEMMA PlainCalls ==
  ASSUME Exact(sink)
  PROVE  /\ Current = sink /\ SequenceNumber(sink) = sink.last /\ sink.last \in Seqs
         /\ \A seq \in Seqs : Rseq(sink, seq) = seq
<1>1. sink \in Object /\ sink.initial = 0 /\ sink.cur = sink.last /\ sink.outcome = "ok" /\ sink.last \in Seqs
  BY GoodNumbers DEF Exact, Plain
<1>2. Current = sink
  BY <1>1 DEF Current, Object
<1>3. \A p \in Seqs : Plus(0, p) = p /\ Minus(p, 0) = p
  BY PositionsWrap DEF Minus, Seqs
<1>4. QED BY <1>1, <1>2, <1>3 DEF SequenceNumber, Rseq

\* write() by such a caller.
LEMMA WriteCall ==
  ASSUME Exact(sink), NEW seq \in Seqs, NEW len \in Nat, NEW v \in Values, Fits(Rseq(sink, seq), len),
         NEW block, block = Chunk(Content(seq, len, v), seq, seq + len), ~Straddles(block, sink.trim),
         ~Straddles(block, sink.last) \/ \A p \in Nat : p < sink.last => Spans(sink.chunks, p),
         Write(seq, len, v)
  PROVE  Exact(sink') /\ Wrote(sink, block, sink') /\ seq \in Nat /\ seq + len < SeqBound
<1>1. Current = sink /\ Rseq(sink, seq) = seq /\ seq \in Nat /\ seq + len < SeqBound
  BY PlainCalls, PositionsWrap DEF Fits
<1>2. block.data = Content(seq, len, v)
  BY DEF Chunk
<1>3. sink' = NewData(Noted(sink, Positions(block.data)), block.data, seq, len)
  BY <1>1, <1>2 DEF Write, Returns, Noted
<1>4. QED BY <1>1, <1>3, WriteExact

(*************************** The careful callers **************************)

\* What holds while a careful caller makes its calls.
CallersIInv ==
  Careful => /\ caller \in DOMAIN Calls /\ Exact(sink)
             /\ (caller = "untrimmed" => Untrimmed(sink))
             /\ (caller = "orderly" => Orderly(sink))

\* What such a call makes of the object.
Called(s, d) ==
  \/ \E at, len \in Nat, v \in Values :
       at + len < SeqBound /\ Wrote(s, Chunk(Content(at, len, v), at, at + len), d)
  \/ \E rseq \in Seqs : s.last <= rseq /\ Skipped(s, rseq, d)
  \/ d = Fresh
  \/ d.last = s.last /\ d.chunks = s.chunks /\ d.delivered = s.delivered

\* The object after construction.
LEMMA FreshExact ==
  /\ Exact(Fresh) /\ Untrimmed([Fresh EXCEPT !.autoTrim = FALSE])
  /\ \A enable \in BOOLEAN : Exact([Fresh EXCEPT !.autoTrim = enable])
<1>1. Fresh.chunks = <<>> /\ Fresh.last = 0 /\ Fresh.delivered = <<>> /\ Fresh.written = {}
  BY DEF Fresh
<1>2. ASSUME NEW enable \in BOOLEAN
      PROVE  Exact([Fresh EXCEPT !.autoTrim = enable])
  <2> DEFINE s == [Fresh EXCEPT !.autoTrim = enable]
  <2>1. Good(s)
    BY FreshGood, PositionsWrap, SettingsGood DEF Becomes
  <2>2. /\ s.initial = 0 /\ s.units = <<>> /\ ~s.filter /\ s.held = <<>> /\ ~s.thrown /\ ~s.stuck
        /\ s.cur = 0 /\ s.last = 0 /\ s.outcome = "ok" /\ s.chunks = <<>> /\ s.trim = 0
        /\ s.delivered = <<>> /\ s.written = {}
    BY DEF Fresh
  <2> HIDE DEF s
  <2>3. DOMAIN s.chunks = {} /\ s.chunks \in Seq(FullPiece) /\ DOMAIN s.delivered = {}
    BY <2>2
  <2>4. Plain(s)
    BY <2>1, <2>2, <2>3 DEF Plain
  <2>5. Delivered(s) = {}
    BY <2>3 DEF Delivered, Positions
  <2>6. Reached(s)
    BY <2>2, <2>5 DEF Reached
  <2>7. Exact(s)
    BY <2>2, <2>3, <2>4, <2>6 DEF Exact
  <2>8. QED BY <2>7 DEF s
<1>3. Fresh = [Fresh EXCEPT !.autoTrim = TRUE]
  <2>1. Fresh \in Object
    BY FreshGood DEF Good
  <2>2. Fresh.autoTrim = TRUE
    BY DEF Fresh
  <2>3. QED BY <2>1, <2>2 DEF Object
<1>4. Exact(Fresh)
  BY <1>2, <1>3
<1>5. Untrimmed([Fresh EXCEPT !.autoTrim = FALSE])
  <2> DEFINE s == [Fresh EXCEPT !.autoTrim = FALSE]
  <2>1. ~s.autoTrim /\ s.trim = 0 /\ s.missing = {} /\ s.last = 0
    BY DEF Fresh
  <2> HIDE DEF s
  <2>2. Untrimmed(s)
    BY <2>1 DEF Untrimmed
  <2>3. QED BY <2>2 DEF s
<1>6. QED BY <1>2, <1>4, <1>5

\* What the constants say of the calls of careful callers.
LEMMA CareFacts ==
  ASSUME Careful, caller \in DOMAIN Calls
  PROVE  /\ Calls[caller].writes \subseteq Segments \X Values
         /\ Calls[caller].appends \subseteq Values /\ (Calls[caller].appends # {} => 1 \in Appends)
         /\ Calls[caller].skips \subseteq SkipTargets /\ Calls[caller].autoTrims \subseteq AutoTrims
         /\ Calls[caller].gaps = {} /\ Calls[caller].trims = {} /\ Calls[caller].initials = {}
         /\ Calls[caller].units = {} /\ ~Calls[caller].filters /\ Calls[caller].autoTrim \in BOOLEAN
         /\ caller = "untrimmed" => /\ Calls[caller].skips = {} /\ Calls[caller].autoTrims = {}
                                    /\ ~Calls[caller].closes /\ ~Calls[caller].autoTrim
         /\ caller = "orderly" => /\ Calls[caller].appends = {} /\ ~Calls[caller].skipsBack
                                  /\ \A w \in Calls[caller].writes : Cut(w[1][1]) /\ Cut(w[1][1] + w[1][2])
                                  /\ \A seq \in SkipTargets : Cut(seq)
<1>1. caller \in DOMAIN Calls \cap {"untrimmed", "orderly"}
  BY DEF Careful
<1>2. CASE caller = "untrimmed"
  BY <1>1, <1>2, CallersAssumption
<1>3. CASE caller = "orderly"
  <2>1. "orderly" \in DOMAIN Calls /\ caller \in DOMAIN Calls \cap {"untrimmed", "orderly"}
    BY <1>1, <1>3
  <2>2. /\ Calls[caller].writes \subseteq Segments \X Values
        /\ Calls[caller].skips \subseteq SkipTargets /\ Calls[caller].autoTrims \subseteq AutoTrims
        /\ Calls[caller].gaps = {} /\ Calls[caller].trims = {} /\ Calls[caller].initials = {}
        /\ Calls[caller].units = {} /\ ~Calls[caller].filters /\ Calls[caller].autoTrim \in BOOLEAN
    BY <2>1, CallersAssumption
  <2>3. /\ Calls["orderly"].appends = {} /\ ~Calls["orderly"].skipsBack
        /\ \A w \in Calls["orderly"].writes : Cut(w[1][1]) /\ Cut(w[1][1] + w[1][2])
        /\ \A seq \in SkipTargets : Cut(seq)
    BY <2>1, CallersAssumption
  <2>4. QED BY <2>2, <2>3, <1>3
<1>4. QED BY <1>1, <1>2, <1>3

\* The segments written, and what the orderly caller's lie between.
LEMMA WritesFacts ==
  ASSUME Careful, caller \in DOMAIN Calls, NEW w \in Calls[caller].writes
  PROVE  /\ w[1] \in Segments /\ w[2] \in Values /\ w[1][1] \in Seqs /\ w[1][1] \in Nat /\ w[1][2] \in Nat
         /\ caller = "orderly" =>
              /\ Cut(w[1][1]) /\ Cut(w[1][1] + w[1][2])
              /\ \A p : Cut(p) => ~(w[1][1] < p /\ p < w[1][1] + w[1][2])
<1>1. w \in Segments \X Values
  BY CareFacts
<1>2. w[1] \in Segments /\ w[2] \in Values
  BY <1>1
<1>3. w[1][1] \in Seqs /\ w[1][1] \in Nat /\ w[1][2] \in Nat
  BY <1>2, ArgumentFacts, PositionsWrap
<1>4. caller = "orderly" => Cut(w[1][1]) /\ Cut(w[1][1] + w[1][2])
  BY CareFacts
<1>5. caller = "orderly" => \A p : Cut(p) => ~(w[1][1] < p /\ p < w[1][1] + w[1][2])
  BY DEF Cut
<1>6. QED BY <1>2, <1>3, <1>4, <1>5

\* A write by a careful caller.
LEMMA CarefulWrite ==
  ASSUME CallersIInv, Careful, NEW seq \in Seqs, NEW len \in Nat, NEW v \in Values,
         Fits(Rseq(sink, seq), len), Write(seq, len, v),
         caller = "orderly" => Cut(seq) /\ Cut(seq + len) /\ \A p : Cut(p) => ~(seq < p /\ p < seq + len),
         UNCHANGED caller
  PROVE  CallersIInv' /\ Called(sink, sink')
<1> DEFINE block == Chunk(Content(seq, len, v), seq, seq + len)
<1>1. /\ Exact(sink) /\ caller \in DOMAIN Calls
      /\ (caller = "untrimmed" => Untrimmed(sink)) /\ (caller = "orderly" => Orderly(sink))
  BY DEF CallersIInv
<1>2. seq \in Nat /\ sink.last \in Nat /\ sink.trim \in Nat
  BY <1>1, GoodNumbers, PositionsWrap DEF Exact, Plain
<1>3. block.rseq = seq /\ block.rupper = seq + len
  BY DEF Chunk
<1>4. block = Chunk(Content(seq, len, v), seq, seq + len)
  OBVIOUS
<1> HIDE DEF block
<1>5. CASE caller = "untrimmed"
  <2>1. Untrimmed(sink) /\ ~Straddles(block, sink.trim)
    BY <1>1, <1>2, <1>3, <1>5 DEF Untrimmed, Straddles
  <2>2. \A p \in Nat : p < sink.last => Spans(sink.chunks, p)
    BY <2>1 DEF Untrimmed
  <2>3. Exact(sink') /\ Wrote(sink, block, sink') /\ seq + len < SeqBound
    BY <1>1, <1>4, <2>1, <2>2, WriteCall
  <2>4. Untrimmed(sink')
    BY <1>1, <2>1, <2>3, WroteUntrimmed
  <2>5. CallersIInv'
    BY <1>1, <1>5, <2>3, <2>4 DEF CallersIInv
  <2>6. Called(sink, sink')
    BY <1>2, <2>3 DEF Called, block
  <2>7. QED BY <2>5, <2>6
<1>6. CASE caller = "orderly"
  <2>1. Orderly(sink) /\ Cut(sink.trim) /\ Cut(sink.last)
    BY <1>1, <1>6 DEF Orderly
  <2>2. Between(block)
    BY <1>3, <1>6 DEF Between, Straddles
  <2>3. ~Straddles(block, sink.trim) /\ ~Straddles(block, sink.last)
    BY <1>2, <2>1, <2>2 DEF Between
  <2>4. Exact(sink') /\ Wrote(sink, block, sink') /\ seq + len < SeqBound
    BY <1>1, <1>4, <2>3, WriteCall
  <2>5. Orderly(sink')
    BY <1>1, <1>2, <1>3, <2>1, <2>2, <2>4, WroteOrderly
  <2>6. CallersIInv'
    BY <1>1, <1>6, <2>4, <2>5 DEF CallersIInv
  <2>7. Called(sink, sink')
    BY <1>2, <2>4 DEF Called, block
  <2>8. QED BY <2>6, <2>7
<1>7. QED BY <1>5, <1>6 DEF Careful

\* A skip by the orderly caller.
LEMMA CarefulSkip ==
  ASSUME CallersIInv, caller = "orderly", NEW seq \in SkipTargets, sink.cur <= Rseq(sink, seq), Skip(seq)
  PROVE  /\ Exact(sink') /\ Orderly(sink')
         /\ seq \in Seqs /\ sink.last <= seq /\ Skipped(sink, seq, sink')
<1>1. Exact(sink) /\ Orderly(sink) /\ caller \in DOMAIN Calls /\ Careful
  BY DEF CallersIInv, Careful
<1>2. seq \in Seqs /\ seq \in Nat /\ Cut(seq)
  BY <1>1, CareFacts, ArgumentFacts, PositionsWrap
<1>3. Current = sink /\ Rseq(sink, seq) = seq
  BY <1>1, <1>2, PlainCalls
<1>4. Plain(sink) /\ sink.cur = sink.last
  BY <1>1 DEF Exact, Plain
<1>5. sink.last <= seq
  BY <1>3, <1>4
<1>6. sink' = SkipTo(sink, seq)
  BY <1>3 DEF Skip, Returns
<1>7. \A i \in DOMAIN sink.chunks : ~Straddles(sink.chunks[i], seq)
  BY <1>1, <1>2 DEF Orderly, Between
<1>8. Skipped(sink, seq, sink')
  BY <1>2, <1>4, <1>5, <1>6, <1>7, SkipToExact
<1>9. Exact(sink')
  BY <1>1, <1>2, <1>5, <1>8, SkippedExact
<1>10. Orderly(sink')
  BY <1>1, <1>2, <1>8, SkippedOrderly
<1>11. QED BY <1>2, <1>5, <1>8, <1>9, <1>10

\* Turning auto-trimming on or off, which the orderly caller may do.
LEMMA CarefulSetting ==
  ASSUME CallersIInv, caller = "orderly", NEW enable \in BOOLEAN, SetAutoTrim(enable)
  PROVE  /\ Exact(sink') /\ Orderly(sink')
         /\ sink'.last = sink.last /\ sink'.chunks = sink.chunks /\ sink'.delivered = sink.delivered
<1>1. Exact(sink) /\ Orderly(sink) /\ Plain(sink) /\ Good(sink) /\ sink \in Object /\ Reached(sink)
  BY GoodNumbers DEF CallersIInv, Careful, Exact, Plain
<1>2. sink' = [sink EXCEPT !.autoTrim = enable]
  BY <1>1, PlainCalls DEF SetAutoTrim, Returns
<1> DEFINE d == sink'
<1>3. Good(d)
  BY <1>1, <1>2, PositionsWrap, SettingsGood DEF Becomes
<1>4. /\ d.last = sink.last /\ d.chunks = sink.chunks /\ d.delivered = sink.delivered
      /\ d.initial = sink.initial /\ d.units = sink.units /\ d.filter = sink.filter /\ d.held = sink.held
      /\ d.thrown = sink.thrown /\ d.stuck = sink.stuck /\ d.cur = sink.cur /\ d.outcome = sink.outcome
      /\ d.trim = sink.trim /\ d.written = sink.written /\ d.missing = sink.missing
  BY <1>1, <1>2 DEF Object
<1> HIDE DEF d
<1>5. Plain(d)
  BY <1>1, <1>3, <1>4 DEF Plain
<1>6. Reached(d)
  BY <1>1, <1>4 DEF Reached, Delivered
<1>7. /\ \A i \in DOMAIN d.chunks : AtRest(d.chunks[i], d.last)
      /\ \A p \in d.written : p < d.last \/ Spans(d.chunks, p)
  BY <1>1, <1>4 DEF Exact
<1>8. Exact(d)
  BY <1>5, <1>6, <1>7 DEF Exact
<1>9. Orderly(d)
  BY <1>1, <1>4 DEF Orderly
<1>10. QED BY <1>4, <1>8, <1>9 DEF d

\* Closing the sink.
LEMMA CarefulClose == ASSUME caller = "orderly", caller \in DOMAIN Calls PROVE Orderly(Fresh)
<1>1. Fresh.chunks = <<>> /\ Fresh.last = 0 /\ Fresh.trim = 0
  BY DEF Fresh
<1>2. \A w \in Calls[caller].writes : w[1][1] \in Nat
  BY WritesFacts DEF Careful
<1>3. Cut(0)
  BY <1>2 DEF Cut
<1>4. DOMAIN Fresh.chunks = {}
  BY <1>1
<1>5. QED BY <1>1, <1>3, <1>4 DEF Orderly

\* Every call of a careful caller.
LEMMA CarefulStep ==
  ASSUME CallersIInv, Careful, NothingWraps, CallersNext
  PROVE  CallersIInv' /\ Called(sink, sink')
<1> DEFINE mine == Calls[caller]
<1>1. Exact(sink) /\ caller \in DOMAIN Calls /\ caller' = caller
  BY DEF CallersIInv, CallersNext
<1>2. ASSUME NEW w \in mine.writes, Write(w[1][1], w[1][2], w[2])
      PROVE  CallersIInv' /\ Called(sink, sink')
  <2>1. /\ w[1] \in Segments /\ w[2] \in Values /\ w[1][1] \in Seqs /\ w[1][2] \in Nat
        /\ caller = "orderly" => /\ Cut(w[1][1]) /\ Cut(w[1][1] + w[1][2])
                                 /\ \A p : Cut(p) => ~(w[1][1] < p /\ p < w[1][1] + w[1][2])
    BY <1>1, <1>2, WritesFacts
  <2>2. Fits(Rseq(sink, w[1][1]), w[1][2])
    BY <2>1 DEF NothingWraps
  <2>3. QED BY <1>1, <1>2, <2>1, <2>2, CarefulWrite
<1>3. ASSUME NEW v \in mine.appends, WriteNext(1, v)
      PROVE  CallersIInv' /\ Called(sink, sink')
  <2>1. caller = "untrimmed" /\ v \in Values /\ 1 \in Appends
    BY <1>1, <1>3, CareFacts DEF Careful
  <2>2. /\ SequenceNumber(sink) \in Seqs /\ Write(SequenceNumber(sink), 1, v)
        /\ Fits(Rseq(sink, SequenceNumber(sink)), 1)
    BY <1>1, <1>3, <2>1, PlainCalls DEF WriteNext, NothingWraps
  <2>3. QED BY <1>1, <2>1, <2>2, CarefulWrite
<1>4. ASSUME NEW seq \in mine.skips, ~mine.skipsBack => sink.cur <= Rseq(sink, seq), Skip(seq)
      PROVE  CallersIInv' /\ Called(sink, sink')
  <2>1. caller = "orderly" /\ seq \in SkipTargets /\ sink.cur <= Rseq(sink, seq)
    BY <1>1, <1>4, CareFacts DEF Careful
  <2>2. /\ Exact(sink') /\ Orderly(sink')
        /\ seq \in Seqs /\ sink.last <= seq /\ Skipped(sink, seq, sink')
    BY <1>4, <2>1, CarefulSkip
  <2>3. QED BY <1>1, <2>1, <2>2 DEF CallersIInv, Called
<1>5. ASSUME NEW enable \in mine.autoTrims, SetAutoTrim(enable)
      PROVE  CallersIInv' /\ Called(sink, sink')
  <2>1. caller = "orderly" /\ enable \in BOOLEAN
    BY <1>1, <1>5, CareFacts, ArgumentFacts DEF Careful
  <2>2. /\ Exact(sink') /\ Orderly(sink')
        /\ sink'.last = sink.last /\ sink'.chunks = sink.chunks /\ sink'.delivered = sink.delivered
    BY <1>5, <2>1, CarefulSetting
  <2>3. QED BY <1>1, <2>1, <2>2 DEF CallersIInv, Called
<1>6. ASSUME mine.closes, Close
      PROVE  CallersIInv' /\ Called(sink, sink')
  <2>1. caller = "orderly" /\ sink' = Fresh
    BY <1>1, <1>6, CareFacts DEF Careful, Close, Returns
  <2>2. Exact(Fresh) /\ Orderly(Fresh)
    BY <1>1, <2>1, FreshExact, CarefulClose
  <2>3. QED BY <1>1, <2>1, <2>2 DEF CallersIInv, Called
<1>7. /\ mine.gaps = {} /\ mine.trims = {} /\ mine.initials = {} /\ mine.units = {} /\ ~mine.filters
  BY <1>1, CareFacts
<1>8. QED BY <1>2, <1>3, <1>4, <1>5, <1>6, <1>7 DEF CallersNext

\* The invariant of the careful callers.
LEMMA CallersStayExact == CallersSpec /\ [](Careful => NothingWraps) => []CallersIInv
<1>1. CallersInit => CallersIInv
  <2>1. SUFFICES ASSUME CallersInit, Careful
        PROVE  /\ caller \in DOMAIN Calls /\ Exact(sink)
               /\ (caller = "untrimmed" => Untrimmed(sink)) /\ (caller = "orderly" => Orderly(sink))
    BY DEF CallersIInv
  <2>2. /\ caller \in DOMAIN Calls /\ sink = [Fresh EXCEPT !.autoTrim = Calls[caller].autoTrim]
    BY <2>1 DEF CallersInit
  <2>3. Calls[caller].autoTrim \in BOOLEAN
    BY <2>1, <2>2, CareFacts
  <2>4. Exact(sink)
    BY <2>2, <2>3, FreshExact
  <2>5. ASSUME caller = "untrimmed"
        PROVE  Untrimmed(sink)
    <3>1. Calls[caller].autoTrim = FALSE
      BY <2>1, <2>2, <2>3, <2>5, CareFacts
    <3>2. QED BY <3>1, <2>2, FreshExact
  <2>6. ASSUME caller = "orderly"
        PROVE  Orderly(sink)
    <3>1. Orderly(Fresh)
      BY <2>2, <2>6, CarefulClose
    <3>2. sink.chunks = Fresh.chunks /\ sink.last = Fresh.last /\ sink.trim = Fresh.trim
      BY <2>2 DEF Fresh
    <3>3. QED BY <3>1, <3>2 DEF Orderly
  <2>7. QED BY <2>2, <2>4, <2>5, <2>6
<1>2. CallersIInv /\ (Careful => NothingWraps) /\ [CallersNext]_<<vars, caller>> => CallersIInv'
  <2>1. CASE CallersNext /\ Careful
    BY <2>1, CarefulStep
  <2>2. CASE CallersNext /\ ~Careful
    BY <2>2 DEF CallersNext, CallersIInv, Careful
  <2>3. CASE UNCHANGED <<vars, caller>>
    BY <2>3 DEF CallersIInv, vars, Careful
  <2>4. QED BY <2>1, <2>2, <2>3
<1>3. QED BY <1>1, <1>2, PTL DEF CallersSpec

\* What the invariant says of the buffer and of every byte.
LEMMA ExactIsAccounted == ASSUME Exact(sink) PROVE BufferExact /\ Accounted
<1>1. /\ Plain(sink) /\ sink \in Object /\ sink.last \in Nat /\ sink.chunks \in Seq(FullPiece) /\ Ordered(sink.chunks)
      /\ sink.cur = sink.last /\ sink.delivered \in Seq(Byte)
  BY GoodNumbers DEF Exact, Plain
<1>2. \A i \in DOMAIN sink.chunks : sink.chunks[i] \in FullPiece
  BY <1>1, FullPieces
<1>3. BufferedData(sink) = DOMAIN sink.chunks
  BY <1>1, WaitingFacts
<1>4. ChunkBounds
  <2>1. ASSUME NEW i \in DOMAIN sink.chunks
        PROVE  /\ Len(sink.chunks[i].data) = sink.chunks[i].rupper - sink.chunks[i].rseq
               /\ \A k \in DOMAIN sink.chunks[i].data :
                    sink.chunks[i].data[k].pos = sink.chunks[i].rseq + (k - 1)
    <3> DEFINE c == sink.chunks[i]
    <3>1. c \in FullPiece
      BY <1>2
    <3> HIDE DEF c
    <3>2. /\ Len(c.data) = c.rupper - c.rseq /\ c \in Piece /\ c.data # Unset /\ c.data \in Seq(Byte)
          /\ c.rseq \in Nat
      BY <3>1, FullFacts
    <3>3. \A k \in DOMAIN c.data : c.data[k].pos = c.rseq + (k - 1) /\ k \in Nat
      BY <3>2, PieceFacts
    <3>4. QED BY <3>2, <3>3 DEF c
  <2>2. QED BY <2>1, <1>3 DEF ChunkBounds
<1>5. NothingReadyWaits
  <2>1. \A i \in DOMAIN sink.chunks : ~(sink.chunks[i].rseq <= sink.last /\ sink.last < sink.chunks[i].rupper)
    <3>1. ASSUME NEW i \in DOMAIN sink.chunks
          PROVE  ~(sink.chunks[i].rseq <= sink.last /\ sink.last < sink.chunks[i].rupper)
      <4>1. AtRest(sink.chunks[i], sink.last) /\ sink.chunks[i].rseq \in Nat /\ sink.chunks[i].rupper \in Nat
        BY <1>2, FullFacts DEF Exact
      <4>2. QED BY <4>1, <1>1 DEF AtRest
    <3>2. QED BY <3>1
  <2>2. QED BY <2>1, <1>3 DEF NothingReadyWaits
<1>6. Reached(sink) /\ sink.written \subseteq Nat /\ Delivered(sink) \subseteq Nat
  <2>1. sink.written \subseteq Seqs /\ Delivered(sink) \subseteq Seqs
    BY <1>1, ObjectFacts, PositionsType DEF Delivered
  <2>2. QED BY <2>1, PositionsWrap DEF Exact
<1>7. NothingLost
  <2>1. ASSUME NEW p \in sink.written
        PROVE  p \in Delivered(sink) \cup sink.missing \cup Waiting(sink)
    <3>1. p \in Nat /\ (p < sink.last \/ Spans(sink.chunks, p))
      BY <1>6 DEF Exact
    <3>2. CASE p < sink.last
      BY <3>1, <3>2, <1>6 DEF Reached
    <3>3. CASE Spans(sink.chunks, p)
      BY <3>1, <3>3, <1>1, WaitingFacts
    <3>4. QED BY <3>1, <3>2, <3>3
  <2>2. QED BY <2>1 DEF NothingLost
<1>8. NoSilentHole
  <2>1. ASSUME NEW p \in Delivered(sink), NEW q \in 0..p
        PROVE  q \in Delivered(sink) \cup sink.missing
    <3>1. p \in Nat /\ p < sink.last /\ q \in Nat /\ q <= p
      BY <1>6 DEF Reached
    <3>2. q < sink.last
      BY <3>1, <1>1
    <3>3. QED BY <3>1, <3>2, <1>6 DEF Reached
  <2>2. QED BY <2>1 DEF NoSilentHole
<1>9. PositionsAgree
  BY <1>1 DEF PositionsAgree
<1>10. QED BY <1>4, <1>5, <1>7, <1>8, <1>9 DEF BufferExact, Accounted

\* Whatever a careful caller writes, in whatever order: the buffer keeps what
\* its chunks' bounds say, and no data that is in order waits in it.  This is
\* what _addAndCheck() has to achieve, cutting blocks that overlap what is there,
\* and newData(), which starts delivery only where the block went in.
THEOREM CarefulBufferExact == CallersSpec /\ [](Careful => NothingWraps) => []BufferStaysExact
<1>1. CallersIInv => BufferStaysExact
  BY ExactIsAccounted DEF CallersIInv, BufferStaysExact
<1>2. QED BY <1>1, CallersStayExact, PTL

\* No byte that a careful caller writes is lost in the buffer, and the stream has
\* no hole that was not announced, skipped positions included; the two positions
\* that the sink keeps never drift apart.
THEOREM CarefulAccounted == CallersSpec /\ [](Careful => NothingWraps) => []AllAccounted
<1>1. CallersIInv => AllAccounted
  BY ExactIsAccounted DEF CallersIInv, AllAccounted
<1>2. QED BY <1>1, CallersStayExact, PTL

\* What waits beyond the position skipped from and before the one skipped to
\* is reported.
LEMMA SkipReports ==
  ASSUME CallersIInv, caller = "orderly"
  PROVE  SkippedReported
<1>1. /\ Exact(sink) /\ sink.chunks \in Seq(FullPiece) /\ Ordered(sink.chunks) /\ sink.last \in Nat
      /\ sink.cur = sink.last /\ caller \in DOMAIN Calls /\ Careful
  BY GoodNumbers DEF CallersIInv, Careful, Exact, Plain
<1>2. ASSUME NEW seq \in SkipTargets, Skip(seq), NEW p \in Waiting(sink), sink.cur <= p, p < Rseq(sink, seq)
      PROVE  p \in sink'.undelivered
  <2>1. p \in Nat /\ Spans(sink.chunks, p)
    BY <1>1, WaitingFacts
  <2>2. PICK j \in DOMAIN sink.chunks : Covers(sink.chunks[j], p)
    BY <2>1 DEF Spans
  <2>3. /\ sink.chunks[j] \in FullPiece /\ sink.chunks[j].rseq \in Nat /\ sink.chunks[j].rupper \in Nat
    BY <1>1, FullPieces, FullFacts
  <2>4. seq \in Seqs /\ seq \in Nat
    BY ArgumentFacts, PositionsWrap
  <2>5. Rseq(sink, seq) = seq
    BY <1>1, <2>4, PlainCalls
  <2>6. sink.cur <= Rseq(sink, seq)
    BY <1>1, <1>2, <2>1, <2>4, <2>5
  <2>7. Skipped(sink, seq, sink')
    BY <1>2, <2>6, CarefulSkip
  <2>8. AtRest(sink.chunks[j], sink.last)
    BY <1>1 DEF Exact
  <2>9. sink.cur < sink.chunks[j].rseq /\ sink.chunks[j].rseq < seq
    BY <1>1, <1>2, <2>1, <2>2, <2>3, <2>4, <2>5, <2>8 DEF AtRest, Covers
  <2>10. Positions(sink.chunks[j].data) \subseteq sink'.undelivered
    BY <2>7, <2>9 DEF Skipped
  <2>11. PICK b \in Elements(sink.chunks[j].data) : b.pos = p
    BY <2>1, <2>2, <2>3, FullFacts
  <2>12. QED BY <2>10, <2>11 DEF Positions, Elements
<1>3. QED BY <1>2 DEF SkippedReported

\* Buffered data that the orderly caller skips over is passed to %undelivered,
\* whether auto-trimming is on or off, and however often it was switched.
THEOREM OrderlySkipsAreReported ==
  CallersSpec /\ [](Careful => NothingWraps) => SkippedDataIsReported
<1>1. CallersIInv => [ caller = "orderly" => SkippedReported ]_<<vars, caller>>
  BY SkipReports
<1>2. QED BY <1>1, CallersStayExact, PTL DEF SkippedDataIsReported

(*************************** What is handed over **************************)

\* Arrived, of any object.
ArrivedIn(s) ==
  [p \in {q \in Waiting(s) : q >= s.last} |->
     (CHOOSE b \in UNION {Elements(s.chunks[i].data) : i \in BufferedData(s)} : b.pos = p).v]

\* The bytes that wait, by position.
LEMMA ArrivedFacts ==
  ASSUME NEW s, s.chunks \in Seq(FullPiece), Ordered(s.chunks), s.last \in Nat
  PROVE  LET a == ArrivedIn(s) IN
         /\ a = [p \in DOMAIN a |-> a[p]]
         /\ \A p : p \in DOMAIN a <=> p \in Nat /\ s.last <= p /\ Spans(s.chunks, p)
         /\ \A b \in Store(s.chunks) : s.last <= b.pos => b.pos \in DOMAIN a /\ a[b.pos] = b.v
<1> DEFINE a == ArrivedIn(s)
           D == {q \in Waiting(s) : q >= s.last}
           U == UNION {Elements(s.chunks[i].data) : i \in BufferedData(s)}
<1>1. U = Store(s.chunks)
  BY WaitingFacts DEF Store
<1>2. a = [p \in D |-> (CHOOSE b \in U : b.pos = p).v]
  BY Zenon DEF ArrivedIn
<1>3. ASSUME NEW p
      PROVE  p \in D <=> p \in Nat /\ s.last <= p /\ Spans(s.chunks, p)
  <2>1. p \in Waiting(s) <=> p \in Nat /\ Spans(s.chunks, p)
    BY WaitingFacts
  <2>2. p \in Nat => (p >= s.last <=> s.last <= p)
    OBVIOUS
  <2>3. QED BY <2>1, <2>2
<1> HIDE DEF a, D, U
<1>4. DOMAIN a = D /\ a = [p \in DOMAIN a |-> a[p]]
  BY <1>2
<1>5. ASSUME NEW b \in Store(s.chunks), s.last <= b.pos
      PROVE  b.pos \in DOMAIN a /\ a[b.pos] = b.v
  <2>1. b.pos \in Nat /\ Spans(s.chunks, b.pos)
    BY StoreFacts
  <2>2. b.pos \in D
    BY <2>1, <1>3, <1>5
  <2>3. a[b.pos] = (CHOOSE c \in U : c.pos = b.pos).v
    BY <2>2, <1>2
  <2>4. (CHOOSE c \in U : c.pos = b.pos) = b
    <3> DEFINE c == CHOOSE c \in U : c.pos = b.pos
    <3>1. c \in U /\ c.pos = b.pos
      BY <1>1
    <3> HIDE DEF c
    <3>2. c = b
      BY <3>1, <1>1, StoreFacts
    <3>3. QED BY <3>2 DEF c
  <2>5. QED BY <2>2, <2>3, <2>4, <1>4
<1>6. QED BY <1>3, <1>4, <1>5 DEF a

\* The bytes of a pool by position, from a position on.
Lists(known, pool, from) ==
  /\ known = [p \in DOMAIN known |-> known[p]] /\ DOMAIN known \subseteq Nat
  /\ \A b \in pool : from <= b.pos => b.pos \in DOMAIN known /\ known[b.pos] = b.v
  /\ \A p \in DOMAIN known : \E b \in pool : b.pos = p

\* A call that hands over from a pool what is in order, and buffers the rest,
\* is a step of the abstract reassembler.
LEMMA RunsHandOver ==
  ASSUME NEW pool, \A b \in pool : b \in Byte, NEW known, NEW from \in Nat, Lists(known, pool, from),
         sink.delivered \in Seq(Byte), Exact(sink'), Runs(sink.delivered, sink', from, pool),
         Store(sink'.chunks) \subseteq pool, \A b \in pool : sink'.last <= b.pos => b \in Store(sink'.chunks)
  PROVE  R!HandOver(known, from)
<1> DEFINE d == sink'
           upto == d.last
           a == ArrivedIn(d)
<1>1. /\ d.chunks \in Seq(FullPiece) /\ Ordered(d.chunks) /\ upto \in Nat /\ upto < SeqBound /\ from <= upto
      /\ \A i \in DOMAIN d.chunks : AtRest(d.chunks[i], upto)
  <2>1. Exact(d) /\ Runs(sink.delivered, d, from, pool)
    OBVIOUS
  <2> HIDE DEF d
  <2>2. QED BY <2>1, GoodNumbers, PositionsWrap DEF Exact, Plain, Runs
<1>2. Arrived' = a
  BY DEF Arrived, ArrivedIn
<1>3. PICK tail \in Seq(Byte) :
        /\ d.delivered = sink.delivered \o tail /\ Len(tail) = upto - from
        /\ \A i \in 1..Len(tail) : tail[i] \in pool /\ tail[i].pos = from + (i - 1)
  BY DEF Runs
<1>4. \A p \in Nat : from <= p /\ p < upto => \E b \in pool : b.pos = p
  <2>1. Runs(sink.delivered, d, from, pool) /\ d.last \in Nat
    BY <1>1
  <2> HIDE DEF d
  <2>2. QED BY <2>1, RunsPositions
<1>5. Store(d.chunks) \subseteq pool /\ \A b \in pool : upto <= b.pos => b \in Store(d.chunks)
  OBVIOUS
<1> HIDE DEF d, a, upto
<1>6. ASSUME NEW p \in Nat, Spans(d.chunks, p)
      PROVE  p # upto
  <2>1. PICK i \in DOMAIN d.chunks : Covers(d.chunks[i], p)
    BY <1>6 DEF Spans
  <2>2. d.chunks[i].rseq \in Nat /\ d.chunks[i].rupper \in Nat /\ AtRest(d.chunks[i], upto)
    BY <1>1, FullPieces, FullFacts
  <2>3. QED BY <2>1, <2>2, <1>1 DEF AtRest, Covers
<1>7. from..upto-1 \subseteq DOMAIN known
  <2>1. ASSUME NEW p \in from..upto-1
        PROVE  p \in DOMAIN known
    <3>1. p \in Nat /\ from <= p /\ p < upto
      BY <1>1
    <3>2. PICK b \in pool : b.pos = p
      BY <3>1, <1>4
    <3>3. QED BY <3>1, <3>2 DEF Lists
  <2>2. QED BY <2>1
<1>8. upto \notin DOMAIN known
  <2>1. SUFFICES ASSUME upto \in DOMAIN known
        PROVE  FALSE
    OBVIOUS
  <2>2. PICK b \in pool : b.pos = upto
    BY <2>1 DEF Lists
  <2>3. b \in Store(d.chunks)
    BY <2>2, <1>1, <1>5
  <2>4. Spans(d.chunks, upto)
    BY <2>2, <2>3, <1>1, StoreFacts
  <2>5. QED BY <2>4, <1>1, <1>6
<1>9. tail = [i \in 1..upto-from |-> [pos |-> from + (i - 1), v |-> known[from + (i - 1)]]]
  <2>1. DOMAIN tail = 1..upto-from /\ tail = [i \in DOMAIN tail |-> tail[i]]
    BY <1>3
  <2>2. ASSUME NEW i \in 1..upto-from
        PROVE  tail[i] = [pos |-> from + (i - 1), v |-> known[from + (i - 1)]]
    <3>1. tail[i] \in pool /\ tail[i].pos = from + (i - 1)
      BY <1>3
    <3>2. tail[i] \in Byte /\ from <= from + (i - 1)
      BY <3>1
    <3>3. known[from + (i - 1)] = tail[i].v
      BY <3>1, <3>2 DEF Lists
    <3>4. tail[i] = [pos |-> tail[i].pos, v |-> tail[i].v]
      BY <3>2 DEF Byte
    <3>5. QED BY <3>1, <3>3, <3>4
  <2>3. QED BY <2>1, <2>2
<1>10. a = [p \in {q \in DOMAIN known : q > upto} |-> known[p]]
  <2>1. /\ a = [p \in DOMAIN a |-> a[p]]
        /\ \A p : p \in DOMAIN a <=> p \in Nat /\ upto <= p /\ Spans(d.chunks, p)
        /\ \A b \in Store(d.chunks) : upto <= b.pos => b.pos \in DOMAIN a /\ a[b.pos] = b.v
    BY <1>1, ArrivedFacts DEF a, upto
  <2>2. ASSUME NEW p \in DOMAIN a
        PROVE  p \in DOMAIN known /\ p > upto /\ a[p] = known[p]
    <3>1. p \in Nat /\ upto <= p /\ Spans(d.chunks, p) /\ p # upto
      BY <2>1, <1>6
    <3>2. PICK b \in Store(d.chunks) : b.pos = p
      BY <3>1, <1>1, StoreFacts
    <3>3. b \in pool /\ from <= b.pos
      BY <3>1, <3>2, <1>1, <1>5
    <3>4. b.pos \in DOMAIN known /\ known[b.pos] = b.v
      BY <3>3 DEF Lists
    <3>5. a[b.pos] = b.v
      BY <3>1, <3>2, <2>1
    <3>6. QED BY <3>1, <3>2, <3>4, <3>5, <1>1
  <2>3. ASSUME NEW p \in DOMAIN known, p > upto
        PROVE  p \in DOMAIN a
    <3>1. PICK b \in pool : b.pos = p
      BY DEF Lists
    <3>2. p \in Nat /\ upto <= p
      BY <2>3, <1>1 DEF Lists
    <3>3. QED BY <3>1, <3>2, <1>5, <2>1
  <2>4. DOMAIN a = {q \in DOMAIN known : q > upto}
    BY <2>2, <2>3
  <2>5. QED BY <2>1, <2>2, <2>4
<1>11. upto \in from..((SeqBound - 1) + 1)
  BY <1>1, PositionsWrap
<1>12. /\ sink.delivered' = sink.delivered
              \o [i \in 1..upto-from |-> [pos |-> from + (i - 1), v |-> known[from + (i - 1)]]]
       /\ sink.last' = upto
  BY <1>3, <1>9 DEF d, upto
<1>13. QED BY <1>2, <1>7, <1>8, <1>10, <1>11, <1>12 DEF R!HandOver

\* The bytes of one write, by position.
LEMMA ContentBytes ==
  ASSUME NEW at \in Nat, NEW len \in Nat, NEW v \in Values, at + len < SeqBound
  PROVE  /\ \A b \in Elements(Content(at, len, v)) : b \in Byte /\ b.v = v /\ b.pos \in at .. at + len - 1
         /\ \A p \in at .. at + len - 1 : \E b \in Elements(Content(at, len, v)) : b.pos = p
<1> DEFINE data == Content(at, len, v)
<1>1. data \in Seq(Byte) /\ DOMAIN data = 1..len
  BY ContentFills DEF Content
<1>2. \A i \in 1..len : data[i].pos = at + (i - 1) /\ data[i].v = v
  <2>1. \A i \in 1..len : Plus(at, i - 1) = at + (i - 1)
    <3>1. SeqBound \in Nat
      BY PositionsWrap
    <3>2. \A i \in 1..len : i - 1 \in Nat /\ at + (i - 1) < SeqBound
      BY <3>1
    <3>3. QED BY <3>2, PositionsWrap
  <2>2. \A i \in 1..len : data[i] = [pos |-> Plus(at, i - 1), v |-> v]
    BY DEF Content
  <2> HIDE DEF data
  <2>3. ASSUME NEW i \in 1..len
        PROVE  data[i].pos = at + (i - 1) /\ data[i].v = v
    <3>1. data[i] = [pos |-> Plus(at, i - 1), v |-> v]
      BY <2>2
    <3>2. data[i].pos = Plus(at, i - 1)
      BY <3>1
    <3>3. data[i].v = v
      BY <3>1
    <3>4. QED BY <3>2, <3>3, <2>1
  <2>4. QED BY <2>3
<1> HIDE DEF data
<1>3. ASSUME NEW b \in Elements(data)
      PROVE  b \in Byte /\ b.v = v /\ b.pos \in at .. at + len - 1
  <2>1. PICK i \in 1..len : b = data[i]
    BY <1>1 DEF Elements
  <2>2. b.pos = at + (i - 1) /\ b.v = v /\ b \in Byte
    BY <2>1, <1>1, <1>2
  <2>3. QED BY <2>2
<1>4. ASSUME NEW p \in at .. at + len - 1
      PROVE  \E b \in Elements(data) : b.pos = p
  <2>1. (p - at) + 1 \in 1..len /\ at + (((p - at) + 1) - 1) = p
    OBVIOUS
  <2>2. data[(p - at) + 1].pos = p
    BY <2>1, <1>2
  <2>3. QED BY <2>1, <2>2, <1>1 DEF Elements
<1>5. QED BY <1>3, <1>4 DEF data

\* The buffer of an exact object, as the abstract reassembler sees it.
LEMMA WaitingLists ==
  ASSUME Exact(sink)
  PROVE  /\ Arrived = [p \in DOMAIN Arrived |-> Arrived[p]] /\ DOMAIN Arrived \subseteq Nat
         /\ \A p : p \in DOMAIN Arrived <=> p \in Nat /\ sink.last <= p /\ Spans(sink.chunks, p)
         /\ \A b \in Store(sink.chunks) : sink.last <= b.pos => b.pos \in DOMAIN Arrived /\ Arrived[b.pos] = b.v
         /\ \A p \in DOMAIN Arrived : \E b \in Store(sink.chunks) : b.pos = p
         /\ \A from \in Nat : sink.last <= from => Lists(Arrived, Store(sink.chunks), from)
<1>1. /\ sink.chunks \in Seq(FullPiece) /\ Ordered(sink.chunks) /\ sink.last \in Nat
  BY GoodNumbers DEF Exact, Plain
<1>2. Arrived = ArrivedIn(sink)
  BY DEF Arrived, ArrivedIn
<1>3. /\ Arrived = [p \in DOMAIN Arrived |-> Arrived[p]]
      /\ \A p : p \in DOMAIN Arrived <=> p \in Nat /\ sink.last <= p /\ Spans(sink.chunks, p)
      /\ \A b \in Store(sink.chunks) : sink.last <= b.pos => b.pos \in DOMAIN Arrived /\ Arrived[b.pos] = b.v
  BY <1>1, <1>2, ArrivedFacts
<1>4. \A p \in DOMAIN Arrived : p \in Nat /\ \E b \in Store(sink.chunks) : b.pos = p
  BY <1>1, <1>3, StoreFacts
<1>5. ASSUME NEW from \in Nat, sink.last <= from
      PROVE  Lists(Arrived, Store(sink.chunks), from)
  <2>1. ASSUME NEW b \in Store(sink.chunks), from <= b.pos
        PROVE  b.pos \in DOMAIN Arrived /\ Arrived[b.pos] = b.v
    <3>1. b.pos \in Nat
      BY <1>1, StoreFacts
    <3>2. sink.last <= b.pos
      BY <3>1, <2>1, <1>1, <1>5
    <3>3. QED BY <3>2, <1>3
  <2>2. QED BY <2>1, <1>3, <1>4 DEF Lists
<1>6. QED BY <1>3, <1>4, <1>5

\* A write is the arrival of its bytes; one of no bytes changes nothing.
LEMMA WroteReceives ==
  ASSUME Exact(sink), Exact(sink'), NEW at \in Nat, NEW len \in Nat, NEW v \in Values, at + len < SeqBound,
         NEW block, block = Chunk(Content(at, len, v), at, at + len), Wrote(sink, block, sink')
  PROVE  R!Next
<1> DEFINE pool == Pool(sink.chunks, block.data)
<1>1. /\ sink.chunks \in Seq(FullPiece) /\ Ordered(sink.chunks) /\ sink.last \in Nat /\ sink.last \in Seqs
      /\ sink.delivered \in Seq(Byte)
  BY GoodNumbers DEF Exact, Plain
<1>2. block.data = Content(at, len, v)
  BY DEF Chunk
<1>3. /\ Runs(sink.delivered, sink', sink.last, pool) /\ Store(sink'.chunks) \subseteq pool
      /\ \A b \in pool : sink'.last <= b.pos => b \in Store(sink'.chunks)
  BY DEF Wrote
<1>4. /\ \A b \in Store(sink.chunks) : b \in pool /\ b \in Byte /\ b.pos \in Nat /\ Spans(sink.chunks, b.pos)
      /\ \A b \in pool : b \in Store(sink.chunks) \/ (b \in Elements(block.data) /\ ~Spans(sink.chunks, b.pos))
      /\ \A b \in Elements(block.data) : ~Spans(sink.chunks, b.pos) => b \in pool
  BY <1>1, StoreFacts DEF Pool
<1>5. /\ \A b \in Elements(block.data) : b \in Byte /\ b.v = v /\ b.pos \in at .. at + len - 1
      /\ \A p \in at .. at + len - 1 : \E b \in Elements(block.data) : b.pos = p
  BY <1>2, ContentBytes
<1>6. \A b \in pool : b \in Byte
  BY <1>4, <1>5
<1>7. SeqBound \in Nat /\ R!Places = Seqs
  BY PositionsWrap DEF R!Places, Seqs
<1> HIDE DEF pool
<1>8. CASE len = 0
  <2>1. \A b : b \notin Elements(block.data)
    BY <1>5, <1>8
  <2>2. \A b : b \in pool <=> b \in Store(sink.chunks)
    BY <2>1, <1>4
  <2>3. pool = Store(sink.chunks)
    BY <2>2
  <2>4. Lists(Arrived, pool, sink.last)
    BY <2>3, <1>1, WaitingLists
  <2>5. R!HandOver(Arrived, sink.last)
    BY <2>4, <1>1, <1>3, <1>6, RunsHandOver
  <2>6. R!SkipTo(sink.last)
    BY <2>5, <1>1 DEF R!SkipTo
  <2>7. QED BY <2>6, <1>1, <1>7 DEF R!Next
<1>9. CASE len # 0
  <2> DEFINE fresh == {p \in at .. at + len - 1 : p >= sink.last /\ p \notin DOMAIN Arrived}
             known == [p \in DOMAIN Arrived \cup fresh |-> IF p \in fresh THEN v ELSE Arrived[p]]
  <2>1. /\ \A p : p \in DOMAIN Arrived <=> p \in Nat /\ sink.last <= p /\ Spans(sink.chunks, p)
        /\ \A b \in Store(sink.chunks) : sink.last <= b.pos => b.pos \in DOMAIN Arrived /\ Arrived[b.pos] = b.v
        /\ \A p \in DOMAIN Arrived : \E b \in Store(sink.chunks) : b.pos = p
    BY WaitingLists
  <2>2. \A p : p \in fresh <=> p \in at .. at + len - 1 /\ p \in Nat /\ sink.last <= p /\ ~Spans(sink.chunks, p)
    BY <2>1, <1>1
  <2>3. /\ known = [p \in DOMAIN known |-> known[p]]
        /\ \A p : p \in DOMAIN known <=> p \in DOMAIN Arrived \/ p \in fresh
        /\ \A p \in fresh : known[p] = v
        /\ \A p \in DOMAIN Arrived : p \notin fresh => known[p] = Arrived[p]
    OBVIOUS
  <2> HIDE DEF fresh, known
  <2>4. ASSUME NEW b \in pool, sink.last <= b.pos
        PROVE  b.pos \in DOMAIN known /\ known[b.pos] = b.v
    <3>1. CASE b \in Store(sink.chunks)
      <4>1. b.pos \in DOMAIN Arrived /\ Arrived[b.pos] = b.v /\ Spans(sink.chunks, b.pos)
        BY <3>1, <2>1, <2>4, <1>4
      <4>2. b.pos \notin fresh
        BY <4>1, <2>2
      <4>3. QED BY <4>1, <4>2, <2>3
    <3>2. CASE b \in Elements(block.data) /\ ~Spans(sink.chunks, b.pos)
      <4>1. b.v = v /\ b.pos \in at .. at + len - 1 /\ b.pos \in Nat
        BY <3>2, <1>5
      <4>2. b.pos \in fresh
        BY <4>1, <3>2, <2>2, <2>4
      <4>3. QED BY <4>1, <4>2, <2>3
    <3>3. QED BY <3>1, <3>2, <1>4
  <2>5. ASSUME NEW p \in DOMAIN known
        PROVE  p \in Nat /\ \E b \in pool : b.pos = p
    <3>1. CASE p \in DOMAIN Arrived
      BY <3>1, <2>1, <1>4
    <3>2. CASE p \in fresh
      <4>1. p \in at .. at + len - 1 /\ p \in Nat /\ ~Spans(sink.chunks, p)
        BY <3>2, <2>2
      <4>2. PICK b \in Elements(block.data) : b.pos = p
        BY <4>1, <1>5
      <4>3. b \in pool
        BY <4>1, <4>2, <1>4
      <4>4. QED BY <4>1, <4>2, <4>3
    <3>3. QED BY <3>1, <3>2, <2>3
  <2>6. Lists(known, pool, sink.last)
    BY <2>3, <2>4, <2>5 DEF Lists
  <2>7. R!HandOver(known, sink.last)
    BY <2>6, <1>1, <1>3, <1>6, RunsHandOver
  <2>8. R!Receive(at, at + len - 1, v)
    BY <2>7 DEF R!Receive, known, fresh
  <2>9. at \in R!Places /\ at + len - 1 \in R!Places /\ at <= at + len - 1
    BY <1>7, <1>9 DEF Seqs
  <2>10. QED BY <2>8, <2>9 DEF R!Next
<1>10. QED BY <1>8, <1>9

\* A skip is one.
LEMMA SkippedSkips ==
  ASSUME Exact(sink), Exact(sink'), NEW rseq \in Seqs, sink.last <= rseq, Skipped(sink, rseq, sink')
  PROVE  R!Next
<1> DEFINE pool == Store(sink.chunks)
<1>1. /\ sink.chunks \in Seq(FullPiece) /\ Ordered(sink.chunks) /\ sink.last \in Nat /\ rseq \in Nat
      /\ sink.delivered \in Seq(Byte)
  BY GoodNumbers, PositionsWrap DEF Exact, Plain
<1>2. /\ Runs(sink.delivered, sink', rseq, pool)
      /\ \A b \in pool : sink'.last <= b.pos => b \in Store(sink'.chunks)
      /\ \A i \in DOMAIN sink'.chunks : \E j \in DOMAIN sink.chunks : sink'.chunks[i] = sink.chunks[j]
  BY DEF Skipped
<1>3. Store(sink'.chunks) \subseteq pool
  BY <1>2 DEF Store
<1>4. \A b \in pool : b \in Byte
  BY <1>1, StoreFacts
<1>5. Lists(Arrived, pool, rseq)
  BY <1>1, WaitingLists
<1> HIDE DEF pool
<1>6. R!HandOver(Arrived, rseq)
  BY <1>1, <1>2, <1>3, <1>4, <1>5, RunsHandOver
<1>7. R!SkipTo(rseq)
  BY <1>1, <1>6 DEF R!SkipTo
<1>8. R!Places = Seqs
  BY DEF R!Places, Seqs
<1>9. QED BY <1>7, <1>8 DEF R!Next

\* Every call of a careful caller is a step of the abstract reassembler or
\* leaves it alone.
LEMMA CalledIsStep ==
  ASSUME Exact(sink), Exact(sink'), Called(sink, sink')
  PROVE  UNCHANGED R!vars \/ R!Next
<1>1. CASE \E at, len \in Nat, v \in Values :
             at + len < SeqBound /\ Wrote(sink, Chunk(Content(at, len, v), at, at + len), sink')
  <2>1. PICK at \in Nat, len \in Nat, v \in Values :
          at + len < SeqBound /\ Wrote(sink, Chunk(Content(at, len, v), at, at + len), sink')
    BY <1>1
  <2>2. R!Next
    BY <2>1, WroteReceives
  <2>3. QED BY <2>2
<1>2. CASE \E rseq \in Seqs : sink.last <= rseq /\ Skipped(sink, rseq, sink')
  BY <1>2, SkippedSkips
<1>3. CASE sink' = Fresh
  <2>1. sink'.last = 0 /\ sink'.delivered = <<>> /\ sink'.chunks = <<>>
    BY <1>3 DEF Fresh
  <2>2. BufferedData(sink') = {}
    BY <2>1 DEF BufferedData
  <2>3. Waiting(sink') = {}
    BY <2>2 DEF Waiting
  <2>4. ArrivedIn(sink') = [p \in {} |-> 0]
    BY <2>3 DEF ArrivedIn
  <2>5. Arrived' = [p \in {} |-> 0]
    BY <2>4 DEF Arrived, ArrivedIn
  <2>6. QED BY <2>1, <2>5 DEF R!Next, R!Restart
<1>4. CASE sink'.last = sink.last /\ sink'.chunks = sink.chunks /\ sink'.delivered = sink.delivered
  <2>1. Arrived' = Arrived
    BY <1>4 DEF Arrived, Waiting, BufferedData
  <2>2. QED BY <1>4, <2>1 DEF R!vars
<1>5. QED BY <1>1, <1>2, <1>3, <1>4 DEF Called

\* Careful callers see the abstract reassembler: whatever they write, in whatever
\* order and however segments repeat or overlap, what the units are fed is what it
\* hands over, the first version of every position counts, and every call is one
\* of its steps.
THEOREM CarefulHandOver == CallersSpec /\ [](Careful => NothingWraps) => HandsOverInOrder
<1>1. CallersInit => (Careful => R!Init)
  <2>1. SUFFICES ASSUME CallersInit
        PROVE  R!Init
    OBVIOUS
  <2>2. sink.last = 0 /\ sink.delivered = <<>> /\ sink.chunks = <<>>
    BY <2>1 DEF CallersInit, Fresh
  <2>3. BufferedData(sink) = {}
    BY <2>2 DEF BufferedData
  <2>4. Waiting(sink) = {}
    BY <2>3 DEF Waiting
  <2>5. Arrived = [p \in {} |-> 0]
    BY <2>4 DEF Arrived
  <2>6. QED BY <2>2, <2>5 DEF R!Init
<1>2. CallersIInv /\ CallersIInv' /\ (Careful => NothingWraps) /\ [CallersNext]_<<vars, caller>> =>
        [ Careful => UNCHANGED R!vars \/ R!Next ]_<<vars, caller>>
  <2>1. SUFFICES ASSUME CallersIInv, CallersIInv', NothingWraps, CallersNext, Careful
        PROVE  UNCHANGED R!vars \/ R!Next
    OBVIOUS
  <2>2. Called(sink, sink')
    BY <2>1, CarefulStep
  <2>3. Exact(sink) /\ Exact(sink')
    BY <2>1 DEF CallersIInv, CallersNext, Careful
  <2>4. QED BY <2>2, <2>3, CalledIsStep
<1>3. QED BY <1>1, <1>2, CallersStayExact, PTL DEF CallersSpec, HandsOverInOrder
=============================================================================
