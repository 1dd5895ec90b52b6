-------------------------------- MODULE Sink --------------------------------
(***************************************************************************)
(* The sink of the Spicy runtime (spicy/runtime/src/sink.cc): it takes     *)
(* chunks of data at positions of a sequence space, puts them in order and *)
(* feeds them to the units connected to it.                                *)
(*                                                                         *)
(* A sink has no thread of its own: each method of the class is one action *)
(* here, and what is hard is the protocol, any sequence of calls.  The     *)
(* fields of the object are the fields of the record sink; a private       *)
(* method that changes them is an operator from a record to a record, and  *)
(* outcome tells how the last delivery ended.                              *)
(*                                                                         *)
(* A byte remembers the position it was written for and a value, which     *)
(* tells apart two versions of the same position.  Positions are relative  *)
(* to the initial sequence number and wrap at SeqBound, as uint64_t does at  *)
(* 2^64.                                                                   *)
(***************************************************************************)
EXTENDS Integers, Sequences, FiniteSets, SequencesExt, FiniteSetsExt

CONSTANTS
  SeqBound,      \* size of the sequence space
  Values,      \* values a byte can have
  Unset,       \* an unset std::optional<Bytes>: the chunk is a gap
  Segments,    \* <<seq, len>> that write() is called for
  Appends,     \* lengths that write() is called with when it is given no seq
  GapRanges,   \* <<seq, len>> that gap() is called for
  SkipTargets, \* sequence numbers that skip() is called with
  SkipsBack,   \* whether skip() is also called to go back
  TrimTargets, \* sequence numbers that trim() is called with
  AutoTrims,   \* values that set_auto_trim() is called with
  Initials,    \* initial sequence numbers that are set
  Units,       \* <<limit, ending>> of the units that connect: such a unit
               \* ends with "done" or "failed" on its limit-th byte
  Block,       \* a filter passes on only whole blocks of this many bytes
  MaxUnits,    \* bound on the units connected
  MaxCalls     \* bound on the calls made

ASSUME ConstantsAssumption ==
  /\ SeqBound \in Nat \ {0} /\ Block \in Nat \ {0}
  /\ MaxUnits \in Nat /\ MaxCalls \in Nat /\ SkipsBack \in BOOLEAN
  /\ Segments \cup GapRanges \subseteq (0..SeqBound-1) \X (0..SeqBound-1)
  /\ SkipTargets \cup TrimTargets \cup Initials \subseteq 0..SeqBound-1
  /\ AutoTrims \subseteq BOOLEAN /\ Appends \subseteq Nat
  /\ Units \subseteq (Nat \ {0}) \X {"done", "failed"}

VARIABLES
  sink,  \* the object, with the history of what it did
  calls  \* calls made so far

vars == <<sink, calls>>

-----------------------------------------------------------------------------
(* Data *)

Seqs == 0..SeqBound-1
Plus(a, b) == (a + b) % SeqBound
\* Fault: wraps where nothing is to wrap, at equality.
Minus_AtEquality(a, b) == IF a <= b THEN a - b + SeqBound ELSE a - b
Minus(a, b) == (a - b) % SeqBound

Byte == [pos : Seqs, v : Values]
\* An unset optional is no data.
ASSUME UnsetAssumption == Unset \notin Seq(Byte)
Chunk(data, rseq, rupper) == [data |-> data, rseq |-> rseq, rupper |-> rupper]

\* The bytes of one write: len of them from position rseq on, all of value v.
Content(rseq, len, v) == [i \in 1..len |-> [pos |-> Plus(rseq, i - 1), v |-> v]]

Drop(data, n) == SubSeq(data, n + 1, Len(data))
Elements(data) == {data[i] : i \in DOMAIN data}
Positions(data) == {data[i].pos : i \in DOMAIN data}
Within(from, to) == {p \in Seqs : from <= p /\ p < to}

\* A connected unit.  "parsing": it waits for data; "done": its parser has
\* returned; "failed": its parser threw and it gets no further data.
Unit == [received : Seq(Byte), limit : Nat, ending : {"done", "failed"},
         status : {"parsing", "done", "failed"}]

\* The fields of the object after construction.  The fields of the last line
\* are history: the bytes delivered, those written, those reported as
\* undelivered, the positions announced as missing (%gap, %skipped), whether
\* a gap was hit in the buffer that no skip() went over, and whether a skip()
\* went back.
Fresh == [autoTrim |-> TRUE, size |-> 0, initial |-> 0, cur |-> 0, last |-> 0,
          trim |-> 0, chunks |-> <<>>, units |-> <<>>, filter |-> FALSE, held |-> <<>>,
          outcome |-> "ok", thrown |-> FALSE,
          delivered |-> <<>>, written |-> {}, undelivered |-> {}, missing |-> {}, stuck |-> FALSE, back |-> FALSE]

HaveInput(s) == s.cur # 0 \/ s.chunks # <<>>
Rseq(s, seq) == Minus(seq, s.initial)
SequenceNumber(s) == Plus(s.initial, s.cur)

-----------------------------------------------------------------------------
(* Delivery *)

Feed(unit, data) ==
  LET all == unit.received \o data IN
  [unit EXCEPT !.received = all,
               !.status = IF Len(all) < unit.limit THEN "parsing" ELSE unit.ending]

\* Fault: a unit that has failed holds up those after it as well.
FeedUnits_FailureBlocks(units, data) ==
  [i \in DOMAIN units |->
     IF \A j \in 1..i : units[j].status = "parsing" THEN Feed(units[i], data) ELSE units[i]]

\* The units are fed in the order they connected, up to the first one that
\* has completed: there the ParseError leaves the loop.
FeedUnits(units, data) ==
  LET completed == {i \in DOMAIN units : units[i].status = "done"}
      Reached(i) == \A j \in completed : i < j
  IN [i \in DOMAIN units |->
        IF units[i].status = "parsing" /\ Reached(i) THEN Feed(units[i], data) ELSE units[i]]

SomeCompleted(units) == \E i \in DOMAIN units : units[i].status = "done"

\* What comes out of the filter: it keeps an incomplete block to itself.
Filtered(s, data) ==
  LET all == s.held \o data
      ready == IF s.filter THEN Block * (Len(all) \div Block) ELSE Len(all)
  IN [out |-> SubSeq(all, 1, ready), held |-> Drop(all, ready)]

DeliverGap(s, c) ==
  LET reported == s.cur # c.rupper IN
  [s EXCEPT !.cur = c.rupper, !.outcome = "gap",
            !.missing = IF reported THEN @ \cup Within(c.rseq, c.rupper) ELSE @]

\* Fault: the positions are not moved past the data delivered.
DeliverData_NoAdvance(s, c) ==
  LET f == Filtered(s, c.data)
      fed == [s EXCEPT !.held = f.held, !.size = @ + Len(f.out), !.units = FeedUnits(@, f.out)]
  IN IF SomeCompleted(s.units) THEN [fed EXCEPT !.outcome = "thrown", !.thrown = TRUE]
     ELSE [fed EXCEPT !.outcome = "ok", !.delivered = @ \o f.out]

\* Fault: only one of the two positions is moved.
DeliverData_OnlyCur(s, c) ==
  LET f == Filtered(s, c.data) IN
  [s EXCEPT !.held = f.held, !.size = @ + Len(f.out), !.units = FeedUnits(@, f.out),
            !.cur = c.rupper, !.outcome = "ok", !.delivered = @ \o f.out]

DeliverData(s, c) ==
  LET f == Filtered(s, c.data)
      fed == [s EXCEPT !.held = f.held, !.size = @ + Len(f.out),
                       !.units = FeedUnits(@, f.out)]
  IN IF f.out = <<>> THEN [s EXCEPT !.held = f.held, !.outcome = "ok"]
     ELSE IF SomeCompleted(s.units) THEN [fed EXCEPT !.outcome = "thrown", !.thrown = TRUE]
     ELSE [fed EXCEPT !.cur = c.rupper, !.last = c.rupper, !.outcome = "ok",
                      !.delivered = @ \o f.out]

Deliver(s, c) == IF c.data = Unset THEN DeliverGap(s, c) ELSE DeliverData(s, c)

\* Fault: all that is erased is reported, delivered or not.
Trim_ReportsAll(s, rseq) ==
  LET erased == {i \in DOMAIN s.chunks : \A j \in 1..i : s.chunks[j].rseq < rseq}
  IN [s EXCEPT !.chunks = Drop(@, Cardinality(erased)), !.trim = rseq,
               !.undelivered = @ \cup UNION {Positions(s.chunks[i].data) :
                                               i \in {j \in erased : s.chunks[j].data # Unset}}]

\* Erases the chunks at the front that begin before rseq.
Trim(s, rseq) ==
  LET Before(i) == \A j \in 1..i : s.chunks[j].rseq < rseq
      erased == {i \in DOMAIN s.chunks : Before(i)}
      reported == {i \in erased : s.chunks[i].data # Unset /\ s.cur < s.chunks[i].rseq}
  IN [s EXCEPT !.chunks = Drop(@, Cardinality(erased)), !.trim = rseq,
               !.undelivered = @ \cup UNION {Positions(s.chunks[i].data) : i \in reported}]

\* Fault: chunks are taken as they come, with or without a hole before them.
TryChunk_OverHole(s, c) ==
  IF s.outcome # "ok" \/ c.rseq < s.last THEN s
  ELSE Deliver([s EXCEPT !.last = c.rupper], c)

\* One turn of the loop of TryDeliver: a gap or an exception ends it.
TryChunk(s, c) ==
  IF s.outcome # "ok" \/ c.rseq # s.last THEN s
  ELSE LET d == Deliver([s EXCEPT !.last = Plus(@, Minus(c.rupper, c.rseq))], c)
       IN IF d.outcome = "gap" /\ d.autoTrim
          THEN [Trim(d, c.rseq) EXCEPT !.stuck = TRUE] ELSE d

\* The loop over the chunks from index at on: the object after chunk k.
Turns(s, at) ==
  LET turn[k \in 0..Len(s.chunks)] == IF k < at THEN s ELSE TryChunk(turn[k - 1], s.chunks[k])
  IN turn

\* Delivers what is in order now, from the chunk at index at on.
TryDeliver(s, at) ==
  LET d == Turns(s, at)[Len(s.chunks)]
  IN IF d.outcome # "thrown" /\ d.autoTrim THEN Trim(d, d.last) ELSE d

-----------------------------------------------------------------------------
(* Buffering *)

\* What is left of a new block while it is inserted: list is the part of the
\* buffer already passed, first the index of the first piece of the block in
\* it, met the index of the last chunk that it overlaps, 0 standing for none.
Insert(a, rupper) ==
  [a EXCEPT !.list = Append(@, Chunk(a.data, a.rseq, rupper)), !.placed = TRUE,
            !.first = IF @ = 0 THEN Len(a.list) + 1 ELSE @]

\* Fault: the whole block is inserted for its prefix.
InsertPrefix_Whole(a, c) ==
  IF a.rseq >= c.rseq THEN a
  ELSE IF a.data = Unset THEN [a EXCEPT !.rseq = c.rseq, !.dangling = TRUE]
  ELSE [Insert(a, a.rseq + Len(a.data)) EXCEPT !.placed = FALSE, !.rseq = c.rseq,
                                               !.data = Drop(@, c.rseq - a.rseq)]

\* Fault: the prefix is one byte short.
InsertPrefix_Short(a, c) ==
  LET n == c.rseq - a.rseq IN
  IF a.rseq >= c.rseq THEN a
  ELSE [Insert([a EXCEPT !.data = SubSeq(@, 1, n - 1)], c.rseq)
          EXCEPT !.placed = FALSE, !.rseq = c.rseq, !.data = Drop(a.data, n)]

\* The part of the new block before c, in a chunk of its own.  A gap is not
\* split, and leaves the iterator that is returned unset.
InsertPrefix(a, c) ==
  LET n == c.rseq - a.rseq IN
  IF a.rseq >= c.rseq THEN a
  ELSE IF a.data = Unset THEN [a EXCEPT !.rseq = c.rseq, !.dangling = TRUE]
  ELSE [Insert([a EXCEPT !.data = SubSeq(@, 1, n)], c.rseq)
          EXCEPT !.placed = FALSE, !.rseq = c.rseq, !.data = Drop(a.data, n)]

\* Fault: the version that comes last counts.
Overlap_LastCounts(a, c, rupper) ==
  LET p == InsertPrefix(a, c)
      n == Min({rupper - p.rseq, c.rupper - p.rseq})
      remainder == p.data # Unset /\ n < rupper - p.rseq
      at(k) == c.rseq + k - p.rseq
  IN [p EXCEPT !.list = Append(@, [c EXCEPT !.data =
                          [k \in DOMAIN @ |-> IF at(k) \in DOMAIN p.data THEN p.data[at(k)] ELSE @[k]]]),
               !.met = Len(p.list) + 1, !.placed = ~remainder,
               !.data = IF remainder THEN Drop(@, n) ELSE @,
               !.rseq = IF remainder THEN @ + n ELSE @]

\* The part of the new block that c already covers is dropped: first come,
\* first served.
Overlap(a, c, rupper) ==
  LET p == InsertPrefix(a, c)
      n == Min({rupper - p.rseq, c.rupper - p.rseq})
      remainder == p.data # Unset /\ n < rupper - p.rseq
  IN [p EXCEPT !.list = Append(@, c), !.met = Len(p.list) + 1, !.placed = ~remainder,
               !.data = IF remainder THEN Drop(@, n) ELSE @,
               !.rseq = IF remainder THEN @ + n ELSE @]

\* What becomes of the new block at c: c is passed, gets it in front or overlaps it.
Pass(a, c) == [a EXCEPT !.list = Append(@, c)]
Visit(a, c, rupper) ==
  IF a.placed \/ c.rupper <= a.rseq THEN Pass(a, c)
  ELSE IF rupper <= c.rseq THEN Pass(Insert(a, rupper), c)
  ELSE Overlap(a, c, rupper)

\* The loop over the buffer, and the recursion: the new block after chunk k.
Visits(chunks, data, rseq, rupper) ==
  LET visit[k \in 0..Len(chunks)] ==
        IF k = 0 THEN [list |-> <<>>, data |-> data, rseq |-> rseq, first |-> 0, met |-> 0,
                       placed |-> FALSE, dangling |-> FALSE]
        ELSE Visit(visit[k - 1], chunks[k], rupper)
  IN visit

\* Puts a new block into the ordered buffer; at is the index of the chunk
\* whose iterator is returned, 0 when that iterator was never assigned.
AddAndCheck(chunks, data, rseq, rupper) ==
  LET seen == Visits(chunks, data, rseq, rupper)[Len(chunks)]
      end == IF seen.placed THEN seen ELSE Insert(seen, rupper)
  IN IF rseq = Last(chunks).rupper
     THEN [list |-> Append(chunks, Chunk(data, rseq, rupper)), at |-> Len(chunks) + 1]
     ELSE [list |-> end.list, at |-> IF end.dangling THEN 0
                                     ELSE IF end.first # 0 THEN end.first ELSE end.met]

\* Fault: a block that is not in order yet is not kept.
Buffered_Dropped(s, list, at) ==
  IF at = 0 THEN [s EXCEPT !.outcome = "crashed"]
  ELSE IF list[at].rseq > s.last \/ list[at].rupper <= s.last THEN s
  ELSE TryDeliver([s EXCEPT !.chunks = list], at)

\* Fault: a block that fills the hole does not trigger delivery.
Buffered_Waits(s, list, at) ==
  IF at = 0 THEN [s EXCEPT !.outcome = "crashed"]
  ELSE IF list[at].rseq >= s.last \/ list[at].rupper <= s.last THEN [s EXCEPT !.chunks = list]
  ELSE TryDeliver([s EXCEPT !.chunks = list], at)

\* The tail of NewData: delivers if the block filled a leading hole.
\* Dereferencing an iterator that was never assigned is a crash.
Buffered(s, list, at) ==
  IF at = 0 THEN [s EXCEPT !.outcome = "crashed"]
  ELSE IF list[at].rseq > s.last \/ list[at].rupper <= s.last THEN [s EXCEPT !.chunks = list]
  ELSE TryDeliver([s EXCEPT !.chunks = list], at)

NewData(s, data, rseq, len) ==
  LET rupper == Plus(rseq, len)
      old == IF rseq < s.trim THEN s.trim - rseq ELSE 0
      from == rseq + old
      kept == IF data = Unset THEN Unset ELSE Drop(data, old)
      added == AddAndCheck(s.chunks, kept, from, rupper)
  IN IF len = 0 THEN s
     ELSE IF s.autoTrim /\ s.chunks = <<>> /\ rseq = s.cur
          THEN Deliver(s, Chunk(data, rseq, rupper))
     ELSE IF rupper <= s.trim THEN s
     ELSE IF s.chunks = <<>>
          THEN Buffered(s, <<Chunk(kept, from, Plus(from, len))>>, 1)
     ELSE Buffered(s, added.list, added.at)

\* Reports the data buffered before rupper.  Of a chunk that straddles it, it
\* takes as many bytes from the front as the chunk has beyond rupper.
ReportUndeliveredUpTo(s, rupper) ==
  LET Before(i) == \A j \in 1..i : s.chunks[j].rseq < rupper
      Reported(c) == IF c.rupper <= rupper THEN c.data
                     ELSE SubSeq(c.data, 1, Min({c.rupper - rupper, Len(c.data)}))
      visited == {i \in DOMAIN s.chunks : Before(i) /\ s.chunks[i].data # Unset}
  IN [s EXCEPT !.undelivered = @ \cup UNION {Positions(Reported(s.chunks[i])) : i \in visited}]

\* Fault: the position is moved before the data skipped over is reported.
SkipTo_MovedFirst(s, rseq) ==
  LET m == [s EXCEPT !.cur = rseq, !.last = rseq, !.stuck = FALSE,
                     !.missing = @ \cup Within(0, rseq)]
  IN TryDeliver(IF s.autoTrim THEN Trim(m, rseq) ELSE ReportUndeliveredUpTo(m, rseq), 1)

\* Fault: what is in order after the skip is not delivered.
SkipTo_NotResumed(s, rseq) ==
  LET t == IF s.autoTrim THEN Trim(s, rseq) ELSE ReportUndeliveredUpTo(s, rseq)
  IN [t EXCEPT !.cur = rseq, !.last = rseq, !.stuck = FALSE,
               !.missing = @ \cup Within(0, rseq)]

SkipTo(s, rseq) ==
  LET t == IF s.autoTrim THEN Trim(s, rseq) ELSE ReportUndeliveredUpTo(s, rseq)
  IN TryDeliver([t EXCEPT !.cur = rseq, !.last = rseq, !.stuck = FALSE,
                          !.missing = @ \cup Within(0, rseq),
                          !.back = @ \/ rseq < s.cur], 1)

-----------------------------------------------------------------------------
(* The methods *)

Init == sink = Fresh /\ calls = 0

\* A call starts on s and leaves the object as the result; a crash is final.
Ready == calls < MaxCalls /\ sink.outcome # "crashed"
Current == [sink EXCEPT !.outcome = "ok"]
Returns(s) == sink' = s /\ calls' = calls + 1

\* write() of len bytes at an absolute position.
Write(seq, len, v) ==
  LET at == Rseq(sink, seq)
      data == Content(at, len, v)
  IN /\ Ready
     /\ Returns(NewData([Current EXCEPT !.written = @ \cup Positions(data)], data, at, len))

\* write() without a position: the data continues the stream.
WriteNext(len, v) == Write(SequenceNumber(sink), len, v)

ReportGap(seq, len) == Ready /\ Returns(NewData(Current, Unset, Rseq(sink, seq), len))

Skip(seq) ==
  /\ Ready
  /\ SkipsBack \/ sink.cur <= Rseq(sink, seq)
  /\ Returns(SkipTo(Current, Rseq(sink, seq)))

TrimTo(seq) == Ready /\ Returns(Trim(Current, Rseq(sink, seq)))

SetAutoTrim(enable) == Ready /\ Returns([Current EXCEPT !.autoTrim = enable])

\* _close(): the connected units are run to their end, or aborted, and go.
Close == Ready /\ Returns(Fresh)

\* Once there was input, the sink is closed and SinkError thrown.
SetInitialSequenceNumber(seq) ==
  /\ Ready
  /\ Returns(IF HaveInput(sink) THEN Fresh ELSE [Current EXCEPT !.initial = seq])

\* connect(): the unit's parser starts on empty data and waits.
Connect(unit) ==
  /\ Ready
  /\ Len(sink.units) < MaxUnits
  /\ Returns([Current EXCEPT !.units =
        Append(@, [received |-> <<>>, limit |-> unit[1], ending |-> unit[2],
                   status |-> "parsing"])])

\* connect_filter(), which throws SinkError once data has been delivered.
ConnectFilter ==
  /\ Ready
  /\ Block > 1 /\ ~sink.filter
  /\ Returns(IF sink.size # 0 THEN Current ELSE [Current EXCEPT !.filter = TRUE])

Next ==
  \/ \E segment \in Segments, v \in Values : Write(segment[1], segment[2], v)
  \/ \E len \in Appends, v \in Values : WriteNext(len, v)
  \/ \E range \in GapRanges : ReportGap(range[1], range[2])
  \/ \E seq \in SkipTargets : Skip(seq)
  \/ \E seq \in TrimTargets : TrimTo(seq)
  \/ \E enable \in AutoTrims : SetAutoTrim(enable)
  \/ \E seq \in Initials : SetInitialSequenceNumber(seq)
  \/ \E unit \in Units : Connect(unit)
  \/ ConnectFilter
  \/ Close

Spec == Init /\ [][Next]_vars

-----------------------------------------------------------------------------
(* What holds *)

BufferedData(s) == {i \in DOMAIN s.chunks : s.chunks[i].data # Unset}
Waiting(s) == UNION {Positions(s.chunks[i].data) : i \in BufferedData(s)}
Delivered(s) == Positions(s.delivered)
GapsBuffered(s) ==
  UNION {Within(s.chunks[i].rseq, s.chunks[i].rupper) : i \in DOMAIN s.chunks \ BufferedData(s)}

\* The type of the state.
TypeOK ==
  /\ calls \in 0..MaxCalls
  /\ sink.autoTrim \in BOOLEAN /\ sink.filter \in BOOLEAN
  /\ sink.thrown \in BOOLEAN /\ sink.stuck \in BOOLEAN
  /\ sink.size \in Nat
  /\ {sink.initial, sink.cur, sink.last, sink.trim} \subseteq Seqs
  /\ \A i \in DOMAIN sink.chunks :
       /\ sink.chunks[i].data = Unset \/ sink.chunks[i].data \in Seq(Byte)
       /\ {sink.chunks[i].rseq, sink.chunks[i].rupper} \subseteq Seqs
  /\ sink.units \in Seq(Unit)
  /\ sink.held \in Seq(Byte) /\ sink.delivered \in Seq(Byte)
  /\ sink.written \cup sink.undelivered \cup sink.missing \subseteq Seqs
  /\ sink.outcome \in {"ok", "gap", "thrown", "crashed"}

\* The buffer is an ordered list of chunks that do not overlap: what
\* _addAndCheck() takes for granted whenever it looks for a place to insert.
ChunksOrdered ==
  /\ \A i \in DOMAIN sink.chunks : sink.chunks[i].rseq < sink.chunks[i].rupper
  /\ \A i, j \in DOMAIN sink.chunks : i < j => sink.chunks[i].rupper <= sink.chunks[j].rseq

\* A chunk's data is what its bounds say: rseq is the position of its first
\* byte, rupper that of its last byte + 1 (the comments on struct Chunk).
ChunkBounds ==
  \A i \in BufferedData(sink) :
    LET c == sink.chunks[i] IN
    /\ Len(c.data) = c.rupper - c.rseq
    /\ \A k \in DOMAIN c.data : c.data[k].pos = c.rseq + k - 1

\* A connected unit sees the bytes of the stream in order and none twice,
\* until a completed unit makes a delivery fail half way or a skip goes back.
UnitsSeeOrder ==
  ~sink.thrown /\ ~sink.back =>
    \A u \in DOMAIN sink.units : LET r == sink.units[u].received IN
      \A i, j \in DOMAIN r : i < j => r[i].pos < r[j].pos

\* Units that are still parsing are in step: each has seen the end of the
\* stream delivered, from the moment it was connected.
UnitsInStep ==
  ~sink.thrown =>
    \A u \in DOMAIN sink.units :
      sink.units[u].status = "parsing" => IsSuffix(sink.units[u].received, sink.delivered)

\* The stream has no silent holes: a position before the last byte delivered
\* was delivered too, or a hook has announced that it is missing.
NoSilentHole ==
  \A p \in Delivered(sink) : 0..p \subseteq Delivered(sink) \cup sink.missing

\* No byte gets lost in the buffer: all that was written was delivered, waits
\* in the buffer, was reported as undelivered or skipped over, or belongs to
\* a gap, whose report came first.
NothingLost ==
  ~sink.thrown =>
    sink.written \subseteq Delivered(sink) \cup Positions(sink.held) \cup Waiting(sink)
                            \cup sink.undelivered \cup sink.missing \cup GapsBuffered(sink)

\* Data in order does not stay in the buffer: no chunk holds the position up
\* to which the stream has been reassembled.
NothingReadyWaits ==
  ~sink.thrown /\ ~sink.stuck =>
    \A i \in BufferedData(sink) :
      ~(sink.chunks[i].rseq <= sink.last /\ sink.last < sink.chunks[i].rupper)

\* The two positions that the sink keeps, up to where it has delivered and up
\* to where it has reassembled, agree while nothing has gone wrong.
PositionsAgree ==
  ~sink.thrown /\ ~sink.stuck => sink.cur = sink.last

\* No call would reach across the end of the sequence space: no segment begins
\* before the initial sequence number and ends behind it, and no stream has 2^64 bytes.
Fits(rseq, len) == rseq + len < SeqBound /\ sink.trim + len < SeqBound
NothingWraps ==
  /\ \A range \in Segments \cup GapRanges : Fits(Rseq(sink, range[1]), range[2])
  /\ \A len \in Appends : Fits(Rseq(sink, SequenceNumber(sink)), len)

\* The object is well formed, and its buffer what the insertion relies on.
WellFormed == TypeOK /\ ChunksOrdered

\* The buffer holds what its chunks' bounds say, and nothing that is in order.
BufferExact == ChunkBounds /\ NothingReadyWaits

\* Every byte is accounted for: none is lost in the buffer or missing from the
\* stream without a report, and both positions tell how far it has come.
Accounted == NothingLost /\ NoSilentHole /\ PositionsAgree

\* The units see the stream in order, and those still parsing the same of it.
UnitsAgree == UnitsSeeOrder /\ UnitsInStep

\* With auto-trimming, %undelivered is not triggered for data that the units
\* have already seen.
UndeliveredIsNew ==
  [][ sink.autoTrim /\ ~sink'.back =>
        (sink'.undelivered \ sink.undelivered) \cap Delivered(sink) = {} ]_vars

\* Buffered data that skip() goes over, beyond the current position, is passed
\* to %undelivered (doc/programming/language/types.rst, %on_undelivered),
\* unless the units have seen it or it waits right at that position.
SkippedReported ==
  \A seq \in SkipTargets : Skip(seq) =>
    \/ sink.cur \in Waiting(sink)
    \/ {p \in Waiting(sink) \ Delivered(sink) : sink.cur <= p /\ p < Rseq(sink, seq)}
         \subseteq sink'.undelivered

\* Reporting a gap never makes the sink use an iterator it has not set.
GapIsSafe == sink.outcome # "crashed"

\* The bytes that wait for what is missing before them, by position.
Arrived ==
  LET byte(p) == CHOOSE b \in UNION {Elements(sink.chunks[i].data) : i \in BufferedData(sink)} : b.pos = p
  IN  [p \in {q \in Waiting(sink) : q >= sink.last} |-> byte(p).v]
=============================================================================
