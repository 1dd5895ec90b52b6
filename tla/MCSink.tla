------------------------------- MODULE MCSink -------------------------------
(* Instances of SinkCallers for TLC.  One run holds several callers of a    *)
(* sink, each with calls of its own; `caller` says which one it is.        *)
EXTENDS SinkCallers, TLC

\* Every segment of the first n positions.
SegmentsWithin(n) == {<<seq, len>> \in (0..n-1) \X (1..n) : seq + len <= n}
UpTo4 == SegmentsWithin(4)
\* Segments with fixed boundaries: a retransmission repeats a whole one.
Aligned == {<<0, 2>>, <<2, 1>>, <<3, 2>>}

\* Segments that a filter working on blocks of two passes on at once.
Blocks == {<<0, 2>>, <<2, 2>>, <<4, 2>>}

\* Units that never get enough data, and such that complete or fail early.
Patient == {<<100, "done">>}
Mixed == {<<100, "done">>, <<3, "done">>, <<2, "failed">>}

NoPairs == {}
SomeGaps == {<<0, 2>>, <<2, 1>>}
\* Gaps as large as a block.
BlockGaps == {<<2, 2>>}

\* A caller whose segments always say the same about a position.
Same == {CHOOSE v \in Values : TRUE}

\* The segments that the disciplined callers write.
AllSegments == UpTo4 \cup Aligned

\* The calls of each caller: what it writes, with or without a position, and so on.
\* limit bounds their number.
CallsOfEach ==
  LET none == [limit |-> MaxCalls, writes |-> {}, appends |-> {}, gaps |-> {}, skips |-> {}, trims |-> {},
               autoTrims |-> {}, initials |-> {}, units |-> {}, maxUnits |-> MaxUnits,
               autoTrim |-> TRUE, skipsBack |-> FALSE, filters |-> FALSE, closes |-> TRUE]
  IN [\* auto-trimming is off all the time
      untrimmed |-> [none EXCEPT !.limit = 5, !.writes = UpTo4 \X Values, !.appends = Values,
                                 !.autoTrim = FALSE, !.closes = FALSE],
      \* segments never overlap in part, and skips go forward
      orderly   |-> [none EXCEPT !.writes = Aligned \X Values, !.skips = {2, 3, 5},
                                 !.autoTrims = BOOLEAN],
      \* several units behind a filter, close to the wrap
      blockwise |-> [none EXCEPT !.writes = Blocks \X Same, !.gaps = BlockGaps, !.skips = {4},
                                 !.initials = {14}, !.units = Mixed, !.filters = TRUE],
      \* does anything
      anything  |-> [none EXCEPT !.limit = 5, !.writes = UpTo4 \X Same, !.appends = Same,
                                 !.gaps = SomeGaps, !.skips = {1, 3}, !.trims = {1, 3}, !.skipsBack = TRUE,
                                 !.autoTrims = BOOLEAN, !.units = Patient, !.maxUnits = 1]]

NoCallers == <<>>
\* A caller that makes the calls the constants say.
GivenSpec == caller = "given" /\ Init /\ [][Next /\ UNCHANGED caller]_<<vars, caller>>
=============================================================================
