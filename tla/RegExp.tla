------------------------------- MODULE RegExp -------------------------------
(***************************************************************************)
(* Incremental matching of regular expressions: a match state, and the     *)
(* loop that a generated parser runs on it (hilti/runtime/src/types/       *)
(* regexp.cc; parsers/literals.cc).  Input arrives in pieces; a match may  *)
(* turn out to have ended in an earlier piece, so that the parser steps    *)
(* back.                                                                   *)
(*                                                                         *)
(* The automaton comes from a library, JRX.  A pattern is the finite set   *)
(* of words that it matches.                                               *)
(***************************************************************************)
EXTENDS Integers, Sequences, FiniteSets, SequencesExt, FiniteSetsExt

CONSTANTS Alphabet, PatternSets, MaxInput

VARIABLES
  patterns,   \* RegExp::_re: the patterns that are matched in parallel
  blocks,     \* the stream, as the blocks that were appended
  isFrozen,   \* no more input will come
  ms,         \* the MatchState
  ncur,       \* the parser's position, while it matches
  result      \* what became of the match
vars == <<patterns, blocks, isFrozen, ms, ncur, result>>

\* Bound: the length of the input.
Words == UNION {[1..n -> Alphabet] : n \in 0..MaxInput}
Data == FlattenSeq(blocks)

-----------------------------------------------------------------------------
(* The automaton *)

Prefix(w, n) == SubSeq(w, 1, n)
\* Of several patterns that match, the first one counts.
Accept(w) ==
  LET ids == {i \in DOMAIN patterns : w \in patterns[i]}
  IN  IF ids = {} THEN 0 ELSE Min(ids)
Alive(w) == \E i \in DOMAIN patterns : \E v \in patterns[i] : IsPrefix(w, v)
Extensible(w) == \E i \in DOMAIN patterns : \E v \in patterns[i] : IsStrictPrefix(w, v)

\* One call into the library: the match state reads a block until no pattern
\* can match any more, and remembers the longest match.
ExecPartial(s, block, final) ==
  LET all   == s.word \o block
      jams  == {n \in Len(s.word) + 1 .. Len(all) : ~Alive(Prefix(all, n))}
      stop  == IF jams = {} THEN Len(all) ELSE Min(jams)
      ends  == {n \in 0..stop : Accept(Prefix(all, n)) # 0}
      eo    == IF ends = {} THEN -1 ELSE Max(ends)
      over  == jams # {} \/ (final /\ eo >= 0) \/ (eo = Len(all) /\ ~Extensible(all))
  IN  [word |-> Prefix(all, stop), eo |-> eo,
       rc |-> IF ~over THEN -1 ELSE IF eo < 0 THEN 0 ELSE Accept(Prefix(all, eo))]

-----------------------------------------------------------------------------
(* MatchState *)

NewState == [word |-> <<>>, acc |-> 0, done |-> FALSE]

\* Mutant: the parser does not step back if the match has ended before.
Consumed_ReadAll(s, x) == Len(x.word) - Len(s.word)
\* How far the input moves: less than nothing if the match has ended before.
Consumed(s, x) == (IF x.rc > 0 THEN x.eo ELSE Len(x.word)) - Len(s.word)

\* Feeds the blocks of a view one after the other, the last one as final.
RECURSIVE Feed(_, _, _)
Feed(s, view, final) ==
  LET x == ExecPartial(s, Head(view), final /\ Len(view) = 1)
  IN  IF x.rc >= 0 \/ Len(view) = 1 THEN x
      ELSE Feed([s EXCEPT !.word = x.word], Tail(view), final)

\* The result of MatchState::advance() for a view, given as its blocks.
Advance(s, view, final) ==
  IF view = <<>>
  THEN LET acc == IF final /\ s.acc <= 0 THEN Accept(s.word) ELSE s.acc
           rc  == IF final THEN acc ELSE -1
       IN  [state |-> [s EXCEPT !.acc = acc, !.done = rc >= 0], rc |-> rc, offset |-> 0]
  ELSE LET x   == Feed(s, view, final)
           acc == CASE x.rc > 0 -> x.rc
                    [] x.rc = 0 -> Max({s.acc, 0})
                    [] OTHER    -> IF s.acc = 0 THEN -1 ELSE s.acc
       IN  [state |-> [word |-> x.word, acc |-> acc, done |-> acc >= 0],
            rc |-> acc, offset |-> Consumed(s, x)]

\* The whole input at once: RegExp::match() and the search within find().
SearchPattern(w) == IF w = <<>> THEN [rc |-> -1, eo |-> -1] ELSE
  LET x == ExecPartial(NewState, w, TRUE) IN [rc |-> x.rc, eo |-> x.eo]

\* Mutant: a later match of the same length replaces the earlier one.
Find_RightMost(w) ==
  LET Better(best, so) ==
        LET x == SearchPattern(SubSeq(w, so + 1, Len(w)))
        IN  IF x.rc > 0 /\ x.eo >= best.len
            THEN [rc |-> x.rc, so |-> so, len |-> x.eo] ELSE best
  IN  FoldLeft(Better, [rc |-> 0, so |-> -1, len |-> 0], [n \in 1..Len(w) |-> n - 1])
\* RegExp::find(): the longest match, or the left-most one of several.
Find(w) ==
  LET Better(best, so) ==
        LET x == SearchPattern(SubSeq(w, so + 1, Len(w)))
        IN  IF x.rc > 0 /\ (x.eo > best.len \/ (x.eo = best.len /\ best.so < 0))
            THEN [rc |-> x.rc, so |-> so, len |-> x.eo] ELSE best
  IN  FoldLeft(Better, [rc |-> 0, so |-> -1, len |-> 0], [n \in 1..Len(w) |-> n - 1])

-----------------------------------------------------------------------------
(* A parser that matches a token, and its host *)

\* The blocks of the view from a position on.
RECURSIVE ViewFrom(_, _)
ViewFrom(seq, pos) ==
  IF seq = <<>> THEN <<>>
  ELSE IF pos >= Len(Head(seq)) THEN ViewFrom(Tail(seq), pos - Len(Head(seq)))
  ELSE <<SubSeq(Head(seq), pos + 1, Len(Head(seq)))>> \o Tail(seq)

Init ==
  /\ patterns \in PatternSets
  /\ blocks = <<>> /\ isFrozen = FALSE
  /\ ms = NewState /\ ncur = 0 /\ result = "ready"

AppendBlock ==
  /\ ~isFrozen
  /\ \E w \in Words :
       /\ w # <<>> /\ Len(Data) + Len(w) <= MaxInput
       /\ blocks' = Append(blocks, w)
  /\ UNCHANGED <<patterns, isFrozen, ms, ncur, result>>

FreezeInput ==
  /\ ~isFrozen /\ isFrozen' = TRUE
  /\ UNCHANGED <<patterns, blocks, ms, ncur, result>>

\* waitForInputOrEod(): the parser goes on with more data, or at its end.
WakeUp ==
  /\ result = "waiting"
  /\ isFrozen \/ Len(Data) > ncur
  /\ result' = "ready"
  /\ UNCHANGED <<patterns, blocks, isFrozen, ms, ncur>>

\* One turn of the loop.
MatchToken ==
  /\ result = "ready"
  /\ LET r == Advance(ms, ViewFrom(blocks, ncur), isFrozen)
     IN  /\ ms' = r.state
         /\ ncur' = ncur + r.offset
         /\ result' = CASE r.rc < 0 -> "waiting"
                        [] r.rc = 0 -> "failed"
                        [] OTHER    -> "matched"
  /\ UNCHANGED <<patterns, blocks, isFrozen>>

Next == AppendBlock \/ FreezeInput \/ WakeUp \/ MatchToken
Spec == Init /\ [][Next]_vars

-----------------------------------------------------------------------------
(* Properties *)

LongestMatch(w) == {n \in 0..Len(w) : Accept(Prefix(w, n)) # 0}

\* The input ended after a match, while a longer one was still possible; and the
\* parser learned that it had ended only after it had seen the rest.  The code
\* then goes by the rest alone.
CutOff ==
  /\ isFrozen /\ ms.word = Data
  /\ Accept(Data) = 0 /\ LongestMatch(Data) # {}

\* Where a token ends, and which pattern it is, does not depend on how its input
\* was cut into pieces, nor on how much of it there was at each step: it is the
\* longest match from its beginning on, and if there is none then the match fails.
ChunkingDoesNotMatter ==
  /\ result = "matched" =>
       /\ LongestMatch(Data) # {}
       /\ ncur = Max(LongestMatch(Data))
       /\ ms.acc = Accept(Prefix(Data, ncur))
  /\ result = "failed" => LongestMatch(Data) = {} \/ CutOff

\* The loop does not feed a match state that is finished (MatchStateReuse).
NotReused == result \in {"ready", "waiting"} => ~ms.done

\* find() returns the longest match anywhere in the data, and the left-most one
\* of several of the same length.
FindsLongest ==
  LET f     == Find(Data)
      match == {<<i, n>> \in (0..Len(Data)) \X (1..Len(Data)) :
                  i + n <= Len(Data) /\ Accept(SubSeq(Data, i + 1, i + n)) # 0}
  IN  IF match = {} THEN f.len <= 0
      ELSE /\ \A m \in match : m[2] < f.len \/ (m[2] = f.len /\ m[1] >= f.so)
           /\ <<f.so, f.len>> \in match

MatchingIsRight == ChunkingDoesNotMatter /\ NotReused /\ FindsLongest
=============================================================================
