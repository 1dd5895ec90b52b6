--------------------------- MODULE MCUnitParsing ---------------------------
(* Instances of UnitParsing for TLC. *)
EXTENDS UnitParsing, TLC

CONSTANTS A, B, elem, word, block, opt, one, two, list, empties, counted, trying, sized,
  two_, list_, counted_, trying_, sized_

Token(t) == [what |-> "token", name |-> t, loop |-> "once", n |-> 0, follow |-> {},
             sync |-> FALSE, elemSync |-> FALSE, try |-> FALSE]
Byte == [Token(None) EXCEPT !.what = "byte"]
Unit(u) == [Token(u) EXCEPT !.what = "unit"]
Sync(fd) == [fd EXCEPT !.sync = TRUE]

\* Units with one thing to recover from each: an element that may fail after two
\* symbols; two synchronisation points; lists, with and without an end, and a
\* count, with elements to synchronise on or empty ones; &try; a &size.
Trimming ==
  elem :> <<Token(A), Byte, Token(B)>> @@
  two :> <<Byte, Sync(Unit(elem)), Sync(Token(A))>> @@
  word :> <<Token(B), Token(A)>> @@
  list :> <<[Unit(word) EXCEPT !.loop = "list", !.elemSync = TRUE]>> @@
  one :> <<Token(A)>> @@
  opt :> <<[Unit(one) EXCEPT !.try = TRUE]>> @@
  empties :> <<[Unit(opt) EXCEPT !.loop = "list", !.follow = {B}]>> @@
  counted :> <<[Token(A) EXCEPT !.loop = "count", !.n = 2, !.elemSync = TRUE], Sync(Token(B))>> @@
  trying :> <<[Unit(elem) EXCEPT !.try = TRUE],
              [Token(A) EXCEPT !.loop = "list", !.follow = {B}], Sync(Token(B))>> @@
  block :> <<Token(A), Token(B)>> @@
  sized :> <<Token(A), Sync(Unit(block))>>
\* The same ones with %random-access, where they synchronise.
Units ==
  Trimming @@ two_ :> Trimming[two] @@ list_ :> Trimming[list] @@ counted_ :> Trimming[counted] @@
  trying_ :> Trimming[trying] @@ sized_ :> Trimming[sized]
SizeOf == block :> 3
EndOf == block :> B
NoUnits == [u \in {} |-> 0]

\* What hooks do: %done and %error do not fail, a field's hook may.
Orderly ==
  [init |-> {"nothing", "fail"}, field |-> {"nothing", "fail", "backtrack"}, item |-> {"nothing", "stop"},
   synced |-> {"nothing", "confirm", "fail"}, done |-> {"nothing", "fail"}, error |-> {"nothing", "confirm"},
   finally |-> {"nothing", "fatal"}]

\* "backtrack() can be called from inside %error hooks".
Backtracking == [Orderly EXCEPT !.error = {"backtrack"}]
=============================================================================
