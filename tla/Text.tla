-------------------------------- MODULE Text --------------------------------
(***************************************************************************)
(* What HILTI computes on bytes and strings: searching, cutting, decoding, *)
(* escaping and reading numbers (hilti/runtime/src/types/bytes.cc,         *)
(* src/types/string.cc, src/util.cc).  A behaviour is one call.            *)
(***************************************************************************)
EXTENDS Integers, Sequences, FiniteSets
CONSTANTS
  Letters,    \* bytes that strings are made of: numbers, 0 being white space
  MaxLength,  \* bound: their length
  Encoded,    \* what encoded text is made of: see Iterate()
  Escapable,  \* characters that matter for escaping, and their codes: see Printable
  DigitChars  \* codes of characters that numbers are written with

VARIABLES call, outcome
textVars == <<call, outcome>>

Strings(chars, n) == UNION {[1..k -> chars] : k \in 0..n}
Words == Strings(Letters, MaxLength)
\* What std::string provides: substr(), and where a string is found.
SubStr(s, from, to) == SubSeq(s, from + 1, to)
From(s, i) == SubStr(s, i, Len(s))
IsAt(s, v, i) == i + Len(v) <= Len(s) /\ SubStr(s, i, i + Len(v)) = v
Places(s, v) == {i \in 0..Len(s) : IsAt(s, v, i)}
Least(S) == CHOOSE i \in S : \A j \in S : i <= j
Greatest(S) == CHOOSE i \in S : \A j \in S : i >= j
WhiteAt(s) == {i \in 0 .. Len(s) - 1 : s[i + 1] = 0}

-----------------------------------------------------------------------------
(* Searching and cutting *)

\* Bytes::find(), from position n.
\* Mutant: after a partial match it goes on behind it.
Find_SkipsAhead(s, v, n) ==
  LET Compare[x \in 0..Len(s), y \in 0..Len(v)] ==
        CASE x = Len(s) -> <<"end", x>> [] s[x + 1] # v[y + 1] -> <<"differs", x + 1>>
          [] y + 1 = Len(v) -> <<"found", x>> [] OTHER -> Compare[x + 1, y + 1]
      Scan[j \in 0 .. Len(s) + 1] ==
        IF j >= Len(s) THEN <<FALSE, Len(s)>>
        ELSE IF s[j + 1] # v[1] THEN Scan[j + 1]
        ELSE LET z == Compare[j, 0]
             IN  IF z[1] = "differs" THEN Scan[z[2]] ELSE <<z[1] = "found", j>>
  IN  IF v = <<>> THEN <<TRUE, n>> ELSE Scan[n]
Find(s, v, n) ==
  LET Compare[x \in 0..Len(s), y \in 0..Len(v)] ==
        CASE x = Len(s) -> "end" [] s[x + 1] # v[y + 1] -> "differs"
          [] y + 1 = Len(v) -> "found" [] OTHER -> Compare[x + 1, y + 1]
      Scan[j \in 0 .. Len(s)] ==
        IF j = Len(s) THEN <<FALSE, j>>
        ELSE IF s[j + 1] # v[1] \/ Compare[j, 0] = "differs" THEN Scan[j + 1]
        ELSE <<Compare[j, 0] = "found", j>>
  IN  IF v = <<>> THEN <<TRUE, n>> ELSE Scan[n]
\* Bytes::sub(): the length to - from wraps around when it is negative.
Sub(s, from, to) ==
  IF from > Len(s) THEN <<"OutOfRange">>
  ELSE SubStr(s, from, IF to < from \/ to > Len(s) THEN Len(s) ELSE to)

Trim(s, chars) ==
  LET kept == {i \in 0 .. Len(s) - 1 : s[i + 1] \notin chars}
  IN  IF kept = {} THEN <<>> ELSE SubStr(s, Least(kept), Greatest(kept) + 1)
LeftTrim(s, chars) ==
  LET kept == {i \in 0 .. Len(s) - 1 : s[i + 1] \notin chars}
  IN  IF kept = {} THEN <<>> ELSE From(s, Least(kept))
RightTrim(s, chars) ==
  LET kept == {i \in 0 .. Len(s) - 1 : s[i + 1] \notin chars}
  IN  IF kept = {} THEN <<>> ELSE SubStr(s, 0, Greatest(kept) + 1)
Strip(s, chars, side) ==
  CASE side = "left" -> LeftTrim(s, chars) [] side = "right" -> RightTrim(s, chars)
    [] OTHER -> Trim(s, chars)

\* split() at a delimiter.
EndsIn(s, d) == IsAt(s, d, Len(s) - Len(d))
\* Mutant: a piece behind the last delimiter is always there.
Split_AlwaysLast(s, d) ==
  LET Pieces[t \in Words] ==
        IF t = <<>> \/ Places(t, d) = {} THEN <<t>>
        ELSE LET p == Least(Places(t, d)) IN <<SubStr(t, 0, p)>> \o Pieces[From(t, p + Len(d))]
  IN  IF d = <<>> THEN <<s>> ELSE Pieces[s] \o <<<<>>>>
Split(s, d) ==
  LET Pieces[t \in Words] ==
        IF Places(t, d) = {} THEN <<t>>
        ELSE LET p == Least(Places(t, d))
                 rest == From(t, p + Len(d))
             IN  <<SubStr(t, 0, p)>> \o (IF rest = <<>> THEN <<>> ELSE Pieces[rest])
  IN  IF d = <<>> \/ Len(s) < Len(d) THEN <<s>>
      ELSE Pieces[s] \o (IF EndsIn(s, d) THEN <<<<>>>> ELSE <<>>)
SplitWhite(s) ==
  LET Pieces[t \in Words] ==
        IF t = <<>> THEN <<>>
        ELSE IF WhiteAt(t) = {} THEN <<t>>
        ELSE LET p == Least(WhiteAt(t))
             IN  <<SubStr(t, 0, p)>> \o Pieces[LeftTrim(From(t, p + 1), {0})]
  IN  Pieces[Trim(s, {0})]
Split1(s, d) ==
  IF Places(s, d) = {} THEN <<s, <<>>>>
  ELSE LET i == Least(Places(s, d)) IN <<SubStr(s, 0, i), From(s, i + Len(d))>>
RSplit1(s, d) ==
  IF Places(s, d) = {} THEN <<<<>>, s>>
  ELSE LET i == Greatest(Places(s, d)) IN <<SubStr(s, 0, i), From(s, i + Len(d))>>
Split1White(s) ==
  IF WhiteAt(s) = {} THEN <<s, <<>>>>
  ELSE LET i == Least(WhiteAt(s)) IN <<SubStr(s, 0, i), LeftTrim(From(s, i + 1), {0})>>
\* Bytes::join()
Join(parts, d) ==
  LET Joined[k \in 0..Len(parts)] ==
        IF k = 0 THEN <<>> ELSE Joined[k - 1] \o (IF k > 1 THEN d ELSE <<>>) \o parts[k]
  IN  Joined[Len(parts)]
\* Mutant: what has been put in is searched again.
Replace_Rescans(s, o, n) ==
  LET Next[t \in Strings(Letters, 2 * MaxLength), k \in 0..MaxLength] ==
        IF k = 0 \/ Places(t, o) = {} THEN t
        ELSE LET i == Least(Places(t, o)) IN Next[SubStr(t, 0, i) \o n \o From(t, i + Len(o)), k - 1]
  IN  IF o = <<>> THEN s ELSE Next[s, MaxLength]
Replace(s, o, n) ==
  LET Next[t \in Words] ==
        IF Places(t, o) = {} THEN t
        ELSE LET i == Least(Places(t, o)) IN SubStr(t, 0, i) \o n \o Next[From(t, i + Len(o))]
  IN  IF o = <<>> THEN s ELSE Next[s]

-----------------------------------------------------------------------------
(* Encoded text *)

\* utf8proc_iterate(): the length of the character at i, negative if it is none.
\* "a" and "A" are characters, "lead" needs one "more" behind it, "?" is what
\* replaces what cannot be decoded.
Iterate(s, i) ==
  CASE s[i + 1] = "lead" -> IF i + 1 < Len(s) /\ s[i + 2] = "more" THEN 2 ELSE -1
    [] s[i + 1] = "more" -> -1
    [] OTHER -> 1
\* The loop over a string, and what it makes of characters and of illegal bytes;
\* ASCII takes bytes one by one.
Throws == <<"RuntimeError">>
\* Mutant: an illegal byte is skipped together with what follows.
Step_TwoIllegal(s, i) == IF Iterate(s, i) < 0 THEN 2 ELSE Iterate(s, i)
Step(s, i) == IF Iterate(s, i) < 0 THEN 1 ELSE Iterate(s, i)
Recode(s, errors, upper) ==
  LET Image(i) == IF upper /\ s[i + 1] = "a" THEN <<"A">> ELSE SubStr(s, i, i + Step(s, i))
      Loop[i \in 0 .. Len(s) + 1] ==
        IF i >= Len(s) THEN <<>>
        ELSE (IF Iterate(s, i) > 0 THEN Image(i) ELSE IF errors = "REPLACE" THEN <<"?">> ELSE <<>>)
             \o Loop[i + Step(s, i)]
      Reached[i \in 0 .. Len(s) + 1] ==
        IF i >= Len(s) THEN {} ELSE {i} \cup Reached[i + Step(s, i)]
  IN  IF errors = "STRICT" /\ \E i \in Reached[0] : Iterate(s, i) < 0 THEN Throws ELSE Loop[0]
Decode(s, charset, errors) ==
  CASE charset = "UTF8" -> Recode(s, errors, FALSE)
    [] errors = "STRICT" /\ \E k \in DOMAIN s : s[k] \in {"lead", "more"} -> Throws
    [] errors = "IGNORE" -> SelectSeq(s, LAMBDA x : x \notin {"lead", "more"})
    [] OTHER -> [k \in DOMAIN s |-> IF s[k] \in {"lead", "more"} THEN "?" ELSE s[k]]
\* string::size()
Size(s, errors) ==
  LET Loop[i \in 0 .. Len(s) + 1] ==
        IF i >= Len(s) THEN 0
        ELSE (IF Iterate(s, i) > 0 \/ errors = "REPLACE" THEN 1 ELSE 0) + Loop[i + Step(s, i)]
  IN  Loop[0]

-----------------------------------------------------------------------------
(* Escaping *)

\* Of the bytes to be escaped, 0x04 is one that cannot be printed.
Printable(c) == c # "0x04"
Digit(c) == c \in {"zero", "four"}
\* escapeBytes()
\* Mutant: a backslash is not escaped.
EscapeByte_NoBackslash(c, quotes) ==
  CASE c = "quote" /\ quotes -> <<"backslash", "quote">> [] Printable(c) -> <<c>>
    [] OTHER -> <<"backslash", "x", "zero", "four">>
EscapeByte(c, quotes) ==
  CASE c = "backslash" -> <<"backslash", "backslash">> [] c = "quote" /\ quotes -> <<"backslash", "quote">>
    [] Printable(c) -> <<c>>
    [] OTHER -> <<"backslash", "x", "zero", "four">>
EscapeBytes(s, quotes) ==
  LET Loop[k \in 0..Len(s)] == IF k = 0 THEN <<>> ELSE Loop[k - 1] \o EscapeByte(s[k], quotes)
  IN  Loop[Len(s)]
\* expandEscapes(); it throws what it cannot read, the empty string standing for
\* what it has read before.
ExpandEscapes(s) ==
  LET Hex(i) == SubStr(s, i, IF i + 2 < Len(s) THEN i + 2 ELSE Len(s))
      Broken == <<"FormattingError">>
      Loop[i \in 0..Len(s)] ==
        IF i = Len(s) THEN <<>>
        ELSE IF s[i + 1] # "backslash" THEN <<s[i + 1]>> \o Loop[i + 1]
        ELSE IF i + 1 = Len(s) THEN Broken
        ELSE CASE s[i + 2] \in {"backslash", "quote"} -> <<s[i + 2]>> \o Loop[i + 2]
               [] s[i + 2] = "n" -> <<"newline">> \o Loop[i + 2]
               [] s[i + 2] = "zero" -> <<"nul">> \o Loop[i + 2]
               [] s[i + 2] = "x" ->
                    IF Hex(i + 2) = <<>> \/ \E k \in DOMAIN Hex(i + 2) : ~Digit(Hex(i + 2)[k]) THEN Broken
                    ELSE <<IF Hex(i + 2) \in {<<"four">>, <<"zero", "four">>} THEN "0x04" ELSE "other">>
                         \o Loop[i + 2 + Len(Hex(i + 2))]
               [] OTHER -> Broken
  IN  Loop[0]

-----------------------------------------------------------------------------
(* Numbers *)

\* What atoi_n() takes a character for, or -1; the characters are codes.
\* Mutant: the digit that equals the base is accepted.
DigitOf_OffByOne(c, base) ==
  CASE c >= 48 /\ c < 48 + base -> c - 48
    [] c >= 97 /\ c <= 97 - 10 + base -> c - 97 + 10
    [] c >= 65 /\ c < 65 - 10 + base -> c - 65 + 10
    [] OTHER -> -1
DigitOf(c, base) ==
  CASE c >= 48 /\ c < 48 + base -> c - 48
    [] c >= 97 /\ c < 97 - 10 + base -> c - 97 + 10
    [] c >= 65 /\ c < 65 - 10 + base -> c - 65 + 10
    [] OTHER -> -1
\* atoi_n() and toInt(): the number, if all of the bytes are part of it.
ToInt(s, base) ==
  LET start == IF s[1] \in {43, 45} THEN 2 ELSE 1
      Read[k \in 1 .. Len(s) + 1, n \in Nat] ==
        IF k > Len(s) THEN [ok |-> k > start, n |-> n]
        ELSE IF DigitOf(s[k], base) < 0 THEN [ok |-> FALSE, n |-> n]
        ELSE Read[k + 1, n * base + DigitOf(s[k], base)]
  IN  IF s = <<>> THEN <<"InvalidArgument", 0>>
      ELSE IF ~Read[start, 0].ok THEN <<"RuntimeError", 0>>
      ELSE <<"ok", IF s[1] = 45 THEN -Read[start, 0].n ELSE Read[start, 0].n>>
\* toUInt() reads a signed number, too, and converts it.
ToUInt(s, base) ==
  LET n == ToInt(s, base) IN IF n[2] < 0 THEN <<"Overflow", 0>> ELSE n

-----------------------------------------------------------------------------
(* Calls *)

Sides == {"left", "right", "both"}
Errors == {"IGNORE", "REPLACE", "STRICT"}
Delimiters == Strings(Letters, 2)
Calls ==
  {<<"find", s, v, n>> : s \in Words, v \in Strings(Letters, 3), n \in 0..1} \cup
  {<<"sub", s, n, m>> : s \in Words, n \in 0 .. MaxLength + 1, m \in 0 .. MaxLength + 1} \cup
  {<<"split", s, d>> : s \in Words, d \in Delimiters} \cup
  {<<"split1", s, d>> : s \in Words, d \in Delimiters} \cup
  {<<"white", s>> : s \in Words} \cup
  {<<"strip", s, side>> : s \in Words, side \in Sides} \cup
  {<<"replace", s, o, n>> : s \in Words, o \in Delimiters, n \in Strings({1}, 2)} \cup
  {<<"decode", s, e, x>> : s \in Strings(Encoded, MaxLength), e \in Errors, x \in {"UTF8", "ASCII"}} \cup
  {<<"escape", s, q>> : s \in Strings(Escapable, 3), q \in BOOLEAN} \cup
  {<<"number", s, b>> : s \in Strings(DigitChars, 3), b \in {2, 10, 16}}
Result(c) ==
  CASE c[1] = "find" -> IF c[4] <= Len(c[2]) THEN Find(c[2], c[3], c[4]) ELSE <<>>
    [] c[1] = "sub" -> Sub(c[2], c[3], c[4])
    [] c[1] = "split" -> Split(c[2], c[3])
    [] c[1] = "split1" -> <<Split1(c[2], c[3]), RSplit1(c[2], c[3])>>
    [] c[1] = "white" -> <<SplitWhite(c[2]), Split1White(c[2])>>
    [] c[1] = "strip" -> Strip(c[2], {0}, c[3])
    [] c[1] = "replace" -> Replace(c[2], c[3], c[4])
    [] c[1] = "decode" -> Decode(c[2], c[4], c[3])
    [] c[1] = "escape" -> EscapeBytes(c[2], c[3])
    [] OTHER -> <<ToInt(c[2], c[3]), ToUInt(c[2], c[3])>>
\* The outcome is empty until the call has been evaluated.
Init == call \in Calls /\ outcome = <<>>
Evaluate == outcome = <<>> /\ outcome' = <<Result(call)>> /\ UNCHANGED call
Next == Evaluate
Spec == Init /\ [][Next]_textVars

-----------------------------------------------------------------------------
(* Properties *)

\* find() returns the first occurrence at or behind n, and if there is none, the
\* first position from which the data could still become one.
FindIsRight(s, v, n, r) ==
  LET found == {i \in Places(s, v) : i >= n}
      partial == {i \in n..Len(s) : Len(s) - i < Len(v) /\ SubStr(v, 0, Len(s) - i) = From(s, i)}
  IN  r = IF found # {} THEN <<TRUE, Least(found)>> ELSE <<FALSE, Least(partial)>>
\* A delimiter that does not overlap with itself.
Plain(d) == \A k \in 1 .. Len(d) - 1 : SubStr(d, 0, k) # From(d, Len(d) - k)
\* split() loses nothing and leaves no delimiter; so do split1() and rsplit1(),
\* at the first and at the last; and white space separates what is not white.
SplitIsRight(s, d, r) ==
  d # <<>> /\ Plain(d) =>
    Join(r, d) = s /\ \A k \in DOMAIN r : Places(r[k], d) = {}
Split1IsRight(s, d, r) ==
  LET first == r[1]
      last == r[2]
  IN  IF Places(s, d) = {} THEN first = <<s, <<>>>> /\ last = <<<<>>, s>>
      ELSE /\ first[1] \o d \o first[2] = s /\ last[1] \o d \o last[2] = s
           /\ d # <<>> => Least(Places(first[1] \o d, d)) = Len(first[1])
           /\ d # <<>> /\ Plain(d) => Places(last[2], d) = {}
NotWhite(s) == SelectSeq(s, LAMBDA x : x # 0)
WhiteIsRight(s, r) ==
  LET pieces == r[1]
      both == r[2]
  IN  /\ Join(pieces, <<>>) = NotWhite(s) /\ \A k \in DOMAIN pieces : pieces[k] # <<>>
      /\ Len(pieces) = Cardinality({i \in 0 .. Len(s) - 1 : s[i + 1] # 0 /\ (i = 0 \/ s[i] = 0)})
      /\ WhiteAt(both[1]) = {} /\ (both[2] # <<>> => Head(both[2]) # 0)
      /\ NotWhite(both[1]) \o NotWhite(both[2]) = NotWhite(s)
StripIsRight(s, side, r) ==
  /\ \E i, j \in 0..Len(s) :
       /\ i <= j /\ r = SubStr(s, i, j)
       /\ \A k \in 1..i : s[k] = 0 /\ side # "right"
       /\ \A k \in j + 1 .. Len(s) : s[k] = 0 /\ side # "left"
  /\ r # <<>> => (side # "right" => Head(r) # 0) /\ (side # "left" => r[Len(r)] # 0)
\* Replacing is splitting and joining again.
ReplaceIsRight(s, o, n, r) == o # <<>> /\ Plain(o) => r = Join(Split(s, o), n)
\* What has been decoded decodes to itself, and has the size that the original
\* was said to have; nothing that is legal is lost; no byte is taken for two.
DecodeIsRight(s, errors, charset, r) ==
  LET legal == \A i \in 0 .. Len(s) - 1 :
        /\ s[i + 1] = "lead" => i + 1 < Len(s) /\ s[i + 2] = "more"
        /\ s[i + 1] = "more" => i > 0 /\ s[i] = "lead"
      known == {"a", "A", "?"}
  IN  IF charset = "ASCII"
      THEN r # Throws => /\ \A k \in DOMAIN r : r[k] \in known
                         /\ errors = "REPLACE" => Len(r) = Len(s)
      ELSE /\ (r = Throws) <=> (errors = "STRICT" /\ ~legal)
           /\ legal => r = s
           /\ r # Throws =>
                /\ Recode(r, "STRICT", FALSE) = r
                /\ Size(r, errors) = Size(s, errors)
                /\ SelectSeq(r, LAMBDA x : x \in {"a", "A"}) = SelectSeq(s, LAMBDA x : x \in {"a", "A"})
                /\ Len(Recode(s, errors, TRUE)) = Len(r)
\* What has been escaped is printable and expands to the original.
EscapeIsRight(s, quotes, r) ==
  /\ ExpandEscapes(r) = s
  /\ \A k \in DOMAIN r : Printable(r[k])
  /\ quotes => \A k \in DOMAIN r : r[k] = "quote" => k > 1 /\ r[k - 1] = "backslash"
\* A number is read if all of its characters are digits of its base, in either
\* case (the characters between the digits and the letters are not looked at).
DigitsOf(base) == 48 .. 48 + (IF base < 10 THEN base ELSE 10) - 1
LettersOf(base) == {97 + i : i \in 0 .. base - 11} \cup {65 + i : i \in 0 .. base - 11}
Worth(c) == IF c < 58 THEN c - 48 ELSE IF c < 97 THEN c - 55 ELSE c - 87
NumberIsRight(s, base, r) ==
  LET digits == IF s # <<>> /\ s[1] \in {43, 45} THEN Tail(s) ELSE s
      Value[k \in 0..Len(digits)] == IF k = 0 THEN 0 ELSE Value[k - 1] * base + Worth(digits[k])
      signed == IF s # <<>> /\ s[1] = 45 THEN -Value[Len(digits)] ELSE Value[Len(digits)]
      isNumber == digits # <<>> /\ \A k \in DOMAIN digits : digits[k] \in DigitsOf(base) \cup LettersOf(base)
  IN  IF isNumber
      THEN r = <<<<"ok", signed>>, IF signed < 0 THEN <<"Overflow", 0>> ELSE <<"ok", signed>>>>
      ELSE r[1][1] # "ok" /\ r[2] = r[1]
TextIsRight ==
  outcome # <<>> =>
    LET r == outcome[1] IN
    CASE call[1] = "find" -> call[4] <= Len(call[2]) => FindIsRight(call[2], call[3], call[4], r)
      [] call[1] = "sub" ->
           call[3] <= call[4] /\ call[4] <= Len(call[2]) =>
             Len(r) = call[4] - call[3] /\ IsAt(call[2], r, call[3])
      [] call[1] = "split" -> SplitIsRight(call[2], call[3], r)
      [] call[1] = "split1" -> Split1IsRight(call[2], call[3], r)
      [] call[1] = "white" -> WhiteIsRight(call[2], r)
      [] call[1] = "strip" -> StripIsRight(call[2], call[3], r)
      [] call[1] = "replace" -> ReplaceIsRight(call[2], call[3], call[4], r)
      [] call[1] = "decode" -> DecodeIsRight(call[2], call[3], call[4], r)
      [] call[1] = "escape" -> EscapeIsRight(call[2], call[3], r)
      [] OTHER -> NumberIsRight(call[2], call[3], r)
=============================================================================
