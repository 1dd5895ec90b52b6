------------------------- MODULE FieldDeclarations -------------------------
(***************************************************************************)
(* Declarations of unit fields: which ones the compiler accepts            *)
(* (spicy/toolchain/src/compiler/visitors/validator.cc), what it makes of  *)
(* them for the grammar (codegen/grammar-builder.cc), and what the         *)
(* documentation (doc/programming/parsing.rst) says they parse.            *)
(*                                                                         *)
(* A declaration is a record: its type, or the kind of its constant; how   *)
(* it is repeated ("open" is `[]`); its attributes; whether it is skipped; *)
(* its condition; and, for a container, whether its foreach hook stops at  *)
(* the element Final.  The expressions of the attributes are constants.     *)
(* Byte order, and how bytes make up a value, is in Binary: here a value   *)
(* is the bytes that it is made of.                                        *)
(***************************************************************************)
EXTENDS Integers, Sequences, FiniteSets

CONSTANTS
  Bytes,      \* the values of a byte
  Final,       \* the byte that stop conditions and &requires are about
  Size,       \* what &size says
  MaxSize,    \* what &max-size says
  Count,      \* what &count, or [n], says
  Delim,      \* what &until and &until-including say
  Literal,    \* the constant to parse, by its kind ("bytes", "int")
  ParseFrom,  \* what &parse-from says
  ParseAt,    \* the position that &parse-at says
  Width,      \* how many bytes a type of fixed width has
  Mark        \* a sign of what &convert has made

\* A real number comes as "single" or "double", which &type says; an address as
\* "ipv4" or "ipv6".
Reals == {"single", "double"}
Addresses == {"ipv4", "ipv6"}
Declaration ==
  [type : DOMAIN Width \cup {"bytes", "void", "regexp", "address"},
   ctor : {"none"} \cup DOMAIN Literal, loop : {"once", "open", "counted"}, attrs : SUBSET STRING,
   skip : BOOLEAN, cond : {"none", "true", "false"}, stop : BOOLEAN]

Has(d, a) == a \in d.attrs
Container(d) == d.loop # "once"
\* An address with &ipv4 has the width of one, any other that of &ipv6.
WidthOf(d) ==
  Width[IF d.type = "address" THEN IF Has(d, "ipv4") THEN "ipv4" ELSE "ipv6" ELSE d.type]
\* Fields with a stop condition for their elements.
Stops(d) == d.attrs \cap {"until", "until_including", "while"} # {}
\* What becomes of a value through &convert.
Converted(d, v) == IF Has(d, "convert") THEN <<Mark>> \o v ELSE v

(******************************** Resolver *********************************)
\* A void field with attributes is an old way to write that bytes are skipped.
Resolved(d) ==
  IF d.type = "void" /\ d.attrs \ {"requires"} # {} THEN [d EXCEPT !.type = "bytes", !.skip = TRUE] ELSE d

(******************************** Validator ********************************)
BytesParseable(d) ==
  \/ d.ctor # "none"
  \/ /\ ~({"parse_from", "parse_at"} \subseteq d.attrs)
     /\ ~({"size", "max_size"} \subseteq d.attrs)
     /\ ~({"until", "until_including"} \subseteq d.attrs)
     /\ d.attrs \cap {"size", "parse_from", "parse_at", "eod", "until", "until_including"} # {}
Parseable(d) ==
  CASE d.type = "bytes" -> BytesParseable(d)
    [] d.type = "address" -> Cardinality(d.attrs \cap Addresses) = 1
    [] d.type \in Reals -> Has(d, "type")
    [] d.type = "void" -> d.attrs \subseteq {"requires"}
    [] d.type = "regexp" -> FALSE
    [] OTHER -> TRUE
\* The checks of single attributes look at the type of the whole field.
BytesField(d) == d.type = "bytes" /\ ~Container(d)
AttributesFit(d) ==
  /\ Has(d, "eod") => (BytesField(d) \/ Container(d)) /\ d.ctor = "none"
  /\ d.attrs \cap {"until", "until_including", "while"} # {} => BytesField(d) \/ Container(d)
  /\ Has(d, "chunked") =>
       /\ BytesField(d) /\ d.ctor = "none"
       /\ d.attrs \cap {"eod", "size", "until", "until_including"} # {}
Accepted(d) ==
  /\ AttributesFit(d)
  /\ ~(Has(d, "count") /\ d.loop = "counted")
  /\ d.ctor = "none" => Parseable(d)

(***************************** Grammar builder *****************************)
SkipProduction(d) ==
  /\ d.skip /\ d.loop = "once" /\ d.attrs \cap {"convert", "requires"} = {}
  /\ d.ctor = "none" => d.type = "bytes" /\ d.attrs \cap {"eod", "size", "until", "until_including"} # {}
LoopProduction(d) ==
  IF d.loop = "counted" \/ Has(d, "count") THEN "counter"
  ELSE IF d.attrs \cap {"size", "parse_at", "parse_from", "while", "until", "until_including", "eod"} # {}
       THEN "foreach"
       ELSE "while"
Production(d) ==
  IF SkipProduction(d) THEN "skip"
  ELSE IF Container(d) THEN LoopProduction(d)
  ELSE IF d.ctor # "none" THEN "ctor" ELSE "variable"

(***************************** Parser builder ******************************)
\* A bytes field without &until reads to the end of what it sees.
ReadsToEnd(d) ==
  \/ Has(d, "eod")
  \/ /\ d.attrs \cap {"size", "parse_from", "parse_at"} # {}
     /\ d.attrs \cap {"until", "until_including"} = {}
\* How the parser for a field's value begins.
Entry(d) ==
  LET skipBytes == CASE Has(d, "size") -> "skip size" [] Has(d, "eod") -> "skip to end" [] OTHER -> "skip until"
      bytes == IF ~ReadsToEnd(d) THEN "until" ELSE IF Has(d, "chunked") THEN "chunks" ELSE "all"
      value == CASE d.type = "void" -> "post" [] d.type = "bytes" -> bytes [] OTHER -> "unpack"
  IN  CASE Production(d) = "skip" -> IF d.ctor # "none" THEN "literal" ELSE skipBytes
        [] Production(d) \in {"counter", "foreach"} -> "loop"
        [] Production(d) = "ctor" -> "literal"
        [] OTHER -> value

\* How many builders the code for a field adds to the stack, and how many it
\* takes off: one for its condition, but what skips a literal adds none.
Pushed(d) ==
  IF d.cond = "none" \/ (SkipProduction(d) /\ d.ctor # "none") THEN 0 ELSE 1
Popped(d) == IF d.cond = "none" THEN 0 ELSE 1
\* Assertions of the builder.
LimitedOnce(d) == SkipProduction(d) \/ ~({"size", "max_size"} \subseteq d.attrs)
Buildable(d) == Pushed(d) = Popped(d) /\ LimitedOnce(d)

(******************************* Documentation *****************************)
Least(a, b) == IF a < b THEN a ELSE b
Upto(s, n) == SubSeq(s, 1, Least(n, Len(s)))
Starts(s, p) == Len(s) >= Len(p) /\ Upto(s, Len(p)) = p
\* The positions after which w has the bytes p.
Found(w, p) == {k \in 0 .. Len(w) - Len(p) : Starts(SubSeq(w, k + 1, Len(w)), p)}
First(S) == CHOOSE k \in S : \A l \in S : k <= l

Fails == [ok |-> FALSE, val |-> <<>>, used |-> 0]
Gives(v, n) == [ok |-> TRUE, val |-> v, used |-> n]
\* An element that ends the container, by its condition or by the hook.
EndsAt(d, w, k) == w[k] = Final /\ (Stops(d) \/ d.stop)
Elements(d, w) ==
  LET n == IF LoopProduction(d) = "counter" THEN Count ELSE Len(w)
      ends == {k \in 1 .. Least(n, Len(w)) : EndsAt(d, w, k)}
      last == First(ends)
      kept == IF Has(d, "until_including") /\ ~d.stop THEN last ELSE last - 1
  IN  IF ends # {} THEN Gives(Upto(w, kept), last)
      ELSE IF n <= Len(w) THEN Gives(Upto(w, n), n) ELSE Fails
\* What a field's type, repetition and delimiters make of the bytes w.
ValueOf(d, w) ==
  LET lit == Literal[d.ctor]
      at == Found(w, Delim)
      width == WidthOf(d)
  IN  IF Container(d) THEN Elements(d, w)
      ELSE IF d.ctor # "none" THEN IF Starts(w, lit) THEN Gives(lit, Len(lit)) ELSE Fails
      ELSE IF d.type = "void" THEN Gives(<<>>, 0)
      ELSE IF d.type # "bytes" THEN IF Len(w) >= width THEN Gives(Upto(w, width), width) ELSE Fails
      ELSE IF d.attrs \cap {"until", "until_including"} = {} THEN Gives(w, Len(w))
      ELSE IF at = {} THEN Fails
      ELSE Gives(Upto(w, First(at) + IF Has(d, "until") THEN 0 ELSE Len(Delim)), First(at) + Len(Delim))

\* "$$" of &requires: it does not begin with Final.  A skipped field has none.
Requires(d, v) == Has(d, "requires") /\ ~d.skip => v = <<>> \/ v[1] # Final
Redirected(d) == d.attrs \cap {"parse_from", "parse_at"} # {}
\* What the field sees of the input s.
Sees(d, s) ==
  LET from == IF Has(d, "parse_from") THEN ParseFrom ELSE IF Has(d, "parse_at") THEN SubSeq(s, ParseAt + 1, Len(s)) ELSE s
  IN  IF Has(d, "size") THEN Upto(from, Size) ELSE from
\* &size is exact unless there is &eod; &max-size is a limit; whatever is parsed
\* from somewhere else leaves the input alone.
Meaning(d, s) ==
  LET r == ValueOf(d, Sees(d, s))
      sized == Has(d, "size") => r.used = Size \/ (Has(d, "eod") /\ d.type = "bytes" /\ ~Container(d))
      limited == Has(d, "max_size") => r.used <= MaxSize
  IN  IF d.cond = "false" THEN Gives(<<>>, 0)
      ELSE IF ~(r.ok /\ sized /\ limited /\ Requires(d, r.val)) THEN Fails
      ELSE [r EXCEPT !.used = IF Redirected(d) THEN 0 ELSE IF Has(d, "size") THEN Size ELSE r.used]
=============================================================================
