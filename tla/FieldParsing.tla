---------------------------- MODULE FieldParsing ---------------------------
(***************************************************************************)
(* The code that the compiler generates for a field of a unit, and what    *)
(* running it does (codegen/parser-builder.cc, parsers/types.cc and        *)
(* parsers/literals.cc).  One field: the validator looks at it, the        *)
(* builders make code of it, and the code parses input that arrives in     *)
(* chunks, while the parser waits for it.                                  *)
(*                                                                         *)
(* A view of the input is the offset `cur` where it begins and `end` where *)
(* it ends, Open if it goes on as the input does.                          *)
(***************************************************************************)
EXTENDS FieldDeclarations, SequencesExt

CONSTANTS
  Declarations, \* the fields to look at
  MaxLength     \* bound on the input

VARIABLES
  decl,   \* the field
  stage,  \* "source", "accepted", "rejected", "broken", "parsing", "done", "failed"
  data,   \* the input so far
  frozen, \* there will be no more
  pc,     \* where the generated code is
  src,    \* what is read: "input", or "bytes" of &parse-from
  cur, end,
  ncur,   \* where to go on after a field with a limit, None without
  val,    \* the destination
  n,      \* counter of a loop
  stop,   \* the loop ends after this element
  hooks   \* the values that the field's hook has seen
parsing == <<pc, src, cur, end, ncur, val, n, stop, hooks>>
vars == <<decl, stage, data, frozen, parsing>>

None == -1
Open == MaxLength + MaxSize + Size + 2
Infinite == 2 * Open

Init ==
  /\ decl \in Declarations
  /\ stage = "source" /\ pc = "enter"
  /\ data = <<>> /\ frozen = FALSE
  /\ src = "input" /\ cur = 0 /\ end = Open /\ ncur = None
  /\ val = <<>> /\ n = 0 /\ stop = FALSE /\ hooks = <<>>

(******************************** Compiling ********************************)
Validate ==
  /\ stage = "source"
  /\ decl' = Resolved(decl)
  /\ stage' = IF Accepted(Resolved(decl)) THEN "accepted" ELSE "rejected"
  /\ UNCHANGED <<data, frozen, parsing>>
Build ==
  /\ stage = "accepted"
  /\ stage' = IF Buildable(decl) THEN "parsing" ELSE "broken"
  /\ UNCHANGED <<decl, data, frozen, parsing>>

(********************************* Waiting *********************************)
Source == IF src = "bytes" THEN ParseFrom ELSE data
Available == LET to == Least(end, Len(Source)) IN IF cur < to THEN to - cur ELSE 0
Rest == SubSeq(Source, cur + 1, cur + Available)
HaveEod == src = "bytes" \/ frozen \/ (end # Open /\ end <= Len(data))

\* What performUnpack() waits for.  It takes every real for a single.
Wanted == IF decl.type \in Reals THEN Width["single"] ELSE WidthOf(decl)
\* How many bytes the code is waiting for; skipping to the end always waits for
\* a change.
Need ==
  CASE pc = "unpack" -> Wanted
    [] pc = "literal" -> Len(Literal[decl.ctor])
    [] pc = "all" -> IF end # Open THEN end - cur ELSE Infinite
    [] pc \in {"until", "skip until"} -> Len(Delim)
    [] pc = "skip to end" -> n + 1
    [] pc \in {"chunks", "loop", "skip size", "element"} -> 1
    [] OTHER -> 0
\* A loop with a counter asks for nothing, nor does one that is over.
Counting == pc = "loop" /\ LoopProduction(decl) = "counter"
Asks == ~Counting /\ ~stop /\ ~(pc = "skip size" /\ n = 0)
Waits == stage = "parsing" /\ Asks /\ Available < Need /\ ~HaveEod
Ready == ~Asks \/ Available >= Need
\* The code at p goes on, with enough input or at the end of it.
Reached(p) == stage = "parsing" /\ pc = p /\ ~Waits

\* The host appends a chunk, or says that there is no more.
Feed ==
  /\ Waits
  /\ \E k \in 1 .. MaxLength - Len(data) : \E chunk \in [1 .. k -> Bytes] : data' = data \o chunk
  /\ UNCHANGED <<decl, stage, frozen, parsing>>
Freeze ==
  /\ Waits
  /\ frozen' = TRUE
  /\ UNCHANGED <<decl, stage, data, parsing>>

(********************************* Helpers *********************************)
input == <<decl, data, frozen>>
Fail == stage' = "failed" /\ UNCHANGED <<input, parsing>>
Goto(p) == pc' = p /\ UNCHANGED <<input, stage, src, end, ncur, stop>>
\* advanceInput()
Advance(k) == cur' = cur + k

(******************************** The field ********************************)
\* preParseField(), which Skip does without, and the condition.
Enter ==
  /\ stage = "parsing" /\ pc = "enter"
  /\ LET skipping == Production(decl) = "skip"
         from == IF skipping THEN "input" ELSE IF Has(decl, "parse_from") THEN "bytes" ELSE "input"
         start == IF ~skipping /\ Has(decl, "parse_at") THEN ParseAt ELSE 0
         limit == CASE skipping -> None [] Has(decl, "size") -> Size
                    [] Has(decl, "max_size") -> MaxSize + 1 [] OTHER -> None
     IN  IF decl.cond = "false"
         THEN stage' = "done" /\ UNCHANGED parsing
         ELSE /\ pc' = Entry(decl) /\ src' = from /\ cur' = start
              /\ end' = IF limit = None THEN Open ELSE start + limit
              /\ ncur' = IF limit = None THEN None ELSE start + limit
              /\ n' = CASE pc' = "skip size" -> Size [] pc' = "loop" -> Count
                        [] pc' = "skip to end" -> Len(data) [] OTHER -> 0
              /\ UNCHANGED <<stage, val, stop, hooks>>
  /\ UNCHANGED input

\* performUnpack(); the unpacking of a double fails without all of its bytes.
Unpack ==
  /\ Reached("unpack")
  /\ IF Ready /\ Available >= WidthOf(decl)
     THEN val' = Upto(Rest, WidthOf(decl)) /\ Advance(WidthOf(decl)) /\ Goto("post") /\ UNCHANGED <<n, hooks>>
     ELSE Fail

\* Literals, parsed or skipped.
ParseLiteral ==
  /\ Reached("literal")
  /\ LET lit == Literal[decl.ctor]
     IN  IF Ready /\ Starts(Rest, lit)
         THEN /\ val' = lit /\ Advance(Len(lit))
              /\ Goto(IF SkipProduction(decl) THEN "skipped" ELSE "post") /\ UNCHANGED <<n, hooks>>
         ELSE Fail

(* Bytes up to the end of the view.  With &eod and &size, all of the limited view counts as parsed. *)
EndOfBytes(k) == IF {"eod", "size"} \subseteq decl.attrs THEN end ELSE cur + k
ParseAll ==
  /\ Reached("all")
  /\ val' = Rest /\ cur' = EndOfBytes(Available) /\ Goto("post") /\ UNCHANGED <<n, hooks>>
\* The same with &chunked: &requires and the hook see each piece.
ParseChunk ==
  /\ Reached("chunks")
  /\ IF Available = 0 THEN cur' = EndOfBytes(0) /\ Goto("post") /\ UNCHANGED <<val, n, hooks>>
     ELSE IF ~Requires(decl, Rest) THEN Fail
     ELSE val' = Rest /\ hooks' = Append(hooks, Converted(decl, Rest)) /\ Advance(Available) /\ Goto("chunks") /\ UNCHANGED n

\* View::find(): where the delimiter is, or else may still begin; both are
\* relative to the view.
Delimiter == Found(Rest, Delim)
\* Mutant: a match that is cut off by the end of the view is passed over.
Begins_Whole == {Available}
Begins == {k \in 0 .. Available : Starts(Delim, SubSeq(Rest, k + 1, Available))}
Position == IF Delimiter # {} THEN First(Delimiter) ELSE First(Begins)
Passed == Position + IF Delimiter # {} THEN Len(Delim) ELSE 0
ParseUntil ==
  /\ Reached("until")
  /\ LET match == Upto(Rest, Position)
         delim == IF Delimiter # {} /\ Has(decl, "until_including") THEN Delim ELSE <<>>
         pieces == SelectSeq(<<match, delim>>, LAMBDA p : p # <<>>)
         next == IF Delimiter # {} THEN "post" ELSE "until"
     IN  IF ~Ready \/ (Has(decl, "chunked") /\ \E k \in DOMAIN pieces : ~Requires(decl, pieces[k])) THEN Fail
         ELSE /\ val' = IF ~Has(decl, "chunked") THEN val \o match \o delim
                        ELSE IF pieces = <<>> THEN val ELSE pieces[Len(pieces)]
              /\ hooks' = IF Has(decl, "chunked") THEN hooks \o pieces ELSE hooks
              /\ Advance(Passed) /\ Goto(next) /\ UNCHANGED n

(******************************* Skipping **********************************)
SkipSize ==
  /\ Reached("skip size")
  /\ LET consume == Least(Available, Size)
     IN  IF n = 0 THEN Goto("skipped") /\ UNCHANGED <<cur, val, n, hooks>>
         \* The difference is unsigned.
         ELSE IF ~Ready \/ consume > n THEN Fail
         ELSE Advance(consume) /\ n' = n - consume /\ Goto("skip size") /\ UNCHANGED <<val, hooks>>
SkipToEnd ==
  /\ Reached("skip to end")
  /\ Advance(Available) /\ n' = 0
  /\ Goto(IF Ready THEN "skip to end" ELSE "skipped") /\ UNCHANGED <<val, hooks>>
SkipUntil ==
  /\ Reached("skip until")
  /\ IF ~Ready THEN Fail
     ELSE Advance(Passed) /\ Goto(IF Delimiter # {} THEN "skipped" ELSE "skip until") /\ UNCHANGED <<val, n, hooks>>
\* The hook of a skipped field has no value.
Skipped ==
  /\ Reached("skipped")
  /\ stage' = "done" /\ hooks' = <<<<>>>>
  /\ UNCHANGED <<input, pc, src, cur, end, ncur, val, n, stop>>

(******************************* Containers ********************************)
\* The check that an element moves the position is in UnitParsing; one byte does.
Loop ==
  /\ Reached("loop")
  /\ LET over == stop \/ IF Counting THEN n = 0 ELSE Available = 0
     IN  /\ n' = IF Counting /\ ~over THEN n - 1 ELSE n
         /\ Goto(IF over THEN "post" ELSE "element")
         /\ UNCHANGED <<cur, val, hooks>>
\* An element and newContainerItem(): a condition comes before the element's
\* hook and the element is not kept if it holds, but &until-including is last.
Element ==
  /\ Reached("element")
  /\ LET x == Rest[1]
         including == Has(decl, "until_including") /\ ~Has(decl, "until")
         kept == x # Final \/ ~(decl.stop \/ (Stops(decl) /\ ~including))
     IN  IF ~Ready THEN Fail
         ELSE /\ Advance(1)
              /\ val' = IF kept THEN Append(val, x) ELSE val
              /\ stop' = (~kept \/ (including /\ x = Final))
              /\ pc' = "loop"
              /\ UNCHANGED <<input, stage, src, end, ncur, n, hooks>>

\* postParseField() and newValueForField().
Post ==
  /\ Reached("post")
  /\ LET wrongSize ==
           IF Has(decl, "max_size") THEN cur >= ncur ELSE Has(decl, "size") /\ cur # ncur
         value == Converted(decl, val)
         seen == IF decl.type = "void" \/ decl.skip THEN <<>> ELSE value
     IN  IF wrongSize \/ (~Has(decl, "chunked") /\ ~Requires(decl, val)) THEN Fail
         ELSE /\ stage' = "done"
              /\ val' = value
              /\ hooks' = IF Has(decl, "chunked") THEN hooks ELSE <<seen>>
              /\ cur' = IF Redirected(decl) THEN 0 ELSE IF ncur # None THEN ncur ELSE cur
              /\ UNCHANGED <<input, pc, src, end, ncur, n, stop>>

Next ==
  \/ Validate \/ Build \/ Feed \/ Freeze \/ Enter
  \/ Unpack \/ ParseLiteral \/ ParseAll \/ ParseChunk \/ ParseUntil
  \/ SkipSize \/ SkipToEnd \/ SkipUntil \/ Skipped \/ Loop \/ Element \/ Post
Spec == Init /\ [][Next]_vars

(******************************** Properties *******************************)
\* The attributes that the code chosen for a field looks at; it ignores others.
Used(d) ==
  LET common == {"size", "max_size", "parse_at", "parse_from", "convert", "requires"}
      loops == common \cup {"until", "until_including", "while"}
  IN  CASE Entry(d) = "skip size" -> {"size"}
        [] Entry(d) = "skip to end" -> {"eod"}
        [] Entry(d) = "skip until" -> {"until", "until_including"}
        [] Production(d) = "skip" -> {}
        [] Production(d) = "ctor" -> common
        [] Production(d) = "counter" -> loops \cup {"count"}
        [] Production(d) = "foreach" -> loops \cup {"eod"}
        [] d.type = "bytes" -> common \cup {"eod", "until", "until_including", "chunked"}
        [] OTHER -> common \cup {"type", "ipv4", "ipv6"}
\* Fields that do not parse what the documentation says, apart from those with
\* attributes that are ignored: &eod beats &until; of two stop conditions one
\* counts; pieces of a field are checked one by one, and not always converted; a
\* double may end up between two chunks; so may bytes to skip.
Deviates(d) ==
  \/ Has(d, "eod") /\ Stops(d) /\ d.type = "bytes"
  \/ Cardinality(d.attrs \cap {"until", "until_including", "while"}) > 1
  \/ Has(d, "chunked") /\ d.attrs \cap {"requires", "convert"} # {}
  \/ d.type = "double"
  \/ Entry(d) = "skip size"
AsDocumented(d) == d.attrs \subseteq Used(d) /\ ~Deviates(d)

\* Where the parser goes on after a field with &max-size is another matter.
Ends(d, m) == cur = m.used \/ (Has(d, "max_size") /\ ~Redirected(d))
\* Values are handed to the hook once, or in pieces with &chunked.
HandsOver(d, m) ==
  CASE d.cond = "false" -> hooks = <<>>
    [] d.skip \/ d.type = "void" -> hooks = <<<<>>>>
    [] Has(d, "chunked") -> FlattenSeq(hooks) = m.val
    [] OTHER -> hooks = <<Converted(d, m.val)>> /\ val = Converted(d, m.val)

\* What the whole input may turn out to be.
Inputs == IF frozen THEN {data} ELSE {data \o more : more \in SeqOf(Bytes, MaxLength - Len(data))}

\* A field means what the documentation says of its declaration, in whatever
\* pieces its input arrives and whatever is yet to come: whether it parses, what
\* its hook sees, and where the next field begins.  What the validator accepts
\* can be built, but for a literal that is skipped under a condition and for a
\* field with two limits.
FieldsMeanTheirInput ==
  /\ stage = "broken" =>
       \/ decl.skip /\ decl.ctor # "none" /\ decl.cond # "none"
       \/ {"size", "max_size"} \subseteq decl.attrs
  /\ stage \in {"done", "failed"} /\ AsDocumented(decl) =>
       \A s \in Inputs :
         LET m == Meaning(decl, s)
         IN  /\ m.ok <=> stage = "done"
             /\ m.ok => Ends(decl, m) /\ HandsOver(decl, m)

\* &max-size limits a field and nothing else: the next one begins where it ended.
MaxSizeEndsField ==
  stage = "done" /\ Has(decl, "max_size") /\ AsDocumented(decl) => cur = Meaning(decl, data).used
=============================================================================
