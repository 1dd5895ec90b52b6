----------------------------- MODULE MCFilters -----------------------------
(***************************************************************************)
(* The chain of filters on small instances.  In a second part of the run,  *)
(* single fields parse input that arrives in chunks, and in a third one    *)
(* the fibers that all of this executes on call each other.  A behaviour   *)
(* is about one of the parts, and the others rest.                         *)
(***************************************************************************)
EXTENDS Filters, FiniteSetsExt

(***************************************************************************)
(* Declarations of fields: each type with combinations of the attributes   *)
(* that may meet.  Containers have an end, or else they are look-ahead     *)
(* lists (Grammar, UnitParsing), and elements of one byte.  A field of     *)
(* another type than bytes is redirected in at most one way.               *)
(***************************************************************************)
Some(S, k) == UNION {kSubset(j, S) : j \in 0 .. k}
Field(t, attrs) ==
  [type |-> t, ctor |-> "none", loop |-> "once", attrs |-> attrs,
   skip |-> FALSE, cond |-> "none", stop |-> FALSE]
Skippable(S) == {[d EXCEPT !.skip = s] : d \in S, s \in BOOLEAN}
Conditional(S) == {[d EXCEPT !.cond = c] : d \in S, c \in {"true", "false"}}
Redirections == {"parse_at", "parse_from"}
Once(S) == {d \in S : ~(Redirections \subseteq d.attrs)}

ForBytes == {"eod", "size", "max_size", "until", "until_including", "chunked", "convert", "requires"} \cup Redirections
\* A declaration for behaviours that are about something else.
Unread == Field("void", {})
BytesFields == {Field("bytes", as) : as \in Some(ForBytes, 3)}
ForFixed == {"eod", "size", "max_size", "until", "count", "chunked", "convert", "requires"} \cup Redirections
FixedFields ==
  {Field(t, as) : t \in {"uint8", "uint16", "bitfield"}, as \in Some(ForFixed, 2)}
    \cup {Field(t, as \cup x) : t \in {"single", "double"}, as \in Some(ForFixed, 1), x \in SUBSET {"type"}}
    \cup {Field("address", as \cup x) : as \in Some(ForFixed, 1), x \in SUBSET {"ipv4", "ipv6"}}
    \cup {Field(t, as) : t \in {"void", "regexp"}, as \in Some(ForFixed, 1)}
ConstantFields ==
  {[Field(IF k = "bytes" THEN "bytes" ELSE "uint8", as) EXCEPT !.ctor = k] :
     k \in {"bytes", "int"}, as \in Some(ForFixed, 2)}
ForLoops == {"eod", "size", "max_size", "until", "until_including", "while", "count", "convert", "requires"} \cup Redirections
ContainerFields ==
  {d \in {[Field("uint8", as) EXCEPT !.loop = l, !.stop = s] :
            as \in Some(ForLoops, 2), l \in {"open", "counted"}, s \in BOOLEAN} :
     d.loop = "open" => d.attrs \ {"max_size", "convert", "requires"} # {}}

MCDeclarations ==
  LET simple == {d \in BytesFields \cup FixedFields \cup ConstantFields : Cardinality(d.attrs) <= 1}
  IN  Skippable(Once(FixedFields \cup ConstantFields) \cup BytesFields \cup Conditional(simple))
        \cup Once(ContainerFields)

(***************************** The three parts *****************************)

CONSTANTS lead, final, Mark, Null

VARIABLES
  part, \* which of them a behaviour is about
  decl, stage, data, ended, code, src, cur, end, ncur, val, n, stop, hooks,
  state, caller, function, result, exception, current, cache, resumable, shared, saved, frames,
  phase, fiber, done, value, threw, outcome, pending, stats
field == <<decl, stage, data, ended, code, src, cur, end, ncur, val, n, stop, hooks>>
fibers ==
  <<state, caller, function, result, exception, current, cache, resumable, shared, saved, frames,
    phase, fiber, done, value, threw, outcome, pending, stats>>
all == <<part, vars, field, fibers>>

\* The widths of types keep their order.
Fields == INSTANCE FieldParsing WITH
  Bytes <- {lead, final}, Final <- final, Size <- 2, MaxSize <- 2, Count <- 2, MaxLength <- 4,
  Delim <- <<lead, final>>, ParseFrom <- <<lead, lead, final>>, ParseAt <- 1,
  Literal <- [none |-> <<>>, bytes |-> <<lead, final>>, int |-> <<final>>],
  Width <- [uint8 |-> 1, uint16 |-> 2, bitfield |-> 1, single |-> 2, double |-> 4, ipv4 |-> 2, ipv6 |-> 4],
  Declarations <- MCDeclarations, frozen <- ended, pc <- code

\* Three fibers and two Resumables: one that is cached, and two to be nested.
Calls == INSTANCE Fiber WITH
  Fibers <- {"f1", "f2", "f3"}, Resumables <- {"r1", "r2"}, Main <- "main",
  CacheSize <- 1, MaxYields <- 2, None <- Null

InitParts ==
  /\ part \in {"chain", "fields", "fibers"}
  /\ Init /\ Fields!Init /\ Calls!Init
  /\ part # "fields" => decl = Unread
ChainNext == part = "chain" /\ Next /\ UNCHANGED <<part, field, fibers>>
FieldsNext == part = "fields" /\ Fields!Next /\ UNCHANGED <<part, vars, fibers>>
FibersNext == part = "fibers" /\ Calls!Next /\ UNCHANGED <<part, vars, field>>
NextParts == ChainNext \/ FieldsNext \/ FibersNext
\* The fairness of each part: parsers and payloads do not compute forever, and
\* a call that got control back completes.
FairSpecParts ==
  /\ InitParts /\ [][NextParts]_all
  /\ WF_all(\/ part = "chain" /\ ParserStep /\ UNCHANGED <<part, field, fibers>>
            \/ part = "fibers" /\ Calls!TrustedStep /\ UNCHANGED <<part, vars, field>>)
SpecChain == part = "chain" /\ InitParts /\ [][ChainNext]_all

\* Fields parse what the documentation says of their declarations, however
\* their input is cut into chunks.
FieldsMeanTheirInput == Fields!FieldsMeanTheirInput
\* Every run, resume, abort and destruction of a Resumable gets control back.
CallsReturn == Calls!CallsReturn
=============================================================================
