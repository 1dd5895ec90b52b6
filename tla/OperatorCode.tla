----------------------------- MODULE OperatorCode ----------------------------
(***************************************************************************)
(* How tightly operators bind, in HILTI's and Spicy's grammars             *)
(* (parser.yy) and in the C++ that is generated for them                   *)
(* (codegen/operators.cc, codegen/coercions.cc).  Code is text that is put *)
(* into other text, without parentheses for most operators.                *)
(***************************************************************************)
EXTENDS Overloads

Relational == {"Lower", "LowerEqual", "Greater", "GreaterEqual"}
Assigns == {"SumAssign", "DifferenceAssign", "MultipleAssign", "DivisionAssign"}

-----------------------------------------------------------------------------
(* The grammar *)

\* The levels of the grammar's expressions, from expr_1 to expr_f; what binds
\* tighter is higher.
GrammarLevel(kind) ==
  CASE kind \in Assigns -> 1
    [] kind \in {"Equal", "Unequal"} -> 4
    [] kind \in Relational -> 5
    [] kind = "BitOr" -> 6
    [] kind = "BitXor" -> 7
    [] kind = "BitAnd" -> 8
    [] kind \in {"ShiftLeft", "ShiftRight"} -> 9
    [] kind \in {"Sum", "Difference"} -> 10
    [] kind \in {"Modulo", "Multiple", "Division", "Power"} -> 11
    [] kind \in {"Deref", "Negate", "Size", "DecrPrefix", "IncrPrefix"} -> 12
    [] kind \in {"Call", "Member", "MemberCall", "Index", "HasMember", "In", "DecrPostfix", "IncrPostfix", "TryMember"} -> 13
    [] kind \in {"Begin", "End", "Cast", "Pack", "Unpack", "New"} -> 14
    [] OTHER -> 15
\* The level that an operand must have unless it is in parentheses.
SlotLevel(kind, n) ==
  LET level == GrammarLevel(kind)
  IN  CASE kind \in Assigns -> IF n = 1 THEN 2 ELSE 1
        [] kind = "In" -> level
        [] level = 14 \/ (level = 13 /\ n > 1) -> 1
        [] OTHER -> IF n = 1 THEN level ELSE level + 1

-----------------------------------------------------------------------------
(* C++ *)

Primary == 15
Unary == 14
\* A text's level, and the levels that its operands must have in order to stay
\* what they are.
Shape(level, needs) == [level |-> level, needs |-> needs]
AsCall == Shape(Primary, <<0, 0, 0>>)
OnReceiver == Shape(Primary, <<Primary, 0, 0>>)
InfixLevel(kind) ==
  CASE kind \in {"Multiple", "Division", "Modulo"} -> 13
    [] kind \in {"Sum", "Difference"} -> 12
    [] kind \in {"ShiftLeft", "ShiftRight"} -> 11
    [] kind \in Relational -> 9
    [] kind \in {"Equal", "Unequal"} -> 8
    [] kind = "BitAnd" -> 7
    [] kind = "BitXor" -> 6
    [] kind = "BitOr" -> 5
    [] OTHER -> 2
Infix(kind) ==
  LET level == InfixLevel(kind)
  IN  Shape(level, IF kind \in Assigns THEN <<3, 2>> ELSE <<level, level + 1>>)
InParentheses(shape) == [shape EXCEPT !.level = Primary]
Prefix == Shape(Unary, <<Unary>>)

\* What the code generator's visitor makes of most operators.
Usual(op) ==
  CASE op.kind \in {"Call", "New", "Pack", "Unpack", "Power", "Cast"} -> AsCall
    [] op.kind \in {"Size", "Begin", "End", "MemberCall", "Delete", "Add", "Index", "IndexAssign",
                    "Member", "TryMember", "HasMember", "Unset", "IncrPostfix", "DecrPostfix"} -> OnReceiver
    [] op.kind = "In" -> Shape(Primary, <<0, Primary>>)
    [] op.kind = "SignNeg" -> InParentheses(Prefix)
    [] op.kind \in {"Deref", "Negate", "IncrPrefix", "DecrPrefix"} -> Prefix
    [] OTHER -> Infix(op.kind)
\* The visitor, type by type.
BoolCode(op) == Infix(op.kind)
AddressCode(op) == Usual(op)
BytesCode(op) == IF op.ns = "bytes" /\ op.kind = "SumAssign" THEN OnReceiver ELSE Usual(op)
EnumCode(op) ==
  CASE op.kind = "Cast" -> OnReceiver
    [] op.cls = "HasLabel" -> AsCall
    [] OTHER -> Usual(op)
IntervalCode(op) == Usual(op)
ListCode(op) == Usual(op)
RealCode(op) == IF op.kind = "Modulo" THEN AsCall ELSE Usual(op)
ResultCode(op) == IF op.kind = "Deref" THEN OnReceiver ELSE Usual(op)
OptionalCode(op) == IF op.kind = "Deref" THEN AsCall ELSE Usual(op)
GenericCode(op) == Usual(op)
StreamCode(op) == IF op.ns = "stream" /\ op.kind = "SumAssign" THEN OnReceiver ELSE Usual(op)
StringCode(op) == IF op.kind = "Modulo" \/ op.cls = "Encode" THEN AsCall ELSE Usual(op)
UnionCode(op) == IF op.kind = "Member" THEN AsCall ELSE Usual(op)
StructCode(op) == Usual(op)
SignedCode(op) == Usual(op)
TimeCode(op) == Usual(op)
TupleCode(op) == IF op.kind = "Index" THEN AsCall ELSE Usual(op)
\* Mutant: integers' bit operators go without parentheses, as those of bools do.
UnsignedCode_Bare(op) == Usual(op)
UnsignedCode(op) ==
  IF op.kind \in {"BitAnd", "BitOr", "BitXor", "ShiftLeft", "ShiftRight"}
  THEN InParentheses(Infix(op.kind)) ELSE Usual(op)
VectorCode(op) == Usual(op)
ReferenceCode(op) == IF op.kind = "Deref" THEN InParentheses(Prefix) ELSE Usual(op)
CodeFor(op) ==
  CASE op.ns \in {"address", "network"} -> AddressCode(op)
    [] op.ns = "bool" -> BoolCode(op)
    [] op.ns \in {"bytes", "bytes::iterator"} -> BytesCode(op)
    [] op.ns \in {"enum", "error", "exception"} -> EnumCode(op)
    [] op.ns = "interval" -> IntervalCode(op)
    [] op.ns \in {"list", "list::iterator", "map", "map::iterator"} -> ListCode(op)
    [] op.ns = "real" -> RealCode(op)
    [] op.ns = "result" -> ResultCode(op)
    [] op.ns \in {"optional", "port"} -> OptionalCode(op)
    [] op.ns \in {"stream", "stream::iterator", "stream::view", "set", "set::iterator"} -> StreamCode(op)
    [] op.ns = "string" -> StringCode(op)
    [] op.ns = "struct" -> StructCode(op)
    [] op.ns = "union" -> UnionCode(op)
    [] op.ns = "signed_integer" -> SignedCode(op)
    [] op.ns = "unsigned_integer" -> UnsignedCode(op)
    [] op.ns = "time" -> TimeCode(op)
    [] op.ns = "tuple" -> TupleCode(op)
    [] op.ns \in {"vector", "vector::iterator"} -> VectorCode(op)
    [] op.ns \in References -> ReferenceCode(op)
    [] OTHER -> GenericCode(op)    \* and regexp
\* What is put around a text to convert it; it may be nothing at all.
RECURSIVE Conversion(_, _)
Conversion(src, dst) ==
  LET to(ks) == dst.k \in ks
      compared == Shape(Primary, <<InfixLevel("Unequal")>>)
  IN  CASE Alike(src, dst) \/ (to({"value_ref"}) /\ src.k \notin {"strong_ref", "weak_ref"}) -> Shape(0, <<0>>)
        [] (to({"optional"}) /\ src.k # "optional") \/ to({"result"}) -> AsCall
        [] src.k \in {"enum", "interval", "time"} -> compared
        [] \/ src.k \in {"stream", "view"} \/ (src.k = "optional" /\ to({"bool"}))
           \/ (src.k \in {"strong_ref", "weak_ref"} /\ to({"value_ref"})) -> OnReceiver
        [] src.k = "value_ref" /\ to({"bool"}) ->
             LET inner == Conversion(src.args[1], dst)
             IN  Shape(IF inner.level = 0 THEN Unary ELSE inner.level,
                       <<IF inner.needs[1] > Unary THEN Primary + 1 ELSE Unary>>)
        [] src.k \in References /\ ~to(References \cup {"bool"}) -> InParentheses(Prefix)
        [] OTHER -> AsCall

RECURSIVE Level(_)
Level(e) ==
  CASE e.form = "op" -> CodeFor(e.op).level
    [] e.form = "coerced" ->
         LET level == Conversion(e.sub.type, e.type).level IN IF level = 0 THEN Level(e.sub) ELSE level
    [] e.form = "coercedCtor" -> Level(e.ctor)
    [] e.form = "ctor" /\ e.type.k = "real" /\ e.val < 0 -> Unary
    [] OTHER -> Primary
\* C++ reads the text the way it has been put together.
RECURSIVE ReadsAsWritten(_)
ReadsAsWritten(e) ==
  CASE e.form = "op" ->
         /\ \A n \in DOMAIN e.ops : Level(e.ops[n]) >= CodeFor(e.op).needs[n] /\ ReadsAsWritten(e.ops[n])
         /\ \A n \in DOMAIN e.args : ReadsAsWritten(e.args[n])
    [] e.form = "coerced" -> Level(e.sub) >= Conversion(e.sub.type, e.type).needs[1] /\ ReadsAsWritten(e.sub)
    [] OTHER -> TRUE
=============================================================================
