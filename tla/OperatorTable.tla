---------------------------- MODULE OperatorTable ---------------------------
(***************************************************************************)
(* The operators that HILTI's types declare                                *)
(* (hilti/toolchain/include/ast/operators/).  Integers of MaxWidth bits    *)
(* stand for those of 64 bits, and of half as many for those of 8, 16 and  *)
(* 32 bits.                                                                *)
(***************************************************************************)
EXTENDS Conversions

-----------------------------------------------------------------------------
(* Types of operands and results *)

Computed(k, op) == Type(k, op, <<>>)
SameTypeAs(op) == Computed("sameTypeAs", op)
ElementType(op) == Computed("elementType", op)
ConstantElementType(op) == Computed("constantElementType", op)
ConstantKeyType(op) == Computed("constantKeyType", op)
DereferencedType(op) == Computed("dereferencedType", op)
ReferencedType(op) == Computed("referencedType", op)    \* does not infer constness
IteratorType(op) == Computed("iteratorType", op)
TypedType(op) == Computed("typedType", op)
WidestTypeSigned == Computed("widestTypeSigned", 1)
WidestTypeUnsigned == Computed("widestTypeUnsigned", 1)
SameWidthSigned == Computed("sameWidthSigned", 1)
MemberType(op) == Computed("memberType", op)
ConstantMemberType(op) == Computed("constantMemberType", op)
AllocatedType(op) == Computed("allocatedType", op)
UnpackedType == Computed("unpackedType", 1)

Bool == Plain("bool")
String == Plain("string")
Void == Plain("void")
Any == Plain("any")
SignedInteger == IntType("int", MaxWidth)
UnsignedInteger == IntType("uint", MaxWidth)
AnySigned == IntType("int", 0)
AnyUnsigned == IntType("uint", 0)
Narrow == MaxWidth \div 2
TypeOf(t) == Of("type", t)
Pair(t, u) == Type("tuple", 0, <<t, u>>)

-----------------------------------------------------------------------------
(* Declarations *)

\* A type's operator of a kind.  Method calls and constructors have an id, and a
\* list of arguments after their operands.  Those of normal priority go first.
Operator(ns, cls, kind, ops, result) ==
  [ns |-> ns, cls |-> cls, kind |-> kind, id |-> NoID, ops |-> ops, args |-> <<>>,
   result |-> result, normal |-> FALSE, rank |-> 0]
Operators(ns, kinds, ops, result) == {Operator(ns, k, k, ops, result) : k \in kinds}
Normal(op) == [op EXCEPT !.normal = TRUE]
\* Registered behind the others of its kind in the same header, by its name.
Later(op) == [op EXCEPT !.rank = @ + 1]
Method(ns, cls, id, self, args, result) ==
  [Operator(ns, cls, "MemberCall", <<self>>, result) EXCEPT !.id = id, !.args = args]
KeywordCtor(ns, cls, id, args, result) ==
  [Operator(ns, cls, "Call", <<>>, result) EXCEPT !.id = id, !.args = args]
CtorOf(ns, cls, t, args) == [Operator(ns, cls, "Call", <<TypeOf(t)>>, TypedType(1)) EXCEPT !.args = args]
Req(t) == [type |-> t, optional |-> FALSE]
Opt(t) == [type |-> t, optional |-> TRUE]

Equalities == {"Equal", "Unequal"}
Orders == {"Greater", "GreaterEqual", "Lower", "LowerEqual"}
\* What each container's iterators have.
IteratorOperators(ns, it) ==
  {Operator(ns, "Deref", "Deref", <<Const(it)>>, DereferencedType(1))}
  \cup Operators(ns, {"IncrPostfix", "IncrPrefix"}, <<it>>, SameTypeAs(1))
  \cup Operators(ns, Equalities, <<Const(it), SameTypeAs(1)>>, Bool)

-----------------------------------------------------------------------------
(* Atomic types *)

AddressOperators ==
  Operators("address", Equalities, <<Plain("address"), Plain("address")>>, Bool)
  \cup {Method("address", "Family", "family", Plain("address"), <<>>, Plain("enum"))}
BoolOperators == Operators("bool", Equalities \cup {"BitAnd", "BitOr", "BitXor"}, <<Bool, Bool>>, Bool)
EnumOperators ==
  Operators("enum", Equalities, <<Plain("enum"), SameTypeAs(1)>>, Bool)
  \cup {Operator("enum", "CastToSignedInteger", "Cast", <<Plain("enum"), TypeOf(AnySigned)>>, TypedType(2)),
        Operator("enum", "CastToUnsignedInteger", "Cast", <<Plain("enum"), TypeOf(AnyUnsigned)>>, TypedType(2)),
        CtorOf("enum", "CtorSigned", Plain("enum"), <<Req(AnySigned)>>),
        Later(CtorOf("enum", "CtorUnsigned", Plain("enum"), <<Req(AnyUnsigned)>>)),
        Method("enum", "HasLabel", "has_label", Plain("enum"), <<>>, Bool)}
ErrorOperators ==
  {KeywordCtor("error", "Ctor", "error", <<Req(String)>>, Plain("error")),
   Method("error", "Description", "description", Plain("error"), <<>>, String)}
ExceptionOperators ==
  {CtorOf("exception", "Ctor", Plain("exception"), <<Req(String)>>),
   Method("exception", "Description", "description", Plain("exception"), <<>>, String)}
\* Intervals and times can be made from numbers of seconds or nanoseconds.
FromNumbers(ns, secs, nanos) ==
  {KeywordCtor(ns, "CtorSignedIntegerSecs", secs, <<Req(AnySigned)>>, Plain(ns)),
   Later(KeywordCtor(ns, "CtorUnsignedIntegerSecs", secs, <<Req(AnyUnsigned)>>, Plain(ns))),
   KeywordCtor(ns, "CtorRealSecs", secs, <<Req(Plain("real"))>>, Plain(ns)),
   KeywordCtor(ns, "CtorSignedIntegerNs", nanos, <<Req(AnySigned)>>, Plain(ns)),
   Later(KeywordCtor(ns, "CtorUnsignedIntegerNs", nanos, <<Req(AnyUnsigned)>>, Plain(ns))),
   Method(ns, "Seconds", "seconds", Plain(ns), <<>>, Plain("real")),
   Method(ns, "Nanoseconds", "nanoseconds", Plain(ns), <<>>, IF ns = "time" THEN UnsignedInteger ELSE SignedInteger)}
IntervalOperators ==
  LET t == Plain("interval")
  IN  Operators("interval", Equalities \cup Orders, <<t, t>>, Bool)
      \cup Operators("interval", {"Sum", "Difference"}, <<t, t>>, t)
      \cup {Later(Operator("interval", "MultipleUnsignedInteger", "Multiple", <<t, UnsignedInteger>>, t)),
            Operator("interval", "MultipleReal", "Multiple", <<t, Plain("real")>>, t)}
      \cup FromNumbers("interval", "interval", "interval_ns")
TimeOperators ==
  LET t == Plain("time")
  IN  Operators("time", Equalities \cup Orders, <<t, t>>, Bool)
      \cup {Operator("time", "SumInterval", "Sum", <<t, Plain("interval")>>, t),
            Later(Operator("time", "DifferenceTime", "Difference", <<t, t>>, Plain("interval"))),
            Operator("time", "DifferenceInterval", "Difference", <<t, Plain("interval")>>, t)}
      \cup FromNumbers("time", "time", "time_ns")
NetworkOperators ==
  LET t == Plain("network")
  IN  Operators("network", Equalities, <<t, t>>, Bool)
      \cup {Operator("network", "In", "In", <<Plain("address"), t>>, Bool),
            Method("network", "Family", "family", t, <<>>, Plain("enum")),
            Method("network", "Prefix", "prefix", t, <<>>, Plain("address")),
            Method("network", "Length", "length", t, <<>>, SignedInteger)}
PortOperators ==
  Operators("port", Equalities, <<Plain("port"), Plain("port")>>, Bool)
  \cup {KeywordCtor("port", "Ctor", "port", <<Req(IntType("uint", Narrow)), Req(Plain("enum"))>>, Plain("port")),
        Method("port", "Protocol", "protocol", Plain("port"), <<>>, Plain("enum"))}
Arithmetic == {"Difference", "Division", "Modulo", "Multiple", "Power", "Sum"}
ArithmeticAssign == {"DifferenceAssign", "DivisionAssign", "MultipleAssign", "SumAssign"}
RealOperators ==
  LET t == Plain("real")
  IN  Operators("real", {"SignNeg"}, <<t>>, t)
      \cup Operators("real", Arithmetic \cup ArithmeticAssign, <<t, t>>, t)
      \cup Operators("real", Equalities \cup Orders, <<t, t>>, Bool)
      \cup {Operator("real", "CastToUnsignedInteger", "Cast", <<t, TypeOf(AnyUnsigned)>>, TypedType(2)),
            Operator("real", "CastToSignedInteger", "Cast", <<t, TypeOf(AnySigned)>>, TypedType(2)),
            Operator("real", "CastToTime", "Cast", <<t, TypeOf(Plain("time"))>>, Plain("time")),
            Operator("real", "CastToInterval", "Cast", <<t, TypeOf(Plain("interval"))>>, Plain("interval"))}
\* What both kinds of integers have: u is the kind, widest what fits both operands.
IntegerOperators(ns, u, widest) ==
  Operators(ns, {"DecrPostfix", "DecrPrefix", "IncrPostfix", "IncrPrefix"}, <<u>>, SameTypeAs(1))
  \cup Operators(ns, Arithmetic, <<widest, widest>>, widest)
  \cup Operators(ns, Equalities \cup Orders, <<widest, widest>>, Bool)
  \cup Operators(ns, ArithmeticAssign, <<u, SameTypeAs(1)>>, SameTypeAs(1))
  \cup {Operator(ns, "CastToSigned", "Cast", <<u, TypeOf(AnySigned)>>, TypedType(2)),
        Operator(ns, "CastToUnsigned", "Cast", <<u, TypeOf(AnyUnsigned)>>, TypedType(2)),
        Operator(ns, "CastToReal", "Cast", <<u, TypeOf(Plain("real"))>>, Plain("real")),
        Operator(ns, "CastToEnum", "Cast", <<u, TypeOf(Plain("enum"))>>, TypedType(2)),
        Operator(ns, "CastToInterval", "Cast", <<u, TypeOf(Plain("interval"))>>, Plain("interval")),
        Operator(ns, "CastToBool", "Cast", <<AnySigned, TypeOf(Bool)>>, Bool)}
\* int8(), uint64() and so on.
IntegerCtors(ns, k) ==
  LET width == [n \in {"8", "64"} |-> IF n = "8" THEN Narrow ELSE MaxWidth]
  IN  UNION {{KeywordCtor(ns, "CtorSigned" \o n, k \o n, <<Req(AnySigned)>>, IntType(k, width[n])),
              Later(KeywordCtor(ns, "CtorUnsigned" \o n, k \o n, <<Req(AnyUnsigned)>>, IntType(k, width[n])))} :
             n \in DOMAIN width}
SignedIntegerOperators ==
  IntegerOperators("signed_integer", AnySigned, WidestTypeSigned)
  \cup IntegerCtors("signed_integer", "int")
  \cup {Operator("signed_integer", "SignNeg", "SignNeg", <<AnySigned>>, SameTypeAs(1))}
UnsignedIntegerOperators ==
  IntegerOperators("unsigned_integer", AnyUnsigned, WidestTypeUnsigned)
  \cup IntegerCtors("unsigned_integer", "uint")
  \cup Operators("unsigned_integer", {"BitAnd", "BitOr", "BitXor"}, <<WidestTypeUnsigned, WidestTypeUnsigned>>, WidestTypeUnsigned)
  \cup Operators("unsigned_integer", {"ShiftLeft", "ShiftRight"}, <<AnyUnsigned, AnyUnsigned>>, SameTypeAs(1))
  \cup {Operator("unsigned_integer", "SignNeg", "SignNeg", <<AnyUnsigned>>, SameWidthSigned),
        Operator("unsigned_integer", "Negate", "Negate", <<AnyUnsigned>>, SameTypeAs(1)),
        Operator("unsigned_integer", "CastToTime", "Cast", <<AnyUnsigned, TypeOf(Plain("time"))>>, Plain("time"))}
StringOperators ==
  Operators("string", Equalities, <<String, String>>, Bool)
  \cup {Operator("string", "Size", "Size", <<String>>, UnsignedInteger),
        Operator("string", "Sum", "Sum", <<String, String>>, String),
        Normal(Operator("string", "Modulo", "Modulo", <<String, Any>>, String)),
        Method("string", "Encode", "encode", String, <<Opt(Plain("enum"))>>, Plain("bytes"))}
RegExpOperators ==
  LET t == Plain("regexp")
      data == <<Req(Const(Plain("bytes")))>>
      state == Plain("match_state")
      advanced == Pair(SignedInteger, Plain("view"))
  IN  {Method("regexp", "Match", "match", t, data, SignedInteger),
       Method("regexp", "Find", "find", t, data, Pair(SignedInteger, Plain("bytes"))),
       Method("regexp", "MatchGroups", "match_groups", t, data, Of("vector", Plain("bytes"))),
       Method("regexp", "TokenMatcher", "token_matcher", t, <<>>, state),
       Method("regexp_match_state", "AdvanceBytes", "advance", state, Append(data, Opt(Bool)), advanced),
       Later(Method("regexp_match_state", "AdvanceView", "advance", state, <<Req(Plain("view"))>>, advanced))}
=============================================================================
