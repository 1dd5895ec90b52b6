----------------------------- MODULE MCOperators ----------------------------
(***************************************************************************)
(* What the instance of Coercion in MCToolchain is to coerce and to        *)
(* resolve.                                                                *)
(***************************************************************************)
EXTENDS OperatorCode

SInt(n) == IntType("int", n)
UInt(n) == IntType("uint", n)
Real == Plain("real")
Bytes == Plain("bytes")
BytesIterator == Plain("bytes_iter")
Enum == [Plain("enum") EXCEPT !.id = "E"]
MapOf(t, u) == Type("map", 0, <<t, u>>)
Variable(t) == Named(t, FALSE)

-----------------------------------------------------------------------------
(* Coercions *)

\* Integers of 2 and 4 bits, types around them and around bytes, which can change
\* their value, and types around these.
Inner == {SInt(2), SInt(4), Bytes}
CoercionTypes ==
  Inner \cup {UInt(2), UInt(4), Real, Plain("stream"), Plain("view"), Enum}
  \cup {Of(k, t) : k \in {"optional", "result", "strong_ref", "weak_ref", "value_ref", "vector"}, t \in Inner}
  \cup {Pair(t, Real) : t \in Inner}
  \cup {Of("set", UInt(4)), Of("optional", Of("vector", SInt(4))), MapOf(SInt(2), UInt(4))}
Literals ==
  {Ctor(UInt(4), v) : v \in {0, 1, 3, 9}} \cup {Ctor(SInt(4), v) : v \in {-3, 3, 7}}
  \cup {Ctor(Real, v) : v \in {-4, 3, 18}} \cup {Ctor(SInt(2), 1)}
Collections ==
  LET u(v) == Ctor(UInt(4), v)
  IN  UNION {{Collection(Of(k, UInt(4)), <<u(1), u(v)>>) : k \in {"list", "vector", "set"}}
             \cup {Collection(Pair(UInt(4), Real), <<u(v), Ctor(Real, 4)>>),
                   Collection(MapOf(UInt(4), UInt(4)), <<u(v), u(9)>>)} : v \in {1, 9}}
      \cup {Collection(Of("list", SInt(2)), <<Named(SInt(2), FALSE), Named(SInt(2), TRUE)>>)}
CoercionExprs ==
  {Named(t, const) : const \in BOOLEAN,
     t \in CoercionTypes \cup {Plain("time"), Plain("error"), Of("list", SInt(2))}}
  \cup Literals \cup Collections \cup {Ctor(Plain("null"), 0), Ctor(Enum, Undef)}
CoercionJobs ==
  [site : {"assignment", "element", "argument"}, expr : CoercionExprs, to : CoercionTypes]
  \cup [site : {"condition"}, expr : CoercionExprs, to : {Bool}]

-----------------------------------------------------------------------------
(* Operators *)

OperandTypes ==
  {SInt(2), SInt(4), UInt(2), UInt(4), Real, Bool, Bytes, BytesIterator,
   Plain("stream"), Plain("view"), Plain("time"), Plain("interval"),
   Of("vector", SInt(2)), Of("set", UInt(2)), Of("optional", SInt(2)),
   Of("value_ref", SInt(2)), Of("value_ref", Bytes), Of("strong_ref", Bytes)}
Operands ==
  {Variable(t) : t \in OperandTypes}
  \cup {Named(t, TRUE) : t \in {Bytes, Of("vector", SInt(2))}}
  \cup {Ctor(UInt(4), 5), Ctor(SInt(4), 5), Ctor(Real, 3)}
BinaryKinds ==
  {"Sum", "Difference", "Multiple", "Modulo", "SumAssign", "Equal", "BitAnd", "ShiftLeft", "In", "Index", "Add"}
Binary(kind, e, f) == Use(kind, NoID, <<e, f>>, <<>>)
Unary1(kind, e) == Use(kind, NoID, <<e>>, <<>>)
CastTo(e, t) == Binary("Cast", e, Named(TypeOf(t), TRUE))
MethodCall(id, e, args) == Use("MemberCall", id, <<e>>, args)
BinaryUses == {Binary(k, e, f) : k \in BinaryKinds, e \in Operands, f \in Operands}

UnaryKinds == {"SignNeg", "Negate", "IncrPrefix", "IncrPostfix", "DecrPrefix", "Deref", "Size", "Begin", "End", "New"}
CastTypes == {SInt(2), UInt(2), UInt(4), Real, Bool, Enum, Bytes, Plain("time"), Plain("interval"), Of("optional", SInt(2))}
UnaryTypes ==
  OperandTypes \cup {String, Enum} \cup {Of(k, UInt(2)) : k \in {"vector_iter", "set_iter", "list", "result", "weak_ref"}}
  \cup {Plain("stream_iter")}
UnaryOperands == {Variable(t) : t \in UnaryTypes} \cup Literals
UnaryUses ==
  {Unary1(k, e) : k \in UnaryKinds, e \in UnaryOperands}
  \cup {CastTo(e, t) : e \in UnaryOperands, t \in CastTypes}
CallUses ==
  LET u == Variable(UInt(2))
      it == Variable(BytesIterator)
      bytes == Variable(Bytes)
      arguments == {<<>>, <<u>>, <<it>>, <<bytes>>, <<u, u>>, <<it, it>>, <<Variable(Enum)>>}
  IN  {MethodCall(id, e, args) : id \in {"sub", "at", "find", "starts_with", "to_int", "freeze", "clear", "push_back"},
                                 e \in UnaryOperands, args \in arguments}
      \cup {Use("Call", id, <<>>, <<e>>) : id \in {"int8", "uint8", "int64", "interval", "time_ns"}, e \in UnaryOperands}
      \cup {Use("Call", NoID, <<Named(TypeOf(t), TRUE)>>, <<e>>) : t \in {Enum, Plain("exception")}, e \in UnaryOperands}

-----------------------------------------------------------------------------
(* Operators on operators *)

\* The operands are what these have been resolved to.
InnerUses ==
  LET u == Variable(UInt(4))
      both(k, t) == Binary(k, Variable(t), Variable(t))
  IN  {both(k, UInt(4)) : k \in {"Sum", "Multiple", "Power", "BitAnd", "ShiftLeft", "Equal", "Lower"}}
      \cup {both("Sum", t) : t \in {Real, Bytes, String, Plain("interval")}}
      \cup {both(k, Bool) : k \in {"BitAnd", "BitOr", "Equal"}} \cup {both("Difference", Plain("time"))}
      \cup {Binary("In", Variable(Bytes), Variable(Bytes)), Binary("Sum", Variable(BytesIterator), u),
            Binary("Multiple", u, Variable(Plain("interval"))), Binary("Index", Variable(Of("vector", SInt(2))), u)}
      \cup {Unary1(k, u) : k \in {"SignNeg", "Negate", "IncrPrefix", "IncrPostfix"}}
      \cup {Unary1("Deref", Variable(t)) : t \in {BytesIterator, Of("optional", UInt(4)), Of("strong_ref", Bytes),
                                                  Of("set_iter", Enum), Of("set_iter", Bytes)}}
      \cup {Unary1("SignNeg", Ctor(UInt(4), 5)), Unary1("Size", Variable(Bytes)), Unary1("Begin", Variable(Bytes)),
            CastTo(u, UInt(2)), CastTo(Variable(Enum), UInt(4)), Use("Call", "int8", <<>>, <<u>>)}
InnerExprs == UNION UNION {Resolutions(use) : use \in InnerUses}
Level0(e) == IF e.form = "op" THEN GrammarLevel(e.op.kind) ELSE 15
Fitting(e, kind, n) == Level0(e) >= SlotLevel(kind, n)
NestedUses ==
  UNION {UNION {{Binary(k, e, other) : k \in {k \in BinaryKinds : Fitting(e, k, 1)}}
                \cup {Binary(k, other, e) : k \in {k \in BinaryKinds : Fitting(e, k, 2)}} :
                  other \in {Variable(NonConst(e.type)), Variable(UInt(4)), Variable(Real)}}
         \cup {Unary1(k, e) : k \in {k \in UnaryKinds : Fitting(e, k, 1)}}
         \cup {CastTo(e, t) : t \in CastTypes}
         \cup (IF Fitting(e, "MemberCall", 1)
               THEN {MethodCall(id, e, args) : id \in {"sub", "seconds"}, args \in {<<>>, <<Variable(UInt(4)), Variable(UInt(4))>>}}
               ELSE {}) : e \in InnerExprs}
NestedJobs ==
  {[site |-> site, expr |-> e, to |-> t] : site \in {"assignment", "argument"}, e \in InnerExprs,
      t \in {Real, Bytes, Plain("stream"), Of("optional", Bytes), Of("optional", UInt(4)), Of("value_ref", Bytes)}}
  \cup {[site |-> "condition", expr |-> e, to |-> Bool] : e \in InnerExprs}
OperatorJobs ==
  {[site |-> "operator", use |-> u] : u \in BinaryUses \cup UnaryUses \cup CallUses \cup NestedUses}

MCJobs == CoercionJobs \cup OperatorJobs \cup NestedJobs
=============================================================================
