------------------------------ MODULE Overloads -----------------------------
(***************************************************************************)
(* Which of the declared operators a use of one is resolved to             *)
(* (visitors/resolver.cc, matchOverloads()), and what becomes of it when   *)
(* its operands are constant (visitors/constant-folder.cc).                *)
(*                                                                         *)
(* A use has a kind, an id if it is a call, operands, and arguments.       *)
(***************************************************************************)
EXTENDS ContainerOperators

CONSTANT
  Registry \* the declared operators, by their kinds

Use(kind, id, ops, args) == [kind |-> kind, id |-> id, ops |-> ops, args |-> args]

-----------------------------------------------------------------------------
(* Types that depend on operands *)

Octet == IntType("uint", Narrow)
ElementsOf(t) ==
  CASE t.k \in {"bytes", "stream", "view"} -> {Octet}
    [] t.k = "map" -> {t.args[2]}
    [] t.k \in Sequential -> {t.args[1]}
    [] OTHER -> {}
DereferencedOf(t) ==
  CASE t.k \in {"bytes_iter", "stream_iter"} -> {Octet}
    [] t.k = "map_iter" -> {Pair(t.args[1], t.args[2])}
    [] t.k \in ContainerIterators \cup References \cup {"optional", "result"} -> {t.args[1]}
    [] OTHER -> {}
IteratorsOf(t) ==
  CASE t.k = "view" -> {Plain("stream_iter")}
    [] t.k \in {"bytes", "stream", "map"} \cup Sequential -> {Type(t.k \o "_iter", 0, t.args)}
    [] OTHER -> {}
IsLiteral(e) == e.form \in {"ctor", "coercedCtor"}
\* widestTypeSigned(), widestTypeUnsigned(): a literal next to something else does
\* not count.
Widest(k, ops) ==
  IF \E i \in 1..2 : ops[i].type.k \notin Integral THEN {}
  ELSE LET counting == IF \A i \in 1..2 : IsLiteral(ops[i]) THEN {1, 2} ELSE {i \in 1..2 : ~IsLiteral(ops[i])}
           widths == {ops[i].type.w : i \in counting}
       IN  {IntType(k, CHOOSE n \in widths : \A m \in widths : m <= n)}
\* A tuple's element, or the field of a struct or union.
MembersOf(ops) ==
  IF ops[1].type.k # "tuple" THEN {ops[1].type.args[1]}
  ELSE {ops[1].type.args[n] : n \in {n \in DOMAIN ops[1].type.args :
                                       ops[2].form = "ctor" /\ ops[2].type.k = "uint" /\ ops[2].val = n - 1}}

\* The type of an operand or a result: it may depend on the operands as they have
\* been written, and on those that have been coerced already.
OperandType(t, written, coerced) ==
  LET of == coerced[t.w]
      as(types) == {IF IsConstant(of) THEN Const(u) ELSE u : u \in types}
  IN  CASE t.k = "sameTypeAs" -> {of.type}
        [] t.k = "typedType" -> {of.type.args[1]}
        [] t.k = "elementType" -> as(ElementsOf(of.type))
        [] t.k = "constantElementType" -> {Const(u) : u \in ElementsOf(of.type)}
        [] t.k = "constantKeyType" -> {Const(of.type.args[1])}
        [] t.k = "dereferencedType" -> as({NonConst(u) : u \in DereferencedOf(of.type)})
        [] t.k = "referencedType" -> DereferencedOf(of.type)
        [] t.k = "iteratorType" -> IteratorsOf(of.type)
        [] t.k = "widestTypeSigned" -> Widest("int", written)
        [] t.k = "widestTypeUnsigned" -> Widest("uint", written)
        [] t.k = "sameWidthSigned" -> {IntType("int", written[1].type.w)}
        [] t.k = "memberType" -> MembersOf(coerced)
        [] t.k = "constantMemberType" -> {Const(u) : u \in MembersOf(coerced)}
        [] t.k = "allocatedType" ->
             {Of("strong_ref", IF of.type.k = "type" THEN of.type.args[1] ELSE of.type)}
        [] t.k = "unpackedType" ->
             LET both == Pair(coerced[1].type.args[1], coerced[2].type.args[1])
             IN  {IF coerced[3].val # 0 THEN both ELSE Of("result", both)}
        [] OTHER -> {t}

-----------------------------------------------------------------------------
(* Operands *)

\* The first n operands, and how many of them are of another kind of type then.
RECURSIVE CoerceUpTo(_, _, _, _)
CoerceUpTo(n, ops, types, style) ==
  IF n = 0 THEN {[ops |-> <<>>, retyped |-> 0]}
  ELSE UNION {UNION {{[ops |-> Append(before.ops, res.expr),
                       retyped |-> before.retyped + (IF res.retyped THEN 1 ELSE 0)] :
                        res \in CoerceExpression(ops[n], t, style)} :
                       t \in OperandType(types[n], ops, before.ops)} :
                before \in CoerceUpTo(n - 1, ops, types, style)}
\* coerceOperands(): one of them may change its kind of type, or none at all; for
\* the arguments of a call it does not matter.
CoerceOperands(ops, types, style) ==
  IF Len(ops) # Len(types) THEN {}
  ELSE {res.ops : res \in {res \in CoerceUpTo(Len(ops), ops, types, style) :
                             \/ "FunctionCall" \in style
                             \/ res.retyped <= (IF "DisallowTypeChanges" \in style THEN 0 ELSE 1)}}
\* Arguments may be missing at the end.
CoerceArguments(given, params, style) ==
  IF Len(given) > Len(params) \/ \E i \in DOMAIN params : i > Len(given) /\ ~params[i].optional THEN {}
  ELSE CoerceOperands(given, [i \in DOMAIN given |-> params[i].type],
         IF "Coercion" \in style THEN AllForFunctionCall ELSE AllForFunctionCall \ {"Coercion"})

\* An operator on its operands.
Instance(op, ops, args, swapped) ==
  LET types == OperandType(op.result, ops, ops)
  IN  Resolved(op, ops, args, IF types = {} THEN Plain("unknown") ELSE TheOne(types), swapped)
\* derefOperand().
Dereferenced(e) ==
  IF e.type.k \notin References THEN e
  ELSE [Instance(Operator(e.type.k, "Deref", "Deref", <<Const(Plain(e.type.k))>>, ReferencedType(1)),
                 <<e>>, <<>>, FALSE) EXCEPT !.implied = TRUE]

-----------------------------------------------------------------------------
(* Folding *)

\* The one literal that an operator is applied to, if it is of type k.
FoldableArgument(r, k) ==
  LET es == IF r.args = <<>> THEN r.ops ELSE r.args
  IN  {e.val : e \in {e \in {es[1]} : e.form = "ctor" /\ e.type.k = k}}
\* A sign is turned around without a check for an int, which wraps; intervals and
\* times take any number.
NegatedSigned(v) == IF -v \in SignedRange(MaxWidth) THEN -v ELSE v
Negated(r) ==
  CASE r.op.ns = "signed_integer" ->
         {Ctor(r.type, NegatedSigned(v)) : v \in FoldableArgument(r, "int")}
    [] r.op.ns = "unsigned_integer" ->
         {Ctor(r.type, -v) : v \in {v \in FoldableArgument(r, "uint") : v <= 2^(MaxWidth - 1)}}
    [] OTHER -> {Ctor(r.type, -v) : v \in FoldableArgument(r, "real")}
\* An integer keeps its value, in range for the new type or not, so long as it
\* is one of 64 bits.
MadeInteger(r) ==
  {Ctor(r.type, v) : v \in {v \in FoldableArgument(r, "int") \cup FoldableArgument(r, "uint") :
                              v \in RangeOf(IntType(r.type.k, MaxWidth))}}
Made(r) ==
  {Ctor(r.type, 2 * v) : v \in FoldableArgument(r, "int") \cup FoldableArgument(r, "uint")}
  \cup {Ctor(r.type, v) : v \in FoldableArgument(r, "real")}
Fold(r) ==
  OrElse(CASE r.op.kind = "SignNeg" -> Negated(r)
           [] r.op.kind = "Call" /\ r.type.k \in Integral -> MadeInteger(r)
           [] r.op.kind = "Call" /\ r.type.k \in {"interval", "time"} -> Made(r)
           [] OTHER -> {}, {r})

-----------------------------------------------------------------------------
(* Matching *)

\* An operator on the operands, as they have been written or in place of references
\* what these refer to.
Try(op, ops, args, style, swapped) ==
  {Instance(op, o, a, swapped) : o \in CoerceOperands(ops, op.ops, style),
                                 a \in CoerceArguments(args, op.args, style)}
WaysToRead(ops, style) ==
  <<ops>> \o IF "DisallowTypeChanges" \notin style /\ \E i \in DOMAIN ops : ops[i].type.k \in References
             THEN <<[i \in DOMAIN ops |-> Dereferenced(ops[i])]>> ELSE <<>>
RECURSIVE TryWays(_, _, _, _, _)
TryWays(op, ways, args, style, swapped) ==
  IF ways = <<>> THEN {}
  ELSE OrElse(Try(op, Head(ways), args, style, swapped), TryWays(op, Tail(ways), args, style, swapped))
Commutative == {"BitAnd", "BitOr", "BitXor", "Equal", "Unequal", "Multiple", "Sum"}
\* Operands of a commutative operator are also tried the other way round.
\* Mutant: they are not.
OperandOrders_AsWritten(op, ops) == <<ops>>
OperandOrders(op, ops) ==
  IF op.kind \in Commutative /\ Len(ops) = 2 THEN <<ops, <<ops[2], ops[1]>>>> ELSE <<ops>>
RECURSIVE TryOrders(_, _, _, _, _)
TryOrders(op, orders, args, style, swapped) ==
  IF orders = <<>> THEN {}
  ELSE OrElse(TryWays(op, WaysToRead(Head(orders), style), args, style, swapped),
              TryOrders(op, Tail(orders), args, style, TRUE))
MatchStyles ==
  <<{"OperandMatching", "ExactMatch"}, {"OperandMatching", "ExactMatch", "Coercion"},
    {"OperandMatching", "ExactMatch", "ConstPromotion"}, AllForMatching>>

\* Those among the operators that match in the first style in which any does.
RECURSIVE MatchAmong(_, _, _)
MatchAmong(ops, use, styles) ==
  IF styles = <<>> THEN {}
  ELSE OrElse(UNION {TryOrders(op, OperandOrders(op, use.ops), use.args, Head(styles), FALSE) : op \in ops},
              MatchAmong(ops, use, Tail(styles)))
StylesFor(use) ==
  IF use.kind # "Cast" THEN MatchStyles
  ELSE [k \in DOMAIN MatchStyles |-> MatchStyles[k] \cup {"DisallowTypeChanges"}]
\* All the operators of normal priority that match, otherwise one of the others:
\* the one that has been registered first.  The order of different headers is
\* that in which a build has found them.
ByPriority(normal, low) ==
  IF normal # {} THEN {normal}
  ELSE {{r} : r \in {r \in low : \A q \in low : q.op.ns = r.op.ns => q.op.rank >= r.op.rank}}
MatchOverloads(use) ==
  LET candidates(normal) == {op \in Registry[use.kind] : op.id = use.id /\ op.normal = normal}
  IN  ByPriority(MatchAmong(candidates(TRUE), use, StylesFor(use)), MatchAmong(candidates(FALSE), use, StylesFor(use)))
\* A cast that is a conversion is resolved without any of the declared operators.
ResolveCast(use) ==
  IF use.kind # "Cast" THEN {}
  ELSE {Instance(Operator("generic", "CastedCoercion", "Cast", <<>>, use.ops[2].type.args[1]), use.ops, <<>>, FALSE) :
          res \in CoerceExpression(use.ops[1], use.ops[2].type.args[1], AllForMatching \cup {"Contextual"})}
\* The outcomes that a use may have: sets of matches, of which there should be one.
Resolutions(use) ==
  OrElse({ResolveCast(use)} \ {{}}, {UNION {Fold(r) : r \in found} : found \in MatchOverloads(use)})
=============================================================================
