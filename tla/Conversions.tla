----------------------------- MODULE Conversions ----------------------------
(***************************************************************************)
(* What converts into what in the HILTI compiler                           *)
(* (hilti/toolchain/src/compiler/coercion.cc), and for which conversions   *)
(* there is code (codegen/coercions.cc).                                   *)
(*                                                                         *)
(* A conversion that may fail is a set with one result or none.  Integers  *)
(* have up to MaxWidth bits, which stands for 64, and reals hold integers  *)
(* of up to Mantissa bits exactly; the value of a real is in halves.       *)
(***************************************************************************)
EXTENDS HiltiExpressions

CONSTANTS MaxWidth, Mantissa

-----------------------------------------------------------------------------
(* What a coercion returns *)

Kept(e) == [expr |-> e, changed |-> FALSE, retyped |-> FALSE]
Replaced(src, e) == [expr |-> e, changed |-> TRUE, retyped |-> src.k # e.type.k]
TheOne(results) == CHOOSE x \in results : TRUE
OrElse(some, others) == IF some # {} THEN some ELSE others

-----------------------------------------------------------------------------
(* Styles *)

AllForAssignment == {"Assignment", "ExactMatch", "ConstPromotion", "Coercion"}
AllForMatching == {"OperandMatching", "ExactMatch", "ConstPromotion", "Coercion"}
AllForFunctionCall == {"FunctionCall", "ExactMatch", "ConstPromotion", "Coercion"}
Copies(style) == style \cap {"Assignment", "FunctionCall"} # {}

-----------------------------------------------------------------------------
(* Types into types *)

RECURSIVE CoerceType(_, _, _)
CoerceParameterized(src, dst, style) ==
  IF Eq(src, dst) THEN {dst}
  ELSE IF src.k # dst.k THEN {}
  ELSE IF Wildcard(dst) THEN {src}
  ELSE IF \/ src.k \in Integral \cup {"enum"} \/ Len(src.args) # Len(dst.args)
          \/ \E i \in DOMAIN src.args : CoerceType(src.args[i], dst.args[i], style) = {}
       THEN {}
  ELSE IF \E i \in DOMAIN dst.args : Wildcard(dst.args[i]) THEN {src} ELSE {dst}

ToBool(src, style) ==
  /\ "Contextual" \in style
  /\ \/ src.k \in Integral \cup {"enum", "interval", "time", "optional", "result", "strong_ref", "weak_ref"}
     \/ src.k = "value_ref" /\ CoerceType(src.args[1], Plain("bool"), style) # {}
\* The first parameter of a type; a wildcard has none.
Parameter(t) == IF t.args = <<>> THEN Plain("unknown") ELSE t.args[1]
FromReference(src, dst, style) ==
  /\ src.k \in References
  /\ \/ dst.k \in References /\ Alike(src.args[1], Parameter(dst))
     \/ (src.k = "value_ref" \/ "Assignment" \notin style) /\ Eq(src.args[1], dst)
\* Mutant: an unsigned integer fits into a signed one of its width.
Widens_SameWidth(src, dst) == src.k \in Integral /\ dst.k \in Integral /\ src.w <= dst.w
\* Mutant: integers also become reals.
Widens_Reals(src, dst) ==
  src.k \in Integral /\ (dst.k = "real" \/ (dst.k = src.k /\ src.w <= dst.w))
Widens(src, dst) ==
  \/ src.k = dst.k /\ src.k \in Integral /\ src.w <= dst.w
  \/ src.k = "uint" /\ dst.k = "int" /\ src.w < dst.w
\* VisitorType.
Converts(src, dst, style) ==
  \/ dst.k = "bool" /\ ToBool(src, style)
  \/ src.k = "null" /\ dst.k \in {"optional", "strong_ref", "weak_ref"}
  \/ src.k = "error" /\ dst.k = "result"
  \/ src.k = "bytes" /\ dst.k = "stream" /\ Copies(style)
  \/ src.k = "stream" /\ dst.k = "view"
  \/ src.k = "view" /\ dst.k = "bytes" /\ Copies(style)
  \/ src.k = "list" /\ dst.k \in {"set", "vector"} /\ ~Wildcard(dst) /\ Eq(src.args[1], dst.args[1])
  \/ src.k = "optional" /\ dst.k = "optional" /\ "Assignment" \in style /\ Alike(src.args[1], Parameter(dst))
  \/ src.k = "result" /\ dst.k = "optional" /\ Eq(src.args[1], Parameter(dst))
  \/ FromReference(src, dst, style)
  \/ Widens(src, dst)
  \/ /\ src.k = "tuple" /\ dst.k = "tuple" /\ Len(src.args) = Len(dst.args)
     /\ \A i \in DOMAIN src.args : CoerceType(src.args[i], dst.args[i], AllForAssignment) # {}

\* A value becomes an optional, a result, or a value_ref of its own; the latter
\* is built around the destination once more.
WrapType(src, dst, style) ==
  CASE ~Copies(style) -> {}
    [] dst.k \in {"optional", "result"} ->
         IF Wildcard(dst) THEN {dst}
         ELSE {Of(dst.k, t) : t \in CoerceType(src, dst.args[1], style)}
    [] dst.k = "value_ref" /\ src.k \notin References ->
         {Of(dst.k, dst) : t \in CoerceType(src, dst.args[1], style)}
    [] OTHER -> {}

CoerceType(src, dst, style) ==
  IF BothNamed(src, dst) THEN IF src.id = dst.id THEN {dst} ELSE {}
  ELSE IF Eq(src, dst) THEN {src}
  ELSE OrElse(WrapType(src, dst, style),
         OrElse(IF {src.k, dst.k} \subseteq Parameterized THEN CoerceParameterized(src, dst, style) ELSE {},
           IF Converts(NonConst(src), NonConst(dst), style) THEN {NonConst(dst)} ELSE {}))

-----------------------------------------------------------------------------
(* Constants into constants *)

SignedRange(w) == -(2^(w - 1)) .. 2^(w - 1) - 1
UnsignedRange(w) == 0 .. 2^w - 1
RangeOf(t) == IF t.k = "int" THEN SignedRange(t.w) ELSE UnsignedRange(t.w)
\* static_cast<int64_t>(uint64_t).
AsSigned(u) == IF u \in SignedRange(MaxWidth) THEN u ELSE u - 2^MaxWidth
\* Does an integer survive the way to a double and back?
Exact(i) == i \in -(2^Mantissa) .. 2^Mantissa \/ (i % 2) = 0

\* The constant as one of an integer type.  One that is to match any width
\* keeps its own.
FitInt(k, i, w, t) ==
  IF Wildcard(t) THEN {Ctor(IntType(k, w), i)}
  ELSE IF i \in RangeOf(IntType(k, t.w)) THEN {Ctor(IntType(k, t.w), i)} ELSE {}

FromInteger(c, t, style) ==
  CASE t.k = c.type.k -> IF t.w = MaxWidth THEN {c} ELSE FitInt(t.k, c.val, c.type.w, t)
    [] t.k = "uint" /\ c.val >= 0 -> FitInt("uint", c.val, c.type.w, t)
    [] t.k = "int" /\ AsSigned(c.val) >= 0 -> FitInt("int", c.val, c.type.w, t)
    [] t.k = "real" /\ Exact(c.val) -> {Ctor(t, 2 * c.val)}
    [] t.k = "bool" /\ "Contextual" \in style -> {Truth(c.val # 0)}
    [] OTHER -> {}
FromReal(c, t) ==
  IF t.k \in Integral /\ (c.val % 2) = 0
  THEN FitInt(t.k, c.val \div 2, MaxWidth, IF Wildcard(t) THEN IntType(t.k, MaxWidth) ELSE t) ELSE {}

RECURSIVE CoerceExpression(_, _, _)
CoerceElements(elems, types, style) ==
  LET res == [i \in DOMAIN elems |-> CoerceExpression(elems[i], types[i], style)]
  IN  IF \E i \in DOMAIN elems : res[i] = {} THEN {} ELSE {[i \in DOMAIN elems |-> TheOne(res[i]).expr]}
TypesOf(elems) == [i \in DOMAIN elems |-> elems[i].type]
FromCollection(c, t, style) ==
  LET elem == IF Wildcard(t) /\ c.type.k = "list" THEN c.type.args[1] ELSE t.args[1]
      made(k, ts, s, type(_)) == {Collection(type(es), es) : es \in CoerceElements(c.elems, ts, s)}
      all(u) == [i \in DOMAIN c.elems |-> u]
  IN  CASE c.type.k = "list" /\ t.k \in Sequential ->
             made(t.k, all(elem), AllForAssignment, LAMBDA es : Of(t.k, elem))
        [] c.type.k = t.k /\ t.k \in {"set", "vector"} /\ ~Wildcard(t) ->
             made(t.k, all(elem), style, LAMBDA es : Of(t.k, elem))
        [] c.type.k = "map" /\ t.k = "map" ->    \* keys and values alternate
             made(t.k, [i \in DOMAIN c.elems |-> t.args[2 - (i % 2)]], style, LAMBDA es : t)
        [] c.type.k = "tuple" /\ t.k = "tuple" /\ Len(t.args) = Len(c.elems) ->
             made(t.k, t.args, AllForAssignment, LAMBDA es : Type("tuple", 0, TypesOf(es)))
        [] OTHER -> {}

\* VisitorCtor, behind the comparison of types.
CoerceCtor(c, dst, style) ==
  IF Eq(c.type, dst) THEN {c}
  ELSE CASE c.type.k \in Integral -> FromInteger(c, dst, style)
         [] c.type.k = "real" -> FromReal(c, dst)
         [] c.type.k = "enum" ->
              IF dst.k = "bool" /\ "Contextual" \in style THEN {Truth(c.val # Undef)} ELSE {}
         [] c.type.k = "null" ->
              IF dst.k \in {"optional", "strong_ref", "weak_ref"} THEN {Ctor(dst, 0)} ELSE {}
         [] c.type.k \in Sequential \cup {"map", "tuple"} -> FromCollection(c, dst, style)
         [] OTHER -> {}

-----------------------------------------------------------------------------
(* Expressions *)

Matches(e, dst) ==
  \/ Eq(e.type, dst) /\ IsConstant(e) = IsConst(dst)
  \/ /\ IsConstant(e) = IsConst(dst) /\ {e.type.k, dst.k} \subseteq Parameterized
     /\ CoerceParameterized(e.type, dst, {"ExactMatch"}) # {}
ExactMatch(e, dst, style) ==
  /\ "ExactMatch" \in style
  /\ Matches(e, dst) \/ (Eq(e.type, dst) /\ "OperandMatching" \in style /\ ~Mutable(dst))
\* A constant must not be changed through an operand.
ConstIntoMutable(e, dst) == IsConstant(e) /\ ~IsConst(dst) /\ Mutable(dst)
Refused(e, dst, style) ==
  IF "ConstPromotion" \in style
  THEN style \cap {"OperandMatching", "FunctionCall"} # {} /\ ConstIntoMutable(e, dst)
  ELSE \/ Copies(style) /\ IsConst(dst)
       \/ "OperandMatching" \in style /\ ConstIntoMutable(e, dst)
Promoted(e, dst, style) ==
  /\ "ConstPromotion" \in style
  /\ Alike(e.type, dst) \/ (Wildcard(dst) /\ e.type.k = dst.k)

Wrap(e, dst, style) ==
  IF ~Copies(style) \/ dst.k \notin {"optional", "result", "value_ref"} THEN {}
  ELSE IF dst.k = "value_ref" /\ e.type.k \in References THEN {}
  ELSE IF Wildcard(dst) THEN {Kept(e)}
  ELSE {Replaced(e.type, Coerced(res.expr, dst)) : res \in CoerceExpression(e, dst.args[1], style)}

Convert(e, dst, style) ==
  IF "Coercion" \notin style THEN {}
  ELSE OrElse(
         IF e.form = "ctor" THEN {Replaced(e.type, Recoerced(c)) : c \in CoerceCtor(e, dst, style)} ELSE {},
         {Replaced(e.type, Coerced(e, t)) : t \in CoerceType(e.type, dst, style)})

CoerceExpression(e, dst, style) ==
  IF BothNamed(e.type, dst) THEN IF e.type.id = dst.id THEN {Kept(e)} ELSE {}
  ELSE IF ExactMatch(e, dst, style) THEN {Kept(e)}
  ELSE IF Refused(e, dst, style) THEN {}
  ELSE IF Promoted(e, dst, style) \/ dst.k = "any" THEN {Kept(e)}
  ELSE OrElse(Wrap(e, dst, style), Convert(e, dst, style))

-----------------------------------------------------------------------------
(* Code *)

RECURSIVE HasCode(_, _)
\* CodeGen::coerce(): there is C++ for the conversion.
HasCode(src, dst) ==
  LET to(ks) == dst.k \in ks
  IN  \/ Alike(src, dst)
      \/ dst.k = "optional" /\ src.k # "optional"
      \/ dst.k = "result"
      \/ dst.k = "value_ref" /\ src.k \notin References
      \/ CASE src.k = "bytes" -> to({"stream"})
           [] src.k \in {"enum", "interval", "time"} -> to({"bool"})
           [] src.k = "list" -> to({"set", "vector"})
           [] src.k = "optional" -> to({"optional", "bool"})
           [] src.k = "result" -> to({"bool", "optional"})
           [] src.k \in Integral -> to({"bool"} \cup Integral)
           [] src.k = "stream" -> to({"view"})
           [] src.k = "view" -> to({"bytes"})
           [] src.k = "tuple" ->
                /\ to({"tuple"})
                /\ \A i \in DOMAIN src.args : HasCode(src.args[i], dst.args[i])
           [] src.k = "strong_ref" -> to({"bool", "value_ref", "weak_ref"}) \/ Eq(src.args[1], dst)
           [] src.k = "weak_ref" -> to({"bool", "strong_ref", "value_ref"}) \/ Eq(src.args[1], dst)
           [] src.k = "value_ref" ->
                \/ to({"bool"}) /\ HasCode(src.args[1], dst)
                \/ to({"strong_ref", "weak_ref"}) \/ Eq(src.args[1], dst)
           [] OTHER -> FALSE

=============================================================================
