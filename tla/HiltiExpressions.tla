-------------------------- MODULE HiltiExpressions -------------------------
(***************************************************************************)
(* HILTI's types and expressions, as far as coercion and operators tell    *)
(* them apart (hilti/toolchain/include/ast/type.h, types/, ctors/,         *)
(* expressions/).                                                          *)
(***************************************************************************)
EXTENDS Integers, Sequences, FiniteSets

-----------------------------------------------------------------------------
(* Types *)

NoID == ""
\* Wildcards have no parameters, and no width.
Type(k, w, args) == [k |-> k, w |-> w, args |-> args, const |-> FALSE, id |-> NoID]
Plain(k) == Type(k, 0, <<>>)
Of(k, t) == Type(k, 0, <<t>>)
IntType(k, w) == Type(k, w, <<>>)
Const(t) == [t EXCEPT !.const = TRUE]
NonConst(t) == [t EXCEPT !.const = FALSE]

Integral == {"int", "uint"}
References == {"strong_ref", "weak_ref", "value_ref"}
Sequential == {"list", "vector", "set"}
\* Iterators over containers; those over bytes and streams have no parameter.
ContainerIterators == {"vector_iter", "list_iter", "set_iter", "map_iter"}
Iterators == ContainerIterators \cup {"bytes_iter", "stream_iter"}
Parameterized ==
  Integral \cup References \cup Sequential \cup ContainerIterators
  \cup {"optional", "result", "map", "tuple", "enum", "type", "struct", "union"}
Mutable(t) == t.k \in Sequential \cup Iterators \cup {"bytes", "stream", "map", "struct", "union"}
Wildcard(t) ==
  \/ t.k \in Integral /\ t.w = 0
  \/ t.k = "enum" /\ t.id = NoID
  \/ t.k \in Parameterized \ (Integral \cup {"enum"}) /\ t.args = <<>>
IsConst(t) == t.const \/ ~Mutable(t)
BothNamed(t, u) == t.id # NoID /\ u.id # NoID
RECURSIVE Eq(_, _)
Alike(t, u) ==
  IF BothNamed(t, u) THEN t.id = u.id
  ELSE /\ t.k = u.k /\ t.w = u.w /\ (t.k = "enum" => t.id = u.id) /\ Len(t.args) = Len(u.args)
       /\ \A i \in DOMAIN t.args : Eq(t.args[i], u.args[i])
\* Type::operator==: constness counts where a value can change.
Eq(t, u) == (Mutable(t) \/ Mutable(u) => IsConst(t) = IsConst(u)) /\ Alike(t, u)

-----------------------------------------------------------------------------
(* Expressions *)

Named(t, const) == [form |-> "name", type |-> t, const |-> const]
Ctor(t, val) == [form |-> "ctor", type |-> t, val |-> val]
Truth(b) == Ctor(Plain("bool"), IF b THEN 1 ELSE 0)
\* The value of an enum's undefined label.
Undef == -1
Collection(t, elems) == [form |-> "ctor", type |-> t, elems |-> elems]
\* expression::Ctor with a ctor::Coerced, and expression::Coerced.
Recoerced(c) == [form |-> "coercedCtor", type |-> c.type, ctor |-> c]
Coerced(e, t) == [form |-> "coerced", type |-> NonConst(t), sub |-> e]
\* expression::ResolvedOperator; swapped says that its operands are not in the
\* order they have been written in, implied that it has not been written at all.
Resolved(op, ops, args, t, swapped) ==
  [form |-> "op", type |-> t, op |-> op, ops |-> ops, args |-> args,
   swapped |-> swapped, implied |-> FALSE]
RECURSIVE IsConstant(_)
IsConstant(e) ==
  CASE e.form = "name" -> e.const
    [] e.form = "op" -> IsConst(e.type)
    [] e.form = "coerced" -> IsConstant(e.sub)
    [] OTHER -> ~Mutable(e.type)
=============================================================================
