------------------------------ MODULE Coercion ------------------------------
(***************************************************************************)
(* Where the HILTI compiler coerces expressions (visitors/coercer.cc) and  *)
(* resolves operators (visitors/resolver.cc), and what is left for the     *)
(* code generator.                                                         *)
(***************************************************************************)
EXTENDS OperatorCode

CONSTANT
  Jobs     \* what is to be resolved or coerced: a site, and its expression and
           \* type, or the use of an operator

VARIABLES
  job,      \* the site
  expr,     \* its expression as of now
  overloads,\* for an operator, what it may be resolved to: one set for each build
  passes,   \* how often the coercer or the resolver has changed the expression
  status    \* "open", "settled" or "error"
coercionVars == <<job, expr, overloads, passes, status>>

-----------------------------------------------------------------------------
(* The coercer's sites *)

\* What the coercer does at each kind of site.
CoerceAt(e, site, to) ==
  CASE site = "assignment" -> IF Eq(e.type, to) THEN {Kept(e)} ELSE CoerceExpression(e, to, AllForAssignment)
    [] site = "condition" ->
         IF Eq(e.type, to) THEN {Kept(e)} ELSE CoerceExpression(e, to, AllForMatching \cup {"Contextual"})
    [] site = "element" -> CoerceExpression(e, Const(to), AllForAssignment)
    [] site = "argument" -> CoerceExpression(e, to, AllForFunctionCall)

IsOperator == job.site = "operator"
Init ==
  /\ job \in Jobs /\ expr = IF IsOperator THEN Ctor(Plain("null"), 0) ELSE job.expr
  /\ overloads = {} /\ passes = 0 /\ status = "open"
\* A pass of the coercer over the site.  The compiler repeats it until nothing
\* changes any more.
Coerce ==
  /\ status = "open" /\ ~IsOperator
  /\ LET res == CoerceAt(expr, job.site, job.to)
     IN  IF res = {} THEN status' = "error" /\ UNCHANGED <<expr, passes>>
         ELSE IF TheOne(res).changed
              THEN expr' = TheOne(res).expr /\ passes' = passes + 1 /\ UNCHANGED status
              ELSE status' = "settled" /\ UNCHANGED <<expr, passes>>
  /\ UNCHANGED <<job, overloads>>
\* The resolver replaces the use of an operator by the one that matches; no or
\* several matches are errors.  Which builds have which outcome is left open.
ResolveOperator ==
  /\ status = "open" /\ IsOperator
  /\ overloads' = OrElse(Resolutions(job.use), {{}})
  /\ \E found \in overloads' :
       IF Cardinality(found) # 1 THEN status' = "error" /\ UNCHANGED <<expr, passes>>
       ELSE status' = "settled" /\ expr' = TheOne(found) /\ passes' = passes + 1
  /\ UNCHANGED job
Next == Coerce \/ ResolveOperator

-----------------------------------------------------------------------------
(* Properties *)

\* The value of an expression, if it is constant; integers in halves, like reals.
RECURSIVE Value(_)
Value(e) ==
  CASE e.form = "name" -> <<>>
    [] e.form = "coerced" -> Value(e.sub)
    [] e.form = "op" -> <<>>
    [] e.form = "coercedCtor" -> Value(e.ctor)
    [] "elems" \in DOMAIN e -> [i \in DOMAIN e.elems |-> Value(e.elems[i])]
    [] OTHER -> <<IF e.type.k \in Integral THEN 2 * e.val ELSE e.val>>
Fits(e) ==
  e.type.k \in Integral /\ Value(e) # <<>> => Value(e)[1] \in {2 * i : i \in RangeOf(e.type)}
\* The conversions that code is generated for.
RECURSIVE ConversionsIn(_)
ConversionsIn(e) ==
  CASE e.form = "name" -> {}
    [] e.form = "op" /\ e.op.cls = "CastedCoercion" -> {<<e.ops[1].type, e.type>>} \cup ConversionsIn(e.ops[1])
    [] e.form = "op" -> UNION {ConversionsIn(e.ops[n]) : n \in DOMAIN e.ops}
                        \cup UNION {ConversionsIn(e.args[n]) : n \in DOMAIN e.args}
    [] e.form = "coerced" -> {<<e.sub.type, e.type>>} \cup ConversionsIn(e.sub)
    [] e.form = "coercedCtor" -> ConversionsIn(e.ctor)
    [] "elems" \in DOMAIN e -> UNION {ConversionsIn(e.elems[n]) : n \in DOMAIN e.elems}
    [] OTHER -> {}
\* Known gaps: types made by the same constructor match by their parameters, and
\* so do a value_ref and one that is built around it once more.
ByParameters(src, dst) ==
  src.k = dst.k /\ src.k \in Parameterized \ (Integral \cup {"enum"})
Rebuilt(src, dst) == dst.k = "value_ref" /\ src = Of("value_ref", dst)

\* The compiler's rounds settle each site: what one pass has accepted no later
\* one refuses, and at most two change it.
Settles == passes <= 2 /\ (status = "error" => passes = 0)
\* What is accepted is of the type that is asked for.
Arrives ==
  status = "settled" /\ ~IsOperator =>
    Alike(expr.type, job.to) \/ ByParameters(expr.type, job.to) \/ Rebuilt(expr.type, job.to)
\* Known gap: a literal that is cast to a type it can be coerced to stays a literal
\* of its own type.
CastLiteral == IsOperator /\ job.use.kind = "Cast" /\ IsLiteral(job.use.ops[1])
\* Whatever the coercer and the resolver accept, the code generator can convert.
CodeExists ==
  status = "settled" /\ ~CastLiteral =>
    \A p \in ConversionsIn(expr) : HasCode(p[1], p[2]) \/ ByParameters(p[1], p[2])
\* Constants keep their values, and fit; integers are never narrowed but by a cast.
ValuesKept ==
  status = "settled" =>
    /\ ~IsOperator =>
         /\ job.to.k # "bool" => Value(expr) = Value(job.expr)
         /\ Fits(expr)
    /\ \A p \in ConversionsIn(expr) :
         {p[1].k, p[2].k} \subseteq Integral /\ (IsOperator => job.use.kind # "Cast") =>
           RangeOf(p[1]) \subseteq RangeOf(p[2])

\* Known gaps: a literal that is an operand with another one, or that is assigned
\* to, may be taken for signed or unsigned; and the first of the operators for two
\* kinds of references decides whether they or what they refer to is compared.
LiteralsOnly ==
  LET es == job.use.ops \o job.use.args
  IN  \/ \A n \in DOMAIN es : IsLiteral(es[n])
      \/ job.use.kind \in Assigns /\ IsLiteral(es[1])
MixedReferences ==
  /\ job.use.kind \in Equalities
  /\ {job.use.ops[n].type.k : n \in 1..2} = {"strong_ref", "value_ref"}
\* An operator never means one thing in one build of the compiler and another in
\* the next, and never several things.
ResolvesUniquely ==
  IsOperator /\ status # "open" =>
    /\ \A found \in overloads : Cardinality(found) <= 1
    /\ Cardinality(overloads) > 1 => LiteralsOnly \/ MixedReferences
Chosen(resolutions) == {{r.op : r \in {r \in found : r.form = "op"}} : found \in OrElse(resolutions, {{}})}
\* The order of the operands does not matter to a commutative operator.
CommutesWhereItShould ==
  IsOperator /\ status # "open" /\ job.use.kind \in Commutative =>
    Chosen(overloads) = Chosen(Resolutions([job.use EXCEPT !.ops = <<@[2], @[1]>>]))
\* What an operator may change is not a constant.
Changing == Assigns \cup {"IncrPrefix", "IncrPostfix", "DecrPrefix", "DecrPostfix", "Add", "Delete", "IndexAssign", "Unset"}
ConstantsStay ==
  IsOperator /\ status = "settled" /\ expr.form = "op" =>
    (expr.op.kind \in Changing /\ Mutable(expr.ops[1].type) => ~IsConstant(expr.ops[1]))
\* Known gaps: bools' bit operators, and whatever a member is accessed of, get no
\* parentheses of their own.
Unprotected(e) ==
  /\ e.form = "op"
  /\ \/ CodeFor(e.op) = OnReceiver
     \/ e.op.kind \in Equalities /\ \E n \in DOMAIN e.ops : e.ops[n].form = "op" /\ e.ops[n].op.ns = "bool"
\* The C++ compiler reads an operator's code as it has been put together.
CodeMeansTheSame == status = "settled" => Unprotected(expr) \/ ReadsAsWritten(expr)

\* What the compiler coerces settles, arrives at its type with its value, and has
\* code; what an operator stands for does not depend on the compiler's build or
\* on the order of operands, and its code means the same to C++.
CoercionIsSound ==
  /\ Settles /\ Arrives /\ CodeExists /\ ValuesKept
  /\ ResolvesUniquely /\ CommutesWhereItShould /\ ConstantsStay /\ CodeMeansTheSame
=============================================================================
