----------------------------- MODULE MCToolchain ----------------------------
(***************************************************************************)
(* Instances of the toolchain's parts for TLC.  They do not interact but   *)
(* by handing over what they have made, so that a behaviour runs one of    *)
(* them; the others rest.                                                  *)
(***************************************************************************)
EXTENDS Jit, Optimizer, Compilation, Grammar, TLC
CONSTANTS r, w, l1, l2, i, A, B, C, a, b, c, Registry, Jobs

VARIABLES
  part, \* which one runs
  job, expr, overloads, passes, status
coercionVars == <<job, expr, overloads, passes, status>>
allVars == <<part, vars, grammarVars, optimizerVars, compilationVars, coercionVars>>

(********************************* Grammars ********************************)
MCTerminals == {a, b, c}
\* The literals a and c are written alike.
MCLiteral == a :> "x" @@ b :> "y" @@ c :> "x"
MCNonterminals == {r, w, l1, l2, i, A, B, C}
Production(rhss, lookAhead, order) ==
  [root |-> order[1], lookAhead |-> lookAhead, order |-> order,
   rhss |-> [n \in MCNonterminals |-> IF n \in DOMAIN rhss THEN rhss[n] ELSE <<>>]]
\* A list that ends where t begins, of items that begin with u and may be empty;
\* l1 and l2 are what While::preprocessLookAhead() makes of it.
Lists ==
  {Production(r :> <<<<w, t>>>> @@ w :> <<<<l1>>>> @@ l1 :> <<<<Epsilon>>, <<l2>>>>
                @@ l2 :> <<<<i, l1>>>> @@ i :> item, {l1}, <<r, w, l1, l2, i>>) :
     t \in {a, b, Epsilon}, item \in {<<<<a>>>>, <<<<c>>>>, <<<<Epsilon>>>>, <<<<Epsilon>>, <<b>>>>, <<<<b, w>>>>}}
\* A choice A that depends on what else there is, in two orders; C is not used.
Choices ==
  {Production(r :> <<top>> @@ A :> <<<<x>>, <<y>>>> @@ B :> other @@ C :> <<<<A, B>>>>, {A}, order) :
     top \in {<<A, B>>, <<A, b>>, <<B, A>>}, x \in {B, Epsilon, a}, y \in {B, Epsilon, c},
     other \in {<<<<a>>>>, <<<<Epsilon>>>>, <<<<b, A>>>>, <<<<Epsilon>>, <<b>>>>, <<<<A>>>>},
     order \in {<<r, A, B, C>>, <<r, B, C, A>>}}
MCGrammars == Lists \cup Choices

\* What can be derived from a symbol in d steps, as far as it is short.
Replaced(s, p, rhs) ==
  SubSeq(s, 1, p - 1) \o SelectSeq(rhs, LAMBDA x : x # Epsilon) \o SubSeq(s, p + 1, Len(s))
\* What begins a form is a terminal when there is one, and the rest is of no
\* interest then; for what follows, terminals in front are of none.
RECURSIVE Cut(_, _)
Cut(kind, s) ==
  IF s = <<>> \/ s[1] \notin MCTerminals THEN s
  ELSE IF kind = "first" THEN <<s[1]>> ELSE Cut(kind, Tail(s))
RECURSIVE Derived(_, _, _)
Derived(x, kind, d) ==
  IF d = 0 THEN {<<x>>}
  ELSE LET forms == Derived(x, kind, d - 1)
           next(s) == UNION {{Cut(kind, Replaced(s, p, Rhss(s[p])[k])) : k \in DOMAIN Rhss(s[p])} :
                               p \in {q \in DOMAIN s : s[q] \in MCNonterminals}}
       IN  forms \cup {f \in UNION {next(s) : s \in forms} : Len(f) <= 5}
Depth == 11
DerivedBeginnings(x) == Derived(x, "first", Depth)
DerivedNullable(x) == x = Epsilon \/ <<>> \in DerivedBeginnings(x)
DerivedFirst(x) == {s[1] : s \in DerivedBeginnings(x) \ {<<>>}} \cap MCTerminals
DerivedFollow(n) ==
  UNION {{s[p + 1] : p \in {q \in 1 .. Len(s) - 1 : s[q] = n}} :
           s \in Derived(grammar.root, "follow", Depth)} \cap MCTerminals
\* The tables say what the grammar's derivations say.
TablesExact ==
  GrammarOK /\
  (phase = "lookahead" =>
    /\ TablesClosed
    /\ \A n \in nterms :
         /\ nullable[n] <=> DerivedNullable(n)
         /\ first[n] = DerivedFirst(n) /\ follow[n] = DerivedFollow(n))

\* What may come next in the input when alternative k of n is to be taken.
Coming(n, k) ==
  LET x == Rhss(n)[k][1]
  IN  DerivedFirst(x) \cup IF DerivedNullable(x) THEN DerivedFollow(n) ELSE {}
\* A grammar is accepted if and only if the next literal always decides between
\* the alternatives of its look-aheads.
CheckDecides ==
  phase = "done" =>
    (verdict = "ok" <=>
       \A n \in grammar.lookAhead \cap nterms :
         /\ Coming(n, 1) \cup Coming(n, 2) # {}
         /\ {MCLiteral[t] : t \in Coming(n, 1)} \cap {MCLiteral[t] : t \in Coming(n, 2)} = {})
\* What is computed of a grammar, and what is decided from it, is what its
\* derivations say.
GrammarIsExact == TablesExact /\ VerdictRight /\ CheckDecides

(********************************* Programs ********************************)
Fun(owner, init, extern, hook, body, needs) ==
  [owner |-> owner, init |-> init, extern |-> extern, hook |-> hook, body |-> body,
   cxx |-> FALSE, needs |-> needs]
Use(in, guard, call, member, requires) ==
  [in |-> in, guard |-> guard, call |-> call, member |-> member, type |-> Absent, requires |-> requires]
Sinks == {<<"P", "supports_sinks">>}
Filters == {<<"T", "supports_filters">>}
Synced == {<<"P", "synchronization">>}
\* A public unit T with a sub-unit P; helper() connects a P to a sink.  The
\* collecting may come to the hook before it comes to the flag of its feature.
Uses ==
  {Use("T::parse1", {}, "P::stage1", Absent, {}), Use("T::parse1", {}, Absent, "T::sub", {}),
   Use("T::parse1", {Filters}, "helper", Absent, {}), Use("register", {}, "helper", Absent, {}),
   Use("helper", {}, Absent, Absent, Sinks), Use("P::parse1", {}, "P::stage1", Absent, {}),
   Use("P::stage1", {}, "P::%synced", Absent, {}), Use("P::stage1", {Sinks, Synced}, Absent, "P::__sink", {}),
   Use("P::%synced", {Sinks, Synced}, Absent, Absent, Filters)}
EmptyProgram ==
  [fn |-> <<>>, member |-> <<>>, types |-> {}, publicTypes |-> {}, flags |-> {}, sites |-> {},
   overlooked |-> {}]
MCPrograms ==
  {EmptyProgram} \cup
  {[fn |-> [f \in {"register", "helper", "T::parse1", "P::parse1", "P::stage1", "P::%synced"} |->
             CASE f = "register" -> Fun(Absent, TRUE, FALSE, FALSE, TRUE, {})
               [] f = "helper" -> Fun(Absent, FALSE, FALSE, FALSE, TRUE, {})
               [] f = "T::parse1" -> Fun("T", FALSE, TRUE, FALSE, TRUE, {})
               [] f = "P::parse1" -> Fun("P", FALSE, TRUE, FALSE, TRUE, Sinks)
               [] f = "P::stage1" -> Fun("P", FALSE, FALSE, FALSE, TRUE, {})
               [] OTHER -> Fun("P", FALSE, FALSE, TRUE, hook, Synced)],
    member |-> [m \in {"P::__sink", "T::sub"} |->
                 IF m = "T::sub" THEN [owner |-> "T", type |-> "P", needs |-> {}, always |-> FALSE]
                 ELSE [owner |-> "P", type |-> Absent, needs |-> Sinks, always |-> FALSE]],
    types |-> {"T", "P"}, publicTypes |-> {"T"}, flags |-> Sinks \cup Filters \cup Synced,
    overlooked |-> overlooked,
    sites |-> {s \in uses : s.in = "P::%synced" => hook}] : 
     hook \in BOOLEAN, uses \in SUBSET Uses, overlooked \in {{}, {"P::%synced"}}}

(********************************* Projects ********************************)
\* Inputs among a Spicy module that imports two others, a HILTI module, and the
\* HILTI library; more of either kind may be added by a hook.
Language ==
  [m \in {"main", "proto", "base", "late", "hltMain", "hltBase", "hltLate", "hilti"} |->
     IF m \in {"main", "proto", "base", "late"} THEN "spicy" ELSE "hlt"]
ImportsOf(proto, hltMain) ==
  [m \in DOMAIN Language |->
     CASE m = "main" -> {"proto", "hilti"} [] m = "proto" -> {"hilti"} \cup proto
       [] m = "hltMain" -> hltMain [] m = "hilti" -> {} [] m = "hltLate" -> {"hltBase"}
       [] m = "late" -> {"proto", "hilti"} [] OTHER -> {"hilti"}]
MCProjects ==
  {[language |-> Language, imports |-> ImportsOf(proto, hltMain), inputs |-> inputs, execute |-> execute,
    late |-> more, withCode |-> {"proto", "base", "hltBase"}] :
     proto \in SUBSET {"main", "base"}, hltMain \in {{"hilti"}, {"hilti", "hltBase"}},
     inputs \in (SUBSET {"main", "hltMain", "hilti"}) \ {{}}, execute \in BOOLEAN,
     more \in {ms \in SUBSET {"late", "hltLate", "proto", "hilti"} : Cardinality(ms) <= 2}}
\* A hook adds a module that another one imports already.
LateProjects ==
  {p \in MCProjects : p.inputs = {"main"} /\ p.late = {"hilti"} /\ p.imports["main"] = {"proto", "hilti"}
                       /\ p.imports["proto"] = {"hilti"} /\ p.imports["hltMain"] = {"hilti"}}
LatePrograms == {EmptyProgram}
LateGrammars == {CHOOSE g \in MCGrammars : TRUE}

(********************************** Builds *********************************)
\* A process with a file of the user, and two that have the same inputs.
MCProcs == {"p1", "p2", "p3"}
MCCodes == [p \in MCProcs |-> IF p = "p1" THEN {"code1"} ELSE {"code2"}]
MCFiles == [p \in MCProcs |-> IF p = "p1" THEN {"user1"} ELSE {}]
MCFileName == [f \in {"user1"} |-> f]
MCDirectory == [p \in MCProcs |-> "dir"]
ASSUME InputsOK == InputsAssumption

(******************************** Coercions ********************************)
D == INSTANCE ContainerOperators WITH MaxWidth <- 4, Mantissa <- 2
MCRegistry == D!ByKind
E == INSTANCE MCOperators WITH MaxWidth <- 4, Mantissa <- 2
MCJobs == E!MCJobs
X == INSTANCE Coercion WITH
  MaxWidth <- 4, Mantissa <- 2

(***************************** The composition *****************************)
SomeProject == CHOOSE p \in MCProjects : TRUE
OptimizerRests == program = EmptyProgram /\ Unoptimized
CompilationRests == project = SomeProject /\ Uncompiled
GrammarRests == GrammarInit /\ grammar = CHOOSE g \in MCGrammars : TRUE
CoercionRests == job = None /\ expr = None /\ overloads = None /\ passes = None /\ status = None
InitPart ==
  /\ Init
  /\ \/ part = "jit" /\ GrammarRests /\ OptimizerRests /\ CompilationRests /\ CoercionRests
     \/ part = "grammar" /\ GrammarInit /\ OptimizerRests /\ CompilationRests /\ CoercionRests
     \/ part = "optimizer" /\ GrammarRests /\ OptimizerInit /\ CompilationRests /\ CoercionRests
     \/ part = "compilation" /\ GrammarRests /\ CompilationInit /\ OptimizerRests /\ CoercionRests
     \/ part = "coercion" /\ GrammarRests /\ X!Init /\ OptimizerRests /\ CompilationRests
JitStep == Next /\ UNCHANGED <<part, grammarVars, optimizerVars, compilationVars, coercionVars>>
GrammarStep == GrammarNext /\ UNCHANGED <<part, vars, optimizerVars, compilationVars, coercionVars>>
OptimizerStep == OptimizerNext /\ UNCHANGED <<part, vars, grammarVars, compilationVars, coercionVars>>
CompilationStep == CompilationNext /\ UNCHANGED <<part, vars, grammarVars, optimizerVars, coercionVars>>
CoercerStep == X!Coerce /\ UNCHANGED <<part, vars, grammarVars, optimizerVars, compilationVars>>
ResolverStep == X!ResolveOperator /\ UNCHANGED <<part, vars, grammarVars, optimizerVars, compilationVars>>
NextPart ==
  \/ part = "jit" /\ JitStep
  \/ part = "grammar" /\ GrammarStep
  \/ part = "optimizer" /\ OptimizerStep
  \/ part = "compilation" /\ CompilationStep
  \/ part = "coercion" /\ (CoercerStep \/ ResolverStep)
\* The fairness of each part.  The resolver has a single step, and needs none.
SpecPart ==
  /\ InitPart /\ [][NextPart]_allVars
  /\ WF_allVars(part \in {"grammar", "optimizer", "compilation"} /\ NextPart)
  /\ WF_allVars(part = "coercion" /\ CoercerStep)
  /\ \A p \in Procs :
       /\ WF_vars(part = "jit" /\ ToolStep(p))
       /\ WF_vars(part = "jit" /\ JobStep(p))

(******************************** Properties *******************************)
\* Coercions settle, keep values, and have code; operators are resolved uniquely,
\* and mean the same in C++.
CoercionIsSound == part = "coercion" => X!CoercionIsSound
\* Each of them comes to an end.
ToolchainEnds ==
  <>(/\ part = "grammar" => phase = "done"
     /\ part = "optimizer" => pass = "done"
     /\ part = "compilation" => stage \in {"compiled", "failed"} \/ (replaced # {} /\ stage = "crashed")
     /\ part = "jit" => \A p \in Procs : proc[p].pc = "done"
     /\ part = "coercion" => status # "open" \/ X!IsOperator)
=============================================================================
