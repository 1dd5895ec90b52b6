------------------------------- MODULE Grammar ------------------------------
(***************************************************************************)
(* Finalizing the grammar of a unit type                                   *)
(* (spicy/toolchain/src/compiler/codegen/grammar.cc): unused productions   *)
(* are dropped, the sets NULLABLE, FIRST and FOLLOW are computed by passes *)
(* over the productions until nothing changes, and from them the look-ahead*)
(* symbols by which the generated parser decides between the alternatives  *)
(* of a LookAhead production.                                              *)
(*                                                                         *)
(* A production's rhss() are sequences of sequences of symbols.  Counter,  *)
(* ForEach, Enclosure and the like have one of a single symbol, their body;*)
(* a While over look-ahead has the List1 of preprocessLookAhead().         *)
(***************************************************************************)
EXTENDS Integers, Sequences, FiniteSets

CONSTANTS
  Epsilon,    \* the empty production
  Terminals,  \* literals, variables, Skip
  Literal,    \* what a terminal renders as: the same for equal literals
  Nonterminals,
  Grammars    \* the grammars to finalize

Symbols == Terminals \cup Nonterminals \cup {Epsilon}
\* Right-hand sides are made of symbols, and a LookAhead has two alternatives of a
\* symbol each.  The root and all that is mentioned has been added (_addProduction()).
ASSUME GrammarsAssumption ==
  /\ Epsilon \notin Terminals \cup Nonterminals /\ Terminals \cap Nonterminals = {}
  /\ \A g \in Grammars :
       LET added == {g.order[p] : p \in DOMAIN g.order}
       IN  /\ added \subseteq Nonterminals /\ g.root \in added
           /\ \A n \in Nonterminals : g.rhss[n] \in Seq(Seq(Symbols))
           /\ \A n \in added : \A k \in DOMAIN g.rhss[n] : \A i \in DOMAIN g.rhss[n][k] :
                g.rhss[n][k][i] \in Nonterminals => g.rhss[n][k][i] \in added
           /\ \A n \in g.lookAhead :
                n \in Nonterminals /\ Len(g.rhss[n]) = 2 /\ \A k \in 1 .. 2 : Len(g.rhss[n][k]) = 1

VARIABLES
  grammar,  \* the root, the right-hand sides, the LookAheads, and an order of
            \* the nonterminals (_root, _prods, _nterms)
  nterms,   \* the nonterminals still in it
  nullable, first, follow,
  unvisited, \* the places that this pass has still to look at
  changed,  \* whether this pass has changed a set
  phase,    \* "simplify", "tables", "lookahead", "check" or "done"
  lahs,     \* the look-ahead symbols of each LookAhead's two alternatives
  verdict   \* "none" yet, "ok", "missing" or "ambiguous"
tables == <<nullable, first, follow>>
grammarVars == <<grammar, nterms, tables, unvisited, changed, phase, lahs, verdict>>

Rhss(n) == grammar.rhss[n]
Position(n) == CHOOSE p \in DOMAIN grammar.order : grammar.order[p] = n

\* The nonterminals that n mentions.
Mentions(n) ==
  {x \in Nonterminals : \E k \in DOMAIN Rhss(n) : \E i \in DOMAIN Rhss(n)[k] : x = Rhss(n)[k][i]}
\* _computeClosure(): what the root reaches, the least set that goes on like that.
Closure ==
  {n \in Nonterminals : \A S \in SUBSET Nonterminals :
     grammar.root \in S /\ (\A m \in S : Mentions(m) \subseteq S) => n \in S}

\* Faulty: the empty production counts as something that may begin.
GetFirst_Epsilon(F, x) == IF x \in Nonterminals THEN F[x] ELSE {x}
\* _isNullable() and _getFirst(), of a symbol and of the symbols i to j - 1.
NullableSymbol(N, x) == x = Epsilon \/ (x \in Nonterminals /\ N[x])
NullableRange(N, s, i, j) == \A p \in i .. j - 1 : NullableSymbol(N, s[p])
GetFirst(F, x) == CASE x = Epsilon -> {} [] x \in Nonterminals -> F[x] [] OTHER -> {x}

\* The places that a pass looks at, in its order: the k-th right-hand side of n
\* as a whole (i = 0), and then each of its symbols.
Sites ==
  UNION {UNION {{<<n, k, i>> : i \in {0} \cup DOMAIN Rhss(n)[k]} : k \in DOMAIN Rhss(n)} : n \in nterms}
Earlier(s, t) ==
  \/ Position(s[1]) < Position(t[1])
  \/ s[1] = t[1] /\ (s[2] < t[2] \/ (s[2] = t[2] /\ s[3] < t[3]))

\* What is nullable on account of the right-hand side at site s; what its symbol
\* adds to FIRST of its nonterminal; and what follows it to its own FOLLOW.
NewNullable(N, s) ==
  LET rhs == Rhss(s[1])[s[2]] IN NullableRange(N, rhs, 1, Len(rhs) + 1)
NewFirst(N, F, s) ==
  LET rhs == Rhss(s[1])[s[2]]
  IN  IF NullableRange(N, rhs, 1, s[3]) THEN GetFirst(F, rhs[s[3]]) ELSE {}
NewFollow(N, F, W, s) ==
  LET rhs == Rhss(s[1])[s[2]]
      next == {j \in s[3] + 1 .. Len(rhs) : NullableRange(N, rhs, s[3] + 1, j)}
  IN  (IF NullableRange(N, rhs, s[3] + 1, Len(rhs) + 1) THEN W[s[1]] ELSE {})
        \cup UNION {GetFirst(F, rhs[j]) : j \in next}

\* lookAheadsForProduction()
LookAheads(x, parent) ==
  GetFirst(first, x) \cup IF NullableSymbol(nullable, x) THEN follow[parent] ELSE {}

GrammarInit ==
  /\ grammar \in Grammars
  /\ nterms = {grammar.order[p] : p \in DOMAIN grammar.order}
  /\ nullable = [n \in Nonterminals |-> FALSE]
  /\ first = [n \in Nonterminals |-> {}] /\ follow = [n \in Nonterminals |-> {}]
  /\ unvisited = {} /\ changed = FALSE /\ phase = "simplify"
  /\ lahs = <<>> /\ verdict = "none"

\* Drop what the root does not reach, and begin the first pass.
Simplify ==
  /\ phase = "simplify"
  /\ nterms' = nterms \cap Closure
  /\ UNCHANGED <<grammar, tables, changed, lahs, verdict>>
  /\ phase' = "tables" /\ unvisited' = Sites'

\* Faulty: only the last change of a pass counts.
Visit_ForgetsChange ==
  /\ phase = "tables" /\ unvisited # {}
  /\ \E s \in {t \in unvisited : \A u \in unvisited : ~Earlier(u, t)} :
       /\ IF s[3] = 0
            THEN /\ nullable' = [nullable EXCEPT ![s[1]] = @ \/ NewNullable(nullable, s)]
                 /\ UNCHANGED <<first, follow>>
            ELSE LET x == Rhss(s[1])[s[2]][s[3]]
                 IN  /\ first' = [first EXCEPT ![s[1]] = @ \cup NewFirst(nullable, first, s)]
                     /\ follow' = IF x \in Nonterminals
                                    THEN [follow EXCEPT ![x] = @ \cup NewFollow(nullable, first', follow, s)]
                                    ELSE follow
                     /\ UNCHANGED nullable
       /\ unvisited' = unvisited \ {s}
  /\ changed' = (tables' # tables)
  /\ UNCHANGED <<grammar, nterms, phase, lahs, verdict>>
\* _add(), and the same for NULLABLE.
Visit ==
  /\ phase = "tables" /\ unvisited # {}
  /\ \E s \in {t \in unvisited : \A u \in unvisited : ~Earlier(u, t)} :
       /\ IF s[3] = 0
            THEN /\ nullable' = [nullable EXCEPT ![s[1]] = @ \/ NewNullable(nullable, s)]
                 /\ UNCHANGED <<first, follow>>
            ELSE LET x == Rhss(s[1])[s[2]][s[3]]
                 IN  /\ first' = [first EXCEPT ![s[1]] = @ \cup NewFirst(nullable, first, s)]
                     /\ follow' = IF x \in Nonterminals
                                    THEN [follow EXCEPT ![x] = @ \cup NewFollow(nullable, first', follow, s)]
                                    ELSE follow
                     /\ UNCHANGED nullable
       /\ unvisited' = unvisited \ {s}
  /\ changed' = (changed \/ tables' # tables)
  /\ UNCHANGED <<grammar, nterms, phase, lahs, verdict>>

\* Another pass, unless this one has changed nothing.
EndPass ==
  /\ phase = "tables" /\ unvisited = {}
  /\ IF changed THEN unvisited' = Sites /\ changed' = FALSE /\ UNCHANGED phase
     ELSE phase' = "lookahead" /\ UNCHANGED <<unvisited, changed>>
  /\ UNCHANGED <<grammar, nterms, tables, lahs, verdict>>

BuildLookAheads ==
  /\ phase = "lookahead" /\ phase' = "check"
  /\ lahs' = [n \in grammar.lookAhead \cap nterms |-> [a \in 1 .. 2 |-> LookAheads(Rhss(n)[a][1], n)]]
  /\ UNCHANGED <<grammar, nterms, tables, unvisited, changed, verdict>>

\* Faulty: compares the symbols themselves.
Rendered_Symbols(n, a) == lahs[n][a]
\* _check() compares what the symbols render as.
Rendered(n, a) == {Literal[t] : t \in lahs[n][a]}
NoSymbol(n) == lahs[n][1] = {} /\ lahs[n][2] = {}
Ambiguous(n) == Rendered(n, 1) \cap Rendered(n, 2) # {}
Check ==
  /\ phase = "check" /\ phase' = "done"
  /\ LET bad == {n \in DOMAIN lahs : NoSymbol(n) \/ Ambiguous(n)}
     IN  IF bad = {} THEN verdict' = "ok"
         ELSE \E n \in {m \in bad : \A o \in bad : Position(m) <= Position(o)} :
                verdict' = IF NoSymbol(n) THEN "missing" ELSE "ambiguous"
  /\ UNCHANGED <<grammar, nterms, tables, unvisited, changed, lahs>>

GrammarNext == Simplify \/ Visit \/ EndPass \/ BuildLookAheads \/ Check
GrammarSpec == GrammarInit /\ [][GrammarNext]_grammarVars

(******************************** Properties *******************************)
\* All variables stay within their types.
GrammarOK ==
  /\ grammar \in Grammars /\ nterms \subseteq Nonterminals
  /\ nullable \in [Nonterminals -> BOOLEAN]
  /\ first \in [Nonterminals -> SUBSET Terminals]
  /\ follow \in [Nonterminals -> SUBSET Terminals]
  /\ unvisited \subseteq Sites /\ changed \in BOOLEAN
  /\ phase \in {"simplify", "tables", "lookahead", "check", "done"}
  /\ verdict \in {"none", "ok", "missing", "ambiguous"}

\* Three sets that the right-hand side or the symbol at s adds nothing to.
ClosedAt(N, F, W, s) ==
  IF s[3] = 0 THEN NewNullable(N, s) => N[s[1]]
  ELSE /\ NewFirst(N, F, s) \subseteq F[s[1]]
       /\ Rhss(s[1])[s[2]][s[3]] \in Nonterminals
            => NewFollow(N, F, W, s) \subseteq W[Rhss(s[1])[s[2]][s[3]]]
Closed(N, F, W) == \A s \in Sites : ClosedAt(N, F, W, s)

\* The loop ends only with sets that satisfy the equations of FIRST, FOLLOW and
\* NULLABLE, although it never looks at the three together: _computeTables()
\* ends when a single flag stayed false.
TablesClosed == phase \in {"lookahead", "check", "done"} => Closed(nullable, first, follow)

\* And nothing is in them that the equations do not ask for: the three are within
\* any other ones that satisfy these.
Within(N, F, W) ==
  \A n \in Nonterminals : (nullable[n] => N[n]) /\ first[n] \subseteq F[n] /\ follow[n] \subseteq W[n]
TablesLeast ==
  \A N \in [Nonterminals -> BOOLEAN], F, W \in [Nonterminals -> SUBSET Terminals] :
    Closed(N, F, W) => Within(N, F, W)

\* _check() accepts a grammar if and only if all of its LookAheads have symbols
\* to look for, and none on both sides, going by what it has computed.
VerdictRight ==
  phase = "done" =>
    (verdict = "ok" <=>
       \A n \in grammar.lookAhead \cap nterms :
         LET symbols(k) == LookAheads(Rhss(n)[k][1], n)
         IN  /\ symbols(1) \cup symbols(2) # {}
             /\ \A t \in symbols(1), u \in symbols(2) : Literal[t] # Literal[u])
=============================================================================
