------------------------------ MODULE Optimizer -----------------------------
(***************************************************************************)
(* The global optimizer (hilti/toolchain/src/compiler/optimizer.cc).  It   *)
(* first decides which optional features of types are in use, and then     *)
(* applies four passes to all modules, over and over until a round changes *)
(* nothing: fold the constants of the features, remove functions and hooks,*)
(* remove internal members, remove types.  Each pass collects what is used,*)
(* forgets nothing within a round, and prunes.                             *)
(*                                                                         *)
(* A program is the code of the modules that run() takes: those to compile *)
(* and what they import. It is a set of declarations and of the sites in   *)
(* function bodies that use them. A feature is a pair of a type and a      *)
(* name; its flag is the constant __feat%type%name. A site's guard has a   *)
(* set of flags for each condition around it, which holds when one of      *)
(* these flags is true.                                                    *)
(***************************************************************************)
EXTENDS Integers, FiniteSets

CONSTANTS
  Absent,  \* no function, member or type
  Programs \* programs to optimize

\* Sites are in bodies of functions, and all names in them are resolved.
ASSUME ProgramsAssumption ==
  \A p \in Programs :
    /\ Absent \notin DOMAIN p.fn \cup DOMAIN p.member \cup p.types
    /\ \A f \in DOMAIN p.fn : p.fn[f].owner \in p.types \cup {Absent}
    /\ \A m \in DOMAIN p.member : p.member[m].owner \in p.types /\ p.member[m].type \in p.types \cup {Absent}
    /\ \A s \in p.sites :
         /\ s = [in |-> s.in, guard |-> s.guard, call |-> s.call, member |-> s.member,
                 type |-> s.type, requires |-> s.requires]
         /\ s.in \in DOMAIN p.fn /\ p.fn[s.in].body
         /\ s.call \in DOMAIN p.fn \cup {Absent} /\ s.member \in DOMAIN p.member \cup {Absent}
         /\ s.type \in p.types \cup {Absent}
    \* A module's flags come after its structs, but before the methods that
    \* implement what these declare.
    /\ \A f \in p.overlooked : f \in DOMAIN p.fn /\ (p.fn[f].hook \/ ~p.fn[f].body)

VARIABLES
  program,  \* what there is at the beginning
  code,     \* the sites left in function bodies
  decls,    \* the function declarations left: of global functions and hooks,
            \* and implementations of methods
  fields,   \* the methods and hooks still declared in their structs
  members,  \* the data members left, types the types left
  types,
  flags,    \* the features whose flag is true
  pass,     \* what comes next
  modified  \* whether this round has changed something
optimizerVars == <<program, code, decls, fields, members, types, flags, pass, modified>>

(***************************** The declarations ****************************)
Functions == DOMAIN program.fn
Fn(f) == program.fn[f]
Methods == {f \in Functions : Fn(f).owner # Absent}
Public(t) == t \in program.publicTypes

\* What using a thing asks of features: &needed-by-feature of a method or of a
\* member, &requires-type-feature of a function's parameters.
Needs(s) ==
  s.requires
    \cup (IF s.call \in Methods THEN Fn(s.call).needs ELSE {})
    \cup (IF s.member # Absent THEN program.member[s.member].needs ELSE {})

\* What stays when only the functions fs are left: the sites in their bodies.
Bodies(sites, fs) == {s \in sites : s.in \in fs}

(************************ FeatureRequirementsVisitor ***********************)
\* A use of a feature that is itself under that feature's flag asks for nothing.
Required == UNION {Needs(s) \ UNION s.guard : s \in code}

\* Faulty: a use under any flag asks for nothing.
Transform_AnyGuard ==
  /\ pass = "features"
  /\ flags' = flags \cap UNION {Needs(s) : s \in {t \in code : t.guard = {}}}
  /\ pass' = "constants" /\ modified' = FALSE
  /\ UNCHANGED <<program, code, decls, fields, members, types>>
\* A flag is only ever switched off.
Transform ==
  /\ pass = "features"
  /\ flags' = flags \cap Required
  /\ pass' = "constants" /\ modified' = FALSE
  /\ UNCHANGED <<program, code, decls, fields, members, types>>

(************************** ConstantFoldingVisitor *************************)
\* Flags become literals, and then conditions on literals go away.
Folded(s) == [s EXCEPT !.guard = {}]
FoldConstants ==
  /\ pass = "constants" /\ pass' = "functions"
  /\ code' = {Folded(s) : s \in {t \in code : \A any \in t.guard : any \cap flags # {}}}
  /\ modified' = (modified \/ code' # code)
  /\ UNCHANGED <<program, decls, fields, members, types, flags>>

(***************************** FunctionVisitor *****************************)
\* Implemented: by a body that is still there, in C++, or said to be.
Defined(f) == (f \in decls /\ Fn(f).body) \/ Fn(f).cxx
IsHook(f) == Fn(f).hook
Called(f) == \E s \in code : s.call = f
\* Calls from C++ are not seen: those of the driver, of a public unit's parse
\* functions, and those that some feature in use stands for.  The collecting
\* goes through the modules in an order, and overlooks a feature whose flag comes
\* later; only as long as there is no flag at all does it come back.
Exported(f) ==
  \/ Fn(f).init \* or marked &always-emit
  \/ f \in decls /\ Fn(f).extern /\ (Fn(f).owner = Absent \/ Public(Fn(f).owner))
  \/ f \notin program.overlooked /\ Fn(f).needs \cap flags # {}
Referenced(f) == Called(f) \/ Exported(f)

\* prune_uses(): calls that have nobody to answer them yield a default value.
Answered(f) == Defined(f) \/ (f \notin Methods /\ ~IsHook(f))
PrunedCode == {s \in code : s.call = Absent \/ Answered(s.call)}

\* prune_decls(), of a function's or a hook's declarations and of a struct's
\* field.  They still go by what the collecting has found.
PrunedDecls == {f \in decls : IF IsHook(f) THEN Defined(f) ELSE Referenced(f)}
PrunedFields == {f \in fields : Defined(f) \/ Referenced(f)}

PruneFunctions ==
  /\ pass = "functions" /\ pass' = "members"
  /\ decls' = PrunedDecls /\ fields' = PrunedFields
  /\ code' = Bodies(PrunedCode, decls')
  /\ modified' = (modified \/ <<code', decls', fields'>> # <<code, decls, fields>>)
  /\ UNCHANGED <<program, members, types, flags>>

(****************************** MemberVisitor ******************************)
\* An internal member goes when nothing mentions it, unless a feature in use, or
\* &always-emit, keeps it.
MemberStays(m) ==
  \/ \E s \in code : s.member = m
  \/ program.member[m].always
  \/ program.member[m].needs \cap flags # {}
PruneMembers ==
  /\ pass = "members" /\ pass' = "types"
  /\ members' = {m \in members : MemberStays(m)}
  /\ modified' = (modified \/ members' # members)
  /\ UNCHANGED <<program, code, decls, fields, types, flags>>

(******************************* TypeVisitor *******************************)
\* The types that a site mentions, the one of the object that it calls or whose
\* member it accesses included.
Mentioned(s) ==
  ({s.type} \cup (IF s.call = Absent THEN {} ELSE {Fn(s.call).owner})
            \cup (IF s.member = Absent THEN {} ELSE {program.member[s.member].owner})) \ {Absent}
\* Faulty: members do not count.
TypeStays_NotForMembers(t) ==
  \/ Public(t)
  \/ \E s \in code : t \in Mentioned(s)
  \/ \E f \in decls : Fn(f).owner = t
\* A type is used by code, by a member of its type, by an implementation of one
\* of its methods, or by anybody when it is public.
TypeStays(t) ==
  \/ Public(t)
  \/ \E s \in code : t \in Mentioned(s)
  \/ \E m \in members : program.member[m].type = t
  \/ \E f \in decls : Fn(f).owner = t
PruneTypes ==
  /\ pass = "types" /\ pass' = "end of round"
  /\ types' = {t \in types : TypeStays(t)}
  /\ fields' = {f \in fields : Fn(f).owner \in types'}
  /\ members' = {m \in members : program.member[m].owner \in types'}
  /\ modified' = (modified \/ types' # types)
  /\ UNCHANGED <<program, code, decls, flags>>

\* Faulty: a change makes all later rounds count as changing something.
EndRound_KeepsModified ==
  /\ pass = "end of round"
  /\ pass' = IF modified THEN "constants" ELSE "done"
  /\ UNCHANGED <<program, code, decls, fields, members, types, flags, modified>>
EndRound ==
  /\ pass = "end of round"
  /\ pass' = IF modified THEN "constants" ELSE "done"
  /\ modified' = FALSE
  /\ UNCHANGED <<program, code, decls, fields, members, types, flags>>

Unoptimized ==
  /\ code = program.sites
  /\ decls = {f \in Functions : Fn(f).body \/ Fn(f).owner = Absent}
  /\ fields = Methods
  /\ members = DOMAIN program.member /\ types = program.types
  /\ flags = program.flags
  /\ pass = "features" /\ modified = FALSE
OptimizerInit == program \in Programs /\ Unoptimized
OptimizerNext == Transform \/ FoldConstants \/ PruneFunctions \/ PruneMembers \/ PruneTypes \/ EndRound
OptimizerSpec == OptimizerInit /\ [][OptimizerNext]_optimizerVars

(******************************** Properties *******************************)
\* All variables stay within their types.
ProgramOK ==
  /\ decls \subseteq Functions /\ fields \subseteq Methods
  /\ members \subseteq DOMAIN program.member /\ types \subseteq program.types
  /\ flags \subseteq program.flags /\ modified \in BOOLEAN
  /\ \A s \in code : s.in \in decls

\* What is left refers only to what is left: the C++ code would not compile
\* otherwise.  Each pass decides by itself, on what it has collected before its
\* own and the other passes' removals.
NothingDangles ==
  /\ \A s \in code :
       /\ s.call # Absent => s.call \in decls \cup fields
       /\ s.member # Absent => s.member \in members
       /\ Mentioned(s) \subseteq types
  /\ \A f \in decls \cap Methods : f \in fields
  /\ \A f \in fields : Fn(f).owner \in types
  /\ \A m \in members : {program.member[m].owner, program.member[m].type} \ {Absent} \subseteq types

\* When it is done there is nothing left to do: no private function without a
\* caller, no hook without an implementation, no member or type without a use,
\* no flag in a condition.
NothingLeftToDo ==
  pass = "done" =>
    /\ decls = PrunedDecls /\ fields = PrunedFields /\ code = PrunedCode
    /\ members = {m \in members : MemberStays(m)} /\ types = {t \in types : TypeStays(t)}
    /\ \A s \in code : s.guard = {}

\* What the optimizer leaves refers only to what it leaves, and it stops only
\* when there is nothing left to do.
OptimizedIsConsistent == ProgramOK /\ NothingDangles /\ NothingLeftToDo

\* What could run at the beginning: the sites that have a feature that some code
\* asks for in every condition around them, in functions that are called from
\* outside or from such a site.
InUse == program.flags \cap UNION {Needs(s) \ UNION s.guard : s \in program.sites}
MayRun(s) == \A any \in s.guard : any \cap InUse # {}
FromOutside(f) ==
  \/ Fn(f).init
  \/ Fn(f).extern /\ (Fn(f).owner = Absent \/ Public(Fn(f).owner))
  \/ Fn(f).needs \cap InUse # {}
Entries == {f \in Functions : FromOutside(f) /\ Fn(f).body}
CallsOut(s) == MayRun(s) /\ s.call # Absent /\ Fn(s.call).body
\* The least set of functions with these and all that they call.
Running ==
  LET entries == Entries
      calls == {s \in program.sites : CallsOut(s)}
      closed == {R \in SUBSET Functions : entries \subseteq R /\ \A s \in calls : s.in \in R => s.call \in R}
  IN  {f \in Functions : \A R \in closed : f \in R}
\* The optimizer removes nothing that could run: functions and hooks that could
\* be called with a body keep it, and the sites in them stay, but for calls that
\* nobody implements.
KeepsWhatRuns ==
  LET running == Running
  IN  /\ running \subseteq decls
      /\ \A s \in program.sites :
           s.in \in running /\ MayRun(s)
             /\ (s.call # Absent => Fn(s.call).body \/ Fn(s.call).cxx \/ (s.call \notin Methods /\ ~IsHook(s.call)))
           => s \in code \/ Folded(s) \in code
=============================================================================
