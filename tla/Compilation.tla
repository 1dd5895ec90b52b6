----------------------------- MODULE Compilation ----------------------------
(***************************************************************************)
(* The compiler's driver (hilti/toolchain/src/compiler/driver.cc) with the *)
(* units it compiles (unit.cc) and its cache of them (context.cc).  Inputs *)
(* are Spicy and HILTI modules.  The driver resolves the ASTs of the Spicy *)
(* units, and of all that they import, then transforms these to HILTI, and *)
(* resolves the HILTI units; what comes out of that is compiled to C++.    *)
(*                                                                         *)
(* An imported module is processed as the importing unit is, whatever      *)
(* language it is written in: normalizing a Spicy module adds the imports  *)
(* of the HILTI modules hilti and spicy_rt to it.  A unit is named by its  *)
(* module and by how it has been processed at first, or as a late input    *)
(* that was parsed anew.  Only the cache, the list of pending units and    *)
(* that of the units worked on keep a unit alive: those that depend on it  *)
(* have weak pointers, which are None when it has gone.                    *)
(***************************************************************************)
EXTENDS Integers, Sequences, FiniteSets

CONSTANTS
  None,
  Projects,  \* sets of inputs with the modules they import
  MaxRounds  \* 50 in the code

\* A project has finitely many modules, which import each other.
ASSUME ProjectsAssumption ==
  /\ MaxRounds \in Nat \ {0} /\ None \notin {"spicy", "hlt"}
  /\ \A p \in Projects :
       /\ None \notin (DOMAIN p.language) \X {"spicy", "hlt", "late"}
       /\ IsFiniteSet(DOMAIN p.language) /\ p.inputs \subseteq DOMAIN p.language /\ p.late \subseteq DOMAIN p.language
       /\ \A m \in DOMAIN p.language : p.language[m] \in {"spicy", "hlt"} /\ p.imports[m] \subseteq DOMAIN p.language

VARIABLES
  project,
  unit,      \* the units that have been parsed
  cache,     \* the current unit of a module: _unit_cache_by_id and _by_path
  pending,   \* _pending_units
  paths,     \* _processed_paths
  plugin,    \* the extension of the plugin at work, or None
  working,   \* the units that it is resolving
  round,
  stage,     \* "inputs", "plugin", "rounds", "compiled", "failed" or "crashed"
  hlts,      \* _hlts, the units to generate code for
  late,      \* inputs that are still to be added by hookCompilationFinished()
  replaced   \* modules whose imported unit such an input has taken from the cache
compilationVars ==
  <<project, unit, cache, pending, paths, plugin, working, round, stage, hlts, late, replaced>>

Modules == DOMAIN project.language
Imports(m) == project.imports[m]
Units == DOMAIN unit
Extension(u) == unit[u].extension
Resolved(u) == unit[u].resolved
Changed(us, r(_)) == [u \in Units |-> IF u \in us THEN r(unit[u]) ELSE unit[u]]

\* dependencies(true), as far as they are still there.
Dependencies[us \in SUBSET Units] ==
  LET more == us \cup ((UNION {unit[u].dependencies : u \in us}) \ {None})
  IN  IF more = us THEN us ELSE Dependencies[more]
\* Following the dependencies of us meets a pointer to a unit that has gone.
Expired(us) == \E u \in us : None \in unit[u].dependencies
\* What is left of some units when these are their owners' pointers to them.
Kept(units, owned) ==
  [u \in DOMAIN units \cap owned |->
     [units[u] EXCEPT !.dependencies = {IF d \in owned THEN d ELSE None : d \in @}]]
CachedIn(c) == {c[m] : m \in Modules}

\* lookupUnit(): only a unit that is processed in the way asked for will do.
Cached(m, extension) ==
  IF cache[m] # None /\ Extension(cache[m]) = extension THEN cache[m] ELSE None
NewUnit(extension, required) ==
  [extension |-> extension, resolved |-> FALSE, dependencies |-> {}, required |-> required]

(********************************** Inputs *********************************)
\* addInput(path): parsed unless the cache has it, and compiled in any case.  What is
\* parsed takes the place of what the cache has of the module.
Added(m) ==
  LET language == project.language[m]
      cached == Cached(m, language)
      u == IF cached # None THEN cached
           ELSE IF cache[m] = None THEN <<m, language>> ELSE <<m, "late">>
      all == [v \in Units \cup {u} |->
                IF v # u THEN unit[v]
                ELSE IF cached = None THEN NewUnit(language, TRUE)
                ELSE [unit[v] EXCEPT !.required = TRUE]]
  IN  IF m \in paths THEN UNCHANGED <<unit, cache, pending, paths, replaced>>
      ELSE /\ cache' = [cache EXCEPT ![m] = u]
           /\ pending' = pending \cup {u} /\ paths' = paths \cup {m}
           /\ unit' = Kept(all, pending' \cup working \cup CachedIn(cache'))
           /\ replaced' = replaced \cup {n \in {m} : cached = None /\ cache[m] # None}
AddInput ==
  /\ stage = "inputs"
  /\ \E m \in project.inputs \ paths : Added(m)
  /\ UNCHANGED <<project, plugin, working, round, stage, hlts, late>>
CompileUnits ==
  /\ stage = "inputs" /\ project.inputs \subseteq paths
  /\ stage' = "plugin" /\ plugin' = "spicy"
  /\ UNCHANGED <<project, unit, cache, pending, paths, working, round, hlts, late, replaced>>

(******************************** Resolving ********************************)
\* _unitsForPlugin(), and the units that it follows the dependencies of.
OfPlugin(us, resolvedToo) == {u \in us : Extension(u) = plugin /\ (resolvedToo \/ ~Resolved(u))}
UnitsFollowed(resolvedToo) == Dependencies[OfPlugin(pending, resolvedToo)]
UnitsForPlugin(resolvedToo) == OfPlugin(pending \cup UnitsFollowed(resolvedToo), resolvedToo)

StartPlugin ==
  /\ stage = "plugin" /\ plugin # None /\ UnitsForPlugin(FALSE) # {} /\ ~Expired(UnitsFollowed(FALSE))
  /\ working' = UnitsForPlugin(FALSE) /\ stage' = "rounds"
  /\ UNCHANGED <<project, unit, cache, pending, paths, plugin, round, hlts, late, replaced>>

\* Faulty: parses everything anew.
Imported_Anew(m) == <<m, plugin>>
\* The resolver on an import: fromImport().
Imported(m) == IF Cached(m, plugin) # None THEN Cached(m, plugin) ELSE <<m, plugin>>
\* What u depends on after resolving its imports.  One that has been resolved
\* before keeps the unit that it has got then.
Linked(u) ==
  unit[u].dependencies
    \cup {Imported(m) : m \in {n \in Imports(u[1]) : \A d \in unit[u].dependencies \ {None} : d[1] # n}}
\* New dependencies that are not resolved yet join in, and then there is another
\* round.
Round ==
  /\ stage = "rounds" /\ ~Expired(working)
  /\ LET linked == UNION {Linked(u) : u \in working}
         found == {d \in linked : d \in Units => ~Resolved(d)} \ working
         new == linked \ Units
         all == [u \in Units \cup new |->
                   IF u \in new THEN NewUnit(plugin, FALSE)
                   ELSE IF u \in working THEN [unit[u] EXCEPT !.dependencies = Linked(u)]
                   ELSE unit[u]]
         modified == found # {} \/ \E u \in working : Linked(u) # unit[u].dependencies
     IN  /\ cache' = [m \in Modules |-> IF <<m, plugin>> \in new THEN <<m, plugin>> ELSE cache[m]]
         /\ working' = working \cup found
         /\ unit' = Kept(all, pending \cup working' \cup CachedIn(cache'))
         /\ round' = round + (IF modified THEN 1 ELSE 0)
         /\ stage' = IF ~modified THEN "resolved"
                     ELSE IF round + 1 >= MaxRounds THEN "failed" ELSE "rounds"
  /\ UNCHANGED <<project, pending, paths, plugin, hlts, late, replaced>>

\* What is to be compiled along with the units just resolved, when code is to run.
Joining == UNION {unit[u].dependencies : u \in working}
EndRounds ==
  /\ stage = "resolved"
  /\ stage' = "hook" /\ unit' = Changed(working, LAMBDA r : [r EXCEPT !.resolved = TRUE])
  /\ UNCHANGED <<project, cache, pending, paths, plugin, working, round, hlts, late, replaced>>
\* hookCompilationFinished() adds an input, or else the driver goes on.
Hook ==
  /\ stage = "hook"
  /\ \E m \in late : Added(m) /\ late' = late \ {m}
  /\ UNCHANGED <<project, plugin, working, round, stage, hlts>>
AddDependencies ==
  /\ stage = "hook" /\ (project.execute => ~Expired(working)) /\ stage' = "plugin" /\ working' = {}
  /\ IF ~project.execute THEN UNCHANGED <<pending, paths>>
     ELSE LET joining == {u \in Joining : u[1] \notin paths}
          IN  pending' = pending \cup joining /\ paths' = paths \cup {u[1] : u \in joining}
  /\ unit' = Kept(unit, pending' \cup CachedIn(cache))
  /\ UNCHANGED <<project, cache, plugin, round, hlts, late, replaced>>

Transforming == UnitsForPlugin(TRUE)
\* Nothing is left to resolve for the plugin: _transformUnitsWithPlugin().
NextPlugin ==
  /\ stage = "plugin" /\ plugin # None /\ UnitsForPlugin(FALSE) = {} /\ ~Expired(UnitsFollowed(TRUE))
  /\ IF plugin = "spicy"
       THEN /\ unit' = Changed(Transforming, LAMBDA r : [r EXCEPT !.extension = "hlt", !.resolved = FALSE])
            /\ cache' = [m \in Modules |-> IF <<m, "spicy">> \in Transforming THEN <<m, "spicy">> ELSE cache[m]]
            /\ plugin' = "hlt"
     ELSE plugin' = None /\ UNCHANGED <<unit, cache>>
  /\ UNCHANGED <<project, pending, paths, working, round, stage, hlts, late, replaced>>

\* Nobody checks whether a unit is still there: a null pointer is dereferenced.
FollowExpired ==
  /\ \/ /\ stage = "plugin" /\ plugin # None
        /\ Expired(UnitsFollowed(FALSE)) \/ (UnitsForPlugin(FALSE) = {} /\ Expired(UnitsFollowed(TRUE)))
     \/ stage = "rounds" /\ Expired(working)
     \/ stage = "hook" /\ project.execute /\ Expired(working)
  /\ stage' = "crashed"
  /\ UNCHANGED <<project, unit, cache, pending, paths, plugin, working, round, hlts, late, replaced>>

\* Faulty: only inputs do.
RequiresCompilation_Input(u) == unit[u].required
\* Only what has code needs compiling, and inputs.
RequiresCompilation(u) == unit[u].required \/ u[1] \in project.withCode
CodegenUnits ==
  /\ stage = "plugin" /\ plugin = None
  /\ IF \A u \in pending : Extension(u) = "hlt" /\ Resolved(u)
       THEN stage' = "compiled" /\ hlts' = {u \in pending : RequiresCompilation(u)}
     ELSE stage' = "failed" /\ UNCHANGED hlts
  /\ UNCHANGED <<project, unit, cache, pending, paths, plugin, working, round, late, replaced>>

Uncompiled ==
  /\ unit = <<>> /\ cache = [m \in Modules |-> None]
  /\ pending = {} /\ paths = {} /\ plugin = None /\ working = {} /\ round = 0
  /\ stage = "inputs" /\ hlts = {} /\ late = project.late /\ replaced = {}
CompilationInit == project \in Projects /\ Uncompiled
CompilationNext ==
  \/ AddInput \/ CompileUnits \/ StartPlugin \/ Round \/ EndRounds \/ Hook \/ AddDependencies
  \/ NextPlugin \/ CodegenUnits \/ FollowExpired
CompilationSpec == CompilationInit /\ [][CompilationNext]_compilationVars

(******************************** Properties *******************************)
\* All variables stay within their types.
UnitsOK ==
  /\ plugin \in {"spicy", "hlt", None}
  /\ \A u \in Units : u[1] \in Modules /\ unit[u].dependencies \subseteq Units \cup {None}
  /\ \A m \in Modules : cache[m] \in Units \cup {None}
  /\ pending \cup working \cup hlts \subseteq Units
  /\ round <= MaxRounds

\* Units refer to each other by weak pointers, which are followed without a
\* check: nothing that an input depends on is ever given up.
DependenciesAlive == stage # "crashed" /\ ~Expired(Dependencies[pending])

\* "The hook may add further inputs files through the add() methods, which will
\* then be compiled next."
LateInputsAreCompiled == stage # "crashed"

\* Code generation looks at the declarations of all dependencies, too: they are
\* all HILTI and resolved by then, although only the inputs are looked at.
AllResolved ==
  stage = "compiled" => \A u \in Dependencies[pending] : Extension(u) = "hlt" /\ Resolved(u)

\* When the code is to be run, it is generated exactly once for every module with
\* code that the inputs import.
ImportsClosed(ms) == \A m \in ms : Imports(m) \subseteq ms
Needed == {m \in Modules : \A ms \in SUBSET Modules : project.inputs \subseteq ms /\ ImportsClosed(ms) => m \in ms}
CodeForAll ==
  stage = "compiled" =>
    /\ \A u, v \in hlts : u[1] = v[1] => u = v
    /\ project.inputs \subseteq {u[1] : u \in hlts}
    /\ project.execute => Needed \cap project.withCode \subseteq {u[1] : u \in hlts}

\* The units that the inputs depend on are alive while they are looked at; what
\* is compiled is resolved HILTI, and code is generated for all that needs it.
\* Left out is the compilation that has lost a unit to an input that was added late.
UnitsCompiled ==
  UnitsOK /\ (replaced = {} => DependenciesAlive /\ AllResolved /\ CodeForAll)
=============================================================================
