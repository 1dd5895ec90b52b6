------------------------------ MODULE Startup -------------------------------
(***************************************************************************)
(* How generated code becomes available: a library's static constructors   *)
(* register its modules, hilti::rt::init() initialises their globals and   *)
(* runs their code, which registers parsers, and spicy::rt::init() indexes *)
(* the parsers.  Then hosts look parsers up and sinks connect them.        *)
(*                                                                         *)
(* A module is identified by its name and the scope of its linker run,     *)
(* which it shares with those that were linked with it.  A host keeps to   *)
(* the documented order (doc/examples/my-http.cc): HILTI's runtime first   *)
(* and last, and no second attempt after init() has failed.                *)
(***************************************************************************)
EXTENDS Naturals, Sequences, FiniteSets, SequencesExt

CONSTANTS
  Library,      \* libraries
  ModulesOf,     \* library -> the modules in it
  ScopeOf,       \* module -> the scope of its linker run
  Reads,        \* module -> modules whose globals its own globals' values read
  Registers,    \* module -> the parsers that its code registers, in order
  Declares,     \* parser -> its properties, see Properties_
  Queries,      \* MIME types that sinks look for
  NoParser

Module == UNION {ModulesOf[l] : l \in Library}
Declared == UNION {Range(Registers[m]) : m \in Module}
LinkerScope(p) == ScopeOf[CHOOSE m \in Module : p \in Range(Registers[m])]

LibrariesAssumption == \A l \in Library : IsFiniteSet(ModulesOf[l])
\* Every module registers its own units, and each once.
RegistersAssumption ==
  /\ \A m \in Module : Registers[m] \in Seq(Declared)
  /\ \A m, n \in Module : \A i \in DOMAIN Registers[m], j \in DOMAIN Registers[n] :
       Registers[m][i] = Registers[n][j] => m = n /\ i = j
\* A MIME type is a main type and a subtype.
MIMEType == STRING \X STRING
DeclaresAssumption ==
  /\ NoParser \notin Declared /\ Queries \subseteq MIMEType
  /\ \A p \in Declared : Declares[p].mime_types \in Seq(MIMEType) /\ IsFiniteSet(DOMAIN Declares[p].ports)
ASSUME StartupAssumption == LibrariesAssumption /\ RegistersAssumption /\ DeclaresAssumption

VARIABLES
  opened,     \* libraries that have been loaded
  modules,    \* GlobalState.hilti_modules
  set,        \* modules whose globals have values
  running,    \* runtime_is_initialized: "no", "yes"; or "failed" by an exception
  parsers,    \* GlobalState.parsers
  byName, byMimeType, default,  \* the indices that spicy::rt::init() builds
  indexed,    \* Spicy's own runtime_is_initialized
  answer,     \* what a host or sink has been given last
  unset       \* history: <<by, m, n>> if m's globals or code used globals of n without values

startup == <<opened, modules, set, running, parsers, byName, byMimeType, default, indexed, answer, unset>>

NoAnswer == [of |-> "nothing"]

StartupInit ==
  /\ opened = {} /\ modules = <<>> /\ set = {} /\ running = "no" /\ parsers = <<>>
  /\ byName = {} /\ byMimeType = {} /\ default = NoParser /\ indexed = FALSE
  /\ answer = NoAnswer /\ unset = {}

(****************************** HILTI's runtime ****************************)
\* A static constructor does not add a module that is there already.
NewModules(l) == ModulesOf[l] \ Range(modules)

\* dlopen() runs the constructors in the order in which the objects were linked.
LoadLibrary(l) ==
  /\ l \notin opened
  /\ \E order \in SetToSeqs(NewModules(l)) : modules' = modules \o order
  /\ opened' = opened \cup {l}
  /\ UNCHANGED <<set, running, parsers, byName, byMimeType, default, indexed, answer, unset>>

First(n) == {modules[i] : i \in 1 .. n}

\* Mutant: each module's code runs right after its own globals are there.
SetForCodeOf_OneLoop(i) == First(i)
\* The modules whose globals have values when the code of the i-th one runs.
SetForCodeOf(i) == First(Len(modules))

\* The parsers that the code of the first i modules registers.
RegisteredBy[i \in 0 .. Len(modules)] ==
  IF i = 0 THEN <<>> ELSE RegisteredBy[i - 1] \o Registers[modules[i]]

\* All modules' globals first, then all modules' code.  An exception of either
\* ends it half-way (at the end: of neither), and code that raises one has
\* registered some parsers.
InitHilti(step, at, done) ==
  LET raised == step # "end"
      globals == IF step = "globals" THEN at ELSE Len(modules)   \* that were begun
      code == IF step = "globals" THEN 0 ELSE IF step = "code" THEN at ELSE Len(modules)
  IN  /\ running = "no"
      /\ running' = IF raised THEN "failed" ELSE "yes"
      /\ set' = First(IF step = "globals" THEN at - 1 ELSE Len(modules))
      /\ parsers' = parsers \o (IF step = "code"
                                  THEN RegisteredBy[at - 1] \o SubSeq(Registers[modules[at]], 1, done)
                                  ELSE RegisteredBy[code])
      /\ unset' = unset \cup
           (UNION {{<<"globals", modules[i], n>> : n \in Reads[modules[i]] \ First(i)} : i \in 1 .. globals})
           \cup (UNION {{<<"code", modules[i], n>> : n \in Range(modules) \ SetForCodeOf(i)} : i \in 1 .. code})
      /\ UNCHANGED <<opened, modules, byName, byMimeType, default, indexed, answer>>

\* The list of modules goes with the global state: nothing registers them again.
\* Hosts shut down Spicy's runtime before.
DoneHilti ==
  /\ running # "no" /\ ~indexed /\ parsers = <<>>
  /\ running' = "no" /\ modules' = <<>> /\ set' = {} /\ unset' = {}
  /\ UNCHANGED <<opened, parsers, byName, byMimeType, default, indexed, answer>>

(***************************** Spicy's runtime *****************************)
\* Keys and names are tuples of strings.
IsWildcard(mt) == "*" \in {mt[1], mt[2]}
AsKey(mt) == IF mt[1] = "*" THEN <<>> ELSE IF mt[2] = "*" THEN <<mt[1]>> ELSE mt

\* Mutant: a port for both directions is not found under either of them.
Directions_PlainOnly(direction) == IF direction = "both" THEN {""} ELSE {direction}
\* What follows a port in the names under which it is found.
Directions(direction) == IF direction = "both" THEN {"", "%orig", "%resp"} ELSE {direction}

\* A parser's keys, each with the declaration that it comes from.
NamesOf(p) ==
  LET ports == Declares[p].ports
      types == Declares[p].mime_types
  IN  {<<<<p>>, <<"unit", 1>>>>}
      \cup (UNION {{<<<<ports[i].port, d>>, <<"port", i>>>> : d \in Directions(ports[i].direction)} : i \in DOMAIN ports})
      \cup {<<types[i], <<"type", i>>>> : i \in {j \in DOMAIN types : ~IsWildcard(types[j])}}
MimeKeysOf(p) ==
  {<<AsKey(Declares[p].mime_types[i]), <<"type", i>>>> : i \in DOMAIN Declares[p].mime_types}

\* The vectors of both indices have an entry for each key of each registration.
Entry(i, key) == [key |-> key[1], parser |-> parsers[i], from |-> <<i, key[2]>>]
Entries(index, key) == {e \in index : e.key = key}

\* A second public parser takes the default away, and a third one becomes it.
NextDefault(p, found) ==
  IF ~Declares[p].is_public THEN found ELSE IF found = NoParser THEN p ELSE NoParser
DefaultOf[i \in 0 .. Len(parsers)] ==
  IF i = 0 THEN NoParser ELSE NextDefault(parsers[i], DefaultOf[i - 1])

InitSpicy ==
  /\ running = "yes" /\ ~indexed
  /\ byName' = UNION {{Entry(i, key) : key \in NamesOf(parsers[i])} : i \in DOMAIN parsers}
  /\ byMimeType' = UNION {{Entry(i, key) : key \in MimeKeysOf(parsers[i])} : i \in DOMAIN parsers}
  /\ default' = DefaultOf[Len(parsers)]
  /\ indexed' = TRUE
  /\ UNCHANGED <<opened, modules, set, running, parsers, answer, unset>>

DoneSpicy ==
  /\ parsers' = <<>> /\ byName' = {} /\ byMimeType' = {}
  /\ default' = NoParser /\ indexed' = FALSE /\ answer' = NoAnswer
  /\ UNCHANGED <<opened, modules, set, running, unset>>

Public == {p \in Range(parsers) : Declares[p].is_public}
Error(e) == [is |-> e, parser |-> NoParser]
Value(p) == [is |-> "parser", parser |-> p]

\* Mutant: the first of several parsers is taken.
Found_First(name) ==
  LET entries == Entries(byName, name)
  IN  IF Public = {} THEN Error("no_parsers")
      ELSE IF entries = {} THEN Error("none") ELSE Value((CHOOSE e \in entries : TRUE).parser)
\* What Driver::lookupParser() finds under a name; the empty one asks for the default.
Found(name) ==
  LET entries == Entries(byName, name)
  IN  IF Public = {} THEN Error("no_parsers")
      ELSE IF name = <<>> THEN (IF default = NoParser THEN Error("several") ELSE Value(default))
      ELSE IF entries = {} THEN Error("none")
      ELSE IF Cardinality(entries) > 1 THEN Error("several")
      ELSE Value((CHOOSE e \in entries : TRUE).parser)

Names == {<<>>} \cup UNION {{key[1] : key \in NamesOf(p)} : p \in Declared}
LookupParser(name) ==
  /\ indexed
  /\ answer' = [of |-> "name", key |-> name, found |-> Found(name)]
  /\ UNCHANGED <<opened, modules, set, running, parsers, byName, byMimeType, default, indexed, unset>>

Visible(p, scope) == Declares[p].is_public \/ LinkerScope(p) = scope
\* Mutant: parsers for every subtype are forgotten.
Connected_ExactOnly(mt, scope) ==
  LET asked == <<mt, <<"*", "*">>>>
  IN  UNION {{[asked |-> i, parser |-> e.parser, from |-> e.from] :
                e \in {f \in Entries(byMimeType, AsKey(asked[i])) : Visible(f.parser, scope)}} : i \in 1 .. 2}
\* The instances that Sink::connect_mime_type() creates.
Connected(mt, scope) ==
  LET asked == <<mt, <<mt[1], "*">>, <<"*", "*">>>>
  IN  UNION {{[asked |-> i, parser |-> e.parser, from |-> e.from] :
                e \in {f \in Entries(byMimeType, AsKey(asked[i])) : Visible(f.parser, scope)}} : i \in 1 .. 3}

ConnectMimeType(mt, scope) ==
  /\ indexed
  /\ answer' = [of |-> "type", key |-> mt, scope |-> scope, found |-> Connected(mt, scope)]
  /\ UNCHANGED <<opened, modules, set, running, parsers, byName, byMimeType, default, indexed, unset>>

StartupNext ==
  \/ \E l \in Library : LoadLibrary(l)
  \/ InitHilti("end", 0, 0)
  \/ \E at \in DOMAIN modules : InitHilti("globals", at, 0)
  \/ \E at \in DOMAIN modules : \E done \in 0 .. Len(Registers[modules[at]]) : InitHilti("code", at, done)
  \/ DoneHilti \/ InitSpicy \/ DoneSpicy
  \/ \E name \in Names : LookupParser(name)
  \/ \E mt \in Queries : \E m \in Module : ConnectMimeType(mt, ScopeOf[m])

StartupSpec == StartupInit /\ [][StartupNext]_startup

(******************************** Properties *******************************)
\* Exclusion: a global's value reads a global of a module that was linked later
\* (init.cc runs the modules' init_globals in the order of their linking).
ReadsLinkedLater(u) ==
  u[1] = "globals" /\ \A i, j \in DOMAIN modules : u[2] = modules[i] /\ u[3] = modules[j] => i < j
\* As variables.rst says, globals have their values before any code uses them:
\* that of the modules, and that of other globals unless they are excluded.
GlobalsComeFirst == \A u \in unset : ReadsLinkedLater(u)

\* The declarations of a unit that claim a name for it.
Claims(p, name) ==
  LET ports == Declares[p].ports
      types == Declares[p].mime_types
      named(x) == x.port = name[1] /\ name[2] \in IF x.direction = "both" THEN {"", "%orig", "%resp"} ELSE {x.direction}
  IN  {u \in {<<"unit", 1>>} : name = <<p>>}
      \cup {<<"port", i>> : i \in {j \in DOMAIN ports : Len(name) = 2 /\ named(ports[j])}}
      \cup {<<"type", i>> : i \in {j \in DOMAIN types : types[j] = name /\ ~IsWildcard(name)}}
\* A host gets the only parser with a name, and an error if there are several
\* (the default parser: as long as there are not three public ones).
LookupIsRight ==
  answer.of = "name" /\ answer.found.is # "no_parsers" =>
    LET claims == IF answer.key = <<>> THEN Public \X {"public"}
                  ELSE UNION {{p} \X Claims(p, answer.key) : p \in Range(parsers)}
    IN  answer.key # <<>> \/ Cardinality(claims) <= 2 =>
          CASE answer.found.is = "none" -> claims = {}
            [] answer.found.is = "several" -> \E c, d \in claims : c # d
            [] OTHER -> \E c \in claims : claims = {c} /\ c[1] = answer.found.parser

\* What a pattern of a unit says about the types it is for.
Matches(pattern, mt) == pattern[1] \in {mt[1], "*"} /\ pattern[2] \in {mt[2], "*"}
\* Exclusions: a wildcard is asked for, of which the code finds only the parsers
\* that declare it or a wider one, while sink.rst promises all that match; and a
\* pattern for a subtype of any main type, which is indexed as one for any type.
AsksForWildcard == IsWildcard(answer.key)
AnyMainType(p) == \E i \in DOMAIN Declares[p].mime_types :
  LET pattern == Declares[p].mime_types[i] IN pattern[1] = "*" /\ pattern[2] # "*"
\* A sink is connected to the visible parsers for a type, once for each of their
\* patterns that match it, and to no others.
ConnectIsRight ==
  answer.of = "type" /\ ~AsksForWildcard =>
    LET patterns(p) == {i \in DOMAIN Declares[p].mime_types : Matches(Declares[p].mime_types[i], answer.key)}
        visible == {p \in Range(parsers) : Visible(p, answer.scope)}
        of(p) == {c \in answer.found : c.parser = p}
    IN  /\ {c.parser : c \in answer.found} \subseteq visible
        /\ \A p \in visible : ~AnyMainType(p) => Cardinality(of(p)) = Cardinality(patterns(p))

\* Whatever was loaded in whichever order, a parser is found under exactly the
\* names and types that its unit declares, and code finds its globals.
ParsersAreFound == GlobalsComeFirst /\ LookupIsRight /\ ConnectIsRight
=============================================================================
