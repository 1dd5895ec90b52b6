# Spicy: a verification of its runtime and of its compiler's algorithms

Spicy generates parsers.  A grammar becomes C++ code that parses *incrementally*:
a parser that runs out of input suspends in the middle of its work and goes on
when the host has more.  This project models the machinery that this rests on
and that its unit tests reach least:

- coroutines on one shared stack,
- streams, references and containers with iterators that outlive their targets,
- reassembly of out-of-order input,
- chains of parsers that feed each other while all of them wait,
- generated parse functions that recover from errors,
- the driver that feeds many parsers at once, and how they are found,
- the algorithms of the compiler that make these parsers.

TLC checks the models on small instances.  For the results listed under
[Proofs](#4-proofs), TLAPS proves the same properties for every value of the
constants.  `PROJECT.json` maps every definition to the lines it models, and
lists the runs, the hazards with the properties that guard against them, the
theorems, and for each property a plausible bug that breaks it.

## Running it

    tlc -config MCFiber.cfg MCFiber        # any of the configurations below
    tlapm FiberProofs.tla                  # any of the *Proofs modules

## 1. Inventory

Paths are relative to `src/`.  The repository has four large parts: the HILTI
compiler (`hilti/toolchain`, 40,000 lines), the Spicy compiler
(`spicy/toolchain`, 16,000), the HILTI runtime (`hilti/runtime`, 24,000) and the
Spicy runtime (`spicy/runtime`, 5,300).  State that outlives a call, control that
leaves a function half-way, and input in any order are in the runtimes, and in
the code that the parser builder emits.  The compilers are sequential
transformations of a syntax tree, with a few algorithms whose results are easy to
state and hard to test: fixpoints, the rounds of the driver, the matching of
operators.

| Component | State | Operations | What is hard | What makes it correct |
|---|---|---|---|---|
| **Fibers and Resumables** `hilti/runtime/{include,src}/fiber.*` | each fiber's state, caller, function, result, exception and stack buffer; the context's current fiber, cache, and `resumable`; counters | construct, run, resume, abort, yield, destroy, prime the cache | calls nest: payloads run, resume and destroy other Resumables; all fibers share one stack; fibers are recycled | control returns to who waits for it, own frames are found, one owner per fiber, nothing stale in a recycled one |
| **Sinks** `spicy/runtime/{include,src}/sink.*` | ordered chunks, two positions, trim position, auto-trim, initial sequence number, connected units and filters | write, append, gap, skip, trim, set_\*, connect, connect_filter, close | segments in any order, overlapping, repeated; operations at any point of the stream; wrap-around; units that fail or complete | data is delivered in order, once, unaltered; no silent hole; nothing ready waits |
| **Filter chains** `spicy/runtime/include/filter.h`, `spicy/runtime/src/parser.cc` | list of filters, each with its Resumable, its output stream, and whether it is frozen | connect, init, flush, forward, forward_eod, disconnect | producers and consumer share a thread through their waits; end-of-data passes through all of them; each may fail or complete early | no wake-up is lost, end-of-data arrives, no completed filter is resumed |
| **Batch driver, ParsingState** `spicy/runtime/{include,src}/driver.*` | flows and connections by ID; for each flow its input, Resumable, context, `_done` | the batch commands, process, finish | interleaved flows, IDs that are reused, raw pointers into a map, errors on one side of a connection | only suspended parsers are resumed, every stream sees its end, pointers are good, contexts are not mixed up |
| **Streams** `hilti/runtime/{include,src}/types/stream.*` | a chain of chunks with offsets; iterators and views with cached positions | append, trim, freeze, reset, iterator and view arithmetic | iterators outlive trimmed chunks; a cached chunk pointer is a hint | an iterator shows the byte at its offset or reports that it is gone |
| **Generated parse functions** `spicy/toolchain/src/compiler/codegen/parser-builder.cc` | position, look-ahead, trial mode, error | parse stages, hooks, `&try`, `&synchronize`, look-ahead lists | backtracking, errors and recovery through several functions, each with its own copy of what is known | no skipped error becomes success unnoticed, every hook runs in its place, parsing ends |
| **Generated fields** the same file, `validator.cc`, `grammar-builder.cc`, `codegen/parsers/*.cc` | view, value, loop counters | one field's type and attributes, in any combination | attributes meet: size, end-of-data, stop conditions, conversion; input arrives in chunks | what is accepted parses what the documentation says |
| **Grammars** `spicy/toolchain/src/compiler/codegen/grammar.cc` | productions, nullable/first/follow sets | simplification, parse tables, look-ahead | fixpoint, look-ahead conflicts | tables equal their definition |
| **Parser waits, input primitives** `spicy/runtime/src/parser.cc` | view, old size | waitForInput, waitForEod, waitForInputOrEod, unitFind, backtracking | what was read before the yield is used after it | see filter chains, parse functions |
| **Parser registry, initialisation** `{hilti,spicy}/runtime/src/init.cc`, `spicy/runtime/src/parser.cc` | modules and parsers by name, port and MIME type; default parser | load, register, initialise, shut down, look up, connect by MIME type | libraries loaded in any order, initialisation that throws half-way | a parser is found under what its unit declares, and only then |
| **Unit contexts** `spicy/runtime/include/unit-context.h` | a typed shared value | create, set, get | sharing between the two sides of a connection | see driver |
| **References** `hilti/runtime/include/types/reference.h`, `intrusive-ptr.h` | owning, raw and weak pointers; counts | copy, move, assign, reset, access, methods through `self` | references of three kinds to one value; values that go away | sharing is what assignments say; no use after release |
| **Type information** `hilti/runtime/include/type-info.h`, `spicy/runtime/include/parsed-unit.h` | raw pointers tied to a parent | traverse, iterate, access | the program goes on while a host looks | a host sees what is there, or is told that it is gone |
| **Containers** `hilti/runtime/include/types/{vector,map,set}.h` | contents and a control block | mutate, copy, move, iterate | iterators that outlive a mutation | stale iterators are detected |
| **Bytes, strings; integers, addresses, times** `hilti/runtime/{include,src}/types/*`, `src/util.cc` | - | search, cut, decode, escape; pack, unpack, mask | boundaries, widths, signs | the plain definition of each |
| **Regular expressions** `hilti/runtime/src/types/regexp.cc` | match state | incremental match, find | chunk boundaries, matches that end in an earlier chunk | same result as in one piece |
| **HILTI optimizer** `hilti/toolchain/src/compiler/optimizer.cc` | what is used, by declaration and feature | collect, prune, in rounds | five passes that enable each other | what can run stays, nothing dangles |
| **Compile driver** `hilti/toolchain/src/compiler/{driver,unit,context}.cc` | units, cache, pending lists | add, resolve, transform, compile | Spicy and HILTI units import each other, hooks add inputs late | every unit reached is resolved and gets code |
| **Coercion and operators** `hilti/toolchain/src/compiler/{coercion,visitors/*}.cc`, `include/ast/operators/` | types, expressions, declared operators | coerce, match overloads, fold, emit | several passes with different rules; C++ precedence | values kept, unique resolution, same meaning in C++ |
| **JIT job runner** `hilti/toolchain/src/compiler/jit.cc` | jobs, files in a shared directory | save, compile, link, load, clean up | processes in parallel, failing jobs | every job is collected, builds do not disturb each other |
| **Name resolution, validator, code generator of HILTI** | syntax tree, scopes | resolve, validate, generate | - | meaning is preserved |
| **Base64, zlib; profiler, logging, tools, build** | library state, counters | - | - | - |

How they interact: the **driver** appends a host's data to a **stream**, and
starts or resumes the **generated parser** of a flow, which is the payload of a
**Resumable**.  When a parser **waits**, it first resumes its **filters**, which
are Resumables of their own, and then yields its own **fiber** to the driver.  A
**sink**'s `write()` appends to the streams of its connected units and resumes
their Resumables from inside the fiber that writes; it finds units by MIME type in
the **registry**.  Units are held by **references**, and a host looks at them
through **type information**.  All of this is one thread:
the interleavings are those of suspended fibers, and of calls in an order that
only the input determines.  Processes run in parallel in the **JIT** only.  In the
toolchain, the **compile driver** calls everything else on one unit after the
other.

The 40 hazards in `PROJECT.json` are the places where this can go wrong, each
with the properties aimed at it or the reason why there is none.

## 2. Modules

| Module | Models | Checked by | Proved in |
|---|---|---|---|
| `Fiber` | fibers and Resumables | `MCFiber`, `MCFilters` | `FiberProofs` |
| `Reassembly` | what a sink promises to its units (abstract) | `MCSink` | itself |
| `Sink` | `Sink`: every method, on the sink's whole state | `MCSink` | `SinkProofs` |
| `SinkCallers` | callers of a sink, some with a discipline | `MCSink` | `SinkProofs`; implements `Reassembly` |
| `Filters` | a unit, its filters and the host, sharing one thread | `MCFilters` | `FiltersProofs` |
| `FieldDeclarations`, `FieldParsing` | one field: validator, production, generated code, documented meaning | `MCFilters`, which lists the inputs | - |
| `Driver` | batch commands, `ParsingState`, contexts | `MCDriver` | `DriverProofs` |
| `Startup` | loading, registering, initialising, looking up | `MCDriver` | `DriverProofs` |
| `ByteStream` | a window of bytes with fixed offsets (abstract) | `MCTypes` | `RuntimeTypesProofs` |
| `Stream` | chains of chunks, iterators, views | `MCTypes` | implements `ByteStream`: `RuntimeTypesProofs` |
| `Containers` | vectors, sets, maps, their iterators | `MCTypes`, itself | `RuntimeTypesProofs` |
| `References`, `IntrusivePtr` | references, `self`; counting pointers | `MCTypes` | `RuntimeTypesProofs` |
| `TypeInfo` | a host's walk over a parsed unit | `MCTypes` | `RuntimeTypesProofs` |
| `RuntimeTypes` | the five modules above side by side, with their assumptions | `MCTypes` | `RuntimeTypesProofs` |
| `RegExp` | incremental matching | `MCTypes` | - |
| `Text`, `Binary` | pure functions on bytes, strings, numbers | `MCTypes` | - |
| `UnitParsing` | generated parse functions of units and lists | `MCUnitParsing` | `UnitParsingProofs` |
| `Grammar` | simplification and parse tables | `MCToolchain` | `ToolchainProofs` |
| `Optimizer` | five visitors and their rounds | `MCToolchain` | `ToolchainProofs` |
| `Compilation` | the compile driver | `MCToolchain` | `ToolchainProofs` |
| `Jit` | parallel builds in one directory | `MCToolchain` | `ToolchainProofs` |
| `HiltiExpressions`, `Conversions`, `OperatorTable`, `ContainerOperators`, `Overloads`, `OperatorCode`, `Coercion` | HILTI's coercion and operators | `MCToolchain`, inputs in `MCOperators` | - |

The MC modules give the constants values and put modules next to each other.
Modules in one MC module do not interact: a variable `part` (in `MCSink`: `caller`)
says in the initial state which of them the behaviour is about, and the others
rest.  What they do share is modelled inside of a module: `Filters` has the waits of
parsers, `Driver` the contexts, `Sink` its units, `Startup` the sink's look-up.

Definitions named `<definition>_<Fault>` are faulty variants of a definition.
They are not part of any specification; each property is tried against one.

### Fiber

An *actor* is the main program or a fiber, and `current` is the one that
executes.  A C++ call that switches to another fiber is two actions: `Run`,
`Resume`, `Abort` and `DestroySuspended` go up to the switch, and
`ReturnFromRun`, `ReturnFromAbort` and `ReturnFromDestroy` are what the function
does once control is back.  In between, the other fiber may do all of this
itself.  `pending[a]` holds the locals of the call that `a` is inside of
(Resumable, fiber, and the `old` value of the context's `resumable`).
`Yield` and `Finish` are what a payload does: `detail::yield()`, and the end of
the trampoline with a value, an exception or an abort.  `shared`, `saved` and
`frames` say which fiber's frames are on the shared stack, which are in its
buffer, and which ones it *should* find; a frame is its owner and a count that
changes whenever the payload gets further.

Simplifications: stacks are of the default type (shared; sanitizer builds use
individual ones).  The tear-down of a process without a context, `Fiber::reset()`
and the state `Finished`, which nothing ever assigns, are left out.
`run()` is called at most once per Resumable, as its documentation demands.  An aborted
payload does not yield again, and does not swallow the `AbortException`.  A
Resumable is not destroyed while its fiber is on the chain of calls.  `yield()` in
the main program is an error that changes nothing and has no action.

### Sink and Reassembly

Every public method of `Sink` that changes the reassembly is one action
(`Write`, `WriteNext` without a position, `ReportGap`, `Skip`, `TrimTo`,
`SetAutoTrim`, `SetInitialSequenceNumber`, `Connect`, `ConnectFilter`, `Close`).  The
internal functions are operators from state to state, composed in the code's order:
`NewData`, `AddAndCheck` with its splitting of blocks (`InsertPrefix`, `Overlap`),
`TryDeliver`, `Deliver`, `SkipTo`, `Trim`.  Relative positions are computed
modulo `SeqBound`, which stands for 2^64.  A byte is a position and a version: two
versions tell a conflicting retransmission from its original.

`Reassembly` says what that is for: per position, the first version that arrived
counts; data is handed over in order as soon as it is in order; nothing else is.
The loops over the buffer are recursive functions on the number of chunks seen (`Turns`,
`Visits`), so that they can be proved about.
`SinkCallers` adds who makes the calls: a caller keeps to its own for the whole behaviour, and two of
them have a discipline.  To those the sink implements `Reassembly` (`HandsOverInOrder`,
with the refinement mapping); `CallersAssumption` says what the disciplines are.

Simplifications: `write`'s `len` argument has its default value, a filter passes on
whole blocks of `Block` bytes unchanged, the unit kinds end at a fixed byte in success
or failure, hooks do not call back into the sink, and `%overlap` is left out.
Histories record gaps and skips (`missing`), `%undelivered`, and skips that go back.

### Filters

Stream 0 is the host's input, stream f the output of filter f; process N+1 is
the unit.  `Feed` is the host: append, freeze at the end, resume.  The unit then
resumes its filters in order (`ResumeFilter`, `filter::flush()`), continues with
its own wait (`FlushReturns`, `Wake`), or starts them in the first place
(`StartFilter`, `filter::init()`).  Who has control can be read off the program
counters: the unit executes when no filter does, the host when the unit waits.
A parser is free to consume, forward, signal end-of-data, wait, complete or fail
at any point; the unit may also catch a filter's exception (`Recover`: `&try`,
`&synchronize`) and parse one sub-unit, whose waits use the sub-unit's own, empty
list of filters (`EnterSub`, `LeaveSub`).  A filter that completes, fails or is aborted
freezes its output (`finalizeUnit()` and the generated `catch` both call `forward_eod()`).
`ResumeCompleted` is the `std::logic_error` that resuming a Resumable without a
fiber raises; `misuse` remembers it.

Simplifications: data is counted; filters have no filters; all of them are
connected before parsing begins; views are not limited; `waitForEod` is left out.

### FieldDeclarations and FieldParsing

A declaration is a type with attributes.  `FieldDeclarations` has what the validator
accepts (`Accepted`), the production the grammar builder makes (`Production`), and,
from the documentation, what a field means on a whole input (`Meaning`).
`FieldParsing` compiles a declaration to a short list of instructions, as the parser
builder does, and runs them on input that arrives in chunks.  `FieldsMeanTheirInput`
compares both for every accepted declaration; the combinations for which the code
deviates are listed by name in `Deviates`.

Simplifications: types are represented by their widths, which are scaled but keep
their order; containers have elements of one byte; values are the bytes they are made of.

### Driver and Startup

One action of `Driver` per batch command; `Data` stands for `@data` and `@gap`.  The record
of a flow is its `ParsingState`: type, `_done`, its input (none yet, open,
frozen), its Resumable (none, suspended, finished) and its context.  `node`
numbers map elements, so that the raw pointers of a connection can be compared
with what is in the map now.  A parser's outcome is free, except that it does not
yield at end-of-data, which is the subject of `Filters`.  The environment keeps
to the batch format (`doc/toolchain.rst:171-215`): IDs are unique among the flows
that exist, and `@end-flow` is for flows that `@begin-flow` began.  `dangling` and `cut`
are histories: a pointer was used after its flow had gone, and a flow was released
while its parser was still suspended.

`Startup` has the static constructors of a loaded library (`LoadLibrary`: modules
register once), `hilti::rt::init()` with globals and module code, either of which may
throw, `spicy::rt::init()` with its indices, look-up by name, port, MIME type and
default, `connect_mime_type()` of a sink, and `done()`.  Hosts keep to the documented
order of calls (`doc/examples/my-http.cc`).  A module belongs to a linker run, whose scope it shares with
the others of that run (`ScopeOf`): a sink sees the public parsers and those of its own run.  An index is the
set of the entries of its vectors, each with the registration and the declaration that it comes from, so
that two equal declarations are two entries.  `ParsersAreFound` says what is documented, with exclusions by name where the
code does something else: a sink that asks for a wildcard (`AsksForWildcard`), a declared `*/sub` (`AnyMainType`), and
a global that reads one of a module linked later (`ReadsLinkedLater`).

### ByteStream and Stream

A chunk pointer is a number: chunks are numbered as they are allocated, and those of
the chain are `first .. next-1`.  An iterator is a chain, an offset and the cached
pointer (its hint), which may be older than the chunk.  Actions are `Append` of data
and of gaps, `Trim`, `Freeze`, `Copy` and assignment of chains, `Clear`, and the
iterators' moves.  `CutsGaps` says whether a host may trim into the middle of a gap,
which the code does not handle (see below); without it the chain implements
`ByteStream`, in which a byte has a fixed offset and goes in at the end and out at the
beginning.

### Containers, References, IntrusivePtr, TypeInfo

`Containers` has one kind of container per behaviour, with its control block (an object
that points back to its container), and iterators that hold a block weakly; nodes have
addresses, so that a read of freed memory shows.  `Shares` says whether sets and maps
are copied: if they are, they share a block with their copy (`map_copied`).

`References` gives each reference what it is made of (an owning, raw or weak pointer to
a cell) and, as history, whom it was bound to (`kin`) and the value that assignments
gave it (`meant`); the reference `Self` exists while a method runs.  `IntrusivePtr`
counts: each statement takes references and gives up references.  In `TypeInfo`, a
host asks a `ParsedUnit` for a value, goes on to parts and elements, and reads, while
the program changes or drops the unit.

### RegExp, Text, Binary

A pattern is the finite set of words it matches.  `RegExp` is the match state with the
loop that a generated parser runs on it, over chunks.  In `Text` and `Binary`, a behaviour
is one call of one function, and the property compares its result with a plain
definition.  Bytes are narrower than eight bits, and the other widths follow from theirs.

### UnitParsing

A call of a unit's or a list's generated function is a frame: its position, limit,
look-ahead and pending error are its own, as the C++ code passes them by value and
returns them; the stream and `stack` are shared.  Actions are the steps of a field
(`Dispatch`, tokens, bytes, lists, counted lists, `&try`), each hook with a free outcome
out of `Outcomes`, the handlers that catch what is thrown, and synchronisation with its
search for a token, `confirm()` and `reject()`.  `owed` is a history: an error was
caught, and no hook has confirmed since.  Grammar and hooks are constants.

Units with `%random-access` do not trim; they may not move around in their input here.  A unit that both trims and
synchronises may go back to input that it has trimmed, and then `Chain::trim()` may go round for ever
(`stream.cc:93-106`; `broken`).  `ParseEnds` leaves these units out by name (`Rewinds`) and is checked for the same ones
with `%random-access`, and for all others.

Simplifications: no switches, no parsing at other places; a regular
expression matches one symbol.

### Grammar, Optimizer, Compilation, Jit

`Grammar` runs the passes of `Grammar::_computeTables()` one at a time; the reference is
derivations, computed separately in `MCToolchain`.  `Optimizer` runs the visitors over a
program of declarations and sites that use them under guards: the code of the modules that `run()` takes, which are
those to compile and what they import.  Guards nest, and `overlooked` are the hooks and declarations that the
collecting comes to before it has seen their type's flags; implementations come after these
(`unit-builder.cc:186-190`, `parser-builder.cc:1990`).

`Compilation` moves units through `Driver::compileUnits()`.  A unit is named by its module and by how it was
processed first, or as `late` if it was parsed anew although there was one.  The cache, the pending list and the list of units
that are being resolved keep units; the others have weak pointers to them, which become `None`.
`hookCompilationFinished()` may add any input.  If others have imported its module in the other language,
`cacheUnit()` replaces their unit, which nobody else owns, and the pointers to it are followed without
a check (`unit.cc:331`): `FollowExpired` is that crash, `late_input` shows it, and `UnitsCompiled` speaks of the compilations in which no unit was
replaced.

`Jit` has several processes with their jobs: saving, compiling, linking, loading and removing files are
steps that interleave; a file that is being written is `Partial`.  File names contain a hash over the inputs and the
working directory, so that processes with the same ones (`Twins`) share all files but the one from `mkstemp()`, and remove
them under each other's hands: a source that is gone when it is scheduled makes `build()` throw (`Refuse`), one that is gone
when it is compiled fails the job, and a library that is gone cannot be opened.  A twin may thus fail for no reason of its own,
but what it loads is complete, and nothing is left when all twins are done.  User files of the same name in
different directories share an object file within one process (`jit.cc:319-320`), which `Separate` excludes by name.

### HILTI's coercion and operators

`HiltiExpressions` is the vocabulary.  `Conversions` has the styles of coercion for types,
constants and expressions, and `HasCode`, for which of them there is code.  `OperatorTable`
and `ContainerOperators` list the declared operators with their operand types; `Overloads`
matches a use against them, with all orders of registration that a build may have;
`OperatorCode` gives the templates of C++ code with C++'s precedences.  `Coercion` runs the
coercer over a site until nothing changes, or the resolver once.

## 3. Runs

| Run | Configuration | Asks | Instance |
|---|---|---|---|
| `fiber_safety` | `MCFiber.cfg` | is the call chain intact, does everyone find their own stack, is each fiber owned once, is each outcome its function's own? | 5 fibers, 3 Resumables, cache of 2, 2 yields each; symmetric |
| `sinks` | `MCSink.cfg` | what may which caller rely on? | 4 callers, 4 positions, 2 versions, 5 or 6 calls; 16 sequence numbers, starting at 14 |
| `sink_retransmission` | `MCSinkRetransmit.cfg` | *violation*: is data lost if a retransmission is longer? | writes only, 4 calls |
| `filters` | `MCFilters.cfg` | does end-of-data reach the unit in one round, is no wake-up lost, does the unit end? do fields parse what is documented? does every call into a fiber return? | 3 filters, 2 bytes, one forwarded at a time; 1,873 initial declarations, inputs up to 4; 3 fibers, 2 Resumables, cache of 1 |
| `filters_sub_unit` | `MCFiltersSub.cfg` | *violation*: is a sub-unit given filtered input? | 1 filter |
| `driver_batch` | `MCDriver.cfg` | are only suspended parsers resumed, are pointers good, does every stream see its end? are parsers found? | 3 flow IDs, 2 connection IDs, 5 flows, 2 parsers, one with a context, symmetric; 3 libraries, 5 parsers |
| `runtime_types` | `MCTypes.cfg` | does each type of the runtime show what is there, or refuse? | see below |
| `map_copied` | `Containers.cfg` | *violation*: do a map's iterators stay safe when the map is copied? | 2 maps, 1 iterator, 2 keys |
| `unit_parsing` | `MCUnitParsing.cfg` | do errors, recovery and hooks leave a unit in order? | 11 root units, every input up to 4 symbols, hooks with several outcomes |
| `unit_finally` | `MCUnitFinally.cfg` | *violation*: does `%finally` run if `%error` throws? | `%error` backtracks |
| `toolchain` | `MCToolchain.cfg` | do the compiler's algorithms compute what they are for, and end? | 2 kinds of grammars, programs, projects, 3 processes, about 3,000 coercions and operator uses |
| `late_input` | `MCToolchainLate.cfg` | *violation*: can a hook add any input after compilation? | one project with a late input that others have imported |

The four callers of `sinks` (`CallsOfEach` lists what each may call): *untrimmed* leaves auto-trim off and writes any segments
with conflicting content; *orderly* switches auto-trim
on and off, skips forward, and writes segments that never overlap in part; *blockwise* has several units, behind a filter, that complete and fail,
close to the wrap; *anything* makes any calls.  `BufferStaysExact`, `AllAccounted`,
and `HandsOverInOrder` hold of the first two, `SkippedDataIsReported` of the second, which is the
one of them that skips, and `sink_retransmission` shows why not of the others; `WellFormed`, `UnitsAgree` and
`UndeliveredIsNew` hold of all.  The third and the fourth caller write within the first few of 16
relative positions, close to the wrap of absolute numbers only: they meet the condition
`NothingWraps` under which they are proved.

Why the bounds are enough to be interesting:

- *Fibers.* Three Resumables nest three deep and destroy each other while
  suspended; with a cache of 2 and 5 fibers both branches of recycling are taken,
  and a recycled fiber runs a second function.
- *Sinks.* An insertion touches a hole and its two neighbours; four positions hold
  two chunks, a hole and a block that covers all three.  Five calls arrange,
  overlap and complete that.  The wrap needs an initial number close to the end only.
- *Filters.* The proof shows that pairs of filters matter; three give a first,
  a middle and a last one.  Two bytes tell "some" from "all".  A field has at most three
  attributes, and inputs are longer than each of its limits.
- *Driver.* Three IDs hold a connection and one more flow, and IDs are reused:
  five flows are begun in all.  Two modules need each other's globals, one library is
  loaded from two places, and parsers overlap in port and type.
- *Runtime types.* A chunk has a neighbour on each side; offsets up to 3 and chunks of one or
  two bytes put an iterator into, between and behind them, and a second chain is what an
  iterator is stranded on.  Two containers are one and its copy; two value references with
  one strong, one weak and `self` share and part; matches end in an earlier chunk of up to
  four.
- *Unit parsing.* Each unit isolates one thing to recover from; four symbols hold junk, two
  tokens and what follows.
- *Toolchain.* Grammars of four or five productions contain each kind of dependency between the
  three sets; the reference derivations are searched as deep as they change.  Projects have up to eight
  modules that import each other in cycles, over both languages, with up to two late inputs; programs are all sets of
  nine kinds of uses.  Two of the processes have the same inputs, the third one other ones in the same directory.  The parts that a behaviour is not about rest, with an empty program and one of the projects.

`CHECK_DEADLOCK FALSE` is set where the environment stops: calls are bounded, a
host need not feed, a batch ends, Resumables are constructed once, a pure function is
called once.

### Fairness

- *Fiber* (`TrustedStep`, in `filters`): weak fairness of the fibers' steps and of the returns into
  the main program, taken together.  One thread that is not stopped makes progress, and a payload does
  not compute forever.  The main program itself may never call again.
- *Filters* (`FairSpecParts`): weak fairness of the parsers' steps says the same; the host
  need not feed (`Feed` is not fair), so `UnitEnds` speaks of the time after end-of-data only.
- *Unit parsing* (`FairSpec`): weak fairness of `Next`: the parser's own steps, which are one
  thread, and a host that sooner or later supplies data or its end; inputs are bounded.
- *Toolchain* (`SpecPart`): weak fairness of each part's step, as each is one thread that runs to
  its end; for the builds, of every process and of every compiler job by itself, since the
  operating system schedules all of them.

The other specifications state none.

### What the violations show

Each contradicts a comment or a documented promise; the quotation is in
`PROJECT.json` under `findings`.

1. *Longer retransmissions lose data* (`sink.cc:260`).  Write position 0, then
   positions 0 and 1: with auto-trim the first chunk is gone, so the second block
   is not split; `_tryDeliver()` takes it for an old one and trims it.
2. *Sub-units of a filtered unit* (`parser-builder.cc:2324`) wait with their own,
   empty list of filters, so nobody resumes the filters while they wait, and the
   driver ends up in its assertion at `driver.cc:343`.
3. *A copied map shares its control block* (`map.h:177`), so that iterators of the
   original stay locked on nodes that are freed.
4. *`%finally` is skipped if `%error` throws* (`parser-builder.cc:226`).
5. *An input that is added late frees a unit* (`unit.cc:331`).  A Spicy module imports `hilti`; when its compilation
   is finished a hook adds `hilti` as an input (`driver.h:402-406` invites it to), the cache entry is replaced, and the next walk over
   dependencies dereferences an expired pointer.

### Further differences between code and documentation

They were met while modelling, and the models behave like the code.  Those marked *TLC*
were refuted by a property that is in a module, without a run of its own; the others come
from reading.

Sinks, filters, driver:

- A gap reported over buffered data makes `_addAndCheck()` return an iterator that was
  never assigned (`sink.cc:206`; *TLC*, `GapIsSafe`).  A gap in front of buffered data does
  not hold back what follows it (`sink.cc:104-106`, `262`; the comment at `266-268`).
- A segment that is clipped at the trim position keeps its full length when its
  end is computed (`sink.cc:198`; `sink.h:287`).
- Trimming ahead of the position leaves the position behind (`sink.cc:250`;
  `doc/autogen/types/sink.rst:95-97`).  Skipping into a chunk discards its rest
  (`sink.cc:242-243`; `sink.rst:89-91`).  Skipping a chunk that begins exactly at
  the position, after a gap, reports nothing (`sink.cc:246`).
- Without auto-trim, `%undelivered` is raised for data that was delivered
  (`sink.cc:308-326`; `sink.h:372`).
- A filter that has produced no output yet keeps the position behind, so that
  bytes are delivered twice (`sink.cc:133-135`; `sink.rst:58-60`).  A filter is
  accepted while data is buffered (`sink.h:158`; `sink.rst:31-33`).
- A segment before the initial sequence number wraps around (`sink.h:304-305`).
- A sink flushes its filters unconditionally (`sink.cc:128`), so a filter that has
  completed is resumed by the next write.  In a chain of two or more filters, after a
  filter failed and the unit recovered, the unit's next wait resumes the failed filter
  again (`filter.h:265`).
- `setParser()` after parsing began has an effect if its argument is null, against
  `driver.h`; `reset()` keeps the context; a block that fails sets `_done` but later
  blocks are still parsed; `@end-flow` on a side of a connection ends its flow (`driver.cc:526`).

Registry:

- With three public parsers the default parser is the third one (`spicy/runtime/src/init.cc:33-39`,
  against `driver.h:225-228`).  The same port twice on one unit counts as "multiple matching
  parsers".  Parsers of libraries loaded after `init()` are not indexed.  Look-up by name
  returns parsers that are not public.
- `connect_mime_type("text/*")` connects what has declared a wildcard, several times if it
  declares several types (`doc/autogen/types/sink.rst:35-42`).  A declared `*/sub` matches everything.
- Globals are initialised in the order in which modules were registered, whatever they read of
  each other (`hilti/runtime/src/init.cc:46`; `doc/programming/language/variables.rst:15`).
- The error of `library.cc:80-81` is made and not returned.

Streams:

- The hint of an iterator may be a chunk that no longer holds its byte, or be freed (`stream.h:675-684`,
  `286-290`, `1625-1629`; *TLC*, `HintsAreCurrent`); reads check it, decrementing does not.
- Trimming inside a gap keeps the gap's size (`stream.cc:52`; *TLC* with `CutsGaps`), so that the
  chunks behind it have the wrong offsets.  Trimming before the head sets it back.
- A view's size counts bytes that have been trimmed; the fast path of `extract` ignores the view's end.

Containers, references:

- `Set::erase()` and `clear()` install a block that points at null, against the comment of
  `set.h`.  `++` at the end is unchecked; iterators of two expired containers compare equal;
  appending a vector to itself is undefined.
- Move assignment of value references looks at neither side (`reference.h:248-252`) and leaves a raw null
  pointer.  `Parent::tie()` may run twice.  `ParsedUnit::reset()` leaves a strong reference.

Generated parsers:

- Synchronisation may go on from before the trimmed input (*TLC*, `NeverLost`; `doc/programming/parsing.rst:2182-2184`), after which
  a trim may never return, and
  `%synced` may run where the token is not (*TLC*, `SyncedAtToken`; `parsing.rst:2193-2196`).
- `&size` is checked after `%done`, so that `%done` and `%error` may both run
  (`parser-builder.cc:2288-2290`); a failing `%done` in trial mode runs again; `confirm()` in
  `%finally` has no effect; the inner handler swallows `backtrack()`; a limit inside of another may exceed it.
- Counted lists and `foreach` do not pass their body's first symbols on to FOLLOW (`grammar.cc`).
- After a field with `&max-size` parsing goes on at its limit and one byte instead of its end
  (`parser-builder.cc:791-792`, for units `1544-1556`; `parsing.rst:249-253`; *TLC*, `MaxSizeEndsField`).
- `skip bytes &size=N` that arrives in chunks counts wrongly (`parser-builder.cc`, near 1675;
  `parsing.rst:307-326`); a literal that is skipped under a condition pops a builder that was
  never pushed (1669, 1733); doubles wait for four bytes only (`parsers/types.cc:160-165`);
  the condition of a `switch` is dropped (`switch.h:80`); `&eod` beats `&until`; `&requires`
  and `&convert` with `&chunked` see pieces; of two stop conditions one counts; attributes
  that a type has no use for are ignored; the validator's check of strong references tests
  for value references.

Text and numbers:

- `sub(from, to)` with `to < from` returns the rest (`bytes.h:298-304`); splitting misses delimiters
  that overlap themselves (`util.cc:112`); splitting by nothing returns the whole; `rsplit1()` trims
  (`util.cc:156`); digits beyond the base are accepted (`util.h:433`); octal escapes cannot be
  expanded; decoding ASCII drops control characters.
- `toUInt` goes through signed numbers; `toInt` with a byte order shifts (`bytes.cc:172-176`);
  packing a negative `int8` throws; addresses compare without their family, and `::x` becomes
  an IPv4 address (`address.cc:34-37`); `Network` does not check its length; times beyond `INT64_MAX`.
- A shorter match is lost at an empty final chunk (`regexp.cc:145-149`); copying a finished match
  state forgets that it is done (`56-58`); two ways to write the same set of patterns share a
  cache entry (`267-275`).

Compiler:

- Types with the same constructor match exactly if their parameters do, whatever the style
  (`coercion.cc:864-866`); a constant keeps its width in the first pass (`194-195`, `259-260`);
  coercing to a value reference wraps twice (`691`); folding makes constants that are out
  of range, and does not check `-INT64_MIN`.
- Operators of low priority are never ambiguous but chosen in the order of registration
  (`resolver.cc:892-1000`); the `*_low_prio` macros have no effect (`operator.h:258`); two
  literals of different signs, and a strong with a value reference, resolve by that order as well;
  `cast<real>(5)` becomes a conversion that has no code (`resolver.cc:854-856`); some operators
  get no parentheses in C++ (`operators.cc:95-97`).
- The optimizer overlooks flags that it comes to later (`optimizer.cc:199-207`, modelled as `overlooked`) and only looks at direct
  dependencies (`1428-1433`; the driver hands over all that it compiles), and its collection does not end without a feature's constant.
- Spicy input that a hook adds in the HILTI phase fails as "not compiled down to HILTI"
  (`driver.h:402-404`); HILTI input at that time may free a unit (`late_input`).
- "This makes JIT invocations unique" (`jit.cc:592-595`) is not so for two builds of the same inputs in the same directory, which
  may fail because of each other (*TLC*, `Independent` without its condition on `Twins`); user files with the same name overwrite each other's object
  (`319-320`; *TLC*, `LibraryComplete` without `Separate`).  The result of
  `_spawnJob` is ignored (`527`), so that a lost job ends in a `poll()` without sources, which fails; a job is used
  after it is erased (`561-581`); a failed link leaves the file that `mkstemp()` made.

## 4. Proofs

Every theorem has the form `Spec => []Inv` or `Spec => [][Action]_vars` and follows from one
inductive invariant `IInv` per module, by `Init => IInv`, one lemma per action, and
`IInv => Inv`; those about sinks and streams have a condition on the caller besides `Spec`.  The assumptions are those named in the modules (sizes are naturals, null
values are not members of the sets they stand next to) and what the items below say.

- **`FiberProofs`** (`TypeCorrect`, `ControlKept`, `StackPreserved`, `OwnershipKept`,
  `OutcomesAreOwn`, `DoneStaysDone`, `CountersAgree`), for any sets
  of fibers and Resumables and any cache size.  None of the properties is
  inductive alone.  The invariant adds what the two call sites know of each other:
  which states a pending call's fiber may be in (`CallStates`), that a fiber in the middle of a function has
  frames of its own (`Entered`), who owns a fiber in terms of the cache,
  the Resumables and the destructors in progress (`Owned`, `CacheDistinct`), that a
  fiber whose payload has not ended holds no exception (`Unthrown`), and what each
  pending call will put back into the context's `resumable` (`Context`).  That a Resumable
  reports its own function's outcome needs, in addition, for whom each fiber works (`Bound`), what
  a recycled fiber has forgotten (`Kept`), and what has been reported so far (`Reported`).  A completed Resumable
  stays so because no call can be in progress for it.  The counters need the
  cardinalities of three sets (`Counted`).
- **`RuntimeTypesProofs`**, for streams (`ChainStaysWhole`, `ReadsStayRight`, `StreamIsBytes`, `IteratorsStay`), for
  any sizes and any number of chunks, iterators and chains, under the assumption `~CutsGaps`: a host
  trims at the boundary of a gap, or where there is data.  That this is needed is
  shown by TLC.  `ChunksContiguous` speaks of neighbours; what walks along the chain rely on, that chunks are
  in order (`Ordered`) and that every offset is in one of them (`Covered`), is carried along as part of
  the invariant.  `StreamIsBytes` is the refinement: each step is a step of `ByteStream` or a stutter under the mapping.
- **`RuntimeTypesProofs`**, for containers, references, counting pointers and type information
  (`IteratorsStaySafe`, `ReferencesStaySafe`, `CountsStayExact`, `TraversalStaysSafe`, and `AccessStaysSafe`, which joins them),
  for any numbers of variables, elements, cells and units.  The assumptions are in `RuntimeTypes`: null values
  are apart from what they stand next to, and containers, iterators, pointers and parents are finitely many.
  - *Containers* (`ContainersInv`), of which sets and maps are not copied (`Shares` is `FALSE`).  Containers that are alive have blocks
    of their own (`BlocksApart`).  A vector keeps its block for life and its elements have the indices
    `0 .. n-1`, so that an iterator with that block follows it (`VectorsFollow`).  In sets and maps no two nodes share
    an address, and whoever still has a container's block is at one of its nodes or its end
    (`NodesStay`): so each operation that frees a node has to renew the block, which is what `map_copied` breaks.
  - *References* (`RefsInv`).  What a reference is made of follows from its type and from what has been moved (`Shaped`);
    kin are exactly those who point to one cell (`Kinship`), so that the histories in the property can be read off the
    state; a cell has contents while it has an owner, and they are what was last assigned.
  - *Counting pointers* (`PointersInv`).  Each statement takes as many references as it makes and gives up as many as it
    destroys (`Balanced`); the rest is counting.  Here the property is all but inductive.
  - *Type information* (`TraversalInv`).  As long as the host has not changed anything, the value is a place that is there
    (`IsThere`), in the root or in the unit that it refers to, and the iterator has
    the end of the vector it walks over (`IsOver`).

  The four specifications have no variable in common; `runtime_types` runs them one at a time, and a
  behaviour of it is one of all four.  The proofs corrected the model
  in one place: whether the elements of a vector
  move when it changes was decided by the wrong number (`Change` of `TypeInfo`).
- **`UnitParsingProofs`** (`SuccessIsConfirmed`, `FinallyAlwaysRuns`), for any grammar, input and
  hooks.  The invariant looks at frames by what they are doing: the frame on top knows of an error
  that is owed unless it is about to throw again (`TopOK`), it has run the hooks that precede the place
  where it is (`RanInit`, `RanEnd`, `RanFinally`), and a caller still knows what it knew when it
  called (`LowerOK`).  `FinallyAlwaysRuns` assumes that no `%error` hook throws
  (`ErrorsReturn`), which `unit_finally` shows to be necessary; `SuccessIsConfirmed` assumes nothing.
- **`SinkProofs`** (`BufferStaysOrdered`, `UnitsStayInStep`, `UndeliveredStaysNew`), for any sequence space,
  units, filters and calls in any order.  Two conditions appear in the theorems.  `NothingWraps`: no segment
  reaches across the end of the sequence space, where the clipped bounds of a chunk would be
  in the wrong order.  And, for the last two, that no filter is connected (`~sink.filter`): a filter that
  holds data back keeps the position behind, so that bytes are delivered twice (see above).
  The invariant is one about the object (`Good`): chunks whose data fill their bounds (`Piece`),
  in order (`Ordered`), what was delivered ascends (`InOrder`), and each unit that still parses has its
  end (`InStep`).  Each method has a lemma that says how the object after it relates to the one before
  (`Becomes`).  The loops over the buffer are recursive functions, and what holds of all their
  turns follows by a least counterexample among the numbers of chunks (`UpTo`), which is an induction over
  numbers, not over data.  That nothing delivered is reported as undelivered needs both positions to
  be beyond what was delivered (`Onward`), or one call could trim what another has given out.
- **`SinkProofs`**, for the callers of `SinkCallers` (`CarefulBufferExact`, `CarefulAccounted`,
  `OrderlySkipsAreReported`, `CarefulHandOver`), for any segments, contents, appended lengths, skips and order of
  calls that `CallersAssumption` admits, on the condition that what these callers write does not wrap.  The four
  share one inductive invariant, `CallersIInv`.  Its core is `Exact`: every chunk ends where its data
  ends and the two positions are equal (`Plain`), each place before the position was delivered or announced as
  missing, and none behind it was (`Reached`), no chunk that could be
  delivered rests in the buffer (`AtRest`), and what was written is before the position or buffered.  To it come
  what each discipline gives: a caller that does not trim still has every chunk that was delivered
  (`Untrimmed`), so that nothing that arrives twice can be new in part; and chunks of an orderly caller
  begin and end where no segment is cut (`Orderly`), so that a segment is stored as a whole or not at all.  Without one of the
  two the invariant fails, which is the finding of `sink_retransmission`.
  The main steps are what one insertion does to the buffer's contents (`AddAndCheckFull`, `MergedStore`),
  what the delivery loop hands over (`TryDeliverExact`), the calls composed of them
  (`WriteExact`, `SkipToExact`, `CarefulStep`), and, for the refinement, that a
  run of adjacent chunks is what `HandOver` of `Reassembly` gives (`RunsHandOver`).
- **`Reassembly`** (`HandedOverInOrder`, `ReadyIsHandedOver`), for any horizon and set of values.
- **`FiltersProofs`** (`Invariant`, `ChainStaysSafe`, `NothingGetsLost`), for chains of any length.  The argument is
  pairwise, so that no induction along the chain is needed: of two streams whose
  filters have had their turn in this round, the later one is frozen if the
  earlier one is (`EodTravels`), a filter that has had its turn has either
  finished and said so or waits for input that has not come (`TurnsTaken`), and
  those ahead of the loop are as the loop found them (`TurnAhead`).  All of this
  is waived after an exception was caught, which ends a round half-way; that is what the
  exceptions in the properties mean.
- **`DriverProofs`** (`MapsStayIntact`, `ResumedWhenSuspended`, `StreamsSeeTheirEnd`), for any number of
  flows, connections and parsers.  The strengthening says that the flows of a
  connection were begun with it and belong to no other one (`OwnFlows`), that a
  context that is yet to be created is new (`ContextsKnown`), and that only a stream
  that is still going on has a suspended parser (`OnlyOngoingSuspended`).
- **`DriverProofs`**, for start-up (`WhatIsDeclaredIsFound`), for any libraries, modules and units, with any
  declarations, loaded and initialised in any order.  It assumes (`StartupAssumption`) that a library has finitely many
  modules, that every module registers its own units, each once, and that a MIME type is a main type and a subtype.
  The invariant adds that no module and no parser is registered twice (`Registered`), that a global which was used
  too early belongs to a module that is still there (`UsersKnown`), and that the indices hold what the registered parsers
  declare (`Indexed`).  An answer is right as the entries under a name and the declarations that claim it
  correspond one to one (`NamesAreClaims`), and as a pattern is for a type if and only if it has the key of the type, of
  its main type or of the wildcard (`KeysMatch`), the exclusions aside.  The order of registration decides about the default parser only, by the
  recursive functions `RegisteredBy` and `DefaultOf`, which are shown to exist (`Recursion`); that one parser of several
  may become the default is what the exception in `LookupIsRight` means.
- **`ToolchainProofs`**, for grammars (`TablesAreLeast`), for any grammar with any order of its productions: when they are used,
  NULLABLE, FIRST and FOLLOW satisfy their equations, and are within any other sets that do.  The invariant is that a pass
  which has changed nothing so far has seen places that need no change (`VisitedClosed`), and that no step goes beyond a
  solution, as what a place adds grows with the sets (`NewMonotonic`).  `GrammarSaysWhatDerives` is what this is for: the
  nonterminals that are left are those of the forms that the root derives; the three sets are exactly which of them derive
  nothing, what they may begin with and what may follow them in such a form; and the grammar is accepted if and only if
  at each look-ahead some symbol can come next, and none could come with both alternatives (`NextSymbolDecides`).
  `Derives` is the least reflexive and transitive relation that contains the replacement of one symbol, so an induction
  over derivations instantiates it with a set of forms.  One way, what a form has in its FIRST, and what follows its
  nonterminals, never goes beyond a solution as the form is rewritten (`YieldsFacts`); the other way, the sets
  that derivations give are a solution (`DerivedSolves`), which the tables are within.  The assumption on grammars
  (`GrammarsAssumption`) is that what is mentioned has been added, as by `_addProduction()`, and that a look-ahead has
  two alternatives of one symbol.
- **`ToolchainProofs`**, for the optimizer (`OptimizedStaysConsistent`, `RunningStays`), for any program that
  `ProgramsAssumption` admits: declarations refer to declared types, sites are in bodies and name what is
  declared, and no implementation of a method is overlooked.  Neither property is inductive, as each pass goes by what the others have left.
  The invariant, `OptimizerIInv`, adds that a site that is left is one of the program's, with or without its guard (`Sited`);
  that the flags which are true are exactly the features in use, and no guard on another one is left,
  once these have been decided (`Decided`); and that, in a round that has not changed anything, each pass that is over would find
  nothing to do (`Settled`), which is what makes the end of the rounds a fixpoint of all four passes.
  That what could run stays is itself part of the invariant: `Running` is a least set, so that each step only has to
  show that what is left contains the entries and is closed under calls.
- **`ToolchainProofs`**, for the compile driver (`CompilationIsComplete`), for any finite number of modules whose imports
  may be cyclic, any inputs, early and late, and any bound on the rounds.  Types are kept whatever a hook adds
  (`DriverTyped`); the rest holds until a late input takes a unit from the cache that others have imported, which is the
  condition `replaced = {}` of `UnitsCompiled`, and what `late_input` shows to be necessary.
  Weak pointers are safe because every unit is pending or its module's unit in the cache
  (`Owned`), and an import finds a unit of its own language there or makes one (`CachedForPlugin`).  That everything is resolved at the
  end rests on: what is resolved has all of its imports linked to units that are resolved or being worked on (`ResolvedWhole`,
  `WorkedOn`), dependencies never cross languages (`SameExtension`), and every Spicy unit is reached from a pending one while there
  is something to transform (`SpicyReached`), or it would be left behind in the first
  phase.  `Dependencies` is a recursive function on sets of units; that it gives the least closed
  set (`DependenciesFacts`) is shown by looking at a largest set for which it would not: what the
  function goes on with is larger.
- **`ToolchainProofs`**, for the job runner (`BuildsStaySound`), for any number of processes, inputs and parallel jobs, with
  the same inputs or other ones.  It assumes (`InputsAssumption`) that generated code is not one of the user's files.  A file
  is named by what it is made of: that a hash stands for what it is taken over is part of the model.  The argument has
  three parts.  Whoever writes one of the files that twins share writes the same into it, so each is incomplete or right
  (`Contents`), and so is what is loaded.  For each file that is there some process is still to remove it, as none
  leaves its phase without doing so (`Attended`); here it matters that a twin may remove a file but never adds one that it does not
  look after.  Why a build fails (`Mine`) is known only of a process without twins and with objects of its own
  (`Single`): which jobs there are in which phase (`JobsInPhase`), that its sources are there (`SourcesInPhase`), that whoever
  has been started has an object file or a failure to show for it (`ObjectsInPhase`), and what a failure and an incomplete library
  are due to (`FailuresExplained`, `LibraryInPhase`).  Steps of others touch none of these files (`OwnFilesOnly`).

Model-checked only:

- liveness (`CallsReturn`, `UnitEnds`, `ParseEnds`, `ToolchainEnds`): the prover has neither
  fairness nor `ENABLED`;
- `Progressing` and `NeverMovesBack` of unit parsing: they depend on the grammar (a
  synchronisation point inside of a byte field moves back);
- coercion and operators, and the functions of `Text`, `Binary` and `RegExp`: several are recursive definitions,
  and all compare a computation to a reference, which is an induction again; `GrammarIsExact`, too, as `toolchain` has
  it, computes derivations by recursion up to a length, while the theorem above is about all of them;
- `FieldsMeanTheirInput`: it quantifies over programs and their runs.

## 5. Not modelled

- *HILTI's name resolution, validator and code generator*: case by case translations of a typed
  syntax tree; the rounds around them are in `Compilation`, the operators in `Coercion`.
- *Operators*: access to tuple members, assignment to tuples, logical operators, function calls.
- *Base64, zlib, the fiber library, the regular expressions' automaton*: libraries.
- *Profiler, logging, configuration, tools, build*: no state that matters.
- *Hooks that call back into their sink, or close it from inside a connected
  unit*: real (see the hazards), but the outcome is that of a C++ iterator or object used
  after its end; the model's functions would have to be split at every hook.
- *Batches that break the format*; `reset()`, `skipRemaining()` and `setParser()` of `ParsingState`, which
  only other hosts call.
- *Views*: searching backwards and prefixes.  *Units*: switches, random access, `&parse-at` and `&parse-from` of units.

## 6. Plan

1. Filters behind a sink (`sink.cc:128`): a composition of `Sink` and `Filters`.
2. The code generator's types and the validator of units, as far as state depends on them.
