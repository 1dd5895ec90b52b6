--------------------------- MODULE ToolchainProofs --------------------------
(***************************************************************************)
(* Proofs about the toolchain's parts, each of them on its own.            *)
(*                                                                         *)
(* The JIT compiler: builds that share a temporary directory, for any      *)
(* number of processes and inputs, the same ones included, and any number  *)
(* of jobs at a time.  Of a process that has its files to itself, the      *)
(* invariant knows which jobs there are in which phase, and what is in the *)
(* files that they have been to: Mine.  That depends on its own record and *)
(* files only, so that the steps of others do not matter.  Of files that   *)
(* processes share it knows what may be in them, whoever has written them  *)
(* (Contents), and that someone is still going to remove them (Attended).  *)
(*                                                                         *)
(* The optimizer: any program.  What is left of it refers only to what is  *)
(* left, a round that has changed nothing so far has left its passes       *)
(* nothing to do, and what could run at the beginning stays.               *)
(*                                                                         *)
(* The compile driver: any project.  Each unit is the cache's or pending,  *)
(* the units of a plugin are all reached from the pending ones, and what   *)
(* has been resolved has its imports resolved as well.                     *)
(*                                                                         *)
(* Grammars: any grammar.  The tables never go beyond any solution of their*)
(* equations, and a pass that changes nothing leaves one.  The sets that   *)
(* derivations give are a solution, and no derivation goes beyond one; so  *)
(* the tables, the look-ahead symbols and the verdict are what they say.   *)
(***************************************************************************)
EXTENDS Jit, Optimizer, Compilation, Grammar,
  FiniteSetTheorems, SequenceTheorems, WellFoundedInduction, TLAPS

(*************************** The JIT compiler ******************************)

Phases == {"save", "compile", "link", "linking", "remove", "stop", "open", "unload", "done"}
JobsOf(p) == [input : Inputs(p) \cup {"link"}, step : {"start", "writing", "ok", "failed"}]
States(p) ==
  [pc : Phases, unsaved : SUBSET Codes[p], pending : SUBSET JobsOf(p), jobs : SUBSET JobsOf(p),
   looping : BOOLEAN, error : BOOLEAN, objects : SUBSET Objects(p),
   result : {"none", "failed", "built", "loaded"},
   linked : SUBSET UNION {Inputs(q) : q \in Procs}, lost : SUBSET JobsOf(p), abandoned : BOOLEAN]

\* The jobs of a process: those that compile in one phase, the one that links in
\* another, and none elsewhere unless it gave up on them.
JobsInPhase(p) ==
  /\ IsFiniteSet(proc[p].jobs) /\ Cardinality(proc[p].jobs) <= Parallelism
  /\ proc[p].pc \in {"save", "link", "open", "unload", "done"} => proc[p].jobs = {}
  /\ proc[p].pc = "link" => proc[p].pending = {}
  /\ proc[p].pc \in {"remove", "stop"} => proc[p].jobs = {} \/ proc[p].abandoned
  /\ proc[p].pc \in {"save", "compile", "link", "linking"} => proc[p].result = "none" /\ ~proc[p].abandoned
  /\ proc[p].pc = "compile" => \A j \in proc[p].jobs \cup proc[p].pending : j.input # "link"
  /\ proc[p].pc = "linking" =>
       \A j \in proc[p].jobs \cup proc[p].pending : j.input = "link" /\ j.step # "writing"
  /\ \A j \in proc[p].pending \cup proc[p].lost : j = Job(j.input)
  /\ proc[p].pc \in {"compile", "link", "linking"} => proc[p].objects = Objects(p)
  /\ proc[p].pc \in {"save", "compile", "link", "linking"} /\ proc[p].looping =>
       proc[p].jobs # {} \/ proc[p].lost # {}

\* The file that the linker writes to is nobody else's.
TempInPhase(p) == proc[p].pc = "linking" => Exists(Lib0(p))

\* The rest is known of a process that has all of its files to itself, and the
\* objects apart.
Single(p) == Separate(p) /\ Twins(p) = {p}

\* The generated code is there while it is compiled.
SourcesInPhase(p) ==
  /\ proc[p].pc = "save" => \A c \in Codes[p] \ proc[p].unsaved : Exists(Cc(p, c))
  /\ proc[p].pc = "compile" => \A c \in Codes[p] : Exists(Cc(p, c))

\* Whoever has started to compile an input has an object file, and nobody else;
\* one that is not complete is being written.
Begun(p, c) == Exists(Obj(p, c)) \/ Job(c) \in proc[p].pending \cup proc[p].jobs \cup proc[p].lost
ObjectsInPhase(p) ==
  /\ proc[p].pc \in {"save", "compile", "link", "linking"} =>
       \A c \in Inputs(p) : Exists(Obj(p, c)) =>
         disk[Obj(p, c)] = {c} \/ [Job(c) EXCEPT !.step = "writing"] \in proc[p].jobs
  /\ proc[p].pc \in {"compile", "link"} =>
       \A c \in Inputs(p) :
         Begun(p, c) \/ [Job(c) EXCEPT !.step = "failed"] \in proc[p].jobs \/ proc[p].error
  /\ proc[p].pc = "linking" => \A c \in Inputs(p) : Exists(Obj(p, c))

\* A build fails for a reason.
FailuresExplained(p) ==
  /\ proc[p].pc = "compile" => \A j \in proc[p].jobs : j.step = "failed" => j.input \in Rejected
  /\ proc[p].pc = "linking" => \A j \in proc[p].jobs : j.step # "failed"
  /\ proc[p].pc \in {"save", "link", "linking"} => ~proc[p].error
  /\ proc[p].error => Inputs(p) \cap Rejected # {}
  /\ proc[p].result = "failed" => Reason(p)

\* The library is complete, unless its linker has not run.
Built(p) == proc[p].pc = "open" \/ (proc[p].pc \in {"remove", "stop"} /\ proc[p].result = "built")
LibraryInPhase(p) ==
  /\ proc[p].pc = "linking" =>
       \/ disk[Lib0(p)] = Inputs(p)
       \/ disk[Lib0(p)] = Partial /\ Linking \in proc[p].pending \cup proc[p].jobs \cup proc[p].lost
  /\ Built(p) =>
       /\ Exists(Lib(p)) /\ (disk[Lib(p)] = Inputs(p) \/ (disk[Lib(p)] = Partial /\ proc[p].lost # {}))
       /\ proc[p].result = "built"
  /\ proc[p].result = "built" => Built(p)

Mine(p) ==
  /\ JobsInPhase(p) /\ TempInPhase(p)
  /\ Single(p) => SourcesInPhase(p) /\ ObjectsInPhase(p) /\ FailuresExplained(p) /\ LibraryInPhase(p)

FilesTyped ==
  \A f \in DOMAIN disk : disk[f] = Partial \/ disk[f] \subseteq UNION {Inputs(p) : p \in Procs}

\* Whoever has written a file that twins share, it is the same when it is complete.
Contents(p) ==
  Separate(p) =>
    /\ \A c \in Inputs(p) : Exists(Obj(p, c)) => disk[Obj(p, c)] \in {Partial, {c}}
    /\ Exists(Lib0(p)) => disk[Lib0(p)] \in {Partial, Inputs(p)}
    /\ Exists(Lib(p)) => disk[Lib(p)] \in {Partial, Inputs(p)}
    /\ proc[p].result = "loaded" => proc[p].linked = Inputs(p)

\* For each file there is a process that is going to remove it.
KeepsObjects(q) ==
  \/ proc[q].pc \in {"compile", "link", "linking", "remove"} /\ proc[q].objects = Objects(q)
  \/ proc[q].abandoned
KeepsSources(q) == proc[q].pc \in {"save", "compile"}
KeepsLibrary(q) == Built(q) \/ proc[q].pc = "unload"
Attended(p) ==
  /\ \A c \in Inputs(p) : Exists(Obj(p, c)) => \E q \in Twins(p) : KeepsObjects(q)
  /\ \A c \in Codes[p] : Exists(Cc(p, c)) => \E q \in Twins(p) : KeepsSources(q)
  /\ Exists(Lib(p)) => \E q \in Twins(p) : KeepsLibrary(q)

IInv ==
  /\ DOMAIN proc = Procs /\ \A p \in Procs : proc[p] \in States(p)
  /\ FilesTyped
  /\ \A p \in Procs : Mine(p) /\ Contents(p) /\ Attended(p)

-----------------------------------------------------------------------------
(* Files *)

Same(f) == (f \in DOMAIN disk' <=> f \in DOMAIN disk) /\ (f \in DOMAIN disk => disk'[f] = disk[f])
OwnFiles(p) == {Cc(p, c) : c \in Codes[p]} \cup {Obj(p, c) : c \in Inputs(p)} \cup {Lib(p), Lib0(p)}

\* Writing a file leaves the others alone.
LEMMA WrittenFile ==
  ASSUME NEW f, NEW x, disk' = Written(f, x)
  PROVE  f \in DOMAIN disk' /\ disk'[f] = x /\ \A g : g # f => Same(g)
  BY DEF Written, Same

\* So does removing some.
LEMMA RemovedFiles ==
  ASSUME NEW fs, disk' = Removed(fs)
  PROVE  \A f : (f \in fs => f \notin DOMAIN disk') /\ (f \notin fs => Same(f))
  BY DEF Removed, Same

\* The names of two files are equal only if they are twins', and the same inputs'.
LEMMA NamesApart ==
  ASSUME InputsAssumption, NEW p \in Procs, NEW q \in Procs, NEW c \in Inputs(p), NEW d \in Inputs(q)
  PROVE  /\ Obj(p, c) = Obj(q, d) => Hash(p) = Hash(q) /\ (Separate(p) => c = d)
         /\ Cc(p, c) = Cc(q, d) => Hash(p) = Hash(q) /\ c = d
         /\ Lib(p) = Lib(q) => Hash(p) = Hash(q)
         /\ Lib0(p) = Lib0(q) => p = q
<1>1. Obj(p, c) = Obj(q, d) => Hash(p) = Hash(q) /\ (Separate(p) => c = d)
  <2>1. SUFFICES ASSUME Obj(p, c) = Obj(q, d)
                 PROVE  Hash(p) = Hash(q) /\ (Separate(p) => c = d)
    OBVIOUS
  <2>2. CASE c \in Codes[p] /\ d \in Codes[q]
    BY <2>1, <2>2 DEF Obj
  <2>3. CASE c \notin Codes[p] /\ d \notin Codes[q]
    <3>1. FileName[c] = FileName[d] /\ Hash(p) = Hash(q)
      BY <2>1, <2>3 DEF Obj
    <3>2. Files[p] = Files[q]
      BY <3>1 DEF Hash
    <3>3. QED
      BY <2>3, <3>1, <3>2 DEF Inputs, Separate
  <2>4. CASE (c \in Codes[p]) # (d \in Codes[q])
    BY <2>1, <2>4 DEF Obj
  <2>5. QED
    BY <2>2, <2>3, <2>4
<1>2. QED
  BY <1>1 DEF Cc, Lib, Lib0

\* Twins have the same inputs, and the same names for everything else.
LEMMA TwinsShare ==
  ASSUME NEW p \in Procs, NEW q \in Procs, Hash(p) = Hash(q)
  PROVE  /\ Codes[p] = Codes[q] /\ Inputs(p) = Inputs(q) /\ Lib(p) = Lib(q)
         /\ Separate(p) <=> Separate(q)
         /\ p \in Twins(q) /\ q \in Twins(p) /\ Twins(p) = Twins(q)
         /\ \A c : Obj(p, c) = Obj(q, c) /\ Cc(p, c) = Cc(q, c)
<1>1. Codes[p] = Codes[q] /\ Files[p] = Files[q]
  BY DEF Hash
<1>2. Inputs(p) = Inputs(q) /\ Lib(p) = Lib(q) /\ (Separate(p) <=> Separate(q))
  BY <1>1 DEF Inputs, Lib, Separate
<1>3. p \in Twins(q) /\ q \in Twins(p) /\ Twins(p) = Twins(q)
  BY DEF Twins
<1>4. \A c : Obj(p, c) = Obj(q, c) /\ Cc(p, c) = Cc(q, c)
  BY <1>1 DEF Obj, Cc
<1>5. QED
  BY <1>1, <1>2, <1>3, <1>4

\* Neither are files of two kinds.
LEMMA KindsApart ==
  ASSUME NEW p, NEW q, NEW c, NEW d
  PROVE  /\ Obj(p, c) # Cc(q, d) /\ Obj(p, c) # Lib(q) /\ Obj(p, c) # Lib0(q)
         /\ Cc(p, c) # Lib(q) /\ Cc(p, c) # Lib0(q) /\ Lib(p) # Lib0(q)
  BY DEF Obj, Cc, Lib, Lib0

-----------------------------------------------------------------------------
(* Other processes *)

\* What is known of a process stays so while neither its record nor its files
\* change.
LEMMA Untouched ==
  ASSUME NEW p \in Procs, Mine(p), proc'[p] = proc[p], Same(Lib0(p)),
         Single(p) => \A f \in OwnFiles(p) : Same(f)
  PROVE  Mine(p)'
<1>1. JobsInPhase(p)' /\ TempInPhase(p)'
  BY DEF Mine, JobsInPhase, TempInPhase, Exists, Same
<1>2. ASSUME Single(p)
      PROVE  (SourcesInPhase(p) /\ ObjectsInPhase(p) /\ FailuresExplained(p) /\ LibraryInPhase(p))'
  <2>1. /\ \A c \in Codes[p] : Same(Cc(p, c))
        /\ \A c \in Inputs(p) : Same(Obj(p, c))
        /\ Same(Lib(p)) /\ Same(Lib0(p))
    BY <1>2 DEF OwnFiles
  <2>2. SourcesInPhase(p)'
    BY <1>2, <2>1 DEF Mine, SourcesInPhase, Exists, Same
  <2>3. ObjectsInPhase(p)'
    BY <1>2, <2>1 DEF Mine, ObjectsInPhase, Begun, Exists, Same
  <2>4. FailuresExplained(p)'
    BY <1>2 DEF Mine, FailuresExplained, Reason
  <2>5. LibraryInPhase(p)'
    BY <1>2, <2>1 DEF Mine, LibraryInPhase, TempInPhase, Built, Exists, Same
  <2>6. QED
    BY <2>2, <2>3, <2>4, <2>5
<1>3. QED
  BY <1>1, <1>2 DEF Mine

\* A step of one process writes and removes its own files only.
LEMMA OwnFilesOnly ==
  ASSUME InputsAssumption, IInv, NEW q \in Procs, ToolStep(q) \/ JobStep(q), NEW f, f \notin OwnFiles(q)
  PROVE  Same(f)
<1>1. /\ \A c \in Codes[q] : f # Cc(q, c)
      /\ \A c \in Inputs(q) : f # Obj(q, c)
      /\ f # Lib(q) /\ f # Lib0(q)
  BY DEF OwnFiles
<1>2. f \notin Sources(q) /\ f \notin proc[q].objects
  BY <1>1 DEF Sources, Objects, ObjectsOf, IInv, States
<1>3. CASE UNCHANGED disk
  BY <1>3 DEF Same
<1>4. ASSUME NEW g, NEW x, disk' = Written(g, x), f # g
      PROVE  Same(f)
  BY <1>4, WrittenFile
<1>5. ASSUME NEW fs, disk' = Removed(fs), f \notin fs
      PROVE  Same(f)
  BY <1>5, RemovedFiles
<1>6. CASE Save(q)
  BY <1>1, <1>3, <1>4, <1>6 DEF Save, IInv, States
<1>7. CASE Schedule(q) \/ SpawnJob(q) \/ Collect(q) \/ StopJobs(q) \/ OpenLibrary(q)
  BY <1>3, <1>7 DEF Schedule, SpawnJob, Collect, StopJobs, OpenLibrary
<1>8. CASE Refuse(q) \/ PollError(q) \/ EndCompile(q)
  BY <1>2, <1>3, <1>5, <1>8 DEF Refuse, PollError, EndCompile
<1>9. CASE Link(q)
  BY <1>1, <1>4, <1>9 DEF Link
<1>10. CASE EndLink(q)
  <2>1. CASE proc[q].error
    BY <1>3, <1>10, <2>1 DEF EndLink
  <2>2. CASE ~proc[q].error
    BY <1>1, <1>10, <2>2 DEF EndLink, Same
  <2>3. QED
    BY <2>1, <2>2
<1>11. CASE RemoveObjects(q)
  BY <1>2, <1>5, <1>11 DEF RemoveObjects
<1>12. CASE Unload(q)
  BY <1>1, <1>5, <1>12 DEF Unload
<1>13. CASE Compile(q)
  <2>1. PICK j \in proc[q].jobs :
          /\ j.input # "link"
          /\ UNCHANGED disk \/ \E x : disk' = Written(Obj(q, j.input), x)
    BY <1>13 DEF Compile
  <2>2. j.input \in Inputs(q)
    BY <2>1 DEF IInv, States, JobsOf
  <2>3. QED
    BY <1>1, <1>3, <1>4, <2>1, <2>2
<1>14. CASE LinkObjects(q)
  BY <1>1, <1>3, <1>4, <1>14 DEF LinkObjects
<1>15. QED
  BY <1>6, <1>7, <1>8, <1>9, <1>10, <1>11, <1>12, <1>13, <1>14 DEF ToolStep, JobStep

\* So what is known of the others stays.
LEMMA OthersStay ==
  ASSUME InputsAssumption, IInv, NEW q \in Procs, ToolStep(q) \/ JobStep(q),
         NEW p \in Procs, p # q, proc'[p] = proc[p]
  PROVE  Mine(p)'
<1>1. Same(Lib0(p))
  <2>1. \A c : Lib0(p) # Cc(q, c) /\ Lib0(p) # Obj(q, c)
    BY KindsApart
  <2>2. Lib0(p) # Lib(q) /\ Lib0(p) # Lib0(q)
    BY KindsApart DEF Lib0
  <2>3. Lib0(p) \notin OwnFiles(q)
    BY <2>1, <2>2 DEF OwnFiles
  <2>4. QED
    BY <2>3, OwnFilesOnly
<1>2. ASSUME Single(p)
      PROVE  OwnFiles(p) \cap OwnFiles(q) = {}
  <2>1. Hash(p) # Hash(q)
    BY <1>2 DEF Single, Twins
  <2>2. \A c \in Inputs(p), d \in Inputs(q) : Obj(p, c) # Obj(q, d) /\ Cc(p, c) # Cc(q, d)
    BY <2>1, NamesApart
  <2>3. Codes[p] \subseteq Inputs(p) /\ Codes[q] \subseteq Inputs(q)
    BY DEF Inputs
  <2>4. Lib(p) # Lib(q) /\ Lib0(p) # Lib0(q)
    BY <2>1 DEF Lib, Lib0
  <2>5. \A f \in OwnFiles(p), g \in OwnFiles(q) : f # g
    BY <2>2, <2>3, <2>4, KindsApart DEF OwnFiles
  <2>6. QED
    BY <2>5
<1>3. Single(p) => \A f \in OwnFiles(p) : Same(f)
  BY <1>2, OwnFilesOnly
<1>4. QED
  BY <1>1, <1>3, Untouched DEF IInv

-----------------------------------------------------------------------------
(* The process itself *)

\* What the invariant says before a step.
LEMMA Before ==
  ASSUME IInv, NEW p \in Procs
  PROVE  DOMAIN proc = Procs /\ proc[p] \in States(p) /\ FilesTyped /\ Mine(p)
  BY DEF IInv

\* What follows for a step: the types of the record and of the files, and Mine.
Stays(p) == proc'[p] \in States(p) /\ FilesTyped' /\ Mine(p)'

\* Removing files keeps the types of the others.
LEMMA RemovedTyped ==
  ASSUME FilesTyped, NEW fs, disk' = Removed(fs)
  PROVE  FilesTyped'
  BY RemovedFiles DEF FilesTyped, Same

\* The record of a process that has failed.
LEMMA FailedRecord ==
  ASSUME NEW p \in Procs, proc[p] \in States(p)
  PROVE  /\ Failed(p) \in States(p) /\ Failed(p).pc = "remove" /\ Failed(p).result = "failed"
         /\ Failed(p).pending = proc[p].pending /\ Failed(p).jobs = proc[p].jobs
         /\ Failed(p).lost = proc[p].lost /\ Failed(p).error = proc[p].error
         /\ Failed(p).abandoned = proc[p].abandoned
         /\ Failed(p).objects = proc[p].objects /\ Failed(p).looping = proc[p].looping
  BY DEF States, Phases, Failed, Finish

\* The generated code is saved one by one.
LEMMA SaveStays ==
  ASSUME InputsAssumption, IInv, NEW p \in Procs, Save(p)
  PROVE  Stays(p)
<1>0. DOMAIN proc = Procs /\ proc[p] \in States(p) /\ FilesTyped /\ Mine(p) /\ proc[p].pc = "save"
  BY Before DEF Save, At
<1>1. PICK c \in proc[p].unsaved :
        /\ disk' = Written(Cc(p, c), {c})
        /\ proc'[p] = [proc[p] EXCEPT !.unsaved = @ \ {c}]
  BY <1>0 DEF Save, Set
<1>2. /\ proc'[p] \in States(p) /\ proc'[p].pc = "save" /\ proc'[p].unsaved = proc[p].unsaved \ {c}
      /\ proc'[p].pending = proc[p].pending
      /\ proc'[p].jobs = proc[p].jobs /\ proc'[p].lost = proc[p].lost /\ proc'[p].error = proc[p].error
      /\ proc'[p].result = proc[p].result /\ proc'[p].abandoned = proc[p].abandoned
      /\ proc'[p].objects = proc[p].objects /\ proc'[p].looping = proc[p].looping
  BY <1>0, <1>1 DEF States
<1>3. c \in Inputs(p) /\ Cc(p, c) \in DOMAIN disk' /\ disk'[Cc(p, c)] = {c} /\ \A g : g # Cc(p, c) => Same(g)
  BY <1>0, <1>1, WrittenFile DEF States, Inputs
<1>4. JobsInPhase(p)' /\ TempInPhase(p)'
  BY <1>0, <1>2 DEF Mine, JobsInPhase, TempInPhase
<1>5. Single(p) => SourcesInPhase(p)'
  BY <1>0, <1>2, <1>3 DEF Mine, SourcesInPhase, Exists, Same
<1>6. \A d : Same(Obj(p, d))
  BY <1>3, KindsApart
<1>7. Single(p) => ObjectsInPhase(p)'
  BY <1>0, <1>2, <1>6 DEF Mine, ObjectsInPhase, Begun, Exists, Same
<1>8. Single(p) => FailuresExplained(p)'
  BY <1>0, <1>2 DEF Mine, FailuresExplained, Reason
<1>9. Single(p) => LibraryInPhase(p)'
  BY <1>0, <1>2 DEF Mine, LibraryInPhase, JobsInPhase, Built
<1>10. FilesTyped'
  BY <1>0, <1>3 DEF FilesTyped, Same
<1>11. QED
  BY <1>2, <1>4, <1>5, <1>7, <1>8, <1>9, <1>10 DEF Stays, Mine

\* Then all inputs become jobs.
LEMMA ScheduleStays ==
  ASSUME InputsAssumption, IInv, NEW p \in Procs, Schedule(p)
  PROVE  Stays(p)
<1>0. DOMAIN proc = Procs /\ proc[p] \in States(p) /\ FilesTyped /\ Mine(p) /\ proc[p].pc = "save"
  BY Before DEF Schedule, At
<1>1. /\ UNCHANGED disk /\ \A c \in Codes[p] : Exists(Cc(p, c))
      /\ proc'[p] = [proc[p] EXCEPT !.pc = "compile", !.pending = {Job(c) : c \in Inputs(p)},
                                   !.objects = Objects(p)]
  BY <1>0 DEF Schedule, Set, Sources
<1>2. {Job(c) : c \in Inputs(p)} \subseteq JobsOf(p)
  BY DEF JobsOf, Job
<1>3. /\ proc'[p] \in States(p) /\ proc'[p].pc = "compile" /\ proc'[p].pending = {Job(c) : c \in Inputs(p)}
      /\ proc'[p].jobs = proc[p].jobs /\ proc'[p].lost = proc[p].lost /\ proc'[p].error = proc[p].error
      /\ proc'[p].result = proc[p].result /\ proc'[p].abandoned = proc[p].abandoned
      /\ proc'[p].objects = Objects(p) /\ proc'[p].looping = proc[p].looping
  BY <1>0, <1>1, <1>2 DEF States, Phases
<1>4. JobsInPhase(p)' /\ TempInPhase(p)'
  BY <1>0, <1>3 DEF Mine, JobsInPhase, TempInPhase, InputsAssumption, Job
<1>5. Single(p) => SourcesInPhase(p)'
  BY <1>1, <1>3 DEF SourcesInPhase, Exists
<1>6. Single(p) => ObjectsInPhase(p)'
  BY <1>0, <1>1, <1>3 DEF Mine, ObjectsInPhase, JobsInPhase, Begun, Exists
<1>7. Single(p) => FailuresExplained(p)'
  BY <1>0, <1>3 DEF Mine, FailuresExplained, JobsInPhase, Reason
<1>8. Single(p) => LibraryInPhase(p)'
  BY <1>0, <1>3 DEF Mine, LibraryInPhase, JobsInPhase, Built
<1>9. QED
  BY <1>0, <1>1, <1>3, <1>4, <1>5, <1>6, <1>7, <1>8 DEF Stays, Mine, FilesTyped

\* Only a twin can have removed what was saved.
LEMMA RefuseStays ==
  ASSUME InputsAssumption, IInv, NEW p \in Procs, Refuse(p)
  PROVE  Stays(p)
<1>0. /\ DOMAIN proc = Procs /\ proc[p] \in States(p) /\ FilesTyped /\ Mine(p) /\ proc[p].pc = "save"
      /\ proc[p].unsaved = {} /\ disk' = Removed(Sources(p))
  BY Before DEF Refuse, At
<1>1. PICK c \in Codes[p], cs \in SUBSET Codes[p] :
        /\ ~Exists(Cc(p, c))
        /\ proc'[p] = [Failed(p) EXCEPT !.objects = ObjectsOf(p, Files[p] \cup cs \cup {c})]
  BY <1>0 DEF Refuse, Set
<1>2. ObjectsOf(p, Files[p] \cup cs \cup {c}) \in SUBSET Objects(p)
  BY DEF ObjectsOf, Objects, Inputs
<1>3. /\ proc'[p] \in States(p) /\ proc'[p].pc = "remove" /\ proc'[p].result = "failed"
      /\ proc'[p].pending = proc[p].pending /\ proc'[p].jobs = proc[p].jobs /\ proc'[p].lost = proc[p].lost
  BY <1>0, <1>1, <1>2, FailedRecord DEF States
<1>4. JobsInPhase(p)' /\ TempInPhase(p)'
  BY <1>0, <1>3 DEF Mine, JobsInPhase, TempInPhase
<1>5. ~Single(p)
  BY <1>0, <1>1 DEF Mine, SourcesInPhase
<1>6. QED
  BY <1>0, <1>3, <1>4, <1>5, RemovedTyped DEF Stays, Mine

\* A job that is started moves on, and one that fails to start is lost.
LEMMA SpawnStays ==
  ASSUME InputsAssumption, Parallelism \in Nat, IInv, NEW p \in Procs, SpawnJob(p)
  PROVE  Stays(p)
<1>0. /\ DOMAIN proc = Procs /\ proc[p] \in States(p) /\ FilesTyped /\ Mine(p) /\ UNCHANGED disk
      /\ proc[p].pc \in {"compile", "linking"} /\ Cardinality(proc[p].jobs) < Parallelism
  BY Before DEF SpawnJob, Waiting, MaySpawn
<1>1. ASSUME NEW j \in proc[p].pending,
             proc'[p] = [proc[p] EXCEPT !.pending = @ \ {j}, !.jobs = @ \cup {j}, !.looping = TRUE]
      PROVE  Stays(p)
  <2>0. /\ proc[p].pending \ {j} \in SUBSET JobsOf(p) /\ proc[p].jobs \cup {j} \in SUBSET JobsOf(p)
    BY <1>0, <1>1 DEF States
  <2>1. /\ proc'[p] \in States(p) /\ proc'[p].pc = proc[p].pc
        /\ proc'[p].pending = proc[p].pending \ {j} /\ proc'[p].jobs = proc[p].jobs \cup {j}
        /\ proc'[p].lost = proc[p].lost /\ proc'[p].error = proc[p].error
        /\ proc'[p].result = proc[p].result /\ proc'[p].abandoned = proc[p].abandoned
        /\ proc'[p].objects = proc[p].objects /\ proc'[p].looping
    BY <1>0, <1>1, <2>0 DEF States
  <2>2. IsFiniteSet(proc[p].jobs)
    BY <1>0 DEF Mine, JobsInPhase
  <2>3. IsFiniteSet(proc'[p].jobs) /\ Cardinality(proc'[p].jobs) <= Parallelism
    <3>1. /\ IsFiniteSet(proc[p].jobs \cup {j}) /\ Cardinality(proc[p].jobs) \in Nat
          /\ \/ Cardinality(proc[p].jobs \cup {j}) = Cardinality(proc[p].jobs)
             \/ Cardinality(proc[p].jobs \cup {j}) = Cardinality(proc[p].jobs) + 1
      BY <2>2, FS_AddElement, FS_CardinalityType
    <3>2. QED
      BY <1>0, <2>1, <3>1
  <2>4. JobsInPhase(p)' /\ TempInPhase(p)'
    BY <1>0, <1>1, <2>1, <2>3 DEF Mine, JobsInPhase, TempInPhase, Exists
  <2>5. Single(p) => SourcesInPhase(p)'
    BY <1>0, <2>1 DEF Mine, SourcesInPhase, Exists
  <2>6. Single(p) => ObjectsInPhase(p)'
    BY <1>0, <2>1 DEF Mine, ObjectsInPhase, Begun, Exists
  <2>7. j.step = "start"
    BY <1>0, <1>1 DEF Mine, JobsInPhase, Job
  <2>8. Single(p) => FailuresExplained(p)'
    BY <1>0, <2>1, <2>7 DEF Mine, FailuresExplained, Reason
  <2>9. Single(p) => LibraryInPhase(p)'
    BY <1>0, <2>1 DEF Mine, LibraryInPhase, JobsInPhase, Built, Exists
  <2>10. QED
    BY <1>0, <2>1, <2>4, <2>5, <2>6, <2>8, <2>9 DEF Stays, Mine, FilesTyped
<1>2. ASSUME NEW j \in proc[p].pending,
             proc'[p] = [proc[p] EXCEPT !.pending = @ \ {j}, !.lost = @ \cup {j}, !.looping = TRUE]
      PROVE  Stays(p)
  <2>0. /\ proc[p].pending \ {j} \in SUBSET JobsOf(p) /\ proc[p].lost \cup {j} \in SUBSET JobsOf(p)
    BY <1>0, <1>2 DEF States
  <2>1. /\ proc'[p] \in States(p) /\ proc'[p].pc = proc[p].pc
        /\ proc'[p].pending = proc[p].pending \ {j} /\ proc'[p].jobs = proc[p].jobs
        /\ proc'[p].lost = proc[p].lost \cup {j} /\ proc'[p].error = proc[p].error
        /\ proc'[p].result = proc[p].result /\ proc'[p].abandoned = proc[p].abandoned
        /\ proc'[p].objects = proc[p].objects /\ proc'[p].looping
    BY <1>0, <1>2, <2>0 DEF States
  <2>2. JobsInPhase(p)' /\ TempInPhase(p)'
    BY <1>0, <1>2, <2>1 DEF Mine, JobsInPhase, TempInPhase, Exists
  <2>3. Single(p) => SourcesInPhase(p)'
    BY <1>0, <2>1 DEF Mine, SourcesInPhase, Exists
  <2>4. Single(p) => ObjectsInPhase(p)'
    BY <1>0, <2>1 DEF Mine, ObjectsInPhase, Begun, Exists
  <2>5. Single(p) => FailuresExplained(p)'
    BY <1>0, <2>1 DEF Mine, FailuresExplained, Reason
  <2>6. Single(p) => LibraryInPhase(p)'
    BY <1>0, <2>1 DEF Mine, LibraryInPhase, JobsInPhase, Built, Exists
  <2>7. QED
    BY <1>0, <2>1, <2>2, <2>3, <2>4, <2>5, <2>6 DEF Stays, Mine, FilesTyped
<1>3. QED
  BY <1>0, <1>1, <1>2 DEF SpawnJob, Set

\* A job that has failed has failed for a reason, and is remembered.
LEMMA CollectStays ==
  ASSUME InputsAssumption, Parallelism \in Nat, IInv, NEW p \in Procs, Collect(p)
  PROVE  Stays(p)
<1>0. /\ DOMAIN proc = Procs /\ proc[p] \in States(p) /\ FilesTyped /\ Mine(p) /\ UNCHANGED disk
      /\ proc[p].pc \in {"compile", "linking"}
  BY Before DEF Collect, Waiting
<1>1. PICK j \in proc[p].jobs :
        /\ j.step \in {"ok", "failed"}
        /\ proc'[p] = [proc[p] EXCEPT !.jobs = @ \ {j}, !.looping = FALSE, !.error = @ \/ j.step = "failed"]
  BY <1>0 DEF Collect, Set
<1>2. proc[p].jobs \ {j} \in SUBSET JobsOf(p) /\ (proc[p].error \/ j.step = "failed") \in BOOLEAN
  BY <1>0 DEF States
<1>3. /\ proc'[p] \in States(p) /\ proc'[p].pc = proc[p].pc
      /\ proc'[p].pending = proc[p].pending /\ proc'[p].jobs = proc[p].jobs \ {j}
      /\ proc'[p].lost = proc[p].lost /\ proc'[p].error = (proc[p].error \/ j.step = "failed")
      /\ proc'[p].result = proc[p].result /\ proc'[p].abandoned = proc[p].abandoned
      /\ proc'[p].objects = proc[p].objects /\ ~proc'[p].looping
  BY <1>0, <1>1, <1>2 DEF States
<1>4. IsFiniteSet(proc'[p].jobs) /\ Cardinality(proc'[p].jobs) <= Parallelism
  <2>1. IsFiniteSet(proc[p].jobs) /\ Cardinality(proc[p].jobs) <= Parallelism
    BY <1>0 DEF Mine, JobsInPhase
  <2>2. /\ IsFiniteSet(proc'[p].jobs) /\ Cardinality(proc'[p].jobs) \in Nat
        /\ Cardinality(proc[p].jobs) \in Nat /\ Cardinality(proc'[p].jobs) <= Cardinality(proc[p].jobs)
    BY <1>3, <2>1, FS_Subset, FS_CardinalityType
  <2>3. QED
    BY <2>1, <2>2
<1>5. JobsInPhase(p)' /\ TempInPhase(p)'
  BY <1>0, <1>3, <1>4 DEF Mine, JobsInPhase, TempInPhase, Exists
<1>6. Single(p) => SourcesInPhase(p)'
  BY <1>0, <1>3 DEF Mine, SourcesInPhase, Exists
<1>7. \A c : j # Job(c) /\ j # [Job(c) EXCEPT !.step = "writing"]
             /\ (j = [Job(c) EXCEPT !.step = "failed"] => j.step = "failed")
  BY <1>1 DEF Job
<1>8. (j.step = "failed" => proc'[p].error) /\ (proc[p].error => proc'[p].error)
  BY <1>3
<1>9. Single(p) => ObjectsInPhase(p)'
  BY <1>0, <1>3, <1>7, <1>8 DEF Mine, ObjectsInPhase, Begun, Exists
<1>10. Single(p) => FailuresExplained(p)'
  <2>1. Single(p) /\ proc[p].pc = "linking" => j.step = "ok"
    BY <1>0, <1>1 DEF Mine, FailuresExplained
  <2>2. proc[p].pc = "compile" => j.input \in Inputs(p)
    BY <1>0, <1>1 DEF Mine, JobsInPhase, States, JobsOf
  <2>3. QED
    BY <1>0, <1>1, <1>3, <2>1, <2>2 DEF Mine, FailuresExplained, Reason
<1>11. Single(p) => LibraryInPhase(p)'
  BY <1>0, <1>3, <1>7 DEF Mine, LibraryInPhase, JobsInPhase, Built, Exists, Linking
<1>12. QED
  BY <1>0, <1>3, <1>5, <1>6, <1>9, <1>10, <1>11 DEF Stays, Mine, FilesTyped

\* Whoever gives up leaves its objects to the jobs that still run.
LEMMA PollErrorStays ==
  ASSUME InputsAssumption, Parallelism \in Nat, IInv, NEW p \in Procs, PollError(p)
  PROVE  Stays(p)
<1>0. /\ DOMAIN proc = Procs /\ proc[p] \in States(p) /\ FilesTyped /\ Mine(p)
      /\ proc[p].pc \in {"compile", "linking"}
      /\ proc[p].jobs = {} => proc[p].looping \/ (proc[p].pending # {} /\ ~MaySpawn(p))
      /\ proc'[p] = [Failed(p) EXCEPT !.abandoned = proc[p].jobs # {}]
      /\ disk' = IF proc[p].pc = "compile" THEN Removed(Sources(p)) ELSE disk
  BY Before DEF PollError, Waiting, Set, At
<1> DEFINE left == proc[p].jobs # {}
<1>1. left \in BOOLEAN /\ proc'[p] = [Failed(p) EXCEPT !.abandoned = left]
  BY <1>0
<1> HIDE DEF left
<1>2. /\ proc'[p] \in States(p) /\ proc'[p].pc = "remove" /\ proc'[p].result = "failed"
      /\ proc'[p].abandoned = left
      /\ proc'[p].pending = proc[p].pending /\ proc'[p].jobs = proc[p].jobs
      /\ proc'[p].lost = proc[p].lost /\ proc'[p].error = proc[p].error
  BY <1>0, <1>1, FailedRecord DEF States
<1>3. JobsInPhase(p)' /\ TempInPhase(p)'
  BY <1>0, <1>2 DEF Mine, JobsInPhase, TempInPhase, left
<1>4. Reason(p)'
  <2>1. CASE proc[p].jobs # {}
    BY <1>2, <2>1 DEF Reason, left
  <2>2. CASE proc[p].jobs = {} /\ proc[p].looping
    BY <1>0, <1>2, <2>2 DEF Mine, JobsInPhase, Reason
  <2>3. CASE proc[p].jobs = {} /\ ~proc[p].looping
    <3>1. ~(Cardinality({}) < Parallelism) /\ Cardinality({}) = 0
      BY <1>0, <2>3, FS_EmptySet DEF MaySpawn
    <3>2. QED
      BY <3>1 DEF Reason
  <2>4. QED
    BY <1>0, <2>1, <2>2, <2>3
<1>5. Single(p) => (SourcesInPhase(p) /\ ObjectsInPhase(p))'
  BY <1>2 DEF SourcesInPhase, ObjectsInPhase
<1>6. Single(p) => FailuresExplained(p)'
  BY <1>0, <1>2, <1>4 DEF Mine, FailuresExplained
<1>7. Single(p) => LibraryInPhase(p)'
  BY <1>2 DEF LibraryInPhase, Built
<1>8. FilesTyped'
  BY <1>0, RemovedTyped DEF FilesTyped
<1>9. QED
  BY <1>2, <1>3, <1>5, <1>6, <1>7, <1>8 DEF Stays, Mine

\* Nothing runs anymore when the generated code is removed.
LEMMA EndCompileStays ==
  ASSUME InputsAssumption, IInv, NEW p \in Procs, EndCompile(p)
  PROVE  Stays(p)
<1>0. /\ DOMAIN proc = Procs /\ proc[p] \in States(p) /\ FilesTyped /\ Mine(p)
      /\ proc[p].pc = "compile" /\ proc[p].pending = {} /\ proc[p].jobs = {} /\ ~proc[p].looping
      /\ proc'[p] = (IF proc[p].error THEN Failed(p) ELSE [proc[p] EXCEPT !.pc = "link"])
      /\ disk' = Removed(Sources(p))
  BY Before DEF EndCompile, NoJobs, Set, At
<1>1. /\ proc'[p] \in States(p)
      /\ proc'[p].pending = {} /\ proc'[p].jobs = {}
      /\ proc'[p].lost = proc[p].lost /\ proc'[p].abandoned = proc[p].abandoned
      /\ proc'[p].objects = proc[p].objects /\ proc'[p].looping = proc[p].looping
  <2>1. CASE proc[p].error
    BY <1>0, <2>1, FailedRecord
  <2>2. CASE ~proc[p].error
    BY <1>0, <2>2 DEF States, Phases
  <2>3. QED
    BY <2>1, <2>2
<1>2. \/ proc[p].error /\ proc'[p].error /\ proc'[p].pc = "remove" /\ proc'[p].result = "failed"
      \/ ~proc[p].error /\ ~proc'[p].error /\ proc'[p].pc = "link" /\ proc'[p].result = proc[p].result
  <2>1. CASE proc[p].error
    BY <1>0, <2>1, FailedRecord
  <2>2. CASE ~proc[p].error
    BY <1>0, <2>2 DEF States, Phases
  <2>3. QED
    BY <2>1, <2>2
<1>3. \A f : f \notin Sources(p) => Same(f)
  BY <1>0, RemovedFiles
<1>4. JobsInPhase(p)' /\ TempInPhase(p)'
  BY <1>0, <1>1, <1>2 DEF Mine, JobsInPhase, TempInPhase
<1>5. Single(p) => SourcesInPhase(p)'
  BY <1>2 DEF SourcesInPhase
<1>6. \A c \in Inputs(p) : Same(Obj(p, c))
  BY <1>3, KindsApart DEF Sources
<1>7. Single(p) => ObjectsInPhase(p)'
  BY <1>0, <1>1, <1>2, <1>6 DEF Mine, ObjectsInPhase, Begun, Exists, Same
<1>8. Single(p) => FailuresExplained(p)'
  BY <1>0, <1>1, <1>2 DEF Mine, FailuresExplained, Reason
<1>9. Single(p) => LibraryInPhase(p)'
  BY <1>0, <1>2 DEF Mine, LibraryInPhase, JobsInPhase, Built
<1>10. QED
  BY <1>0, <1>1, <1>4, <1>5, <1>7, <1>8, <1>9, RemovedTyped DEF Stays, Mine

\* An object file is only missing if its compiler was not started.
LEMMA LinkStays ==
  ASSUME InputsAssumption, IInv, NEW p \in Procs, Link(p)
  PROVE  Stays(p)
<1> DEFINE whole == \A f \in Objects(p) : Exists(f)
<1>0. /\ DOMAIN proc = Procs /\ proc[p] \in States(p) /\ FilesTyped /\ Mine(p) /\ proc[p].pc = "link"
      /\ disk' = Written(Lib0(p), Partial)
      /\ proc'[p] = IF whole THEN [proc[p] EXCEPT !.pc = "linking", !.pending = {Linking}] ELSE Failed(p)
  BY Before DEF Link, Set, At
<1> HIDE DEF whole
<1>1. {Linking} \in SUBSET JobsOf(p)
  BY DEF Linking, Job, JobsOf
<1>2. /\ proc'[p] \in States(p)
      /\ proc'[p].jobs = proc[p].jobs /\ proc'[p].lost = proc[p].lost
      /\ proc'[p].error = proc[p].error /\ proc'[p].abandoned = proc[p].abandoned
      /\ proc'[p].objects = proc[p].objects /\ proc'[p].looping = proc[p].looping
  <2>1. CASE whole
    <3>1. proc'[p] = [proc[p] EXCEPT !.pc = "linking", !.pending = {Linking}]
      BY <1>0, <2>1
    <3>2. [proc[p] EXCEPT !.pc = "linking", !.pending = {Linking}] \in States(p)
      BY <1>0, <1>1 DEF States, Phases
    <3>3. QED
      BY <1>0, <3>1, <3>2 DEF States
  <2>2. CASE ~whole
    BY <1>0, <2>2, FailedRecord
  <2>3. QED
    BY <2>1, <2>2
<1>3. \/ /\ whole /\ proc'[p].pc = "linking" /\ proc'[p].pending = {Linking}
         /\ proc'[p].result = proc[p].result
      \/ ~whole /\ proc'[p].pc = "remove" /\ proc'[p].pending = proc[p].pending /\ proc'[p].result = "failed"
  <2>1. CASE whole
    BY <1>0, <2>1 DEF States
  <2>2. CASE ~whole
    BY <1>0, <2>2, FailedRecord
  <2>3. QED
    BY <2>1, <2>2
<1>4. /\ Lib0(p) \in DOMAIN disk' /\ disk'[Lib0(p)] = Partial
      /\ \A g : g # Lib0(p) => Same(g)
  BY <1>0, WrittenFile
<1>5. \A c : Same(Cc(p, c)) /\ Same(Obj(p, c))
  BY <1>4, KindsApart
<1>6. /\ proc[p].jobs = {} /\ ~proc[p].abandoned /\ proc[p].result = "none"
      /\ Single(p) => ~proc[p].error
  BY <1>0 DEF Mine, JobsInPhase, FailuresExplained
<1>7. JobsInPhase(p)' /\ TempInPhase(p)'
  <2>1. Linking = Job(Linking.input)
    BY DEF Linking, Job
  <2>2. \A j \in proc[p].pending \cup proc[p].lost : j = Job(j.input)
    BY <1>0 DEF Mine, JobsInPhase
  <2>3. \A j \in proc'[p].pending \cup proc'[p].lost : j = Job(j.input)
    BY <1>2, <1>3, <2>1, <2>2
  <2>4. Linking.input = "link" /\ Linking.step # "writing"
    BY DEF Linking, Job
  <2>5. QED
    BY <1>0, <1>2, <1>3, <1>4, <1>6, <2>3, <2>4 DEF Mine, JobsInPhase, TempInPhase, Exists
<1>8. Single(p) => SourcesInPhase(p)'
  BY <1>3 DEF SourcesInPhase
<1>9. whole => \A c \in Inputs(p) : Exists(Obj(p, c))
  BY DEF Objects, ObjectsOf, whole
<1>10. Single(p) => ObjectsInPhase(p)'
  BY <1>0, <1>2, <1>3, <1>5, <1>9 DEF Mine, ObjectsInPhase, Begun, Exists, Same
<1>11. Single(p) /\ ~whole => proc[p].lost # {}
  BY <1>0, <1>6 DEF Mine, ObjectsInPhase, JobsInPhase, Begun, Objects, ObjectsOf, whole
<1>12. Single(p) => FailuresExplained(p)'
  BY <1>0, <1>2, <1>3, <1>6, <1>11 DEF Mine, FailuresExplained, Reason
<1>13. Single(p) => LibraryInPhase(p)'
  BY <1>2, <1>3, <1>4, <1>6 DEF LibraryInPhase, Built
<1>14. FilesTyped'
  BY <1>0, <1>4 DEF FilesTyped, Same
<1>15. QED
  BY <1>2, <1>7, <1>8, <1>10, <1>12, <1>13, <1>14 DEF Stays, Mine

\* The library gets its name; its linker has run or was lost.
LEMMA EndLinkStays ==
  ASSUME InputsAssumption, IInv, NEW p \in Procs, EndLink(p)
  PROVE  Stays(p)
<1>0. /\ DOMAIN proc = Procs /\ proc[p] \in States(p) /\ FilesTyped /\ Mine(p)
      /\ proc[p].pc = "linking" /\ proc[p].pending = {} /\ proc[p].jobs = {}
      /\ ~proc[p].abandoned /\ Lib0(p) \in DOMAIN disk
  BY Before DEF EndLink, NoJobs, At, Mine, JobsInPhase, TempInPhase, Exists
<1>1. CASE proc[p].error
  <2>1. proc'[p] = Failed(p) /\ UNCHANGED disk
    BY <1>0, <1>1 DEF EndLink, Set
  <2>2. /\ proc'[p] \in States(p) /\ proc'[p].pc = "remove" /\ proc'[p].result = "failed"
        /\ proc'[p].pending = {} /\ proc'[p].jobs = {} /\ proc'[p].lost = proc[p].lost
    BY <1>0, <2>1, FailedRecord
  <2>3. JobsInPhase(p)' /\ TempInPhase(p)'
    BY <1>0, <2>2 DEF Mine, JobsInPhase, TempInPhase
  <2>4. ~Single(p)
    BY <1>0, <1>1 DEF Mine, FailuresExplained
  <2>5. QED
    BY <1>0, <2>1, <2>2, <2>3, <2>4 DEF Stays, Mine, FilesTyped
<1>2. CASE ~proc[p].error
  <2>1. /\ proc'[p] = Finish(p, "built")
        /\ disk' = [f \in (DOMAIN disk \ {Lib0(p)}) \cup {Lib(p)} |->
                          IF f = Lib(p) THEN disk[Lib0(p)] ELSE disk[f]]
    BY <1>0, <1>2 DEF EndLink, Set
  <2>2. /\ proc'[p] \in States(p) /\ proc'[p].pc = "remove" /\ proc'[p].result = "built"
        /\ proc'[p].pending = {} /\ proc'[p].jobs = {} /\ proc'[p].lost = proc[p].lost
        /\ ~proc'[p].error /\ ~proc'[p].abandoned
    BY <1>0, <1>2, <2>1 DEF States, Phases, Finish
  <2>3. Lib(p) \in DOMAIN disk' /\ disk'[Lib(p)] = disk[Lib0(p)]
    BY <2>1
  <2>4. JobsInPhase(p)' /\ TempInPhase(p)'
    BY <1>0, <2>2 DEF Mine, JobsInPhase, TempInPhase
  <2>5. Single(p) => (SourcesInPhase(p) /\ ObjectsInPhase(p) /\ FailuresExplained(p))'
    BY <2>2 DEF SourcesInPhase, ObjectsInPhase, FailuresExplained
  <2>6. Single(p) =>
          disk[Lib0(p)] = Inputs(p) \/ (disk[Lib0(p)] = Partial /\ proc[p].lost # {})
    BY <1>0 DEF Mine, LibraryInPhase
  <2>7. Single(p) => LibraryInPhase(p)'
    BY <2>2, <2>3, <2>6 DEF LibraryInPhase, Built, Exists
  <2>8. FilesTyped'
    BY <1>0, <2>1 DEF FilesTyped
  <2>9. QED
    BY <2>2, <2>4, <2>5, <2>7, <2>8 DEF Stays, Mine
<1>3. QED
  BY <1>1, <1>2

\* The object files go, whatever has become of the build.
LEMMA RemoveObjectsStays ==
  ASSUME InputsAssumption, IInv, NEW p \in Procs, RemoveObjects(p)
  PROVE  Stays(p)
<1>0. /\ DOMAIN proc = Procs /\ proc[p] \in States(p) /\ FilesTyped /\ Mine(p)
      /\ proc[p].pc = "remove" /\ disk' = Removed(proc[p].objects)
      /\ proc'[p] = [proc[p] EXCEPT !.pc = "stop"]
  BY Before DEF RemoveObjects, Set, At
<1>1. /\ proc'[p] \in States(p) /\ proc'[p].pc = "stop" /\ proc'[p].result = proc[p].result
      /\ proc'[p].pending = proc[p].pending /\ proc'[p].jobs = proc[p].jobs
      /\ proc'[p].lost = proc[p].lost /\ proc'[p].error = proc[p].error
      /\ proc'[p].abandoned = proc[p].abandoned
      /\ proc'[p].objects = proc[p].objects /\ proc'[p].looping = proc[p].looping /\ proc'[p].linked = proc[p].linked
  BY <1>0 DEF States, Phases
<1>2. \A f : f \notin Objects(p) => Same(f)
  BY <1>0, RemovedFiles DEF States
<1>3. Same(Lib(p))
  BY <1>2, KindsApart DEF Objects, ObjectsOf
<1>4. JobsInPhase(p)' /\ TempInPhase(p)'
  BY <1>0, <1>1 DEF Mine, JobsInPhase, TempInPhase
<1>5. Single(p) => SourcesInPhase(p)'
  BY <1>1 DEF SourcesInPhase
<1>6. Single(p) => ObjectsInPhase(p)'
  BY <1>1 DEF ObjectsInPhase
<1>7. Single(p) => FailuresExplained(p)'
  BY <1>0, <1>1 DEF Mine, FailuresExplained, Reason
<1>8. Single(p) => LibraryInPhase(p)'
  BY <1>0, <1>1, <1>3 DEF Mine, LibraryInPhase, Built, Exists, Same
<1>9. QED
  BY <1>0, <1>1, <1>4, <1>5, <1>6, <1>7, <1>8, RemovedTyped DEF Stays, Mine

\* From here on there are no jobs.
LEMMA StopJobsStays ==
  ASSUME InputsAssumption, Parallelism \in Nat, IInv, NEW p \in Procs, StopJobs(p)
  PROVE  Stays(p)
<1>0. /\ DOMAIN proc = Procs /\ proc[p] \in States(p) /\ FilesTyped /\ Mine(p)
      /\ proc[p].pc = "stop" /\ UNCHANGED disk
      /\ \/ proc[p].result = "built" /\ proc'[p] = [proc[p] EXCEPT !.pc = "open", !.jobs = {}]
         \/ proc[p].result # "built" /\ proc'[p] = [proc[p] EXCEPT !.pc = "done", !.jobs = {}]
  BY Before DEF StopJobs, Set, At
<1>1. /\ proc'[p] \in States(p) /\ proc'[p].result = proc[p].result
      /\ proc'[p].pc = (IF proc[p].result = "built" THEN "open" ELSE "done")
      /\ proc'[p].pending = proc[p].pending /\ proc'[p].jobs = {}
      /\ proc'[p].lost = proc[p].lost /\ proc'[p].error = proc[p].error
      /\ proc'[p].abandoned = proc[p].abandoned
      /\ proc'[p].objects = proc[p].objects /\ proc'[p].looping = proc[p].looping /\ proc'[p].linked = proc[p].linked
  <2>1. CASE proc[p].result = "built"
    BY <1>0, <2>1 DEF States, Phases
  <2>2. CASE proc[p].result # "built"
    BY <1>0, <2>2 DEF States, Phases
  <2>3. QED
    BY <2>1, <2>2
<1>2. IsFiniteSet({}) /\ Cardinality({}) <= Parallelism
  BY FS_EmptySet
<1>3. JobsInPhase(p)' /\ TempInPhase(p)'
  BY <1>0, <1>1, <1>2 DEF Mine, JobsInPhase, TempInPhase
<1>4. Single(p) => SourcesInPhase(p)'
  BY <1>0, <1>1 DEF Mine, SourcesInPhase, Exists
<1>5. Single(p) => ObjectsInPhase(p)'
  BY <1>0, <1>1 DEF Mine, ObjectsInPhase, Exists
<1>6. Single(p) => FailuresExplained(p)'
  BY <1>0, <1>1 DEF Mine, FailuresExplained, Reason
<1>7. Single(p) => LibraryInPhase(p)'
  BY <1>0, <1>1 DEF Mine, LibraryInPhase, Built, Exists
<1>8. QED
  BY <1>0, <1>1, <1>3, <1>4, <1>5, <1>6, <1>7 DEF Stays, Mine, FilesTyped

\* A library is incomplete only if its linker was lost; it is not loaded then.
LEMMA OpenLibraryStays ==
  ASSUME InputsAssumption, IInv, NEW p \in Procs, OpenLibrary(p)
  PROVE  Stays(p)
<1>0. /\ DOMAIN proc = Procs /\ proc[p] \in States(p) /\ FilesTyped /\ Mine(p)
      /\ proc[p].pc = "open" /\ UNCHANGED disk
  BY Before DEF OpenLibrary, At
<1>1. \/ /\ Whole(Lib(p))
         /\ proc'[p] = [proc[p] EXCEPT !.pc = "unload", !.result = "loaded", !.linked = disk[Lib(p)]]
      \/ /\ ~Whole(Lib(p))
         /\ proc'[p] = [proc[p] EXCEPT !.pc = "unload", !.result = "failed"]
  BY <1>0 DEF OpenLibrary, Set
<1>2. /\ proc'[p] \in States(p) /\ proc'[p].pc = "unload"
      /\ proc'[p].result = "loaded" \/ (proc'[p].result = "failed" /\ ~Whole(Lib(p)))
      /\ proc'[p].pending = proc[p].pending /\ proc'[p].jobs = proc[p].jobs
      /\ proc'[p].lost = proc[p].lost /\ proc'[p].error = proc[p].error
      /\ proc'[p].abandoned = proc[p].abandoned
  <2>1. Whole(Lib(p)) => disk[Lib(p)] \in SUBSET UNION {Inputs(q) : q \in Procs}
    BY <1>0 DEF FilesTyped, Whole, Exists
  <2>2. QED
    BY <1>0, <1>1, <2>1 DEF States, Phases
<1>3. JobsInPhase(p)' /\ TempInPhase(p)'
  BY <1>0, <1>2 DEF Mine, JobsInPhase, TempInPhase
<1>4. Single(p) => SourcesInPhase(p)'
  BY <1>2 DEF SourcesInPhase
<1>5. Single(p) => ObjectsInPhase(p)'
  BY <1>2 DEF ObjectsInPhase
<1>6. Single(p) => FailuresExplained(p)'
  <2>1. Single(p) /\ ~Whole(Lib(p)) => proc[p].lost # {}
    <3>1. Inputs(p) # Partial
      BY DEF InputsAssumption
    <3>2. QED
      BY <1>0, <3>1 DEF Mine, LibraryInPhase, Built, Whole
  <2>2. QED
    BY <1>0, <1>2, <2>1 DEF Mine, FailuresExplained, Reason
<1>7. Single(p) => LibraryInPhase(p)'
  BY <1>2 DEF LibraryInPhase, Built
<1>8. QED
  BY <1>0, <1>2, <1>3, <1>4, <1>5, <1>6, <1>7 DEF Stays, Mine, FilesTyped

\* The library is the last to go.
LEMMA UnloadStays ==
  ASSUME InputsAssumption, IInv, NEW p \in Procs, Unload(p)
  PROVE  Stays(p)
<1>0. /\ DOMAIN proc = Procs /\ proc[p] \in States(p) /\ FilesTyped /\ Mine(p)
      /\ proc[p].pc = "unload" /\ disk' = Removed({Lib(p)})
      /\ proc'[p] = [proc[p] EXCEPT !.pc = "done"]
  BY Before DEF Unload, Set, At
<1>1. /\ proc'[p] \in States(p) /\ proc'[p].pc = "done" /\ proc'[p].result = proc[p].result
      /\ proc'[p].pending = proc[p].pending /\ proc'[p].jobs = proc[p].jobs
      /\ proc'[p].lost = proc[p].lost /\ proc'[p].error = proc[p].error
      /\ proc'[p].abandoned = proc[p].abandoned
      /\ proc'[p].objects = proc[p].objects /\ proc'[p].looping = proc[p].looping /\ proc'[p].linked = proc[p].linked
  BY <1>0 DEF States, Phases
<1>2. JobsInPhase(p)' /\ TempInPhase(p)'
  BY <1>0, <1>1 DEF Mine, JobsInPhase, TempInPhase
<1>3. Single(p) => (SourcesInPhase(p) /\ ObjectsInPhase(p))'
  BY <1>1 DEF SourcesInPhase, ObjectsInPhase
<1>4. Single(p) => FailuresExplained(p)'
  BY <1>0, <1>1 DEF Mine, FailuresExplained, Reason
<1>5. Single(p) => LibraryInPhase(p)'
  BY <1>0, <1>1 DEF Mine, LibraryInPhase, Built
<1>6. QED
  BY <1>0, <1>1, <1>2, <1>3, <1>4, <1>5, RemovedTyped DEF Stays, Mine

-----------------------------------------------------------------------------
(* The jobs of the process *)

\* A job that goes on stays one of the process's jobs, and they do not become more.
LEMMA JobGoesOn ==
  ASSUME Parallelism \in Nat, NEW p \in DOMAIN proc, proc[p] \in States(p), JobsInPhase(p),
         NEW j \in proc[p].jobs, NEW s \in {"writing", "ok", "failed"}, Step(p, j, s)
  PROVE  /\ proc'[p] \in States(p) /\ proc'[p].pc = proc[p].pc
         /\ proc'[p].jobs = (proc[p].jobs \ {j}) \cup {[j EXCEPT !.step = s]}
         /\ IsFiniteSet(proc'[p].jobs) /\ Cardinality(proc'[p].jobs) <= Parallelism
         /\ proc'[p].pending = proc[p].pending /\ proc'[p].lost = proc[p].lost
         /\ proc'[p].error = proc[p].error /\ proc'[p].result = proc[p].result
         /\ proc'[p].linked = proc[p].linked /\ proc'[p].abandoned = proc[p].abandoned
         /\ proc'[p].objects = proc[p].objects /\ proc'[p].looping = proc[p].looping
         /\ proc'[p].unsaved = proc[p].unsaved
<1>1. j \in JobsOf(p) /\ [j EXCEPT !.step = s] \in JobsOf(p)
  BY DEF States, JobsOf
<1>2. (proc[p].jobs \ {j}) \cup {[j EXCEPT !.step = s]} \in SUBSET JobsOf(p)
  BY <1>1 DEF States
<1>3. proc'[p] = [proc[p] EXCEPT !.jobs = (@ \ {j}) \cup {[j EXCEPT !.step = s]}]
  BY DEF Step, Set
<1>4. /\ proc'[p] \in States(p) /\ proc'[p].pc = proc[p].pc
      /\ proc'[p].jobs = (proc[p].jobs \ {j}) \cup {[j EXCEPT !.step = s]}
      /\ proc'[p].pending = proc[p].pending /\ proc'[p].lost = proc[p].lost
      /\ proc'[p].error = proc[p].error /\ proc'[p].result = proc[p].result
      /\ proc'[p].linked = proc[p].linked /\ proc'[p].abandoned = proc[p].abandoned
      /\ proc'[p].objects = proc[p].objects /\ proc'[p].looping = proc[p].looping
      /\ proc'[p].unsaved = proc[p].unsaved
  BY <1>2, <1>3 DEF States
<1>5. IsFiniteSet(proc[p].jobs) /\ Cardinality(proc[p].jobs) <= Parallelism
  BY DEF JobsInPhase
<1>6. /\ IsFiniteSet(proc[p].jobs \ {j}) /\ Cardinality(proc[p].jobs) \in Nat
      /\ Cardinality(proc[p].jobs \ {j}) = Cardinality(proc[p].jobs) - 1
  BY <1>5, FS_RemoveElement, FS_CardinalityType
<1>7. /\ IsFiniteSet((proc[p].jobs \ {j}) \cup {[j EXCEPT !.step = s]})
      /\ Cardinality(proc[p].jobs \ {j}) \in Nat
      /\ \/ Cardinality((proc[p].jobs \ {j}) \cup {[j EXCEPT !.step = s]}) = Cardinality(proc[p].jobs \ {j})
         \/ Cardinality((proc[p].jobs \ {j}) \cup {[j EXCEPT !.step = s]}) = Cardinality(proc[p].jobs \ {j}) + 1
  BY <1>6, FS_AddElement, FS_CardinalityType
<1>8. QED
  BY <1>4, <1>5, <1>6, <1>7

\* Where a job that compiles may be: in the phase that waits for it, or given up.
LEMMA CompilingWhen ==
  ASSUME NEW p \in Procs, JobsInPhase(p), NEW j \in proc[p].jobs, j.input # "link",
         proc[p] \in States(p)
  PROVE  proc[p].pc = "compile" \/ (proc[p].pc \in {"remove", "stop"} /\ proc[p].abandoned)
  BY DEF JobsInPhase, States, Phases, Linking, Job

\* The compiler writes the object file of its own input only, and fails for a
\* reason while its process waits for it.
LEMMA CompileStays ==
  ASSUME InputsAssumption, Parallelism \in Nat, IInv, NEW p \in Procs, Compile(p)
  PROVE  Stays(p)
<1>0. /\ DOMAIN proc = Procs /\ proc[p] \in States(p) /\ FilesTyped /\ Mine(p)
      /\ JobsInPhase(p)
  BY Before DEF Mine
<1>1. PICK j \in proc[p].jobs :
        /\ j.input # "link"
        /\ \/ /\ j.step = "start" /\ Source(p, j.input)
              /\ disk' = Written(Obj(p, j.input), Partial) /\ Step(p, j, "writing")
           \/ /\ j.step = "start" /\ (j.input \in Rejected \/ ~Source(p, j.input))
              /\ Step(p, j, "failed") /\ UNCHANGED disk
           \/ /\ j.step = "writing"
              /\ disk' = Written(Obj(p, j.input), {j.input}) /\ Step(p, j, "ok")
  BY DEF Compile
<1> DEFINE c == j.input
<1>2. j \in JobsOf(p) /\ c \in Inputs(p)
  BY <1>0, <1>1 DEF States, JobsOf
<1>3. proc[p].pc = "compile" \/ (proc[p].pc \in {"remove", "stop"} /\ proc[p].abandoned)
  BY <1>0, <1>1, CompilingWhen
<1>4. PICK s \in {"writing", "ok", "failed"} :
        /\ Step(p, j, s)
        /\ s = "writing" => j.step = "start" /\ disk' = Written(Obj(p, c), Partial)
        /\ s = "failed" => j.step = "start" /\ (c \in Rejected \/ ~Source(p, c)) /\ UNCHANGED disk
        /\ s = "ok" => j.step = "writing" /\ disk' = Written(Obj(p, c), {c})
  <2>1. CASE Step(p, j, "writing") /\ j.step = "start" /\ disk' = Written(Obj(p, c), Partial)
    BY <2>1
  <2>2. CASE Step(p, j, "failed") /\ j.step = "start" /\ (c \in Rejected \/ ~Source(p, c)) /\ UNCHANGED disk
    BY <2>2
  <2>3. CASE Step(p, j, "ok") /\ j.step = "writing" /\ disk' = Written(Obj(p, c), {c})
    BY <2>3
  <2>4. QED
    BY <1>1, <2>1, <2>2, <2>3
<1>5. /\ proc'[p] \in States(p) /\ proc'[p].pc = proc[p].pc
      /\ proc'[p].jobs = (proc[p].jobs \ {j}) \cup {[j EXCEPT !.step = s]}
      /\ IsFiniteSet(proc'[p].jobs) /\ Cardinality(proc'[p].jobs) <= Parallelism
      /\ proc'[p].pending = proc[p].pending /\ proc'[p].lost = proc[p].lost
      /\ proc'[p].error = proc[p].error /\ proc'[p].result = proc[p].result
      /\ proc'[p].linked = proc[p].linked /\ proc'[p].abandoned = proc[p].abandoned
      /\ proc'[p].objects = proc[p].objects /\ proc'[p].looping = proc[p].looping
      /\ proc'[p].unsaved = proc[p].unsaved
  BY <1>0, <1>4, JobGoesOn
<1>6. /\ s = "writing" => Obj(p, c) \in DOMAIN disk' /\ disk'[Obj(p, c)] = Partial
      /\ s = "ok" => Obj(p, c) \in DOMAIN disk' /\ disk'[Obj(p, c)] = {c}
      /\ s = "failed" => UNCHANGED disk
      /\ \A g : g # Obj(p, c) => Same(g)
  <2>1. CASE s = "writing"
    BY <1>4, <2>1, WrittenFile
  <2>2. CASE s = "ok"
    BY <1>4, <2>2, WrittenFile
  <2>3. CASE s = "failed"
    BY <1>4, <2>3 DEF Same
  <2>4. QED
    BY <2>1, <2>2, <2>3
<1>7. /\ \A d : Same(Cc(p, d))
      /\ Single(p) => \A d \in Inputs(p) : d # c => Same(Obj(p, d))
      /\ Same(Lib(p))
  BY <1>2, <1>6, KindsApart, NamesApart DEF Single
<1>8. /\ [j EXCEPT !.step = s] = [Job(c) EXCEPT !.step = s]
      /\ [j EXCEPT !.step = s].input = c /\ [j EXCEPT !.step = s].step = s
      /\ \A d : d # c => j # Job(d) /\ \A t : j # [Job(d) EXCEPT !.step = t]
      /\ j.step = "start" => \A d, t : t # "start" => j # [Job(d) EXCEPT !.step = t]
      /\ j.step = "writing" => \A d, t : t # "writing" => j # [Job(d) EXCEPT !.step = t]
      /\ j.step = "writing" => \A d : j # Job(d)
  BY <1>2 DEF JobsOf, Job
<1>9. JobsInPhase(p)' /\ TempInPhase(p)'
  BY <1>0, <1>1, <1>3, <1>5, <1>8 DEF JobsInPhase, TempInPhase
<1>10. Single(p) => SourcesInPhase(p)'
  BY <1>0, <1>3, <1>5, <1>7 DEF Mine, SourcesInPhase, Exists, Same
<1>11. ASSUME Single(p)
       PROVE  ObjectsInPhase(p)'
  <2>1. CASE proc[p].pc = "compile"
    <3>1. ASSUME NEW d \in Inputs(p), Exists(Obj(p, d))'
          PROVE  disk'[Obj(p, d)] = {d} \/ [Job(d) EXCEPT !.step = "writing"] \in proc'[p].jobs
      <4>1. CASE d # c
        BY <1>0, <1>5, <1>7, <1>8, <1>11, <2>1, <3>1, <4>1 DEF Mine, ObjectsInPhase, Exists, Same
      <4>2. CASE d = c /\ s = "writing"
        BY <1>5, <1>8, <4>2
      <4>3. CASE d = c /\ s = "ok"
        BY <1>6, <4>3
      <4>4. CASE d = c /\ s = "failed"
        BY <1>0, <1>4, <1>5, <1>6, <1>8, <1>11, <2>1, <3>1, <4>4 DEF Mine, ObjectsInPhase, Exists
      <4>5. QED
        BY <4>1, <4>2, <4>3, <4>4
    <3>2. ASSUME NEW d \in Inputs(p)
          PROVE  Begun(p, d)' \/ [Job(d) EXCEPT !.step = "failed"] \in proc'[p].jobs \/ proc'[p].error
      <4>1. CASE d # c
        BY <1>0, <1>5, <1>7, <1>8, <1>11, <2>1, <4>1 DEF Mine, ObjectsInPhase, Begun, Exists, Same
      <4>2. CASE d = c /\ s \in {"writing", "ok"}
        BY <1>6, <4>2 DEF Begun, Exists
      <4>3. CASE d = c /\ s = "failed"
        BY <1>5, <1>8, <4>3
      <4>4. QED
        BY <4>1, <4>2, <4>3
    <3>3. QED
      BY <1>5, <2>1, <3>1, <3>2 DEF ObjectsInPhase
  <2>2. CASE proc[p].pc \in {"remove", "stop"} /\ proc[p].abandoned
    BY <1>5, <2>2 DEF ObjectsInPhase
  <2>3. QED
    BY <1>3, <2>1, <2>2
<1>12. Single(p) /\ proc[p].pc = "compile" /\ s = "failed" => c \in Rejected
  BY <1>0, <1>4 DEF Mine, SourcesInPhase, Source
<1>13. Single(p) => FailuresExplained(p)'
  BY <1>0, <1>3, <1>5, <1>8, <1>12 DEF Mine, FailuresExplained, Reason
<1>14. Single(p) => LibraryInPhase(p)'
  BY <1>0, <1>3, <1>5, <1>7 DEF Mine, LibraryInPhase, Built, Exists, Same
<1>15. FilesTyped'
  BY <1>0, <1>2, <1>6 DEF FilesTyped, Same
<1>16. QED
  BY <1>5, <1>9, <1>10, <1>11, <1>13, <1>14, <1>15 DEF Stays, Mine

\* The linker finds all object files complete, and what it writes has all of the
\* inputs in it.
LEMMA LinkObjectsStays ==
  ASSUME InputsAssumption, Parallelism \in Nat, IInv, NEW p \in Procs, LinkObjects(p)
  PROVE  Stays(p)
<1> DEFINE whole == \A f \in Objects(p) : Whole(f)
           all == UNION {disk[f] : f \in Objects(p)}
<1>0. /\ DOMAIN proc = Procs /\ proc[p] \in States(p) /\ FilesTyped /\ Mine(p)
      /\ JobsInPhase(p)
  BY Before DEF Mine
<1>1. PICK j \in proc[p].jobs :
        /\ j.input = "link" /\ j.step = "start"
        /\ \/ whole /\ disk' = Written(Lib0(p), all) /\ Step(p, j, "ok")
           \/ ~whole /\ Step(p, j, "failed") /\ UNCHANGED disk
  BY DEF LinkObjects
<1> HIDE DEF whole, all
<1>2. proc[p].pc = "linking" \/ (proc[p].pc \in {"remove", "stop"} /\ proc[p].abandoned)
  BY <1>0, <1>1 DEF JobsInPhase, States, Phases
<1>3. PICK s \in {"ok", "failed"} :
        /\ Step(p, j, s)
        /\ s = "ok" => whole /\ disk' = Written(Lib0(p), all)
        /\ s = "failed" => ~whole /\ UNCHANGED disk
  <2>1. CASE whole /\ disk' = Written(Lib0(p), all) /\ Step(p, j, "ok")
    BY <2>1
  <2>2. CASE ~whole /\ Step(p, j, "failed") /\ UNCHANGED disk
    BY <2>2
  <2>3. QED
    BY <1>1, <2>1, <2>2
<1>4. /\ proc'[p] \in States(p) /\ proc'[p].pc = proc[p].pc
      /\ proc'[p].jobs = (proc[p].jobs \ {j}) \cup {[j EXCEPT !.step = s]}
      /\ IsFiniteSet(proc'[p].jobs) /\ Cardinality(proc'[p].jobs) <= Parallelism
      /\ proc'[p].pending = proc[p].pending /\ proc'[p].lost = proc[p].lost
      /\ proc'[p].error = proc[p].error /\ proc'[p].result = proc[p].result
      /\ proc'[p].linked = proc[p].linked /\ proc'[p].abandoned = proc[p].abandoned
      /\ proc'[p].objects = proc[p].objects /\ proc'[p].looping = proc[p].looping
      /\ proc'[p].unsaved = proc[p].unsaved
  BY <1>0, <1>3, JobGoesOn
<1>5. /\ s = "ok" => Lib0(p) \in DOMAIN disk' /\ disk'[Lib0(p)] = all
      /\ s = "failed" => UNCHANGED disk
      /\ \A g : g # Lib0(p) => Same(g)
  <2>1. CASE s = "ok"
    BY <1>3, <2>1, WrittenFile
  <2>2. CASE s = "failed"
    BY <1>3, <2>2 DEF Same
  <2>3. QED
    BY <2>1, <2>2
<1>6. (\A d : Same(Cc(p, d)) /\ Same(Obj(p, d))) /\ Same(Lib(p))
  BY <1>5, KindsApart
<1>7. whole => all \subseteq UNION {Inputs(q) : q \in Procs}
  BY <1>0 DEF FilesTyped, Whole, Exists, whole, all
<1>8. FilesTyped'
  BY <1>0, <1>3, <1>5, <1>7 DEF FilesTyped, Same
<1>9. Single(p) /\ proc[p].pc = "linking" => s = "ok" /\ all = Inputs(p)
  <2>1. SUFFICES ASSUME Single(p), proc[p].pc = "linking"
                 PROVE  s = "ok" /\ all = Inputs(p)
    OBVIOUS
  <2>2. \A c \in Inputs(p) : [Job(c) EXCEPT !.step = "writing"] \notin proc[p].jobs
    BY <1>0, <2>1 DEF JobsInPhase, Linking, Job
  <2>3. \A c \in Inputs(p) : Obj(p, c) \in DOMAIN disk /\ disk[Obj(p, c)] = {c}
    BY <1>0, <2>1, <2>2 DEF Mine, ObjectsInPhase, Exists
  <2>4. \A c \in Inputs(p) : {c} # Partial
    <3>1. \A c \in Inputs(p) : {c} \in SUBSET UNION {Inputs(q) : q \in Procs}
      OBVIOUS
    <3>2. QED
      BY <3>1 DEF InputsAssumption
  <2>5. whole
    BY <2>3, <2>4 DEF whole, Whole, Exists, Objects, ObjectsOf
  <2>6. \A x : x \in all <=> x \in Inputs(p)
    BY <2>3 DEF all, Objects, ObjectsOf
  <2>7. QED
    BY <1>3, <2>5, <2>6
<1>10. JobsInPhase(p)' /\ TempInPhase(p)'
  <2>1. [j EXCEPT !.step = s].input = "link" /\ [j EXCEPT !.step = s].step = s
    BY <1>0, <1>1 DEF States, JobsOf
  <2>2. JobsInPhase(p)'
    BY <1>0, <1>2, <1>4, <2>1 DEF JobsInPhase
  <2>3. TempInPhase(p)'
    BY <1>0, <1>2, <1>3, <1>4, <1>5 DEF Mine, TempInPhase, Exists
  <2>4. QED
    BY <2>2, <2>3
<1>11. Single(p) => SourcesInPhase(p)'
  BY <1>0, <1>2, <1>4, <1>6 DEF Mine, SourcesInPhase, Exists, Same
<1>12. Single(p) => ObjectsInPhase(p)'
  <2>1. \A c \in Inputs(p) : j # [Job(c) EXCEPT !.step = "writing"]
    BY <1>1 DEF Job
  <2>2. QED
    BY <1>0, <1>2, <1>4, <1>6, <2>1 DEF Mine, ObjectsInPhase, Exists, Same
<1>13. [j EXCEPT !.step = s].step = s
  BY <1>0, <1>1 DEF States, JobsOf
<1>14. Single(p) => FailuresExplained(p)'
  BY <1>0, <1>2, <1>4, <1>9, <1>13 DEF Mine, FailuresExplained, Reason
<1>15. Single(p) => LibraryInPhase(p)'
  BY <1>0, <1>2, <1>4, <1>5, <1>6, <1>9 DEF Mine, LibraryInPhase, Built, Exists, Same
<1>16. QED
  BY <1>4, <1>8, <1>10, <1>11, <1>12, <1>14, <1>15 DEF Stays, Mine

-----------------------------------------------------------------------------
(* Files that processes share *)

\* What a step may put into a file, and what its process is going to remove after it.
LEMMA FilesChange ==
  ASSUME InputsAssumption, IInv, NEW q \in Procs, ToolStep(q) \/ JobStep(q), NEW f \in DOMAIN disk'
  PROVE  \/ f \in DOMAIN disk /\ disk'[f] = disk[f]
         \/ KeepsSources(q)' /\ \E c \in Codes[q] : f = Cc(q, c)
         \/ KeepsObjects(q)' /\ \E c \in Inputs(q) : f = Obj(q, c) /\ disk'[f] \in {Partial, {c}}
         \/ /\ f = Lib0(q)
            /\ \/ disk'[f] = Partial
               \/ /\ \A g \in Objects(q) : Whole(g)
                  /\ disk'[f] = UNION {disk[g] : g \in Objects(q)}
         \/ KeepsLibrary(q)' /\ f = Lib(q) /\ Exists(Lib0(q)) /\ disk'[f] = disk[Lib0(q)]
<1>0. DOMAIN proc = Procs /\ proc[q] \in States(q) /\ Mine(q)
  BY DEF IInv
<1>1. ASSUME NEW g, NEW x, disk' = Written(g, x)
      PROVE  (f = g /\ disk'[f] = x) \/ (f \in DOMAIN disk /\ disk'[f] = disk[f])
  BY <1>1, WrittenFile DEF Same
<1>2. ASSUME UNCHANGED disk \/ \E fs : disk' = Removed(fs)
      PROVE  f \in DOMAIN disk /\ disk'[f] = disk[f]
  BY <1>2, RemovedFiles DEF Same
<1>3. CASE Save(q)
  <2>1. PICK c \in proc[q].unsaved :
          /\ disk' = Written(Cc(q, c), {c})
          /\ proc'[q] = [proc[q] EXCEPT !.unsaved = @ \ {c}]
    BY <1>0, <1>3 DEF Save, Set
  <2>2. c \in Codes[q] /\ proc'[q].pc = "save"
    BY <1>0, <1>3, <2>1 DEF Save, At, States
  <2>3. QED
    BY <1>1, <2>1, <2>2 DEF KeepsSources
<1>4. CASE Schedule(q) \/ SpawnJob(q) \/ Collect(q) \/ StopJobs(q) \/ OpenLibrary(q)
  BY <1>2, <1>4 DEF Schedule, SpawnJob, Collect, StopJobs, OpenLibrary
<1>5. CASE Refuse(q) \/ PollError(q) \/ EndCompile(q) \/ RemoveObjects(q) \/ Unload(q)
  BY <1>2, <1>5 DEF Refuse, PollError, EndCompile, RemoveObjects, Unload
<1>6. CASE Link(q)
  BY <1>1, <1>6 DEF Link
<1>7. CASE EndLink(q)
  <2>1. CASE proc[q].error
    BY <1>2, <1>7, <2>1 DEF EndLink
  <2>2. CASE ~proc[q].error
    <3>1. /\ proc'[q] = Finish(q, "built")
          /\ disk' = [g \in (DOMAIN disk \ {Lib0(q)}) \cup {Lib(q)} |->
                            IF g = Lib(q) THEN disk[Lib0(q)] ELSE disk[g]]
      BY <1>0, <1>7, <2>2 DEF EndLink, Set
    <3>2. KeepsLibrary(q)'
      BY <1>0, <3>1 DEF KeepsLibrary, Built, Finish, States
    <3>3. Exists(Lib0(q))
      BY <1>0, <1>7 DEF EndLink, At, Mine, TempInPhase
    <3>4. QED
      BY <3>1, <3>2, <3>3
  <2>3. QED
    BY <2>1, <2>2
<1>8. CASE Compile(q)
  <2>1. PICK j \in proc[q].jobs :
          /\ j.input # "link"
          /\ \E s : Step(q, j, s)
          /\ UNCHANGED disk \/ \E x \in {Partial, {j.input}} : disk' = Written(Obj(q, j.input), x)
    BY <1>8 DEF Compile
  <2>2. j.input \in Inputs(q)
    BY <1>0, <2>1 DEF States, JobsOf
  <2>3. /\ proc'[q].pc = proc[q].pc /\ proc'[q].objects = proc[q].objects
        /\ proc'[q].abandoned = proc[q].abandoned
    BY <1>0, <2>1 DEF Step, Set, States
  <2>4. KeepsObjects(q)'
    BY <1>0, <2>1, <2>3, CompilingWhen DEF Mine, JobsInPhase, KeepsObjects
  <2>5. QED
    BY <1>1, <1>2, <2>1, <2>2, <2>4
<1>9. CASE LinkObjects(q)
  BY <1>1, <1>2, <1>9 DEF LinkObjects
<1>10. QED
  BY <1>3, <1>4, <1>5, <1>6, <1>7, <1>8, <1>9 DEF ToolStep, JobStep

\* Steps within a phase change neither the phase nor the result.
LEMMA SamePhase ==
  ASSUME IInv, NEW q \in Procs, Save(q) \/ SpawnJob(q) \/ Collect(q) \/ Compile(q) \/ LinkObjects(q)
  PROVE  /\ proc'[q].pc = proc[q].pc /\ proc'[q].objects = proc[q].objects
         /\ proc'[q].abandoned = proc[q].abandoned /\ proc'[q].result = proc[q].result
         /\ proc'[q].linked = proc[q].linked
<1>0. DOMAIN proc = Procs /\ proc[q] \in States(q)
  BY DEF IInv
<1>1. CASE Save(q)
  BY <1>0, <1>1 DEF Save, Set, States
<1>2. CASE SpawnJob(q)
  <2>1. \E left, jobs, lost : proc'[q] \in {[proc[q] EXCEPT !.pending = left, !.jobs = jobs, !.looping = TRUE],
                                          [proc[q] EXCEPT !.pending = left, !.lost = lost, !.looping = TRUE]}
    BY <1>0, <1>2 DEF SpawnJob, Set
  <2>2. QED
    BY <1>0, <2>1 DEF States
<1>3. CASE Collect(q)
  <2>1. \E jobs, error : proc'[q] = [proc[q] EXCEPT !.jobs = jobs, !.looping = FALSE, !.error = error]
    BY <1>0, <1>3 DEF Collect, Set
  <2>2. QED
    BY <1>0, <2>1 DEF States
<1>4. CASE Compile(q) \/ LinkObjects(q)
  <2>1. \E j, s : Step(q, j, s)
    BY <1>4 DEF Compile, LinkObjects
  <2>2. QED
    BY <1>0, <2>1 DEF Step, Set, States
<1>5. QED
  BY <1>1, <1>2, <1>3, <1>4

\* Who is going to remove files has still to do it after a step, or has done it.
LEMMA KeeperStays ==
  ASSUME InputsAssumption, IInv, NEW q \in Procs, ToolStep(q) \/ JobStep(q)
  PROVE  /\ KeepsObjects(q) => KeepsObjects(q)' \/ \A c \in Inputs(q) : Obj(q, c) \notin DOMAIN disk'
         /\ KeepsSources(q) => KeepsSources(q)' \/ \A c \in Codes[q] : Cc(q, c) \notin DOMAIN disk'
         /\ KeepsLibrary(q) => KeepsLibrary(q)' \/ Lib(q) \notin DOMAIN disk'
<1>0. DOMAIN proc = Procs /\ proc[q] \in States(q) /\ JobsInPhase(q)
  BY DEF IInv, Mine
<1>1. ASSUME disk' = Removed(Sources(q))
      PROVE  \A c \in Codes[q] : Cc(q, c) \notin DOMAIN disk'
  BY <1>1, RemovedFiles DEF Sources
<1>2. CASE Save(q) \/ SpawnJob(q) \/ Collect(q) \/ Compile(q) \/ LinkObjects(q)
  BY <1>2, SamePhase DEF KeepsObjects, KeepsSources, KeepsLibrary, Built
<1>3. CASE Schedule(q)
  <2>1. /\ proc[q].pc = "save" /\ proc'[q].pc = "compile" /\ proc'[q].objects = Objects(q)
        /\ proc'[q].abandoned = proc[q].abandoned
    BY <1>0, <1>3 DEF Schedule, Set, At, States
  <2>2. QED
    BY <2>1 DEF KeepsObjects, KeepsSources, KeepsLibrary, Built
<1>4. CASE Refuse(q)
  <2>1. proc[q].pc = "save" /\ ~proc[q].abandoned /\ disk' = Removed(Sources(q))
    BY <1>0, <1>4 DEF Refuse, At, JobsInPhase
  <2>2. QED
    BY <1>1, <2>1 DEF KeepsObjects, KeepsLibrary, Built
<1>5. CASE PollError(q)
  <2>1. /\ proc[q].pc \in {"compile", "linking"}
        /\ proc[q].pc = "compile" => disk' = Removed(Sources(q))
        /\ \E left : proc'[q] = [Failed(q) EXCEPT !.abandoned = left]
    BY <1>0, <1>5 DEF PollError, Waiting, Set, At
  <2>2. proc'[q].pc = "remove" /\ proc'[q].objects = proc[q].objects
    BY <1>0, <2>1, FailedRecord DEF States
  <2>3. ~proc[q].abandoned
    BY <1>0, <2>1 DEF JobsInPhase
  <2>4. QED
    BY <1>1, <2>1, <2>2, <2>3 DEF KeepsObjects, KeepsSources, KeepsLibrary, Built
<1>6. CASE EndCompile(q)
  <2>1. /\ proc[q].pc = "compile" /\ disk' = Removed(Sources(q))
        /\ proc'[q] = Failed(q) \/ proc'[q] = [proc[q] EXCEPT !.pc = "link"]
    BY <1>0, <1>6 DEF EndCompile, Set, At
  <2>2. proc'[q].pc \in {"remove", "link"} /\ proc'[q].objects = proc[q].objects
    BY <1>0, <2>1, FailedRecord DEF States
  <2>3. ~proc[q].abandoned
    BY <1>0, <2>1 DEF JobsInPhase
  <2>4. QED
    BY <1>1, <2>1, <2>2, <2>3 DEF KeepsObjects, KeepsLibrary, Built
<1>7. CASE Link(q)
  <2>1. /\ proc[q].pc = "link"
        /\ proc'[q] = Failed(q) \/ proc'[q] = [proc[q] EXCEPT !.pc = "linking", !.pending = {Linking}]
    BY <1>0, <1>7 DEF Link, Set, At
  <2>2. proc'[q].pc \in {"remove", "linking"} /\ proc'[q].objects = proc[q].objects
    BY <1>0, <2>1, FailedRecord DEF States
  <2>3. ~proc[q].abandoned
    BY <1>0, <2>1 DEF JobsInPhase
  <2>4. QED
    BY <2>1, <2>2, <2>3 DEF KeepsObjects, KeepsSources, KeepsLibrary, Built
<1>8. CASE EndLink(q)
  <2>1. /\ proc[q].pc = "linking"
        /\ proc'[q] = Failed(q) \/ proc'[q] = Finish(q, "built")
    BY <1>0, <1>8 DEF EndLink, Set, At
  <2>2. proc'[q].pc = "remove" /\ proc'[q].objects = proc[q].objects
    BY <1>0, <2>1 DEF Failed, Finish, States
  <2>3. ~proc[q].abandoned
    BY <1>0, <2>1 DEF JobsInPhase
  <2>4. QED
    BY <2>1, <2>2, <2>3 DEF KeepsObjects, KeepsSources, KeepsLibrary, Built
<1>9. CASE RemoveObjects(q)
  <2>1. /\ proc[q].pc = "remove" /\ disk' = Removed(proc[q].objects)
        /\ proc'[q] = [proc[q] EXCEPT !.pc = "stop"]
    BY <1>0, <1>9 DEF RemoveObjects, Set, At
  <2>2. proc'[q].pc = "stop" /\ proc'[q].result = proc[q].result /\ proc'[q].abandoned = proc[q].abandoned
    BY <1>0, <2>1 DEF States
  <2>3. proc[q].objects = Objects(q) => \A c \in Inputs(q) : Obj(q, c) \notin DOMAIN disk'
    BY <2>1, RemovedFiles DEF Objects, ObjectsOf
  <2>4. QED
    BY <2>1, <2>2, <2>3 DEF KeepsObjects, KeepsSources, KeepsLibrary, Built
<1>10. CASE StopJobs(q)
  <2>1. /\ proc[q].pc = "stop"
        /\ proc'[q] = [proc[q] EXCEPT !.pc = IF proc[q].result = "built" THEN "open" ELSE "done", !.jobs = {}]
    BY <1>0, <1>10 DEF StopJobs, Set, At
  <2>2. /\ proc'[q].pc = (IF proc[q].result = "built" THEN "open" ELSE "done")
        /\ proc'[q].abandoned = proc[q].abandoned
    BY <1>0, <2>1 DEF States
  <2>3. QED
    BY <2>1, <2>2 DEF KeepsObjects, KeepsSources, KeepsLibrary, Built
<1>11. CASE OpenLibrary(q)
  <2>1. /\ proc[q].pc = "open" /\ proc'[q].pc = "unload" /\ proc'[q].abandoned = proc[q].abandoned
    BY <1>0, <1>11 DEF OpenLibrary, Set, At, States
  <2>2. QED
    BY <2>1 DEF KeepsObjects, KeepsSources, KeepsLibrary, Built
<1>12. CASE Unload(q)
  <2>1. /\ proc[q].pc = "unload" /\ proc'[q].abandoned = proc[q].abandoned /\ disk' = Removed({Lib(q)})
    BY <1>0, <1>12 DEF Unload, Set, At, States
  <2>2. QED
    BY <2>1, RemovedFiles DEF KeepsObjects, KeepsSources
<1>13. QED
  BY <1>2, <1>3, <1>4, <1>5, <1>6, <1>7, <1>8, <1>9, <1>10, <1>11, <1>12 DEF ToolStep, JobStep

\* What is loaded was loaded before, or was complete on disk.
LEMMA LoadedFrom ==
  ASSUME IInv, NEW q \in Procs, ToolStep(q) \/ JobStep(q), proc'[q].result = "loaded"
  PROVE  \/ proc[q].result = "loaded" /\ proc'[q].linked = proc[q].linked
         \/ Whole(Lib(q)) /\ proc'[q].linked = disk[Lib(q)]
<1>0. DOMAIN proc = Procs /\ proc[q] \in States(q)
  BY DEF IInv
<1>1. CASE OpenLibrary(q)
  BY <1>0, <1>1 DEF OpenLibrary, Set, States
<1>2. CASE PollError(q)
  <2>1. \E left : proc'[q] = [Failed(q) EXCEPT !.abandoned = left]
    BY <1>0, <1>2 DEF PollError, Set
  <2>2. QED
    BY <1>0, <2>1, FailedRecord DEF States
<1>3. CASE Save(q) \/ SpawnJob(q) \/ Collect(q) \/ Compile(q) \/ LinkObjects(q)
  BY <1>3, SamePhase
<1>4. CASE Refuse(q) \/ EndCompile(q) \/ Link(q) \/ EndLink(q)
  BY <1>0, <1>4 DEF Refuse, EndCompile, Link, EndLink, Set, Failed, Finish, States
<1>5. CASE Schedule(q) \/ RemoveObjects(q) \/ StopJobs(q) \/ Unload(q)
  BY <1>0, <1>5 DEF Schedule, RemoveObjects, StopJobs, Unload, Set, States
<1>6. QED
  BY <1>1, <1>2, <1>3, <1>4, <1>5 DEF ToolStep, JobStep

\* What is in the files stays right, whoever writes them.
LEMMA ContentsStay ==
  ASSUME InputsAssumption, IInv, NEW q \in Procs, ToolStep(q) \/ JobStep(q), NEW p \in Procs,
         p # q => proc'[p] = proc[p]
  PROVE  Contents(p)'
<1>1. SUFFICES ASSUME Separate(p)
               PROVE  /\ \A c \in Inputs(p) :
                           Obj(p, c) \in DOMAIN disk' => disk'[Obj(p, c)] \in {Partial, {c}}
                      /\ Lib0(p) \in DOMAIN disk' => disk'[Lib0(p)] \in {Partial, Inputs(p)}
                      /\ Lib(p) \in DOMAIN disk' => disk'[Lib(p)] \in {Partial, Inputs(p)}
                      /\ proc'[p].result = "loaded" => proc'[p].linked = Inputs(p)
  BY DEF Contents, Exists
<1>2. /\ \A c \in Inputs(p) : Obj(p, c) \in DOMAIN disk => disk[Obj(p, c)] \in {Partial, {c}}
      /\ Lib0(p) \in DOMAIN disk => disk[Lib0(p)] \in {Partial, Inputs(p)}
      /\ Lib(p) \in DOMAIN disk => disk[Lib(p)] \in {Partial, Inputs(p)}
      /\ proc[p].result = "loaded" => proc[p].linked = Inputs(p)
  BY <1>1 DEF IInv, Contents, Exists
<1>3. ASSUME NEW c \in Inputs(p), Obj(p, c) \in DOMAIN disk'
      PROVE  disk'[Obj(p, c)] \in {Partial, {c}}
  <2>1. \/ Obj(p, c) \in DOMAIN disk /\ disk'[Obj(p, c)] = disk[Obj(p, c)]
        \/ \E d \in Inputs(q) : Obj(p, c) = Obj(q, d) /\ disk'[Obj(p, c)] \in {Partial, {d}}
    BY <1>3, FilesChange, KindsApart
  <2>2. QED
    BY <1>1, <1>2, <2>1, NamesApart
<1>4. ASSUME Lib0(p) \in DOMAIN disk'
      PROVE  disk'[Lib0(p)] \in {Partial, Inputs(p)}
  <2> DEFINE all(r) == UNION {disk[g] : g \in Objects(r)}
             whole(r) == \A g \in Objects(r) : Whole(g)
  <2>1. \/ Lib0(p) \in DOMAIN disk /\ disk'[Lib0(p)] = disk[Lib0(p)]
        \/ \E c : Lib0(p) \in {Cc(q, c), Obj(q, c), Lib(q)}
        \/ Lib0(p) = Lib0(q) /\ (disk'[Lib0(p)] = Partial \/ (whole(q) /\ disk'[Lib0(p)] = all(q)))
    BY <1>4, FilesChange
  <2>2. (Lib0(p) = Lib0(q) => p = q) /\ \A c : Lib0(p) \notin {Cc(q, c), Obj(q, c), Lib(q)}
    BY KindsApart DEF Lib0
  <2>3. ASSUME \A g \in Objects(p) : Whole(g)
        PROVE  UNION {disk[g] : g \in Objects(p)} = Inputs(p)
    <3>1. \A c \in Inputs(p) : disk[Obj(p, c)] = {c}
      BY <1>2, <2>3 DEF Objects, ObjectsOf, Whole, Exists
    <3>2. QED
      BY <3>1 DEF Objects, ObjectsOf
  <2>4. QED
    BY <1>2, <2>1, <2>2, <2>3
<1>5. ASSUME Lib(p) \in DOMAIN disk'
      PROVE  disk'[Lib(p)] \in {Partial, Inputs(p)}
  <2>1. \/ Lib(p) \in DOMAIN disk /\ disk'[Lib(p)] = disk[Lib(p)]
        \/ Lib(p) = Lib(q) /\ Exists(Lib0(q)) /\ disk'[Lib(p)] = disk[Lib0(q)]
    BY <1>5, FilesChange, KindsApart
  <2>2. ASSUME Lib(p) = Lib(q), Exists(Lib0(q))
        PROVE  disk[Lib0(q)] \in {Partial, Inputs(p)}
    <3>1. Hash(p) = Hash(q)
      BY <2>2 DEF Lib
    <3>2. Separate(q) /\ Inputs(p) = Inputs(q)
      BY <1>1, <3>1, TwinsShare
    <3>3. QED
      BY <2>2, <3>2 DEF IInv, Contents
  <2>3. QED
    BY <1>2, <2>1, <2>2
<1>6. ASSUME proc'[p].result = "loaded"
      PROVE  proc'[p].linked = Inputs(p)
  <2>1. CASE p # q
    BY <1>2, <1>6, <2>1
  <2>2. CASE p = q
    BY <1>2, <1>6, <2>2, LoadedFrom DEF Whole, Exists
  <2>3. QED
    BY <2>1, <2>2
<1>7. QED
  BY <1>3, <1>4, <1>5, <1>6

\* No file is left to nobody.
LEMMA AttendedStays ==
  ASSUME InputsAssumption, IInv, NEW q \in Procs, ToolStep(q) \/ JobStep(q), NEW p \in Procs,
         \A r \in Procs : r # q => proc'[r] = proc[r]
  PROVE  Attended(p)'
<1>1. \A r \in Procs : r # q => /\ KeepsObjects(r) => KeepsObjects(r)'
                                /\ KeepsSources(r) => KeepsSources(r)'
                                /\ KeepsLibrary(r) => KeepsLibrary(r)'
  BY DEF KeepsObjects, KeepsSources, KeepsLibrary, Built
<1>2. \A r \in Twins(p) : r \in Procs /\ Hash(p) = Hash(r)
  BY DEF Twins
<1>3. ASSUME NEW c \in Inputs(p), Obj(p, c) \in DOMAIN disk'
      PROVE  \E r \in Twins(p) : KeepsObjects(r)'
  <2>1. CASE Obj(p, c) \in DOMAIN disk
    <3>1. PICK r \in Twins(p) : KeepsObjects(r)
      BY <2>1 DEF IInv, Attended, Exists
    <3>2. r = q => q \in Twins(p) /\ KeepsObjects(q) /\ ~(\A d \in Inputs(q) : Obj(q, d) \notin DOMAIN disk')
      BY <1>2, <1>3, <3>1, TwinsShare
    <3>3. CASE r = q
      BY <3>2, <3>3, KeeperStays
    <3>4. CASE r # q
      BY <1>1, <1>2, <3>1, <3>4
    <3>5. QED
      BY <3>3, <3>4
  <2>2. CASE Obj(p, c) \notin DOMAIN disk
    <3>1. KeepsObjects(q)' /\ \E d \in Inputs(q) : Obj(p, c) = Obj(q, d)
      BY <1>3, <2>2, FilesChange, KindsApart
    <3>2. QED
      BY <3>1, NamesApart DEF Twins
  <2>3. QED
    BY <2>1, <2>2
<1>4. ASSUME NEW c \in Codes[p], Cc(p, c) \in DOMAIN disk'
      PROVE  \E r \in Twins(p) : KeepsSources(r)'
  <2>1. CASE Cc(p, c) \in DOMAIN disk
    <3>1. PICK r \in Twins(p) : KeepsSources(r)
      BY <2>1 DEF IInv, Attended, Exists
    <3>2. r = q => q \in Twins(p) /\ KeepsSources(q) /\ ~(\A d \in Codes[q] : Cc(q, d) \notin DOMAIN disk')
      BY <1>2, <1>4, <3>1, TwinsShare
    <3>3. CASE r = q
      BY <3>2, <3>3, KeeperStays
    <3>4. CASE r # q
      BY <1>1, <1>2, <3>1, <3>4
    <3>5. QED
      BY <3>3, <3>4
  <2>2. CASE Cc(p, c) \notin DOMAIN disk
    <3>1. \/ KeepsSources(q)' /\ \E d \in Codes[q] : Cc(p, c) = Cc(q, d)
          \/ \E d : Cc(p, c) \in {Obj(q, d), Lib0(q), Lib(q)}
      BY <1>4, <2>2, FilesChange
    <3>2. \A d : Cc(p, c) \notin {Obj(q, d), Lib0(q), Lib(q)}
      BY KindsApart
    <3>3. QED
      BY <3>1, <3>2, NamesApart DEF Twins, Inputs
  <2>3. QED
    BY <2>1, <2>2
<1>5. ASSUME Lib(p) \in DOMAIN disk'
      PROVE  \E r \in Twins(p) : KeepsLibrary(r)'
  <2>1. CASE Lib(p) \in DOMAIN disk
    <3>1. PICK r \in Twins(p) : KeepsLibrary(r)
      BY <2>1 DEF IInv, Attended, Exists
    <3>2. r = q => q \in Twins(p) /\ KeepsLibrary(q) /\ Lib(q) \in DOMAIN disk'
      BY <1>2, <1>5, <3>1, TwinsShare
    <3>3. CASE r = q
      BY <3>2, <3>3, KeeperStays
    <3>4. CASE r # q
      BY <1>1, <1>2, <3>1, <3>4
    <3>5. QED
      BY <3>3, <3>4
  <2>2. CASE Lib(p) \notin DOMAIN disk
    <3>1. KeepsLibrary(q)' /\ Lib(p) = Lib(q)
      BY <1>5, <2>2, FilesChange, KindsApart
    <3>2. QED
      BY <3>1 DEF Twins, Lib
  <2>3. QED
    BY <2>1, <2>2
<1>6. QED
  BY <1>3, <1>4, <1>5 DEF Attended, Exists

-----------------------------------------------------------------------------
(* The theorem *)

\* Initially nothing is there, and all jobs are to come.
LEMMA InitIInv ==
  ASSUME Parallelism \in Nat, Init
  PROVE  IInv
<1>1. DOMAIN disk = {}
  BY DEF Init
<1>2. IsFiniteSet({}) /\ Cardinality({}) = 0
  BY FS_EmptySet
<1>3. FilesTyped
  BY <1>1 DEF FilesTyped
<1>4. ASSUME NEW p \in Procs
      PROVE  proc[p] \in States(p) /\ Mine(p) /\ Contents(p) /\ Attended(p)
  <2>1. proc[p] = [pc |-> "save", unsaved |-> Codes[p], pending |-> {}, jobs |-> {}, looping |-> FALSE,
                   error |-> FALSE, objects |-> {}, result |-> "none", linked |-> {},
                   lost |-> {}, abandoned |-> FALSE]
    BY DEF Init
  <2>2. proc[p] \in States(p)
    BY <2>1 DEF States, Phases
  <2>3. JobsInPhase(p) /\ TempInPhase(p)
    BY <1>2, <2>1 DEF JobsInPhase, TempInPhase
  <2>4. SourcesInPhase(p) /\ ObjectsInPhase(p) /\ FailuresExplained(p) /\ LibraryInPhase(p)
    BY <1>1, <2>1 DEF SourcesInPhase, ObjectsInPhase, FailuresExplained, LibraryInPhase, Built, Exists
  <2>5. Contents(p) /\ Attended(p)
    BY <1>1, <2>1 DEF Contents, Attended, Exists
  <2>6. QED
    BY <2>2, <2>3, <2>4, <2>5 DEF Mine
<1>5. QED
  BY <1>3, <1>4 DEF Init, IInv

\* A step only changes the record of its process.
LEMMA OwnRecordOnly ==
  ASSUME IInv, NEW q \in Procs, ToolStep(q) \/ JobStep(q)
  PROVE  DOMAIN proc' = Procs /\ \A p \in Procs : p # q => proc'[p] = proc[p]
<1>1. \E r : Set(q, r)
  BY DEF ToolStep, JobStep, Save, Schedule, Refuse, SpawnJob, Collect, PollError, EndCompile, Link, EndLink,
         OpenLibrary, RemoveObjects, StopJobs, Unload, Compile, LinkObjects, Step
<1>2. QED
  BY <1>1 DEF Set, IInv

\* Every step keeps the invariant: of the process that takes it by what the step
\* does, of the others because it does not touch their files, and of shared files
\* because twins do the same.
LEMMA NextIInv ==
  ASSUME InputsAssumption, Parallelism \in Nat, IInv, [Next]_vars
  PROVE  IInv'
<1>1. CASE UNCHANGED vars
  <2>1. \A p \in Procs : Mine(p)'
    <3>1. \A f : Same(f)
      BY <1>1 DEF vars, Same
    <3>2. QED
      BY <1>1, <3>1, Untouched DEF IInv, vars
  <2>2. \A p \in Procs : Contents(p)' /\ Attended(p)'
    BY <1>1 DEF IInv, vars, Contents, Attended, KeepsObjects, KeepsSources, KeepsLibrary, Built, Exists
  <2>3. QED
    BY <1>1, <2>1, <2>2 DEF IInv, FilesTyped, vars
<1>2. ASSUME NEW q \in Procs, ToolStep(q) \/ JobStep(q)
      PROVE  IInv'
  <2>1. Stays(q)
    BY <1>2, SaveStays, ScheduleStays, RefuseStays, SpawnStays, CollectStays, PollErrorStays, EndCompileStays,
       LinkStays, EndLinkStays, OpenLibraryStays, RemoveObjectsStays, StopJobsStays, UnloadStays,
       CompileStays, LinkObjectsStays
       DEF ToolStep, JobStep
  <2>2. DOMAIN proc' = Procs /\ \A p \in Procs : p # q => proc'[p] = proc[p]
    BY <1>2, OwnRecordOnly
  <2>3. \A p \in Procs : p # q => Mine(p)'
    BY <1>2, <2>2, OthersStay
  <2>4. \A p \in Procs : Contents(p)' /\ Attended(p)'
    BY <1>2, <2>2, ContentsStay, AttendedStays
  <2>5. \A p \in Procs : proc'[p] \in States(p)
    BY <2>1, <2>2 DEF Stays, IInv
  <2>6. QED
    BY <2>1, <2>2, <2>3, <2>4, <2>5 DEF Stays, IInv
<1>3. QED
  BY <1>1, <1>2 DEF Next

\* The invariant says that builds are sound.
LEMMA IInvSound ==
  ASSUME IInv
  PROVE  BuildIsSound
<1>1. TypeOK
  BY DEF IInv, TypeOK, FilesTyped, States, Mine, JobsInPhase
<1>2. LibraryComplete
  BY DEF IInv, LibraryComplete, Contents
<1>3. Independent
  BY DEF IInv, Independent, Mine, Single, FailuresExplained
<1>4. NothingLeft
  <2>1. SUFFICES ASSUME NEW p \in Procs, \A q \in Twins(p) : proc[q].pc = "done" /\ ~proc[q].abandoned
                 PROVE  DOMAIN disk \cap (Objects(p) \cup Sources(p) \cup {Lib(p)}) = {}
    BY DEF NothingLeft, At
  <2>2. \A q \in Twins(p) : ~KeepsObjects(q) /\ ~KeepsSources(q) /\ ~KeepsLibrary(q)
    BY <2>1 DEF KeepsObjects, KeepsSources, KeepsLibrary, Built
  <2>3. /\ \A c \in Inputs(p) : Obj(p, c) \notin DOMAIN disk
        /\ \A c \in Codes[p] : Cc(p, c) \notin DOMAIN disk
        /\ Lib(p) \notin DOMAIN disk
    BY <2>2 DEF IInv, Attended, Exists
  <2>4. QED
    BY <2>3 DEF Objects, ObjectsOf, Sources
<1>5. QED
  BY <1>1, <1>2, <1>3, <1>4 DEF BuildIsSound

\* Builds that share a temporary directory do not disturb each other: a library
\* that is loaded is complete, a build fails for a reason of its own, and leaves
\* nothing behind.
THEOREM BuildsStaySound ==
  ASSUME InputsAssumption
  PROVE  Spec => []BuildIsSound
<1>1. Init => IInv
  BY InitIInv, ParallelismAssumption
<1>2. IInv /\ [Next]_vars => IInv'
  BY NextIInv, ParallelismAssumption
<1>3. IInv => BuildIsSound
  BY IInvSound
<1>4. QED
  BY <1>1, <1>2, <1>3, PTL DEF Spec

(***************************** The optimizer *******************************)

Passes == {"features", "constants", "functions", "members", "types", "end of round", "done"}

\* What is left of the code is sites of the program, some with their guards gone.
Sited == \A s \in code : \E t \in program.sites : s = t \/ s = Folded(t)

\* Features are decided on before anything is removed, and for good; after that
\* the first round removes all guards.
Decided ==
  /\ pass \in Passes
  /\ pass = "features" => code = program.sites /\ flags = program.flags
  /\ pass # "features" => flags = InUse
  /\ pass \notin {"features", "constants"} => \A s \in code : s.guard = {}

\* A round that has changed nothing so far has left its passes nothing to do.
FunctionsSettled == decls = PrunedDecls /\ fields = PrunedFields /\ code = PrunedCode
MembersSettled == \A m \in members : MemberStays(m)
TypesSettled == \A t \in types : TypeStays(t)
Settled ==
  /\ pass = "done" => ~modified
  /\ ~modified =>
       /\ pass \in {"members", "types", "end of round", "done"} => FunctionsSettled
       /\ pass \in {"types", "end of round", "done"} => MembersSettled
       /\ pass \in {"end of round", "done"} => TypesSettled

\* The parts are put together by their names, and opened where they are needed.
OptimizerIInv == program \in Programs /\ ProgramOK /\ NothingDangles /\ Sited /\ Decided /\ Settled /\ KeepsWhatRuns

\* The sites that are left are records, with names that the program declares.
LEMMA SiteFacts ==
  ASSUME program \in Programs, Sited, NEW s \in code
  PROVE  /\ s.in \in Functions /\ Fn(s.in).body
         /\ s.call \in Functions \cup {Absent} /\ s.member \in DOMAIN program.member \cup {Absent}
         /\ Folded(s) = [in |-> s.in, guard |-> {}, call |-> s.call, member |-> s.member,
                         type |-> s.type, requires |-> s.requires]
         /\ s = [in |-> s.in, guard |-> s.guard, call |-> s.call, member |-> s.member,
                 type |-> s.type, requires |-> s.requires]
<1> DEFINE Site(r) == r = [in |-> r.in, guard |-> r.guard, call |-> r.call, member |-> r.member,
                           type |-> r.type, requires |-> r.requires]
<1>1. PICK t \in program.sites : s = t \/ s = Folded(t)
  BY DEF Sited
<1>2. /\ Site(t) /\ t.in \in Functions /\ Fn(t.in).body
      /\ t.call \in Functions \cup {Absent} /\ t.member \in DOMAIN program.member \cup {Absent}
  BY <1>1, ProgramsAssumption DEF Functions, Fn
<1>3. \A r : Site(r) => Folded(r) = [in |-> r.in, guard |-> {}, call |-> r.call, member |-> r.member,
                                     type |-> r.type, requires |-> r.requires]
  BY DEF Folded
<1>4. Site(s) /\ s.in = t.in /\ s.call = t.call /\ s.member = t.member
  BY <1>1, <1>2, <1>3
<1>5. QED BY <1>2, <1>3, <1>4

\* In the beginning everything is there.
LEMMA OptimizerInit_IInv == OptimizerInit => OptimizerIInv
<1> SUFFICES ASSUME OptimizerInit
             PROVE  OptimizerIInv
  OBVIOUS
<1>1. ProgramOK
  BY ProgramsAssumption DEF OptimizerInit, Unoptimized, ProgramOK, Functions, Fn, Methods
<1>2. NothingDangles
  <2>1. ASSUME NEW s \in code
        PROVE  /\ s.call # Absent => s.call \in decls \cup fields
               /\ s.member # Absent => s.member \in members
               /\ Mentioned(s) \subseteq types
    BY ProgramsAssumption DEF OptimizerInit, Unoptimized, Functions, Fn, Methods, Mentioned
  <2>2. QED BY <2>1, ProgramsAssumption DEF OptimizerInit, Unoptimized, NothingDangles, Functions, Fn, Methods
<1>3. Sited /\ Decided /\ Settled
  BY DEF OptimizerInit, Unoptimized, Sited, Decided, Settled, Passes
<1>4. Running \subseteq decls
  <2>1. Functions \in SUBSET Functions /\ Entries \subseteq decls
    BY DEF OptimizerInit, Unoptimized, Entries
  <2>2. ASSUME NEW s \in program.sites, CallsOut(s)
        PROVE  s.call \in decls
    BY <2>2, ProgramsAssumption DEF OptimizerInit, Unoptimized, CallsOut, Functions, Fn
  <2>3. decls \in SUBSET Functions
    BY DEF OptimizerInit, Unoptimized
  <2>4. QED BY <2>1, <2>2, <2>3 DEF Running
<1>5. KeepsWhatRuns
  BY <1>4 DEF OptimizerInit, Unoptimized, KeepsWhatRuns
<1>6. QED BY <1>1, <1>2, <1>3, <1>5 DEF OptimizerInit, OptimizerIInv
\* What could run is decided by the program alone.
LEMMA SameProgram ==
  ASSUME program' = program
  PROVE  /\ Functions' = Functions /\ Methods' = Methods /\ InUse' = InUse /\ Entries' = Entries /\ Running' = Running
         /\ \A f : Fn(f)' = Fn(f) /\ IsHook(f)' = IsHook(f)
         /\ \A s : MayRun(s)' = MayRun(s) /\ Mentioned(s)' = Mentioned(s)
<1>1. Functions' = Functions /\ Methods' = Methods /\ \A f : Fn(f)' = Fn(f) /\ IsHook(f)' = IsHook(f)
  BY DEF Functions, Methods, Fn, IsHook
<1>2. \A s : Needs(s)' = Needs(s) /\ Mentioned(s)' = Mentioned(s)
  BY <1>1 DEF Needs, Mentioned
<1>3. InUse' = InUse
  BY <1>2 DEF InUse
<1>4. \A s : MayRun(s)' = MayRun(s) /\ CallsOut(s)' = CallsOut(s)
  BY <1>1, <1>3 DEF MayRun, CallsOut
<1>5. \A f : FromOutside(f)' = FromOutside(f)
  BY <1>1, <1>3 DEF FromOutside, Public
<1>6. Entries' = Entries
  BY <1>1, <1>5 DEF Entries
<1>7. Running' = Running
  BY <1>1, <1>4, <1>6 DEF Running
<1>8. QED BY <1>1, <1>2, <1>3, <1>4, <1>6, <1>7

\* Whoever runs has a body, and is called from outside or by somebody who runs;
\* and whom he calls runs.
LEMMA RunningFacts ==
  ASSUME program \in Programs
  PROVE  /\ Running \subseteq Functions
         /\ \A f \in Running :
              /\ Fn(f).body
              /\ FromOutside(f) \/ \E s \in program.sites : s.in \in Running /\ MayRun(s) /\ s.call = f
         /\ \A s \in program.sites : s.in \in Running /\ CallsOut(s) => s.call \in Running
<1> DEFINE Shut(R) ==
      Entries \subseteq R /\ \A s \in program.sites : s.in \in R /\ CallsOut(s) => s.call \in R
<1>1. Running = {f \in Functions : \A R \in SUBSET Functions : Shut(R) => f \in R}
  BY DEF Running
<1>2. \A s \in program.sites : CallsOut(s) => s.call \in Functions /\ Fn(s.call).body
  BY ProgramsAssumption DEF CallsOut, Functions
<1>3. ASSUME NEW s \in program.sites, s.in \in Running, CallsOut(s)
      PROVE  s.call \in Running
  BY <1>1, <1>2, <1>3
<1>4. Entries \subseteq Running
  BY <1>1 DEF Entries
<1>5. Running \in SUBSET Functions
  BY <1>1
<1>6. ASSUME NEW f \in Running,
             ~(/\ Fn(f).body
               /\ FromOutside(f) \/ \E s \in program.sites : s.in \in Running /\ MayRun(s) /\ s.call = f)
      PROVE  FALSE
  <2>1. f \notin Entries
    BY <1>6 DEF Entries
  <2>2. Shut(Running \ {f})
    <3>1. Entries \subseteq Running \ {f}
      BY <2>1, <1>4
    <3>2. ASSUME NEW s \in program.sites, s.in \in Running \ {f}, CallsOut(s)
          PROVE  s.call \in Running \ {f}
      BY <1>2, <1>3, <1>6, <3>2 DEF CallsOut
    <3>3. QED BY <3>1, <3>2
  <2>3. Running \ {f} \in SUBSET Functions
    BY <1>5
  <2>4. f \in Running \ {f}
    BY <1>1, <2>2, <2>3, <1>6
  <2>5. QED BY <2>4
<1>7. QED BY <1>3, <1>5, <1>6

\* Deciding on the features: nothing is removed, and what is in use is as the
\* program says.
LEMMA TransformKeeps == OptimizerIInv /\ Transform => OptimizerIInv'
<1> SUFFICES ASSUME OptimizerIInv, Transform
             PROVE  OptimizerIInv'
  OBVIOUS
<1> USE DEF OptimizerIInv
<1>1. /\ program' = program /\ code' = code /\ decls' = decls /\ fields' = fields
      /\ members' = members /\ types' = types
      /\ pass = "features" /\ pass' = "constants" /\ modified' = FALSE /\ flags' = flags \cap Required
  BY DEF Transform
<1>2. ProgramOK'
  BY <1>1 DEF ProgramOK, Functions, Methods, Fn
<1>3. NothingDangles'
  BY <1>1, SameProgram DEF NothingDangles
<1>4. Sited'
  BY <1>1 DEF Sited, Folded
<1>5. Decided'
  <2>1. flags' = InUse
    BY <1>1 DEF Decided, InUse, Required
  <2>2. QED BY <2>1, <1>1, SameProgram DEF Decided, Passes
<1>6. Settled'
  BY <1>1 DEF Settled
<1>7. KeepsWhatRuns'
  BY <1>1, SameProgram DEF KeepsWhatRuns, Folded
<1>8. QED BY <1>1, <1>2, <1>3, <1>4, <1>5, <1>6, <1>7

\* Folding the flags: what runs is under a flag that stays true, and so stays.
LEMMA FoldConstantsKeeps == OptimizerIInv /\ FoldConstants => OptimizerIInv'
<1> SUFFICES ASSUME OptimizerIInv, FoldConstants
             PROVE  OptimizerIInv'
  OBVIOUS
<1> USE DEF OptimizerIInv
<1>1. /\ program' = program /\ decls' = decls /\ fields' = fields /\ members' = members /\ types' = types
      /\ flags' = flags /\ pass = "constants" /\ pass' = "functions"
      /\ code' = {Folded(s) : s \in {t \in code : \A any \in t.guard : any \cap flags # {}}}
      /\ modified' = (modified \/ code' # code)
  BY DEF FoldConstants
<1>2. program \in Programs
  OBVIOUS
<1>3. ASSUME NEW r \in code'
      PROVE  \E s \in code : r = Folded(s) /\ r.in = s.in /\ r.call = s.call /\ r.member = s.member
                               /\ r.guard = {} /\ Mentioned(r) = Mentioned(s) /\ Folded(r) = r
  <2>1. PICK s \in code : r = Folded(s)
    BY <1>1
  <2>2. r = [in |-> s.in, guard |-> {}, call |-> s.call, member |-> s.member,
             type |-> s.type, requires |-> s.requires]
    BY <2>1, <1>2, SiteFacts
  <2>3. Folded(r) = r
    BY <2>2 DEF Folded
  <2>4. Mentioned(r) = Mentioned(s)
    BY <2>2 DEF Mentioned
  <2>5. r.in = s.in /\ r.call = s.call /\ r.member = s.member /\ r.guard = {}
    BY <2>2
  <2>6. QED BY <2>1, <2>3, <2>4, <2>5
<1>4. ProgramOK'
  BY <1>1, <1>3 DEF ProgramOK, Functions, Methods, Fn
<1>5. NothingDangles'
  <2>1. ASSUME NEW r \in code'
        PROVE  /\ r.call # Absent => r.call \in decls \cup fields
               /\ r.member # Absent => r.member \in members
               /\ Mentioned(r) \subseteq types
    BY <1>3 DEF NothingDangles
  <2>2. QED BY <1>1, <2>1, SameProgram DEF NothingDangles
<1>6. Sited'
  <2>1. ASSUME NEW r \in code'
        PROVE  \E t \in program.sites : r = Folded(t)
    <3>1. PICK s \in code : r = Folded(s)
      BY <1>3
    <3>2. PICK t \in program.sites : s = t \/ s = Folded(t)
      BY DEF Sited
    <3>3. t = [in |-> t.in, guard |-> t.guard, call |-> t.call, member |-> t.member,
               type |-> t.type, requires |-> t.requires]
      BY <1>2, ProgramsAssumption
    <3>4. Folded(Folded(t)) = Folded(t)
      BY <3>3 DEF Folded
    <3>5. QED BY <3>1, <3>2, <3>4
  <2>2. QED BY <2>1, <1>1 DEF Sited, Folded
<1>7. Decided'
  BY <1>1, <1>3, SameProgram DEF Decided, Passes
<1>8. Settled'
  BY <1>1 DEF Settled
<1>9. KeepsWhatRuns'
  <2>1. flags = InUse
    BY <1>1 DEF Decided
  <2>2. ASSUME NEW s \in program.sites, MayRun(s), s \in code \/ Folded(s) \in code
        PROVE  Folded(s) \in code'
    <3>1. CASE s \in code
      BY <1>1, <2>1, <2>2, <3>1 DEF MayRun
    <3>2. CASE Folded(s) \in code
      <4>1. s = [in |-> s.in, guard |-> s.guard, call |-> s.call, member |-> s.member,
                 type |-> s.type, requires |-> s.requires]
        BY <1>2, ProgramsAssumption
      <4>2. Folded(s).guard = {} /\ Folded(Folded(s)) = Folded(s)
        BY <4>1 DEF Folded
      <4>3. QED BY <1>1, <3>2, <4>2
    <3>3. QED BY <2>2, <3>1, <3>2
  <2>3. \A s : Folded(s)' = Folded(s)
    BY DEF Folded
  <2>4. QED BY <1>1, <2>2, <2>3, SameProgram DEF KeepsWhatRuns
<1>10. QED BY <1>1, <1>2, <1>4, <1>5, <1>6, <1>7, <1>8, <1>9
\* Removing functions: who is called or could be stays, and calls that nobody
\* answers go; what runs is called by what runs, whose sites are still there.
LEMMA PruneFunctionsKeeps == OptimizerIInv /\ PruneFunctions => OptimizerIInv'
<1> SUFFICES ASSUME OptimizerIInv, PruneFunctions
             PROVE  OptimizerIInv'
  OBVIOUS
<1> USE DEF OptimizerIInv
<1>1. /\ program' = program /\ members' = members /\ types' = types /\ flags' = flags
      /\ pass = "functions" /\ pass' = "members"
      /\ decls' = PrunedDecls /\ fields' = PrunedFields /\ code' = Bodies(PrunedCode, PrunedDecls)
      /\ modified' = (modified \/ <<code', decls', fields'>> # <<code, decls, fields>>)
  BY DEF PruneFunctions
<1>2. program \in Programs
  OBVIOUS
<1>3. decls' \subseteq decls /\ fields' \subseteq fields
  BY <1>1 DEF PrunedDecls, PrunedFields
<1>4. code' \subseteq code /\ \A s \in code' : s.in \in decls'
  BY <1>1 DEF Bodies, PrunedCode
<1>5. ProgramOK'
  BY <1>1, <1>3, <1>4, SameProgram DEF ProgramOK
<1>6. NothingDangles'
  <2>1. ASSUME NEW s \in code', s.call # Absent
        PROVE  s.call \in decls' \cup fields'
    <3>1. s \in code /\ Answered(s.call)
      BY <1>1, <2>1 DEF Bodies, PrunedCode
    <3>2. Called(s.call)
      BY <3>1 DEF Called
    <3>3. s.call \in decls \cup fields
      BY <3>1, <2>1 DEF NothingDangles
    <3>4. CASE Defined(s.call)
      BY <1>1, <3>2, <3>3, <3>4 DEF PrunedDecls, PrunedFields, Referenced
    <3>5. CASE ~Defined(s.call)
      BY <1>1, <3>1, <3>2, <3>3, <3>5 DEF Answered, PrunedDecls, PrunedFields, Referenced
    <3>6. QED BY <3>4, <3>5
  <2>2. ASSUME NEW f \in decls' \cap Methods
        PROVE  f \in fields'
    <3>1. f \in fields
      BY <1>3 DEF NothingDangles
    <3>2. QED BY <1>1, <3>1 DEF PrunedDecls, PrunedFields
  <2>3. \A s \in code' : (s.member # Absent => s.member \in members) /\ Mentioned(s) \subseteq types
    BY <1>4 DEF NothingDangles
  <2>4. /\ \A f \in fields' : Fn(f).owner \in types
        /\ \A m \in members : {program.member[m].owner, program.member[m].type} \ {Absent} \subseteq types
    BY <1>3 DEF NothingDangles
  <2>5. QED BY <1>1, <2>1, <2>2, <2>3, <2>4, SameProgram DEF NothingDangles
<1>7. Sited'
  BY <1>1, <1>4 DEF Sited, Folded
<1>8. Decided'
  BY <1>1, <1>4, SameProgram DEF Decided, Passes
<1>9. Settled'
  <2>1. SUFFICES ASSUME ~modified'
                 PROVE  FunctionsSettled'
    BY <1>1 DEF Settled
  <2>2. code' = code /\ decls' = decls /\ fields' = fields
    BY <1>1, <2>1
  <2>3. decls = PrunedDecls /\ fields = PrunedFields /\ code = PrunedCode
    BY <1>1, <2>2 DEF Bodies, PrunedCode
  <2>4. QED
    BY <1>1, <2>2, <2>3
       DEF FunctionsSettled, PrunedDecls, PrunedFields, PrunedCode, Answered, Defined, Referenced, Called, Exported,
           IsHook, Methods, Functions, Fn, Public
<1>10. KeepsWhatRuns'
  <2>1. flags = InUse /\ \A s \in code : s.guard = {}
    BY <1>1 DEF Decided
  <2>2. ASSUME NEW f \in Running
        PROVE  f \in decls'
    <3>1. f \in decls /\ Fn(f).body
      BY <1>2, RunningFacts DEF KeepsWhatRuns
    <3>2. CASE IsHook(f)
      BY <1>1, <3>1, <3>2 DEF PrunedDecls, Defined
    <3>3. CASE FromOutside(f) /\ ~IsHook(f)
      <4>1. f \notin program.overlooked
        BY <3>1, <3>3, ProgramsAssumption DEF IsHook, Fn
      <4>2. QED BY <1>1, <2>1, <3>1, <3>3, <4>1 DEF FromOutside, PrunedDecls, Referenced, Exported
    <3>4. ASSUME NEW s \in program.sites, s.in \in Running, MayRun(s), s.call = f
          PROVE  Called(f)
      <4>1. s.call # Absent
        BY <1>2, <3>1, <3>4, ProgramsAssumption DEF ProgramOK, Functions
      <4>2. s \in code \/ Folded(s) \in code
        BY <3>1, <3>4 DEF KeepsWhatRuns
      <4>3. Folded(s).call = s.call
        BY <1>2, ProgramsAssumption DEF Folded
      <4>4. QED BY <3>4, <4>2, <4>3 DEF Called
    <3>5. CASE ~IsHook(f) /\ ~FromOutside(f)
      <4>1. Called(f)
        BY <1>2, <3>4, <3>5, RunningFacts
      <4>2. QED BY <1>1, <3>1, <3>5, <4>1 DEF PrunedDecls, Referenced
    <3>6. QED BY <3>2, <3>3, <3>5
  <2>3. ASSUME NEW s \in program.sites, s.in \in Running, MayRun(s),
               s.call # Absent => Fn(s.call).body \/ Fn(s.call).cxx \/ (s.call \notin Methods /\ ~IsHook(s.call))
        PROVE  s \in code' \/ Folded(s) \in code'
    <3>1. s \in code \/ Folded(s) \in code
      BY <2>3 DEF KeepsWhatRuns
    <3>2. Folded(s).call = s.call /\ Folded(s).in = s.in
      BY <1>2, ProgramsAssumption DEF Folded
    <3>3. s.call = Absent \/ Answered(s.call)
      <4>1. CASE s.call # Absent /\ Fn(s.call).body
        <5>1. s.call \in Running
          BY <1>2, <2>3, <4>1, RunningFacts DEF CallsOut
        <5>2. s.call \in decls
          BY <5>1 DEF KeepsWhatRuns
        <5>3. QED BY <4>1, <5>2 DEF Answered, Defined
      <4>2. CASE s.call # Absent /\ ~Fn(s.call).body
        BY <2>3, <4>2 DEF Answered, Defined
      <4>3. QED BY <4>1, <4>2
    <3>4. s.in \in decls'
      BY <2>2, <2>3
    <3>5. QED BY <1>1, <3>1, <3>2, <3>3, <3>4 DEF Bodies, PrunedCode
  <2>4. \A s : Folded(s)' = Folded(s)
    BY DEF Folded
  <2>5. QED BY <1>1, <2>2, <2>3, <2>4, SameProgram DEF KeepsWhatRuns
<1>11. QED BY <1>1, <1>2, <1>5, <1>6, <1>7, <1>8, <1>9, <1>10

\* Removing members: what a site mentions stays.
LEMMA PruneMembersKeeps == OptimizerIInv /\ PruneMembers => OptimizerIInv'
<1> SUFFICES ASSUME OptimizerIInv, PruneMembers
             PROVE  OptimizerIInv'
  OBVIOUS
<1> USE DEF OptimizerIInv
<1>1. /\ program' = program /\ code' = code /\ decls' = decls /\ fields' = fields /\ types' = types /\ flags' = flags
      /\ pass = "members" /\ pass' = "types"
      /\ members' = {m \in members : MemberStays(m)}
      /\ modified' = (modified \/ members' # members)
  BY DEF PruneMembers
<1>2. ProgramOK'
  BY <1>1, SameProgram DEF ProgramOK
<1>3. NothingDangles'
  <2>1. \A s \in code : s.member # Absent => s.member \in members'
    BY <1>1 DEF NothingDangles, MemberStays
  <2>2. QED BY <1>1, <2>1, SameProgram DEF NothingDangles
<1>4. Sited' /\ Decided'
  BY <1>1, SameProgram DEF Sited, Folded, Decided, Passes
<1>5. Settled'
  <2>1. SUFFICES ASSUME ~modified'
                 PROVE  FunctionsSettled' /\ MembersSettled'
    BY <1>1 DEF Settled
  <2>2. FunctionsSettled /\ members' = members /\ \A m \in members : MemberStays(m)
    BY <1>1, <2>1 DEF Settled
  <2>3. FunctionsSettled'
    BY <1>1, <2>2
       DEF FunctionsSettled, PrunedDecls, PrunedFields, PrunedCode, Answered, Defined, Referenced, Called, Exported,
           IsHook, Methods, Functions, Fn, Public
  <2>4. MembersSettled'
    BY <1>1, <2>2 DEF MembersSettled, MemberStays
  <2>5. QED BY <2>3, <2>4
<1>6. KeepsWhatRuns'
  BY <1>1, SameProgram DEF KeepsWhatRuns, Folded
<1>7. QED BY <1>1, <1>2, <1>3, <1>4, <1>5, <1>6

\* Removing types, with their fields and members: those that are mentioned by
\* what is left stay.
LEMMA PruneTypesKeeps == OptimizerIInv /\ PruneTypes => OptimizerIInv'
<1> SUFFICES ASSUME OptimizerIInv, PruneTypes
             PROVE  OptimizerIInv'
  OBVIOUS
<1> USE DEF OptimizerIInv
<1>1. /\ program' = program /\ code' = code /\ decls' = decls /\ flags' = flags
      /\ pass = "types" /\ pass' = "end of round"
      /\ types' = {t \in types : TypeStays(t)}
      /\ fields' = {f \in fields : Fn(f).owner \in types'}
      /\ members' = {m \in members : program.member[m].owner \in types'}
      /\ modified' = (modified \/ types' # types)
  BY DEF PruneTypes
<1>2. program \in Programs
  OBVIOUS
<1>3. ProgramOK'
  BY <1>1, SameProgram DEF ProgramOK
<1>4. NothingDangles'
  <2>1. ASSUME NEW s \in code
        PROVE  Mentioned(s) \subseteq types'
    BY <1>1 DEF NothingDangles, TypeStays
  <2>2. ASSUME NEW f \in decls \cap Methods
        PROVE  f \in fields'
    <3>1. f \in fields /\ Fn(f).owner \in types
      BY DEF NothingDangles
    <3>2. QED BY <1>1, <3>1 DEF TypeStays
  <2>3. ASSUME NEW s \in code, s.call # Absent
        PROVE  s.call \in decls \cup fields'
    <3>1. s.call \in decls \cup fields
      BY <2>3 DEF NothingDangles
    <3>2. s.call \in fields => Fn(s.call).owner \in Mentioned(s)
      BY <1>2, <2>3, ProgramsAssumption DEF ProgramOK, Mentioned, Methods
    <3>3. QED BY <1>1, <2>1, <3>1, <3>2
  <2>4. ASSUME NEW s \in code, s.member # Absent
        PROVE  s.member \in members'
    <3>1. s.member \in members
      BY <2>4 DEF NothingDangles
    <3>2. program.member[s.member].owner \in Mentioned(s)
      <4>1. s.member \in DOMAIN program.member
        BY <3>1 DEF ProgramOK
      <4>2. program.member[s.member].owner # Absent
        BY <1>2, <4>1, ProgramsAssumption
      <4>3. QED BY <2>4, <4>2 DEF Mentioned
    <3>3. QED BY <1>1, <2>1, <3>1, <3>2
  <2>5. ASSUME NEW m \in members'
        PROVE  {program.member[m].owner, program.member[m].type} \ {Absent} \subseteq types'
    <3>1. m \in members /\ program.member[m].owner \in types'
      BY <1>1
    <3>2. program.member[m].type # Absent => program.member[m].type \in types'
      BY <1>1, <3>1 DEF NothingDangles, TypeStays
    <3>3. QED BY <3>1, <3>2
  <2>6. \A f \in fields' : Fn(f).owner \in types'
    BY <1>1
  <2>7. QED BY <1>1, <2>1, <2>2, <2>3, <2>4, <2>5, <2>6, SameProgram DEF NothingDangles
<1>5. Sited' /\ Decided'
  BY <1>1, SameProgram DEF Sited, Folded, Decided, Passes
<1>6. Settled'
  <2>1. SUFFICES ASSUME ~modified'
                 PROVE  FunctionsSettled' /\ MembersSettled' /\ TypesSettled'
    BY <1>1 DEF Settled
  <2>2. FunctionsSettled /\ MembersSettled /\ types' = types /\ \A t \in types : TypeStays(t)
    BY <1>1, <2>1 DEF Settled
  <2>3. fields' = fields
    BY <1>1, <2>2 DEF NothingDangles
  <2>4. members' = members
    <3>1. ASSUME NEW m \in members
          PROVE  program.member[m].owner \in types
      <4>1. m \in DOMAIN program.member
        BY DEF ProgramOK
      <4>2. program.member[m].owner # Absent
        BY <1>2, <4>1, ProgramsAssumption
      <4>3. QED BY <4>2 DEF NothingDangles
    <3>2. QED BY <1>1, <2>2, <3>1
  <2>5. FunctionsSettled'
    BY <1>1, <2>2, <2>3
       DEF FunctionsSettled, PrunedDecls, PrunedFields, PrunedCode, Answered, Defined, Referenced, Called, Exported,
           IsHook, Methods, Functions, Fn, Public
  <2>6. MembersSettled'
    BY <1>1, <2>2, <2>4 DEF MembersSettled, MemberStays
  <2>7. TypesSettled'
    BY <1>1, <2>2, <2>4, SameProgram DEF TypesSettled, TypeStays, Public
  <2>8. QED BY <2>5, <2>6, <2>7
<1>7. KeepsWhatRuns'
  BY <1>1, SameProgram DEF KeepsWhatRuns, Folded
<1>8. QED BY <1>1, <1>2, <1>3, <1>4, <1>5, <1>6, <1>7
\* A round that has changed something is followed by another one.
LEMMA EndRoundKeeps == OptimizerIInv /\ EndRound => OptimizerIInv'
<1> SUFFICES ASSUME OptimizerIInv, EndRound
             PROVE  OptimizerIInv'
  OBVIOUS
<1> USE DEF OptimizerIInv
<1>1. /\ program' = program /\ code' = code /\ decls' = decls /\ fields' = fields
      /\ members' = members /\ types' = types /\ flags' = flags /\ modified' = FALSE
      /\ pass = "end of round" /\ pass' = IF modified THEN "constants" ELSE "done"
  BY DEF EndRound
<1>2. ProgramOK' /\ NothingDangles' /\ Sited' /\ Decided'
  BY <1>1, SameProgram DEF ProgramOK, NothingDangles, Sited, Folded, Decided, Passes
<1>3. Settled'
  <2>1. SUFFICES ASSUME ~modified
                 PROVE  FunctionsSettled' /\ MembersSettled' /\ TypesSettled'
    BY <1>1 DEF Settled
  <2>2. FunctionsSettled /\ MembersSettled /\ TypesSettled
    BY <1>1, <2>1 DEF Settled
  <2>3. FunctionsSettled'
    BY <1>1, <2>2
       DEF FunctionsSettled, PrunedDecls, PrunedFields, PrunedCode, Answered, Defined, Referenced, Called, Exported,
           IsHook, Methods, Functions, Fn, Public
  <2>4. MembersSettled' /\ TypesSettled'
    BY <1>1, <2>2, SameProgram DEF MembersSettled, MemberStays, TypesSettled, TypeStays, Public
  <2>5. QED BY <2>3, <2>4
<1>4. KeepsWhatRuns'
  BY <1>1, SameProgram DEF KeepsWhatRuns, Folded
<1>5. QED BY <1>1, <1>2, <1>3, <1>4

\* The invariant of the optimizer.
LEMMA OptimizerStays == OptimizerSpec => []OptimizerIInv
<1>1. OptimizerIInv /\ UNCHANGED optimizerVars => OptimizerIInv'
  <2> SUFFICES ASSUME OptimizerIInv, UNCHANGED optimizerVars
               PROVE  OptimizerIInv'
    OBVIOUS
  <2>1. /\ program' = program /\ code' = code /\ decls' = decls /\ fields' = fields
        /\ members' = members /\ types' = types /\ flags' = flags /\ modified' = modified /\ pass' = pass
    BY DEF optimizerVars
  <2>2. ProgramOK' /\ NothingDangles' /\ Sited' /\ Decided' /\ KeepsWhatRuns'
    BY <2>1, SameProgram DEF OptimizerIInv, ProgramOK, NothingDangles, Sited, Folded, Decided, KeepsWhatRuns
  <2>3. FunctionsSettled' = FunctionsSettled
    BY <2>1 DEF FunctionsSettled, PrunedDecls, PrunedFields, PrunedCode, Answered, Defined, Referenced, Called, Exported,
                IsHook, Methods, Functions, Fn, Public
  <2>4. MembersSettled' = MembersSettled /\ TypesSettled' = TypesSettled
    BY <2>1, SameProgram DEF MembersSettled, MemberStays, TypesSettled, TypeStays, Public
  <2>5. Settled'
    BY <2>1, <2>3, <2>4 DEF OptimizerIInv, Settled
  <2>6. QED BY <2>1, <2>2, <2>5 DEF OptimizerIInv
<1>2. OptimizerIInv /\ [OptimizerNext]_optimizerVars => OptimizerIInv'
  BY <1>1, TransformKeeps, FoldConstantsKeeps, PruneFunctionsKeeps, PruneMembersKeeps, PruneTypesKeeps, EndRoundKeeps
     DEF OptimizerNext
<1>3. QED BY OptimizerInit_IInv, <1>2, PTL DEF OptimizerSpec

\* For every program: what is left of it refers only to what is left, whatever the
\* four passes remove in whatever number of rounds, and they stop when a round has
\* nothing left to remove.
THEOREM OptimizedStaysConsistent == OptimizerSpec => []OptimizedIsConsistent
<1>1. OptimizerIInv => OptimizedIsConsistent
  <2> SUFFICES ASSUME OptimizerIInv
               PROVE  OptimizedIsConsistent
    OBVIOUS
  <2>1. NothingLeftToDo
    BY DEF OptimizerIInv, NothingLeftToDo, Settled, Decided, FunctionsSettled, MembersSettled, TypesSettled
  <2>2. QED BY <2>1 DEF OptimizerIInv, OptimizedIsConsistent
<1>2. QED BY <1>1, OptimizerStays, PTL

\* For every program: no pass, and no combination of them, removes a function that
\* could run, or from its body a site that could.
THEOREM RunningStays == OptimizerSpec => []KeepsWhatRuns
<1>1. OptimizerIInv => KeepsWhatRuns
  BY DEF OptimizerIInv
<1>2. QED BY <1>1, OptimizerStays, PTL

(*************************** The compile driver ****************************)
Extensions == {"spicy", "hlt"}
Stages == {"inputs", "plugin", "rounds", "resolved", "hook", "compiled", "failed"}

\* What is known of a unit, which depends on some of us.
UnitRecord(us) == [extension : Extensions, resolved : BOOLEAN, dependencies : SUBSET us, required : BOOLEAN]
\* Units and the cache's entries have their types, and bear their modules' names.
UnitsTyped ==
  /\ Units \subseteq Modules \X Extensions
  /\ unit \in [Units -> UnitRecord(Units)]
  /\ cache \in [Modules -> Units \cup {None}]
  /\ \A m \in Modules : cache[m] # None => cache[m][1] = m
\* The other variables have their types, and there is a round left until it failed.
OthersTyped ==
  /\ pending \cup working \subseteq Units /\ hlts \subseteq pending /\ paths \cup late \subseteq Modules
  /\ plugin \in Extensions \cup {None} /\ stage \in Stages
  /\ round \in 0 .. MaxRounds /\ (stage # "failed" => round < MaxRounds)

\* The first plugin sets out when all inputs are there.
InputsFirst ==
  /\ stage = "inputs" => plugin = None /\ pending = Units
  /\ stage \in {"rounds", "resolved", "hook"} => plugin # None
  /\ stage # "inputs" => project.inputs \subseteq paths

\* A module is pending as a single unit if its path is known, and inputs have code
\* generated.
PendingByPath ==
  /\ \A u \in pending : u[1] \in paths
  /\ \A m \in paths : \E u \in pending : u[1] = m
  /\ \A u, v \in pending : u[1] = v[1] => u = v
  /\ \A u \in pending : u[1] \in project.inputs => unit[u].required

\* Each unit is the cache's, or is pending.
Owned == \A u \in Units : cache[u[1]] # None /\ (u \in pending \/ cache[u[1]] = u)

\* Units that are not for the plugin at work are pending.
OthersPending == plugin # None => \A u \in Units : Extension(u) # plugin => u \in pending

\* A unit keeps the extension that it was parsed for until Spicy's are transformed.
ParsedFor ==
  \A u \in Units : Extension(u) # u[2] => u[2] = "spicy" /\ plugin # "spicy" /\ stage # "inputs"

\* A module that there is a unit of for the plugin has one in the cache.
CachedForPlugin ==
  \A u \in Units :
    /\ plugin = "spicy" /\ u[2] = "spicy" => cache[u[1]] = u
    /\ plugin = "hlt" /\ u[2] = "hlt" => Extension(cache[u[1]]) = "hlt"

\* Transforming the Spicy units that are pending, and what they depend on, leaves
\* out none.
SpicyUnits(us) == {u \in us : Extension(u) = "spicy"}
UnitsClosed(us) == us \subseteq Units /\ \A u \in us : unit[u].dependencies \ {None} \subseteq us
SpicyReached ==
  plugin = "spicy" =>
    \A us : UnitsClosed(us) /\ SpicyUnits(pending) \subseteq us => SpicyUnits(Units) \subseteq us

\* Units depend on such as are processed like them.
SameExtension == \A u \in Units : \A d \in unit[u].dependencies : Extension(d) = Extension(u)

\* All imports of a unit have become dependencies.
ImportsLinked(u) == \A m \in Imports(u[1]) : \E d \in unit[u].dependencies : d[1] = m
\* The plugin works on units that are not resolved, until all that they import is.
WorkedOn ==
  /\ stage \in {"rounds", "resolved"} => \A u \in working : Extension(u) = plugin /\ ~Resolved(u)
  /\ stage = "resolved" =>
       \A u \in working :
         ImportsLinked(u) /\ \A d \in unit[u].dependencies : d \in working \/ Resolved(d)

\* What has been resolved depends on resolved units for all its imports, which are
\* pending too when code is to run.
ResolvedWhole ==
  \A u \in Units :
    Resolved(u) =>
      /\ ImportsLinked(u) /\ \A d \in unit[u].dependencies : Resolved(d)
      /\ project.execute /\ ~(stage = "hook" /\ u \in working) =>
           \A d \in unit[u].dependencies : d[1] \in paths

\* In the end, all that is pending is resolved HILTI.
CompiledPending ==
  stage = "compiled" =>
    /\ \A u \in pending : Extension(u) = "hlt" /\ Resolved(u)
    /\ hlts = {u \in pending : RequiresCompilation(u)}

\* The parts are put together by their names, as before.
CompilationIInv ==
  /\ project \in Projects
  /\ UnitsTyped /\ OthersTyped /\ InputsFirst /\ PendingByPath /\ Owned /\ OthersPending /\ ParsedFor
  /\ CachedForPlugin /\ SpicyReached /\ SameExtension /\ WorkedOn /\ ResolvedWhole /\ CompiledPending

USE DEF UnitRecord

\* What dependencies(true) returns: the least set of units that contains these, and
\* whatever its members depend on.
LEMMA DependenciesFacts ==
  ASSUME IsFiniteSet(Units), UnitsClosed(Units), NEW us \in SUBSET Units
  PROVE  /\ us \subseteq Dependencies[us] /\ UnitsClosed(Dependencies[us])
         /\ \A vs : UnitsClosed(vs) /\ us \subseteq vs => Dependencies[us] \subseteq vs
<1> DEFINE More(x) == x \cup ((UNION {unit[u].dependencies : u \in x}) \ {None})
           Least(x) == {u \in Units : \A vs \in SUBSET Units : UnitsClosed(vs) /\ x \subseteq vs => u \in vs}
           Is(f) == f = [x \in SUBSET Units |-> IF More(x) = x THEN x ELSE f[More(x)]]
           g == [x \in SUBSET Units |-> Least(x)]
<1>1. \A x \in SUBSET Units : More(x) \in SUBSET Units /\ x \subseteq More(x)
  BY DEF UnitsClosed
<1>2. \A x \in SUBSET Units : x \subseteq Least(x) /\ UnitsClosed(Least(x))
  BY DEF UnitsClosed
<1>3. \A x \in SUBSET Units : More(x) = x => UnitsClosed(x)
  BY DEF UnitsClosed
<1>4. \A x \in SUBSET Units : More(x) = x => Least(x) = x
  BY <1>2, <1>3
<1>5. \A x \in SUBSET Units : Least(More(x)) = Least(x)
  <2>1. \A x \in SUBSET Units : \A vs : UnitsClosed(vs) => (x \subseteq vs <=> More(x) \subseteq vs)
    BY DEF UnitsClosed
  <2> HIDE DEF More
  <2>2. QED BY <2>1
<1> HIDE DEF More, Least
<1>6. Is(g)
  BY <1>1, <1>4, <1>5
<1>7. Dependencies = CHOOSE f : Is(f)
  BY DEF Dependencies, More
<1>8. Is(Dependencies)
  <2> HIDE DEF Is, g
  <2>1. QED BY <1>6, <1>7
<1> DEFINE Wrong == {x \in SUBSET Units : Dependencies[x] # Least(x)}
           T == {Units \ x : x \in Wrong}
<1>9. ASSUME Wrong # {}
      PROVE  FALSE
  <2>1. IsWellFoundedOn(StrictSubsetOrdering(Units), SUBSET Units)
    BY FS_StrictSubsetOrderingWellFounded, FS_FiniteSubsetsOfFinite
  <2>2. T \subseteq SUBSET Units /\ T # {}
    BY <1>9
  <2> HIDE DEF T
  <2>3. PICK t \in T : \A s \in T : ~(<<s, t>> \in StrictSubsetOrdering(Units))
    BY <2>1, <2>2, WFMin
  <2> USE DEF T
  <2>4. PICK x \in Wrong : t = Units \ x
    BY <2>3
  <2>5. More(x) # x /\ Dependencies[x] = Dependencies[More(x)]
    BY <1>4, <1>8, <2>4
  <2>6. More(x) \in Wrong
    BY <1>1, <1>5, <2>4, <2>5
  <2>7. <<Units \ More(x), t>> \in StrictSubsetOrdering(Units)
    <3>1. PICK u \in More(x) : u \notin x
      BY <1>1, <2>4, <2>5
    <3>2. u \in Units /\ u \in t /\ u \notin Units \ More(x) /\ Units \ More(x) \subseteq t
      BY <1>1, <2>4, <3>1
    <3>3. QED BY <2>4, <3>2 DEF StrictSubsetOrdering
  <2>8. QED BY <2>3, <2>6, <2>7
<1>10. Dependencies[us] = Least(us)
  BY <1>9
<1>11. \A vs : UnitsClosed(vs) /\ us \subseteq vs => Least(us) \subseteq vs
  BY DEF Least, UnitsClosed
<1>12. QED BY <1>2, <1>10, <1>11

\* Whatever is added late, the variables have these types: units that have gone
\* are None for those that depend on them.
Kinds == {"spicy", "hlt", "late"}
DriverTyped ==
  /\ project \in Projects
  /\ Units \subseteq Modules \X Kinds
  /\ unit \in [Units -> UnitRecord(Units \cup {None})]
  /\ cache \in [Modules -> Units \cup {None}]
  /\ pending \cup working \subseteq Units /\ hlts \subseteq pending /\ late \subseteq Modules
  /\ plugin \in Extensions \cup {None} /\ (stage = "rounds" => plugin # None)
  /\ round \in 0 .. MaxRounds /\ (stage # "failed" => round < MaxRounds)

\* There are finitely many units, as there are modules.
LEMMA FiniteUnits ==
  ASSUME DriverTyped
  PROVE  /\ IsFiniteSet(Units) /\ UnitsClosed(Units)
         /\ \A us \in SUBSET Units : Dependencies[us] \subseteq Units
<1>1. IsFiniteSet(Modules) /\ IsFiniteSet(Kinds)
  <2>1. Kinds = (({} \cup {"spicy"}) \cup {"hlt"}) \cup {"late"}
    BY DEF Kinds
  <2>2. IsFiniteSet(({} \cup {"spicy"}) \cup {"hlt"})
    BY FS_EmptySet, FS_AddElement
  <2>3. IsFiniteSet(Kinds)
    BY <2>1, <2>2, FS_AddElement
  <2>4. QED BY <2>3, ProjectsAssumption DEF Modules, DriverTyped
<1>2. IsFiniteSet(Modules \X Kinds)
  BY <1>1, FS_Product
<1>3. IsFiniteSet(Units)
  BY <1>2, FS_Subset DEF DriverTyped
<1>4. UnitsClosed(Units)
  BY DEF DriverTyped, UnitsClosed
<1>5. ASSUME NEW us \in SUBSET Units
      PROVE  Dependencies[us] \subseteq Units
  <2>1. UnitsClosed(Dependencies[us])
    BY <1>3, <1>4, DependenciesFacts
  <2>2. QED BY <2>1 DEF UnitsClosed
<1>6. QED BY <1>3, <1>4, <1>5

\* Units that are all kept stay what they are.
LEMMA KeptAll ==
  ASSUME NEW D, NEW units \in [D -> UnitRecord(D)], NEW owned, D \subseteq owned
  PROVE  Kept(units, owned) = units
<1>1. DOMAIN units \cap owned = D
  OBVIOUS
<1>2. ASSUME NEW u \in D
      PROVE  [units[u] EXCEPT !.dependencies = {IF d \in owned THEN d ELSE None : d \in @}] = units[u]
  <2>1. units[u] \in UnitRecord(D)
    OBVIOUS
  <2>2. {IF d \in owned THEN d ELSE None : d \in units[u].dependencies} = units[u].dependencies
    BY <2>1
  <2>3. QED BY <2>1, <2>2
<1>3. QED BY <1>1, <1>2 DEF Kept

\* What is kept depends on what is kept, or on what has gone.
LEMMA KeptTyped ==
  ASSUME NEW D, NEW units \in [D -> UnitRecord(D \cup {None})], NEW owned
  PROVE  /\ DOMAIN Kept(units, owned) = D \cap owned
         /\ Kept(units, owned) \in [D \cap owned -> UnitRecord((D \cap owned) \cup {None})]
<1>1. DOMAIN Kept(units, owned) = D \cap owned
  BY DEF Kept
<1>2. ASSUME NEW u \in D \cap owned
      PROVE  Kept(units, owned)[u] \in UnitRecord((D \cap owned) \cup {None})
  <2>1. units[u] \in UnitRecord(D \cup {None})
    OBVIOUS
  <2>2. Kept(units, owned)[u] =
          [units[u] EXCEPT !.dependencies = {IF d \in owned THEN d ELSE None : d \in units[u].dependencies}]
    BY DEF Kept
  <2>3. {IF d \in owned THEN d ELSE None : d \in units[u].dependencies} \in SUBSET ((D \cap owned) \cup {None})
    BY <2>1
  <2>4. QED BY <2>1, <2>2, <2>3
<1>3. QED BY <1>1, <1>2 DEF Kept

\* None is no unit.
LEMMA NoneIsNoUnit ==
  ASSUME CompilationIInv
  PROVE  /\ DriverTyped /\ None \notin Units /\ \A us \in SUBSET Units : ~Expired(us)
         /\ \A us : UnitsClosed(us) <=> us \subseteq Units /\ \A u \in us : unit[u].dependencies \subseteq us
<1> USE DEF CompilationIInv
<1>1. None \notin Units
  BY ProjectsAssumption DEF UnitsTyped, Modules, Extensions
<1>2. \A u \in Units : unit[u].dependencies \subseteq Units
  BY DEF UnitsTyped
<1>3. \A us \in SUBSET Units : ~Expired(us)
  BY <1>1, <1>2 DEF Expired
<1>4. \A us : UnitsClosed(us) <=> us \subseteq Units /\ \A u \in us : unit[u].dependencies \subseteq us
  BY <1>1, <1>2 DEF UnitsClosed
<1>5. DriverTyped
  <2>1. unit \in [Units -> UnitRecord(Units \cup {None})]
    <3>1. UnitRecord(Units) \subseteq UnitRecord(Units \cup {None})
      OBVIOUS
    <3>2. QED BY <3>1 DEF UnitsTyped
  <2>2. Units \subseteq Modules \X Kinds
    BY DEF UnitsTyped, Kinds, Extensions
  <2>3. QED BY <2>1, <2>2 DEF DriverTyped, UnitsTyped, OthersTyped, InputsFirst
<1>6. QED BY <1>1, <1>3, <1>4, <1>5
\* Nothing has been read in the beginning.
LEMMA CompilationInit_IInv == CompilationInit => CompilationIInv
<1> SUFFICES ASSUME CompilationInit
             PROVE  CompilationIInv
  OBVIOUS
<1>1. /\ project \in Projects /\ unit = <<>> /\ cache = [m \in Modules |-> None]
      /\ pending = {} /\ paths = {} /\ plugin = None /\ working = {} /\ round = 0
      /\ stage = "inputs" /\ hlts = {} /\ late = project.late
  BY DEF CompilationInit, Uncompiled
<1>2. Units = {}
  BY <1>1 DEF Units
<1>3. unit \in [{} -> UnitRecord({})]
  BY <1>1
<1>4. UnitsTyped /\ OthersTyped
  BY <1>1, <1>2, <1>3, ProjectsAssumption DEF UnitsTyped, OthersTyped, Modules, Extensions, Stages
<1>5. InputsFirst /\ PendingByPath /\ Owned /\ OthersPending /\ ParsedFor /\ CachedForPlugin
  BY <1>1, <1>2 DEF InputsFirst, PendingByPath, Owned, OthersPending, ParsedFor, CachedForPlugin
<1>6. SpicyReached /\ SameExtension /\ WorkedOn /\ ResolvedWhole /\ CompiledPending
  BY <1>1, <1>2, ProjectsAssumption DEF SpicyReached, SameExtension, WorkedOn, ResolvedWhole, CompiledPending
<1>7. QED BY <1>1, <1>4, <1>5, <1>6 DEF CompilationIInv

\* What a unit's name says, and what the cache has of its module.
LEMMA UnitFacts ==
  ASSUME UnitsTyped, NEW u \in Units
  PROVE  /\ u = <<u[1], u[2]>> /\ u[1] \in Modules /\ u[2] \in Extensions /\ Extension(u) \in Extensions
         /\ unit[u].dependencies \subseteq Units /\ Resolved(u) \in BOOLEAN
         /\ unit[u] = [extension |-> unit[u].extension, resolved |-> unit[u].resolved,
                       dependencies |-> unit[u].dependencies, required |-> unit[u].required]
         /\ unit[u].required \in BOOLEAN
<1>1. QED BY DEF UnitsTyped, Extension, Resolved

\* Adding a module keeps the cache's other entries: of its own there is a unit that
\* is processed as the file is, or none at all.
LEMMA AddedKeeps ==
  ASSUME CompilationIInv, NEW m \in Modules, Added(m), replaced' = {}, stage \in {"inputs", "hook"},
         project' = project /\ plugin' = plugin /\ working' = working /\ round' = round /\ stage' = stage
           /\ hlts' = hlts /\ late' \subseteq late
  PROVE  CompilationIInv'
<1> USE DEF CompilationIInv
<1>lang. PICK lang : lang = project.language[m]
  OBVIOUS
<1>unit. PICK u : u = IF cache[m] = None THEN <<m, lang>> ELSE cache[m]
  OBVIOUS
<1>typed. Modules' = Modules /\ Units' = DOMAIN unit' /\ lang \in Extensions /\ paths \subseteq Modules /\ pending \subseteq Units
  BY <1>lang, ProjectsAssumption DEF Modules, Units, Extensions, OthersTyped
\* A module is added without losing a unit: its own is new, or the cache's.
<1>whole. ASSUME m \notin paths
          PROVE  /\ cache[m] # None => Extension(cache[m]) = lang
                 /\ cache[m] = None =>
                      unit' = [v \in Units \cup {u} |-> IF v # u THEN unit[v] ELSE NewUnit(lang, TRUE)]
                 /\ cache[m] # None =>
                      unit' = [v \in Units \cup {u} |->
                                IF v # u THEN unit[v] ELSE [unit[v] EXCEPT !.required = TRUE]]
                 /\ cache' = [cache EXCEPT ![m] = u] /\ pending' = pending \cup {u} /\ paths' = paths \cup {m}
  <2>1. PICK cached : cached = Cached(m, lang)
    OBVIOUS
  <2>2. PICK all : all = [v \in Units \cup {u} |->
                            IF v # u THEN unit[v]
                            ELSE IF cached = None THEN NewUnit(lang, TRUE) ELSE [unit[v] EXCEPT !.required = TRUE]]
    OBVIOUS
  <2>3. ~(cached = None /\ cache[m] # None)
    <3>1. replaced' = replaced \cup {n \in {m} : cached = None /\ cache[m] # None}
      BY <1>lang, <1>whole, <2>1 DEF Added
    <3>2. QED BY <3>1
  <2>4. /\ cached = None <=> cache[m] = None
        /\ u = IF cached # None THEN cached ELSE IF cache[m] = None THEN <<m, lang>> ELSE <<m, "late">>
        /\ cache[m] # None => Extension(cache[m]) = lang
    BY <1>unit, <2>1, <2>3 DEF Cached
  <2>5. /\ cache' = [cache EXCEPT ![m] = u] /\ pending' = pending \cup {u} /\ paths' = paths \cup {m}
        /\ unit' = Kept(all, pending' \cup working \cup CachedIn(cache'))
    BY <1>lang, <1>whole, <2>1, <2>2, <2>4 DEF Added
  <2>6. lang \in Extensions /\ u[1] = m /\ (cache[m] # None => u \in Units)
    <3>1. lang \in Extensions
      BY <1>lang, ProjectsAssumption DEF Modules, Extensions
    <3>2. QED BY <1>unit, <3>1 DEF UnitsTyped
  <2>7. all \in [Units \cup {u} -> UnitRecord(Units \cup {u})]
    <3>1. ASSUME NEW v \in Units
          PROVE  unit[v] \in UnitRecord(Units \cup {u}) /\ [unit[v] EXCEPT !.required = TRUE] \in UnitRecord(Units \cup {u})
      <4>1. unit[v] \in UnitRecord(Units)
        BY DEF UnitsTyped
      <4>2. QED BY <4>1
    <3>2. NewUnit(lang, TRUE) \in UnitRecord(Units \cup {u})
      BY <2>6 DEF NewUnit
    <3>3. ASSUME NEW v \in Units \cup {u}
          PROVE  all[v] \in UnitRecord(Units \cup {u})
      <4>1. CASE v # u
        BY <2>2, <3>1, <4>1
      <4>2. CASE v = u /\ cached = None
        BY <2>2, <3>2, <4>2
      <4>3. CASE v = u /\ cached # None
        BY <2>2, <2>4, <2>6, <3>1, <4>3
      <4>4. QED BY <4>1, <4>2, <4>3
    <3>4. all = [v \in Units \cup {u} |-> all[v]]
      BY <2>2
    <3>5. QED BY <3>3, <3>4
  <2>8. Units \cup {u} \subseteq pending' \cup working \cup CachedIn(cache')
    <3>1. Modules' = Modules /\ cache \in [Modules -> Units \cup {None}]
      BY DEF UnitsTyped, Modules
    <3>2. ASSUME NEW v \in Units, v \notin pending, v # u
          PROVE  v \in CachedIn(cache')
      <4>1. cache[v[1]] = v /\ v[1] \in Modules /\ v # None
        BY <3>2, UnitFacts DEF Owned
      <4>2. v[1] # m
        BY <1>unit, <3>2, <4>1
      <4>3. QED BY <2>5, <3>1, <4>1, <4>2 DEF CachedIn
    <3>3. QED BY <2>5, <3>2
  <2>9. unit' = all
    <3>1. PICK owned : owned = pending' \cup working \cup CachedIn(cache')
      OBVIOUS
    <3>2. PICK D : D = Units \cup {u}
      OBVIOUS
    <3>3. QED BY <2>5, <2>7, <2>8, <3>1, <3>2, KeptAll
  <2>10. cache[m] = None => unit' = [v \in Units \cup {u} |-> IF v # u THEN unit[v] ELSE NewUnit(lang, TRUE)]
    BY <2>2, <2>4, <2>9
  <2>11. cache[m] # None =>
           unit' = [v \in Units \cup {u} |-> IF v # u THEN unit[v] ELSE [unit[v] EXCEPT !.required = TRUE]]
    BY <2>2, <2>4, <2>9
  <2>12. QED BY <2>4, <2>5, <2>10, <2>11
<1>1. CASE m \in paths
  <2>1. unit' = unit /\ cache' = cache /\ pending' = pending /\ paths' = paths
    BY <1>1 DEF Added
  <2>2. UnitsTyped' /\ OthersTyped' /\ InputsFirst' /\ PendingByPath'
    BY <2>1 DEF UnitsTyped, OthersTyped, InputsFirst, PendingByPath, Units, Modules
  <2>3. Owned' /\ OthersPending' /\ ParsedFor' /\ CachedForPlugin'
    BY <2>1 DEF Owned, OthersPending, ParsedFor, CachedForPlugin, Units, Extension
  <2>4. SpicyReached' /\ SameExtension' /\ CompiledPending'
    BY <2>1 DEF SpicyReached, SpicyUnits, UnitsClosed, SameExtension, CompiledPending, Units, Extension
  <2>5. WorkedOn' /\ ResolvedWhole'
    BY <2>1 DEF WorkedOn, ResolvedWhole, ImportsLinked, Imports, Units, Extension, Resolved
  <2>6. QED BY <2>2, <2>3, <2>4, <2>5
<1>2. CASE m \notin paths /\ cache[m] # None
  <2>1. u \in Units /\ u[1] = m /\ Extension(u) = lang /\ u = cache[m]
    BY <1>unit, <1>2, <1>whole DEF UnitsTyped
  <2>2. /\ unit' = [v \in Units |-> IF v # u THEN unit[v] ELSE [unit[v] EXCEPT !.required = TRUE]]
        /\ cache' = [cache EXCEPT ![m] = u] /\ pending' = pending \cup {u} /\ paths' = paths \cup {m}
    <3>1. Units \cup {u} = Units
      BY <2>1
    <3>2. QED BY <1>2, <1>whole, <3>1
  <2>3. Units' = Units /\ cache' = cache
    BY <2>1, <2>2 DEF UnitsTyped, Units
  <2>4. ASSUME NEW v \in Units
        PROVE  /\ unit'[v].extension = unit[v].extension /\ unit'[v].resolved = unit[v].resolved
               /\ unit'[v].dependencies = unit[v].dependencies
               /\ (v = u => unit'[v].required) /\ (v # u => unit'[v] = unit[v])
               /\ unit'[v] \in UnitRecord(Units)
    <3>1. unit[v] \in UnitRecord(Units)
      BY DEF UnitsTyped
    <3>2. unit'[v] = IF v # u THEN unit[v] ELSE [unit[v] EXCEPT !.required = TRUE]
      BY <2>2
    <3>3. CASE v = u
      BY <3>1, <3>2, <3>3
    <3>4. CASE v # u
      BY <3>1, <3>2, <3>4
    <3>5. QED BY <3>3, <3>4
  <2>5. /\ \A v : v \in pending' <=> v \in pending \/ v = u
        /\ \A n : n \in paths' <=> n \in paths \/ n = m
    BY <2>2
  <2>6. UnitsTyped' /\ OthersTyped'
    <3>1. unit' \in [Units -> UnitRecord(Units)]
      BY <2>2, <2>4
    <3>2. UnitsTyped'
      BY <1>typed, <2>3, <3>1 DEF UnitsTyped
    <3>3. OthersTyped'
      BY <1>typed, <2>1, <2>3, <2>5 DEF OthersTyped
    <3>4. QED BY <3>2, <3>3
  <2>7. InputsFirst'
    BY <2>1, <2>3, <2>5 DEF InputsFirst
  <2>8. PendingByPath'
    <3>1. \A v \in pending : v[1] # m /\ v # u /\ v \in Units
      BY <1>typed, <1>2, <2>1 DEF PendingByPath
    <3>2. \A v, w \in pending' : v[1] = w[1] => v = w
      BY <2>1, <2>5, <3>1 DEF PendingByPath
    <3>3. \A v \in pending' : v[1] \in paths' /\ (v[1] \in project.inputs => unit'[v].required)
      BY <2>1, <2>4, <2>5, <3>1 DEF PendingByPath
    <3>4. \A n \in paths' : \E v \in pending' : v[1] = n
      BY <2>1, <2>5 DEF PendingByPath
    <3>5. QED BY <3>2, <3>3, <3>4 DEF PendingByPath
  <2>9. Owned' /\ OthersPending' /\ ParsedFor'
    BY <2>3, <2>4, <2>5 DEF Owned, OthersPending, ParsedFor, Extension
  <2>10. CachedForPlugin'
    <3>1. \A v \in Units : cache[v[1]] \in Units
      BY UnitFacts DEF Owned, UnitsTyped
    <3>2. QED BY <2>3, <2>4, <3>1 DEF CachedForPlugin, Extension
  <2>11. SpicyReached'
    <3>1. SUFFICES ASSUME plugin = "spicy", NEW us, UnitsClosed(us)', SpicyUnits(pending)' \subseteq us
                   PROVE  SpicyUnits(Units)' \subseteq us
      BY DEF SpicyReached
    <3>2. UnitsClosed(us)
      BY <2>3, <2>4, <3>1 DEF UnitsClosed
    <3>3. SpicyUnits(pending) \subseteq us
      BY <1>typed, <2>4, <2>5, <3>1 DEF SpicyUnits, Extension
    <3>4. SpicyUnits(Units)' = SpicyUnits(Units)
      BY <2>3, <2>4 DEF SpicyUnits, Extension
    <3>5. QED BY <3>1, <3>2, <3>3, <3>4 DEF SpicyReached
  <2>12. SameExtension' /\ CompiledPending' /\ WorkedOn'
    BY <2>3, <2>4, UnitFacts DEF SameExtension, CompiledPending, WorkedOn, Extension
  <2>13. ResolvedWhole'
    <3>1. \A v \in Units : ImportsLinked(v)' = ImportsLinked(v) /\ Resolved(v)' = Resolved(v)
      BY <2>4 DEF ImportsLinked, Imports, Resolved
    <3>2. QED BY <2>3, <2>4, <2>5, <3>1, UnitFacts DEF ResolvedWhole
  <2>14. QED BY <2>6, <2>7, <2>8, <2>9, <2>10, <2>11, <2>12, <2>13
<1>3. CASE m \notin paths /\ cache[m] = None
  <2>1. u = <<m, lang>> /\ u # None /\ u[1] = m /\ u[2] = lang /\ \A v \in Units : v[1] # m
    BY <1>typed, <1>unit, <1>3, ProjectsAssumption DEF Owned, Modules, Extensions
  <2>2. /\ unit' = [v \in Units \cup {u} |-> IF v # u THEN unit[v] ELSE NewUnit(lang, TRUE)]
        /\ cache' = [cache EXCEPT ![m] = u] /\ pending' = pending \cup {u} /\ paths' = paths \cup {m}
    BY <1>3, <1>whole
  <2>3. u \notin Units
    BY <2>1
  <2>4. /\ \A v : v \in Units' <=> v \in Units \/ v = u
        /\ \A v : v \in pending' <=> v \in pending \/ v = u
        /\ \A n : n \in paths' <=> n \in paths \/ n = m
    BY <2>2 DEF Units
  <2>5. \A v \in Units : unit'[v] = unit[v]
    BY <2>2, <2>3
  <2>6. /\ unit'[u].extension = lang /\ ~unit'[u].resolved /\ unit'[u].dependencies = {} /\ unit'[u].required
        /\ unit'[u] \in UnitRecord(Units')
    <3>1. unit'[u] = [extension |-> lang, resolved |-> FALSE, dependencies |-> {}, required |-> TRUE]
      BY <2>2, <2>3 DEF NewUnit
    <3>2. QED BY <1>typed, <3>1
  <2>7. cache'[m] = u /\ \A n \in Modules \ {m} : cache'[n] = cache[n]
    BY <2>2 DEF UnitsTyped
  <2>8. \A v \in Units : /\ v[1] \in Modules /\ v[1] # m /\ cache'[v[1]] = cache[v[1]] /\ cache[v[1]] \in Units
                         /\ unit[v].dependencies \subseteq Units
    BY <2>1, <2>7, UnitFacts DEF UnitsTyped, Owned
  <2>9. UnitsTyped' /\ OthersTyped'
    <3>1. ASSUME NEW v \in Units
          PROVE  unit'[v] \in UnitRecord(Units')
      <4>1. unit[v] \in UnitRecord(Units)
        BY DEF UnitsTyped
      <4>2. Units \subseteq Units'
        BY <2>4
      <4>3. QED BY <2>5, <4>1, <4>2
    <3>2. unit' \in [Units' -> UnitRecord(Units')]
      <4>1. unit' = [v \in Units' |-> unit'[v]]
        BY <2>2 DEF Units
      <4>2. \A v \in Units' : unit'[v] \in UnitRecord(Units')
        BY <2>4, <2>6, <3>1
      <4>3. QED BY <4>1, <4>2
    <3>3. cache' \in [Modules -> Units' \cup {None}]
      <4>1. cache' = [n \in Modules |-> IF n = m THEN u ELSE cache[n]]
        BY <2>2 DEF UnitsTyped
      <4>2. \A n \in Modules : cache[n] \in Units \cup {None}
        BY DEF UnitsTyped
      <4>3. QED BY <2>4, <4>1, <4>2
    <3>4. \A n \in Modules : cache'[n] # None => cache'[n][1] = n
      BY <2>1, <2>7 DEF UnitsTyped
    <3>5. Units' \subseteq Modules \X Extensions
      BY <1>typed, <2>1, <2>4 DEF UnitsTyped
    <3>6. OthersTyped'
      BY <1>typed, <2>4 DEF OthersTyped
    <3>7. QED BY <1>typed, <3>2, <3>3, <3>4, <3>5, <3>6 DEF UnitsTyped
  <2>10. InputsFirst'
    <3>1. stage = "inputs" => pending' = Units'
      BY <2>4 DEF InputsFirst
    <3>2. QED BY <2>4, <3>1 DEF InputsFirst
  <2>11. PendingByPath'
    <3>1. \A v \in pending : v[1] # m /\ v # u /\ v \in Units /\ unit'[v] = unit[v]
      BY <1>typed, <2>3, <2>5, <2>8
    <3>2. \A v, w \in pending' : v[1] = w[1] => v = w
      BY <2>1, <2>4, <3>1 DEF PendingByPath
    <3>3. \A v \in pending' : v[1] \in paths' /\ (v[1] \in project.inputs => unit'[v].required)
      BY <2>1, <2>4, <2>6, <3>1 DEF PendingByPath
    <3>4. \A n \in paths' : \E v \in pending' : v[1] = n
      BY <2>1, <2>4 DEF PendingByPath
    <3>5. QED BY <3>2, <3>3, <3>4 DEF PendingByPath
  <2>12. Owned'
    BY <2>1, <2>4, <2>7, <2>8 DEF Owned
  <2>13. OthersPending'
    BY <2>4, <2>5 DEF OthersPending, Extension
  <2>14. ParsedFor'
    BY <2>1, <2>4, <2>5, <2>6 DEF ParsedFor, Extension
  <2>15. CachedForPlugin'
    BY <2>1, <2>4, <2>5, <2>6, <2>7, <2>8 DEF CachedForPlugin, Extension
  <2>16. SpicyReached'
    <3>1. SUFFICES ASSUME plugin = "spicy", NEW us, UnitsClosed(us)', SpicyUnits(pending)' \subseteq us
                   PROVE  SpicyUnits(Units)' \subseteq us
      BY DEF SpicyReached
    <3>2. UnitsClosed(us \cap Units)
      BY <2>4, <2>5, <2>8, <3>1 DEF UnitsClosed
    <3>3. SpicyUnits(pending) \subseteq us \cap Units
      BY <1>typed, <2>4, <2>5, <3>1 DEF SpicyUnits, Extension
    <3>4. SpicyUnits(Units) \subseteq us \cap Units
      BY <3>1, <3>2, <3>3 DEF SpicyReached
    <3>5. \A v \in SpicyUnits(Units)' : v \in SpicyUnits(Units) \/ v \in SpicyUnits(pending)'
      BY <2>4, <2>5 DEF SpicyUnits, Extension
    <3>6. QED BY <3>1, <3>4, <3>5
  <2>17. SameExtension'
    BY <2>3, <2>4, <2>5, <2>6, <2>8 DEF SameExtension, Extension
  <2>18. CompiledPending' /\ WorkedOn'
    BY DEF CompiledPending, WorkedOn
  <2>19. ResolvedWhole'
    <3>1. \A v \in Units : ImportsLinked(v)' = ImportsLinked(v) /\ Resolved(v)' = Resolved(v)
      BY <2>5 DEF ImportsLinked, Imports, Resolved
    <3>2. ~Resolved(u)'
      BY <2>6 DEF Resolved
    <3>3. QED BY <2>4, <2>5, <2>8, <3>1, <3>2 DEF ResolvedWhole
  <2>20. QED
    BY <2>9, <2>10, <2>11, <2>12, <2>13, <2>14, <2>15, <2>16, <2>17, <2>18, <2>19
<1>4. QED BY <1>1, <1>2, <1>3
\* Reading an input: nobody has a unit of a module whose path is not known yet.
LEMMA AddInputKeeps == CompilationIInv /\ replaced = {} /\ AddInput => CompilationIInv'
<1> SUFFICES ASSUME CompilationIInv, replaced = {}, AddInput
             PROVE  CompilationIInv'
  OBVIOUS
<1>1. PICK m \in project.inputs \ paths : Added(m)
  BY DEF AddInput
<1>2. /\ project' = project /\ plugin' = plugin /\ working' = working /\ round' = round /\ stage' = stage
      /\ hlts' = hlts /\ late' \subseteq late /\ stage = "inputs"
  BY DEF AddInput
<1>3. m \in Modules
  BY <1>1, ProjectsAssumption DEF CompilationIInv, Modules
<1>4. cache[m] = None
  <2>1. cache[m] # None => cache[m] \in pending /\ cache[m][1] = m
    BY <1>2, <1>3 DEF CompilationIInv, UnitsTyped, InputsFirst
  <2>2. QED BY <1>1, <2>1 DEF CompilationIInv, PendingByPath
<1>5. replaced' = replaced
  <2>1. replaced' = replaced \cup {n \in {m} : Cached(m, project.language[m]) = None /\ cache[m] # None}
    BY <1>1 DEF Added
  <2>2. QED BY <1>4, <2>1
<1>6. QED BY <1>1, <1>2, <1>3, <1>5, AddedKeeps

\* Adding an input later that takes nobody's place.
LEMMA HookKeeps == CompilationIInv /\ replaced' = {} /\ Hook => CompilationIInv'
<1> SUFFICES ASSUME CompilationIInv, replaced' = {}, Hook
             PROVE  CompilationIInv'
  OBVIOUS
<1>1. PICK m \in late : Added(m) /\ late' = late \ {m}
  BY DEF Hook
<1>2. /\ project' = project /\ plugin' = plugin /\ working' = working /\ round' = round /\ stage' = stage
      /\ hlts' = hlts /\ late' \subseteq late /\ stage = "hook"
  BY <1>1 DEF Hook
<1>3. m \in Modules
  BY <1>1 DEF CompilationIInv, OthersTyped
<1>4. QED BY <1>1, <1>2, <1>3, AddedKeeps

\* What is said of the units and the cache stays as long as they do.
LEMMA SameUnits ==
  ASSUME project' = project /\ unit' = unit /\ cache' = cache
  PROVE  /\ Units' = Units /\ Modules' = Modules /\ UnitsTyped' = UnitsTyped /\ SameExtension' = SameExtension
         /\ \A u : Extension(u)' = Extension(u) /\ Resolved(u)' = Resolved(u) /\ ImportsLinked(u)' = ImportsLinked(u)
         /\ \A us : UnitsClosed(us)' = UnitsClosed(us)
<1>1. Units' = Units /\ Modules' = Modules
  BY DEF Units, Modules
<1>2. \A u : Extension(u)' = Extension(u) /\ Resolved(u)' = Resolved(u) /\ ImportsLinked(u)' = ImportsLinked(u)
  BY DEF Extension, Resolved, ImportsLinked, Imports
<1>3. UnitsTyped' = UnitsTyped
  BY <1>1 DEF UnitsTyped
<1>4. SameExtension' = SameExtension
  BY <1>1, <1>2 DEF SameExtension
<1>5. \A us : UnitsClosed(us)' = UnitsClosed(us)
  BY <1>1 DEF UnitsClosed
<1>6. QED BY <1>1, <1>2, <1>3, <1>4, <1>5

\* All inputs are there: each module has one unit, which is the cache's.
LEMMA CompileUnitsKeeps == CompilationIInv /\ CompileUnits => CompilationIInv'
<1> SUFFICES ASSUME CompilationIInv, CompileUnits
             PROVE  CompilationIInv'
  OBVIOUS
<1> USE DEF CompilationIInv
<1>1. /\ project' = project /\ unit' = unit /\ cache' = cache /\ pending' = pending /\ paths' = paths
      /\ working' = working /\ round' = round /\ hlts' = hlts /\ late' = late
      /\ stage = "inputs" /\ project.inputs \subseteq paths /\ stage' = "plugin" /\ plugin' = "spicy"
  BY DEF CompileUnits
<1>2. pending = Units
  BY <1>1 DEF InputsFirst
<1>3. UnitsTyped' /\ OthersTyped' /\ SameExtension'
  BY <1>1, SameUnits DEF OthersTyped, Extensions, Stages
<1>4. InputsFirst' /\ PendingByPath' /\ Owned' /\ OthersPending'
  BY <1>1, <1>2, SameUnits DEF InputsFirst, PendingByPath, Owned, OthersPending
<1>5. \A u \in Units : Extension(u) = u[2]
  BY <1>1 DEF ParsedFor
<1>6. ParsedFor'
  BY <1>1, <1>5, SameUnits DEF ParsedFor
<1>7. CachedForPlugin'
  <2>1. ASSUME NEW u \in Units
        PROVE  cache[u[1]] = u
    <3>1. cache[u[1]] \in Units /\ cache[u[1]][1] = u[1]
      BY UnitFacts DEF UnitsTyped, Owned
    <3>2. QED BY <1>2, <3>1 DEF PendingByPath
  <2>2. QED BY <1>1, <2>1, SameUnits DEF CachedForPlugin
<1>8. SpicyReached'
  BY <1>1, <1>2, SameUnits DEF SpicyReached, SpicyUnits
<1>9. WorkedOn' /\ CompiledPending'
  BY <1>1 DEF WorkedOn, CompiledPending
<1>10. ResolvedWhole'
  BY <1>1, SameUnits DEF ResolvedWhole
<1>11. QED BY <1>1, <1>3, <1>4, <1>6, <1>7, <1>8, <1>9, <1>10

\* What the plugin works on is what it is for.
LEMMA UnitsForPluginFacts ==
  ASSUME DriverTyped, NEW resolvedToo \in BOOLEAN
  PROVE  /\ UnitsForPlugin(resolvedToo) \subseteq Units /\ UnitsFollowed(resolvedToo) \subseteq Units
         /\ \A u \in UnitsForPlugin(resolvedToo) : Extension(u) = plugin /\ (resolvedToo \/ ~Resolved(u))
         /\ resolvedToo => \A u \in Dependencies[{v \in pending : Extension(v) = plugin}] :
                             Extension(u) = plugin => u \in UnitsForPlugin(resolvedToo)
<1>1. OfPlugin(pending, resolvedToo) \in SUBSET Units /\ pending \subseteq Units
  BY DEF DriverTyped, OfPlugin
<1>2. UnitsFollowed(resolvedToo) \subseteq Units
  BY <1>1, FiniteUnits DEF UnitsFollowed
<1>3. resolvedToo => OfPlugin(pending, resolvedToo) = {v \in pending : Extension(v) = plugin}
  BY DEF OfPlugin
<1>4. UnitsForPlugin(resolvedToo) =
        {u \in pending \cup UnitsFollowed(resolvedToo) : Extension(u) = plugin /\ (resolvedToo \/ ~Resolved(u))}
  BY DEF UnitsForPlugin, OfPlugin
<1>5. resolvedToo => UnitsFollowed(resolvedToo) = Dependencies[{v \in pending : Extension(v) = plugin}]
  BY <1>3 DEF UnitsFollowed
<1>6. QED BY <1>1, <1>2, <1>4, <1>5

\* The plugin sets to work.
LEMMA StartPluginKeeps == CompilationIInv /\ StartPlugin => CompilationIInv'
<1> SUFFICES ASSUME CompilationIInv, StartPlugin
             PROVE  CompilationIInv'
  OBVIOUS
<1> USE DEF CompilationIInv
<1>1. /\ project' = project /\ unit' = unit /\ cache' = cache /\ pending' = pending /\ paths' = paths
      /\ plugin' = plugin /\ round' = round /\ hlts' = hlts /\ late' = late
      /\ stage = "plugin" /\ plugin # None /\ working' = UnitsForPlugin(FALSE) /\ stage' = "rounds"
  BY DEF StartPlugin
<1>2. working' \subseteq Units /\ \A u \in working' : Extension(u) = plugin /\ ~Resolved(u)
  BY <1>1, NoneIsNoUnit, UnitsForPluginFacts
<1>3. UnitsTyped' /\ OthersTyped' /\ SameExtension'
  BY <1>1, <1>2, SameUnits DEF OthersTyped, Stages
<1>4. InputsFirst' /\ PendingByPath' /\ Owned' /\ OthersPending' /\ ParsedFor' /\ CachedForPlugin'
  BY <1>1, SameUnits DEF InputsFirst, PendingByPath, Owned, OthersPending, ParsedFor, CachedForPlugin
<1>5. SpicyReached'
  BY <1>1, SameUnits DEF SpicyReached, SpicyUnits
<1>6. WorkedOn' /\ CompiledPending'
  BY <1>1, <1>2, SameUnits DEF WorkedOn, CompiledPending
<1>7. ResolvedWhole'
  BY <1>1, SameUnits DEF ResolvedWhole
<1>8. QED BY <1>1, <1>3, <1>4, <1>5, <1>6, <1>7
\* The rounds are over: the units that were worked on, and what they depend on, are
\* resolved.
LEMMA EndRoundsKeeps == CompilationIInv /\ EndRounds => CompilationIInv'
<1> SUFFICES ASSUME CompilationIInv, EndRounds
             PROVE  CompilationIInv'
  OBVIOUS
<1> USE DEF CompilationIInv
<1>1. /\ project' = project /\ cache' = cache /\ pending' = pending /\ paths' = paths /\ plugin' = plugin
      /\ working' = working /\ round' = round /\ hlts' = hlts /\ late' = late
      /\ stage = "resolved" /\ stage' = "hook"
      /\ unit' = [u \in Units |-> IF u \in working THEN [unit[u] EXCEPT !.resolved = TRUE] ELSE unit[u]]
  BY DEF EndRounds, Changed
<1>2. Units' = Units /\ Modules' = Modules
  BY <1>1 DEF Units, Modules
<1>3. ASSUME NEW u \in Units
      PROVE  /\ unit'[u].extension = unit[u].extension /\ unit'[u].dependencies = unit[u].dependencies
             /\ unit'[u].required = unit[u].required
             /\ (u \in working => unit'[u].resolved) /\ (u \notin working => unit'[u].resolved = unit[u].resolved)
             /\ unit'[u] \in UnitRecord(Units)
  <2>1. unit[u] \in UnitRecord(Units)
    BY DEF UnitsTyped
  <2>2. unit'[u] = IF u \in working THEN [unit[u] EXCEPT !.resolved = TRUE] ELSE unit[u]
    BY <1>1
  <2>3. CASE u \in working
    BY <2>1, <2>2, <2>3
  <2>4. CASE u \notin working
    BY <2>1, <2>2, <2>4
  <2>5. QED BY <2>3, <2>4
<1>4. UnitsTyped' /\ OthersTyped'
  <2>1. unit' \in [Units -> UnitRecord(Units)]
    BY <1>1, <1>3
  <2>2. UnitsTyped'
    BY <1>1, <1>2, <2>1 DEF UnitsTyped
  <2>3. OthersTyped'
    BY <1>1, <1>2 DEF OthersTyped, Stages
  <2>4. QED BY <2>2, <2>3
<1>5. \A u \in Units : Extension(u)' = Extension(u) /\ ImportsLinked(u)' = ImportsLinked(u)
  BY <1>1, <1>3 DEF Extension, ImportsLinked, Imports
<1>6. \A u \in Units : Resolved(u)' <=> Resolved(u) \/ u \in working
  BY <1>3, UnitFacts DEF Resolved
<1>7. InputsFirst' /\ PendingByPath'
  <2>1. pending \subseteq Units
    BY DEF OthersTyped
  <2>2. QED BY <1>1, <1>2, <1>3, <2>1 DEF InputsFirst, PendingByPath
<1>8. Owned' /\ OthersPending' /\ ParsedFor'
  BY <1>1, <1>2, <1>5 DEF Owned, OthersPending, ParsedFor
<1>9. CachedForPlugin'
  <2>1. \A u \in Units : cache[u[1]] \in Units
    BY UnitFacts DEF Owned, UnitsTyped
  <2>2. QED BY <1>1, <1>2, <1>5, <2>1 DEF CachedForPlugin, Extension
<1>10. SpicyReached'
  <2>1. \A us : UnitsClosed(us)' = UnitsClosed(us)
    BY <1>2, <1>3 DEF UnitsClosed
  <2>2. SpicyUnits(pending)' = SpicyUnits(pending) /\ SpicyUnits(Units)' = SpicyUnits(Units)
    BY <1>1, <1>2, <1>5 DEF SpicyUnits, OthersTyped
  <2>3. QED BY <1>1, <2>1, <2>2 DEF SpicyReached
<1>11. SameExtension'
  BY <1>2, <1>3, <1>5, UnitFacts DEF SameExtension
<1>12. WorkedOn' /\ CompiledPending'
  BY <1>1 DEF WorkedOn, CompiledPending
<1>13. ResolvedWhole'
  <2>1. ASSUME NEW u \in Units, Resolved(u)'
        PROVE  /\ ImportsLinked(u)' /\ \A d \in unit'[u].dependencies : Resolved(d)'
               /\ project.execute /\ u \notin working => \A d \in unit'[u].dependencies : d[1] \in paths
    <3>1. unit'[u].dependencies = unit[u].dependencies /\ unit[u].dependencies \subseteq Units
      BY <1>3, UnitFacts
    <3>2. CASE u \in working
      BY <1>1, <1>5, <1>6, <3>1, <3>2 DEF WorkedOn
    <3>3. CASE u \notin working
      BY <1>1, <1>5, <1>6, <2>1, <3>1, <3>3 DEF ResolvedWhole
    <3>4. QED BY <3>2, <3>3
  <2>2. QED BY <1>1, <1>2, <2>1 DEF ResolvedWhole
<1>14. QED BY <1>1, <1>4, <1>7, <1>8, <1>9, <1>10, <1>11, <1>12, <1>13

\* What was resolved has its dependencies join, if code is to run: one unit of each
\* module that is new.
LEMMA AddDependenciesKeeps == CompilationIInv /\ AddDependencies => CompilationIInv'
<1> SUFFICES ASSUME CompilationIInv, AddDependencies
             PROVE  CompilationIInv'
  OBVIOUS
<1> USE DEF CompilationIInv
<1>whole. unit' = unit
  <2>1. PICK owned : owned = pending' \cup CachedIn(cache)
    OBVIOUS
  <2>2. pending \subseteq pending'
    BY DEF AddDependencies
  <2>3. ASSUME NEW u \in Units
        PROVE  u \in owned
    <3>1. u[1] \in Modules /\ (u \in pending \/ cache[u[1]] = u)
      BY UnitFacts DEF Owned
    <3>2. QED BY <2>1, <2>2, <3>1 DEF CachedIn
  <2>4. unit' = Kept(unit, owned) /\ unit \in [Units -> UnitRecord(Units)]
    BY <2>1 DEF AddDependencies, UnitsTyped
  <2>5. PICK D : D = Units
    OBVIOUS
  <2>6. QED BY <2>3, <2>4, <2>5, KeptAll
<1>1. /\ project' = project /\ unit' = unit /\ cache' = cache /\ plugin' = plugin /\ round' = round
      /\ hlts' = hlts /\ late' = late /\ stage = "hook" /\ stage' = "plugin" /\ working' = {}
  BY <1>whole DEF AddDependencies
<1>2. PICK joining : joining = IF project.execute THEN {u \in Joining : u[1] \notin paths} ELSE {}
  OBVIOUS
<1>3. /\ \A u : u \in pending' <=> u \in pending \/ u \in joining
      /\ \A m : m \in paths' <=> m \in paths \/ \E u \in joining : u[1] = m
  BY <1>2 DEF AddDependencies
<1>4. \A u \in joining : u \in Units /\ u[1] \notin paths /\ u[1] \in Modules /\ u \notin pending /\ cache[u[1]] = u
  <2>1. Joining \subseteq Units
    <3>1. \A u \in working : u \in Units /\ unit[u].dependencies \subseteq Units
      BY UnitFacts DEF OthersTyped
    <3>2. QED BY <3>1 DEF Joining
  <2>2. \A u \in joining : u \in Units /\ u[1] \notin paths
    BY <1>2, <2>1
  <2>3. QED BY <2>2, UnitFacts DEF PendingByPath, Owned
<1>5. UnitsTyped' /\ OthersTyped' /\ SameExtension'
  BY <1>1, <1>3, <1>4, SameUnits DEF OthersTyped, Stages
<1>6. InputsFirst'
  BY <1>1, <1>3 DEF InputsFirst
<1>7. PendingByPath'
  <2>1. \A u, v \in pending' : u[1] = v[1] => u = v
    BY <1>3, <1>4 DEF PendingByPath
  <2>2. \A u \in pending' : u[1] \in paths' /\ (u[1] \in project.inputs => unit[u].required)
    BY <1>1, <1>3, <1>4 DEF PendingByPath, InputsFirst
  <2>3. \A m \in paths' : \E u \in pending' : u[1] = m
    BY <1>3 DEF PendingByPath
  <2>4. QED BY <1>1, <2>1, <2>2, <2>3 DEF PendingByPath
<1>8. Owned' /\ OthersPending' /\ ParsedFor' /\ CachedForPlugin'
  BY <1>1, <1>3, SameUnits DEF Owned, OthersPending, ParsedFor, CachedForPlugin
<1>9. SpicyReached'
  <2>1. SpicyUnits(pending) \subseteq SpicyUnits(pending)'
    BY <1>1, <1>3, SameUnits DEF SpicyUnits
  <2>2. SpicyUnits(Units)' = SpicyUnits(Units)
    BY <1>1, SameUnits DEF SpicyUnits
  <2>3. QED BY <1>1, <2>1, <2>2, SameUnits DEF SpicyReached
<1>10. WorkedOn' /\ CompiledPending'
  BY <1>1 DEF WorkedOn, CompiledPending
<1>11. ResolvedWhole'
  <2>1. ASSUME project.execute, NEW u \in Units, Resolved(u), NEW d \in unit[u].dependencies
        PROVE  d[1] \in paths'
    <3>1. CASE u \in working /\ d[1] \notin paths
      <4>1. d \in joining
        BY <1>2, <2>1, <3>1 DEF Joining
      <4>2. QED BY <1>3, <4>1
    <3>2. CASE u \notin working
      BY <1>3, <2>1, <3>2 DEF ResolvedWhole
    <3>3. QED BY <1>3, <3>1, <3>2
  <2>2. QED BY <1>1, <2>1, SameUnits DEF ResolvedWhole
<1>12. QED BY <1>1, <1>5, <1>6, <1>7, <1>8, <1>9, <1>10, <1>11

\* All Spicy units are transformed at once: those that are pending have led to all
\* others.
LEMMA NextPluginKeeps == CompilationIInv /\ NextPlugin => CompilationIInv'
<1> SUFFICES ASSUME CompilationIInv, NextPlugin
             PROVE  CompilationIInv'
  OBVIOUS
<1> USE DEF CompilationIInv
<1>1. /\ project' = project /\ pending' = pending /\ paths' = paths /\ working' = working /\ round' = round
      /\ stage' = stage /\ hlts' = hlts /\ late' = late /\ stage = "plugin" /\ plugin # None
  BY DEF NextPlugin
<1>2. CASE plugin = "spicy"
  <2>1. \A u \in Units : Extension(u) = "spicy" <=> u \in Transforming
    <3>1. Transforming \subseteq Units /\ \A u \in Transforming : Extension(u) = "spicy"
      BY <1>2, NoneIsNoUnit, UnitsForPluginFacts DEF Transforming
    <3>2. {v \in pending : Extension(v) = plugin} = SpicyUnits(pending) /\ SpicyUnits(pending) \in SUBSET Units
      BY <1>2 DEF SpicyUnits, OthersTyped
    <3>3. /\ UnitsClosed(Dependencies[SpicyUnits(pending)])
          /\ SpicyUnits(pending) \subseteq Dependencies[SpicyUnits(pending)]
      BY <3>2, NoneIsNoUnit, FiniteUnits, DependenciesFacts
    <3>4. SpicyUnits(Units) \subseteq Dependencies[SpicyUnits(pending)]
      BY <1>2, <3>3 DEF SpicyReached
    <3>5. \A u \in Dependencies[SpicyUnits(pending)] : Extension(u) = "spicy" => u \in Transforming
      BY <1>2, <3>2, NoneIsNoUnit, UnitsForPluginFacts DEF Transforming
    <3>6. QED BY <3>1, <3>4, <3>5 DEF SpicyUnits
  <2>2. /\ unit' = [u \in Units |-> IF u \in Transforming THEN [unit[u] EXCEPT !.extension = "hlt", !.resolved = FALSE]
                                    ELSE unit[u]]
        /\ cache' = [m \in Modules |-> IF <<m, "spicy">> \in Transforming THEN <<m, "spicy">> ELSE cache[m]]
        /\ plugin' = "hlt"
    BY <1>2 DEF NextPlugin, Changed
  <2>3. Units' = Units /\ Modules' = Modules
    BY <1>1, <2>2 DEF Units, Modules
  <2>4. cache' = cache
    <3>1. \A m \in Modules : <<m, "spicy">> \in Transforming => cache[m] = <<m, "spicy">>
      <4>1. Transforming \subseteq Units
        BY NoneIsNoUnit, UnitsForPluginFacts DEF Transforming
      <4>2. QED BY <1>2, <4>1 DEF CachedForPlugin
    <3>2. QED BY <2>2, <3>1 DEF UnitsTyped
  <2>5. ASSUME NEW u \in Units
        PROVE  /\ unit'[u].extension = "hlt" /\ unit'[u].dependencies = unit[u].dependencies
               /\ unit'[u].required = unit[u].required
               /\ (unit'[u].resolved <=> Resolved(u) /\ Extension(u) = "hlt")
               /\ unit'[u] \in UnitRecord(Units)
    <3>1. unit[u] \in UnitRecord(Units)
      BY DEF UnitsTyped
    <3>2. unit'[u] = IF u \in Transforming THEN [unit[u] EXCEPT !.extension = "hlt", !.resolved = FALSE] ELSE unit[u]
      BY <2>2
    <3>3. CASE u \in Transforming
      BY <2>1, <3>1, <3>2, <3>3 DEF Extension, Extensions
    <3>4. CASE u \notin Transforming
      BY <2>1, <3>1, <3>2, <3>4 DEF Extension, Resolved, Extensions
    <3>5. QED BY <3>3, <3>4
  <2>6. UnitsTyped' /\ OthersTyped'
    <3>1. unit' \in [Units -> UnitRecord(Units)]
      BY <2>2, <2>5
    <3>2. UnitsTyped'
      BY <2>3, <2>4, <3>1 DEF UnitsTyped
    <3>3. OthersTyped'
      BY <1>1, <2>2, <2>3 DEF OthersTyped, Extensions
    <3>4. QED BY <3>2, <3>3
  <2>7. \A u \in Units : /\ Extension(u)' = "hlt" /\ ImportsLinked(u)' = ImportsLinked(u)
                         /\ (Resolved(u)' <=> Resolved(u) /\ Extension(u) = "hlt")
    BY <1>1, <2>5 DEF Extension, ImportsLinked, Imports, Resolved
  <2>8. InputsFirst' /\ PendingByPath'
    <3>1. pending \subseteq Units
      BY DEF OthersTyped
    <3>2. QED BY <1>1, <2>5, <3>1 DEF InputsFirst, PendingByPath
  <2>9. Owned' /\ OthersPending' /\ ParsedFor'
    BY <1>1, <2>2, <2>3, <2>4, <2>7, UnitFacts DEF Owned, OthersPending, ParsedFor, Extensions
  <2>10. CachedForPlugin'
    <3>1. \A u \in Units : cache[u[1]] \in Units
      BY UnitFacts DEF Owned, UnitsTyped
    <3>2. \A u \in Units : Extension(cache[u[1]])' = "hlt"
      BY <2>4, <2>5, <3>1 DEF Extension
    <3>3. plugin' = "hlt"
      BY <2>2
    <3>4. QED BY <2>3, <3>2, <3>3 DEF CachedForPlugin
  <2>11. SpicyReached' /\ WorkedOn' /\ CompiledPending'
    BY <1>1, <2>2 DEF SpicyReached, WorkedOn, CompiledPending
  <2>12. SameExtension'
    BY <2>3, <2>5, <2>7, UnitFacts DEF SameExtension
  <2>13. ResolvedWhole'
    <3>1. ASSUME NEW u \in Units, Resolved(u)'
          PROVE  /\ ImportsLinked(u)' /\ \A d \in unit'[u].dependencies : Resolved(d)'
                 /\ project.execute => \A d \in unit'[u].dependencies : d[1] \in paths
      <4>1. Resolved(u) /\ Extension(u) = "hlt" /\ unit'[u].dependencies = unit[u].dependencies
        BY <2>5, <2>7, <3>1
      <4>2. \A d \in unit[u].dependencies : d \in Units /\ Extension(d) = "hlt"
        BY <4>1, UnitFacts DEF SameExtension
      <4>3. QED BY <1>1, <2>7, <4>1, <4>2 DEF ResolvedWhole
    <3>2. QED BY <1>1, <2>3, <3>1 DEF ResolvedWhole
  <2>14. QED BY <1>1, <2>6, <2>8, <2>9, <2>10, <2>11, <2>12, <2>13
<1>3. CASE plugin # "spicy"
  <2>1. unit' = unit /\ cache' = cache /\ plugin' = None
    BY <1>3 DEF NextPlugin
  <2>2. None # "spicy" /\ None # "hlt"
    BY ProjectsAssumption
  <2>3. UnitsTyped' /\ OthersTyped' /\ SameExtension'
    BY <1>1, <2>1, SameUnits DEF OthersTyped
  <2>4. InputsFirst' /\ PendingByPath' /\ Owned' /\ OthersPending'
    BY <1>1, <2>1, SameUnits DEF InputsFirst, PendingByPath, Owned, OthersPending
  <2>5. ParsedFor' /\ CachedForPlugin' /\ SpicyReached'
    BY <1>1, <2>1, <2>2, SameUnits DEF ParsedFor, CachedForPlugin, SpicyReached
  <2>6. WorkedOn' /\ CompiledPending'
    BY <1>1 DEF WorkedOn, CompiledPending
  <2>7. ResolvedWhole'
    BY <1>1, <2>1, SameUnits DEF ResolvedWhole
  <2>8. QED BY <1>1, <2>3, <2>4, <2>5, <2>6, <2>7
<1>4. QED BY <1>2, <1>3

\* Code generation looks at the pending units only.
LEMMA CodegenUnitsKeeps == CompilationIInv /\ CodegenUnits => CompilationIInv'
<1> SUFFICES ASSUME CompilationIInv, CodegenUnits
             PROVE  CompilationIInv'
  OBVIOUS
<1> USE DEF CompilationIInv
<1>1. /\ project' = project /\ unit' = unit /\ cache' = cache /\ pending' = pending /\ paths' = paths
      /\ plugin' = plugin /\ working' = working /\ round' = round /\ late' = late
      /\ stage = "plugin" /\ plugin = None /\ stage' \in {"compiled", "failed"}
      /\ hlts' = hlts \/ hlts' = {u \in pending : RequiresCompilation(u)}
      /\ stage' = "compiled" =>
           /\ \A u \in pending : Extension(u) = "hlt" /\ Resolved(u)
           /\ hlts' = {u \in pending : RequiresCompilation(u)}
  BY DEF CodegenUnits
<1>2. UnitsTyped' /\ OthersTyped' /\ SameExtension'
  BY <1>1, SameUnits DEF OthersTyped, Stages
<1>3. InputsFirst' /\ PendingByPath' /\ Owned' /\ OthersPending'
  BY <1>1, SameUnits DEF InputsFirst, PendingByPath, Owned, OthersPending
<1>4. ParsedFor' /\ CachedForPlugin'
  BY <1>1, SameUnits DEF ParsedFor, CachedForPlugin
<1>5. SpicyReached'
  BY <1>1, SameUnits DEF SpicyReached, SpicyUnits
<1>6. WorkedOn'
  BY <1>1 DEF WorkedOn
<1>7. CompiledPending'
  BY <1>1, SameUnits DEF CompiledPending, RequiresCompilation
<1>8. ResolvedWhole'
  BY <1>1, SameUnits DEF ResolvedWhole
<1>9. QED BY <1>1, <1>2, <1>3, <1>4, <1>5, <1>6, <1>7, <1>8
\* An import is either the unit that the cache has for the plugin, or a new one that
\* takes the place of none, or of one for another plugin.
LEMMA ImportedFacts ==
  ASSUME UnitsTyped, ParsedFor, CachedForPlugin, plugin \in Extensions, stage # "inputs", NEW m \in Modules
  PROVE  /\ Imported(m)[1] = m
         /\ Imported(m) \in Units => Extension(Imported(m)) = plugin
         /\ Imported(m) \notin Units =>
              /\ Imported(m) = <<m, plugin>>
              /\ cache[m] # None => Extension(cache[m]) # plugin
<1>1. CASE Cached(m, plugin) # None
  <2>1. Imported(m) = cache[m] /\ cache[m] # None /\ Extension(cache[m]) = plugin
    BY <1>1 DEF Imported, Cached
  <2>2. QED BY <2>1 DEF UnitsTyped
<1>2. CASE Cached(m, plugin) = None
  <2>1. Imported(m) = <<m, plugin>>
    BY <1>2 DEF Imported
  <2>2. cache[m] # None => Extension(cache[m]) # plugin
    BY <1>2 DEF Cached
  <2>3. ASSUME <<m, plugin>> \in Units
        PROVE  Extension(<<m, plugin>>) = plugin
    <3>1. <<m, plugin>>[2] = plugin
      OBVIOUS
    <3>2. QED BY <2>3, <3>1 DEF ParsedFor
  <2>4. QED BY <2>1, <2>2, <2>3
<1>3. QED BY <1>1, <1>2

\* A round links the imports of the units that are worked on, all of the plugin, and
\* goes on with those that are not resolved yet.  A unit that loses its place in the
\* cache is pending.
LEMMA RoundKeeps == CompilationIInv /\ Round => CompilationIInv'
<1> SUFFICES ASSUME CompilationIInv, Round
             PROVE  CompilationIInv'
  OBVIOUS
<1> USE DEF CompilationIInv
<1>1. PICK linked : linked = UNION {Linked(u) : u \in working}
  OBVIOUS
<1>2. PICK found : found = {d \in linked : d \in Units => ~Resolved(d)} \ working
  OBVIOUS
<1>3. PICK new : new = linked \ Units
  OBVIOUS
<1>4. PICK again \in BOOLEAN : again <=> found # {} \/ \E u \in working : Linked(u) # unit[u].dependencies
  OBVIOUS
<1>all. PICK all : all = [u \in Units \cup new |->
                            IF u \in new THEN NewUnit(plugin, FALSE)
                            ELSE IF u \in working THEN [unit[u] EXCEPT !.dependencies = Linked(u)]
                            ELSE unit[u]]
  OBVIOUS
<1>5. /\ project' = project /\ pending' = pending /\ paths' = paths /\ plugin' = plugin /\ hlts' = hlts /\ late' = late
      /\ stage = "rounds"
      /\ unit' = Kept(all, pending \cup working' \cup CachedIn(cache'))
      /\ cache' = [m \in Modules |-> IF <<m, plugin>> \in new THEN <<m, plugin>> ELSE cache[m]]
      /\ working' = working \cup found
      /\ round' = round + (IF again THEN 1 ELSE 0)
      /\ stage' = IF ~again THEN "resolved" ELSE IF round + 1 >= MaxRounds THEN "failed" ELSE "rounds"
  BY <1>1, <1>2, <1>3, <1>4, <1>all DEF Round
<1>6. plugin \in Extensions /\ plugin # None /\ Modules' = Modules
  BY <1>5 DEF InputsFirst, OthersTyped, Modules
<1>7. \A u \in working : /\ u \in Units /\ Extension(u) = plugin /\ ~Resolved(u)
                         /\ u[1] \in Modules /\ Imports(u[1]) \subseteq Modules
  <2>1. \A m \in Modules : Imports(m) \subseteq Modules
    BY ProjectsAssumption DEF Modules, Imports
  <2>2. QED BY <1>5, <2>1, UnitFacts DEF WorkedOn, OthersTyped
<1>8. ASSUME NEW u \in working
      PROVE  /\ unit[u].dependencies \subseteq Linked(u)
             /\ \A m \in Imports(u[1]) : \E d \in Linked(u) : d[1] = m
             /\ \A d \in Linked(u) : d \in unit[u].dependencies \/ \E m \in Modules : d = Imported(m)
  <2>1. \A m \in Imports(u[1]) : Imported(m)[1] = m
    BY <1>5, <1>6, <1>7, ImportedFacts
  <2>2. QED BY <1>7, <2>1 DEF Linked
<1>9. ASSUME NEW d \in linked
      PROVE  /\ d \in Units => Extension(d) = plugin
             /\ d \notin Units =>
                  \E m \in Modules : d = <<m, plugin>> /\ (cache[m] # None => Extension(cache[m]) # plugin)
  <2>1. PICK u \in working : d \in Linked(u)
    BY <1>1
  <2>2. CASE d \in unit[u].dependencies
    BY <1>7, <2>1, <2>2, UnitFacts DEF SameExtension
  <2>3. CASE \E m \in Modules : d = Imported(m)
    <3>1. PICK m \in Modules : d = Imported(m)
      BY <2>3
    <3>2. QED BY <1>5, <1>6, <3>1, ImportedFacts
  <2>4. QED BY <1>8, <2>1, <2>2, <2>3
<1>10. /\ \A d \in new : d \notin Units /\ d[1] \in Modules /\ d[2] = plugin
       /\ \A u \in working : \A d \in Linked(u) : d \in linked
       /\ \A d \in linked : d \in Units \/ d \in new
  <2>1. ASSUME NEW d \in new
        PROVE  d \notin Units /\ d[1] \in Modules /\ d[2] = plugin
    <3>1. d \in linked /\ d \notin Units
      BY <1>3
    <3>2. PICK m \in Modules : d = <<m, plugin>>
      BY <1>9, <3>1
    <3>3. QED BY <3>1, <3>2
  <2>2. QED BY <1>1, <1>3, <2>1
<1>named. ASSUME NEW d \in new
      PROVE  d = <<d[1], plugin>> /\ d # None /\ (cache[d[1]] # None => Extension(cache[d[1]]) # plugin)
  <2>1. d \in linked /\ d \notin Units
    BY <1>3
  <2>2. PICK m \in Modules : d = <<m, plugin>> /\ (cache[m] # None => Extension(cache[m]) # plugin)
    BY <1>9, <2>1
  <2>3. <<m, plugin>> # None
    BY <1>6, ProjectsAssumption DEF Modules, Extensions
  <2>4. d[1] = m
    BY <2>2
  <2>5. QED BY <2>2, <2>3, <2>4
<1>a12. ASSUME NEW u \in Units
       PROVE  /\ all[u].extension = unit[u].extension /\ all[u].resolved = unit[u].resolved
              /\ all[u].required = unit[u].required
              /\ (u \in working => all[u].dependencies = Linked(u))
              /\ (u \notin working => all[u].dependencies = unit[u].dependencies)
              /\ all[u] \in UnitRecord(Units \cup new)
  <2>1. unit[u] \in UnitRecord(Units)
    BY DEF UnitsTyped
  <2>2. all[u] = IF u \in working THEN [unit[u] EXCEPT !.dependencies = Linked(u)] ELSE unit[u]
    BY <1>all, <1>10
  <2>3. CASE u \in working
    <3>1. Linked(u) \in SUBSET (Units \cup new)
      BY <1>10, <2>3
    <3>2. QED BY <2>1, <2>2, <2>3, <3>1
  <2>4. CASE u \notin working
    BY <2>1, <2>2, <2>4
  <2>5. QED BY <2>3, <2>4
<1>a13. ASSUME NEW u \in new
       PROVE  /\ all[u].extension = plugin /\ all[u].dependencies = {} /\ ~all[u].resolved
              /\ all[u] \in UnitRecord(Units \cup new)
  <2>1. all[u] = [extension |-> plugin, resolved |-> FALSE, dependencies |-> {}, required |-> FALSE]
    BY <1>all DEF NewUnit
  <2>2. QED BY <1>6, <2>1
<1>14. ASSUME NEW m \in Modules
       PROVE  \/ cache'[m] = cache[m] /\ <<m, plugin>> \notin new
              \/ /\ cache'[m] \in new /\ cache'[m][1] = m /\ cache'[m] # None
                 /\ cache[m] # None => Extension(cache[m]) # plugin
  <2>1. cache'[m] = IF <<m, plugin>> \in new THEN <<m, plugin>> ELSE cache[m]
    BY <1>5
  <2>2. CASE <<m, plugin>> \in new
    <3>1. <<m, plugin>>[1] = m
      OBVIOUS
    <3>2. QED BY <1>named, <2>1, <2>2, <3>1
  <2>3. QED BY <2>1, <2>2
<1>stored. ASSUME NEW d \in new
      PROVE  cache'[d[1]] = d /\ d # None
  <2>1. d = <<d[1], plugin>> /\ d # None /\ d[1] \in Modules
    BY <1>named, <1>10
  <2>2. cache'[d[1]] = IF <<d[1], plugin>> \in new THEN <<d[1], plugin>> ELSE cache[d[1]]
    BY <1>5, <2>1
  <2>3. QED BY <2>1, <2>2
<1>owned. Units \cup new \subseteq pending \cup working' \cup CachedIn(cache')
  <2>1. ASSUME NEW u \in Units
        PROVE  u \in pending \cup CachedIn(cache')
    <3>1. u[1] \in Modules /\ cache[u[1]] # None /\ (u \in pending \/ cache[u[1]] = u)
      BY UnitFacts DEF Owned
    <3>2. Extension(cache[u[1]]) # plugin /\ cache[u[1]] = u => u \in pending
      BY <1>6 DEF OthersPending
    <3>3. u \in pending \/ cache'[u[1]] = u
      BY <1>14, <3>1, <3>2
    <3>4. QED BY <1>6, <3>1, <3>3 DEF CachedIn
  <2>2. ASSUME NEW u \in new
        PROVE  u \in CachedIn(cache')
    BY <1>6, <1>10, <1>stored DEF CachedIn
  <2>3. QED BY <2>1, <2>2
<1>whole. unit' = all
  <2>1. PICK D : D = Units \cup new
    OBVIOUS
  <2>2. PICK owned : owned = pending \cup working' \cup CachedIn(cache')
    OBVIOUS
  <2>3. all \in [D -> UnitRecord(D)]
    <3>1. all = [u \in D |-> all[u]]
      BY <1>all, <2>1
    <3>2. \A u \in D : all[u] \in UnitRecord(D)
      BY <1>a12, <1>a13, <2>1
    <3>3. QED BY <3>1, <3>2
  <2>4. QED BY <1>5, <1>owned, <2>1, <2>2, <2>3, KeptAll
<1>11. \A u : u \in Units' <=> u \in Units \/ u \in new
  BY <1>all, <1>whole DEF Units
<1>same. Units' = Units \cup new
  BY <1>11
<1>12. ASSUME NEW u \in Units
       PROVE  /\ unit'[u].extension = unit[u].extension /\ unit'[u].resolved = unit[u].resolved
              /\ unit'[u].required = unit[u].required
              /\ (u \in working => unit'[u].dependencies = Linked(u))
              /\ (u \notin working => unit'[u].dependencies = unit[u].dependencies)
              /\ unit'[u] \in UnitRecord(Units')
  BY <1>a12, <1>whole, <1>same
<1>13. ASSUME NEW u \in new
       PROVE  /\ unit'[u].extension = plugin /\ unit'[u].dependencies = {} /\ ~unit'[u].resolved
              /\ unit'[u] \in UnitRecord(Units')
  BY <1>a13, <1>whole, <1>same
<1>15. /\ \A u \in Units : Extension(u)' = Extension(u) /\ (Resolved(u)' <=> Resolved(u))
       /\ \A u \in new : Extension(u)' = plugin /\ ~Resolved(u)'
  BY <1>12, <1>13 DEF Extension, Resolved
<1>16. \A d \in linked : d \in Units' /\ Extension(d)' = plugin
  BY <1>9, <1>10, <1>11, <1>15
<1>17. UnitsTyped'
  <2>1. unit' \in [Units' -> UnitRecord(Units')]
    <3>1. unit' = [u \in Units' |-> unit'[u]]
      BY <1>all, <1>whole, <1>same
    <3>2. \A u \in Units' : unit'[u] \in UnitRecord(Units')
      BY <1>11, <1>12, <1>13
    <3>3. QED BY <3>1, <3>2
  <2>2. cache' \in [Modules -> Units' \cup {None}]
    <3>1. cache' = [m \in Modules |-> cache'[m]]
      BY <1>5
    <3>2. \A m \in Modules : cache'[m] \in Units' \cup {None}
      <4>1. \A m \in Modules : cache[m] \in Units \cup {None}
        BY DEF UnitsTyped
      <4>2. QED BY <1>11, <1>14, <4>1
    <3>3. QED BY <3>1, <3>2
  <2>3. \A m \in Modules : cache'[m] # None => cache'[m][1] = m
    BY <1>14 DEF UnitsTyped
  <2>4. Units' \subseteq Modules \X Extensions
    <3>1. \A d \in new : d \in Modules \X Extensions
      BY <1>6, <1>10, <1>named
    <3>2. QED BY <1>11, <3>1 DEF UnitsTyped
  <2>5. QED BY <1>6, <2>1, <2>2, <2>3, <2>4 DEF UnitsTyped
<1>18. OthersTyped' /\ InputsFirst'
  <2>1. working' \subseteq Units'
    BY <1>2, <1>5, <1>7, <1>11, <1>16
  <2>2. round' \in 0 .. MaxRounds /\ (stage' # "failed" => round' < MaxRounds) /\ stage' \in {"rounds", "resolved", "failed"}
    BY <1>5, ProjectsAssumption DEF OthersTyped
  <2>3. OthersTyped'
    BY <1>5, <1>6, <1>11, <2>1, <2>2 DEF OthersTyped, Stages
  <2>4. InputsFirst'
    BY <1>5, <1>6, <2>2 DEF InputsFirst
  <2>5. QED BY <2>3, <2>4
<1>19. PendingByPath'
  <2>1. pending \subseteq Units
    BY DEF OthersTyped
  <2>2. \A u \in pending : unit'[u].required = unit[u].required
    BY <1>12, <2>1
  <2>3. project' = project /\ pending' = pending /\ paths' = paths
    BY <1>5
  <2>4. QED BY <2>2, <2>3 DEF PendingByPath
<1>20. Owned'
  <2>1. ASSUME NEW u \in Units
        PROVE  cache'[u[1]] # None /\ (u \in pending \/ cache'[u[1]] = u)
    <3>1. u[1] \in Modules /\ cache[u[1]] # None /\ (u \in pending \/ cache[u[1]] = u)
      BY UnitFacts DEF Owned
    <3>2. Extension(cache[u[1]]) # plugin /\ cache[u[1]] = u => u \in pending
      BY <1>6 DEF OthersPending
    <3>3. QED BY <1>14, <3>1, <3>2
  <2>2. \A u \in new : cache'[u[1]] = u /\ u # None
    BY <1>stored
  <2>3. QED BY <1>5, <1>11, <2>1, <2>2 DEF Owned
<1>21. OthersPending' /\ ParsedFor'
  <2>1. stage' # "inputs"
    BY <1>5
  <2>2. \A u \in Units' : Extension(u)' # plugin => u \in pending
    BY <1>6, <1>11, <1>15 DEF OthersPending
  <2>3. \A u \in Units' : Extension(u)' # u[2] => u[2] = "spicy" /\ plugin # "spicy"
    BY <1>10, <1>11, <1>15 DEF ParsedFor
  <2>4. QED BY <1>5, <2>1, <2>2, <2>3 DEF OthersPending, ParsedFor
<1>22. CachedForPlugin'
  <2>1. ASSUME NEW u \in Units, u[2] = plugin
        PROVE  cache'[u[1]] = cache[u[1]] /\ cache[u[1]] \in Units
    <3>1. u = <<u[1], plugin>> /\ u[1] \in Modules /\ cache[u[1]] \in Units
      BY <2>1, UnitFacts DEF Owned, UnitsTyped
    <3>2. <<u[1], plugin>> \notin new
      BY <1>10, <3>1
    <3>3. cache'[u[1]] = IF <<u[1], plugin>> \in new THEN <<u[1], plugin>> ELSE cache[u[1]]
      BY <1>5, <3>1
    <3>4. QED BY <3>1, <3>2, <3>3
  <2>2. \A u \in Units : plugin = "spicy" /\ u[2] = "spicy" => cache'[u[1]] = u
    BY <2>1 DEF CachedForPlugin
  <2>3. \A u \in Units : plugin = "hlt" /\ u[2] = "hlt" => Extension(cache[u[1]])' = "hlt"
    <3>1. \A u \in Units : plugin = "hlt" /\ u[2] = "hlt" => unit'[cache'[u[1]]].extension = "hlt"
      BY <1>12, <2>1 DEF CachedForPlugin, Extension
    <3>2. QED BY <3>1 DEF Extension
  <2>4. \A u \in new : cache'[u[1]] = u /\ unit'[cache'[u[1]]].extension = plugin
    BY <1>stored, <1>13
  <2>5. \A u \in new : cache'[u[1]] = u /\ Extension(cache[u[1]])' = plugin
    BY <2>4 DEF Extension
  <2>6. QED BY <1>5, <1>11, <2>2, <2>3, <2>5 DEF CachedForPlugin
<1>23. SpicyReached'
  <2>1. SUFFICES ASSUME plugin = "spicy", NEW us, UnitsClosed(us)', SpicyUnits(pending)' \subseteq us
                 PROVE  SpicyUnits(Units)' \subseteq us
    BY <1>5 DEF SpicyReached
  <2>2. us \subseteq Units' /\ \A u \in us : unit'[u].dependencies \subseteq us
    <3>1. None \notin Units'
      BY <1>11, <1>named, NoneIsNoUnit
    <3>2. \A u \in Units' : unit'[u].dependencies \subseteq Units'
      BY <1>11, <1>12, <1>13
    <3>3. QED BY <2>1, <3>1, <3>2 DEF UnitsClosed
  <2>3. UnitsClosed(us \cap Units)
    <3>1. ASSUME NEW u \in us \cap Units
          PROVE  unit[u].dependencies \subseteq us \cap Units
      <4>1. unit[u].dependencies \subseteq Units
        BY UnitFacts
      <4>kept. unit[u].dependencies \subseteq unit'[u].dependencies
        <5>1. CASE u \in working
          BY <1>8, <1>12, <5>1
        <5>2. CASE u \notin working
          BY <1>12, <5>2
        <5>3. QED BY <5>1, <5>2
      <4>2. QED BY <2>2, <4>1, <4>kept
    <3>2. QED BY <3>1, NoneIsNoUnit
  <2>4. SpicyUnits(pending) \subseteq us \cap Units
    <3>1. pending \subseteq Units
      BY DEF OthersTyped
    <3>2. QED BY <1>5, <1>15, <2>1, <3>1 DEF SpicyUnits
  <2>5. SpicyUnits(Units) \subseteq us
    BY <2>1, <2>3, <2>4 DEF SpicyReached
  <2>6. working \subseteq us
    BY <1>7, <2>1, <2>5 DEF SpicyUnits
  <2>7. linked \subseteq us
    <3>1. \A u \in working : Linked(u) \subseteq us
      BY <1>7, <1>12, <2>2, <2>6
    <3>2. QED BY <1>1, <3>1
  <2>8. new \subseteq us
    BY <1>3, <2>7
  <2>9. QED BY <1>11, <1>15, <2>5, <2>8 DEF SpicyUnits
<1>24. SameExtension'
  <2>1. ASSUME NEW u \in Units', NEW d \in unit'[u].dependencies
        PROVE  Extension(d)' = Extension(u)'
    <3>1. CASE u \in working
      <4>1. d \in linked
        BY <1>7, <1>10, <1>12, <2>1, <3>1
      <4>2. QED BY <1>7, <1>15, <1>16, <3>1, <4>1
    <3>2. CASE u \in Units \ working
      <4>1. d \in unit[u].dependencies /\ d \in Units
        BY <1>12, <2>1, <3>2, UnitFacts
      <4>2. QED BY <1>15, <3>2, <4>1 DEF SameExtension
    <3>3. CASE u \in new
      BY <1>13, <2>1, <3>3
    <3>4. QED BY <1>11, <2>1, <3>1, <3>2, <3>3
  <2>2. QED BY <2>1 DEF SameExtension
<1>25. WorkedOn'
  <2>1. \A u \in working' : Extension(u)' = plugin /\ ~Resolved(u)'
    <3>1. \A u \in found : u \in linked /\ ~Resolved(u)'
      BY <1>2, <1>10, <1>15
    <3>2. QED BY <1>5, <1>7, <1>15, <1>16, <3>1
  <2>2. ASSUME stage' = "resolved", NEW u \in working'
        PROVE  ImportsLinked(u)' /\ \A d \in unit'[u].dependencies : d \in working' \/ Resolved(d)'
    <3>1. found = {} /\ u \in working
      BY <1>4, <1>5, <2>2
    <3>2. unit'[u].dependencies = Linked(u)
      BY <1>7, <1>12, <3>1
    <3>3. \A m \in Imports(u[1]) : \E d \in unit'[u].dependencies : d[1] = m
      BY <1>8, <3>1, <3>2
    <3>4. ImportsLinked(u)'
      BY <1>5, <3>3 DEF ImportsLinked, Imports
    <3>5. \A d \in Linked(u) : d \in working \/ (d \in Units /\ Resolved(d))
      BY <1>2, <1>10, <3>1
    <3>6. QED BY <1>5, <1>15, <3>2, <3>4, <3>5
  <2>3. QED BY <1>5, <2>1, <2>2 DEF WorkedOn
<1>26. ResolvedWhole' /\ CompiledPending'
  <2>1. ASSUME NEW u \in Units', Resolved(u)'
        PROVE  /\ ImportsLinked(u)' /\ \A d \in unit'[u].dependencies : Resolved(d)'
               /\ project.execute => \A d \in unit'[u].dependencies : d[1] \in paths
    <3>1. u \in Units /\ Resolved(u) /\ u \notin working
      BY <1>7, <1>11, <1>15, <2>1
    <3>2. unit'[u].dependencies = unit[u].dependencies /\ unit[u].dependencies \subseteq Units
      BY <1>12, <3>1, UnitFacts
    <3>3. ImportsLinked(u)' = ImportsLinked(u)
      BY <1>5, <3>2 DEF ImportsLinked, Imports
    <3>4. QED BY <1>5, <1>15, <3>1, <3>2, <3>3 DEF ResolvedWhole
  <2>2. ResolvedWhole'
    BY <1>5, <2>1 DEF ResolvedWhole
  <2>3. CompiledPending'
    BY <1>5 DEF CompiledPending
  <2>4. QED BY <2>2, <2>3
<1>27. QED
  BY <1>5, <1>17, <1>18, <1>19, <1>20, <1>21, <1>22, <1>23, <1>24, <1>25, <1>26
\* The variables keep their types, whatever is given up.
LEMMA DriverTypedStays == DriverTyped /\ CompilationNext => DriverTyped'
<1> SUFFICES ASSUME DriverTyped, CompilationNext
             PROVE  DriverTyped'
  OBVIOUS
<1> USE DEF DriverTyped
<1>extensions. Extensions \subseteq Kinds /\ \A m \in Modules : project.language[m] \in Extensions
  BY ProjectsAssumption DEF Modules, Extensions, Kinds
<1>inputs. project.inputs \subseteq Modules /\ None \notin Modules \X Kinds
  BY ProjectsAssumption DEF Modules, Kinds
<1>none. None \notin Units /\ None \notin Extensions /\ \A u \in Units : u[1] \in Modules
  BY <1>inputs, ProjectsAssumption DEF Extensions
<1>added. ASSUME NEW m \in Modules, Added(m), project' = project, working' = working, hlts' = hlts,
                 late' \subseteq late, plugin' = plugin, round' = round, stage' = stage
          PROVE  DriverTyped'
  <2>1. CASE m \in paths
    <3>1. unit' = unit /\ cache' = cache /\ pending' = pending
      BY <1>added, <2>1 DEF Added
    <3>2. QED BY <1>added, <3>1 DEF Units, Modules
  <2>2. CASE m \notin paths
    <3>1. PICK lang : lang = project.language[m]
      OBVIOUS
    <3>2. PICK cached : cached = Cached(m, lang)
      OBVIOUS
    <3>3. PICK u : u = IF cached # None THEN cached ELSE IF cache[m] = None THEN <<m, lang>> ELSE <<m, "late">>
      OBVIOUS
    <3>4. PICK all : all = [v \in Units \cup {u} |->
                              IF v # u THEN unit[v]
                              ELSE IF cached = None THEN NewUnit(lang, TRUE) ELSE [unit[v] EXCEPT !.required = TRUE]]
      OBVIOUS
    <3>5. PICK owned : owned = pending' \cup working \cup CachedIn(cache')
      OBVIOUS
    <3>6. cache' = [cache EXCEPT ![m] = u] /\ pending' = pending \cup {u} /\ unit' = Kept(all, owned)
      BY <1>added, <2>2, <3>1, <3>2, <3>3, <3>4, <3>5 DEF Added
    <3>7. /\ cached # None => u \in Units
          /\ u \in Modules \X Kinds /\ u # None
      <4>1. cached # None => cached \in Units
        BY <3>2 DEF Cached
      <4>2. <<m, lang>> \in Modules \X Kinds /\ <<m, "late">> \in Modules \X Kinds
        BY <1>extensions, <3>1 DEF Kinds
      <4>3. u \in Modules \X Kinds
        BY <3>3, <4>1, <4>2
      <4>4. QED BY <1>inputs, <3>3, <4>1, <4>3
    <3>8. PICK D : D = Units \cup {u}
      OBVIOUS
    <3>9. all \in [D -> UnitRecord(D \cup {None})]
      <4>1. ASSUME NEW v \in Units
            PROVE  /\ unit[v] \in UnitRecord(D \cup {None})
                   /\ [unit[v] EXCEPT !.required = TRUE] \in UnitRecord(D \cup {None})
        <5>1. unit[v] \in UnitRecord(Units \cup {None})
          OBVIOUS
        <5>2. QED BY <3>8, <5>1
      <4>2. NewUnit(lang, TRUE) \in UnitRecord(D \cup {None})
        BY <1>extensions, <3>1 DEF NewUnit
      <4>3. QED BY <3>4, <3>7, <3>8, <4>1, <4>2
    <3>10. /\ Units' = D \cap owned
           /\ unit' \in [D \cap owned -> UnitRecord((D \cap owned) \cup {None})]
      BY <3>6, <3>9, KeptTyped DEF Units
    <3>11. pending' \cup working \subseteq D \cap owned /\ Modules' = Modules
      BY <1>added, <3>5, <3>6, <3>8 DEF Modules
    <3>12. cache' \in [Modules -> (D \cap owned) \cup {None}]
      <4>1. \A n \in Modules : cache'[n] \in D \cup {None}
        BY <3>6, <3>8
      <4>2. \A n \in Modules : cache'[n] \in owned
        BY <3>5, <3>11 DEF CachedIn
      <4>3. cache' = [n \in Modules |-> cache'[n]]
        BY <3>6
      <4>4. QED BY <4>1, <4>2, <4>3
    <3>13. D \cap owned \subseteq Modules \X Kinds
      BY <3>7, <3>8
    <3>14. pending' \cup working' \subseteq D \cap owned /\ hlts' \subseteq pending'
      BY <1>added, <3>6, <3>11
    <3>15. QED BY <1>added, <3>10, <3>11, <3>12, <3>13, <3>14
  <2>3. QED BY <2>1, <2>2
<1>kept. ASSUME project' = project, Units' = Units, unit' \in [Units -> UnitRecord(Units \cup {None})],
                cache' \in [Modules -> Units \cup {None}], pending' = pending, working' \subseteq Units,
                hlts' \subseteq pending, late' = late, plugin' \in Extensions \cup {None},
                stage' = "rounds" => plugin' # None, round' = round, stage' # "failed" => round < MaxRounds
         PROVE  DriverTyped'
  BY <1>kept DEF Modules
<1>1. CASE AddInput
  <2>1. PICK m \in project.inputs \ paths : Added(m)
    BY <1>1 DEF AddInput
  <2>2. QED BY <1>1, <1>inputs, <1>added, <2>1 DEF AddInput
<1>2. CASE Hook
  <2>1. PICK m \in late : Added(m) /\ late' = late \ {m}
    BY <1>2 DEF Hook
  <2>2. QED BY <1>2, <1>added, <2>1 DEF Hook
<1>3. CASE CompileUnits
  BY <1>3, <1>kept DEF CompileUnits, Units, Extensions
<1>4. CASE StartPlugin
  BY <1>4, <1>kept, UnitsForPluginFacts DEF StartPlugin, Units
<1>5. CASE EndRounds
  <2>1. unit' = [u \in Units |-> IF u \in working THEN [unit[u] EXCEPT !.resolved = TRUE] ELSE unit[u]]
    BY <1>5 DEF EndRounds, Changed
  <2>2. QED BY <1>5, <1>kept, <2>1 DEF EndRounds, Units
<1>6. CASE NextPlugin
  <2>1. CASE plugin = "spicy"
    <3>1. unit' = [u \in Units |-> IF u \in Transforming THEN [unit[u] EXCEPT !.extension = "hlt", !.resolved = FALSE]
                                    ELSE unit[u]]
      BY <1>6, <2>1 DEF NextPlugin, Changed
    <3>2. Transforming \subseteq Units
      BY UnitsForPluginFacts DEF Transforming
    <3>3. cache' \in [Modules -> Units \cup {None}]
      BY <1>6, <2>1, <3>2 DEF NextPlugin
    <3>4. unit' \in [Units -> UnitRecord(Units \cup {None})]
      BY <3>1 DEF Extensions
    <3>5. QED BY <1>6, <1>kept, <2>1, <3>1, <3>3, <3>4 DEF NextPlugin, Units, Extensions
  <2>2. CASE plugin # "spicy"
    BY <1>6, <1>kept, <2>2 DEF NextPlugin, Units
  <2>3. QED BY <2>1, <2>2
<1>7. CASE CodegenUnits
  BY <1>7, <1>kept DEF CodegenUnits, Units
<1>8. CASE FollowExpired
  BY <1>8, <1>kept DEF FollowExpired, Units
<1>9. CASE AddDependencies
  <2>1. PICK owned : owned = pending' \cup CachedIn(cache)
    OBVIOUS
  <2>2. /\ unit' = Kept(unit, owned) /\ working' = {} /\ stage' = "plugin"
        /\ project' = project /\ cache' = cache /\ plugin' = plugin /\ round' = round /\ hlts' = hlts /\ late' = late
        /\ stage = "hook"
    BY <1>9, <2>1 DEF AddDependencies
  <2>3. PICK D : D = Units
    OBVIOUS
  <2>4. /\ Units' = D \cap owned
        /\ unit' \in [D \cap owned -> UnitRecord((D \cap owned) \cup {None})]
    BY <2>2, <2>3, KeptTyped DEF Units
  <2>5. pending \subseteq pending' /\ pending' \subseteq Units
    <3>1. CASE project.execute
      <4>1. Joining \subseteq Units
        <5>1. \A u \in working : unit[u].dependencies \subseteq Units
          BY <1>9, <3>1 DEF AddDependencies, Expired
        <5>2. QED BY <5>1 DEF Joining
      <4>2. pending' = pending \cup {u \in Joining : u[1] \notin paths}
        BY <1>9, <3>1 DEF AddDependencies
      <4>3. QED BY <4>1, <4>2
    <3>2. CASE ~project.execute
      BY <1>9, <3>2 DEF AddDependencies
    <3>3. QED BY <3>1, <3>2
  <2>6. pending' \subseteq D \cap owned
    BY <2>1, <2>3, <2>5
  <2>7. cache' \in [Modules -> (D \cap owned) \cup {None}]
    <3>1. \A m \in Modules : cache[m] \in owned /\ cache[m] \in D \cup {None}
      BY <2>1, <2>3 DEF CachedIn
    <3>2. QED BY <2>2, <3>1
  <2>8. Modules' = Modules /\ D \cap owned \subseteq Modules \X Kinds
    BY <2>2, <2>3 DEF Modules
  <2>9. hlts' \subseteq pending'
    BY <2>2, <2>5
  <2>10. QED BY <2>2, <2>4, <2>6, <2>7, <2>8, <2>9
<1>10. CASE Round
  <2>1. PICK linked : linked = UNION {Linked(u) : u \in working}
    OBVIOUS
  <2>2. PICK found : found = {d \in linked : d \in Units => ~Resolved(d)} \ working
    OBVIOUS
  <2>3. PICK new : new = linked \ Units
    OBVIOUS
  <2>4. PICK all : all = [u \in Units \cup new |->
                            IF u \in new THEN NewUnit(plugin, FALSE)
                            ELSE IF u \in working THEN [unit[u] EXCEPT !.dependencies = Linked(u)]
                            ELSE unit[u]]
    OBVIOUS
  <2>5. PICK owned : owned = pending \cup working' \cup CachedIn(cache')
    OBVIOUS
  <2>6. PICK again \in BOOLEAN : again <=> found # {} \/ \E u \in working : Linked(u) # unit[u].dependencies
    OBVIOUS
  <2>7. /\ project' = project /\ pending' = pending /\ plugin' = plugin /\ hlts' = hlts /\ late' = late
        /\ stage = "rounds" /\ ~Expired(working)
        /\ cache' = [m \in Modules |-> IF <<m, plugin>> \in new THEN <<m, plugin>> ELSE cache[m]]
        /\ working' = working \cup found
        /\ unit' = Kept(all, owned)
        /\ round' = round + (IF again THEN 1 ELSE 0)
        /\ stage' = IF ~again THEN "resolved" ELSE IF round + 1 >= MaxRounds THEN "failed" ELSE "rounds"
    BY <1>10, <2>1, <2>2, <2>3, <2>4, <2>5, <2>6 DEF Round
  <2>8. plugin \in Extensions
    BY <2>7
  <2>9. PICK D : D = Units \cup new
    OBVIOUS
  <2>10. ASSUME NEW u \in working
         PROVE  Linked(u) \subseteq D /\ \A d \in Linked(u) : d \in Units \/ d \in Modules \X Kinds
    <3>1. u \in Units /\ unit[u].dependencies \subseteq Units
      BY <2>7 DEF Expired
    <3>2. Imports(u[1]) \subseteq Modules
      BY <1>none, <3>1, ProjectsAssumption DEF Modules, Imports
    <3>3. \A m \in Modules : Imported(m) \in Units \/ Imported(m) = <<m, plugin>>
      BY DEF Imported, Cached
    <3>4. \A d \in Linked(u) : d \in unit[u].dependencies \/ \E m \in Modules : d = Imported(m)
      BY <3>2 DEF Linked
    <3>5. \A d \in Linked(u) : d \in Units \/ d \in Modules \X Kinds
      BY <1>extensions, <2>8, <3>1, <3>3, <3>4
    <3>6. QED BY <2>1, <2>3, <2>9, <3>5
  <2>11. \A d \in D : d \in Modules \X Kinds
    BY <2>1, <2>3, <2>9, <2>10
  <2>12. all \in [D -> UnitRecord(D \cup {None})]
    <3>1. ASSUME NEW u \in Units
          PROVE  /\ unit[u] \in UnitRecord(D \cup {None})
                 /\ u \in working => [unit[u] EXCEPT !.dependencies = Linked(u)] \in UnitRecord(D \cup {None})
      <4>1. unit[u] \in UnitRecord(Units \cup {None})
        OBVIOUS
      <4>2. QED BY <2>9, <2>10, <4>1
    <3>2. NewUnit(plugin, FALSE) \in UnitRecord(D \cup {None})
      BY <2>8 DEF NewUnit
    <3>3. QED BY <2>4, <2>9, <3>1, <3>2
  <2>13. /\ Units' = D \cap owned
         /\ unit' \in [D \cap owned -> UnitRecord((D \cap owned) \cup {None})]
    BY <2>7, <2>12, KeptTyped DEF Units
  <2>14. working' \subseteq D
    BY <2>1, <2>2, <2>3, <2>7, <2>9
  <2>15. pending' \cup working' \subseteq D \cap owned
    BY <2>5, <2>7, <2>9, <2>14
  <2>16. Modules' = Modules
    BY <2>7 DEF Modules
  <2>17. cache' \in [Modules -> (D \cap owned) \cup {None}]
    <3>1. \A m \in Modules : cache'[m] \in owned
      BY <2>5, <2>16 DEF CachedIn
    <3>2. \A m \in Modules : cache'[m] \in D \cup {None}
      BY <2>7, <2>9
    <3>3. cache' = [m \in Modules |-> cache'[m]]
      BY <2>7
    <3>4. QED BY <3>1, <3>2, <3>3
  <2>18. round' \in 0 .. MaxRounds /\ (stage' # "failed" => round' < MaxRounds)
    BY <2>7, ProjectsAssumption
  <2>19. D \cap owned \subseteq Modules \X Kinds
    BY <2>11
  <2>20. plugin' # None
    BY <1>none, <2>7, <2>8
  <2>21. QED BY <2>7, <2>13, <2>15, <2>16, <2>17, <2>18, <2>19, <2>20
<1>11. QED
  BY <1>1, <1>2, <1>3, <1>4, <1>5, <1>6, <1>7, <1>8, <1>9, <1>10 DEF CompilationNext

\* Nothing is given up but for an input added late: the invariant of the driver.
DriverIInv == DriverTyped /\ (replaced = {} => CompilationIInv)
LEMMA CompilationStays == CompilationSpec => []DriverIInv
<1>1. CompilationIInv /\ UNCHANGED compilationVars => CompilationIInv'
  <2> SUFFICES ASSUME CompilationIInv, UNCHANGED compilationVars
               PROVE  CompilationIInv'
    OBVIOUS
  <2>1. /\ project' = project /\ unit' = unit /\ cache' = cache /\ pending' = pending /\ paths' = paths
        /\ plugin' = plugin /\ working' = working /\ round' = round /\ stage' = stage /\ hlts' = hlts /\ late' = late
    BY DEF compilationVars
  <2>2. UnitsTyped' /\ OthersTyped' /\ SameExtension' /\ InputsFirst' /\ PendingByPath'
    BY <2>1, SameUnits DEF CompilationIInv, OthersTyped, InputsFirst, PendingByPath
  <2>3. Owned' /\ OthersPending' /\ ParsedFor' /\ CachedForPlugin'
    BY <2>1, SameUnits DEF CompilationIInv, Owned, OthersPending, ParsedFor, CachedForPlugin
  <2>4. SpicyReached'
    BY <2>1, SameUnits DEF CompilationIInv, SpicyReached, SpicyUnits
  <2>5. WorkedOn' /\ ResolvedWhole' /\ CompiledPending'
    BY <2>1, SameUnits DEF CompilationIInv, WorkedOn, ResolvedWhole, CompiledPending, RequiresCompilation
  <2>6. QED BY <2>1, <2>2, <2>3, <2>4, <2>5 DEF CompilationIInv
<1>2. DriverTyped /\ UNCHANGED compilationVars => DriverTyped'
  BY DEF DriverTyped, compilationVars, Units, Modules
<1>3. ASSUME CompilationNext
      PROVE  replaced' = {} => replaced = {}
  <2>1. \A m : Added(m) => replaced \subseteq replaced'
    BY DEF Added
  <2>2. AddInput \/ Hook => replaced \subseteq replaced'
    BY <2>1 DEF AddInput, Hook
  <2>3. CompileUnits \/ StartPlugin \/ Round \/ EndRounds \/ AddDependencies \/ NextPlugin \/ CodegenUnits \/ FollowExpired
          => replaced' = replaced
    BY DEF CompileUnits, StartPlugin, Round, EndRounds, AddDependencies, NextPlugin, CodegenUnits, FollowExpired
  <2>4. QED BY <1>3, <2>2, <2>3 DEF CompilationNext
<1>4. ASSUME CompilationIInv
      PROVE  ~FollowExpired
  <2>1. working \in SUBSET Units
    BY <1>4 DEF CompilationIInv, OthersTyped
  <2>2. UnitsFollowed(TRUE) \in SUBSET Units /\ UnitsFollowed(FALSE) \in SUBSET Units
    BY <1>4, NoneIsNoUnit, UnitsForPluginFacts
  <2>3. QED BY <1>4, <2>1, <2>2, NoneIsNoUnit DEF FollowExpired
<1>5. DriverIInv /\ CompilationNext => DriverIInv'
  <2> SUFFICES ASSUME DriverIInv, CompilationNext, replaced' = {}
               PROVE  CompilationIInv'
    BY DriverTypedStays DEF DriverIInv
  <2>1. CompilationIInv /\ replaced = {}
    BY <1>3 DEF DriverIInv
  <2>2. QED
    BY <1>4, <2>1, AddInputKeeps, CompileUnitsKeeps, StartPluginKeeps, RoundKeeps, EndRoundsKeeps, HookKeeps,
       AddDependenciesKeeps, NextPluginKeeps, CodegenUnitsKeeps
       DEF CompilationNext
<1>6. DriverIInv /\ UNCHANGED compilationVars => DriverIInv'
  BY <1>1, <1>2 DEF DriverIInv, compilationVars
<1>7. CompilationInit => DriverIInv
  BY CompilationInit_IInv, NoneIsNoUnit DEF DriverIInv
<1>8. QED BY <1>5, <1>6, <1>7, PTL DEF CompilationSpec

\* For every project and whatever is added late: unless that takes the place of a
\* unit that others have imported, the units that the inputs depend on stay alive,
\* all that code generation looks at is resolved HILTI, and every module that is
\* needed has its code generated, once.
THEOREM CompilationIsComplete == CompilationSpec => []UnitsCompiled
<1>ok. ASSUME DriverTyped
       PROVE  UnitsOK
  <2> USE <1>ok DEF DriverTyped
  <2>1. \A u \in Units : u[1] \in Modules /\ unit[u].dependencies \subseteq Units \cup {None}
    OBVIOUS
  <2>2. QED BY <2>1 DEF UnitsOK, Extensions
<1>1. ASSUME CompilationIInv
      PROVE  DependenciesAlive /\ AllResolved /\ CodeForAll
  <2> USE <1>1 DEF CompilationIInv
  <2>2. DependenciesAlive
    <3>1. Dependencies[pending] \in SUBSET Units
      BY NoneIsNoUnit, FiniteUnits DEF OthersTyped
    <3>2. stage # "crashed"
      BY DEF OthersTyped, Stages
    <3>3. QED BY <3>1, <3>2, NoneIsNoUnit DEF DependenciesAlive
  <2>3. AllResolved
    <3>1. SUFFICES ASSUME stage = "compiled"
                   PROVE  \A u \in Dependencies[pending] : Extension(u) = "hlt" /\ Resolved(u)
      BY DEF AllResolved
    <3> DEFINE us == {u \in Units : Extension(u) = "hlt" /\ Resolved(u)}
    <3>2. UnitsClosed(us)
      <4>1. \A u \in us : \A d \in unit[u].dependencies : d \in Units /\ Extension(d) = "hlt" /\ Resolved(d)
        BY UnitFacts DEF SameExtension, ResolvedWhole
      <4>2. QED BY <4>1 DEF UnitsClosed
    <3>3. pending \in SUBSET Units /\ pending \subseteq us
      BY <3>1 DEF OthersTyped, CompiledPending
    <3>4. Dependencies[pending] \subseteq us
      BY <3>2, <3>3, NoneIsNoUnit, FiniteUnits, DependenciesFacts
    <3>5. QED BY <3>4
  <2>4. CodeForAll
    <3>1. SUFFICES ASSUME stage = "compiled"
                   PROVE  /\ \A u, v \in hlts : u[1] = v[1] => u = v
                          /\ project.inputs \subseteq {u[1] : u \in hlts}
                          /\ project.execute => Needed \cap project.withCode \subseteq {u[1] : u \in hlts}
      BY DEF CodeForAll
    <3>2. /\ hlts = {u \in pending : RequiresCompilation(u)}
          /\ \A u \in pending : Resolved(u) /\ u \in Units
          /\ project.inputs \subseteq paths
      BY <3>1 DEF CompiledPending, InputsFirst, OthersTyped
    <3>3. \A u, v \in hlts : u[1] = v[1] => u = v
      BY <3>2 DEF PendingByPath
    <3>4. project.inputs \subseteq {u[1] : u \in hlts}
      <4>1. ASSUME NEW m \in project.inputs
            PROVE  \E u \in hlts : u[1] = m
        <5>1. PICK u \in pending : u[1] = m
          BY <3>2 DEF PendingByPath
        <5>2. RequiresCompilation(u)
          BY <5>1 DEF PendingByPath, RequiresCompilation
        <5>3. QED BY <3>2, <5>1, <5>2
      <4>2. QED BY <4>1
    <3>5. ASSUME project.execute
          PROVE  Needed \cap project.withCode \subseteq {u[1] : u \in hlts}
      <4>1. paths \in SUBSET Modules
        BY DEF OthersTyped
      <4>2. ImportsClosed(paths)
        <5>1. ASSUME NEW m \in paths, NEW n \in Imports(m)
              PROVE  n \in paths
          <6>1. PICK u \in pending : u[1] = m
            BY DEF PendingByPath
          <6>2. PICK d \in unit[u].dependencies : d[1] = n
            BY <3>2, <5>1, <6>1 DEF ResolvedWhole, ImportsLinked
          <6>3. QED BY <3>1, <3>2, <3>5, <6>1, <6>2 DEF ResolvedWhole
        <5>2. QED BY <5>1 DEF ImportsClosed
      <4>3. Needed \subseteq paths
        BY <3>2, <4>1, <4>2 DEF Needed
      <4>4. ASSUME NEW m \in Needed \cap project.withCode
            PROVE  \E u \in hlts : u[1] = m
        <5>1. PICK u \in pending : u[1] = m
          BY <4>3 DEF PendingByPath
        <5>2. QED BY <3>2, <5>1 DEF RequiresCompilation
      <4>5. QED BY <4>4
    <3>6. QED BY <3>3, <3>4, <3>5
  <2>5. QED BY <2>2, <2>3, <2>4
<1>2. DriverIInv => UnitsCompiled
  BY <1>ok, <1>1 DEF DriverIInv, UnitsCompiled
<1>3. QED BY <1>2, CompilationStays, PTL

(******************************* Grammars **********************************)

\* Before the first pass there is nothing in the tables.
EmptyAtFirst ==
  phase = "simplify" => \A n \in Nonterminals : ~nullable[n] /\ first[n] = {} /\ follow[n] = {}
\* A place that a pass has looked at without changing anything so far needs no
\* change.
VisitedClosed ==
  phase = "tables" /\ ~changed => \A s \in Sites \ unvisited : ClosedAt(nullable, first, follow, s)
\* The look-aheads are those of the tables.
LookAheadsBuilt ==
  phase \in {"check", "done"} =>
    lahs = [n \in grammar.lookAhead \cap nterms |-> [a \in 1 .. 2 |-> LookAheads(Rhss(n)[a][1], n)]]

\* The parts are put together by their names, and opened where they are needed.
GrammarIInv ==
  /\ GrammarOK /\ EmptyAtFirst /\ VisitedClosed /\ TablesClosed /\ TablesLeast
  /\ LookAheadsBuilt /\ VerdictRight

\* What a place of the grammar has around it.
LEMMA SiteOfGrammar ==
  ASSUME grammar \in Grammars, nterms \subseteq Nonterminals, NEW s \in Sites
  PROVE  /\ s[1] \in Nonterminals /\ Rhss(s[1])[s[2]] \in Seq(Symbols)
         /\ s[3] \in {0} \cup DOMAIN Rhss(s[1])[s[2]]
         /\ s[3] # 0 => Rhss(s[1])[s[2]][s[3]] \in Symbols
<1>1. PICK n \in nterms : \E k \in DOMAIN Rhss(n) : \E i \in {0} \cup DOMAIN Rhss(n)[k] : s = <<n, k, i>>
  BY DEF Sites
<1>2. PICK k \in DOMAIN Rhss(n) : \E j \in {0} \cup DOMAIN Rhss(n)[k] : s = <<n, k, j>>
  BY <1>1
<1> PICK i \in {0} \cup DOMAIN Rhss(n)[k] : s = <<n, k, i>>
  BY <1>2
<1>3. Rhss(n) \in Seq(Seq(Symbols))
  BY GrammarsAssumption DEF Rhss
<1>4. Rhss(n)[k] \in Seq(Symbols)
  BY <1>2, <1>3
<1>5. i # 0 => Rhss(n)[k][i] \in Symbols
  BY <1>2, <1>4
<1>6. QED BY <1>1, <1>2, <1>4, <1>5

\* FIRST of a symbol consists of terminals.
LEMMA FirstTyped ==
  ASSUME NEW F \in [Nonterminals -> SUBSET Terminals], NEW x \in Symbols
  PROVE  GetFirst(F, x) \subseteq Terminals
BY GrammarsAssumption DEF GetFirst, Symbols

\* What a place adds consists of terminals.
LEMMA NewTyped ==
  ASSUME grammar \in Grammars, nterms \subseteq Nonterminals, NEW s \in Sites,
         NEW N \in [Nonterminals -> BOOLEAN],
         NEW F \in [Nonterminals -> SUBSET Terminals], NEW W \in [Nonterminals -> SUBSET Terminals]
  PROVE  /\ NewNullable(N, s) \in BOOLEAN
         /\ s[3] # 0 => NewFirst(N, F, s) \subseteq Terminals /\ NewFollow(N, F, W, s) \subseteq Terminals
<1> DEFINE rhs == Rhss(s[1])[s[2]]
<1>1. /\ s[1] \in Nonterminals /\ rhs \in Seq(Symbols) /\ s[3] \in {0} \cup DOMAIN rhs
      /\ s[3] # 0 => rhs[s[3]] \in Symbols
  BY SiteOfGrammar
<1>2. NewNullable(N, s) \in BOOLEAN
  BY DEF NewNullable, NullableRange
<1>3. ASSUME s[3] # 0
      PROVE  NewFirst(N, F, s) \subseteq Terminals
  BY <1>1, <1>3, FirstTyped DEF NewFirst
<1>4. ASSUME s[3] # 0
      PROVE  NewFollow(N, F, W, s) \subseteq Terminals
  <2>1. \A j \in s[3] + 1 .. Len(rhs) : GetFirst(F, rhs[j]) \subseteq Terminals
    <3>1. \A j \in s[3] + 1 .. Len(rhs) : rhs[j] \in Symbols
      BY <1>1, <1>4
    <3>2. QED BY <3>1, FirstTyped
  <2>2. W[s[1]] \subseteq Terminals
    BY <1>1
  <2>3. QED BY <2>1, <2>2 DEF NewFollow
<1>5. QED BY <1>2, <1>3, <1>4

\* Larger sets make more nullable, and add more to FIRST and FOLLOW.
LEMMA NewMonotonic ==
  ASSUME grammar \in Grammars, nterms \subseteq Nonterminals, NEW s \in Sites,
         NEW N1, NEW N2, NEW F1, NEW F2, NEW W1, NEW W2,
         \A n \in Nonterminals : (N1[n] => N2[n]) /\ F1[n] \subseteq F2[n] /\ W1[n] \subseteq W2[n]
  PROVE  /\ NewNullable(N1, s) => NewNullable(N2, s)
         /\ s[3] # 0 => NewFirst(N1, F1, s) \subseteq NewFirst(N2, F2, s)
         /\ s[3] # 0 => NewFollow(N1, F1, W1, s) \subseteq NewFollow(N2, F2, W2, s)
<1> DEFINE rhs == Rhss(s[1])[s[2]]
<1>1. s[1] \in Nonterminals /\ rhs \in Seq(Symbols)
  BY SiteOfGrammar
<1>2. \A x : NullableSymbol(N1, x) => NullableSymbol(N2, x)
  BY DEF NullableSymbol
<1>3. \A x, i, j : NullableRange(N1, x, i, j) => NullableRange(N2, x, i, j)
  BY <1>2 DEF NullableRange
<1>4. \A x : GetFirst(F1, x) \subseteq GetFirst(F2, x)
  BY GrammarsAssumption DEF GetFirst
<1>5. NewNullable(N1, s) => NewNullable(N2, s)
  BY <1>3 DEF NewNullable
<1>6. NewFirst(N1, F1, s) \subseteq NewFirst(N2, F2, s)
  BY <1>3, <1>4 DEF NewFirst
<1>7. NewFollow(N1, F1, W1, s) \subseteq NewFollow(N2, F2, W2, s)
  <2>1. W1[s[1]] \subseteq W2[s[1]]
    BY <1>1
  <2>2. QED BY <1>3, <1>4, <2>1 DEF NewFollow
<1>8. QED BY <1>5, <1>6, <1>7

\* Looking at a place adds to three sets what it asks for; if that is nothing, the
\* place needed no change.
LEMMA VisitFacts ==
  ASSUME GrammarOK, Visit
  PROVE  \E s \in unvisited :
           /\ s \in Sites /\ unvisited' = unvisited \ {s}
           /\ s[3] = 0 =>
                /\ nullable' = [nullable EXCEPT ![s[1]] = @ \/ NewNullable(nullable, s)]
                /\ first' = first /\ follow' = follow
           /\ s[3] # 0 =>
                LET x == Rhss(s[1])[s[2]][s[3]]
                IN  /\ first' = [first EXCEPT ![s[1]] = @ \cup NewFirst(nullable, first, s)]
                    /\ follow' = IF x \in Nonterminals
                                   THEN [follow EXCEPT ![x] = @ \cup NewFollow(nullable, first', follow, s)]
                                   ELSE follow
                    /\ nullable' = nullable
BY DEF Visit, GrammarOK

\* A step of a pass keeps the tables' types.
LEMMA VisitTyped ==
  ASSUME GrammarOK, Visit
  PROVE  /\ nullable' \in [Nonterminals -> BOOLEAN]
         /\ first' \in [Nonterminals -> SUBSET Terminals] /\ follow' \in [Nonterminals -> SUBSET Terminals]
<1>1. PICK s \in unvisited :
           /\ s \in Sites
           /\ s[3] = 0 =>
                /\ nullable' = [nullable EXCEPT ![s[1]] = @ \/ NewNullable(nullable, s)]
                /\ first' = first /\ follow' = follow
           /\ s[3] # 0 =>
                LET x == Rhss(s[1])[s[2]][s[3]]
                IN  /\ first' = [first EXCEPT ![s[1]] = @ \cup NewFirst(nullable, first, s)]
                    /\ follow' = IF x \in Nonterminals
                                   THEN [follow EXCEPT ![x] = @ \cup NewFollow(nullable, first', follow, s)]
                                   ELSE follow
                    /\ nullable' = nullable
  BY VisitFacts
<1>2. grammar \in Grammars /\ nterms \subseteq Nonterminals
  BY DEF GrammarOK
<1>3. CASE s[3] = 0
  <2>1. NewNullable(nullable, s) \in BOOLEAN
    BY <1>1, <1>2, NewTyped DEF GrammarOK
  <2>2. QED BY <1>1, <1>3, <2>1 DEF GrammarOK
<1>4. CASE s[3] # 0
  <2>1. NewFirst(nullable, first, s) \subseteq Terminals
    BY <1>1, <1>2, <1>4, NewTyped DEF GrammarOK
  <2>2. first' \in [Nonterminals -> SUBSET Terminals]
    <3>1. first' = [first EXCEPT ![s[1]] = @ \cup NewFirst(nullable, first, s)]
      BY <1>1, <1>4
    <3>2. QED BY <2>1, <3>1 DEF GrammarOK
  <2>3. NewFollow(nullable, first', follow, s) \subseteq Terminals
    BY <1>1, <1>2, <1>4, <2>2, NewTyped DEF GrammarOK
  <2>4. follow' \in [Nonterminals -> SUBSET Terminals]
    <3> DEFINE x == Rhss(s[1])[s[2]][s[3]]
    <3>1. follow' = IF x \in Nonterminals
                      THEN [follow EXCEPT ![x] = @ \cup NewFollow(nullable, first', follow, s)]
                      ELSE follow
      BY <1>1, <1>4
    <3>2. QED BY <2>3, <3>1 DEF GrammarOK
  <2>5. QED BY <1>1, <1>4, <2>2, <2>4 DEF GrammarOK
<1>5. QED BY <1>3, <1>4

\* A pass never goes beyond sets that satisfy the equations.
LEMMA VisitLeast ==
  ASSUME GrammarOK, TablesLeast, Visit
  PROVE  TablesLeast'
<1>1. PICK s \in unvisited :
           /\ s \in Sites
           /\ s[3] = 0 =>
                /\ nullable' = [nullable EXCEPT ![s[1]] = @ \/ NewNullable(nullable, s)]
                /\ first' = first /\ follow' = follow
           /\ s[3] # 0 =>
                LET x == Rhss(s[1])[s[2]][s[3]]
                IN  /\ first' = [first EXCEPT ![s[1]] = @ \cup NewFirst(nullable, first, s)]
                    /\ follow' = IF x \in Nonterminals
                                   THEN [follow EXCEPT ![x] = @ \cup NewFollow(nullable, first', follow, s)]
                                   ELSE follow
                    /\ nullable' = nullable
  BY VisitFacts
<1>2. grammar \in Grammars /\ nterms \subseteq Nonterminals
  BY DEF GrammarOK
<1>3. grammar' = grammar /\ nterms' = nterms
  BY DEF Visit
<1>4. \A N, F, W : Closed(N, F, W)' <=> Closed(N, F, W)
  BY <1>3 DEF Closed, ClosedAt, Sites, NewNullable, NewFirst, NewFollow, Rhss
<1> SUFFICES ASSUME NEW N \in [Nonterminals -> BOOLEAN], NEW F \in [Nonterminals -> SUBSET Terminals],
                    NEW W \in [Nonterminals -> SUBSET Terminals], Closed(N, F, W)
             PROVE  Within(N, F, W)'
  BY <1>4 DEF TablesLeast
<1>5. /\ nullable' \in [Nonterminals -> BOOLEAN]
      /\ first' \in [Nonterminals -> SUBSET Terminals] /\ follow' \in [Nonterminals -> SUBSET Terminals]
  BY VisitTyped
<1>6. Within(N, F, W)
  BY DEF TablesLeast
<1>7. ClosedAt(N, F, W, s) /\ s \in Sites
  BY <1>1 DEF Closed
<1>8. \A F1 : (\A n \in Nonterminals : F1[n] \subseteq F[n]) =>
         /\ NewNullable(nullable, s) => NewNullable(N, s)
         /\ s[3] # 0 => NewFirst(nullable, F1, s) \subseteq NewFirst(N, F, s)
         /\ s[3] # 0 => NewFollow(nullable, F1, follow, s) \subseteq NewFollow(N, F, W, s)
  BY <1>2, <1>6, <1>7, NewMonotonic DEF Within
<1>9. \A n \in Nonterminals : first[n] \subseteq F[n]
  BY <1>6 DEF Within
<1>10. /\ nullable \in [Nonterminals -> BOOLEAN] /\ first \in [Nonterminals -> SUBSET Terminals]
       /\ follow \in [Nonterminals -> SUBSET Terminals]
  BY DEF GrammarOK
<1>11. CASE s[3] = 0
  <2>1. NewNullable(nullable, s) => N[s[1]]
    BY <1>7, <1>8, <1>9, <1>11 DEF ClosedAt
  <2>2. \A n \in Nonterminals : nullable'[n] => N[n]
    BY <1>1, <1>6, <1>10, <1>11, <2>1 DEF Within
  <2>3. QED BY <1>1, <1>6, <1>11, <2>2 DEF Within
<1>12. CASE s[3] # 0
  <2> DEFINE x == Rhss(s[1])[s[2]][s[3]]
  <2>1. NewFirst(nullable, first, s) \subseteq F[s[1]]
    BY <1>7, <1>8, <1>9, <1>12 DEF ClosedAt
  <2>2. \A n \in Nonterminals : first'[n] \subseteq F[n]
    <3>1. first' = [first EXCEPT ![s[1]] = @ \cup NewFirst(nullable, first, s)]
      BY <1>1, <1>12
    <3>2. QED BY <1>9, <1>10, <2>1, <3>1
  <2>3. ASSUME x \in Nonterminals
        PROVE  NewFollow(nullable, first', follow, s) \subseteq W[x]
    <3>1. NewFollow(nullable, first', follow, s) \subseteq NewFollow(N, F, W, s)
      BY <1>8, <1>12, <2>2
    <3>2. QED BY <1>7, <1>12, <2>3, <3>1 DEF ClosedAt
  <2>4. \A n \in Nonterminals : follow'[n] \subseteq W[n]
    <3>1. follow' = IF x \in Nonterminals
                      THEN [follow EXCEPT ![x] = @ \cup NewFollow(nullable, first', follow, s)]
                      ELSE follow
      BY <1>1, <1>12
    <3>2. QED BY <1>6, <1>10, <2>3, <3>1 DEF Within
  <2>5. QED BY <1>1, <1>6, <1>12, <2>2, <2>4 DEF Within
<1>13. QED BY <1>11, <1>12

\* A pass that has not changed anything has seen places that need no change.
LEMMA VisitClosed ==
  ASSUME GrammarOK, VisitedClosed, Visit
  PROVE  VisitedClosed'
<1>1. PICK s \in unvisited :
           /\ s \in Sites /\ unvisited' = unvisited \ {s}
           /\ s[3] = 0 =>
                /\ nullable' = [nullable EXCEPT ![s[1]] = @ \/ NewNullable(nullable, s)]
                /\ first' = first /\ follow' = follow
           /\ s[3] # 0 =>
                LET x == Rhss(s[1])[s[2]][s[3]]
                IN  /\ first' = [first EXCEPT ![s[1]] = @ \cup NewFirst(nullable, first, s)]
                    /\ follow' = IF x \in Nonterminals
                                   THEN [follow EXCEPT ![x] = @ \cup NewFollow(nullable, first', follow, s)]
                                   ELSE follow
                    /\ nullable' = nullable
  BY VisitFacts
<1>2. grammar \in Grammars /\ nterms \subseteq Nonterminals /\ s[1] \in Nonterminals
  BY <1>1, SiteOfGrammar DEF GrammarOK
<1>3. grammar' = grammar /\ nterms' = nterms /\ phase = "tables" /\ (changed' <=> changed \/ tables' # tables)
  BY DEF Visit, GrammarOK
<1> SUFFICES ASSUME ~changed'
             PROVE  \A t \in Sites \ unvisited' : ClosedAt(nullable, first, follow, t)
  <2>1. Sites' = Sites
    BY <1>3 DEF Sites, Rhss
  <2>2. ~changed' => nullable' = nullable /\ first' = first /\ follow' = follow
    BY <1>3 DEF tables
  <2>3. \A t : ~changed' => (ClosedAt(nullable, first, follow, t)' <=> ClosedAt(nullable, first, follow, t))
    BY <1>3, <2>2 DEF ClosedAt, NewNullable, NewFirst, NewFollow, Rhss
  <2>4. QED BY <2>1, <2>3 DEF VisitedClosed
<1>4. ~changed /\ nullable' = nullable /\ first' = first /\ follow' = follow
  BY <1>3 DEF tables
<1>5. \A t \in Sites \ unvisited : ClosedAt(nullable, first, follow, t)
  BY <1>3, <1>4 DEF VisitedClosed
<1>6. ClosedAt(nullable, first, follow, s)
  <2>1. CASE s[3] = 0
    <3>1. nullable[s[1]] = (nullable[s[1]] \/ NewNullable(nullable, s))
      BY <1>1, <1>2, <1>4, <2>1 DEF GrammarOK
    <3>2. QED BY <2>1, <3>1 DEF ClosedAt
  <2>2. CASE s[3] # 0
    <3> DEFINE x == Rhss(s[1])[s[2]][s[3]]
    <3>1. NewFirst(nullable, first, s) \subseteq first[s[1]]
      <4>1. first = [first EXCEPT ![s[1]] = @ \cup NewFirst(nullable, first, s)]
        BY <1>1, <1>4, <2>2
      <4>2. QED BY <1>2, <4>1 DEF GrammarOK
    <3>2. ASSUME x \in Nonterminals
          PROVE  NewFollow(nullable, first, follow, s) \subseteq follow[x]
      <4>1. follow' = [follow EXCEPT ![x] = @ \cup NewFollow(nullable, first, follow, s)]
        BY <1>1, <1>4, <2>2, <3>2
      <4>2. QED BY <1>4, <3>2, <4>1 DEF GrammarOK
    <3>3. QED BY <2>2, <3>1, <3>2 DEF ClosedAt
  <2>3. QED BY <2>1, <2>2
<1>7. QED BY <1>1, <1>5, <1>6

\* The tables are closed and least, and the verdict is what they say.
LEMMA GrammarInit_IInv == GrammarInit => GrammarIInv
<1> SUFFICES ASSUME GrammarInit
             PROVE  GrammarIInv
  OBVIOUS
<1>1. GrammarOK
  BY GrammarsAssumption DEF GrammarInit, GrammarOK
<1>2. EmptyAtFirst /\ VisitedClosed /\ TablesClosed /\ LookAheadsBuilt /\ VerdictRight
  BY DEF GrammarInit, EmptyAtFirst, VisitedClosed, TablesClosed, LookAheadsBuilt, VerdictRight
<1>3. TablesLeast
  BY DEF GrammarInit, TablesLeast, Within
<1>4. QED BY <1>1, <1>2, <1>3 DEF GrammarIInv

\* Dropping what the root does not reach leaves the tables as empty as they are.
LEMMA Simplify_IInv ==
  ASSUME GrammarIInv, Simplify
  PROVE  GrammarIInv'
<1>1. GrammarOK'
  BY DEF GrammarIInv, GrammarOK, Simplify, tables
<1>2. EmptyAtFirst' /\ TablesClosed' /\ LookAheadsBuilt' /\ VerdictRight'
  BY DEF Simplify, EmptyAtFirst, TablesClosed, LookAheadsBuilt, VerdictRight
<1>3. VisitedClosed'
  BY DEF Simplify, VisitedClosed
<1>4. TablesLeast'
  <2>1. \A n \in Nonterminals : ~nullable'[n] /\ first'[n] = {} /\ follow'[n] = {}
    BY DEF GrammarIInv, EmptyAtFirst, Simplify, tables
  <2>2. QED BY <2>1 DEF TablesLeast, Within
<1>5. QED BY <1>1, <1>2, <1>3, <1>4 DEF GrammarIInv

\* So does a step of a pass.
LEMMA Visit_IInv ==
  ASSUME GrammarIInv, Visit
  PROVE  GrammarIInv'
<1>1. GrammarOK'
  <2>1. Sites' = Sites
    BY DEF Visit, Sites, Rhss
  <2>2. changed' \in BOOLEAN
    BY DEF Visit, GrammarIInv, GrammarOK
  <2>3. QED BY <2>1, <2>2, VisitTyped DEF Visit, GrammarIInv, GrammarOK
<1>2. EmptyAtFirst' /\ TablesClosed' /\ LookAheadsBuilt' /\ VerdictRight'
  BY DEF Visit, EmptyAtFirst, TablesClosed, LookAheadsBuilt, VerdictRight
<1>3. VisitedClosed'
  BY VisitClosed DEF GrammarIInv
<1>4. TablesLeast'
  BY VisitLeast DEF GrammarIInv
<1>5. QED BY <1>1, <1>2, <1>3, <1>4 DEF GrammarIInv

\* What depends on the grammar and the tables alone stays with these.
LEMMA TablesKept ==
  ASSUME grammar' = grammar, nterms' = nterms, tables' = tables
  PROVE  /\ Sites' = Sites /\ TablesLeast' = TablesLeast
         /\ Closed(nullable, first, follow)' = Closed(nullable, first, follow)
         /\ \A s : ClosedAt(nullable, first, follow, s)' = ClosedAt(nullable, first, follow, s)
         /\ \A x, n : LookAheads(x, n)' = LookAheads(x, n)
<1>1. nullable' = nullable /\ first' = first /\ follow' = follow
  BY DEF tables
<1>2. Sites' = Sites
  BY DEF Sites, Rhss
<1>3. \A N, F, W, s : ClosedAt(N, F, W, s)' = ClosedAt(N, F, W, s)
  BY DEF ClosedAt, NewNullable, NewFirst, NewFollow, Rhss
<1>4. \A s : ClosedAt(nullable, first, follow, s)' = ClosedAt(nullable, first, follow, s)
  BY <1>1 DEF ClosedAt, NewNullable, NewFirst, NewFollow, Rhss
<1>5. \A N, F, W : Closed(N, F, W)' = Closed(N, F, W)
  BY <1>2, <1>3 DEF Closed
<1>6. Closed(nullable, first, follow)' = Closed(nullable, first, follow)
  BY <1>2, <1>4 DEF Closed
<1>7. \A N, F, W : Within(N, F, W)' = Within(N, F, W)
  BY <1>1 DEF Within
<1>8. TablesLeast' = TablesLeast
  BY <1>5, <1>7 DEF TablesLeast
<1>9. \A x, n : LookAheads(x, n)' = LookAheads(x, n)
  BY <1>1 DEF LookAheads
<1>10. QED BY <1>2, <1>4, <1>6, <1>8, <1>9

\* A pass ends the computation when it has visited all places without changing
\* anything.
LEMMA EndPass_IInv ==
  ASSUME GrammarIInv, EndPass
  PROVE  GrammarIInv'
<1>1. grammar' = grammar /\ nterms' = nterms /\ tables' = tables
  BY DEF EndPass
<1>2. nullable' = nullable /\ first' = first /\ follow' = follow
  BY <1>1 DEF tables
<1>3. Sites' = Sites /\ TablesLeast'
  BY <1>1, TablesKept DEF GrammarIInv
<1>4. GrammarOK'
  BY <1>1, <1>2, <1>3 DEF EndPass, GrammarIInv, GrammarOK
<1>5. EmptyAtFirst' /\ LookAheadsBuilt' /\ VerdictRight'
  BY DEF EndPass, GrammarIInv, EmptyAtFirst, LookAheadsBuilt, VerdictRight
<1>6. VisitedClosed'
  BY <1>3 DEF EndPass, VisitedClosed
<1>7. TablesClosed'
  <2>1. CASE changed
    BY <2>1 DEF EndPass, TablesClosed
  <2>2. CASE ~changed
    <3>1. Closed(nullable, first, follow)
      BY <2>2 DEF EndPass, GrammarIInv, VisitedClosed, Closed
    <3>2. QED BY <1>1, <3>1, TablesKept DEF TablesClosed
  <2>3. QED BY <2>1, <2>2
<1>8. QED BY <1>3, <1>4, <1>5, <1>6, <1>7 DEF GrammarIInv

\* The look-aheads are built from the final tables.
LEMMA BuildLookAheads_IInv ==
  ASSUME GrammarIInv, BuildLookAheads
  PROVE  GrammarIInv'
<1>1. grammar' = grammar /\ nterms' = nterms /\ tables' = tables
  BY DEF BuildLookAheads
<1>2. nullable' = nullable /\ first' = first /\ follow' = follow
  BY <1>1 DEF tables
<1>3. Sites' = Sites /\ TablesLeast' /\ Closed(nullable, first, follow)' = Closed(nullable, first, follow)
  BY <1>1, TablesKept DEF GrammarIInv
<1>4. GrammarOK'
  BY <1>1, <1>2, <1>3 DEF BuildLookAheads, GrammarIInv, GrammarOK
<1>5. EmptyAtFirst' /\ VisitedClosed' /\ VerdictRight'
  BY DEF BuildLookAheads, EmptyAtFirst, VisitedClosed, VerdictRight
<1>6. TablesClosed'
  BY <1>3 DEF BuildLookAheads, GrammarIInv, TablesClosed
<1>7. LookAheadsBuilt'
  <2>1. \A x, n : LookAheads(x, n)' = LookAheads(x, n)
    BY <1>1, TablesKept
  <2>2. Rhss(grammar)' = Rhss(grammar) /\ \A n : Rhss(n)' = Rhss(n)
    BY <1>1 DEF Rhss
  <2>3. QED BY <1>1, <1>2, <2>1, <2>2 DEF BuildLookAheads, LookAheadsBuilt, LookAheads, Rhss
<1>8. QED BY <1>3, <1>4, <1>5, <1>6, <1>7 DEF GrammarIInv

\* The verdict is that of the look-aheads.
LEMMA Check_IInv ==
  ASSUME GrammarIInv, Check
  PROVE  GrammarIInv'
<1>1. grammar' = grammar /\ nterms' = nterms /\ tables' = tables
  BY DEF Check
<1>2. nullable' = nullable /\ first' = first /\ follow' = follow /\ lahs' = lahs
  BY <1>1 DEF tables, Check
<1>3. Sites' = Sites /\ TablesLeast' /\ Closed(nullable, first, follow)' = Closed(nullable, first, follow)
  BY <1>1, TablesKept DEF GrammarIInv
<1>4. GrammarOK'
  <2>1. verdict' \in {"none", "ok", "missing", "ambiguous"}
    BY DEF Check
  <2>2. QED BY <1>1, <1>2, <1>3, <2>1 DEF Check, GrammarIInv, GrammarOK
<1>5. EmptyAtFirst' /\ VisitedClosed'
  BY DEF Check, EmptyAtFirst, VisitedClosed
<1>6. TablesClosed'
  BY <1>3 DEF Check, GrammarIInv, TablesClosed
<1>7. LookAheadsBuilt'
  <2>1. \A x, n : LookAheads(x, n)' = LookAheads(x, n)
    BY <1>1, TablesKept
  <2>2. LookAheadsBuilt /\ phase = "check"
    BY DEF Check, GrammarIInv
  <2>3. QED BY <1>1, <1>2, <2>1, <2>2 DEF LookAheadsBuilt, LookAheads, Rhss
<1>8. VerdictRight'
  <2> DEFINE symbols(n, k) == LookAheads(Rhss(n)[k][1], n)
             bad == {n \in DOMAIN lahs : NoSymbol(n) \/ Ambiguous(n)}
  <2>1. DOMAIN lahs = grammar.lookAhead \cap nterms
    BY DEF Check, GrammarIInv, LookAheadsBuilt
  <2>2. \A n \in DOMAIN lahs : \A k \in 1 .. 2 : lahs[n][k] = symbols(n, k)
    <3>1. lahs = [n \in grammar.lookAhead \cap nterms |-> [a \in 1 .. 2 |-> symbols(n, a)]]
      BY DEF Check, GrammarIInv, LookAheadsBuilt
    <3>2. QED BY <2>1, <3>1
  <2>3. \A n \in DOMAIN lahs : NoSymbol(n) <=> symbols(n, 1) \cup symbols(n, 2) = {}
    BY <2>2 DEF NoSymbol
  <2>4. \A n \in DOMAIN lahs :
          Ambiguous(n) <=> ~ \A t \in symbols(n, 1), u \in symbols(n, 2) : Literal[t] # Literal[u]
    BY <2>2 DEF Ambiguous, Rendered
  <2>5. verdict' = "ok" <=> bad = {}
    BY DEF Check
  <2>6. bad = {} <=> \A n \in grammar.lookAhead \cap nterms :
                       /\ symbols(n, 1) \cup symbols(n, 2) # {}
                       /\ \A t \in symbols(n, 1), u \in symbols(n, 2) : Literal[t] # Literal[u]
    BY <2>1, <2>3, <2>4
  <2>7. \A n, k : symbols(n, k)' = symbols(n, k)
    BY <1>1, <1>2 DEF LookAheads, Rhss
  <2> HIDE DEF symbols, bad
  <2>8. verdict' = "ok" <=> \A n \in grammar'.lookAhead \cap nterms' :
                       /\ symbols(n, 1)' \cup symbols(n, 2)' # {}
                       /\ \A t \in symbols(n, 1)', u \in symbols(n, 2)' : Literal[t] # Literal[u]
    BY <1>1, <2>5, <2>6, <2>7
  <2>9. QED BY <2>8 DEF VerdictRight, symbols
<1>9. QED BY <1>3, <1>4, <1>5, <1>6, <1>7, <1>8 DEF GrammarIInv

\* When they are used, NULLABLE, FIRST and FOLLOW are the least sets that satisfy
\* their equations: _computeTables() finds all that is asked for and nothing else,
\* in whatever order it looks at the productions.  And the grammar is accepted
\* exactly if these decide between all alternatives, as _check() is meant to.
THEOREM TablesAreLeast == GrammarSpec => [](GrammarOK /\ TablesClosed /\ TablesLeast /\ VerdictRight)
<1>1. GrammarIInv /\ [GrammarNext]_grammarVars => GrammarIInv'
  <2> SUFFICES ASSUME GrammarIInv, [GrammarNext]_grammarVars
               PROVE  GrammarIInv'
    OBVIOUS
  <2>1. CASE UNCHANGED grammarVars
    <3>1. grammar' = grammar /\ nterms' = nterms /\ tables' = tables
      BY <2>1 DEF grammarVars
    <3>2. nullable' = nullable /\ first' = first /\ follow' = follow
      BY <3>1 DEF tables
    <3>3. Sites' = Sites /\ TablesLeast' /\ Closed(nullable, first, follow)' = Closed(nullable, first, follow)
      BY <3>1, TablesKept DEF GrammarIInv
    <3>4. GrammarOK' /\ EmptyAtFirst' /\ TablesClosed'
      BY <2>1, <3>2, <3>3 DEF grammarVars, GrammarIInv, GrammarOK, EmptyAtFirst, TablesClosed
    <3>5. VisitedClosed'
      <4>1. \A s : ClosedAt(nullable, first, follow, s)' = ClosedAt(nullable, first, follow, s)
        BY <3>1, TablesKept
      <4>2. QED BY <2>1, <3>3, <4>1 DEF grammarVars, GrammarIInv, VisitedClosed
    <3>6. LookAheadsBuilt' /\ VerdictRight'
      BY <2>1, <3>2 DEF grammarVars, GrammarIInv, LookAheadsBuilt, VerdictRight, LookAheads, Rhss
    <3>7. QED BY <3>3, <3>4, <3>5, <3>6 DEF GrammarIInv
  <2>2. CASE GrammarNext
    BY <2>2, Simplify_IInv, Visit_IInv, EndPass_IInv, BuildLookAheads_IInv, Check_IInv DEF GrammarNext
  <2>3. QED BY <2>1, <2>2
<1>2. GrammarIInv => GrammarOK /\ TablesClosed /\ TablesLeast /\ VerdictRight
  BY DEF GrammarIInv
<1>3. QED BY GrammarInit_IInv, <1>1, <1>2, PTL DEF GrammarSpec

(************************* What derivations say ****************************)

\* Forms, and how one derives from another: a nonterminal gives way to one of its
\* right-hand sides, and the empty production to nothing.  Derives is the least
\* such relation that is reflexive and transitive.
Forms == Seq(Symbols)
\* Forms after one another (a name of its own: the provers expand \o).
s ++ t == s \o t
Rewrites(x, y) ==
  \/ x = Epsilon /\ y = <<>>
  \/ x \in Nonterminals /\ \E k \in DOMAIN Rhss(x) : y = Rhss(x)[k]
Yields(s, t) ==
  \E u, v, y \in Forms, x \in Symbols : s = (u ++ <<x>>) ++ v /\ t = (u ++ y) ++ v /\ Rewrites(x, y)
Preserved(S) == \A s \in S, t \in Forms : Yields(s, t) => t \in S
Derives(s, t) == \A S \in SUBSET Forms : s \in S /\ Preserved(S) => t \in S

DerivesNothing(x) == Derives(<<x>>, <<>>)
Begins(x) == {a \in Terminals : \E v \in Forms : Derives(<<x>>, <<a>> ++ v)}
Follows(n) ==
  {a \in Terminals : \E u, v \in Forms : Derives(<<grammar.root>>, (u ++ <<n>>) ++ (<<a>> ++ v))}

\* FIRST of a form from place i on.
FirstFrom(F, N, s, i) ==
  UNION {GetFirst(F, s[j]) : j \in {p \in i .. Len(s) : NullableRange(N, s, i, p)}}
Empties(N, s, i) == NullableRange(N, s, i, Len(s) + 1)

\* Two forms after one another.
LEMMA Concatenated ==
  ASSUME NEW s \in Forms, NEW t \in Forms
  PROVE  /\ s ++ t \in Forms /\ Len(s ++ t) = Len(s) + Len(t) /\ Len(s) \in Nat /\ Len(t) \in Nat
         /\ \A i \in 1 .. Len(s) : (s ++ t)[i] = s[i]
         /\ \A i \in Len(s) + 1 .. Len(s) + Len(t) : (s ++ t)[i] = t[i - Len(s)]
BY ConcatProperties DEF Forms, ++

\* What is nullable of them, and what they begin with.
LEMMA RangeOfConcat ==
  ASSUME NEW s \in Forms, NEW t \in Forms, NEW N
  PROVE  /\ \A i \in 1 .. Len(s) + 1 : \A j \in i .. Len(s) + 1 :
              NullableRange(N, s ++ t, i, j) <=> NullableRange(N, s, i, j)
         /\ \A i \in 1 .. Len(s) + 1 : \A j \in Len(s) + 1 .. Len(s) + Len(t) + 1 :
              NullableRange(N, s ++ t, i, j) <=> Empties(N, s, i) /\ NullableRange(N, t, 1, j - Len(s))
         /\ \A i \in Len(s) + 1 .. Len(s) + Len(t) + 1 : \A j \in i .. Len(s) + Len(t) + 1 :
              NullableRange(N, s ++ t, i, j) <=> NullableRange(N, t, i - Len(s), j - Len(s))
<1> DEFINE r == s ++ t
<1>1. /\ Len(r) = Len(s) + Len(t) /\ Len(s) \in Nat /\ Len(t) \in Nat
      /\ \A i \in 1 .. Len(s) : r[i] = s[i]
      /\ \A i \in Len(s) + 1 .. Len(s) + Len(t) : r[i] = t[i - Len(s)]
  BY Concatenated
<1> HIDE DEF r
<1>2. \A i \in 1 .. Len(t) : r[Len(s) + i] = t[i]
  BY <1>1
<1>3. ASSUME NEW i \in 1 .. Len(s) + 1, NEW j \in i .. Len(s) + 1
      PROVE  NullableRange(N, r, i, j) <=> NullableRange(N, s, i, j)
  <2>1. ASSUME NEW p \in i .. j - 1
        PROVE  r[p] = s[p]
    <3>1. p \in 1 .. Len(s)
      BY <1>1
    <3>2. QED BY <1>1, <3>1
  <2>2. QED BY <2>1 DEF NullableRange
<1>4. ASSUME NEW i \in Len(s) + 1 .. Len(s) + Len(t) + 1, NEW j \in i .. Len(s) + Len(t) + 1
      PROVE  NullableRange(N, r, i, j) <=> NullableRange(N, t, i - Len(s), j - Len(s))
  <2>1. ASSUME NullableRange(N, r, i, j), NEW p \in i - Len(s) .. j - Len(s) - 1
        PROVE  NullableSymbol(N, t[p])
    <3>1. Len(s) + p \in i .. j - 1 /\ p \in 1 .. Len(t)
      BY <1>1
    <3>2. QED BY <1>2, <2>1, <3>1 DEF NullableRange
  <2>2. ASSUME NullableRange(N, t, i - Len(s), j - Len(s)), NEW p \in i .. j - 1
        PROVE  NullableSymbol(N, r[p])
    <3>1. p - Len(s) \in i - Len(s) .. j - Len(s) - 1 /\ p \in Len(s) + 1 .. Len(s) + Len(t)
      BY <1>1
    <3>2. QED BY <1>1, <2>2, <3>1 DEF NullableRange
  <2>3. QED BY <2>1, <2>2 DEF NullableRange
<1>5. ASSUME NEW i \in 1 .. Len(s) + 1, NEW j \in Len(s) + 1 .. Len(s) + Len(t) + 1
      PROVE  NullableRange(N, r, i, j) <=> Empties(N, s, i) /\ NullableRange(N, t, 1, j - Len(s))
  <2>1. NullableRange(N, r, i, j) <=> NullableRange(N, r, i, Len(s) + 1) /\ NullableRange(N, r, Len(s) + 1, j)
    <3>1. /\ i \in Int /\ j \in Int /\ i <= Len(s) + 1 /\ Len(s) + 1 <= j
          /\ (Len(s) + 1) - 1 = Len(s)
      BY <1>1
    <3>2. ASSUME NEW p \in i .. j - 1
          PROVE  p \in i .. (Len(s) + 1) - 1 \/ p \in Len(s) + 1 .. j - 1
      BY <1>1, <3>1
    <3>3. \A p \in i .. (Len(s) + 1) - 1 : p \in i .. j - 1
      BY <1>1, <3>1
    <3>4. \A p \in Len(s) + 1 .. j - 1 : p \in i .. j - 1
      BY <1>1, <3>1
    <3>5. QED BY <3>2, <3>3, <3>4 DEF NullableRange
  <2>2. NullableRange(N, r, i, Len(s) + 1) <=> Empties(N, s, i)
    BY <1>1, <1>3 DEF Empties
  <2>3. NullableRange(N, r, Len(s) + 1, j) <=> NullableRange(N, t, 1, j - Len(s))
    BY <1>1, <1>4
  <2>4. QED BY <2>1, <2>2, <2>3
<1>6. QED BY <1>3, <1>4, <1>5 DEF r

\* They begin with what the first begins with, and if it is nullable with the second.
LEMMA FirstOfConcat ==
  ASSUME NEW s \in Forms, NEW t \in Forms, NEW N, NEW F
  PROVE  /\ \A i \in 1 .. Len(s) + 1 : \A b :
              b \in FirstFrom(F, N, s ++ t, i) <=>
                b \in FirstFrom(F, N, s, i) \/ (Empties(N, s, i) /\ b \in FirstFrom(F, N, t, 1))
         /\ \A i \in Len(s) + 1 .. Len(s) + Len(t) + 1 : \A b :
              b \in FirstFrom(F, N, s ++ t, i) <=> b \in FirstFrom(F, N, t, i - Len(s))
<1> DEFINE r == s ++ t
<1>1. /\ Len(r) = Len(s) + Len(t) /\ Len(s) \in Nat /\ Len(t) \in Nat
      /\ \A i \in 1 .. Len(s) : r[i] = s[i]
      /\ \A i \in Len(s) + 1 .. Len(s) + Len(t) : r[i] = t[i - Len(s)]
  BY Concatenated
<1>2. /\ \A i \in 1 .. Len(s) + 1 : \A j \in i .. Len(s) + 1 :
              NullableRange(N, r, i, j) <=> NullableRange(N, s, i, j)
      /\ \A i \in 1 .. Len(s) + 1 : \A j \in Len(s) + 1 .. Len(s) + Len(t) + 1 :
              NullableRange(N, r, i, j) <=> Empties(N, s, i) /\ NullableRange(N, t, 1, j - Len(s))
      /\ \A i \in Len(s) + 1 .. Len(s) + Len(t) + 1 : \A j \in i .. Len(s) + Len(t) + 1 :
              NullableRange(N, r, i, j) <=> NullableRange(N, t, i - Len(s), j - Len(s))
  BY RangeOfConcat
<1> HIDE DEF r
<1>3. \A a, w, i : a \in FirstFrom(F, N, w, i) <=>
        \E j \in i .. Len(w) : NullableRange(N, w, i, j) /\ a \in GetFirst(F, w[j])
  BY DEF FirstFrom
<1>4. ASSUME NEW i \in 1 .. Len(s) + 1, NEW a
      PROVE  a \in FirstFrom(F, N, r, i) <=>
               a \in FirstFrom(F, N, s, i) \/ (Empties(N, s, i) /\ a \in FirstFrom(F, N, t, 1))
  <2>1. ASSUME NEW j \in i .. Len(r), NullableRange(N, r, i, j), a \in GetFirst(F, r[j])
        PROVE  a \in FirstFrom(F, N, s, i) \/ (Empties(N, s, i) /\ a \in FirstFrom(F, N, t, 1))
    <3>1. CASE j <= Len(s)
      <4>1. j \in i .. Len(s) /\ NullableRange(N, s, i, j) /\ r[j] = s[j]
        BY <1>1, <1>2, <2>1, <3>1
      <4>2. QED BY <1>3, <2>1, <4>1
    <3>2. CASE j > Len(s)
      <4>1. j - Len(s) \in 1 .. Len(t) /\ r[j] = t[j - Len(s)] /\ j \in Len(s) + 1 .. Len(s) + Len(t) + 1
        BY <1>1, <3>2
      <4>2. Empties(N, s, i) /\ NullableRange(N, t, 1, j - Len(s))
        BY <1>2, <2>1, <4>1
      <4>3. QED BY <1>3, <2>1, <4>1, <4>2
    <3>3. QED BY <1>1, <3>1, <3>2
  <2>2. ASSUME NEW j \in i .. Len(s), NullableRange(N, s, i, j), a \in GetFirst(F, s[j])
        PROVE  a \in FirstFrom(F, N, r, i)
    <3>1. j \in i .. Len(r) /\ NullableRange(N, r, i, j) /\ r[j] = s[j]
      BY <1>1, <1>2, <2>2
    <3>2. QED BY <1>3, <2>2, <3>1
  <2>3. ASSUME Empties(N, s, i), NEW j \in 1 .. Len(t), NullableRange(N, t, 1, j), a \in GetFirst(F, t[j])
        PROVE  a \in FirstFrom(F, N, r, i)
    <3>1. /\ Len(s) + j \in i .. Len(r) /\ Len(s) + j \in Len(s) + 1 .. Len(s) + Len(t)
          /\ (Len(s) + j) - Len(s) = j
      BY <1>1
    <3>2. NullableRange(N, r, i, Len(s) + j) /\ r[Len(s) + j] = t[j]
      BY <1>1, <1>2, <2>3, <3>1
    <3>3. QED BY <1>3, <2>3, <3>1, <3>2
  <2>4. QED BY <1>3, <2>1, <2>2, <2>3
<1>5. ASSUME NEW i \in Len(s) + 1 .. Len(s) + Len(t) + 1, NEW a
      PROVE  a \in FirstFrom(F, N, r, i) <=> a \in FirstFrom(F, N, t, i - Len(s))
  <2>1. ASSUME NEW j \in i .. Len(r), NullableRange(N, r, i, j), a \in GetFirst(F, r[j])
        PROVE  a \in FirstFrom(F, N, t, i - Len(s))
    <3>1. j - Len(s) \in i - Len(s) .. Len(t) /\ j \in i .. Len(s) + Len(t) + 1 /\ j \in Len(s) + 1 .. Len(s) + Len(t)
      BY <1>1
    <3>2. NullableRange(N, t, i - Len(s), j - Len(s)) /\ r[j] = t[j - Len(s)]
      BY <1>1, <1>2, <2>1, <3>1
    <3>3. QED BY <1>3, <2>1, <3>1, <3>2
  <2>2. ASSUME NEW j \in i - Len(s) .. Len(t), NullableRange(N, t, i - Len(s), j), a \in GetFirst(F, t[j])
        PROVE  a \in FirstFrom(F, N, r, i)
    <3>1. /\ Len(s) + j \in i .. Len(r) /\ Len(s) + j \in Len(s) + 1 .. Len(s) + Len(t)
          /\ Len(s) + j \in i .. Len(s) + Len(t) + 1 /\ (Len(s) + j) - Len(s) = j
      BY <1>1
    <3>2. NullableRange(N, r, i, Len(s) + j) /\ r[Len(s) + j] = t[j]
      BY <1>1, <1>2, <2>2, <3>1
    <3>3. QED BY <1>3, <2>2, <3>1, <3>2
  <2>3. QED BY <1>3, <2>1, <2>2
<1>6. QED BY <1>4, <1>5 DEF r

\* They are nullable if both are.
LEMMA EmptiesOfConcat ==
  ASSUME NEW s \in Forms, NEW t \in Forms, NEW N
  PROVE  /\ \A i \in 1 .. Len(s) + 1 : Empties(N, s ++ t, i) <=> Empties(N, s, i) /\ Empties(N, t, 1)
         /\ \A i \in Len(s) + 1 .. Len(s) + Len(t) + 1 : Empties(N, s ++ t, i) <=> Empties(N, t, i - Len(s))
<1> DEFINE e == Len(s) + Len(t) + 1
<1>1. /\ Len(s) \in Nat /\ Len(t) \in Nat /\ Len(s ++ t) + 1 = e /\ e - Len(s) = Len(t) + 1
      /\ e \in Len(s) + 1 .. e /\ e \in Int
  <2>1. Len(s) \in Nat /\ Len(t) \in Nat /\ Len(s ++ t) = Len(s) + Len(t)
    BY Concatenated
  <2>2. QED BY <2>1
<1>2. \A i \in 1 .. Len(s) + 1 :
        NullableRange(N, s ++ t, i, e) <=> Empties(N, s, i) /\ NullableRange(N, t, 1, e - Len(s))
  <2>1. \A i \in 1 .. Len(s) + 1 : \A j \in Len(s) + 1 .. Len(s) + Len(t) + 1 :
          NullableRange(N, s ++ t, i, j) <=> Empties(N, s, i) /\ NullableRange(N, t, 1, j - Len(s))
    BY RangeOfConcat
  <2>2. e \in Len(s) + 1 .. Len(s) + Len(t) + 1
    BY <1>1
  <2> HIDE DEF e
  <2>3. QED BY <2>1, <2>2
<1>3. ASSUME NEW i \in Len(s) + 1 .. Len(s) + Len(t) + 1
      PROVE  NullableRange(N, s ++ t, i, e) <=> NullableRange(N, t, i - Len(s), e - Len(s))
  <2>1. e \in i .. Len(s) + Len(t) + 1
    BY <1>1
  <2>2. QED BY <2>1, RangeOfConcat
<1> HIDE DEF e
<1>4. QED BY <1>1, <1>2, <1>3 DEF Empties, e

\* A symbol by itself, and nothing at all.
LEMMA SingleForm ==
  ASSUME NEW x \in Symbols, NEW N, NEW F
  PROVE  /\ <<x>> \in Forms /\ Len(<<x>>) = 1 /\ <<>> \in Forms /\ Len(<<>>) = 0
         /\ Empties(N, <<x>>, 1) <=> NullableSymbol(N, x)
         /\ FirstFrom(F, N, <<x>>, 1) = GetFirst(F, x)
         /\ Empties(N, <<>>, 1) /\ FirstFrom(F, N, <<>>, 1) = {}
         /\ Empties(N, <<x>>, 2) /\ FirstFrom(F, N, <<x>>, 2) = {}
<1>1. <<x>> \in Forms /\ Len(<<x>>) = 1 /\ <<>> \in Forms /\ Len(<<>>) = 0
  BY DEF Forms
<1>2. Empties(N, <<x>>, 1) <=> NullableSymbol(N, x)
  BY DEF Empties, NullableRange
<1>3. FirstFrom(F, N, <<x>>, 1) = GetFirst(F, x)
  BY DEF FirstFrom, NullableRange
<1>4. Empties(N, <<>>, 1) /\ FirstFrom(F, N, <<>>, 1) = {}
  BY DEF Empties, FirstFrom, NullableRange
<1>5. Empties(N, <<x>>, 2) /\ FirstFrom(F, N, <<x>>, 2) = {}
  BY DEF Empties, FirstFrom, NullableRange
<1>6. QED BY <1>1, <1>2, <1>3, <1>4, <1>5

\* A right-hand side of a nonterminal that is still there.
LEMMA RhsForm ==
  ASSUME grammar \in Grammars, NEW n \in Nonterminals, NEW k \in DOMAIN Rhss(n)
  PROVE  Rhss(n)[k] \in Forms
<1>1. Rhss(n) \in Seq(Seq(Symbols))
  BY GrammarsAssumption DEF Rhss
<1>2. QED BY <1>1 DEF Forms

\* What three sets that satisfy the equations say of a right-hand side as a whole.
Solves(N, F, W) ==
  \A n \in nterms : \A k \in DOMAIN Rhss(n) :
    LET y == Rhss(n)[k]
    IN  /\ Empties(N, y, 1) => N[n]
        /\ FirstFrom(F, N, y, 1) \subseteq F[n]
        /\ \A i \in DOMAIN y : y[i] \in Nonterminals =>
             /\ FirstFrom(F, N, y, i + 1) \subseteq W[y[i]]
             /\ Empties(N, y, i + 1) => W[n] \subseteq W[y[i]]

\* That is all that the passes' equations, place by place, say.
LEMMA ClosedIsSolves ==
  ASSUME grammar \in Grammars, nterms \subseteq Nonterminals, NEW N, NEW F, NEW W
  PROVE  Closed(N, F, W) <=> Solves(N, F, W)
<1>1. \A s : s \in Sites <=>
        \E n \in nterms : \E k \in DOMAIN Rhss(n) : \E i \in {0} \cup DOMAIN Rhss(n)[k] : s = <<n, k, i>>
  BY DEF Sites
<1>2. Closed(N, F, W) <=>
        \A n \in nterms : \A k \in DOMAIN Rhss(n) : \A i \in {0} \cup DOMAIN Rhss(n)[k] :
          ClosedAt(N, F, W, <<n, k, i>>)
  BY <1>1 DEF Closed
<1>3. ASSUME NEW n \in nterms, NEW k \in DOMAIN Rhss(n)
      PROVE  (\A i \in {0} \cup DOMAIN Rhss(n)[k] : ClosedAt(N, F, W, <<n, k, i>>)) <=>
               LET y == Rhss(n)[k]
               IN  /\ Empties(N, y, 1) => N[n]
                   /\ FirstFrom(F, N, y, 1) \subseteq F[n]
                   /\ \A i \in DOMAIN y : y[i] \in Nonterminals =>
                        /\ FirstFrom(F, N, y, i + 1) \subseteq W[y[i]]
                        /\ Empties(N, y, i + 1) => W[n] \subseteq W[y[i]]
  <2> DEFINE y == Rhss(n)[k]
  <2>1. y \in Forms
    BY <1>3, RhsForm
  <2>2. DOMAIN y = 1 .. Len(y) /\ Len(y) \in Nat /\ 0 \notin DOMAIN y
    BY <2>1 DEF Forms
  <2>3. ClosedAt(N, F, W, <<n, k, 0>>) <=> (Empties(N, y, 1) => N[n])
    BY DEF ClosedAt, NewNullable, Empties
  <2>4. ASSUME NEW i \in DOMAIN y
        PROVE  ClosedAt(N, F, W, <<n, k, i>>) <=>
                 /\ NullableRange(N, y, 1, i) => GetFirst(F, y[i]) \subseteq F[n]
                 /\ y[i] \in Nonterminals =>
                      /\ FirstFrom(F, N, y, i + 1) \subseteq W[y[i]]
                      /\ Empties(N, y, i + 1) => W[n] \subseteq W[y[i]]
    <3>1. i # 0
      BY <2>2
    <3>2. NewFirst(N, F, <<n, k, i>>) \subseteq F[n] <=>
            (NullableRange(N, y, 1, i) => GetFirst(F, y[i]) \subseteq F[n])
      BY DEF NewFirst
    <3>3. NewFollow(N, F, W, <<n, k, i>>) =
            (IF Empties(N, y, i + 1) THEN W[n] ELSE {}) \cup FirstFrom(F, N, y, i + 1)
      BY DEF NewFollow, Empties, FirstFrom
    <3>4. ClosedAt(N, F, W, <<n, k, i>>) <=>
            /\ NewFirst(N, F, <<n, k, i>>) \subseteq F[n]
            /\ y[i] \in Nonterminals => NewFollow(N, F, W, <<n, k, i>>) \subseteq W[y[i]]
      BY <3>1 DEF ClosedAt
    <3>5. QED BY <3>2, <3>3, <3>4
  <2>5. (\A i \in DOMAIN y : NullableRange(N, y, 1, i) => GetFirst(F, y[i]) \subseteq F[n])
          <=> FirstFrom(F, N, y, 1) \subseteq F[n]
    BY <2>2 DEF FirstFrom
  <2> HIDE DEF y
  <2>6. QED BY <2>3, <2>4, <2>5 DEF y
<1>4. QED BY <1>2, <1>3 DEF Solves

\* The nonterminals that others mention are still there.
NothingMissing == \A n \in nterms : Mentions(n) \subseteq nterms
Live(s) == \A i \in 1 .. Len(s) : s[i] \in Nonterminals => s[i] \in nterms
Followed(F, N, W, s) ==
  \A i \in 1 .. Len(s) : s[i] \in Nonterminals => FirstFrom(F, N, s, i + 1) \subseteq W[s[i]]

\* What a symbol gives way to is live, and adds nothing to what the tables say.
LEMMA RewritesFacts ==
  ASSUME grammar \in Grammars, nterms \subseteq Nonterminals, NothingMissing, NEW N, NEW F, NEW W,
         Solves(N, F, W), NEW x \in Symbols, NEW y \in Forms, Rewrites(x, y), x \in Nonterminals => x \in nterms
  PROVE  /\ Live(y) /\ (Empties(N, y, 1) => NullableSymbol(N, x))
         /\ FirstFrom(F, N, y, 1) \subseteq GetFirst(F, x)
         /\ \A i \in 1 .. Len(y) : y[i] \in Nonterminals =>
              /\ x \in nterms
              /\ FirstFrom(F, N, y, i + 1) \subseteq W[y[i]]
              /\ Empties(N, y, i + 1) => W[x] \subseteq W[y[i]]
<1>1. CASE x = Epsilon /\ y = <<>>
  <2>1. Len(y) = 0 /\ FirstFrom(F, N, y, 1) = {}
    BY <1>1, SingleForm
  <2>2. NullableSymbol(N, x)
    BY <1>1 DEF NullableSymbol
  <2>3. QED BY <2>1, <2>2 DEF Live
<1>2. CASE x \in Nonterminals /\ \E k \in DOMAIN Rhss(x) : y = Rhss(x)[k]
  <2> PICK k \in DOMAIN Rhss(x) : y = Rhss(x)[k]
    BY <1>2
  <2>1. x \in nterms /\ x # Epsilon /\ DOMAIN y = 1 .. Len(y)
    BY <1>2, GrammarsAssumption DEF Forms
  <2>2. /\ Empties(N, y, 1) => N[x]
        /\ FirstFrom(F, N, y, 1) \subseteq F[x]
        /\ \A i \in 1 .. Len(y) : y[i] \in Nonterminals =>
             /\ FirstFrom(F, N, y, i + 1) \subseteq W[y[i]]
             /\ Empties(N, y, i + 1) => W[x] \subseteq W[y[i]]
    BY <2>1 DEF Solves
  <2>3. GetFirst(F, x) = F[x] /\ (N[x] => NullableSymbol(N, x))
    BY <1>2, <2>1 DEF GetFirst, NullableSymbol
  <2>4. Live(y)
    <3>1. \A i \in DOMAIN y : y[i] \in Nonterminals => y[i] \in Mentions(x)
      BY DEF Mentions
    <3>2. Mentions(x) \subseteq nterms
      BY <2>1 DEF NothingMissing
    <3>3. QED BY <2>1, <3>1, <3>2 DEF Live
  <2>5. QED BY <2>1, <2>2, <2>3, <2>4
<1>3. QED BY <1>1, <1>2 DEF Rewrites

\* Three forms after one another: where the parts are, what is nullable of them and
\* what they begin with.
Parts(N, F, u, m, v, r) ==
  /\ r \in Forms /\ Len(r) = Len(u) + Len(m) + Len(v)
  /\ Len(u) \in Nat /\ Len(m) \in Nat /\ Len(v) \in Nat
  /\ \A i \in 1 .. Len(u) : r[i] = u[i]
  /\ \A i \in 1 .. Len(m) : r[Len(u) + i] = m[i]
  /\ \A i \in 1 .. Len(v) : r[(Len(u) + Len(m)) + i] = v[i]
  /\ \A i \in 1 .. Len(u) + 1 :
       /\ Empties(N, r, i) <=> Empties(N, u, i) /\ Empties(N, m, 1) /\ Empties(N, v, 1)
       /\ \A b : b \in FirstFrom(F, N, r, i) <=>
            \/ b \in FirstFrom(F, N, u, i)
            \/ /\ Empties(N, u, i)
               /\ \/ b \in FirstFrom(F, N, m, 1)
                  \/ Empties(N, m, 1) /\ b \in FirstFrom(F, N, v, 1)
  /\ \A i \in 1 .. Len(m) + 1 : \A b :
       b \in FirstFrom(F, N, r, Len(u) + i) <=>
         b \in FirstFrom(F, N, m, i) \/ (Empties(N, m, i) /\ b \in FirstFrom(F, N, v, 1))
  /\ \A i \in 1 .. Len(v) + 1 : \A b :
       b \in FirstFrom(F, N, r, (Len(u) + Len(m)) + i) <=> b \in FirstFrom(F, N, v, i)
LEMMA ThreeParts ==
  ASSUME NEW u \in Forms, NEW m \in Forms, NEW v \in Forms, NEW r, r = (u ++ m) ++ v, NEW N, NEW F
  PROVE  Parts(N, F, u, m, v, r)
<1> DEFINE a == u ++ m
<1>1. /\ a \in Forms /\ Len(a) = Len(u) + Len(m) /\ Len(u) \in Nat /\ Len(m) \in Nat
      /\ \A i \in 1 .. Len(u) : a[i] = u[i]
      /\ \A i \in Len(u) + 1 .. Len(u) + Len(m) : a[i] = m[i - Len(u)]
  BY Concatenated
<1>2. /\ \A i \in 1 .. Len(u) + 1 : Empties(N, a, i) <=> Empties(N, u, i) /\ Empties(N, m, 1)
      /\ \A i \in Len(u) + 1 .. Len(u) + Len(m) + 1 : Empties(N, a, i) <=> Empties(N, m, i - Len(u))
  BY EmptiesOfConcat
<1>3. /\ \A i \in 1 .. Len(u) + 1 : \A b :
           b \in FirstFrom(F, N, a, i) <=>
             b \in FirstFrom(F, N, u, i) \/ (Empties(N, u, i) /\ b \in FirstFrom(F, N, m, 1))
      /\ \A i \in Len(u) + 1 .. Len(u) + Len(m) + 1 : \A b :
           b \in FirstFrom(F, N, a, i) <=> b \in FirstFrom(F, N, m, i - Len(u))
  BY FirstOfConcat
<1>4. r = a ++ v
  OBVIOUS
<1> HIDE DEF a
<1>5. /\ r \in Forms /\ Len(r) = Len(a) + Len(v) /\ Len(v) \in Nat
      /\ \A i \in 1 .. Len(a) : r[i] = a[i]
      /\ \A i \in Len(a) + 1 .. Len(a) + Len(v) : r[i] = v[i - Len(a)]
  <2>1. /\ a ++ v \in Forms /\ Len(a ++ v) = Len(a) + Len(v) /\ Len(v) \in Nat
        /\ \A i \in 1 .. Len(a) : (a ++ v)[i] = a[i]
        /\ \A i \in Len(a) + 1 .. Len(a) + Len(v) : (a ++ v)[i] = v[i - Len(a)]
    BY <1>1, Concatenated
  <2>2. QED BY <1>4, <2>1
<1>6. \A i \in 1 .. Len(a) + 1 : Empties(N, r, i) <=> Empties(N, a, i) /\ Empties(N, v, 1)
  BY <1>1, <1>4, EmptiesOfConcat
<1>7. /\ \A i \in 1 .. Len(a) + 1 : \A b :
           b \in FirstFrom(F, N, r, i) <=>
             b \in FirstFrom(F, N, a, i) \/ (Empties(N, a, i) /\ b \in FirstFrom(F, N, v, 1))
      /\ \A i \in Len(a) + 1 .. Len(a) + Len(v) + 1 : \A b :
           b \in FirstFrom(F, N, r, i) <=> b \in FirstFrom(F, N, v, i - Len(a))
  BY <1>1, <1>4, FirstOfConcat
<1>8. Len(r) = Len(u) + Len(m) + Len(v)
  BY <1>1, <1>5
<1>9. ASSUME NEW i \in 1 .. Len(u)
      PROVE  r[i] = u[i]
  BY <1>1, <1>5
<1>10. ASSUME NEW i \in 1 .. Len(m)
       PROVE  r[Len(u) + i] = m[i]
  <2> DEFINE p == Len(u) + i
  <2>1. p \in 1 .. Len(a) /\ p \in Len(u) + 1 .. Len(u) + Len(m) /\ p - Len(u) = i
    BY <1>1
  <2> HIDE DEF p
  <2>2. r[p] = m[i]
    BY <1>1, <1>5, <2>1
  <2>3. QED BY <2>2 DEF p
<1>11. ASSUME NEW i \in 1 .. Len(v)
       PROVE  r[(Len(u) + Len(m)) + i] = v[i]
  <2> DEFINE p == (Len(u) + Len(m)) + i
  <2>1. p \in Len(a) + 1 .. Len(a) + Len(v) /\ p - Len(a) = i
    BY <1>1, <1>5
  <2> HIDE DEF p
  <2>2. r[p] = v[i]
    BY <1>5, <2>1
  <2>3. QED BY <2>2 DEF p
<1>12. ASSUME NEW i \in 1 .. Len(u) + 1
       PROVE  /\ Empties(N, r, i) <=> Empties(N, u, i) /\ Empties(N, m, 1) /\ Empties(N, v, 1)
              /\ \A b : b \in FirstFrom(F, N, r, i) <=>
                   \/ b \in FirstFrom(F, N, u, i)
                   \/ /\ Empties(N, u, i)
                      /\ \/ b \in FirstFrom(F, N, m, 1)
                         \/ Empties(N, m, 1) /\ b \in FirstFrom(F, N, v, 1)
  <2>1. i \in 1 .. Len(a) + 1
    BY <1>1
  <2>2. QED BY <1>2, <1>3, <1>6, <1>7, <2>1
<1>13. ASSUME NEW i \in 1 .. Len(m) + 1, NEW b
       PROVE  b \in FirstFrom(F, N, r, Len(u) + i) <=>
                b \in FirstFrom(F, N, m, i) \/ (Empties(N, m, i) /\ b \in FirstFrom(F, N, v, 1))
  <2> DEFINE p == Len(u) + i
  <2>1. p \in 1 .. Len(a) + 1 /\ p \in Len(u) + 1 .. Len(u) + Len(m) + 1 /\ p - Len(u) = i
    BY <1>1
  <2> HIDE DEF p
  <2>2. QED BY <1>2, <1>3, <1>7, <2>1 DEF p
<1>14. ASSUME NEW i \in 1 .. Len(v) + 1, NEW b
       PROVE  b \in FirstFrom(F, N, r, (Len(u) + Len(m)) + i) <=> b \in FirstFrom(F, N, v, i)
  <2> DEFINE p == (Len(u) + Len(m)) + i
  <2>1. p \in Len(a) + 1 .. Len(a) + Len(v) + 1 /\ p - Len(a) = i
    BY <1>1, <1>5
  <2> HIDE DEF p
  <2>2. QED BY <1>7, <2>1 DEF p
<1>15. QED BY <1>1, <1>5, <1>8, <1>9, <1>10, <1>11, <1>12, <1>13, <1>14 DEF Parts

\* A step of a derivation adds nothing to them either.
LEMMA YieldsFacts ==
  ASSUME grammar \in Grammars, nterms \subseteq Nonterminals, NothingMissing, NEW N, NEW F, NEW W,
         Solves(N, F, W), NEW s \in Forms, NEW t \in Forms, Yields(s, t), Live(s)
  PROVE  /\ Live(t) /\ (Empties(N, t, 1) => Empties(N, s, 1))
         /\ FirstFrom(F, N, t, 1) \subseteq FirstFrom(F, N, s, 1)
         /\ Followed(F, N, W, s) => Followed(F, N, W, t)
<1>0. PICK u \in Forms, v \in Forms, y \in Forms, x \in Symbols :
        s = (u ++ <<x>>) ++ v /\ t = (u ++ y) ++ v /\ Rewrites(x, y)
  BY DEF Yields
<1>1. /\ <<x>> \in Forms /\ Len(<<x>>) = 1 /\ <<x>>[1] = x
      /\ Empties(N, <<x>>, 1) <=> NullableSymbol(N, x)
      /\ FirstFrom(F, N, <<x>>, 1) = GetFirst(F, x)
      /\ Empties(N, <<x>>, 2) /\ FirstFrom(F, N, <<x>>, 2) = {}
  BY SingleForm
<1> DEFINE lu == Len(u)
<1> DEFINE ly == Len(y)
<1> DEFINE lv == Len(v)
<1> DEFINE m == <<x>>
<1> HIDE DEF m
<1>2. /\ lu \in Nat /\ lv \in Nat /\ Len(s) = lu + 1 + lv
      /\ \A i \in 1 .. lu : s[i] = u[i]
      /\ s[lu + 1] = x
      /\ \A i \in 1 .. lv : s[(lu + 1) + i] = v[i]
      /\ \A i \in 1 .. lu + 1 :
              /\ Empties(N, s, i) <=> Empties(N, u, i) /\ NullableSymbol(N, x) /\ Empties(N, v, 1)
              /\ \A b : b \in FirstFrom(F, N, s, i) <=>
                   \/ b \in FirstFrom(F, N, u, i)
                   \/ /\ Empties(N, u, i)
                      /\ \/ b \in GetFirst(F, x)
                         \/ NullableSymbol(N, x) /\ b \in FirstFrom(F, N, v, 1)
      /\ \A i \in 1 .. lv + 1 : \A b :
              b \in FirstFrom(F, N, s, (lu + 1) + i) <=> b \in FirstFrom(F, N, v, i)
  <2>1. s = (u ++ m) ++ v /\ m \in Forms /\ Len(m) = 1
    BY <1>0, <1>1 DEF m
  <2>2. /\ Len(s) = Len(u) + Len(m) + Len(v) /\ Len(u) \in Nat /\ Len(v) \in Nat
        /\ \A i \in 1 .. Len(u) : s[i] = u[i]
        /\ \A i \in 1 .. Len(m) : s[Len(u) + i] = m[i]
        /\ \A i \in 1 .. Len(v) : s[(Len(u) + Len(m)) + i] = v[i]
        /\ \A i \in 1 .. Len(u) + 1 :
              /\ Empties(N, s, i) <=> Empties(N, u, i) /\ Empties(N, m, 1) /\ Empties(N, v, 1)
              /\ \A b : b \in FirstFrom(F, N, s, i) <=>
                   \/ b \in FirstFrom(F, N, u, i)
                   \/ /\ Empties(N, u, i)
                      /\ \/ b \in FirstFrom(F, N, m, 1)
                         \/ Empties(N, m, 1) /\ b \in FirstFrom(F, N, v, 1)
        /\ \A i \in 1 .. Len(v) + 1 : \A b :
              b \in FirstFrom(F, N, s, (Len(u) + Len(m)) + i) <=> b \in FirstFrom(F, N, v, i)
    <3>1. Parts(N, F, u, m, v, s)
      BY <2>1, ThreeParts
    <3>2. QED BY <3>1 DEF Parts
  <2>3. s[Len(u) + 1] = x
    BY <1>1, <2>1, <2>2 DEF m
  <2>4. (Empties(N, m, 1) <=> NullableSymbol(N, x)) /\ FirstFrom(F, N, m, 1) = GetFirst(F, x)
    BY <1>1 DEF m
  <2>5. QED BY <2>1, <2>2, <2>3, <2>4
<1>3. /\ ly \in Nat /\ Len(t) = lu + ly + lv
      /\ \A i \in 1 .. lu : t[i] = u[i]
      /\ \A i \in 1 .. ly : t[lu + i] = y[i]
      /\ \A i \in 1 .. lv : t[(lu + ly) + i] = v[i]
      /\ \A i \in 1 .. lu + 1 :
              /\ Empties(N, t, i) <=> Empties(N, u, i) /\ Empties(N, y, 1) /\ Empties(N, v, 1)
              /\ \A b : b \in FirstFrom(F, N, t, i) <=>
                   \/ b \in FirstFrom(F, N, u, i)
                   \/ /\ Empties(N, u, i)
                      /\ \/ b \in FirstFrom(F, N, y, 1)
                         \/ Empties(N, y, 1) /\ b \in FirstFrom(F, N, v, 1)
      /\ \A i \in 1 .. ly + 1 : \A b :
              b \in FirstFrom(F, N, t, lu + i) <=>
                b \in FirstFrom(F, N, y, i) \/ (Empties(N, y, i) /\ b \in FirstFrom(F, N, v, 1))
      /\ \A i \in 1 .. lv + 1 : \A b :
              b \in FirstFrom(F, N, t, (lu + ly) + i) <=> b \in FirstFrom(F, N, v, i)
  <2>1. Parts(N, F, u, y, v, t)
    BY <1>0, ThreeParts
  <2>2. QED BY <2>1 DEF Parts
<1> HIDE DEF lu, lv, ly
<1>4. x \in Nonterminals => x \in nterms
  <2>1. lu + 1 \in 1 .. Len(s)
    BY <1>2
  <2>2. QED BY <1>2, <2>1 DEF Live
<1>5. /\ Live(y) /\ (Empties(N, y, 1) => NullableSymbol(N, x))
      /\ FirstFrom(F, N, y, 1) \subseteq GetFirst(F, x)
      /\ \A i \in 1 .. Len(y) : y[i] \in Nonterminals =>
           /\ x \in nterms
           /\ FirstFrom(F, N, y, i + 1) \subseteq W[y[i]]
           /\ Empties(N, y, i + 1) => W[x] \subseteq W[y[i]]
  BY <1>0, <1>4, RewritesFacts
<1>6. ASSUME NEW i \in 1 .. lu + 1
      PROVE  /\ FirstFrom(F, N, t, i) \subseteq FirstFrom(F, N, s, i)
             /\ Empties(N, t, i) => Empties(N, s, i)
  BY <1>2, <1>3, <1>5
\* The places of t, and of s.
<1>7. \A i \in 1 .. Len(t) :
        \/ i \in 1 .. lu
        \/ \E j \in 1 .. ly : i = lu + j /\ i + 1 = lu + (j + 1)
        \/ \E j \in 1 .. lv : i = (lu + ly) + j /\ i + 1 = (lu + ly) + (j + 1)
  <2>1. SUFFICES ASSUME NEW i \in 1 .. Len(t), i \notin 1 .. lu
                 PROVE  \/ \E j \in 1 .. ly : i = lu + j /\ i + 1 = lu + (j + 1)
                        \/ \E j \in 1 .. lv : i = (lu + ly) + j /\ i + 1 = (lu + ly) + (j + 1)
    OBVIOUS
  <2>2. CASE i <= lu + ly
    <3>1. i - lu \in 1 .. ly /\ i = lu + (i - lu) /\ i + 1 = lu + ((i - lu) + 1)
      BY <1>2, <1>3, <2>1, <2>2
    <3>2. QED BY <3>1
  <2>3. CASE i > lu + ly
    <3>1. /\ i - (lu + ly) \in 1 .. lv /\ i = (lu + ly) + (i - (lu + ly))
          /\ i + 1 = (lu + ly) + ((i - (lu + ly)) + 1)
      BY <1>2, <1>3, <2>1, <2>3
    <3>2. QED BY <3>1
  <2>4. QED BY <1>2, <1>3, <2>2, <2>3
<1>8. /\ lu + 1 \in 1 .. Len(s) /\ (lu + 1) + 1 \in Int
      /\ \A i \in 1 .. lu : i \in 1 .. Len(s) /\ i + 1 \in 1 .. lu + 1
      /\ \A j \in 1 .. lv : /\ (lu + 1) + j \in 1 .. Len(s) /\ j + 1 \in 1 .. lv + 1
                            /\ ((lu + 1) + j) + 1 = (lu + 1) + (j + 1)
      /\ \A j \in 1 .. ly : j + 1 \in 1 .. ly + 1
  BY <1>2, <1>3
<1>9. Live(t)
  <2>1. SUFFICES ASSUME NEW i \in 1 .. Len(t), t[i] \in Nonterminals PROVE t[i] \in nterms
    BY DEF Live
  <2>2. CASE i \in 1 .. lu
    BY <1>2, <1>3, <1>8, <2>1, <2>2 DEF Live
  <2>3. ASSUME NEW j \in 1 .. ly, i = lu + j
        PROVE  t[i] \in nterms
    BY <1>3, <1>5, <2>1, <2>3 DEF Live, ly
  <2>4. ASSUME NEW j \in 1 .. lv, i = (lu + ly) + j
        PROVE  t[i] \in nterms
    <3>1. t[i] = s[(lu + 1) + j] /\ (lu + 1) + j \in 1 .. Len(s)
      BY <1>2, <1>3, <1>8, <2>4
    <3>2. QED BY <2>1, <3>1 DEF Live
  <2>5. QED BY <1>7, <2>2, <2>3, <2>4
<1>10. ASSUME Followed(F, N, W, s)
       PROVE  Followed(F, N, W, t)
  <2>1. SUFFICES ASSUME NEW i \in 1 .. Len(t), t[i] \in Nonterminals, NEW b \in FirstFrom(F, N, t, i + 1)
                 PROVE  b \in W[t[i]]
    BY DEF Followed
  <2>2. CASE i \in 1 .. lu
    <3>1. i \in 1 .. Len(s) /\ i + 1 \in 1 .. lu + 1 /\ t[i] = s[i]
      BY <1>2, <1>3, <1>8, <2>2
    <3>2. FirstFrom(F, N, s, i + 1) \subseteq W[s[i]]
      BY <1>10, <2>1, <3>1 DEF Followed
    <3>3. QED BY <1>6, <2>1, <3>1, <3>2
  <2>3. ASSUME NEW j \in 1 .. ly, i = lu + j, i + 1 = lu + (j + 1)
        PROVE  b \in W[t[i]]
    <3>1. t[i] = y[j] /\ j + 1 \in 1 .. ly + 1
      BY <1>3, <1>8, <2>3
    <3>2. b \in FirstFrom(F, N, y, j + 1) \/ (Empties(N, y, j + 1) /\ b \in FirstFrom(F, N, v, 1))
      BY <1>3, <2>1, <2>3, <3>1
    <3>3. /\ x \in nterms /\ FirstFrom(F, N, y, j + 1) \subseteq W[y[j]]
          /\ Empties(N, y, j + 1) => W[x] \subseteq W[y[j]]
      BY <1>5, <2>1, <3>1 DEF ly
    <3>4. FirstFrom(F, N, s, (lu + 1) + 1) \subseteq W[x]
      BY <1>2, <1>8, <1>10, <3>3 DEF Followed
    <3>5. b \in FirstFrom(F, N, v, 1) => b \in FirstFrom(F, N, s, (lu + 1) + 1)
      <4>1. 1 \in 1 .. lv + 1
        BY <1>2
      <4>2. QED BY <1>2, <4>1
    <3>6. QED BY <3>1, <3>2, <3>3, <3>4, <3>5
  <2>4. ASSUME NEW j \in 1 .. lv, i = (lu + ly) + j, i + 1 = (lu + ly) + (j + 1)
        PROVE  b \in W[t[i]]
    <3> DEFINE q == (lu + 1) + j
    <3>1. t[i] = s[q] /\ q \in 1 .. Len(s) /\ j + 1 \in 1 .. lv + 1 /\ q + 1 = (lu + 1) + (j + 1)
      BY <1>2, <1>3, <1>8, <2>4
    <3> HIDE DEF q
    <3>2. b \in FirstFrom(F, N, s, q + 1)
      BY <1>2, <1>3, <2>1, <2>4, <3>1
    <3>3. FirstFrom(F, N, s, q + 1) \subseteq W[s[q]]
      BY <1>10, <2>1, <3>1 DEF Followed
    <3>4. QED BY <3>1, <3>2, <3>3
  <2>5. QED BY <1>7, <2>2, <2>3, <2>4
<1>11. 1 \in 1 .. lu + 1
  BY <1>2
<1>12. QED BY <1>6, <1>9, <1>10, <1>11

\* What a symbol derives goes by the tables: it is nullable only if the symbol is, and
\* begins only with what is FIRST of it; and what follows in a form that the root
\* derives is in FOLLOW.
LEMMA DerivedGoesByTables ==
  ASSUME grammar \in Grammars, nterms \subseteq Nonterminals, NothingMissing, NEW N, NEW F, NEW W,
         Solves(N, F, W), NEW s \in Forms, Live(s), NEW t \in Forms, Derives(s, t)
  PROVE  /\ Live(t) /\ (Empties(N, t, 1) => Empties(N, s, 1))
         /\ FirstFrom(F, N, t, 1) \subseteq FirstFrom(F, N, s, 1)
         /\ Followed(F, N, W, s) => Followed(F, N, W, t)
<1> DEFINE S == {r \in Forms : /\ Live(r) /\ (Empties(N, r, 1) => Empties(N, s, 1))
                               /\ FirstFrom(F, N, r, 1) \subseteq FirstFrom(F, N, s, 1)
                               /\ Followed(F, N, W, s) => Followed(F, N, W, r)}
<1>1. S \in SUBSET Forms /\ s \in S
  OBVIOUS
<1>2. ASSUME NEW r \in S, NEW q \in Forms, Yields(r, q)
      PROVE  q \in S
  <2>1. /\ Live(q) /\ (Empties(N, q, 1) => Empties(N, r, 1))
        /\ FirstFrom(F, N, q, 1) \subseteq FirstFrom(F, N, r, 1)
        /\ Followed(F, N, W, r) => Followed(F, N, W, q)
    BY <1>2, YieldsFacts
  <2>2. QED BY <2>1
<1> HIDE DEF S
<1>3. t \in S
  BY <1>1, <1>2 DEF Derives, Preserved
<1>4. QED BY <1>3 DEF S

\* The same of what a single symbol derives.
LEMMA SymbolGoesByTables ==
  ASSUME grammar \in Grammars, nterms \subseteq Nonterminals, NothingMissing, NEW N, NEW F, NEW W,
         Solves(N, F, W), NEW x \in Symbols, x \in Nonterminals => x \in nterms,
         NEW t \in Forms, Derives(<<x>>, t)
  PROVE  /\ Empties(N, t, 1) => NullableSymbol(N, x)
         /\ FirstFrom(F, N, t, 1) \subseteq GetFirst(F, x)
<1>1. /\ <<x>> \in Forms /\ (Empties(N, <<x>>, 1) <=> NullableSymbol(N, x))
      /\ FirstFrom(F, N, <<x>>, 1) = GetFirst(F, x)
  BY SingleForm
<1>2. Live(<<x>>)
  BY DEF Live
<1>3. QED BY <1>1, <1>2, DerivedGoesByTables

\* What follows a nonterminal in a form that the root derives.
LEMMA FormGoesByTables ==
  ASSUME grammar \in Grammars, nterms \subseteq Nonterminals, NothingMissing, NEW N, NEW F, NEW W,
         Solves(N, F, W), grammar.root \in nterms, NEW n \in Nonterminals, NEW u \in Forms, NEW v \in Forms,
         Derives(<<grammar.root>>, (u ++ <<n>>) ++ v)
  PROVE  Live(v) /\ FirstFrom(F, N, v, 1) \subseteq W[n]
<1> DEFINE m == <<n>>
<1> DEFINE r == (u ++ m) ++ v
<1>1. m \in Forms /\ Len(m) = 1 /\ m[1] = n /\ n \in Symbols
  BY SingleForm DEF Symbols
<1>2. Parts(N, F, u, m, v, r)
  <2> HIDE DEF m
  <2>1. QED BY <1>1, ThreeParts
<1>3. Live(<<grammar.root>>) /\ Followed(F, N, W, <<grammar.root>>) /\ <<grammar.root>> \in Forms
  <2>1. grammar.root \in Symbols
    BY DEF Symbols
  <2>2. FirstFrom(F, N, <<grammar.root>>, 2) = {} /\ <<grammar.root>> \in Forms
    BY <2>1, SingleForm
  <2>3. QED BY <2>2 DEF Live, Followed
<1>4. r \in Forms
  BY <1>2 DEF Parts
<1>5. Live(r) /\ Followed(F, N, W, r)
  BY <1>3, <1>4, DerivedGoesByTables
<1> HIDE DEF r, m
<1>6. /\ Len(u) \in Nat /\ Len(v) \in Nat /\ Len(r) = Len(u) + 1 + Len(v) /\ r[Len(u) + 1] = n
      /\ \A i \in 1 .. Len(v) : r[(Len(u) + 1) + i] = v[i]
      /\ \A b : b \in FirstFrom(F, N, r, (Len(u) + 1) + 1) <=> b \in FirstFrom(F, N, v, 1)
  <2>1. Len(v) \in Nat /\ 1 \in 1 .. Len(m) /\ 1 \in 1 .. Len(v) + 1
    BY <1>1, <1>2 DEF Parts
  <2>2. QED BY <1>1, <1>2, <2>1 DEF Parts
<1>7. Len(u) + 1 \in 1 .. Len(r)
  BY <1>6
<1>8. FirstFrom(F, N, v, 1) \subseteq W[n]
  BY <1>5, <1>6, <1>7 DEF Followed
<1>9. \A i \in 1 .. Len(v) : (Len(u) + 1) + i \in 1 .. Len(r)
  BY <1>6
<1>10. Live(v)
  BY <1>5, <1>6, <1>9 DEF Live
<1>11. QED BY <1>8, <1>10

\* Forms after one another, again.
LEMMA Cat ==
  ASSUME NEW s \in Forms, NEW t \in Forms
  PROVE  s ++ t \in Forms /\ s ++ <<>> = s /\ <<>> ++ s = s
BY ConcatProperties, ConcatEmptySeq DEF Forms, ++

\* It does not matter in which order they are put together.
LEMMA CatCat ==
  ASSUME NEW s \in Forms, NEW t \in Forms, NEW r \in Forms
  PROVE  (s ++ t) ++ r = s ++ (t ++ r)
BY ConcatAssociative DEF Forms, ++

\* Anything derives itself.
LEMMA DerivesItself ==
  ASSUME NEW s \in Forms
  PROVE  Derives(s, s)
BY DEF Derives

\* A step is a derivation.
LEMMA DerivesStep ==
  ASSUME NEW s \in Forms, NEW t \in Forms, Yields(s, t)
  PROVE  Derives(s, t)
BY DEF Derives, Preserved

\* Derivations go on from one another.
LEMMA DerivesFurther ==
  ASSUME NEW s \in Forms, NEW t \in Forms, NEW r \in Forms, Derives(s, t), Derives(t, r)
  PROVE  Derives(s, r)
BY DEF Derives

\* They go on within a context.
LEMMA YieldsWithin ==
  ASSUME NEW s \in Forms, NEW t \in Forms, Yields(s, t), NEW u \in Forms, NEW v \in Forms
  PROVE  Yields((u ++ s) ++ v, (u ++ t) ++ v)
<1>1. PICK p \in Forms, q \in Forms, y \in Forms, x \in Symbols :
        s = (p ++ <<x>>) ++ q /\ t = (p ++ y) ++ q /\ Rewrites(x, y)
  BY DEF Yields
<1>2. ASSUME NEW m \in Forms
      PROVE  (u ++ ((p ++ m) ++ q)) ++ v = ((u ++ p) ++ m) ++ (q ++ v)
  <2>1. /\ p ++ m \in Forms /\ q ++ v \in Forms /\ u ++ p \in Forms /\ (p ++ m) ++ q \in Forms
    BY Cat
  <2>2. QED BY <2>1, CatCat
<1>3. <<x>> \in Forms /\ u ++ p \in Forms /\ q ++ v \in Forms
  BY Cat, SingleForm
<1>4. /\ (u ++ s) ++ v = ((u ++ p) ++ <<x>>) ++ (q ++ v)
      /\ (u ++ t) ++ v = ((u ++ p) ++ y) ++ (q ++ v)
  BY <1>1, <1>2, <1>3
<1>5. QED BY <1>1, <1>3, <1>4 DEF Yields

\* Whole derivations do, too.
LEMMA DerivesWithin ==
  ASSUME NEW s \in Forms, NEW t \in Forms, Derives(s, t), NEW u \in Forms, NEW v \in Forms
  PROVE  Derives((u ++ s) ++ v, (u ++ t) ++ v)
<1> DEFINE a == (u ++ s) ++ v
<1> DEFINE S == {r \in Forms : Derives(a, (u ++ r) ++ v)}
<1>1. a \in Forms
  <2>1. u ++ s \in Forms
    BY Cat
  <2>2. QED BY <2>1, Cat
<1> HIDE DEF a
<1>2. S \in SUBSET Forms /\ s \in S
  <2>1. Derives(a, (u ++ s) ++ v)
    BY <1>1, DerivesItself DEF a
  <2>2. QED BY <2>1
<1>3. ASSUME NEW r \in S, NEW q \in Forms, Yields(r, q)
      PROVE  q \in S
  <2>1. (u ++ r) ++ v \in Forms /\ (u ++ q) ++ v \in Forms
    <3>1. u ++ r \in Forms /\ u ++ q \in Forms
      BY Cat
    <3>2. QED BY <3>1, Cat
  <2>2. Yields((u ++ r) ++ v, (u ++ q) ++ v)
    BY <1>3, YieldsWithin
  <2>3. Derives((u ++ r) ++ v, (u ++ q) ++ v)
    BY <2>1, <2>2, DerivesStep
  <2>4. Derives(a, (u ++ q) ++ v)
    BY <1>1, <2>1, <2>3, DerivesFurther
  <2>5. QED BY <2>4
<1> HIDE DEF S
<1>4. t \in S
  BY <1>2, <1>3 DEF Derives, Preserved
<1>5. QED BY <1>4 DEF S, a

\* So they may go on before something that stays.
LEMMA DerivesAhead ==
  ASSUME NEW s \in Forms, NEW t \in Forms, Derives(s, t), NEW v \in Forms
  PROVE  Derives(s ++ v, t ++ v)
<1>1. <<>> \in Forms
  BY DEF Forms
<1>2. Derives((<<>> ++ s) ++ v, (<<>> ++ t) ++ v)
  BY <1>1, DerivesWithin
<1>3. QED BY <1>2, Cat

\* Or after something.
LEMMA DerivesBehind ==
  ASSUME NEW s \in Forms, NEW t \in Forms, Derives(s, t), NEW u \in Forms
  PROVE  Derives(u ++ s, u ++ t)
<1>1. <<>> \in Forms
  BY DEF Forms
<1>2. Derives((u ++ s) ++ <<>>, (u ++ t) ++ <<>>)
  BY <1>1, DerivesWithin
<1>3. u ++ s \in Forms /\ u ++ t \in Forms
  BY Cat
<1>4. QED BY <1>1, <1>2, <1>3, Cat

\* A set of natural numbers has a least one.
LEMMA Least ==
  ASSUME NEW T, T \subseteq Nat, T # {}
  PROVE  \E m \in T : \A k \in T : m <= k
<1>1. IsWellFoundedOn(OpToRel(<, Nat), Nat)
  BY NatLessThanWellFounded
<1>2. PICK m \in T : \A k \in T : ~ (<<k, m>> \in OpToRel(<, Nat))
  BY <1>1, WFMin
<1>3. \A k \in T : ~(k < m)
  BY <1>2 DEF OpToRel
<1>4. QED BY <1>3

\* The part of a form from place i to place j - 1.
Part(s, i, j) == SubSeq(s, i, j - 1)

\* How parts make up a form.
LEMMA PartFacts ==
  ASSUME NEW s \in Forms
  PROVE  /\ Len(s) \in Nat /\ DOMAIN s = 1 .. Len(s)
         /\ \A i \in 1 .. Len(s) : s[i] \in Symbols /\ <<s[i]>> \in Forms
         /\ \A i \in 1 .. Len(s) + 1 : Part(s, i, i) = <<>>
         /\ Part(s, 1, Len(s) + 1) = s
         /\ \A i \in 1 .. Len(s) + 1 : \A j \in i .. Len(s) + 1 : Part(s, i, j) \in Forms
         /\ \A i \in 1 .. Len(s) : \A j \in i + 1 .. Len(s) + 1 :
              Part(s, i, j) = <<s[i]>> ++ Part(s, i + 1, j)
         /\ \A i \in 1 .. Len(s) + 1 : \A k \in i .. Len(s) + 1 : \A j \in k .. Len(s) + 1 :
              Part(s, i, j) = Part(s, i, k) ++ Part(s, k, j)
<1>1. Len(s) \in Nat /\ DOMAIN s = 1 .. Len(s) /\ \A i \in 1 .. Len(s) : s[i] \in Symbols
  BY DEF Forms
<1>2. \A i \in 1 .. Len(s) : <<s[i]>> \in Forms
  BY <1>1, SingleForm
<1>3. ASSUME NEW i \in 1 .. Len(s) + 1
      PROVE  Part(s, i, i) = <<>>
  <2>1. i \in Int /\ i - 1 \in Int /\ i - 1 < i
    BY <1>1
  <2>2. QED BY <2>1, SubSeqEmpty DEF Part
<1>4. Part(s, 1, Len(s) + 1) = s
  <2>1. (Len(s) + 1) - 1 = Len(s)
    BY <1>1
  <2>2. SubSeq(s, 1, Len(s)) = s
    BY SubSeqFull DEF Forms
  <2>3. QED BY <2>1, <2>2 DEF Part
<1>5. ASSUME NEW i \in 1 .. Len(s) + 1, NEW j \in i .. Len(s) + 1
      PROVE  Part(s, i, j) \in Forms
  <2>1. i \in Int /\ j - 1 \in Int /\ \A k \in i .. j - 1 : k \in 1 .. Len(s)
    BY <1>1
  <2>2. \A k \in i .. j - 1 : s[k] \in Symbols
    BY <1>1, <2>1
  <2>3. QED BY <2>1, <2>2, SubSeqProperties DEF Part, Forms
<1>6. ASSUME NEW i \in 1 .. Len(s), NEW j \in i + 1 .. Len(s) + 1
      PROVE  Part(s, i, j) = <<s[i]>> ++ Part(s, i + 1, j)
  <2>1. j - 1 \in i .. Len(s)
    BY <1>1
  <2>2. s \in Seq(Symbols)
    BY DEF Forms
  <2>3. SubSeq(s, i, j - 1) = <<s[i]>> \o SubSeq(s, i + 1, j - 1)
    BY <2>1, <2>2, SubSeqRecursiveFirst
  <2>4. QED BY <2>3 DEF Part, ++
<1>7. ASSUME NEW i \in 1 .. Len(s) + 1, NEW k \in i .. Len(s) + 1, NEW j \in k .. Len(s) + 1
      PROVE  Part(s, i, j) = Part(s, i, k) ++ Part(s, k, j)
  <2>1. k - 1 \in i - 1 .. Len(s) /\ j - 1 \in k - 1 .. Len(s) /\ (k - 1) + 1 = k
    BY <1>1
  <2>2. s \in Seq(Symbols)
    BY DEF Forms
  <2>3. SubSeq(s, i, k - 1) \o SubSeq(s, (k - 1) + 1, j - 1) = SubSeq(s, i, j - 1)
    BY <2>1, <2>2, ConcatAdjacentSubSeq
  <2>4. QED BY <2>1, <2>3 DEF Part, ++
<1>8. QED BY <1>1, <1>2, <1>3, <1>4, <1>5, <1>6, <1>7

\* The sets that derivations give: which nonterminals derive nothing, what they may
\* begin with, and what may follow them.
DerivedNullable == [n \in Nonterminals |-> DerivesNothing(n)]
DerivedFirst == [n \in Nonterminals |-> Begins(n)]
DerivedFollow == [n \in Nonterminals |-> Follows(n)]

\* By them, a nullable part derives nothing.
LEMMA NullablePartDerivesNothing ==
  ASSUME NEW s \in Forms, NEW i0 \in 1 .. Len(s) + 1, NEW j \in i0 .. Len(s) + 1,
         NullableRange(DerivedNullable, s, i0, j)
  PROVE  Derives(Part(s, i0, j), <<>>)
<1> DEFINE bad(d) == \E i \in 1 .. Len(s) + 1 :
                       i + d = j /\ NullableRange(DerivedNullable, s, i, j) /\ ~Derives(Part(s, i, j), <<>>)
<1> DEFINE T == {d \in Nat : bad(d)}
<1>0. Len(s) \in Nat /\ <<>> \in Forms
  BY PartFacts DEF Forms
<1>1. SUFFICES ASSUME T # {} PROVE FALSE
  <2>1. ASSUME ~Derives(Part(s, i0, j), <<>>)
        PROVE  bad(j - i0)
    <3>1. i0 + (j - i0) = j
      BY <1>0
    <3>2. QED BY <2>1, <3>1
  <2>2. j - i0 \in Nat
    BY <1>0
  <2>3. QED BY <2>1, <2>2
<1>2. PICK d \in T : \A e \in T : d <= e
  <2>1. T \subseteq Nat
    OBVIOUS
  <2> HIDE DEF T
  <2>2. QED BY <1>1, <2>1, Least
<1>3. PICK i \in 1 .. Len(s) + 1 :
        i + d = j /\ NullableRange(DerivedNullable, s, i, j) /\ ~Derives(Part(s, i, j), <<>>)
  BY <1>2
<1>4. d # 0
  <2>1. Part(s, i, i) = <<>>
    BY PartFacts
  <2>2. Derives(<<>>, <<>>)
    BY <1>0, DerivesItself
  <2>3. d = 0 => i = j
    BY <1>0, <1>3
  <2>4. QED BY <1>3, <2>1, <2>2, <2>3
<1>5. i \in 1 .. Len(s) /\ j \in i + 1 .. Len(s) + 1 /\ i + 1 \in 1 .. Len(s) + 1 /\ j \in i + 1 .. Len(s) + 1
  BY <1>0, <1>3, <1>4
<1>6. NullableSymbol(DerivedNullable, s[i]) /\ NullableRange(DerivedNullable, s, i + 1, j)
  <2>1. i \in i .. j - 1 /\ \A p \in i + 1 .. j - 1 : p \in i .. j - 1
    BY <1>0, <1>5
  <2>2. QED BY <1>3, <2>1 DEF NullableRange
<1>7. Derives(Part(s, i + 1, j), <<>>)
  <2>1. d - 1 \in Nat /\ (i + 1) + (d - 1) = j /\ ~(d <= d - 1)
    BY <1>0, <1>3, <1>4, <1>5
  <2>2. d - 1 \notin T
    BY <1>2, <2>1
  <2>3. QED BY <1>5, <1>6, <2>1, <2>2
<1>8. s[i] \in Symbols /\ <<s[i]>> \in Forms /\ Part(s, i + 1, j) \in Forms /\ Part(s, i, j) \in Forms
  BY <1>5, PartFacts
<1>9. Derives(<<s[i]>>, <<>>)
  <2>1. CASE s[i] = Epsilon
    <3>1. <<s[i]>> = (<<>> ++ <<s[i]>>) ++ <<>> /\ <<>> = (<<>> ++ <<>>) ++ <<>>
      BY <1>0, <1>8, Cat
    <3>2. Rewrites(s[i], <<>>)
      BY <2>1 DEF Rewrites
    <3>3. Yields(<<s[i]>>, <<>>)
      BY <1>0, <1>8, <3>1, <3>2 DEF Yields
    <3>4. QED BY <1>0, <1>8, <3>3, DerivesStep
  <2>2. CASE s[i] \in Nonterminals /\ DerivedNullable[s[i]]
    BY <2>2 DEF DerivedNullable, DerivesNothing
  <2>3. QED BY <1>6, <2>1, <2>2 DEF NullableSymbol
<1>10. Derives(<<s[i]>> ++ Part(s, i + 1, j), <<>> ++ Part(s, i + 1, j))
  BY <1>0, <1>8, <1>9, DerivesAhead
<1>11. Part(s, i, j) = <<s[i]>> ++ Part(s, i + 1, j) /\ <<>> ++ Part(s, i + 1, j) = Part(s, i + 1, j)
  <2>1. Part(s, i, j) = <<s[i]>> ++ Part(s, i + 1, j)
    BY <1>5, PartFacts
  <2>2. QED BY <1>8, <2>1, Cat
<1>12. Derives(Part(s, i, j), <<>>)
  BY <1>0, <1>7, <1>8, <1>10, <1>11, DerivesFurther
<1>13. QED BY <1>3, <1>12

\* And what is in FIRST of a symbol by them, it may begin with.
LEMMA FirstBegins ==
  ASSUME NEW x \in Symbols, NEW b \in GetFirst(DerivedFirst, x)
  PROVE  b \in Terminals /\ \E w \in Forms : Derives(<<x>>, <<b>> ++ w)
<1>1. CASE x \in Nonterminals
  <2>1. x # Epsilon
    BY <1>1, GrammarsAssumption
  <2>2. b \in Begins(x)
    BY <1>1, <2>1 DEF GetFirst, DerivedFirst
  <2>3. QED BY <2>2 DEF Begins
<1>2. CASE x \notin Nonterminals
  <2>1. x = b /\ b \in Terminals
    BY <1>2 DEF GetFirst, Symbols
  <2>2. <<b>> \in Forms /\ <<>> \in Forms
    BY <2>1, SingleForm
  <2>3. <<b>> ++ <<>> = <<b>>
    BY <2>2, Cat
  <2>4. Derives(<<x>>, <<b>> ++ <<>>)
    BY <2>1, <2>2, <2>3, DerivesItself
  <2>5. QED BY <2>1, <2>2, <2>4
<1>3. QED BY <1>1, <1>2

\* The same of a part, going by its FIRST.
LEMMA PartBegins ==
  ASSUME NEW s \in Forms, NEW i \in 1 .. Len(s) + 1,
         NEW b \in FirstFrom(DerivedFirst, DerivedNullable, s, i)
  PROVE  b \in Terminals /\ \E w \in Forms : Derives(Part(s, i, Len(s) + 1), <<b>> ++ w)
<1> DEFINE e == Len(s) + 1
<1>1. PICK j \in i .. Len(s) : NullableRange(DerivedNullable, s, i, j) /\ b \in GetFirst(DerivedFirst, s[j])
  BY DEF FirstFrom
<1>2. /\ Len(s) \in Nat /\ j \in 1 .. Len(s) /\ j \in i .. e /\ j + 1 \in 1 .. e /\ j + 1 \in j .. e
      /\ e \in j .. e /\ e \in j + 1 .. e /\ i \in 1 .. e /\ j \in 1 .. e /\ e \in i .. e
  <2>1. Len(s) \in Nat
    BY PartFacts
  <2>2. QED BY <2>1
<1>3. s[j] \in Symbols /\ <<s[j]>> \in Forms
  BY <1>2, PartFacts
<1>4. b \in Terminals /\ \E w \in Forms : Derives(<<s[j]>>, <<b>> ++ w)
  BY <1>1, <1>3, FirstBegins
<1>5. PICK w \in Forms : Derives(<<s[j]>>, <<b>> ++ w)
  BY <1>4
<1>6. Derives(Part(s, i, j), <<>>)
  BY <1>1, <1>2, NullablePartDerivesNothing
<1> DEFINE p == Part(s, i, j)
<1> DEFINE q == Part(s, j + 1, e)
<1>7. p \in Forms /\ q \in Forms /\ Part(s, i, e) = p ++ (<<s[j]>> ++ q) /\ Part(s, i, e) \in Forms
  <2>1. Part(s, i, e) = p ++ Part(s, j, e)
    BY <1>2, PartFacts
  <2>2. Part(s, j, e) = <<s[j]>> ++ q
    <3>1. \A a \in 1 .. Len(s) : \A c \in a + 1 .. e : Part(s, a, c) = <<s[a]>> ++ Part(s, a + 1, c)
      BY PartFacts
    <3> HIDE DEF e
    <3>2. QED BY <1>2, <3>1
  <2>3. p \in Forms /\ q \in Forms /\ Part(s, i, e) \in Forms
    BY <1>2, PartFacts
  <2>4. QED BY <2>1, <2>2, <2>3
<1> DEFINE m == <<s[j]>>
<1> DEFINE l == <<b>>
<1>8. m \in Forms /\ l \in Forms /\ <<>> \in Forms /\ Derives(m, l ++ w) /\ Derives(p, <<>>)
  <2>1. b \in Symbols
    BY <1>4 DEF Symbols
  <2>2. QED BY <1>3, <1>5, <1>6, <2>1, SingleForm
<1>9. Part(s, i, e) = p ++ (m ++ q)
  BY <1>7
<1> HIDE DEF m, l, p, q, e
<1>10. l ++ w \in Forms /\ m ++ q \in Forms /\ w ++ q \in Forms
  BY <1>7, <1>8, Cat
<1>11. Derives(p ++ (m ++ q), <<>> ++ (m ++ q))
  BY <1>7, <1>8, <1>10, DerivesAhead
<1>12. <<>> ++ (m ++ q) = m ++ q
  BY <1>10, Cat
<1>13. Derives(m ++ q, (l ++ w) ++ q)
  BY <1>7, <1>8, <1>10, DerivesAhead
<1>14. (l ++ w) ++ q = l ++ (w ++ q)
  BY <1>7, <1>8, CatCat
<1>15. p ++ (m ++ q) \in Forms /\ l ++ (w ++ q) \in Forms
  BY <1>7, <1>8, <1>10, Cat
<1>16. Derives(p ++ (m ++ q), l ++ (w ++ q))
  BY <1>10, <1>11, <1>12, <1>13, <1>14, <1>15, DerivesFurther
<1>17. QED BY <1>4, <1>9, <1>10, <1>16 DEF e, l

\* The root derives some form with n in it.
Reached(n) == \E u, v \in Forms : Derives(<<grammar.root>>, (u ++ <<n>>) ++ v)

\* A nonterminal gives way to its right-hand sides.
LEMMA DerivesRhs ==
  ASSUME grammar \in Grammars, NEW n \in Nonterminals, NEW k \in DOMAIN Rhss(n)
  PROVE  <<n>> \in Forms /\ Rhss(n)[k] \in Forms /\ Derives(<<n>>, Rhss(n)[k])
<1> DEFINE y == Rhss(n)[k]
<1>1. n \in Symbols /\ <<n>> \in Forms /\ <<>> \in Forms /\ y \in Forms
  <2>1. n \in Symbols
    BY DEF Symbols
  <2>2. QED BY <2>1, SingleForm, RhsForm
<1>2. Rewrites(n, y)
  BY DEF Rewrites
<1> HIDE DEF y
<1>3. <<n>> = (<<>> ++ <<n>>) ++ <<>> /\ y = (<<>> ++ y) ++ <<>>
  BY <1>1, Cat
<1>4. Yields(<<n>>, y)
  BY <1>1, <1>2, <1>3 DEF Yields
<1>5. QED BY <1>1, <1>4, DerivesStep DEF y

\* What the right-hand sides of such a nonterminal mention is reached.
LEMMA ReachesRhs ==
  ASSUME grammar \in Grammars, NEW n \in Nonterminals, NEW u \in Forms, NEW v \in Forms,
         Derives(<<grammar.root>>, (u ++ <<n>>) ++ v), grammar.root \in Nonterminals,
         NEW k \in DOMAIN Rhss(n), NEW i \in DOMAIN Rhss(n)[k]
  PROVE  LET y == Rhss(n)[k]
             p == Part(y, 1, i)
             q == Part(y, i + 1, Len(y) + 1)
         IN  /\ p \in Forms /\ q \in Forms /\ u ++ p \in Forms /\ q ++ v \in Forms /\ <<y[i]>> \in Forms
             /\ Derives(<<grammar.root>>, ((u ++ p) ++ <<y[i]>>) ++ (q ++ v))
<1> DEFINE y == Rhss(n)[k]
<1> DEFINE e == Len(y) + 1
<1> DEFINE p == Part(y, 1, i)
<1> DEFINE q == Part(y, i + 1, e)
<1> DEFINE m == <<y[i]>>
<1> DEFINE r == <<grammar.root>>
<1> DEFINE l == <<n>>
<1>1. l \in Forms /\ y \in Forms /\ Derives(l, y) /\ r \in Forms
  <2>1. grammar.root \in Symbols
    BY DEF Symbols
  <2>2. QED BY <2>1, DerivesRhs, SingleForm
<1>2. Derives(r, (u ++ l) ++ v)
  OBVIOUS
<1>3. i \in DOMAIN y
  OBVIOUS
<1> HIDE DEF y, r, l
<1>4. /\ Len(y) \in Nat /\ i \in 1 .. Len(y) /\ 1 \in 1 .. e /\ i \in 1 .. e /\ i + 1 \in 1 .. e
      /\ e \in i + 1 .. e /\ e \in i .. e
  <2>1. Len(y) \in Nat /\ DOMAIN y = 1 .. Len(y)
    BY <1>1, PartFacts
  <2>2. QED BY <1>3, <2>1
<1>5. p \in Forms /\ q \in Forms /\ m \in Forms
  BY <1>1, <1>4, PartFacts
<1>6. y = p ++ (m ++ q)
  <2>1. Part(y, 1, e) = p ++ Part(y, i, e)
    BY <1>1, <1>4, PartFacts
  <2>2. Part(y, i, e) = m ++ q
    BY <1>1, <1>4, PartFacts
  <2>3. Part(y, 1, e) = y
    BY <1>1, PartFacts
  <2>4. QED BY <2>1, <2>2, <2>3
<1> HIDE DEF p, q, m, e
<1>7. u ++ p \in Forms /\ q ++ v \in Forms /\ m ++ q \in Forms /\ (u ++ p) ++ m \in Forms /\ u ++ l \in Forms
  <2>1. u ++ p \in Forms
    BY <1>5, Cat
  <2>2. QED BY <1>1, <1>5, <2>1, Cat
<1>8. (u ++ y) ++ v = ((u ++ p) ++ m) ++ (q ++ v)
  <2>1. u ++ (p ++ (m ++ q)) = (u ++ p) ++ (m ++ q)
    BY <1>5, <1>7, CatCat
  <2>2. (u ++ p) ++ (m ++ q) = ((u ++ p) ++ m) ++ q
    BY <1>5, <1>7, CatCat
  <2>3. (((u ++ p) ++ m) ++ q) ++ v = ((u ++ p) ++ m) ++ (q ++ v)
    BY <1>5, <1>7, CatCat
  <2>4. QED BY <1>6, <2>1, <2>2, <2>3
<1>9. Derives((u ++ l) ++ v, (u ++ y) ++ v)
  BY <1>1, DerivesWithin
<1>10. (u ++ l) ++ v \in Forms /\ (u ++ y) ++ v \in Forms
  <2>1. u ++ y \in Forms
    BY <1>1, Cat
  <2>2. QED BY <1>7, <2>1, Cat
<1>11. Derives(r, ((u ++ p) ++ m) ++ (q ++ v))
  BY <1>1, <1>2, <1>8, <1>9, <1>10, DerivesFurther
<1>12. QED BY <1>5, <1>7, <1>11 DEF y, p, q, m, e, r

\* What the root reaches, the root derives a form with.
LEMMA ClosureIsReached ==
  ASSUME grammar \in Grammars
  PROVE  /\ grammar.root \in Closure
         /\ \A n \in Closure : n \in Nonterminals /\ Mentions(n) \subseteq Closure /\ Reached(n)
<1>0. grammar.root \in Nonterminals /\ grammar.root \in Symbols
  BY GrammarsAssumption DEF Symbols
<1>1. grammar.root \in Closure
  BY <1>0 DEF Closure
<1>2. ASSUME NEW n \in Closure, NEW m \in Mentions(n)
      PROVE  m \in Closure
  <2>1. m \in Nonterminals
    BY <1>2 DEF Mentions
  <2>2. ASSUME NEW S \in SUBSET Nonterminals, grammar.root \in S, \A k \in S : Mentions(k) \subseteq S
        PROVE  m \in S
    <3>1. n \in S
      BY <1>2, <2>2 DEF Closure
    <3>2. QED BY <1>2, <2>2, <3>1
  <2>3. QED BY <2>1, <2>2 DEF Closure
<1> DEFINE S == {n \in Nonterminals : Reached(n)}
<1>3. grammar.root \in S
  <2> DEFINE r == <<grammar.root>>
  <2>1. r \in Forms /\ <<>> \in Forms
    BY <1>0, SingleForm
  <2>2. Derives(r, r)
    BY <2>1, DerivesItself
  <2>3. r = (<<>> ++ r) ++ <<>>
    <3> HIDE DEF r
    <3>1. QED BY <2>1, Cat
  <2>4. \E u, v \in Forms : Derives(r, (u ++ r) ++ v)
    <3> HIDE DEF r
    <3>1. QED BY <2>1, <2>2, <2>3
  <2>5. QED BY <1>0, <2>4 DEF Reached
<1>4. ASSUME NEW n \in S, NEW m \in Mentions(n)
      PROVE  m \in S
  <2>1. PICK u \in Forms, v \in Forms : Derives(<<grammar.root>>, (u ++ <<n>>) ++ v)
    BY DEF Reached
  <2>0. PICK k \in DOMAIN Rhss(n) : \E j \in DOMAIN Rhss(n)[k] : m = Rhss(n)[k][j]
    BY <1>4 DEF Mentions
  <2>2. PICK i \in DOMAIN Rhss(n)[k] : m = Rhss(n)[k][i] /\ m \in Nonterminals
    BY <1>4, <2>0 DEF Mentions
  <2> DEFINE y == Rhss(n)[k]
  <2> DEFINE p == Part(y, 1, i)
  <2> DEFINE q == Part(y, i + 1, Len(y) + 1)
  <2>3. /\ u ++ p \in Forms /\ q ++ v \in Forms
        /\ Derives(<<grammar.root>>, ((u ++ p) ++ <<y[i]>>) ++ (q ++ v))
    BY <1>0, <2>1, ReachesRhs
  <2>4. y[i] = m
    BY <2>2
  <2> HIDE DEF y, p, q
  <2>5. QED BY <2>2, <2>3, <2>4 DEF Reached
<1>5. ASSUME NEW n \in Closure
      PROVE  n \in Nonterminals /\ Reached(n)
  <2>1. n \in S
    <3> HIDE DEF S
    <3>1. S \in SUBSET Nonterminals /\ \A m \in S : Mentions(m) \subseteq S
      BY <1>4 DEF S
    <3>2. QED BY <1>3, <3>1 DEF Closure
  <2>2. QED BY <2>1
<1>6. QED BY <1>1, <1>2, <1>5

\* The sets that derivations give satisfy the equations.
LEMMA DerivedSolves ==
  ASSUME grammar \in Grammars, nterms \subseteq Closure
  PROVE  Solves(DerivedNullable, DerivedFirst, DerivedFollow)
<1>0. grammar.root \in Nonterminals /\ <<grammar.root>> \in Forms
  <2>1. grammar.root \in Nonterminals /\ grammar.root \in Symbols
    BY GrammarsAssumption DEF Symbols
  <2>2. QED BY <2>1, SingleForm
<1> SUFFICES ASSUME NEW n \in nterms, NEW k \in DOMAIN Rhss(n)
             PROVE  LET y == Rhss(n)[k]
                    IN  /\ Empties(DerivedNullable, y, 1) => DerivedNullable[n]
                        /\ FirstFrom(DerivedFirst, DerivedNullable, y, 1) \subseteq DerivedFirst[n]
                        /\ \A i \in DOMAIN y : y[i] \in Nonterminals =>
                             /\ FirstFrom(DerivedFirst, DerivedNullable, y, i + 1) \subseteq DerivedFollow[y[i]]
                             /\ Empties(DerivedNullable, y, i + 1) => DerivedFollow[n] \subseteq DerivedFollow[y[i]]
  BY DEF Solves
<1> DEFINE y == Rhss(n)[k]
<1> DEFINE e == Len(y) + 1
<1>1. n \in Nonterminals /\ Reached(n)
  BY ClosureIsReached
<1>2. <<n>> \in Forms /\ y \in Forms /\ Derives(<<n>>, y)
  BY <1>1, DerivesRhs
<1>3. Len(y) \in Nat /\ DOMAIN y = 1 .. Len(y) /\ Part(y, 1, e) = y /\ <<>> \in Forms
  <2>1. Len(y) \in Nat /\ DOMAIN y = 1 .. Len(y) /\ Part(y, 1, e) = y
    <3>1. \A s \in Forms : Len(s) \in Nat /\ DOMAIN s = 1 .. Len(s) /\ Part(s, 1, Len(s) + 1) = s
      BY PartFacts
    <3> HIDE DEF y
    <3>2. QED BY <1>2, <3>1
  <2>2. QED BY <2>1 DEF Forms
<1> DEFINE DN == DerivedNullable
<1> DEFINE DF == DerivedFirst
<1>4. ASSUME Empties(DN, y, 1)
      PROVE  DN[n]
  <2>1. NullableRange(DN, y, 1, e)
    BY <1>4 DEF Empties
  <2> HIDE DEF y
  <2>2. 1 \in 1 .. Len(y) + 1 /\ e \in 1 .. Len(y) + 1
    BY <1>3
  <2>3. Derives(Part(y, 1, e), <<>>)
    BY <1>2, <2>1, <2>2, NullablePartDerivesNothing
  <2>4. Derives(<<n>>, <<>>)
    BY <1>2, <1>3, <2>3, DerivesFurther
  <2>5. QED BY <1>1, <2>4 DEF DerivedNullable, DerivesNothing
<1>5. ASSUME NEW b \in FirstFrom(DF, DN, y, 1)
      PROVE  b \in DF[n]
  <2> HIDE DEF y
  <2>1. 1 \in 1 .. Len(y) + 1
    BY <1>3
  <2>2. b \in Terminals /\ \E w \in Forms : Derives(Part(y, 1, e), <<b>> ++ w)
    BY <1>2, <1>5, <2>1, PartBegins
  <2>3. PICK w \in Forms : Derives(y, <<b>> ++ w)
    BY <1>3, <2>2
  <2>4. <<b>> ++ w \in Forms
    <3>1. b \in Symbols
      BY <2>2 DEF Symbols
    <3>2. <<b>> \in Forms
      BY <3>1, SingleForm
    <3>3. QED BY <3>2, Cat
  <2>5. Derives(<<n>>, <<b>> ++ w)
    BY <1>2, <2>3, <2>4, DerivesFurther
  <2>6. QED BY <1>1, <2>2, <2>5 DEF DerivedFirst, Begins
<1>6. ASSUME NEW i \in DOMAIN y, y[i] \in Nonterminals
      PROVE  /\ FirstFrom(DF, DN, y, i + 1) \subseteq DerivedFollow[y[i]]
             /\ Empties(DN, y, i + 1) => DerivedFollow[n] \subseteq DerivedFollow[y[i]]
  <2> DEFINE p == Part(y, 1, i)
  <2> DEFINE q == Part(y, i + 1, e)
  <2> DEFINE m == <<y[i]>>
  <2> DEFINE r == <<grammar.root>>
  <2>1. \A u, v \in Forms : Derives(<<grammar.root>>, (u ++ <<n>>) ++ v) =>
          /\ p \in Forms /\ q \in Forms /\ u ++ p \in Forms /\ q ++ v \in Forms /\ m \in Forms
          /\ Derives(r, ((u ++ p) ++ m) ++ (q ++ v))
    BY <1>0, <1>1, ReachesRhs
  <2>2. DerivedFollow[y[i]] = Follows(y[i]) /\ DerivedFollow[n] = Follows(n)
    BY <1>1, <1>6 DEF DerivedFollow
  <2>3. \A b \in Terminals : \A a, c \in Forms : Derives(r, (a ++ m) ++ (<<b>> ++ c)) => b \in Follows(y[i])
    BY DEF Follows
  <2>4. i + 1 \in 1 .. Len(y) + 1 /\ e \in i + 1 .. Len(y) + 1
    BY <1>3
  <2>5. r \in Forms
    BY <1>0
  <2> HIDE DEF p, m, r
  <2>6. ASSUME NEW b \in FirstFrom(DF, DN, y, i + 1)
        PROVE  b \in Follows(y[i])
    <3>1. b \in Terminals /\ \E w \in Forms : Derives(q, <<b>> ++ w)
      <4> HIDE DEF y
      <4>1. QED BY <1>2, <2>4, <2>6, PartBegins
    <3>2. PICK w \in Forms : Derives(q, <<b>> ++ w)
      BY <3>1
    <3>3. PICK u \in Forms, v \in Forms : Derives(<<grammar.root>>, (u ++ <<n>>) ++ v)
      BY <1>1 DEF Reached
    <3> DEFINE l == <<b>>
    <3>4. /\ p \in Forms /\ q \in Forms /\ u ++ p \in Forms /\ q ++ v \in Forms /\ m \in Forms
          /\ Derives(r, ((u ++ p) ++ m) ++ (q ++ v))
      BY <2>1, <3>3
    <3>5. l \in Forms /\ Derives(q, l ++ w)
      <4>1. b \in Symbols
        BY <3>1 DEF Symbols
      <4>2. QED BY <3>2, <4>1, SingleForm
    <3> HIDE DEF l, q
    <3> DEFINE a == (u ++ p) ++ m
    <3>6. a \in Forms /\ l ++ w \in Forms /\ w ++ v \in Forms
      BY <3>4, <3>5, Cat
    <3>7. Derives(q ++ v, (l ++ w) ++ v) /\ (l ++ w) ++ v = l ++ (w ++ v)
      BY <3>4, <3>5, <3>6, DerivesAhead, CatCat
    <3> HIDE DEF a
    <3>8. l ++ (w ++ v) \in Forms /\ a ++ (q ++ v) \in Forms /\ a ++ (l ++ (w ++ v)) \in Forms
      <4>1. l ++ (w ++ v) \in Forms
        BY <3>5, <3>6, Cat
      <4>2. QED BY <3>4, <3>6, <4>1, Cat
    <3>9. Derives(a ++ (q ++ v), a ++ (l ++ (w ++ v)))
      BY <3>4, <3>6, <3>7, <3>8, DerivesBehind
    <3>10. Derives(r, a ++ (l ++ (w ++ v)))
      BY <2>5, <3>4, <3>8, <3>9, DerivesFurther DEF a
    <3>11. QED BY <2>3, <3>1, <3>4, <3>6, <3>10 DEF a, l
  <2>7. ASSUME Empties(DN, y, i + 1), NEW b \in Follows(n)
        PROVE  b \in Follows(y[i])
    <3>1. PICK u \in Forms, v \in Forms : Derives(<<grammar.root>>, (u ++ <<n>>) ++ (<<b>> ++ v))
      BY DEF Follows
    <3> DEFINE l == <<b>>
    <3>2. b \in Terminals /\ l \in Forms
      <4>1. b \in Terminals /\ b \in Symbols
        BY DEF Follows, Symbols
      <4>2. QED BY <4>1, SingleForm
    <3>3. Derives(q, <<>>)
      <4>1. NullableRange(DN, y, i + 1, e)
        BY <2>7 DEF Empties
      <4> HIDE DEF y
      <4>2. QED BY <1>2, <2>4, <4>1, NullablePartDerivesNothing
    <3> DEFINE z == <<b>> ++ v
    <3>4. z \in Forms /\ z = l ++ v
      BY <3>2, Cat
    <3> HIDE DEF z, l
    <3>5. /\ p \in Forms /\ q \in Forms /\ u ++ p \in Forms /\ q ++ z \in Forms /\ m \in Forms
          /\ Derives(r, ((u ++ p) ++ m) ++ (q ++ z))
      <4>1. Derives(<<grammar.root>>, (u ++ <<n>>) ++ z)
        BY <3>1 DEF z
      <4>2. QED BY <2>1, <3>4, <4>1
    <3> HIDE DEF q
    <3> DEFINE a == (u ++ p) ++ m
    <3>6. a \in Forms /\ a ++ z \in Forms /\ a ++ (q ++ z) \in Forms
      <4>1. a \in Forms
        BY <3>5, Cat
      <4> HIDE DEF a
      <4>2. QED BY <3>4, <3>5, <4>1, Cat
    <3> HIDE DEF a
    <3>7. Derives(q ++ z, z)
      <4>1. Derives(q ++ z, <<>> ++ z)
        BY <1>3, <3>3, <3>4, <3>5, DerivesAhead
      <4>2. QED BY <3>4, <4>1, Cat
    <3>8. Derives(a ++ (q ++ z), a ++ z)
      BY <3>4, <3>5, <3>6, <3>7, DerivesBehind
    <3>9. Derives(r, a ++ z)
      BY <2>5, <3>5, <3>6, <3>8, DerivesFurther DEF a
    <3>10. Derives(r, a ++ (l ++ v))
      BY <3>4, <3>9
    <3>11. QED BY <2>3, <3>2, <3>5, <3>10 DEF a, l
  <2>8. QED BY <2>2, <2>6, <2>7
<1>7. QED BY <1>4, <1>5, <1>6

\* The nonterminals of the grammar, and those that are left to the passes.
Productions == {grammar.order[p] : p \in DOMAIN grammar.order}
Pruned == grammar \in Grammars /\ nterms = (IF phase = "simplify" THEN Productions ELSE Productions \cap Closure)

\* simplify() leaves just what the root reaches, and nothing drops more.
LEMMA PrunedStays == GrammarSpec => []Pruned
<1>1. GrammarInit => Pruned
  BY DEF GrammarInit, Pruned, Productions
<1>2. Pruned /\ [GrammarNext]_grammarVars => Pruned'
  <2> SUFFICES ASSUME Pruned, [GrammarNext]_grammarVars PROVE Pruned'
    OBVIOUS
  <2>1. grammar' = grammar
    BY DEF grammarVars, GrammarNext, Simplify, Visit, EndPass, BuildLookAheads, Check
  <2>2. Productions' = Productions /\ Closure' = Closure
    BY <2>1 DEF Productions, Closure, Mentions, Rhss
  <2>3. CASE Simplify
    BY <2>1, <2>2, <2>3 DEF Simplify, Pruned
  <2>4. CASE Visit \/ EndPass \/ BuildLookAheads \/ Check
    BY <2>1, <2>2, <2>4 DEF Visit, EndPass, BuildLookAheads, Check, Pruned
  <2>5. CASE UNCHANGED grammarVars
    BY <2>1, <2>2, <2>5 DEF grammarVars, Pruned
  <2>6. QED BY <2>3, <2>4, <2>5 DEF GrammarNext
<1>3. QED BY <1>1, <1>2, PTL DEF GrammarSpec

\* Nothing that is used has been dropped.
LEMMA PrunedIsWhole ==
  ASSUME Pruned, phase # "simplify"
  PROVE  /\ nterms \subseteq Nonterminals /\ nterms \subseteq Closure /\ NothingMissing
         /\ grammar.root \in nterms /\ \A n \in nterms : Reached(n)
<1>1. /\ Productions \subseteq Nonterminals /\ grammar.root \in Productions
      /\ \A n \in Productions : \A k \in DOMAIN Rhss(n) : \A i \in DOMAIN Rhss(n)[k] :
           Rhss(n)[k][i] \in Nonterminals => Rhss(n)[k][i] \in Productions
  BY GrammarsAssumption DEF Pruned, Productions, Rhss
<1>2. nterms = Productions \cap Closure /\ grammar \in Grammars
  BY DEF Pruned
<1>3. \A n \in Productions : Mentions(n) \subseteq Productions
  BY <1>1 DEF Mentions
<1>4. /\ grammar.root \in Closure
      /\ \A n \in Closure : n \in Nonterminals /\ Mentions(n) \subseteq Closure /\ Reached(n)
  BY <1>2, ClosureIsReached
<1>5. QED BY <1>1, <1>2, <1>3, <1>4 DEF NothingMissing

\* A form that begins with a terminal has it in its FIRST.
LEMMA TerminalFirst ==
  ASSUME NEW b \in Terminals, NEW w \in Forms, NEW N, NEW F
  PROVE  <<b>> \in Forms /\ <<b>> ++ w \in Forms /\ b \in FirstFrom(F, N, <<b>> ++ w, 1)
<1>1. b \in Symbols /\ b # Epsilon /\ b \notin Nonterminals
  BY GrammarsAssumption DEF Symbols
<1>2. <<b>> \in Forms /\ FirstFrom(F, N, <<b>>, 1) = {b} /\ Len(<<b>>) = 1
  BY <1>1, SingleForm DEF GetFirst
<1> DEFINE l == <<b>>
<1> HIDE DEF l
<1>3. l \in Forms /\ b \in FirstFrom(F, N, l, 1) /\ 1 \in 1 .. Len(l) + 1
  BY <1>2 DEF l
<1>4. l ++ w \in Forms /\ b \in FirstFrom(F, N, l ++ w, 1)
  BY <1>3, Cat, FirstOfConcat
<1>5. QED BY <1>3, <1>4 DEF l

\* The tables say exactly what derivations do: which of the nonterminals derive nothing,
\* what they may begin with, and what may follow them in a form that the root
\* derives.  The nonterminals are just those that such forms have.
TablesAreExact ==
  phase \in {"lookahead", "check", "done"} =>
    \A n \in Nonterminals :
      /\ n \in nterms <=> Reached(n)
      /\ n \in nterms => (nullable[n] <=> DerivesNothing(n)) /\ first[n] = Begins(n) /\ follow[n] = Follows(n)

\* What the passes have found, derivations say, and the other way round.
LEMMA TablesExact ==
  ASSUME GrammarOK, Pruned, TablesClosed, TablesLeast
  PROVE  TablesAreExact
<1> SUFFICES ASSUME phase \in {"lookahead", "check", "done"}, NEW n \in Nonterminals
             PROVE  /\ n \in nterms <=> Reached(n)
                    /\ n \in nterms =>
                         (nullable[n] <=> DerivesNothing(n)) /\ first[n] = Begins(n) /\ follow[n] = Follows(n)
  BY DEF TablesAreExact
<1>1. /\ nterms \subseteq Nonterminals /\ nterms \subseteq Closure /\ NothingMissing
      /\ grammar.root \in nterms /\ \A m \in nterms : Reached(m)
  BY PrunedIsWhole
<1>2. grammar \in Grammars /\ <<>> \in Forms
  BY DEF Pruned, Forms
<1>3. Solves(nullable, first, follow)
  BY <1>1, <1>2, ClosedIsSolves DEF TablesClosed
<1>4. ASSUME Reached(n)
      PROVE  n \in nterms
  <2>1. PICK u \in Forms, v \in Forms : Derives(<<grammar.root>>, (u ++ <<n>>) ++ v)
    BY <1>4 DEF Reached
  <2> DEFINE m == <<n>>
  <2> DEFINE r == (u ++ m) ++ v
  <2>2. m \in Forms /\ Len(m) = 1 /\ m[1] = n
    BY SingleForm DEF Symbols
  <2>3. Parts(nullable, first, u, m, v, r)
    <3> HIDE DEF m
    <3>1. QED BY <2>2, ThreeParts
  <2>4. <<grammar.root>> \in Forms /\ Live(<<grammar.root>>)
    <3>1. grammar.root \in Symbols
      BY <1>1 DEF Symbols
    <3>2. QED BY <1>1, <3>1, SingleForm DEF Live
  <2>5. r \in Forms
    BY <2>3 DEF Parts
  <2>6. Live(r)
    BY <1>1, <1>2, <1>3, <2>1, <2>4, <2>5, DerivedGoesByTables
  <2> HIDE DEF r, m
  <2>7. Len(u) + 1 \in 1 .. Len(r) /\ r[Len(u) + 1] = n
    BY <2>2, <2>3 DEF Parts
  <2>8. QED BY <2>6, <2>7 DEF Live
<1>5. ASSUME n \in nterms
      PROVE  /\ DerivesNothing(n) => nullable[n]
             /\ Begins(n) \subseteq first[n] /\ Follows(n) \subseteq follow[n]
  <2>1. n \in Symbols /\ n # Epsilon
    BY GrammarsAssumption DEF Symbols
  <2>2. DerivesNothing(n) => nullable[n]
    <3>1. ASSUME Derives(<<n>>, <<>>)
          PROVE  NullableSymbol(nullable, n)
      <4>1. Empties(nullable, <<>>, 1)
        BY <2>1, SingleForm
      <4>2. QED BY <1>1, <1>2, <1>3, <1>5, <2>1, <3>1, <4>1, SymbolGoesByTables
    <3>2. QED BY <2>1, <3>1 DEF DerivesNothing, NullableSymbol
  <2>3. ASSUME NEW b \in Terminals, NEW w \in Forms
        PROVE  <<b>> ++ w \in Forms /\ b \in FirstFrom(first, nullable, <<b>> ++ w, 1)
    BY TerminalFirst
  <2>4. ASSUME NEW b \in Begins(n)
        PROVE  b \in first[n]
    <3>1. PICK w \in Forms : b \in Terminals /\ Derives(<<n>>, <<b>> ++ w)
      BY DEF Begins
    <3>2. <<b>> ++ w \in Forms /\ b \in FirstFrom(first, nullable, <<b>> ++ w, 1)
      BY <2>3, <3>1
    <3>3. b \in GetFirst(first, n)
      BY <1>1, <1>2, <1>3, <1>5, <2>1, <3>1, <3>2, SymbolGoesByTables
    <3>4. QED BY <2>1, <3>3 DEF GetFirst
  <2>5. ASSUME NEW b \in Follows(n)
        PROVE  b \in follow[n]
    <3>1. PICK u \in Forms, v \in Forms :
            b \in Terminals /\ Derives(<<grammar.root>>, (u ++ <<n>>) ++ (<<b>> ++ v))
      BY DEF Follows
    <3>2. <<b>> ++ v \in Forms /\ b \in FirstFrom(first, nullable, <<b>> ++ v, 1)
      BY <2>3, <3>1
    <3>3. QED BY <1>1, <1>2, <1>3, <3>1, <3>2, FormGoesByTables
  <2>6. QED BY <2>2, <2>4, <2>5
<1>6. /\ nullable[n] => DerivesNothing(n)
      /\ first[n] \subseteq Begins(n) /\ follow[n] \subseteq Follows(n)
  <2>1. /\ DerivedNullable \in [Nonterminals -> BOOLEAN]
        /\ DerivedFirst \in [Nonterminals -> SUBSET Terminals]
        /\ DerivedFollow \in [Nonterminals -> SUBSET Terminals]
    <3>1. \A m : DerivesNothing(m) \in BOOLEAN
      BY DEF DerivesNothing, Derives
    <3>2. \A m : Begins(m) \subseteq Terminals /\ Follows(m) \subseteq Terminals
      BY DEF Begins, Follows
    <3>3. QED BY <3>1, <3>2 DEF DerivedNullable, DerivedFirst, DerivedFollow
  <2>2. Closed(DerivedNullable, DerivedFirst, DerivedFollow)
    BY <1>1, <1>2, DerivedSolves, ClosedIsSolves
  <2>3. Within(DerivedNullable, DerivedFirst, DerivedFollow)
    BY <2>1, <2>2 DEF TablesLeast
  <2>4. QED BY <2>3 DEF Within, DerivedNullable, DerivedFirst, DerivedFollow
<1>7. QED BY <1>1, <1>4, <1>5, <1>6

\* The symbols that can come next wherever the parser is at n, once it has chosen the
\* alternative x: what x and the rest of any form with n in it may begin with.
Expected(n, x) ==
  {b \in Terminals : \E u, v, w \in Forms :
     Derives(<<grammar.root>>, (u ++ <<n>>) ++ v) /\ Derives(<<x>> ++ v, <<b>> ++ w)}

\* A grammar is accepted if and only if the next symbol always decides: for each LookAhead
\* there is one to decide by, and none that both of its alternatives could come with.
NextSymbolDecides ==
  phase = "done" =>
    (verdict = "ok" <=>
       \A n \in grammar.lookAhead \cap nterms :
         LET expected(k) == Expected(n, Rhss(n)[k][1])
         IN  /\ expected(1) \cup expected(2) # {}
             /\ \A t \in expected(1), u \in expected(2) : Literal[t] # Literal[u])

\* The look-ahead symbols of an alternative are those that can come next.
LEMMA LookAheadsExact ==
  ASSUME GrammarOK, Pruned, TablesClosed, TablesLeast, phase \in {"lookahead", "check", "done"},
         NEW n \in nterms, NEW x \in Symbols, x \in Nonterminals => x \in nterms
  PROVE  LookAheads(x, n) = Expected(n, x)
<1>1. /\ nterms \subseteq Nonterminals /\ nterms \subseteq Closure /\ NothingMissing
      /\ grammar.root \in nterms /\ \A m \in nterms : Reached(m)
  BY PrunedIsWhole
<1>2. grammar \in Grammars /\ <<>> \in Forms /\ <<x>> \in Forms
  <2>1. <<>> \in Forms
    BY DEF Forms
  <2>2. QED BY <2>1, SingleForm DEF Pruned
<1>3. Solves(nullable, first, follow)
  BY <1>1, <1>2, ClosedIsSolves DEF TablesClosed
<1>4. \A m \in nterms :
        (nullable[m] <=> DerivesNothing(m)) /\ first[m] = Begins(m) /\ follow[m] = Follows(m)
  BY <1>1, TablesExact DEF TablesAreExact
<1>5. ASSUME NEW b \in Terminals
      PROVE  <<b>> \in Forms
  BY <1>2, TerminalFirst
<1> DEFINE m == <<x>>
<1>6. ASSUME NEW b \in GetFirst(first, x)
      PROVE  b \in Expected(n, x)
  <2>1. b \in GetFirst(DerivedFirst, x)
    BY <1>1, <1>4 DEF GetFirst, DerivedFirst
  <2>2. b \in Terminals /\ \E w \in Forms : Derives(<<x>>, <<b>> ++ w)
    BY <2>1, FirstBegins
  <2>3. PICK w \in Forms : Derives(<<x>>, <<b>> ++ w)
    BY <2>2
  <2>4. PICK u \in Forms, v \in Forms : Derives(<<grammar.root>>, (u ++ <<n>>) ++ v)
    BY <1>1 DEF Reached
  <2> DEFINE l == <<b>>
  <2>5. l \in Forms /\ m \in Forms /\ Derives(m, l ++ w)
    BY <1>2, <1>5, <2>2, <2>3
  <2> HIDE DEF l, m
  <2>6. l ++ w \in Forms /\ w ++ v \in Forms
    BY <2>5, Cat
  <2>7. Derives(m ++ v, (l ++ w) ++ v) /\ (l ++ w) ++ v = l ++ (w ++ v)
    BY <2>5, <2>6, DerivesAhead, CatCat
  <2>8. QED BY <2>2, <2>4, <2>6, <2>7 DEF Expected, l, m
<1>7. ASSUME NullableSymbol(nullable, x), NEW b \in follow[n]
      PROVE  b \in Expected(n, x)
  <2>1. b \in Follows(n)
    BY <1>4
  <2>2. PICK u \in Forms, v \in Forms :
          b \in Terminals /\ Derives(<<grammar.root>>, (u ++ <<n>>) ++ (<<b>> ++ v))
    BY <2>1 DEF Follows
  <2>3. Derives(m, <<>>) /\ m \in Forms
    <3>1. CASE x = Epsilon
      <4>1. Rewrites(x, <<>>)
        BY <3>1 DEF Rewrites
      <4> HIDE DEF m
      <4>2. m = (<<>> ++ m) ++ <<>> /\ <<>> = (<<>> ++ <<>>) ++ <<>> /\ m \in Forms
        BY <1>2, Cat DEF m
      <4>3. Yields(m, <<>>)
        BY <1>2, <4>1, <4>2 DEF Yields, m
      <4>4. QED BY <1>2, <4>2, <4>3, DerivesStep
    <3>2. CASE x \in Nonterminals /\ nullable[x]
      BY <1>1, <1>2, <1>4, <3>2 DEF DerivesNothing
    <3>3. QED BY <1>7, <3>1, <3>2 DEF NullableSymbol
  <2> DEFINE z == <<b>> ++ v
  <2> HIDE DEF m
  <2>4. z \in Forms
    BY <1>5, <2>2, Cat
  <2>5. Derives(<<grammar.root>>, (u ++ <<n>>) ++ z)
    BY <2>2
  <2> HIDE DEF z
  <2>6. Derives(m ++ z, z)
    <3>1. Derives(m ++ z, <<>> ++ z)
      BY <1>2, <2>3, <2>4, DerivesAhead
    <3>2. QED BY <2>4, <3>1, Cat
  <2>7. Derives(m ++ z, <<b>> ++ v)
    BY <2>6 DEF z
  <2>8. QED BY <2>2, <2>4, <2>5, <2>7 DEF Expected, m
<1>8. ASSUME NEW b \in Expected(n, x)
      PROVE  b \in LookAheads(x, n)
  <2>1. PICK u \in Forms, v \in Forms, w \in Forms :
          /\ b \in Terminals /\ Derives(<<grammar.root>>, (u ++ <<n>>) ++ v)
          /\ Derives(<<x>> ++ v, <<b>> ++ w)
    BY DEF Expected
  <2>2. Live(v) /\ FirstFrom(first, nullable, v, 1) \subseteq follow[n]
    BY <1>1, <1>2, <1>3, <2>1, FormGoesByTables
  <2> DEFINE l == <<b>>
  <2>3. /\ l \in Forms /\ b \in FirstFrom(first, nullable, l ++ w, 1)
        /\ m \in Forms /\ Len(m) = 1 /\ 1 \in 1 .. Len(m) + 1 /\ m[1] = x
        /\ (Empties(nullable, m, 1) <=> NullableSymbol(nullable, x))
        /\ FirstFrom(first, nullable, m, 1) = GetFirst(first, x)
    <3>1. /\ m \in Forms /\ Len(m) = 1 /\ 1 \in 1 .. Len(m) + 1 /\ m[1] = x
          /\ (Empties(nullable, m, 1) <=> NullableSymbol(nullable, x))
          /\ FirstFrom(first, nullable, m, 1) = GetFirst(first, x)
      BY SingleForm
    <3>2. b \in Terminals
      BY <2>1
    <3>3. <<b>> \in Forms /\ b \in FirstFrom(first, nullable, <<b>> ++ w, 1)
      BY <3>2, TerminalFirst
    <3>4. QED BY <3>1, <3>3
  <2>4. Derives(m ++ v, l ++ w)
    BY <2>1
  <2> HIDE DEF l, m
  <2>5. m ++ v \in Forms /\ l ++ w \in Forms
    BY <2>3, Cat
  <2>6. Live(m ++ v)
    <3>1. /\ Len(m ++ v) = Len(m) + Len(v) /\ Len(v) \in Nat
          /\ \A i \in 1 .. Len(m) : (m ++ v)[i] = m[i]
          /\ \A i \in Len(m) + 1 .. Len(m) + Len(v) : (m ++ v)[i] = v[i - Len(m)]
      BY <2>3, Concatenated
    <3>2. SUFFICES ASSUME NEW i \in 1 .. Len(m ++ v), (m ++ v)[i] \in Nonterminals
                   PROVE  (m ++ v)[i] \in nterms
      BY DEF Live
    <3>3. CASE i = 1
      BY <2>3, <3>1, <3>2, <3>3
    <3>4. CASE i # 1
      <4>1. i \in Len(m) + 1 .. Len(m) + Len(v) /\ i - Len(m) \in 1 .. Len(v)
        BY <2>3, <3>1, <3>4
      <4>2. QED BY <2>2, <3>1, <3>2, <4>1 DEF Live
    <3>5. QED BY <3>3, <3>4
  <2>7. FirstFrom(first, nullable, l ++ w, 1) \subseteq FirstFrom(first, nullable, m ++ v, 1)
    BY <1>1, <1>2, <1>3, <2>4, <2>5, <2>6, DerivedGoesByTables
  <2>8. b \in FirstFrom(first, nullable, l ++ w, 1)
    BY <2>3
  <2>9. b \in FirstFrom(first, nullable, m, 1) \/ (Empties(nullable, m, 1) /\ b \in FirstFrom(first, nullable, v, 1))
    BY <2>3, <2>7, <2>8, FirstOfConcat
  <2>10. QED BY <2>2, <2>3, <2>9 DEF LookAheads
<1>9. QED BY <1>6, <1>7, <1>8 DEF LookAheads

\* For every grammar: once its tables are computed they say exactly what derivations do, and
\* once it is checked it has been accepted if and only if the next symbol always decides.
THEOREM GrammarSaysWhatDerives == GrammarSpec => [](TablesAreExact /\ NextSymbolDecides)
<1>1. GrammarOK /\ TablesClosed /\ TablesLeast /\ VerdictRight /\ Pruned => TablesAreExact
  BY TablesExact
<1>2. GrammarOK /\ TablesClosed /\ TablesLeast /\ VerdictRight /\ Pruned => NextSymbolDecides
  <2> SUFFICES ASSUME GrammarOK, TablesClosed, TablesLeast, VerdictRight, Pruned, phase = "done"
               PROVE  verdict = "ok" <=>
                        \A n \in grammar.lookAhead \cap nterms :
                          LET expected(k) == Expected(n, Rhss(n)[k][1])
                          IN  /\ expected(1) \cup expected(2) # {}
                              /\ \A t \in expected(1), u \in expected(2) : Literal[t] # Literal[u]
    BY DEF NextSymbolDecides
  <2>1. ASSUME NEW n \in grammar.lookAhead \cap nterms, NEW k \in 1 .. 2
        PROVE  LookAheads(Rhss(n)[k][1], n) = Expected(n, Rhss(n)[k][1])
    <3>1. n \in Nonterminals /\ NothingMissing
      BY PrunedIsWhole
    <3>2. Rhss(n) \in Seq(Seq(Symbols)) /\ Len(Rhss(n)) = 2 /\ Len(Rhss(n)[k]) = 1
      BY <3>1, GrammarsAssumption DEF Rhss, Pruned
    <3>3. k \in DOMAIN Rhss(n) /\ 1 \in DOMAIN Rhss(n)[k] /\ Rhss(n)[k][1] \in Symbols
      <4>1. k \in DOMAIN Rhss(n)
        BY <3>2
      <4> DEFINE y == Rhss(n)[k]
      <4>2. y \in Forms /\ Len(y) = 1
        BY <3>1, <3>2, <4>1, RhsForm DEF Pruned
      <4> HIDE DEF y
      <4>3. 1 \in DOMAIN y /\ y[1] \in Symbols
        BY <4>2 DEF Forms
      <4>4. QED BY <4>1, <4>3 DEF y
    <3>4. Rhss(n)[k][1] \in Nonterminals => Rhss(n)[k][1] \in nterms
      BY <3>1, <3>3 DEF NothingMissing, Mentions
    <3>5. QED BY <3>3, <3>4, LookAheadsExact
  <2>2. QED BY <2>1 DEF VerdictRight
<1>3. QED BY TablesAreLeast, PrunedStays, <1>1, <1>2, PTL
===============================================================================
