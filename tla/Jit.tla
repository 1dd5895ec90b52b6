--------------------------------- MODULE Jit --------------------------------
(***************************************************************************)
(* The just-in-time compiler (hilti/toolchain/src/compiler/jit.cc) in      *)
(* several processes of the toolchain that share a temporary directory.    *)
(* Each one saves the C++ code it has generated, compiles it together with *)
(* the user's own C++ files in background jobs, links the object files     *)
(* into a library, loads it, and removes all of these files again.  Names  *)
(* of files are made from the names of the inputs and a hash over what is  *)
(* compiled and the working directory, so that processes with the same     *)
(* inputs in the same directory share all files but one; hashes of         *)
(* different things are taken to differ.  The C++ compiler and the library *)
(* reproc, which runs it, are external: an object file that several jobs   *)
(* write is complete again when one of them is, and the linker reads all   *)
(* of its files at once.                                                   *)
(***************************************************************************)
EXTENDS Integers, Sequences, FiniteSets

CONSTANTS
  Procs,       \* the processes
  Codes,       \* generated code, by process: _codes
  Files,       \* the paths of the user's files, by process: _files
  FileName,    \* by path, without the directories
  Directory,   \* the working directory, by process
  Parallelism, \* the number of background jobs at a time
  Unstarted,   \* inputs whose compiler may not start
  Rejected,    \* inputs that may turn out not to compile
  PollFails,   \* processes whose waiting for events may fail
  Partial      \* what is in a file that is being written

ASSUME ParallelismAssumption == Parallelism \in Nat

VARIABLES
  disk, \* files in the temporary directory: the inputs in them, or Partial
  proc  \* the processes
vars == <<disk, proc>>

\* Faulty: leaves out what is compiled.
Hash_Directory(p) == <<Directory[p], {}, {}>>
Hash(p) == <<Directory[p], Codes[p], Files[p]>>
Cc(p, c) == <<"cc", c, Hash(p)>>
Obj(p, c) == IF c \in Codes[p] THEN <<"cc.o", c, Hash(p)>> ELSE <<"o", FileName[c], Hash(p)>>
Lib(p) == <<"hlto", Hash(p)>>
Lib0(p) == <<"hlto0", p>>   \* a name made up by mkstemp()
Inputs(p) == Codes[p] \cup Files[p]
ObjectsOf(p, cs) == {Obj(p, c) : c \in cs}
Objects(p) == ObjectsOf(p, Inputs(p))
Sources(p) == {Cc(p, c) : c \in Codes[p]}

\* Generated code is not a file, and nothing is taken for something else.
InputsAssumption ==
  /\ \A p \in Procs : Codes[p] \cap Files[p] = {} /\ "link" \notin Inputs(p)
  /\ \A S \in SUBSET UNION {Inputs(p) : p \in Procs} : S # Partial

Exists(f) == f \in DOMAIN disk
Whole(f) == Exists(f) /\ disk[f] # Partial
Written(f, content) == [g \in DOMAIN disk \cup {f} |-> IF g = f THEN content ELSE disk[g]]
Removed(fs) == [g \in DOMAIN disk \ fs |-> disk[g]]

At(p, pc) == proc[p].pc = pc
Set(p, r) == proc' = [proc EXCEPT ![p] = r]
\* Clean up with, or without, a library; without one it is ~JIT() that does.
Finish(p, result) == [proc[p] EXCEPT !.pc = "remove", !.result = result]
Failed(p) == Finish(p, "failed")

\* Jobs that compile an input, and the one that links.
Job(c) == [input |-> c, step |-> "start"]
Linking == Job("link")

Init ==
  /\ disk = <<>>
  /\ proc = [p \in Procs |->
       [pc |-> "save", unsaved |-> Codes[p], pending |-> {}, jobs |-> {}, looping |-> FALSE,
        error |-> FALSE, objects |-> {}, result |-> "none", linked |-> {},
        lost |-> {}, abandoned |-> FALSE]]

\* save(): written to a file of its own first, and then renamed.
Save(p) ==
  /\ At(p, "save")
  /\ \E c \in proc[p].unsaved :
       /\ disk' = Written(Cc(p, c), {c})
       /\ Set(p, [proc[p] EXCEPT !.unsaved = @ \ {c}])
\* All that is to be compiled becomes a job.
Schedule(p) ==
  /\ At(p, "save") /\ proc[p].unsaved = {} /\ \A f \in Sources(p) : Exists(f)
  /\ Set(p, [proc[p] EXCEPT !.pc = "compile", !.pending = {Job(c) : c \in Inputs(p)},
                            !.objects = Objects(p)])
  /\ UNCHANGED disk
\* canonical() throws if a file has gone: some have been scheduled, but none started.
Refuse(p) ==
  /\ At(p, "save") /\ proc[p].unsaved = {}
  /\ \E c \in Codes[p], cs \in SUBSET Codes[p] :
       /\ ~Exists(Cc(p, c)) /\ \A d \in cs : Exists(Cc(p, d))
       /\ Set(p, [Failed(p) EXCEPT !.objects = ObjectsOf(p, Files[p] \cup cs \cup {c})])
  /\ disk' = Removed(Sources(p))

(****************************** _waitForJobs() *****************************)
Waiting(p) == proc[p].pc \in {"compile", "linking"}
MaySpawn(p) == proc[p].pending # {} /\ Cardinality(proc[p].jobs) < Parallelism

\* _spawnJob(): nobody looks at its result, so a job that fails to start is lost.
SpawnJob(p) ==
  /\ Waiting(p) /\ MaySpawn(p)
  /\ \E j \in proc[p].pending :
       \/ Set(p, [proc[p] EXCEPT !.pending = @ \ {j}, !.jobs = @ \cup {j}, !.looping = TRUE])
       \/ /\ j.input \in Unstarted
          /\ Set(p, [proc[p] EXCEPT !.pending = @ \ {j}, !.lost = @ \cup {j}, !.looping = TRUE])
  /\ UNCHANGED disk

\* A job that has exited is collected, a failure remembered until the others
\* are done.
Collect(p) ==
  /\ Waiting(p) /\ ~MaySpawn(p)
  /\ \E j \in proc[p].jobs :
       /\ j.step \in {"ok", "failed"}
       /\ Set(p, [proc[p] EXCEPT !.jobs = @ \ {j}, !.looping = FALSE,
                                 !.error = @ \/ j.step = "failed"])
  /\ UNCHANGED disk

\* poll() fails, always without anything to wait for; then the loop is left.
PollError(p) ==
  /\ Waiting(p) /\ ~MaySpawn(p)
  /\ IF proc[p].jobs = {} THEN proc[p].pending # {} \/ proc[p].looping ELSE p \in PollFails
  /\ disk' = IF At(p, "compile") THEN Removed(Sources(p)) ELSE disk
  /\ Set(p, [Failed(p) EXCEPT !.abandoned = proc[p].jobs # {}])

\* The loop ends when there is no job left at its beginning.
NoJobs(p) == proc[p].pending = {} /\ proc[p].jobs = {} /\ ~proc[p].looping
\* Faulty: goes on when the last job has been started.
EndCompile_Running(p) ==
  /\ At(p, "compile") /\ proc[p].pending = {}
  /\ disk' = Removed(Sources(p))
  /\ Set(p, IF proc[p].error THEN Failed(p) ELSE [proc[p] EXCEPT !.pc = "link"])
\* Nothing is left to wait for: the guard removes the saved code in any case.
EndCompile(p) ==
  /\ At(p, "compile") /\ NoJobs(p)
  /\ disk' = Removed(Sources(p))
  /\ Set(p, IF proc[p].error THEN Failed(p) ELSE [proc[p] EXCEPT !.pc = "link"])

(********************************* _link() *********************************)
Link(p) ==
  /\ At(p, "link")
  /\ disk' = Written(Lib0(p), Partial)
  /\ Set(p, IF \A f \in Objects(p) : Exists(f)
              THEN [proc[p] EXCEPT !.pc = "linking", !.pending = {Linking}]
            ELSE Failed(p))
EndLink(p) ==
  /\ At(p, "linking") /\ NoJobs(p)
  /\ IF proc[p].error THEN Set(p, Failed(p)) /\ UNCHANGED disk
     ELSE /\ disk' = [f \in (DOMAIN disk \ {Lib0(p)}) \cup {Lib(p)} |->
                        IF f = Lib(p) THEN disk[Lib0(p)] ELSE disk[f]]
          /\ Set(p, Finish(p, "built"))

(******************************** _finish() ********************************)
\* Faulty: leaves the object files of a failed build.
RemoveObjects_IfBuilt(p) ==
  /\ At(p, "remove")
  /\ disk' = IF proc[p].result = "built" THEN Removed(proc[p].objects) ELSE disk
  /\ Set(p, [proc[p] EXCEPT !.pc = "stop"])
RemoveObjects(p) ==
  /\ At(p, "remove")
  /\ disk' = Removed(proc[p].objects)
  /\ Set(p, [proc[p] EXCEPT !.pc = "stop"])
\* JobRunner::finish() stops what is still running.
StopJobs(p) ==
  /\ At(p, "stop")
  /\ Set(p, [proc[p] EXCEPT !.pc = IF proc[p].result = "built" THEN "open" ELSE "done", !.jobs = {}])
  /\ UNCHANGED disk

\* The caller of build() loads the library.
OpenLibrary(p) ==
  /\ At(p, "open")
  /\ Set(p, IF Whole(Lib(p))
              THEN [proc[p] EXCEPT !.pc = "unload", !.result = "loaded", !.linked = disk[Lib(p)]]
            ELSE [proc[p] EXCEPT !.pc = "unload", !.result = "failed"])
  /\ UNCHANGED disk
\* Its last user gives it up: Library::remove().
Unload(p) ==
  /\ At(p, "unload")
  /\ disk' = Removed({Lib(p)})
  /\ Set(p, [proc[p] EXCEPT !.pc = "done"])

(********************************* The jobs ********************************)
Source(p, c) == c \in Codes[p] => Exists(Cc(p, c))
Step(p, j, step) == Set(p, [proc[p] EXCEPT !.jobs = (@ \ {j}) \cup {[j EXCEPT !.step = step]}])
\* The compiler reads its input and writes the object file.
Compile(p) ==
  \E j \in proc[p].jobs :
    /\ j.input # "link"
    /\ \/ /\ j.step = "start" /\ Source(p, j.input)
          /\ disk' = Written(Obj(p, j.input), Partial) /\ Step(p, j, "writing")
       \/ /\ j.step = "start" /\ (j.input \in Rejected \/ ~Source(p, j.input))
          /\ Step(p, j, "failed") /\ UNCHANGED disk
       \/ /\ j.step = "writing"
          /\ disk' = Written(Obj(p, j.input), {j.input}) /\ Step(p, j, "ok")
\* The linker needs all of the object files.
LinkObjects(p) ==
  \E j \in proc[p].jobs :
    /\ j.input = "link" /\ j.step = "start"
    /\ IF \A f \in Objects(p) : Whole(f)
         THEN disk' = Written(Lib0(p), UNION {disk[f] : f \in Objects(p)}) /\ Step(p, j, "ok")
       ELSE Step(p, j, "failed") /\ UNCHANGED disk

ToolStep(p) ==
  \/ Save(p) \/ Schedule(p) \/ Refuse(p) \/ SpawnJob(p) \/ Collect(p) \/ PollError(p) \/ EndCompile(p)
  \/ Link(p) \/ EndLink(p) \/ OpenLibrary(p) \/ RemoveObjects(p) \/ StopJobs(p) \/ Unload(p)
JobStep(p) == Compile(p) \/ LinkObjects(p)
Next == \E p \in Procs : ToolStep(p) \/ JobStep(p)
Spec == Init /\ [][Next]_vars
\* The operating system runs every process, those of the jobs included.
Fairness == \A p \in Procs : WF_vars(ToolStep(p)) /\ WF_vars(JobStep(p))
FairSpec == Spec /\ Fairness

(******************************** Properties *******************************)
\* All variables stay within their types, and the jobs within their number.
TypeOK ==
  /\ \A f \in DOMAIN disk : disk[f] = Partial \/ disk[f] \subseteq UNION {Inputs(p) : p \in Procs}
  /\ \A p \in Procs :
       /\ proc[p].unsaved \subseteq Codes[p]
       /\ Cardinality(proc[p].jobs) <= Parallelism
       /\ proc[p].result \in {"none", "failed", "built", "loaded"}
       /\ proc[p].pc = "done" => proc[p].jobs = {}

\* Files of the user that are called alike share an object file.
Separate(p) == \A c, d \in Files[p] : FileName[c] = FileName[d] => c = d
\* Processes with the same inputs share all files.
Twins(p) == {q \in Procs : Hash(q) = Hash(p)}

\* A library that is loaded has all of its process's inputs in it, whatever other
\* processes do to the temporary directory, even to the same files.
LibraryComplete ==
  \A p \in Procs : Separate(p) /\ proc[p].result = "loaded" => proc[p].linked = Inputs(p)

\* "This makes JIT invocations unique": a build fails for a reason of its own, if
\* there is no other one of the same.
Reason(p) ==
  \/ Inputs(p) \cap Rejected # {} \/ proc[p].lost # {} \/ proc[p].abandoned \/ Parallelism = 0
Independent ==
  \A p \in Procs :
    Separate(p) /\ Twins(p) = {p} /\ proc[p].result = "failed" => Reason(p)

\* When all processes that have the same files are done they have left none of
\* them behind, unless one gave up on jobs that were still running: _finish() stops
\* these only after it has removed the objects.
NothingLeft ==
  \A p \in Procs :
    (\A q \in Twins(p) : At(q, "done") /\ ~proc[q].abandoned)
      => DOMAIN disk \cap (Objects(p) \cup Sources(p) \cup {Lib(p)}) = {}

\* Processes that share a directory, or all of their files, load what they have been
\* given or nothing; they fail for reasons of their own unless they share all files,
\* and leave nothing behind.
BuildIsSound == TypeOK /\ LibraryComplete /\ Independent /\ NothingLeft

\* Every build comes to an end.
BuildsEnd == <>(\A p \in Procs : At(p, "done"))
=============================================================================
