------------------------------- MODULE Fiber -------------------------------
(***************************************************************************)
(* The coroutines of the HILTI runtime (hilti/runtime/src/fiber.cc).       *)
(*                                                                         *)
(* Every parser runs inside a fiber so that it can suspend when it runs    *)
(* out of input.  A Resumable owns the fiber that executes its function;   *)
(* fibers are recycled through a cache, and all of them execute on one     *)
(* shared stack whose content is copied out and back in at every switch.   *)
(*                                                                         *)
(* Exactly one actor executes at any time: the main function or a fiber.   *)
(* A call that switches to another fiber (run, resume, abort, destroying   *)
(* a suspended Resumable) is two steps: the call itself, up to the switch, *)
(* and the return, once control is back.  Between them the callee may do   *)
(* anything, including calls of its own.                                   *)
(*                                                                         *)
(* A payload is identified with the Resumable it was passed to, and its    *)
(* result and its exception with the payload they came from.               *)
(***************************************************************************)
EXTENDS Integers, Sequences, FiniteSets, SequencesExt

CONSTANTS
  Fibers,      \* identities of detail::Fiber objects
  Resumables,  \* identities of Resumable objects; each is constructed once
  Main,        \* the pseudo-fiber of the top-level process
  None,        \* a null pointer or an unset optional
  CacheSize,   \* configuration: fiber_cache_size
  MaxYields    \* bound: how often one payload suspends

ASSUME ConstantsAssumption ==
  /\ Main \notin Fibers
  /\ None \notin Fibers \cup Resumables \cup {Main}
  /\ None \notin [owner : Fibers, mark : Nat]
  /\ CacheSize \in Nat
  /\ MaxYields \in Nat

Actors == Fibers \cup {Main}

VARIABLES
  \* detail::Fiber
  state,       \* _state; "Deleted" for a fiber that does not exist
  caller,      \* _caller
  function,    \* _function: the payload to run
  result,      \* _result: the payload whose value is stored
  exception,   \* _exception: the payload whose exception is stored
  \* detail::FiberContext and Context
  current,     \* fiber.current
  cache,       \* fiber.cache
  resumable,   \* resumable: the handle detail::yield() suspends
  \* the shared stack
  shared,      \* what the shared stack's memory holds
  saved,       \* _stack_buffer of each fiber
  frames,      \* ghost: the frames that each fiber's execution has built
  \* Resumable
  phase,       \* ghost: whether the object exists
  fiber,       \* _fiber
  done,        \* _done
  value,       \* _result: the payload whose value was delivered
  threw,       \* ghost: the payload whose exception was rethrown
  outcome,     \* ghost: how each payload ended
  \* the call each actor waits for, and the counters
  pending, stats

fiberVars     == <<state, caller, function, result, exception>>
contextVars   == <<current, cache, resumable>>
stackVars     == <<shared, saved, frames>>
resumableVars == <<phase, fiber, done, value, threw>>
vars == <<fiberVars, contextVars, stackVars, resumableVars, outcome, pending,
          stats>>

States   == {"Deleted", "Init", "Running", "Aborting", "Yielded", "Idle"}
Active   == {"Running", "Aborting"}
Outcomes == {"none", "value", "error", "aborted"}

\* Fiber::Statistics
Statistics == [total : Int, current : Int, cached : Int, max : Int,
               initialized : Int]

\* The frames of a fiber's trampoline, and how often its payload suspended.
Frames == [owner : Fibers, mark : Nat]

\* A call in progress: which operation, on which Resumable and fiber, and the
\* context's resumable to put back (`old`).
Calls  == [op : {"run", "abort", "destroy"}, r : Resumables, fiber : Fibers,
           old : Fibers \cup {None}]
NoCall == [op |-> "none", r |-> None, fiber |-> None, old |-> None]

Elements(s) == {s[i] : i \in 1..Len(s)}
----------------------------------------------------------------------------
(* Fiber objects: creation, deletion, recycling *)

Fresh(f) == [owner |-> f, mark |-> 0]

\* What executing up to the next suspension, or to the end, does to a stack.
Grown(stack)   == [owner |-> stack.owner, mark |-> stack.mark + 1]
Unwound(stack) == [owner |-> stack.owner, mark |-> 0]

\* No fiber exists yet; the main function executes.
Init ==
  /\ state     = [f \in Fibers |-> "Deleted"]
  /\ caller    = [f \in Fibers |-> None]
  /\ function  = [f \in Fibers |-> None]
  /\ result    = [f \in Fibers |-> None]
  /\ exception = [f \in Fibers |-> None]
  /\ current = Main /\ cache = <<>> /\ resumable = None
  /\ shared = None
  /\ saved  = [f \in Fibers |-> None]
  /\ frames = [f \in Fibers |-> None]
  /\ phase  = [r \in Resumables |-> "unborn"]
  /\ fiber  = [r \in Resumables |-> None]
  /\ done   = [r \in Resumables |-> FALSE]
  /\ value  = [r \in Resumables |-> None]
  /\ threw  = [r \in Resumables |-> None]
  /\ outcome = [r \in Resumables |-> "none"]
  /\ pending = [a \in Actors |-> NoCall]
  /\ stats = [total |-> 0, current |-> 0, cached |-> 0, max |-> 0,
              initialized |-> 0]

\* The counters after the constructor of n fibers.
Constructed(st, n) ==
  LET c == st.current + n
  IN [total |-> st.total + n, current |-> c, cached |-> st.cached,
      max |-> IF c > st.max THEN c ELSE st.max, initialized |-> st.initialized]

\* Faulty variants, here and below, are named <definition>_<fault>; they are
\* what the properties are tried against.
Reuse_Uncounted(f) ==
  /\ cache # <<>>
  /\ f = Last(cache)
  /\ cache' = Front(cache)
  /\ UNCHANGED <<stats, state>>

Reuse_NotPopped(f) ==
  /\ cache # <<>>
  /\ f = Last(cache)
  /\ UNCHANGED <<cache, stats, state>>

\* Fiber::create(): the most recently cached fiber, or else a new one.
Reuse(f) ==
  /\ cache # <<>>
  /\ f = Last(cache)
  /\ cache' = Front(cache)
  /\ stats' = [stats EXCEPT !.cached = @ - 1]
  /\ state' = state

Allocate(f) ==
  /\ cache = <<>>
  /\ state[f] = "Deleted"
  /\ state' = [state EXCEPT ![f] = "Init"]
  /\ stats' = Constructed(stats, 1)
  /\ cache' = cache

\* The end of Fiber::destroy(): into the cache if there is room, else delete.
Release(f) ==
  IF Len(cache) < CacheSize
  THEN /\ cache' = Append(cache, f)
       /\ stats' = [stats EXCEPT !.cached = @ + 1]
       /\ UNCHANGED <<state, saved, frames>>
  ELSE /\ stats' = [stats EXCEPT !.current = @ - 1]
       /\ state'  = [state EXCEPT ![f] = "Deleted"]
       /\ saved'  = [saved EXCEPT ![f] = None]
       /\ frames' = [frames EXCEPT ![f] = None]
       /\ cache' = cache
----------------------------------------------------------------------------
(* Switching: StackBuffer::save and restore around every change of fiber *)

Save_FirstOnly(from, live) ==
  IF from = Main \/ saved[from] # None THEN saved
  ELSE [saved EXCEPT ![from] = live]

\* The buffers once `from`, whose frames are `live`, has been switched out.
Save(from, live) ==
  IF from = Main THEN saved ELSE [saved EXCEPT ![from] = live]

\* The stack memory once `to` has been switched in.  A fiber that was never
\* switched out has no buffer: it starts with its trampoline's frame.
Restore(to, live) ==
  IF to = Main THEN live
  ELSE IF saved[to] = None THEN Fresh(to) ELSE saved[to]

SwitchTo(from, to, live) ==
  /\ current' = to
  /\ saved' = Save(from, live)
  /\ shared' = Restore(to, live)

Enter_FirstCaller(a, f, newState) ==
  /\ state' = [state EXCEPT ![f] = newState]
  /\ caller' = [caller EXCEPT ![f] = IF @ = None THEN a ELSE @]
  /\ SwitchTo(a, f, shared)
  /\ frames' = [frames EXCEPT ![f] = IF @ = None THEN Fresh(f) ELSE @]
  /\ stats' = IF state[f] = "Init"
              THEN [stats EXCEPT !.initialized = @ + 1] ELSE stats

\* Fiber::run() up to the switch: from Init the trampoline is entered for the
\* first time; an aborting fiber keeps its state.
Enter(a, f, newState) ==
  /\ state' = [state EXCEPT ![f] = newState]
  /\ caller' = [caller EXCEPT ![f] = a]
  /\ SwitchTo(a, f, shared)
  /\ frames' = [frames EXCEPT ![f] = IF @ = None THEN Fresh(f) ELSE @]
  /\ stats' = IF state[f] = "Init"
              THEN [stats EXCEPT !.initialized = @ + 1] ELSE stats

\* `a` executes, and is not inside a call.
Executing(a) == current = a /\ pending[a] = NoCall

Call(a, op, r) ==
  pending' = [pending EXCEPT
    ![a] = [op |-> op, r |-> r, fiber |-> fiber[r], old |-> resumable]]
----------------------------------------------------------------------------
(* Operations of the executing actor `a` on Resumable `r` *)

Construct_StaleException(a, r) ==
  /\ Executing(a)
  /\ phase[r] = "unborn"
  /\ \E f \in Fibers :
       /\ Reuse(f) \/ Allocate(f)
       /\ fiber' = [fiber EXCEPT ![r] = f]
       /\ function' = [function EXCEPT ![f] = r]
       /\ result'   = [result EXCEPT ![f] = None]
  /\ phase' = [phase EXCEPT ![r] = "live"]
  /\ UNCHANGED <<caller, exception, current, resumable, stackVars, done, value,
                 threw, outcome, pending>>

\* Resumable(f): create() and Fiber::init().
Construct(a, r) ==
  /\ Executing(a)
  /\ phase[r] = "unborn"
  /\ \E f \in Fibers :
       /\ Reuse(f) \/ Allocate(f)
       /\ fiber' = [fiber EXCEPT ![r] = f]
       /\ function'  = [function EXCEPT ![f] = r]
       /\ result'    = [result EXCEPT ![f] = None]
       /\ exception' = [exception EXCEPT ![f] = None]
  /\ phase' = [phase EXCEPT ![r] = "live"]
  /\ UNCHANGED <<caller, current, resumable, stackVars, done, value, threw,
                 outcome, pending>>

\* Resumable::run(), to be called once: the fiber still has its function.
Run(a, r) ==
  /\ Executing(a)
  /\ phase[r] = "live" /\ fiber[r] # None
  /\ state[fiber[r]] \in {"Init", "Idle"}
  /\ function[fiber[r]] # None
  /\ Call(a, "run", r)
  /\ resumable' = fiber[r]
  /\ Enter(a, fiber[r], "Running")
  /\ UNCHANGED <<function, result, exception, cache, resumableVars, outcome>>

\* Resumable::resume(): the rest of it is that of run().
Resume(a, r) ==
  /\ Executing(a)
  /\ phase[r] = "live" /\ fiber[r] # None
  /\ state[fiber[r]] = "Yielded"
  /\ Call(a, "run", r)
  /\ resumable' = fiber[r]
  /\ Enter(a, fiber[r], "Running")
  /\ UNCHANGED <<function, result, exception, cache, resumableVars, outcome>>

\* Resumable::abort(); without a fiber it returns at once.
Abort(a, r) ==
  /\ Executing(a)
  /\ phase[r] = "live" /\ fiber[r] # None
  /\ state[fiber[r]] = "Yielded"
  /\ Call(a, "abort", r)
  /\ resumable' = fiber[r]
  /\ Enter(a, fiber[r], "Aborting")
  /\ UNCHANGED <<function, result, exception, cache, resumableVars, outcome>>

\* ~Resumable() of a suspended function: Fiber::destroy() aborts it, without
\* setting the context's resumable.
DestroySuspended(a, r) ==
  /\ Executing(a)
  /\ phase[r] = "live" /\ fiber[r] # None
  /\ state[fiber[r]] = "Yielded"
  /\ Call(a, "destroy", r)
  /\ Enter(a, fiber[r], "Aborting")
  /\ phase' = [phase EXCEPT ![r] = "gone"]
  /\ fiber' = [fiber EXCEPT ![r] = None]
  /\ UNCHANGED <<function, result, exception, cache, resumable, done, value,
                 threw, outcome>>

DestroyInactive_NoAbort(a, r) ==
  /\ Executing(a)
  /\ phase[r] = "live" /\ fiber[r] # None
  /\ state[fiber[r]] \in {"Init", "Idle", "Yielded"}
  /\ Release(fiber[r])
  /\ phase' = [phase EXCEPT ![r] = "gone"]
  /\ fiber' = [fiber EXCEPT ![r] = None]
  /\ UNCHANGED <<caller, function, result, exception, current, resumable,
                 shared, done, value, threw, outcome, pending>>

\* ~Resumable() of a function that never ran, was aborted, or has ended.
DestroyInactive(a, r) ==
  /\ Executing(a)
  /\ phase[r] = "live"
  /\ \/ /\ fiber[r] = None
        /\ UNCHANGED <<cache, stats, state, saved, frames>>
     \/ /\ fiber[r] # None
        /\ state[fiber[r]] \in {"Init", "Idle"}
        /\ Release(fiber[r])
  /\ phase' = [phase EXCEPT ![r] = "gone"]
  /\ fiber' = [fiber EXCEPT ![r] = None]
  /\ UNCHANGED <<caller, function, result, exception, current, resumable,
                 shared, done, value, threw, outcome, pending>>
----------------------------------------------------------------------------
(* What a payload does *)

\* detail::yield(): suspends the function that the context's resumable names,
\* which has to be the one executing.  The frames it built since stay behind.
Yield(f) ==
  /\ Executing(f)
  /\ resumable = f
  /\ state[f] = "Running"
  /\ shared.mark < MaxYields
  /\ state' = [state EXCEPT ![f] = "Yielded"]
  /\ frames' = [frames EXCEPT ![f] = Grown(@)]
  /\ SwitchTo(f, caller[f], Grown(shared))
  /\ UNCHANGED <<caller, function, result, exception, cache, resumable,
                 resumableVars, outcome, pending, stats>>

\* The trampoline once the payload returned, threw, or was unwound by the
\* AbortException that yield() throws into an aborting fiber.
Finish(f, how) ==
  /\ Executing(f)
  /\ state[f] \in Active
  /\ how = "aborted" <=> state[f] = "Aborting"
  /\ result' = IF how = "value" THEN [result EXCEPT ![f] = function[f]]
               ELSE result
  /\ exception' = IF how = "value" THEN exception
                  ELSE [exception EXCEPT ![f] = function[f]]
  /\ function' = [function EXCEPT ![f] = None]
  /\ outcome' = [outcome EXCEPT ![function[f]] = how]
  /\ state' = [state EXCEPT ![f] = "Idle"]
  /\ frames' = [frames EXCEPT ![f] = Fresh(f)]
  /\ SwitchTo(f, caller[f], Unwound(shared))
  /\ UNCHANGED <<caller, cache, resumable, resumableVars, pending, stats>>
----------------------------------------------------------------------------
(* The end of a call, once control is back with the caller *)

Returned(a, op) ==
  /\ current = a
  /\ pending[a].op = op
  /\ state[pending[a].fiber] \in {"Yielded", "Idle"}
  /\ pending' = [pending EXCEPT ![a] = NoCall]

ReturnFromRun_KeepsFiber(a) ==
  LET c == pending[a]
      f == c.fiber
  IN /\ Returned(a, "run")
     /\ resumable' = c.old
     /\ IF exception[f] # None \/ state[f] = "Idle"
        THEN /\ done' = [done EXCEPT ![c.r] = TRUE]
             /\ value' = [value EXCEPT ![c.r] =
                            IF exception[f] # None THEN None ELSE result[f]]
             /\ threw' = [threw EXCEPT ![c.r] = exception[f]]
             /\ Release(f)
        ELSE UNCHANGED <<done, value, threw, cache, stats, state, saved, frames>>
     /\ UNCHANGED <<caller, function, result, exception, current, shared,
                    phase, fiber, outcome>>

ReturnFromRun_ClearsResumable(a) ==
  LET c == pending[a]
  IN /\ Returned(a, "run")
     /\ resumable' = None
     /\ state[c.fiber] = "Yielded"
     /\ UNCHANGED <<fiberVars, current, cache, stackVars, resumableVars,
                    outcome, stats>>

\* Resumable::run() and resume(): put the context's resumable back, yielded().
ReturnFromRun(a) ==
  LET c == pending[a]
      f == c.fiber
  IN /\ Returned(a, "run")
     /\ resumable' = c.old
     /\ IF exception[f] # None \/ state[f] = "Idle"
        THEN /\ done' = [done EXCEPT ![c.r] = TRUE]
             /\ value' = [value EXCEPT ![c.r] =
                            IF exception[f] # None THEN None ELSE result[f]]
             /\ threw' = [threw EXCEPT ![c.r] = exception[f]]
             /\ fiber' = [fiber EXCEPT ![c.r] = None]
             /\ Release(f)
        ELSE UNCHANGED <<done, value, threw, fiber, cache, stats, state,
                         saved, frames>>
     /\ UNCHANGED <<caller, function, result, exception, current, shared,
                    phase, outcome>>

\* Resumable::abort(): the Resumable keeps its fiber.
ReturnFromAbort(a) ==
  LET c == pending[a]
  IN /\ Returned(a, "abort")
     /\ resumable' = c.old
     /\ value' = [value EXCEPT ![c.r] = None]
     /\ done' = [done EXCEPT ![c.r] = TRUE]
     /\ UNCHANGED <<fiberVars, current, cache, stackVars, phase, fiber, threw,
                    outcome, stats>>

ReturnFromDestroy(a) ==
  /\ Returned(a, "destroy")
  /\ Release(pending[a].fiber)
  /\ UNCHANGED <<caller, function, result, exception, current, resumable,
                 shared, resumableVars, outcome>>

\* Fiber::primeCache(): takes fiber_cache_size fibers, then destroys them, last
\* one first, so that the ones cached before end up on top again.
PrimeCache(a) ==
  /\ Executing(a)
  /\ Len(cache) < CacheSize
  /\ LET n == CacheSize - Len(cache)
     IN \E new \in [1..n -> {f \in Fibers : state[f] = "Deleted"}] :
          /\ \A i, j \in 1..n : new[i] = new[j] => i = j
          /\ cache' = new \o cache
          /\ state' = [f \in Fibers |->
                         IF f \in Elements(new) THEN "Init" ELSE state[f]]
          /\ stats' = [Constructed(stats, n) EXCEPT !.cached = CacheSize]
  /\ UNCHANGED <<caller, function, result, exception, current, resumable,
                 stackVars, resumableVars, outcome, pending>>
----------------------------------------------------------------------------
Operation(a) ==
  \/ \E r \in Resumables :
       \/ Construct(a, r) \/ Run(a, r) \/ Resume(a, r) \/ Abort(a, r)
       \/ DestroySuspended(a, r) \/ DestroyInactive(a, r)
  \/ PrimeCache(a)
  \/ ReturnFromRun(a) \/ ReturnFromAbort(a) \/ ReturnFromDestroy(a)

Payload(f) ==
  Yield(f) \/ \E how \in {"value", "error", "aborted"} : Finish(f, how)

Next == (\E a \in Actors : Operation(a)) \/ (\E f \in Fibers : Payload(f))

Spec == Init /\ [][Next]_vars

\* What a payload and a call in progress are trusted to do: payloads do not
\* compute forever, and a call that got control back completes.
\* Only one of them has control.
TrustedStep ==
  \/ \E f \in Fibers : Operation(f) \/ Payload(f)
  \/ ReturnFromRun(Main) \/ ReturnFromAbort(Main) \/ ReturnFromDestroy(Main)
FairSpec == Spec /\ WF_vars(TrustedStep)
----------------------------------------------------------------------------
(* Properties *)

\* Every variable has its type; the fibers and calls named exist.
TypeOK ==
  /\ state \in [Fibers -> States]
  /\ caller \in [Fibers -> Actors \cup {None}]
  /\ function  \in [Fibers -> Resumables \cup {None}]
  /\ result    \in [Fibers -> Resumables \cup {None}]
  /\ exception \in [Fibers -> Resumables \cup {None}]
  /\ current \in Actors
  /\ cache \in Seq(Fibers) /\ Len(cache) <= CacheSize
  /\ resumable \in Fibers \cup {None}
  /\ shared \in Frames \cup {None}
  /\ saved  \in [Fibers -> Frames \cup {None}]
  /\ frames \in [Fibers -> Frames \cup {None}]
  /\ phase \in [Resumables -> {"unborn", "live", "gone"}]
  /\ fiber \in [Resumables -> Fibers \cup {None}]
  /\ done \in [Resumables -> BOOLEAN]
  /\ value \in [Resumables -> Resumables \cup {None}]
  /\ threw \in [Resumables -> Resumables \cup {None}]
  /\ outcome \in [Resumables -> Outcomes]
  /\ pending \in [Actors -> Calls \cup {NoCall}]
  /\ stats \in Statistics

\* Control moves along one chain of calls: the fibers that have been entered
\* and have not suspended are those on it, each called by exactly the actor
\* that waits for it, and everything above the executing one waits.  It is
\* what makes the single `_caller` pointer enough to find the way back.
CallChain ==
  /\ current \in Fibers => state[current] \in Active
  /\ \A f \in Fibers : state[f] \in Active =>
       /\ caller[f] \in Actors \ {f}
       /\ pending[caller[f]].fiber = f
       /\ caller[f] \in Fibers => state[caller[f]] \in Active
       /\ f # current => pending[f] # NoCall
  /\ \A a \in Actors : pending[a] # NoCall =>
       /\ a \in Fibers => state[a] \in Active
       /\ IF a = current
          THEN state[pending[a].fiber] \in {"Yielded", "Idle"}
          ELSE /\ state[pending[a].fiber] \in Active
               /\ caller[pending[a].fiber] = a

\* A fiber that executes finds on the shared stack the very frames it left
\* there when it was last switched out, whatever ran on that stack meanwhile;
\* and those of every other fiber that was entered are in its buffer.
StackIntegrity ==
  /\ current \in Fibers => shared = frames[current]
  /\ \A f \in Fibers : f # current => saved[f] = frames[f]

\* A fiber that exists has exactly one owner (the cache, a Resumable, or a
\* destructor that is about to recycle it): none is executed for two
\* Resumables, recycled while somebody can still resume it, or leaked.
Owners(f) ==
  {<<"cache", i>> : i \in {j \in DOMAIN cache : cache[j] = f}}
    \cup {<<"resumable", r>> : r \in {q \in Resumables : fiber[q] = f}}
    \cup {<<"destroy", a>> :
            a \in {b \in Actors : pending[b].op = "destroy"
                                  /\ pending[b].fiber = f}}

OneOwner ==
  \A f \in Fibers :
    /\ state[f] = "Deleted" <=> Owners(f) = {}
    /\ \A x, y \in Owners(f) : x = y

\* No half-executed function is left in a fiber that is handed out again.
RecycledAreIdle ==
  \A i \in DOMAIN cache : state[cache[i]] \in {"Init", "Idle"}

\* What suspends at detail::yield() is the function that executes: the
\* context's resumable survives nested calls, aborts and exceptions.
YieldsItself ==
  pending[current] = NoCall =>
    /\ current = Main => resumable = None
    /\ current \in Fibers /\ state[current] = "Running" => resumable = current

\* The caller is told what happened to the function it started, never
\* something left behind in a recycled fiber.
OwnOutcome ==
  \A r \in Resumables :
    /\ value[r] # None => value[r] = r /\ outcome[r] = "value"
    /\ threw[r] # None => threw[r] = r /\ outcome[r] = "error"
    /\ done[r] =>
         CASE outcome[r] = "value"   -> value[r] = r
           [] outcome[r] = "error"   -> threw[r] = r
           [] outcome[r] = "aborted" -> value[r] = None /\ threw[r] = None
           [] outcome[r] = "none"    -> FALSE

\* The statistics agree with the fibers that exist.
StatsAgree ==
  /\ stats.current = Cardinality({f \in Fibers : state[f] # "Deleted"})
  /\ stats.cached = Len(cache)
  /\ stats.current <= stats.max /\ stats.max <= stats.total
  /\ Cardinality({f \in Fibers : frames[f] # None}) <= stats.initialized
  /\ stats.initialized <= stats.total

\* Every variable has its type, and the counters tell the truth.
Accounting == TypeOK /\ StatsAgree

\* Control comes back to who waits for it, and suspends who asked for it.
Control == CallChain /\ YieldsItself

\* Every fiber belongs to somebody, and what the cache owns can be used again.
Ownership == OneOwner /\ RecycledAreIdle

\* A Resumable that completed stays completed, with the value it had.
DoneIsFinal ==
  [][\A r \in Resumables : done[r] => done'[r] /\ value'[r] = value[r]]_vars

\* A call into a fiber comes back to the actor that made it, however they are
\* nested: again and again there is nobody who waits for a call.
CallsReturn == []<>(\A a \in Actors : pending[a] = NoCall)
=============================================================================
