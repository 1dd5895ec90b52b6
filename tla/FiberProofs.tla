---------------------------- MODULE FiberProofs ----------------------------
(***************************************************************************)
(* Proofs about the coroutines, for any number of fibers and Resumables,   *)
(* any cache size and any number of yields.                                *)
(*                                                                         *)
(* The inductive invariant IInv is at the end.  CallChain says where       *)
(* control can go; that nobody else's fiber is entered or recycled needs   *)
(* Owned and CacheDistinct; that a frame is where its fiber left it needs  *)
(* Entered; and that the context names the executing fiber again after a   *)
(* nested call needs what the call in progress remembers, Context.  Each   *)
(* conjunct has a lemma <Conjunct>Step for a step of Next, the helpers     *)
(* (Release, Enter, Call, Returned) have lemmas of their own.              *)
(*                                                                         *)
(* Two more properties strengthen IInv further.  That callers are told     *)
(* their own outcome needs Bound and Kept, which follow a payload through  *)
(* its fiber; that the counters are right needs Counted.                   *)
(***************************************************************************)
EXTENDS Fiber, SequenceTheorems, FiniteSetTheorems, TLAPS

\* A fiber that was entered and has not finished has frames, all of them its own.
Entered ==
  \A f \in Fibers :
    /\ state[f] \in Active \cup {"Yielded"} => frames[f] # None
    /\ frames[f] # None => frames[f].owner = f

\* Counting n new fibers keeps the type of the statistics.
LEMMA ConstructedType ==
  ASSUME NEW st \in Statistics, NEW n \in Nat
  PROVE  Constructed(st, n) \in Statistics
BY DEF Constructed, Statistics

\* Recycling or deleting a fiber keeps every type.
LEMMA ReleaseType ==
  ASSUME TypeOK, NEW f \in Fibers, Release(f)
  PROVE  /\ cache' \in Seq(Fibers) /\ Len(cache') <= CacheSize
         /\ state' \in [Fibers -> States]
         /\ saved'  \in [Fibers -> Frames \cup {None}]
         /\ frames' \in [Fibers -> Frames \cup {None}]
         /\ stats' \in Statistics
<1>1. CASE Len(cache) < CacheSize
  <2>1. cache' = Append(cache, f) /\ Len(cache') = Len(cache) + 1
    BY <1>1 DEF TypeOK, Release
  <2>2. cache' \in Seq(Fibers) /\ Len(cache') <= CacheSize
    BY <1>1, <2>1, ConstantsAssumption DEF TypeOK
  <2>3. UNCHANGED <<state, saved, frames>>
    BY <1>1 DEF Release
  <2>4. stats' \in Statistics
    BY <1>1 DEF TypeOK, Release, Statistics
  <2>5. QED
    BY <2>2, <2>3, <2>4 DEF TypeOK
<1>2. CASE ~(Len(cache) < CacheSize)
  <2>1. cache' = cache
    BY <1>2 DEF Release
  <2>2. stats' \in Statistics
    BY <1>2 DEF TypeOK, Release, Statistics
  <2>3. state' \in [Fibers -> States]
    BY <1>2 DEF TypeOK, Release, States
  <2>4. saved' \in [Fibers -> Frames \cup {None}]
    BY <1>2 DEF TypeOK, Release
  <2>5. frames' \in [Fibers -> Frames \cup {None}]
    BY <1>2 DEF TypeOK, Release
  <2>6. QED
    BY <2>1, <2>2, <2>3, <2>4, <2>5 DEF TypeOK
<1>3. QED BY <1>1, <1>2

\* So does switching into one,
LEMMA EnterType ==
  ASSUME TypeOK, NEW a \in Actors, NEW f \in Fibers, NEW s \in Active,
         Enter(a, f, s)
  PROVE  /\ state' \in [Fibers -> States]
         /\ caller' \in [Fibers -> Actors \cup {None}]
         /\ current' \in Actors
         /\ shared' \in Frames \cup {None}
         /\ saved'  \in [Fibers -> Frames \cup {None}]
         /\ frames' \in [Fibers -> Frames \cup {None}]
         /\ stats' \in Statistics
<1>1. Fresh(f) \in Frames
  BY DEF Fresh, Frames
<1>2. stats' \in Statistics
  BY DEF TypeOK, Enter, Statistics
<1>3. state' \in [Fibers -> States] /\ caller' \in [Fibers -> Actors \cup {None}]
  BY DEF TypeOK, Enter, States, Active
<1>4. frames' \in [Fibers -> Frames \cup {None}]
  BY <1>1 DEF TypeOK, Enter
<1>5. saved' \in [Fibers -> Frames \cup {None}] /\ current' \in Actors
  BY DEF TypeOK, Enter, SwitchTo, Save, Actors
<1>6. shared' \in Frames \cup {None}
  BY <1>1 DEF TypeOK, Enter, SwitchTo, Restore
<1>7. QED
  BY <1>2, <1>3, <1>4, <1>5, <1>6

\* and noting the call that does it.
LEMMA CallType ==
  ASSUME TypeOK, NEW a \in Actors, NEW r \in Resumables,
         NEW op \in {"run", "abort", "destroy"},
         fiber[r] # None, Call(a, op, r)
  PROVE  pending' \in [Actors -> Calls \cup {NoCall}]
<1>1. [op |-> op, r |-> r, fiber |-> fiber[r], old |-> resumable] \in Calls
  BY DEF TypeOK, Calls
<1>2. QED
  BY <1>1 DEF TypeOK, Call

\* TypeOK is preserved; StackIntegrity and Entered give the frames moved.
LEMMA TypeStep ==
  ASSUME TypeOK, CallChain, StackIntegrity, Entered, Next
  PROVE  TypeOK'
<1>1. ASSUME NEW a \in Actors, NEW r \in Resumables, Construct(a, r)
      PROVE  TypeOK'
  <2>1. PICK f \in Fibers : /\ Reuse(f) \/ Allocate(f)
                            /\ fiber' = [fiber EXCEPT ![r] = f]
                            /\ function'  = [function EXCEPT ![f] = r]
                            /\ result'    = [result EXCEPT ![f] = None]
                            /\ exception' = [exception EXCEPT ![f] = None]
    BY <1>1 DEF Construct
  <2>2. /\ cache' \in Seq(Fibers) /\ Len(cache') <= CacheSize
        /\ state' \in [Fibers -> States]
        /\ stats' \in Statistics
    <3>1. CASE Reuse(f)
      <4>1. cache' \in Seq(Fibers) /\ Len(cache') <= CacheSize
        BY <3>1, ConstantsAssumption DEF Reuse, Front, TypeOK
      <4>2. stats' \in Statistics
        <5>1. stats' = [stats EXCEPT !.cached = @ - 1] /\ stats \in Statistics
          BY <3>1 DEF Reuse, TypeOK
        <5>2. QED BY <5>1 DEF Statistics
      <4>3. QED
        BY <3>1, <4>1, <4>2 DEF Reuse, TypeOK
    <3>2. CASE Allocate(f)
      <4>1. stats' \in Statistics
        BY <3>2, ConstructedType DEF Allocate, TypeOK
      <4>2. QED
        BY <3>2, <4>1 DEF Allocate, TypeOK, States
    <3>3. QED BY <2>1, <3>1, <3>2
  <2>3. QED
    BY <1>1, <2>1, <2>2 DEF Construct, TypeOK, stackVars
<1>2. ASSUME NEW a \in Actors, NEW r \in Resumables,
             Run(a, r) \/ Resume(a, r) \/ Abort(a, r) \/ DestroySuspended(a, r)
      PROVE  TypeOK'
  <2>1. /\ fiber[r] \in Fibers
        /\ \E s \in Active : Enter(a, fiber[r], s)
        /\ Call(a, "run", r) \/ Call(a, "abort", r) \/ Call(a, "destroy", r)
    BY <1>2 DEF Run, Resume, Abort, DestroySuspended, TypeOK, Active
  <2>2. pending' \in [Actors -> Calls \cup {NoCall}]
    BY <1>2, <2>1, CallType DEF Run, Resume, Abort, DestroySuspended
  <2>3. /\ state' \in [Fibers -> States]
        /\ caller' \in [Fibers -> Actors \cup {None}]
        /\ current' \in Actors
        /\ shared' \in Frames \cup {None}
        /\ saved'  \in [Fibers -> Frames \cup {None}]
        /\ frames' \in [Fibers -> Frames \cup {None}]
        /\ stats' \in Statistics
    BY <2>1, EnterType
  <2>4. /\ resumable' \in Fibers \cup {None}
        /\ phase' \in [Resumables -> {"unborn", "live", "gone"}]
        /\ fiber' \in [Resumables -> Fibers \cup {None}]
    BY <1>2, <2>1 DEF Run, Resume, Abort, DestroySuspended, TypeOK, resumableVars
  <2>5. UNCHANGED <<function, result, exception, cache, done, value, threw,
                    outcome>>
    BY <1>2 DEF Run, Resume, Abort, DestroySuspended, resumableVars
  <2>6. QED
    BY <2>2, <2>3, <2>4, <2>5 DEF TypeOK
<1>3. ASSUME NEW a \in Actors, NEW r \in Resumables, DestroyInactive(a, r)
      PROVE  TypeOK'
  <2>1. /\ cache' \in Seq(Fibers) /\ Len(cache') <= CacheSize
        /\ state' \in [Fibers -> States]
        /\ saved'  \in [Fibers -> Frames \cup {None}]
        /\ frames' \in [Fibers -> Frames \cup {None}]
        /\ stats' \in Statistics
    BY <1>3, ReleaseType DEF DestroyInactive, TypeOK
  <2>2. QED
    BY <1>3, <2>1 DEF DestroyInactive, TypeOK
<1>4. ASSUME NEW f \in Fibers, Yield(f)
      PROVE  TypeOK'
  <2>1. /\ current = f /\ state[f] \in Active
        /\ shared = frames[f] /\ frames[f] \in Frames
        /\ caller[f] \in Actors
    BY <1>4 DEF Yield, Executing, TypeOK, CallChain, StackIntegrity, Entered,
                Active
  <2>2. Grown(shared) \in Frames
    BY <2>1 DEF Grown, Frames
  <2>3. saved' \in [Fibers -> Frames \cup {None}] /\ shared' \in Frames \cup {None}
    BY <1>4, <2>1, <2>2 DEF Yield, SwitchTo, Save, Restore, TypeOK, Actors, Fresh,
                            Frames
  <2>4. frames' \in [Fibers -> Frames \cup {None}]
    BY <1>4, <2>1, <2>2 DEF Yield, TypeOK
  <2>5. QED
    BY <1>4, <2>1, <2>3, <2>4 DEF Yield, SwitchTo, TypeOK, States, resumableVars
<1>5. ASSUME NEW f \in Fibers, NEW how \in {"value", "error", "aborted"},
             Finish(f, how)
      PROVE  TypeOK'
  <2>1. /\ current = f /\ state[f] \in Active
        /\ shared = frames[f] /\ frames[f] \in Frames
        /\ caller[f] \in Actors
    BY <1>5 DEF Finish, Executing, TypeOK, CallChain, StackIntegrity, Entered,
                Active
  <2>2. Unwound(shared) \in Frames /\ Fresh(f) \in Frames
    BY <2>1 DEF Unwound, Fresh, Frames
  <2>3. saved' \in [Fibers -> Frames \cup {None}] /\ shared' \in Frames \cup {None}
    BY <1>5, <2>1, <2>2 DEF Finish, SwitchTo, Save, Restore, TypeOK, Actors, Fresh,
                            Frames
  <2>4. frames' \in [Fibers -> Frames \cup {None}]
    BY <1>5, <2>1, <2>2 DEF Finish, TypeOK
  <2>5. /\ result' \in [Fibers -> Resumables \cup {None}]
        /\ exception' \in [Fibers -> Resumables \cup {None}]
        /\ function' \in [Fibers -> Resumables \cup {None}]
        /\ outcome' \in [Resumables -> Outcomes]
    BY <1>5 DEF Finish, TypeOK, Outcomes
  <2>6. QED
    BY <1>5, <2>1, <2>3, <2>4, <2>5
       DEF Finish, SwitchTo, TypeOK, States, resumableVars
<1>6. ASSUME NEW a \in Actors, ReturnFromRun(a)
      PROVE  TypeOK'
  <2> DEFINE c == pending[a]
  <2>1. c \in Calls
    BY <1>6 DEF ReturnFromRun, Returned, TypeOK, NoCall
  <2>2. c.fiber \in Fibers /\ c.r \in Resumables /\ c.old \in Fibers \cup {None}
    BY <2>1 DEF Calls
  <2>3. pending' \in [Actors -> Calls \cup {NoCall}]
    BY <1>6 DEF ReturnFromRun, Returned, TypeOK
  <2>4. CASE exception[c.fiber] # None \/ state[c.fiber] = "Idle"
    <3>1. Release(c.fiber)
      BY <1>6, <2>4 DEF ReturnFromRun
    <3>2. /\ cache' \in Seq(Fibers) /\ Len(cache') <= CacheSize
          /\ state' \in [Fibers -> States]
          /\ saved'  \in [Fibers -> Frames \cup {None}]
          /\ frames' \in [Fibers -> Frames \cup {None}]
          /\ stats' \in Statistics
      BY <2>2, <3>1, ReleaseType
    <3>3. /\ done' \in [Resumables -> BOOLEAN]
          /\ value' \in [Resumables -> Resumables \cup {None}]
          /\ threw' \in [Resumables -> Resumables \cup {None}]
          /\ fiber' \in [Resumables -> Fibers \cup {None}]
      <4>1. done' \in [Resumables -> BOOLEAN]
        BY <1>6, <2>4 DEF ReturnFromRun, TypeOK
      <4>2. value' \in [Resumables -> Resumables \cup {None}]
        BY <1>6, <2>2, <2>4 DEF ReturnFromRun, TypeOK
      <4>3. threw' \in [Resumables -> Resumables \cup {None}]
        BY <1>6, <2>2, <2>4 DEF ReturnFromRun, TypeOK
      <4>4. fiber' \in [Resumables -> Fibers \cup {None}]
        BY <1>6, <2>4 DEF ReturnFromRun, TypeOK
      <4>5. QED BY <4>1, <4>2, <4>3, <4>4
    <3>4. QED
      BY <1>6, <2>2, <2>3, <3>2, <3>3 DEF ReturnFromRun, TypeOK
  <2>5. CASE ~(exception[c.fiber] # None \/ state[c.fiber] = "Idle")
    BY <1>6, <2>2, <2>3, <2>5 DEF ReturnFromRun, TypeOK
  <2>6. QED BY <2>4, <2>5
<1>7. ASSUME NEW a \in Actors, ReturnFromAbort(a)
      PROVE  TypeOK'
  <2>1. pending[a] \in Calls
    BY <1>7 DEF ReturnFromAbort, Returned, TypeOK, NoCall
  <2>2. pending[a].old \in Fibers \cup {None}
    BY <2>1 DEF Calls
  <2>3. pending' \in [Actors -> Calls \cup {NoCall}]
    BY <1>7 DEF ReturnFromAbort, Returned, TypeOK
  <2>4. QED
    BY <1>7, <2>2, <2>3
       DEF ReturnFromAbort, TypeOK, fiberVars, stackVars
<1>8. ASSUME NEW a \in Actors, ReturnFromDestroy(a)
      PROVE  TypeOK'
  <2>1. pending[a] \in Calls
    BY <1>8 DEF ReturnFromDestroy, Returned, TypeOK, NoCall
  <2>2. pending[a].fiber \in Fibers
    BY <2>1 DEF Calls
  <2>3. pending' \in [Actors -> Calls \cup {NoCall}]
    BY <1>8 DEF ReturnFromDestroy, Returned, TypeOK
  <2>4. /\ cache' \in Seq(Fibers) /\ Len(cache') <= CacheSize
        /\ state' \in [Fibers -> States]
        /\ saved'  \in [Fibers -> Frames \cup {None}]
        /\ frames' \in [Fibers -> Frames \cup {None}]
        /\ stats' \in Statistics
    BY <1>8, <2>2, ReleaseType DEF ReturnFromDestroy
  <2>5. QED
    BY <1>8, <2>3, <2>4 DEF ReturnFromDestroy, TypeOK, resumableVars
<1>9. ASSUME NEW a \in Actors, PrimeCache(a)
      PROVE  TypeOK'
  <2> DEFINE n == CacheSize - Len(cache)
  <2>1. PICK new \in [1..n -> {f \in Fibers : state[f] = "Deleted"}] :
          /\ cache' = new \o cache
          /\ state' = [f \in Fibers |->
                         IF f \in Elements(new) THEN "Init" ELSE state[f]]
          /\ stats' = [Constructed(stats, n) EXCEPT !.cached = CacheSize]
    BY <1>9 DEF PrimeCache
  <2>2. n \in Nat /\ Len(cache) \in Nat /\ cache \in Seq(Fibers)
    BY <1>9, ConstantsAssumption DEF PrimeCache, TypeOK
  <2>3. new \in Seq(Fibers) /\ Len(new) = n
    <3>1. new \in [1..n -> Fibers]
      BY <2>1
    <3>2. QED BY <2>2, <3>1
  <2>4. cache' \in Seq(Fibers) /\ Len(cache') <= CacheSize
    BY <2>1, <2>2, <2>3, ConstantsAssumption
  <2>5. state' \in [Fibers -> States]
    BY <2>1 DEF TypeOK, States
  <2>6. stats' \in Statistics
    <3>1. Constructed(stats, n) \in Statistics
      BY <2>2, ConstructedType DEF TypeOK
    <3>2. stats' = [Constructed(stats, n) EXCEPT !.cached = CacheSize]
      BY <2>1
    <3>3. QED
      BY <3>1, <3>2, ConstantsAssumption DEF Statistics
  <2>7. QED
    BY <1>9, <2>4, <2>5, <2>6 DEF PrimeCache, TypeOK, stackVars, resumableVars
<1>10. QED
  BY <1>1, <1>2, <1>3, <1>4, <1>5, <1>6, <1>7, <1>8, <1>9
     DEF Next, Operation, Payload
----------------------------------------------------------------------------
\* An actor with no call in progress waits for no fiber.
LEMMA NoCallFiber == NoCall.fiber \notin Fibers
BY ConstantsAssumption DEF NoCall

\* Entering a fiber that is not executing extends the chain of calls by it.
LEMMA EnterChain ==
  ASSUME TypeOK, CallChain, NEW a \in Actors, NEW f \in Fibers, NEW s \in Active,
         Executing(a), state[f] \notin Active,
         state' = [state EXCEPT ![f] = s],
         caller' = [caller EXCEPT ![f] = a],
         current' = f,
         NEW c \in Calls, c.fiber = f,
         pending' = [pending EXCEPT ![a] = c]
  PROVE  CallChain'
<1>1. a # f /\ current = a /\ pending[a] = NoCall /\ c # NoCall
  BY NoCallFiber DEF Executing, CallChain, Active
<1>2. current' \in Fibers => state'[current'] \in Active
  BY DEF TypeOK
<1>3. ASSUME NEW g \in Fibers, state'[g] \in Active
      PROVE  /\ caller'[g] \in Actors \ {g}
             /\ pending'[caller'[g]].fiber = g
             /\ caller'[g] \in Fibers => state'[caller'[g]] \in Active
             /\ g # current' => pending'[g] # NoCall
  <2>1. CASE g = f
    BY <1>1, <2>1 DEF TypeOK, CallChain
  <2>2. CASE g # f
    <3>1. state[g] \in Active
      BY <1>3, <2>2 DEF TypeOK
    <3>2. /\ caller[g] \in Actors \ {g} /\ pending[caller[g]].fiber = g
          /\ caller[g] \in Fibers => state[caller[g]] \in Active
          /\ g # a => pending[g] # NoCall
      BY <1>1, <3>1 DEF CallChain
    <3>3. caller[g] # a
      BY <1>1, <3>2, NoCallFiber
    <3>4. QED
      BY <1>1, <2>2, <3>2, <3>3 DEF TypeOK, Actors
  <2>3. QED BY <2>1, <2>2
<1>4. ASSUME NEW b \in Actors, pending'[b] # NoCall
      PROVE  /\ b \in Fibers => state'[b] \in Active
             /\ IF b = current'
                THEN state'[pending'[b].fiber] \in {"Yielded", "Idle"}
                ELSE /\ state'[pending'[b].fiber] \in Active
                     /\ caller'[pending'[b].fiber] = b
  <2>1. CASE b = a
    BY <1>1, <2>1 DEF TypeOK, CallChain
  <2>2. CASE b # a
    <3>1. pending'[b] = pending[b] /\ pending[b] # NoCall /\ pending[b] \in Calls
      BY <1>4, <2>2 DEF TypeOK
    <3>2. /\ b \in Fibers => state[b] \in Active
          /\ state[pending[b].fiber] \in Active
          /\ caller[pending[b].fiber] = b
          /\ pending[b].fiber \in Fibers
      BY <1>1, <2>2, <3>1 DEF CallChain, Calls
    <3>3. pending[b].fiber # f /\ b # f
      BY <3>2
    <3>4. QED
      BY <3>1, <3>2, <3>3 DEF TypeOK
  <2>3. QED BY <2>1, <2>2
<1>5. QED
  BY <1>2, <1>3, <1>4 DEF CallChain

\* Switching out of a fiber leads back to the one that called it.
LEMMA LeaveChain ==
  ASSUME TypeOK, CallChain, NEW f \in Fibers, NEW s \in {"Yielded", "Idle"},
         Executing(f), state[f] \in Active,
         state' = [state EXCEPT ![f] = s],
         current' = caller[f],
         UNCHANGED <<caller, pending>>
  PROVE  CallChain'
<1>1. /\ current = f /\ pending[f] = NoCall /\ s \notin Active
      /\ caller[f] \in Actors \ {f} /\ pending[caller[f]].fiber = f
      /\ caller[f] \in Fibers => state[caller[f]] \in Active
  BY DEF Executing, CallChain, Active
<1>2. current' \in Fibers => state'[current'] \in Active
  BY <1>1 DEF TypeOK
<1>3. ASSUME NEW g \in Fibers, state'[g] \in Active
      PROVE  /\ caller'[g] \in Actors \ {g}
             /\ pending'[caller'[g]].fiber = g
             /\ caller'[g] \in Fibers => state'[caller'[g]] \in Active
             /\ g # current' => pending'[g] # NoCall
  <2>1. g # f /\ state[g] \in Active
    BY <1>1, <1>3 DEF TypeOK
  <2>2. /\ caller[g] \in Actors \ {g} /\ pending[caller[g]].fiber = g
        /\ caller[g] \in Fibers => state[caller[g]] \in Active
        /\ pending[g] # NoCall
    BY <1>1, <2>1 DEF CallChain
  <2>3. caller[g] # f
    BY <1>1, <2>2, NoCallFiber
  <2>4. QED
    BY <2>2, <2>3 DEF TypeOK
<1>4. ASSUME NEW b \in Actors, pending'[b] # NoCall
      PROVE  /\ b \in Fibers => state'[b] \in Active
             /\ IF b = current'
                THEN state'[pending'[b].fiber] \in {"Yielded", "Idle"}
                ELSE /\ state'[pending'[b].fiber] \in Active
                     /\ caller'[pending'[b].fiber] = b
  <2>1. b # f /\ pending[b] # NoCall /\ pending[b] \in Calls
    BY <1>1, <1>4 DEF TypeOK
  <2>2. /\ b \in Fibers => state[b] \in Active
        /\ state[pending[b].fiber] \in Active
        /\ caller[pending[b].fiber] = b
        /\ pending[b].fiber \in Fibers
    BY <1>1, <2>1 DEF CallChain, Calls
  <2>3. CASE b = current'
    BY <1>1, <2>1, <2>2, <2>3 DEF TypeOK
  <2>4. CASE b # current'
    <3>1. pending[b].fiber # f
      BY <2>2, <2>4
    <3>2. QED
      BY <2>1, <2>2, <2>4, <3>1 DEF TypeOK
  <2>5. QED BY <2>3, <2>4
<1>5. QED
  BY <1>2, <1>3, <1>4 DEF CallChain

\* Completing a call takes nothing but that call off the chain.
LEMMA ReturnChain ==
  ASSUME TypeOK, CallChain, NEW a \in Actors, current = a,
         pending[a] # NoCall,
         pending' = [pending EXCEPT ![a] = NoCall],
         \A g \in Fibers : state'[g] = state[g] \/
            (g = pending[a].fiber /\ state'[g] \notin Active),
         current' = a, caller' = caller
  PROVE  CallChain'
<1>1. state[pending[a].fiber] \in {"Yielded", "Idle"}
  BY DEF CallChain
<1>2. state[pending[a].fiber] \notin Active
  BY <1>1 DEF Active
<1>3. \A g \in Fibers : state[g] \in Active \/ state'[g] \in Active =>
                          state'[g] = state[g]
  BY <1>2
<1>4. \A g \in Fibers : state[g] \in Active => caller[g] # a
  BY <1>2 DEF CallChain
<1>5. \A b \in Actors : b # a /\ pending[b] # NoCall => pending[b].fiber \in Fibers
  BY DEF TypeOK, Calls
<1>6. ASSUME NEW g \in Fibers, state'[g] \in Active
      PROVE  /\ caller'[g] \in Actors \ {g}
             /\ pending'[caller'[g]].fiber = g
             /\ caller'[g] \in Fibers => state'[caller'[g]] \in Active
             /\ g # current' => pending'[g] # NoCall
  <2>1. state[g] \in Active /\ caller[g] # a
    BY <1>3, <1>4, <1>6
  <2>2. /\ caller[g] \in Actors \ {g} /\ pending[caller[g]].fiber = g
        /\ caller[g] \in Fibers => state[caller[g]] \in Active
        /\ g # current => pending[g] # NoCall
    BY <2>1 DEF CallChain
  <2>3. /\ pending'[caller[g]] = pending[caller[g]]
        /\ g # a => pending'[g] = pending[g]
    BY <2>1, <2>2 DEF TypeOK, Actors
  <2>4. QED
    BY <1>3, <2>1, <2>2, <2>3
<1>7. ASSUME NEW b \in Actors, pending'[b] # NoCall
      PROVE  /\ b \in Fibers => state'[b] \in Active
             /\ IF b = current'
                THEN state'[pending'[b].fiber] \in {"Yielded", "Idle"}
                ELSE /\ state'[pending'[b].fiber] \in Active
                     /\ caller'[pending'[b].fiber] = b
  <2>1. b # a /\ pending'[b] = pending[b]
    BY <1>7 DEF TypeOK
  <2>2. /\ b \in Fibers => state[b] \in Active
        /\ state[pending[b].fiber] \in Active
        /\ caller[pending[b].fiber] = b
        /\ pending[b].fiber \in Fibers
    BY <1>5, <1>7, <2>1 DEF CallChain
  <2>3. QED
    BY <1>3, <2>1, <2>2
<1>8. current' \in Fibers => state'[current'] \in Active
  BY <1>3 DEF CallChain
<1>9. QED
  BY <1>6, <1>7, <1>8 DEF CallChain

\* The chain only depends on states of fibers on it, callers and calls.
LEMMA QuietChain ==
  ASSUME TypeOK, CallChain, Executing(current),
         \A g \in Fibers : state'[g] = state[g] \/
            (state[g] \notin Active /\ state'[g] \notin Active),
         UNCHANGED <<current, caller, pending>>
  PROVE  CallChain'
<1>1. \A g \in Fibers : /\ state[g] \in Active => state'[g] = state[g]
                        /\ state'[g] \in Active => state'[g] = state[g]
  OBVIOUS
<1>2. \A b \in Actors : pending[b] # NoCall =>
        b # current /\ pending[b].fiber \in Fibers
  BY DEF TypeOK, Calls, Executing
<1>3. QED
  BY <1>1, <1>2 DEF TypeOK, CallChain, Actors

\* Recycling touches no other fiber's state.
LEMMA ReleaseState ==
  ASSUME TypeOK, NEW f \in Fibers, Release(f)
  PROVE  \A g \in Fibers : state'[g] = state[g] \/ (g = f /\ state'[g] = "Deleted")
BY DEF TypeOK, Release

\* CallChain is preserved by every step.
LEMMA ChainStep ==
  ASSUME TypeOK, CallChain, Next
  PROVE  CallChain'
<1>1. ASSUME NEW a \in Actors, NEW r \in Resumables, Construct(a, r)
      PROVE  CallChain'
  <2>1. \A g \in Fibers : state'[g] = state[g] \/
            (state[g] \notin Active /\ state'[g] \notin Active)
    BY <1>1 DEF Construct, Reuse, Allocate, TypeOK, Active
  <2>2. QED
    BY <1>1, <2>1, QuietChain DEF Construct, Executing
<1>2. ASSUME NEW a \in Actors, NEW r \in Resumables,
             Run(a, r) \/ Resume(a, r) \/ Abort(a, r) \/ DestroySuspended(a, r)
      PROVE  CallChain'
  <2>1. /\ Executing(a) /\ fiber[r] \in Fibers /\ state[fiber[r]] \notin Active
        /\ \E s \in Active : Enter(a, fiber[r], s)
    BY <1>2 DEF Run, Resume, Abort, DestroySuspended, TypeOK, Active
  <2>2. \E c \in Calls : c.fiber = fiber[r] /\ pending' = [pending EXCEPT ![a] = c]
    <3> DEFINE d(op) == [op |-> op, r |-> r, fiber |-> fiber[r], old |-> resumable]
    <3>1. \A op \in {"run", "abort", "destroy"} :
            d(op) \in Calls /\ d(op).fiber = fiber[r]
      BY <2>1 DEF Calls, TypeOK
    <3>2. \E op \in {"run", "abort", "destroy"} :
            pending' = [pending EXCEPT ![a] = d(op)]
      BY <1>2 DEF Run, Resume, Abort, DestroySuspended, Call
    <3>3. QED BY <3>1, <3>2
  <2>3. QED
    <3>1. PICK c \in Calls :
            c.fiber = fiber[r] /\ pending' = [pending EXCEPT ![a] = c]
      BY <2>2
    <3>2. PICK s \in Active : Enter(a, fiber[r], s)
      BY <2>1
    <3>3. /\ state' = [state EXCEPT ![fiber[r]] = s]
          /\ caller' = [caller EXCEPT ![fiber[r]] = a]
          /\ current' = fiber[r]
      BY <3>2 DEF Enter, SwitchTo
    <3>4. QED
      BY <2>1, <3>1, <3>3, EnterChain
<1>3. ASSUME NEW a \in Actors, NEW r \in Resumables, DestroyInactive(a, r)
      PROVE  CallChain'
  <2>1. \A g \in Fibers : state'[g] = state[g] \/
            (state[g] \notin Active /\ state'[g] \notin Active)
    BY <1>3, ReleaseState DEF DestroyInactive, TypeOK, Active
  <2>2. QED
    BY <1>3, <2>1, QuietChain DEF DestroyInactive, Executing
<1>4. ASSUME NEW f \in Fibers, Yield(f)
      PROVE  CallChain'
  BY <1>4, LeaveChain DEF Yield, SwitchTo, Active
<1>5. ASSUME NEW f \in Fibers, NEW how \in {"value", "error", "aborted"},
             Finish(f, how)
      PROVE  CallChain'
  BY <1>5, LeaveChain DEF Finish, SwitchTo
<1>6. ASSUME NEW a \in Actors,
             ReturnFromRun(a) \/ ReturnFromAbort(a) \/ ReturnFromDestroy(a)
      PROVE  CallChain'
  <2>1. /\ current = a /\ pending[a] # NoCall
        /\ pending' = [pending EXCEPT ![a] = NoCall]
        /\ UNCHANGED <<current, caller>>
    BY <1>6 DEF ReturnFromRun, ReturnFromAbort, ReturnFromDestroy, Returned,
                NoCall, fiberVars
  <2>2. pending[a].fiber \in Fibers
    BY <2>1 DEF TypeOK, Calls
  <2>3. \A g \in Fibers : state'[g] = state[g] \/
            (g = pending[a].fiber /\ state'[g] \notin Active)
    BY <1>6, <2>2, ReleaseState
       DEF ReturnFromRun, ReturnFromAbort, ReturnFromDestroy, fiberVars, Active
  <2>4. QED
    BY <2>1, <2>3, ReturnChain
<1>7. ASSUME NEW a \in Actors, PrimeCache(a)
      PROVE  CallChain'
  <2>1. \A g \in Fibers : state'[g] = state[g] \/
            (state[g] \notin Active /\ state'[g] \notin Active)
    <3>1. PICK new \in [1..(CacheSize - Len(cache)) ->
                          {f \in Fibers : state[f] = "Deleted"}] :
            state' = [f \in Fibers |->
                         IF f \in Elements(new) THEN "Init" ELSE state[f]]
      BY <1>7 DEF PrimeCache
    <3>2. Len(new) = CacheSize - Len(cache)
      BY <1>7, ConstantsAssumption DEF PrimeCache, TypeOK
    <3>3. \A g \in Elements(new) : state[g] = "Deleted"
      BY <3>2 DEF Elements
    <3>4. QED
      BY <3>1, <3>3 DEF Active
  <2>2. QED
    BY <1>7, <2>1, QuietChain DEF PrimeCache, Executing
<1>8. QED
  BY <1>1, <1>2, <1>3, <1>4, <1>5, <1>6, <1>7 DEF Next, Operation, Payload
----------------------------------------------------------------------------
\* Recycling a fiber that is not executing leaves all frames in place.
LEMMA ReleaseStack ==
  ASSUME TypeOK, StackIntegrity, Entered, NEW f \in Fibers, f # current,
         Release(f), UNCHANGED <<current, shared>>
  PROVE  StackIntegrity' /\ Entered'
<1>1. CASE Len(cache) < CacheSize
  BY <1>1 DEF Release, StackIntegrity, Entered
<1>2. CASE ~(Len(cache) < CacheSize)
  BY <1>2 DEF Release, StackIntegrity, Entered, TypeOK, Active
<1>3. QED BY <1>1, <1>2

\* A switch into a fiber saves the frames on the stack and restores the fiber's.
LEMMA EnterStack ==
  ASSUME TypeOK, StackIntegrity, Entered,
         NEW a \in Actors, NEW f \in Fibers, NEW s \in Active,
         current = a, a # f, Enter(a, f, s)
  PROVE  StackIntegrity' /\ Entered'
<1>1. Fresh(f) # None /\ Fresh(f).owner = f
  BY ConstantsAssumption DEF Fresh
<1>2. saved[f] = frames[f]
  BY DEF StackIntegrity
<1>3. current' = f /\ shared' = frames'[f]
  BY <1>2, ConstantsAssumption DEF Enter, SwitchTo, Restore, TypeOK
<1>4. ASSUME NEW g \in Fibers, g # f
      PROVE  saved'[g] = frames'[g]
  <2>1. frames'[g] = frames[g]
    BY <1>4 DEF Enter, TypeOK
  <2>2. CASE g = a
    BY <2>1, <2>2, ConstantsAssumption DEF Enter, SwitchTo, Save, TypeOK, StackIntegrity
  <2>3. CASE g # a
    BY <2>1, <2>3 DEF Enter, SwitchTo, Save, TypeOK, StackIntegrity
  <2>4. QED BY <2>2, <2>3
<1>5. Entered'
  BY <1>1 DEF Enter, Entered, TypeOK
<1>6. QED
  BY <1>3, <1>4, <1>5 DEF StackIntegrity

\* So does the switch back to the caller.
LEMMA LeaveStack ==
  ASSUME TypeOK, CallChain, StackIntegrity, Entered,
         NEW f \in Fibers, NEW s \in {"Yielded", "Idle"}, NEW top \in Frames,
         top.owner = f,
         Executing(f), state[f] \in Active,
         state' = [state EXCEPT ![f] = s],
         frames' = [frames EXCEPT ![f] = top],
         SwitchTo(f, caller[f], top)
  PROVE  StackIntegrity' /\ Entered'
<1>1. /\ current = f /\ caller[f] \in Actors \ {f}
      /\ caller[f] \in Fibers => state[caller[f]] \in Active
  BY DEF Executing, CallChain
<1>2. f # Main /\ top # None
  BY ConstantsAssumption DEF Frames
<1>3. current' \in Fibers => shared' = frames'[current']
  <2>1. SUFFICES ASSUME caller[f] \in Fibers
                 PROVE  shared' = frames[caller[f]]
    BY <1>1 DEF SwitchTo, TypeOK
  <2>2. frames[caller[f]] # None /\ saved[caller[f]] = frames[caller[f]]
    BY <1>1, <2>1 DEF Entered, StackIntegrity
  <2>3. QED
    BY <2>1, <2>2, ConstantsAssumption DEF SwitchTo, Restore
<1>4. ASSUME NEW g \in Fibers, g # current'
      PROVE  saved'[g] = frames'[g]
  BY <1>1, <1>2, <1>4 DEF SwitchTo, Save, TypeOK, StackIntegrity
<1>5. Entered'
  BY <1>2 DEF Entered, TypeOK, Active
<1>6. QED
  BY <1>3, <1>4, <1>5 DEF StackIntegrity

\* A call that got control back has left its fiber suspended or idle.
LEMMA ReturnTarget ==
  ASSUME TypeOK, CallChain, NEW a \in Actors, current = a, pending[a] # NoCall
  PROVE  /\ pending[a] \in Calls /\ pending[a].fiber \in Fibers
         /\ state[pending[a].fiber] \in {"Yielded", "Idle"}
         /\ pending[a].fiber # current
<1>1. pending[a] \in Calls /\ pending[a].fiber \in Fibers
  BY DEF TypeOK, Calls
<1>2. state[pending[a].fiber] \in {"Yielded", "Idle"}
  BY DEF CallChain
<1>3. pending[a].fiber # current
  BY <1>1, <1>2 DEF CallChain, Active
<1>4. QED BY <1>1, <1>2, <1>3

\* StackIntegrity and Entered are preserved by every step.
LEMMA StackStep ==
  ASSUME TypeOK, CallChain, StackIntegrity, Entered, Next
  PROVE  StackIntegrity' /\ Entered'
<1>1. ASSUME NEW a \in Actors, NEW r \in Resumables, Construct(a, r)
      PROVE  StackIntegrity' /\ Entered'
  <2>1. \A g \in Fibers : state'[g] = state[g] \/ state'[g] = "Init"
    BY <1>1 DEF Construct, Reuse, Allocate, TypeOK
  <2>2. UNCHANGED <<current, shared, saved, frames>>
    BY <1>1 DEF Construct, stackVars
  <2>3. QED
    BY <2>1, <2>2 DEF StackIntegrity, Entered, Active
<1>2. ASSUME NEW a \in Actors, NEW r \in Resumables,
             Run(a, r) \/ Resume(a, r) \/ Abort(a, r) \/ DestroySuspended(a, r)
      PROVE  StackIntegrity' /\ Entered'
  <2>1. /\ Executing(a) /\ fiber[r] \in Fibers /\ state[fiber[r]] \notin Active
        /\ \E s \in Active : Enter(a, fiber[r], s)
    BY <1>2 DEF Run, Resume, Abort, DestroySuspended, TypeOK, Active
  <2>2. current = a /\ a # fiber[r]
    BY <2>1 DEF Executing, CallChain
  <2>3. QED
    BY <2>1, <2>2, EnterStack
<1>3. ASSUME NEW a \in Actors, NEW r \in Resumables, DestroyInactive(a, r)
      PROVE  StackIntegrity' /\ Entered'
  <2>1. CASE fiber[r] = None
    BY <1>3, <2>1 DEF DestroyInactive, StackIntegrity, Entered
  <2>2. CASE fiber[r] # None
    <3>1. /\ fiber[r] \in Fibers /\ fiber[r] # current /\ Release(fiber[r])
      BY <1>3, <2>2 DEF DestroyInactive, TypeOK, CallChain, Active
    <3>2. QED
      BY <1>3, <3>1, ReleaseStack DEF DestroyInactive
  <2>3. QED BY <2>1, <2>2
<1>4. ASSUME NEW f \in Fibers, Yield(f)
      PROVE  StackIntegrity' /\ Entered'
  <2>1. /\ Executing(f) /\ state[f] \in Active
        /\ shared = frames[f] /\ frames[f] \in Frames
    BY <1>4 DEF Yield, Executing, TypeOK, StackIntegrity, Entered, Active
  <2>2. Grown(shared) \in Frames /\ Grown(shared).owner = f
    BY <2>1 DEF Grown, Frames, Entered
  <2>3. frames' = [frames EXCEPT ![f] = Grown(shared)]
    BY <1>4, <2>1 DEF Yield
  <2>4. QED
    BY <1>4, <2>1, <2>2, <2>3, LeaveStack DEF Yield
<1>5. ASSUME NEW f \in Fibers, NEW how \in {"value", "error", "aborted"},
             Finish(f, how)
      PROVE  StackIntegrity' /\ Entered'
  <2>1. /\ Executing(f) /\ state[f] \in Active
        /\ shared = frames[f] /\ frames[f] \in Frames
    BY <1>5 DEF Finish, Executing, TypeOK, StackIntegrity, Entered
  <2>2. shared.owner = f
    BY <2>1, ConstantsAssumption DEF Entered, Frames
  <2>3. /\ Unwound(shared) = Fresh(f) /\ Fresh(f) \in Frames
        /\ Fresh(f).owner = f
    BY <2>2 DEF Unwound, Fresh, Frames
  <2>4. QED
    BY <1>5, <2>1, <2>3, LeaveStack DEF Finish
<1>6. ASSUME NEW a \in Actors,
             ReturnFromRun(a) \/ ReturnFromAbort(a) \/ ReturnFromDestroy(a)
      PROVE  StackIntegrity' /\ Entered'
  <2>1. current = a /\ pending[a] # NoCall
    BY <1>6 DEF ReturnFromRun, ReturnFromAbort, ReturnFromDestroy, Returned, NoCall
  <2>2. pending[a].fiber \in Fibers /\ pending[a].fiber # current
    BY <2>1, ReturnTarget
  <2>3. CASE Release(pending[a].fiber)
    BY <1>6, <2>2, <2>3, ReleaseStack
       DEF ReturnFromRun, ReturnFromAbort, ReturnFromDestroy, stackVars
  <2>4. CASE ~Release(pending[a].fiber)
    BY <1>6, <2>4
       DEF ReturnFromRun, ReturnFromAbort, ReturnFromDestroy, stackVars,
           fiberVars, StackIntegrity, Entered
  <2>5. QED BY <2>3, <2>4
<1>7. ASSUME NEW a \in Actors, PrimeCache(a)
      PROVE  StackIntegrity' /\ Entered'
  <2>1. \A g \in Fibers : state'[g] = state[g] \/ state'[g] = "Init"
    BY <1>7 DEF PrimeCache
  <2>2. QED
    BY <1>7, <2>1 DEF PrimeCache, stackVars, StackIntegrity, Entered, Active
<1>8. QED
  BY <1>1, <1>2, <1>3, <1>4, <1>5, <1>6, <1>7 DEF Next, Operation, Payload
----------------------------------------------------------------------------
\* The two owners of a fiber besides Resumables: the cache and a destructor.
Cached(f) == \E i \in DOMAIN cache : cache[i] = f
Dying(f)  == \E a \in Actors : pending[a].op = "destroy" /\ pending[a].fiber = f

\* No fiber is in the cache twice.
CacheDistinct == \A i, j \in DOMAIN cache : cache[i] = cache[j] => i = j

\* Owners exclude each other, calls in progress are about fibers that their
\* Resumable still owns, and only a deleted fiber has no owner.
Owned ==
  /\ \A r, q \in Resumables : fiber[r] # None /\ fiber[r] = fiber[q] => r = q
  /\ \A r \in Resumables, f \in Fibers : fiber[r] = f =>
       ~Cached(f) /\ ~Dying(f) /\ state[f] # "Deleted"
  /\ \A f \in Fibers : Dying(f) => ~Cached(f)
  /\ \A a \in Actors : pending[a].op \in {"run", "abort"} =>
       fiber[pending[a].r] = pending[a].fiber
  /\ \A r \in Resumables : phase[r] = "unborn" => fiber[r] = None
  /\ \A f \in Fibers : Cached(f) => state[f] \in {"Init", "Idle"}
  /\ \A f \in Fibers : state[f] # "Deleted" =>
       Cached(f) \/ Dying(f) \/ \E r \in Resumables : fiber[r] = f

\* What the kind of a call says about the fiber that it waits for.
CallStates ==
  \A a \in Actors :
    /\ pending[a].op = "run" =>
         state[pending[a].fiber] \in {"Running", "Yielded", "Idle"}
    /\ pending[a].op \in {"abort", "destroy"} =>
         state[pending[a].fiber] \in {"Aborting", "Idle"}

\* While a payload is not finished its fiber holds no exception.
Unthrown ==
  \A f \in Fibers :
    function[f] # None \/ state[f] \in Active \cup {"Yielded"} =>
      exception[f] = None

\* A fiber that some call waits for exists, and only one call does.
LEMMA PendingTarget ==
  ASSUME TypeOK, CallChain
  PROVE  /\ \A a \in Actors : pending[a] # NoCall =>
              /\ pending[a] \in Calls /\ pending[a].fiber \in Fibers
              /\ pending[a].r \in Resumables
              /\ state[pending[a].fiber] \in {"Running", "Aborting", "Yielded", "Idle"}
              /\ state[pending[a].fiber] # "Deleted"
         /\ \A a, b \in Actors :
              pending[a] # NoCall /\ pending[a].fiber = pending[b].fiber => a = b
<1>1. \A a \in Actors : pending[a] # NoCall =>
              /\ pending[a] \in Calls /\ pending[a].fiber \in Fibers
              /\ pending[a].r \in Resumables
  BY DEF TypeOK, Calls
<1>2. \A a \in Actors : pending[a] # NoCall =>
         state[pending[a].fiber] \in {"Running", "Aborting", "Yielded", "Idle"}
  BY DEF CallChain, Active
<1>3. ASSUME NEW a \in Actors, NEW b \in Actors, pending[a] # NoCall,
             pending[a].fiber = pending[b].fiber
      PROVE  a = b
  <2>1. pending[b] # NoCall
    BY <1>1, <1>3, NoCallFiber
  <2>2. QED
    BY <1>3, <2>1 DEF CallChain, Active
<1>4. QED
  BY <1>1, <1>2, <1>3

\* A fiber that is recycled enters the cache once, or is deleted.
LEMMA ReleaseCache ==
  ASSUME TypeOK, NEW f \in Fibers, Release(f), CacheDistinct, ~Cached(f)
  PROVE  /\ CacheDistinct'
         /\ \A g \in Fibers \ {f} : Cached(g)' <=> Cached(g)
         /\ Cached(f)' \/ state'[f] = "Deleted"
         /\ Cached(f)' => state'[f] = state[f]
         /\ \A g \in Fibers \ {f} : state'[g] = state[g]
<1>1. CASE Len(cache) < CacheSize
  <2>1. /\ cache' = Append(cache, f) /\ state' = state /\ cache \in Seq(Fibers)
    BY <1>1 DEF Release, TypeOK
  <2>2. /\ DOMAIN cache = 1..Len(cache) /\ DOMAIN cache' = 1..(Len(cache) + 1)
        /\ Len(cache) \in Nat
        /\ \A i \in DOMAIN cache : cache'[i] = cache[i]
        /\ cache'[Len(cache) + 1] = f
    BY <2>1
  <2>3. CacheDistinct'
    BY <2>2 DEF CacheDistinct, Cached
  <2>4. Cached(f)'
    BY <2>2 DEF Cached
  <2>5. \A g \in Fibers \ {f} : Cached(g)' <=> Cached(g)
    BY <2>2 DEF Cached
  <2>6. QED
    BY <2>1, <2>3, <2>4, <2>5
<1>2. CASE ~(Len(cache) < CacheSize)
  <2>1. cache' = cache /\ state' = [state EXCEPT ![f] = "Deleted"]
    BY <1>2 DEF Release
  <2>2. QED
    BY <2>1 DEF CacheDistinct, Cached, TypeOK
<1>3. QED BY <1>1, <1>2

\* Recycling a fiber that nobody else owns preserves Owned.
LEMMA ReleaseOwned ==
  ASSUME TypeOK, CallChain, Owned, CacheDistinct,
         NEW f \in Fibers, Release(f), state[f] \in {"Init", "Idle"},
         ~Cached(f),
         \A q \in Resumables :
           fiber'[q] = IF fiber[q] = f THEN None ELSE fiber[q],
         \A q \in Resumables : phase'[q] = "unborn" => phase[q] = "unborn",
         \A b \in Actors :
           pending'[b] = IF pending[b].fiber = f THEN NoCall ELSE pending[b]
  PROVE  Owned' /\ CacheDistinct'
<1>1. /\ CacheDistinct'
      /\ \A g \in Fibers \ {f} : Cached(g)' <=> Cached(g)
      /\ Cached(f)' \/ state'[f] = "Deleted"
      /\ Cached(f)' => state'[f] = state[f]
      /\ \A g \in Fibers \ {f} : state'[g] = state[g]
  BY ReleaseCache
<1>2. f # None /\ NoCall.op = "none"
  BY ConstantsAssumption DEF NoCall
<1>3. \A q \in Resumables : fiber'[q] # f /\ fiber[q] \in Fibers \cup {None}
  BY <1>2 DEF TypeOK
<1>4. \A g \in Fibers : Dying(g)' <=> Dying(g) /\ g # f
  BY <1>2 DEF Dying
<1>5. \A r, q \in Resumables : fiber'[r] # None /\ fiber'[r] = fiber'[q] => r = q
  BY <1>2 DEF Owned
<1>6. \A r \in Resumables, g \in Fibers : fiber'[r] = g =>
         ~Cached(g)' /\ ~Dying(g)' /\ state'[g] # "Deleted"
  <2>1. \A r \in Resumables, g \in Fibers :
          fiber'[r] = g => fiber[r] = g /\ g \in Fibers \ {f}
    BY <1>2, <1>3, ConstantsAssumption
  <2>2. QED
    BY <1>1, <1>4, <2>1 DEF Owned
<1>7. \A g \in Fibers : Dying(g)' => ~Cached(g)'
  BY <1>1, <1>4 DEF Owned
<1>8. \A b \in Actors : pending'[b].op \in {"run", "abort"} =>
         fiber'[pending'[b].r] = pending'[b].fiber
  BY <1>2, PendingTarget DEF Owned
<1>9. \A q \in Resumables : phase'[q] = "unborn" => fiber'[q] = None
  BY DEF Owned
<1>10. \A g \in Fibers : Cached(g)' => state'[g] \in {"Init", "Idle"}
  BY <1>1 DEF Owned
<1>11. \A g \in Fibers : state'[g] # "Deleted" =>
          Cached(g)' \/ Dying(g)' \/ \E r \in Resumables : fiber'[r] = g
  BY <1>1, <1>4 DEF Owned
<1>12. QED
  BY <1>1, <1>5, <1>6, <1>7, <1>8, <1>9, <1>10, <1>11 DEF Owned

\* Owned and CacheDistinct are preserved by every step.
LEMMA OwnedStep ==
  ASSUME TypeOK, CallChain, CallStates, Unthrown, Owned, CacheDistinct, Next
  PROVE  Owned' /\ CacheDistinct'
<1>1. ASSUME NEW a \in Actors, NEW r \in Resumables, Construct(a, r)
      PROVE  Owned' /\ CacheDistinct'
  <2>1. PICK f \in Fibers : /\ Reuse(f) \/ Allocate(f)
                            /\ fiber' = [fiber EXCEPT ![r] = f]
    BY <1>1 DEF Construct
  <2>2. /\ CacheDistinct'
        /\ \A g \in Fibers : Cached(g)' <=> Cached(g) /\ g # f
        /\ \A g \in Fibers \ {f} : state'[g] = state[g]
        /\ state'[f] \in {"Init", "Idle"}
        /\ \A q \in Resumables : fiber[q] # f
        /\ ~Dying(f)
    <3>1. CASE Reuse(f)
      <4>1. /\ cache \in Seq(Fibers) /\ Len(cache) \in Nat \ {0}
            /\ DOMAIN cache = 1..Len(cache)
            /\ f = cache[Len(cache)] /\ Cached(f) /\ state' = state
        BY <3>1 DEF Reuse, Last, TypeOK, Cached
      <4>2. /\ DOMAIN cache' = 1..(Len(cache) - 1)
            /\ \A i \in DOMAIN cache' : cache'[i] = cache[i]
        BY <3>1, <4>1 DEF Reuse, Front
      <4>3. CacheDistinct' /\ \A g \in Fibers : Cached(g)' <=> Cached(g) /\ g # f
        BY <4>1, <4>2 DEF CacheDistinct, Cached
      <4>4. state[f] \in {"Init", "Idle"} /\ ~Dying(f)
        BY <4>1 DEF Owned
      <4>5. \A q \in Resumables : fiber[q] # f
        BY <4>1, ConstantsAssumption DEF Owned
      <4>6. QED BY <4>1, <4>3, <4>4, <4>5
    <3>2. CASE Allocate(f)
      <4>1. cache' = cache /\ cache = <<>> /\ state[f] = "Deleted"
        BY <3>2 DEF Allocate
      <4>2. CacheDistinct' /\ \A g \in Fibers : ~Cached(g) /\ ~Cached(g)'
        BY <4>1 DEF CacheDistinct, Cached
      <4>3. /\ \A g \in Fibers \ {f} : state'[g] = state[g]
            /\ state'[f] \in {"Init", "Idle"}
        BY <3>2 DEF Allocate, TypeOK
      <4>4. \A q \in Resumables : fiber[q] # f
        BY <4>1, ConstantsAssumption DEF Owned
      <4>5. ~Dying(f)
        BY <4>1, PendingTarget DEF Dying, NoCall
      <4>6. QED BY <4>2, <4>3, <4>4, <4>5
    <3>3. QED BY <2>1, <3>1, <3>2
  <2>3. /\ pending' = pending /\ phase[r] = "unborn" /\ fiber[r] = None
        /\ \A g \in Fibers : Dying(g)' <=> Dying(g)
        /\ \A q \in Resumables : phase'[q] = "unborn" => phase[q] = "unborn" /\ q # r
    BY <1>1 DEF Construct, Owned, Dying, TypeOK
  <2>4. /\ fiber'[r] = f /\ \A q \in Resumables \ {r} : fiber'[q] = fiber[q]
    BY <2>1 DEF TypeOK
  <2>5. \A p, q \in Resumables : fiber'[p] # None /\ fiber'[p] = fiber'[q] => p = q
    BY <2>2, <2>4 DEF Owned
  <2>6. \A q \in Resumables, g \in Fibers : fiber'[q] = g =>
           ~Cached(g)' /\ ~Dying(g)' /\ state'[g] # "Deleted"
    <3>1. \A q \in Resumables, g \in Fibers : fiber'[q] = g =>
             (q = r /\ g = f) \/ (fiber[q] = g /\ g \in Fibers \ {f})
      BY <2>2, <2>4
    <3>2. QED
      BY <2>2, <2>3, <3>1 DEF Owned
  <2>7. \A g \in Fibers : Dying(g)' => ~Cached(g)'
    BY <2>2, <2>3 DEF Owned
  <2>8. \A b \in Actors : pending'[b].op \in {"run", "abort"} =>
           fiber'[pending'[b].r] = pending'[b].fiber
    <3>1. \A b \in Actors : pending[b].op \in {"run", "abort"} =>
            /\ fiber[pending[b].r] = pending[b].fiber
            /\ pending[b].r \in Resumables \ {r}
      BY <2>3, PendingTarget, ConstantsAssumption DEF Owned, NoCall
    <3>2. QED BY <2>3, <2>4, <3>1
  <2>9. \A q \in Resumables : phase'[q] = "unborn" => fiber'[q] = None
    BY <2>3, <2>4 DEF Owned
  <2>10. \A g \in Fibers : Cached(g)' => state'[g] \in {"Init", "Idle"}
    BY <2>2 DEF Owned
  <2>11. \A g \in Fibers : state'[g] # "Deleted" =>
            Cached(g)' \/ Dying(g)' \/ \E q \in Resumables : fiber'[q] = g
    <3>1. ASSUME NEW g \in Fibers \ {f}, state[g] # "Deleted"
          PROVE  Cached(g) \/ Dying(g) \/ \E q \in Resumables \ {r} : fiber[q] = g
      BY <2>3, <3>1, ConstantsAssumption DEF Owned
    <3>2. QED
      BY <2>2, <2>3, <2>4, <3>1
  <2>12. QED
    BY <2>2, <2>5, <2>6, <2>7, <2>8, <2>9, <2>10, <2>11 DEF Owned
<1>2. ASSUME NEW a \in Actors, NEW r \in Resumables,
             Run(a, r) \/ Resume(a, r) \/ Abort(a, r)
      PROVE  Owned' /\ CacheDistinct'
  <2>1. /\ pending[a] = NoCall /\ fiber[r] \in Fibers
        /\ \E s \in Active : state' = [state EXCEPT ![fiber[r]] = s]
        /\ UNCHANGED <<cache, fiber, phase>>
        /\ \E c \in Calls : /\ c.fiber = fiber[r] /\ c.r = r
                             /\ c.op \in {"run", "abort"}
                             /\ pending' = [pending EXCEPT ![a] = c]
    <3> DEFINE d(op) == [op |-> op, r |-> r, fiber |-> fiber[r], old |-> resumable]
    <3>1. pending[a] = NoCall /\ fiber[r] \in Fibers /\ UNCHANGED <<cache, fiber, phase>>
      BY <1>2 DEF Run, Resume, Abort, Executing, TypeOK, resumableVars
    <3>2. \E s \in Active : state' = [state EXCEPT ![fiber[r]] = s]
      BY <1>2 DEF Run, Resume, Abort, Enter, Active
    <3>3. \A op \in {"run", "abort"} : d(op) \in Calls
      BY <3>1 DEF Calls, TypeOK
    <3>4. \E op \in {"run", "abort"} : pending' = [pending EXCEPT ![a] = d(op)]
      BY <1>2 DEF Run, Resume, Abort, Call
    <3>5. QED BY <3>1, <3>2, <3>3, <3>4
  <2>2. NoCall.op = "none"
    BY DEF NoCall
  <2>3. /\ CacheDistinct' /\ \A g \in Fibers : Cached(g)' <=> Cached(g)
        /\ \A g \in Fibers : Dying(g)' <=> Dying(g)
    BY <2>1, <2>2 DEF CacheDistinct, Cached, Dying, TypeOK
  <2>4. /\ \A g \in Fibers : state'[g] = state[g] \/ g = fiber[r]
        /\ state[fiber[r]] # "Deleted" /\ state'[fiber[r]] # "Deleted"
        /\ ~Cached(fiber[r])
    BY <2>1 DEF Owned, TypeOK, Active
  <2>5. \A b \in Actors : pending'[b].op \in {"run", "abort"} =>
           fiber[pending'[b].r] = pending'[b].fiber
    BY <2>1 DEF Owned, TypeOK
  <2>6. \A g \in Fibers : Cached(g) => state'[g] \in {"Init", "Idle"}
    BY <2>4 DEF Owned
  <2>7. \A g \in Fibers : state'[g] = "Deleted" <=> state[g] = "Deleted"
    BY <2>4
  <2>8. QED
    BY <2>1, <2>3, <2>5, <2>6, <2>7 DEF Owned
<1>3. ASSUME NEW a \in Actors, NEW r \in Resumables, DestroySuspended(a, r)
      PROVE  Owned' /\ CacheDistinct'
  <2> DEFINE f == fiber[r]
             d == [op |-> "destroy", r |-> r, fiber |-> f, old |-> resumable]
  <2>1. /\ pending[a] = NoCall /\ f \in Fibers /\ state[f] = "Yielded"
        /\ state' = [state EXCEPT ![f] = "Aborting"]
        /\ cache' = cache /\ phase' = [phase EXCEPT ![r] = "gone"]
        /\ fiber' = [fiber EXCEPT ![r] = None]
        /\ pending' = [pending EXCEPT ![a] = d]
    BY <1>3 DEF DestroySuspended, Executing, Call, Enter, TypeOK
  <2>2. /\ NoCall.op = "none" /\ d.op = "destroy" /\ d.fiber = f
    BY DEF NoCall
  <2>3. /\ CacheDistinct' /\ \A g \in Fibers : Cached(g)' <=> Cached(g)
    BY <2>1 DEF CacheDistinct, Cached
  <2>4. \A g \in Fibers : Dying(g)' <=> Dying(g) \/ g = f
    BY <2>1, <2>2 DEF Dying, TypeOK
  <2>5. /\ \A g \in Fibers : state'[g] = state[g] \/ g = f
        /\ state'[f] # "Deleted" /\ ~Cached(f)
    BY <2>1 DEF Owned, TypeOK
  <2>6. \A q \in Resumables, g \in Fibers :
          fiber'[q] = g <=> fiber[q] = g /\ q # r
    BY <2>1, ConstantsAssumption DEF TypeOK
  <2>7. \A q \in Resumables \ {r} : fiber'[q] = fiber[q] /\ phase'[q] = phase[q]
    BY <2>1 DEF TypeOK
  <2>8. fiber'[r] = None /\ \A q \in Resumables \ {r} : fiber[q] # f
    BY <2>1, ConstantsAssumption DEF TypeOK, Owned
  <2>9. \A p, q \in Resumables : fiber'[p] # None /\ fiber'[p] = fiber'[q] => p = q
    BY <2>7, <2>8 DEF Owned
  <2>10. \A q \in Resumables, g \in Fibers : fiber'[q] = g =>
            ~Cached(g)' /\ ~Dying(g)' /\ state'[g] # "Deleted"
    BY <2>1, <2>3, <2>4, <2>5, <2>6, <2>8 DEF Owned
  <2>11. \A g \in Fibers : Dying(g)' => ~Cached(g)'
    BY <2>3, <2>4, <2>5 DEF Owned
  <2>12. \A b \in Actors : pending'[b].op \in {"run", "abort"} =>
            fiber'[pending'[b].r] = pending'[b].fiber
    <3>1. ASSUME NEW b \in Actors, pending'[b].op \in {"run", "abort"}
          PROVE  fiber'[pending'[b].r] = pending'[b].fiber
      <4>1. b # a /\ pending'[b] = pending[b] /\ pending[b] # NoCall
        BY <2>1, <2>2, <3>1 DEF TypeOK
      <4>2. /\ fiber[pending[b].r] = pending[b].fiber
            /\ pending[b].r \in Resumables
        BY <3>1, <4>1, PendingTarget DEF Owned
      <4>3. pending[b].fiber # f
        BY <1>3, <2>1, <4>1 DEF CallChain, Active, DestroySuspended, Executing
      <4>4. QED BY <2>7, <4>1, <4>2, <4>3
    <3>2. QED BY <3>1
  <2>13. \A q \in Resumables : phase'[q] = "unborn" => fiber'[q] = None
    BY <2>7, <2>8 DEF Owned
  <2>14. \A g \in Fibers : Cached(g)' => state'[g] \in {"Init", "Idle"}
    BY <2>3, <2>5 DEF Owned
  <2>15. \A g \in Fibers : state'[g] # "Deleted" =>
            Cached(g)' \/ Dying(g)' \/ \E q \in Resumables : fiber'[q] = g
    BY <2>3, <2>4, <2>5, <2>6 DEF Owned
  <2>16. QED
    BY <2>3, <2>9, <2>10, <2>11, <2>12, <2>13, <2>14, <2>15 DEF Owned
<1>4. ASSUME NEW a \in Actors, NEW r \in Resumables, DestroyInactive(a, r)
      PROVE  Owned' /\ CacheDistinct'
  <2>1. CASE fiber[r] = None
    <3>1. /\ UNCHANGED <<cache, state, pending, fiber>>
          /\ phase' = [phase EXCEPT ![r] = "gone"]
      BY <1>4, <2>1 DEF DestroyInactive, TypeOK
    <3>2. CacheDistinct' /\ \A g \in Fibers :
            (Cached(g)' <=> Cached(g)) /\ (Dying(g)' <=> Dying(g))
      BY <3>1 DEF CacheDistinct, Cached, Dying
    <3>3. \A q \in Resumables : phase'[q] = "unborn" => fiber'[q] = None
      BY <2>1, <3>1 DEF Owned, TypeOK
    <3>4. QED
      BY <3>1, <3>2, <3>3 DEF Owned
  <2>2. CASE fiber[r] # None
    <3>1. /\ fiber[r] \in Fibers /\ Release(fiber[r]) /\ pending' = pending
          /\ state[fiber[r]] \in {"Init", "Idle"}
          /\ phase' = [phase EXCEPT ![r] = "gone"]
          /\ fiber' = [fiber EXCEPT ![r] = None]
          /\ current = a /\ pending[a] = NoCall
      BY <1>4, <2>2 DEF DestroyInactive, Executing, TypeOK
    <3>2. \A b \in Actors : pending[b].fiber # fiber[r]
      BY <3>1, NoCallFiber DEF CallChain, Active
    <3>3. /\ ~Cached(fiber[r])
          /\ \A q \in Resumables :
               fiber'[q] = IF fiber[q] = fiber[r] THEN None ELSE fiber[q]
      BY <2>2, <3>1 DEF Owned, TypeOK
    <3>4. \A q \in Resumables : phase'[q] = "unborn" => phase[q] = "unborn"
      BY <3>1 DEF TypeOK
    <3>5. QED
      BY <3>1, <3>2, <3>3, <3>4, ReleaseOwned
  <2>3. QED BY <2>1, <2>2
<1>5. ASSUME NEW f \in Fibers,
             Yield(f) \/ \E how \in {"value", "error", "aborted"} : Finish(f, how)
      PROVE  Owned' /\ CacheDistinct'
  <2>1. /\ UNCHANGED <<cache, pending, fiber, phase>> /\ state[f] \in Active
        /\ \E s \in {"Yielded", "Idle"} : state' = [state EXCEPT ![f] = s]
    BY <1>5 DEF Yield, Finish, resumableVars, Active
  <2>2. CacheDistinct' /\ \A g \in Fibers :
          (Cached(g)' <=> Cached(g)) /\ (Dying(g)' <=> Dying(g))
    BY <2>1 DEF CacheDistinct, Cached, Dying
  <2>3. /\ \A g \in Fibers \ {f} : state'[g] = state[g]
        /\ state[f] # "Deleted" /\ state'[f] # "Deleted" /\ ~Cached(f)
    BY <2>1 DEF TypeOK, Owned, Active
  <2>4. QED
    BY <2>1, <2>2, <2>3 DEF Owned
<1>6. ASSUME NEW a \in Actors,
             ReturnFromRun(a) \/ ReturnFromAbort(a) \/ ReturnFromDestroy(a)
      PROVE  Owned' /\ CacheDistinct'
  <2> DEFINE f == pending[a].fiber
  <2>1. /\ current = a /\ pending[a] # NoCall
        /\ pending' = [pending EXCEPT ![a] = NoCall]
        /\ pending[a].op \in {"run", "abort", "destroy"}
        /\ phase' = phase
    BY <1>6 DEF ReturnFromRun, ReturnFromAbort, ReturnFromDestroy, Returned,
                NoCall, resumableVars
  <2>2. f \in Fibers /\ pending[a].r \in Resumables
    BY <2>1, PendingTarget
  <2>3. NoCall.op = "none"
    BY DEF NoCall
  <2>4. CASE UNCHANGED <<cache, state, fiber>> /\ pending[a].op \in {"run", "abort"}
    <3>1. CacheDistinct' /\ \A g \in Fibers :
            (Cached(g)' <=> Cached(g)) /\ (Dying(g)' <=> Dying(g))
      BY <2>1, <2>3, <2>4 DEF CacheDistinct, Cached, Dying, TypeOK
    <3>2. \A b \in Actors : pending'[b].op \in {"run", "abort"} =>
             fiber[pending'[b].r] = pending'[b].fiber
      BY <2>1, <2>3 DEF Owned, TypeOK
    <3>3. QED
      BY <2>1, <2>4, <3>1, <3>2 DEF Owned
  <2>5. CASE /\ ReturnFromRun(a)
             /\ exception[f] # None \/ state[f] = "Idle"
    <3>1. /\ Release(f) /\ pending[a].op = "run"
          /\ fiber' = [fiber EXCEPT ![pending[a].r] = None]
      BY <2>5 DEF ReturnFromRun, Returned
    <3>2. fiber[pending[a].r] = f
      BY <3>1 DEF Owned
    <3>3. state[f] = "Idle"
      BY <2>1, <2>2, <2>5, ReturnTarget DEF Unthrown
    <3>4. \A q \in Resumables :
            fiber'[q] = IF fiber[q] = f THEN None ELSE fiber[q]
      BY <2>2, <3>1, <3>2, ConstantsAssumption DEF Owned, TypeOK
    <3>5. \A b \in Actors :
            pending'[b] = IF pending[b].fiber = f THEN NoCall ELSE pending[b]
      BY <2>1, PendingTarget DEF TypeOK
    <3>6. ~Cached(f)
      BY <2>2, <3>2 DEF Owned
    <3>7. QED
      BY <2>1, <2>2, <3>1, <3>3, <3>4, <3>5, <3>6, ReleaseOwned
  <2>6. CASE ReturnFromDestroy(a)
    <3>1. /\ Release(f) /\ pending[a].op = "destroy" /\ fiber' = fiber
      BY <2>6 DEF ReturnFromDestroy, Returned, resumableVars
    <3>2. Dying(f) /\ ~Cached(f)
      BY <2>2, <3>1 DEF Dying, Owned
    <3>3. state[f] = "Idle"
      BY <2>1, <2>2, <3>1, ReturnTarget DEF CallStates
    <3>4. \A q \in Resumables :
            fiber'[q] = IF fiber[q] = f THEN None ELSE fiber[q]
      BY <2>2, <3>1, <3>2 DEF Owned
    <3>5. \A b \in Actors :
            pending'[b] = IF pending[b].fiber = f THEN NoCall ELSE pending[b]
      BY <2>1, PendingTarget DEF TypeOK
    <3>6. QED
      BY <2>1, <2>2, <3>1, <3>2, <3>3, <3>4, <3>5, ReleaseOwned
  <2>7. QED
    BY <1>6, <2>4, <2>5, <2>6
       DEF ReturnFromRun, ReturnFromAbort, Returned, fiberVars
<1>7. ASSUME NEW a \in Actors, PrimeCache(a)
      PROVE  Owned' /\ CacheDistinct'
  <2> DEFINE n == CacheSize - Len(cache)
  <2>1. PICK new \in [1..n -> {f \in Fibers : state[f] = "Deleted"}] :
          /\ \A i, j \in 1..n : new[i] = new[j] => i = j
          /\ cache' = new \o cache
          /\ state' = [f \in Fibers |->
                         IF f \in Elements(new) THEN "Init" ELSE state[f]]
    BY <1>7 DEF PrimeCache
  <2>2. n \in Nat /\ Len(cache) \in Nat /\ cache \in Seq(Fibers)
    BY <1>7, ConstantsAssumption DEF PrimeCache, TypeOK
  <2>3. /\ new \in Seq(Fibers) /\ Len(new) = n
        /\ \A g : g \in Elements(new) <=> \E i \in 1..n : new[i] = g
        /\ \A g \in Elements(new) : g \in Fibers /\ state[g] = "Deleted"
    <3>1. new \in [1..n -> Fibers]
      BY <2>1
    <3>2. new \in Seq(Fibers) /\ Len(new) = n
      BY <2>2, <3>1
    <3>3. QED BY <2>1, <3>2 DEF Elements
  <2>4. /\ DOMAIN cache = 1..Len(cache) /\ DOMAIN cache' = 1..(n + Len(cache))
        /\ \A i \in 1..n : cache'[i] = new[i]
        /\ \A i \in 1..Len(cache) : cache'[n + i] = cache[i]
    BY <2>1, <2>2, <2>3
  <2>5. \A i \in DOMAIN cache' :
          \/ i \in 1..n /\ cache'[i] = new[i]
          \/ i - n \in 1..Len(cache) /\ cache'[i] = cache[i - n]
    <3>1. SUFFICES ASSUME NEW i \in DOMAIN cache', i \notin 1..n
                   PROVE  i - n \in 1..Len(cache) /\ cache'[i] = cache[i - n]
      BY <2>4
    <3>2. i - n \in 1..Len(cache) /\ n + (i - n) = i
      BY <2>2, <2>4, <3>1
    <3>3. QED BY <2>4, <3>2
  <2>6. \A g \in Fibers : Cached(g)' <=> Cached(g) \/ g \in Elements(new)
    <3>1. ASSUME NEW g \in Fibers, Cached(g) PROVE Cached(g)'
      <4>1. PICK i \in 1..Len(cache) : cache[i] = g
        BY <2>4, <3>1 DEF Cached
      <4>2. n + i \in DOMAIN cache' /\ cache'[n + i] = g
        BY <2>2, <2>4, <4>1
      <4>3. QED BY <4>2 DEF Cached
    <3>2. ASSUME NEW g \in Elements(new) PROVE Cached(g)'
      <4>1. PICK i \in 1..n : new[i] = g
        BY <2>3, <3>2
      <4>2. i \in DOMAIN cache' /\ cache'[i] = g
        BY <2>2, <2>4, <4>1
      <4>3. QED BY <4>2 DEF Cached
    <3>3. ASSUME NEW g \in Fibers, Cached(g)' PROVE Cached(g) \/ g \in Elements(new)
      BY <2>3, <2>4, <2>5, <3>3 DEF Cached
    <3>4. QED BY <3>1, <3>2, <3>3
  <2>7. \A g \in Elements(new) : ~Cached(g) /\ ~Dying(g) /\ \A q \in Resumables : fiber[q] # g
    BY <2>3, PendingTarget DEF Owned, Dying, NoCall
  <2>8. CacheDistinct'
    <3>1. \A i \in 1..n, j \in 1..Len(cache) : new[i] # cache[j]
      BY <2>3, <2>4, <2>7 DEF Cached
    <3>2. SUFFICES ASSUME NEW i \in DOMAIN cache', NEW j \in DOMAIN cache',
                          cache'[i] = cache'[j]
                   PROVE  i = j
      BY DEF CacheDistinct
    <3>3. CASE i \in 1..n /\ j \in 1..n
      BY <2>1, <2>4, <3>2, <3>3
    <3>4. CASE i \notin 1..n /\ j \notin 1..n
      <4>1. i - n = j - n
        BY <2>4, <2>5, <3>2, <3>4 DEF CacheDistinct
      <4>2. QED BY <2>2, <2>4, <4>1
    <3>5. CASE (i \in 1..n /\ j \notin 1..n) \/ (i \notin 1..n /\ j \in 1..n)
      BY <2>4, <2>5, <3>1, <3>2, <3>5
    <3>6. QED BY <3>3, <3>4, <3>5
  <2>9. UNCHANGED <<pending, fiber, phase>>
    BY <1>7 DEF PrimeCache, resumableVars
  <2>10. \A g \in Fibers : Dying(g)' <=> Dying(g)
    BY <2>9 DEF Dying
  <2>11. \A g \in Fibers : state'[g] = IF g \in Elements(new) THEN "Init" ELSE state[g]
    BY <2>1
  <2>12. QED
    BY <2>6, <2>7, <2>8, <2>9, <2>10, <2>11 DEF Owned
<1>8. QED
  BY <1>1, <1>2, <1>3, <1>4, <1>5, <1>6, <1>7 DEF Next, Operation, Payload
----------------------------------------------------------------------------
\* The facts about a call that enters fiber[r] which do not depend on its kind.
LEMMA CallFacts ==
  ASSUME TypeOK, CallChain, NEW a \in Actors, NEW r \in Resumables,
         Run(a, r) \/ Resume(a, r) \/ Abort(a, r) \/ DestroySuspended(a, r)
  PROVE  /\ current = a /\ pending[a] = NoCall /\ fiber[r] \in Fibers
         /\ a # fiber[r] /\ state[fiber[r]] \in {"Init", "Idle", "Yielded"}
         /\ \A b \in Actors : pending[b].fiber # fiber[r]
         /\ caller' = [caller EXCEPT ![fiber[r]] = a]
         /\ current' = fiber[r]
         /\ UNCHANGED <<function, exception>>
         /\ \/ /\ state' = [state EXCEPT ![fiber[r]] = "Running"]
               /\ Call(a, "run", r) /\ resumable' = fiber[r]
               /\ function[fiber[r]] # None \/ state[fiber[r]] = "Yielded"
            \/ /\ state' = [state EXCEPT ![fiber[r]] = "Aborting"]
               /\ state[fiber[r]] = "Yielded"
               /\ \/ Call(a, "abort", r) /\ resumable' = fiber[r]
                  \/ Call(a, "destroy", r) /\ resumable' = resumable
<1>1. /\ current = a /\ pending[a] = NoCall /\ fiber[r] \in Fibers
      /\ state[fiber[r]] \in {"Init", "Idle", "Yielded"}
      /\ UNCHANGED <<function, exception>>
  BY DEF Run, Resume, Abort, DestroySuspended, Executing, TypeOK
<1>2. /\ a # fiber[r] /\ \A b \in Actors : pending[b].fiber # fiber[r]
  BY <1>1, NoCallFiber DEF CallChain, Active
<1>3. /\ caller' = [caller EXCEPT ![fiber[r]] = a] /\ current' = fiber[r]
  BY DEF Run, Resume, Abort, DestroySuspended, Enter, SwitchTo
<1>4. CASE Run(a, r) \/ Resume(a, r)
  BY <1>1, <1>2, <1>3, <1>4 DEF Run, Resume, Enter
<1>5. CASE Abort(a, r) \/ DestroySuspended(a, r)
  BY <1>1, <1>2, <1>3, <1>5 DEF Abort, DestroySuspended, Enter
<1>6. QED BY <1>4, <1>5

\* The facts about the end of a call which do not depend on its kind.
LEMMA ReturnFacts ==
  ASSUME TypeOK, CallChain, NEW a \in Actors,
         ReturnFromRun(a) \/ ReturnFromAbort(a) \/ ReturnFromDestroy(a)
  PROVE  /\ current = a /\ pending[a] # NoCall
         /\ pending' = [pending EXCEPT ![a] = NoCall]
         /\ pending[a].fiber \in Fibers
         /\ state[pending[a].fiber] \in {"Yielded", "Idle"}
         /\ \A g \in Fibers : state'[g] = state[g] \/
              (g = pending[a].fiber /\ state'[g] = "Deleted")
         /\ UNCHANGED <<current, caller, function, exception>>
<1>1. /\ current = a /\ pending[a] # NoCall
      /\ pending' = [pending EXCEPT ![a] = NoCall]
      /\ UNCHANGED <<current, caller, function, exception>>
  BY DEF ReturnFromRun, ReturnFromAbort, ReturnFromDestroy, Returned, NoCall,
         fiberVars
<1>2. /\ pending[a].fiber \in Fibers
      /\ state[pending[a].fiber] \in {"Yielded", "Idle"}
  BY <1>1, ReturnTarget
<1>3. \A g \in Fibers : state'[g] = state[g] \/
         (g = pending[a].fiber /\ state'[g] = "Deleted")
  BY <1>2, ReleaseState
     DEF ReturnFromRun, ReturnFromAbort, ReturnFromDestroy, fiberVars
<1>4. QED BY <1>1, <1>2, <1>3

\* The other operations of an actor leave calls and running fibers alone.
LEMMA QuietFacts ==
  ASSUME TypeOK, CallChain, NEW a \in Actors,
         \/ \E r \in Resumables : Construct(a, r) \/ DestroyInactive(a, r)
         \/ PrimeCache(a)
  PROVE  /\ UNCHANGED <<pending, caller, current, resumable>>
         /\ \A g \in Fibers : state[g] \in Active \cup {"Yielded"} \/
                                state'[g] \in Active \cup {"Yielded"} =>
                                state'[g] = state[g]
         /\ \A b \in Actors : pending[b] # NoCall =>
              state'[pending[b].fiber] = state[pending[b].fiber]
<1>1. CASE \E r \in Resumables : Construct(a, r)
  <2>1. /\ UNCHANGED <<pending, caller, current, resumable>>
        /\ \A g \in Fibers : state'[g] = state[g] \/
             (state[g] = "Deleted" /\ state'[g] = "Init")
    BY <1>1 DEF Construct, Reuse, Allocate, TypeOK
  <2>2. QED BY <2>1, PendingTarget DEF Active
<1>2. CASE \E r \in Resumables : DestroyInactive(a, r)
  <2>1. /\ UNCHANGED <<pending, caller, current, resumable>>
        /\ current = a /\ pending[a] = NoCall
        /\ \A g \in Fibers : state'[g] = state[g] \/
             (state[g] \in {"Init", "Idle"} /\ state'[g] = "Deleted")
    BY <1>2, ReleaseState DEF DestroyInactive, Executing, TypeOK
  <2>2. \A b \in Actors : pending[b] # NoCall =>
          pending[b].fiber \in Fibers /\ state[pending[b].fiber] \in Active
    BY <2>1, PendingTarget DEF CallChain
  <2>3. QED BY <2>1, <2>2 DEF Active
<1>3. CASE PrimeCache(a)
  <2>1. PICK new \in [1..(CacheSize - Len(cache)) ->
                        {f \in Fibers : state[f] = "Deleted"}] :
          state' = [f \in Fibers |->
                       IF f \in Elements(new) THEN "Init" ELSE state[f]]
    BY <1>3 DEF PrimeCache
  <2>2. Len(new) = CacheSize - Len(cache)
    BY <1>3, ConstantsAssumption DEF PrimeCache, TypeOK
  <2>3. \A g \in Elements(new) : state[g] = "Deleted"
    BY <2>2 DEF Elements
  <2>4. UNCHANGED <<pending, caller, current, resumable>>
    BY <1>3 DEF PrimeCache
  <2>5. QED
    BY <2>1, <2>3, <2>4, PendingTarget DEF Active
<1>4. QED BY <1>1, <1>2, <1>3

\* CallStates is preserved by every step.
LEMMA CallStatesStep ==
  ASSUME TypeOK, CallChain, CallStates, Next
  PROVE  CallStates'
<1>1. ASSUME NEW a \in Actors, NEW r \in Resumables,
             Run(a, r) \/ Resume(a, r) \/ Abort(a, r) \/ DestroySuspended(a, r)
      PROVE  CallStates'
  <2>1. \A b \in Actors \ {a} : pending'[b] = pending[b]
    BY <1>1, CallFacts DEF Call, TypeOK
  <2>2. \A b \in Actors \ {a} : pending[b].fiber \in Fibers =>
          state'[pending[b].fiber] = state[pending[b].fiber]
    BY <1>1, CallFacts DEF TypeOK
  <2>3. \A b \in Actors : pending[b].op \in {"run", "abort", "destroy"} =>
          pending[b].fiber \in Fibers
    BY PendingTarget DEF NoCall
  <2>4. /\ pending'[a].fiber = fiber[r] /\ fiber[r] \in Fibers
        /\ \/ pending'[a].op = "run" /\ state'[fiber[r]] = "Running"
           \/ pending'[a].op \in {"abort", "destroy"} /\ state'[fiber[r]] = "Aborting"
    BY <1>1, CallFacts DEF Call, TypeOK
  <2>5. QED
    BY <2>1, <2>2, <2>3, <2>4 DEF CallStates
<1>2. ASSUME NEW f \in Fibers,
             Yield(f) \/ \E how \in {"value", "error", "aborted"} : Finish(f, how)
      PROVE  CallStates'
  <2>1. /\ pending' = pending
        /\ \/ state' = [state EXCEPT ![f] = "Idle"]
           \/ state[f] = "Running" /\ state' = [state EXCEPT ![f] = "Yielded"]
    BY <1>2 DEF Yield, Finish
  <2>2. QED
    BY <2>1, PendingTarget DEF CallStates, TypeOK, NoCall
<1>3. ASSUME NEW a \in Actors,
             ReturnFromRun(a) \/ ReturnFromAbort(a) \/ ReturnFromDestroy(a)
      PROVE  CallStates'
  <2>1. /\ pending'[a].op = "none"
        /\ \A b \in Actors \ {a} : pending'[b] = pending[b]
    BY <1>3, ReturnFacts DEF TypeOK, NoCall
  <2>2. \A b \in Actors \ {a} : pending[b].op \in {"run", "abort", "destroy"} =>
          state'[pending[b].fiber] = state[pending[b].fiber]
    BY <1>3, ReturnFacts, PendingTarget DEF NoCall
  <2>3. QED
    BY <2>1, <2>2 DEF CallStates
<1>4. ASSUME NEW a \in Actors,
             \/ \E r \in Resumables : Construct(a, r) \/ DestroyInactive(a, r)
             \/ PrimeCache(a)
      PROVE  CallStates'
  BY <1>4, QuietFacts DEF CallStates, NoCall
<1>5. QED
  BY <1>1, <1>2, <1>3, <1>4 DEF Next, Operation, Payload

\* Unthrown is preserved by every step.
LEMMA UnthrownStep ==
  ASSUME TypeOK, CallChain, Unthrown, Next
  PROVE  Unthrown'
<1>1. ASSUME NEW a \in Actors, NEW r \in Resumables, Construct(a, r)
      PROVE  Unthrown'
  <2>1. PICK f \in Fibers : /\ function'  = [function EXCEPT ![f] = r]
                            /\ exception' = [exception EXCEPT ![f] = None]
    BY <1>1 DEF Construct
  <2>2. \A g \in Fibers : state'[g] \in Active \cup {"Yielded"} => state'[g] = state[g]
    BY <1>1, QuietFacts
  <2>3. QED
    BY <2>1, <2>2 DEF Unthrown, TypeOK
<1>2. ASSUME NEW a \in Actors, NEW r \in Resumables,
             Run(a, r) \/ Resume(a, r) \/ Abort(a, r) \/ DestroySuspended(a, r)
      PROVE  Unthrown'
  <2>1. /\ \A g \in Fibers \ {fiber[r]} : state'[g] = state[g]
        /\ function[fiber[r]] # None \/ state[fiber[r]] = "Yielded"
        /\ UNCHANGED <<function, exception>>
    BY <1>2, CallFacts DEF TypeOK
  <2>2. QED
    BY <2>1 DEF Unthrown
<1>3. ASSUME NEW f \in Fibers, Yield(f)
      PROVE  Unthrown'
  BY <1>3 DEF Yield, Unthrown, TypeOK, Active
<1>4. ASSUME NEW f \in Fibers, NEW how \in {"value", "error", "aborted"},
             Finish(f, how)
      PROVE  Unthrown'
  <2>1. /\ function'[f] = None /\ state'[f] = "Idle"
        /\ \A g \in Fibers \ {f} : /\ function'[g] = function[g]
                                   /\ state'[g] = state[g]
                                   /\ exception'[g] = exception[g]
    BY <1>4 DEF Finish, TypeOK
  <2>2. QED
    BY <2>1 DEF Unthrown, Active
<1>5. ASSUME NEW a \in Actors,
             ReturnFromRun(a) \/ ReturnFromAbort(a) \/ ReturnFromDestroy(a)
      PROVE  Unthrown'
  BY <1>5, ReturnFacts DEF Unthrown, Active
<1>6. ASSUME NEW a \in Actors,
             (\E r \in Resumables : DestroyInactive(a, r)) \/ PrimeCache(a)
      PROVE  Unthrown'
  <2>1. UNCHANGED <<function, exception>>
    BY <1>6 DEF DestroyInactive, PrimeCache
  <2>2. QED
    BY <1>6, <2>1, QuietFacts DEF Unthrown
<1>7. QED
  BY <1>1, <1>2, <1>3, <1>4, <1>5, <1>6 DEF Next, Operation, Payload
----------------------------------------------------------------------------
\* The value that the context's resumable has while actor `a` executes: its own
\* handle, unless a destructor entered it, which leaves that of its caller.
\* What the context's resumable is when actor a executes or makes a call: a
\* itself, unless it runs to be aborted by a destructor, which sets nothing.
Expected(a) ==
  IF a = Main THEN None
  ELSE IF pending[caller[a]].op = "destroy" THEN pending[caller[a]].old
  ELSE a

\* The context's resumable is the executing actor's, and every call in progress
\* remembers the one it has to put back.
Context ==
  /\ pending[current] = NoCall => resumable = Expected(current)
  /\ \A a \in Actors : pending[a] # NoCall => pending[a].old = Expected(a)
  /\ pending[current].op = "destroy" => resumable = pending[current].old

\* Context is preserved by every step.
LEMMA ContextStep ==
  ASSUME TypeOK, CallChain, Context, Next
  PROVE  Context'
<1>1. ASSUME NEW a \in Actors, NEW r \in Resumables,
             Run(a, r) \/ Resume(a, r) \/ Abort(a, r) \/ DestroySuspended(a, r)
      PROVE  Context'
  <2>0. PICK f \in Fibers : f = fiber[r]
    BY <1>1, CallFacts
  <2>1. /\ current = a /\ pending[a] = NoCall /\ f \in Fibers /\ a # f
        /\ current' = f /\ caller' = [caller EXCEPT ![f] = a]
        /\ \A b \in Actors : pending[b].fiber # f
    BY <1>1, <2>0, CallFacts
  <2>2. /\ \A b \in Actors \ {a} : pending'[b] = pending[b]
        /\ pending'[a].old = resumable
        /\ \/ pending'[a].op # "destroy" /\ resumable' = f
           \/ pending'[a].op = "destroy" /\ resumable' = resumable
    BY <1>1, <2>0, CallFacts DEF Call, TypeOK
  <2>3. pending'[f] = NoCall
    BY <1>1, <2>0, <2>1, <2>2, CallFacts DEF CallChain, Active, Actors
  <2>4. f # Main /\ caller'[f] = a
    BY <2>1, ConstantsAssumption DEF TypeOK
  <2>5. resumable' = Expected(f)'
    BY <2>2, <2>4 DEF Expected
  <2>6. ASSUME NEW b \in Actors, b # f, b = a \/ pending[b] # NoCall
        PROVE  Expected(b)' = Expected(b)
    <3>1. CASE b = Main
      BY <3>1 DEF Expected
    <3>2. CASE b # Main
      <4>1. b \in Fibers /\ state[b] \in Active
        BY <2>1, <2>6, <3>2 DEF CallChain, Actors
      <4>2. caller[b] \in Actors /\ pending[caller[b]].fiber = b /\ caller'[b] = caller[b]
        BY <2>1, <2>6, <4>1 DEF CallChain, TypeOK
      <4>3. caller[b] # a
        BY <2>1, <4>1, <4>2, NoCallFiber
      <4>4. QED
        BY <2>2, <3>2, <4>2, <4>3 DEF Expected
    <3>3. QED BY <3>1, <3>2
  <2>7. ASSUME NEW b \in Actors, pending'[b] # NoCall
        PROVE  pending'[b].old = Expected(b)'
    <3>1. b # f
      BY <2>3, <2>7
    <3>2. CASE b = a
      <4>1. resumable = Expected(a)
        BY <2>1 DEF Context
      <4>2. QED BY <2>2, <2>6, <3>1, <3>2, <4>1
    <3>3. CASE b # a
      <4>1. pending'[b] = pending[b] /\ pending[b] # NoCall
        BY <2>2, <2>7, <3>3
      <4>2. pending[b].old = Expected(b)
        BY <4>1 DEF Context
      <4>3. QED BY <2>6, <3>1, <4>1, <4>2
    <3>4. QED BY <3>2, <3>3
  <2>8. QED
    BY <2>1, <2>3, <2>5, <2>7 DEF Context, NoCall
<1>2. ASSUME NEW f \in Fibers,
             Yield(f) \/ \E how \in {"value", "error", "aborted"} : Finish(f, how)
      PROVE  Context'
  <2>1. /\ current = f /\ pending[f] = NoCall /\ state[f] \in Active
        /\ current' = caller[f] /\ UNCHANGED <<caller, pending, resumable>>
    BY <1>2 DEF Yield, Finish, Executing, SwitchTo, Active
  <2>2. \A b : Expected(b)' = Expected(b)
    BY <2>1 DEF Expected
  <2>3. pending[caller[f]].fiber = f
    BY <2>1 DEF CallChain
  <2>4. pending[caller[f]] # NoCall
    BY <2>3, NoCallFiber
  <2>5. pending[caller[f]].op = "destroy" => resumable = pending[caller[f]].old
    BY <2>1, ConstantsAssumption DEF Context, Expected
  <2>6. QED
    BY <2>1, <2>2, <2>4, <2>5 DEF Context
<1>3. ASSUME NEW a \in Actors,
             ReturnFromRun(a) \/ ReturnFromAbort(a) \/ ReturnFromDestroy(a)
      PROVE  Context'
  <2>1. /\ current = a /\ pending[a] # NoCall /\ current' = a /\ caller' = caller
        /\ pending'[a] = NoCall
        /\ \A b \in Actors \ {a} : pending'[b] = pending[b]
        /\ state[pending[a].fiber] \notin Active
    BY <1>3, ReturnFacts DEF TypeOK, Active
  <2>2. resumable' = pending[a].old
    BY <1>3, <2>1 DEF ReturnFromRun, ReturnFromAbort, ReturnFromDestroy, Returned, Context
  <2>3. ASSUME NEW b \in Actors, pending[b] # NoCall
        PROVE  Expected(b)' = Expected(b)
    <3>1. CASE b = Main
      BY <3>1 DEF Expected
    <3>2. CASE b # Main
      <4>1. b \in Fibers /\ state[b] \in Active
        BY <2>3, <3>2 DEF CallChain, Actors
      <4>2. caller[b] \in Actors /\ pending[caller[b]].fiber = b
        BY <4>1 DEF CallChain
      <4>3. caller[b] # a
        BY <2>1, <4>1, <4>2
      <4>4. QED
        BY <2>1, <3>2, <4>2, <4>3 DEF Expected
    <3>3. QED BY <3>1, <3>2
  <2>4. resumable' = Expected(a)'
    BY <2>1, <2>2, <2>3 DEF Context
  <2>5. \A b \in Actors : pending'[b] # NoCall => pending'[b].old = Expected(b)'
    BY <2>1, <2>3 DEF Context
  <2>6. QED
    BY <2>1, <2>4, <2>5 DEF Context, NoCall
<1>4. ASSUME NEW a \in Actors,
             \/ \E r \in Resumables : Construct(a, r) \/ DestroyInactive(a, r)
             \/ PrimeCache(a)
      PROVE  Context'
  BY <1>4, QuietFacts DEF Context, Expected
<1>5. QED
  BY <1>1, <1>2, <1>3, <1>4 DEF Next, Operation, Payload
----------------------------------------------------------------------------
\* The inductive invariant.
IInv ==
  /\ TypeOK /\ CallChain /\ CallStates /\ Unthrown
  /\ StackIntegrity /\ Entered
  /\ Owned /\ CacheDistinct
  /\ Context

\* It holds initially,
LEMMA InitIInv == Init => IInv
<1> SUFFICES ASSUME Init PROVE IInv
  OBVIOUS
<1>1. TypeOK
  <2>1. stats \in Statistics
    BY DEF Init, Statistics
  <2>2. cache \in Seq(Fibers) /\ Len(cache) <= CacheSize
    BY ConstantsAssumption DEF Init
  <2>3. QED
    BY <2>1, <2>2 DEF Init, TypeOK, States, Outcomes, Actors
<1>2. \A a \in Actors : pending[a] = NoCall /\ NoCall.op = "none"
  BY DEF Init, NoCall
<1>3. CallChain /\ CallStates
  BY <1>2, ConstantsAssumption DEF Init, CallChain, CallStates, Active
<1>4. StackIntegrity /\ Entered /\ Unthrown
  BY ConstantsAssumption DEF Init, StackIntegrity, Entered, Unthrown, Active
<1>5. Owned /\ CacheDistinct
  BY <1>2, ConstantsAssumption DEF Init, Owned, CacheDistinct, Cached, Dying
<1>6. Context
  BY <1>2 DEF Init, Context, Expected, Actors
<1>7. QED
  BY <1>1, <1>3, <1>4, <1>5, <1>6 DEF IInv

\* is preserved by every step,
LEMMA NextIInv == IInv /\ [Next]_vars => IInv'
<1>1. ASSUME IInv, Next
      PROVE  IInv'
  BY <1>1, TypeStep, ChainStep, CallStatesStep, UnthrownStep, StackStep,
     OwnedStep, ContextStep DEF IInv
<1>2. ASSUME IInv, UNCHANGED vars
      PROVE  IInv'
  BY <1>2 DEF IInv, vars, fiberVars, contextVars, stackVars, resumableVars,
     TypeOK, CallChain, CallStates, Unthrown, StackIntegrity, Entered, Owned,
     CacheDistinct, Cached, Dying, Context, Expected
<1>3. QED BY <1>1, <1>2

\* and so holds always.
LEMMA Invariance == Spec => []IInv
BY InitIInv, NextIInv, PTL DEF Spec

\* Every variable always has its type (fiber.h 84-412).
THEOREM TypeCorrect == Spec => []TypeOK
BY Invariance, PTL DEF IInv

\* Control moves along one chain of calls: Fiber::_caller is enough to find the
\* way back out of any nesting of run, resume, abort and destruction.
THEOREM ControlReturns == Spec => []CallChain
BY Invariance, PTL DEF IInv

\* Copying frames out and in at every switch of the shared stack (StackBuffer)
\* never hands a fiber anything but the frames it left.
THEOREM StackPreserved == Spec => []StackIntegrity
BY Invariance, PTL DEF IInv

\* Owned contains that cached fibers are idle.
LEMMA IInvRecycled == IInv => RecycledAreIdle
BY DEF IInv, Owned, Cached, RecycledAreIdle, TypeOK

\* Fiber::destroy() never caches a fiber with a half-executed function in it.
THEOREM RecycledOnlyIdle == Spec => []RecycledAreIdle
BY Invariance, IInvRecycled, PTL

\* The fiber that executes a running payload was called by run() or resume(),
\* which set the context's resumable to it.
LEMMA IInvYields == IInv => YieldsItself
<1> SUFFICES ASSUME IInv, pending[current] = NoCall
             PROVE  /\ current = Main => resumable = None
                    /\ current \in Fibers /\ state[current] = "Running" =>
                         resumable = current
  BY DEF YieldsItself
<1>1. resumable = Expected(current)
  BY DEF IInv, Context
<1>2. ASSUME current \in Fibers, state[current] = "Running"
      PROVE  resumable = current
  <2>1. /\ caller[current] \in Actors
        /\ pending[caller[current]].fiber = current
    BY <1>2 DEF IInv, CallChain, Active
  <2>2. pending[caller[current]] \in Calls
    BY <1>2, <2>1, NoCallFiber DEF IInv, TypeOK
  <2>3. pending[caller[current]].op = "run"
    BY <1>2, <2>1, <2>2 DEF IInv, CallStates, Calls
  <2>4. QED
    BY <1>1, <1>2, <2>3, ConstantsAssumption DEF Expected
<1>3. QED
  BY <1>1, <1>2 DEF Expected

\* detail::yield() always suspends the fiber that calls it: the context's
\* resumable is put back after every nested call, abort and exception.
THEOREM YieldSuspendsItself == Spec => []YieldsItself
BY Invariance, IInvYields, PTL

\* The owners that Owned excludes from each other are all there are.
LEMMA IInvOneOwner == IInv => OneOwner
<1> SUFFICES ASSUME IInv, NEW f \in Fibers
             PROVE  /\ state[f] = "Deleted" <=> Owners(f) = {}
                    /\ \A x, y \in Owners(f) : x = y
  BY DEF OneOwner
<1> USE DEF IInv
<1>1. f # None /\ NoCall.op = "none"
  BY ConstantsAssumption DEF NoCall
<1>2. state[f] # "Deleted" <=> Cached(f) \/ Dying(f) \/ \E r \in Resumables : fiber[r] = f
  BY <1>1, PendingTarget DEF Owned, Dying
<1>3. Owners(f) # {} <=> Cached(f) \/ Dying(f) \/ \E r \in Resumables : fiber[r] = f
  BY DEF Owners, Cached, Dying
<1>4. ASSUME NEW x \in Owners(f), NEW y \in Owners(f)
      PROVE  x = y
  <2>1. \A z \in Owners(f) :
          \/ \E i \in DOMAIN cache : z = <<"cache", i>> /\ cache[i] = f
          \/ \E r \in Resumables : z = <<"resumable", r>> /\ fiber[r] = f
          \/ \E a \in Actors : /\ z = <<"destroy", a>>
                              /\ pending[a].op = "destroy" /\ pending[a].fiber = f
    BY DEF Owners
  <2>2. CASE Cached(f)
    <3>1. ~Dying(f) /\ \A r \in Resumables : fiber[r] # f
      BY <2>2 DEF Owned
    <3>2. QED
      BY <2>1, <3>1 DEF CacheDistinct, Dying
  <2>3. CASE Dying(f)
    <3>1. ~Cached(f) /\ \A r \in Resumables : fiber[r] # f
      BY <2>3 DEF Owned
    <3>2. \A a, b \in Actors :
            pending[a].op = "destroy" /\ pending[a].fiber = f /\ pending[b].fiber = f => a = b
      BY <1>1, PendingTarget
    <3>3. QED
      BY <2>1, <3>1, <3>2 DEF Cached
  <2>4. CASE ~Cached(f) /\ ~Dying(f)
    BY <1>1, <2>1, <2>4 DEF Cached, Dying, Owned
  <2>5. QED BY <2>2, <2>3, <2>4
<1>5. QED BY <1>2, <1>3, <1>4

\* A fiber that exists has exactly one owner: it is never executed for two
\* Resumables, recycled while somebody can resume it, or leaked.
THEOREM EachFiberOwnedOnce == Spec => []OneOwner
BY Invariance, IInvOneOwner, PTL

\* Control comes back to the actor that waits for it, and what suspends is the
\* function that asked for it.
THEOREM ControlKept == Spec => []Control
  BY ControlReturns, YieldSuspendsItself, PTL DEF Control

\* No fiber is lost, shared, or recycled in the middle of a function.
THEOREM OwnershipKept == Spec => []Ownership
  BY EachFiberOwnedOnce, RecycledOnlyIdle, PTL DEF Ownership
----------------------------------------------------------------------------
(* What callers are told *)

\* A payload that has not finished is in one fiber at most: in that of its
\* Resumable, as long as there is one, and nothing is known of its outcome.
Bound ==
  /\ \A f \in Fibers : function[f] # None =>
       /\ phase[function[f]] # "unborn"
       /\ fiber[function[f]] \in {f, None}
       /\ \A g \in Fibers : function[g] = function[f] => g = f
       /\ outcome[function[f]] = "none" /\ ~done[function[f]]
  /\ \A f \in Fibers : state[f] \in Active \cup {"Yielded"} => function[f] # None
  /\ \A r \in Resumables : fiber[r] # None => function[fiber[r]] \in {r, None}
  /\ \A r \in Resumables : phase[r] = "unborn" => outcome[r] = "none" /\ ~done[r]

\* A payload's result or exception stays in its fiber until it is handed over:
\* what a call finds when it returns is that of the payload it was made for.
Kept ==
  /\ \A r \in Resumables : ~done[r] => value[r] = None /\ threw[r] = None
  /\ \A r \in Resumables : fiber[r] # None /\ function[fiber[r]] = None =>
       \/ outcome[r] = "value" /\ result[fiber[r]] = r /\ exception[fiber[r]] = None
       \/ outcome[r] \in {"error", "aborted"} /\ exception[fiber[r]] = r
  /\ \A a \in Actors : pending[a].op \in {"run", "abort"} =>
       /\ ~done[pending[a].r]
       /\ outcome[pending[a].r] \in
            IF pending[a].op = "run" THEN {"none", "value", "error"} ELSE {"none", "aborted"}
  /\ \A a \in Actors : pending[a] # NoCall /\ state[pending[a].fiber] = "Idle" =>
       function[pending[a].fiber] = None

\* OwnOutcome, case by case.
Reported ==
  \A r \in Resumables :
    /\ value[r] # None => value[r] = r /\ outcome[r] = "value"
    /\ threw[r] # None => threw[r] = r /\ outcome[r] = "error"
    /\ done[r] =>
         \/ outcome[r] = "value" /\ value[r] = r
         \/ outcome[r] = "error" /\ threw[r] = r
         \/ outcome[r] = "aborted" /\ value[r] = None /\ threw[r] = None

\* Construct() takes a fiber that nobody has.
LEMMA ConstructFacts ==
  ASSUME TypeOK, CallChain, Owned, NEW a \in Actors, NEW r \in Resumables, Construct(a, r)
  PROVE  \E f \in Fibers :
           /\ phase[r] = "unborn" /\ phase' = [phase EXCEPT ![r] = "live"]
           /\ \A q \in Resumables : fiber[q] # f
           /\ \A b \in Actors : pending[b] # NoCall => pending[b].fiber # f
           /\ fiber' = [fiber EXCEPT ![r] = f]
           /\ function'  = [function EXCEPT ![f] = r]
           /\ result'    = [result EXCEPT ![f] = None]
           /\ exception' = [exception EXCEPT ![f] = None]
           /\ \A g \in Fibers \ {f} : state'[g] = state[g]
           /\ state'[f] \in {"Init", "Idle"}
           /\ UNCHANGED <<pending, done, value, threw, outcome>>
<1>1. PICK f \in Fibers : /\ Reuse(f) \/ Allocate(f)
                          /\ fiber' = [fiber EXCEPT ![r] = f]
                          /\ function'  = [function EXCEPT ![f] = r]
                          /\ result'    = [result EXCEPT ![f] = None]
                          /\ exception' = [exception EXCEPT ![f] = None]
  BY DEF Construct
<1>2. Cached(f) \/ state[f] = "Deleted"
  BY <1>1 DEF Reuse, Allocate, Cached, TypeOK, Last
<1>3. state'[f] \in {"Init", "Idle"} /\ \A g \in Fibers \ {f} : state'[g] = state[g]
  <2>1. CASE Reuse(f)
    <3>1. Cached(f)
      BY <2>1 DEF Reuse, Cached, TypeOK, Last
    <3>2. QED BY <2>1, <3>1 DEF Reuse, Owned
  <2>2. CASE Allocate(f)
    BY <2>2 DEF Allocate, TypeOK
  <2>3. QED BY <1>1, <2>1, <2>2
<1>4. \A q \in Resumables : fiber[q] # f
  BY <1>2 DEF Owned
<1>5. ASSUME NEW b \in Actors, pending[b] # NoCall
      PROVE  pending[b].fiber # f
  <2>1. state[pending[b].fiber] # "Deleted" /\ pending[b] \in Calls /\ pending[b].r \in Resumables
    BY <1>5, PendingTarget
  <2>2. CASE pending[b].op = "destroy"
    BY <1>2, <2>1, <2>2 DEF Owned, Dying
  <2>3. CASE pending[b].op # "destroy"
    BY <1>4, <2>1, <2>3 DEF Owned, Calls
  <2>4. QED BY <2>2, <2>3
<1>6. /\ phase[r] = "unborn" /\ phase' = [phase EXCEPT ![r] = "live"]
      /\ UNCHANGED <<pending, done, value, threw, outcome>>
  BY DEF Construct
<1>7. QED
  BY <1>1, <1>3, <1>4, <1>5, <1>6

\* The payload whose fiber has finished it is in no other fiber either.
LEMMA NotBound ==
  ASSUME TypeOK, Bound, NEW r \in Resumables, NEW f \in Fibers, fiber[r] = f, function[f] = None
  PROVE  \A g \in Fibers : function[g] # None => function[g] # r /\ function[g] \in Resumables
<1> SUFFICES ASSUME NEW g \in Fibers, function[g] # None
             PROVE  function[g] # r /\ function[g] \in Resumables
  OBVIOUS
<1>1. function[g] \in Resumables /\ f # None
  BY ConstantsAssumption DEF TypeOK
<1>2. fiber[function[g]] \in {g, None}
  BY DEF Bound
<1>3. QED
  BY <1>1, <1>2

\* Bound is preserved by every step.
LEMMA BoundStep ==
  ASSUME TypeOK, CallChain, CallStates, Unthrown, Owned, Bound, Kept, Next
  PROVE  Bound'
<1>1. ASSUME NEW a \in Actors, NEW r \in Resumables, Construct(a, r)
      PROVE  Bound'
  <2>1. PICK f \in Fibers :
           /\ phase[r] = "unborn" /\ phase' = [phase EXCEPT ![r] = "live"]
           /\ \A q \in Resumables : fiber[q] # f
           /\ fiber' = [fiber EXCEPT ![r] = f]
           /\ function'  = [function EXCEPT ![f] = r]
           /\ \A g \in Fibers \ {f} : state'[g] = state[g]
           /\ state'[f] \in {"Init", "Idle"}
           /\ UNCHANGED <<done, outcome>>
    BY <1>1, ConstructFacts
  <2>2. r # None /\ f # None
    BY ConstantsAssumption
  <2>3. \A g \in Fibers : function'[g] = IF g = f THEN r ELSE function[g]
    BY <2>1 DEF TypeOK
  <2>4. \A q \in Resumables : fiber'[q] = IF q = r THEN f ELSE fiber[q]
    BY <2>1 DEF TypeOK
  <2>5. \A g \in Fibers \ {f} : function[g] # r
    BY <2>1, <2>2 DEF Bound
  <2>6. ASSUME NEW g \in Fibers, function'[g] # None
        PROVE  /\ phase'[function'[g]] # "unborn"
               /\ fiber'[function'[g]] \in {g, None}
               /\ \A h \in Fibers : function'[h] = function'[g] => h = g
               /\ outcome'[function'[g]] = "none" /\ ~done'[function'[g]]
    <3>1. CASE g = f
      BY <2>1, <2>2, <2>3, <2>4, <2>5, <3>1 DEF Bound, TypeOK
    <3>2. CASE g # f
      <4>1. function'[g] = function[g] /\ function[g] \in Resumables \ {r}
        BY <2>3, <2>5, <2>6, <3>2 DEF TypeOK
      <4>2. QED
        BY <2>1, <2>3, <2>4, <2>6, <3>2, <4>1 DEF Bound, TypeOK
    <3>3. QED BY <3>1, <3>2
  <2>7. \A g \in Fibers : state'[g] \in Active \cup {"Yielded"} => function'[g] # None
    BY <2>1, <2>3 DEF Bound, Active
  <2>8. \A q \in Resumables : fiber'[q] # None => function'[fiber'[q]] \in {q, None}
    BY <2>1, <2>3, <2>4 DEF Bound, TypeOK
  <2>9. \A q \in Resumables : phase'[q] = "unborn" => outcome'[q] = "none" /\ ~done'[q]
    BY <2>1 DEF Bound, TypeOK
  <2>10. QED
    BY <2>6, <2>7, <2>8, <2>9 DEF Bound
<1>2. ASSUME NEW a \in Actors, NEW r \in Resumables,
             Run(a, r) \/ Resume(a, r) \/ Abort(a, r) \/ DestroySuspended(a, r)
      PROVE  Bound'
  <2>1. /\ \A g \in Fibers \ {fiber[r]} : state'[g] = state[g]
        /\ fiber[r] \in Fibers
        /\ function[fiber[r]] # None \/ state[fiber[r]] = "Yielded"
        /\ UNCHANGED function
    BY <1>2, CallFacts DEF TypeOK
  <2>2. function[fiber[r]] # None
    BY <2>1 DEF Bound
  <2>3. /\ UNCHANGED <<outcome, done>>
        /\ \A q \in Resumables : fiber'[q] = fiber[q] \/ fiber'[q] = None
        /\ \A q \in Resumables : phase'[q] = "unborn" => phase[q] = "unborn"
        /\ \A q \in Resumables : phase'[q] = phase[q] \/ phase'[q] = "gone"
    BY <1>2 DEF Run, Resume, Abort, DestroySuspended, resumableVars, TypeOK
  <2>4. QED
    BY <2>1, <2>2, <2>3 DEF Bound, TypeOK
<1>3. ASSUME NEW f \in Fibers, Yield(f)
      PROVE  Bound'
  <2>1. /\ UNCHANGED <<function, fiber, phase, outcome, done>>
        /\ \A g \in Fibers \ {f} : state'[g] = state[g]
        /\ state[f] = "Running"
    BY <1>3 DEF Yield, resumableVars, TypeOK
  <2>2. QED
    BY <2>1 DEF Bound, Active
<1>4. ASSUME NEW f \in Fibers, NEW how \in {"value", "error", "aborted"}, Finish(f, how)
      PROVE  Bound'
  <2>1. /\ UNCHANGED <<fiber, phase, done>>
        /\ \A g \in Fibers : function'[g] = IF g = f THEN None ELSE function[g]
        /\ \A g \in Fibers \ {f} : state'[g] = state[g]
        /\ state'[f] = "Idle"
        /\ state[f] \in Active
        /\ \A q \in Resumables : outcome'[q] = IF q = function[f] THEN how ELSE outcome[q]
    BY <1>4 DEF Finish, resumableVars, TypeOK
  <2>2. \A g \in Fibers : function'[g] # None => g # f /\ function[g] # function[f] /\ function'[g] = function[g] /\ function[g] \in Resumables
    BY <2>1 DEF Bound, TypeOK
  <2>3. function[f] # None
    BY <2>1 DEF Bound
  <2>4. ASSUME NEW g \in Fibers, function'[g] # None
        PROVE  /\ phase'[function'[g]] # "unborn"
               /\ fiber'[function'[g]] \in {g, None}
               /\ \A h \in Fibers : function'[h] = function'[g] => h = g
               /\ outcome'[function'[g]] = "none" /\ ~done'[function'[g]]
    BY <2>1, <2>2, <2>4 DEF Bound
  <2>5. \A g \in Fibers : state'[g] \in Active \cup {"Yielded"} => function'[g] # None
    BY <2>1 DEF Bound, Active
  <2>6. \A q \in Resumables : fiber'[q] # None => function'[fiber'[q]] \in {q, None}
    BY <2>1 DEF Bound, TypeOK
  <2>7. \A q \in Resumables : phase'[q] = "unborn" => outcome'[q] = "none" /\ ~done'[q]
    BY <2>1, <2>3 DEF Bound, TypeOK
  <2>8. QED
    BY <2>4, <2>5, <2>6, <2>7 DEF Bound
<1>5. ASSUME NEW a \in Actors, ReturnFromRun(a)
      PROVE  Bound'
  <2> DEFINE c == pending[a]
  <2>1. /\ c # NoCall /\ c.fiber \in Fibers /\ c.r \in Resumables /\ c.op = "run"
        /\ \A g \in Fibers : state'[g] = state[g] \/ state'[g] = "Deleted"
        /\ UNCHANGED function
    BY <1>5, ReturnFacts, PendingTarget DEF ReturnFromRun, Returned
  <2>2. UNCHANGED <<phase, outcome>>
    BY <1>5 DEF ReturnFromRun
  <2>3. fiber[c.r] = c.fiber
    BY <2>1 DEF Owned
  <2>4. CASE exception[c.fiber] # None \/ state[c.fiber] = "Idle"
    <3>1. /\ \A q \in Resumables : done'[q] = IF q = c.r THEN TRUE ELSE done[q]
          /\ \A q \in Resumables : fiber'[q] = IF q = c.r THEN None ELSE fiber[q]
      BY <1>5, <2>4 DEF ReturnFromRun, TypeOK
    <3>2. function[c.fiber] = None
      BY <2>1, <2>4 DEF Kept, Unthrown
    <3>3. \A g \in Fibers : function[g] # None => function[g] # c.r /\ function[g] \in Resumables
      BY <2>1, <2>3, <3>2, NotBound
    <3>4. phase[c.r] # "unborn"
      BY <2>1, <2>3, ConstantsAssumption DEF Owned
    <3>5. QED
      BY <2>1, <2>2, <3>1, <3>3, <3>4 DEF Bound, Active
  <2>5. CASE ~(exception[c.fiber] # None \/ state[c.fiber] = "Idle")
    <3>1. UNCHANGED <<done, fiber>>
      BY <1>5, <2>5 DEF ReturnFromRun
    <3>2. QED
      BY <2>1, <2>2, <3>1 DEF Bound, Active
  <2>6. QED BY <2>4, <2>5
<1>6. ASSUME NEW a \in Actors, ReturnFromAbort(a)
      PROVE  Bound'
  <2> DEFINE c == pending[a]
  <2>1. /\ c # NoCall /\ c.fiber \in Fibers /\ c.r \in Resumables /\ c.op = "abort"
    BY <1>6, ReturnFacts, PendingTarget DEF ReturnFromAbort, Returned
  <2>2. fiber[c.r] = c.fiber
    BY <2>1 DEF Owned
  <2>3. UNCHANGED <<function, state, phase, outcome, fiber>>
    BY <1>6 DEF ReturnFromAbort, fiberVars
  <2>4. \A q \in Resumables : done'[q] = IF q = c.r THEN TRUE ELSE done[q]
    BY <1>6 DEF ReturnFromAbort, TypeOK
  <2>5. state[c.fiber] = "Idle"
    BY <1>6, <2>1, ReturnFacts DEF CallStates, Active
  <2>6. function[c.fiber] = None
    BY <2>1, <2>5 DEF Kept
  <2>7. \A g \in Fibers : function[g] # None => function[g] # c.r /\ function[g] \in Resumables
    BY <2>1, <2>2, <2>6, NotBound
  <2>8. phase[c.r] # "unborn"
    BY <2>1, <2>2, ConstantsAssumption DEF Owned
  <2>9. QED
    BY <2>3, <2>4, <2>7, <2>8 DEF Bound
<1>7. ASSUME NEW a \in Actors,
             ReturnFromDestroy(a) \/ (\E r \in Resumables : DestroyInactive(a, r)) \/ PrimeCache(a)
      PROVE  Bound'
  <2>1. UNCHANGED <<function, outcome, done>>
    BY <1>7 DEF ReturnFromDestroy, DestroyInactive, PrimeCache, resumableVars
  <2>2. \A g \in Fibers : state'[g] \in Active \cup {"Yielded"} => state'[g] = state[g]
    BY <1>7, ReturnFacts, QuietFacts DEF Active
  <2>3. /\ \A q \in Resumables : fiber'[q] = fiber[q] \/ fiber'[q] = None
        /\ \A q \in Resumables : phase'[q] = phase[q] \/ phase'[q] = "gone"
    BY <1>7 DEF ReturnFromDestroy, DestroyInactive, PrimeCache, resumableVars, TypeOK
  <2>4. QED
    BY <2>1, <2>2, <2>3 DEF Bound, TypeOK
<1>8. QED
  BY <1>1, <1>2, <1>3, <1>4, <1>5, <1>6, <1>7 DEF Next, Operation, Payload

\* So is Kept, together with Reported.
LEMMA KeptStep ==
  ASSUME TypeOK, CallChain, CallStates, Unthrown, Owned, Bound, Kept, Reported, Next
  PROVE  Kept' /\ Reported'
<1> DEFINE Ended(q, f) ==
      \/ outcome[q] = "value" /\ result[f] = q /\ exception[f] = None
      \/ outcome[q] \in {"error", "aborted"} /\ exception[f] = q
<1>1. ASSUME NEW a \in Actors, NEW r \in Resumables, Construct(a, r)
      PROVE  Kept' /\ Reported'
  <2>1. PICK f \in Fibers :
           /\ \A q \in Resumables : fiber[q] # f
           /\ \A b \in Actors : pending[b] # NoCall => pending[b].fiber # f
           /\ fiber' = [fiber EXCEPT ![r] = f]
           /\ function'  = [function EXCEPT ![f] = r]
           /\ result'    = [result EXCEPT ![f] = None]
           /\ exception' = [exception EXCEPT ![f] = None]
           /\ \A g \in Fibers \ {f} : state'[g] = state[g]
           /\ UNCHANGED <<pending, done, value, threw, outcome>>
    BY <1>1, ConstructFacts
  <2>2. \A q \in Resumables : fiber'[q] # None /\ function'[fiber'[q]] = None =>
           /\ fiber'[q] = fiber[q] /\ fiber[q] \in Fibers \ {f}
           /\ function[fiber[q]] = None
           /\ result'[fiber[q]] = result[fiber[q]] /\ exception'[fiber[q]] = exception[fiber[q]]
    BY <2>1, ConstantsAssumption DEF TypeOK
  <2>3. \A b \in Actors : pending[b] # NoCall =>
           /\ pending[b].fiber \in Fibers \ {f}
           /\ function'[pending[b].fiber] = function[pending[b].fiber]
           /\ state'[pending[b].fiber] = state[pending[b].fiber]
    BY <2>1, PendingTarget DEF TypeOK
  <2>4. Kept'
    BY <2>1, <2>2, <2>3 DEF Kept
  <2>5. Reported'
    BY <2>1 DEF Reported
  <2>6. QED BY <2>4, <2>5
<1>2. ASSUME NEW a \in Actors, NEW r \in Resumables,
             Run(a, r) \/ Resume(a, r) \/ Abort(a, r) \/ DestroySuspended(a, r)
      PROVE  Kept' /\ Reported'
  <2>1. UNCHANGED <<function, result, exception, done, value, threw, outcome>>
    BY <1>2 DEF Run, Resume, Abort, DestroySuspended, resumableVars
  <2>2. PICK f \in Fibers :
           /\ f = fiber[r]
           /\ \A b \in Actors : pending[b].fiber # f
           /\ \A g \in Fibers \ {f} : state'[g] = state[g]
           /\ state'[f] \in Active
           /\ function[f] # None \/ state[f] = "Yielded"
           /\ \A b \in Actors \ {a} : pending'[b] = pending[b]
           /\ pending'[a].r = r /\ pending'[a].fiber = f
    BY <1>2, CallFacts DEF Call, Active, TypeOK
  <2>3. function[f] = r /\ ~done[r] /\ outcome[r] = "none"
    <3>1. function[f] # None
      BY <2>2 DEF Bound
    <3>2. function[f] = r
      BY <2>2, <3>1, ConstantsAssumption DEF Bound
    <3>3. QED BY <3>1, <3>2 DEF Bound
  <2>4. \A q \in Resumables : fiber'[q] # None => fiber'[q] = fiber[q]
    BY <1>2 DEF Run, Resume, Abort, DestroySuspended, resumableVars, TypeOK
  <2>5. \A b \in Actors : pending'[b].op \in {"run", "abort"} =>
           /\ ~done'[pending'[b].r]
           /\ outcome'[pending'[b].r] \in
                IF pending'[b].op = "run" THEN {"none", "value", "error"} ELSE {"none", "aborted"}
    BY <2>1, <2>2, <2>3 DEF Kept
  <2>6. \A b \in Actors : pending'[b] # NoCall /\ state'[pending'[b].fiber] = "Idle" =>
           function'[pending'[b].fiber] = None
    <3>1. SUFFICES ASSUME NEW b \in Actors, pending'[b] # NoCall, state'[pending'[b].fiber] = "Idle"
                   PROVE  function'[pending'[b].fiber] = None
      OBVIOUS
    <3>2. b # a
      BY <2>2, <3>1 DEF Active
    <3>3. pending'[b] = pending[b] /\ pending[b].fiber \in Fibers \ {f}
      BY <2>2, <3>1, <3>2, PendingTarget
    <3>4. QED
      BY <2>1, <2>2, <3>1, <3>3 DEF Kept
  <2>7. Kept'
    BY <2>1, <2>4, <2>5, <2>6 DEF Kept
  <2>8. Reported'
    BY <2>1 DEF Reported
  <2>9. QED BY <2>7, <2>8
<1>3. ASSUME NEW f \in Fibers, Yield(f)
      PROVE  Kept' /\ Reported'
  <2>1. /\ UNCHANGED <<function, result, exception, fiber, done, value, threw, outcome, pending>>
        /\ \A g \in Fibers \ {f} : state'[g] = state[g]
        /\ state'[f] = "Yielded"
    BY <1>3 DEF Yield, resumableVars, TypeOK
  <2>2. \A b \in Actors : pending[b] # NoCall => pending[b].fiber \in Fibers
    BY PendingTarget
  <2>3. Kept'
    BY <2>1, <2>2 DEF Kept
  <2>4. QED
    BY <2>1, <2>3 DEF Reported
<1>4. ASSUME NEW f \in Fibers, NEW how \in {"value", "error", "aborted"}, Finish(f, how)
      PROVE  Kept' /\ Reported'
  <2> DEFINE p == function[f]
  <2>1. p \in Resumables /\ outcome[p] = "none" /\ ~done[p] /\ fiber[p] \in {f, None}
    BY <1>4 DEF Finish, Bound, TypeOK
  <2>2. /\ UNCHANGED <<fiber, done, value, threw, pending>>
        /\ \A g \in Fibers : function'[g] = IF g = f THEN None ELSE function[g]
        /\ \A g \in Fibers \ {f} : state'[g] = state[g]
        /\ \A q \in Resumables : outcome'[q] = IF q = p THEN how ELSE outcome[q]
        /\ \A g \in Fibers \ {f} : result'[g] = result[g] /\ exception'[g] = exception[g]
    BY <1>4 DEF Finish, resumableVars, TypeOK
  <2>3. IF how = "value" THEN result'[f] = p /\ exception'[f] = exception[f] ELSE exception'[f] = p
    BY <1>4 DEF Finish, TypeOK
  <2>4. state[f] \in Active /\ (how = "aborted" <=> state[f] = "Aborting") /\ exception[f] = None
    BY <1>4, <2>1, ConstantsAssumption DEF Finish, Unthrown
  <2>5. ASSUME NEW q \in Resumables, fiber'[q] # None, function'[fiber'[q]] = None
        PROVE  Ended(q, fiber[q])'
    <3>1. fiber[q] \in Fibers /\ fiber'[q] = fiber[q]
      BY <2>2, <2>5 DEF TypeOK
    <3>2. CASE fiber[q] = f
      <4>1. q = p
        BY <2>1, <2>5, <3>1, <3>2, ConstantsAssumption DEF Bound
      <4>2. QED
        BY <2>2, <2>3, <2>4, <3>1, <3>2, <4>1
    <3>3. CASE fiber[q] # f
      <4>1. q # p
        BY <2>1, <2>5, <2>2, <3>3
      <4>2. function[fiber[q]] = None
        BY <2>2, <2>5, <3>1, <3>3
      <4>3. Ended(q, fiber[q])
        BY <3>1, <4>2, ConstantsAssumption DEF Kept
      <4>4. QED
        BY <2>2, <3>1, <3>3, <4>1, <4>3
    <3>4. QED BY <3>2, <3>3
  <2>6. ASSUME NEW b \in Actors, pending[b].op \in {"run", "abort"}
        PROVE  outcome'[pending[b].r] \in
                IF pending[b].op = "run" THEN {"none", "value", "error"} ELSE {"none", "aborted"}
    <3>1. pending[b] # NoCall
      BY <2>6 DEF NoCall
    <3>2. /\ pending[b].r \in Resumables /\ pending[b].fiber \in Fibers
          /\ fiber[pending[b].r] = pending[b].fiber
      BY <2>6, <3>1, PendingTarget DEF Owned
    <3>3. CASE pending[b].r = p
      <4>1. pending[b].fiber = f
        BY <2>1, <3>2, <3>3, ConstantsAssumption
      <4>2. QED
        BY <2>2, <2>4, <2>6, <3>2, <3>3, <4>1 DEF CallStates, Active
    <3>4. CASE pending[b].r # p
      BY <2>2, <2>6, <3>2, <3>4 DEF Kept
    <3>5. QED BY <3>3, <3>4
  <2>7. ASSUME NEW b \in Actors, pending[b] # NoCall, state'[pending[b].fiber] = "Idle"
        PROVE  function'[pending[b].fiber] = None
    BY <2>2, <2>7, PendingTarget DEF Kept
  <2>8. Kept'
    BY <2>2, <2>5, <2>6, <2>7 DEF Kept
  <2>9. Reported'
    <3>1. value[p] = None /\ threw[p] = None
      BY <2>1 DEF Kept
    <3>2. QED
      BY <2>1, <2>2, <3>1 DEF Reported
  <2>10. QED BY <2>8, <2>9
<1>5. ASSUME NEW a \in Actors, ReturnFromRun(a)
      PROVE  Kept' /\ Reported'
  <2> DEFINE c == pending[a]
  <2>1. /\ c # NoCall /\ c.fiber \in Fibers /\ c.r \in Resumables /\ c.op = "run"
        /\ \A g \in Fibers : state'[g] = state[g] \/ state'[g] = "Deleted"
        /\ UNCHANGED <<function, result, exception, outcome>>
        /\ pending' = [pending EXCEPT ![a] = NoCall]
    BY <1>5, ReturnFacts, PendingTarget DEF ReturnFromRun, Returned
  <2>2. /\ fiber[c.r] = c.fiber /\ ~done[c.r]
        /\ outcome[c.r] \in {"none", "value", "error"}
    BY <2>1 DEF Owned, Kept
  <2>3. \A b \in Actors \ {a} : pending'[b] = pending[b]
    BY <2>1 DEF TypeOK
  <2>4. pending'[a].op = "none" /\ pending'[a] = NoCall
    BY <2>1 DEF NoCall, TypeOK
  <2>5. CASE exception[c.fiber] # None \/ state[c.fiber] = "Idle"
    <3>1. /\ \A q \in Resumables : done'[q] = IF q = c.r THEN TRUE ELSE done[q]
          /\ \A q \in Resumables : fiber'[q] = IF q = c.r THEN None ELSE fiber[q]
          /\ \A q \in Resumables \ {c.r} : value'[q] = value[q] /\ threw'[q] = threw[q]
          /\ value'[c.r] = IF exception[c.fiber] # None THEN None ELSE result[c.fiber]
          /\ threw'[c.r] = exception[c.fiber]
      <4>1. /\ done' = [done EXCEPT ![c.r] = TRUE]
            /\ value' = [value EXCEPT ![c.r] = IF exception[c.fiber] # None THEN None ELSE result[c.fiber]]
            /\ threw' = [threw EXCEPT ![c.r] = exception[c.fiber]]
            /\ fiber' = [fiber EXCEPT ![c.r] = None]
        BY <1>5, <2>5 DEF ReturnFromRun
      <4>2. QED
        BY <2>1, <4>1 DEF TypeOK
    <3>2. function[c.fiber] = None
      BY <2>1, <2>5 DEF Kept, Unthrown
    <3>3. \/ outcome[c.r] = "value" /\ result[c.fiber] = c.r /\ exception[c.fiber] = None
          \/ outcome[c.r] = "error" /\ exception[c.fiber] = c.r
      <4>1. Ended(c.r, c.fiber)
        BY <2>1, <2>2, <3>2, ConstantsAssumption DEF Kept
      <4>2. QED BY <2>2, <4>1
    <3>4. \A b \in Actors \ {a} : pending[b].op \in {"run", "abort"} => pending[b].r # c.r
      BY <2>1, <2>2, PendingTarget DEF Owned, NoCall
    <3>5. \A b \in Actors \ {a} : pending[b].op \in {"run", "abort"} => pending[b].r \in Resumables
      BY PendingTarget DEF NoCall
    <3>6. \A b \in Actors : pending'[b].op \in {"run", "abort"} =>
             /\ ~done'[pending'[b].r]
             /\ outcome'[pending'[b].r] \in
                  IF pending'[b].op = "run" THEN {"none", "value", "error"} ELSE {"none", "aborted"}
      <4>1. SUFFICES ASSUME NEW b \in Actors, pending'[b].op \in {"run", "abort"}
                     PROVE  /\ ~done'[pending'[b].r]
                            /\ outcome'[pending'[b].r] \in
                                 IF pending'[b].op = "run" THEN {"none", "value", "error"}
                                 ELSE {"none", "aborted"}
        OBVIOUS
      <4>2. b \in Actors \ {a} /\ pending'[b] = pending[b]
        BY <2>3, <2>4, <4>1
      <4>3. pending[b].r \in Resumables \ {c.r}
        BY <3>4, <3>5, <4>1, <4>2
      <4>4. ~done'[pending[b].r]
        BY <3>1, <4>1, <4>2, <4>3 DEF Kept
      <4>5. QED
        BY <2>1, <4>1, <4>2, <4>4 DEF Kept
    <3>7. \A b \in Actors : pending'[b] # NoCall /\ state'[pending'[b].fiber] = "Idle" =>
             function'[pending'[b].fiber] = None
      BY <2>1, <2>3, <2>4, PendingTarget DEF Kept
    <3>8. \A q \in Resumables : fiber'[q] # None /\ function'[fiber'[q]] = None => Ended(q, fiber[q])'
      BY <2>1, <3>1 DEF Kept
    <3>9. \A q \in Resumables : ~done'[q] => value'[q] = None /\ threw'[q] = None
      BY <3>1 DEF Kept
    <3>10. Kept'
      BY <3>6, <3>7, <3>8, <3>9 DEF Kept
    <3>11. Reported'
      <4>1. c.r # None
        BY <2>1, ConstantsAssumption
      <4>2. QED
        <5>1. SUFFICES ASSUME NEW q \in Resumables
                       PROVE  /\ value'[q] # None => value'[q] = q /\ outcome'[q] = "value"
                              /\ threw'[q] # None => threw'[q] = q /\ outcome'[q] = "error"
                              /\ done'[q] =>
                                   \/ outcome'[q] = "value" /\ value'[q] = q
                                   \/ outcome'[q] = "error" /\ threw'[q] = q
                                   \/ outcome'[q] = "aborted" /\ value'[q] = None /\ threw'[q] = None
          BY DEF Reported
        <5>2. CASE q = c.r
          BY <2>1, <3>1, <3>3, <4>1, <5>2
        <5>3. CASE q # c.r
          <6>1. /\ done'[q] = done[q] /\ value'[q] = value[q] /\ threw'[q] = threw[q]
                /\ outcome'[q] = outcome[q]
            BY <2>1, <3>1, <5>3
          <6>2. QED BY <6>1 DEF Reported
        <5>4. QED BY <5>2, <5>3
    <3>12. QED BY <3>10, <3>11
  <2>6. CASE ~(exception[c.fiber] # None \/ state[c.fiber] = "Idle")
    <3>1. UNCHANGED <<done, fiber, value, threw, state>>
      BY <1>5, <2>6 DEF ReturnFromRun
    <3>2. Kept'
      BY <2>1, <2>3, <2>4, <3>1 DEF Kept
    <3>3. QED
      BY <2>1, <3>1, <3>2 DEF Reported
  <2>7. QED BY <2>5, <2>6
<1>6. ASSUME NEW a \in Actors, ReturnFromAbort(a)
      PROVE  Kept' /\ Reported'
  <2> DEFINE c == pending[a]
  <2>1. /\ c # NoCall /\ c.fiber \in Fibers /\ c.r \in Resumables /\ c.op = "abort"
        /\ UNCHANGED <<function, result, exception, outcome, state, fiber, threw>>
        /\ pending' = [pending EXCEPT ![a] = NoCall]
        /\ state[c.fiber] = "Idle"
    BY <1>6, ReturnFacts, PendingTarget DEF ReturnFromAbort, Returned, fiberVars, CallStates
  <2>2. /\ \A q \in Resumables : done'[q] = IF q = c.r THEN TRUE ELSE done[q]
        /\ \A q \in Resumables : value'[q] = IF q = c.r THEN None ELSE value[q]
    BY <1>6 DEF ReturnFromAbort, TypeOK
  <2>3. \A b \in Actors \ {a} : pending'[b] = pending[b]
    BY <2>1 DEF TypeOK
  <2>4. pending'[a].op = "none" /\ pending'[a] = NoCall
    BY <2>1 DEF NoCall, TypeOK
  <2>5. fiber[c.r] = c.fiber /\ ~done[c.r] /\ outcome[c.r] \in {"none", "aborted"}
    BY <2>1 DEF Owned, Kept
  <2>6. function[c.fiber] = None
    BY <2>1 DEF Kept
  <2>7. outcome[c.r] = "aborted" /\ threw[c.r] = None
    <3>1. Ended(c.r, c.fiber)
      BY <2>1, <2>5, <2>6, ConstantsAssumption DEF Kept
    <3>2. QED BY <2>1, <2>5, <3>1 DEF Kept
  <2>8. \A b \in Actors \ {a} : pending[b].op \in {"run", "abort"} =>
           pending[b].r \in Resumables \ {c.r}
    BY <2>1, <2>5, PendingTarget DEF Owned, NoCall
  <2>9. Kept'
    <3>1. ASSUME NEW q \in Resumables, ~done'[q]
          PROVE  value'[q] = None /\ threw'[q] = None
      <4>1. q # c.r
        BY <2>1, <2>2, <3>1
      <4>2. ~done[q] /\ value'[q] = value[q] /\ threw' = threw
        BY <2>1, <2>2, <3>1, <4>1
      <4>3. QED BY <4>2 DEF Kept
    <3>2. \A q \in Resumables : fiber'[q] # None /\ function'[fiber'[q]] = None => Ended(q, fiber[q])'
      BY <2>1 DEF Kept
    <3>3. ASSUME NEW b \in Actors, pending'[b].op \in {"run", "abort"}
          PROVE  /\ ~done'[pending'[b].r]
                 /\ outcome'[pending'[b].r] \in
                      IF pending'[b].op = "run" THEN {"none", "value", "error"} ELSE {"none", "aborted"}
      <4>1. b \in Actors \ {a} /\ pending'[b] = pending[b]
        BY <2>3, <2>4, <3>3
      <4>2. pending[b].r \in Resumables \ {c.r}
        BY <2>8, <3>3, <4>1
      <4>3. ~done'[pending[b].r]
        BY <2>2, <3>3, <4>1, <4>2 DEF Kept
      <4>4. QED
        BY <2>1, <3>3, <4>1, <4>3 DEF Kept
    <3>4. \A b \in Actors : pending'[b] # NoCall /\ state'[pending'[b].fiber] = "Idle" =>
             function'[pending'[b].fiber] = None
      BY <2>1, <2>3, <2>4 DEF Kept
    <3>5. QED
      BY <3>1, <3>2, <3>3, <3>4 DEF Kept
  <2>10. Reported'
    <3>1. SUFFICES ASSUME NEW q \in Resumables
                   PROVE  /\ value'[q] # None => value'[q] = q /\ outcome'[q] = "value"
                          /\ threw'[q] # None => threw'[q] = q /\ outcome'[q] = "error"
                          /\ done'[q] =>
                               \/ outcome'[q] = "value" /\ value'[q] = q
                               \/ outcome'[q] = "error" /\ threw'[q] = q
                               \/ outcome'[q] = "aborted" /\ value'[q] = None /\ threw'[q] = None
      BY DEF Reported
    <3>2. CASE q = c.r
      BY <2>1, <2>2, <2>7, <3>2
    <3>3. CASE q # c.r
      BY <2>1, <2>2, <3>3 DEF Reported
    <3>4. QED BY <3>2, <3>3
  <2>11. QED BY <2>9, <2>10
<1>7. ASSUME NEW a \in Actors,
             ReturnFromDestroy(a) \/ (\E r \in Resumables : DestroyInactive(a, r)) \/ PrimeCache(a)
      PROVE  Kept' /\ Reported'
  <2>1. UNCHANGED <<function, result, exception, outcome, done, value, threw>>
    BY <1>7 DEF ReturnFromDestroy, DestroyInactive, PrimeCache, resumableVars
  <2>2. \A b \in Actors : pending'[b] = pending[b] \/ pending'[b] = NoCall
    BY <1>7, ReturnFacts, QuietFacts DEF TypeOK
  <2>3. \A b \in Actors : pending[b] # NoCall /\ pending'[b] # NoCall =>
           \/ state'[pending[b].fiber] = state[pending[b].fiber]
           \/ state'[pending[b].fiber] = "Deleted"
    BY <1>7, ReturnFacts, QuietFacts, PendingTarget
  <2>4. \A q \in Resumables : fiber'[q] = fiber[q] \/ fiber'[q] = None
    BY <1>7 DEF ReturnFromDestroy, DestroyInactive, PrimeCache, resumableVars, TypeOK
  <2>5. Kept'
    BY <2>1, <2>2, <2>3, <2>4 DEF Kept, NoCall
  <2>6. QED
    BY <2>1, <2>5 DEF Reported
<1>8. QED
  BY <1>1, <1>2, <1>3, <1>4, <1>5, <1>6, <1>7 DEF Next, Operation, Payload

\* The inductive invariant for what callers are told.
Told == IInv /\ Bound /\ Kept /\ Reported

\* It holds initially,
LEMMA InitTold == Init => Told
<1> SUFFICES ASSUME Init PROVE Told
  OBVIOUS
<1>1. IInv
  BY InitIInv
<1>2. \A a \in Actors : pending[a] = NoCall /\ NoCall.op = "none"
  BY DEF Init, NoCall
<1>3. Bound /\ Kept /\ Reported
  BY <1>2 DEF Init, Bound, Kept, Reported, Active
<1>4. QED BY <1>1, <1>3 DEF Told

\* and every step preserves it.
LEMMA NextTold == Told /\ [Next]_vars => Told'
<1>1. ASSUME Told, Next
      PROVE  Told'
  BY <1>1, NextIInv, BoundStep, KeptStep DEF Told, IInv
<1>2. ASSUME Told, UNCHANGED vars
      PROVE  Told'
  <2>1. IInv'
    BY <1>2, NextIInv DEF Told
  <2>2. /\ UNCHANGED <<state, function, result, exception, phase, fiber, done>>
        /\ UNCHANGED <<value, threw, outcome, pending>>
    BY <1>2 DEF vars, fiberVars, contextVars, stackVars, resumableVars
  <2>3. Bound'
    BY <1>2, <2>2 DEF Told, Bound
  <2>4. Kept'
    BY <1>2, <2>2 DEF Told, Kept
  <2>5. Reported'
    BY <1>2, <2>2 DEF Told, Reported
  <2>6. QED BY <2>1, <2>3, <2>4, <2>5 DEF Told
<1>3. QED BY <1>1, <1>2

\* A call reports the outcome of the function it was made for.
THEOREM OutcomesAreOwn == Spec => []OwnOutcome
<1>1. Told => OwnOutcome
  BY DEF Told, Reported, OwnOutcome
<1>2. QED
  BY <1>1, InitTold, NextTold, PTL DEF Spec

\* A step changes nothing for a Resumable that is done: no call can be in
\* progress for it.
LEMMA FinalStep == Told /\ [Next]_vars => \A r \in Resumables : done[r] => done'[r] /\ value'[r] = value[r]
<1> SUFFICES ASSUME Told, [Next]_vars, NEW r \in Resumables, done[r]
             PROVE  done'[r] /\ value'[r] = value[r]
  OBVIOUS
<1>1. \A a \in Actors : pending[a].op \in {"run", "abort"} => pending[a].r \in Resumables \ {r}
  BY PendingTarget DEF Told, IInv, Kept, NoCall
<1>2. CASE \E a \in Actors : ReturnFromRun(a) \/ ReturnFromAbort(a)
  BY <1>1, <1>2 DEF ReturnFromRun, ReturnFromAbort, Returned, Told, IInv, TypeOK
<1>3. CASE ~\E a \in Actors : ReturnFromRun(a) \/ ReturnFromAbort(a)
  <2>1. UNCHANGED <<done, value>>
    BY <1>3 DEF Next, Operation, Payload, Construct, Run, Resume, Abort, DestroySuspended,
       DestroyInactive, PrimeCache, ReturnFromDestroy, Yield, Finish, vars, resumableVars
  <2>2. QED BY <2>1
<1>4. QED BY <1>2, <1>3

\* A Resumable that completed stays completed, with the value it had.
THEOREM DoneStaysDone == Spec => DoneIsFinal
<1>1. Told /\ [Next]_vars => [\A r \in Resumables : done[r] => done'[r] /\ value'[r] = value[r]]_vars
  BY FinalStep
<1>2. QED
  BY <1>1, InitTold, NextTold, PTL DEF Spec, DoneIsFinal
----------------------------------------------------------------------------
(* The statistics *)

\* The fibers that exist, those not entered yet, and those entered.
Alive   == {f \in Fibers : state[f] # "Deleted"}
Fresher == {f \in Fibers : state[f] = "Init"}
Started == {f \in Fibers : frames[f] # None}

\* The counters count: what exists, and what has been entered or still may be.
Counted ==
  /\ \A f \in Fibers : frames[f] = None <=> state[f] \in {"Deleted", "Init"}
  /\ IsFiniteSet(Alive)
  /\ stats.current = Cardinality(Alive)
  /\ stats.cached = Len(cache)
  /\ stats.current <= stats.max /\ stats.max <= stats.total
  /\ Cardinality(Started) <= stats.initialized
  /\ stats.initialized + Cardinality(Fresher) <= stats.total

\* The sets of fibers that Counted is about are finite.
LEMMA CountedFinite ==
  ASSUME TypeOK, Counted
  PROVE  /\ IsFiniteSet(Alive) /\ IsFiniteSet(Fresher) /\ IsFiniteSet(Started)
         /\ Cardinality(Alive) \in Nat /\ Cardinality(Fresher) \in Nat /\ Cardinality(Started) \in Nat
<1>1. IsFiniteSet(Alive) /\ Fresher \subseteq Alive /\ Started \subseteq Alive
  BY DEF Counted, Alive, Fresher, Started
<1>2. IsFiniteSet(Fresher) /\ IsFiniteSet(Started)
  BY <1>1, FS_Subset
<1>3. QED
  BY <1>1, <1>2, FS_CardinalityType

\* A step that leaves fibers and the cache's length alone leaves them counted.
LEMMA CountedSame ==
  ASSUME Counted, stats' = stats, Len(cache') = Len(cache),
         \A f \in Fibers : /\ state'[f] = "Deleted" <=> state[f] = "Deleted"
                           /\ state'[f] = "Init" <=> state[f] = "Init"
                           /\ frames'[f] = None <=> frames[f] = None
  PROVE  Counted'
<1>1. Alive' = Alive /\ Fresher' = Fresher /\ Started' = Started
  BY DEF Alive, Fresher, Started
<1>2. \A f \in Fibers : frames'[f] = None <=> state'[f] \in {"Deleted", "Init"}
  BY DEF Counted
<1>3. QED
  BY <1>1, <1>2 DEF Counted

\* Removing an element from a finite set does not make it larger.
LEMMA RemovalShrinks ==
  ASSUME NEW S, NEW x, IsFiniteSet(S)
  PROVE  Cardinality(S \ {x}) \in Nat /\ Cardinality(S \ {x}) <= Cardinality(S)
<1>1. IsFiniteSet(S \ {x}) /\ Cardinality(S) \in Nat
  BY FS_RemoveElement, FS_CardinalityType
<1>2. Cardinality(S \ {x}) \in Nat
  BY <1>1, FS_CardinalityType
<1>3. CASE x \in S
  <2>1. Cardinality(S \ {x}) = Cardinality(S) - 1
    BY <1>3, FS_RemoveElement
  <2>2. QED BY <1>1, <1>2, <2>1
<1>4. CASE x \notin S
  <2>1. S \ {x} = S
    BY <1>4
  <2>2. QED BY <1>1, <2>1
<1>5. QED BY <1>3, <1>4

\* A fiber that is recycled or deleted stays counted.
LEMMA ReleaseCounted ==
  ASSUME TypeOK, Counted, NEW f \in Fibers, Release(f), state[f] # "Deleted"
  PROVE  Counted'
<1>1. CASE Len(cache) < CacheSize
  <2>1. /\ Len(cache') = Len(cache) + 1
        /\ stats' = [stats EXCEPT !.cached = @ + 1]
        /\ UNCHANGED <<state, frames>>
    BY <1>1 DEF Release, TypeOK
  <2>2. Alive' = Alive /\ Fresher' = Fresher /\ Started' = Started
    BY <2>1 DEF Alive, Fresher, Started
  <2>3. QED
    BY <2>1, <2>2 DEF Counted, TypeOK, Statistics
<1>2. CASE ~(Len(cache) < CacheSize)
  <2>1. /\ stats' = [stats EXCEPT !.current = @ - 1]
        /\ cache' = cache
        /\ \A g \in Fibers : state'[g] = IF g = f THEN "Deleted" ELSE state[g]
        /\ \A g \in Fibers : frames'[g] = IF g = f THEN None ELSE frames[g]
    BY <1>2 DEF Release, TypeOK
  <2>2. Alive' = Alive \ {f} /\ Fresher' = Fresher \ {f} /\ Started' = Started \ {f}
    BY <2>1 DEF Alive, Fresher, Started
  <2>3. f \in Alive
    BY DEF Alive
  <2>4. /\ IsFiniteSet(Alive') /\ Cardinality(Alive') = Cardinality(Alive) - 1
    BY <2>2, <2>3, CountedFinite, FS_RemoveElement
  <2>5. Cardinality(Fresher') <= Cardinality(Fresher) /\ Cardinality(Fresher') \in Nat
    BY <2>2, CountedFinite, RemovalShrinks
  <2>6. Cardinality(Started') <= Cardinality(Started) /\ Cardinality(Started') \in Nat
    BY <2>2, CountedFinite, RemovalShrinks
  <2>7. /\ stats'.current = stats.current - 1 /\ stats'.cached = stats.cached
        /\ stats'.max = stats.max /\ stats'.total = stats.total
        /\ stats'.initialized = stats.initialized
        /\ stats.current \in Int /\ stats.max \in Int /\ stats.total \in Int /\ stats.initialized \in Int
    BY <2>1 DEF TypeOK, Statistics
  <2>8. \A g \in Fibers : frames'[g] = None <=> state'[g] \in {"Deleted", "Init"}
    BY <2>1 DEF Counted
  <2>9. QED
    BY <2>1, <2>4, <2>5, <2>6, <2>7, <2>8, CountedFinite DEF Counted
<1>3. QED BY <1>1, <1>2

\* So does one that is entered.
LEMMA EnterCounted ==
  ASSUME TypeOK, Counted, NEW a \in Actors, NEW f \in Fibers, NEW s \in Active,
         Enter(a, f, s), state[f] # "Deleted", cache' = cache
  PROVE  Counted'
<1>1. /\ \A g \in Fibers : state'[g] = IF g = f THEN s ELSE state[g]
      /\ \A g \in Fibers \ {f} : frames'[g] = frames[g]
      /\ frames'[f] = IF frames[f] = None THEN Fresh(f) ELSE frames[f]
      /\ stats' = IF state[f] = "Init" THEN [stats EXCEPT !.initialized = @ + 1] ELSE stats
  BY DEF Enter, TypeOK
<1>2. frames'[f] # None
  BY <1>1, ConstantsAssumption DEF Fresh
<1>3. s \notin {"Deleted", "Init"}
  BY DEF Active
<1>4. CASE state[f] = "Init"
  <2>1. Alive' = Alive /\ Fresher' = Fresher \ {f} /\ Started' = Started \cup {f}
    BY <1>1, <1>2, <1>3, <1>4 DEF Alive, Fresher, Started
  <2>2. f \in Fresher /\ f \notin Started
    BY <1>4 DEF Fresher, Started, Counted
  <2>3. Cardinality(Fresher') = Cardinality(Fresher) - 1
    BY <2>1, <2>2, CountedFinite, FS_RemoveElement
  <2>4. Cardinality(Started') = Cardinality(Started) + 1
    BY <2>1, <2>2, CountedFinite, FS_AddElement
  <2>5. /\ stats'.current = stats.current /\ stats'.cached = stats.cached
        /\ stats'.max = stats.max /\ stats'.total = stats.total
        /\ stats'.initialized = stats.initialized + 1
        /\ stats.total \in Int /\ stats.initialized \in Int
    BY <1>1, <1>4 DEF TypeOK, Statistics
  <2>6. \A g \in Fibers : frames'[g] = None <=> state'[g] \in {"Deleted", "Init"}
    BY <1>1, <1>2, <1>3 DEF Counted
  <2>7. QED
    BY <2>1, <2>3, <2>4, <2>5, <2>6, CountedFinite DEF Counted
<1>5. CASE state[f] # "Init"
  <2>1. frames[f] # None
    BY <1>5 DEF Counted
  <2>2. QED
    BY <1>1, <1>2, <1>3, <1>5, <2>1, CountedSame
<1>6. QED BY <1>4, <1>5

\* Sets that share nothing add up.
LEMMA DisjointUnion ==
  ASSUME NEW S, NEW T, IsFiniteSet(S), IsFiniteSet(T), S \cap T = {}
  PROVE  IsFiniteSet(S \cup T) /\ Cardinality(S \cup T) = Cardinality(S) + Cardinality(T)
<1>1. Cardinality(S \cap T) = 0
  BY FS_EmptySet
<1>2. /\ IsFiniteSet(S \cup T)
      /\ Cardinality(S \cup T) = Cardinality(S) + Cardinality(T) - Cardinality(S \cap T)
  BY FS_Union
<1>3. Cardinality(S) \in Nat /\ Cardinality(T) \in Nat
  BY FS_CardinalityType
<1>4. QED BY <1>1, <1>2, <1>3

\* New fibers are counted.
LEMMA NewCounted ==
  ASSUME TypeOK, Counted, NEW n \in Nat, NEW S \in SUBSET Fibers,
         IsFiniteSet(S), Cardinality(S) = n,
         \A f \in S : state[f] = "Deleted",
         \A f \in Fibers : state'[f] = IF f \in S THEN "Init" ELSE state[f],
         frames' = frames,
         /\ stats'.current = Constructed(stats, n).current /\ stats'.max = Constructed(stats, n).max
         /\ stats'.total = Constructed(stats, n).total /\ stats'.initialized = stats.initialized,
         stats'.cached = Len(cache')
  PROVE  Counted'
<1>1. Alive' = Alive \cup S /\ Fresher' = Fresher \cup S /\ Started' = Started
  BY DEF Alive, Fresher, Started
<1>2. Alive \cap S = {} /\ Fresher \cap S = {}
  BY DEF Alive, Fresher
<1>3. IsFiniteSet(Alive') /\ Cardinality(Alive') = Cardinality(Alive) + n
  BY <1>1, <1>2, CountedFinite, DisjointUnion
<1>4. Cardinality(Fresher') = Cardinality(Fresher) + n
  BY <1>1, <1>2, CountedFinite, DisjointUnion
<1>5. /\ stats'.current = stats.current + n /\ stats'.total = stats.total + n
      /\ stats'.max = IF stats.current + n > stats.max THEN stats.current + n ELSE stats.max
      /\ stats.current \in Int /\ stats.max \in Int /\ stats.total \in Int /\ stats.initialized \in Int
  BY DEF Constructed, TypeOK, Statistics
<1>6. \A f \in Fibers : frames'[f] = None <=> state'[f] \in {"Deleted", "Init"}
  BY DEF Counted
<1>7. stats'.current <= stats'.max /\ stats'.max <= stats'.total
  BY <1>5 DEF Counted
<1>8. QED
  BY <1>1, <1>3, <1>4, <1>5, <1>6, <1>7, CountedFinite DEF Counted

\* Counted is preserved by every step.
LEMMA CountedStep ==
  ASSUME IInv, Counted, Next
  PROVE  Counted'
<1>0. TypeOK /\ CallChain /\ Entered /\ Owned /\ Unthrown
  BY DEF IInv
<1>1. ASSUME NEW a \in Actors, NEW r \in Resumables, Construct(a, r)
      PROVE  Counted'
  <2>1. PICK f \in Fibers : Reuse(f) \/ Allocate(f)
    BY <1>1 DEF Construct
  <2>2. frames' = frames
    BY <1>1 DEF Construct, stackVars
  <2>3. CASE Reuse(f)
    <3>1. Len(cache') = Len(cache) - 1
      <4>1. cache \in Seq(Fibers) /\ cache # << >> /\ cache' = [i \in 1..(Len(cache) - 1) |-> cache[i]]
        BY <1>0, <2>3 DEF Reuse, Front, TypeOK
      <4>2. Len(cache) \in Nat \ {0}
        BY <4>1
      <4>3. QED BY <4>1, <4>2
    <3>2. Alive' = Alive /\ Fresher' = Fresher /\ Started' = Started
      BY <2>2, <2>3 DEF Reuse, Alive, Fresher, Started
    <3>3. stats' = [stats EXCEPT !.cached = @ - 1] /\ state' = state
      BY <2>3 DEF Reuse
    <3>4. /\ stats'.current = stats.current /\ stats'.cached = stats.cached - 1
          /\ stats'.max = stats.max /\ stats'.total = stats.total
          /\ stats'.initialized = stats.initialized
      BY <1>0, <3>3 DEF TypeOK, Statistics
    <3>5. QED
      BY <2>2, <3>1, <3>2, <3>3, <3>4 DEF Counted
  <2>4. CASE Allocate(f)
    <3>1. IsFiniteSet({f}) /\ Cardinality({f}) = 1
      BY FS_Singleton
    <3>2. /\ \A g \in {f} : state[g] = "Deleted"
          /\ \A g \in Fibers : state'[g] = IF g \in {f} THEN "Init" ELSE state[g]
          /\ stats' = Constructed(stats, 1) /\ cache' = cache
      BY <1>0, <2>4 DEF Allocate, TypeOK
    <3>3. /\ stats'.cached = Len(cache') /\ stats'.initialized = stats.initialized
      BY <1>0, <3>2 DEF Constructed, TypeOK, Statistics, Counted
    <3>4. QED
      BY <1>0, <2>2, <3>1, <3>2, <3>3, NewCounted
  <2>5. QED BY <2>1, <2>3, <2>4
<1>2. ASSUME NEW a \in Actors, NEW r \in Resumables,
             Run(a, r) \/ Resume(a, r) \/ Abort(a, r) \/ DestroySuspended(a, r)
      PROVE  Counted'
  <2>1. /\ fiber[r] \in Fibers /\ cache' = cache
        /\ \E s \in Active : Enter(a, fiber[r], s)
        /\ state[fiber[r]] # "Deleted"
    BY <1>0, <1>2 DEF Run, Resume, Abort, DestroySuspended, TypeOK, Active
  <2>2. QED
    BY <1>0, <2>1, EnterCounted
<1>3. ASSUME NEW f \in Fibers,
             Yield(f) \/ \E how \in {"value", "error", "aborted"} : Finish(f, how)
      PROVE  Counted'
  <2>1. state[f] \in Active /\ frames[f] \in Frames /\ None \notin Frames
    BY <1>0, <1>3, ConstantsAssumption DEF Yield, Finish, Active, Entered, TypeOK, Frames
  <2>2. /\ \A g \in Fibers \ {f} : state'[g] = state[g] /\ frames'[g] = frames[g]
        /\ state'[f] \in {"Yielded", "Idle"}
        /\ frames'[f] = Grown(frames[f]) \/ frames'[f] = Fresh(f)
        /\ cache' = cache /\ stats' = stats
    BY <1>0, <1>3 DEF Yield, Finish, TypeOK
  <2>3. frames'[f] \in Frames
    BY <2>1, <2>2 DEF Grown, Fresh, Frames
  <2>4. QED
    BY <2>1, <2>2, <2>3, CountedSame DEF Active
<1>4. ASSUME NEW a \in Actors, NEW r \in Resumables, DestroyInactive(a, r)
      PROVE  Counted'
  <2>1. CASE UNCHANGED <<cache, stats, state, saved, frames>>
    BY <2>1, CountedSame
  <2>2. CASE fiber[r] # None /\ state[fiber[r]] \in {"Init", "Idle"} /\ Release(fiber[r])
    BY <1>0, <2>2, ReleaseCounted DEF TypeOK
  <2>3. QED BY <1>4, <2>1, <2>2 DEF DestroyInactive
<1>5. ASSUME NEW a \in Actors,
             ReturnFromRun(a) \/ ReturnFromAbort(a) \/ ReturnFromDestroy(a)
      PROVE  Counted'
  <2>1. CASE UNCHANGED <<cache, stats, state, frames>>
    BY <2>1, CountedSame
  <2>2. CASE Release(pending[a].fiber)
    BY <1>0, <1>5, <2>2, ReturnFacts, ReleaseCounted
  <2>3. QED
    BY <1>5, <2>1, <2>2 DEF ReturnFromRun, ReturnFromAbort, ReturnFromDestroy, fiberVars, stackVars
<1>6. ASSUME NEW a \in Actors, PrimeCache(a)
      PROVE  Counted'
  <2> DEFINE n == CacheSize - Len(cache)
  <2>1. PICK new \in [1..n -> {f \in Fibers : state[f] = "Deleted"}] :
          /\ \A i, j \in 1..n : new[i] = new[j] => i = j
          /\ cache' = new \o cache
          /\ state' = [f \in Fibers |->
                         IF f \in Elements(new) THEN "Init" ELSE state[f]]
          /\ stats' = [Constructed(stats, n) EXCEPT !.cached = CacheSize]
    BY <1>6 DEF PrimeCache
  <2>2. n \in Nat /\ Len(cache) \in Nat /\ cache \in Seq(Fibers) /\ frames' = frames
    BY <1>0, <1>6, ConstantsAssumption DEF PrimeCache, TypeOK, stackVars
  <2>3. new \in Seq(Fibers) /\ Len(new) = n
    <3>1. new \in [1..n -> Fibers]
      BY <2>1
    <3>2. QED BY <2>2, <3>1
  <2>4. Elements(new) = {new[i] : i \in 1..n}
    BY <2>3 DEF Elements
  <2>5. new \in Surjection(1..n, Elements(new)) /\ new \in Injection(1..n, Elements(new))
    <3>1. new \in [1..n -> Elements(new)]
      BY <2>1, <2>4
    <3>2. QED BY <2>1, <2>4, <3>1 DEF Surjection, Injection, IsInjective
  <2>6. IsFiniteSet(1..n) /\ Cardinality(1..n) = n
    BY <2>2, FS_Interval
  <2>7. IsFiniteSet(Elements(new)) /\ Cardinality(Elements(new)) = n
    BY <2>5, <2>6, FS_Surjection
  <2>8. Elements(new) \in SUBSET Fibers /\ \A f \in Elements(new) : state[f] = "Deleted"
    BY <2>1, <2>4
  <2>9. Len(cache') = CacheSize
    BY <2>1, <2>2, <2>3, ConstantsAssumption
  <2>10. /\ stats'.current = Constructed(stats, n).current /\ stats'.max = Constructed(stats, n).max
         /\ stats'.total = Constructed(stats, n).total /\ stats'.initialized = stats.initialized
         /\ stats'.cached = CacheSize
    BY <2>1 DEF Constructed
  <2>11. \A f \in Fibers : state'[f] = IF f \in Elements(new) THEN "Init" ELSE state[f]
    BY <2>1
  <2>12. QED
    BY <1>0, <2>2, <2>7, <2>8, <2>9, <2>10, <2>11, NewCounted
<1>7. QED
  BY <1>1, <1>2, <1>3, <1>4, <1>5, <1>6 DEF Next, Operation, Payload

\* The counters agree with the fibers there are (Fiber::statistics()).
THEOREM CountersAgree == Spec => []Accounting
<1>1. Init => Counted
  <2> SUFFICES ASSUME Init PROVE Counted
    OBVIOUS
  <2>1. Alive = {} /\ Fresher = {} /\ Started = {}
    BY DEF Init, Alive, Fresher, Started
  <2>2. IsFiniteSet({}) /\ Cardinality({}) = 0
    BY FS_EmptySet
  <2>3. QED BY <2>1, <2>2 DEF Init, Counted
<1>2. IInv /\ Counted /\ [Next]_vars => Counted'
  <2>1. CASE Next
    BY <2>1, CountedStep
  <2>2. ASSUME Counted, UNCHANGED vars PROVE Counted'
    BY <2>2, CountedSame DEF vars, fiberVars, contextVars, stackVars
  <2>3. QED BY <2>1, <2>2
<1>3. IInv /\ Counted => Accounting
  <2> SUFFICES ASSUME IInv, Counted PROVE Accounting
    OBVIOUS
  <2>1. TypeOK
    BY DEF IInv
  <2>2. stats.initialized <= stats.total
    BY <2>1, CountedFinite DEF Counted, TypeOK, Statistics
  <2>3. QED
    BY <2>1, <2>2 DEF Counted, Accounting, StatsAgree, Alive, Started
<1>4. QED
  BY <1>1, <1>2, <1>3, Invariance, PTL DEF Spec
============================================================================
