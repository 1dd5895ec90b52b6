--------------------------- MODULE FiltersProofs ---------------------------
(***************************************************************************)
(* Proofs about the chain of filters, for chains of every length.          *)
(*                                                                         *)
(* IInv is inductive.  Its core is that end-of-data travels: of any two    *)
(* streams whose filters have had their turn, the later one is frozen if   *)
(* the earlier one is.  A unit that waits has an unfrozen last stream, so  *)
(* no stream is frozen, so no filter has completed: all of them can be     *)
(* resumed, and the round that end-of-data starts reaches the unit.        *)
(***************************************************************************)
EXTENDS Filters, TLAPS

\* Processes, filters and streams are numbers, and there is a filter.
LEMMA Numbers ==
    /\ N \in Nat /\ N >= 1 /\ MaxInput \in Nat /\ MaxForward \in Nat
    /\ Unit \in Process /\ Unit \notin Filter
    /\ \A f \in Filter : f \in Process /\ f \in Stream /\ f - 1 \in Stream /\ f # Unit
    /\ \A p \in Process : p - 1 \in Stream /\ p \in Nat
    /\ 0 \in Stream /\ 0 \notin Filter /\ N \in Stream /\ N \in Filter
  BY NAssumption, BoundsAssumption DEF Unit, Process, Filter, Stream

\* The invariant holds before anybody has started.
LEMMA InvInit == Init => IInv
  <1> SUFFICES ASSUME Init PROVE IInv
    OBVIOUS
  <1>1. TypeOK
    <2>1. \A p \in Process : consumed[p] <= size[p - 1]
      BY Numbers DEF Init
    <2>2. \A f \in Filter : pc[f] \notin {"init", "flush", "raised"}
      BY Numbers DEF Init
    <2>3. at \in 1 .. N + 1
      BY Numbers DEF Init
    <2> QED
      BY <2>1, <2>2, <2>3 DEF Init, TypeOK, PC
  <1>2. OneExecutes /\ FlushIsSafe
    BY Numbers DEF Init, OneExecutes, FlushIsSafe
  <1>3. LoopPosition /\ TurnAhead
    BY Numbers DEF Init, LoopPosition, TurnAhead
  <1>4. HadTurn = {}
    BY Numbers DEF Init, HadTurn, Filter
  <1>5. TurnsTaken /\ EodTravels
    BY <1>4, Numbers DEF Init, TurnsTaken, EodTravels
  <1>6. UnitWaits
    BY Numbers DEF Init, UnitWaits, Stuck
  <1> QED
    BY <1>1, <1>2, <1>3, <1>5, <1>6 DEF IInv, Chain

\* The parts of TypeOK that relate variables.
Places == \A f \in Filter : pc[f] \notin {"init", "flush", "raised"}
Bounds == \A p \in Process : consumed[p] <= size[p - 1]

\* Every step leaves the state well typed.
LEMMA TypeStep == TypeOK /\ [Next]_vars => TypeOK'
  <1> SUFFICES ASSUME TypeOK, [Next]_vars PROVE TypeOK'
    OBVIOUS
  <1> USE Numbers
  <1>1. ASSUME NEW k \in 0 .. MaxInput, NEW eod \in BOOLEAN, Feed(k, eod) PROVE TypeOK'
    <2>1. size' \in [Stream -> Nat] /\ pc' \in [Process -> PC]
      BY <1>1 DEF Feed, TypeOK, PC
    <2>2. Places'
      BY <1>1 DEF Feed, TypeOK, Places
    <2>3. Bounds'
      BY <1>1 DEF Feed, TypeOK, Bounds
    <2>4. at' \in 1 .. N + 1
      BY <1>1 DEF Feed, TypeOK
    <2> QED
      BY <1>1, <2>1, <2>2, <2>3, <2>4 DEF Feed, TypeOK, Places, Bounds
  <1>2. CASE StartFilter \/ ResumeFilter
    <2>1. at \in Filter /\ at' \in 1 .. N + 1
      BY <1>2 DEF StartFilter, ResumeFilter, TypeOK, Filter
    <2>2. Places' /\ pc' \in [Process -> PC]
      BY <1>2, <2>1 DEF StartFilter, ResumeFilter, TypeOK, Places, PC
    <2> QED
      BY <1>2, <2>1, <2>2 DEF StartFilter, ResumeFilter, TypeOK, Places
  <1>3. CASE ParseFiltered \/ FlushReturns \/ Recover
    BY <1>3 DEF ParseFiltered, FlushReturns, Recover, IsAt, TypeOK, PC
  <1>4. CASE EndUnit \/ ResumeCompleted
    <2>1. frozen' \in [Stream -> BOOLEAN] /\ pc' \in [Process -> PC] /\ misuse' \in BOOLEAN
      BY <1>4 DEF EndUnit, ResumeCompleted, Unit_Ends, TypeOK, PC
    <2>2. Places'
      BY <1>4 DEF EndUnit, ResumeCompleted, Unit_Ends, TypeOK, Places
    <2> QED
      BY <1>4, <2>1, <2>2 DEF EndUnit, ResumeCompleted, Unit_Ends, TypeOK, Places
  <1>5. CASE EnterSub \/ LeaveSub
    BY <1>5 DEF EnterSub, LeaveSub, IsAt, TypeOK
  <1>6. CASE Unit_Parse
    <2>1. Bounds' /\ consumed' \in [Process -> Nat]
      BY <1>6 DEF Unit_Parse, Avail, TypeOK, Bounds
    <2> QED
      BY <1>6, <2>1 DEF Unit_Parse, TypeOK, Bounds
  <1>7. ASSUME NEW f \in Filter, NEW k \in 0 .. MaxForward, Filter_Parse(f, k)
        PROVE  TypeOK'
    <2>1. consumed' \in [Process -> Nat] /\ size' \in [Stream -> Nat]
      BY <1>7 DEF Filter_Parse, Forward, TypeOK
    <2>2. Bounds'
      BY <1>7 DEF Filter_Parse, Forward, Avail, TypeOK, Bounds
    <2> QED
      BY <1>7, <2>1, <2>2 DEF Filter_Parse, TypeOK, Bounds
  <1>8. ASSUME NEW f \in Filter, ForwardEod(f) PROVE TypeOK'
    BY <1>8 DEF ForwardEod, IsAt, TypeOK
  <1>9. ASSUME NEW f \in Filter, NEW k \in 0 .. MaxForward, Finish(f, k) PROVE TypeOK'
    <2>1. size' \in [Stream -> Nat] /\ pc' \in [Process -> PC] /\ frozen' \in [Stream -> BOOLEAN]
      BY <1>9 DEF Finish, Forward, TypeOK, PC
    <2>2. Bounds'
      BY <1>9 DEF Finish, Forward, TypeOK, Bounds
    <2>3. Places'
      BY <1>9 DEF Finish, TypeOK, Places
    <2> QED
      BY <1>9, <2>1, <2>2, <2>3 DEF Finish, TypeOK, Bounds, Places
  <1>10. ASSUME NEW f \in Filter, Fail(f) PROVE TypeOK'
    <2>1. CASE pc[Unit] = "flush"
      BY <1>10, <2>1 DEF Fail, IsAt, TypeOK, PC
    <2>2. CASE pc[Unit] # "flush"
      BY <1>10, <2>2 DEF Fail, IsAt, TypeOK, PC
    <2> QED BY <2>1, <2>2
  <1>11. ASSUME NEW p \in Process, Wait(p) \/ Wake(p) PROVE TypeOK'
    <2>1. Avail(p) \in Nat
      BY DEF Avail, TypeOK
    <2>2. pc' \in [Process -> PC] /\ awaited' \in [Process -> Nat]
      BY <1>11, <2>1 DEF Wait, Wake, TypeOK, PC
    <2>3. Places'
      BY <1>11 DEF Wait, Wake, TypeOK, Places
    <2> QED
      BY <1>11, <2>2, <2>3 DEF Wait, Wake, TypeOK, Places
  <1>12. CASE UNCHANGED vars
    BY <1>12 DEF vars, TypeOK
  <1> QED
    BY <1>1, <1>2, <1>3, <1>4, <1>5, <1>6, <1>7, <1>8, <1>9, <1>10, <1>11, <1>12
       DEF Next, ParserStep, UnitStep, FilterStep

\* Who executes is whom the unit's loop gave control to last.
LEMMA OneExecutesStep == TypeOK /\ OneExecutes /\ [Next]_vars => OneExecutes'
  <1> SUFFICES ASSUME TypeOK, OneExecutes, [Next]_vars PROVE OneExecutes'
    OBVIOUS
  <1> USE Numbers DEF OneExecutes, TypeOK
  <1>1. ASSUME NEW k \in 0 .. MaxInput, NEW eod \in BOOLEAN, Feed(k, eod) PROVE OneExecutes'
    BY <1>1 DEF Feed
  <1>2. CASE StartFilter \/ ResumeFilter
    <2>1. at \in Filter
      BY <1>2 DEF StartFilter, ResumeFilter, Filter
    <2> QED
      BY <1>2, <2>1 DEF StartFilter, ResumeFilter, IsAt, FiltersIdle
  <1>3. CASE ParseFiltered \/ FlushReturns \/ Recover
    BY <1>3 DEF ParseFiltered, FlushReturns, Recover, IsAt, FiltersIdle
  <1>4. CASE EndUnit \/ ResumeCompleted
    BY <1>4 DEF EndUnit, ResumeCompleted, Unit_Ends, IsAt, FiltersIdle
  <1>5. CASE EnterSub \/ LeaveSub \/ Unit_Parse
    BY <1>5 DEF EnterSub, LeaveSub, Unit_Parse
  <1>6. ASSUME NEW f \in Filter, NEW k \in 0 .. MaxForward,
               Filter_Parse(f, k) \/ ForwardEod(f)
        PROVE  OneExecutes'
    BY <1>6 DEF Filter_Parse, ForwardEod
  <1>7. ASSUME NEW f \in Filter, NEW k \in 0 .. MaxForward, Finish(f, k) PROVE OneExecutes'
    BY <1>7 DEF Finish
  <1>8. ASSUME NEW f \in Filter, Fail(f) PROVE OneExecutes'
    BY <1>8 DEF Fail, IsAt
  <1>9. ASSUME NEW p \in Process, Wait(p) \/ Wake(p) PROVE OneExecutes'
    <2>1. CASE p = Unit
      BY <1>9, <2>1 DEF Wait, Wake, IsAt, FiltersIdle
    <2>2. CASE p # Unit
      BY <1>9, <2>2 DEF Wait, Wake, IsAt
    <2> QED BY <2>1, <2>2
  <1>10. CASE UNCHANGED vars
    BY <1>10 DEF vars
  <1> QED
    BY <1>1, <1>2, <1>3, <1>4, <1>5, <1>6, <1>7, <1>8, <1>9, <1>10
       DEF Next, ParserStep, UnitStep, FilterStep

\* While no error was caught, every filter the loop comes to is suspended.
LEMMA FlushStep == IInv /\ [Next]_vars => FlushIsSafe'
  <1> SUFFICES ASSUME IInv, [Next]_vars PROVE FlushIsSafe'
    OBVIOUS
  <1> USE DEF FlushIsSafe
  <1>1. CASE ResumeCompleted
    <2>1. at \in Filter
      BY <1>1, Numbers DEF ResumeCompleted, Filter, IInv, TypeOK
    <2>2. recovered
      BY <1>1, <2>1, Numbers DEF ResumeCompleted, IsAt, IInv, Chain, TurnAhead, TypeOK
    <2> QED
      BY <1>1, <2>2 DEF ResumeCompleted, Unit_Ends
  <1>2. CASE UNCHANGED vars
    BY <1>2 DEF IInv, vars
  <1>3. CASE StartFilter \/ ResumeFilter \/ Unit_Parse
    BY <1>3 DEF IInv, StartFilter, ResumeFilter, Unit_Parse
  <1>7. CASE ParseFiltered \/ FlushReturns \/ EnterSub \/ LeaveSub
    BY <1>7 DEF IInv, ParseFiltered, FlushReturns, EnterSub, LeaveSub
  <1>8. CASE EndUnit \/ Recover
    BY <1>8 DEF IInv, EndUnit, Unit_Ends, Recover
  <1>4. ASSUME NEW f \in Filter, FilterStep(f) PROVE FlushIsSafe'
    BY <1>4 DEF IInv, FilterStep, Filter_Parse, ForwardEod, Finish, Fail
  <1>5. ASSUME NEW p \in Process, Wait(p) \/ Wake(p) PROVE FlushIsSafe'
    BY <1>5 DEF IInv, Wait, Wake
  <1>6. ASSUME NEW k \in 0 .. MaxInput, NEW eod \in BOOLEAN, Feed(k, eod) PROVE FlushIsSafe'
    BY <1>6 DEF IInv, Feed
  <1> QED
    BY <1>1, <1>2, <1>3, <1>4, <1>5, <1>6, <1>7, <1>8
       DEF Next, ParserStep, UnitStep

\* An error that was caught is not forgotten.
LEMMA RecoveredStays == TypeOK /\ [Next]_vars /\ ~recovered' => ~recovered
  <1> SUFFICES ASSUME TypeOK, [Next]_vars, ~recovered' PROVE ~recovered
    OBVIOUS
  <1>1. CASE UnitStep
    BY <1>1 DEF UnitStep, StartFilter, ParseFiltered, ResumeFilter, FlushReturns, EndUnit,
                ResumeCompleted, Unit_Ends, Recover, EnterSub, LeaveSub, Unit_Parse
  <1>2. ASSUME NEW f \in Filter, FilterStep(f) PROVE ~recovered
    BY <1>2 DEF FilterStep, Filter_Parse, ForwardEod, Finish, Fail
  <1>3. ASSUME NEW p \in Process, Wait(p) \/ Wake(p) PROVE ~recovered
    BY <1>3 DEF Wait, Wake
  <1>4. ASSUME NEW k \in 0 .. MaxInput, NEW eod \in BOOLEAN, Feed(k, eod) PROVE ~recovered
    BY <1>4 DEF Feed
  <1>5. CASE UNCHANGED vars
    BY <1>5 DEF vars
  <1> QED
    BY <1>1, <1>2, <1>3, <1>4, <1>5 DEF Next, ParserStep

\* While the unit waits outside of its sub-unit, no stream is frozen but the
\* host's may become so, and every filter waits for input yet to come.
LEMMA AllWait ==
  ASSUME TypeOK, OneExecutes, Chain, pc[Unit] = "wait", ~Stuck
  PROVE  /\ \A i \in Stream : ~frozen[i]
         /\ \A f \in Filter : pc[f] = "wait" /\ Avail(f) = awaited[f]
  <1> USE Numbers DEF TypeOK
  <1>1. at = N + 1 /\ ~frozen[N]
    BY DEF Chain, LoopPosition, UnitWaits
  <1>2. HadTurn = Filter
    BY <1>1 DEF HadTurn, OneExecutes, Filter
  <1>3. \A i \in Stream : i <= N /\ i \in {0} \cup HadTurn
    BY <1>2 DEF Stream, Filter
  <1>4. \A i \in Stream : ~frozen[i]
    BY <1>1, <1>2, <1>3 DEF Chain, EodTravels
  <1>5. \A f \in Filter : Settled(f)
    BY <1>2 DEF Chain, TurnsTaken
  <1> QED
    BY <1>4, <1>5 DEF Settled

\* The host resumes the unit: a new round begins, and all filters are ahead.
LEMMA ChainFeed ==
  ASSUME TypeOK, OneExecutes, Chain,
         NEW k \in 0 .. MaxInput, NEW eod \in BOOLEAN, Feed(k, eod)
  PROVE  Chain'
  <1> USE Numbers DEF TypeOK
  <1>1. CASE sub = "inside"
    <2>1. pc[Unit] = "wait" /\ pc' = [pc EXCEPT ![Unit] = "check"] /\ UNCHANGED <<at, sub>>
      BY <1>1 DEF Feed, Chain, LoopPosition
    <2>2. Stuck /\ Stuck'
      BY <1>1, <2>1 DEF Stuck
    <2>3. ~frozen'[N] /\ Avail(Unit)' = awaited'[Unit]
      BY <2>2 DEF Feed, Chain, UnitWaits, Avail, Unit
    <2>4. LoopPosition' /\ TurnAhead'
      BY <1>1, <2>1 DEF Chain, LoopPosition, TurnAhead, Filter
    <2> QED
      BY <2>2, <2>3, <2>4 DEF Chain, TurnsTaken, EodTravels, UnitWaits
  <1>2. CASE sub # "inside" /\ pc[Unit] = "new"
    <2>1. at = 1 /\ at' = 1 /\ pc' = [pc EXCEPT ![Unit] = "init"] /\ UNCHANGED sub
      BY <1>2 DEF Feed, Chain, LoopPosition
    <2>2. HadTurn' = {} /\ ~Stuck'
      BY <1>2, <2>1 DEF HadTurn, Filter, Stuck
    <2>3. TurnAhead'
      BY <1>2, <2>1 DEF Chain, TurnAhead, Feed
    <2> QED
      BY <1>2, <2>1, <2>2, <2>3 DEF Chain, LoopPosition, TurnsTaken, EodTravels, UnitWaits
  <1>3. CASE sub # "inside" /\ pc[Unit] = "wait"
    <2>1. at' = 1 /\ pc' = [pc EXCEPT ![Unit] = "flush"] /\ UNCHANGED sub
      BY <1>3 DEF Feed
    <2>2. HadTurn' = {} /\ ~Stuck'
      BY <1>3, <2>1 DEF HadTurn, Filter, Stuck
    <2>3. TurnAhead'
      BY <1>3, <2>1, AllWait DEF TurnAhead, Feed, Stuck
    <2> QED
      BY <1>3, <2>1, <2>2, <2>3 DEF Chain, LoopPosition, TurnsTaken, EodTravels, UnitWaits
  <1> QED
    BY <1>1, <1>2, <1>3 DEF Feed

\* The unit's loop passes control to the next filter.
LEMMA ChainLoop ==
  ASSUME TypeOK, OneExecutes, Chain, StartFilter \/ ResumeFilter
  PROVE  Chain'
  <1> USE Numbers DEF TypeOK
  <1>1. /\ at \in Filter /\ at' = at + 1
        /\ pc[Unit] \in {"init", "flush"} /\ pc'[Unit] = pc[Unit]
        /\ pc'[at] \in {"run", "check"}
        /\ \A f \in Filter : f # at => pc'[f] = pc[f]
        /\ UNCHANGED <<size, frozen, consumed, awaited, sub>>
    BY DEF StartFilter, ResumeFilter, IsAt, Filter
  <1>2. HadTurn' = HadTurn
    BY <1>1 DEF HadTurn, StartFilter, ResumeFilter, IsAt, FiltersIdle, Filter
  <1>3. ~Stuck /\ ~Stuck'
    BY <1>1 DEF Stuck
  <1>4. LoopPosition'
    BY <1>1 DEF Chain, LoopPosition
  <1>5. TurnAhead'
    BY <1>1 DEF Chain, TurnAhead, Filter
  <1>6. TurnsTaken'
    BY <1>1, <1>2, <1>3 DEF Chain, TurnsTaken, Settled, Avail, HadTurn
  <1>7. EodTravels'
    BY <1>1, <1>2, <1>3 DEF Chain, EodTravels
  <1> QED
    BY <1>1, <1>3, <1>4, <1>5, <1>6, <1>7 DEF Chain, UnitWaits

\* The loop is over, and the unit goes on.
LEMMA ChainLoopEnds ==
  ASSUME TypeOK, OneExecutes, Chain, ParseFiltered \/ FlushReturns
  PROVE  Chain'
  <1> USE Numbers DEF TypeOK
  <1>1. /\ at = N + 1 /\ pc[Unit] \in {"init", "flush"} /\ pc'[Unit] \in {"run", "check"}
        /\ \A f \in Filter : pc'[f] = pc[f]
        /\ UNCHANGED <<size, frozen, consumed, awaited, at, sub>>
    BY DEF ParseFiltered, FlushReturns, IsAt
  <1>2. HadTurn' = HadTurn
    BY <1>1 DEF HadTurn
  <1>3. ~Stuck /\ ~Stuck' /\ sub # "inside"
    BY <1>1 DEF Stuck, Chain, LoopPosition
  <1>4. LoopPosition' /\ TurnAhead'
    BY <1>1, <1>3 DEF Chain, LoopPosition, TurnAhead, Filter
  <1>5. TurnsTaken'
    BY <1>1, <1>2, <1>3 DEF Chain, TurnsTaken, Settled, Avail, HadTurn
  <1>6. EodTravels'
    BY <1>1, <1>2, <1>3 DEF Chain, EodTravels
  <1> QED
    BY <1>1, <1>3, <1>4, <1>5, <1>6 DEF Chain, UnitWaits

\* A unit that has ended, or that an error is passing through, promises no
\* more than that its loop's position makes sense.
LEMMA ChainEnds ==
  ASSUME TypeOK, OneExecutes, Chain, UNCHANGED at, TypeOK',
         pc'[Unit] \in {"done", "raised"}, UNCHANGED sub,
         pc'[Unit] = "raised" => sub # "inside"
  PROVE  Chain'
  BY Numbers DEF Chain, LoopPosition, TurnAhead, TurnsTaken, EodTravels, UnitWaits, Stuck

\* The unit parses on, whatever its filters have left for it.
LEMMA ChainParse ==
  ASSUME TypeOK, OneExecutes, Chain, Unit_Parse \/ EnterSub \/ LeaveSub
  PROVE  Chain'
  <1> USE Numbers DEF TypeOK
  <1>1. /\ pc[Unit] = "run" /\ at = N + 1
        /\ \A f \in Filter : consumed'[f] = consumed[f]
        /\ UNCHANGED <<size, frozen, awaited, pc, at>>
    BY DEF Unit_Parse, EnterSub, LeaveSub, IsAt, Chain, LoopPosition
  <1>2. HadTurn' = HadTurn /\ ~Stuck /\ ~Stuck'
    BY <1>1 DEF HadTurn, Stuck
  <1>3. LoopPosition' /\ TurnAhead'
    BY <1>1 DEF Chain, LoopPosition, TurnAhead, Filter
  <1>4. TurnsTaken'
    BY <1>1, <1>2 DEF Chain, TurnsTaken, Settled, Avail, HadTurn
  <1>5. EodTravels'
    BY <1>1, <1>2 DEF Chain, EodTravels
  <1> QED
    BY <1>1, <1>2, <1>3, <1>4, <1>5 DEF Chain, UnitWaits

\* The unit begins to wait, or goes on waiting, or has been given something.
LEMMA ChainUnitWaits ==
  ASSUME TypeOK, OneExecutes, Chain, Wait(Unit) \/ Wake(Unit)
  PROVE  Chain'
  <1> USE Numbers DEF TypeOK
  <1>1. /\ pc[Unit] \in {"run", "check"} /\ at = N + 1
        /\ \A f \in Filter : pc'[f] = pc[f] /\ awaited'[f] = awaited[f]
        /\ UNCHANGED <<size, frozen, consumed, at, sub>>
        /\ pc'[Unit] \in {"run", "wait"}
    BY DEF Wait, Wake, IsAt, Chain, LoopPosition
  <1>2. HadTurn' = HadTurn
    BY <1>1 DEF HadTurn
  <1>3. Stuck => Stuck'
    <2>1. CASE Stuck
      <3>1. pc[Unit] = "check" /\ Avail(Unit) = awaited[Unit] /\ ~frozen[N]
        BY <2>1, <1>1 DEF Stuck, Chain, UnitWaits
      <3>2. pc'[Unit] = "wait"
        BY <3>1 DEF Wait, Wake, IsAt, Unit
      <3> QED
        BY <1>1, <2>1, <3>2 DEF Stuck
    <2> QED
      BY <2>1
  <1>4. LoopPosition' /\ TurnAhead'
    BY <1>1 DEF Chain, LoopPosition, TurnAhead, Filter
  <1>5. TurnsTaken'
    BY <1>1, <1>2, <1>3 DEF Chain, TurnsTaken, Settled, Avail, HadTurn
  <1>6. EodTravels'
    BY <1>1, <1>2, <1>3 DEF Chain, EodTravels
  <1>7. UnitWaits'
    BY <1>1 DEF UnitWaits, Stuck, Wait, Wake, Avail, Unit
  <1> QED
    BY <1>4, <1>5, <1>6, <1>7 DEF Chain

\* What is known while a filter executes: it is the one before the loop's
\* position, and the unit is not stuck.
LEMMA Executing ==
  ASSUME TypeOK, OneExecutes, Chain, NEW f \in Filter, pc[f] \in {"run", "check"}
  PROVE  /\ at = f + 1 /\ pc[Unit] \in {"init", "flush"} /\ ~Stuck /\ sub # "inside"
         /\ \A g \in Filter : g >= at => g > f
         /\ \A g \in HadTurn : g \in Filter /\ g < f
         /\ f - 1 \in {0} \cup HadTurn
  <1> USE Numbers DEF TypeOK
  <1>1. at = f + 1 /\ pc[Unit] \in {"init", "flush"}
    BY DEF OneExecutes, Filter
  <1>2. ~Stuck /\ sub # "inside"
    BY <1>1 DEF Stuck, Chain, LoopPosition
  <1>3. \A g \in HadTurn : g \in Filter /\ g < f
    BY <1>1 DEF HadTurn, Filter
  <1>4. f - 1 \in {0} \cup HadTurn
    <2>1. CASE f = 1
      BY <2>1
    <2>2. CASE f # 1
      <3>1. f - 1 \in Filter /\ f - 1 < at /\ f - 1 # at - 1
        BY <1>1, <2>2 DEF Filter
      <3> QED
        BY <3>1 DEF HadTurn, OneExecutes
    <2> QED BY <2>1, <2>2
  <1> QED
    BY <1>1, <1>2, <1>3, <1>4 DEF Filter

\* A filter at work disturbs nobody who had a turn, and nobody whose turn is
\* to come: it touches only its own position, its own output and that
\* stream's end-of-data.
LEMMA ChainWork ==
  ASSUME TypeOK, OneExecutes, Chain, NEW f \in Filter, pc[f] \in {"run", "check"},
         UNCHANGED <<at, sub>>,
         \A p \in Process : p # f =>
             pc'[p] = pc[p] /\ consumed'[p] = consumed[p] /\ awaited'[p] = awaited[p],
         \A i \in Stream : i # f => size'[i] = size[i] /\ frozen'[i] = frozen[i],
         pc'[f] \in {"run", "check"} \/ Settled(f)',
         pc'[f] \notin {"run", "check"} /\ frozen[f - 1] => frozen'[f]
  PROVE  Chain'
  <1> USE Numbers DEF TypeOK
  <1>1. /\ at = f + 1 /\ at' = f + 1 /\ pc[Unit] \in {"init", "flush"}
        /\ pc'[Unit] = pc[Unit] /\ ~Stuck /\ ~Stuck'
        /\ \A g \in Filter : g >= at => g > f
        /\ \A g \in HadTurn : g \in Filter /\ g < f
        /\ f - 1 \in {0} \cup HadTurn
    BY Executing DEF Stuck
  <1>2. HadTurn' = IF pc'[f] \in {"run", "check"} THEN HadTurn ELSE HadTurn \cup {f}
    BY <1>1 DEF HadTurn, Filter
  <1>3. LoopPosition'
    BY <1>1 DEF Chain, LoopPosition
  <1>4. TurnAhead'
    BY <1>1 DEF Chain, TurnAhead
  <1>5. \A g \in HadTurn : Settled(g)'
    <2> SUFFICES ASSUME NEW g \in HadTurn PROVE Settled(g)'
      OBVIOUS
    <2>1. g \in Filter /\ g # f /\ g - 1 # f /\ g - 1 \in Stream /\ g \in Stream
      BY <1>1 DEF Filter
    <2>2. Settled(g)
      BY <1>1 DEF Chain, TurnsTaken
    <2> QED
      BY <2>1, <2>2 DEF Settled, Avail
  <1>6. TurnsTaken'
    BY <1>2, <1>5 DEF TurnsTaken
  <1>7. \A i \in {0} \cup HadTurn : i \in Stream /\ i < f /\ frozen'[i] = frozen[i]
    <2>1. f >= 1
      BY DEF Filter
    <2>2. 0 < f /\ 0 # f
      BY <2>1
    <2> QED
      BY <1>1, <2>2
  <1>8. EodTravels'
    <2>1. \A i, j \in {0} \cup HadTurn : i <= j /\ frozen'[i] => frozen'[j]
      BY <1>1, <1>7 DEF Chain, EodTravels
    <2>2. CASE pc'[f] \in {"run", "check"}
      BY <2>1, <2>2, <1>2 DEF EodTravels
    <2>3. CASE pc'[f] \notin {"run", "check"}
      <3>1. \A i \in {0} \cup HadTurn : frozen'[i] => frozen[f - 1]
        BY <1>1, <1>7 DEF Chain, EodTravels, Filter
      <3>2. \A i \in {0} \cup HadTurn : frozen'[i] => frozen'[f]
        BY <3>1, <2>3
      <3> QED
        BY <2>1, <2>3, <3>2, <1>2, <1>7 DEF EodTravels
    <2> QED BY <2>2, <2>3
  <1> QED
    BY <1>1, <1>3, <1>4, <1>6, <1>8 DEF Chain, UnitWaits

\* The chain's invariant is preserved while no error was caught.
LEMMA ChainStep ==
  ASSUME TypeOK, OneExecutes, Chain, TypeOK', [Next]_vars, ~recovered'
  PROVE  Chain'
  <1> USE Numbers DEF TypeOK
  <1>1. ASSUME NEW k \in 0 .. MaxInput, NEW eod \in BOOLEAN, Feed(k, eod) PROVE Chain'
    BY <1>1, ChainFeed
  <1>2. CASE StartFilter \/ ResumeFilter
    BY <1>2, ChainLoop
  <1>3. CASE ParseFiltered \/ FlushReturns
    BY <1>3, ChainLoopEnds
  <1>4. CASE EndUnit \/ ResumeCompleted
    BY <1>4, ChainEnds DEF EndUnit, ResumeCompleted, Unit_Ends
  <1>5. CASE Recover
    BY <1>5 DEF Recover
  <1>6. CASE Unit_Parse \/ EnterSub \/ LeaveSub
    BY <1>6, ChainParse
  <1>7. ASSUME NEW f \in Filter, NEW k \in 0 .. MaxForward, Filter_Parse(f, k) PROVE Chain'
    BY <1>7, ChainWork DEF Filter_Parse, Forward, IsAt
  <1>8. ASSUME NEW f \in Filter, ForwardEod(f) PROVE Chain'
    BY <1>8, ChainWork DEF ForwardEod, IsAt
  <1>9. ASSUME NEW f \in Filter, NEW k \in 0 .. MaxForward, Finish(f, k) PROVE Chain'
    <2>1. pc'[f] = "done" /\ frozen'[f] /\ Settled(f)'
      BY <1>9 DEF Finish, Settled
    <2> QED
      BY <1>9, <2>1, ChainWork DEF Finish, Forward, IsAt
  <1>10. ASSUME NEW f \in Filter, Fail(f) PROVE Chain'
    <2>1. pc'[Unit] \in {"done", "raised"} /\ UNCHANGED <<at, sub>>
      BY <1>10 DEF Fail
    <2>2. sub # "inside"
      BY <1>10, Executing DEF Fail, IsAt
    <2> QED
      BY <2>1, <2>2, ChainEnds
  <1>11. CASE Wait(Unit) \/ Wake(Unit)
    BY <1>11, ChainUnitWaits
  <1>12. ASSUME NEW f \in Filter, Wait(f) \/ Wake(f) PROVE Chain'
    <2>1. pc[f] \in {"run", "check"}
      BY <1>12 DEF Wait, Wake, IsAt
    <2>2. pc'[f] \in {"run", "check"} \/ (Settled(f)' /\ ~frozen[f - 1])
      <3>1. CASE Wait(f)
        BY <3>1 DEF Wait, Settled, Avail
      <3>2. CASE Wake(f) /\ Avail(f) = awaited[f] /\ ~frozen[f - 1]
        <4>1. pc'[f] = "wait" /\ UNCHANGED <<size, frozen, consumed, awaited>>
          BY <3>2 DEF Wake
        <4> QED
          BY <3>2, <4>1 DEF Settled, Avail
      <3>3. CASE Wake(f) /\ ~(Avail(f) = awaited[f] /\ ~frozen[f - 1])
        <4>1. pc'[f] = "run"
          BY <3>3 DEF Wake
        <4> QED
          BY <4>1
      <3> QED BY <1>12, <3>1, <3>2, <3>3
    <2> QED
      BY <1>12, <2>1, <2>2, ChainWork DEF Wait, Wake, Settled
  <1>13. CASE UNCHANGED vars
    BY <1>13 DEF vars, Chain, LoopPosition, TurnAhead, TurnsTaken, EodTravels, UnitWaits,
                 Stuck, HadTurn, Settled, Avail
  <1>14. \A p \in Process : p = Unit \/ p \in Filter
    BY DEF Process, Filter, Unit
  <1> QED
    BY <1>1, <1>2, <1>3, <1>4, <1>5, <1>6, <1>7, <1>8, <1>9, <1>10, <1>11, <1>12, <1>13, <1>14
       DEF Next, ParserStep, UnitStep, FilterStep

\* IInv is an invariant.
THEOREM Invariant == Spec => []IInv
  <1>1. IInv /\ [Next]_vars => IInv'
    <2> SUFFICES ASSUME IInv, [Next]_vars PROVE IInv'
      OBVIOUS
    <2>1. TypeOK' /\ OneExecutes' /\ FlushIsSafe'
      BY TypeStep, OneExecutesStep, FlushStep DEF IInv
    <2>2. ~recovered' => Chain'
      BY <2>1, ChainStep, RecoveredStays DEF IInv
    <2> QED
      BY <2>1, <2>2 DEF IInv
  <1> QED
    BY InvInit, <1>1, PTL DEF Spec

\* The chain is well typed, however long, and nobody consumes what it was
\* never given.
THEOREM TypeCorrect == Spec => []TypeOK
  BY Invariant, PTL DEF IInv

\* For a chain of any length, flush() never resumes a filter that has
\* completed, unless an error was caught.
THEOREM FlushNeverMisused == Spec => []FlushIsSafe
  BY Invariant, PTL DEF IInv

\* For a chain of any length, no wake-up is lost: when the unit waits, every
\* filter waits for input that has not arrived.
THEOREM NobodyLeftBehind == Spec => []NothingPending
  <1>1. IInv => NothingPending
    <2> SUFFICES ASSUME IInv, pc[Unit] = "wait", sub # "inside", ~recovered,
                        NEW p \in Process
                 PROVE  pc[p] = "wait" /\ ~frozen[p - 1] /\ Avail(p) = awaited[p]
      BY DEF NothingPending
    <2>1. ~Stuck /\ TypeOK /\ OneExecutes /\ Chain
      BY DEF Stuck, IInv
    <2>2. CASE p = Unit
      BY <2>1, <2>2, Numbers DEF Chain, UnitWaits, Unit
    <2>3. CASE p \in Filter
      BY <2>1, <2>3, AllWait, Numbers
    <2>4. p = Unit \/ p \in Filter
      BY Numbers DEF Process, Filter, Unit
    <2> QED BY <2>2, <2>3, <2>4
  <1> QED
    BY Invariant, <1>1, PTL

\* For a chain of any length, one round of resuming carries end-of-data from
\* the host to the unit.
THEOREM EodReachesUnit == Spec => []NeverYieldsAtEod
  <1>1. IInv => NeverYieldsAtEod
    <2> SUFFICES ASSUME IInv, pc[Unit] = "wait", sub # "inside", ~recovered
                 PROVE  ~frozen[0]
      BY DEF NeverYieldsAtEod
    <2> QED
      BY AllWait, Numbers DEF Stuck, IInv
  <1> QED
    BY Invariant, <1>1, PTL

\* For a chain of any length, the chain is well formed and no completed filter
\* is resumed, unless an error was caught.
THEOREM ChainStaysSafe == Spec => []ChainIsSafe
  BY TypeCorrect, FlushNeverMisused, PTL DEF ChainIsSafe

\* For a chain of any length, neither a wake-up nor end-of-data is lost.
THEOREM NothingGetsLost == Spec => []NothingIsLost
  BY NobodyLeftBehind, EodReachesUnit, PTL DEF NothingIsLost

=============================================================================
