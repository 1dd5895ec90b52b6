------------------------------ MODULE Filters ------------------------------
(***************************************************************************)
(* A unit that parses the output of a chain of filters, and the waits      *)
(* through which everybody shares one thread (filter.h, parser.cc).        *)
(*                                                                         *)
(* Stream 0 is the host's input, stream f the output of filter f.  Process *)
(* p reads stream p - 1; the unit is process N + 1.  Every process is a    *)
(* fiber.  The host resumes the unit, the unit resumes its filters one     *)
(* after the other, and who waits for input gives control back.  So the    *)
(* unit executes while no filter does, and the host while the unit waits.  *)
(*                                                                         *)
(* What a parser does with its input is left open: it may consume,         *)
(* forward, signal end-of-data, wait, complete or fail at any point.       *)
(* Data is counted, not represented.  Filters have no filters themselves,  *)
(* and a parser's view is not limited to a prefix of its stream.           *)
(***************************************************************************)
EXTENDS Integers

CONSTANTS
    N,           \* number of filters connected to the unit
    MaxInput,    \* bound: bytes the host supplies
    MaxForward   \* bound: bytes a filter forwards at a time

ASSUME NAssumption == N \in Nat \ {0}
ASSUME BoundsAssumption == MaxInput \in Nat /\ MaxForward \in Nat

Filter == 1 .. N
Unit == N + 1
Process == 1 .. N + 1
Stream == 0 .. N

VARIABLES
    size,       \* stream -> number of bytes appended so far
    frozen,     \* stream -> end-of-data was signaled
    consumed,   \* process -> number of bytes it is done with
    awaited,    \* process -> bytes it had when it began waiting ("old")
    pc,         \* process -> where it is, see PC
    at,         \* next filter of the unit's loop in init() or flush()
    sub,        \* has the unit parsed its sub-unit: bound of one per run
    recovered,  \* history: the unit has caught an error that a filter raised
    misuse      \* history: a filter without a fiber was resumed

vars == <<size, frozen, consumed, awaited, pc, at, sub, recovered, misuse>>

\* new      not started
\* run      parsing
\* check    in a wait, resumed: is there anything new?
\* wait     suspended in a wait
\* done     completed, failed or aborted
\* and the unit only:
\* init     starting its filters
\* flush    in a wait, resumed: resuming its filters
\* raised   in flush, with an exception that a filter raised
PC == {"new", "run", "check", "wait", "done", "init", "flush", "raised"}

TypeOK ==
    /\ size \in [Stream -> Nat]
    /\ frozen \in [Stream -> BOOLEAN]
    /\ consumed \in [Process -> Nat]
    /\ awaited \in [Process -> Nat]
    /\ pc \in [Process -> PC]
    /\ \A f \in Filter : pc[f] \notin {"init", "flush", "raised"}
    /\ \A p \in Process : consumed[p] <= size[p - 1]
    /\ at \in 1 .. N + 1
    /\ sub \in {"before", "inside", "after"}
    /\ recovered \in BOOLEAN
    /\ misuse \in BOOLEAN

\* cur.size(): what a process has in its view.
Avail(p) == size[p - 1] - consumed[p]

FiltersIdle == \A f \in Filter : pc[f] \notin {"run", "check"}

\* Control is with the process, at one of the given places.
IsAt(p, places) == pc[p] \in places /\ (p = Unit => FiltersIdle)

Init ==
    /\ size = [i \in Stream |-> 0]
    /\ frozen = [i \in Stream |-> FALSE]
    /\ consumed = [p \in Process |-> 0]
    /\ awaited = [p \in Process |-> 0]
    /\ pc = [p \in Process |-> "new"]
    /\ at = 1
    /\ sub = "before"
    /\ recovered = FALSE
    /\ misuse = FALSE

(***************************************************************************)
(* The host                                                                *)
(***************************************************************************)

\* The driver appends k bytes, freezes the stream at end-of-data, and starts
\* or resumes the unit, which starts or resumes its filters.  But a wait inside
\* of a sub-unit goes by that sub-unit's own list of filters, which is empty.
Feed(k, eod) ==
    /\ pc[Unit] \in {"new", "wait"}
    /\ ~frozen[0]
    /\ size[0] + k <= MaxInput
    /\ k > 0 \/ eod
    /\ size' = [size EXCEPT ![0] = @ + k]
    /\ frozen' = [frozen EXCEPT ![0] = eod]
    /\ IF sub = "inside"
       THEN /\ pc' = [pc EXCEPT ![Unit] = "check"]
            /\ UNCHANGED at
       ELSE /\ pc' = [pc EXCEPT ![Unit] = IF @ = "new" THEN "init" ELSE "flush"]
            /\ at' = 1
    /\ UNCHANGED <<consumed, awaited, sub, recovered, misuse>>

(***************************************************************************)
(* The unit and its filters                                                *)
(***************************************************************************)

\* filter::init() starts the next filter, which runs until it first waits.
StartFilter ==
    /\ IsAt(Unit, {"init"})
    /\ at <= N
    /\ pc' = [pc EXCEPT ![at] = "run"]
    /\ at' = at + 1
    /\ UNCHANGED <<size, frozen, consumed, awaited, sub, recovered, misuse>>

\* init() returns the last filter's output, and the unit parses that.
ParseFiltered ==
    /\ IsAt(Unit, {"init"})
    /\ at = N + 1
    /\ pc' = [pc EXCEPT ![Unit] = "run"]
    /\ UNCHANGED <<size, frozen, consumed, awaited, at, sub, recovered, misuse>>

\* filter::flush() resumes the next filter.
ResumeFilter ==
    /\ IsAt(Unit, {"flush"})
    /\ at <= N
    /\ pc[at] = "wait"
    /\ pc' = [pc EXCEPT ![at] = "check"]
    /\ at' = at + 1
    /\ UNCHANGED <<size, frozen, consumed, awaited, sub, recovered, misuse>>

\* Mutant: the loop ends one filter early.
FlushReturns_Early ==
    /\ IsAt(Unit, {"flush"})
    /\ at = N
    /\ pc' = [pc EXCEPT ![Unit] = "check"]
    /\ at' = N + 1
    /\ UNCHANGED <<size, frozen, consumed, awaited, sub, recovered, misuse>>

FlushReturns ==
    /\ IsAt(Unit, {"flush"})
    /\ at = N + 1
    /\ pc' = [pc EXCEPT ![Unit] = "check"]
    /\ UNCHANGED <<size, frozen, consumed, awaited, at, sub, recovered, misuse>>

\* The unit's parser ends, in success or not: disconnect() aborts the filters
\* that are suspended, and a filter that fails signals end-of-data.
Unit_Ends ==
    /\ pc' = [p \in Process |->
                 IF p = Unit \/ pc[p] = "wait" THEN "done" ELSE pc[p]]
    /\ frozen' = [i \in Stream |-> frozen[i] \/ (i \in Filter /\ pc[i] = "wait")]
    /\ UNCHANGED <<size, consumed, awaited, at, sub, recovered>>

EndUnit ==
    /\ IsAt(Unit, {"run", "raised"})
    /\ Unit_Ends
    /\ UNCHANGED misuse

\* Resuming a Resumable that holds no fiber any longer is a std::logic_error,
\* which no Spicy code can catch.
ResumeCompleted ==
    /\ IsAt(Unit, {"flush"})
    /\ at <= N
    /\ pc[at] # "wait"
    /\ misuse' = TRUE
    /\ Unit_Ends

\* A filter's exception arrives where the unit waits for input; &try and
\* &synchronize catch it there and go on parsing.
Recover ==
    /\ IsAt(Unit, {"raised"})
    /\ pc' = [pc EXCEPT ![Unit] = "run"]
    /\ recovered' = TRUE
    /\ UNCHANGED <<size, frozen, consumed, awaited, at, sub, misuse>>

EnterSub ==
    /\ IsAt(Unit, {"run"})
    /\ sub = "before"
    /\ sub' = "inside"
    /\ UNCHANGED <<size, frozen, consumed, awaited, pc, at, recovered, misuse>>

LeaveSub ==
    /\ IsAt(Unit, {"run"})
    /\ sub = "inside"
    /\ sub' = "after"
    /\ UNCHANGED <<size, frozen, consumed, awaited, pc, at, recovered, misuse>>

(***************************************************************************)
(* Any parser                                                              *)
(***************************************************************************)

\* The parser is out of input, or short of it, and the stream may still grow.
Wait(p) ==
    /\ IsAt(p, {"run"})
    /\ ~frozen[p - 1]
    /\ awaited' = [awaited EXCEPT ![p] = Avail(p)]
    /\ pc' = [pc EXCEPT ![p] = "wait"]
    /\ UNCHANGED <<size, frozen, consumed, at, sub, recovered, misuse>>

\* Mutant: end-of-data that came while the parser was suspended goes unnoticed.
Wake_IgnoresEod(p) ==
    /\ IsAt(p, {"check"})
    /\ pc' = [pc EXCEPT ![p] = IF Avail(p) = awaited[p] THEN "wait" ELSE "run"]
    /\ UNCHANGED <<size, frozen, consumed, awaited, at, sub, recovered, misuse>>

\* Back in waitForInputOrEod(): parsing goes on with new input, or in the
\* knowledge that there will be none; otherwise the wait continues.
Wake(p) ==
    /\ IsAt(p, {"check"})
    /\ pc' = [pc EXCEPT ![p] =
                 IF Avail(p) = awaited[p] /\ ~frozen[p - 1] THEN "wait" ELSE "run"]
    /\ UNCHANGED <<size, frozen, consumed, awaited, at, sub, recovered, misuse>>

\* unit.forward(); appending to a frozen stream is an error, see Fail.
Forward(f, k) ==
    /\ k > 0 => ~frozen[f]
    /\ size' = [size EXCEPT ![f] = @ + k]

\* Mutant: the filter does not ask whether there is input.
Filter_Parse_Unchecked(f, k) ==
    /\ IsAt(f, {"run"})
    /\ consumed' = [consumed EXCEPT ![f] = @ + 1]
    /\ Forward(f, k)
    /\ UNCHANGED <<frozen, awaited, pc, at, sub, recovered, misuse>>

\* A filter consumes a byte, and forwards what it makes of it.
Filter_Parse(f, k) ==
    /\ IsAt(f, {"run"})
    /\ Avail(f) > 0
    /\ consumed' = [consumed EXCEPT ![f] = @ + 1]
    /\ Forward(f, k)
    /\ UNCHANGED <<frozen, awaited, pc, at, sub, recovered, misuse>>

Unit_Parse ==
    /\ IsAt(Unit, {"run"})
    /\ Avail(Unit) > 0
    /\ consumed' = [consumed EXCEPT ![Unit] = @ + 1]
    /\ UNCHANGED <<size, frozen, awaited, pc, at, sub, recovered, misuse>>

\* unit.forward_eod(), which the filter may call long before it completes.
ForwardEod(f) ==
    /\ IsAt(f, {"run"})
    /\ ~frozen[f]
    /\ frozen' = [frozen EXCEPT ![f] = TRUE]
    /\ UNCHANGED <<size, consumed, awaited, pc, at, sub, recovered, misuse>>

\* Mutant: a filter that completes does not signal end-of-data.
Finish_NoEod(f, k) ==
    /\ IsAt(f, {"run"})
    /\ Forward(f, k)
    /\ pc' = [pc EXCEPT ![f] = "done"]
    /\ UNCHANGED <<frozen, consumed, awaited, at, sub, recovered, misuse>>

\* The filter completes; its %done hook may forward what it had held back.
Finish(f, k) ==
    /\ IsAt(f, {"run"})
    /\ Forward(f, k)
    /\ frozen' = [frozen EXCEPT ![f] = TRUE]
    /\ pc' = [pc EXCEPT ![f] = "done"]
    /\ UNCHANGED <<consumed, awaited, at, sub, recovered, misuse>>

\* The filter fails: it signals end-of-data all the same, and the exception
\* goes to the unit.  Before the unit has begun parsing nothing catches it.
Fail(f) ==
    /\ IsAt(f, {"run"})
    /\ IF pc[Unit] = "flush"
       THEN /\ frozen' = [frozen EXCEPT ![f] = TRUE]
            /\ pc' = [pc EXCEPT ![f] = "done", ![Unit] = "raised"]
       ELSE /\ frozen' = [i \in Stream |->
                             frozen[i] \/ (i \in Filter /\ pc[i] \in {"run", "wait"})]
            /\ pc' = [p \in Process |->
                         IF p = Unit \/ pc[p] \in {"run", "wait"} THEN "done" ELSE pc[p]]
    /\ UNCHANGED <<size, consumed, awaited, at, sub, recovered, misuse>>

UnitStep ==
    \/ StartFilter
    \/ ParseFiltered
    \/ ResumeFilter
    \/ FlushReturns
    \/ EndUnit
    \/ ResumeCompleted
    \/ Recover
    \/ EnterSub
    \/ LeaveSub
    \/ Unit_Parse

FilterStep(f) ==
    \/ \E k \in 0 .. MaxForward : Filter_Parse(f, k)
    \/ ForwardEod(f)
    \/ \E k \in 0 .. MaxForward : Finish(f, k)
    \/ Fail(f)

ParserStep ==
    \/ UnitStep
    \/ \E f \in Filter : FilterStep(f)
    \/ \E p \in Process : Wait(p) \/ Wake(p)

Next ==
    \/ \E k \in 0 .. MaxInput, eod \in BOOLEAN : Feed(k, eod)
    \/ ParserStep

Spec == Init /\ [][Next]_vars

\* Parsers do not compute forever; the host may stop at any time.
FairSpec == Spec /\ WF_vars(ParserStep)

(***************************************************************************)
(* Properties                                                              *)
(***************************************************************************)

\* flush() resumes every filter of the list without asking whether it is
\* still suspended.  That is safe as long as no error was caught: whenever a
\* filter has completed, end-of-data has travelled down the chain in the same
\* round, and the unit does not wait again.
FlushIsSafe == misuse => recovered

\* Once the host has signaled end-of-data, the unit does not come back asking
\* for more, which the driver takes for an internal error (driver.cc:343):
\* one round of resuming carries it through the whole chain.  The exceptions
\* are a wait inside of a sub-unit and a chain one of whose filters failed.
NeverYieldsAtEod ==
    pc[Unit] = "wait" /\ frozen[0] => sub = "inside" \/ recovered

\* No wake-up is lost: when the host gets control back, every filter waits
\* for input that has not arrived yet, and so does the unit.
NothingPending ==
    pc[Unit] = "wait" /\ sub # "inside" /\ ~recovered =>
        \A p \in Process :
            pc[p] = "wait" /\ ~frozen[p - 1] /\ Avail(p) = awaited[p]

\* The chain is well formed and no completed filter is resumed.
ChainIsSafe == TypeOK /\ FlushIsSafe

\* Neither a wake-up nor the end of the input is lost.
NothingIsLost == NothingPending /\ NeverYieldsAtEod

\* A unit that has been given all of its input ends, whatever its filters do:
\* nobody in the chain waits for somebody who waits in turn.  A chain in which
\* an error was caught, and a wait inside of a sub-unit, may leave it hanging.
UnitEnds ==
    frozen[0] ~> \/ pc[Unit] = "done"
                 \/ pc[Unit] = "wait" /\ (sub = "inside" \/ recovered)

\* The driver's assertion without the exception for sub-units: "this unit
\* will receive everything the filter passes on" (unit.rst:13), and a parser
\* does not yield for the final data chunk (driver.cc:343).
SubUnitsGetFilteredInput ==
    pc[Unit] = "wait" /\ frozen[0] => recovered

(***************************************************************************)
(* The inductive invariant                                                 *)
(***************************************************************************)

\* A filter that has had its turn: it completed and said so downstream, or
\* it waits for input that has not arrived.
Settled(f) ==
    \/ pc[f] = "done" /\ frozen[f]
    \/ pc[f] = "wait" /\ ~frozen[f - 1] /\ Avail(f) = awaited[f]

\* The filters before the loop's position, but for the one executing.
HadTurn == {f \in Filter : f < at /\ pc[f] \notin {"run", "check"}}

\* Only the filter that got control last may be executing.
OneExecutes == \A f \in Filter :
    pc[f] \in {"run", "check"} => f = at - 1 /\ pc[Unit] \in {"init", "flush"}

\* The unit waits inside of its sub-unit, where nobody resumes the filters.
Stuck == sub = "inside" /\ pc[Unit] \in {"wait", "check"}

LoopPosition ==
    /\ pc[Unit] = "new" => at = 1
    /\ pc[Unit] \in {"run", "check", "wait"} => at = N + 1
    /\ sub = "inside" => pc[Unit] \in {"run", "check", "wait", "done"}

\* Filters whose turn is still to come are as the loop found them.
TurnAhead == \A f \in Filter : f >= at =>
    /\ pc[Unit] \in {"new", "init"} => pc[f] = "new" /\ ~frozen[f]
    /\ pc[Unit] = "flush" => pc[f] = "wait" /\ ~frozen[f]

TurnsTaken ==
    pc[Unit] \notin {"raised", "done"} /\ ~Stuck => \A f \in HadTurn : Settled(f)

\* End-of-data has travelled from every stream to all those behind it.  The
\* statement is about pairs, so that it needs no induction along the chain.
EodTravels ==
    pc[Unit] \notin {"raised", "done"} /\ ~Stuck =>
        \A i, j \in {0} \cup HadTurn : i <= j /\ frozen[i] => frozen[j]

\* A unit that waits has seen all of its input, and more may come.
UnitWaits ==
    pc[Unit] = "wait" \/ Stuck => ~frozen[N] /\ Avail(Unit) = awaited[Unit]

Chain == LoopPosition /\ TurnAhead /\ TurnsTaken /\ EodTravels /\ UnitWaits

\* The inductive invariant: nothing is promised once an error was caught.
IInv ==
    /\ TypeOK
    /\ OneExecutes
    /\ FlushIsSafe
    /\ ~recovered => Chain
=============================================================================
