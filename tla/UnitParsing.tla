---------------------------- MODULE UnitParsing ----------------------------
(***************************************************************************)
(* The parse functions that the compiler generates for unit types          *)
(* (spicy/toolchain/src/compiler/codegen/parser-builder.cc and             *)
(* parsers/literals.cc): hooks, look-ahead, exceptions, and the recovery   *)
(* from errors with &synchronize, confirm and reject.                      *)
(*                                                                         *)
(* A unit's function is a frame of the stack, and so is the function that  *)
(* parses one of its list fields.  What a frame knows of the input, its    *)
(* look-ahead and its pending error are parameters passed by value that a  *)
(* function returns: if it throws instead, its caller keeps its own.  The  *)
(* stream is shared, so what a callee trimmed is gone.                     *)
(*                                                                         *)
(* A symbol of the input is a token of one byte, a byte that belongs to no *)
(* token, or a byte of a gap.  The host gets to run only while the parser  *)
(* waits for input.  A hook does one of Outcomes; reject is a "fail", and  *)
(* &requires a "fail" of the hook that follows it.                         *)
(***************************************************************************)
EXTENDS Integers, Sequences, FiniteSets

CONSTANTS
  Tokens,    \* the literals of the grammar
  Regexps,   \* those that are regular expressions rather than bytes
  Junk, Gap, \* the other symbols
  Eod,       \* the look-ahead symbol for the end of data
  None,      \* no look-ahead symbol
  Roots,     \* the units that the host may parse
  Fields,    \* a unit's fields, in order
  Sized,     \* units with a &size, and their size
  SyncAt,    \* units with %synchronize-at, and the literal
  SyncAfter, \* units with %synchronize-after, and the literal
  RandomAccess, \* units that disable trimming
  Outcomes,  \* what hooks may do, by hook
  MaxLength  \* bound on the input

\* A field: what it is made of ("token", "byte" or "unit"), and the name of it;
\* whether it is repeated ("once", "count", "list"); how often; which tokens end
\* a list; whether the field, and whether its elements, have &synchronize; &try.
FieldType ==
  [what : {"token", "byte", "unit"}, name : Tokens \cup DOMAIN Fields \cup {None},
   loop : {"once", "count", "list"}, n : Nat, follow : SUBSET Tokens,
   sync : BOOLEAN, elemSync : BOOLEAN, try : BOOLEAN]
Hooks == {"init", "field", "item", "synced", "done", "error", "finally"}
Exceptions == {"fail", "backtrack", "fatal"}
ASSUME GrammarAssumption ==
  /\ \A u \in DOMAIN Fields : Fields[u] \in Seq(FieldType) /\ Fields[u] # <<>>
  /\ \A h \in Hooks : Outcomes[h] \subseteq Exceptions \cup {"nothing", "confirm", "stop"}

VARIABLES
  data,    \* the symbols of the input so far, by offset + 1
  frozen,  \* whether there will be no more
  head,    \* the offset that the stream has been trimmed to
  stack,   \* the frames, the last one running
  exc,     \* the exception being thrown
  result,  \* of the host's call
  broken,  \* the process hangs or aborts
  owed     \* history: an error was caught, and no hook has confirmed since
vars == <<data, frozen, head, stack, exc, result, broken, owed>>
inputVars == <<data, frozen>>

Symbols == Tokens \cup {Junk, Gap}
Open == MaxLength + 3   \* the end of a view that has none

Top == stack[Len(stack)]
Running == result = "running" /\ ~broken
Normal == Running /\ exc = "none"
Is(kind, pc) == Normal /\ Top.kind = kind /\ Top.pc = pc

FieldOf(fr) == Fields[fr.unit][fr.f]
LastField(u) == Len(Fields[u])
\* Fields with the same next synchronisation point form a group.
SyncPoints(u) == {f \in 2 .. LastField(u) : Fields[u][f].sync}
Group(u, f) == Cardinality({s \in SyncPoints(u) : s <= f})
Groups(u) == Cardinality(SyncPoints(u))
\* The synchronisation point where group g begins.
SyncField(u, g) == CHOOSE s \in SyncPoints(u) : Group(u, s) = g

(********************************* The input *******************************)
NoChunks == head >= Len(data)
EndOffset == IF NoChunks THEN head ELSE Len(data)
Size(fr) ==
  IF NoChunks \/ fr.cur > EndOffset THEN 0
  ELSE IF fr.stop >= EndOffset THEN EndOffset - fr.cur
  ELSE IF fr.stop > fr.cur THEN fr.stop - fr.cur ELSE 0
HaveEod(fr) == frozen \/ fr.stop <= EndOffset
AtEod(fr) == Size(fr) = 0 /\ HaveEod(fr)
\* The frame can tell whether there is another byte.
Ready(fr) == Size(fr) > 0 \/ HaveEod(fr)
Current(fr) == data[fr.cur + 1]
Trimmed(fr) == fr.cur < head

\* View::advanceToNextData()
NextData(fr) ==
  LET i == fr.cur + 1
      data_ == {o \in i .. EndOffset - 1 : data[o + 1] # Gap}
  IN  IF i < head \/ i >= EndOffset \/ data[i + 1] # Gap THEN i
      ELSE IF data_ = {} THEN EndOffset
      ELSE CHOOSE o \in data_ : \A p \in data_ : o <= p

\* trimInput(): with a place before the first chunk, Chain::trim() never ends.
Trim(on, o) ==
  IF ~on THEN UNCHANGED <<head, broken>>
  ELSE IF NoChunks \/ o >= head THEN head' = o /\ UNCHANGED broken
  ELSE broken' = TRUE /\ UNCHANGED head

(********************************** Frames *********************************)
\* A frame that a caller at fr makes.  entry is what stage 1 knows of the error.
Frame(kind, u, fr, trim, stop) ==
  [kind |-> kind, unit |-> u, f |-> IF kind = "loop" THEN fr.f ELSE 1,
   pc |-> IF kind = "loop" THEN "test" ELSE "init",
   n |-> IF kind = "loop" THEN FieldOf(fr).n ELSE 0,
   cur |-> fr.cur, stop |-> stop, lah |-> fr.lah, lahEnd |-> fr.lahEnd, err |-> fr.err,
   entry |-> fr.err, trim |-> trim,
   trial |-> {}, back |-> fr.cur, searched |-> fr.cur, begin |-> fr.cur,
   owing |-> FALSE, saved |-> "none", ran |-> {}, syncs |-> [g \in 0 .. Groups(u) |-> -1]]

UnitFrame(u, fr, trim) ==
  Frame("unit", u, fr, trim /\ u \notin RandomAccess,
        IF u \in DOMAIN Sized THEN fr.cur + Sized[u] ELSE fr.stop)

Replace(fr) == stack' = [stack EXCEPT ![Len(stack)] = fr]
Call(caller, callee) ==
  /\ stack' = [stack EXCEPT ![Len(stack)] = caller] \o <<callee>>
  /\ UNCHANGED <<inputVars, head, exc, result, broken, owed>>
Throw(e) == exc' = e /\ UNCHANGED <<inputVars, head, stack, result, broken, owed>>
Go(fr) == Replace(fr) /\ UNCHANGED <<inputVars, head, exc, result, broken, owed>>
\* Move on in the input and trim it.
GoTrim(fr, on) == Replace(fr) /\ Trim(on, fr.cur) /\ UNCHANGED <<inputVars, exc, result, owed>>
Break == broken' = TRUE /\ UNCHANGED <<inputVars, head, stack, exc, result, owed>>

Confirmed(fr, o) == [fr EXCEPT !.err = @ /\ o # "confirm"]
\* A hook between beforeHook() and afterHook(), with e for the pending error.
\* If it throws, the frame does not learn what it did to the error.
RunHook(fr, e, hook, Then(_)) ==
  \E o \in Outcomes[hook] :
    LET after == IF o \in Exceptions THEN fr ELSE Then(o)
    IN  /\ Replace([after EXCEPT !.ran = @ \cup {hook}])
        /\ exc' = IF o \in Exceptions THEN o ELSE "none"
        /\ owed' = (owed /\ ~(e /\ o = "confirm"))
        /\ UNCHANGED <<inputVars, head, result, broken>>

(******************************** Look-ahead *******************************)
FirstOf[u \in DOMAIN Fields] ==
  LET fd == Fields[u][1]
  IN  CASE fd.what = "token" -> {fd.name} [] fd.what = "unit" -> FirstOf[fd.name] [] OTHER -> {}
First(fd) == CASE fd.what = "token" -> {fd.name} [] fd.what = "unit" -> FirstOf[fd.name] [] OTHER -> {}

\* What the look-ahead symbol is after a search for tokens at the current byte:
\* a regular expression that does not match resets it, other literals do not.
Matched(fr, tokens) ==
  IF ~Trimmed(fr) /\ Current(fr) \in tokens
    THEN [fr EXCEPT !.lah = Current(fr), !.lahEnd = fr.cur + 1]
  ELSE IF tokens \cap Regexps # {} THEN [fr EXCEPT !.lah = None, !.lahEnd = fr.cur]
  ELSE fr
\* View::startsWith() with a trimmed view is an internal error.
Aborts(fr, tokens) == Trimmed(fr) /\ Size(fr) > 0 /\ tokens \ Regexps # {}

Consume(fr) == [fr EXCEPT !.lah = None, !.cur = fr.lahEnd]

\* Faulty: a literal that was found by look-ahead is not compared again.
Pending_Unchecked(fr, t) == fr.lah = t
\* The look-ahead symbol is t, and still what follows if it is not a regexp.
Pending(fr, t) ==
  /\ fr.lah = t
  /\ t \in Regexps \/ (fr.lahEnd = fr.cur + 1 /\ ~Trimmed(fr) /\ Current(fr) = t)

\* Parse a literal, or a byte, and go on to pc.
ParseInline(fr, fd, on, pc) ==
  /\ Ready(fr) \/ fr.lah # None
  /\ IF fd.what = "byte"
       THEN IF Size(fr) = 0 \/ Trimmed(fr) \/ Current(fr) = Gap THEN Throw("fail")
            ELSE GoTrim([fr EXCEPT !.cur = @ + 1, !.pc = pc], on)
     ELSE IF fr.lah # None
       THEN IF Pending(fr, fd.name) THEN GoTrim([Consume(fr) EXCEPT !.pc = pc], on)
            ELSE Throw("fail")
     ELSE IF Aborts(fr, {fd.name}) THEN Break
     ELSE IF Size(fr) = 0 \/ Trimmed(fr) \/ Current(fr) # fd.name THEN Throw("fail")
     ELSE GoTrim([fr EXCEPT !.cur = @ + 1, !.pc = pc], on)

(************************** A unit's parse function ************************)
Init ==
  /\ data \in UNION {[1..n -> Symbols] : n \in 0 .. MaxLength}
  /\ frozen = FALSE /\ head = 0
  /\ \E u \in Roots :
       stack = <<UnitFrame(u, [cur |-> 0, stop |-> Open, lah |-> None, lahEnd |-> 0,
                               err |-> FALSE], TRUE)>>
  /\ exc = "none" /\ result = "running" /\ broken = FALSE /\ owed = FALSE

RunInit ==
  /\ Is("unit", "init")
  /\ LET Then(o) == [Confirmed(Top, o) EXCEPT !.pc = "field", !.entry = @ /\ o # "confirm"]
     IN  RunHook(Top, Top.err, "init", Then)

\* A field of the unit: a literal in place, anything else in a function.
ParseField ==
  /\ Is("unit", "field")
  /\ LET fd == FieldOf(Top)
         on == Top.trim /\ ~fd.try
         fr == [Top EXCEPT !.back = Top.cur, !.owing = owed]
         called == [fr EXCEPT !.pc = "called"]
     IN  IF fd.loop # "once"
           THEN Call(called, Frame("loop", Top.unit, fr, on, Top.stop))
         ELSE IF fd.what = "unit" THEN Call(called, UnitFrame(fd.name, fr, on))
         ELSE ParseInline(fr, fd, Top.trim, "hook")

\* Faulty: goes on after the last field.
NextField_PastLast(fr) ==
  [fr EXCEPT !.f = @ + 1, !.pc = IF fr.f + 1 \in SyncPoints(fr.unit) THEN "loop" ELSE "field"]
\* What comes after a field: the next one, a synchronisation point, or the end.
NextField(fr) ==
  IF fr.f = LastField(fr.unit) THEN [fr EXCEPT !.pc = "done"]
  ELSE [fr EXCEPT !.f = @ + 1,
                  !.pc = IF fr.f + 1 \in SyncPoints(fr.unit) THEN "loop" ELSE "field"]
FieldHook ==
  /\ Is("unit", "hook")
  /\ LET Then(o) == NextField(Confirmed(Top, o))
     IN  RunHook(Top, Top.err, "field", Then)

\* finalizeUnit(true), at the innermost end of the loops.
Finalize ==
  /\ Is("unit", "done")
  /\ LET Then(o) == [Confirmed(Top, o) EXCEPT !.pc = "size"]
     IN  RunHook(Top, Top.err, "done", Then)

\* After the loops.
CheckSize ==
  /\ Is("unit", "size")
  /\ IF Top.unit \in DOMAIN Sized /\ Top.cur # Top.begin + Sized[Top.unit]
       THEN Throw("fail") ELSE Go([Top EXCEPT !.pc = "finally"])

\* Faulty: the handler rethrows without running %finally.
RunError_Rethrows ==
  /\ Is("unit", "error")
  /\ \E o \in Outcomes["error"] :
       /\ Replace([Top EXCEPT !.ran = @ \cup {"error"},
                              !.pc = IF o \in Exceptions THEN "error" ELSE "return"])
       /\ exc' = IF o \in Exceptions THEN o ELSE "none"
       /\ UNCHANGED <<inputVars, head, result, broken, owed>>
\* finalizeUnit(false) in the handler of stage 1: a hook without beforeHook(), so
\* that it sees what the last one left, and without afterHook().
RunError ==
  /\ Is("unit", "error")
  /\ \E o \in Outcomes["error"] :
       /\ Replace([Top EXCEPT !.ran = @ \cup {"error"},
                              !.pc = IF o \in Exceptions THEN "error" ELSE "finally"])
       /\ exc' = IF o \in Exceptions THEN o ELSE "none"
       /\ UNCHANGED <<inputVars, head, result, broken, owed>>

\* %finally is in stage 1, which does not see what became of the error since %init.
RunFinally ==
  /\ Is("unit", "finally")
  /\ LET Then(o) == [Top EXCEPT !.pc = "return"]
     IN  RunHook(Top, Top.entry, "finally", Then)

(********************************* Synchronising ***************************)
\* startSynchronize(): an iteration of the loop that begins at field f.
StartSynchronize ==
  /\ Is("unit", "loop")
  /\ LET fr == [Top EXCEPT !.trial = {g \in @ : g < Group(Top.unit, Top.f)}]
     IN  Go([fr EXCEPT !.pc = IF Top.err THEN "search" ELSE "field"])

\* syncProduction(): the properties count only if the field is a unit.
SyncsAt(fr) == fr.kind = "unit" /\ FieldOf(fr).loop = "once" /\ FieldOf(fr).name \in DOMAIN SyncAt
SyncsAfter(fr) ==
  fr.kind = "unit" /\ FieldOf(fr).loop = "once" /\ FieldOf(fr).name \in DOMAIN SyncAfter
SyncTokens(fr) ==
  CASE SyncsAt(fr) -> {SyncAt[FieldOf(fr).name]}
    [] SyncsAfter(fr) -> {SyncAfter[FieldOf(fr).name]}
    [] OTHER -> First(FieldOf(fr))
\* The synchronisation point that a function is at; a list is one.
SyncPoint(fr) == IF fr.kind = "unit" THEN Group(fr.unit, fr.f) ELSE 0

\* Faulty: a list takes the place where its search began.
Found_Anywhere(fr) ==
  IF fr.kind = "unit"
    THEN GoTrim([IF SyncsAfter(fr) THEN Consume(fr) ELSE fr EXCEPT
                   !.pc = "synced", !.trial = @ \cup {SyncPoint(fr)}], fr.trim)
  ELSE Go([fr EXCEPT !.pc = "synced"])
\* syncProductionNext() goes on if the search ended where it began.
Found(fr) ==
  IF fr.kind = "unit"
    THEN GoTrim([IF SyncsAfter(fr) THEN Consume(fr) ELSE fr EXCEPT
                   !.pc = "synced", !.trial = @ \cup {SyncPoint(fr)}], fr.trim)
  ELSE IF fr.cur = fr.searched THEN GoTrim([fr EXCEPT !.cur = NextData(fr)], fr.trim)
  ELSE Go([fr EXCEPT !.pc = "synced"])

\* One round of getLookAhead() in search mode.
Search ==
  /\ Normal /\ Top.pc = "search" /\ Ready(Top)
  /\ LET tokens == SyncTokens(Top)
         fr == Matched(Top, tokens)
         next == GoTrim([fr EXCEPT !.cur = NextData(Top)], Top.trim)
     IN  IF AtEod(Top) THEN Throw("fail")
         ELSE IF Aborts(Top, tokens) THEN Break
         ELSE IF ~Trimmed(Top) /\ Current(Top) = Gap
           THEN GoTrim([Top EXCEPT !.cur = NextData(Top)], Top.trim)
         ELSE IF fr.lah = None THEN next
         ELSE Found(fr)

Synced ==
  /\ Normal /\ Top.pc = "synced"
  /\ LET Then(o) == [Confirmed(Top, o) EXCEPT !.syncs[SyncPoint(Top)] = Top.cur,
                                              !.pc = IF Top.kind = "unit" THEN "field" ELSE "test"]
     IN  RunHook(Top, Top.err, "synced", Then)

(****************************** A list's function **************************)
\* Counter: is there another element to parse?
TestCount ==
  /\ Is("loop", "test") /\ FieldOf(Top).loop = "count"
  /\ IF Top.n = 0 THEN Go([Top EXCEPT !.pc = "return"])
     ELSE Go([Top EXCEPT !.n = @ - 1, !.pc = "element"])

\* While: the look-ahead symbol tells.
TestLookAhead ==
  /\ Is("loop", "test") /\ FieldOf(Top).loop = "list" /\ Ready(Top)
  /\ LET fd == FieldOf(Top)
         tokens == First(fd) \cup fd.follow
         gap == Size(Top) > 0 /\ ~Trimmed(Top) /\ Current(Top) = Gap
         fr == IF Top.lah # None THEN Top
               ELSE IF AtEod(Top) THEN [Top EXCEPT !.lah = Eod]
               ELSE Matched(Top, tokens)
     IN  IF Top.lah = None /\ Aborts(Top, tokens) THEN Break
         ELSE IF Top.lah = None /\ gap THEN Throw("fail")
         ELSE IF fr.lah \in First(fd) THEN Go([fr EXCEPT !.pc = "element", !.begin = fr.cur])
         ELSE IF fr.lah \in fd.follow \/ (fr.lah = Eod /\ fd.follow = {})
           THEN Go([fr EXCEPT !.pc = "return"])
         ELSE /\ Replace(fr) /\ exc' = "fail"
              /\ UNCHANGED <<inputVars, head, result, broken, owed>>

ParseElement ==
  /\ Is("loop", "element")
  /\ LET fd == FieldOf(Top)
     IN  IF fd.what = "unit"
           THEN Call([Top EXCEPT !.pc = "called"], UnitFrame(fd.name, Top, Top.trim))
         ELSE ParseInline(Top, fd, Top.trim, "item")

\* newContainerItem(); a list then has to have moved.
ItemHook ==
  /\ Is("loop", "item")
  /\ LET stuck == FieldOf(Top).loop = "list" /\ Top.cur = Top.begin
         Then(o) == [Confirmed(Top, o) EXCEPT
                       !.pc = IF o = "stop" THEN "return" ELSE IF stuck THEN "stuck" ELSE "test"]
     IN  RunHook(Top, Top.err, "item", Then)
CheckMoved ==
  /\ Is("loop", "stuck") /\ Ready(Top)
  /\ IF AtEod(Top) THEN Go([Top EXCEPT !.pc = "test"]) ELSE Throw("fail")

(**************************** Returning, throwing **************************)
\* Faulty: the caller does not take over the error.
Resumed_KeepsError(caller, fr) ==
  [caller EXCEPT !.cur = fr.cur, !.lah = fr.lah, !.lahEnd = fr.lahEnd,
                 !.pc = IF caller.kind = "unit" THEN "hook" ELSE "item"]
\* What a caller has when its callee returns.
Resumed(caller, fr) ==
  [caller EXCEPT !.cur = fr.cur, !.lah = fr.lah, !.lahEnd = fr.lahEnd, !.err = fr.err,
                 !.pc = IF caller.kind = "unit" THEN "hook" ELSE "item"]

Pop == SubSeq(stack, 1, Len(stack) - 1)
\* parse1(), parse2(), parse3() fail if the error is still pending.
Return ==
  /\ Normal /\ Top.pc = "return" /\ Top.saved = "none"
  /\ UNCHANGED <<inputVars, exc, owed>>
  /\ IF Len(stack) = 1
       THEN /\ stack' = Pop
            /\ result' = IF Top.err THEN "failure" ELSE "success"
            /\ UNCHANGED <<head, broken>>
       ELSE LET caller == stack[Len(stack) - 1]
            IN  /\ stack' = [Pop EXCEPT ![Len(stack) - 1] = Resumed(caller, Top)]
                /\ Trim(caller.trim /\ caller.kind = "unit" /\ FieldOf(caller).try, Top.cur)
                /\ UNCHANGED result

\* An exception leaves the function on top.
Leave(e) ==
  /\ stack' = Pop
  /\ exc' = IF Len(stack) = 1 THEN "none" ELSE e
  /\ result' = IF Len(stack) = 1 THEN "failure" ELSE result
  /\ UNCHANGED <<inputVars, head, broken, owed>>
Rethrow == Normal /\ Top.pc = "return" /\ Top.saved # "none" /\ Leave(Top.saved)

Throwing == Running /\ exc # "none"
Recoverable == exc \in {"fail", "backtrack"}
Catch(fr) ==
  /\ Replace([fr EXCEPT !.err = TRUE])
  /\ exc' = "none" /\ owed' = TRUE
  /\ UNCHANGED <<inputVars, result>>

\* The handlers of a unit, from the inside to the outside.
InField(fr) == fr.kind = "unit" /\ fr.pc \in {"field", "called"}
TryCatches(fr) == InField(fr) /\ FieldOf(fr).try /\ exc = "backtrack"
GroupCatches(fr) ==
  /\ Recoverable /\ fr.kind = "unit" /\ fr.pc \in {"field", "called", "hook"}
  /\ Group(fr.unit, fr.f) < Groups(fr.unit)
\* The loops around the current place that are in trial mode.
Trials(fr) ==
  IF ~Recoverable \/ ~fr.err \/ fr.kind # "unit" \/ fr.pc \in {"init", "size", "error", "finally"}
    THEN {}
  ELSE LET g == Group(fr.unit, fr.f)
       IN  {t \in fr.trial : t < g \/ (t = g /\ fr.pc \in {"field", "called", "hook", "done"})}

CatchBacktrack ==
  /\ Throwing /\ TryCatches(Top)
  /\ Replace([Top EXCEPT !.cur = Top.back, !.pc = "hook"])
  /\ exc' = "none" /\ owed' = Top.owing
  /\ Trim(Top.trim, Top.back)
  /\ UNCHANGED <<inputVars, result>>

CatchInGroup ==
  /\ Throwing /\ ~TryCatches(Top) /\ GroupCatches(Top)
  /\ Catch([Top EXCEPT !.f = SyncField(Top.unit, Group(Top.unit, Top.f) + 1), !.pc = "loop"])
  /\ UNCHANGED <<head, broken>>

\* Faulty: looks for the same place again.
CatchInTrial_NoAdvance ==
  /\ Throwing /\ ~TryCatches(Top) /\ ~GroupCatches(Top) /\ Trials(Top) # {}
  /\ LET g == CHOOSE t \in Trials(Top) : \A u \in Trials(Top) : u <= t
     IN  /\ Catch([Top EXCEPT !.f = SyncField(Top.unit, g), !.pc = "loop"])
         /\ UNCHANGED <<head, broken>>
\* The innermost loop in trial mode moves on by a byte, and looks again.
CatchInTrial ==
  /\ Throwing /\ ~TryCatches(Top) /\ ~GroupCatches(Top) /\ Trials(Top) # {}
  /\ LET g == CHOOSE t \in Trials(Top) : \A u \in Trials(Top) : u <= t
     IN  /\ Catch([Top EXCEPT !.f = SyncField(Top.unit, g), !.pc = "loop",
                              !.cur = NextData(Top)])
         /\ Trim(Top.trim, NextData(Top))

\* The element of a list that has &synchronize.
CatchInList ==
  /\ Throwing /\ Recoverable /\ Top.kind = "loop" /\ FieldOf(Top).elemSync
  /\ Top.pc \notin {"search", "synced"}
  /\ Catch([Top EXCEPT !.pc = "search", !.searched = Top.cur])
  /\ UNCHANGED <<head, broken>>

\* Stage 1 catches everything else, and throws it again after the hooks.
CatchInStage1 ==
  /\ Throwing /\ Top.kind = "unit" /\ Top.pc \notin {"error", "finally"}
  /\ ~TryCatches(Top) /\ ~GroupCatches(Top) /\ Trials(Top) = {}
  /\ Replace([Top EXCEPT !.pc = "error", !.saved = exc])
  /\ exc' = "none"
  /\ UNCHANGED <<inputVars, head, result, broken, owed>>

\* What a hook of the handler throws, and what no handler of a list is for.
NotCaught ==
  /\ Throwing
  /\ IF Top.kind = "unit" THEN Top.pc \in {"error", "finally"}
     ELSE ~(Recoverable /\ FieldOf(Top).elemSync /\ Top.pc \notin {"search", "synced"})
  /\ Leave(exc)

(********************************** The host *******************************)
\* The parser cannot go on without knowing more of the input.
Waiting ==
  /\ Normal /\ ~Ready(Top)
  /\ \/ Top.pc \in {"search", "stuck"}
     \/ Top.pc = "test" /\ FieldOf(Top).loop = "list"
     \/ Top.pc = "element" /\ FieldOf(Top).what # "unit" /\ Top.lah = None
     \/ Top.pc = "field" /\ FieldOf(Top).loop = "once" /\ FieldOf(Top).what # "unit" /\ Top.lah = None
Arrive(s) ==
  /\ Waiting /\ EndOffset < MaxLength
  /\ data' = [i \in 1 .. EndOffset + 1 |->
                IF i = EndOffset + 1 THEN s ELSE IF i <= Len(data) THEN data[i] ELSE Gap]
  /\ UNCHANGED <<frozen, head, stack, exc, result, broken, owed>>
Freeze ==
  /\ Waiting /\ frozen' = TRUE
  /\ UNCHANGED <<data, head, stack, exc, result, broken, owed>>

Next ==
  \/ RunInit \/ ParseField \/ FieldHook \/ Finalize \/ CheckSize \/ RunError \/ RunFinally
  \/ StartSynchronize \/ Search \/ Synced
  \/ TestCount \/ TestLookAhead \/ ParseElement \/ ItemHook \/ CheckMoved
  \/ Return \/ Rethrow
  \/ CatchBacktrack \/ CatchInGroup \/ CatchInTrial \/ CatchInList \/ CatchInStage1 \/ NotCaught
  \/ Freeze \/ \E s \in Symbols : Arrive(s)

Spec == Init /\ [][Next]_vars
\* The parser runs on, and the host sooner or later supplies data or its end.
FairSpec == Spec /\ WF_vars(Next)

(******************************** Properties *******************************)
\* All variables stay within their types.
TypeOK ==
  /\ data \in Seq(Symbols) /\ frozen \in BOOLEAN /\ head \in 0 .. Open
  /\ exc \in Exceptions \cup {"none"} /\ result \in {"running", "success", "failure"}
  /\ broken \in BOOLEAN /\ owed \in BOOLEAN
  /\ \A i \in DOMAIN stack :
       LET fr == stack[i]
       IN  /\ fr.cur \in 0 .. Open /\ fr.lahEnd \in 0 .. Open
           /\ fr.lah \in Tokens \cup {Eod, None}
           /\ fr.f \in 1 .. LastField(fr.unit)
           /\ fr.trial \subseteq 1 .. Groups(fr.unit)
           /\ i < Len(stack) => fr.pc = "called"
  /\ (result = "running") = (stack # <<>>)

\* parse() does not report success to the host after it skipped over an error
\* unless a hook has confirmed since, however the error went through the units
\* and lists ("confirm", "successful synchronization never confirmed").
NoUnconfirmedSuccess == result = "success" => ~owed

\* A frame's position in the input only moves forward, except by backtracking.
NeverMovesBack ==
  [][\A i \in DOMAIN stack \cap DOMAIN stack' :
       stack'[i].cur >= stack[i].cur \/ (exc = "backtrack" /\ exc' = "none")]_vars

\* A synchronisation point is found further on each time (search_start,
\* advanceToNextData(): "so we can find the next synchronization point").
SyncsMoveOn == Normal /\ Top.pc = "synced" => Top.syncs[SyncPoint(Top)] < Top.cur

\* The frames are well typed, and synchronisation makes progress.
Progressing == TypeOK /\ SyncsMoveOn

\* "Once %init triggers, this hook is guaranteed to eventually execute as well.
\* It will run after either %done or %error" (parsing.rst on %finally).
FinallyRuns ==
  [][Len(stack') < Len(stack) /\ Top.kind = "unit"
       => {"init", "finally"} \subseteq Top.ran /\ {"done", "error"} \cap Top.ran # {}]_vars

\* Whether a unit synchronises anywhere, or one of those that it is made of.
Recovers[u \in DOMAIN Fields] ==
  \E f \in 1 .. LastField(u) :
    LET fd == Fields[u][f]
    IN  fd.sync \/ fd.elemSync \/ (fd.what = "unit" /\ Recovers[fd.name])
\* Where recovery may go back to input that has been trimmed meanwhile: NeverLost.
Rewinds(u) == u \notin RandomAccess /\ Recovers[u]

\* A parse function returns to the host, successful or not: no search for a place
\* to go on at, trial or list goes round for ever.  That is, unless the unit both
\* trims and synchronises; then Chain::trim() may never return.
ParseEnds == (result = "running" /\ ~Rewinds(stack[1].unit)) ~> result # "running"

\* The parser never tries to trim its input to a place that is already gone, nor
\* to look at it: "any further synchronization attempts proceeding only on
\* subsequent, not yet seen, data".
NeverLost == ~broken

\* The position at which %synced runs is one where the synchronisation point's
\* look-ahead has been found.
SyncedAtToken ==
  Normal /\ Top.pc = "synced" =>
    \E o \in {Top.cur, Top.cur - 1} \cap 0 .. Len(data) - 1 :
      /\ data[o + 1] \in SyncTokens(Top)
      /\ o = Top.cur \/ SyncsAfter(Top)
=============================================================================
