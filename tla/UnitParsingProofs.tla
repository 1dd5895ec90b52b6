------------------------- MODULE UnitParsingProofs -------------------------
(***************************************************************************)
(* Proofs about the generated parse functions, for any grammar, any hooks  *)
(* and any input: an error that was skipped over does not end up as        *)
(* success, and %finally runs.                                             *)
(*                                                                         *)
(* Nothing here depends on where in the input a frame is: of a frame only  *)
(* what it is doing counts, its pending error, and which hooks it has run. *)
(***************************************************************************)
EXTENDS UnitParsing, SequenceTheorems, TLAPS

FrameFields ==
  {"kind", "unit", "f", "pc", "n", "cur", "stop", "lah", "lahEnd", "err", "entry", "trim",
   "trial", "back", "searched", "begin", "owing", "saved", "ran", "syncs"}
IsFrame(fr) ==
  /\ DOMAIN fr = FrameFields
  /\ fr.kind \in {"unit", "loop"} /\ fr.err \in BOOLEAN /\ fr.owing \in BOOLEAN
  /\ fr.saved \in Exceptions \cup {"none"}

\* A unit has run %init, unless it is about to; it is past %done or %error when
\* it gets to %finally, and past %finally when it returns.
RanInit(fr, e) == "init" \in fr.ran \/ (fr.pc = "init" /\ e = "none")
RanEnd(fr) == fr.pc \in {"size", "finally", "return"} => {"done", "error"} \cap fr.ran # {}
RanFinally(fr, e) ==
  fr.pc = "return" \/ (fr.pc = "finally" /\ e # "none") => "finally" \in fr.ran

\* What %finally depends on: no %error hook throws.
ErrorsReturn == Outcomes["error"] \cap Exceptions = {}

\* The frame on top, with the exception e being thrown and o for whether an error
\* is owed: it knows of that error, unless it is about to rethrow another one.
TopOK(fr, e, o) ==
  /\ IsFrame(fr)
  /\ fr.saved # "none" => fr.kind = "unit" /\ fr.pc \in {"error", "finally", "return"}
  /\ fr.kind = "unit" /\ fr.pc = "called" /\ fr.owing => fr.err
  /\ e = "backtrack" => fr.pc # "field"
  /\ e # "none" => fr.pc # "return"
  /\ e = "none" /\ fr.saved = "none" /\ o => fr.err
  /\ fr.kind = "unit" => /\ RanInit(fr, e) /\ RanEnd(fr) /\ RanFinally(fr, e)
                         /\ ErrorsReturn /\ fr.pc = "error" => e = "none"

\* A frame that has called another one; what it knows is what it knew then.
LowerOK(fr) ==
  /\ IsFrame(fr)
  /\ fr.pc = "called" /\ fr.saved = "none"
  /\ fr.kind = "unit" => (fr.owing => fr.err) /\ "init" \in fr.ran

IsStack(s) == s \in Seq({s[i] : i \in 1 .. Len(s)})

IInv ==
  /\ IsStack(stack)
  /\ exc \in Exceptions \cup {"none"} /\ owed \in BOOLEAN
  /\ result \in {"running", "success", "failure"}
  /\ (result = "running") <=> (Len(stack) > 0)
  /\ \A i \in 1 .. Len(stack) - 1 : LowerOK(stack[i])
  /\ Len(stack) > 0 => TopOK(Top, exc, owed)
  /\ result = "success" => ~owed

-----------------------------------------------------------------------------
\* Stacks, whatever they hold.
LEMMA StackOf ==
  ASSUME NEW S, NEW s \in Seq(S)
  PROVE  IsStack(s)
<1>1. Len(s) \in Nat /\ s \in [1 .. Len(s) -> S]
  OBVIOUS
<1>2. s \in [1 .. Len(s) -> {s[i] : i \in 1 .. Len(s)}]
  BY <1>1
<1>3. QED BY <1>1, <1>2 DEF IsStack

IsReplaced(s, x, r) ==
  /\ IsStack(r) /\ Len(r) = Len(s) /\ r[Len(s)] = x
  /\ \A i \in 1 .. Len(s) - 1 : r[i] = s[i]
IsPushed(s, x, r) ==
  /\ IsStack(r) /\ Len(r) = Len(s) + 1 /\ r[Len(s) + 1] = x
  /\ \A i \in 1 .. Len(s) : r[i] = s[i]

\* The last element is replaced.
LEMMA ReplacedStack ==
  ASSUME NEW s, IsStack(s), Len(s) > 0, NEW x
  PROVE  IsReplaced(s, x, [s EXCEPT ![Len(s)] = x])
<1> DEFINE S == {s[i] : i \in 1 .. Len(s)} \cup {x}
<1> DEFINE r == [s EXCEPT ![Len(s)] = x]
<1>1. s \in Seq(S) /\ Len(s) \in Nat
  BY DEF IsStack
<1>2. r \in Seq(S) /\ Len(r) = Len(s) /\ r[Len(s)] = x /\ \A i \in 1 .. Len(s) - 1 : r[i] = s[i]
  <2> HIDE DEF S
  <2>1. x \in S
    BY DEF S
  <2>2. QED BY <1>1, <2>1
<1> HIDE DEF S, r
<1>3. IsStack(r)
  BY <1>2, StackOf
<1>4. QED BY <1>2, <1>3 DEF r, IsReplaced

\* An element is added.
LEMMA PushedStack ==
  ASSUME NEW s, IsStack(s), NEW x
  PROVE  IsPushed(s, x, s \o <<x>>)
<1> DEFINE S == {s[i] : i \in 1 .. Len(s)} \cup {x}
<1> DEFINE r == s \o <<x>>
<1>1. s \in Seq(S) /\ Len(s) \in Nat /\ x \in S
  BY DEF IsStack
<1>2. r \in Seq(S) /\ Len(r) = Len(s) + 1 /\ r[Len(s) + 1] = x /\ \A i \in 1 .. Len(s) : r[i] = s[i]
  <2> HIDE DEF S
  <2>1. QED BY <1>1
<1> HIDE DEF S, r
<1>3. IsStack(r)
  BY <1>2, StackOf
<1>4. QED BY <1>2, <1>3 DEF r, IsPushed

\* The last element is removed.
LEMMA PoppedStack ==
  ASSUME NEW s, IsStack(s), Len(s) > 0
  PROVE  LET r == SubSeq(s, 1, Len(s) - 1) IN
         /\ IsStack(r) /\ Len(r) = Len(s) - 1
         /\ \A i \in 1 .. Len(s) - 1 : r[i] = s[i]
<1> DEFINE S == {s[i] : i \in 1 .. Len(s)}
<1> DEFINE r == SubSeq(s, 1, Len(s) - 1)
<1>1. s \in Seq(S) /\ Len(s) \in Nat
  BY DEF IsStack
<1>2. r \in Seq(S) /\ Len(r) = Len(s) - 1 /\ \A i \in 1 .. Len(s) - 1 : r[i] = s[i]
  <2> DEFINE m == Len(s) - 1
  <2>1. m \in Nat /\ \A i \in 1 .. m : s[i] \in S
    BY <1>1
  <2> HIDE DEF S, m
  <2>2. /\ SubSeq(s, 1, m) \in Seq(S)
        /\ Len(SubSeq(s, 1, m)) = IF 1 <= m THEN (m-1)+1 ELSE 0
        /\ \A i \in 1 .. (m-1)+1 : SubSeq(s, 1, m)[i] = s[1+(i-1)]
    BY <2>1, SubSeqProperties
  <2>3. Len(SubSeq(s, 1, m)) = m
    BY <2>1, <2>2
  <2>4. \A i \in 1 .. m : SubSeq(s, 1, m)[i] = s[i]
    BY <2>1, <2>2
  <2>5. QED BY <2>2, <2>3, <2>4 DEF m
<1> HIDE DEF S, r
<1>3. IsStack(r)
  BY <1>2, StackOf
<1>4. QED BY <1>2, <1>3 DEF r

-----------------------------------------------------------------------------
\* The kinds of step.  Nothing changes that the invariant is about.
LEMMA SameKeeps ==
  ASSUME IInv, UNCHANGED <<stack, exc, result, owed>>
  PROVE  IInv'
BY DEF IInv, Top, TopOK, LowerOK, IsStack

\* The frame on top changes.
LEMMA ReplaceKeeps ==
  ASSUME IInv, Len(stack) > 0, NEW g, Replace(g), TopOK(g, exc', owed'),
         exc' \in Exceptions \cup {"none"}, owed' \in BOOLEAN, result' = result
  PROVE  IInv' /\ Len(stack') = Len(stack)
<1>1. /\ IsStack(stack') /\ Len(stack') = Len(stack) /\ stack'[Len(stack)] = g
      /\ \A i \in 1 .. Len(stack) - 1 : stack'[i] = stack[i]
  <2>1. IsStack(stack) /\ stack' = [stack EXCEPT ![Len(stack)] = g]
    BY DEF Replace, IInv
  <2>2. IsReplaced(stack, g, stack')
    BY <2>1, ReplacedStack
  <2>3. QED BY <2>2 DEF IsReplaced
<1>2. Top' = g
  BY <1>1 DEF Top
<1>3. result = "running"
  BY DEF IInv
<1>4. QED BY <1>1, <1>2, <1>3 DEF IInv

\* The exception being thrown changes.
LEMMA ThrowKeeps ==
  ASSUME IInv, Len(stack) > 0, stack' = stack, TopOK(Top, exc', owed'),
         exc' \in Exceptions \cup {"none"}, owed' \in BOOLEAN, result' = result
  PROVE  IInv' /\ Len(stack') = Len(stack)
<1>1. result = "running" /\ Top' = Top
  BY DEF IInv, Top
<1>2. QED BY <1>1 DEF IInv

\* A call.
LEMMA CallKeeps ==
  ASSUME IInv, Len(stack) > 0, NEW caller, NEW callee, Call(caller, callee),
         LowerOK(caller), TopOK(callee, exc, owed)
  PROVE  IInv' /\ Len(stack') = Len(stack) + 1
<1> DEFINE s == [stack EXCEPT ![Len(stack)] = caller]
<1>1. /\ IsStack(s) /\ Len(s) = Len(stack) /\ s[Len(stack)] = caller
      /\ \A i \in 1 .. Len(stack) - 1 : s[i] = stack[i]
  <2>1. IsStack(stack)
    BY DEF IInv
  <2>2. IsReplaced(stack, caller, s)
    BY <2>1, ReplacedStack
  <2>3. QED BY <2>2 DEF IsReplaced
<1>2. stack' = s \o <<callee>> /\ exc' = exc /\ result' = result /\ owed' = owed
  BY DEF Call
<1>3. Len(stack) \in Nat
  BY DEF IInv, IsStack
<1> HIDE DEF s
<1>4. /\ IsStack(stack') /\ Len(stack') = Len(stack) + 1 /\ stack'[Len(stack) + 1] = callee
      /\ \A i \in 1 .. Len(stack) : stack'[i] = s[i]
  <2>1. IsPushed(s, callee, stack')
    BY <1>1, <1>2, PushedStack
  <2>2. QED BY <1>1, <2>1 DEF IsPushed
<1>5. Top' = callee
  BY <1>4 DEF Top
<1>6. \A i \in 1 .. Len(stack') - 1 : LowerOK(stack'[i])
  <2>1. SUFFICES ASSUME NEW i \in 1 .. Len(stack) PROVE LowerOK(s[i])
    BY <1>3, <1>4
  <2>2. CASE i = Len(stack)
    BY <1>1, <2>2
  <2>3. CASE i # Len(stack)
    <3>1. i \in 1 .. Len(stack) - 1
      BY <1>3, <2>3
    <3>2. QED BY <1>1, <3>1 DEF IInv
  <2>4. QED BY <2>2, <2>3
<1>7. result = "running"
  BY DEF IInv
<1>8. QED BY <1>2, <1>3, <1>4, <1>5, <1>6, <1>7 DEF IInv

\* A function is left, to a caller or, if there is none, to the host.
LEMMA PopKeeps ==
  ASSUME IInv, Len(stack) > 0, NEW g,
         Len(stack) = 1 => stack' = Pop, Len(stack) > 1 => IsReplaced(Pop, g, stack'),
         Len(stack) > 1 => TopOK(g, exc', owed) /\ result' = result,
         Len(stack) = 1 => result' = "failure" \/ (result' = "success" /\ ~owed),
         exc' \in Exceptions \cup {"none"}, owed' = owed
  PROVE  IInv'
<1>1. Len(stack) \in Nat
  BY DEF IInv, IsStack
<1>2. /\ IsStack(Pop) /\ Len(Pop) = Len(stack) - 1
      /\ \A i \in 1 .. Len(stack) - 1 : Pop[i] = stack[i]
  BY PoppedStack DEF IInv, Pop
<1>3. CASE Len(stack) = 1
  <2>1. stack' = Pop /\ Len(stack') = 0
    BY <1>2, <1>3
  <2>2. result' \in {"failure", "success"} /\ (result' = "success" => ~owed')
    BY <1>3
  <2>3. \A i \in 1 .. Len(stack') - 1 : LowerOK(stack'[i])
    BY <2>1
  <2>4. IsStack(stack')
    BY <1>2, <2>1
  <2>5. QED BY <2>1, <2>2, <2>3, <2>4 DEF IInv
<1>4. CASE Len(stack) # 1
  <2>1. Len(Pop) > 0 /\ Len(Pop) = Len(stack) - 1 /\ Len(stack) > 1
    BY <1>1, <1>2, <1>4
  <2>3. /\ IsStack(stack') /\ Len(stack') = Len(Pop) /\ stack'[Len(Pop)] = g
        /\ \A i \in 1 .. Len(Pop) - 1 : stack'[i] = Pop[i]
    BY <2>1 DEF IsReplaced
  <2>4. Top' = g
    BY <2>3 DEF Top
  <2>5. \A i \in 1 .. Len(stack') - 1 : LowerOK(stack'[i])
    <3>1. SUFFICES ASSUME NEW i \in 1 .. Len(stack') - 1 PROVE LowerOK(stack'[i])
      OBVIOUS
    <3>2. i \in 1 .. Len(Pop) - 1 /\ i \in 1 .. Len(stack) - 1
      BY <1>1, <2>1, <2>3
    <3>3. stack'[i] = stack[i]
      BY <1>2, <2>3, <3>2
    <3>4. QED BY <3>2, <3>3 DEF IInv
  <2>6. result = "running" /\ result' = result /\ Len(stack') > 0
    BY <2>1, <2>3 DEF IInv
  <2>7. QED BY <2>1, <2>3, <2>4, <2>5, <2>6 DEF IInv
<1>5. QED BY <1>3, <1>4

-----------------------------------------------------------------------------
\* A frame of which only the place in the input, or in the unit, is changed.
Alike(fr, g) ==
  /\ DOMAIN g = DOMAIN fr
  /\ g.kind = fr.kind /\ g.err = fr.err /\ g.owing \in BOOLEAN /\ g.saved = fr.saved /\ g.ran = fr.ran

\* The places of a function in its normal course.
Underway == {"field", "hook", "done", "loop", "search", "synced", "test", "element", "item", "stuck"}

\* Such a frame may take the place of the one on top.
LEMMA AlikeOK ==
  ASSUME NEW fr, NEW g, NEW o \in BOOLEAN, TopOK(fr, "none", o), fr.saved = "none", fr.pc # "init",
         Alike(fr, g), g.pc \in Underway
  PROVE  TopOK(g, "none", o)
BY DEF TopOK, Alike, IsFrame, RanInit, RanEnd, RanFinally, Underway

\* The frame on top, as long as nothing is thrown.
LEMMA Going ==
  ASSUME IInv, Normal
  PROVE  /\ Len(stack) > 0 /\ TopOK(Top, "none", owed) /\ exc = "none" /\ owed \in BOOLEAN
         /\ IsFrame(Top) /\ DOMAIN Top = FrameFields
         /\ Top.pc \in Underway \cup {"init", "size", "called"} => Top.saved = "none"
BY DEF IInv, Normal, Running, TopOK, IsFrame, Underway

\* Anything that is not a backtrack may be thrown at most places.
LEMMA FailKeeps ==
  ASSUME IInv, Normal, Throw("fail"), Top.pc \in Underway \cup {"size"}
  PROVE  IInv' /\ Len(stack') = Len(stack)
<1>1. stack' = stack /\ exc' = "fail" /\ result' = result /\ owed' = owed
  BY DEF Throw
<1>2. TopOK(Top, "fail", owed)
  BY Going DEF TopOK, RanInit, RanEnd, RanFinally, Underway
<1>3. QED BY <1>1, <1>2, Going, ThrowKeeps DEF Exceptions

\* The frame on top goes on, and nothing else changes.
LEMMA GoKeeps ==
  ASSUME IInv, Normal, NEW g, Replace(g), exc' = exc, result' = result, owed' = owed,
         TopOK(g, "none", owed)
  PROVE  IInv' /\ Len(stack') = Len(stack)
BY Going, ReplaceKeeps

\* It goes on in its normal course.
LEMMA AlikeKeeps ==
  ASSUME IInv, Normal, Top.pc \in Underway, NEW g, Alike(Top, g), g.pc \in Underway, Replace(g),
         exc' = exc, result' = result, owed' = owed
  PROVE  IInv' /\ Len(stack') = Len(stack)
<1>1. TopOK(g, "none", owed)
  BY Going, AlikeOK DEF Underway
<1>2. QED BY <1>1, GoKeeps

\* The process breaks.
LEMMA BreakKeeps ==
  ASSUME IInv, Break
  PROVE  IInv' /\ Len(stack') = Len(stack)
BY SameKeeps DEF Break

-----------------------------------------------------------------------------
\* Hooks.  A hook that throws leaves the frame where it is.
LEMMA ThrownOK ==
  ASSUME NEW fr, NEW hook, NEW e \in Exceptions, NEW o \in BOOLEAN, TopOK(fr, "none", o),
         e = "backtrack" => fr.pc # "field", fr.pc = "init" => hook = "init",
         fr.pc = "finally" => hook = "finally", fr.pc = "error" => ~ErrorsReturn,
         fr.pc \notin {"called", "return"}
  PROVE  TopOK([fr EXCEPT !.ran = @ \cup {hook}], e, o)
<1> DEFINE g == [fr EXCEPT !.ran = @ \cup {hook}]
<1>1. DOMAIN fr = FrameFields
  BY DEF TopOK, IsFrame
<1>2. /\ DOMAIN g = FrameFields /\ g.kind = fr.kind /\ g.err = fr.err /\ g.owing = fr.owing
      /\ g.saved = fr.saved /\ g.pc = fr.pc /\ g.ran = fr.ran \cup {hook}
  BY <1>1 DEF FrameFields
<1>3. e # "none"
  BY DEF Exceptions
<1> HIDE DEF g
<1>4. QED BY <1>2, <1>3 DEF TopOK, IsFrame, RanInit, RanEnd, RanFinally, g

\* What a hook that confirms does to the error that is owed.
LEMMA StillOwed ==
  ASSUME IInv, Normal, Top.saved = "none", NEW o, owed' = (owed /\ ~(Top.err /\ o = "confirm")), owed'
  PROVE  Top.err /\ o # "confirm"
BY Going DEF TopOK

\* A hook that does not throw: the frame goes on, and if an error is still owed
\* the frame still has it.
LEMMA WentOn ==
  ASSUME IInv, Normal, Top.saved = "none", NEW o, NEW g,
         owed' = (owed /\ ~(Top.err /\ o = "confirm")),
         DOMAIN g = FrameFields, g.kind = Top.kind, g.owing = Top.owing, g.saved = Top.saved,
         g.err = (Top.err /\ o # "confirm"), g.pc \notin {"called", "init", "error"},
         g.kind = "unit" => "init" \in g.ran /\ RanEnd(g) /\ RanFinally(g, "none")
  PROVE  TopOK(g, "none", owed')
<1>1. owed' => g.err
  BY StillOwed
<1>2. IsFrame(g)
  BY Going DEF IsFrame
<1>3. QED BY <1>1, <1>2 DEF TopOK, RanInit

\* Either way the step keeps the invariant.
LEMMA HookKeeps ==
  ASSUME IInv, Normal, NEW hook, NEW o, NEW g, NEW b,
         o \in Exceptions \cup {"nothing", "confirm", "stop"},
         Replace([(IF o \in Exceptions THEN Top ELSE g) EXCEPT !.ran = @ \cup {hook}]),
         exc' = IF o \in Exceptions THEN o ELSE "none",
         owed' = (owed /\ ~(b /\ o = "confirm")), result' = result,
         o \in Exceptions => TopOK([Top EXCEPT !.ran = @ \cup {hook}], o, owed),
         o \notin Exceptions => TopOK([g EXCEPT !.ran = @ \cup {hook}], "none", owed')
  PROVE  IInv' /\ Len(stack') = Len(stack)
<1>1. owed \in BOOLEAN /\ owed' \in BOOLEAN /\ Len(stack) > 0
  BY Going
<1>2. CASE o \in Exceptions
  <2>1. owed' = owed
    BY <1>1, <1>2 DEF Exceptions
  <2>2. exc' = o /\ Replace([Top EXCEPT !.ran = @ \cup {hook}])
    BY <1>2
  <2>3. QED BY <1>1, <1>2, <2>1, <2>2, ReplaceKeeps
<1>3. CASE o \notin Exceptions
  <2>1. exc' = "none" /\ Replace([g EXCEPT !.ran = @ \cup {hook}])
    BY <1>3
  <2>2. QED BY <1>1, <1>3, <2>1, ReplaceKeeps
<1>4. QED BY <1>2, <1>3

\* %init.
LEMMA RunInitKeeps ==
  ASSUME IInv, RunInit
  PROVE  IInv' /\ Len(stack') = Len(stack)
<1>1. Normal /\ Top.kind = "unit" /\ Top.pc = "init" /\ Top.saved = "none"
  BY Going DEF RunInit, Is, Underway
<1> DEFINE Then(o) == [Confirmed(Top, o) EXCEPT !.pc = "field", !.entry = @ /\ o # "confirm"]
<1>2. PICK o \in Outcomes["init"] :
        /\ Replace([(IF o \in Exceptions THEN Top ELSE Then(o)) EXCEPT !.ran = @ \cup {"init"}])
        /\ exc' = IF o \in Exceptions THEN o ELSE "none"
        /\ owed' = (owed /\ ~(Top.err /\ o = "confirm"))
        /\ UNCHANGED <<inputVars, head, result, broken>>
  BY DEF RunInit, RunHook
<1>3. o \in Exceptions \cup {"nothing", "confirm", "stop"}
  BY GrammarAssumption DEF Hooks
<1>4. o \in Exceptions => TopOK([Top EXCEPT !.ran = @ \cup {"init"}], o, owed)
  BY <1>1, Going, ThrownOK
<1>5. ASSUME o \notin Exceptions
      PROVE  TopOK([Then(o) EXCEPT !.ran = @ \cup {"init"}], "none", owed')
  <2> DEFINE g == [Then(o) EXCEPT !.ran = @ \cup {"init"}]
  <2>1. /\ DOMAIN g = FrameFields /\ g.kind = Top.kind /\ g.owing = Top.owing /\ g.saved = Top.saved
        /\ g.err = (Top.err /\ o # "confirm") /\ g.ran = Top.ran \cup {"init"}
        /\ g.pc = "field"
    BY <1>1, Going DEF FrameFields, Confirmed
  <2> HIDE DEF g
  <2>2. g.kind = "unit" => "init" \in g.ran /\ RanEnd(g) /\ RanFinally(g, "none")
    BY <1>1, <2>1, Going DEF TopOK, RanInit, RanEnd, RanFinally
  <2>3. TopOK(g, "none", owed')
    BY <1>1, <1>2, <2>1, <2>2, WentOn
  <2>4. QED BY <2>3 DEF g
<1> HIDE DEF Then
<1>6. QED BY <1>1, <1>2, <1>3, <1>4, <1>5, HookKeeps

\* The hook of a field, after which the next field or the end of the unit follows.
LEMMA FieldHookKeeps ==
  ASSUME IInv, FieldHook
  PROVE  IInv' /\ Len(stack') = Len(stack)
<1>1. Normal /\ Top.kind = "unit" /\ Top.pc = "hook" /\ Top.saved = "none"
  BY Going DEF FieldHook, Is, Underway
<1> DEFINE Then(o) == NextField(Confirmed(Top, o))
<1>2. PICK o \in Outcomes["field"] :
        /\ Replace([(IF o \in Exceptions THEN Top ELSE Then(o)) EXCEPT !.ran = @ \cup {"field"}])
        /\ exc' = IF o \in Exceptions THEN o ELSE "none"
        /\ owed' = (owed /\ ~(Top.err /\ o = "confirm"))
        /\ UNCHANGED <<inputVars, head, result, broken>>
  BY DEF FieldHook, RunHook
<1>3. o \in Exceptions \cup {"nothing", "confirm", "stop"}
  BY GrammarAssumption DEF Hooks
<1>4. o \in Exceptions => TopOK([Top EXCEPT !.ran = @ \cup {"field"}], o, owed)
  BY <1>1, Going, ThrownOK
<1>5. ASSUME o \notin Exceptions
      PROVE  TopOK([Then(o) EXCEPT !.ran = @ \cup {"field"}], "none", owed')
  <2> DEFINE g == [Then(o) EXCEPT !.ran = @ \cup {"field"}]
  <2>1. /\ DOMAIN g = FrameFields /\ g.kind = Top.kind /\ g.owing = Top.owing /\ g.saved = Top.saved
        /\ g.err = (Top.err /\ o # "confirm") /\ g.ran = Top.ran \cup {"field"}
        /\ g.pc \in {"done", "loop", "field"}
    BY <1>1, Going DEF FrameFields, Confirmed, NextField
  <2> HIDE DEF g
  <2>2. g.kind = "unit" => "init" \in g.ran /\ RanEnd(g) /\ RanFinally(g, "none")
    BY <1>1, <2>1, Going DEF TopOK, RanInit, RanEnd, RanFinally
  <2>3. TopOK(g, "none", owed')
    BY <1>1, <1>2, <2>1, <2>2, WentOn
  <2>4. QED BY <2>3 DEF g
<1> HIDE DEF Then
<1>6. QED BY <1>1, <1>2, <1>3, <1>4, <1>5, HookKeeps

\* %done.
LEMMA FinalizeKeeps ==
  ASSUME IInv, Finalize
  PROVE  IInv' /\ Len(stack') = Len(stack)
<1>1. Normal /\ Top.kind = "unit" /\ Top.pc = "done" /\ Top.saved = "none"
  BY Going DEF Finalize, Is, Underway
<1> DEFINE Then(o) == [Confirmed(Top, o) EXCEPT !.pc = "size"]
<1>2. PICK o \in Outcomes["done"] :
        /\ Replace([(IF o \in Exceptions THEN Top ELSE Then(o)) EXCEPT !.ran = @ \cup {"done"}])
        /\ exc' = IF o \in Exceptions THEN o ELSE "none"
        /\ owed' = (owed /\ ~(Top.err /\ o = "confirm"))
        /\ UNCHANGED <<inputVars, head, result, broken>>
  BY DEF Finalize, RunHook
<1>3. o \in Exceptions \cup {"nothing", "confirm", "stop"}
  BY GrammarAssumption DEF Hooks
<1>4. o \in Exceptions => TopOK([Top EXCEPT !.ran = @ \cup {"done"}], o, owed)
  BY <1>1, Going, ThrownOK
<1>5. ASSUME o \notin Exceptions
      PROVE  TopOK([Then(o) EXCEPT !.ran = @ \cup {"done"}], "none", owed')
  <2> DEFINE g == [Then(o) EXCEPT !.ran = @ \cup {"done"}]
  <2>1. /\ DOMAIN g = FrameFields /\ g.kind = Top.kind /\ g.owing = Top.owing /\ g.saved = Top.saved
        /\ g.err = (Top.err /\ o # "confirm") /\ g.ran = Top.ran \cup {"done"}
        /\ g.pc = "size"
    BY <1>1, Going DEF FrameFields, Confirmed
  <2> HIDE DEF g
  <2>2. g.kind = "unit" => "init" \in g.ran /\ RanEnd(g) /\ RanFinally(g, "none")
    BY <1>1, <2>1, Going DEF TopOK, RanInit, RanEnd, RanFinally
  <2>3. TopOK(g, "none", owed')
    BY <1>1, <1>2, <2>1, <2>2, WentOn
  <2>4. QED BY <2>3 DEF g
<1> HIDE DEF Then
<1>6. QED BY <1>1, <1>2, <1>3, <1>4, <1>5, HookKeeps

\* The hook of an element, after which the list may end.
LEMMA ItemHookKeeps ==
  ASSUME IInv, ItemHook
  PROVE  IInv' /\ Len(stack') = Len(stack)
<1>1. Normal /\ Top.kind = "loop" /\ Top.pc = "item" /\ Top.saved = "none"
  BY Going DEF ItemHook, Is, Underway
<1> DEFINE stuck == FieldOf(Top).loop = "list" /\ Top.cur = Top.begin
<1> DEFINE Then(o) == [Confirmed(Top, o) EXCEPT
                         !.pc = IF o = "stop" THEN "return" ELSE IF stuck THEN "stuck" ELSE "test"]
<1>2. PICK o \in Outcomes["item"] :
        /\ Replace([(IF o \in Exceptions THEN Top ELSE Then(o)) EXCEPT !.ran = @ \cup {"item"}])
        /\ exc' = IF o \in Exceptions THEN o ELSE "none"
        /\ owed' = (owed /\ ~(Top.err /\ o = "confirm"))
        /\ UNCHANGED <<inputVars, head, result, broken>>
  BY DEF ItemHook, RunHook
<1>3. o \in Exceptions \cup {"nothing", "confirm", "stop"}
  BY GrammarAssumption DEF Hooks
<1>4. o \in Exceptions => TopOK([Top EXCEPT !.ran = @ \cup {"item"}], o, owed)
  BY <1>1, Going, ThrownOK
<1>5. ASSUME o \notin Exceptions
      PROVE  TopOK([Then(o) EXCEPT !.ran = @ \cup {"item"}], "none", owed')
  <2> DEFINE g == [Then(o) EXCEPT !.ran = @ \cup {"item"}]
  <2>1. /\ DOMAIN g = FrameFields /\ g.kind = Top.kind /\ g.owing = Top.owing /\ g.saved = Top.saved
        /\ g.err = (Top.err /\ o # "confirm") /\ g.ran = Top.ran \cup {"item"}
        /\ g.pc \in {"return", "stuck", "test"}
    BY <1>1, Going DEF FrameFields, Confirmed
  <2> HIDE DEF g
  <2>2. g.kind = "unit" => "init" \in g.ran /\ RanEnd(g) /\ RanFinally(g, "none")
    BY <1>1, <2>1, Going DEF TopOK, RanInit, RanEnd, RanFinally
  <2>3. TopOK(g, "none", owed')
    BY <1>1, <1>2, <2>1, <2>2, WentOn
  <2>4. QED BY <2>3 DEF g
<1> HIDE DEF Then
<1>6. QED BY <1>1, <1>2, <1>3, <1>4, <1>5, HookKeeps

\* %synced.
LEMMA SyncedKeeps ==
  ASSUME IInv, Synced
  PROVE  IInv' /\ Len(stack') = Len(stack)
<1>1. Normal /\ Top.kind \in {"unit", "loop"} /\ Top.pc = "synced" /\ Top.saved = "none"
  BY Going DEF Synced, Underway, IsFrame
<1> DEFINE Then(o) == [Confirmed(Top, o) EXCEPT !.syncs[SyncPoint(Top)] = Top.cur,
                                             !.pc = IF Top.kind = "unit" THEN "field" ELSE "test"]
<1>2. PICK o \in Outcomes["synced"] :
        /\ Replace([(IF o \in Exceptions THEN Top ELSE Then(o)) EXCEPT !.ran = @ \cup {"synced"}])
        /\ exc' = IF o \in Exceptions THEN o ELSE "none"
        /\ owed' = (owed /\ ~(Top.err /\ o = "confirm"))
        /\ UNCHANGED <<inputVars, head, result, broken>>
  BY DEF Synced, RunHook
<1>3. o \in Exceptions \cup {"nothing", "confirm", "stop"}
  BY GrammarAssumption DEF Hooks
<1>4. o \in Exceptions => TopOK([Top EXCEPT !.ran = @ \cup {"synced"}], o, owed)
  BY <1>1, Going, ThrownOK
<1>5. ASSUME o \notin Exceptions
      PROVE  TopOK([Then(o) EXCEPT !.ran = @ \cup {"synced"}], "none", owed')
  <2> DEFINE g == [Then(o) EXCEPT !.ran = @ \cup {"synced"}]
  <2>1. /\ DOMAIN g = FrameFields /\ g.kind = Top.kind /\ g.owing = Top.owing /\ g.saved = Top.saved
        /\ g.err = (Top.err /\ o # "confirm") /\ g.ran = Top.ran \cup {"synced"}
        /\ g.pc \in {"field", "test"}
    BY <1>1, Going DEF FrameFields, Confirmed
  <2> HIDE DEF g
  <2>2. g.kind = "unit" => "init" \in g.ran /\ RanEnd(g) /\ RanFinally(g, "none")
    BY <1>1, <2>1, Going DEF TopOK, RanInit, RanEnd, RanFinally
  <2>3. TopOK(g, "none", owed')
    BY <1>1, <1>2, <2>1, <2>2, WentOn
  <2>4. QED BY <2>3 DEF g
<1> HIDE DEF Then
<1>6. QED BY <1>1, <1>2, <1>3, <1>4, <1>5, HookKeeps

\* %finally, which may follow an exception that is thrown again later.
LEMMA RunFinallyKeeps ==
  ASSUME IInv, RunFinally
  PROVE  IInv' /\ Len(stack') = Len(stack)
<1>1. Normal /\ Top.kind = "unit" /\ Top.pc = "finally"
  BY DEF RunFinally, Is
<1> DEFINE Then(o) == [Top EXCEPT !.pc = "return"]
<1>2. PICK o \in Outcomes["finally"] :
        /\ Replace([(IF o \in Exceptions THEN Top ELSE Then(o)) EXCEPT !.ran = @ \cup {"finally"}])
        /\ exc' = IF o \in Exceptions THEN o ELSE "none"
        /\ owed' = (owed /\ ~(Top.entry /\ o = "confirm"))
        /\ UNCHANGED <<inputVars, head, result, broken>>
  BY DEF RunFinally, RunHook
<1>3. o \in Exceptions \cup {"nothing", "confirm", "stop"}
  BY GrammarAssumption DEF Hooks
<1>4. o \in Exceptions => TopOK([Top EXCEPT !.ran = @ \cup {"finally"}], o, owed)
  BY <1>1, Going, ThrownOK
<1>5. ASSUME o \notin Exceptions
      PROVE  TopOK([Then(o) EXCEPT !.ran = @ \cup {"finally"}], "none", owed')
  <2> DEFINE g == [Then(o) EXCEPT !.ran = @ \cup {"finally"}]
  <2>1. /\ DOMAIN g = FrameFields /\ g.kind = Top.kind /\ g.owing = Top.owing /\ g.saved = Top.saved
        /\ g.err = Top.err /\ g.ran = Top.ran \cup {"finally"} /\ g.pc = "return"
    BY <1>1, Going DEF FrameFields
  <2> HIDE DEF g
  <2>2. "init" \in g.ran /\ RanEnd(g) /\ RanFinally(g, "none")
    BY <1>1, <2>1, Going DEF TopOK, RanInit, RanEnd, RanFinally
  <2>3. g.saved = "none" /\ owed' => g.err
    BY <1>1, <1>2, <2>1, Going DEF TopOK
  <2>4. IsFrame(g)
    BY <1>1, <2>1, Going DEF IsFrame
  <2>5. TopOK(g, "none", owed')
    BY <1>1, <2>1, <2>2, <2>3, <2>4 DEF TopOK, RanInit
  <2>6. QED BY <2>5 DEF g
<1> HIDE DEF Then
<1>6. QED BY <1>1, <1>2, <1>3, <1>4, <1>5, HookKeeps

\* %error, in the handler of stage 1.
LEMMA RunErrorKeeps ==
  ASSUME IInv, RunError
  PROVE  IInv' /\ Len(stack') = Len(stack)
<1>1. Normal /\ Top.kind = "unit" /\ Top.pc = "error"
  BY DEF RunError, Is
<1>2. PICK o \in Outcomes["error"] :
        /\ Replace([Top EXCEPT !.ran = @ \cup {"error"},
                               !.pc = IF o \in Exceptions THEN "error" ELSE "finally"])
        /\ exc' = IF o \in Exceptions THEN o ELSE "none"
        /\ UNCHANGED <<inputVars, head, result, broken, owed>>
  BY DEF RunError
<1> DEFINE g == [Top EXCEPT !.ran = @ \cup {"error"},
                            !.pc = IF o \in Exceptions THEN "error" ELSE "finally"]
<1>3. /\ DOMAIN g = FrameFields /\ g.kind = Top.kind /\ g.owing = Top.owing /\ g.saved = Top.saved
      /\ g.err = Top.err /\ g.ran = Top.ran \cup {"error"}
      /\ g.pc = IF o \in Exceptions THEN "error" ELSE "finally"
  BY <1>1, Going DEF FrameFields
<1>4. Replace(g)
  BY <1>2
<1> HIDE DEF g
<1>5. exc' \in Exceptions \cup {"none"} /\ owed' = owed /\ owed' \in BOOLEAN /\ result' = result
  BY <1>1, <1>2, Going
<1>6. ErrorsReturn => exc' = "none"
  BY <1>2 DEF ErrorsReturn
<1>7. IsFrame(g)
  BY <1>1, <1>3, Going DEF IsFrame
<1>8. RanInit(g, exc') /\ RanEnd(g) /\ RanFinally(g, exc')
  BY <1>1, <1>2, <1>3, Going DEF TopOK, RanInit, RanEnd, RanFinally, Exceptions
<1>9. g.saved # "none" => g.pc \in {"error", "finally", "return"}
  BY <1>3
<1>10. g.saved = "none" /\ owed' => g.err
  BY <1>1, <1>3, <1>5, Going DEF TopOK
<1>11. TopOK(g, exc', owed')
  BY <1>1, <1>3, <1>6, <1>7, <1>8, <1>9, <1>10 DEF TopOK
<1>12. QED BY <1>1, <1>4, <1>5, <1>11, Going, ReplaceKeeps

-----------------------------------------------------------------------------
\* Moving on, with and without trimming.
LEMMA MoveKeeps ==
  ASSUME IInv, Normal, Top.pc \in Underway, NEW g, Alike(Top, g), g.pc \in Underway,
         NEW on, Go(g) \/ GoTrim(g, on)
  PROVE  IInv' /\ Len(stack') = Len(stack)
BY AlikeKeeps DEF Go, GoTrim

\* %synchronize-at and &synchronize: the loop around a synchronisation point.
LEMMA StartSynchronizeKeeps ==
  ASSUME IInv, StartSynchronize
  PROVE  IInv' /\ Len(stack') = Len(stack)
<1>1. Normal /\ Top.pc = "loop" /\ Top.pc \in Underway
  BY DEF StartSynchronize, Is, Underway
<1> DEFINE fr == [Top EXCEPT !.trial = {g \in @ : g < Group(Top.unit, Top.f)}]
<1> DEFINE h == [fr EXCEPT !.pc = IF Top.err THEN "search" ELSE "field"]
<1>2. Go(h)
  BY DEF StartSynchronize
<1>3. Alike(Top, h) /\ h.pc \in Underway
  BY <1>1, Going DEF Alike, FrameFields, Underway, IsFrame
<1> HIDE DEF h
<1>4. QED BY <1>1, <1>2, <1>3, MoveKeeps

\* The &size of a unit.
LEMMA CheckSizeKeeps ==
  ASSUME IInv, CheckSize
  PROVE  IInv' /\ Len(stack') = Len(stack)
<1>1. Normal /\ Top.kind = "unit" /\ Top.pc = "size" /\ Top.saved = "none"
  BY Going DEF CheckSize, Is
<1> DEFINE g == [Top EXCEPT !.pc = "finally"]
<1>2. CASE Throw("fail")
  BY <1>1, <1>2, FailKeeps
<1>3. CASE Go(g)
  <2>1. /\ DOMAIN g = FrameFields /\ g.kind = Top.kind /\ g.err = Top.err /\ g.owing = Top.owing
        /\ g.saved = Top.saved /\ g.ran = Top.ran /\ g.pc = "finally"
    BY <1>1, Going DEF FrameFields
  <2> HIDE DEF g
  <2>2. TopOK(g, "none", owed)
    BY <1>1, <2>1, Going DEF TopOK, IsFrame, RanInit, RanEnd, RanFinally
  <2>3. QED BY <1>1, <1>3, <2>2, GoKeeps DEF Go
<1>4. QED BY <1>2, <1>3 DEF CheckSize

\* The end of a list.
LEMMA ListEnds ==
  ASSUME IInv, Normal, Top.kind = "loop", Top.pc \in Underway, NEW g,
         IsFrame(g), g.kind = Top.kind, g.err = Top.err, g.saved = Top.saved, g.pc = "return", Go(g)
  PROVE  IInv' /\ Len(stack') = Len(stack)
<1>1. TopOK(g, "none", owed)
  BY Going DEF TopOK, IsFrame
<1>2. QED BY <1>1, GoKeeps DEF Go

\* Whether a list with a count goes on.
LEMMA TestCountKeeps ==
  ASSUME IInv, TestCount
  PROVE  IInv' /\ Len(stack') = Len(stack)
<1>1. Normal /\ Top.kind = "loop" /\ Top.pc = "test" /\ Top.pc \in Underway
  BY DEF TestCount, Is, Underway
<1> DEFINE g == [Top EXCEPT !.pc = "return"]
<1> DEFINE h == [Top EXCEPT !.n = @ - 1, !.pc = "element"]
<1>2. CASE Go(g)
  <2>1. IsFrame(g) /\ g.kind = Top.kind /\ g.err = Top.err /\ g.saved = Top.saved /\ g.pc = "return"
    BY <1>1, Going DEF FrameFields, IsFrame
  <2> HIDE DEF g
  <2>2. QED BY <1>1, <1>2, <2>1, ListEnds
<1>3. CASE Go(h)
  <2>1. Alike(Top, h) /\ h.pc \in Underway
    BY <1>1, Going DEF Alike, FrameFields, Underway, IsFrame
  <2> HIDE DEF h
  <2>2. QED BY <1>1, <1>3, <2>1, MoveKeeps
<1>4. QED BY <1>2, <1>3 DEF TestCount

\* Whether a list that has not moved is at the end of the data.
LEMMA CheckMovedKeeps ==
  ASSUME IInv, CheckMoved
  PROVE  IInv' /\ Len(stack') = Len(stack)
<1>1. Normal /\ Top.pc = "stuck" /\ Top.pc \in Underway
  BY DEF CheckMoved, Is, Underway
<1> DEFINE h == [Top EXCEPT !.pc = "test"]
<1>2. CASE Throw("fail")
  BY <1>1, <1>2, FailKeeps
<1>3. CASE Go(h)
  <2>1. Alike(Top, h) /\ h.pc \in Underway
    BY <1>1, Going DEF Alike, FrameFields, Underway, IsFrame
  <2> HIDE DEF h
  <2>2. QED BY <1>1, <1>3, <2>1, MoveKeeps
<1>4. QED BY <1>2, <1>3 DEF CheckMoved

\* Looking for a token, and consuming it, leave a frame as it was but for where
\* it is in the input.
LEMMA MatchedAlike ==
  ASSUME NEW fr, IsFrame(fr), NEW tokens
  PROVE  /\ Alike(fr, Matched(fr, tokens)) /\ Matched(fr, tokens).pc = fr.pc
         /\ IsFrame(Matched(fr, tokens))
BY DEF Alike, Matched, FrameFields, IsFrame

\* Consuming the token does not matter either.
LEMMA ConsumedAlike ==
  ASSUME NEW fr, IsFrame(fr)
  PROVE  Alike(fr, Consume(fr)) /\ IsFrame(Consume(fr))
BY DEF Alike, Consume, FrameFields, IsFrame

\* Two such changes are one.
LEMMA AlikeTwice ==
  ASSUME NEW f, NEW g, NEW h, Alike(f, g), Alike(g, h)
  PROVE  Alike(f, h)
BY DEF Alike

\* Nor do the place and what comes next make a difference.
LEMMA MovedAlike ==
  ASSUME NEW fr, IsFrame(fr), NEW c, NEW pc
  PROVE  /\ Alike(fr, [fr EXCEPT !.cur = c, !.pc = pc]) /\ [fr EXCEPT !.cur = c, !.pc = pc].pc = pc
         /\ Alike(fr, [fr EXCEPT !.pc = pc]) /\ [fr EXCEPT !.pc = pc].pc = pc
         /\ Alike(fr, [fr EXCEPT !.cur = c]) /\ [fr EXCEPT !.cur = c].pc = fr.pc
BY DEF Alike, FrameFields, IsFrame

\* A literal or a byte, in place.
LEMMA ParseInlineKeeps ==
  ASSUME IInv, Normal, Top.pc \in Underway, NEW fr, IsFrame(fr), Alike(Top, fr), NEW fd,
         NEW on, NEW pc \in Underway, ParseInline(fr, fd, on, pc)
  PROVE  IInv' /\ Len(stack') = Len(stack)
<1> DEFINE g == [fr EXCEPT !.cur = @ + 1, !.pc = pc]
<1> DEFINE h == [Consume(fr) EXCEPT !.pc = pc]
<1>1. CASE Throw("fail")
  BY <1>1, FailKeeps
<1>2. CASE Break
  BY <1>2, BreakKeeps
<1>3. CASE GoTrim(g, on)
  <2>1. Alike(Top, g) /\ g.pc = pc
    BY DEF Alike, FrameFields, IsFrame
  <2> HIDE DEF g
  <2>2. QED BY <1>3, <2>1, MoveKeeps
<1>4. CASE GoTrim(h, on)
  <2>1. Alike(Top, Consume(fr)) /\ IsFrame(Consume(fr))
    BY ConsumedAlike, AlikeTwice
  <2>2. Alike(Top, h) /\ h.pc = pc
    BY <2>1, MovedAlike, AlikeTwice
  <2> HIDE DEF h
  <2>3. QED BY <1>4, <2>2, MoveKeeps
<1>5. Throw("fail") \/ Break \/ GoTrim(g, on) \/ GoTrim(h, on)
  BY DEF ParseInline
<1>6. QED BY <1>1, <1>2, <1>3, <1>4, <1>5

\* Whether a list goes on, by look-ahead.
LEMMA TestLookAheadKeeps ==
  ASSUME IInv, TestLookAhead
  PROVE  IInv' /\ Len(stack') = Len(stack)
<1>1. Normal /\ Top.kind = "loop" /\ Top.pc = "test" /\ Top.pc \in Underway
  BY DEF TestLookAhead, Is, Underway
<1>2. IsFrame(Top)
  BY <1>1, Going
<1> DEFINE tokens == First(FieldOf(Top)) \cup FieldOf(Top).follow
<1> DEFINE fr == IF Top.lah # None THEN Top
                 ELSE IF AtEod(Top) THEN [Top EXCEPT !.lah = Eod]
                 ELSE Matched(Top, tokens)
<1> DEFINE again == [fr EXCEPT !.pc = "element", !.begin = fr.cur]
<1> DEFINE end == [fr EXCEPT !.pc = "return"]
<1>3. \/ Break \/ Throw("fail") \/ Go(again) \/ Go(end)
      \/ Replace(fr) /\ exc' = "fail" /\ UNCHANGED <<inputVars, head, result, broken, owed>>
  BY DEF TestLookAhead
<1>4. IsFrame(fr) /\ Alike(Top, fr) /\ fr.pc = Top.pc
  <2>1. CASE fr = Top
    BY <1>2, <2>1 DEF Alike, IsFrame
  <2>2. CASE fr = [Top EXCEPT !.lah = Eod]
    BY <1>2, <2>2 DEF Alike, IsFrame, FrameFields
  <2>3. CASE fr = Matched(Top, tokens)
    <3> HIDE DEF tokens
    <3>1. QED BY <1>2, <2>3, MatchedAlike
  <2>4. QED BY <2>1, <2>2, <2>3
<1> HIDE DEF fr
<1>5. CASE Break
  BY <1>5, BreakKeeps
<1>6. CASE Throw("fail")
  BY <1>1, <1>6, FailKeeps
<1>7. CASE Go(again)
  <2>1. Alike(Top, again) /\ again.pc \in Underway
    BY <1>4 DEF Alike, IsFrame, FrameFields, Underway
  <2> HIDE DEF again
  <2>2. QED BY <1>1, <1>7, <2>1, MoveKeeps
<1>8. CASE Go(end)
  <2>1. /\ DOMAIN end = FrameFields /\ end.kind = Top.kind /\ end.err = Top.err
        /\ end.owing = fr.owing /\ end.saved = Top.saved /\ end.pc = "return"
    BY <1>4 DEF Alike, IsFrame, FrameFields
  <2>2. IsFrame(end)
    BY <1>2, <1>4, <2>1 DEF IsFrame
  <2> HIDE DEF end
  <2>3. QED BY <1>1, <1>8, <2>1, <2>2, ListEnds
<1>9. CASE Replace(fr) /\ exc' = "fail" /\ UNCHANGED <<inputVars, head, result, broken, owed>>
  <2>1. TopOK(fr, "fail", owed)
    BY <1>1, <1>4, Going DEF TopOK, Alike
  <2>2. exc' \in Exceptions \cup {"none"} /\ owed' = owed /\ owed \in BOOLEAN /\ Len(stack) > 0
    BY <1>1, <1>9, Going DEF Exceptions
  <2>3. QED BY <1>9, <2>1, <2>2, ReplaceKeeps
<1>10. QED BY <1>3, <1>5, <1>6, <1>7, <1>8, <1>9

\* A round of the search for a synchronisation point.
LEMMA SearchKeeps ==
  ASSUME IInv, Search
  PROVE  IInv' /\ Len(stack') = Len(stack)
<1>1. Normal /\ Top.pc = "search" /\ Top.pc \in Underway
  BY DEF Search, Underway
<1>2. IsFrame(Top)
  BY <1>1, Going
<1> DEFINE tokens == SyncTokens(Top)
<1> DEFINE fr == Matched(Top, tokens)
<1> DEFINE skipped == [Top EXCEPT !.cur = NextData(Top)]
<1> DEFINE next == [fr EXCEPT !.cur = NextData(Top)]
<1>3. \/ Throw("fail") \/ Break \/ Found(fr)
      \/ GoTrim(skipped, Top.trim) \/ GoTrim(next, Top.trim)
  BY DEF Search
<1> HIDE DEF tokens
<1>4. IsFrame(fr) /\ Alike(Top, fr) /\ fr.pc = "search"
  BY <1>1, <1>2, MatchedAlike
<1>5. CASE Throw("fail")
  BY <1>1, <1>5, FailKeeps
<1>6. CASE Break
  BY <1>6, BreakKeeps
<1>7. CASE GoTrim(skipped, Top.trim)
  <2>1. Alike(Top, skipped) /\ skipped.pc \in Underway
    BY <1>1, <1>2, MovedAlike
  <2> HIDE DEF skipped
  <2>2. QED BY <1>1, <1>7, <2>1, AlikeKeeps DEF GoTrim
<1> HIDE DEF fr
<1>8. CASE GoTrim(next, Top.trim)
  <2>1. Alike(Top, next) /\ next.pc \in Underway
    BY <1>1, <1>4, MovedAlike, AlikeTwice
  <2> HIDE DEF next
  <2>2. QED BY <1>1, <1>8, <2>1, AlikeKeeps DEF GoTrim
<1>9. CASE Found(fr)
  <2> DEFINE base == IF SyncsAfter(fr) THEN Consume(fr) ELSE fr
  <2> DEFINE found == [base EXCEPT !.pc = "synced", !.trial = @ \cup {SyncPoint(fr)}]
  <2> DEFINE moved == [fr EXCEPT !.cur = NextData(fr)]
  <2> DEFINE here == [fr EXCEPT !.pc = "synced"]
  <2>1. GoTrim(found, fr.trim) \/ GoTrim(moved, fr.trim) \/ Go(here)
    BY <1>9 DEF Found
  <2>2. Alike(Top, here) /\ here.pc = "synced" /\ Alike(Top, moved) /\ moved.pc = "search"
    BY <1>4, MovedAlike, AlikeTwice
  <2>3. Alike(Top, base) /\ IsFrame(base)
    BY <1>4, ConsumedAlike, AlikeTwice
  <2> HIDE DEF base
  <2>4. Alike(Top, found) /\ found.pc = "synced"
    BY <2>3 DEF Alike, IsFrame, FrameFields
  <2> HIDE DEF found, moved, here
  <2>5. QED BY <1>1, <2>1, <2>2, <2>4, AlikeKeeps DEF GoTrim, Go, Underway
<1>10. QED BY <1>3, <1>5, <1>6, <1>7, <1>8, <1>9

-----------------------------------------------------------------------------
\* Calls.  The new frame takes over the error of its caller.
LEMMA FrameOK ==
  ASSUME IInv, Normal, Top.saved = "none", NEW kind \in {"unit", "loop"}, NEW u,
         NEW fr, fr.err = Top.err, NEW trim, NEW stop
  PROVE  TopOK(Frame(kind, u, fr, trim, stop), exc, owed)
<1> DEFINE g == Frame(kind, u, fr, trim, stop)
<1>1. /\ DOMAIN g = FrameFields /\ g.kind = kind /\ g.err = fr.err /\ g.owing = FALSE
      /\ g.saved = "none" /\ g.pc = (IF kind = "loop" THEN "test" ELSE "init")
  BY DEF Frame, FrameFields
<1> HIDE DEF g
<1>2. IsFrame(g)
  BY <1>1, Going DEF IsFrame
<1>3. kind = "unit" => g.pc = "init"
  BY <1>1
<1>4. QED BY <1>1, <1>2, <1>3, Going DEF TopOK, RanInit, RanEnd, RanFinally, g

\* A field of a unit.
LEMMA ParseFieldKeeps ==
  ASSUME IInv, ParseField
  PROVE  IInv' /\ (Len(stack') < Len(stack) => FALSE)
<1>1. Normal /\ Top.kind = "unit" /\ Top.pc = "field" /\ Top.saved = "none" /\ Top.pc \in Underway
  BY Going DEF ParseField, Is, Underway
<1>2. IsFrame(Top) /\ owed \in BOOLEAN /\ Len(stack) \in Nat /\ (owed => Top.err) /\ "init" \in Top.ran
  BY <1>1, Going DEF TopOK, RanInit, IInv, IsStack
<1> DEFINE fd == FieldOf(Top)
<1> DEFINE on == Top.trim /\ ~fd.try
<1> DEFINE fr == [Top EXCEPT !.back = Top.cur, !.owing = owed]
<1> DEFINE called == [fr EXCEPT !.pc = "called"]
<1>3. \/ Call(called, Frame("loop", Top.unit, fr, on, Top.stop))
      \/ Call(called, UnitFrame(fd.name, fr, on))
      \/ ParseInline(fr, fd, Top.trim, "hook")
  BY DEF ParseField
<1>4. IsFrame(fr) /\ Alike(Top, fr) /\ fr.err = Top.err
  BY <1>2 DEF IsFrame, Alike, FrameFields
<1>5. LowerOK(called)
  <2>1. /\ DOMAIN called = FrameFields /\ called.kind = Top.kind /\ called.err = Top.err
        /\ called.owing = owed /\ called.saved = "none" /\ called.pc = "called" /\ called.ran = Top.ran
    BY <1>1, <1>2 DEF IsFrame, FrameFields
  <2> HIDE DEF called
  <2>2. QED BY <1>2, <2>1 DEF LowerOK, IsFrame
<1> HIDE DEF fr, called, on
<1>6. CASE Call(called, Frame("loop", Top.unit, fr, on, Top.stop))
  <2> DEFINE callee == Frame("loop", Top.unit, fr, on, Top.stop)
  <2>1. TopOK(callee, exc, owed)
    BY <1>1, <1>4, FrameOK
  <2> HIDE DEF callee
  <2>2. QED BY <1>1, <1>2, <1>5, <1>6, <2>1, Going, CallKeeps DEF callee
<1>7. CASE Call(called, UnitFrame(fd.name, fr, on))
  <2> DEFINE callee == UnitFrame(fd.name, fr, on)
  <2>1. TopOK(callee, exc, owed)
    BY <1>1, <1>4, FrameOK DEF UnitFrame
  <2> HIDE DEF callee
  <2>2. QED BY <1>1, <1>2, <1>5, <1>7, <2>1, Going, CallKeeps DEF callee
<1>8. CASE ParseInline(fr, fd, Top.trim, "hook")
  BY <1>1, <1>2, <1>4, <1>8, ParseInlineKeeps DEF Underway
<1>9. QED BY <1>3, <1>6, <1>7, <1>8

\* An element of a list.
LEMMA ParseElementKeeps ==
  ASSUME IInv, ParseElement
  PROVE  IInv' /\ (Len(stack') < Len(stack) => FALSE)
<1>1. Normal /\ Top.kind = "loop" /\ Top.pc = "element" /\ Top.saved = "none" /\ Top.pc \in Underway
  BY Going DEF ParseElement, Is, Underway
<1>2. IsFrame(Top) /\ Len(stack) \in Nat
  BY <1>1, Going DEF IInv, IsStack
<1> DEFINE fd == FieldOf(Top)
<1> DEFINE called == [Top EXCEPT !.pc = "called"]
<1>3. Call(called, UnitFrame(fd.name, Top, Top.trim)) \/ ParseInline(Top, fd, Top.trim, "item")
  BY DEF ParseElement
<1>4. LowerOK(called)
  <2>1. /\ DOMAIN called = FrameFields /\ called.kind = "loop" /\ called.err = Top.err
        /\ called.owing = Top.owing /\ called.saved = "none" /\ called.pc = "called"
    BY <1>1, <1>2 DEF IsFrame, FrameFields
  <2> HIDE DEF called
  <2>2. QED BY <1>2, <2>1 DEF LowerOK, IsFrame
<1>5. CASE Call(called, UnitFrame(fd.name, Top, Top.trim))
  <2> DEFINE callee == UnitFrame(fd.name, Top, Top.trim)
  <2>1. TopOK(callee, exc, owed)
    BY <1>1, FrameOK DEF UnitFrame
  <2> HIDE DEF callee, called
  <2>2. QED BY <1>1, <1>2, <1>4, <1>5, <2>1, Going, CallKeeps DEF callee
<1>6. CASE ParseInline(Top, fd, Top.trim, "item")
  <2>1. Alike(Top, Top)
    BY <1>2 DEF Alike, IsFrame
  <2>2. QED BY <1>1, <1>2, <1>6, <2>1, ParseInlineKeeps DEF Underway
<1>7. QED BY <1>3, <1>5, <1>6

-----------------------------------------------------------------------------
\* Leaving a function: a unit has then run its hooks.
HooksRan(fr) ==
  fr.kind = "unit" => {"init", "finally"} \subseteq fr.ran /\ {"done", "error"} \cap fr.ran # {}

\* A function returns to its caller, or to the host.
LEMMA ReturnKeeps ==
  ASSUME IInv, Return
  PROVE  IInv' /\ HooksRan(Top)
<1>1. Normal /\ Top.pc = "return" /\ Top.saved = "none" /\ exc' = exc /\ owed' = owed
  BY DEF Return
<1>2. /\ Len(stack) > 0 /\ TopOK(Top, "none", owed) /\ exc = "none" /\ IsFrame(Top)
      /\ Len(stack) \in Nat /\ IsStack(stack) /\ (owed => Top.err)
  BY <1>1, Going DEF IInv, IsStack, TopOK
<1>3. HooksRan(Top)
  BY <1>1, <1>2 DEF HooksRan, TopOK, RanInit, RanEnd, RanFinally
<1> DEFINE caller == stack[Len(stack) - 1]
<1> DEFINE g == Resumed(caller, Top)
<1>4. ASSUME Len(stack) = 1
      PROVE  stack' = Pop /\ (result' = "failure" \/ (result' = "success" /\ ~owed))
  BY <1>2, <1>4 DEF Return
<1>5. ASSUME Len(stack) > 1
      PROVE  IsReplaced(Pop, g, stack') /\ TopOK(g, "none", owed) /\ result' = result
  <2>0. Len(stack) # 1
    <3>1. \A n \in Nat : n > 1 => n # 1
      OBVIOUS
    <3>2. QED BY <1>2, <1>5, <3>1
  <2>1. stack' = [Pop EXCEPT ![Len(stack) - 1] = g] /\ result' = result
    BY <2>0 DEF Return
  <2>2. IsStack(Pop) /\ Len(Pop) = Len(stack) - 1
    BY <1>2, <1>5, PoppedStack DEF Pop
  <2>3. LowerOK(caller)
    BY <1>2, <1>5 DEF IInv
  <2>4. /\ DOMAIN g = FrameFields /\ g.kind = caller.kind /\ g.err = Top.err
        /\ g.owing = caller.owing /\ g.saved = "none" /\ g.ran = caller.ran
        /\ g.pc = IF caller.kind = "unit" THEN "hook" ELSE "item"
    BY <2>3 DEF Resumed, LowerOK, IsFrame, FrameFields
  <2> HIDE DEF g
  <2>5. IsReplaced(Pop, g, stack')
    <3>1. IsStack(Pop) /\ Len(Pop) > 0 /\ stack' = [Pop EXCEPT ![Len(Pop)] = g]
      BY <1>2, <1>5, <2>1, <2>2
    <3> HIDE DEF Pop
    <3>2. QED BY ONLY <3>1, ReplacedStack
  <2>6. TopOK(g, "none", owed)
    BY <1>2, <2>3, <2>4 DEF TopOK, LowerOK, IsFrame, RanInit, RanEnd, RanFinally
  <2>7. QED BY <2>1, <2>5, <2>6
<1> HIDE DEF g
<1>6. IInv'
  BY <1>1, <1>2, <1>4, <1>5, PopKeeps
<1>7. QED BY <1>3, <1>6

\* A frame that is left by an exception gives way to its caller.
LEMMA LeaveKeeps ==
  ASSUME IInv, Len(stack) > 0, NEW e \in Exceptions, Leave(e)
  PROVE  IInv'
<1>1. /\ stack' = Pop /\ owed' = owed /\ exc' = (IF Len(stack) = 1 THEN "none" ELSE e)
      /\ result' = IF Len(stack) = 1 THEN "failure" ELSE result
  BY DEF Leave
<1>2. Len(stack) \in Nat /\ IsStack(stack)
  BY DEF IInv, IsStack
<1> DEFINE caller == stack[Len(stack) - 1]
<1>3. ASSUME Len(stack) > 1
      PROVE  IsReplaced(Pop, caller, stack') /\ TopOK(caller, exc', owed) /\ result' = result
  <2>1. /\ IsStack(Pop) /\ Len(Pop) = Len(stack) - 1
        /\ \A i \in 1 .. Len(stack) - 1 : Pop[i] = stack[i]
    BY <1>2, <1>3, PoppedStack DEF Pop
  <2>2. LowerOK(caller)
    BY <1>2, <1>3 DEF IInv
  <2>0. Len(stack) # 1
    <3>1. \A n \in Nat : n > 1 => n # 1
      OBVIOUS
    <3>2. QED BY <1>2, <1>3, <3>1
  <2>3. exc' = e /\ e # "none"
    BY <1>1, <2>0 DEF Exceptions
  <2>4. TopOK(caller, e, owed)
    BY <2>2, <2>3 DEF TopOK, LowerOK, RanInit, RanEnd, RanFinally
  <2>5. Len(stack) - 1 \in 1 .. Len(stack) - 1
    BY <1>2, <1>3
  <2>6. \A i \in 1 .. Len(Pop) - 1 : Pop[i] = Pop[i]
    OBVIOUS
  <2>7. IsReplaced(Pop, caller, stack')
    <3>1. Pop[Len(Pop)] = caller
      BY <2>1, <2>5
    <3> HIDE DEF Pop, caller
    <3>2. QED BY <1>1, <2>1, <2>6, <3>1 DEF IsReplaced
  <2>8. result' = result
    BY <1>1, <2>0
  <2>9. QED BY <2>3, <2>4, <2>7, <2>8
<1> HIDE DEF caller
<1>4. QED BY <1>1, <1>2, <1>3, PopKeeps

\* Stage 1 throws again what it caught.
LEMMA RethrowKeeps ==
  ASSUME IInv, Rethrow
  PROVE  IInv' /\ HooksRan(Top)
<1>1. Normal /\ Top.pc = "return" /\ Top.saved # "none" /\ Leave(Top.saved)
  BY DEF Rethrow
<1>2. HooksRan(Top)
  BY <1>1, Going DEF HooksRan, TopOK, RanInit, RanEnd, RanFinally
<1>3. Top.saved \in Exceptions
  BY <1>1, Going DEF IsFrame
<1>4. QED BY <1>1, <1>2, <1>3, Going, LeaveKeeps

\* An exception that no handler is for.
LEMMA NotCaughtKeeps ==
  ASSUME IInv, NotCaught
  PROVE  IInv' /\ (ErrorsReturn => HooksRan(Top))
<1>1. Running /\ exc # "none" /\ Leave(exc) /\ (Top.kind = "unit" => Top.pc \in {"error", "finally"})
  BY DEF NotCaught, Throwing
<1>2. exc \in Exceptions /\ Len(stack) > 0 /\ TopOK(Top, exc, owed)
  BY <1>1 DEF IInv, Running
<1>3. ErrorsReturn => HooksRan(Top)
  BY <1>1, <1>2 DEF HooksRan, TopOK, RanInit, RanEnd, RanFinally
<1>4. QED BY <1>1, <1>2, <1>3, LeaveKeeps

-----------------------------------------------------------------------------
\* Catching.  &try takes back the error that was caught since the field began.
LEMMA CatchBacktrackKeeps ==
  ASSUME IInv, CatchBacktrack
  PROVE  IInv' /\ Len(stack') = Len(stack)
<1>1. /\ Running /\ exc = "backtrack" /\ Top.kind = "unit" /\ Top.pc \in {"field", "called"}
      /\ Replace([Top EXCEPT !.cur = Top.back, !.pc = "hook"])
      /\ exc' = "none" /\ owed' = Top.owing /\ result' = result
  BY DEF CatchBacktrack, Throwing, TryCatches, InField
<1>2. Len(stack) > 0 /\ TopOK(Top, exc, owed) /\ IsFrame(Top)
  BY <1>1 DEF IInv, Running, TopOK
<1>3. Top.pc = "called" /\ Top.saved = "none" /\ (Top.owing => Top.err) /\ "init" \in Top.ran
  BY <1>1, <1>2 DEF TopOK, RanInit
<1> DEFINE g == [Top EXCEPT !.cur = Top.back, !.pc = "hook"]
<1>4. /\ DOMAIN g = FrameFields /\ g.kind = Top.kind /\ g.err = Top.err /\ g.owing = Top.owing
      /\ g.saved = "none" /\ g.ran = Top.ran /\ g.pc = "hook"
  BY <1>2, <1>3 DEF IsFrame, FrameFields
<1>5. Replace(g)
  BY <1>1
<1> HIDE DEF g
<1>6. IsFrame(g) /\ owed' \in BOOLEAN
  BY <1>1, <1>2, <1>4 DEF IsFrame
<1>7. owed' => g.err
  BY <1>1, <1>3, <1>4
<1>8. TopOK(g, "none", owed')
  BY <1>3, <1>4, <1>6, <1>7 DEF TopOK, RanInit, RanEnd, RanFinally
<1>9. QED BY <1>1, <1>2, <1>5, <1>6, <1>8, ReplaceKeeps

\* The other handlers for errors leave the frame with a pending error.
LEMMA CaughtKeeps ==
  ASSUME IInv, Running, exc # "none", Top.saved = "none",
         NEW g, Replace(g), exc' = "none", owed' = TRUE, result' = result,
         DOMAIN g = FrameFields, g.kind = Top.kind, g.err = TRUE, g.owing = Top.owing,
         g.saved = "none", g.ran = Top.ran, g.pc \in {"loop", "search"}, Top.pc # "return"
  PROVE  IInv' /\ Len(stack') = Len(stack)
<1>1. Len(stack) > 0 /\ TopOK(Top, exc, owed) /\ IsFrame(Top)
  BY DEF IInv, Running, TopOK
<1>2. IsFrame(g)
  BY <1>1 DEF IsFrame
<1>3. TopOK(g, "none", owed')
  BY <1>1, <1>2 DEF TopOK, RanInit, RanEnd, RanFinally
<1>4. QED BY <1>1, <1>3, ReplaceKeeps

\* Where an exception is caught nothing else is kept to be thrown.
LEMMA NothingSaved ==
  ASSUME IInv, Throwing
  PROVE  /\ Running /\ exc # "none" /\ exc \in Exceptions /\ Len(stack) > 0
         /\ TopOK(Top, exc, owed) /\ IsFrame(Top) /\ DOMAIN Top = FrameFields /\ Top.pc # "return"
         /\ Top.pc \notin {"error", "finally"} => Top.saved = "none"
BY DEF IInv, Throwing, Running, TopOK, IsFrame

\* A group of fields goes on at the next synchronisation point.
LEMMA CatchInGroupKeeps ==
  ASSUME IInv, CatchInGroup
  PROVE  IInv' /\ Len(stack') = Len(stack)
<1>1. Throwing /\ Top.pc \in {"field", "called", "hook"}
  BY DEF CatchInGroup, GroupCatches
<1> DEFINE p == SyncField(Top.unit, Group(Top.unit, Top.f) + 1)
<1> DEFINE g == [[Top EXCEPT !.f = p, !.pc = "loop"] EXCEPT !.err = TRUE]
<1>2. Replace(g) /\ exc' = "none" /\ owed' = TRUE /\ result' = result
  BY DEF CatchInGroup, Catch
<1> HIDE DEF p
<1>3. /\ DOMAIN g = FrameFields /\ g.kind = Top.kind /\ g.err = TRUE /\ g.owing = Top.owing
      /\ g.saved = Top.saved /\ g.ran = Top.ran /\ g.pc = "loop"
  BY <1>1, NothingSaved DEF FrameFields
<1> HIDE DEF g
<1>4. QED BY <1>1, <1>2, <1>3, NothingSaved, CaughtKeeps

\* A failing trial starts another search.
LEMMA CatchInTrialKeeps ==
  ASSUME IInv, CatchInTrial
  PROVE  IInv' /\ Len(stack') = Len(stack)
<1>1. Throwing /\ Top.pc \notin {"error", "finally"}
  BY DEF CatchInTrial, Trials
<1> DEFINE p == SyncField(Top.unit, CHOOSE t \in Trials(Top) : \A u \in Trials(Top) : u <= t)
<1> DEFINE g == [[Top EXCEPT !.f = p, !.pc = "loop", !.cur = NextData(Top)] EXCEPT !.err = TRUE]
<1>2. Replace(g) /\ exc' = "none" /\ owed' = TRUE /\ result' = result
  BY DEF CatchInTrial, Catch
<1> HIDE DEF p
<1>3. /\ DOMAIN g = FrameFields /\ g.kind = Top.kind /\ g.err = TRUE /\ g.owing = Top.owing
      /\ g.saved = Top.saved /\ g.ran = Top.ran /\ g.pc = "loop"
  BY <1>1, NothingSaved DEF FrameFields
<1> HIDE DEF g
<1>4. QED BY <1>1, <1>2, <1>3, NothingSaved, CaughtKeeps

\* A list looks for its next element.
LEMMA CatchInListKeeps ==
  ASSUME IInv, CatchInList
  PROVE  IInv' /\ Len(stack') = Len(stack)
<1>1. Throwing /\ Top.kind = "loop"
  BY DEF CatchInList
<1> DEFINE g == [[Top EXCEPT !.pc = "search", !.searched = Top.cur] EXCEPT !.err = TRUE]
<1>2. Replace(g) /\ exc' = "none" /\ owed' = TRUE /\ result' = result
  BY DEF CatchInList, Catch
<1>3. /\ DOMAIN g = FrameFields /\ g.kind = Top.kind /\ g.err = TRUE /\ g.owing = Top.owing
      /\ g.saved = Top.saved /\ g.ran = Top.ran /\ g.pc = "search"
  BY <1>1, NothingSaved DEF FrameFields
<1> HIDE DEF g
<1>4. Top.saved = "none"
  BY <1>1, NothingSaved DEF TopOK
<1>5. QED BY <1>1, <1>2, <1>3, <1>4, NothingSaved, CaughtKeeps

\* Stage 1 keeps the exception until %error and %finally have run.
LEMMA CatchInStage1Keeps ==
  ASSUME IInv, CatchInStage1
  PROVE  IInv' /\ Len(stack') = Len(stack)
<1>1. /\ Throwing /\ Top.kind = "unit" /\ Top.pc \notin {"error", "finally"}
      /\ exc' = "none" /\ result' = result /\ owed' = owed
  BY DEF CatchInStage1
<1> DEFINE g == [Top EXCEPT !.pc = "error", !.saved = exc]
<1>2. Replace(g)
  BY DEF CatchInStage1
<1>3. /\ DOMAIN g = FrameFields /\ g.kind = Top.kind /\ g.err = Top.err /\ g.owing = Top.owing
      /\ g.saved = exc /\ g.ran = Top.ran /\ g.pc = "error"
  BY <1>1, NothingSaved DEF FrameFields
<1> HIDE DEF g
<1>4. IsFrame(g) /\ owed' \in BOOLEAN
  BY <1>1, <1>3, NothingSaved DEF IsFrame, IInv
<1>5. TopOK(g, "none", owed')
  BY <1>1, <1>3, <1>4, NothingSaved DEF TopOK, RanInit, RanEnd, RanFinally
<1>6. QED BY <1>1, <1>2, <1>4, <1>5, NothingSaved, ReplaceKeeps

-----------------------------------------------------------------------------
\* The host's call begins with one frame.
LEMMA InitInv == Init => IInv
<1>1. SUFFICES ASSUME Init PROVE IInv
  OBVIOUS
<1> DEFINE start == [cur |-> 0, stop |-> Open, lah |-> None, lahEnd |-> 0, err |-> FALSE]
<1>2. PICK u \in Roots : stack = <<UnitFrame(u, start, TRUE)>>
  BY <1>1 DEF Init
<1>3. exc = "none" /\ result = "running" /\ owed = FALSE
  BY <1>1 DEF Init
<1> DEFINE fr == UnitFrame(u, start, TRUE)
<1>4. /\ DOMAIN fr = FrameFields /\ fr.kind = "unit" /\ fr.err = FALSE /\ fr.owing = FALSE
      /\ fr.saved = "none" /\ fr.pc = "init"
  BY DEF UnitFrame, Frame, FrameFields
<1>5. stack = <<fr>>
  BY <1>2
<1> HIDE DEF fr
<1>6. Len(stack) = 1 /\ Top = fr
  BY <1>5 DEF Top
<1>7. IsStack(stack)
  <2>1. stack \in Seq({fr})
    BY <1>5
  <2>2. QED BY <2>1, StackOf
<1>8. TopOK(fr, "none", owed)
  BY <1>3, <1>4 DEF TopOK, IsFrame, RanInit, RanEnd, RanFinally
<1>9. \A i \in 1 .. Len(stack) - 1 : LowerOK(stack[i])
  BY <1>6
<1>10. TopOK(Top, exc, owed) /\ Len(stack) > 0 /\ result = "running"
  BY <1>3, <1>6, <1>8
<1>11. QED BY <1>3, <1>7, <1>9, <1>10 DEF IInv

\* Every step keeps the invariant, and only a frame whose unit has run its hooks
\* is taken from the stack.
LEMMA NextKeeps ==
  ASSUME IInv, [Next]_vars
  PROVE  IInv' /\ (ErrorsReturn /\ Len(stack') < Len(stack) => HooksRan(Top))
<1>1. Len(stack) \in Nat
  BY DEF IInv, IsStack
<1>2. ASSUME IInv' /\ Len(stack') = Len(stack)
      PROVE  IInv' /\ (ErrorsReturn /\ Len(stack') < Len(stack) => HooksRan(Top))
  BY <1>1, <1>2
<1>3. CASE RunInit \/ FieldHook \/ Finalize \/ CheckSize \/ RunError \/ RunFinally
  BY <1>2, <1>3, RunInitKeeps, FieldHookKeeps, FinalizeKeeps, CheckSizeKeeps, RunErrorKeeps,
     RunFinallyKeeps
<1>4. CASE StartSynchronize \/ Search \/ Synced
  BY <1>2, <1>4, StartSynchronizeKeeps, SearchKeeps, SyncedKeeps
<1>5. CASE TestCount \/ TestLookAhead \/ ItemHook \/ CheckMoved
  BY <1>2, <1>5, TestCountKeeps, TestLookAheadKeeps, ItemHookKeeps, CheckMovedKeeps
<1>6. CASE ParseField \/ ParseElement
  BY <1>6, ParseFieldKeeps, ParseElementKeeps
<1>7. CASE Return \/ Rethrow \/ NotCaught
  BY <1>7, ReturnKeeps, RethrowKeeps, NotCaughtKeeps
<1>8. CASE CatchBacktrack \/ CatchInGroup \/ CatchInTrial \/ CatchInList \/ CatchInStage1
  BY <1>2, <1>8, CatchBacktrackKeeps, CatchInGroupKeeps, CatchInTrialKeeps, CatchInListKeeps,
     CatchInStage1Keeps
<1>9. CASE UNCHANGED <<stack, exc, result, owed>>
  <2>1. IInv' /\ Len(stack') = Len(stack)
    BY <1>9, SameKeeps
  <2>2. QED BY <1>2, <2>1
<1>10. Freeze \/ (\E s \in Symbols : Arrive(s)) \/ UNCHANGED vars
         => UNCHANGED <<stack, exc, result, owed>>
  BY DEF Freeze, Arrive, vars
<1>11. QED BY <1>3, <1>4, <1>5, <1>6, <1>7, <1>8, <1>9, <1>10 DEF Next

\* The inductive invariant.
THEOREM Invariant == Spec => []IInv
<1>1. IInv /\ [Next]_vars => IInv'
  BY NextKeeps
<1>2. QED BY <1>1, InitInv, PTL DEF Spec

\* For every grammar, input and behaviour of the hooks: parse() does not report
\* success to the host after an error was skipped over, unless a hook has
\* confirmed since (parser-builder.cc, "successful synchronization never confirmed").
THEOREM SuccessIsConfirmed == Spec => []NoUnconfirmedSuccess
<1>1. IInv => NoUnconfirmedSuccess
  BY DEF IInv, NoUnconfirmedSuccess
<1>2. QED BY <1>1, Invariant, PTL

\* If no %error hook throws, a unit's function that has begun does not come to an
\* end before it has run %done or %error, and %finally after that.
THEOREM FinallyAlwaysRuns == ASSUME ErrorsReturn PROVE Spec => FinallyRuns
<1> DEFINE Left == Len(stack') < Len(stack) /\ Top.kind = "unit"
                     => {"init", "finally"} \subseteq Top.ran /\ {"done", "error"} \cap Top.ran # {}
<1>1. IInv /\ [Next]_vars => Left
  BY NextKeeps DEF HooksRan
<1>2. IInv /\ [Next]_vars => [Left]_vars
  BY <1>1
<1>3. Spec => [][Left]_vars
  BY <1>2, Invariant, PTL DEF Spec
<1>4. QED BY <1>3 DEF FinallyRuns
=============================================================================
