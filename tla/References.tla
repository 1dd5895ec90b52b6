----------------------------- MODULE References -----------------------------
(***************************************************************************)
(* HILTI's references (hilti/runtime/include/types/reference.h): value     *)
(* references that copy the value they hold, and strong and weak ones that *)
(* bind to the value of another.  A method sees its instance through a     *)
(* value reference `self' that holds a raw pointer.                        *)
(***************************************************************************)
EXTENDS Naturals, FiniteSets
CONSTANTS
  Vals, Strongs, Weaks,  \* the program's references
  Self,                  \* the reference __self of the method that runs
  Cells,                 \* 1 .. n: where values are allocated (so not Inline)
  Contents,              \* what a value may be
  None
Inline == 0  \* an instance that is not on the heap

VARIABLES
  rep,       \* what a reference is made of: a pointer that owns, a raw or weak one
  content,   \* the value in each cell; None once it is destroyed
  via,       \* the reference that the running method has been called through
  answer,    \* of the last operation
  \* What the operations' descriptions say:
  kin,       \* the references that share a reference's value; none if it is null
  meant,     \* the value of a reference
  moved      \* what has been moved from
refVars == <<rep, content, via, answer, kin, meant, moved>>

Values == Vals \cup {Self}
Refs == Values \cup Strongs \cup Weaks
Owns(to) == [held |-> "shared", to |-> to]
Raw(to) == [held |-> "raw", to |-> to]
Weakly(to) == [held |-> "weak", to |-> to]

-----------------------------------------------------------------------------
(* The heap *)

Owners(reps, c) == {r \in Refs : reps[r] = Owns(c)}
Alive(c) == c # None /\ content[c] # None
\* A cell's memory is used again when nothing refers to it any more.
FreshCells == {c \in Cells : \A r \in Refs : rep[r].to # c}
Fresh == CHOOSE c \in FreshCells : TRUE

\* The references become reps, the cells in DOMAIN writes are assigned, and a
\* value without owners is destroyed.
Becomes(reps, writes) ==
  /\ rep' = reps
  /\ content' = [c \in DOMAIN content |->
       IF c # Inline /\ Owners(reps, c) = {} THEN None
       ELSE IF c \in DOMAIN writes THEN writes[c] ELSE content[c]]
One(c, x) == [d \in {c} |-> x]
Nothing == [d \in {} |-> 0]

-----------------------------------------------------------------------------
(* What each operation is described to do *)

Live(q) == kin[q] \cap (Vals \cup Strongs) # {} \/ (via = Inline /\ Self \in kin[q])
\* r stands alone, with value x.
Leaves(r) == [q \in Refs |-> kin[q] \ {r}]
Alone(r, x) ==
  /\ kin' = [Leaves(r) EXCEPT ![r] = {r}] /\ meant' = [meant EXCEPT ![r] = x]
Unset(r) ==
  /\ kin' = [Leaves(r) EXCEPT ![r] = {}] /\ meant' = [meant EXCEPT ![r] = None]
\* r joins q.
Joined(r, q) ==
  IF ~Live(q) THEN Unset(r)
  ELSE /\ kin' = [p \in Refs |-> IF p \in kin[q] \cup {r} THEN kin[q] \cup {r} ELSE kin[p] \ {r}]
       /\ meant' = [meant EXCEPT ![r] = meant[q]]
\* v takes the place of u, which is left with nothing.
Replaced(v, u) ==
  LET heirs == IF kin[u] = {} THEN {} ELSE (kin[u] \ {u}) \cup {v}
  IN  /\ kin' = [q \in Refs |->
           IF q = u THEN {} ELSE IF q = v \/ q \in kin[u] THEN heirs ELSE kin[q] \ {v}]
      /\ meant' = [meant EXCEPT ![v] = meant[u], ![u] = None]
\* r's value changes, for all that share it.
Changes(r, x) ==
  /\ meant' = [q \in Refs |-> IF q \in kin[r] THEN x ELSE meant[q]]
  /\ UNCHANGED kin

-----------------------------------------------------------------------------
(* Value references *)

\* _safeGet(): what it throws, or that the value is there.
\* Mutant: it does not look at what it returns.
SafeGet_Unchecked(v) == IF Alive(rep[v].to) THEN "ok" ELSE "undefined"
SafeGet(v) ==
  CASE Alive(rep[v].to) -> "ok"
    [] rep[v].held = "shared" /\ rep[v].to = None -> "null"
    [] OTHER -> "undefined"
\* asSharedPtr(): the pointer, a null one, or an exception.
AsSharedPtr(v) ==
  IF rep[v].held = "shared" THEN "ok"
  ELSE IF rep[v].to \in {None, Inline} THEN "illegal"
  ELSE IF Alive(rep[v].to) THEN "ok" ELSE "undefined"

Answers(what) == answer' = what
Fails(what) == Answers(what) /\ UNCHANGED <<rep, content, via, kin, meant, moved>>
Keep(others) == UNCHANGED <<via, others>>
Sees(r) == content[rep[r].to]

\* ValueReference(T)
New(v, x) ==
  /\ FreshCells # {}
  /\ Becomes([rep EXCEPT ![v] = Owns(Fresh)], One(Fresh, x))
  /\ Alone(v, x) /\ moved' = moved \ {v} /\ Answers("ok") /\ UNCHANGED via
\* ValueReference(const ValueReference&), in place of what v was.
\* Mutant: the copy shares the value.
CopyConstruct_Shared(v, u) ==
  /\ v # u
  /\ Becomes([rep EXCEPT ![v] = Owns(rep[u].to)], Nothing)
  /\ (IF Live(u) THEN Alone(v, meant[u]) ELSE Unset(v))
  /\ moved' = moved \ {v} /\ Answers("ok") /\ UNCHANGED via
CopyConstruct(v, u) ==
  /\ v # u
  /\ IF rep[u].to = None
     THEN /\ Becomes([rep EXCEPT ![v] = Owns(None)], Nothing)
          /\ Unset(v) /\ moved' = moved \ {v} /\ Answers("ok") /\ UNCHANGED via
     ELSE IF ~Alive(rep[u].to) THEN Fails("undefined")
     ELSE /\ FreshCells # {}
          /\ Becomes([rep EXCEPT ![v] = Owns(Fresh)], One(Fresh, Sees(u)))
          /\ Alone(v, meant[u]) /\ moved' = moved \ {v} /\ Answers("ok") /\ UNCHANGED via
\* ValueReference(ValueReference&&): a raw pointer stays with its source.
MoveConstruct(v, u) ==
  /\ v # u /\ u # Self
  /\ Becomes([rep EXCEPT ![v] = rep[u], ![u] = IF rep[u].held = "shared" THEN Owns(None) ELSE rep[u]], Nothing)
  /\ Replaced(v, u)
  /\ moved' = (moved \ {v}) \cup (IF u \in moved THEN {v, u} ELSE {}) /\ Answers("ok") /\ UNCHANGED via
\* operator=(T) and operator=(const ValueReference&): the value is assigned to,
\* so that others see the change.
Assign(v, x) ==
  IF SafeGet(v) # "ok" THEN Fails(SafeGet(v))
  ELSE /\ Becomes(rep, One(rep[v].to, x)) /\ Changes(v, x)
       /\ Answers("ok") /\ Keep(moved)
\* Mutant: the reference is bound to the other's value.
CopyAssign_Binds(v, u) ==
  /\ v # u
  /\ IF SafeGet(u) # "ok" THEN Fails(SafeGet(u))
     ELSE /\ Becomes([rep EXCEPT ![v] = rep[u]], Nothing) /\ Changes(v, meant[u])
          /\ Answers("ok") /\ Keep(moved)
CopyAssign(v, u) ==
  /\ v # u
  /\ IF SafeGet(u) # "ok" THEN Fails(SafeGet(u))
     ELSE IF SafeGet(v) # "ok" THEN Fails(SafeGet(v))
     ELSE /\ Becomes(rep, One(rep[v].to, Sees(u))) /\ Changes(v, meant[u])
          /\ Answers("ok") /\ Keep(moved)
\* operator=(ValueReference&&): neither side is looked at, and what is left of the
\* source is a raw null pointer.
MoveAssign(v, u) ==
  /\ v # u /\ u # Self
  /\ IF ~Alive(rep[u].to) \/ ~Alive(rep[v].to) THEN Fails("undefined")
     ELSE /\ Becomes([rep EXCEPT ![u] = Raw(None)], One(rep[v].to, Sees(u)))
          /\ meant' = [q \in Refs |-> IF q = u THEN None ELSE IF q \in kin[v] THEN meant[u] ELSE meant[q]]
          /\ kin' = [Leaves(u) EXCEPT ![u] = {}]
          /\ moved' = moved \cup {u} /\ Answers("ok") /\ UNCHANGED via
\* operator=(std::shared_ptr<T>) and ValueReference(std::shared_ptr<T>), with what
\* derefAsValue() of a strong or a weak reference hands over.
AssignShared(v, r) ==
  LET p == IF Alive(rep[r].to) THEN rep[r].to ELSE None
  IN  /\ Becomes(IF rep[v].to = p THEN rep ELSE [rep EXCEPT ![v] = Owns(p)], Nothing)
      /\ Joined(v, r)
      /\ moved' = (IF rep[v].to = p THEN moved ELSE moved \ {v}) /\ Answers("ok") /\ UNCHANGED via
\* reset(), and a reference that goes out of scope.
Reset(v) ==
  /\ Becomes([rep EXCEPT ![v] = Owns(None)], Nothing)
  /\ Unset(v) /\ moved' = moved \ {v} /\ Answers("ok") /\ UNCHANGED via

-----------------------------------------------------------------------------
(* Strong and weak references *)

NewStrong(s, x) ==
  /\ FreshCells # {}
  /\ Becomes([rep EXCEPT ![s] = Owns(Fresh)], One(Fresh, x)) /\ Alone(s, x)
  /\ Answers("ok") /\ Keep(moved)
As(s, c) == IF s \in Strongs THEN Owns(c) ELSE Weakly(c)
\* StrongReference(const ValueReference&), WeakReference(const ValueReference&) and
\* the assignments.
Bind(s, v) ==
  IF AsSharedPtr(v) # "ok" THEN Fails(AsSharedPtr(v))
  ELSE /\ Becomes([rep EXCEPT ![s] = As(s, rep[v].to)], Nothing)
       /\ Joined(s, v) /\ Answers("ok") /\ Keep(moved)
\* Construction and assignment from a strong reference, and of a weak one from
\* another, which may have expired.
Share(s, t) ==
  /\ s # t /\ (s \in Strongs => t \in Strongs)
  /\ Becomes([rep EXCEPT ![s] = As(s, rep[t].to)], Nothing)
  /\ (IF Live(t) \/ kin[t] = {} THEN Joined(s, t)
      ELSE kin' = [q \in Refs |-> IF q \in kin[t] \cup {s} THEN kin[t] \cup {s} ELSE kin[q] \ {s}]
           /\ meant' = [meant EXCEPT ![s] = meant[t]])
  /\ Answers("ok") /\ Keep(moved)
\* The same by moving: the source becomes null.
MoveRef(s, t) ==
  /\ s # t /\ {s, t} \in (SUBSET Strongs) \cup (SUBSET Weaks)
  /\ Becomes([rep EXCEPT ![s] = rep[t], ![t] = As(t, None)], Nothing)
  /\ Replaced(s, t)
  /\ Answers("ok") /\ Keep(moved)
ResetRef(s) ==
  /\ Becomes([rep EXCEPT ![s] = As(s, None)], Nothing) /\ Unset(s)
  /\ Answers("ok") /\ Keep(moved)

\* What operator* of either finds: a reference that has never been set, or one
\* that has expired, throws.
CheckStrong(s) == IF rep[s].to = None THEN "null" ELSE "ok"
IsExpired(w) == rep[w].to # None /\ ~Alive(rep[w].to)
\* Mutant: a reference that has expired counts as null.
CheckWeak_Null(w) == IF ~Alive(rep[w].to) THEN "null" ELSE "ok"
CheckWeak(w) ==
  CASE IsExpired(w) -> "expired" [] rep[w].to = None -> "null" [] OTHER -> "ok"
Finds(r) ==
  CASE r \in Values -> SafeGet(r) [] r \in Strongs -> CheckStrong(r) [] OTHER -> CheckWeak(r)
Deref(r) == Fails(Finds(r))

-----------------------------------------------------------------------------
(* Methods *)

\* A method runs on what r refers to, or on an instance elsewhere, and makes
\* itself a reference `self'.
Enter(r) ==
  /\ via = None
  /\ IF r = Inline
     THEN /\ rep' = [rep EXCEPT ![Self] = Raw(Inline)] /\ UNCHANGED content
          /\ Alone(Self, content[Inline]) /\ via' = Inline /\ Answers("ok") /\ UNCHANGED moved
     ELSE IF Finds(r) # "ok" THEN Fails(Finds(r))
     ELSE /\ rep' = [rep EXCEPT ![Self] = Raw(rep[r].to)] /\ UNCHANGED content
          /\ Joined(Self, r) /\ via' = r /\ Answers("ok") /\ UNCHANGED moved
Leave ==
  /\ via # None /\ via' = None
  /\ rep' = [rep EXCEPT ![Self] = Owns(None)] /\ UNCHANGED content
  /\ Unset(Self) /\ Answers("ok") /\ UNCHANGED moved

InScope(v) == v # Self \/ via # None
Init ==
  /\ rep = [r \in Refs |-> IF r \in Weaks THEN Weakly(None) ELSE Owns(None)]
  /\ content = [c \in Cells \cup {Inline} |-> IF c = Inline THEN CHOOSE x \in Contents : TRUE ELSE None]
  /\ via = None /\ answer = "ok"
  /\ kin = [r \in Refs |-> {}] /\ meant = [r \in Refs |-> None] /\ moved = {}
ValueStep ==
  \/ \E v \in Vals, x \in Contents : New(v, x)
  \/ \E v \in Vals, u \in Values : InScope(u) /\ (CopyConstruct(v, u) \/ MoveConstruct(v, u))
  \/ \E v \in Values, x \in Contents : InScope(v) /\ Assign(v, x)
  \/ \E v \in Values, u \in Values : InScope(v) /\ InScope(u) /\ (CopyAssign(v, u) \/ MoveAssign(v, u))
  \/ \E v \in Vals, r \in Strongs \cup Weaks : AssignShared(v, r)
  \/ \E v \in Vals : Reset(v)
RefStep ==
  \/ \E s \in Strongs, x \in Contents : NewStrong(s, x)
  \/ \E s \in Strongs \cup Weaks, v \in Values : InScope(v) /\ Bind(s, v)
  \/ \E s \in Strongs \cup Weaks, t \in Strongs \cup Weaks : Share(s, t) \/ MoveRef(s, t)
  \/ \E s \in Strongs \cup Weaks : ResetRef(s)
Next ==
  /\ answer # "undefined"
  /\ \/ ValueStep \/ RefStep \/ Leave
     \/ \E r \in Refs : InScope(r) /\ Deref(r)
     \/ \E r \in Vals \cup Strongs \cup Weaks \cup {Inline} : Enter(r)
Spec == Init /\ [][Next]_refVars

-----------------------------------------------------------------------------
(* Properties *)

\* References share a value when they have been bound to one another and not since
\* been bound elsewhere, and see what has last been assigned to any of them.
ValuesShared ==
  /\ \A r, q \in Refs : r # q =>
       (q \in kin[r] <=> rep[r].to # None /\ rep[r].to = rep[q].to)
  /\ \A r \in Refs : rep[r].to # None /\ Alive(rep[r].to) => Sees(r) = meant[r]
\* A value lives as long as something owns it, and only as long.
Lifetimes ==
  \A c \in Cells : content[c] # None <=> Owners(rep, c) # {}
\* Whoever asks for a value that is not there is told why; nothing is read through
\* a pointer to nowhere, as long as nobody uses what has been moved from, moves
\* from or to a reference without a value, or takes the value away that a method
\* runs on.
Intact == moved = {} /\ (via # None => Live(Self))
Answered(r) ==
  Finds(r) = CASE Live(r) -> "ok" [] kin[r] = {} -> "null" [] OTHER -> "expired"
NoDanglingAccess == Intact => \A r \in Refs : InScope(r) => Answered(r)
ReferencesAreSafe == ValuesShared /\ Lifetimes /\ NoDanglingAccess
=============================================================================
