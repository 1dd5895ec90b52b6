------------------------------ MODULE TypeInfo ------------------------------
(***************************************************************************)
(* How a host application looks at a parsed unit: values that are pairs of *)
(* a raw pointer and its type (hilti/runtime/include/type-info.h), tied to *)
(* a parent that keeps the unit (spicy/runtime/include/parsed-unit.h).     *)
(***************************************************************************)
EXTENDS Integers, Sequences, FiniteSets
CONSTANTS
  Units,     \* the unit that is traversed, and one that it refers to
  Root,
  Parents,   \* the host's ParsedUnits
  MaxChanges, \* bound: how often the program changes the data
  None

VARIABLES
  unit,     \* the data: a vector, an optional, a union, a strong reference
  held,     \* the units that the program's own variables hold
  parent,   \* what a parent keeps alive, and its handle
  value,    \* the Value that the host has got: a place in memory, a handle
  iter,     \* its iterator over a vector: where it is, where the end was, its value
  touched,  \* has the data changed under the host's hands?
  changes
infoVars == <<unit, held, parent, value, iter, touched, changes>>

-----------------------------------------------------------------------------
(* Memory *)

Reached(us, roots) == roots \cup ({us[r].ref : r \in roots} \ {None})
\* Mutant: a parent does not own what it is tied to.
Kept_Nothing(parents) == {}
Kept(parents) == {parents[p].keeps : p \in Parents} \ {None}
LiveUnits == Reached(unit, held \cup Kept(parent))
\* A place within a unit; that of a vector's element is gone when the vector has
\* been given new memory.
Place(u, what) == [unit |-> u, what |-> what, gen |-> IF what[1] = "element" THEN unit[u].gen ELSE 0]
Exists(p) ==
  /\ p.unit \in LiveUnits
  /\ p.what[1] = "element" => p.gen = unit[p.unit].gen /\ p.what[2] <= unit[p.unit].elems
  /\ p.what[1] = "content" => unit[p.unit].set
  /\ p.what[1] = "alternative" => unit[p.unit].alternative = p.what[2]

-----------------------------------------------------------------------------
(* Parents *)

\* A handle is alive as long as one of the parents that share it.
Alive(handle) == \E p \in Parents : parent[p].handle = handle
FreshHandle(p) == CHOOSE h \in 1 .. 2 * Cardinality(Parents) + 1 :
                    /\ \A q \in Parents : parent[q].handle # h
                    /\ value.handle # h /\ iter.value.handle # h
Unmade == [handle |-> None, keeps |-> None]
NoValue == [place |-> None, handle |-> None]
NoIter == [at |-> None, end |-> None, value |-> NoValue]

\* ParsedUnit::initialize(), with tie(): the parent keeps the unit.
Initialize(p, u) ==
  /\ parent[p] = Unmade /\ u \in held
  /\ parent' = [parent EXCEPT ![p] = [handle |-> FreshHandle(p), keeps |-> u]]
  /\ UNCHANGED <<unit, held, value, iter, touched, changes>>
\* A copy shares the handle and keeps the unit, too.
CopyParent(p, q) ==
  /\ parent[p] = Unmade /\ parent[q] # Unmade
  /\ parent' = [parent EXCEPT ![p] = parent[q]]
  /\ UNCHANGED <<unit, held, value, iter, touched, changes>>
Destroy(p) ==
  /\ parent[p] # Unmade
  /\ parent' = [parent EXCEPT ![p] = Unmade]
  /\ UNCHANGED <<unit, held, value, iter, touched, changes>>

-----------------------------------------------------------------------------
(* Values *)

\* Value::pointer(), which throws for a value that is not set and for one whose
\* parent is gone.
\* Mutant: it does not check the parent.
Readable_Unchecked(v) == v.place # None
Readable(v) == v.place # None /\ Alive(v.handle)
Gets(v) == value' = v /\ UNCHANGED <<unit, held, parent, iter, touched, changes>>
Child(v, what) == [v EXCEPT !.place = Place(v.place.unit, what)]
IsA(v, kind) == Readable(v) /\ v.place.what[1] = kind

\* ParsedUnit::value(); the host begins anew.
Start(p) ==
  /\ parent[p].keeps # None
  /\ value' = [place |-> Place(parent[p].keeps, <<"unit">>), handle |-> parent[p].handle]
  /\ iter' = NoIter /\ touched' = FALSE
  /\ UNCHANGED <<unit, held, parent, changes>>
\* Struct::iterate(): the values of the fields, one of which is an optional that
\* is looked through.
Fields ==
  /\ IsA(value, "unit")
  /\ \/ \E f \in {"vector", "union", "reference", "tuple"} : Gets(Child(value, <<f>>))
     \/ Gets(IF unit[value.place.unit].set THEN Child(value, <<"content">>) ELSE NoValue)
\* Tuple::iterate()
Elements == IsA(value, "tuple") /\ Gets(Child(value, <<"component">>))
\* Union::value()
Selected ==
  /\ IsA(value, "union")
  /\ LET n == unit[value.place.unit].alternative
     IN  Gets(IF n > 0 THEN Child(value, <<"alternative", n>>) ELSE NoValue)
\* DereferenceableType::value() of a strong reference.
Dereference ==
  /\ IsA(value, "reference")
  /\ LET u == unit[value.place.unit].ref
     IN  Gets(IF u = None THEN NoValue ELSE [value EXCEPT !.place = Place(u, <<"unit">>)])

\* IterableType::iterate(): an iterator and the end are remembered together; at
\* the end there is none.
At(n, end, v) == [at |-> IF n = end THEN None ELSE n, end |-> end, value |-> v]
Begin ==
  /\ IsA(value, "vector")
  /\ iter' = At(1, unit[value.place.unit].elems + 1, value)
  /\ UNCHANGED <<unit, held, parent, value, touched, changes>>
\* Mutant: the increment is not compared with the end.
Increment_Unbounded ==
  /\ iter.at # None /\ iter.at <= 3
  /\ iter' = [iter EXCEPT !.at = @ + 1]
  /\ UNCHANGED <<unit, held, parent, value, touched, changes>>
Increment ==
  /\ iter.at # None
  /\ iter' = At(iter.at + 1, iter.end, iter.value)
  /\ UNCHANGED <<unit, held, parent, value, touched, changes>>
\* The iterator's own check is that of a vector's: it throws behind the last
\* element, and when the vector is gone.
Element ==
  /\ iter.at # None /\ iter.value.place.unit \in LiveUnits
  /\ iter.at <= unit[iter.value.place.unit].elems
  /\ Alive(iter.value.handle)
  /\ value' = Child(iter.value, <<"element", iter.at>>)
  /\ UNCHANGED <<unit, held, parent, iter, touched, changes>>
\* The host forgets its value and its iterator.
Forget ==
  /\ value' = NoValue /\ iter' = NoIter /\ touched' = FALSE
  /\ UNCHANGED <<unit, held, parent, changes>>

-----------------------------------------------------------------------------
(* The program *)

\* A variable of the program goes away; what it held may be needed elsewhere.
Drop(u) ==
  /\ u \in held /\ held' = held \ {u}
  /\ UNCHANGED <<unit, parent, value, iter, touched, changes>>
\* The program changes one thing in the unit.
Change(u) ==
  /\ u \in LiveUnits /\ changes < MaxChanges /\ changes' = changes + 1
  /\ \/ \E n \in 0..3 :
          unit' = [unit EXCEPT ![u].elems = n, ![u].gen = IF n > unit[u].elems THEN changes' ELSE @]
     \/ unit' = [unit EXCEPT ![u].set = ~@]
     \/ unit' = [unit EXCEPT ![u].alternative = 0]
     \/ unit' = [unit EXCEPT ![u].ref = None]
  /\ touched' = (touched \/ value # NoValue \/ iter # NoIter)
  /\ UNCHANGED <<held, parent, value, iter>>

Init ==
  /\ unit = [u \in Units |->
       [elems |-> 2, gen |-> 0, set |-> TRUE, alternative |-> 1,
        ref |-> IF u = Root THEN CHOOSE v \in Units : v # Root ELSE None]]
  /\ held = Units /\ parent = [p \in Parents |-> Unmade]
  /\ value = NoValue /\ iter = NoIter /\ touched = FALSE /\ changes = 0
Next ==
  \/ \E p \in Parents : Initialize(p, Root) \/ Destroy(p) \/ Start(p) \/ \E q \in Parents : CopyParent(p, q)
  \/ Fields \/ Elements \/ Selected \/ Dereference \/ Begin \/ Increment \/ Element \/ Forget
  \/ Change(Root) \/ \E u \in Units : Drop(u)
Spec == Init /\ [][Next]_infoVars

-----------------------------------------------------------------------------
(* Properties *)

\* What a value lets the host read is there: whoever else gives up the unit, its
\* parent keeps it, and without the parent the value throws.
ValuesStay == ~touched /\ Readable(value) => Exists(value.place)
\* An iterator is at one of the elements until it has passed all of them.
VisitsAll ==
  ~touched /\ iter # NoIter /\ Alive(iter.value.handle) =>
    /\ iter.at # None => iter.at \in 1 .. unit[iter.value.place.unit].elems
    /\ iter.at = None => iter.end = unit[iter.value.place.unit].elems + 1
TraversalIsSafe == ValuesStay /\ VisitsAll
=============================================================================
