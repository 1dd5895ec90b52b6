---------------------------- MODULE IntrusivePtr ----------------------------
(***************************************************************************)
(* The counting pointers that streams hold their chains by                 *)
(* (hilti/runtime/include/intrusive-ptr.h).                                *)
(***************************************************************************)
EXTENDS Naturals, FiniteSets
CONSTANTS
  Ptrs, Managed, \* pointers, and the objects that they manage
  MaxRaw,        \* bound: raw pointers to an object at a time
  Nil

VARIABLES
  ptr,        \* the object a pointer points to
  references, \* an object's count of references; 0 before it is made and when deleted
  deleted,    \* how often an object has been deleted
  raw         \* references in raw pointers that release() has returned
ptrVars == <<ptr, references, deleted, raw>>

\* What a statement does to the counts: it takes the references of ref, and then
\* gives up those of unref; whose count becomes 0 is deleted.
Count(x, objs) == Cardinality({k \in DOMAIN objs : objs[k] = x})
Counted(refs, unrefs) ==
  [x \in Managed |-> references[x] + Count(x, refs) - Count(x, unrefs)]
Statement(ptrs, refs, unrefs) ==
  /\ ptr' = ptrs
  /\ references' = Counted(refs, unrefs)
  /\ deleted' = [x \in Managed |->
       IF Count(x, unrefs) > 0 /\ references'[x] = 0 THEN deleted[x] + 1 ELSE deleted[x]]

\* make_intrusive() into p: the object begins with the reference that p adopts.
Make(p, x) ==
  /\ references[x] = 0 /\ deleted[x] = 0
  /\ Statement([ptr EXCEPT ![p] = x], <<x>>, <<ptr[p]>>) /\ UNCHANGED raw
\* IntrusivePtr(AdoptRef, raw) of what has been released; cast_intrusive() does
\* both at once.
Adopt(p, x) ==
  /\ raw[x] > 0
  /\ Statement([ptr EXCEPT ![p] = x], <<>>, <<ptr[p]>>) /\ raw' = [raw EXCEPT ![x] = @ - 1]
\* IntrusivePtr(NewRef, q.get()), and operator=(IntrusivePtr other) with a copy of q:
\* the copy is made, swapped with p, and destroyed with what p had.
\* Mutant: the copy takes no reference.
CopyPtr_Unref(p, q) ==
  Statement([ptr EXCEPT ![p] = ptr[q]], <<>>, <<ptr[p]>>) /\ UNCHANGED raw
CopyPtr(p, q) ==
  Statement([ptr EXCEPT ![p] = ptr[q]], <<ptr[q]>>, <<ptr[p]>>) /\ UNCHANGED raw
\* The same with what is moved from q: q is left empty before p is looked at.
MovePtr(p, q) ==
  LET old == IF p = q THEN Nil ELSE ptr[p]
  IN  Statement([ptr EXCEPT ![q] = Nil, ![p] = ptr[q]], <<>>, <<old>>) /\ UNCHANGED raw
Swap(p, q) ==
  Statement([ptr EXCEPT ![p] = ptr[q], ![q] = ptr[p]], <<>>, <<>>) /\ UNCHANGED raw
Release(p) ==
  /\ ptr[p] # Nil /\ raw[ptr[p]] < MaxRaw
  /\ Statement([ptr EXCEPT ![p] = Nil], <<>>, <<>>) /\ raw' = [raw EXCEPT ![ptr[p]] = @ + 1]
Destroy(p) ==
  Statement([ptr EXCEPT ![p] = Nil], <<>>, <<ptr[p]>>) /\ UNCHANGED raw

Init ==
  /\ ptr = [p \in Ptrs |-> Nil] /\ references = [x \in Managed |-> 0]
  /\ deleted = [x \in Managed |-> 0] /\ raw = [x \in Managed |-> 0]
Next ==
  \/ \E p \in Ptrs, x \in Managed : Make(p, x) \/ Adopt(p, x)
  \/ \E p, q \in Ptrs : CopyPtr(p, q) \/ MovePtr(p, q) \/ Swap(p, q)
  \/ \E p \in Ptrs : Release(p) \/ Destroy(p)
Spec == Init /\ [][Next]_ptrVars

\* The count is the number of those who hold the object, and it is deleted once,
\* when nobody does.
Holders(ptrs, x) == {p \in Ptrs : ptrs[p] = x}
CountsExact ==
  \A x \in Managed :
    /\ references[x] = Cardinality(Holders(ptr, x)) + raw[x]
    /\ deleted[x] <= 1 /\ (deleted[x] = 1 => references[x] = 0)
=============================================================================
