---------------------------- MODULE RuntimeTypes ----------------------------
(***************************************************************************)
(* The runtime's types with which generated code and the host get at data  *)
(* that somebody else owns, side by side: streams, containers, references, *)
(* counting pointers, and the values by which a host looks at a unit.      *)
(***************************************************************************)
EXTENDS Stream
CONSTANTS
  None, Objects, Cursors, Keys, Kinds, MaxSize,   \* for Containers
  Vals, Strongs, Weaks, Self, Cells, Contents,    \* for References
  Ptrs, Managed, MaxRaw, Nil,                     \* for IntrusivePtr
  Units, Root, Parents, MaxChanges                \* for TypeInfo

ASSUME ContainersAssumption ==
  /\ None \notin Objects /\ None \notin [id : Nat, to : Objects \cup {None}]
  /\ IsFiniteSet(Objects) /\ IsFiniteSet(Cursors)
  /\ Keys \subseteq Nat \ {0} /\ IsFiniteSet(Keys)
  /\ Kinds \subseteq {"vector", "set", "map"} /\ MaxSize \in Nat
ASSUME ReferencesAssumption ==
  /\ Cells \subseteq Nat \ {0} /\ Contents # {}
  /\ None \notin Nat \cup Contents \cup Vals \cup Strongs \cup Weaks
  /\ 0 \notin Vals \cup Strongs \cup Weaks
  /\ Self \notin Vals \cup Strongs \cup Weaks
  /\ Vals \cap Strongs = {} /\ Vals \cap Weaks = {} /\ Strongs \cap Weaks = {}
ASSUME PointersAssumption == IsFiniteSet(Ptrs) /\ Nil \notin Managed
ASSUME TraversalAssumption ==
  /\ IsFiniteSet(Parents) /\ None \notin Nat \cup Units
  /\ Root \in Units /\ Units # {Root}

VARIABLES
  kind, obj, cursor, \* the variables of Containers
  rep, content, via, answer, kin, meant, moved,  \* the variables of References
  ptr, references, deleted, raw,                 \* the variables of IntrusivePtr
  unit, held, parent, value, walk, touched, changes \* the variables of TypeInfo

\* Sets and maps are not copied: see the run map_copied for what happens if they are.
Containers == INSTANCE Containers WITH Shares <- FALSE, Iters <- Cursors, iter <- cursor
References == INSTANCE References
Pointers == INSTANCE IntrusivePtr
Traversal == INSTANCE TypeInfo WITH iter <- walk

\* Iterators into vectors, sets and maps read the element that they are at, or
\* throw, whatever has happened to the container since they were made.
\* The same holds for references, for counting pointers, and for the values by
\* which the host looks at a unit: each reads what is there, or throws, and no
\* value goes away while one of its owners is left, or stays when none is.
AccessIsSafe ==
  /\ Containers!IteratorsAreSafe /\ References!ReferencesAreSafe
  /\ Pointers!CountsExact /\ Traversal!TraversalIsSafe
=============================================================================
