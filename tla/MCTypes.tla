------------------------------- MODULE MCTypes ------------------------------
(***************************************************************************)
(* Instances of the runtime's types for TLC.  A behaviour is one of        *)
(* streams, of containers, or of matching, while the others rest.          *)
(***************************************************************************)
EXTENDS RuntimeTypes, TLC
CONSTANT Alphabet, MaxInput \* for RegExp

VARIABLES
  part,              \* which of the types is used
  patterns, blocks, isFrozen, ms, ncur, result,  \* the variables of RegExp
  call, outcome                                  \* the variables of Text and of Binary

\* Words over a and b: one that contains another; two patterns of which either may
\* be longer; a repetition; words that share prefixes; two patterns for one word;
\* the empty word.
PatternSets == LET a == 1 b == 2 IN
  { << {<<a>>, <<a, b, a>>} >>,
    << {<<a, b>>}, {<<a>>, <<a, b, a, b>>} >>,
    << {[i \in 1..n |-> a] : n \in 1 .. MaxInput + 1} >>,
    << {<<a, a>>, <<b>>}, {<<a, b>>, <<a, a, b>>} >>,
    << {<<b, a>>}, {<<b, a>>, <<b, b>>} >>,
    << {<<>>, <<a, b, b>>} >> }
Matching == INSTANCE RegExp
Text ==
  INSTANCE Text WITH Letters <- 0..2, MaxLength <- 4, Encoded <- {"a", "lead", "more"},
    Escapable <- {"backslash", "quote", "n", "x", "zero", "0x04"},
    DigitChars <- {43, 45, 48, 49, 57, 65, 70, 97, 102, 103}  \* + - 0 1 9 A F a f g
Binary == INSTANCE Binary WITH ByteBits <- 1, Halves <- {0, 1, 90, 128, 255}, TimeBits <- 4

containers == <<kind, obj, cursor>>
matching == <<patterns, blocks, isFrozen, ms, ncur, result>>
refs == <<rep, content, via, answer, kin, meant, moved>>
pointers == <<ptr, references, deleted, raw>>
traversal == <<unit, held, parent, value, walk, touched, changes>>

values == <<call, outcome>>

\* Each part begins where it may while the others rest.
ContainersRest == Containers!Init /\ kind = CHOOSE k \in Kinds : TRUE
MatchingRests == Matching!Init /\ patterns = CHOOSE p \in PatternSets : TRUE
ValuesRest == call = <<>> /\ outcome = <<>>
InitTypes ==
  /\ Init /\ References!Init /\ Pointers!Init /\ Traversal!Init
  /\ \/ part \in {"stream", "references", "pointers", "traversal"}
        /\ ContainersRest /\ MatchingRests /\ ValuesRest
     \/ part = "containers" /\ Containers!Init /\ MatchingRests /\ ValuesRest
     \/ part = "matching" /\ ContainersRest /\ Matching!Init /\ ValuesRest
     \/ part = "text" /\ ContainersRest /\ MatchingRests /\ Text!Init
     \/ part = "binary" /\ ContainersRest /\ MatchingRests /\ Binary!Init
StreamStep ==
  Next /\ UNCHANGED <<part, containers, matching, refs, pointers, traversal, values>>
ContainersStep ==
  Containers!Next /\ UNCHANGED <<part, vars, matching, refs, pointers, traversal, values>>
MatchingStep ==
  Matching!Next /\ UNCHANGED <<part, vars, containers, refs, pointers, traversal, values>>
ReferencesStep ==
  References!Next /\ UNCHANGED <<part, vars, containers, matching, pointers, traversal, values>>
PointersStep ==
  Pointers!Next /\ UNCHANGED <<part, vars, containers, matching, refs, traversal, values>>
TraversalStep ==
  Traversal!Next /\ UNCHANGED <<part, vars, containers, matching, refs, pointers, values>>
TextStep ==
  Text!Next /\ UNCHANGED <<part, vars, containers, matching, refs, pointers, traversal>>
BinaryStep ==
  Binary!Next /\ UNCHANGED <<part, vars, containers, matching, refs, pointers, traversal>>
NextTypes ==
  \/ part = "stream" /\ StreamStep
  \/ part = "containers" /\ ContainersStep
  \/ part = "matching" /\ MatchingStep
  \/ part = "references" /\ ReferencesStep
  \/ part = "pointers" /\ PointersStep
  \/ part = "traversal" /\ TraversalStep
  \/ part = "text" /\ TextStep
  \/ part = "binary" /\ BinaryStep
SpecTypes ==
  InitTypes /\ [][NextTypes]_<<part, vars, containers, matching, refs, pointers, traversal, values>>

\* A token ends where its longest match does, however its input was cut into
\* pieces, and find() finds the longest match.
\* And what is computed on bytes, strings, numbers, addresses and times is what
\* a plain definition of each operation says.
ResultsAreRight ==
  /\ Matching!MatchingIsRight
  /\ part = "text" => Text!TextIsRight
  /\ part = "binary" => Binary!BinaryIsRight

\* Nothing distinguishes two iterators, two containers, two value references or
\* two parents: one pair of model values stands for each of these.
Symmetry == Permutations(Objects)
=============================================================================
