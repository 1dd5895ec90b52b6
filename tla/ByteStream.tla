----------------------------- MODULE ByteStream -----------------------------
(***************************************************************************)
(* What a stream promises (hilti/runtime/include/types/stream.h), without  *)
(* chunks: a window of bytes with fixed offsets.  Data goes in at the end, *)
(* comes out at the beginning, and a byte never changes its offset.  The   *)
(* n-th byte that was ever appended is the number n.                       *)
(***************************************************************************)
EXTENDS Integers

CONSTANTS
  Missing,    \* stands for a byte in a gap
  Sizes       \* the lengths of what is appended

VARIABLES
  base,       \* offset of the first byte that has not been trimmed
  end,        \* offset one beyond the last byte
  byte,       \* the byte at each offset from base to end - 1
  frozen,     \* whether appending is refused
  count       \* number of bytes ever appended
vars == <<base, end, byte, frozen, count>>

Window == base .. end-1

Init ==
  /\ base = 0 /\ end = 0 /\ count = 0
  /\ byte = [o \in 0..-1 |-> Missing]
  /\ frozen = FALSE

AppendData(n) ==
  /\ ~frozen
  /\ end' = end + n
  /\ byte' = [o \in base .. end+n-1 |-> IF o < end THEN byte[o] ELSE count + (o - end)]
  /\ count' = count + n
  /\ UNCHANGED <<base, frozen>>

AppendGap(n) ==
  /\ ~frozen
  /\ end' = end + n
  /\ byte' = [o \in base .. end+n-1 |-> IF o < end THEN byte[o] ELSE Missing]
  /\ UNCHANGED <<base, frozen, count>>

\* Trimming to a place beyond the end leaves an empty stream that goes on there.
Trim ==
  /\ base' >= base
  /\ end' = IF base' > end THEN base' ELSE end
  /\ byte' = [o \in base' .. end-1 |-> byte[o]]
  /\ UNCHANGED <<frozen, count>>

SetFrozen(f) == frozen' = f /\ UNCHANGED <<base, end, byte, count>>

\* Assigning a stream to another copies what is there, counted from 0.
Copy ==
  /\ base' = 0
  /\ end' = end - base
  /\ byte' = [o \in 0 .. (end-base)-1 |-> byte[base + o]]
  /\ frozen' = FALSE
  /\ UNCHANGED count

Clear ==
  /\ base' = 0 /\ end' = 0
  /\ byte' = [o \in 0..-1 |-> Missing]
  /\ frozen' = FALSE
  /\ UNCHANGED count

Next ==
  \/ \E n \in Sizes : AppendData(n) \/ AppendGap(n)
  \/ Trim
  \/ \E f \in BOOLEAN : SetFrozen(f)
  \/ Copy \/ Clear

Spec == Init /\ [][Next]_vars
=============================================================================
