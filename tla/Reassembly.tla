----------------------------- MODULE Reassembly -----------------------------
(***************************************************************************)
(* What a sink promises the units it feeds, with no chunks, sequence       *)
(* arithmetic or trimming: bytes arrive at positions in any order and any  *)
(* number of times, the first version of a position counts, and they are   *)
(* handed over in order as soon as nothing is missing before them.  The    *)
(* reader of the sink can give up on what is missing and skip ahead.       *)
(***************************************************************************)
EXTENDS Integers, Sequences, TLAPS

CONSTANTS
  Values,   \* values a byte can have
  Horizon   \* the last position, a natural number

VARIABLES
  arrived,  \* the bytes waiting, by position
  next,     \* the position to hand over next
  output    \* the bytes handed over: a sequence of [pos, v]

vars == <<arrived, next, output>>

Places == 0..Horizon
Byte == [pos : Places, v : Values]

TypeOK ==
  /\ DOMAIN arrived \subseteq Places
  /\ arrived \in [DOMAIN arrived -> Values]
  /\ next \in 0..Horizon+1
  /\ output \in Seq(Byte)

Init ==
  /\ arrived = [p \in {} |-> 0]
  /\ next = 0
  /\ output = <<>>

\* Hands over all of known from position from up to the first one missing.
HandOver(known, from) ==
  \E upto \in from..Horizon+1 :
    /\ from..upto-1 \subseteq DOMAIN known
    /\ upto \notin DOMAIN known
    /\ output' = output \o [i \in 1..upto-from |-> [pos |-> from + i - 1, v |-> known[from + i - 1]]]
    /\ next' = upto
    /\ arrived' = [p \in {q \in DOMAIN known : q > upto} |-> known[p]]

\* The bytes from..to arrive with value v; versions that come second are dropped.
Receive(from, to, v) ==
  LET fresh == {p \in from..to : p >= next /\ p \notin DOMAIN arrived}
  IN HandOver([p \in DOMAIN arrived \cup fresh |-> IF p \in fresh THEN v ELSE arrived[p]], next)

SkipTo(seq) == seq >= next /\ HandOver(arrived, seq)

Restart == arrived' = [p \in {} |-> 0] /\ next' = 0 /\ output' = <<>>

Next ==
  \/ \E from, to \in Places, v \in Values : from <= to /\ Receive(from, to, v)
  \/ \E seq \in Places : SkipTo(seq)
  \/ Restart

Spec == Init /\ [][Next]_vars

-----------------------------------------------------------------------------
\* Bytes are handed over in the order of their positions, none twice, and
\* none that is still to come.
InOrder ==
  /\ \A i, j \in DOMAIN output : i < j => output[i].pos < output[j].pos
  /\ \A i \in DOMAIN output : output[i].pos < next

\* Nothing waits that could be handed over.
NothingReadyWaits == \A p \in DOMAIN arrived : next < p

\* A byte that has arrived keeps its value until it is handed over, unless
\* the stream skips over it or starts again.
FirstVersionCounts ==
  [][ next' # 0 => \A p \in DOMAIN arrived :
        \/ p \in DOMAIN arrived' /\ arrived'[p] = arrived[p]
        \/ \E i \in DOMAIN output' : output'[i] = [pos |-> p, v |-> arrived[p]]
        \/ p < next' /\ \E seq \in Places : seq > p /\ SkipTo(seq) ]_vars

-----------------------------------------------------------------------------
(* Proofs, for any set of values and any horizon.  InOrder is inductive only *)
(* together with the bound next on the positions handed over, which it contains, *)
(* and needs the type of output. *)

IInv == TypeOK /\ InOrder /\ NothingReadyWaits

LEMMA InitIInv ==
  ASSUME Horizon \in Nat
  PROVE  Init => IInv
  BY SMT DEF Init, IInv, TypeOK, InOrder, NothingReadyWaits, Byte, Places

\* Handing over keeps the invariant, whatever known and from are, if they
\* agree with the state.
LEMMA HandOverIInv ==
  ASSUME Horizon \in Nat, IInv, NEW known, NEW from \in 0..Horizon+1, next <= from,
         DOMAIN known \subseteq Places, known \in [DOMAIN known -> Values],
         HandOver(known, from)
  PROVE  IInv'
<1>1. PICK upto \in from..Horizon+1 :
        /\ from..upto-1 \subseteq DOMAIN known
        /\ upto \notin DOMAIN known
        /\ output' = output \o [i \in 1..upto-from |-> [pos |-> from + i - 1, v |-> known[from + i - 1]]]
        /\ next' = upto
        /\ arrived' = [p \in {q \in DOMAIN known : q > upto} |-> known[p]]
  BY DEF HandOver
<1> DEFINE tail == [i \in 1..upto-from |-> [pos |-> from + i - 1, v |-> known[from + i - 1]]]
<1>2. /\ from \in Nat /\ upto \in Nat /\ from <= upto /\ upto <= Horizon + 1 /\ next \in Nat
      /\ Horizon \in Nat
  BY <1>1, SMT DEF Places, IInv, TypeOK
<1>3. tail \in Seq(Byte) /\ Len(tail) = upto - from
  <2>1. \A i \in 1..upto-from : from + i - 1 \in from..upto-1 /\ from + i - 1 \in Places
    BY <1>2, SMT DEF Places
  <2>2. \A i \in 1..upto-from : from + i - 1 \in DOMAIN known
    BY <2>1, <1>1
  <2>3. \A i \in 1..upto-from : known[from + i - 1] \in Values
    BY <2>2
  <2>4. \A i \in 1..upto-from : [pos |-> from + i - 1, v |-> known[from + i - 1]] \in Byte
    BY <2>1, <2>3 DEF Byte
  <2>5. upto - from \in Nat
    BY <1>2, SMT
  <2>6. tail \in [1..upto-from -> Byte]
    BY <2>4
  <2> HIDE DEF tail
  <2> QED BY <2>5, <2>6, SMT
<1>4. output \in Seq(Byte)
  BY DEF IInv, TypeOK
<1> HIDE DEF tail
<1>5. output' = output \o tail
  BY <1>1 DEF tail
<1>6. output' \in Seq(Byte)
  BY <1>3, <1>4, <1>5, SMT
<1>7. TypeOK'
  <2>1. DOMAIN arrived' \subseteq DOMAIN known /\ arrived' \in [DOMAIN arrived' -> Values]
    BY <1>1
  <2>2. next' \in 0..Horizon+1
    BY <1>1, <1>2, SMT
  <2> QED BY <2>1, <2>2, <1>6 DEF TypeOK, Places
<1>8. \A i \in DOMAIN output' :
        \/ i \in 1..Len(output) /\ output'[i] = output[i]
        \/ /\ i > Len(output) /\ i - Len(output) \in 1..upto-from
           /\ output'[i] = tail[i - Len(output)]
  BY <1>3, <1>4, <1>5, <1>2, SMT
<1>9. \A i \in 1..upto-from : tail[i].pos = from + i - 1
  BY DEF tail
<1>10. \A i \in DOMAIN output' :
         \/ i \in DOMAIN output /\ output'[i].pos = output[i].pos
         \/ i > Len(output) /\ output'[i].pos = from + (i - Len(output)) - 1
              /\ i - Len(output) \in 1..upto-from
  BY <1>8, <1>9, <1>4, SMT
<1>11. \A i \in DOMAIN output : output[i].pos \in Nat /\ output[i].pos < next
  <2>1. \A i \in DOMAIN output : output[i] \in Byte
    BY <1>4
  <2> QED BY <2>1, SMT DEF IInv, InOrder, Byte, Places
<1>12. InOrder'
  <2>1. Len(output) \in Nat /\ DOMAIN output = 1..Len(output)
    BY <1>4, SMT
  <2>2. \A i \in DOMAIN output' : i \in Nat
    BY <1>6, SMT
  <2>3. ASSUME NEW i \in DOMAIN output', i > Len(output)
        PROVE  output'[i].pos = from + (i - Len(output)) - 1 /\ output'[i].pos >= from
    <3>1. i \notin DOMAIN output
      BY <2>1, <2>3, SMT
    <3>2. output'[i].pos = from + (i - Len(output)) - 1
      BY <3>1, <1>10
    <3> QED BY <3>2, <2>1, <2>2, <2>3, <1>2, SMT
  <2>4. ASSUME NEW i \in DOMAIN output', ~(i > Len(output))
        PROVE  /\ i \in DOMAIN output /\ output'[i].pos = output[i].pos
               /\ output[i].pos \in Nat /\ output[i].pos < next
    BY <2>4, <1>10, <1>11
  <2>5. ASSUME NEW i \in DOMAIN output', NEW j \in DOMAIN output', i < j
        PROVE  output'[i].pos < output'[j].pos
    <3>1. CASE i > Len(output)
      <4>1. j > Len(output)
        BY <2>1, <2>2, <2>5, <3>1, SMT
      <4> QED BY <2>1, <2>2, <2>3, <2>5, <3>1, <4>1, <1>2, SMT
    <3>2. CASE ~(i > Len(output)) /\ j > Len(output)
      <4>1. output'[j].pos \in Int
        BY <2>1, <2>2, <2>3, <3>2, <1>2, SMT
      <4> QED BY <2>3, <2>4, <3>2, <4>1, <1>2, SMT
    <3>3. CASE ~(i > Len(output)) /\ ~(j > Len(output))
      BY <2>4, <2>5, <3>3 DEF IInv, InOrder
    <3> QED BY <3>1, <3>2, <3>3
  <2>6. ASSUME NEW i \in DOMAIN output'
        PROVE  output'[i].pos < next'
    <3>1. CASE i > Len(output)
      <4>1. i - Len(output) <= upto - from
        BY <2>1, <3>1, <1>10, <1>2, SMT
      <4> QED BY <2>1, <2>2, <2>3, <3>1, <4>1, <1>1, <1>2, SMT
    <3>2. CASE ~(i > Len(output))
      <4>1. output'[i].pos \in Nat /\ output'[i].pos < next
        BY <2>4, <3>2
      <4> QED BY <4>1, <1>1, <1>2, SMT
    <3> QED BY <3>1, <3>2
  <2> QED BY <2>5, <2>6 DEF InOrder
<1>13. NothingReadyWaits'
  BY <1>1 DEF NothingReadyWaits
<1> QED BY <1>7, <1>12, <1>13 DEF IInv

LEMMA NextIInv ==
  ASSUME Horizon \in Nat
  PROVE  IInv /\ [Next]_vars => IInv'
<1> SUFFICES ASSUME IInv, [Next]_vars PROVE IInv'
  OBVIOUS
<1>1. ASSUME NEW from \in Places, NEW to \in Places, NEW v \in Values, Receive(from, to, v)
      PROVE  IInv'
  <2> DEFINE fresh == {p \in from..to : p >= next /\ p \notin DOMAIN arrived}
             known == [p \in DOMAIN arrived \cup fresh |-> IF p \in fresh THEN v ELSE arrived[p]]
  <2>1. fresh \subseteq Places
    BY SMT DEF Places
  <2>2. DOMAIN known \subseteq Places
    BY <2>1 DEF IInv, TypeOK
  <2>3. known \in [DOMAIN known -> Values]
    BY DEF IInv, TypeOK
  <2>4. HandOver(known, next)
    BY <1>1 DEF Receive
  <2>5. next \in 0..Horizon+1 /\ next <= next
    BY SMT DEF IInv, TypeOK
  <2> HIDE DEF known
  <2> QED BY <2>2, <2>3, <2>4, <2>5, HandOverIInv
<1>2. ASSUME NEW seq \in Places, SkipTo(seq)
      PROVE  IInv'
  <2>1. next <= seq /\ seq \in 0..Horizon+1
    BY <1>2, SMT DEF SkipTo, IInv, TypeOK, Places
  <2> QED BY <1>2, <2>1, HandOverIInv DEF SkipTo, IInv, TypeOK
<1>3. CASE Restart
  BY <1>3, SMT DEF Restart, IInv, TypeOK, InOrder, NothingReadyWaits, Byte, Places
<1>4. CASE UNCHANGED vars
  BY <1>4 DEF vars, IInv, TypeOK, InOrder, NothingReadyWaits
<1> QED BY <1>1, <1>2, <1>3, <1>4 DEF Next

LEMMA Invariance ==
  ASSUME Horizon \in Nat
  PROVE  Spec => []IInv
  BY InitIInv, NextIInv, PTL DEF Spec

\* The state of the reassembler has its type.
THEOREM TypeCorrect ==
  ASSUME Horizon \in Nat
  PROVE  Spec => []TypeOK
  BY Invariance, PTL DEF IInv

\* Whatever arrives, in whatever order and how often, the bytes handed over
\* are in the order of their positions and none is handed over twice.
THEOREM HandedOverInOrder ==
  ASSUME Horizon \in Nat
  PROVE  Spec => []InOrder
  BY Invariance, PTL DEF IInv

\* No byte that could be handed over stays behind.
THEOREM ReadyIsHandedOver ==
  ASSUME Horizon \in Nat
  PROVE  Spec => []NothingReadyWaits
  BY Invariance, PTL DEF IInv
=============================================================================
