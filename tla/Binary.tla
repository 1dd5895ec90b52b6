------------------------------- MODULE Binary -------------------------------
(***************************************************************************)
(* What HILTI computes on numbers: packing and unpacking, bit fields, byte *)
(* orders, addresses and networks, times and intervals                     *)
(* (hilti/runtime/include/types/integer.h, src/types/address.cc,           *)
(* include/types/network.h, time.h, interval.h, src/types/bytes.cc).       *)
(* A behaviour is one call.  Bytes are narrower than eight bits; all other *)
(* widths follow from theirs.                                              *)
(***************************************************************************)
EXTENDS Integers, Sequences, FiniteSets
CONSTANTS
  ByteBits,  \* width of a byte
  Halves,    \* values for the upper and the lower 64 bits of addresses
  TimeBits   \* width of times and intervals

VARIABLES call, outcome
binaryVars == <<call, outcome>>

Bytes(n) == [1..n -> 0 .. 2^ByteBits - 1]
Bits(n) == n * ByteBits            \* of n bytes
Max(bits) == 2^bits - 1
Low(x, bits) == x % 2^bits
High(x, bits) == x - Low(x, bits)  \* x & (~0 << bits)
Signed(x, bits) == IF x >= 2^(bits - 1) THEN x - 2^bits ELSE x
Range(bits, signed) == IF signed THEN -(2^(bits - 1)) .. 2^(bits - 1) - 1 ELSE 0 .. Max(bits)
Ok(x) == [error |-> "none", value |-> x]
Fail(what) == [error |-> what, value |-> <<>>]
\* What the checked integers of SafeInt provide: the exact result, or an exception.
Safe(x, bits, signed) == IF x \in Range(bits, signed) THEN Ok(x) ELSE Fail("Overflow")

Orders == {"Big", "Network", "Little", "Host", "Undef"}
System == "Little"  \* systemByteOrder() here
Real(order) == IF order = "Host" THEN System ELSE order

-----------------------------------------------------------------------------
(* Integers *)

\* The indices that pack() and unpack() are given.
Indices(order, n) == IF order = "Little" THEN [k \in 1..n |-> n - k] ELSE [k \in 1..n |-> k - 1]
\* pack() of an integer of n bytes: a signed byte is converted with a check.
\* Mutant: the bytes of the little order are not reversed for two bytes.
Pack_TwoBytes(x, n, signed, order) ==
  LET indices == Indices(IF n = 2 THEN "Big" ELSE Real(order), n)
      Shifted(k) == Low(x \div 2^Bits(k - 1), ByteBits)
  IN  IF order = "Undef" THEN Fail("RuntimeError")
      ELSE IF n = 1 /\ signed /\ x < 0 THEN Fail("Overflow")
      ELSE Ok([p \in 1..n |-> Shifted(CHOOSE k \in 1..n : n - indices[k] = p)])
Pack(x, n, signed, order) ==
  LET indices == Indices(Real(order), n)
      Shifted(k) == Low(x \div 2^Bits(k - 1), ByteBits)
  IN  IF order = "Undef" THEN Fail("RuntimeError")
      ELSE IF n = 1 /\ signed /\ x < 0 THEN Fail("Overflow")
      ELSE Ok([p \in 1..n |-> Shifted(CHOOSE k \in 1..n : n - indices[k] = p)])
\* unpack(): the integer, and what is left of the data.
Unpack(data, n, signed, order) ==
  LET indices == Indices(Real(order), n)
      Sum[k \in 0..n] == IF k = 0 THEN 0 ELSE Sum[k - 1] * 2^ByteBits + data[indices[k] + 1]
      x == IF signed THEN Signed(Sum[n], Bits(n)) ELSE Sum[n]
  IN  IF Len(data) < n THEN Fail("insufficient data")
      ELSE IF order = "Undef" THEN Fail("undefined byte order")
      ELSE Ok(<<x, SubSeq(data, n + 1, Len(data))>>)

\* flip(): the n lower bytes in reverse.
Flip64(v) == LET Sum[k \in 0..8] == IF k = 0 THEN 0 ELSE Sum[k - 1] * 2^ByteBits + Low(v \div 2^Bits(k - 1), ByteBits)
             IN  Sum[8]
Flip(v, n) == IF n = 0 THEN v ELSE Flip64(v) \div 2^Bits(8 - n)
\* Bytes::toUInt() and Bytes::toInt() for a byte order; the constants that the
\* latter shifts are 32 bits wide, and shifting them further is not defined.
ToUIntFor(data, order) ==
  LET Sum[k \in 0..Len(data)] == IF k = 0 THEN 0 ELSE Sum[k - 1] * 2^ByteBits + data[k]
  IN  IF order = "Little" THEN Flip(Sum[Len(data)], Len(data)) ELSE Sum[Len(data)]
\* Mutant: the sign is taken from the most significant bit of a word.
ToInt_SignOfWord(data, order) ==
  LET x == ToUIntFor(data, order)
  IN  IF order = "Undef" THEN Fail("RuntimeError") ELSE IF Len(data) > 8 THEN Fail("RuntimeError")
      ELSE IF Len(data) \notin 1..4 THEN Fail("undefined")
      ELSE IF x < 2^(Bits(4) - 1) THEN Ok(x) ELSE Ok(x - 2^Bits(4))
ToInt(data, order) ==
  LET x == ToUIntFor(data, order)
      n == Len(data)
  IN  IF order = "Undef" THEN Fail("RuntimeError") ELSE IF n > 8 THEN Fail("RuntimeError")
      ELSE IF n \notin 1..4 THEN Fail("undefined")
      ELSE IF x < 2^(Bits(n) - 1) THEN Ok(x)
      ELSE IF n = 4 THEN Fail("undefined")
      ELSE Ok(-(2^Bits(n) - 1 - x) - 1)
\* Bytes::toUInt(): with the host's order, it asks toInt().
ToUInt(data, order) ==
  LET hosts == ToInt(data, System)
  IN  CASE order = "Undef" -> Fail("RuntimeError")
        [] order = "Host" -> IF hosts.error = "none" THEN Ok(hosts.value % 2^Bits(8)) ELSE hosts
        [] Len(data) > 8 -> Fail("RuntimeError")
        [] OTHER -> Ok(ToUIntFor(data, order))

\* bits(), of an integer of that width.
BitOrders == {"LSB0", "MSB0", "Undef"}
\* Mutant: the limits are not exchanged when they are counted from the other end.
BitField_Unswapped(v, width, lower, upper, order) ==
  LET lo == IF order = "MSB0" THEN width - lower - 1 ELSE lower
      hi == IF order = "MSB0" THEN width - upper - 1 ELSE upper
  IN  IF lower > upper \/ upper >= width THEN Fail("InvalidArgument")
      ELSE IF order = "Undef" THEN Fail("RuntimeError")
      ELSE IF hi < lo THEN Ok(0) ELSE Ok(Low(v \div 2^lo, hi - lo + 1))
BitField(v, width, lower, upper, order) ==
  LET lo == IF order = "MSB0" THEN width - upper - 1 ELSE lower
      hi == IF order = "MSB0" THEN width - lower - 1 ELSE upper
  IN  IF lower > upper \/ upper >= width THEN Fail("InvalidArgument")
      ELSE IF order = "Undef" THEN Fail("RuntimeError")
      ELSE Ok(Low(v \div 2^lo, hi - lo + 1))

-----------------------------------------------------------------------------
(* Addresses and networks *)

Address(a1, a2, family) == [a1 |-> a1, a2 |-> a2, family |-> family]
V4Bits == Bits(4)
V6Bits == Bits(16)
Addresses ==
  {Address(0, Low(a, V4Bits), "IPv4") : a \in Halves} \cup
  {Address(a, b, "IPv6") : a \in Halves, b \in Halves}
WidthOf(a) == IF a.family = "IPv4" THEN V4Bits ELSE V6Bits
Equal(a, b) == a.a1 = b.a1 /\ a.a2 = b.a2
\* Address::mask()
Mask(a, width) ==
  IF width = 0 THEN Address(0, 0, a.family)
  ELSE Address(IF width < Bits(8) THEN High(a.a1, Bits(8) - width) ELSE a.a1,
               IF width > Bits(8) THEN High(a.a2, V6Bits - width) ELSE 0,
               a.family)
\* Network(const Address&, int) with _mask().
\* Mutant: the length of a prefix of version 4 is used as it is.
Network_Unadjusted(prefix, length) ==
  IF length < 0 \/ length > WidthOf(prefix) THEN Fail("InvalidArgument")
  ELSE Ok([prefix |-> Mask(prefix, length), length |-> length])
Network(prefix, length) ==
  LET full == length + V6Bits - WidthOf(prefix)
  IN  IF length < 0 \/ length > WidthOf(prefix) THEN Fail("InvalidArgument")
      ELSE Ok([prefix |-> Mask(prefix, full), length |-> full])
Contains(net, x) == Equal(Mask(x, net.length), net.prefix)
LengthOf(net) == net.length - (V6Bits - WidthOf(net.prefix))

\* Address::pack() and unpack(): the halves change places in the little order.
PackAddress(a, order) ==
  IF a.family = "IPv4" THEN Pack(a.a2, 4, FALSE, order)
  ELSE LET x == Pack(a.a1, 8, FALSE, order)
           y == Pack(a.a2, 8, FALSE, order)
       IN  IF x.error # "none" THEN x
           ELSE Ok(IF Real(order) = "Little" THEN y.value \o x.value ELSE x.value \o y.value)
UnpackAddress(data, family, order) ==
  IF family = "IPv4"
  THEN LET x == Unpack(data, 4, FALSE, order)
       IN  IF x.error # "none" THEN x ELSE Ok(<<Address(0, x.value[1], "IPv4"), x.value[2]>>)
  ELSE LET x == Unpack(data, 8, FALSE, order)
           y == Unpack(x.value[2], 8, FALSE, order)
       IN  IF Len(data) < 16 THEN Fail("insufficient data") ELSE IF x.error # "none" THEN x
           ELSE Ok(<<IF Real(order) = "Little" THEN Address(y.value[1], x.value[1], "IPv6")
                     ELSE Address(x.value[1], y.value[1], "IPv6"), y.value[2]>>)

-----------------------------------------------------------------------------
(* Times and intervals, in nanoseconds *)

Times == Range(TimeBits, FALSE)
Intervals == Range(TimeBits, TRUE)
Time(x) == Safe(x, TimeBits, FALSE)
Interval(x) == Safe(x, TimeBits, TRUE)
\* Time::operator+(Interval), operator-(Interval), operator-(Time).
\* Mutant: the sum is computed as an unsigned number.
TimePlus_Wraps(t, i) ==
  IF i < 0 /\ t < -i THEN Fail("RuntimeError") ELSE Ok(Low(t + i, TimeBits))
TimePlus(t, i) ==
  IF i < 0 /\ t \notin Intervals THEN Fail("Overflow")
  ELSE IF i < 0 /\ t < -i THEN Fail("RuntimeError")
  ELSE Time(t + i)
TimeMinus(t, i) == IF t < i THEN Fail("RuntimeError") ELSE Time(t - i)
TimeDifference(t, u) == IF {t, u} \subseteq Intervals THEN Interval(t - u) ELSE Fail("Overflow")

-----------------------------------------------------------------------------
(* Calls *)

Calls ==
  {<<"pack", n, s, x, o>> : n \in {1, 2, 4}, s \in BOOLEAN,
                            x \in Range(Bits(4), TRUE) \cup Range(Bits(4), FALSE), o \in Orders} \cup
  {<<"pack", 8, FALSE, x, o>> : x \in Halves, o \in Orders} \cup
  UNION {{<<"integer", d, o>> : d \in Bytes(n), o \in Orders} : n \in 0..4 \cup {8, 9}} \cup
  {<<"bits", v, lo, hi, o>> : v \in 0 .. Max(4), lo \in 0..4, hi \in 0..4, o \in BitOrders} \cup
  {<<"network", a, n, x>> : a \in Addresses, n \in -1 .. V6Bits + 1, x \in Addresses} \cup
  {<<"address", a, o>> : a \in Addresses, o \in Orders} \cup
  {<<"time", t, u, i>> : t \in Times, u \in Times, i \in Intervals}
\* Some bytes that follow those that are unpacked.
More == <<0, 1>>
\* Not all values exist in all widths.
Exists(c) == c[1] = "pack" => c[4] \in Range(Bits(c[2]), c[3])
Result(c) ==
  CASE c[1] = "pack" ->
         LET p == Pack(c[4], c[2], c[3], c[5])
         IN  <<p, IF p.error = "none" THEN Unpack(p.value \o More, c[2], c[3], c[5]) ELSE p>>
    [] c[1] = "integer" -> <<ToInt(c[2], c[3]), ToUInt(c[2], c[3])>>
    [] c[1] = "bits" -> <<BitField(c[2], 4, c[3], c[4], c[5])>>
    [] c[1] = "network" ->
         LET net == Network(c[2], c[3])
         IN  <<net, net.error = "none" /\ Contains(net.value, c[4])>>
    [] c[1] = "address" ->
         LET p == PackAddress(c[2], c[3])
         IN  <<p, IF p.error = "none" THEN UnpackAddress(p.value \o More, c[2].family, c[3]) ELSE p>>
    [] OTHER -> <<TimePlus(c[2], c[4]), TimeMinus(c[2], c[4]), TimeDifference(c[2], c[3])>>
Init == call \in Calls /\ Exists(call) /\ outcome = <<>>
Evaluate == outcome = <<>> /\ outcome' = Result(call) /\ UNCHANGED call
Next == Evaluate
Spec == Init /\ [][Next]_binaryVars

-----------------------------------------------------------------------------
(* Properties *)

\* What has been packed unpacks to the same, and leaves what follows; in network
\* order, the most significant byte comes first.
PackIsRight(n, signed, x, order, r) ==
  IF r[1].error = "none"
  THEN /\ r[2] = Ok(<<x, More>>)
       /\ order \in {"Big", "Network"} => r[1].value[1] = Low(x \div 2^Bits(n - 1), ByteBits)
       /\ order \in {"Little", "Host"} => r[1].value[1] = Low(x, ByteBits)
  ELSE order = "Undef" \/ (n = 1 /\ signed /\ x < 0)
\* Up to eight bytes convert to the number that they are in their order, up to
\* three to the one whose two's complement they are.
IntegerIsRight(data, order, r) ==
  LET n == Len(data)
      reversed == [k \in 1..n |-> data[n + 1 - k]]
      As(signed) == Unpack(IF order = "Little" THEN reversed ELSE data, n, signed, "Big").value[1]
  IN  IF n > 8 \/ order = "Undef" THEN r[1].error # "none" /\ r[2].error # "none"
      ELSE IF order = "Host" THEN n \in 1..3 => r[1].error = "none"
      ELSE r[2] = Ok(As(FALSE)) /\ (n \in 1..3 => r[1] = Ok(As(TRUE)))
\* Each bit of a field is that which its order says, counted from either end.
BitsAreRight(v, lower, upper, order, r) ==
  LET bit(x, k) == (x \div 2^k) % 2
  IN  lower <= upper /\ upper < 4 /\ order # "Undef" =>
        /\ r[1].error = "none" /\ r[1].value < 2^(upper - lower + 1)
        /\ \A k \in 0 .. upper - lower :
             bit(r[1].value, k) = bit(v, IF order = "LSB0" THEN lower + k ELSE 3 - upper + k)
\* A network contains the addresses that have its prefix, and knows its length.
Number(a) == a.a1 * 2^Bits(8) + a.a2
NetworkIsRight(a, length, x, r) ==
  IF length \notin 0 .. WidthOf(a) THEN r[1].error # "none"
  ELSE LET net == r[1].value
           rest == WidthOf(a) - length
       IN  /\ r[2] <=> Number(a) \div 2^rest = Number(x) \div 2^rest
           /\ LengthOf(net) = length /\ Contains(net, a) /\ net.prefix.family = a.family
           /\ Network(net.prefix, length) = r[1]
AddressIsRight(a, order, r) ==
  IF order = "Undef" THEN r[1].error # "none"
  ELSE r[2] = Ok(<<a, More>>) /\ Len(r[1].value) = IF a.family = "IPv4" THEN 4 ELSE 16
\* No operation on times wraps around: it yields the exact result, or throws
\* because that would not be a time (or an interval), or t is too late for one.
TimeIsRight(t, u, i, r) ==
  LET Exact(s, x, all) == IF s.error = "none" THEN s.value = x ELSE x \notin all \/ {t, u} \cap Intervals # {t, u}
  IN  /\ Exact(r[1], t + i, Times) /\ Exact(r[2], t - i, Times) /\ Exact(r[3], t - u, Intervals)
BinaryIsRight ==
  outcome # <<>> =>
    CASE call[1] = "pack" -> PackIsRight(call[2], call[3], call[4], call[5], outcome)
      [] call[1] = "integer" -> IntegerIsRight(call[2], call[3], outcome)
      [] call[1] = "bits" -> BitsAreRight(call[2], call[3], call[4], call[5], outcome)
      [] call[1] = "network" -> NetworkIsRight(call[2], call[3], call[4], outcome)
      [] call[1] = "address" -> AddressIsRight(call[2], call[3], outcome)
      [] OTHER -> TimeIsRight(call[2], call[3], call[4], outcome)
=============================================================================
