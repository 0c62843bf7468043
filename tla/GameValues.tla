----------------------------- MODULE GameValues -----------------------------
(***************************************************************************)
(* The game values of include/core/types.hpp: how PrimitiveValue           *)
(* computes a delta, interpolates it, and is written to bytes (Vec2 does   *)
(* the same with both its components, one after the other).  int and float *)
(* are 32 bits wide there, a float has 24 significant bits; both are       *)
(* parameters here.                                                        *)
(*                                                                         *)
(* interp computes in float whatever the type of the value.  A float is    *)
(* written as the integer multiple of a unit fixed by the operation; the   *)
(* values that occur are far from the least exponent, so that rounding     *)
(* does not depend on the unit.                                            *)
(***************************************************************************)
EXTENDS Integers, Sequences

CONSTANTS Width,      \* bits of an int
          Precision,  \* significant bits of a float
          Steps,      \* interpolation times are 0/Steps, ..., Steps/Steps
          ByteWidth   \* bits of a byte

ASSUME ValueAssumption ==
  /\ Width \in Nat
  /\ Precision \in 1 .. Width - 2
  /\ Steps \in {1, 2, 4, 8}
  /\ ByteWidth \in 1 .. Width
  /\ Width % ByteWidth = 0

MinInt == - 2^(Width - 1)

Ints == MinInt .. - MinInt - 1

Times == 0 .. Steps

Wrap(n) == ((n - MinInt) % 2^Width) + MinInt

Abs(n) == IF n < 0 THEN - n ELSE n

\* The gap between the floats around n.
Ulp(n) ==
  2^(CHOOSE e \in 0 .. 2 * Width + 4 :
       /\ Abs(n) < 2^(Precision + e)
       /\ e > 0 => Abs(n) >= 2^(Precision + e - 1))

\* The float nearest to n, the even one of two.
Round(n) ==
  LET u == Ulp(n)
      q == n \div u
      r == n % u
  IN  IF 2 * r < u \/ (2 * r = u /\ q % 2 = 0) THEN q * u ELSE (q + 1) * u

\* Conversion of f/Steps to int: toward zero.  Out of range it is undefined,
\* and the instruction of an x86-64 build gives the least int.
ToInt(f) ==
  LET n == IF f < 0 THEN - ((- f) \div Steps) ELSE f \div Steps
  IN  IF n \in Ints THEN n ELSE MinInt

\* Mutant of DeltaInt: the old value minus the new one.
DeltaIntBackwards(v, w) == Wrap(v - w)

\* PrimitiveValue<int>::get_delta.  Overflow is undefined; builds wrap.
DeltaInt(v, w) == Wrap(w - v)

\* Mutant of InterpInt: (value + delta) * interval.
InterpIntScaled(v, d, k) == ToInt(Round(Round(Round(v) + Round(d)) * k))

\* PrimitiveValue<int>::interp(delta, k/Steps): value, delta, product and sum
\* are floats.
InterpInt(v, d, k) == ToInt(Round(Round(v) * Steps + Round(Round(d) * k)))

\* PrimitiveValue<float>, at the time 1.0.
DeltaFloat(v, w) == Round(w - v)

\* Mutant of InterpFloat: the delta is halved, as at the time 0.5.
InterpFloatHalf(v, d) == Round(v + Round(d \div 2))

InterpFloat(v, d) == Round(v + d)
-----------------------------------------------------------------------------
(***************************************************************************)
(* The bytes of an int, the least significant one first as on x86-64.      *)
(***************************************************************************)
Byte == 0 .. 2^ByteWidth - 1

\* PrimitiveValue<int>::serialize.
BytesInt(v) ==
  [k \in 1 .. Width \div ByteWidth |->
     ((v % 2^Width) \div 2^(ByteWidth * (k - 1))) % 2^ByteWidth]

\* Mutant of ParseInt: the bytes are those of an unsigned int.
ParseIntUnsigned(bytes) ==
  LET value[k \in 0 .. Len(bytes)] ==
        IF k = 0 THEN 0 ELSE value[k - 1] + bytes[k] * 2^(ByteWidth * (k - 1))
  IN  value[Len(bytes)]

\* PrimitiveValue<int>::deserialize: the new value is zero, and read() replaces
\* as many of its bytes as there are.
ParseInt(bytes) ==
  LET value[k \in 0 .. Width \div ByteWidth] ==
        IF k = 0 THEN 0
        ELSE value[k - 1] + (IF k \in DOMAIN bytes
                             THEN bytes[k] * 2^(ByteWidth * (k - 1)) ELSE 0)
  IN  Wrap(value[Width \div ByteWidth])
=============================================================================
