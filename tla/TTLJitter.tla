----------------------------- MODULE TTLJitter -----------------------------
(***************************************************************************)
(* ttl.go: the TTL of a record is taken at random from a range around the  *)
(* configured value.  Seconds are uint32 and the bounds of the range are   *)
(* computed with float32; both are scaled down here to Width bits and to a *)
(* mantissa of Precision bits.                                             *)
(*                                                                         *)
(* A percentage is a number of parts of One, a power of two, so that a     *)
(* product with seconds is a number of the same parts.                     *)
(***************************************************************************)
EXTENDS Integers

CONSTANTS
  Width,      \* bits of a TTL, 32 in the code
  Precision,  \* bits of a float's mantissa, 24 in the code
  One         \* parts of the percentage 1.0

ASSUME JitterAssumption ==
  /\ Width \in Nat /\ Precision \in 1 .. Width
  /\ One \in {2 ^ i : i \in 0 .. Width - 2}

\* What exponentiation is, which provers do not know.
ASSUME PowerAssumption ==
  /\ 2 ^ 0 = 1
  /\ \A i \in 0 .. 3 * Width : 2 ^ (i + 1) = 2 * 2 ^ i

Limit == 2 ^ Width

\* What the last bit of the mantissa stands for in a float with the exponent of
\* n, at least 2 ^ Precision.
Unit(n) ==
  CHOOSE u \in {2 ^ i : i \in 1 .. 2 * Width} :
    n \div u \in 2 ^ (Precision - 1) .. 2 ^ Precision - 1

\* n in units of u, rounded to the nearest and to the even one of two.
Nearest(n, u) ==
  LET q == n \div u
      r == n % u
  IN IF 2 * r > u \/ (2 * r = u /\ q % 2 = 1) THEN q + 1 ELSE q

\* The float nearest to n.
Float(n) == IF n < 2 ^ Precision THEN n ELSE Unit(n) * Nearest(n, Unit(n))

\* Conversion of a number of seconds to an unsigned integer: what becomes of
\* one too large depends on the architecture, which wraps or saturates.
Uint(n) == IF n < Limit THEN {n} ELSE {n % Limit, Limit - 1}

\* DurationToSeconds, for a duration in quarters of a second: rounded to the
\* nearest second, a half upwards, but a positive duration never becomes zero.
DurationToSeconds(quarters) ==
  IF quarters <= 0 THEN {0}
  ELSE {IF n = 0 THEN 1 ELSE n : n \in Uint((quarters + 2) \div 4)}

\* Mutant: the bound of the random choice is taken for inclusive.
ExclusiveJitterers(value, percent) ==
  IF percent < 0 \/ percent >= One THEN {}
  ELSE IF percent = 0 \/ value = 0 THEN {[base |-> value, choose |-> 0]}
  ELSE {[base |-> lo, choose |-> (hi - lo) % Limit] :
          lo \in Uint(Float(Float(One - percent) * Float(value)) \div One),
          hi \in Uint(Float(Float(One + percent) * Float(value)) \div One)}

\* NewTTLJitterer: the jitterers it may return, none if it returns an error.
NewTTLJitterer(value, percent) ==
  IF percent < 0 \/ percent >= One THEN {}
  ELSE IF percent = 0 \/ value = 0 THEN {[base |-> value, choose |-> 0]}
  ELSE {[base |-> lo, choose |-> (hi - lo + 1) % Limit] :
          lo \in Uint(Float(Float(One - percent) * Float(value)) \div One),
          hi \in Uint(Float(Float(One + percent) * Float(value)) \div One)}

\* TTLJitterer.Range.
Lowest(j) == j.base
Highest(j) == IF j.choose = 0 THEN j.base ELSE (j.base + j.choose - 1) % Limit

\* The values that TTLJitterer.TTL may return.
TTLs(j) ==
  IF j.choose = 0 THEN {j.base}
  ELSE {(j.base + r) % Limit : r \in 0 .. j.choose - 1}

\* Both bounds of the range can be represented.
Fits(value, percent) == Float(Float(One + percent) * Float(value)) < Limit * One

\* The seconds there may be in n parts after three roundings: those of the
\* percentage's factor, of the value and of their product.  Each is off by at
\* most one part in 2 ^ Precision.
Rounded(n) ==
  LET scale == 2 ^ Precision
      Cube(k) == k * k * k
  IN (n * Cube(scale - 1)) \div (One * Cube(scale))
       .. (n * Cube(scale + 1)) \div (One * Cube(scale))

=============================================================================
