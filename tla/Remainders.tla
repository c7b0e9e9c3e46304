----------------------------- MODULE Remainders ------------------------------
(***************************************************************************)
(* Lemmas about remainders: what an index of a ring means when it wraps    *)
(* around, and when its values wrap around too.                            *)
(***************************************************************************)
EXTENDS Integers, TLAPS

\* A remainder is less than the divisor.
LEMMA ModRange ==
  ASSUME NEW x \in Int, NEW u \in Nat, u > 0
  PROVE  x % u \in 0..u - 1
  OBVIOUS

\* x is its remainder and a multiple of the divisor.
LEMMA ModQuotient ==
  ASSUME NEW x \in Int, NEW u \in Nat, u > 0
  PROVE  \E q \in Int : x = q * u + (x % u)
  OBVIOUS

\* There is only one remainder.
LEMMA ModUnique ==
  ASSUME NEW x \in Int, NEW u \in Nat, NEW q \in Int, NEW m \in 0..u - 1, x = q * u + m
  PROVE  x % u = m
  OBVIOUS

\* The remainder of a number that is less than a turn off.
LEMMA ModNear ==
  ASSUME NEW x \in Int, NEW u \in Nat, u > 0, -u <= x, x < 2 * u
  PROVE  x % u = IF x < 0 THEN x + u ELSE IF x < u THEN x ELSE x - u
  OBVIOUS

\* In particular, of one that is once round.
LEMMA ModOnce ==
  ASSUME NEW x \in Int, NEW u \in Nat, u > 0, x >= u, x < 2 * u
  PROVE  x % u = x - u
  BY ModNear

\* Whole turns do not matter.
LEMMA ModShift ==
  ASSUME NEW x \in Int, NEW k \in Int, NEW u \in Nat, u > 0
  PROVE  (x - k * u) % u = x % u
<1>1. PICK q \in Int : x = q * u + (x % u)
  BY ModQuotient
<1>2. x - k * u = (q - k) * u + (x % u)
  BY <1>1, ModRange
<1>. QED BY <1>2, ModUnique, ModRange

\* A product with a positive number is no smaller.
LEMMA Multiple ==
  ASSUME NEW a \in Int, NEW u \in Nat, a >= 1
  PROVE  a * u >= u
  OBVIOUS

\* Numbers that differ by less than a turn have different remainders.
LEMMA ModDistinct ==
  ASSUME NEW x \in Int, NEW y \in Int, NEW u \in Nat, x < y, y < x + u
  PROVE  x % u # y % u
<1> SUFFICES ASSUME x % u = y % u PROVE FALSE
  OBVIOUS
<1>0. u > 0
  OBVIOUS
<1>1. PICK a \in Int : x = a * u + (x % u)
  BY <1>0, ModQuotient, Zenon
<1>2. PICK b \in Int : y = b * u + (y % u)
  BY <1>0, ModQuotient, Zenon
<1>3. y - x = (b - a) * u
  BY <1>0, <1>1, <1>2, ModRange
<1>4. CASE b - a >= 1
  BY <1>3, <1>4, Multiple
<1>5. CASE b - a <= 0
  <2>1. (a - b) * u >= 0
    BY <1>5
  <2>. QED BY <2>1, <1>3, <1>5
<1>. QED BY <1>4, <1>5

\* The place in a ring of u entries, j further on than x, is the same if x has
\* wrapped round at a multiple of u.
LEMMA ModModPlus ==
  ASSUME NEW x \in Int, NEW j \in Int, NEW u \in Nat, u > 0, NEW k \in Nat, k * u > 0
  PROVE  ((x % (k * u)) + j) % u = (x + j) % u
<1>1. PICK m \in Nat : m = k * u /\ m > 0
  OBVIOUS
<1>2. PICK q \in Int : x = q * m + (x % m)
  BY <1>1, ModQuotient, Zenon
<1>3. PICK c \in Int : (x % m) + j = (x + j) - c * u
  <2>1. (x % m) + j = (x + j) - (q * k) * u /\ q * k \in Int
    BY <1>1, <1>2, ModRange
  <2>. QED BY <2>1, Zenon
<1>4. x + j \in Int
  OBVIOUS
<1>5. ((x + j) - c * u) % u = (x + j) % u
  BY <1>4, ModShift, Zenon
<1>. QED BY <1>1, <1>3, <1>5, Zenon
==============================================================================
