--------------------------- MODULE ExponentValue ---------------------------
(* shared/messages/datatypes.py, get_exponent_value_repr: a number as an    *)
(* int16 and a power of ten, the form every power, voltage and current has  *)
(* in a message.  A number is given by its decimal digits: n / 10^p.        *)
EXTENDS Integers

Number(n, p) == [n |-> n, p |-> p]
INT_16_MAX == 32767

\* 10^q: the loops below multiply and divide by ten q times.
Pow10[q \in Nat] == IF q = 0 THEN 1 ELSE 10 * Pow10[q - 1]

Abs(n) == IF n < 0 THEN -n ELSE n

\* Mutant: the digits that do not fit are rounded up.
RoundedUp(n, d) == IF n < 0 THEN -((Abs(n) + d - 1) \div d) ELSE (n + d - 1) \div d
\* int(value): the digits behind the point are cut off.
Truncated(n, d) == IF n < 0 THEN -(Abs(n) \div d) ELSE n \div d

\* The first loop multiplies by ten until the number is whole, three times
\* at most; a number that still vanishes then is taken for zero.
Multiplied(x) ==
  CHOOSE k \in 0..3 :
    /\ k = 3 \/ k >= x.p \/ x.n % Pow10[x.p - k] = 0
    /\ \A j \in 0..(k - 1) : j < x.p /\ x.n % Pow10[x.p - j] # 0

\* The second divides by ten until it fits, for which |n| + 3 divisions are
\* always enough.  (A number below ten fits, so that the loop's other branch is
\* never taken.)
Fits(x, q) ==
  LET limit == IF x.n < 0 THEN INT_16_MAX + 1 ELSE INT_16_MAX
  IN IF q >= 0 THEN Abs(x.n) <= limit * Pow10[q]
     ELSE Abs(x.n) * Pow10[-q] <= limit
Divided(x, q) ==
  CHOOSE m \in 0..(Abs(x.n) + 3) : Fits(x, q + m) /\ \A j \in 0..(m - 1) : ~ Fits(x, q + j)

ExponentValue(x) ==
  LET k == Multiplied(x)
      m == Divided(x, x.p - k)
      q == x.p - k + m
      value == IF q >= 0 THEN Truncated(x.n, Pow10[q]) ELSE x.n * Pow10[-q]
  IN [exponent |-> IF k = 3 /\ value = 0 THEN 0 ELSE m - k, value |-> value]

\* |value * 10^exponent| <= |n / 10^p|
NotAbove(r, x) ==
  LET s == r.exponent + x.p
  IN IF s >= 0 THEN Abs(r.value) * Pow10[s] <= Abs(x.n)
     ELSE Abs(r.value) <= Abs(x.n) * Pow10[-s]

============================================================================
