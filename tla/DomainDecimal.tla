--------------------------- MODULE DomainDecimal ---------------------------
(***************************************************************************)
(* currency/domain-decimal.ts: decimal.js as the domain configures it.     *)
(*                                                                         *)
(* A decimal is coef * 10^exp without trailing zeros.  A ratio is the      *)
(* exact num/den * 10^exp which an operation of decimal.js rounds,         *)
(* half-even, to the precision of its constructor.                         *)
(***************************************************************************)
EXTENDS Integers, FiniteSetsExt

CONSTANTS
  Precision,     \* DomainDecimal's precision
  GuardDigits,   \* QUOTIENT_GUARD_DIGITS
  MaxDigits      \* bound: the most digits of any integer of the model

ASSUME DecimalAssumption ==
  Precision \in Nat \ {0} /\ GuardDigits \in Nat /\ MaxDigits \in Nat

\* The powers of ten: 10^n, as a function that can be reasoned about.
Pow10[n \in Nat] == IF n = 0 THEN 1 ELSE 10 * Pow10[n - 1]

\* decimal.js in normal form: sd() counts the digits of coef.
Digits[n \in Nat] == IF n < 10 THEN 1 ELSE 1 + Digits[n \div 10]

Normal(coef, exp) ==
  IF coef = 0 THEN [coef |-> 0, exp |-> 0]
  ELSE LET zeros == Max({k \in 0..(Digits[coef] - 1) : coef % Pow10[k] = 0})
       IN [coef |-> coef \div Pow10[zeros], exp |-> exp + zeros]

IsNormal(d) == d.coef \in Nat /\ d.exp \in Int /\ d = Normal(d.coef, d.exp)

Sd(d) == Digits[d.coef]
DecimalPlaces(d) == Max({0, -d.exp})

-----------------------------------------------------------------------------
(* Exact values                                                            *)

Ratio(num, den, exp) == [num |-> num, den |-> den, exp |-> exp]

Exactly(d)    == Ratio(d.coef, 1, d.exp)
Product(x, d)  == Ratio(x.num * d.coef, x.den, x.exp + d.exp)
Quotient(x, d) == Ratio(x.num, x.den * d.coef, x.exp - d.exp)

\* The exponent of the leading digit of x > 0.
Leading(x) ==
  LET e == Digits[x.num] - Digits[x.den]
      reached == IF e >= 0 THEN x.num >= x.den * Pow10[e] ELSE x.num * Pow10[-e] >= x.den
  IN x.exp + (IF reached THEN e ELSE e - 1)

Sign(n) == IF n < 0 THEN -1 ELSE IF n > 0 THEN 1 ELSE 0

\* The sign of x - y, settled by the leading digits if they can.
Cmp(x, y) ==
  IF x.num = 0 \/ y.num = 0 THEN Sign(x.num - y.num)
  ELSE IF Leading(x) # Leading(y) THEN Sign(Leading(x) - Leading(y))
  ELSE LET unit == Min({x.exp, y.exp})
       IN Sign(x.num * y.den * Pow10[x.exp - unit] - y.num * x.den * Pow10[y.exp - unit])

-----------------------------------------------------------------------------
(* Rounding                                                                *)

\* ROUND_HALF_EVEN of num/den to an integer.
HalfEven(num, den) ==
  LET q == num \div den
      r == num % den
  IN IF 2 * r < den \/ (2 * r = den /\ q % 2 = 0) THEN q ELSE q + 1

\* x in units of 10^unit, rounded; less than a tenth of one is nothing.
ToUnit(x, unit) ==
  IF x.num = 0 \/ Leading(x) < unit - 1 THEN Normal(0, 0)
  ELSE Normal(IF x.exp >= unit THEN HalfEven(x.num * Pow10[x.exp - unit], x.den)
                               ELSE HalfEven(x.num, x.den * Pow10[unit - x.exp]), unit)

RoundTo(x, precision) ==
  IF x.num = 0 THEN Normal(0, 0) ELSE ToUnit(x, Leading(x) - precision + 1)

-----------------------------------------------------------------------------
(* withPrecision                                                           *)

WithPrecision(precision, x) == RoundTo(x, Max({precision, Precision}))

\* Faulty: the product is rounded to the domain's own precision.
ExactTimesFixed(a, b) == RoundTo(Product(Exactly(a), b), Precision)

\* A product has no more digits than its operands together.
ExactTimes(a, b) == WithPrecision(Sd(a) + Sd(b), Product(Exactly(a), b))

\* Faulty: the quotient is rounded to the domain's own precision.
GuardedDivFixed(a, b) == RoundTo(Quotient(Exactly(a), b), Precision)

GuardedDiv(a, b) == WithPrecision(Sd(a) + Sd(b) + GuardDigits, Quotient(Exactly(a), b))

=============================================================================
