---------------------------- MODULE MoneyProofs ----------------------------
(***************************************************************************)
(* Proofs about the amounts and the currency of a conversion, for any      *)
(* table, inputs, rates, limit, precision and number of legs.              *)
(*                                                                         *)
(* The first half is the arithmetic of DomainDecimal.  Its recursions are  *)
(* shown to define what they should (PowersOfTen, DigitsRecur); values are *)
(* compared as numerators in a unit that both are whole in (Less, Same),   *)
(* of which Leading and Cmp are shown to tell (LeadingBounds, CmpTells);   *)
(* and ToUnit to round half-even (ToUnitRounds).  A rounded quotient stays *)
(* on its side of a decimal that is coarse enough, because its exact value *)
(* is either that decimal or further from it than half a unit of the       *)
(* rounding (Separated, QuotientSides).  Once such a quotient is           *)
(* multiplied, only its relative error is known, which products keep       *)
(* (IsNear, NearProduct): enough to round to a whole number of units what  *)
(* is one exactly (NearWhole).                                             *)
(*                                                                         *)
(* The second half is the invariant ExactInv: an unrounded amount is its   *)
(* exact value, or the rounded quotient of two decimals whose quotient it  *)
(* is, or within the error of one quotient of it (Tracks).                 *)
(***************************************************************************)
EXTENDS Money, DataLemmas

-----------------------------------------------------------------------------
(* Powers of ten and digits                                                *)

\* The recursion of Pow10 defines it: ten times as much with every digit.
LEMMA PowersOfTen ==
  /\ Pow10[0] = 1
  /\ \A n \in Nat : Pow10[n] \in Nat \ {0} /\ Pow10[n + 1] = 10 * Pow10[n]
<1> DEFINE S == Nat \ {0}
           before == [n \in Nat |-> n - 1]
           step == [v \in S |-> 10 * v]
<1>1. step \in [S -> S] /\ 1 \in S /\ GoesBack(before, 1)
  BY DEF GoesBack
<1>2. \A v \in S : step[v] = 10 * v
  OBVIOUS
<1> HIDE DEF S, before, step
<1>3. PICK f : Recurs(f, S, 1, step, before, 1)
  <2>1. 1 \in Nat \ {0}
    OBVIOUS
  <2> QED BY <1>1, <2>1, RecursionDefines
<1>4. ASSUME NEW n \in Nat
      PROVE  f[n] = IF n = 0 THEN 1 ELSE 10 * f[n - 1]
  <2>1. f[n] = IF n < 1 THEN 1 ELSE step[f[before[n]]]
    BY <1>3 DEF Recurs
  <2>2. n # 0 => n - 1 \in Nat /\ f[n - 1] \in S /\ step[f[n - 1]] = 10 * f[n - 1]
    BY <1>2, <1>3 DEF Recurs
  <2> QED BY <2>1, <2>2 DEF before
<1>5. f = [n \in Nat |-> IF n = 0 THEN 1 ELSE 10 * f[n - 1]]
  BY <1>3, <1>4 DEF Recurs
<1>6. Pow10 = [n \in Nat |-> IF n = 0 THEN 1 ELSE 10 * Pow10[n - 1]]
  BY <1>5 DEF Pow10
<1>7. Pow10[0] = 1 /\ \A n \in Nat : Pow10[n + 1] = 10 * Pow10[n]
  BY <1>6
<1>8. ASSUME NEW n \in Nat
      PROVE  Pow10[n] \in S
  <2> DEFINE D == {i \in 0..n : Pow10[i] \in S}
  <2>1. 0 \in D /\ \A i \in 0..n : i \in D /\ i < n => i + 1 \in D
    BY <1>7 DEF S
  <2> HIDE DEF D
  <2>2. n \in D
    BY <2>1, Climbs
  <2> QED BY <2>2 DEF D
<1> QED BY <1>7, <1>8 DEF S

\* Digits are added where powers are multiplied.
LEMMA PowersMultiply ==
  ASSUME NEW a \in Nat, NEW b \in Nat
  PROVE  Pow10[a + b] = Pow10[a] * Pow10[b]
<1> DEFINE D == {i \in 0..b : Pow10[a + i] = Pow10[a] * Pow10[i]}
<1>1. 0 \in D
  BY PowersOfTen
<1>2. ASSUME NEW i \in 0..b, i \in D, i < b
      PROVE  i + 1 \in D
  <2>1. Pow10[a + (i + 1)] = 10 * Pow10[a + i] /\ Pow10[i + 1] = 10 * Pow10[i]
    BY PowersOfTen
  <2>2. Pow10[a] \in Nat /\ Pow10[i] \in Nat
    BY PowersOfTen
  <2> QED BY <1>2, <2>1, <2>2
<1> HIDE DEF D
<1>3. b \in D
  BY <1>1, <1>2, Climbs
<1> QED BY <1>3 DEF D

\* More digits, a greater power, tenfold at least.
LEMMA PowersGrow ==
  ASSUME NEW a \in Nat, NEW b \in Nat
  PROVE  /\ a <= b => Pow10[a] <= Pow10[b]
         /\ a < b => 10 * Pow10[a] <= Pow10[b]
<1>1. ASSUME a <= b
      PROVE  Pow10[b] = Pow10[a] * Pow10[b - a] /\ Pow10[a] \in Nat /\ Pow10[b - a] \in Nat \ {0}
  <2>1. b - a \in Nat /\ a + (b - a) = b
    BY <1>1
  <2>2. Pow10[a + (b - a)] = Pow10[a] * Pow10[b - a]
    BY <2>1, PowersMultiply
  <2> QED BY <2>1, <2>2, PowersOfTen
<1>2. ASSUME a < b
      PROVE  Pow10[b] = (10 * Pow10[a]) * Pow10[b - a - 1] /\ Pow10[a] \in Nat
                /\ Pow10[b - a - 1] \in Nat \ {0}
  <2>1. b - a - 1 \in Nat /\ (a + 1) + (b - a - 1) = b
    BY <1>2
  <2>2. Pow10[(a + 1) + (b - a - 1)] = Pow10[a + 1] * Pow10[b - a - 1]
    BY <2>1, PowersMultiply
  <2> QED BY <2>1, <2>2, PowersOfTen
<1> QED BY <1>1, <1>2

\* So does the recursion of Digits: one more for every division by ten.
LEMMA DigitsRecur ==
  \A n \in Nat : Digits[n] = IF n < 10 THEN 1 ELSE 1 + Digits[n \div 10]
<1> DEFINE before == [n \in Nat |-> n \div 10]
           step == [v \in Nat |-> 1 + v]
<1>1. step \in [Nat -> Nat] /\ 1 \in Nat /\ GoesBack(before, 10)
  BY DEF GoesBack
<1>2. \A v \in Nat : step[v] = 1 + v
  OBVIOUS
<1> HIDE DEF before, step
<1>3. PICK f : Recurs(f, Nat, 1, step, before, 10)
  <2>1. 10 \in Nat \ {0}
    OBVIOUS
  <2> QED BY <1>1, <2>1, RecursionDefines
<1>4. ASSUME NEW n \in Nat
      PROVE  f[n] = IF n < 10 THEN 1 ELSE 1 + f[n \div 10]
  <2>1. f[n] = IF n < 10 THEN 1 ELSE step[f[before[n]]]
    BY <1>3 DEF Recurs
  <2>2. n \div 10 \in Nat /\ f[n \div 10] \in Nat /\ step[f[n \div 10]] = 1 + f[n \div 10]
    BY <1>2, <1>3 DEF Recurs
  <2> QED BY <2>1, <2>2 DEF before
<1>5. f = [n \in Nat |-> IF n < 10 THEN 1 ELSE 1 + f[n \div 10]]
  BY <1>3, <1>4 DEF Recurs
<1>6. Digits = [n \in Nat |-> IF n < 10 THEN 1 ELSE 1 + Digits[n \div 10]]
  BY <1>5 DEF Digits
<1> QED BY <1>6

\* A number lies between the powers its digits say.
LEMMA DigitsBound ==
  ASSUME NEW n \in Nat
  PROVE  /\ Digits[n] \in Nat \ {0}
         /\ n < Pow10[Digits[n]]
         /\ n # 0 => Pow10[Digits[n] - 1] <= n
<1> DEFINE Bound(i) == /\ Digits[i] \in Nat \ {0}
                       /\ i < Pow10[Digits[i]]
                       /\ i # 0 => Pow10[Digits[i] - 1] <= i
           D == {i \in 0..n : \A j \in 0..i : Bound(j)}
<1>1. ASSUME NEW i \in Nat, \A j \in Nat : j < i => Bound(j)
      PROVE  Bound(i)
  <2>1. CASE i < 10
    <3>1. Digits[i] = 1 /\ Pow10[1] = 10 /\ Pow10[0] = 1
      BY <2>1, DigitsRecur, PowersOfTen
    <3> QED BY <2>1, <3>1
  <2>2. CASE i >= 10
    <3> DEFINE t == i \div 10
    <3>1. t \in Nat \ {0} /\ t < i /\ 10 * t <= i /\ i < 10 * (t + 1)
      BY <2>2
    <3>2. Digits[i] = 1 + Digits[t]
      BY <2>2, DigitsRecur
    <3> HIDE DEF t
    <3>3. Bound(t)
      BY <1>1, <3>1
    <3>4. /\ Pow10[Digits[i]] = 10 * Pow10[Digits[t]] /\ Pow10[Digits[t]] \in Nat
          /\ Pow10[Digits[i] - 1] = 10 * Pow10[Digits[t] - 1] /\ Pow10[Digits[t] - 1] \in Nat
      BY <3>2, <3>3, PowersOfTen
    <3> QED BY <3>1, <3>2, <3>3, <3>4
  <2> QED BY <2>1, <2>2
<1> HIDE DEF Bound
<1>2. 0 \in D
  BY <1>1
<1>3. ASSUME NEW i \in 0..n, i \in D, i < n
      PROVE  i + 1 \in D
  <2>1. Bound(i + 1)
    BY <1>1, <1>3
  <2>2. \A j \in 0..(i + 1) : j \in 0..i \/ j = i + 1
    OBVIOUS
  <2> QED BY <1>3, <2>1, <2>2
<1> HIDE DEF D
<1>4. n \in D
  BY <1>2, <1>3, Climbs
<1> QED BY <1>4 DEF D, Bound

\* And no others.
LEMMA DigitsAre ==
  ASSUME NEW n \in Nat \ {0}, NEW k \in Nat, Pow10[k] <= n, n < Pow10[k + 1]
  PROVE  Digits[n] = k + 1
<1> DEFINE d == Digits[n]
<1>1. d \in Nat \ {0} /\ n < Pow10[d] /\ Pow10[d - 1] <= n
  BY DigitsBound
<1> HIDE DEF d
<1>2. Pow10[d] \in Nat /\ Pow10[d - 1] \in Nat /\ Pow10[k] \in Nat /\ Pow10[k + 1] \in Nat
  BY <1>1, PowersOfTen
<1>3. ~(d <= k)
  BY <1>1, <1>2, PowersGrow
<1>4. ~(k + 1 <= d - 1)
  BY <1>1, <1>2, PowersGrow
<1> QED BY <1>1, <1>3, <1>4 DEF d

-----------------------------------------------------------------------------
(* Decimals in normal form                                                 *)

\* Division with a remainder.
LEMMA DivMod ==
  ASSUME NEW n \in Nat, NEW d \in Nat \ {0}
  PROVE  n \div d \in Nat /\ n % d \in 0..(d - 1) /\ n = d * (n \div d) + (n % d)
OBVIOUS

\* And no other quotient and remainder.
LEMMA Divided ==
  ASSUME NEW q \in Nat, NEW d \in Nat \ {0}, NEW r \in 0..(d - 1)
  PROVE  (d * q + r) \div d = q /\ (d * q + r) % d = r
<1> DEFINE n == d * q + r
<1>1. n \in Nat
  OBVIOUS
<1>2. n \div d \in Nat /\ n % d \in 0..(d - 1) /\ n = d * (n \div d) + (n % d)
  BY <1>1, DivMod
<1>3. ASSUME NEW a \in Nat, NEW b \in 0..(d - 1), d * a + b = d * q + r
      PROVE  a = q
  <2>1. ~(a < q)
    <3>1. a < q => d * a + d <= d * q
      <4>1. a < q => d * (a + 1) <= d * q
        OBVIOUS
      <4> QED BY <4>1
    <3> QED BY <1>3, <3>1
  <2>2. ~(q < a)
    <3>1. q < a => d * q + d <= d * a
      <4>1. q < a => d * (q + 1) <= d * a
        OBVIOUS
      <4> QED BY <4>1
    <3> QED BY <1>3, <3>1
  <2> QED BY <2>1, <2>2
<1>4. n \div d = q
  BY <1>2, <1>3
<1> QED BY <1>2, <1>4

\* What Normal strips of a coefficient are the zeros at its end.
Zeros(c) == Max({k \in 0..(Digits[c] - 1) : c % Pow10[k] = 0})

\* They are all stripped, and nothing else is.
LEMMA ZerosStripped ==
  ASSUME NEW c \in Nat \ {0}
  PROVE  /\ Zeros(c) \in Nat
         /\ c \div Pow10[Zeros(c)] \in Nat \ {0}
         /\ c = (c \div Pow10[Zeros(c)]) * Pow10[Zeros(c)]
         /\ Zeros(c \div Pow10[Zeros(c)]) = 0
<1> DEFINE Z(n) == {k \in 0..(Digits[n] - 1) : n % Pow10[k] = 0}
<1>1. ASSUME NEW n \in Nat \ {0}
      PROVE  /\ Zeros(n) \in Z(n) /\ (\A k \in Z(n) : Zeros(n) >= k)
             /\ Z(n) \subseteq Nat
  <2> DEFINE z == Z(n)
             id == [k \in z |-> k]
  <2>1. Digits[n] \in Nat \ {0} /\ Pow10[0] = 1
    BY DigitsBound, PowersOfTen
  <2>2. n % 1 = 0
    OBVIOUS
  <2>3. 0 \in z /\ z \subseteq 0..(Digits[n] - 1) /\ z \subseteq Nat
    BY <2>1, <2>2
  <2>4. IsFiniteSet(z)
    <3>1. IsFiniteSet(0..(Digits[n] - 1))
      BY SMTT(60), <2>1, FS_Interval
    <3> QED BY <2>3, <3>1, FS_Subset
  <2>5. z = {id[k] : k \in z} /\ \A k \in z : id[k] \in Int
    <3>1. \A k \in z : id[k] = k
      OBVIOUS
    <3> HIDE DEF z, id
    <3> QED BY <2>3, <3>1
  <2>6. Zeros(n) = Max(z)
    BY DEF Zeros
  <2> HIDE DEF z, id
  <2>7. Max(z) \in z /\ \A k \in z : Max(z) >= k
    BY <2>3, <2>4, <2>5, GreatestIsMax
  <2> QED BY <2>3, <2>6, <2>7 DEF z
<1> DEFINE z == Zeros(c)
           q == c \div Pow10[z]
<1>2. z \in Nat /\ z \in Z(c) /\ \A k \in Z(c) : z >= k
  BY <1>1
<1>3. Pow10[z] \in Nat \ {0} /\ c % Pow10[z] = 0
  BY <1>2, PowersOfTen
<1>4. q \in Nat /\ c = Pow10[z] * q + (c % Pow10[z])
  BY <1>3, DivMod
<1>5. q \in Nat \ {0} /\ c = q * Pow10[z]
  BY <1>3, <1>4
<1> HIDE DEF z, q
<1>6. Zeros(q) = 0
  <2> DEFINE k == Zeros(q)
  <2>1. k \in Nat /\ q % Pow10[k] = 0
    BY <1>1, <1>5
  <2> HIDE DEF k
  <2>2. Pow10[k] \in Nat \ {0} /\ Pow10[z + k] = Pow10[z] * Pow10[k] /\ Pow10[z + k] \in Nat \ {0}
    BY <1>2, <2>1, PowersOfTen, PowersMultiply
  <2> DEFINE r == q \div Pow10[k]
  <2>3. r \in Nat /\ q = Pow10[k] * r
    <3>1. q \in Nat /\ q = Pow10[k] * (q \div Pow10[k]) + (q % Pow10[k]) /\ q \div Pow10[k] \in Nat
      BY <1>5, <2>2, DivMod
    <3> QED BY <2>1, <2>2, <3>1
  <2> HIDE DEF r
  <2>4. c = Pow10[z + k] * r
    BY <1>3, <1>5, <2>2, <2>3
  <2>5. c % Pow10[z + k] = 0
    BY <2>2, <2>3, <2>4, Divided
  <2>6. Pow10[z + k] <= c
    BY <2>2, <2>3, <2>4
  <2>7. z + k <= Digits[c] - 1
    <3>1. Digits[c] \in Nat \ {0} /\ c < Pow10[Digits[c]] /\ Pow10[Digits[c]] \in Nat
      BY DigitsBound, PowersOfTen
    <3>2. ~(Digits[c] <= z + k)
      BY <1>2, <2>1, <2>2, <2>6, <3>1, PowersGrow
    <3> QED BY <1>2, <2>1, <3>1, <3>2
  <2>8. z + k \in Z(c)
    BY <1>2, <2>1, <2>5, <2>7
  <2> QED BY <1>2, <2>1, <2>8 DEF k
<1> QED BY <1>2, <1>5, <1>6 DEF z, q

\* Normal keeps the value and leaves no zeros.
LEMMA NormalKeeps ==
  ASSUME NEW c \in Nat, NEW e \in Int
  PROVE  LET d == Normal(c, e) IN
           /\ IsNormal(d) /\ d.coef \in Nat /\ d.exp \in Int
           /\ c = 0 => d.coef = 0 /\ d.exp = 0
           /\ c # 0 => /\ d.coef # 0 /\ d.exp - e \in Nat
                       /\ c = d.coef * Pow10[d.exp - e]
<1>1. CASE c = 0
  BY <1>1 DEF Normal, IsNormal
<1>2. CASE c # 0
  <2> DEFINE z == Zeros(c)
             q == c \div Pow10[z]
  <2>1. z \in Nat /\ q \in Nat \ {0} /\ c = q * Pow10[z] /\ Zeros(q) = 0
    BY <1>2, ZerosStripped
  <2>2. Normal(c, e) = [coef |-> q, exp |-> e + z]
    BY <1>2 DEF Normal, Zeros
  <2> HIDE DEF z, q
  <2>3. Normal(q, e + z) = [coef |-> q \div Pow10[Zeros(q)], exp |-> e + z + Zeros(q)]
    BY <2>1 DEF Normal, Zeros
  <2>4. q \div Pow10[Zeros(q)] = q
    BY <2>1, PowersOfTen
  <2>5. e + z \in Int /\ (e + z) + 0 = e + z /\ (e + z) - e = z
    BY <2>1
  <2>6. Normal(q, e + z) = Normal(c, e)
    BY <2>1, <2>2, <2>3, <2>4, <2>5
  <2>7. IsNormal(Normal(c, e))
    BY <2>1, <2>2, <2>6 DEF IsNormal
  <2> QED BY <1>2, <2>1, <2>2, <2>5, <2>7
<1> QED BY <1>1, <1>2

-----------------------------------------------------------------------------
(* Comparing                                                               *)

IsRatio(x) == x.num \in Nat /\ x.den \in Nat \ {0} /\ x.exp \in Int

\* The numerator in units of 10^m.
At(x, m) == x.num * Pow10[x.exp - m]

\* A smaller unit.
LEMMA AtScales ==
  ASSUME NEW x, IsRatio(x), NEW m \in Int, NEW n \in Int, n <= m, m <= x.exp
  PROVE  /\ At(x, m) \in Nat /\ At(x, n) = At(x, m) * Pow10[m - n]
         /\ Pow10[m - n] \in Nat \ {0} /\ (At(x, m) = 0 <=> x.num = 0)
<1>1. x.num \in Nat /\ x.exp - m \in Nat /\ m - n \in Nat /\ x.exp - n = (x.exp - m) + (m - n)
  BY DEF IsRatio
<1>2. /\ Pow10[x.exp - m] \in Nat \ {0} /\ Pow10[m - n] \in Nat \ {0}
      /\ Pow10[(x.exp - m) + (m - n)] = Pow10[x.exp - m] * Pow10[m - n]
  BY <1>1, PowersOfTen, PowersMultiply
<1> QED BY <1>1, <1>2 DEF At

\* Multiplying both sides changes no comparison.
LEMMA Cancel ==
  ASSUME NEW a \in Nat, NEW b \in Nat, NEW c \in Nat \ {0}
  PROVE  /\ a * c <= b * c <=> a <= b
         /\ a * c < b * c <=> a < b
         /\ a * c = b * c <=> a = b
<1>1. a < b => a * c < b * c
  OBVIOUS
<1>2. b < a => b * c < a * c
  OBVIOUS
<1> QED BY <1>1, <1>2

\* Whether num * 10^s reaches den * 10^t depends on t - s alone.
LEMMA ReachScales ==
  ASSUME NEW num \in Nat, NEW den \in Nat, NEW s \in Nat, NEW t \in Nat, NEW u \in Nat, NEW v \in Nat,
         t - s = v - u
  PROVE  num * Pow10[s] >= den * Pow10[t] <=> num * Pow10[u] >= den * Pow10[v]
<1>1. ASSUME NEW i \in Nat, NEW j \in Nat, NEW k \in Nat
      PROVE  num * Pow10[i + k] >= den * Pow10[j + k] <=> num * Pow10[i] >= den * Pow10[j]
  <2>1. /\ Pow10[i] \in Nat /\ Pow10[j] \in Nat /\ Pow10[k] \in Nat \ {0}
        /\ Pow10[i + k] = Pow10[i] * Pow10[k] /\ Pow10[j + k] = Pow10[j] * Pow10[k]
    BY PowersOfTen, PowersMultiply
  <2>2. /\ num * Pow10[i + k] = (num * Pow10[i]) * Pow10[k]
        /\ den * Pow10[j + k] = (den * Pow10[j]) * Pow10[k]
    BY <2>1
  <2>3. num * Pow10[i] \in Nat /\ den * Pow10[j] \in Nat
    BY <2>1
  <2> QED BY <2>1, <2>2, <2>3, Cancel
<1>2. CASE s <= u
  <2>1. u - s \in Nat /\ u = s + (u - s) /\ v = t + (u - s)
    BY <1>2
  <2>2. num * Pow10[s + (u - s)] >= den * Pow10[t + (u - s)] <=> num * Pow10[s] >= den * Pow10[t]
    BY <1>1, <2>1
  <2> QED BY <2>1, <2>2
<1>3. CASE u <= s
  <2>1. s - u \in Nat /\ s = u + (s - u) /\ t = v + (s - u)
    BY <1>3
  <2>2. num * Pow10[u + (s - u)] >= den * Pow10[v + (s - u)] <=> num * Pow10[u] >= den * Pow10[v]
    BY <1>1, <2>1
  <2> QED BY <2>1, <2>2
<1> QED BY <1>2, <1>3

\* The leading digit of a ratio: its value is at least that power of ten, and less than the next.
LEMMA LeadingBounds ==
  ASSUME NEW x, IsRatio(x), x.num # 0
  PROVE  /\ Leading(x) \in Int
         /\ Leading(x) <= x.exp + Digits[x.num] - Digits[x.den]
         /\ \A m \in Int : m <= x.exp /\ m <= Leading(x) =>
              /\ Pow10[Leading(x) - m] * x.den <= At(x, m)
              /\ At(x, m) < Pow10[Leading(x) + 1 - m] * x.den
<1> DEFINE num == x.num
           den == x.den
           a == Digits[num]
           b == Digits[den]
           e == a - b
           L == Leading(x)
           reached == IF e >= 0 THEN num >= den * Pow10[e] ELSE num * Pow10[-e] >= den
<1>1. num \in Nat \ {0} /\ den \in Nat \ {0} /\ x.exp \in Int
  BY DEF IsRatio
<1>2. /\ a \in Nat \ {0} /\ Pow10[a - 1] <= num /\ num < Pow10[a]
      /\ b \in Nat \ {0} /\ Pow10[b - 1] <= den /\ den < Pow10[b]
  BY <1>1, DigitsBound
<1>3. L = x.exp + (IF reached THEN e ELSE e - 1)
  BY DEF Leading
<1>4. L \in Int /\ L <= x.exp + e /\ e = a - b /\ e \in Int
  BY <1>1, <1>2, <1>3
<1> HIDE DEF e
<1>5. ASSUME NEW s \in Nat, NEW t \in Nat, t - s = e
      PROVE  reached <=> num * Pow10[s] >= den * Pow10[t]
  <2>1. CASE e >= 0
    <3>1. e \in Nat /\ e - 0 = t - s
      BY <1>4, <1>5, <2>1
    <3>2. num * Pow10[0] >= den * Pow10[e] <=> num * Pow10[s] >= den * Pow10[t]
      BY <1>1, <3>1, ReachScales
    <3> QED BY <1>1, <2>1, <3>2, PowersOfTen
  <2>2. CASE ~(e >= 0)
    <3>1. -e \in Nat /\ 0 - (-e) = t - s
      BY <1>4, <1>5, <2>2
    <3>2. num * Pow10[-e] >= den * Pow10[0] <=> num * Pow10[s] >= den * Pow10[t]
      BY <1>1, <3>1, ReachScales
    <3> QED BY <1>1, <2>2, <3>2, PowersOfTen
  <2> QED BY <2>1, <2>2
<1> HIDE DEF num, den, a, b, L, reached
<1>6. ASSUME NEW m \in Int, m <= x.exp, m <= L
      PROVE  /\ Pow10[L - m] * den <= num * Pow10[x.exp - m]
             /\ num * Pow10[x.exp - m] < Pow10[L + 1 - m] * den
  <2> DEFINE s == x.exp - m
             t == s + e
  <2>1. s \in Nat /\ t \in Int /\ (reached => t \in Nat /\ L - m = t)
           /\ (~reached => t \in Nat \ {0} /\ L - m = t - 1)
    <3>1. reached => L = x.exp + e
      BY <1>3
    <3>2. ~reached => L = x.exp + e - 1
      BY <1>3
    <3> QED BY <1>1, <1>4, <1>6, <3>1, <3>2
  <2>2. t \in Nat /\ t - s = e
    BY <1>1, <1>4, <2>1
  <2>3. t + b = s + a /\ L + 1 - m = (L - m) + 1
    BY <1>1, <1>2, <1>4
  <2> HIDE DEF s, t
  <2>4. Pow10[s] \in Nat \ {0} /\ Pow10[t] \in Nat \ {0} /\ Pow10[t + 1] = 10 * Pow10[t]
    BY <2>1, <2>2, PowersOfTen
  <2>5. num * Pow10[s] < den * Pow10[t + 1]
    <3>1. num * Pow10[s] < Pow10[a] * Pow10[s]
      <4>1. Pow10[a] \in Nat
        BY <1>2, PowersOfTen
      <4> QED BY <1>1, <1>2, <2>4, <4>1, Cancel
    <3>2. Pow10[a] * Pow10[s] = Pow10[b - 1] * Pow10[t + 1]
      <4>1. Pow10[a + s] = Pow10[a] * Pow10[s]
        BY <1>2, <2>1, PowersMultiply
      <4>2. Pow10[(b - 1) + (t + 1)] = Pow10[b - 1] * Pow10[t + 1]
        BY <1>2, <2>2, PowersMultiply
      <4>3. a + s = (b - 1) + (t + 1)
        BY <1>2, <2>1, <2>2, <2>3
      <4> QED BY <4>1, <4>2, <4>3
    <3>3. Pow10[b - 1] * Pow10[t + 1] <= den * Pow10[t + 1]
      <4>1. Pow10[b - 1] \in Nat
        BY <1>2, PowersOfTen
      <4> QED BY <1>1, <1>2, <2>4, <4>1, Cancel
    <3>4. /\ num * Pow10[s] \in Int /\ Pow10[a] * Pow10[s] \in Int
          /\ Pow10[b - 1] * Pow10[t + 1] \in Int /\ den * Pow10[t + 1] \in Int
      BY <1>1, <1>2, <2>4, PowersOfTen
    <3> QED BY <3>1, <3>2, <3>3, <3>4
  <2>6. t # 0 => den * Pow10[t - 1] <= num * Pow10[s]
    <3> SUFFICES ASSUME t # 0
                 PROVE  den * Pow10[t - 1] <= num * Pow10[s]
      OBVIOUS
    <3>1. t - 1 \in Nat /\ Pow10[t - 1] \in Nat \ {0}
      BY <2>2, PowersOfTen
    <3>2. Pow10[a - 1] * Pow10[s] <= num * Pow10[s]
      <4>1. Pow10[a - 1] \in Nat
        BY <1>2, PowersOfTen
      <4> QED BY <1>1, <1>2, <2>4, <4>1, Cancel
    <3>3. Pow10[a - 1] * Pow10[s] = Pow10[b] * Pow10[t - 1]
      <4>1. Pow10[(a - 1) + s] = Pow10[a - 1] * Pow10[s]
        BY <1>2, <2>1, PowersMultiply
      <4>2. Pow10[b + (t - 1)] = Pow10[b] * Pow10[t - 1]
        BY <1>2, <3>1, PowersMultiply
      <4>3. (a - 1) + s = b + (t - 1)
        BY <1>2, <2>1, <2>2, <2>3
      <4> QED BY <4>1, <4>2, <4>3
    <3>4. den * Pow10[t - 1] <= Pow10[b] * Pow10[t - 1]
      <4>1. Pow10[b] \in Nat
        BY <1>2, PowersOfTen
      <4> QED BY <1>1, <1>2, <3>1, <4>1, Cancel
    <3>5. /\ num * Pow10[s] \in Int /\ Pow10[a - 1] * Pow10[s] \in Int
          /\ Pow10[b] * Pow10[t - 1] \in Int /\ den * Pow10[t - 1] \in Int
      BY <1>1, <1>2, <2>4, <3>1, PowersOfTen
    <3> QED BY <3>2, <3>3, <3>4, <3>5
  <2>7. reached <=> num * Pow10[s] >= den * Pow10[t]
    BY <1>5, <2>1, <2>2
  <2>8. /\ num * Pow10[s] \in Int /\ den * Pow10[t] \in Int /\ den * Pow10[t] = Pow10[t] * den
        /\ den * Pow10[t + 1] = Pow10[t + 1] * den
    BY <1>1, <2>4
  <2>9. CASE reached
    BY <2>1, <2>3, <2>5, <2>7, <2>8, <2>9 DEF s
  <2>10. CASE ~reached
    <3>1. t - 1 \in Nat /\ (t - 1) + 1 = t /\ Pow10[t - 1] \in Nat
      BY <2>1, <2>10, PowersOfTen
    <3>2. den * Pow10[t - 1] = Pow10[t - 1] * den
      BY <1>1, <3>1
    <3> QED BY <2>1, <2>3, <2>6, <2>7, <2>8, <2>10, <3>1, <3>2 DEF s
  <2> QED BY <2>9, <2>10
<1> QED BY <1>4, <1>6 DEF At, num, den, a, b, e, L

\* And no other power of ten is.
LEMMA LeadingIs ==
  ASSUME NEW x, IsRatio(x), x.num # 0, NEW m \in Int, m <= x.exp, NEW k \in Nat,
         Pow10[k] * x.den <= At(x, m), At(x, m) < Pow10[k + 1] * x.den
  PROVE  Leading(x) = m + k
<1> DEFINE L == Leading(x)
           n == IF m <= L THEN m ELSE L
           D == x.den
           d == m - n
           X == At(x, n)
<1>1. L \in Int
  BY LeadingBounds
<1>2. n \in Int /\ n <= m /\ n <= L /\ n <= x.exp /\ d \in Nat /\ L - n \in Nat /\ x.exp \in Int
  BY <1>1 DEF IsRatio
<1>3. Pow10[L - n] * D <= X /\ X < Pow10[L + 1 - n] * D
  BY <1>2, LeadingBounds
<1>4. At(x, m) \in Nat /\ X = At(x, m) * Pow10[d] /\ Pow10[d] \in Nat \ {0}
  BY <1>2, AtScales
<1>5. D \in Nat \ {0}
  BY DEF IsRatio
<1>6. /\ Pow10[k] * D \in Nat /\ Pow10[k + 1] * D \in Nat
      /\ Pow10[k] \in Nat /\ Pow10[k + 1] \in Nat
  BY <1>5, PowersOfTen
<1> HIDE DEF L, n, D, d, X
<1>7. (Pow10[k] * D) * Pow10[d] <= X /\ X < (Pow10[k + 1] * D) * Pow10[d]
  BY <1>4, <1>6, Cancel DEF D
<1>8. Pow10[k + d] = Pow10[k] * Pow10[d] /\ Pow10[(k + 1) + d] = Pow10[k + 1] * Pow10[d]
  <2>1. k + 1 \in Nat
    OBVIOUS
  <2> QED BY <1>2, <2>1, PowersMultiply
<1>9. Pow10[k + d] * D <= X /\ X < Pow10[(k + 1) + d] * D
  <2>1. /\ (Pow10[k] * D) * Pow10[d] = (Pow10[k] * Pow10[d]) * D
        /\ (Pow10[k + 1] * D) * Pow10[d] = (Pow10[k + 1] * Pow10[d]) * D
    BY <1>4, <1>5, <1>6
  <2> QED BY <1>7, <1>8, <2>1
<1>10. /\ L - n + 1 \in Nat /\ L + 1 - n = L - n + 1 /\ k + d \in Nat /\ (k + 1) + d = k + d + 1
       /\ k + d + 1 \in Nat
  BY <1>1, <1>2
<1>11. /\ Pow10[L - n] \in Nat /\ Pow10[L - n + 1] \in Nat
       /\ Pow10[k + d] \in Nat /\ Pow10[k + d + 1] \in Nat /\ X \in Nat
  <2>1. X \in Nat
    BY <1>4
  <2> QED BY <1>2, <1>10, <2>1, PowersOfTen
<1>12. Pow10[L - n] < Pow10[k + d + 1]
  <2>1. Pow10[L - n] * D < Pow10[k + d + 1] * D
    <3>1. Pow10[L - n] * D \in Nat /\ Pow10[k + d + 1] * D \in Nat
      BY <1>5, <1>11
    <3> QED BY <1>3, <1>9, <1>10, <1>11, <3>1
  <2> QED BY <1>5, <1>11, <2>1, Cancel
<1>13. Pow10[k + d] < Pow10[L - n + 1]
  <2>1. Pow10[k + d] * D < Pow10[L - n + 1] * D
    <3>1. Pow10[k + d] * D \in Nat /\ Pow10[L - n + 1] * D \in Nat
      BY <1>5, <1>11
    <3> QED BY <1>3, <1>9, <1>10, <1>11, <3>1
  <2> QED BY <1>5, <1>11, <2>1, Cancel
<1>14. ~(k + d + 1 <= L - n)
  BY <1>2, <1>10, <1>11, <1>12, PowersGrow
<1>15. ~(L - n + 1 <= k + d)
  BY <1>10, <1>11, <1>13, PowersGrow
<1>16. L - n = k + d
  BY <1>2, <1>10, <1>14, <1>15
<1> QED BY <1>1, <1>2, <1>16 DEF L, d

\* A comparison in a smaller unit.
LEMMA CrossScales ==
  ASSUME NEW x, NEW y, IsRatio(x), IsRatio(y),
         NEW m \in Int, NEW n \in Int, n <= m, m <= x.exp, m <= y.exp
  PROVE  /\ At(x, n) * y.den < At(y, n) * x.den <=> At(x, m) * y.den < At(y, m) * x.den
         /\ At(x, n) * y.den = At(y, n) * x.den <=> At(x, m) * y.den = At(y, m) * x.den
<1>1. /\ At(x, m) \in Nat /\ At(x, n) = At(x, m) * Pow10[m - n] /\ Pow10[m - n] \in Nat \ {0}
      /\ At(y, m) \in Nat /\ At(y, n) = At(y, m) * Pow10[m - n]
  BY AtScales
<1>2. x.den \in Nat /\ y.den \in Nat
  BY DEF IsRatio
<1> DEFINE a == At(x, m)
           b == At(y, m)
           p == Pow10[m - n]
<1> HIDE DEF a, b, p
<1>3. (a * p) * y.den = (a * y.den) * p /\ (b * p) * x.den = (b * x.den) * p
  BY <1>1, <1>2 DEF a, b, p
<1>4. a * y.den \in Nat /\ b * x.den \in Nat /\ p \in Nat \ {0}
  BY <1>1, <1>2 DEF a, b, p
<1>5. /\ (a * y.den) * p < (b * x.den) * p <=> a * y.den < b * x.den
      /\ (a * y.den) * p = (b * x.den) * p <=> a * y.den = b * x.den
  <2> DEFINE c == a * y.den
             d == b * x.den
  <2>1. c \in Nat /\ d \in Nat
    BY <1>4
  <2> HIDE DEF c, d
  <2>2. (c * p < d * p <=> c < d) /\ (c * p = d * p <=> c = d)
    BY <1>4, <2>1, Cancel
  <2> QED BY <2>2 DEF c, d
<1> QED BY <1>1, <1>3, <1>5 DEF a, b, p

\* x is the smaller, or the same, in any unit in which both are whole numerators.
Less(x, y) == \A m \in Int : m <= x.exp /\ m <= y.exp => At(x, m) * y.den < At(y, m) * x.den
Same(x, y) == \A m \in Int : m <= x.exp /\ m <= y.exp => At(x, m) * y.den = At(y, m) * x.den

\* One unit decides.
LEMMA OneUnit ==
  ASSUME NEW x, NEW y, IsRatio(x), IsRatio(y), NEW m \in Int, m <= x.exp, m <= y.exp
  PROVE  /\ Less(x, y) <=> At(x, m) * y.den < At(y, m) * x.den
         /\ Less(y, x) <=> At(y, m) * x.den < At(x, m) * y.den
         /\ Same(x, y) <=> At(x, m) * y.den = At(y, m) * x.den
<1>1. ASSUME NEW n \in Int, n <= x.exp, n <= y.exp
      PROVE  /\ At(x, n) * y.den < At(y, n) * x.den <=> At(x, m) * y.den < At(y, m) * x.den
             /\ At(y, n) * x.den < At(x, n) * y.den <=> At(y, m) * x.den < At(x, m) * y.den
             /\ At(x, n) * y.den = At(y, n) * x.den <=> At(x, m) * y.den = At(y, m) * x.den
  <2>1. CASE n <= m
    BY <1>1, <2>1, CrossScales
  <2>2. CASE m <= n
    BY <1>1, <2>2, CrossScales
  <2> QED BY <2>1, <2>2
<1> QED BY <1>1 DEF Less, Same

\* There is such a unit, and the comparison has one outcome.
LEMMA Trichotomy ==
  ASSUME NEW x, NEW y, IsRatio(x), IsRatio(y)
  PROVE  /\ Less(x, y) \/ Same(x, y) \/ Less(y, x)
         /\ ~(Less(x, y) /\ Same(x, y)) /\ ~(Less(x, y) /\ Less(y, x)) /\ ~(Less(y, x) /\ Same(x, y))
         /\ Same(x, y) <=> Same(y, x)
<1> DEFINE m == IF x.exp <= y.exp THEN x.exp ELSE y.exp
           a == At(x, m) * y.den
           b == At(y, m) * x.den
<1>1. m \in Int /\ m <= x.exp /\ m <= y.exp
  BY DEF IsRatio
<1> HIDE DEF m
<1>2. a \in Nat /\ b \in Nat
  <2>1. At(x, m) \in Nat /\ At(y, m) \in Nat
    BY <1>1, AtScales
  <2> QED BY <2>1 DEF IsRatio
<1>3. (Less(x, y) <=> a < b) /\ (Less(y, x) <=> b < a) /\ (Same(x, y) <=> a = b)
         /\ (Same(y, x) <=> b = a)
  BY <1>1, OneUnit
<1> HIDE DEF a, b
<1> QED BY <1>2, <1>3

\* Who has the greater leading digit is greater.
LEMMA LeadingOrders ==
  ASSUME NEW x, NEW y, IsRatio(x), IsRatio(y), x.num # 0, y.num # 0, Leading(x) < Leading(y)
  PROVE  Less(x, y)
<1> DEFINE k == Leading(x)
           l == Leading(y)
           lower == IF x.exp <= y.exp THEN x.exp ELSE y.exp
           m == IF lower <= k THEN lower ELSE k
<1>1. k \in Int /\ l \in Int /\ k < l
  BY LeadingBounds
<1>2. m \in Int /\ m <= x.exp /\ m <= y.exp /\ m <= k /\ m <= l
  BY <1>1 DEF IsRatio
<1> DEFINE a == At(x, m)
           b == At(y, m)
           p == Pow10[k + 1 - m]
           q == Pow10[l - m]
<1>3. a < p * x.den /\ q * y.den <= b
  BY <1>2, LeadingBounds
<1>4. p <= q /\ p \in Nat /\ q \in Nat
  <2>1. k + 1 - m \in Nat /\ l - m \in Nat /\ k + 1 - m <= l - m
    BY <1>1, <1>2
  <2> QED BY <2>1, PowersGrow, PowersOfTen
<1>5. a \in Nat /\ b \in Nat /\ x.den \in Nat \ {0} /\ y.den \in Nat \ {0}
  BY <1>2, AtScales DEF IsRatio
<1>6. Less(x, y) <=> a * y.den < b * x.den
  BY <1>2, OneUnit
<1> HIDE DEF a, b, p, q, k, l, m, lower
<1>7. a * y.den < (p * x.den) * y.den
  <2>1. p * x.den \in Nat
    BY <1>4, <1>5
  <2> QED BY <1>3, <1>5, <2>1, Cancel
<1>8. p * (x.den * y.den) <= q * (x.den * y.den)
  <2>1. x.den * y.den \in Nat \ {0}
    BY <1>5
  <2> QED BY <1>4, <2>1, Cancel
<1>9. (q * y.den) * x.den <= b * x.den
  <2>1. q * y.den \in Nat
    BY <1>4, <1>5
  <2> QED BY <1>3, <1>5, <2>1, Cancel
<1>10. /\ (p * x.den) * y.den = p * (x.den * y.den) /\ (q * y.den) * x.den = q * (x.den * y.den)
       /\ a * y.den \in Nat /\ b * x.den \in Nat
       /\ p * (x.den * y.den) \in Nat /\ q * (x.den * y.den) \in Nat
  BY <1>4, <1>5
<1> QED BY <1>6, <1>7, <1>8, <1>9, <1>10

\* Cmp tells which.
LEMMA CmpTells ==
  ASSUME NEW x, NEW y, IsRatio(x), IsRatio(y)
  PROVE  /\ Cmp(x, y) = 0 <=> Same(x, y)
         /\ Cmp(x, y) < 0 <=> Less(x, y)
         /\ Cmp(x, y) > 0 <=> Less(y, x)
<1> DEFINE unit == Min({x.exp, y.exp})
           a == At(x, unit) * y.den
           b == At(y, unit) * x.den
<1>1. x.num \in Nat /\ y.num \in Nat /\ x.den \in Nat \ {0} /\ y.den \in Nat \ {0}
         /\ x.exp \in Int /\ y.exp \in Int
  BY DEF IsRatio
<1>2. unit \in Int /\ unit <= x.exp /\ unit <= y.exp
  <2>1. \E u \in {x.exp, y.exp} : \A e \in {x.exp, y.exp} : u <= e
    BY <1>1
  <2> QED BY <1>1, <2>1 DEF Min
<1> HIDE DEF unit
<1>3. (Less(x, y) <=> a < b) /\ (Less(y, x) <=> b < a) /\ (Same(x, y) <=> a = b)
  BY <1>2, OneUnit
<1>4. At(x, unit) \in Nat /\ At(y, unit) \in Nat /\ (At(x, unit) = 0 <=> x.num = 0)
         /\ (At(y, unit) = 0 <=> y.num = 0)
  BY <1>2, AtScales
<1>5. a \in Nat /\ b \in Nat /\ (a = 0 <=> x.num = 0) /\ (b = 0 <=> y.num = 0)
  BY <1>1, <1>4
<1>6. CASE x.num = 0 \/ y.num = 0
  <2>1. Cmp(x, y) = Sign(x.num - y.num)
    BY <1>6 DEF Cmp
  <2> HIDE DEF a, b
  <2> QED BY <1>1, <1>3, <1>5, <1>6, <2>1 DEF Sign
<1>7. CASE x.num # 0 /\ y.num # 0 /\ Leading(x) # Leading(y)
  <2>1. Cmp(x, y) = Sign(Leading(x) - Leading(y)) /\ Leading(x) \in Int /\ Leading(y) \in Int
    BY <1>7, LeadingBounds DEF Cmp
  <2>2. CASE Leading(x) < Leading(y)
    <3>1. Less(x, y)
      BY <1>7, <2>2, LeadingOrders
    <3>2. Sign(Leading(x) - Leading(y)) = -1
      BY <2>1, <2>2 DEF Sign
    <3> QED BY <2>1, <3>1, <3>2, Trichotomy
  <2>3. CASE Leading(y) < Leading(x)
    <3>1. Less(y, x)
      BY <1>7, <2>3, LeadingOrders
    <3>2. Sign(Leading(x) - Leading(y)) = 1
      BY <2>1, <2>3 DEF Sign
    <3> QED BY <2>1, <3>1, <3>2, Trichotomy
  <2> QED BY <1>7, <2>1, <2>2, <2>3
<1>8. CASE x.num # 0 /\ y.num # 0 /\ Leading(x) = Leading(y)
  <2> DEFINE p == Pow10[x.exp - unit]
             q == Pow10[y.exp - unit]
  <2>1. Cmp(x, y) = Sign(x.num * y.den * p - y.num * x.den * q)
    BY <1>8 DEF Cmp, unit
  <2>2. p \in Nat /\ q \in Nat
    BY <1>1, <1>2, PowersOfTen
  <2>3. a = (x.num * p) * y.den /\ b = (y.num * q) * x.den
    BY DEF At
  <2> HIDE DEF a, b, p, q
  <2>4. x.num * y.den * p = a /\ y.num * x.den * q = b
    BY <1>1, <2>2, <2>3
  <2>5. Cmp(x, y) = Sign(a - b)
    BY <2>1, <2>4
  <2> QED BY <1>3, <1>5, <2>5 DEF Sign
<1> QED BY <1>6, <1>7, <1>8

-----------------------------------------------------------------------------
(* Rounding half-even                                                      *)

\* q is n/d rounded half-even.
Nearest(q, n, d) ==
  /\ 2 * (q * d) <= 2 * n + d /\ 2 * n <= 2 * (q * d) + d
  /\ 2 * n = 2 * (q * d) + d \/ 2 * (q * d) = 2 * n + d => q % 2 = 0

\* HalfEven gives such a number.
LEMMA HalfEvenNearest ==
  ASSUME NEW n \in Nat, NEW d \in Nat \ {0}
  PROVE  HalfEven(n, d) \in Nat /\ Nearest(HalfEven(n, d), n, d)
<1> DEFINE q == n \div d
           r == n % d
           h == HalfEven(n, d)
<1>1. q \in Nat /\ r \in 0..(d - 1) /\ n = d * q + r
  BY DivMod
<1>2. h = IF 2 * r < d \/ (2 * r = d /\ q % 2 = 0) THEN q ELSE q + 1
  BY DEF HalfEven
<1> HIDE DEF q, r, h
<1>3. q * d \in Nat /\ n = q * d + r /\ (q + 1) * d = q * d + d
  BY <1>1
<1> DEFINE p == q * d
<1> HIDE DEF p
<1>4. p \in Nat /\ n = p + r /\ q * d = p /\ (q + 1) * d = p + d
  BY <1>3 DEF p
<1>5. CASE 2 * r < d \/ (2 * r = d /\ q % 2 = 0)
  <2>1. h = q
    BY <1>2, <1>5
  <2>2. /\ 2 * p <= 2 * n + d /\ 2 * n <= 2 * p + d /\ 2 * p # 2 * n + d
        /\ 2 * n = 2 * p + d => q % 2 = 0
    BY <1>1, <1>4, <1>5
  <2>3. Nearest(q, n, d)
    BY <1>1, <1>4, <2>2 DEF Nearest
  <2> QED BY <1>1, <2>1, <2>3 DEF h
<1>6. CASE ~(2 * r < d \/ (2 * r = d /\ q % 2 = 0))
  <2>1. h = q + 1
    BY <1>2, <1>6
  <2>2. 2 * r = d => (q + 1) % 2 = 0
    BY <1>1, <1>6
  <2>3. /\ 2 * (p + d) <= 2 * n + d /\ 2 * n <= 2 * (p + d) + d /\ 2 * n # 2 * (p + d) + d
        /\ 2 * (p + d) = 2 * n + d => 2 * r = d
    BY <1>1, <1>4, <1>6
  <2>4. Nearest(q + 1, n, d)
    BY <1>1, <1>4, <2>2, <2>3 DEF Nearest
  <2> QED BY <1>1, <2>1, <2>4 DEF h
<1> QED BY <1>5, <1>6

\* There is one such number.
LEMMA NearestUnique ==
  ASSUME NEW n \in Nat, NEW d \in Nat \ {0}, NEW q \in Nat, NEW r \in Nat,
         Nearest(q, n, d), Nearest(r, n, d)
  PROVE  q = r
<1>1. ASSUME NEW a \in Nat, NEW b \in Nat, Nearest(a, n, d), Nearest(b, n, d), a < b
      PROVE  FALSE
  <2>1. (a + 1) * d <= b * d /\ (a + 1) * d = a * d + d /\ a * d \in Nat /\ b * d \in Nat
    <3>1. a + 1 \in Nat /\ a + 1 <= b
      BY <1>1
    <3>2. (a + 1) * d <= b * d
      BY <3>1, Cancel
    <3> QED BY <3>2
  <2> DEFINE ad == a * d
             bd == b * d
  <2>2. ad \in Nat /\ bd \in Nat /\ ad + d <= bd
    BY <2>1
  <2>3. /\ 2 * bd <= 2 * n + d /\ 2 * n <= 2 * ad + d
        /\ 2 * n = 2 * ad + d => a % 2 = 0
        /\ 2 * bd = 2 * n + d => b % 2 = 0
    BY <1>1 DEF Nearest
  <2> HIDE DEF ad, bd
  <2>4. bd = ad + d /\ a % 2 = 0 /\ b % 2 = 0
    BY <2>2, <2>3
  <2>5. (a + 1) * d = b * d
    BY <2>1, <2>4 DEF ad, bd
  <2>6. a + 1 = b
    BY <2>5, Cancel
  <2> QED BY <2>4, <2>6
<1> QED BY <1>1

\* Rounding is of a value, in whatever unit.
LEMMA NearestScales ==
  ASSUME NEW q \in Nat, NEW n \in Nat, NEW d \in Nat, NEW c \in Nat \ {0}
  PROVE  Nearest(q, n * c, d * c) <=> Nearest(q, n, d)
<1> DEFINE a == 2 * (q * d)
           b == 2 * n
<1>1. a \in Nat /\ b \in Nat /\ a + d \in Nat /\ b + d \in Nat
  BY DEF Nearest
<1>2. /\ 2 * (q * (d * c)) = a * c /\ 2 * (n * c) = b * c
      /\ a * c + d * c = (a + d) * c /\ b * c + d * c = (b + d) * c
  OBVIOUS
<1> HIDE DEF a, b
<1>3. /\ a * c <= (b + d) * c <=> a <= b + d
      /\ b * c <= (a + d) * c <=> b <= a + d
      /\ b * c = (a + d) * c <=> b = a + d
      /\ a * c = (b + d) * c <=> a = b + d
  BY <1>1, Cancel
<1>4. Nearest(q, n, d) <=> /\ a <= b + d /\ b <= a + d
                           /\ b = a + d \/ a = b + d => q % 2 = 0
  BY DEF Nearest, a, b
<1>5. Nearest(q, n * c, d * c) <=> /\ a * c <= (b + d) * c /\ b * c <= (a + d) * c
                                   /\ b * c = (a + d) * c \/ a * c = (b + d) * c => q % 2 = 0
  BY <1>2 DEF Nearest
<1> QED BY <1>3, <1>4, <1>5

\* x rounds to q units of 10^u.
Rounds(q, x, u) ==
  \A m \in Int : m <= x.exp /\ m <= u => Nearest(q, At(x, m), x.den * Pow10[u - m])

\* One unit decides on that, too.
LEMMA OneUnitRounds ==
  ASSUME NEW x, IsRatio(x), NEW u \in Int, NEW q \in Nat, NEW m \in Int, m <= x.exp, m <= u
  PROVE  Rounds(q, x, u) <=> Nearest(q, At(x, m), x.den * Pow10[u - m])
<1>1. ASSUME NEW i \in Int, NEW j \in Int, i <= j, j <= x.exp, j <= u
      PROVE  Nearest(q, At(x, i), x.den * Pow10[u - i]) <=> Nearest(q, At(x, j), x.den * Pow10[u - j])
  <2> DEFINE c == Pow10[j - i]
             a == At(x, j)
             b == x.den * Pow10[u - j]
  <2>1. a \in Nat /\ At(x, i) = a * c /\ c \in Nat \ {0}
    BY <1>1, AtScales
  <2>2. b \in Nat /\ x.den * Pow10[u - i] = b * c
    <3>1. u - j \in Nat /\ j - i \in Nat /\ u - i = (u - j) + (j - i) /\ x.den \in Nat
      BY <1>1 DEF IsRatio
    <3>2. Pow10[u - j] \in Nat /\ Pow10[(u - j) + (j - i)] = Pow10[u - j] * c
      BY <3>1, PowersOfTen, PowersMultiply
    <3> QED BY <2>1, <3>1, <3>2
  <2> HIDE DEF a, b, c
  <2>3. Nearest(q, a * c, b * c) <=> Nearest(q, a, b)
    BY <2>1, <2>2, NearestScales
  <2> QED BY <2>1, <2>2, <2>3 DEF a, b
<1>2. ASSUME NEW n \in Int, n <= x.exp, n <= u
      PROVE  Nearest(q, At(x, n), x.den * Pow10[u - n]) <=> Nearest(q, At(x, m), x.den * Pow10[u - m])
  <2>1. CASE n <= m
    BY <1>1, <2>1
  <2>2. CASE m <= n
    BY <1>1, <1>2, <2>2
  <2> QED BY <2>1, <2>2
<1> QED BY <1>2 DEF Rounds

\* ToUnit rounds half-even, however small the value is.
LEMMA ToUnitRounds ==
  ASSUME NEW x, IsRatio(x), NEW u \in Int
  PROVE  \E q \in Nat : ToUnit(x, u) = Normal(q, u) /\ Rounds(q, x, u)
<1>1. x.num \in Nat /\ x.den \in Nat \ {0} /\ x.exp \in Int
  BY DEF IsRatio
<1>2. Normal(0, u) = Normal(0, 0) /\ 0 \in Nat
  BY DEF Normal
<1>3. CASE x.num = 0
  <2>1. ToUnit(x, u) = Normal(0, u)
    BY <1>2, <1>3 DEF ToUnit
  <2>2. ASSUME NEW m \in Int, m <= x.exp, m <= u
        PROVE  Nearest(0, At(x, m), x.den * Pow10[u - m])
    <3>1. At(x, m) = 0
      BY <1>3, <2>2, AtScales
    <3>2. Pow10[u - m] \in Nat \ {0}
      BY <2>2, PowersOfTen
    <3> DEFINE d == x.den * Pow10[u - m]
    <3>3. d \in Nat \ {0}
      BY <1>1, <3>2
    <3> HIDE DEF d
    <3>4. Nearest(0, 0, d)
      BY <3>3 DEF Nearest
    <3> QED BY <3>1, <3>4 DEF d
  <2>3. Rounds(0, x, u)
    BY <2>2 DEF Rounds
  <2> QED BY <1>2, <2>1, <2>3
<1>4. CASE x.num # 0 /\ Leading(x) < u - 1
  <2>1. ToUnit(x, u) = Normal(0, u)
    BY <1>2, <1>4 DEF ToUnit
  <2> DEFINE L == Leading(x)
             m == IF L <= x.exp THEN L ELSE x.exp
             a == At(x, m)
             p == Pow10[L + 1 - m]
             w == Pow10[u - m]
  <2>2. L \in Int
    BY <1>4, LeadingBounds
  <2>3. m \in Int /\ m <= x.exp /\ m <= u /\ m <= L
    BY <1>1, <1>4, <2>2
  <2>4. a < p * x.den
    BY <1>4, <2>3, LeadingBounds
  <2>5. L + 1 - m \in Nat /\ u - m \in Nat /\ L + 1 - m < u - m
    BY <1>4, <2>2, <2>3
  <2>6. 10 * p <= w /\ p \in Nat /\ w \in Nat /\ a \in Nat
    BY <2>3, <2>5, PowersGrow, PowersOfTen, AtScales
  <2> HIDE DEF L, m, a, p, w
  <2>7. (10 * p) * x.den <= w * x.den
    <3>1. 10 * p \in Nat
      BY <2>6
    <3> QED BY <1>1, <2>6, <3>1, Cancel
  <2>8. 10 * a < x.den * w
    <3>1. (10 * p) * x.den = 10 * (p * x.den) /\ w * x.den = x.den * w /\ p * x.den \in Nat
             /\ x.den * w \in Nat
      BY <1>1, <2>6
    <3> QED BY <2>4, <2>6, <2>7, <3>1
  <2> DEFINE d == x.den * w
  <2>9. d \in Nat /\ 10 * a < d
    BY <1>1, <2>6, <2>8
  <2> HIDE DEF d
  <2>10. Nearest(0, a, d)
    BY <2>6, <2>9 DEF Nearest
  <2>11. Rounds(0, x, u)
    BY <1>2, <2>3, <2>10, OneUnitRounds DEF a, d, w
  <2> QED BY <1>2, <2>1, <2>11
<1>5. CASE x.num # 0 /\ ~(Leading(x) < u - 1) /\ x.exp >= u
  <2> DEFINE w == Pow10[x.exp - u]
             n == x.num * w
             q == HalfEven(n, x.den)
  <2>1. ToUnit(x, u) = Normal(q, u)
    BY <1>5 DEF ToUnit
  <2>2. w \in Nat
    BY <1>1, <1>5, PowersOfTen
  <2>3. n \in Nat
    BY <1>1, <2>2
  <2>4. At(x, u) = n /\ Pow10[u - u] = 1
    BY PowersOfTen DEF At
  <2> HIDE DEF n, w, q
  <2>5. q \in Nat /\ Nearest(q, n, x.den)
    BY <1>1, <2>3, HalfEvenNearest DEF q
  <2>6. x.den * Pow10[u - u] = x.den
    BY <1>1, <2>4
  <2>7. Rounds(q, x, u)
    BY <1>5, <2>4, <2>5, <2>6, OneUnitRounds
  <2> QED BY <2>1, <2>5, <2>7
<1>6. CASE x.num # 0 /\ ~(Leading(x) < u - 1) /\ ~(x.exp >= u)
  <2> DEFINE w == Pow10[u - x.exp]
             d == x.den * w
             q == HalfEven(x.num, d)
  <2>1. ToUnit(x, u) = Normal(q, u)
    BY <1>6 DEF ToUnit
  <2>2. w \in Nat \ {0}
    BY <1>1, <1>6, PowersOfTen
  <2>3. d \in Nat \ {0}
    BY <1>1, <2>2
  <2>4. At(x, x.exp) = x.num
    <3>1. x.exp - x.exp = 0 /\ x.num * 1 = x.num
      BY <1>1
    <3> QED BY <3>1, PowersOfTen DEF At
  <2> HIDE DEF d, q
  <2>5. q \in Nat /\ Nearest(q, x.num, d)
    BY <1>1, <2>3, HalfEvenNearest DEF q
  <2>6. Rounds(q, x, u)
    BY <1>1, <1>6, <2>4, <2>5, OneUnitRounds DEF d
  <2> QED BY <2>1, <2>5, <2>6
<1> QED BY <1>3, <1>4, <1>5, <1>6

\* There is one such number of units.
LEMMA RoundsAlike ==
  ASSUME NEW x, IsRatio(x), NEW u \in Int, NEW q \in Nat, NEW r \in Nat,
         Rounds(q, x, u), Rounds(r, x, u)
  PROVE  q = r
<1> DEFINE m == IF x.exp <= u THEN x.exp ELSE u
           d == x.den * Pow10[u - m]
<1>1. m \in Int /\ m <= x.exp /\ m <= u
  BY DEF IsRatio
<1> HIDE DEF m
<1>2. Nearest(q, At(x, m), d) /\ Nearest(r, At(x, m), d)
  BY <1>1 DEF Rounds
<1>3. u - m \in Nat /\ x.den \in Nat \ {0}
  BY <1>1 DEF IsRatio
<1>4. Pow10[u - m] \in Nat \ {0} /\ At(x, m) \in Nat
  BY <1>1, <1>3, PowersOfTen, AtScales
<1>5. d \in Nat \ {0}
  BY <1>3, <1>4
<1> HIDE DEF d
<1> QED BY <1>2, <1>4, <1>5, NearestUnique

\* What a decimal is in a smaller unit.
LEMMA AtDecimal ==
  ASSUME NEW c \in Nat, NEW e \in Int, NEW m \in Int, m <= e
  PROVE  /\ IsRatio(Ratio(c, 1, e)) /\ At(Ratio(c, 1, e), m) = c * Pow10[e - m]
         /\ Ratio(c, 1, e).den = 1 /\ Ratio(c, 1, e).exp = e /\ Ratio(c, 1, e).num = c
BY DEF Ratio, IsRatio, At

\* Normal is a decimal of the same value.
LEMMA NormalSame ==
  ASSUME NEW q \in Nat, NEW u \in Int
  PROVE  /\ IsRatio(Exactly(Normal(q, u)))
         /\ Same(Exactly(Normal(q, u)), Ratio(q, 1, u))
<1> DEFINE d == Normal(q, u)
           x == Exactly(d)
           y == Ratio(q, 1, u)
<1>1. d.coef \in Nat /\ d.exp \in Int /\ x.num = d.coef /\ x.den = 1 /\ x.exp = d.exp
  BY NormalKeeps DEF Exactly, Ratio
<1>2. IsRatio(x) /\ IsRatio(y) /\ y.num = q /\ y.den = 1 /\ y.exp = u
  BY <1>1 DEF IsRatio, Ratio
<1>3. (q = 0 => d.coef = 0) /\ (q # 0 => d.exp - u \in Nat /\ q = d.coef * Pow10[d.exp - u])
  BY NormalKeeps
<1> HIDE DEF d, x, y
<1> DEFINE m == IF x.exp <= y.exp THEN x.exp ELSE y.exp
<1>4. m \in Int /\ m <= x.exp /\ m <= y.exp
  BY <1>1, <1>2
<1>5. CASE q = 0
  <2> HIDE DEF m
  <2>1. At(x, m) = 0 /\ At(y, m) = 0
    BY <1>1, <1>2, <1>3, <1>4, <1>5, AtScales
  <2>2. At(x, m) * y.den = At(y, m) * x.den
    BY <1>1, <1>2, <2>1
  <2> QED BY <1>2, <1>4, <2>2, OneUnit DEF x, y, d
<1>6. CASE q # 0
  <2>1. m = u
    BY <1>1, <1>2, <1>3, <1>6
  <2>2. At(x, u) = q /\ At(y, u) = q * Pow10[u - u]
    BY <1>1, <1>2, <1>3, <1>6 DEF At
  <2>3. u - u = 0 /\ q * 1 = q
    OBVIOUS
  <2>4. At(x, u) * y.den = At(y, u) * x.den
    BY <1>1, <1>2, <2>2, <2>3, PowersOfTen
  <2> QED BY <1>2, <1>4, <2>1, <2>4, OneUnit DEF x, y, d
<1> QED BY <1>5, <1>6

-----------------------------------------------------------------------------
(* Values that are the same                                                *)

\* What is the same compares the same.
LEMMA SameCompares ==
  ASSUME NEW x, NEW y, NEW z, IsRatio(x), IsRatio(y), IsRatio(z), Same(x, y)
  PROVE  (Less(x, z) <=> Less(y, z)) /\ (Less(z, x) <=> Less(z, y)) /\ (Same(x, z) <=> Same(y, z))
<1> DEFINE lower == IF x.exp <= y.exp THEN x.exp ELSE y.exp
           m == IF lower <= z.exp THEN lower ELSE z.exp
           a == At(x, m)
           b == At(y, m)
           c == At(z, m)
           d == x.den
           e == y.den
           f == z.den
<1>1. m \in Int /\ m <= x.exp /\ m <= y.exp /\ m <= z.exp
  BY DEF IsRatio
<1> HIDE DEF m
<1>2. a \in Nat /\ b \in Nat /\ c \in Nat /\ d \in Nat \ {0} /\ e \in Nat \ {0} /\ f \in Nat \ {0}
  BY <1>1, AtScales DEF IsRatio
<1>3. a * e = b * d
  BY <1>1, OneUnit
<1>4. /\ Less(x, z) <=> a * f < c * d
      /\ Less(z, x) <=> c * d < a * f
      /\ Same(x, z) <=> a * f = c * d
      /\ Less(y, z) <=> b * f < c * e
      /\ Less(z, y) <=> c * e < b * f
      /\ Same(y, z) <=> b * f = c * e
  BY <1>1, OneUnit
<1> HIDE DEF a, b, c, d, e, f
<1> DEFINE p == a * f
           q == c * d
           r == b * f
           s == c * e
<1>5. p \in Nat /\ q \in Nat /\ r \in Nat /\ s \in Nat
  BY <1>2
<1>6. p * e = r * d /\ q * e = s * d
  <2>1. (a * f) * e = (a * e) * f /\ (b * f) * d = (b * d) * f /\ (c * d) * e = (c * e) * d
    BY <1>2
  <2> QED BY <1>3, <2>1
<1>7. /\ Less(x, z) <=> p < q
      /\ Less(z, x) <=> q < p
      /\ Same(x, z) <=> p = q
      /\ Less(y, z) <=> r < s
      /\ Less(z, y) <=> s < r
      /\ Same(y, z) <=> r = s
  BY <1>4
<1> HIDE DEF p, q, r, s
<1>8. (p < q <=> p * e < q * e) /\ (q < p <=> q * e < p * e) /\ (p = q <=> p * e = q * e)
  BY <1>2, <1>5, Cancel
<1>9. (r < s <=> r * d < s * d) /\ (s < r <=> s * d < r * d) /\ (r = s <=> r * d = s * d)
  BY <1>2, <1>5, Cancel
<1> QED BY <1>6, <1>7, <1>8, <1>9

\* The same times the same is the same.
LEMMA SameProduct ==
  ASSUME NEW x, NEW y, IsRatio(x), IsRatio(y), Same(x, y), NEW d, d.coef \in Nat, d.exp \in Int
  PROVE  /\ IsRatio(Product(x, d)) /\ IsRatio(Product(y, d))
         /\ Same(Product(x, d), Product(y, d))
<1> DEFINE m == IF x.exp <= y.exp THEN x.exp ELSE y.exp
           n == m + d.exp
           v == Product(x, d)
           w == Product(y, d)
<1>1. m \in Int /\ m <= x.exp /\ m <= y.exp
  BY DEF IsRatio
<1>2. /\ x.num \in Nat /\ x.den \in Nat \ {0} /\ x.exp \in Int
      /\ y.num \in Nat /\ y.den \in Nat \ {0} /\ y.exp \in Int
  BY DEF IsRatio
<1>3. /\ v.num = x.num * d.coef /\ v.den = x.den /\ v.exp = x.exp + d.exp
      /\ w.num = y.num * d.coef /\ w.den = y.den /\ w.exp = y.exp + d.exp
  BY DEF Product, Ratio
<1> HIDE DEF m, v, w
<1>4. IsRatio(v) /\ IsRatio(w)
  BY <1>2, <1>3 DEF IsRatio
<1>5. n \in Int /\ n <= v.exp /\ n <= w.exp /\ v.exp - n = x.exp - m /\ w.exp - n = y.exp - m
  BY <1>1, <1>2, <1>3
<1>6. At(x, m) * y.den = At(y, m) * x.den
  BY <1>1, OneUnit
<1>7. At(v, n) = At(x, m) * d.coef /\ At(w, n) = At(y, m) * d.coef
  <2>1. x.exp - m \in Nat /\ y.exp - m \in Nat
    BY <1>1, <1>2
  <2>2. Pow10[x.exp - m] \in Nat /\ Pow10[y.exp - m] \in Nat
    BY <2>1, PowersOfTen
  <2> QED BY <1>2, <1>3, <1>5, <2>2 DEF At
<1>8. At(x, m) \in Nat /\ At(y, m) \in Nat
  BY <1>1, AtScales
<1>9. At(v, n) * w.den = At(w, n) * v.den
  <2>1. /\ (At(x, m) * d.coef) * y.den = (At(x, m) * y.den) * d.coef
        /\ (At(y, m) * d.coef) * x.den = (At(y, m) * x.den) * d.coef
    BY <1>2, <1>8
  <2> QED BY <1>3, <1>6, <1>7, <2>1
<1> HIDE DEF n
<1>10. Same(v, w)
  BY <1>4, <1>5, <1>9, OneUnit
<1> QED BY <1>4, <1>10 DEF v, w

\* And divided by the same.
LEMMA SameQuotient ==
  ASSUME NEW x, NEW y, IsRatio(x), IsRatio(y), Same(x, y), NEW d, d.coef \in Nat \ {0}, d.exp \in Int
  PROVE  /\ IsRatio(Quotient(x, d)) /\ IsRatio(Quotient(y, d))
         /\ Same(Quotient(x, d), Quotient(y, d))
<1> DEFINE m == IF x.exp <= y.exp THEN x.exp ELSE y.exp
           n == m - d.exp
           v == Quotient(x, d)
           w == Quotient(y, d)
<1>1. m \in Int /\ m <= x.exp /\ m <= y.exp
  BY DEF IsRatio
<1>2. /\ x.num \in Nat /\ x.den \in Nat \ {0} /\ x.exp \in Int
      /\ y.num \in Nat /\ y.den \in Nat \ {0} /\ y.exp \in Int
  BY DEF IsRatio
<1>3. /\ v.num = x.num /\ v.den = x.den * d.coef /\ v.exp = x.exp - d.exp
      /\ w.num = y.num /\ w.den = y.den * d.coef /\ w.exp = y.exp - d.exp
  BY DEF Quotient, Ratio
<1> HIDE DEF m, v, w
<1>4. IsRatio(v) /\ IsRatio(w)
  <2>1. x.den * d.coef \in Nat \ {0} /\ y.den * d.coef \in Nat \ {0}
    BY <1>2
  <2> QED BY <1>2, <1>3, <2>1 DEF IsRatio
<1>5. n \in Int /\ n <= v.exp /\ n <= w.exp /\ v.exp - n = x.exp - m /\ w.exp - n = y.exp - m
  BY <1>1, <1>2, <1>3
<1>6. At(x, m) * y.den = At(y, m) * x.den
  BY <1>1, OneUnit
<1>7. At(v, n) = At(x, m) /\ At(w, n) = At(y, m)
  BY <1>3, <1>5 DEF At
<1>8. At(x, m) \in Nat /\ At(y, m) \in Nat
  BY <1>1, AtScales
<1>9. At(v, n) * w.den = At(w, n) * v.den
  <2>1. /\ At(x, m) * (y.den * d.coef) = (At(x, m) * y.den) * d.coef
        /\ At(y, m) * (x.den * d.coef) = (At(y, m) * x.den) * d.coef
    BY <1>2, <1>8
  <2> QED BY <1>3, <1>6, <1>7, <2>1
<1> HIDE DEF n
<1>10. Same(v, w)
  BY <1>4, <1>5, <1>9, OneUnit
<1> QED BY <1>4, <1>10 DEF v, w

\* And rounds to the same.
LEMMA SameRounds ==
  ASSUME NEW x, NEW y, IsRatio(x), IsRatio(y), Same(x, y), NEW u \in Int
  PROVE  ToUnit(x, u) = ToUnit(y, u)
<1>1. PICK q \in Nat : ToUnit(x, u) = Normal(q, u) /\ Rounds(q, x, u)
  BY ToUnitRounds
<1>2. PICK r \in Nat : ToUnit(y, u) = Normal(r, u) /\ Rounds(r, y, u)
  BY ToUnitRounds
<1> DEFINE lower == IF x.exp <= y.exp THEN x.exp ELSE y.exp
           m == IF lower <= u THEN lower ELSE u
           a == At(x, m)
           b == At(y, m)
           d == x.den
           e == y.den
           p == Pow10[u - m]
<1>3. m \in Int /\ m <= x.exp /\ m <= y.exp /\ m <= u
  BY DEF IsRatio
<1> HIDE DEF m
<1>4. a \in Nat /\ b \in Nat /\ d \in Nat \ {0} /\ e \in Nat \ {0} /\ p \in Nat \ {0}
  <2>1. u - m \in Nat
    BY <1>3
  <2> QED BY SMTT(60), <1>3, <2>1, AtScales, PowersOfTen DEF IsRatio
<1>5. a * e = b * d
  BY <1>3, OneUnit
<1>6. Nearest(q, a, d * p) /\ Nearest(r, b, e * p)
  BY <1>1, <1>2, <1>3 DEF Rounds
<1> HIDE DEF a, b, d, e, p
<1>7. d * p \in Nat \ {0} /\ e * p \in Nat \ {0}
  BY <1>4
<1>8. Nearest(q, a * e, (d * p) * e)
  BY <1>4, <1>6, <1>7, NearestScales
<1>9. Nearest(r, b * d, (e * p) * d)
  BY <1>4, <1>6, <1>7, NearestScales
<1>10. (d * p) * e = (e * p) * d /\ (e * p) * d \in Nat \ {0} /\ b * d \in Nat
  BY <1>4, <1>7
<1>11. q = r
  BY <1>5, <1>8, <1>9, <1>10, NearestUnique
<1> QED BY <1>1, <1>2, <1>11

\* Rounding does not carry a value past a whole number of units.
LEMMA RoundKeepsOrder ==
  ASSUME NEW x, IsRatio(x), NEW v \in Int, NEW q \in Nat, Rounds(q, x, v), NEW t \in Nat
  PROVE  /\ Less(x, Ratio(t, 1, v)) => q <= t
         /\ Less(Ratio(t, 1, v), x) => t <= q
         /\ Same(x, Ratio(t, 1, v)) => q = t
<1> DEFINE y == Ratio(t, 1, v)
           m == IF x.exp <= v THEN x.exp ELSE v
           a == At(x, m)
           d == x.den
           p == Pow10[v - m]
           g == d * p
<1>1. m \in Int /\ m <= x.exp /\ m <= v
  BY DEF IsRatio
<1> HIDE DEF m
<1>2. IsRatio(y) /\ At(y, m) = t * p /\ y.den = 1 /\ y.exp = v
  BY <1>1 DEF Ratio, IsRatio, At
<1>3. a \in Nat /\ d \in Nat \ {0} /\ p \in Nat \ {0}
  <2>1. v - m \in Nat
    BY <1>1
  <2> QED BY <1>1, <2>1, AtScales, PowersOfTen DEF IsRatio
<1>4. Nearest(q, a, g)
  BY <1>1 DEF Rounds
<1>5. /\ Less(x, y) <=> a * 1 < (t * p) * d
      /\ Less(y, x) <=> (t * p) * d < a * 1
      /\ Same(x, y) <=> a * 1 = (t * p) * d
  BY <1>1, <1>2, OneUnit
<1> HIDE DEF y, a, d, p
<1>6. (t * p) * d = t * g /\ a * 1 = a /\ g \in Nat \ {0}
  BY <1>3
<1> HIDE DEF g
<1>7. 2 * (q * g) <= 2 * a + g /\ 2 * a <= 2 * (q * g) + g
  BY <1>4 DEF Nearest
<1>8. q * g \in Nat /\ t * g \in Nat /\ (q + 1) * g = q * g + g /\ (t + 1) * g = t * g + g
  BY <1>6
<1>9. a <= t * g => q <= t
  <2>1. t + 1 <= q => (t + 1) * g <= q * g
    BY <1>6, Cancel
  <2> QED BY <1>3, <1>6, <1>7, <1>8, <2>1
<1>10. t * g <= a => t <= q
  <2>1. q + 1 <= t => (q + 1) * g <= t * g
    BY <1>6, Cancel
  <2> QED BY <1>3, <1>6, <1>7, <1>8, <2>1
<1>11. /\ Less(x, y) => a <= t * g
       /\ Less(y, x) => t * g <= a
       /\ Same(x, y) => a = t * g
  BY <1>3, <1>5, <1>6, <1>8
<1> QED BY <1>3, <1>8, <1>9, <1>10, <1>11 DEF y

-----------------------------------------------------------------------------
(* Rounded, and still on the same side                                     *)

\* A value rounds to a coarser decimal only if it is one: its distance to any is a
\* multiple of something greater than half a unit of the rounding.
LEMMA Separated ==
  ASSUME NEW x, IsRatio(x), NEW v \in Int, NEW f \in Int, NEW c \in Nat,
         v + Digits[x.den] <= x.exp, v + Digits[x.den] <= f, Rounds(c * Pow10[f - v], x, v)
  PROVE  Same(x, Ratio(c, 1, f))
<1> DEFINE b == Digits[x.den]
           n == v + b
           a == At(x, v)
           w == At(x, n)
           d == x.den
           g == Pow10[b]
           h == Pow10[f - n]
           y == Ratio(c, 1, f)
<1>1. b \in Nat /\ d < g /\ d \in Nat \ {0} /\ x.exp \in Int
  BY DigitsBound DEF IsRatio
<1>2. n \in Int /\ v <= n /\ n <= x.exp /\ n <= f /\ v <= x.exp /\ v <= f /\ n - v = b
  BY <1>1
<1>3. a = w * g /\ w \in Nat /\ g \in Nat \ {0}
  BY <1>2, AtScales
<1>4. Pow10[f - v] = h * g /\ h \in Nat
  <2>1. f - n \in Nat /\ (f - n) + b = f - v
    BY <1>1, <1>2
  <2> HIDE DEF n, b
  <2>2. Pow10[(f - n) + b] = Pow10[f - n] * Pow10[b]
    BY <1>1, <2>1, PowersMultiply
  <2> QED BY <2>1, <2>2, PowersOfTen
<1>5. Nearest(c * Pow10[f - v], a, d * Pow10[v - v])
  BY <1>2 DEF Rounds
<1>6. IsRatio(y) /\ At(y, v) = c * Pow10[f - v] /\ y.den = 1 /\ y.exp = f
  <2>1. v <= f
    BY <1>2
  <2> HIDE DEF n, b, a, w, d, g, h
  <2> QED BY <2>1 DEF Ratio, IsRatio, At
<1>7. Same(x, y) <=> a * 1 = (c * Pow10[f - v]) * d
  BY <1>2, <1>6, OneUnit
<1>8. d * Pow10[v - v] = d
  BY <1>1, PowersOfTen
<1> HIDE DEF a, w, d, g, h, y, n, b
<1> DEFINE k == (c * h) * d
           e == (c * Pow10[f - v]) * d
<1>9. k \in Nat /\ e = k * g /\ c * h \in Nat
  BY <1>1, <1>3, <1>4
<1>10. 2 * e <= 2 * a + d /\ 2 * a <= 2 * e + d
  BY <1>5, <1>8 DEF Nearest
<1> HIDE DEF k, e
<1>11. a \in Nat /\ e \in Nat /\ (k < w => e + g <= a) /\ (w < k => a + g <= e)
  <2>1. (k + 1) * g = k * g + g /\ (w + 1) * g = w * g + g /\ k * g \in Nat /\ w * g \in Nat
    BY <1>3, <1>9
  <2>2. k < w => (k + 1) * g <= w * g
    <3>1. k < w => k + 1 <= w
      BY <1>3, <1>9
    <3> QED BY <1>3, <1>9, <3>1, Cancel
  <2>3. w < k => (w + 1) * g <= k * g
    <3>1. w < k => w + 1 <= k
      BY <1>3, <1>9
    <3> QED BY <1>3, <1>9, <3>1, Cancel
  <2> QED BY <1>3, <1>9, <2>1, <2>2, <2>3
<1>12. k = w
  BY <1>1, <1>3, <1>9, <1>10, <1>11
<1>13. a = e
  BY <1>3, <1>9, <1>12
<1> QED BY <1>7, <1>11, <1>13 DEF e, y

\* So rounding leaves it on its side of every coarser decimal.
LEMMA RoundSides ==
  ASSUME NEW x, IsRatio(x), NEW v \in Int, NEW f \in Int, NEW c \in Nat, NEW q \in Nat,
         v + Digits[x.den] <= x.exp, v + Digits[x.den] <= f, Rounds(q, x, v)
  PROVE  /\ Less(x, Ratio(c, 1, f)) <=> Less(Ratio(q, 1, v), Ratio(c, 1, f))
         /\ Same(x, Ratio(c, 1, f)) <=> Same(Ratio(q, 1, v), Ratio(c, 1, f))
         /\ Less(Ratio(c, 1, f), x) <=> Less(Ratio(c, 1, f), Ratio(q, 1, v))
<1> DEFINE t == c * Pow10[f - v]
           y == Ratio(c, 1, f)
           z == Ratio(t, 1, v)
           r == Ratio(q, 1, v)
<1>1. v <= f /\ Digits[x.den] \in Nat
  BY DigitsBound DEF IsRatio
<1>2. Pow10[f - v] \in Nat
  <2>1. f - v \in Nat
    BY <1>1
  <2> QED BY <2>1, PowersOfTen
<1>3. t \in Nat
  BY <1>2
<1>4. IsRatio(y) /\ At(y, v) = t /\ y.den = 1 /\ y.exp = f
  BY <1>1 DEF Ratio, IsRatio, At
<1>5. Pow10[v - v] = 1
  BY PowersOfTen
<1> HIDE DEF t
<1>6. IsRatio(z) /\ At(z, v) = t /\ z.den = 1 /\ z.exp = v
  <2>1. v <= v
    OBVIOUS
  <2>2. IsRatio(z) /\ At(z, v) = t * Pow10[v - v] /\ z.den = 1 /\ z.exp = v
    BY <1>3, <2>1 DEF Ratio, IsRatio, At
  <2> QED BY <1>3, <1>5, <2>2
<1>7. IsRatio(r) /\ At(r, v) = q /\ r.den = 1 /\ r.exp = v
  <2>1. IsRatio(r) /\ At(r, v) = q * Pow10[v - v] /\ r.den = 1 /\ r.exp = v
    BY DEF Ratio, IsRatio, At
  <2> QED BY <1>5, <2>1
<1>8. Same(y, z)
  <2>1. Same(y, z) <=> At(y, v) * z.den = At(z, v) * y.den
    BY <1>1, <1>4, <1>6, OneUnit
  <2> QED BY <1>4, <1>6, <2>1
<1>9. (Less(r, y) <=> q * 1 < t * 1) /\ (Less(y, r) <=> t * 1 < q * 1) /\ (Same(r, y) <=> q * 1 = t * 1)
  <2> HIDE DEF r, y
  <2>1. /\ Less(r, y) <=> At(r, v) * y.den < At(y, v) * r.den
        /\ Less(y, r) <=> At(y, v) * r.den < At(r, v) * y.den
        /\ Same(r, y) <=> At(r, v) * y.den = At(y, v) * r.den
    BY <1>1, <1>4, <1>7, OneUnit
  <2> QED BY <1>4, <1>7, <2>1
<1> HIDE DEF y, r
<1>10. (Less(r, y) <=> q < t) /\ (Less(y, r) <=> t < q) /\ (Same(r, y) <=> q = t)
  BY <1>3, <1>9
<1>11. (Less(x, z) => q <= t) /\ (Less(z, x) => t <= q) /\ (Same(x, z) => q = t)
  BY <1>3, RoundKeepsOrder
<1>12. q = t => Same(x, y)
  BY <1>3, Separated DEF t, y
<1> HIDE DEF z
<1>13. (Less(x, y) => q <= t) /\ (Less(y, x) => t <= q) /\ (Same(x, y) => q = t)
  <2>1. (Less(y, x) <=> Less(z, x)) /\ (Less(x, y) <=> Less(x, z)) /\ (Same(y, x) <=> Same(z, x))
    BY <1>4, <1>6, <1>8, SameCompares
  <2>2. (Same(x, y) <=> Same(y, x)) /\ (Same(x, z) <=> Same(z, x))
    BY <1>4, <1>6, Trichotomy
  <2> QED BY <1>11, <2>1, <2>2
<1>14. /\ Less(x, y) \/ Same(x, y) \/ Less(y, x)
       /\ ~(Less(x, y) /\ Same(x, y)) /\ ~(Less(x, y) /\ Less(y, x)) /\ ~(Less(y, x) /\ Same(x, y))
  BY <1>4, Trichotomy
<1> QED BY <1>3, <1>10, <1>12, <1>13, <1>14 DEF y, r

-----------------------------------------------------------------------------
(* Products and quotients                                                  *)

\* The precision is the greater of what is asked for and the domain's own.
LEMMA PrecisionAtLeast ==
  ASSUME NEW p \in Int
  PROVE  Max({p, Precision}) \in Int /\ Max({p, Precision}) >= p
<1>1. Precision \in Int
  BY DecimalAssumption
<1>2. \E m \in {p, Precision} : \A e \in {p, Precision} : m >= e
  BY <1>1
<1>3. Max({p, Precision}) \in {p, Precision} /\ \A e \in {p, Precision} : Max({p, Precision}) >= e
  BY <1>2 DEF Max
<1> QED BY <1>1, <1>3

\* Exact values of decimals, of their products and of their quotients are ratios.
LEMMA ExactRatios ==
  ASSUME NEW a, a.coef \in Nat, a.exp \in Int
  PROVE  /\ IsRatio(Exactly(a)) /\ Exactly(a) = Ratio(a.coef, 1, a.exp)
         /\ Exactly(a).num = a.coef /\ Exactly(a).den = 1 /\ Exactly(a).exp = a.exp
BY DEF Exactly, Ratio, IsRatio

\* Nothing is the same as nothing.
LEMMA ZerosSame ==
  ASSUME NEW x, NEW y, IsRatio(x), IsRatio(y)
  PROVE  /\ x.num = 0 /\ y.num = 0 => Same(x, y)
         /\ Same(x, y) => (x.num = 0 <=> y.num = 0)
<1> DEFINE m == IF x.exp <= y.exp THEN x.exp ELSE y.exp
<1>1. m \in Int /\ m <= x.exp /\ m <= y.exp
  BY DEF IsRatio
<1> HIDE DEF m
<1>2. /\ At(x, m) \in Nat /\ (At(x, m) = 0 <=> x.num = 0)
      /\ At(y, m) \in Nat /\ (At(y, m) = 0 <=> y.num = 0)
      /\ x.den \in Nat \ {0} /\ y.den \in Nat \ {0}
  BY <1>1, AtScales DEF IsRatio
<1>3. Same(x, y) <=> At(x, m) * y.den = At(y, m) * x.den
  BY <1>1, OneUnit
<1> DEFINE a == At(x, m)
           b == At(y, m)
<1> HIDE DEF a, b
<1>4. a * y.den = 0 <=> a = 0
  BY <1>2 DEF a, b
<1>5. b * x.den = 0 <=> b = 0
  BY <1>2 DEF a, b
<1> QED BY <1>2, <1>3, <1>4, <1>5 DEF a, b

\* What is the same leads with the same digit.
LEMMA SameLeads ==
  ASSUME NEW x, NEW y, IsRatio(x), IsRatio(y), Same(x, y), x.num # 0
  PROVE  y.num # 0 /\ Leading(x) = Leading(y)
<1>1. y.num # 0
  BY ZerosSame
<1>2. Leading(x) \in Int /\ Leading(y) \in Int
  BY <1>1, LeadingBounds
<1>3. ~(Leading(x) < Leading(y)) /\ ~(Leading(y) < Leading(x))
  BY <1>1, LeadingOrders, Trichotomy
<1> QED BY <1>1, <1>2, <1>3

\* A value and its rounding to a number of digits.
LEMMA RoundToRounds ==
  ASSUME NEW x, IsRatio(x), x.num # 0, NEW p \in Int
  PROVE  /\ Leading(x) - p + 1 \in Int
         /\ \E q \in Nat : /\ RoundTo(x, p) = Normal(q, Leading(x) - p + 1)
                           /\ Rounds(q, x, Leading(x) - p + 1)
<1> DEFINE v == Leading(x) - p + 1
<1>1. v \in Int
  BY LeadingBounds
<1>2. RoundTo(x, p) = ToUnit(x, v)
  BY DEF RoundTo
<1> HIDE DEF v
<1>3. \E q \in Nat : ToUnit(x, v) = Normal(q, v) /\ Rounds(q, x, v)
  BY <1>1, ToUnitRounds
<1> QED BY <1>1, <1>2, <1>3 DEF v

\* A product has no more digits than its operands together.
LEMMA ProductDigits ==
  ASSUME NEW a \in Nat \ {0}, NEW b \in Nat \ {0}
  PROVE  Digits[a * b] <= Digits[a] + Digits[b]
<1> DEFINE c == a * b
           i == Digits[a]
           j == Digits[b]
           k == Digits[c]
<1>1. c \in Nat \ {0}
  OBVIOUS
<1>2. /\ i \in Nat \ {0} /\ a < Pow10[i] /\ j \in Nat \ {0} /\ b < Pow10[j]
  BY DigitsBound
<1> HIDE DEF c
<1>3. k \in Nat \ {0} /\ Pow10[k - 1] <= c
  BY <1>1, DigitsBound
<1> HIDE DEF i, j, k
<1>4. /\ Pow10[i] \in Nat /\ Pow10[j] \in Nat /\ Pow10[i + j] = Pow10[i] * Pow10[j]
      /\ Pow10[k - 1] \in Nat /\ k - 1 \in Nat /\ i + j \in Nat
  <2>1. i \in Nat /\ j \in Nat /\ k - 1 \in Nat /\ i + j \in Nat
    BY <1>2, <1>3
  <2>2. Pow10[i + j] = Pow10[i] * Pow10[j]
    BY <2>1, PowersMultiply
  <2> QED BY <2>1, <2>2, PowersOfTen
<1>5. c < Pow10[i] * Pow10[j]
  <2>1. a * b <= a * Pow10[j]
    BY <1>2, <1>4
  <2>2. a * Pow10[j] < Pow10[i] * Pow10[j]
    BY <1>2, <1>4, Cancel
  <2>3. a * b \in Nat /\ a * Pow10[j] \in Nat /\ Pow10[i] * Pow10[j] \in Nat
    BY <1>4
  <2> QED BY <2>1, <2>2, <2>3 DEF c
<1>6. ~(i + j <= k - 1)
  <2>1. i + j <= k - 1 => Pow10[i + j] <= Pow10[k - 1]
    BY <1>4, PowersGrow
  <2>2. c \in Nat /\ Pow10[i] * Pow10[j] \in Nat
    BY <1>1, <1>4
  <2> QED BY <1>3, <1>4, <1>5, <2>1, <2>2
<1> QED BY <1>2, <1>3, <1>6 DEF i, j, k, c

\* On the grid of the unit, a value is its own rounding.
LEMMA GridRounds ==
  ASSUME NEW x, IsRatio(x), x.den = 1, NEW v \in Int, v <= x.exp, NEW q \in Nat, Rounds(q, x, v)
  PROVE  Same(Ratio(q, 1, v), x)
<1> DEFINE a == At(x, v)
           r == Ratio(q, 1, v)
<1>1. a \in Nat /\ Pow10[v - v] = 1
  BY AtScales, PowersOfTen
<1>2. Nearest(q, a, 1)
  <2>1. Nearest(q, a, x.den * Pow10[v - v])
    BY DEF Rounds
  <2>2. x.den * Pow10[v - v] = 1
    BY <1>1
  <2> QED BY <2>1, <2>2
<1>3. v <= v
  OBVIOUS
<1>4. IsRatio(r) /\ At(r, v) = q * Pow10[v - v] /\ r.den = 1 /\ r.exp = v
  BY <1>3 DEF Ratio, IsRatio, At
<1> HIDE DEF a, r
<1>5. q = a
  BY <1>1, <1>2 DEF Nearest
<1>6. At(r, v) * x.den = a * r.den
  BY <1>1, <1>4, <1>5
<1>7. Same(r, x)
  BY <1>3, <1>4, <1>6, OneUnit DEF a
<1> QED BY <1>7 DEF r

\* A product is exact.
LEMMA ProductExact ==
  ASSUME NEW a, a.coef \in Nat, a.exp \in Int, NEW b, b.coef \in Nat \ {0}, b.exp \in Int
  PROVE  LET r == ExactTimes(a, b) IN
           /\ IsNormal(r) /\ r.coef \in Nat /\ r.exp \in Int
           /\ IsRatio(Product(Exactly(a), b))
           /\ Same(Exactly(r), Product(Exactly(a), b))
<1> DEFINE x == Product(Exactly(a), b)
           r == ExactTimes(a, b)
           p == Max({Sd(a) + Sd(b), Precision})
<1>1. x.num = a.coef * b.coef /\ x.den = 1 /\ x.exp = a.exp + b.exp /\ IsRatio(x)
  <2>1. x.num = a.coef * b.coef /\ x.den = 1 /\ x.exp = a.exp + b.exp
    BY DEF Product, Exactly, Ratio
  <2> QED BY <2>1 DEF IsRatio
<1>2. Sd(a) \in Nat /\ Sd(b) \in Nat
  BY DigitsBound DEF Sd
<1>3. p \in Int /\ p >= Sd(a) + Sd(b)
  BY <1>2, PrecisionAtLeast
<1>4. r = RoundTo(x, p)
  BY DEF ExactTimes, WithPrecision
<1> HIDE DEF x, p, r
<1>5. CASE x.num = 0
  <2>1. r = Normal(0, 0)
    BY <1>4, <1>5 DEF RoundTo
  <2>2. IsNormal(r) /\ r.coef = 0 /\ r.exp = 0
    BY <2>1, NormalKeeps
  <2>3. IsRatio(Exactly(r)) /\ Exactly(r).num = 0
    BY <2>2, ExactRatios
  <2> QED BY <1>1, <1>5, <2>2, <2>3, ZerosSame DEF x, r
<1>6. CASE x.num # 0
  <2> DEFINE v == Leading(x) - p + 1
  <2>1. a.coef # 0
    BY <1>1, <1>6
  <2>2. Digits[x.num] <= Sd(a) + Sd(b) /\ Digits[x.num] \in Nat /\ Digits[x.den] = 1
    <3>1. x.num \in Nat
      BY <1>1 DEF IsRatio
    <3>2. Digits[x.num] \in Nat /\ Digits[1] = 1
      BY <3>1, DigitsBound, DigitsRecur
    <3> QED BY <1>1, <2>1, <3>2, ProductDigits DEF Sd
  <2>3. Leading(x) \in Int /\ Leading(x) <= x.exp + Digits[x.num] - Digits[x.den]
    BY <1>1, <1>6, LeadingBounds
  <2>4. v \in Int /\ v <= x.exp
    BY <1>1, <1>2, <1>3, <2>2, <2>3 DEF IsRatio
  <2>5. PICK q \in Nat : r = Normal(q, v) /\ Rounds(q, x, v)
    BY <1>1, <1>3, <1>4, <1>6, RoundToRounds
  <2> HIDE DEF v
  <2>6. IsNormal(r) /\ r.coef \in Nat /\ r.exp \in Int
    BY <2>4, <2>5, NormalKeeps
  <2>7. IsRatio(Exactly(r)) /\ Same(Exactly(r), Ratio(q, 1, v)) /\ IsRatio(Ratio(q, 1, v))
    <3>1. v <= v
      BY <2>4
    <3> QED BY <2>4, <2>5, <3>1, NormalSame, AtDecimal
  <2>8. Same(Ratio(q, 1, v), x)
    BY <1>1, <2>4, <2>5, GridRounds
  <2>9. Same(Exactly(r), x)
    BY <1>1, <2>7, <2>8, SameCompares
  <2> QED BY <1>1, <2>6, <2>9 DEF x, r
<1> QED BY <1>5, <1>6

\* A quotient of decimals, as the code works it out and without any rounding.
LEMMA QuotientOf ==
  ASSUME NEW a, a.coef \in Nat, a.exp \in Int, NEW b, b.coef \in Nat \ {0}, b.exp \in Int
  PROVE  LET x == Quotient(Exactly(a), b)
             r == GuardedDiv(a, b)
         IN /\ IsRatio(x) /\ x.num = a.coef /\ x.den = b.coef
            /\ IsNormal(r) /\ r.coef \in Nat /\ r.exp \in Int
            /\ x.num = 0 => Same(Exactly(r), x)
            /\ x.num # 0 =>
                 \E q \in Nat, v \in Int :
                   /\ r = Normal(q, v) /\ Rounds(q, x, v)
                   /\ v + Digits[x.den] <= x.exp
                   /\ v + Digits[x.den] <= Leading(x) - GuardDigits
<1> DEFINE x == Quotient(Exactly(a), b)
           r == GuardedDiv(a, b)
           p == Max({Sd(a) + Sd(b) + GuardDigits, Precision})
<1>1. x.num = a.coef /\ x.den = b.coef /\ x.exp = a.exp - b.exp /\ IsRatio(x)
  <2>1. x.num = a.coef /\ x.den = 1 * b.coef /\ x.exp = a.exp - b.exp
    BY DEF Quotient, Exactly, Ratio
  <2> QED BY <2>1 DEF IsRatio
<1>2. Sd(a) \in Nat \ {0} /\ Sd(b) \in Nat \ {0}
  BY DigitsBound DEF Sd
<1>3. GuardDigits \in Nat /\ p \in Int /\ p >= Sd(a) + Sd(b) + GuardDigits
  <2>1. GuardDigits \in Nat
    BY DecimalAssumption
  <2> QED BY <1>2, <2>1, PrecisionAtLeast
<1>4. r = RoundTo(x, p)
  BY DEF GuardedDiv, WithPrecision
<1> HIDE DEF x, p, r
<1>5. CASE x.num = 0
  <2>1. r = Normal(0, 0)
    BY <1>4, <1>5 DEF RoundTo
  <2>2. IsNormal(r) /\ r.coef = 0 /\ r.exp = 0
    BY <2>1, NormalKeeps
  <2>3. IsRatio(Exactly(r)) /\ Exactly(r).num = 0
    BY <2>2, ExactRatios
  <2> QED BY <1>1, <1>5, <2>2, <2>3, ZerosSame DEF x, r
<1>6. CASE x.num # 0
  <2> DEFINE v == Leading(x) - p + 1
  <2>1. Digits[x.num] = Sd(a) /\ Digits[x.den] = Sd(b)
    BY <1>1 DEF Sd
  <2>2. Leading(x) \in Int /\ Leading(x) <= x.exp + Digits[x.num] - Digits[x.den]
    BY <1>1, <1>6, LeadingBounds
  <2>3. v \in Int /\ v + Digits[x.den] <= x.exp /\ v + Digits[x.den] <= Leading(x) - GuardDigits
    BY <1>1, <1>2, <1>3, <2>1, <2>2 DEF IsRatio
  <2>4. PICK q \in Nat : r = Normal(q, v) /\ Rounds(q, x, v)
    BY <1>1, <1>3, <1>4, <1>6, RoundToRounds
  <2> HIDE DEF v
  <2>5. IsNormal(r) /\ r.coef \in Nat /\ r.exp \in Int
    BY <2>3, <2>4, NormalKeeps
  <2>6. \E n \in Nat, w \in Int :
          /\ r = Normal(n, w) /\ Rounds(n, x, w)
          /\ w + Digits[x.den] <= x.exp
          /\ w + Digits[x.den] <= Leading(x) - GuardDigits
    BY <2>3, <2>4
  <2> QED BY <1>1, <1>6, <2>5, <2>6 DEF x, r
<1> QED BY <1>5, <1>6

\* x and y are on the same side of z.
Sides(x, y, z) == (Less(x, z) <=> Less(y, z)) /\ (Same(x, z) <=> Same(y, z))
   /\ (Less(z, x) <=> Less(z, y))

\* The rounded quotient is on the side of its exact value of every decimal
\* that the guard digits reach.
LEMMA QuotientSides ==
  ASSUME NEW a, a.coef \in Nat, a.exp \in Int, NEW b, b.coef \in Nat \ {0}, b.exp \in Int,
         NEW c \in Nat, NEW f \in Int,
         a.coef = 0 \/ Leading(Quotient(Exactly(a), b)) <= f + GuardDigits
  PROVE  Sides(Quotient(Exactly(a), b), Exactly(GuardedDiv(a, b)), Ratio(c, 1, f))
<1> DEFINE x == Quotient(Exactly(a), b)
           r == GuardedDiv(a, b)
           y == Exactly(r)
           z == Ratio(c, 1, f)
<1>1. IsRatio(x) /\ x.num = a.coef /\ r.coef \in Nat /\ r.exp \in Int
  BY QuotientOf
<1>2. x.num = 0 => Same(y, x)
  BY QuotientOf
<1>3. x.num # 0 => \E q \in Nat, v \in Int :
                     /\ r = Normal(q, v) /\ Rounds(q, x, v)
                     /\ v + Digits[x.den] <= x.exp
                     /\ v + Digits[x.den] <= Leading(x) - GuardDigits
  BY QuotientOf
<1>4. x.num = 0 \/ Leading(x) <= f + GuardDigits
  BY <1>1
<1>5. IsRatio(z)
  <2>1. f <= f
    OBVIOUS
  <2> QED BY <2>1, AtDecimal
<1> HIDE DEF x, r
<1>6. IsRatio(y)
  BY <1>1, ExactRatios
<1>7. CASE x.num = 0
  <2> HIDE DEF y, z
  <2>1. (Less(y, z) <=> Less(x, z)) /\ (Less(z, y) <=> Less(z, x)) /\ (Same(y, z) <=> Same(x, z))
    BY <1>1, <1>2, <1>5, <1>6, <1>7, SameCompares
  <2> QED BY <2>1 DEF x, r, y, z, Sides
<1>8. CASE x.num # 0
  <2>1. PICK q \in Nat, v \in Int :
          /\ r = Normal(q, v) /\ Rounds(q, x, v)
          /\ v + Digits[x.den] <= x.exp
          /\ v + Digits[x.den] <= Leading(x) - GuardDigits
    BY <1>3, <1>8
  <2>2. v + Digits[x.den] <= f
    <3>1. Leading(x) \in Int
      BY <1>1, <1>8, LeadingBounds
    <3>2. Digits[x.den] \in Nat /\ GuardDigits \in Nat
      BY <1>1, DigitsBound, DecimalAssumption DEF IsRatio
    <3> QED BY <1>4, <1>8, <2>1, <3>1, <3>2
  <2> DEFINE w == Ratio(q, 1, v)
  <2>3. (Less(x, z) <=> Less(w, z)) /\ (Same(x, z) <=> Same(w, z)) /\ (Less(z, x) <=> Less(z, w))
    BY <1>1, <2>1, <2>2, RoundSides
  <2>4. Same(y, w)
    BY <2>1, NormalSame
  <2>5. IsRatio(w)
    <3>1. v <= v
      OBVIOUS
    <3> QED BY <3>1, AtDecimal
  <2> HIDE DEF y, z, w
  <2>6. (Less(y, z) <=> Less(w, z)) /\ (Less(z, y) <=> Less(z, w)) /\ (Same(y, z) <=> Same(w, z))
    BY <1>5, <1>6, <2>4, <2>5, SameCompares
  <2> QED BY <2>3, <2>6 DEF x, r, y, z, Sides
<1> QED BY <1>7, <1>8

\* A value rounds to s where it lies between the two ties around s, which go to the even.
LEMMA TiesTell ==
  ASSUME NEW x, IsRatio(x), NEW u \in Int, NEW s \in Nat
  PROVE  Rounds(s, x, u) <=>
           /\ ~Less(Ratio(10 * s + 5, 1, u - 1), x)
           /\ Same(x, Ratio(10 * s + 5, 1, u - 1)) => s % 2 = 0
           /\ s # 0 => /\ ~Less(x, Ratio(10 * s - 5, 1, u - 1))
                       /\ Same(x, Ratio(10 * s - 5, 1, u - 1)) => s % 2 = 0
<1> DEFINE f == u - 1
           m == IF x.exp <= f THEN x.exp ELSE f
           a == At(x, m)
           d == x.den
           p == Pow10[f - m]
           e == d * p
<1>1. m \in Int /\ m <= x.exp /\ m <= f /\ m <= u /\ f \in Int
  BY DEF IsRatio
<1> HIDE DEF m
<1>2. a \in Nat /\ d \in Nat \ {0} /\ p \in Nat \ {0} /\ Pow10[u - m] = 10 * p
  <2>1. f - m \in Nat /\ (f - m) + 1 = u - m
    BY <1>1
  <2>2. a \in Nat
    BY <1>1, AtScales
  <2>3. Pow10[(f - m) + 1] = 10 * p /\ p \in Nat \ {0}
    BY <2>1, PowersOfTen
  <2> QED BY <2>1, <2>2, <2>3 DEF IsRatio
<1>3. ASSUME NEW c \in Nat
      PROVE  /\ Less(x, Ratio(c, 1, f)) <=> a < c * e
             /\ Less(Ratio(c, 1, f), x) <=> c * e < a
             /\ Same(x, Ratio(c, 1, f)) <=> a = c * e
  <2> DEFINE y == Ratio(c, 1, f)
  <2>1. IsRatio(y) /\ y.den = 1 /\ y.exp = f /\ y.num = c
    BY <1>1 DEF Ratio, IsRatio
  <2>2. At(y, m) = c * p
    BY <2>1 DEF At
  <2> HIDE DEF y
  <2>3. /\ Less(x, y) <=> a * 1 < (c * p) * d
        /\ Less(y, x) <=> (c * p) * d < a * 1
        /\ Same(x, y) <=> a * 1 = (c * p) * d
    BY <1>1, <2>1, <2>2, OneUnit
  <2>4. a * 1 = a /\ (c * p) * d = c * e
    BY <1>2
  <2> QED BY <2>3, <2>4 DEF y
<1>4. Rounds(s, x, u) <=> Nearest(s, a, d * (10 * p))
  BY <1>1, <1>2, OneUnitRounds
<1>5. e \in Nat \ {0} /\ d * (10 * p) = 10 * e
  BY <1>2
<1> HIDE DEF a, d, p, e, f
<1>6. (10 * s + 5) * e = 10 * (s * e) + 5 * e /\ s * (10 * e) = 10 * (s * e) /\ s * e \in Nat
  BY <1>5
<1>7. s # 0 => (10 * s - 5) * e = 10 * (s * e) - 5 * e /\ 10 * s - 5 \in Nat
  BY <1>5
<1> DEFINE g == s * e
<1>8. g \in Nat /\ (s = 0 => g = 0)
  BY <1>5, <1>6
<1>9. Nearest(s, a, 10 * e) <=>
        /\ 2 * (10 * g) <= 2 * a + 10 * e /\ 2 * a <= 2 * (10 * g) + 10 * e
        /\ 2 * a = 2 * (10 * g) + 10 * e \/ 2 * (10 * g) = 2 * a + 10 * e => s % 2 = 0
  BY <1>6 DEF Nearest
<1>10. 10 * s + 5 \in Nat
  OBVIOUS
<1>11. /\ Less(Ratio(10 * s + 5, 1, f), x) <=> 10 * g + 5 * e < a
       /\ Same(x, Ratio(10 * s + 5, 1, f)) <=> a = 10 * g + 5 * e
  BY <1>3, <1>6, <1>10
<1>12. s # 0 => /\ Less(x, Ratio(10 * s - 5, 1, f)) <=> a < 10 * g - 5 * e
                /\ Same(x, Ratio(10 * s - 5, 1, f)) <=> a = 10 * g - 5 * e
  BY <1>3, <1>7
<1> HIDE DEF g
<1>13. Rounds(s, x, u) <=>
         /\ ~(10 * g + 5 * e < a)
         /\ a = 10 * g + 5 * e => s % 2 = 0
         /\ s # 0 => ~(a < 10 * g - 5 * e) /\ (a = 10 * g - 5 * e => s % 2 = 0)
  BY <1>2, <1>4, <1>5, <1>8, <1>9
<1> QED BY <1>11, <1>12, <1>13 DEF f

\* What is on the same side of every tie rounds to the same.
LEMMA SidesRound ==
  ASSUME NEW x, NEW y, IsRatio(x), IsRatio(y), NEW u \in Int,
         \A c \in Nat : Sides(x, y, Ratio(c, 1, u - 1))
  PROVE  ToUnit(x, u) = ToUnit(y, u)
<1>1. PICK s \in Nat : ToUnit(x, u) = Normal(s, u) /\ Rounds(s, x, u)
  BY ToUnitRounds
<1>2. PICK t \in Nat : ToUnit(y, u) = Normal(t, u) /\ Rounds(t, y, u)
  BY ToUnitRounds
<1>3. /\ ~Less(Ratio(10 * s + 5, 1, u - 1), x)
      /\ Same(x, Ratio(10 * s + 5, 1, u - 1)) => s % 2 = 0
      /\ s # 0 => /\ ~Less(x, Ratio(10 * s - 5, 1, u - 1))
                  /\ Same(x, Ratio(10 * s - 5, 1, u - 1)) => s % 2 = 0
  BY <1>1, TiesTell
<1>4. 10 * s + 5 \in Nat /\ (s # 0 => 10 * s - 5 \in Nat)
  OBVIOUS
<1>5. Sides(x, y, Ratio(10 * s + 5, 1, u - 1)) /\ (s # 0 => Sides(x, y, Ratio(10 * s - 5, 1, u - 1)))
  BY <1>4
<1>6. /\ ~Less(Ratio(10 * s + 5, 1, u - 1), y)
      /\ Same(y, Ratio(10 * s + 5, 1, u - 1)) => s % 2 = 0
      /\ s # 0 => /\ ~Less(y, Ratio(10 * s - 5, 1, u - 1))
                  /\ Same(y, Ratio(10 * s - 5, 1, u - 1)) => s % 2 = 0
  BY <1>3, <1>5 DEF Sides
<1>7. Rounds(s, y, u)
  BY <1>6, TiesTell
<1>8. s = t
  BY <1>2, <1>7, RoundsAlike
<1> QED BY <1>1, <1>2, <1>8

\* Rounding a quotient once more is rounding it once.
LEMMA QuotientRounds ==
  ASSUME NEW a, a.coef \in Nat, a.exp \in Int, NEW b, b.coef \in Nat \ {0}, b.exp \in Int,
         NEW u \in Int,
         a.coef = 0 \/ Leading(Quotient(Exactly(a), b)) <= u - 1 + GuardDigits
  PROVE  ToUnit(Exactly(GuardedDiv(a, b)), u) = ToUnit(Quotient(Exactly(a), b), u)
<1> DEFINE x == Quotient(Exactly(a), b)
           y == Exactly(GuardedDiv(a, b))
<1>1. IsRatio(x) /\ GuardedDiv(a, b).coef \in Nat /\ GuardedDiv(a, b).exp \in Int
  BY QuotientOf
<1>2. IsRatio(y)
  BY <1>1, ExactRatios
<1>3. u - 1 \in Int
  OBVIOUS
<1>4. \A c \in Nat : Sides(x, y, Ratio(c, 1, u - 1))
  BY <1>3, QuotientSides
<1> HIDE DEF x, y
<1>5. ToUnit(x, u) = ToUnit(y, u)
  BY <1>1, <1>2, <1>4, SidesRound
<1> QED BY <1>5 DEF x, y

\* Three decimals in a row.
LEMMA DecimalsInOrder ==
  ASSUME NEW x, NEW y, NEW z, IsRatio(x), IsRatio(y), IsRatio(z), x.den = 1, y.den = 1, z.den = 1,
         Less(x, y), ~Less(z, y)
  PROVE  Less(x, z)
<1> DEFINE lower == IF x.exp <= y.exp THEN x.exp ELSE y.exp
           m == IF lower <= z.exp THEN lower ELSE z.exp
           a == At(x, m)
           b == At(y, m)
           c == At(z, m)
<1>1. m \in Int /\ m <= x.exp /\ m <= y.exp /\ m <= z.exp
  BY DEF IsRatio
<1> HIDE DEF m
<1>2. a \in Nat /\ b \in Nat /\ c \in Nat
  BY <1>1, AtScales
<1>3. /\ Less(x, y) <=> a * 1 < b * 1
      /\ Less(z, y) <=> c * 1 < b * 1
      /\ Less(x, z) <=> a * 1 < c * 1
  BY <1>1, OneUnit
<1> HIDE DEF a, b, c
<1> QED BY <1>2, <1>3

\* One of the powers of ten.
LEMMA PowerOf ==
  ASSUME NEW f \in Int
  PROVE  LET z == Ratio(1, 1, f) IN IsRatio(z) /\ z.num = 1 /\ z.den = 1 /\ Leading(z) = f
<1> DEFINE z == Ratio(1, 1, f)
<1>1. IsRatio(z) /\ z.num = 1 /\ z.den = 1 /\ z.exp = f
  BY DEF Ratio, IsRatio
<1> HIDE DEF z
<1>2. f - f = 0 /\ f + 0 = f /\ Pow10[0] = 1 /\ Pow10[0 + 1] = 10 /\ f <= f
  BY PowersOfTen
<1>3. At(z, f) = 1
  BY <1>1, <1>2 DEF At
<1>4. Pow10[0] * z.den <= At(z, f) /\ At(z, f) < Pow10[0 + 1] * z.den
  BY <1>1, <1>2, <1>3
<1>5. Leading(z) = f + 0
  BY <1>1, <1>2, <1>4, LeadingIs
<1> QED BY <1>1, <1>2, <1>5 DEF z

\* A quotient compares with any decimal of no more than the guard digits as its exact
\* value does.
LEMMA QuotientJudged ==
  ASSUME NEW a, a.coef \in Nat, a.exp \in Int, NEW b, b.coef \in Nat \ {0}, b.exp \in Int,
         NEW l, l.coef \in Nat, l.exp \in Int, Sd(l) <= GuardDigits
  PROVE  Sides(Quotient(Exactly(a), b), Exactly(GuardedDiv(a, b)), Exactly(l))
<1> DEFINE x == Quotient(Exactly(a), b)
           r == GuardedDiv(a, b)
           y == Exactly(r)
           z == Exactly(l)
<1>1. IsRatio(x) /\ x.num = a.coef /\ r.coef \in Nat /\ r.exp \in Int
  BY QuotientOf
<1>2. IsRatio(y) /\ y.den = 1
  BY <1>1, ExactRatios
<1>3. IsRatio(z) /\ z = Ratio(l.coef, 1, l.exp) /\ z.num = l.coef /\ z.den = 1 /\ z.exp = l.exp
  BY ExactRatios
<1>4. CASE a.coef = 0 \/ Leading(x) <= l.exp + GuardDigits
  BY <1>3, <1>4, QuotientSides
<1>5. CASE ~(a.coef = 0 \/ Leading(x) <= l.exp + GuardDigits)
  <2> DEFINE f == Leading(x)
             t == Ratio(1, 1, f)
  <2>1. f \in Int /\ GuardDigits \in Nat
    BY <1>1, <1>5, LeadingBounds, DecimalAssumption
  <2>2. IsRatio(t) /\ t.num = 1 /\ t.den = 1 /\ Leading(t) = f
    BY <2>1, PowerOf
  <2>3. Sides(x, y, t)
    <3>1. f <= f + GuardDigits
      BY <2>1
    <3> QED BY <2>1, <3>1, QuotientSides
  <2> HIDE DEF x, y, z, f, t
  <2>4. z.num = 0 => Less(z, t) /\ Less(z, x)
    <3> SUFFICES ASSUME z.num = 0
                 PROVE  Less(z, t) /\ Less(z, x)
      OBVIOUS
    <3>1. ASSUME NEW w, IsRatio(w), w.num # 0
          PROVE  Less(z, w)
      <4>1. ~Same(z, w)
        BY <1>3, <3>1, ZerosSame
      <4>2. ~Less(w, z)
        <5> DEFINE m == IF z.exp <= w.exp THEN z.exp ELSE w.exp
        <5>1. m \in Int /\ m <= z.exp /\ m <= w.exp
          BY <1>3, <3>1 DEF IsRatio
        <5> HIDE DEF m
        <5>2. At(z, m) = 0 /\ At(w, m) \in Nat /\ w.den \in Nat
          BY <1>3, <3>1, <5>1, AtScales DEF IsRatio
        <5>3. Less(w, z) <=> At(w, m) * z.den < At(z, m) * w.den
          BY <1>3, <3>1, <5>1, OneUnit
        <5> QED BY <1>3, <5>2, <5>3
      <4> QED BY <1>3, <3>1, <4>1, <4>2, Trichotomy
    <3> QED BY <1>1, <1>5, <2>2, <3>1
  <2>5. z.num # 0 => Leading(z) < f
    <3> SUFFICES ASSUME z.num # 0
                 PROVE  Leading(z) < f
      OBVIOUS
    <3>1. Leading(z) \in Int /\ Leading(z) <= z.exp + Digits[z.num] - Digits[z.den]
      BY <1>3, LeadingBounds
    <3>2. Digits[z.num] = Sd(l) /\ Digits[z.den] = 1 /\ Sd(l) \in Nat
      BY <1>3, DigitsRecur, DigitsBound DEF Sd
    <3> QED BY <1>3, <1>5, <2>1, <3>1, <3>2 DEF f
  <2>6. Less(z, t) /\ Less(z, x)
    <3>1. CASE z.num = 0
      BY <2>4, <3>1
    <3>2. CASE z.num # 0
      BY <1>1, <1>3, <1>5, <2>2, <2>5, <3>2, LeadingOrders DEF f
    <3> QED BY <3>1, <3>2
  <2>7. ~Less(x, t)
    <3> DEFINE lower == IF x.exp <= t.exp THEN x.exp ELSE t.exp
               m == IF lower <= f THEN lower ELSE f
    <3>1. m \in Int /\ m <= x.exp /\ m <= t.exp /\ m <= f
      BY <1>1, <2>1, <2>2 DEF IsRatio
    <3> HIDE DEF m
    <3>2. Less(x, t) <=> At(x, m) * t.den < At(t, m) * x.den
      BY <1>1, <2>2, <3>1, OneUnit
    <3>3. Pow10[f - m] * x.den <= At(x, m)
      BY <1>1, <1>5, <3>1, LeadingBounds DEF f
    <3>4. At(t, m) = Pow10[f - m]
      <4>1. At(t, m) = 1 * Pow10[f - m]
        BY DEF t, Ratio, At
      <4>2. f - m \in Nat
        BY <2>1, <3>1
      <4> QED BY <4>1, <4>2, PowersOfTen
    <3>5. At(x, m) \in Nat /\ Pow10[f - m] \in Nat /\ x.den \in Nat
      <4>1. f - m \in Nat
        BY <2>1, <3>1
      <4> QED BY <1>1, <3>1, <4>1, AtScales, PowersOfTen DEF IsRatio
    <3>6. Pow10[f - m] * x.den \in Nat
      BY <3>5
    <3> QED BY <2>2, <3>2, <3>3, <3>4, <3>5, <3>6
  <2>8. ~Less(y, t)
    BY <2>3, <2>7 DEF Sides
  <2>9. Less(z, y)
    BY <1>2, <1>3, <2>2, <2>6, <2>8, DecimalsInOrder
  <2>10. Sides(x, y, z)
    BY <1>1, <1>2, <1>3, <2>6, <2>9, Trichotomy DEF Sides
  <2> QED BY <2>10 DEF x, y, z
<1> QED BY <1>4, <1>5

-----------------------------------------------------------------------------
(* Beyond the quotient                                                     *)

\* x is within the error of y that the guard digits allow a quotient: half of the digit after
\* them.
Tolerance == 2 * Pow10[GuardDigits + 1]
Within(a, b) == Tolerance * a <= Tolerance * b + b /\ Tolerance * b <= Tolerance * a + b
Near(x, y) == \A m \in Int : m <= x.exp /\ m <= y.exp => Within(At(x, m) * y.den, At(y, m) * x.den)

\* So are values that are the same as two which are.
IsNear(x, y) ==
  \E z, w : IsRatio(z) /\ IsRatio(w) /\ Same(x, z) /\ Near(z, w) /\ Same(w, y)

\* Ten times the guard digits' power.
LEMMA ToleranceIs ==
  Pow10[GuardDigits + 1] \in Nat \ {0} /\ Tolerance \in Nat \ {0} /\ GuardDigits \in Nat
<1>1. GuardDigits \in Nat /\ GuardDigits + 1 \in Nat
  BY DecimalAssumption
<1>2. Pow10[GuardDigits + 1] \in Nat \ {0}
  BY <1>1, PowersOfTen
<1> QED BY <1>1, <1>2 DEF Tolerance

\* Both sides at once.
LEMMA WithinScales ==
  ASSUME NEW a \in Nat, NEW b \in Nat, NEW c \in Nat, Within(a, b)
  PROVE  Within(a * c, b * c)
<1> DEFINE t == Tolerance
<1>1. t \in Nat
  BY ToleranceIs
<1>2. t * a <= t * b + b /\ t * b <= t * a + b
  BY DEF Within
<1> HIDE DEF t
<1>3. \A i \in Nat, j \in Nat : i <= j => i * c <= j * c
  OBVIOUS
<1>4. t * a \in Nat /\ t * b \in Nat /\ t * a + b \in Nat /\ t * b + b \in Nat
  BY <1>1
<1>5. (t * a) * c <= (t * b + b) * c /\ (t * b) * c <= (t * a + b) * c
  BY <1>2, <1>3, <1>4
<1>6. /\ (t * a) * c = t * (a * c) /\ (t * b + b) * c = t * (b * c) + b * c
      /\ (t * b) * c = t * (b * c) /\ (t * a + b) * c = t * (a * c) + b * c
  BY <1>1
<1> QED BY <1>5, <1>6 DEF Within, t

\* A value is within it of itself.
LEMMA NearSelf ==
  ASSUME NEW x, IsRatio(x)
  PROVE  Near(x, x)
<1>1. ASSUME NEW m \in Int, m <= x.exp
      PROVE  Within(At(x, m) * x.den, At(x, m) * x.den)
  <2> DEFINE a == At(x, m) * x.den
             t == Tolerance
  <2>1. At(x, m) \in Nat /\ x.den \in Nat /\ t \in Nat
    BY <1>1, AtScales, ToleranceIs DEF IsRatio
  <2>2. a \in Nat
    BY <2>1
  <2> HIDE DEF a, t
  <2>3. t * a \in Nat
    BY <2>1, <2>2
  <2>4. t * a <= t * a + a
    BY <2>2, <2>3
  <2> QED BY <2>4 DEF Within, a, t
<1> QED BY <1>1 DEF Near

\* What is the same as a value is within the error of what that is within the error of.
LEMMA SameNear ==
  ASSUME NEW x, NEW y, NEW z, IsRatio(x), IsRatio(y), IsRatio(z), Same(x, y)
  PROVE  (IsNear(y, z) => IsNear(x, z)) /\ (IsNear(z, x) => IsNear(z, y))
<1>1. \A v : IsRatio(v) => (Same(x, v) <=> Same(y, v)) /\ (Same(v, x) <=> Same(v, y))
  BY SameCompares, Trichotomy
<1>2. ASSUME IsNear(y, z)
      PROVE  IsNear(x, z)
  BY <1>1, <1>2 DEF IsNear
<1>3. ASSUME IsNear(z, x)
      PROVE  IsNear(z, y)
  BY <1>1, <1>3 DEF IsNear
<1> QED BY <1>2, <1>3

\* A rounded quotient is within it of the exact one.
LEMMA QuotientNear ==
  ASSUME NEW a, a.coef \in Nat, a.exp \in Int, NEW b, b.coef \in Nat \ {0}, b.exp \in Int
  PROVE  IsNear(Exactly(GuardedDiv(a, b)), Quotient(Exactly(a), b))
<1> DEFINE x == Quotient(Exactly(a), b)
           r == GuardedDiv(a, b)
           y == Exactly(r)
<1>1. IsRatio(x) /\ r.coef \in Nat /\ r.exp \in Int
  BY QuotientOf
<1>2. x.num = 0 => Same(y, x)
  BY QuotientOf
<1>3. x.num # 0 => \E q \in Nat, v \in Int :
                     /\ r = Normal(q, v) /\ Rounds(q, x, v)
                     /\ v + Digits[x.den] <= x.exp
                     /\ v + Digits[x.den] <= Leading(x) - GuardDigits
  BY QuotientOf
<1>4. IsRatio(y)
  BY <1>1, ExactRatios
<1> HIDE DEF x, r
<1>5. CASE x.num = 0
  <2> HIDE DEF y
  <2>1. Same(x, x)
    BY DEF Same
  <2> QED BY <1>1, <1>2, <1>5, <2>1, NearSelf DEF IsNear, x, r, y
<1>6. CASE x.num # 0
  <2>1. PICK q \in Nat, v \in Int :
          /\ r = Normal(q, v) /\ Rounds(q, x, v)
          /\ v + Digits[x.den] <= x.exp
          /\ v + Digits[x.den] <= Leading(x) - GuardDigits
    BY <1>3, <1>6
  <2> DEFINE w == Ratio(q, 1, v)
             L == Leading(x)
             G == GuardDigits
             t == Pow10[G + 1]
             d == x.den
  <2>2. L \in Int /\ G \in Nat /\ d \in Nat \ {0} /\ t \in Nat \ {0} /\ Tolerance = 2 * t
    BY <1>1, <1>6, LeadingBounds, ToleranceIs DEF IsRatio, Tolerance
  <2>3. v + 1 <= L - G
    <3>1. Digits[d] \in Nat \ {0}
      BY <2>2, DigitsBound
    <3> QED BY <2>1, <2>2, <3>1
  <2>4. Same(y, w)
    BY <2>1, NormalSame
  <2>5. IsRatio(w) /\ w.den = 1 /\ w.exp = v
    <3>1. v <= v
      OBVIOUS
    <3> QED BY <3>1, AtDecimal
  <2>6. ASSUME NEW m \in Int, m <= v, m <= x.exp
        PROVE  Within(At(w, m) * d, At(x, m) * 1)
    <3> DEFINE p == Pow10[v - m]
               e == At(x, m)
               f == d * p
    <3>1. At(w, m) = q * p
      BY <2>1, <2>6, AtDecimal
    <3>2. Nearest(q, e, f)
      BY <2>1, <2>6 DEF Rounds
    <3>3. v - m \in Nat /\ L - m \in Nat /\ G + 1 \in Nat /\ (G + 1) + (v - m) <= L - m
             /\ (G + 1) + (v - m) \in Nat
      BY <2>2, <2>3, <2>6
    <3>4. p \in Nat \ {0} /\ Pow10[L - m] \in Nat
      BY <3>3, PowersOfTen
    <3>5. Pow10[(G + 1) + (v - m)] = t * p /\ Pow10[(G + 1) + (v - m)] <= Pow10[L - m]
      BY <3>3, PowersMultiply, PowersGrow
    <3>6. e \in Nat /\ Pow10[L - m] * d <= e
      BY <1>1, <1>6, <2>2, <2>3, <2>6, AtScales, LeadingBounds
    <3> HIDE DEF p, e
    <3>7. f \in Nat /\ t * f <= e
      <4>1. t * p \in Nat
        BY <2>2, <3>4
      <4>2. (t * p) * d <= Pow10[L - m] * d
        BY <2>2, <3>4, <3>5, <4>1, Cancel
      <4>3. (t * p) * d = t * (d * p) /\ d * p \in Nat
        BY <2>2, <3>4
      <4>4. (t * p) * d \in Nat /\ Pow10[L - m] * d \in Nat
        BY <2>2, <3>4, <4>1
      <4> QED BY <3>6, <4>2, <4>3, <4>4
    <3>8. (q * p) * d = q * f
      BY <2>2, <3>4
    <3> HIDE DEF f, t, d
    <3> DEFINE g == q * f
    <3>9. g \in Nat /\ 2 * g <= 2 * e + f /\ 2 * e <= 2 * g + f
      BY <3>2, <3>7 DEF Nearest
    <3> HIDE DEF g
    <3>10. /\ t * (2 * g) <= t * (2 * e + f) /\ t * (2 * e) <= t * (2 * g + f)
      <4>1. 2 * g \in Nat /\ 2 * e + f \in Nat /\ 2 * e \in Nat /\ 2 * g + f \in Nat
        BY <3>6, <3>7, <3>9
      <4>2. \A i, j \in Nat : i <= j => t * i <= t * j
        BY <2>2
      <4> QED BY <3>9, <4>1, <4>2
    <3>11. /\ t * (2 * g) = (2 * t) * g /\ t * (2 * e + f) = (2 * t) * e + t * f
           /\ t * (2 * e) = (2 * t) * e /\ t * (2 * g + f) = (2 * t) * g + t * f
           /\ (2 * t) * g \in Nat /\ (2 * t) * e \in Nat /\ t * f \in Nat
      BY <2>2, <3>6, <3>7, <3>9
    <3>12. (2 * t) * g <= (2 * t) * e + e /\ (2 * t) * e <= (2 * t) * g + e
      <4> DEFINE i == (2 * t) * g
                 j == (2 * t) * e
                 k == t * f
      <4>1. i \in Nat /\ j \in Nat /\ k \in Nat /\ i <= j + k /\ j <= i + k /\ k <= e
        BY <3>7, <3>10, <3>11
      <4> HIDE DEF i, j, k
      <4>2. i <= j + e /\ j <= i + e
        BY <3>6, <4>1
      <4> QED BY <4>2 DEF i, j
    <3>13. e * 1 = e
      BY <3>6
    <3> QED BY <2>2, <3>1, <3>8, <3>12, <3>13 DEF Within, e, g
  <2>7. Near(w, x)
    BY <2>5, <2>6 DEF Near
  <2>8. Same(x, x)
    BY DEF Same
  <2> QED BY <1>1, <2>4, <2>5, <2>7, <2>8 DEF IsNear, x, r, y
<1> QED BY <1>5, <1>6

\* Times the same decimal, values stay within the error of each other.
LEMMA NearProduct ==
  ASSUME NEW x, NEW y, IsRatio(x), IsRatio(y), IsNear(x, y), NEW d, d.coef \in Nat, d.exp \in Int
  PROVE  IsNear(Product(x, d), Product(y, d))
<1>1. PICK z, w : IsRatio(z) /\ IsRatio(w) /\ Same(x, z) /\ Near(z, w) /\ Same(w, y)
  BY DEF IsNear
<1> DEFINE v == Product(z, d)
           s == Product(w, d)
<1>2. /\ IsRatio(v) /\ IsRatio(s) /\ Same(Product(x, d), v) /\ Same(s, Product(y, d))
  BY <1>1, SameProduct
<1>3. /\ v.num = z.num * d.coef /\ v.den = z.den /\ v.exp = z.exp + d.exp
      /\ s.num = w.num * d.coef /\ s.den = w.den /\ s.exp = w.exp + d.exp
  BY DEF Product, Ratio
<1>4. /\ z.num \in Nat /\ z.den \in Nat /\ z.exp \in Int
      /\ w.num \in Nat /\ w.den \in Nat /\ w.exp \in Int
  BY <1>1 DEF IsRatio
<1> HIDE DEF v, s
<1>5. ASSUME NEW m \in Int, m <= v.exp, m <= s.exp
      PROVE  Within(At(v, m) * s.den, At(s, m) * v.den)
  <2> DEFINE n == m - d.exp
             a == At(z, n)
             b == At(w, n)
  <2>1. n \in Int /\ n <= z.exp /\ n <= w.exp /\ v.exp - m = z.exp - n /\ s.exp - m = w.exp - n
           /\ z.exp - n \in Nat /\ w.exp - n \in Nat
    BY <1>3, <1>4, <1>5
  <2>2. a \in Nat /\ b \in Nat
    BY <1>1, <2>1, AtScales
  <2>3. Within(a * w.den, b * z.den)
    BY <1>1, <2>1 DEF Near
  <2>4. At(v, m) = a * d.coef /\ At(s, m) = b * d.coef
    <3>1. Pow10[z.exp - n] \in Nat /\ Pow10[w.exp - n] \in Nat
      BY <2>1, PowersOfTen
    <3> QED BY <1>3, <1>4, <2>1, <3>1 DEF At
  <2> HIDE DEF a, b
  <2>5. a * w.den \in Nat /\ b * z.den \in Nat
    BY <1>4, <2>2
  <2>6. Within((a * w.den) * d.coef, (b * z.den) * d.coef)
    BY <2>3, <2>5, WithinScales
  <2>7. (a * w.den) * d.coef = (a * d.coef) * w.den /\ (b * z.den) * d.coef = (b * d.coef) * z.den
    BY <1>4, <2>2
  <2> QED BY <1>3, <2>4, <2>6, <2>7
<1>6. Near(v, s)
  BY <1>5 DEF Near
<1> QED BY <1>2, <1>6 DEF IsNear

\* What is within the error of a whole number of units, which the guard digits reach, rounds
\* to it.
LEMMA NearWhole ==
  ASSUME NEW x, NEW y, IsRatio(x), IsRatio(y), Near(x, y), NEW u \in Int,
         Same(Exactly(ToUnit(y, u)), y),
         y.num = 0 \/ Leading(y) - u <= GuardDigits
  PROVE  ToUnit(x, u) = ToUnit(y, u)
<1> DEFINE t == Pow10[GuardDigits + 1]
<1>1. /\ x.num \in Nat /\ x.den \in Nat \ {0} /\ x.exp \in Int
      /\ y.num \in Nat /\ y.den \in Nat \ {0} /\ y.exp \in Int
      /\ t \in Nat \ {0} /\ Tolerance = 2 * t /\ GuardDigits \in Nat
  BY ToleranceIs DEF IsRatio, Tolerance
<1>2. PICK c \in Nat : ToUnit(y, u) = Normal(c, u) /\ Rounds(c, y, u)
  BY ToUnitRounds
<1>3. CASE y.num = 0
  <2> DEFINE m == IF x.exp <= y.exp THEN x.exp ELSE y.exp
  <2>1. m \in Int /\ m <= x.exp /\ m <= y.exp
    BY <1>1
  <2> HIDE DEF m
  <2>2. At(y, m) = 0 /\ At(x, m) \in Nat /\ (At(x, m) = 0 <=> x.num = 0)
    BY <1>3, <2>1, AtScales
  <2> DEFINE a == At(x, m) * y.den
  <2>3. Within(a, 0)
    <3>1. 0 * x.den = 0
      BY <1>1
    <3> QED BY <2>1, <2>2, <3>1 DEF Near
  <2>4. a \in Nat /\ (a = 0 => At(x, m) = 0)
    BY <1>1, <2>2
  <2> HIDE DEF a, t
  <2>5. a = 0
    <3>1. (2 * t) * a <= (2 * t) * 0 + 0
      BY <1>1, <2>3 DEF Within
    <3> QED BY <1>1, <2>4, <3>1
  <2>6. x.num = 0
    BY <2>2, <2>4, <2>5
  <2> QED BY <1>3, <2>6 DEF ToUnit
<1>4. CASE y.num # 0
  <2> DEFINE L == Leading(y)
             lower == IF x.exp <= y.exp THEN x.exp ELSE y.exp
             least == IF lower <= u THEN lower ELSE u
             m == IF least <= L THEN least ELSE L
             a == At(x, m)
             b == At(y, m)
             p == Pow10[u - m]
             D == x.den
             E == y.den
  <2>1. L \in Int
    BY <1>4, LeadingBounds
  <2>2. m \in Int /\ m <= x.exp /\ m <= y.exp /\ m <= u /\ m <= L
    BY <1>1, <2>1
  <2> HIDE DEF m, lower, least
  <2>3. a \in Nat /\ b \in Nat /\ p \in Nat \ {0} /\ D \in Nat \ {0} /\ E \in Nat \ {0}
    <3>1. u - m \in Nat
      BY <2>2
    <3> QED BY <1>1, <2>2, <3>1, AtScales, PowersOfTen
  <2>4. b < (t * p) * E
    <3>1. L + 1 - m \in Nat /\ GuardDigits + 1 \in Nat /\ u - m \in Nat
             /\ (GuardDigits + 1) + (u - m) \in Nat /\ L + 1 - m <= (GuardDigits + 1) + (u - m)
      BY <1>1, <1>4, <2>1, <2>2
    <3>2. /\ Pow10[(GuardDigits + 1) + (u - m)] = t * p
          /\ Pow10[L + 1 - m] <= Pow10[(GuardDigits + 1) + (u - m)]
          /\ Pow10[L + 1 - m] \in Nat
      BY <3>1, PowersMultiply, PowersGrow, PowersOfTen
    <3>3. b < Pow10[L + 1 - m] * E
      BY <1>4, <2>2, LeadingBounds
    <3> HIDE DEF b, t, p, E
    <3>4. t * p \in Nat
      BY <1>1, <2>3
    <3>5. Pow10[L + 1 - m] * E <= (t * p) * E
      BY <2>3, <3>2, <3>4, Cancel
    <3>6. Pow10[L + 1 - m] * E \in Nat /\ (t * p) * E \in Nat
      BY <2>3, <3>2, <3>4
    <3> QED BY <2>3, <3>3, <3>5, <3>6
  <2>5. b = (c * p) * E
    <3> DEFINE r == Ratio(c, 1, u)
    <3>1. IsRatio(r) /\ r.den = 1 /\ r.exp = u /\ At(r, m) = c * p
      BY <2>2, AtDecimal
    <3>2. IsRatio(Exactly(Normal(c, u))) /\ Same(Exactly(Normal(c, u)), r)
      BY NormalSame
    <3> HIDE DEF r
    <3>3. Same(r, y)
      BY <1>2, <3>1, <3>2, SameCompares
    <3>4. At(r, m) * y.den = At(y, m) * r.den
      BY <2>2, <3>1, <3>3, OneUnit
    <3>5. b * 1 = b
      BY <2>3
    <3> QED BY <3>1, <3>4, <3>5
  <2>6. Within(a * E, b * D)
    BY <2>2 DEF Near
  <2> HIDE DEF a, b, p, D, E, t, L
  <2> DEFINE g == E * t
             i == 2 * a
             j == 2 * (c * (D * p))
             k == D * p
  <2>7. g \in Nat \ {0} /\ i \in Nat /\ j \in Nat /\ k \in Nat \ {0} /\ c * k \in Nat
    BY <1>1, <2>3
  <2>8. (2 * t) * (a * E) = i * g
    BY <1>1, <2>3
  <2>9. (2 * t) * (b * D) = j * g
    <3>1. b * D = (c * (D * p)) * E
      BY <2>3, <2>5
    <3>2. (2 * t) * ((c * (D * p)) * E) = (2 * (c * (D * p))) * (E * t)
      <4> DEFINE h == c * (D * p)
      <4>1. h \in Nat
        BY <2>3
      <4> HIDE DEF h
      <4>2. (2 * t) * (h * E) = (2 * h) * (E * t)
        BY <1>1, <2>3, <4>1
      <4> QED BY <4>2 DEF h
    <3> QED BY <3>1, <3>2
  <2>10. b * D < k * g
    <3>1. (t * p) * E \in Nat
      BY <1>1, <2>3
    <3>2. b * D < ((t * p) * E) * D
      BY <2>3, <2>4, <3>1, Cancel
    <3>3. ((t * p) * E) * D = (D * p) * (E * t)
      BY <1>1, <2>3
    <3> QED BY <3>2, <3>3
  <2>11. i * g <= j * g + b * D /\ j * g <= i * g + b * D
    BY <1>1, <2>6, <2>8, <2>9 DEF Within
  <2>12. b * D \in Nat
    BY <2>3
  <2> HIDE DEF g, i, j, k
  <2>13. i * g < (j + k) * g /\ j * g < (i + k) * g
    <3>1. i * g \in Nat /\ j * g \in Nat /\ k * g \in Nat
             /\ (j + k) * g = j * g + k * g /\ (i + k) * g = i * g + k * g
      BY <2>7
    <3> DEFINE ig == i * g
               jg == j * g
               kg == k * g
               bd == b * D
    <3>2. ig \in Nat /\ jg \in Nat /\ kg \in Nat /\ bd \in Nat /\ bd < kg
             /\ ig <= jg + bd /\ jg <= ig + bd
      BY <2>10, <2>11, <2>12, <3>1
    <3> HIDE DEF ig, jg, kg, bd
    <3>3. ig < jg + kg /\ jg < ig + kg
      BY <3>2
    <3> QED BY <3>1, <3>3 DEF ig, jg, kg
  <2>14. i < j + k /\ j < i + k
    <3>1. j + k \in Nat /\ i + k \in Nat
      BY <2>7
    <3> QED BY <2>7, <2>13, <3>1, Cancel
  <2>15. Nearest(c, a, k)
    <3>1. 2 * (c * k) < 2 * a + k /\ 2 * a < 2 * (c * k) + k
      BY <2>14 DEF i, j, k
    <3>2. 2 * (c * k) \in Nat /\ 2 * a \in Nat /\ k \in Nat
      BY <2>3, <2>7
    <3> DEFINE ck == 2 * (c * k)
               aa == 2 * a
    <3>3. ck \in Nat /\ aa \in Nat /\ ck < aa + k /\ aa < ck + k
      BY <3>1, <3>2
    <3> HIDE DEF ck, aa
    <3>4. ck <= aa + k /\ aa <= ck + k /\ aa # ck + k /\ ck # aa + k
      BY <2>7, <3>3
    <3> QED BY <3>4 DEF Nearest, ck, aa
  <2>16. Rounds(c, x, u)
    BY <2>2, <2>15, OneUnitRounds DEF a, k, D, p
  <2>17. PICK s \in Nat : ToUnit(x, u) = Normal(s, u) /\ Rounds(s, x, u)
    BY ToUnitRounds
  <2>18. s = c
    BY <2>16, <2>17, RoundsAlike
  <2> QED BY <1>2, <2>17, <2>18
<1> QED BY <1>3, <1>4

-----------------------------------------------------------------------------
(* The invariant                                                           *)

\* The amount is the rounded quotient of two decimals, and `exact' their quotient.
IsQuotient(amount, x) ==
  \E a, b \in [coef : Nat, exp : Int] :
    /\ b.coef # 0 /\ amount = GuardedDiv(a, b)
    /\ Same(x, Quotient(Exactly(a), b))

\* The verdict on the limit is that on the amount as it is.
Judged == outcome \in {"passes", "exceeds"}
            => (outcome = "passes" <=> Cmp(Exactly(money.amount), Exactly(Limit.amount)) <= 0)

\* What the amount has to do with its exact value: all, as long as no quotient was rounded; it
\* is within the first one's error of it, and is that quotient itself until the next leg.
Tracks ==
  /\ IsRatio(exact)
  /\ op = "none" => quotients = 0
  /\ quotients = 0 /\ op # "none" /\ stage = "unrounded" => Same(Exactly(money.amount), exact)
  /\ quotients = 1 /\ stage = "unrounded" => IsNear(Exactly(money.amount), exact)
  /\ quotients = 1 /\ op = "divide" /\ stage = "unrounded" => IsQuotient(money.amount, exact)

ExactInv ==
  /\ MoneyTypeOK
  /\ money = [amount |-> money.amount, currency |-> money.currency]
  /\ Tracks
  /\ RoundedOnce
  /\ ComesBackWhole
  /\ Judged

\* What IsNormal says of a decimal.
LEMMA NormalIs ==
  ASSUME NEW d, IsNormal(d)
  PROVE  /\ d.coef \in Nat /\ d.exp \in Int /\ d \in [coef : Nat, exp : Int]
         /\ IsRatio(Exactly(d))
<1>1. d.coef \in Nat /\ d.exp \in Int /\ d = Normal(d.coef, d.exp)
  BY DEF IsNormal
<1>2. IsRatio(Exactly(d))
  BY <1>1, ExactRatios
<1>3. Normal(d.coef, d.exp) = [coef |-> Normal(d.coef, d.exp).coef, exp |-> Normal(d.coef, d.exp).exp]
  BY DEF Normal
<1> QED BY <1>1, <1>2, <1>3

\* What is positive and sent is normal.
LEMMA SentNormal ==
  /\ \A input \in Inputs, currency \in Alphas : Verdict(input, currency) = "money" => IsNormal(input)
  /\ \A rate \in RateValues : IsRate(rate) => IsNormal(rate) /\ rate.coef \in Nat \ {0}
        /\ rate.exp \in Int
<1>1. ASSUME NEW input \in Inputs, NEW currency \in Alphas, Verdict(input, currency) = "money"
      PROVE  IsNormal(input)
  <2>1. input # NotANumber /\ ~(input.coef <= 0)
    BY <1>1 DEF Verdict, ReadsAsDecimal
  <2>2. input.coef \in Int /\ (input.coef > 0 => IsNormal(input))
    BY <2>1, InputAssumption
  <2> QED BY <2>1, <2>2
<1>2. ASSUME NEW rate \in RateValues, IsRate(rate)
      PROVE  IsNormal(rate) /\ rate.coef \in Nat \ {0} /\ rate.exp \in Int
  <2>1. rate # NotANumber /\ rate.coef > 0
    BY <1>2 DEF IsRate
  <2>2. rate.coef \in Int /\ (rate.coef > 0 => IsNormal(rate))
    BY <2>1, InputAssumption
  <2> QED BY <2>1, <2>2, NormalIs
<1> QED BY <1>1, <1>2

\* A comparison has a sign.
LEMMA CmpIsInt ==
  ASSUME NEW x, NEW y
  PROVE  Cmp(x, y) \in Int
<1>1. \A n : Sign(n) \in Int
  BY DEF Sign
<1> QED BY <1>1 DEF Cmp

\* Rounding is to a normal decimal.
LEMMA ToUnitNormal ==
  ASSUME NEW x, IsRatio(x), NEW u \in Int
  PROVE  IsNormal(ToUnit(x, u))
<1>1. PICK q \in Nat : ToUnit(x, u) = Normal(q, u)
  BY ToUnitRounds
<1> QED BY <1>1, NormalKeeps

\* A supported currency has its minor units.
LEMMA MinorUnitsAre ==
  ASSUME NEW currency \in Alphas
  PROVE  -MinorUnits[currency] \in Int
<1>1. PICK info \in Table : info.alpha = currency
  BY DEF Alphas
<1>2. (CHOOSE i \in Table : i.alpha = currency) \in Table
  BY <1>1
<1>3. MinorUnits[currency] = (CHOOSE i \in Table : i.alpha = currency).minorUnits
  BY DEF MinorUnits
<1>4. MinorUnits[currency] \in Nat
  BY <1>2, <1>3, TableAssumption DEF CurrencyInfos
<1> QED BY <1>4

\* What the code names is supported.
LEMMA CurrencyIs ==
  /\ Unsupported \notin Alphas
  /\ \A text : CurrencyOf(text) # Unsupported => CurrencyOf(text) \in Alphas
<1>1. Unsupported \notin Alphas
  BY TableAssumption DEF Alphas
<1>2. ASSUME NEW text, CurrencyOf(text) # Unsupported
      PROVE  CurrencyOf(text) \in Alphas
  BY <1>2 DEF CurrencyOf
<1> QED BY <1>1, <1>2

-----------------------------------------------------------------------------
(* One step at a time                                                      *)

\* A call that throws changes the outcome alone.
LEMMA ThrowsKeeps ==
  ASSUME ExactInv, NEW error \in Refused \cup {"invalid rate", "mismatch"}, Throws(error)
  PROVE  ExactInv'
BY DEF ExactInv, Tracks, Judged, RoundedOnce, ComesBackWhole, Guarded, MoneyTypeOK, Throws, Refused,
       history, IsQuotient, IsNear

\* So does a verdict on the limit, which is the comparison's.
LEMMA JudgedKeeps ==
  ASSUME ExactInv, AssertWithinConversionLimit
  PROVE  ExactInv'
<1> DEFINE c == Cmp(Exactly(money.amount), Exactly(Limit.amount))
<1>1. c \in Int
  BY CmpIsInt
<1>2. CASE Throws("mismatch")
  BY <1>2, ThrowsKeeps
<1>3. ASSUME NEW verdict \in {"passes", "exceeds"}, Throws(verdict), verdict = "passes" <=> c <= 0
      PROVE  ExactInv'
  BY <1>3 DEF ExactInv, Tracks, Judged, RoundedOnce, ComesBackWhole, Guarded, MoneyTypeOK, Throws,
              history, IsQuotient, IsNear
<1>4. CASE c > 0 /\ Throws("exceeds")
  <2>1. ~(c <= 0)
    BY <1>1, <1>4
  <2> HIDE DEF c
  <2> QED BY <1>3, <1>4, <2>1
<1>5. CASE ~(c > 0) /\ Throws("passes")
  <2>1. c <= 0
    BY <1>1, <1>5
  <2> HIDE DEF c
  <2> QED BY <1>3, <1>5, <2>1
<1> QED BY <1>2, <1>4, <1>5 DEF AssertWithinConversionLimit

\* What the amount has to do with the exact value a leg starts from.
LEMMA OperandTracks ==
  ASSUME ExactInv, op # "none"
  PROVE  /\ IsRatio(Operand) /\ IsRatio(Exactly(money.amount)) /\ RoundedSoFar \in 0..legs
         /\ RoundedSoFar = 0 => Same(Exactly(money.amount), Operand)
         /\ RoundedSoFar = 1 => IsNear(Exactly(money.amount), Operand)
<1>1. IsRatio(Exactly(money.amount)) /\ IsRatio(exact)
  BY NormalIs DEF ExactInv, MoneyTypeOK, Tracks
<1>2. Same(Exactly(money.amount), Exactly(money.amount))
  BY DEF Same
<1>3. /\ stage \in {"unrounded", "rounded"} /\ quotients \in 0..legs
      /\ quotients = 0 /\ stage = "unrounded" => Same(Exactly(money.amount), exact)
      /\ quotients = 1 /\ stage = "unrounded" => IsNear(Exactly(money.amount), exact)
  BY DEF ExactInv, MoneyTypeOK, Tracks
<1>4. CASE stage = "rounded"
  <2>1. Operand = Exactly(money.amount) /\ RoundedSoFar = 0
    BY <1>4 DEF Operand, RoundedSoFar
  <2>2. 0 \in 0..legs
    <3>1. legs \in 0..MaxLegs
      BY DEF ExactInv, MoneyTypeOK
    <3> QED BY <3>1
  <2> QED BY <1>1, <1>2, <2>1, <2>2
<1>5. CASE stage = "unrounded"
  <2>1. Operand = exact /\ RoundedSoFar = quotients
    BY <1>5 DEF Operand, RoundedSoFar
  <2> QED BY <1>1, <1>3, <1>5, <2>1
<1> QED BY <1>3, <1>4, <1>5

\* A leg of which the new amount tracks its exact value.
LEMMA LegKeeps ==
  ASSUME ExactInv, op # "none", legs < MaxLegs,
         NEW name \in {"multiply", "divide"}, NEW amount, IsNormal(amount),
         NEW value, IsRatio(value), NEW target \in Alphas,
         name = "multiply" /\ RoundedSoFar = 0 => Same(Exactly(amount), value),
         name = "multiply" /\ RoundedSoFar = 1 => IsNear(Exactly(amount), value),
         name = "divide" /\ RoundedSoFar = 0 =>
           IsQuotient(amount, value) /\ IsNear(Exactly(amount), value),
         Leg(name, amount, value, target)
  PROVE  ExactInv'
<1>1. /\ legs' = legs + 1 /\ legs' \in 0..MaxLegs /\ RoundedSoFar \in 0..legs
      /\ quotients' = RoundedSoFar + (IF name = "divide" THEN 1 ELSE 0) /\ quotients' \in 0..legs'
  <2>1. legs \in 0..MaxLegs /\ MaxLegs \in Nat
    BY MoneyAssumption DEF ExactInv, MoneyTypeOK
  <2>2. legs' = legs + 1 /\ quotients' = RoundedSoFar + (IF name = "divide" THEN 1 ELSE 0)
    BY DEF Leg
  <2> QED BY <2>1, <2>2, OperandTracks
<1>2. MoneyTypeOK'
  <2>1. target # Unsupported
    BY CurrencyIs
  <2> QED BY <1>1, <2>1 DEF MoneyTypeOK, Leg, Refused
<1>3. Tracks'
  <2>1. op' = name /\ stage' = "unrounded" /\ exact' = value /\ money'.amount = amount
    BY DEF Leg
  <2>2. CASE name = "multiply"
    <3>1. quotients' = RoundedSoFar
      BY <1>1, <2>2
    <3> QED BY <2>1, <2>2, <3>1 DEF Tracks
  <2>3. CASE name = "divide"
    <3>1. quotients' # 0 /\ (quotients' = 1 => RoundedSoFar = 0)
      BY <1>1, <2>3
    <3> QED BY <2>1, <2>3, <3>1 DEF Tracks, IsQuotient, IsNear
  <2> QED BY <2>2, <2>3
<1>4. /\ RoundedOnce' /\ ComesBackWhole' /\ Judged'
      /\ money' = [amount |-> money'.amount, currency |-> money'.currency]
  BY DEF Leg, RoundedOnce, ComesBackWhole, Judged
<1> QED BY <1>2, <1>3, <1>4 DEF ExactInv

\* A product is exact, so a leg that multiplies tracks its value as the one before did.
LEMMA MultiplyKeeps ==
  ASSUME ExactInv, NEW rate \in RateValues, NEW target \in Alphas, MultiplyByRate(rate, target)
  PROVE  ExactInv'
<1>1. CASE Throws("invalid rate")
  BY <1>1, ThrowsKeeps
<1>2. CASE ~Throws("invalid rate")
  <2> DEFINE a == money.amount
             r == ExactTimes(a, rate)
             x == Exactly(a)
             w == Operand
  <2>1. op # "none" /\ legs < MaxLegs /\ IsRate(rate) /\ Leg("multiply", r, Product(w, rate), target)
    BY <1>2 DEF MultiplyByRate
  <2>2. rate.coef \in Nat \ {0} /\ rate.exp \in Int
    BY <2>1, SentNormal
  <2>3. a.coef \in Nat /\ a.exp \in Int
    BY NormalIs DEF ExactInv, MoneyTypeOK
  <2>4. IsNormal(r) /\ r.coef \in Nat /\ r.exp \in Int /\ IsRatio(Product(x, rate))
           /\ Same(Exactly(r), Product(x, rate))
    BY <2>2, <2>3, ProductExact
  <2>5. IsRatio(w) /\ IsRatio(x) /\ (RoundedSoFar = 0 => Same(x, w)) /\ (RoundedSoFar = 1 => IsNear(x, w))
    BY <2>1, OperandTracks
  <2> HIDE DEF x, w, r
  <2>6. Same(w, w)
    BY DEF Same
  <2>7. IsRatio(Product(w, rate)) /\ IsRatio(Exactly(r))
    BY <2>2, <2>4, <2>5, <2>6, SameProduct, ExactRatios
  <2>8. RoundedSoFar = 0 => Same(Exactly(r), Product(w, rate))
    <3>1. RoundedSoFar = 0 => Same(Product(x, rate), Product(w, rate))
      BY <2>2, <2>5, SameProduct
    <3> QED BY <2>4, <2>7, <3>1, SameCompares
  <2>9. RoundedSoFar = 1 => IsNear(Exactly(r), Product(w, rate))
    <3>1. RoundedSoFar = 1 => IsNear(Product(x, rate), Product(w, rate))
      BY <2>2, <2>5, NearProduct
    <3> QED BY <2>4, <2>7, <3>1, SameNear
  <2> QED BY <2>1, <2>4, <2>7, <2>8, <2>9, LegKeeps
<1> QED BY <1>1, <1>2

\* A leg that divides what was not yet rounded makes a rounded quotient.
LEMMA DivideKeeps ==
  ASSUME ExactInv, NEW rate \in RateValues, NEW target \in Alphas, DivideByRate(rate, target)
  PROVE  ExactInv'
<1>1. CASE Throws("invalid rate")
  BY <1>1, ThrowsKeeps
<1>2. CASE ~Throws("invalid rate")
  <2> DEFINE a == money.amount
             r == GuardedDiv(a, rate)
             x == Exactly(a)
             w == Operand
  <2>1. op # "none" /\ legs < MaxLegs /\ IsRate(rate) /\ Leg("divide", r, Quotient(w, rate), target)
    BY <1>2 DEF DivideByRate
  <2>2. rate.coef \in Nat \ {0} /\ rate.exp \in Int /\ rate \in [coef : Nat, exp : Int]
    BY <2>1, SentNormal, NormalIs
  <2>3. a.coef \in Nat /\ a.exp \in Int /\ a \in [coef : Nat, exp : Int]
    BY NormalIs DEF ExactInv, MoneyTypeOK
  <2>4. IsNormal(r) /\ r.coef \in Nat /\ r.exp \in Int
    BY <2>2, <2>3, QuotientOf
  <2>5. IsRatio(w) /\ IsRatio(x) /\ (RoundedSoFar = 0 => Same(w, x))
    BY <2>1, OperandTracks, Trichotomy
  <2>6. IsNear(Exactly(r), Quotient(x, rate)) /\ IsRatio(Exactly(r))
    BY <2>2, <2>3, <2>4, QuotientNear, ExactRatios
  <2> HIDE DEF w
  <2>7. IsRatio(Quotient(w, rate)) /\ IsRatio(Quotient(x, rate))
    <3> HIDE DEF x
    <3>1. Same(w, w) /\ Same(x, x)
      BY DEF Same
    <3> QED BY <2>2, <2>5, <3>1, SameQuotient
  <2>8. RoundedSoFar = 0 => /\ Same(Quotient(w, rate), Quotient(x, rate))
                            /\ Same(Quotient(x, rate), Quotient(w, rate))
    <3> HIDE DEF x
    <3> QED BY <2>2, <2>5, <2>7, SameQuotient, Trichotomy
  <2>9. RoundedSoFar = 0 => IsQuotient(r, Quotient(w, rate))
    BY <2>2, <2>3, <2>8 DEF IsQuotient
  <2> HIDE DEF r, x
  <2>10. RoundedSoFar = 0 => IsNear(Exactly(r), Quotient(w, rate))
    BY <2>6, <2>7, <2>8, SameNear
  <2> QED BY <2>1, <2>4, <2>7, <2>9, <2>10, LegKeeps
<1> QED BY <1>1, <1>2

\* Rounding the amount is rounding its exact value, if no quotient was rounded before the last
\* leg.
LEMMA RoundsExact ==
  ASSUME ExactInv, stage = "unrounded", Guarded, NEW u \in Int,
         exact.num = 0 \/ Leading(exact) - u + 2 <= GuardDigits
  PROVE  ToUnit(Exactly(money.amount), u) = ToUnit(exact, u)
<1>1. IsRatio(exact) /\ IsRatio(Exactly(money.amount)) /\ op \in {"parse", "multiply", "divide"}
  BY NormalIs DEF ExactInv, Tracks, MoneyTypeOK
<1>2. CASE quotients = 0
  <2>1. Same(Exactly(money.amount), exact)
    BY <1>1, <1>2 DEF ExactInv, Tracks
  <2> QED BY <1>1, <2>1, SameRounds
<1>3. CASE quotients = 1 /\ op = "divide"
  <2>1. PICK a, b \in [coef : Nat, exp : Int] :
          b.coef # 0 /\ money.amount = GuardedDiv(a, b) /\ Same(exact, Quotient(Exactly(a), b))
    BY <1>3 DEF ExactInv, Tracks, IsQuotient
  <2> DEFINE x == Quotient(Exactly(a), b)
  <2>2. a.coef \in Nat /\ a.exp \in Int /\ b.coef \in Nat \ {0} /\ b.exp \in Int
    BY <2>1
  <2>3. IsRatio(x) /\ x.num = a.coef
    BY <2>2, QuotientOf
  <2> HIDE DEF x
  <2>4. a.coef = 0 \/ Leading(x) <= u - 1 + GuardDigits
    <3>1. CASE exact.num = 0
      BY <1>1, <2>1, <2>3, <3>1, ZerosSame DEF x
    <3>2. CASE exact.num # 0
      <4>1. Leading(exact) = Leading(x) /\ Leading(exact) \in Int
        BY <1>1, <2>1, <2>3, <3>2, SameLeads, LeadingBounds DEF x
      <4>2. GuardDigits \in Nat
        BY DecimalAssumption
      <4> QED BY <3>2, <4>1, <4>2
    <3> QED BY <3>1, <3>2
  <2>5. ToUnit(Exactly(money.amount), u) = ToUnit(x, u)
    BY <2>1, <2>2, <2>4, QuotientRounds DEF x
  <2>6. ToUnit(exact, u) = ToUnit(x, u)
    BY <1>1, <2>1, <2>3, SameRounds DEF x
  <2> QED BY <2>5, <2>6
<1> QED BY <1>2, <1>3 DEF Guarded

\* After one quotient it still is, where the exact value is a whole number of units.
LEMMA RoundsWhole ==
  ASSUME ExactInv, stage = "unrounded", quotients <= 1, NEW u \in Int,
         Cmp(Exactly(ToUnit(exact, u)), exact) = 0,
         exact.num = 0 \/ Leading(exact) - u <= GuardDigits
  PROVE  ToUnit(Exactly(money.amount), u) = ToUnit(exact, u)
<1> DEFINE y == Exactly(money.amount)
           whole == ToUnit(exact, u)
<1>1. IsRatio(exact) /\ IsRatio(y) /\ op # "none" /\ quotients \in 0..legs /\ legs \in 0..MaxLegs
  BY NormalIs DEF ExactInv, Tracks, MoneyTypeOK
<1>2. IsRatio(Exactly(whole))
  BY <1>1, ToUnitNormal, NormalIs
<1>3. Same(Exactly(whole), exact)
  BY <1>1, <1>2, CmpTells
<1> HIDE DEF y, whole
<1>4. CASE quotients = 0
  <2>1. Same(y, exact)
    BY <1>1, <1>4 DEF ExactInv, Tracks, y
  <2> QED BY <1>1, <2>1, SameRounds DEF y
<1>5. CASE quotients = 1
  <2>1. IsNear(y, exact)
    BY <1>5 DEF ExactInv, Tracks, y
  <2>2. PICK z, w : IsRatio(z) /\ IsRatio(w) /\ Same(y, z) /\ Near(z, w) /\ Same(w, exact)
    BY <2>1 DEF IsNear
  <2>3. ToUnit(y, u) = ToUnit(z, u) /\ ToUnit(w, u) = whole
    BY <1>1, <2>2, SameRounds DEF whole
  <2>4. Same(Exactly(whole), w)
    <3>1. Same(exact, Exactly(whole)) /\ (Same(w, Exactly(whole)) <=> Same(exact, Exactly(whole)))
      BY <1>1, <1>2, <1>3, <2>2, SameCompares, Trichotomy
    <3> QED BY <1>2, <2>2, <3>1, Trichotomy
  <2>5. w.num = 0 \/ Leading(w) - u <= GuardDigits
    <3>1. Same(exact, w)
      BY <1>1, <2>2, Trichotomy
    <3>2. CASE exact.num = 0
      BY <1>1, <2>2, <3>1, <3>2, ZerosSame
    <3>3. CASE exact.num # 0
      BY <1>1, <2>2, <3>1, <3>3, SameLeads
    <3> QED BY <3>2, <3>3
  <2>6. ToUnit(z, u) = ToUnit(w, u)
    BY <2>2, <2>3, <2>4, <2>5, NearWhole
  <2> QED BY <2>3, <2>6 DEF y, whole
<1> QED BY <1>1, <1>4, <1>5

\* What rounding must keep, it keeps.
LEMMA RoundKeeps ==
  ASSUME ExactInv, Round
  PROVE  ExactInv'
<1> DEFINE u == -MinorUnits[money.currency]
           r == ToUnit(Exactly(money.amount), u)
           whole == ToUnit(exact, u)
<1>1. u \in Int
  BY MinorUnitsAre DEF ExactInv, MoneyTypeOK, Round
<1>2. IsNormal(r)
  BY <1>1, NormalIs, ToUnitNormal DEF ExactInv, MoneyTypeOK
<1>3. money' = [amount |-> r, currency |-> money.currency]
  BY DEF ExactInv, Round
<1>4. stage = "unrounded" /\ stage' = "rounded" /\ outcome' = "money"
         /\ UNCHANGED <<legs, named, op, exact, quotients>>
  BY DEF Round, history
<1>5. Guarded /\ (exact.num = 0 \/ Leading(exact) - u + 2 <= GuardDigits) => r = whole
  BY <1>1, <1>4, RoundsExact
<1>6. quotients <= 1 /\ Cmp(Exactly(whole), exact) = 0
         /\ (exact.num = 0 \/ Leading(exact) - u <= GuardDigits) => r = whole
  BY <1>1, <1>4, RoundsWhole
<1> HIDE DEF r
<1>7. MoneyTypeOK'
  BY <1>2, <1>3, <1>4 DEF ExactInv, MoneyTypeOK
<1>8. Tracks' /\ Judged'
  BY <1>4 DEF ExactInv, Tracks, Judged
<1>9. RoundedOnce'
  BY <1>3, <1>4, <1>5 DEF RoundedOnce, Guarded
<1>10. ComesBackWhole'
  BY <1>3, <1>4, <1>6 DEF ComesBackWhole
<1> QED BY <1>3, <1>7, <1>8, <1>9, <1>10 DEF ExactInv

\* What is parsed is its own exact value.
LEMMA ParseKeeps ==
  ASSUME ExactInv, NEW input \in Inputs, ParseClientAmount(input)
  PROVE  ExactInv'
<1> DEFINE verdict == Verdict(input, money.currency)
<1>1. money.currency \in Alphas /\ stage = "input"
  BY DEF ExactInv, MoneyTypeOK, ParseClientAmount
<1>2. verdict \in {"not a number", "not positive", "too many decimals", "money"}
  BY DEF Verdict
<1>3. CASE verdict # "money"
  <2>1. Throws(verdict)
    BY <1>3 DEF ParseClientAmount
  <2> HIDE DEF verdict
  <2> QED BY <1>2, <1>3, <2>1, ThrowsKeeps DEF Refused
<1>4. CASE verdict = "money"
  <2>1. IsNormal(input)
    BY <1>1, <1>4, SentNormal
  <2>2. /\ money' = [amount |-> input, currency |-> money.currency]
        /\ stage' = "unrounded" /\ outcome' = "money" /\ op' = "parse" /\ exact' = Exactly(input)
        /\ UNCHANGED <<legs, named, quotients>> /\ quotients = 0
    <3>1. op = "none" /\ quotients = 0
      BY <1>1 DEF ExactInv, MoneyTypeOK, Tracks
    <3> QED BY <1>4, <3>1 DEF ExactInv, ParseClientAmount
  <2>3. MoneyTypeOK'
    BY <1>1, <2>1, <2>2, CurrencyIs DEF ExactInv, MoneyTypeOK
  <2>4. IsRatio(Exactly(input)) /\ Same(Exactly(input), Exactly(input))
    BY <2>1, NormalIs DEF Same
  <2>5. Tracks'
    BY <2>2, <2>4 DEF Tracks
  <2>6. RoundedOnce' /\ ComesBackWhole' /\ Judged'
    BY <2>2 DEF RoundedOnce, ComesBackWhole, Judged
  <2> QED BY <2>2, <2>3, <2>5, <2>6 DEF ExactInv
<1> QED BY <1>3, <1>4

\* Naming the currency leaves the amount.
LEMMA NameKeeps ==
  ASSUME ExactInv, NameCurrency
  PROVE  ExactInv'
<1>1. CASE CurrencyOf(named) = Unsupported
  <2>1. Throws("unsupported")
    BY <1>1 DEF NameCurrency
  <2> QED BY <2>1, ThrowsKeeps DEF Refused
<1>2. CASE CurrencyOf(named) # Unsupported
  <2>1. /\ money' = [amount |-> money.amount, currency |-> CurrencyOf(named)]
        /\ stage = "currency" /\ stage' = "input"
        /\ UNCHANGED <<outcome, legs, named, op, exact, quotients>>
    BY <1>2 DEF ExactInv, NameCurrency, history
  <2>2. CurrencyOf(named) \in Alphas
    BY <1>2, CurrencyIs
  <2>3. MoneyTypeOK'
    BY <1>2, <2>1, <2>2 DEF ExactInv, MoneyTypeOK
  <2>4. Tracks' /\ RoundedOnce' /\ ComesBackWhole'
    BY <2>1, <2>2 DEF ExactInv, MoneyTypeOK, Tracks, RoundedOnce, ComesBackWhole
  <2>5. Judged'
    BY <2>1 DEF ExactInv, Judged
  <2> QED BY <2>1, <2>3, <2>4, <2>5 DEF ExactInv
<1> QED BY <1>1, <1>2

\* Nothing at all is exact.
LEMMA ExactInvInit ==
  ASSUME Init
  PROVE  ExactInv
<1>1. IsNormal(Normal(0, 0)) /\ IsRatio(Exactly(Normal(0, 0)))
  <2>1. 0 \in Nat /\ 0 \in Int
    OBVIOUS
  <2>2. IsNormal(Normal(0, 0))
    BY <2>1, NormalKeeps
  <2> QED BY <2>2, NormalIs
<1>2. MoneyTypeOK
  BY <1>1, MoneyAssumption DEF Init, MoneyTypeOK
<1>3. Tracks /\ RoundedOnce /\ ComesBackWhole /\ Judged
  BY <1>1 DEF Init, Tracks, RoundedOnce, ComesBackWhole, Judged
<1> QED BY <1>2, <1>3 DEF Init, ExactInv

\* Every step preserves the invariant.
LEMMA ExactInvStep ==
  ASSUME ExactInv, [Next]_vars
  PROVE  ExactInv'
<1>1. CASE NameCurrency
  BY <1>1, NameKeeps
<1>2. CASE \E input \in Inputs : ParseClientAmount(input)
  BY <1>2, ParseKeeps
<1>3. CASE \E rate \in RateValues, target \in Alphas :
             MultiplyByRate(rate, target) \/ DivideByRate(rate, target)
  BY <1>3, MultiplyKeeps, DivideKeeps
<1>4. CASE Round
  BY <1>4, RoundKeeps
<1>5. CASE AssertWithinConversionLimit
  BY <1>5, JudgedKeeps
<1>6. CASE Done \/ UNCHANGED vars
  BY <1>6 DEF Done, vars, history, ExactInv, MoneyTypeOK, Tracks, RoundedOnce, ComesBackWhole, Guarded,
              Judged, IsQuotient, IsNear
<1> QED BY <1>1, <1>2, <1>3, <1>4, <1>5, <1>6 DEF Next

-----------------------------------------------------------------------------
(* Theorems                                                                *)

\* Whatever the legs of a conversion, its unrounded amount is exact, or it is a quotient
\* rounded once from the exact value.
THEOREM AlwaysExact == Spec => []ExactInv
<1>1. Init => ExactInv
  BY ExactInvInit
<1>2. ExactInv /\ [Next]_vars => ExactInv'
  BY ExactInvStep
<1> QED BY <1>1, <1>2, PTL DEF Spec

\* The variables keep their types: amounts stay decimals in normal form.
THEOREM TypeCorrect == Spec => []MoneyTypeOK
<1>1. ExactInv => MoneyTypeOK
  BY DEF ExactInv
<1> QED BY <1>1, AlwaysExact, PTL

\* However many products there are in a row, and whatever the precision of the domain,
\* nothing is rounded between two legs (exactTimes), as long as there is no quotient.
THEOREM ProductsAreExact == Spec => []ProductsExact
<1>1. ExactInv => ProductsExact
  <2> SUFFICES ASSUME ExactInv, quotients = 0, op # "none", stage = "unrounded"
               PROVE  Cmp(Exactly(money.amount), exact) = 0
    BY DEF ProductsExact
  <2>1. IsRatio(exact) /\ Same(Exactly(money.amount), exact) /\ IsRatio(Exactly(money.amount))
    BY NormalIs DEF ExactInv, Tracks, MoneyTypeOK
  <2> QED BY <2>1, CmpTells
<1> QED BY <1>1, AlwaysExact, PTL

\* An amount passes the limit just if its exact value does, without any rounding since it was
\* in minor units: of products, and of one quotient at most if the last leg made it, as long as
\* the limit has no more digits than a quotient is guarded by (assertWithinConversionLimit,
\* guardedDiv).
THEOREM LimitIsJudgedExactly == Spec => []LimitJudgedExactly
<1>1. ExactInv => LimitJudgedExactly
  <2> SUFFICES ASSUME ExactInv, stage = "unrounded", outcome \in {"passes", "exceeds"}, Guarded
               PROVE  outcome = "passes" <=> Cmp(exact, Exactly(Limit.amount)) <= 0
    BY DEF LimitJudgedExactly
  <2> DEFINE y == Exactly(money.amount)
             l == Exactly(Limit.amount)
  <2>1. IsRatio(exact) /\ IsRatio(y) /\ op \in {"parse", "multiply", "divide"}
    BY NormalIs DEF ExactInv, Tracks, MoneyTypeOK
  <2>2. /\ IsRatio(l) /\ Limit.amount.coef \in Nat /\ Limit.amount.exp \in Int
        /\ Sd(Limit.amount) <= GuardDigits
    BY NormalIs, MoneyAssumption
  <2>3. outcome = "passes" <=> Cmp(y, l) <= 0
    BY DEF ExactInv, Judged
  <2>4. Sides(exact, y, l)
    <3>1. CASE quotients = 0
      <4>1. Same(y, exact)
        BY <2>1, <3>1 DEF ExactInv, Tracks
      <4> HIDE DEF y, l
      <4> QED BY <2>1, <2>2, <4>1, SameCompares DEF Sides
    <3>2. CASE quotients = 1 /\ op = "divide"
      <4>1. PICK a, b \in [coef : Nat, exp : Int] :
              b.coef # 0 /\ money.amount = GuardedDiv(a, b) /\ Same(exact, Quotient(Exactly(a), b))
        BY <3>2 DEF ExactInv, Tracks, IsQuotient
      <4> DEFINE x == Quotient(Exactly(a), b)
      <4>2. a.coef \in Nat /\ a.exp \in Int /\ b.coef \in Nat \ {0} /\ b.exp \in Int
        BY <4>1
      <4>3. Sides(x, y, l)
        BY <2>2, <4>1, <4>2, QuotientJudged
      <4>4. IsRatio(x)
        BY <4>2, QuotientOf
      <4> HIDE DEF x, y, l
      <4>5. (Less(exact, l) <=> Less(x, l)) /\ (Less(l, exact) <=> Less(l, x))
               /\ (Same(exact, l) <=> Same(x, l))
        BY <2>1, <2>2, <4>1, <4>4, SameCompares DEF x
      <4> QED BY <4>3, <4>5 DEF Sides
    <3> QED BY <3>1, <3>2 DEF Guarded
  <2> HIDE DEF y, l
  <2>5. Cmp(y, l) <= 0 <=> Less(y, l) \/ Same(y, l)
    BY <2>1, <2>2, CmpTells, CmpIsInt
  <2>6. Cmp(exact, l) <= 0 <=> Less(exact, l) \/ Same(exact, l)
    BY <2>1, <2>2, CmpTells, CmpIsInt
  <2> QED BY <2>3, <2>4, <2>5, <2>6 DEF Sides, l
<1> QED BY <1>1, AlwaysExact, PTL

\* What is shown is the exact value rounded half-even, without any rounding before: of products,
\* and of one quotient at most if the last leg made it, the rounding of which makes no tie and
\* breaks none (round, guardedDiv).
THEOREM AlwaysRoundedOnce == Spec => []RoundedOnce
<1>1. ExactInv => RoundedOnce
  BY DEF ExactInv
<1> QED BY <1>1, AlwaysExact, PTL

\* A conversion by one quotient and any products, before it and after it, that comes to whole
\* minor units shows these: the error of the quotient never reaches half of one (guardedDiv,
\* exactTimes, round).
THEOREM AlwaysComesBackWhole == Spec => []ComesBackWhole
<1>1. ExactInv => ComesBackWhole
  BY DEF ExactInv
<1> QED BY <1>1, AlwaysExact, PTL

-----------------------------------------------------------------------------
(* The currency                                                            *)

\* The currency is the one named from the moment it is until a leg changes it, and the text
\* names none once it is refused.
NamedUntilLeg ==
  /\ money = [amount |-> money.amount, currency |-> money.currency]
  /\ stage = "input" \/ op = "parse" => Spells(named, money.currency)
  /\ outcome = "unsupported" => CurrencyOf(named) = Unsupported

\* A code is three capitals.
LEMMA CodesAreCapitals ==
  ASSUME NEW alpha \in Alphas
  PROVE  alpha \in [1..3 -> Capitals] /\ alpha # Unsupported
<1>1. PICK info \in Table : info.alpha = alpha
  BY DEF Alphas
<1> QED BY <1>1, TableAssumption DEF CurrencyInfos

\* What a text names is spelled by it.
LEMMA NamesWhatItSpells ==
  ASSUME NEW text, CurrencyOf(text) # Unsupported
  PROVE  Spells(text, CurrencyOf(text))
<1> DEFINE letters == text.letters
           code == ToUpperCase(letters)
<1>1. CurrencyOf(text) = code /\ AreThreeAsciiLetters(letters)
  BY DEF CurrencyOf
<1>2. DOMAIN letters = 1..3 /\ \A i \in 1..3 : letters[i] \in Capitals \cup Smalls
  BY <1>1 DEF AreThreeAsciiLetters
<1>3. ASSUME NEW i \in 1..3
      PROVE  letters[i] \in {code[i], code[i] + 32}
  <2>1. code[i] = CASE letters[i] \in Smalls -> letters[i] - 32
                    [] letters[i] \in DOMAIN Folding -> Folding[letters[i]]
                    [] OTHER -> letters[i]
    BY <1>2 DEF ToUpperCase
  <2>2. CASE letters[i] \in Smalls
    <3>1. letters[i] \notin DOMAIN Folding
      BY <2>2 DEF Smalls, Folding
    <3>2. code[i] = letters[i] - 32
      BY <2>1, <2>2, <3>1
    <3> QED BY <2>2, <3>2 DEF Smalls
  <2>3. CASE letters[i] \in Capitals
    <3>1. letters[i] \notin Smalls /\ letters[i] \notin DOMAIN Folding
      BY <2>3 DEF Capitals, Smalls, Folding
    <3>2. code[i] = letters[i]
      BY <2>1, <3>1
    <3> QED BY <3>2
  <2> QED BY <1>2, <2>2, <2>3
<1> HIDE DEF code
<1> QED BY <1>1, <1>2, <1>3 DEF Spells

\* What a text spells it names: nothing that is spelled is refused.
LEMMA SpelledIsNamed ==
  ASSUME NEW text, NEW alpha \in Alphas, Spells(text, alpha)
  PROVE  CurrencyOf(text) # Unsupported
<1> DEFINE letters == text.letters
           code == ToUpperCase(letters)
<1>1. alpha \in [1..3 -> Capitals] /\ alpha # Unsupported
  BY CodesAreCapitals
<1>2. DOMAIN letters = 1..3 /\ \A i \in 1..3 : letters[i] \in {alpha[i], alpha[i] + 32}
  BY DEF Spells
<1>3. ASSUME NEW i \in 1..3
      PROVE  letters[i] \in Capitals \cup Smalls /\ code[i] = alpha[i]
  <2>1. code[i] = CASE letters[i] \in Smalls -> letters[i] - 32
                    [] letters[i] \in DOMAIN Folding -> Folding[letters[i]]
                    [] OTHER -> letters[i]
    BY <1>2 DEF ToUpperCase
  <2>2. alpha[i] \in 65..90
    BY <1>1 DEF Capitals
  <2>3. CASE letters[i] = alpha[i]
    <3>1. letters[i] \in Capitals /\ letters[i] \notin Smalls /\ letters[i] \notin DOMAIN Folding
      BY <2>2, <2>3 DEF Capitals, Smalls, Folding
    <3> QED BY <2>1, <2>3, <3>1
  <2>4. CASE letters[i] = alpha[i] + 32
    <3>1. letters[i] \in Smalls /\ letters[i] \notin DOMAIN Folding /\ letters[i] - 32 = alpha[i]
      BY <2>2, <2>4 DEF Smalls, Folding
    <3> QED BY <2>1, <3>1
  <2> QED BY <1>2, <2>3, <2>4
<1>4. code = [i \in 1..3 |-> code[i]]
  BY <1>2 DEF ToUpperCase
<1> HIDE DEF code
<1>5. code = alpha
  <2>1. alpha = [i \in 1..3 |-> alpha[i]]
    BY <1>1
  <2> QED BY <1>3, <1>4, <2>1
<1>6. AreThreeAsciiLetters(letters)
  BY <1>2, <1>3 DEF AreThreeAsciiLetters
<1> QED BY <1>1, <1>5, <1>6 DEF CurrencyOf, code

\* Every step preserves that.
LEMMA NamedUntilLegStep ==
  ASSUME NamedUntilLeg, [Next]_vars
  PROVE  NamedUntilLeg'
<1> USE DEF NamedUntilLeg, history
<1>1. ASSUME NEW error, Throws(error), error # "unsupported"
      PROVE  NamedUntilLeg'
  BY <1>1 DEF Throws, Spells, CurrencyOf
<1>2. CASE NameCurrency
  <2>1. CASE CurrencyOf(named) = Unsupported
    <3>1. Throws("unsupported")
      BY <1>2, <2>1 DEF NameCurrency
    <3> QED BY <2>1, <3>1 DEF Throws, Spells, CurrencyOf
  <2>2. CASE CurrencyOf(named) # Unsupported
    <3>1. Spells(named, CurrencyOf(named))
      BY <2>2, NamesWhatItSpells
    <3>2. money' = [amount |-> money.amount, currency |-> CurrencyOf(named)]
             /\ outcome = "none" /\ UNCHANGED <<outcome, named>>
      BY <1>2, <2>2 DEF NameCurrency
    <3> QED BY <3>1, <3>2 DEF Spells, CurrencyOf
  <2> QED BY <2>1, <2>2
<1>3. ASSUME NEW input \in Inputs, ParseClientAmount(input)
      PROVE  NamedUntilLeg'
  <2> DEFINE verdict == Verdict(input, money.currency)
  <2>1. verdict # "unsupported"
    BY DEF Verdict
  <2>2. CASE verdict # "money"
    <3>1. Throws(verdict)
      BY <1>3, <2>2 DEF ParseClientAmount
    <3> HIDE DEF verdict
    <3> QED BY <1>1, <2>1, <3>1
  <2>3. CASE verdict = "money"
    <3>1. /\ stage = "input" /\ outcome' = "money" /\ named' = named
          /\ money' = [amount |-> input, currency |-> money.currency]
      BY <1>3, <2>3 DEF ParseClientAmount
    <3> QED BY <3>1 DEF Spells
  <2> QED BY <2>2, <2>3
<1>4. ASSUME NEW rate \in RateValues, NEW target \in Alphas,
             MultiplyByRate(rate, target) \/ DivideByRate(rate, target)
      PROVE  NamedUntilLeg'
  <2>1. ASSUME NEW name \in {"multiply", "divide"}, NEW amount, NEW value,
               Leg(name, amount, value, target)
        PROVE  NamedUntilLeg'
    BY <2>1 DEF Leg
  <2>2. CASE MultiplyByRate(rate, target)
    BY <1>1, <2>1, <2>2 DEF MultiplyByRate
  <2>3. CASE DivideByRate(rate, target)
    BY <1>1, <2>1, <2>3 DEF DivideByRate
  <2> QED BY <1>4, <2>2, <2>3
<1>5. CASE Round
  BY <1>5 DEF Round, Spells
<1>6. CASE AssertWithinConversionLimit
  BY <1>1, <1>6 DEF AssertWithinConversionLimit
<1>7. CASE Done \/ UNCHANGED vars
  BY <1>7 DEF Done, vars, Spells, CurrencyOf
<1> QED BY <1>2, <1>3, <1>4, <1>5, <1>6, <1>7 DEF Next

\* An amount is of the currency that the client wrote, and whatever writes a supported one is
\* understood: a letter that becomes one of its letters only in upper case names nothing.
THEOREM AlwaysAsNamed == Spec => []CurrencyAsNamed
<1>1. Init => NamedUntilLeg
  BY DEF Init, NamedUntilLeg
<1>2. NamedUntilLeg => CurrencyAsNamed
  BY SpelledIsNamed DEF NamedUntilLeg, CurrencyAsNamed
<1> QED BY <1>1, <1>2, NamedUntilLegStep, PTL DEF Spec

=============================================================================
