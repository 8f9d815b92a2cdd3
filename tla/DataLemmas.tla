----------------------------- MODULE DataLemmas -----------------------------
(***************************************************************************)
(* Facts about numbers, sets and sequences that the proofs about several   *)
(* components need and the library does not have.                          *)
(*                                                                         *)
(* Theorems that take a predicate cannot be used, so an induction is made  *)
(* over sets: Climbs and GreatestExists are what the well-foundedness of   *)
(* strict inclusion between finite sets gives.                             *)
(***************************************************************************)
EXTENDS SequencesExt, Integers, SequenceTheorems, FiniteSetTheorems, WellFoundedInduction, TLAPS

-----------------------------------------------------------------------------
(* Induction                                                               *)

\* What holds of 0 and of the successor of every number it holds of, holds up to any
\* number: among finitely many intervals that end in a counterexample, one is shortest.
LEMMA Climbs ==
  ASSUME NEW limit \in Nat, NEW D, 0 \in D,
         \A n \in 0..limit : n \in D /\ n < limit => n + 1 \in D
  PROVE  \A n \in 0..limit : n \in D
<1> DEFINE Wrong == {n \in 0..limit : n \notin D}
           T     == {0..n : n \in Wrong}
<1> SUFFICES ASSUME Wrong # {}
             PROVE  FALSE
  OBVIOUS
<1>1. IsFiniteSet(0..limit)
  BY FS_Interval
<1>2. \A n \in Wrong : 0..n \in SUBSET (0..limit) /\ IsFiniteSet(0..n)
  BY FS_Interval
<1>3. T \subseteq FiniteSubsetsOf(0..limit) /\ T # {}
  BY <1>2 DEF FiniteSubsetsOf
<1>4. IsWellFoundedOn(StrictSubsetOrdering(0..limit), FiniteSubsetsOf(0..limit))
  BY FS_StrictSubsetOrderingWellFounded
<1>5. PICK s \in T : \A t \in T : ~(<<t, s>> \in StrictSubsetOrdering(0..limit))
  <2> HIDE DEF T
  <2> QED BY <1>3, <1>4, WFMin
<1>6. PICK m \in Wrong : s = 0..m
  OBVIOUS
<1>7. m \in 1..limit /\ m - 1 \in 0..limit /\ m - 1 \notin D
  BY <1>6
<1>8. 0..(m - 1) \in T
  BY <1>7
<1>9. <<0..(m - 1), 0..m>> \in StrictSubsetOrdering(0..limit)
  <2>1. 0..(m - 1) \in SUBSET (0..limit) /\ 0..m \in SUBSET (0..limit)
    BY <1>7
  <2>2. 0..(m - 1) \subseteq 0..m /\ 0..(m - 1) # 0..m
    BY <1>7
  <2> QED BY <2>1, <2>2 DEF StrictSubsetOrdering
<1> QED BY <1>5, <1>6, <1>8, <1>9

\* From `base' on, a recursion goes back to smaller numbers.
GoesBack(before, base) ==
  before \in [Nat -> Int] /\ \A n \in Nat : n >= base => before[n] \in 0..(n - 1)

Recurs(f, S, first, step, before, base) ==
  /\ f \in [Nat -> S]
  /\ \A n \in Nat : f[n] = IF n < base THEN first ELSE step[f[before[n]]]

\* Such a recursion defines a function.
LEMMA RecursionDefines ==
  ASSUME NEW S, NEW first \in S, NEW step \in [S -> S], NEW base \in Nat \ {0}, NEW before,
         GoesBack(before, base)
  PROVE  \E f : Recurs(f, S, first, step, before, base)
<1> USE DEF GoesBack
<1> DEFINE Follows(f, n) ==
             /\ f \in [0..n -> S]
             /\ \A i \in 0..n : f[i] = IF i < base THEN first ELSE step[f[before[i]]]
<1>1. ASSUME NEW n \in Nat, NEW f, Follows(f, n)
      PROVE  \E g : Follows(g, n + 1)
  <2> DEFINE g == [i \in 0..(n + 1) |-> IF i <= n THEN f[i]
                     ELSE IF i < base THEN first ELSE step[f[before[i]]]]
  <2>1. ASSUME NEW i \in 0..(n + 1)
        PROVE  g[i] \in S /\ g[i] = IF i < base THEN first ELSE step[g[before[i]]]
    <3>1. i >= base => before[i] \in 0..n /\ g[before[i]] = f[before[i]] /\ f[before[i]] \in S
      BY <1>1
    <3>2. i <= n => g[i] = f[i] /\ i \in 0..n
      OBVIOUS
    <3>3. ~(i <= n) => g[i] = IF i < base THEN first ELSE step[f[before[i]]]
      OBVIOUS
    <3> HIDE DEF g
    <3>4. CASE i <= n
      BY <1>1, <3>1, <3>2, <3>4
    <3>5. CASE ~(i <= n)
      BY <3>1, <3>3, <3>5
    <3> QED BY <3>4, <3>5
  <2>2. g \in [0..(n + 1) -> S]
    BY <2>1
  <2> HIDE DEF g
  <2>3. Follows(g, n + 1)
    BY <2>1, <2>2
  <2> QED BY <2>3
<1>2. \E f : Follows(f, 0)
  <2> DEFINE f == [i \in 0..0 |-> first]
  <2>1. f \in [0..0 -> S] /\ \A i \in 0..0 : i < base /\ f[i] = first
    OBVIOUS
  <2> HIDE DEF f
  <2>2. Follows(f, 0)
    BY <2>1
  <2> QED BY <2>2
<1> HIDE DEF Follows
<1>3. ASSUME NEW n \in Nat
      PROVE  \E f : Follows(f, n)
  <2> DEFINE D == {i \in 0..n : \E f : Follows(f, i)}
  <2>1. 0 \in D /\ \A i \in 0..n : i \in D /\ i < n => i + 1 \in D
    BY <1>1, <1>2
  <2> HIDE DEF D
  <2>2. n \in D
    BY <2>1, Climbs
  <2> QED BY <2>2 DEF D
<1>4. ASSUME NEW n \in Nat, NEW m \in 0..n, NEW f, NEW g, Follows(f, n), Follows(g, m)
      PROVE  \A i \in 0..m : f[i] = g[i]
  <2> DEFINE D == {j \in 0..m : \A i \in 0..j : f[i] = g[i]}
  <2>1. ASSUME NEW j \in 0..m, \A i \in 0..m : i < j => f[i] = g[i]
        PROVE  f[j] = g[j]
    <3>1. j >= base => before[j] \in 0..m /\ before[j] < j
      OBVIOUS
    <3>2. /\ f[j] = IF j < base THEN first ELSE step[f[before[j]]]
          /\ g[j] = IF j < base THEN first ELSE step[g[before[j]]]
      BY <1>4 DEF Follows
    <3>3. j >= base => f[before[j]] = g[before[j]]
      BY <2>1, <3>1
    <3> QED BY <3>2, <3>3
  <2>2. 0 \in D
    BY <2>1
  <2>3. ASSUME NEW j \in 0..m, j \in D, j < m
        PROVE  j + 1 \in D
    <3>1. f[j + 1] = g[j + 1]
      BY <2>1, <2>3
    <3>2. \A i \in 0..(j + 1) : i \in 0..j \/ i = j + 1
      OBVIOUS
    <3> QED BY <2>3, <3>1, <3>2
  <2> HIDE DEF D
  <2>4. m \in D
    BY <2>2, <2>3, Climbs
  <2> QED BY <2>4 DEF D
<1> DEFINE At(n) == CHOOSE f : Follows(f, n)
           f == [n \in Nat |-> At(n)[n]]
<1>5. \A n \in Nat : Follows(At(n), n)
  BY <1>3
<1> HIDE DEF At
<1>6. f \in [Nat -> S]
  BY <1>5 DEF Follows
<1>7. ASSUME NEW n \in Nat
      PROVE  f[n] = IF n < base THEN first ELSE step[f[before[n]]]
  <2>1. n >= base => /\ before[n] \in 0..n /\ before[n] \in Nat
                     /\ At(n)[before[n]] = At(before[n])[before[n]]
    BY <1>4, <1>5
  <2> QED BY <1>5, <2>1 DEF Follows
<1> HIDE DEF f
<1>8. Recurs(f, S, first, step, before, base)
  BY <1>6, <1>7 DEF Recurs
<1> QED BY <1>8

\* Of finitely many elements, one has the greatest number.
LEMMA GreatestExists ==
  ASSUME NEW D, IsFiniteSet(D), D # {}, NEW f, \A d \in D : f[d] \in Int
  PROVE  \E d \in D : \A e \in D : f[d] >= f[e]
<1> DEFINE Greatest(s) == \E d \in s : \A e \in s : f[d] >= f[e]
           Open == {s \in FiniteSubsetsOf(D) : s # {} /\ ~Greatest(s)}
<1>1. SUFFICES ASSUME ~Greatest(D) PROVE FALSE
  OBVIOUS
<1>2. D \in Open /\ Open \subseteq FiniteSubsetsOf(D)
  BY <1>1 DEF FiniteSubsetsOf
<1>3. PICK s \in Open : \A t \in Open : ~(<<t, s>> \in StrictSubsetOrdering(D))
  <2> HIDE DEF Open
  <2>1. Open # {}
    BY <1>2
  <2> QED BY <1>2, <2>1, FS_StrictSubsetOrderingWellFounded, WFMin
<1>4. s \subseteq D /\ IsFiniteSet(s) /\ s # {} /\ ~Greatest(s)
  BY <1>3 DEF FiniteSubsetsOf
<1>5. PICK x \in s : TRUE
  BY <1>4
<1>6. s \ {x} \in FiniteSubsetsOf(D) /\ <<s \ {x}, s>> \in StrictSubsetOrdering(D)
  BY <1>4, <1>5, FS_RemoveElement DEF FiniteSubsetsOf, StrictSubsetOrdering
<1>7. s \ {x} \notin Open
  BY <1>3, <1>6
<1>8. CASE s \ {x} = {}
  <2>1. \A e \in s : e = x
    BY <1>8
  <2>2. f[x] >= f[x]
    BY <1>4, <1>5
  <2> QED BY <1>4, <1>5, <2>1, <2>2
<1>9. CASE s \ {x} # {}
  <2>1. PICK d \in s \ {x} : \A e \in s \ {x} : f[d] >= f[e]
    BY <1>6, <1>7, <1>9
  <2>2. f[d] \in Int /\ f[x] \in Int /\ \A e \in s : f[e] \in Int
    BY <1>4, <1>5, <2>1
  <2>3. CASE f[d] >= f[x]
    BY <1>4, <2>1, <2>2, <2>3
  <2>4. CASE f[x] >= f[d]
    BY <1>4, <1>5, <2>1, <2>2, <2>4
  <2> QED BY <2>2, <2>3, <2>4
<1> QED BY <1>8, <1>9

\* The greatest of finitely many numbers is one of them.
LEMMA GreatestIsMax ==
  ASSUME NEW D, IsFiniteSet(D), D # {}, NEW f, \A d \in D : f[d] \in Int
  PROVE  LET numbers == {f[d] : d \in D}
         IN Max(numbers) \in numbers /\ \A x \in numbers : Max(numbers) >= x
BY GreatestExists DEF Max

-----------------------------------------------------------------------------
(* Sequences                                                               *)

\* RemoveAt leaves the other elements, in their order.
LEMMA RemoveAtProperties ==
  ASSUME NEW S, NEW s \in Seq(S), NEW i \in DOMAIN s
  PROVE  /\ RemoveAt(s, i) \in Seq(S)
         /\ Len(RemoveAt(s, i)) = Len(s) - 1
         /\ \A j \in 1..(Len(s) - 1) : RemoveAt(s, i)[j] = IF j < i THEN s[j] ELSE s[j + 1]
<1> DEFINE a == SubSeq(s, 1, i - 1)
           b == SubSeq(s, i + 1, Len(s))
<1>1. Len(s) \in Nat /\ i \in 1..Len(s) /\ \A j \in 1..Len(s) : s[j] \in S
  BY LenProperties, ElementOfSeq
<1>2. /\ a \in Seq(S) /\ Len(a) = i - 1
      /\ \A j \in 1..(i - 1) : a[j] = s[j]
  BY <1>1, SubSeqProperties
<1>3. /\ b \in Seq(S) /\ Len(b) = Len(s) - i
      /\ \A j \in 1..(Len(s) - i) : b[j] = s[i + j]
  BY <1>1, SubSeqProperties
<1> HIDE DEF a, b
<1>4. /\ a \o b \in Seq(S)
      /\ Len(a \o b) = Len(a) + Len(b)
      /\ \A j \in 1..(Len(a) + Len(b)) : (a \o b)[j] = IF j <= Len(a) THEN a[j] ELSE b[j - Len(a)]
  BY <1>2, <1>3, ConcatProperties
<1>5. ASSUME NEW j \in 1..(Len(s) - 1)
      PROVE  (a \o b)[j] = IF j < i THEN s[j] ELSE s[j + 1]
  <2>1. CASE j < i
    <3>1. j \in 1..(i - 1) /\ j \in 1..(Len(a) + Len(b)) /\ j <= Len(a)
      BY <1>1, <1>2, <1>3, <2>1
    <3> QED BY <1>2, <1>4, <2>1, <3>1
  <2>2. CASE ~(j < i)
    <3> DEFINE k == j - (i - 1)
    <3>1. k \in 1..(Len(s) - i) /\ i + k = j + 1
      BY <1>1, <2>2
    <3>2. (a \o b)[j] = b[k]
      <4>1. j \in 1..(Len(a) + Len(b)) /\ ~(j <= Len(a)) /\ j - Len(a) = k
        BY <1>1, <1>2, <1>3, <2>2
      <4> QED BY <1>4, <4>1
    <3>3. b[k] = s[i + k]
      BY <1>3, <3>1
    <3> QED BY <2>2, <3>1, <3>2, <3>3
  <2> QED BY <2>1, <2>2
<1>6. RemoveAt(s, i) = a \o b
  BY DEF RemoveAt, a, b
<1>7. Len(a \o b) = Len(s) - 1
  BY <1>1, <1>2, <1>3, <1>4
<1> QED BY <1>4, <1>5, <1>6, <1>7

\* Append adds its element and no other.
LEMMA AppendSet ==
  ASSUME NEW S, NEW s \in Seq(S), NEW x \in S
  PROVE  \A e \in ToSet(Append(s, x)) : e \in ToSet(s) \/ e = x
<1> DEFINE u == Append(s, x)
<1>1. Len(s) \in Nat /\ DOMAIN s = 1..Len(s)
  BY LenProperties
<1>2. /\ DOMAIN u = 1..(Len(s) + 1)
      /\ \A i \in 1..Len(s) : u[i] = s[i]
      /\ u[Len(s) + 1] = x
  BY <1>1, AppendProperties, LenProperties
<1> HIDE DEF u
<1>3. \A i \in DOMAIN u : (i \in DOMAIN s /\ u[i] = s[i]) \/ u[i] = x
  BY <1>1, <1>2
<1>4. \A e \in ToSet(u) : e \in ToSet(s) \/ e = x
  BY <1>3 DEF ToSet
<1> QED BY <1>4 DEF u

\* Where the elements of a line are after another is appended.
LEMMA AppendIndex ==
  ASSUME NEW S, NEW s \in Seq(S), NEW x \in S
  PROVE  /\ Len(s) \in Nat /\ Len(s) + 1 \in DOMAIN Append(s, x)
         /\ Append(s, x)[Len(s) + 1] = x
         /\ \A i \in DOMAIN s : i \in 1..Len(s) /\ i \in DOMAIN Append(s, x) /\ Append(s, x)[i] = s[i]
         /\ \A i \in DOMAIN Append(s, x) :
              \/ i \in DOMAIN s /\ i \in 1..Len(s) /\ Append(s, x)[i] = s[i]
              \/ i = Len(s) + 1 /\ Append(s, x)[i] = x
<1> DEFINE u == Append(s, x)
<1>1. Len(s) \in Nat /\ DOMAIN s = 1..Len(s)
  BY LenProperties
<1>2. /\ DOMAIN u = 1..(Len(s) + 1)
      /\ \A i \in 1..Len(s) : u[i] = s[i]
      /\ u[Len(s) + 1] = x
  BY <1>1, AppendProperties, LenProperties
<1> HIDE DEF u
<1>3. Len(s) + 1 \in DOMAIN u /\ \A i \in DOMAIN s : i \in 1..Len(s) /\ i \in DOMAIN u /\ u[i] = s[i]
  BY <1>1, <1>2
<1>4. \A i \in DOMAIN u : (i \in DOMAIN s /\ i \in 1..Len(s) /\ u[i] = s[i]) \/ (i = Len(s) + 1 /\ u[i] = x)
  BY <1>1, <1>2
<1> QED BY <1>1, <1>2, <1>3, <1>4 DEF u

\* And after its oldest is taken.
LEMMA TailIndex ==
  ASSUME NEW S, NEW s \in Seq(S), s # <<>>
  PROVE  /\ 1 \in DOMAIN s /\ Head(s) = s[1]
         /\ \A i \in DOMAIN Tail(s) :
              i \in Nat \ {0} /\ i + 1 \in DOMAIN s /\ Tail(s)[i] = s[i + 1]
         /\ \A i \in DOMAIN s :
              i \in Nat \ {0} /\ (i # 1 => i - 1 \in DOMAIN Tail(s) /\ Tail(s)[i - 1] = s[i])
<1> DEFINE v == Tail(s)
<1>1. Len(s) \in Nat \ {0} /\ DOMAIN s = 1..Len(s) /\ Head(s) = s[1]
  BY LenProperties, EmptySeq
<1>2. DOMAIN v = 1..(Len(s) - 1) /\ \A i \in 1..(Len(s) - 1) : v[i] = s[i + 1]
  BY <1>1, HeadTailProperties, LenProperties
<1> HIDE DEF v
<1>3. \A i \in DOMAIN v : i \in Nat \ {0} /\ i + 1 \in DOMAIN s /\ v[i] = s[i + 1]
  BY <1>1, <1>2
<1>4. \A i \in DOMAIN s : i \in Nat \ {0} /\ (i # 1 => i - 1 \in DOMAIN v /\ v[i - 1] = s[i])
  <2> SUFFICES ASSUME NEW i \in DOMAIN s
               PROVE  i \in Nat \ {0} /\ (i # 1 => i - 1 \in DOMAIN v /\ v[i - 1] = s[i])
    OBVIOUS
  <2>1. i \in 1..Len(s) /\ (i # 1 => i - 1 \in 1..(Len(s) - 1) /\ (i - 1) + 1 = i)
    BY <1>1
  <2> QED BY <1>2, <2>1
<1> QED BY <1>1, <1>3, <1>4 DEF v

\* And after only its oldest n are left.
LEMMA PrefixIndex ==
  ASSUME NEW S, NEW s \in Seq(S), NEW n \in 0..Len(s)
  PROVE  \A i \in DOMAIN SubSeq(s, 1, n) : i \in DOMAIN s /\ SubSeq(s, 1, n)[i] = s[i]
<1> DEFINE v == SubSeq(s, 1, n)
<1>1. Len(s) \in Nat /\ DOMAIN s = 1..Len(s) /\ \A i \in 1..Len(s) : s[i] \in S
  BY LenProperties, ElementOfSeq
<1>2. v \in Seq(S) /\ Len(v) = n /\ \A i \in 1..n : v[i] = s[i]
  BY <1>1, SubSeqProperties
<1> HIDE DEF v
<1>3. \A i \in DOMAIN v : i \in DOMAIN s /\ v[i] = s[i]
  BY <1>1, <1>2, LenProperties
<1> QED BY <1>3 DEF v

\* A line that is not empty is its oldest and the rest.
LEMMA HeadFirst ==
  ASSUME NEW S, NEW s \in Seq(S), s # <<>>
  PROVE  Head(s) \in S /\ Tail(s) \in Seq(S) /\ s = <<Head(s)>> \o Tail(s)
<1> DEFINE x == Head(s)
           v == Tail(s)
           t == <<x>>
           u == t \o v
<1>1. /\ Len(s) \in Nat \ {0} /\ DOMAIN s = 1..Len(s) /\ x = s[1]
      /\ x \in S /\ v \in Seq(S) /\ Len(v) = Len(s) - 1
      /\ \A i \in 1..(Len(s) - 1) : v[i] = s[i + 1]
  BY LenProperties, EmptySeq, HeadTailProperties
<1> HIDE DEF x, v
<1>2. t \in Seq(S) /\ Len(t) = 1 /\ t[1] = x
  BY <1>1
<1> HIDE DEF t
<1>3. /\ u \in Seq(S) /\ Len(u) = 1 + Len(v)
      /\ \A i \in 1..(1 + Len(v)) : u[i] = IF i <= 1 THEN t[i] ELSE v[i - 1]
  <2>1. /\ u \in Seq(S) /\ Len(u) = Len(t) + Len(v)
        /\ \A i \in 1..(Len(t) + Len(v)) : u[i] = IF i <= Len(t) THEN t[i] ELSE v[i - Len(t)]
    <3>1. t \in Seq(S) /\ v \in Seq(S)
      BY <1>1, <1>2
    <3> QED BY ONLY <3>1, ConcatProperties DEF u
  <2> QED BY <1>2, <2>1
<1> HIDE DEF u
<1>4. ASSUME NEW i \in 1..Len(s)
      PROVE  u[i] = s[i]
  <2>1. i \in 1..(1 + Len(v))
    BY <1>1
  <2>2. CASE i = 1
    BY <1>1, <1>2, <1>3, <2>1, <2>2
  <2>3. CASE i # 1
    <3>1. i - 1 \in 1..(Len(s) - 1) /\ (i - 1) + 1 = i /\ ~(i <= 1)
      BY <1>1, <2>3
    <3>2. v[i - 1] = s[i]
      BY <1>1, <3>1
    <3> QED BY <1>3, <2>1, <3>1, <3>2
  <2> QED BY <2>2, <2>3
<1>5. Len(u) = Len(s)
  BY <1>1, <1>3
<1>6. s = u
  BY <1>3, <1>4, <1>5, SeqEqual
<1> QED BY <1>1, <1>6 DEF u, t, x, v

\* And conversely.
LEMMA FirstHead ==
  ASSUME NEW S, NEW x \in S, NEW v \in Seq(S)
  PROVE  LET u == <<x>> \o v IN u \in Seq(S) /\ u # <<>> /\ Head(u) = x /\ Tail(u) = v
<1> DEFINE t == <<x>>
           u == t \o v
<1>1. t \in Seq(S) /\ Len(t) = 1 /\ t[1] = x /\ Len(v) \in Nat
  BY LenProperties
<1> HIDE DEF t
<1>2. /\ u \in Seq(S) /\ Len(u) = 1 + Len(v)
      /\ \A i \in 1..(1 + Len(v)) : u[i] = IF i <= 1 THEN t[i] ELSE v[i - 1]
  <2>1. /\ u \in Seq(S) /\ Len(u) = Len(t) + Len(v)
        /\ \A i \in 1..(Len(t) + Len(v)) : u[i] = IF i <= Len(t) THEN t[i] ELSE v[i - Len(t)]
    BY <1>1, ConcatProperties
  <2> QED BY <1>1, <2>1
<1> HIDE DEF u
<1>3. u # <<>> /\ Head(u) = x
  BY <1>1, <1>2, EmptySeq
<1>4. Tail(u) \in Seq(S) /\ Len(Tail(u)) = Len(v) /\ \A i \in 1..Len(v) : Tail(u)[i] = u[i + 1]
  BY <1>1, <1>2, <1>3, HeadTailProperties
<1>5. ASSUME NEW i \in 1..Len(v)
      PROVE  Tail(u)[i] = v[i]
  <2>1. i + 1 \in 1..(1 + Len(v)) /\ ~(i + 1 <= 1) /\ (i + 1) - 1 = i
    BY <1>1
  <2>2. u[i + 1] = v[(i + 1) - 1]
    BY <1>2, <2>1
  <2> QED BY <1>4, <2>1, <2>2
<1>6. Tail(u) = v
  BY <1>4, <1>5, SeqEqual
<1> QED BY <1>2, <1>3, <1>6 DEF u, t

=============================================================================
