--------------------------- MODULE RatesStackProofs ---------------------------
(***************************************************************************)
(* Every step of RatesStack keeps StackInv, one part after the other, for  *)
(* any calls and processes, any clocks and timeouts, and whatever Redis,   *)
(* the network and the upstream do.                                        *)
(*                                                                         *)
(* The parts lean on each other: that a read returns what some fetch got   *)
(* needs the replies, the replies need the key, the key needs the commands *)
(* on the lines, and that a line carries a command once needs the timers   *)
(* and the service's own invariant.                                        *)
(*                                                                         *)
(* From StackInv it follows that a call is answered in time and with fresh *)
(* rates, and that the wired subsystem implements the service, the         *)
(* in-memory repository and the provider's contract.                       *)
(***************************************************************************)
EXTENDS RatesStackInvariant, RatesServiceProofs, DataLemmas

-----------------------------------------------------------------------------
(* A process's line: what has been executed and what has not.              *)

\* A command is in a line where one of its elements is it.
LEMMA CommandsOfMember ==
  ASSUME NEW a, NEW w, NEW cmd
  PROVE  cmd \in CommandsOf(a, w) <=> \/ \E i \in DOMAIN a : a[i].cmd = cmd
                                     \/ \E i \in DOMAIN w : w[i] = cmd
BY DEF CommandsOf, ToSet

\* Sending appends a command the line did not have.
LEMMA LineSends ==
  ASSUME NEW a \in Seq(Settlements), NEW w \in Seq(Commands), NEW cmd \in Commands,
         NoRepeats(a, w), cmd \notin CommandsOf(a, w)
  PROVE  /\ NoRepeats(a, Append(w, cmd))
         /\ \A d \in CommandsOf(a, Append(w, cmd)) : d \in CommandsOf(a, w) \/ d = cmd
<1> DEFINE v == Append(w, cmd)
<1>1. Len(w) \in Nat /\ DOMAIN w = 1..Len(w)
  BY LenProperties
<1>2. /\ DOMAIN v = 1..(Len(w) + 1)
      /\ \A i \in 1..Len(w) : v[i] = w[i]
      /\ v[Len(w) + 1] = cmd
  BY <1>1, AppendProperties, LenProperties
<1> HIDE DEF v
<1>3. (\A i \in DOMAIN a : a[i].cmd # cmd) /\ (\A i \in DOMAIN w : w[i] # cmd)
  BY CommandsOfMember
<1>4. NoRepeats(a, v)
  <2>1. ASSUME NEW i \in DOMAIN v, NEW j \in DOMAIN v, v[i] = v[j]
        PROVE  i = j
    BY <1>1, <1>2, <1>3, <2>1 DEF NoRepeats
  <2>2. ASSUME NEW i \in DOMAIN a, NEW j \in DOMAIN v
        PROVE  a[i].cmd # v[j]
    BY <1>1, <1>2, <1>3 DEF NoRepeats
  <2> QED BY <2>1, <2>2 DEF NoRepeats
<1>5. ASSUME NEW d \in CommandsOf(a, v)
      PROVE  d \in CommandsOf(a, w) \/ d = cmd
  <2>1. (\E i \in DOMAIN a : a[i].cmd = d) \/ (\E i \in DOMAIN v : v[i] = d)
    BY CommandsOfMember
  <2>2. ASSUME NEW i \in DOMAIN v, v[i] = d
        PROVE  d = cmd \/ \E j \in DOMAIN w : w[j] = d
    BY <1>1, <1>2, <2>2
  <2> QED BY <2>1, <2>2, CommandsOfMember
<1> QED BY <1>4, <1>5 DEF v

\* Executing moves the oldest command over, with its reply.
LEMMA LineExecutes ==
  ASSUME NEW a \in Seq(Settlements), NEW w \in Seq(Commands), w # <<>>,
         NEW e \in Settlements, e.cmd = Head(w), NoRepeats(a, w)
  PROVE  /\ NoRepeats(Append(a, e), Tail(w))
         /\ \A d \in CommandsOf(Append(a, e), Tail(w)) : d \in CommandsOf(a, w)
<1> DEFINE b == Append(a, e)
           v == Tail(w)
<1>1. /\ Len(a) \in Nat /\ DOMAIN a = 1..Len(a)
      /\ Len(w) \in Nat \ {0} /\ DOMAIN w = 1..Len(w) /\ Head(w) = w[1]
  BY LenProperties, EmptySeq
<1>2. /\ DOMAIN b = 1..(Len(a) + 1)
      /\ \A i \in 1..Len(a) : b[i] = a[i]
      /\ b[Len(a) + 1] = e
  BY <1>1, AppendProperties, LenProperties
<1>3. /\ DOMAIN v = 1..(Len(w) - 1)
      /\ \A i \in 1..(Len(w) - 1) : v[i] = w[i + 1]
  BY <1>1, HeadTailProperties, LenProperties
<1> HIDE DEF b, v
<1>4. ASSUME NEW i \in DOMAIN b
      PROVE  b[i].cmd = IF i <= Len(a) THEN a[i].cmd ELSE w[1]
  BY <1>1, <1>2
<1>5. \A i \in DOMAIN v : i + 1 \in DOMAIN w /\ v[i] = w[i + 1]
  BY <1>1, <1>3
<1>6. NoRepeats(b, v)
  <2>1. ASSUME NEW i \in DOMAIN b, NEW j \in DOMAIN b, b[i].cmd = b[j].cmd
        PROVE  i = j
    BY <1>1, <1>2, <1>4, <2>1 DEF NoRepeats
  <2>2. ASSUME NEW i \in DOMAIN v, NEW j \in DOMAIN v, v[i] = v[j]
        PROVE  i = j
    <3>1. i \in Nat /\ j \in Nat /\ w[i + 1] = w[j + 1]
      BY <1>3, <1>5, <2>2
    <3>2. i + 1 = j + 1
      BY <1>5, <3>1 DEF NoRepeats
    <3> QED BY <3>1, <3>2
  <2>3. ASSUME NEW i \in DOMAIN b, NEW j \in DOMAIN v
        PROVE  b[i].cmd # v[j]
    <3>1. j + 1 \in DOMAIN w /\ j + 1 # 1 /\ 1 \in DOMAIN w /\ v[j] = w[j + 1]
      BY <1>1, <1>3, <1>5
    <3>2. b[i].cmd = w[1] \/ (i \in DOMAIN a /\ b[i].cmd = a[i].cmd)
      BY <1>1, <1>2, <1>4
    <3> QED BY <3>1, <3>2 DEF NoRepeats
  <2> QED BY <2>1, <2>2, <2>3 DEF NoRepeats
<1>7. ASSUME NEW d \in CommandsOf(b, v)
      PROVE  d \in CommandsOf(a, w)
  <2>1. (\E i \in DOMAIN b : b[i].cmd = d) \/ (\E i \in DOMAIN v : v[i] = d)
    BY CommandsOfMember
  <2>2. ASSUME NEW i \in DOMAIN b, b[i].cmd = d
        PROVE  (\E j \in DOMAIN a : a[j].cmd = d) \/ (\E j \in DOMAIN w : w[j] = d)
    BY <1>1, <1>2, <1>4, <2>2
  <2>3. ASSUME NEW i \in DOMAIN v, v[i] = d
        PROVE  \E j \in DOMAIN w : w[j] = d
    BY <1>1, <1>3, <2>3
  <2> QED BY <2>1, <2>2, <2>3, CommandsOfMember
<1> QED BY <1>6, <1>7 DEF b, v

\* The oldest command may also be executed for nobody.
LEMMA LineForgets ==
  ASSUME NEW a, NEW w \in Seq(Commands), w # <<>>, NoRepeats(a, w)
  PROVE  /\ NoRepeats(a, Tail(w))
         /\ \A d \in CommandsOf(a, Tail(w)) : d \in CommandsOf(a, w)
<1> DEFINE v == Tail(w)
<1>1. Len(w) \in Nat \ {0} /\ DOMAIN w = 1..Len(w)
  BY LenProperties, EmptySeq
<1>2. /\ DOMAIN v = 1..(Len(w) - 1)
      /\ \A i \in 1..(Len(w) - 1) : v[i] = w[i + 1]
  BY <1>1, HeadTailProperties, LenProperties
<1> HIDE DEF v
<1>3. \A i \in DOMAIN v : i \in Nat /\ i + 1 \in DOMAIN w /\ v[i] = w[i + 1]
  BY <1>1, <1>2
<1>4. NoRepeats(a, v)
  <2>1. ASSUME NEW i \in DOMAIN v, NEW j \in DOMAIN v, v[i] = v[j]
        PROVE  i = j
    <3>1. i + 1 = j + 1
      BY <1>3, <2>1 DEF NoRepeats
    <3> QED BY <1>3, <3>1
  <2> QED BY <1>3, <2>1 DEF NoRepeats
<1>5. ASSUME NEW d \in CommandsOf(a, v)
      PROVE  d \in CommandsOf(a, w)
  <2>1. (\E i \in DOMAIN a : a[i].cmd = d) \/ (\E i \in DOMAIN v : v[i] = d)
    BY CommandsOfMember
  <2>2. ASSUME NEW i \in DOMAIN v, v[i] = d
        PROVE  \E j \in DOMAIN w : w[j] = d
    BY <1>3, <2>2
  <2> QED BY <2>1, <2>2, CommandsOfMember
<1> QED BY <1>4, <1>5 DEF v

\* A chunk takes the oldest replies away.
LEMMA LineDelivers ==
  ASSUME NEW a \in Seq(Settlements), NEW w, NEW n \in 1..Len(a), NoRepeats(a, w)
  PROVE  /\ SubSeq(a, n + 1, Len(a)) \in Seq(Settlements)
         /\ NoRepeats(SubSeq(a, n + 1, Len(a)), w)
         /\ \A d \in CommandsOf(SubSeq(a, n + 1, Len(a)), w) : d \in CommandsOf(a, w)
         /\ ToSet(SubSeq(a, n + 1, Len(a))) \subseteq ToSet(a)
<1> DEFINE b == SubSeq(a, n + 1, Len(a))
<1>1. Len(a) \in Nat /\ n \in Nat /\ n <= Len(a)
  BY LenProperties
<1>2. Len(a) \in Nat /\ DOMAIN a = 1..Len(a) /\ \A i \in 1..Len(a) : a[i] \in Settlements
  BY LenProperties, ElementOfSeq
<1>3. /\ b \in Seq(Settlements) /\ Len(b) = Len(a) - n
      /\ \A i \in 1..(Len(a) - n) : b[i] = a[n + i]
  <2>1. \A i \in (n + 1)..Len(a) : a[i] \in Settlements
    BY <1>2
  <2>2. /\ b \in Seq(Settlements)
        /\ Len(b) = IF n + 1 <= Len(a) THEN Len(a) - (n + 1) + 1 ELSE 0
        /\ \A i \in 1..(Len(a) - (n + 1) + 1) : b[i] = a[(n + 1) + i - 1]
    BY <1>2, <2>1, SubSeqProperties
  <2> HIDE DEF b
  <2>3. Len(b) = Len(a) - n
    <3>1. CASE n + 1 <= Len(a)
      BY <1>2, <2>2, <3>1
    <3>2. CASE ~(n + 1 <= Len(a))
      BY <1>1, <2>2, <3>2
    <3> QED BY <3>1, <3>2
  <2>4. ASSUME NEW i \in 1..(Len(a) - n)
        PROVE  b[i] = a[n + i]
    <3>1. i \in 1..(Len(a) - (n + 1) + 1) /\ (n + 1) + i - 1 = n + i
      BY <1>2
    <3> QED BY <2>2, <3>1
  <2> QED BY <2>2, <2>3, <2>4
<1> HIDE DEF b
<1>4. ASSUME NEW i \in DOMAIN b
      PROVE  i \in Nat /\ n + i \in DOMAIN a /\ b[i] = a[n + i]
  <2>1. i \in 1..(Len(a) - n)
    BY <1>3, LenProperties
  <2> QED BY <1>2, <1>3, <2>1
<1>5. NoRepeats(b, w)
  <2>1. ASSUME NEW i \in DOMAIN b, NEW j \in DOMAIN b, b[i].cmd = b[j].cmd
        PROVE  i = j
    <3>1. n + i = n + j
      BY <1>4, <2>1 DEF NoRepeats
    <3> QED BY <1>4, <3>1
  <2> QED BY <1>4, <2>1 DEF NoRepeats
<1>6. ASSUME NEW d \in CommandsOf(b, w)
      PROVE  d \in CommandsOf(a, w)
  <2>1. (\E i \in DOMAIN b : b[i].cmd = d) \/ (\E i \in DOMAIN w : w[i] = d)
    BY CommandsOfMember
  <2>2. ASSUME NEW i \in DOMAIN b, b[i].cmd = d
        PROVE  \E j \in DOMAIN a : a[j].cmd = d
    BY <1>4, <2>2
  <2> QED BY <2>1, <2>2, CommandsOfMember
<1>7. ToSet(b) \subseteq ToSet(a)
  BY <1>4 DEF ToSet
<1> QED BY <1>3, <1>5, <1>6, <1>7 DEF b

\* A dead process's line ends anywhere.
LEMMA LineEnds ==
  ASSUME NEW a, NEW w \in Seq(Commands), NEW n \in 0..Len(w), NoRepeats(a, w)
  PROVE  /\ SubSeq(w, 1, n) \in Seq(Commands)
         /\ NoRepeats(<<>>, SubSeq(w, 1, n))
         /\ \A d \in CommandsOf(<<>>, SubSeq(w, 1, n)) : d \in CommandsOf(a, w)
<1> DEFINE v == SubSeq(w, 1, n)
<1>1. Len(w) \in Nat /\ DOMAIN w = 1..Len(w) /\ \A i \in 1..Len(w) : w[i] \in Commands
  BY LenProperties, ElementOfSeq
<1>2. v \in Seq(Commands) /\ Len(v) = n /\ \A i \in 1..n : v[i] = w[i]
  BY <1>1, SubSeqProperties
<1> HIDE DEF v
<1>3. \A i \in DOMAIN v : i \in DOMAIN w /\ v[i] = w[i]
  BY <1>1, <1>2, LenProperties
<1>4. DOMAIN <<>> = {}
  OBVIOUS
<1>5. NoRepeats(<<>>, v)
  BY <1>3, <1>4 DEF NoRepeats
<1>6. ASSUME NEW d \in CommandsOf(<<>>, v)
      PROVE  d \in CommandsOf(a, w)
  <2>1. \E i \in DOMAIN v : v[i] = d
    BY <1>4, CommandsOfMember
  <2> QED BY <1>3, <2>1, CommandsOfMember
<1> QED BY <1>2, <1>5, <1>6 DEF v

\* A dropped connection keeps the whole line to be sent again.
LEMMA LineResends ==
  ASSUME NEW a \in Seq(Settlements), NEW w \in Seq(Commands), NoRepeats(a, w)
  PROVE  LET r == [i \in DOMAIN a |-> a[i].cmd] \o w
         IN /\ r \in Seq(Commands)
            /\ NoRepeats(<<>>, r)
            /\ \A d \in CommandsOf(<<>>, r) : d \in CommandsOf(a, w)
<1> DEFINE b == [i \in DOMAIN a |-> a[i].cmd]
           r == b \o w
<1>1. /\ Len(a) \in Nat /\ DOMAIN a = 1..Len(a) /\ \A i \in 1..Len(a) : a[i] \in Settlements
      /\ Len(w) \in Nat /\ DOMAIN w = 1..Len(w)
  BY LenProperties, ElementOfSeq
<1>2. b \in Seq(Commands) /\ Len(b) = Len(a) /\ \A i \in 1..Len(a) : b[i] = a[i].cmd
  BY <1>1 DEF Settlements
<1> HIDE DEF b
<1>3. /\ r \in Seq(Commands)
      /\ Len(r) = Len(b) + Len(w)
      /\ \A i \in 1..(Len(b) + Len(w)) : r[i] = IF i <= Len(b) THEN b[i] ELSE w[i - Len(b)]
  BY <1>2, ConcatProperties
<1> HIDE DEF r
<1>4. ASSUME NEW i \in DOMAIN r
      PROVE  /\ i \in Nat
             /\ i <= Len(a) => i \in DOMAIN a /\ r[i] = a[i].cmd
             /\ ~(i <= Len(a)) => i - Len(a) \in DOMAIN w /\ r[i] = w[i - Len(a)]
  <2>1. i \in 1..(Len(b) + Len(w))
    BY <1>1, <1>2, <1>3, LenProperties
  <2> QED BY <1>1, <1>2, <1>3, <2>1
<1>5. NoRepeats(<<>>, r)
  <2>1. ASSUME NEW i \in DOMAIN r, NEW j \in DOMAIN r, r[i] = r[j]
        PROVE  i = j
    <3>1. CASE i <= Len(a) /\ j <= Len(a)
      BY <1>4, <2>1, <3>1 DEF NoRepeats
    <3>2. CASE i <= Len(a) /\ ~(j <= Len(a))
      BY <1>4, <2>1, <3>2 DEF NoRepeats
    <3>3. CASE ~(i <= Len(a)) /\ j <= Len(a)
      BY <1>4, <2>1, <3>3 DEF NoRepeats
    <3>4. CASE ~(i <= Len(a)) /\ ~(j <= Len(a))
      <4>1. i - Len(a) = j - Len(a)
        BY <1>4, <2>1, <3>4 DEF NoRepeats
      <4> QED BY <1>1, <1>4, <4>1
    <3> QED BY <3>1, <3>2, <3>3, <3>4
  <2>2. DOMAIN <<>> = {}
    OBVIOUS
  <2> QED BY <2>1, <2>2 DEF NoRepeats
<1>6. ASSUME NEW d \in CommandsOf(<<>>, r)
      PROVE  d \in CommandsOf(a, w)
  <2>1. \E i \in DOMAIN r : r[i] = d
    BY CommandsOfMember
  <2> QED BY <1>4, <2>1, CommandsOfMember
<1> QED BY <1>3, <1>5, <1>6 DEF r, b

-----------------------------------------------------------------------------
(* A turn of the event loop.                                               *)

\* A settlement that joins a turn.
LEMMA TurnGrows ==
  ASSUME NEW t \in Seq(Settlements), NEW e \in Settlements,
         NoRepeats(t, <<>>), e.cmd \notin CommandsOf(t, <<>>)
  PROVE  /\ Append(t, e) \in Seq(Settlements)
         /\ NoRepeats(Append(t, e), <<>>)
         /\ \A d \in CommandsOf(Append(t, e), <<>>) : d \in CommandsOf(t, <<>>) \/ d = e.cmd
<1> DEFINE u == Append(t, e)
<1>1. Len(t) \in Nat /\ DOMAIN t = 1..Len(t)
  BY LenProperties
<1>2. /\ u \in Seq(Settlements)
      /\ DOMAIN u = 1..(Len(t) + 1)
      /\ \A i \in 1..Len(t) : u[i] = t[i]
      /\ u[Len(t) + 1] = e
  BY <1>1, AppendProperties, LenProperties
<1> HIDE DEF u
<1>3. \A i \in DOMAIN u : (i \in DOMAIN t /\ u[i] = t[i]) \/ (i = Len(t) + 1 /\ u[i] = e)
  BY <1>1, <1>2
<1>4. \A i \in DOMAIN t : t[i].cmd # e.cmd
  BY CommandsOfMember
<1>5. DOMAIN <<>> = {}
  OBVIOUS
<1>6. NoRepeats(u, <<>>)
  BY <1>3, <1>4, <1>5 DEF NoRepeats
<1>7. ASSUME NEW d \in CommandsOf(u, <<>>)
      PROVE  d \in CommandsOf(t, <<>>) \/ d = e.cmd
  <2>1. \E i \in DOMAIN u : u[i].cmd = d
    BY <1>5, CommandsOfMember
  <2> QED BY <1>3, <2>1, CommandsOfMember
<1> QED BY <1>2, <1>6, <1>7 DEF u

\* A settlement that leaves it takes its command along.
LEMMA TurnResumes ==
  ASSUME NEW t \in Seq(Settlements), NEW i \in DOMAIN t, NoRepeats(t, <<>>)
  PROVE  /\ RemoveAt(t, i) \in Seq(Settlements)
         /\ NoRepeats(RemoveAt(t, i), <<>>)
         /\ \A d \in CommandsOf(RemoveAt(t, i), <<>>) : d \in CommandsOf(t, <<>>) /\ d # t[i].cmd
         /\ ToSet(RemoveAt(t, i)) \subseteq ToSet(t)
<1> DEFINE u == RemoveAt(t, i)
<1>1. Len(t) \in Nat /\ DOMAIN t = 1..Len(t)
  BY LenProperties
<1>2. /\ u \in Seq(Settlements)
      /\ Len(u) = Len(t) - 1
      /\ \A j \in 1..(Len(t) - 1) : u[j] = IF j < i THEN t[j] ELSE t[j + 1]
  BY RemoveAtProperties
<1> HIDE DEF u
<1>3. DOMAIN u = 1..(Len(t) - 1)
  BY <1>2, LenProperties
<1> DEFINE from(j) == IF j < i THEN j ELSE j + 1
<1>4. \A j \in DOMAIN u : j \in Nat /\ from(j) \in DOMAIN t /\ from(j) # i /\ u[j] = t[from(j)]
  BY <1>1, <1>2, <1>3
<1>5. \A j, k \in Nat : from(j) = from(k) => j = k
  BY <1>1
<1> HIDE DEF from
<1>6. DOMAIN <<>> = {}
  OBVIOUS
<1>7. NoRepeats(u, <<>>)
  BY <1>4, <1>5, <1>6 DEF NoRepeats
<1>8. ASSUME NEW d \in CommandsOf(u, <<>>)
      PROVE  d \in CommandsOf(t, <<>>) /\ d # t[i].cmd
  <2>1. \E j \in DOMAIN u : u[j].cmd = d
    BY <1>6, CommandsOfMember
  <2>2. \E j \in DOMAIN t : j # i /\ t[j].cmd = d
    BY <1>4, <2>1
  <2> QED BY <2>2, CommandsOfMember DEF NoRepeats
<1>9. ToSet(u) \subseteq ToSet(t)
  BY <1>4 DEF ToSet
<1> QED BY <1>2, <1>7, <1>8, <1>9 DEF u

\* A chunk brings, of the oldest replies, those that are awaited.
LEMMA TurnBegins ==
  ASSUME NEW p, answers[p] \in Seq(Settlements), NEW w, NoRepeats(answers[p], w),
         NEW n \in 1..Len(answers[p]), NEW settled \in AwaitedOf(p, n)
  PROVE  /\ settled \in Seq(Settlements)
         /\ NoRepeats(settled, <<>>)
         /\ \A d \in CommandsOf(settled, <<>>) : d \in CommandsOf(answers[p], w) /\ Awaited(d)
         /\ ToSet(settled) \subseteq ToSet(answers[p])
<1> DEFINE a == answers[p]
           kept == {i \in 1..n : Awaited(a[i].cmd)}
           K == Cardinality(kept)
<1>1. Len(a) \in Nat /\ DOMAIN a = 1..Len(a) /\ \A i \in 1..Len(a) : a[i] \in Settlements
  BY LenProperties, ElementOfSeq
<1>2. K \in Nat
  <2>1. IsFiniteSet(1..n)
    BY FS_Interval
  <2> QED BY <2>1, FS_Subset, FS_CardinalityType
<1>3. PICK pick \in [1..K -> kept] :
        /\ \A j, k \in 1..K : j < k => pick[j] < pick[k]
        /\ settled = [k \in 1..K |-> a[pick[k]]]
  BY DEF AwaitedOf
<1>4. \A i \in kept : i \in 1..Len(a) /\ Awaited(a[i].cmd)
  BY <1>1
<1> HIDE DEF a, kept, K
<1>5. \A k \in 1..K : pick[k] \in 1..Len(a) /\ Awaited(a[pick[k]].cmd)
  BY <1>3, <1>4
<1>6. settled \in Seq(Settlements)
  BY <1>1, <1>2, <1>3, <1>5
<1>7. DOMAIN settled = 1..K /\ \A k \in 1..K : settled[k] = a[pick[k]]
  BY <1>3
<1>8. \A j, k \in 1..K : pick[j] = pick[k] => j = k
  BY <1>1, <1>2, <1>3, <1>5
<1>9. DOMAIN <<>> = {}
  OBVIOUS
<1>10. NoRepeats(settled, <<>>)
  BY <1>1, <1>5, <1>7, <1>8, <1>9 DEF NoRepeats, a
<1>11. ASSUME NEW d \in CommandsOf(settled, <<>>)
       PROVE  d \in CommandsOf(a, w) /\ Awaited(d)
  <2>1. \E k \in DOMAIN settled : settled[k].cmd = d
    BY <1>9, CommandsOfMember
  <2> QED BY <1>1, <1>5, <1>7, <2>1, CommandsOfMember
<1>12. ToSet(settled) \subseteq ToSet(a)
  BY <1>1, <1>5, <1>7 DEF ToSet
<1> QED BY <1>6, <1>10, <1>11, <1>12 DEF a

-----------------------------------------------------------------------------
(* Which comes first                                                       *)

\* The commands of settlements, in their order.
LEMMA CommandsInType ==
  ASSUME NEW a \in Seq(Settlements)
  PROVE  /\ CommandsIn(a) \in Seq(Commands) /\ Len(CommandsIn(a)) = Len(a)
         /\ Len(a) \in Nat /\ \A i \in 1..Len(a) : CommandsIn(a)[i] = a[i].cmd
<1>1. Len(a) \in Nat /\ DOMAIN a = 1..Len(a) /\ \A i \in 1..Len(a) : a[i] \in Settlements
  BY LenProperties, ElementOfSeq
<1> QED BY <1>1 DEF CommandsIn, Settlements

LEMMA CommandsInSteps ==
  ASSUME NEW e \in Settlements
  PROVE  /\ CommandsIn(<<>>) = <<>> /\ CommandsIn(<<e>>) = <<e.cmd>> /\ e.cmd \in Commands
         /\ \A a \in Seq(Settlements) : CommandsIn(Append(a, e)) = CommandsIn(a) \o <<e.cmd>>
<1>1. e.cmd \in Commands
  BY DEF Settlements
<1>2. CommandsIn(<<>>) = <<>> /\ CommandsIn(<<e>>) = <<e.cmd>>
  BY DEF CommandsIn
<1>3. ASSUME NEW a \in Seq(Settlements)
      PROVE  CommandsIn(Append(a, e)) = CommandsIn(a) \o <<e.cmd>>
  <2> DEFINE b == Append(a, e)
             u == Append(CommandsIn(a), e.cmd)
  <2>1. /\ b \in Seq(Settlements) /\ Len(b) = Len(a) + 1
        /\ \A i \in 1..Len(a) : b[i] = a[i]
        /\ b[Len(a) + 1] = e
    BY AppendProperties
  <2>2. /\ CommandsIn(a) \in Seq(Commands) /\ Len(CommandsIn(a)) = Len(a) /\ Len(a) \in Nat
        /\ \A i \in 1..Len(a) : CommandsIn(a)[i] = a[i].cmd
    BY CommandsInType
  <2>3. /\ u \in Seq(Commands) /\ Len(u) = Len(a) + 1
        /\ \A i \in 1..Len(a) : u[i] = CommandsIn(a)[i]
        /\ u[Len(a) + 1] = e.cmd
    BY <1>1, <2>2, AppendProperties
  <2> HIDE DEF b, u
  <2>4. /\ CommandsIn(b) \in Seq(Commands) /\ Len(CommandsIn(b)) = Len(a) + 1
        /\ \A i \in 1..(Len(a) + 1) : CommandsIn(b)[i] = b[i].cmd
    BY <2>1, CommandsInType
  <2>5. ASSUME NEW i \in 1..(Len(a) + 1)
        PROVE  CommandsIn(b)[i] = u[i]
    <3>1. CASE i = Len(a) + 1
      BY <2>1, <2>3, <2>4, <3>1
    <3>2. CASE i # Len(a) + 1
      <4>1. i \in 1..Len(a)
        BY <2>2, <3>2
      <4> QED BY <2>1, <2>2, <2>3, <2>4, <4>1
    <3> QED BY <3>1, <3>2
  <2>6. CommandsIn(b) = u
    BY <2>3, <2>4, <2>5, SeqEqual
  <2>7. u = CommandsIn(a) \o <<e.cmd>>
    BY <1>1, <2>2, AppendIsConcat DEF u
  <2> QED BY <2>6, <2>7 DEF b
<1> QED BY <1>1, <1>2, <1>3

\* The oldest settlement is the oldest command.
LEMMA CommandsInTail ==
  ASSUME NEW a \in Seq(Settlements), a # <<>>
  PROVE  CommandsIn(a) = <<Head(a).cmd>> \o CommandsIn(Tail(a))
<1> DEFINE x == Head(a)
           v == Tail(a)
           u == <<x.cmd>> \o CommandsIn(v)
<1>1. /\ Len(a) \in Nat \ {0} /\ x = a[1]
      /\ x \in Settlements /\ v \in Seq(Settlements) /\ Len(v) = Len(a) - 1
      /\ \A i \in 1..(Len(a) - 1) : v[i] = a[i + 1]
  BY LenProperties, EmptySeq, HeadTailProperties
<1> HIDE DEF x, v
<1>2. x.cmd \in Commands /\ <<x.cmd>> \in Seq(Commands) /\ Len(<<x.cmd>>) = 1 /\ <<x.cmd>>[1] = x.cmd
  BY <1>1 DEF Settlements
<1>3. /\ CommandsIn(v) \in Seq(Commands) /\ Len(CommandsIn(v)) = Len(a) - 1
      /\ \A i \in 1..(Len(a) - 1) : CommandsIn(v)[i] = v[i].cmd
  BY <1>1, CommandsInType
<1>4. /\ CommandsIn(a) \in Seq(Commands) /\ Len(CommandsIn(a)) = Len(a)
      /\ \A i \in 1..Len(a) : CommandsIn(a)[i] = a[i].cmd
  BY CommandsInType
<1>5. /\ u \in Seq(Commands) /\ Len(u) = 1 + (Len(a) - 1)
      /\ \A i \in 1..(1 + (Len(a) - 1)) : u[i] = IF i <= 1 THEN <<x.cmd>>[i] ELSE CommandsIn(v)[i - 1]
  BY <1>2, <1>3, ConcatProperties
<1> HIDE DEF u
<1>6. ASSUME NEW i \in 1..Len(a)
      PROVE  CommandsIn(a)[i] = u[i]
  <2>1. i \in 1..(1 + (Len(a) - 1))
    BY <1>1
  <2>2. CASE i = 1
    BY <1>1, <1>2, <1>4, <1>5, <2>1, <2>2
  <2>3. CASE i # 1
    <3>1. i - 1 \in 1..(Len(a) - 1) /\ (i - 1) + 1 = i /\ ~(i <= 1)
      BY <1>1, <2>3
    <3>2. v[i - 1] = a[i] /\ CommandsIn(v)[i - 1] = v[i - 1].cmd
      BY <1>1, <1>3, <3>1
    <3> QED BY <1>4, <1>5, <2>1, <3>1, <3>2
  <2> QED BY <2>2, <2>3
<1>7. Len(u) = Len(a)
  BY <1>1, <1>5
<1>8. CommandsIn(a) = u
  BY <1>4, <1>5, <1>6, <1>7, SeqEqual
<1> QED BY <1>8 DEF u, x, v

\* What is in a line stays there, and what precedes goes on to, when another is appended
\* or the oldest is taken.
LEMMA PrecedesKept ==
  ASSUME NEW S, NEW s \in Seq(S), NEW g \in ToSet(s)
  PROVE  /\ \A x \in S \ {g} :
              /\ g \in ToSet(Append(s, x))
              /\ \A b : (b = x /\ b \notin ToSet(s)) \/ Precedes(s, g, b) => Precedes(Append(s, x), g, b)
         /\ s # <<>> /\ Head(s) # g =>
              g \in ToSet(Tail(s)) /\ \A b : Precedes(s, g, b) => Precedes(Tail(s), g, b)
<1>1. PICK k \in DOMAIN s : s[k] = g
  BY DEF ToSet
<1>2. ASSUME NEW x \in S \ {g}
      PROVE  /\ g \in ToSet(Append(s, x))
             /\ \A b : (b = x /\ b \notin ToSet(s)) \/ Precedes(s, g, b) => Precedes(Append(s, x), g, b)
  <2> DEFINE u == Append(s, x)
  <2>1. /\ \A i \in DOMAIN s : i \in 1..Len(s) /\ i \in DOMAIN u /\ u[i] = s[i]
        /\ \A i \in DOMAIN u : (i \in DOMAIN s /\ i \in 1..Len(s) /\ u[i] = s[i])
                               \/ (i = Len(s) + 1 /\ u[i] = x)
        /\ Len(s) \in Nat
    BY AppendIndex
  <2> HIDE DEF u
  <2>2. g \in ToSet(u)
    BY <1>1, <2>1 DEF ToSet
  <2>3. ASSUME NEW b, (b = x /\ b \notin ToSet(s)) \/ Precedes(s, g, b),
               NEW i \in DOMAIN u, NEW j \in DOMAIN u, u[i] = g, u[j] = b
        PROVE  i < j
    <3>1. i \in DOMAIN s /\ i \in 1..Len(s) /\ s[i] = g
      BY <2>1, <2>3
    <3>2. CASE j \in DOMAIN s /\ s[j] = b
      BY <2>3, <3>1, <3>2 DEF Precedes, ToSet
    <3>3. CASE j = Len(s) + 1
      BY <2>1, <3>1, <3>3
    <3> QED BY <2>1, <2>3, <3>2, <3>3
  <2> QED BY <2>2, <2>3 DEF Precedes, u
<1>3. ASSUME s # <<>>, Head(s) # g
      PROVE  g \in ToSet(Tail(s)) /\ \A b : Precedes(s, g, b) => Precedes(Tail(s), g, b)
  <2> DEFINE v == Tail(s)
  <2>1. /\ Head(s) = s[1]
        /\ \A i \in DOMAIN v : i \in Nat \ {0} /\ i + 1 \in DOMAIN s /\ v[i] = s[i + 1]
        /\ \A i \in DOMAIN s :
             i \in Nat \ {0} /\ (i # 1 => i - 1 \in DOMAIN v /\ v[i - 1] = s[i])
    BY <1>3, TailIndex
  <2> HIDE DEF v
  <2>2. k - 1 \in DOMAIN v /\ v[k - 1] = g
    BY <1>1, <1>3, <2>1
  <2>3. ASSUME NEW b, Precedes(s, g, b), NEW i \in DOMAIN v, NEW j \in DOMAIN v, v[i] = g, v[j] = b
        PROVE  i < j
    <3>1. i + 1 < j + 1
      BY <2>1, <2>3 DEF Precedes
    <3> QED BY <2>1, <3>1
  <2> QED BY <2>2, <2>3 DEF Precedes, ToSet, v
<1> QED BY <1>2, <1>3

-----------------------------------------------------------------------------
(* One step at a time                                                      *)

USE CallsAssumption, NoneAssumption, TimeAssumption, SkewAssumption,
    TimeoutAssumption, RedisAssumption, UpstreamAssumption

\* One timer is armed or disarmed, and the others stay.
LEMMA OneTimer ==
  ASSUME RepoTypeOK, NEW op \in Ops, NEW c \in Calls, NEW timer,
         deadline' = [deadline EXCEPT ![op][c] = timer]
  PROVE  \A o \in Ops, d \in Calls :
           deadline'[o][d] = IF o = op /\ d = c THEN timer ELSE deadline[o][d]
<1> SUFFICES ASSUME NEW o \in Ops, NEW d \in Calls
             PROVE  deadline'[o][d] = IF o = op /\ d = c THEN timer ELSE deadline[o][d]
  OBVIOUS
<1>1. deadline[op] \in [Calls -> Nat \cup {None}] /\ op \in DOMAIN deadline
  BY DEF RepoTypeOK
<1>2. CASE o # op
  BY <1>1, <1>2 DEF RepoTypeOK
<1>3. CASE o = op
  BY <1>1, <1>3
<1> QED BY <1>2, <1>3

\* The race of a command ends only while it is open; its settlement, if it has one,
\* leaves the turn.
LEMMA RaceEffect ==
  ASSUME StackInv, NEW op \in Ops, NEW c \in Calls, NEW reply, RaceEnds(op, c, reply)
  PROVE  /\ deadline[op][c] # None
         /\ deadline' = [deadline EXCEPT ![op][c] = None]
         /\ \/ \E i \in DOMAIN turn[ProcOf[c]] :
                 /\ turn[ProcOf[c]][i].cmd.op = op
                 /\ turn[ProcOf[c]][i].cmd.call = c
                 /\ turn[ProcOf[c]][i].reply = reply
                 /\ turn' = [turn EXCEPT ![ProcOf[c]] = RemoveAt(@, i)]
            \/ reply = Rejection /\ turn[ProcOf[c]] = <<>> /\ turn' = turn /\ deadline[op][c] = now
<1>1. ASSUME NEW i \in DOMAIN turn[ProcOf[c]],
             turn[ProcOf[c]][i].cmd.op = op, turn[ProcOf[c]][i].cmd.call = c
      PROVE  deadline[op][c] # None
  <2>1. turn[ProcOf[c]][i].cmd \in CommandsOf(turn[ProcOf[c]], <<>>)
    BY CommandsOfMember
  <2>2. ProcOf[c] \in Procs
    OBVIOUS
  <2>3. Awaited(turn[ProcOf[c]][i].cmd)
    BY <2>1, <2>2 DEF StackInv, TurnsOK, TurnOK
  <2> QED BY <1>1, <2>3 DEF Awaited
<1>2. now # None
  BY DEF StackInv, ServiceInv, ServiceTypeOK, WorldTypeOK
<1> QED BY <1>1, <1>2 DEF RaceEnds, AtRest

\* What read() returns is a read the service was specified against.
LEMMA ReadIsPossible ==
  ASSUME StackInv, NEW c \in Calls, NEW read, ReadReturns(c, read)
  PROVE  read \in PossibleReads
<1>1. ASSUME NEW reply, RaceEnds("get", c, reply), ~IsCorrupt(reply), read = ReadOf(reply)
      PROVE  read \in PossibleReads
  <2>1. ASSUME NEW i \in DOMAIN turn[ProcOf[c]], turn[ProcOf[c]][i].cmd.op = "get",
               turn[ProcOf[c]][i].reply = reply
        PROVE  \/ reply.kind = "snapshot" /\ Known(reply.snapshot)
               \/ reply.kind \in (Kinds \ {"snapshot"}) \cup {"error"} /\ reply.snapshot = None
    <3>1. turn[ProcOf[c]][i] \in ToSet(turn[ProcOf[c]])
      BY DEF ToSet
    <3>2. ReplyOK(turn[ProcOf[c]][i])
      BY <3>1 DEF StackInv, RepliesOK
    <3> QED BY <2>1, <3>2 DEF ReplyOK
  <2>2. \/ reply.kind = "snapshot" /\ Known(reply.snapshot)
        \/ reply.kind \in (Kinds \ {"snapshot"}) \cup {"error"} /\ reply.snapshot = None
    BY <1>1, <2>1, RaceEffect DEF Ops, Rejection, Reply
  <2>3. CASE reply.kind = "snapshot" /\ Known(reply.snapshot)
    <3>1. PICK f \in Calls : fetched[f] = reply.snapshot /\ fetched[f] # None
      BY <2>3 DEF Known, Snapshots
    <3> QED BY <1>1, <2>3, <3>1 DEF ReadOf, PossibleReads, Hit
  <2>4. CASE reply.kind \in {"absent", "error"} /\ reply.snapshot = None
    BY <1>1, <2>4 DEF ReadOf, PossibleReads, Failing
  <2> QED BY <1>1, <2>2, <2>3, <2>4 DEF IsCorrupt, Kinds
<1>2. ASSUME read = Failing("corrupt")
      PROVE  read \in PossibleReads
  BY <1>2 DEF PossibleReads
<1> QED BY <1>1, <1>2 DEF ReadReturns, GetReturns, DiscardReturns

\* Every step of the stack is one of the service with any repository and any provider.
LEMMA ServiceSteps == StackInv /\ [Next]_vars => [ServiceNext]_svcVars
<1> SUFFICES ASSUME StackInv, [Next]_vars
             PROVE  [ServiceNext]_svcVars
  OBVIOUS
<1>1. ASSUME NEW c \in Calls, Request(c)
      PROVE  ServiceNext
  BY <1>1 DEF Request, ServiceNext
<1>2. ASSUME NEW c \in Calls, ReadDone(c)
      PROVE  ServiceNext
  BY <1>2, ReadIsPossible DEF ReadDone, ServiceNext
<1>3. ASSUME NEW c \in Calls, Discard(c)
      PROVE  UNCHANGED svcVars
  BY <1>3 DEF Discard, svcVars
<1>4. ASSUME NEW f \in Calls, UpstreamAnswers(f)
      PROVE  ServiceNext
  BY <1>4 DEF UpstreamAnswers, ServiceNext
<1>5. ASSUME NEW f \in Calls, UpstreamFails(f)
      PROVE  ServiceNext
  BY <1>5 DEF UpstreamFails, ServiceNext
<1>6. ASSUME NEW f \in Calls, WriteDone(f)
      PROVE  ServiceNext
  BY <1>6 DEF WriteDone, ServiceNext
<1>7. ASSUME RedisSteps
      PROVE  UNCHANGED svcVars
  BY <1>7 DEF RedisSteps, svcVars
<1>8. ASSUME NEW p \in Procs, Dies(p)
      PROVE  ServiceNext
  BY <1>8 DEF Dies, ServiceNext
<1>9. ASSUME Tick
      PROVE  ServiceNext
  BY <1>9 DEF Tick, ServiceNext
<1>10. ASSUME UNCHANGED vars
       PROVE  UNCHANGED svcVars
  BY <1>10 DEF vars, svcVars
<1> QED
  BY <1>1, <1>2, <1>3, <1>4, <1>5, <1>6, <1>7, <1>8, <1>9, <1>10 DEF Next, TimeIsUp

\* So RatesService keeps its own invariant.
LEMMA ServiceInvKept == StackInv /\ [Next]_vars => ServiceInv'
BY ServiceSteps, ServiceInvStep DEF StackInv

\* A call that has begun has begun, and what a fetch got it keeps.
LEMMA ServiceKeeps ==
  ASSUME ServiceInv, [ServiceNext]_svcVars, NEW c \in Calls
  PROVE  /\ pc[c] # "idle" => pc'[c] # "idle"
         /\ fetched[c] # None => fetched'[c] = fetched[c]
<1> USE DEF ServiceInv, ServiceTypeOK
<1>1. ASSUME NEW d \in Calls, GetRates(d)
      PROVE  /\ pc[c] # "idle" => pc'[c] # "idle"
             /\ fetched' = fetched
  BY <1>1 DEF GetRates
<1>2. ASSUME NEW d \in Calls, NEW read, ReadSettles(d, read)
      PROVE  /\ pc[c] # "idle" => pc'[c] # "idle"
             /\ fetched' = fetched
  BY <1>2 DEF ReadSettles, ServeCached, Miss
<1>3. ASSUME NEW f \in Calls, ProviderResolves(f)
      PROVE  /\ pc' = pc
             /\ fetched[c] # None => fetched'[c] = fetched[c]
  BY <1>3 DEF ProviderResolves, NothingEarly
<1>4. ASSUME NEW f \in Calls, NEW outcome, NEW calls \in {"live", "failed"},
             FetchSettles(f, outcome, calls)
      PROVE  /\ pc[c] # "idle" => pc'[c] # "idle"
             /\ fetched' = fetched
  BY <1>4 DEF FetchSettles
<1>5. ASSUME NEW p \in Procs, ServiceDies(p)
      PROVE  /\ pc[c] # "idle" => pc'[c] # "idle"
             /\ fetched' = fetched
  BY <1>5 DEF ServiceDies
<1>6. ASSUME UNCHANGED serviceVars
      PROVE  pc' = pc /\ fetched' = fetched
  BY <1>6 DEF serviceVars
<1> QED
  BY <1>1, <1>2, <1>3, <1>4, <1>5, <1>6
     DEF ServiceNext, svcVars, ProviderRejects, WriteSettles

\* A GET is sent once: only a call that begins arms its race.
LEMMA GetSentOnce ==
  ASSUME StackInv, [Next]_vars, NEW c \in Calls, pc[c] # "idle", deadline["get"][c] = None
  PROVE  deadline'["get"][c] = None
<1> USE DEF StackInv, StackTypeOK, RepoTypeOK, Ops
<1>1. ASSUME NEW d \in Calls, Request(d)
      PROVE  deadline'["get"][c] = None
  BY <1>1 DEF Request, GetRates, SendGet, Send, SendWithin, Command
<1>2. ASSUME NEW d \in Calls, ReadDone(d)
      PROVE  deadline'["get"][c] = None
  <2>1. \E op \in {"get", "del"} : deadline' = [deadline EXCEPT ![op][d] = None]
    BY <1>2 DEF ReadDone, ReadReturns, GetReturns, DiscardReturns, RaceEnds
  <2> QED BY <2>1
<1>3. ASSUME NEW d \in Calls, Discard(d)
      PROVE  deadline'["get"][c] = None
  BY <1>3 DEF Discard, DiscardBegins
<1>4. ASSUME NEW f \in Calls, UpstreamAnswers(f)
      PROVE  deadline'["get"][c] = None
  BY <1>4 DEF UpstreamAnswers, SendSet, Send, SendWithin, SetCommand
<1>5. ASSUME NEW f \in Calls, WriteDone(f)
      PROVE  deadline'["get"][c] = None
  BY <1>5 DEF WriteDone, WriteReturns, RaceEnds
<1>6. ASSUME NEW p \in Procs, Dies(p)
      PROVE  deadline'["get"][c] = None
  BY <1>6 DEF Dies, RepoDies
<1>7. ASSUME RedisSteps
      PROVE  deadline'["get"][c] = None
  BY <1>7 DEF RedisSteps, RedisExecutes, ChunkArrives, LinkDrops, LinkReconnects,
              QueueFlushed, RedisRestarts
<1> QED
  BY <1>1, <1>2, <1>3, <1>4, <1>5, <1>6, <1>7
     DEF Next, UpstreamFails, Tick, TimeIsUp, vars, repoVars

\* So a command that was sent stays one that was, and a snapshot that is known stays known.
LEMMA SentKept == StackInv /\ [Next]_vars => \A cmd : Sent(cmd) => Sent(cmd)'
<1> SUFFICES ASSUME StackInv, [Next]_vars, NEW cmd, Sent(cmd)
             PROVE  Sent(cmd)'
  OBVIOUS
<1> DEFINE c == cmd.call
<1>1. c \in Calls /\ pc[c] # "idle"
  BY DEF Sent
<1>2. pc'[c] # "idle" /\ (fetched[c] # None => fetched'[c] = fetched[c])
  BY <1>1, ServiceSteps, ServiceKeeps DEF StackInv
<1>3. CASE cmd = Command("get", c)
  BY <1>1, <1>2, <1>3 DEF Sent, Command
<1>4. CASE cmd = Command("del", c) /\ deadline["get"][c] = None
  BY <1>1, <1>2, <1>4, GetSentOnce DEF Sent, Command
<1>5. CASE cmd = SetCommand(c, fetched[c]) /\ fetched[c] \in Snapshots
  BY <1>1, <1>2, <1>5 DEF Sent, SetCommand
<1> QED BY <1>3, <1>4, <1>5 DEF Sent

\* What a fetch got stays what it got.
LEMMA KnownKept == StackInv /\ [Next]_vars => \A s : Known(s) => Known(s)'
<1> SUFFICES ASSUME StackInv, [Next]_vars, NEW s, Known(s)
             PROVE  Known(s)'
  OBVIOUS
<1>1. s.by \in Calls /\ fetched[s.by] # None
  BY DEF Known, Snapshots
<1> QED BY <1>1, ServiceSteps, ServiceKeeps DEF StackInv, Known

\* So a reply stays one that carries what was fetched.
LEMMA ReplyKept == StackInv /\ [Next]_vars => \A e : ReplyOK(e) => ReplyOK(e)'
BY KnownKept DEF ReplyOK

-----------------------------------------------------------------------------
(* The lines and the turns                                                 *)

\* One command of a kind per call.
LEMMA SentOnce ==
  ASSUME NEW d, NEW e, Sent(d), Sent(e), d.op = e.op, d.call = e.call
  PROVE  d = e
BY DEF Sent, Command, SetCommand

\* What was sent is a command.
LEMMA SentType ==
  ASSUME StackInv, NEW cmd, Sent(cmd)
  PROVE  cmd \in Commands
BY DEF StackInv, ServiceInv, ServiceTypeOK, Sent, Command, SetCommand, Commands, Ops

\* What Redis answers is typed like what it holds.
LEMMA ReplyType ==
  ASSUME RepoTypeOK, NEW cmd
  PROVE  Found \in Values /\ ReplyTo(cmd) \in Replies /\ Rejection \in Replies
<1>1. Found \in Values
  BY DEF RepoTypeOK, Found, Nothing, Holding, Values, Kinds
<1>2. Found.kind \in Kinds /\ Found.snapshot \in Snapshots \cup {None}
  BY <1>1 DEF Values, Kinds
<1> QED BY <1>1, <1>2 DEF ReplyTo, Reply, Rejection, Replies

\* It is of one of the three kinds, and of some call.
LEMMA SentRange ==
  ASSUME NEW cmd, Sent(cmd)
  PROVE  cmd.op \in Ops /\ cmd.call \in Calls
BY DEF Sent, Command, SetCommand, Ops

\* A line that does not change stays in order: what was sent has been sent.
LEMMA LineStays ==
  ASSUME StackInv, [Next]_vars, NEW p \in Procs,
         answers'[p] = answers[p], wire'[p] = wire[p]
  PROVE  LineOK(p)'
<1>1. LineOK(p)
  BY DEF StackInv, LinesOK
<1> QED BY <1>1, SentKept DEF LineOK

\* A line of commands that were there before.
LEMMA LineShrinks ==
  ASSUME StackInv, [Next]_vars, NEW p \in Procs,
         \A d \in CommandsOf(answers'[p], wire'[p]) : d \in CommandsOf(answers[p], wire[p]),
         NoRepeats(answers'[p], wire'[p])
  PROVE  LineOK(p)'
<1>1. LineOK(p)
  BY DEF StackInv, LinesOK
<1> QED BY <1>1, SentKept DEF LineOK

\* A line gets a command which had not been sent.
LEMMA LineGrows ==
  ASSUME StackInv, [Next]_vars, NEW p \in Procs, NEW cmd \in Commands,
         ProcOf[cmd.call] = p, ~Sent(cmd), Sent(cmd)',
         answers'[p] = answers[p], wire'[p] = Append(wire[p], cmd)
  PROVE  LineOK(p)'
<1>1. LineOK(p)
  BY DEF StackInv, LinesOK
<1>2. answers[p] \in Seq(Settlements) /\ wire[p] \in Seq(Commands)
  BY DEF StackInv, StackTypeOK, RepoTypeOK
<1>3. cmd \notin CommandsOf(answers[p], wire[p]) /\ NoRepeats(answers[p], wire[p])
  BY <1>1 DEF LineOK
<1>4. /\ NoRepeats(answers[p], Append(wire[p], cmd))
      /\ \A d \in CommandsOf(answers[p], Append(wire[p], cmd)) :
           d \in CommandsOf(answers[p], wire[p]) \/ d = cmd
  BY <1>2, <1>3, LineSends
<1> QED BY <1>1, <1>4, SentKept DEF LineOK

\* Whatever the step, each process's line is one of these.
LEMMA LinesKept == StackInv /\ [Next]_vars => LinesOK'
<1> SUFFICES ASSUME StackInv, [Next]_vars, NEW q \in Procs
             PROVE  LineOK(q)'
  BY DEF LinesOK
<1> USE DEF StackInv, StackTypeOK, RepoTypeOK
<1>1. /\ answers[q] \in Seq(Settlements) /\ wire[q] \in Seq(Commands)
      /\ NoRepeats(answers[q], wire[q])
  BY DEF LinesOK, LineOK
<1>2. ASSUME NEW c \in Calls, Request(c)
      PROVE  LineOK(q)'
  <2> DEFINE cmd == Command("get", c)
  <2>1. cmd \in Commands /\ cmd.call = c /\ cmd.op = "get"
    BY DEF Command, Commands, Ops
  <2>2. ~Sent(cmd)
    BY <1>2, <2>1 DEF Request, GetRates, Sent
  <2>3. Sent(cmd)'
    BY <1>2, <2>1 DEF Request, GetRates, Sent, ServiceInv, ServiceTypeOK
  <2> HIDE DEF cmd
  <2>4. answers' = answers /\ (wire' = wire \/ wire' = [wire EXCEPT ![ProcOf[c]] = Append(@, cmd)])
    BY <1>2, <2>1 DEF Request, SendGet, Send, SendWithin, cmd
  <2> QED BY <2>1, <2>2, <2>3, <2>4, LineStays, LineGrows, SMTT(30)
<1>3. ASSUME NEW c \in Calls, Discard(c)
      PROVE  LineOK(q)'
  <2> DEFINE cmd == Command("del", c)
  <2>1. cmd \in Commands /\ cmd.call = c /\ cmd.op = "del"
    BY DEF Command, Commands, Ops
  <2>2. PICK i \in DOMAIN turn[ProcOf[c]] : turn[ProcOf[c]][i].cmd = Command("get", c)
    BY <1>3 DEF Discard, DiscardBegins
  <2>3. deadline["get"][c] # None /\ pc[c] # "idle"
    <3>1. Command("get", c) \in CommandsOf(turn[ProcOf[c]], <<>>)
      BY <2>2, CommandsOfMember
    <3>2. Sent(Command("get", c)) /\ Awaited(Command("get", c))
      BY <3>1 DEF TurnsOK, TurnOK
    <3> QED BY <3>2 DEF Sent, Awaited, Command
  <2>4. ~Sent(cmd)
    BY <2>3 DEF Sent, Command, SetCommand
  <2>5. Sent(cmd)'
    BY <1>3, <2>1, <2>3 DEF Discard, DiscardBegins, Sent, serviceVars, Ops
  <2> HIDE DEF cmd
  <2>6. answers' = answers /\ (wire' = wire \/ wire' = [wire EXCEPT ![ProcOf[c]] = Append(@, cmd)])
    BY <1>3, <2>1 DEF Discard, DiscardBegins, cmd
  <2> QED BY <2>1, <2>4, <2>5, <2>6, LineStays, LineGrows, ZenonT(30)
<1>4. ASSUME NEW f \in Calls, UpstreamAnswers(f)
      PROVE  LineOK(q)'
  <2>1. Stamped(f) \in Snapshots
    BY StampedType DEF ServiceInv, ServiceTypeOK
  <2>2. PICK cmd : cmd = SetCommand(f, Stamped(f))
    OBVIOUS
  <2>3. cmd \in Commands /\ cmd.call = f /\ cmd.op = "set"
    BY <2>1, <2>2 DEF SetCommand, Commands, Ops
  <2>4. fetched[f] = None /\ fetched'[f] = Stamped(f) /\ fetch[f] = "upstream"
    BY <1>4 DEF UpstreamAnswers, ProviderResolves, ServiceInv, ServiceTypeOK, NothingEarly
  <2>5. pc'[f] # "idle"
    BY <1>4, <2>4 DEF UpstreamAnswers, ProviderResolves, ServiceInv, NothingEarly
  <2>6. ~Sent(cmd)
    BY <2>1, <2>2, <2>4 DEF Sent, Command, SetCommand
  <2>7. Sent(cmd)'
    BY <2>1, <2>2, <2>3, <2>4, <2>5 DEF Sent, SetCommand
  <2>8. answers' = answers /\ (wire' = wire \/ wire' = [wire EXCEPT ![ProcOf[f]] = Append(@, cmd)])
    BY <1>4, <2>2, <2>3 DEF UpstreamAnswers, SendSet, Send, SendWithin
  <2> QED BY <2>3, <2>6, <2>7, <2>8, LineStays, LineGrows
<1>5. ASSUME NEW p \in Procs, RedisExecutes(p)
      PROVE  LineOK(q)'
  <2>1. CASE q # p
    BY <1>5, <2>1, LineStays DEF RedisExecutes
  <2>2. CASE q = p
    <3>1. wire[p] # <<>> /\ wire'[p] = Tail(wire[p])
      BY <1>5 DEF RedisExecutes
    <3>2. CASE answers' = answers
      <4>1. /\ NoRepeats(answers[q], Tail(wire[q]))
            /\ \A d \in CommandsOf(answers[q], Tail(wire[q])) : d \in CommandsOf(answers[q], wire[q])
        BY <1>1, <2>2, <3>1, LineForgets
      <4> QED BY <2>2, <3>1, <3>2, <4>1, LineShrinks
    <3>3. ASSUME NEW e \in Settlements, e.cmd = Head(wire[p]), answers'[p] = Append(answers[p], e)
          PROVE  LineOK(q)'
      <4>1. /\ NoRepeats(Append(answers[q], e), Tail(wire[q]))
            /\ \A d \in CommandsOf(Append(answers[q], e), Tail(wire[q])) :
                 d \in CommandsOf(answers[q], wire[q])
        BY <1>1, <2>2, <3>1, <3>3, LineExecutes
      <4> QED BY <2>2, <3>1, <3>3, <4>1, LineShrinks
    <3>4. PICK reply \in Replies : answers' = answers \/
            answers' = [answers EXCEPT ![p] = Append(@, [cmd |-> Head(wire[p]), reply |-> reply])]
      BY <1>5, ReplyType DEF RedisExecutes
    <3>5. [cmd |-> Head(wire[p]), reply |-> reply] \in Settlements
      BY <1>1, <2>2, <3>1, HeadTailProperties DEF Settlements
    <3> QED BY <3>2, <3>3, <3>4, <3>5
  <2> QED BY <2>1, <2>2
<1>6. ASSUME NEW p \in Procs, ChunkArrives(p)
      PROVE  LineOK(q)'
  <2>1. CASE q # p
    BY <1>6, <2>1, LineStays DEF ChunkArrives
  <2>2. CASE q = p
    <3>1. PICK n \in 1..Len(answers[p]) :
            answers'[p] = SubSeq(answers[p], n + 1, Len(answers[p]))
      BY <1>6 DEF ChunkArrives
    <3>2. wire' = wire
      BY <1>6 DEF ChunkArrives
    <3> DEFINE rest == SubSeq(answers[q], n + 1, Len(answers[q]))
    <3>3. /\ NoRepeats(rest, wire[q])
          /\ \A d \in CommandsOf(rest, wire[q]) : d \in CommandsOf(answers[q], wire[q])
      BY <1>1, <2>2, LineDelivers
    <3>4. answers'[q] = rest /\ wire'[q] = wire[q]
      BY <2>2, <3>1, <3>2
    <3> HIDE DEF rest
    <3> QED BY <3>3, <3>4, LineShrinks
  <2> QED BY <2>1, <2>2
<1>7. ASSUME answers'[q] = <<>>, wire'[q] = Resendable(q)
      PROVE  LineOK(q)'
  <2> DEFINE kept == [i \in DOMAIN answers[q] |-> answers[q][i].cmd] \o wire[q]
  <2>1. /\ NoRepeats(<<>>, kept)
        /\ \A d \in CommandsOf(<<>>, kept) : d \in CommandsOf(answers[q], wire[q])
    BY <1>1, LineResends
  <2>2. wire'[q] = kept
    BY <1>7 DEF Resendable
  <2> HIDE DEF kept
  <2> QED BY <1>7, <2>1, <2>2, LineShrinks
<1>8. ASSUME answers'[q] = <<>> \/ answers'[q] = answers[q], wire'[q] = <<>>
      PROVE  LineOK(q)'
  <2>1. DOMAIN <<>> = {}
    OBVIOUS
  <2>2. NoRepeats(answers'[q], wire'[q])
    BY <1>1, <1>8, <2>1 DEF NoRepeats
  <2>3. \A d \in CommandsOf(answers'[q], wire'[q]) : d \in CommandsOf(answers[q], wire[q])
    BY <1>8, <2>1 DEF CommandsOf, ToSet
  <2> QED BY <2>2, <2>3, LineShrinks
<1>9. ASSUME NEW p \in Procs, LinkDrops(p)
      PROVE  LineOK(q)'
  BY <1>7, <1>9, LineStays DEF LinkDrops
<1>10. ASSUME NEW p \in Procs, LinkReconnects(p)
      PROVE  LineOK(q)'
  BY <1>10, LineStays DEF LinkReconnects
<1>11. ASSUME NEW p \in Procs, QueueFlushed(p)
       PROVE  LineOK(q)'
  BY <1>8, <1>11, LineStays DEF QueueFlushed
<1>12. ASSUME RedisRestarts
       PROVE  LineOK(q)'
  BY <1>7, <1>8, <1>12 DEF RedisRestarts
<1>13. ASSUME NEW p \in Procs, Dies(p)
       PROVE  LineOK(q)'
  <2>1. CASE q # p
    BY <1>13, <2>1, LineStays DEF Dies, RepoDies
  <2>2. CASE q = p
    <3>1. PICK n \in 0..Len(wire[p]) : wire'[p] = SubSeq(wire[p], 1, n)
      BY <1>13 DEF Dies, RepoDies
    <3>2. answers'[p] = <<>>
      BY <1>13 DEF Dies, RepoDies
    <3>3. /\ NoRepeats(<<>>, SubSeq(wire[q], 1, n))
          /\ \A d \in CommandsOf(<<>>, SubSeq(wire[q], 1, n)) : d \in CommandsOf(answers[q], wire[q])
      BY <1>1, <2>2, LineEnds
    <3> QED BY <2>2, <3>1, <3>2, <3>3, LineShrinks
  <2> QED BY <2>1, <2>2
<1>14. ASSUME UNCHANGED <<answers, wire>>
       PROVE  LineOK(q)'
  BY <1>14, LineStays
<1>15. ASSUME NEW c \in Calls, ReadDone(c) \/ WriteDone(c)
       PROVE  UNCHANGED <<answers, wire>>
  BY <1>15 DEF ReadDone, ReadReturns, GetReturns, DiscardReturns, WriteDone, WriteReturns
<1> QED
  BY <1>2, <1>3, <1>4, <1>5, <1>6, <1>9, <1>10, <1>11, <1>12, <1>13, <1>14, <1>15
     DEF Next, RedisSteps, UpstreamFails, Tick, TimeIsUp, vars, repoVars

\* Nothing resumes in a turn that is over.
LEMMA TurnIsEmpty ==
  ASSUME NEW p, turn'[p] = <<>>
  PROVE  TurnOK(p)'
<1>1. DOMAIN <<>> = {}
  OBVIOUS
<1> QED BY <1>1 DEF TurnOK, NoRepeats, CommandsOf, ToSet

\* A turn that does not change stays in order while its commands are awaited.
LEMMA TurnStays ==
  ASSUME StackInv, [Next]_vars, NEW p \in Procs, turn'[p] = turn[p],
         \A d : Sent(d) /\ ProcOf[d.call] = p /\ Awaited(d) => Awaited(d)'
  PROVE  TurnOK(p)'
<1>1. TurnOK(p)
  BY DEF StackInv, TurnsOK
<1> QED BY <1>1, SentKept DEF TurnOK

\* The end of a race disarms its command and no other.
LEMMA TurnAfterRace ==
  ASSUME StackInv, [Next]_vars, NEW q \in Procs, NEW op \in Ops, NEW c \in Calls, NEW reply,
         RaceEnds(op, c, reply)
  PROVE  TurnOK(q)'
<1> DEFINE p == ProcOf[c]
<1>1. ASSUME NEW d, Sent(d), Awaited(d), d.op # op \/ d.call # c
      PROVE  Awaited(d)'
  <2>1. d.op \in Ops /\ d.call \in Calls
    BY <1>1, SentRange
  <2>2. deadline'[d.op][d.call] = deadline[d.op][d.call]
    <3>1. deadline' = [deadline EXCEPT ![op][c] = None] /\ RepoTypeOK
      BY RaceEffect DEF StackInv, StackTypeOK
    <3> QED BY <1>1, <2>1, <3>1, OneTimer
  <2> QED BY <1>1, <2>2 DEF Awaited
<1>2. CASE q # p
  <2>1. turn'[q] = turn[q]
    BY <1>2, RaceEffect DEF StackInv, StackTypeOK, RepoTypeOK
  <2> QED BY <1>1, <1>2, <2>1, TurnStays
<1>3. CASE q = p /\ turn'[p] = <<>>
  BY <1>3, TurnIsEmpty
<1>4. CASE q = p /\ \E i \in DOMAIN turn[p] :
             /\ turn[p][i].cmd.op = op
             /\ turn[p][i].cmd.call = c
             /\ turn' = [turn EXCEPT ![p] = RemoveAt(@, i)]
  <2>1. PICK i \in DOMAIN turn[p] :
          /\ turn[p][i].cmd.op = op
          /\ turn[p][i].cmd.call = c
          /\ turn' = [turn EXCEPT ![p] = RemoveAt(@, i)]
    BY <1>4
  <2>2. turn[q] \in Seq(Settlements) /\ turn'[q] = RemoveAt(turn[q], i)
    BY <1>4, <2>1 DEF StackInv, StackTypeOK, RepoTypeOK
  <2>3. TurnOK(q)
    BY DEF StackInv, TurnsOK
  <2>4. /\ NoRepeats(RemoveAt(turn[q], i), <<>>)
        /\ \A d \in CommandsOf(RemoveAt(turn[q], i), <<>>) :
             d \in CommandsOf(turn[q], <<>>) /\ d # turn[q][i].cmd
    BY <1>4, <2>1, <2>2, <2>3, TurnResumes DEF TurnOK
  <2>5. turn[q][i].cmd \in CommandsOf(turn[q], <<>>)
    BY <1>4, <2>1, CommandsOfMember
  <2>6. ASSUME NEW d \in CommandsOf(turn'[q], <<>>)
        PROVE  Sent(d)' /\ ProcOf[d.call] = q /\ Awaited(d)'
    <3>1. /\ Sent(d) /\ ProcOf[d.call] = q /\ Awaited(d)
          /\ Sent(turn[q][i].cmd) /\ d # turn[q][i].cmd
      BY <2>2, <2>3, <2>4, <2>5, <2>6 DEF TurnOK
    <3>2. d.op # op \/ d.call # c
      BY <1>4, <2>1, <3>1, SentOnce
    <3> QED BY <1>1, <3>1, <3>2, SentKept
  <2> QED BY <2>2, <2>4, <2>6 DEF TurnOK
<1> QED BY <1>2, <1>3, <1>4, RaceEffect

\* Whatever the step, what remains in a turn is awaited.
LEMMA TurnsKept == StackInv /\ [Next]_vars => TurnsOK'
<1> SUFFICES ASSUME StackInv, [Next]_vars, NEW q \in Procs
             PROVE  TurnOK(q)'
  BY DEF TurnsOK
<1> USE DEF StackInv, StackTypeOK, RepoTypeOK
<1>1. turn[q] \in Seq(Settlements) /\ TurnOK(q)
  BY DEF TurnsOK
<1>2. ASSUME NEW c \in Calls, NEW op \in Ops, NEW cmd \in Commands,
             cmd.op = op, cmd.call = c, Sent(cmd)', AtRest(ProcOf[c]), Send(cmd)
      PROVE  TurnOK(q)'
  <2>1. ASSUME NEW d, Sent(d), Awaited(d)
        PROVE  Awaited(d)'
    <3>1. d.op \in Ops /\ d.call \in Calls
      BY <2>1, SentRange
    <3>2. deadline' = [deadline EXCEPT ![op][c] = now + CmdTimeout]
      BY <1>2 DEF Send, SendWithin
    <3>3. now + CmdTimeout # None
      BY DEF ServiceInv, ServiceTypeOK, WorldTypeOK
    <3> QED BY <2>1, <3>1, <3>2, <3>3 DEF Awaited
  <2>2. CASE q # ProcOf[c] \/ turn' = turn
    <3>1. turn'[q] = turn[q]
      BY <1>2, <2>2 DEF Send, SendWithin
    <3> QED BY <2>1, <3>1, TurnStays
  <2>3. CASE q = ProcOf[c] /\ turn' # turn
    <3> DEFINE e == [cmd |-> cmd, reply |-> Rejection]
    <3>1. turn[q] = <<>> /\ turn'[q] = Append(turn[q], e)
      BY <1>2, <2>3 DEF Send, SendWithin, AtRest
    <3>2. e \in Settlements /\ e.cmd = cmd
      BY ReplyType DEF Settlements
    <3> HIDE DEF e
    <3>3. DOMAIN <<>> = {}
      OBVIOUS
    <3>4. cmd \notin CommandsOf(turn[q], <<>>)
      BY <3>3, <3>1, CommandsOfMember
    <3>5. NoRepeats(Append(turn[q], e), <<>>)
      BY <1>1, <3>2, <3>4, TurnGrows DEF TurnOK
    <3>6. \A d \in CommandsOf(Append(turn[q], e), <<>>) : d = cmd
      <4>1. \A d \in CommandsOf(Append(turn[q], e), <<>>) : d \in CommandsOf(turn[q], <<>>) \/ d = cmd
        BY <1>1, <3>2, <3>4, TurnGrows DEF TurnOK
      <4>2. CommandsOf(turn[q], <<>>) = {}
        BY <3>1 DEF CommandsOf, ToSet
      <4> QED BY <4>1, <4>2
    <3>7. Awaited(cmd)'
      BY <1>2 DEF Awaited, Send, SendWithin, ServiceInv, ServiceTypeOK, WorldTypeOK
    <3> QED BY <1>2, <2>3, <3>1, <3>5, <3>6, <3>7 DEF TurnOK
  <2> QED BY <2>2, <2>3
<1>3. ASSUME NEW c \in Calls, Request(c)
      PROVE  TurnOK(q)'
  <2> DEFINE cmd == Command("get", c)
  <2>1. cmd \in Commands /\ cmd.call = c /\ cmd.op = "get"
    BY DEF Command, Commands, Ops
  <2>2. Sent(cmd)'
    BY <1>3, <2>1 DEF Request, GetRates, Sent, ServiceInv, ServiceTypeOK
  <2>3. Send(cmd) /\ AtRest(ProcOf[c])
    BY <1>3 DEF Request, SendGet
  <2> HIDE DEF cmd
  <2> QED BY <1>2, <2>1, <2>2, <2>3 DEF Ops
<1>4. ASSUME NEW f \in Calls, UpstreamAnswers(f)
      PROVE  TurnOK(q)'
  <2>1. Stamped(f) \in Snapshots
    BY StampedType DEF ServiceInv, ServiceTypeOK
  <2>2. PICK cmd : cmd = SetCommand(f, Stamped(f))
    OBVIOUS
  <2>3. cmd \in Commands /\ cmd.call = f /\ cmd.op = "set"
    BY <2>1, <2>2 DEF SetCommand, Commands, Ops
  <2>4. fetched'[f] = Stamped(f) /\ pc'[f] # "idle"
    BY <1>4 DEF UpstreamAnswers, ProviderResolves, ServiceInv, ServiceTypeOK, NothingEarly
  <2>5. Sent(cmd)'
    BY <2>1, <2>2, <2>3, <2>4 DEF Sent, SetCommand
  <2>6. Send(cmd) /\ AtRest(ProcOf[f])
    BY <1>4, <2>2 DEF UpstreamAnswers, SendSet
  <2> QED BY <1>2, <2>3, <2>5, <2>6 DEF Ops
<1>5. ASSUME NEW c \in Calls, ReadDone(c) \/ WriteDone(c)
      PROVE  TurnOK(q)'
  <2>1. PICK op \in Ops : \E reply : RaceEnds(op, c, reply)
    BY <1>5 DEF ReadDone, ReadReturns, GetReturns, DiscardReturns, WriteDone, WriteReturns, Ops
  <2> QED BY <2>1, TurnAfterRace
<1>6. ASSUME NEW c \in Calls, Discard(c)
      PROVE  TurnOK(q)'
  <2> DEFINE p == ProcOf[c]
  <2>1. PICK i \in DOMAIN turn[p] :
          /\ turn[p][i].cmd = Command("get", c)
          /\ deadline' = [deadline EXCEPT !["get"][c] = None, !["del"][c] = now + CmdTimeout]
          /\ \/ turn' = [turn EXCEPT ![p] = RemoveAt(@, i)]
             \/ turn' = [turn EXCEPT ![p] =
                   Append(RemoveAt(@, i), [cmd |-> Command("del", c), reply |-> Rejection])]
    BY <1>6 DEF Discard, DiscardBegins
  <2> DEFINE get == Command("get", c)
             del == Command("del", c)
             left == RemoveAt(turn[p], i)
             refused == [cmd |-> del, reply |-> Rejection]
  <2>2. /\ get.op = "get" /\ get.call = c
        /\ del.op = "del" /\ del.call = c /\ del \in Commands
    BY DEF Command, Commands, Ops
  <2>3. refused \in Settlements /\ refused.cmd = del
    BY <2>2, ReplyType DEF Settlements
  <2> HIDE DEF get, del, refused
  <2>4. now + CmdTimeout # None
    BY DEF ServiceInv, ServiceTypeOK, WorldTypeOK
  <2>5. ASSUME NEW d, Sent(d), Awaited(d), d.op # "get" \/ d.call # c
        PROVE  Awaited(d)'
    <3>1. d.op \in Ops /\ d.call \in Calls
      BY <2>5, SentRange
    <3> QED BY <2>1, <2>4, <2>5, <3>1 DEF Awaited, Ops
  <2>6. CASE q # p
    <3>1. turn'[q] = turn[q]
      BY <2>1, <2>6
    <3> QED BY <2>5, <2>6, <3>1, TurnStays
  <2>7. CASE q = p
    <3>1. /\ left \in Seq(Settlements)
          /\ NoRepeats(left, <<>>)
          /\ \A d \in CommandsOf(left, <<>>) : d \in CommandsOf(turn[p], <<>>) /\ d # get
      BY <1>1, <2>1, <2>7, TurnResumes DEF TurnOK, get
    <3>2. get \in CommandsOf(turn[p], <<>>)
      BY <2>1, CommandsOfMember DEF get
    <3>3. Sent(get) /\ Awaited(get)
      BY <1>1, <2>7, <3>2 DEF TurnOK
    <3>4. ASSUME NEW d \in CommandsOf(left, <<>>)
          PROVE  Sent(d) /\ Sent(d)' /\ ProcOf[d.call] = p /\ Awaited(d)'
      <4>1. Sent(d) /\ ProcOf[d.call] = p /\ Awaited(d) /\ d # get
        BY <1>1, <2>7, <3>1, <3>4 DEF TurnOK
      <4>2. d.op # "get" \/ d.call # c
        BY <2>2, <3>3, <4>1, SentOnce
      <4> QED BY <2>5, <4>1, <4>2, SentKept
    <3>5. ~Sent(del)
      BY <2>2, <3>3 DEF Sent, Awaited, Command, SetCommand
    <3>6. Sent(del)' /\ Awaited(del)'
      <4>1. deadline'["get"][c] = None /\ deadline'["del"][c] = now + CmdTimeout
        BY <2>1 DEF Ops
      <4>2. pc' = pc
        BY <1>6 DEF Discard, serviceVars
      <4> QED BY <2>2, <2>4, <3>3, <4>1, <4>2 DEF Sent, Awaited, del, get, Command
    <3> HIDE DEF left
    <3>7. CASE turn'[p] = left
      BY <2>7, <3>1, <3>4, <3>7 DEF TurnOK
    <3>8. CASE turn'[p] = Append(left, refused)
      <4>1. del \notin CommandsOf(left, <<>>)
        BY <3>4, <3>5
      <4>2. /\ NoRepeats(Append(left, refused), <<>>)
            /\ \A d \in CommandsOf(Append(left, refused), <<>>) : d \in CommandsOf(left, <<>>) \/ d = del
        BY <2>3, <3>1, <4>1, TurnGrows
      <4> QED BY <2>2, <2>7, <3>4, <3>6, <3>8, <4>2 DEF TurnOK
    <3>9. turn'[p] = left \/ turn'[p] = Append(left, refused)
      BY <2>1 DEF left, refused, del
    <3> QED BY <3>7, <3>8, <3>9
  <2> QED BY <2>6, <2>7
<1>7. ASSUME NEW p \in Procs, ChunkArrives(p)
      PROVE  TurnOK(q)'
  <2>1. deadline' = deadline /\ \A r \in Procs : r # p => turn'[r] = turn[r]
    BY <1>7 DEF ChunkArrives
  <2>2. CASE q # p
    BY <2>1, <2>2, TurnStays DEF Awaited
  <2>3. CASE q = p
    <3>1. PICK n \in 1..Len(answers[p]) : \E settled \in AwaitedOf(p, n) : turn'[p] = settled
      BY <1>7 DEF ChunkArrives
    <3>2. PICK settled \in AwaitedOf(p, n) : turn'[p] = settled
      BY <3>1
    <3>3. LineOK(p)
      BY DEF LinesOK
    <3>4. /\ NoRepeats(settled, <<>>)
          /\ \A d \in CommandsOf(settled, <<>>) : d \in CommandsOf(answers[p], wire[p]) /\ Awaited(d)
      BY <3>3, TurnBegins DEF LineOK
    <3> QED BY <2>1, <2>3, <3>2, <3>3, <3>4, SentKept DEF TurnOK, LineOK, Awaited
  <2> QED BY <2>2, <2>3
<1>8. ASSUME NEW p \in Procs, Dies(p)
      PROVE  TurnOK(q)'
  <2>1. CASE q = p
    BY <1>8, <2>1, TurnIsEmpty DEF Dies, RepoDies
  <2>2. CASE q # p
    <3>1. ASSUME NEW d, Sent(d), ProcOf[d.call] = q, Awaited(d)
          PROVE  Awaited(d)'
      <4>1. d.op \in Ops /\ d.call \in Calls
        BY <3>1, SentRange
      <4> QED BY <1>8, <2>2, <3>1, <4>1 DEF Awaited, Dies, RepoDies
    <3>2. turn'[q] = turn[q]
      BY <1>8, <2>2 DEF Dies, RepoDies
    <3> QED BY <3>1, <3>2, TurnStays
  <2> QED BY <2>1, <2>2
<1>9. ASSUME UNCHANGED <<deadline, turn>>
      PROVE  TurnOK(q)'
  BY <1>9, TurnStays DEF Awaited
<1>10. ASSUME RedisSteps, ~ \E p \in Procs : ChunkArrives(p)
      PROVE  UNCHANGED <<deadline, turn>>
  BY <1>10 DEF RedisSteps, RedisExecutes, LinkDrops, LinkReconnects, QueueFlushed, RedisRestarts
<1> QED
  BY <1>3, <1>4, <1>5, <1>6, <1>7, <1>8, <1>9, <1>10
     DEF Next, UpstreamFails, Tick, TimeIsUp, vars, repoVars

-----------------------------------------------------------------------------
(* Replies and the key                                                     *)

\* What Redis finds under the key was fetched, or is no snapshot.
LEMMA FoundOK ==
  ASSUME StackInv
  PROVE  \/ Found.kind = "snapshot" /\ Known(Found.snapshot)
         \/ Found.kind \in Kinds \ {"snapshot"} /\ Found.snapshot = None
<1>1. Found \in Values
  BY ReplyType DEF StackInv, StackTypeOK
<1>2. CASE Found = store
  BY <1>1, <1>2 DEF StackInv, StoreOK, Values, Kinds
<1>3. CASE Found = Nothing
  BY <1>3 DEF Nothing, Holding, Kinds
<1> QED BY <1>2, <1>3 DEF Found

\* Of the commands on a line, Redis executes what their calls sent.
LEMMA HeadSent ==
  ASSUME StackInv, NEW p \in Procs, wire[p] # <<>>
  PROVE  Sent(Head(wire[p])) /\ Head(wire[p]) \in Commands
<1>1. wire[p] \in Seq(Commands)
  BY DEF StackInv, StackTypeOK, RepoTypeOK
<1>2. Head(wire[p]) = wire[p][1] /\ 1 \in DOMAIN wire[p]
  BY <1>1, LenProperties, EmptySeq
<1>3. Head(wire[p]) \in CommandsOf(answers[p], wire[p])
  BY <1>2, CommandsOfMember
<1> QED BY <1>3, SentType DEF StackInv, LinesOK, LineOK

\* The effect of a command leaves a key of the same kind of origin.
LEMMA EffectOK ==
  ASSUME StackInv, NEW cmd, Sent(cmd)
  PROVE  /\ Effect(cmd) \in Values
         /\ Effect(cmd).kind = "snapshot" => Known(Effect(cmd).snapshot)
<1>1. CASE cmd = Command("get", cmd.call)
  <2>1. Effect(cmd) = Found
    BY <1>1 DEF Effect, Command
  <2> QED BY <2>1, FoundOK, ReplyType DEF StackInv, StackTypeOK, Kinds
<1>2. CASE cmd = Command("del", cmd.call)
  <2>1. Effect(cmd) = Nothing
    BY <1>2 DEF Effect, Command
  <2> QED BY <2>1 DEF Nothing, Holding, Values, Kinds
<1>3. CASE cmd = SetCommand(cmd.call, fetched[cmd.call]) /\ fetched[cmd.call] \in Snapshots
  <2> DEFINE s == fetched[cmd.call]
  <2>1. Effect(cmd) = [kind |-> "snapshot", snapshot |-> s, expiresAt |-> now + TTL]
    BY <1>3 DEF Effect, SetCommand
  <2>2. Known(s)
    BY <1>3 DEF Sent, Known, StackInv, RacesOK, RaceOK
  <2>3. now + TTL \in Nat
    BY DEF StackInv, ServiceInv, ServiceTypeOK, WorldTypeOK
  <2> HIDE DEF s
  <2> QED BY <2>1, <2>2, <2>3 DEF Values, Known
<1> QED BY <1>1, <1>2, <1>3 DEF Sent

\* After a step the key holds what it held, nothing, or what a sent command leaves.
LEMMA StoreSteps ==
  ASSUME StackInv, [Next]_vars
  PROVE  store' \in {store, Found, Nothing} \/ \E cmd : Sent(cmd) /\ store' = Effect(cmd)
<1>1. ASSUME NEW p \in Procs, RedisExecutes(p)
      PROVE  store' = Found \/ \E cmd : Sent(cmd) /\ store' = Effect(cmd)
  BY <1>1, HeadSent DEF RedisExecutes
<1>2. ASSUME RedisSteps
      PROVE  \/ store' \in {store, Found, Nothing}
             \/ \E p \in Procs : RedisExecutes(p)
  BY <1>2, SMTT(30) DEF RedisSteps, ChunkArrives, LinkDrops, LinkReconnects, QueueFlushed, RedisRestarts
<1>3. ASSUME NEW c \in Calls, Request(c) \/ ReadDone(c) \/ Discard(c)
      PROVE  store' = store
  BY <1>3 DEF Request, SendGet, Send, SendWithin, ReadDone, ReadReturns, GetReturns,
              DiscardReturns, Discard, DiscardBegins
<1>4. ASSUME NEW f \in Calls, UpstreamAnswers(f) \/ UpstreamFails(f) \/ WriteDone(f)
      PROVE  store' = store
  BY <1>4 DEF UpstreamAnswers, SendSet, Send, SendWithin, UpstreamFails, repoVars,
              WriteDone, WriteReturns
<1>5. ASSUME NEW p \in Procs, Dies(p)
      PROVE  store' = store
  BY <1>5 DEF Dies, RepoDies
<1> QED
  BY <1>1, <1>2, <1>3, <1>4, <1>5 DEF Next, Tick, TimeIsUp, vars, repoVars

\* Redis's key holds what some fetch got, or what came from elsewhere.
LEMMA StoreKept == StackInv /\ [Next]_vars => StoreOK' /\ store' \in Values
<1> SUFFICES ASSUME StackInv, [Next]_vars
             PROVE  StoreOK' /\ store' \in Values
  OBVIOUS
<1>1. ASSUME store' \in Values, store'.kind = "snapshot" => Known(store'.snapshot)
      PROVE  StoreOK' /\ store' \in Values
  BY <1>1, KnownKept DEF StoreOK
<1>2. CASE store' = store
  BY <1>1, <1>2 DEF StackInv, StackTypeOK, RepoTypeOK, StoreOK
<1>3. CASE store' = Found
  BY <1>1, <1>3, FoundOK, ReplyType DEF StackInv, StackTypeOK, Kinds
<1>4. CASE store' = Nothing
  BY <1>1, <1>4 DEF Nothing, Holding, Values, Kinds
<1>5. CASE \E cmd : Sent(cmd) /\ store' = Effect(cmd)
  BY <1>1, <1>5, EffectOK
<1> QED BY <1>2, <1>3, <1>4, <1>5, StoreSteps

\* Redis executes the next command of process p's line, and nobody else does anything.
Executes(p) == RedisExecutes(p) /\ UNCHANGED <<worldVars, serviceVars>>

\* It does, and e is its answer.
Executed(p, e) ==
  /\ Executes(p)
  /\ store' = Effect(Head(wire[p]))
  /\ e = [cmd |-> Head(wire[p]), reply |-> ReplyTo(Head(wire[p]))]

\* Where a settlement of q comes from: it was there, nobody answered, or Redis has just done so.
Origin(q, e) ==
  \/ e \in ToSet(answers[q]) \cup ToSet(turn[q])
  \/ e.reply = Rejection
  \/ \E p \in Procs : Executed(p, e)

\* What was settled is settled once: nothing but an execution adds a reply that is no refusal.
LEMMA SettledBefore ==
  ASSUME StackInv, [Next]_vars, NEW q \in Procs, NEW e \in ToSet(answers'[q]) \cup ToSet(turn'[q])
  PROVE  Origin(q, e)
<1> USE DEF StackInv, StackTypeOK, RepoTypeOK
<1>1. /\ answers[q] \in Seq(Settlements) /\ turn[q] \in Seq(Settlements)
      /\ NoRepeats(answers[q], wire[q]) /\ NoRepeats(turn[q], <<>>)
  BY DEF LinesOK, LineOK, TurnsOK, TurnOK
<1>2. ASSUME e \in ToSet(answers[q]) \cup ToSet(turn[q])
      PROVE  Origin(q, e)
  BY <1>2 DEF Origin
<1>3. ASSUME e.reply = Rejection
      PROVE  Origin(q, e)
  BY <1>3 DEF Origin
<1>4. ToSet(<<>>) = {}
  BY DEF ToSet
<1>5. ASSUME NEW cmd \in Commands, AtRest(ProcOf[cmd.call]), Send(cmd)
      PROVE  Origin(q, e)
  <2> DEFINE x == [cmd |-> cmd, reply |-> Rejection]
  <2>1. x \in Settlements /\ x.reply = Rejection
    BY ReplyType DEF Settlements
  <2> HIDE DEF x
  <2>2. /\ answers' = answers
        /\ turn' = turn \/ turn' = [turn EXCEPT ![ProcOf[cmd.call]] = Append(@, x)]
    BY <1>5 DEF Send, SendWithin, x
  <2>3. turn'[q] = turn[q] \/ turn'[q] = Append(turn[q], x)
    <3>1. turn \in [Procs -> Seq(Settlements)]
      OBVIOUS
    <3> QED BY <2>2, <3>1
  <2> QED BY <1>1, <1>2, <1>3, <2>1, <2>2, <2>3, AppendSet
<1>6. ASSUME NEW c \in Calls, Request(c)
      PROVE  Origin(q, e)
  <2>1. Command("get", c) \in Commands /\ Command("get", c).call = c
    BY DEF Command, Commands, Ops
  <2> QED BY <1>5, <1>6, <2>1 DEF Request, SendGet
<1>7. ASSUME NEW f \in Calls, UpstreamAnswers(f)
      PROVE  Origin(q, e)
  <2>1. SetCommand(f, Stamped(f)) \in Commands /\ SetCommand(f, Stamped(f)).call = f
    BY StampedType DEF SetCommand, Commands, Ops, ServiceInv, ServiceTypeOK
  <2>2. PICK cmd \in Commands : cmd.call = f /\ cmd = SetCommand(f, Stamped(f))
    BY <2>1
  <2> QED BY <1>5, <1>7, <2>2 DEF UpstreamAnswers, SendSet
<1>8. ASSUME NEW c \in Calls, ReadDone(c) \/ WriteDone(c)
      PROVE  Origin(q, e)
  <2>1. PICK op \in Ops : \E reply : RaceEnds(op, c, reply)
    BY <1>8 DEF ReadDone, ReadReturns, GetReturns, DiscardReturns, WriteDone, WriteReturns, Ops
  <2>2. answers' = answers
    BY <1>8 DEF ReadDone, ReadReturns, GetReturns, DiscardReturns, WriteDone, WriteReturns
  <2>3. \/ turn'[q] = turn[q]
        \/ \E i \in DOMAIN turn[q] : turn'[q] = RemoveAt(turn[q], i)
    BY <2>1 DEF RaceEnds
  <2> QED BY <1>1, <1>2, <2>2, <2>3, TurnResumes
<1>9. ASSUME NEW c \in Calls, Discard(c)
      PROVE  Origin(q, e)
  <2> DEFINE p == ProcOf[c]
             x == [cmd |-> Command("del", c), reply |-> Rejection]
  <2>1. PICK i \in DOMAIN turn[p] :
          \/ turn' = [turn EXCEPT ![p] = RemoveAt(@, i)]
          \/ turn' = [turn EXCEPT ![p] = Append(RemoveAt(@, i), x)]
    BY <1>9 DEF Discard, DiscardBegins
  <2>2. x \in Settlements /\ x.reply = Rejection
    BY ReplyType DEF Settlements, Command, Commands, Ops
  <2> HIDE DEF x
  <2>3. answers' = answers
    BY <1>9 DEF Discard, DiscardBegins
  <2>4. CASE turn'[q] = turn[q]
    BY <1>2, <2>3, <2>4
  <2>5. CASE q = p
    <3> DEFINE left == RemoveAt(turn[q], i)
    <3>1. left \in Seq(Settlements) /\ ToSet(left) \subseteq ToSet(turn[q])
      BY <1>1, <2>1, <2>5, TurnResumes
    <3>2. turn'[q] = left \/ turn'[q] = Append(left, x)
      BY <2>1, <2>5
    <3> HIDE DEF left
    <3>3. e \in ToSet(answers[q]) \cup ToSet(turn[q]) \/ e = x
      BY <2>2, <2>3, <3>1, <3>2, AppendSet
    <3> QED BY <1>2, <1>3, <2>2, <3>3
  <2> QED BY <2>1, <2>4, <2>5
<1>10. ASSUME NEW p \in Procs, Executes(p)
       PROVE  Origin(q, e)
  <2>1. turn' = turn
    BY <1>10 DEF Executes, RedisExecutes
  <2>2. CASE answers'[q] = answers[q]
    BY <1>2, <2>1, <2>2
  <2>3. ASSUME NEW reply \in {ReplyTo(Head(wire[p])), Rejection},
               reply = Rejection \/ store' = Effect(Head(wire[p])),
               answers'[q] = Append(answers[q], [cmd |-> Head(wire[p]), reply |-> reply])
        PROVE  Origin(q, e)
    <3> DEFINE x == [cmd |-> Head(wire[p]), reply |-> reply]
    <3>1. x \in Settlements /\ x.reply = reply
      <4>1. Head(wire[p]) \in Commands
        BY <1>10, HeadSent DEF Executes, RedisExecutes
      <4>2. reply \in Replies
        BY <2>3, ReplyType
      <4> QED BY <4>1, <4>2 DEF Settlements
    <3> HIDE DEF x
    <3>2. e \in ToSet(answers[q]) \cup ToSet(turn[q]) \/ e = x
      BY <1>1, <2>1, <2>3, <3>1, AppendSet DEF x
    <3>3. CASE e = x /\ reply # Rejection
      BY <1>10, <2>3, <3>3 DEF Origin, Executed, x
    <3> QED BY <1>2, <1>3, <3>1, <3>2, <3>3
  <2> QED BY <1>10, <2>2, <2>3 DEF Executes, RedisExecutes
<1>11. ASSUME NEW p \in Procs, ChunkArrives(p)
       PROVE  Origin(q, e)
  <2>1. CASE q # p
    BY <1>2, <1>11, <2>1 DEF ChunkArrives
  <2>2. CASE q = p
    <3>1. PICK n \in 1..Len(answers[p]) :
            /\ \E settled \in AwaitedOf(p, n) : turn'[p] = settled
            /\ answers'[p] = SubSeq(answers[p], n + 1, Len(answers[p]))
      BY <1>11 DEF ChunkArrives
    <3>2. ToSet(turn'[p]) \subseteq ToSet(answers[p])
      BY <1>1, <2>2, <3>1, TurnBegins
    <3>3. ToSet(answers'[p]) \subseteq ToSet(answers[p])
      BY <1>1, <2>2, <3>1, LineDelivers
    <3> QED BY <1>2, <2>2, <3>2, <3>3
  <2> QED BY <2>1, <2>2
<1>12. ASSUME \/ RedisSteps /\ ~ \E p \in Procs : Executes(p) \/ ChunkArrives(p)
              \/ \E p \in Procs : Dies(p)
       PROVE  (answers'[q] = answers[q] \/ answers'[q] = <<>>) /\ (turn'[q] = turn[q] \/ turn'[q] = <<>>)
  BY <1>12 DEF RedisSteps, Executes, LinkDrops, LinkReconnects, QueueFlushed, RedisRestarts, Dies, RepoDies
<1>13. ASSUME UNCHANGED <<answers, turn>>
       PROVE  Origin(q, e)
  BY <1>2, <1>13
<1> QED
  BY <1>2, <1>4, <1>6, <1>7, <1>8, <1>9, <1>10, <1>11, <1>12, <1>13
     DEF Next, UpstreamFails, Tick, TimeIsUp, vars, repoVars

\* Every reply to a GET was found, and every settlement was a reply or a refusal.
LEMMA RepliesKept == StackInv /\ [Next]_vars => RepliesOK'
<1> SUFFICES ASSUME StackInv, [Next]_vars, NEW q \in Procs,
                    NEW e \in ToSet(answers'[q]) \cup ToSet(turn'[q])
             PROVE  ReplyOK(e)'
  BY DEF RepliesOK
<1>1. CASE e \in ToSet(answers[q]) \cup ToSet(turn[q])
  BY <1>1, ReplyKept DEF StackInv, RepliesOK
<1>2. CASE e.reply = Rejection
  BY <1>2 DEF ReplyOK, Rejection, Reply
<1>3. ASSUME NEW p \in Procs, Executed(p, e)
      PROVE  ReplyOK(e)'
  <2>1. e.cmd.op = "get" => e.reply.kind = Found.kind /\ e.reply.snapshot = Found.snapshot
    BY <1>3 DEF Executed, ReplyTo, Reply
  <2>2. ReplyOK(e)
    BY <2>1, FoundOK DEF ReplyOK
  <2> QED BY <2>2, ReplyKept
<1> QED BY <1>1, <1>2, <1>3, SettledBefore DEF Origin

-----------------------------------------------------------------------------
(* Races and timers                                                        *)

\* What read() and set() do when they return, seen from the timers.
LEMMA ReadDoneEffect ==
  ASSUME StackInv, NEW c \in Calls, ReadDone(c)
  PROVE  /\ \E op \in {"get", "del"} :
              /\ deadline[op][c] # None
              /\ deadline' = [deadline EXCEPT ![op][c] = None]
              /\ op = "del" => reason'[c] = "corrupt"
         /\ pc[c] = "reading" /\ pc' = [pc EXCEPT ![c] = pc'[c]] /\ pc'[c] \in {"cache", "waiting"}
<1>1. ASSUME NEW read, ReadSettles(c, read)
      PROVE  pc[c] = "reading" /\ pc' = [pc EXCEPT ![c] = pc'[c]] /\ pc'[c] \in {"cache", "waiting"}
  BY <1>1 DEF ReadSettles, ServeCached, Miss, StackInv, ServiceInv, ServiceTypeOK
<1>2. ASSUME NEW read, GetReturns(c, read)
      PROVE  deadline["get"][c] # None /\ deadline' = [deadline EXCEPT !["get"][c] = None]
  BY <1>2, RaceEffect DEF GetReturns, Ops
<1>3. ASSUME NEW read, DiscardReturns(c, read), ReadSettles(c, read)
      PROVE  /\ deadline["del"][c] # None /\ deadline' = [deadline EXCEPT !["del"][c] = None]
             /\ reason'[c] = "corrupt"
  <2>1. read = Failing("corrupt") /\ Miss(c, "corrupt")
    BY <1>3 DEF DiscardReturns, ReadSettles, Failing
  <2>2. reason'[c] = "corrupt"
    BY <2>1 DEF Miss, StackInv, ServiceInv, ServiceTypeOK
  <2> QED BY <1>3, <2>2, RaceEffect DEF DiscardReturns, Ops
<1> QED BY <1>1, <1>2, <1>3 DEF ReadDone, ReadReturns

\* A call whose read is done starts its fetch, with the timer, or leaves both alone.
LEMMA ReadDoneFetch ==
  ASSUME StackInv, NEW c \in Calls, ReadDone(c)
  PROVE  /\ UNCHANGED <<worldVars, startedAt, fetched>>
         /\ \A d \in Calls \ {c} : awaits'[d] = awaits[d] /\ reason'[d] = reason[d]
         /\ \/ /\ fetch' = fetch /\ upstreamTimer' = upstreamTimer
               /\ pc'[c] = "waiting" => awaits'[c] = inFlight[ProcOf[c]] /\ inFlight[ProcOf[c]] # None
            \/ /\ fetch' = [fetch EXCEPT ![c] = "upstream"] /\ fetch[c] = "none"
               /\ upstreamTimer' = [upstreamTimer EXCEPT ![c] = now + UpstreamTimeout]
               /\ awaits'[c] = c
<1> USE DEF StackInv, ServiceInv, ServiceTypeOK
<1>1. PICK read : ReadSettles(c, read)
  BY DEF ReadDone
<1>2. /\ UNCHANGED <<worldVars, startedAt>>
      /\ upstreamTimer' = IF fetch'[c] = fetch[c] THEN upstreamTimer
                            ELSE [upstreamTimer EXCEPT ![c] = now + UpstreamTimeout]
  BY DEF ReadDone
<1>3. fetch[c] = "none"
  BY <1>1 DEF ReadSettles, NothingEarly
<1>4. CASE ServeCached(c, read.snapshot)
  BY <1>2, <1>4 DEF ServeCached
<1>5. ASSUME NEW why, Miss(c, why)
      PROVE  /\ fetched' = fetched
             /\ \A d \in Calls \ {c} : awaits'[d] = awaits[d] /\ reason'[d] = reason[d]
             /\ \/ fetch' = fetch /\ awaits'[c] = inFlight[ProcOf[c]] /\ inFlight[ProcOf[c]] # None
                \/ fetch' = [fetch EXCEPT ![c] = "upstream"] /\ awaits'[c] = c
  BY <1>5 DEF Miss, SharedFetch
<1>6. CASE \E why : Miss(c, why)
  BY <1>2, <1>3, <1>5, <1>6
<1> QED BY <1>1, <1>4, <1>6 DEF ReadSettles

\* What UpstreamAnswers does, seen from the timers.
LEMMA AnswersEffect ==
  ASSUME StackInv, NEW f \in Calls, UpstreamAnswers(f)
  PROVE  /\ fetch[f] = "upstream" /\ fetch' = [fetch EXCEPT ![f] = "writing"]
         /\ fetched' = [fetched EXCEPT ![f] = Stamped(f)]
         /\ Stamped(f) \in Snapshots /\ Stamped(f).by = f /\ RealTime(Stamped(f)) = now
         /\ deadline' = [deadline EXCEPT !["set"][f] = now + CmdTimeout]
         /\ upstreamTimer' = [upstreamTimer EXCEPT ![f] = None]
         /\ UNCHANGED <<worldVars, pc, awaits, reason, inFlight, startedAt>>
<1>1. Stamped(f) \in Snapshots
  BY StampedType DEF StackInv, ServiceInv, ServiceTypeOK
<1>2. Stamped(f).by = f /\ RealTime(Stamped(f)) = now
  BY DEF Stamped, RealTime, Clock, StackInv, ServiceInv, ServiceTypeOK, WorldTypeOK
<1>3. deadline' = [deadline EXCEPT !["set"][f] = now + CmdTimeout]
  BY DEF UpstreamAnswers, SendSet, Send, SendWithin, SetCommand
<1> QED BY <1>1, <1>2, <1>3 DEF UpstreamAnswers, ProviderResolves

\* What the end of a fetch does, seen from the timers.
LEMMA SettlesEffect ==
  ASSUME StackInv, NEW f \in Calls, UpstreamFails(f) \/ WriteDone(f)
  PROVE  /\ \/ /\ fetch[f] = "upstream" /\ upstreamTimer' = [upstreamTimer EXCEPT ![f] = None]
               /\ deadline' = deadline
            \/ /\ fetch[f] = "writing" /\ upstreamTimer' = upstreamTimer
               /\ deadline' = [deadline EXCEPT !["set"][f] = None]
         /\ \E outcome \in {"failed", "stored", "unstored"} : fetch' = [fetch EXCEPT ![f] = outcome]
         /\ \A c \in Calls : \/ pc'[c] = pc[c]
                             \/ pc[c] = "waiting" /\ awaits[c] = f /\ pc'[c] \in {"live", "failed"}
         /\ \A c \in Calls : pc[c] = "waiting" /\ awaits[c] = f => pc'[c] \in {"live", "failed"}
         /\ UNCHANGED <<worldVars, awaits, reason, fetched, startedAt>>
<1>1. ASSUME UpstreamFails(f)
      PROVE  /\ fetch[f] = "upstream" /\ upstreamTimer' = [upstreamTimer EXCEPT ![f] = None]
             /\ UNCHANGED <<worldVars, startedAt, deadline>> /\ FetchSettles(f, "failed", "failed")
  BY <1>1 DEF UpstreamFails, ProviderRejects, repoVars
<1>2. ASSUME WriteDone(f)
      PROVE  /\ fetch[f] = "writing" /\ upstreamTimer' = upstreamTimer
             /\ UNCHANGED <<worldVars, startedAt>>
             /\ deadline' = [deadline EXCEPT !["set"][f] = None]
             /\ FetchSettles(f, "stored", "live") \/ FetchSettles(f, "unstored", "live")
  <2>1. deadline' = [deadline EXCEPT !["set"][f] = None]
    BY <1>2, RaceEffect DEF WriteDone, WriteReturns, Ops
  <2> QED BY <1>2, <2>1 DEF WriteDone, WriteSettles, stackVars
<1>3. ASSUME NEW outcome, NEW calls \in {"live", "failed"}, FetchSettles(f, outcome, calls)
      PROVE  /\ fetch' = [fetch EXCEPT ![f] = outcome]
             /\ \A c \in Calls : \/ pc'[c] = pc[c]
                                 \/ pc[c] = "waiting" /\ awaits[c] = f /\ pc'[c] \in {"live", "failed"}
             /\ \A c \in Calls : pc[c] = "waiting" /\ awaits[c] = f => pc'[c] \in {"live", "failed"}
             /\ UNCHANGED <<awaits, reason, fetched>>
  BY <1>3 DEF FetchSettles
<1> QED BY <1>1, <1>2, <1>3

\* Every step keeps the open races in step with what the calls and the fetches do.
LEMMA RacesKept == StackInv /\ [Next]_vars => RacesOK'
<1> SUFFICES ASSUME StackInv, [Next]_vars, NEW c \in Calls
             PROVE  RaceOK(c)'
  BY DEF RacesOK
<1> USE DEF StackInv, StackTypeOK
<1>1. RaceOK(c) /\ now \in Nat
  BY DEF RacesOK, ServiceInv, ServiceTypeOK, WorldTypeOK
<1>2. ASSUME NEW d \in Calls, Request(d)
      PROVE  RaceOK(c)'
  <2>1. /\ pc[d] = "idle" /\ pc' = [pc EXCEPT ![d] = "reading"]
        /\ deadline' = [deadline EXCEPT !["get"][d] = now + CmdTimeout]
        /\ startedAt' = [startedAt EXCEPT ![d] = now]
        /\ UNCHANGED <<worldVars, fetch, fetched, upstreamTimer>>
    BY <1>2 DEF Request, GetRates, SendGet, Send, SendWithin, Command
  <2>2. \A op \in Ops : deadline'[op][c] = IF op = "get" /\ c = d THEN now + CmdTimeout ELSE deadline[op][c]
    BY <2>1 DEF RepoTypeOK, Ops
  <2>3. now + CmdTimeout # None
    BY <1>1
  <2> QED BY <1>1, <2>1, <2>2, <2>3 DEF RaceOK, Ops, worldVars, ServiceInv, ServiceTypeOK, RealTime
<1>3. ASSUME NEW d \in Calls, ReadDone(d)
      PROVE  RaceOK(c)'
  <2>1. PICK op \in {"get", "del"} :
          /\ deadline[op][d] # None
          /\ deadline' = [deadline EXCEPT ![op][d] = None]
    BY <1>3, ReadDoneEffect
  <2>2. \A o \in Ops : deadline'[o][c] = IF o = op /\ c = d THEN None ELSE deadline[o][c]
    BY <2>1 DEF RepoTypeOK, Ops
  <2>3. pc[d] = "reading" /\ pc' = [pc EXCEPT ![d] = pc'[d]] /\ pc'[d] \in {"cache", "waiting"}
    BY <1>3, ReadDoneEffect
  <2>4. /\ UNCHANGED <<worldVars, startedAt, fetched>>
        /\ \/ fetch' = fetch /\ upstreamTimer' = upstreamTimer
           \/ /\ fetch' = [fetch EXCEPT ![d] = "upstream"] /\ fetch[d] = "none"
              /\ upstreamTimer' = [upstreamTimer EXCEPT ![d] = now + UpstreamTimeout]
    BY <1>3, ReadDoneFetch
  <2>5. now + UpstreamTimeout # None
    BY <1>1
  <2>6. /\ pc'[c] = "reading" <=> pc[c] = "reading" /\ c # d
        /\ pc'[c] = "idle" <=> pc[c] = "idle"
    BY <2>3 DEF ServiceInv, ServiceTypeOK
  <2>7. /\ fetch'[c] = "upstream" <=> upstreamTimer'[c] # None
        /\ fetch'[c] = "writing" <=> fetch[c] = "writing"
    BY <1>1, <2>4, <2>5 DEF RaceOK, ServiceInv, ServiceTypeOK
  <2>8. RealTime(fetched[c])' = RealTime(fetched[c])
    BY <2>4 DEF RealTime
  <2> QED BY <1>1, <2>1, <2>2, <2>4, <2>6, <2>7, <2>8 DEF RaceOK, Ops, worldVars
<1>4. ASSUME NEW d \in Calls, Discard(d)
      PROVE  RaceOK(c)'
  <2>1. /\ deadline' = [deadline EXCEPT !["get"][d] = None, !["del"][d] = now + CmdTimeout]
        /\ UNCHANGED <<worldVars, pc, fetch, fetched, upstreamTimer, startedAt>>
    BY <1>4 DEF Discard, DiscardBegins, serviceVars, stackVars
  <2>2. deadline["get"][d] # None
    <3>1. Command("get", d) \in CommandsOf(turn[ProcOf[d]], <<>>)
      BY <1>4, CommandsOfMember DEF Discard, DiscardBegins
    <3> QED BY <3>1 DEF TurnsOK, TurnOK, Awaited, Command
  <2>3. /\ deadline'["get"][c] = IF c = d THEN None ELSE deadline["get"][c]
        /\ deadline'["del"][c] = IF c = d THEN now + CmdTimeout ELSE deadline["del"][c]
        /\ deadline'["set"][c] = deadline["set"][c]
    BY <2>1 DEF RepoTypeOK, Ops
  <2>4. now + CmdTimeout # None
    BY <1>1
  <2> QED BY <1>1, <2>1, <2>2, <2>3, <2>4 DEF RaceOK, worldVars, RealTime
<1>5. ASSUME NEW f \in Calls, UpstreamAnswers(f)
      PROVE  RaceOK(c)'
  <2>1. \A op \in Ops : deadline'[op][c] = IF op = "set" /\ c = f THEN now + CmdTimeout ELSE deadline[op][c]
    <3>1. deadline' = [deadline EXCEPT !["set"][f] = now + CmdTimeout]
      BY <1>5, AnswersEffect
    <3> QED BY <3>1 DEF RepoTypeOK, Ops
  <2>2. now + CmdTimeout # None
    BY <1>1
  <2>3. /\ fetch'[c] = IF c = f THEN "writing" ELSE fetch[c]
        /\ fetched'[c] = IF c = f THEN Stamped(f) ELSE fetched[c]
        /\ upstreamTimer'[c] = IF c = f THEN None ELSE upstreamTimer[c]
        /\ Stamped(f).by = f /\ RealTime(Stamped(f)) = now /\ fetch[f] = "upstream"
        /\ UNCHANGED <<now, pc, startedAt>>
    BY <1>5, AnswersEffect DEF ServiceInv, ServiceTypeOK, worldVars
  <2>4. fetched'[c] # None => RealTime(fetched'[c]) <= now
    BY <1>1, <2>3 DEF RaceOK
  <2>5. RealTime(fetched[c])' = RealTime(fetched'[c])
    BY DEF RealTime
  <2> QED BY <1>1, <2>1, <2>2, <2>3, <2>4, <2>5 DEF RaceOK, Ops
<1>6. ASSUME NEW f \in Calls, UpstreamFails(f) \/ WriteDone(f)
      PROVE  RaceOK(c)'
  <2>1. /\ \/ /\ fetch[f] = "upstream" /\ upstreamTimer' = [upstreamTimer EXCEPT ![f] = None]
              /\ deadline' = deadline
           \/ /\ fetch[f] = "writing" /\ upstreamTimer' = upstreamTimer
              /\ deadline' = [deadline EXCEPT !["set"][f] = None]
        /\ UNCHANGED <<now, fetched, startedAt>>
    BY <1>6, SettlesEffect DEF worldVars
  <2>2. /\ pc'[c] = "reading" <=> pc[c] = "reading"
        /\ pc'[c] = "idle" <=> pc[c] = "idle"
        /\ c # f => fetch'[c] = fetch[c]
        /\ fetch'[f] \in {"failed", "stored", "unstored"}
    BY <1>6, SettlesEffect DEF ServiceInv, ServiceTypeOK
  <2>3. RealTime(fetched[c])' = RealTime(fetched[c])
    BY <2>1 DEF RealTime
  <2>4. CASE fetch[f] = "upstream" /\ upstreamTimer' = [upstreamTimer EXCEPT ![f] = None] /\ deadline' = deadline
    BY <1>1, <2>1, <2>2, <2>3, <2>4 DEF RaceOK
  <2>5. CASE fetch[f] = "writing" /\ upstreamTimer' = upstreamTimer
             /\ deadline' = [deadline EXCEPT !["set"][f] = None]
    <3>1. \A op \in Ops : deadline'[op][c] = IF op = "set" /\ c = f THEN None ELSE deadline[op][c]
      BY <2>5 DEF RepoTypeOK, Ops
    <3> QED BY <1>1, <2>1, <2>2, <2>3, <2>5, <3>1 DEF RaceOK, Ops
  <2> QED BY <2>1, <2>4, <2>5
<1>7. ASSUME NEW p \in Procs, Dies(p)
      PROVE  RaceOK(c)'
  <2>1. /\ pc'[c] = IF ProcOf[c] = p /\ pc[c] \in Pending THEN "lost" ELSE pc[c]
        /\ fetch'[c] = IF ProcOf[c] = p /\ fetch[c] \in Active THEN "lost" ELSE fetch[c]
        /\ \A op \in Ops : deadline'[op][c] = IF ProcOf[c] = p THEN None ELSE deadline[op][c]
        /\ upstreamTimer'[c] = IF ProcOf[c] = p THEN None ELSE upstreamTimer[c]
        /\ UNCHANGED <<now, fetched, startedAt>>
    BY <1>7 DEF Dies, Killed, ServiceDies, RepoDies
  <2>2. RealTime(fetched[c])' = RealTime(fetched[c])
    BY <2>1 DEF RealTime
  <2> QED BY <1>1, <2>1, <2>2 DEF RaceOK, Pending, Active, Ops
<1>8. ASSUME Tick
      PROVE  RaceOK(c)'
  <2>1. now' = now + 1 /\ UNCHANGED <<pc, fetch, fetched, deadline, upstreamTimer, startedAt>>
    BY <1>8 DEF Tick, Advance, serviceVars, repoVars, stackVars
  <2>2. RealTime(fetched[c])' = RealTime(fetched[c])
    BY <2>1 DEF RealTime
  <2>3. fetched[c] # None => RealTime(fetched[c]) \in Int
    BY DEF RealTime, ServiceInv, ServiceTypeOK, Snapshots
  <2> QED BY <1>1, <2>1, <2>2, <2>3 DEF RaceOK
<1>9. ASSUME UNCHANGED <<now, pc, fetch, fetched, deadline, upstreamTimer, startedAt>>
      PROVE  RaceOK(c)'
  BY <1>1, <1>9 DEF RaceOK, RealTime
<1>10. ASSUME RedisSteps
      PROVE  UNCHANGED <<now, pc, fetch, fetched, deadline, upstreamTimer, startedAt>>
  BY <1>10 DEF RedisSteps, RedisExecutes, ChunkArrives, LinkDrops, LinkReconnects,
              QueueFlushed, RedisRestarts, worldVars, serviceVars, stackVars
<1> QED
  BY <1>2, <1>3, <1>4, <1>5, <1>6, <1>7, <1>8, <1>9, <1>10
     DEF Next, TimeIsUp, vars, worldVars, serviceVars, repoVars, stackVars

\* What the timers of a call are, when they are armed.
LEMMA TimerTypes ==
  ASSUME StackInv, NEW c \in Calls
  PROVE  /\ now \in Nat
         /\ \A op \in Ops : deadline[op][c] # None => deadline[op][c] \in Nat
         /\ upstreamTimer[c] # None => upstreamTimer[c] \in Nat
         /\ pc[c] # "idle" => startedAt[c] \in Nat
         /\ fetched[c] # None => RealTime(fetched[c]) \in Int
         /\ fetch[c] = "writing" => fetched[c] # None
<1> USE DEF StackInv, StackTypeOK, ServiceInv
<1>1. /\ now \in Nat
      /\ \A op \in Ops : deadline[op][c] # None => deadline[op][c] \in Nat
      /\ upstreamTimer[c] # None => upstreamTimer[c] \in Nat
  BY DEF ServiceTypeOK, WorldTypeOK, RepoTypeOK
<1>2. pc[c] # "idle" => startedAt[c] \in Nat
  BY DEF RacesOK, RaceOK
<1>3. fetched[c] # None => RealTime(fetched[c]) \in Int
  BY DEF ServiceTypeOK, RealTime, Snapshots
<1>4. fetch[c] = "writing" => fetched[c] # None
  BY DEF WritingHasSnapshot
<1> QED BY <1>1, <1>2, <1>3, <1>4

\* A call whose settled command is in its turn still awaits it.
LEMMA TurnAwaits ==
  ASSUME StackInv, NEW c \in Calls, NEW op \in Ops, NEW i \in DOMAIN turn[ProcOf[c]],
         turn[ProcOf[c]][i].cmd = Command(op, c)
  PROVE  deadline[op][c] # None
<1>1. turn[ProcOf[c]][i].cmd \in CommandsOf(turn[ProcOf[c]], <<>>) /\ ProcOf[c] \in Procs
  BY CommandsOfMember
<1>2. Awaited(turn[ProcOf[c]][i].cmd)
  BY <1>1 DEF StackInv, TurnsOK, TurnOK
<1> QED BY <1>2 DEF Awaited, Command

\* A call has its read by the time its timers allow.
LEMMA ReadInTime ==
  ASSUME StackInv, NEW d \in Calls, ReadDone(d)
  PROVE  ReadBy(d)' \in Nat /\ now <= ReadBy(d)' /\ now \in Nat
<1>1. PICK op \in {"get", "del"} :
        deadline[op][d] # None /\ (op = "del" => reason'[d] = "corrupt")
  BY ReadDoneEffect
<1>2. startedAt'[d] = startedAt[d] /\ pc[d] = "reading"
  BY ReadDoneEffect, ReadDoneFetch
<1>3. now \in Nat /\ startedAt[d] \in Nat /\ deadline[op][d] \in Nat
  BY <1>1, <1>2, TimerTypes DEF Ops
<1>4. now <= deadline[op][d]
  BY <1>1 DEF StackInv, TimersOK, TimerOK, Ops
<1>5. /\ op = "get" => deadline[op][d] <= startedAt[d] + CmdTimeout
      /\ op = "del" => deadline[op][d] <= startedAt[d] + 2 * CmdTimeout
  BY <1>1 DEF StackInv, TimersOK, TimerOK
<1>6. CASE reason'[d] = "corrupt"
  BY <1>1, <1>2, <1>3, <1>4, <1>5, <1>6 DEF ReadBy
<1>7. CASE reason'[d] # "corrupt"
  BY <1>1, <1>2, <1>3, <1>4, <1>5, <1>7 DEF ReadBy
<1> QED BY <1>3, <1>6, <1>7

\* A waiting call's fetch is under way in its own process.
LEMMA WaitsForOwn ==
  ASSUME ServiceInv, NEW c \in Calls, pc[c] = "waiting"
  PROVE  awaits[c] \in Calls /\ fetch[awaits[c]] \in Active /\ ProcOf[awaits[c]] = ProcOf[c]
BY DEF ServiceInv, WaitersAboard, InFlightActive

\* The wait of a call is within its bounds when those of the fetch it awaits are.
LEMMA WaitOfFetch ==
  ASSUME NEW c \in Calls, NEW f \in Calls, awaits'[c] = f,
         fetch'[f] = "upstream" => upstreamTimer'[f] <= ReadBy(c)' + UpstreamTimeout,
         fetch'[f] = "writing" => deadline'["set"][f] <= ReadBy(c)' + UpstreamTimeout + CmdTimeout
  PROVE  WaitOK(c)'
BY DEF WaitOK

\* Every step keeps the timers within their bounds: they are armed early enough, and
\* time does not pass one that is due.
LEMMA TimersKept == StackInv /\ [Next]_vars => TimersOK'
<1> SUFFICES ASSUME StackInv, [Next]_vars, NEW c \in Calls
             PROVE  TimerOK(c)' /\ WaitOK(c)'
  BY DEF TimersOK
<1>1. TimerOK(c) /\ WaitOK(c) /\ RaceOK(c)
  BY DEF StackInv, TimersOK, RacesOK
<1>2. RepoTypeOK /\ ServiceTypeOK /\ ServiceInv
  BY DEF StackInv, StackTypeOK, ServiceInv
<1>3. ASSUME NEW d \in Calls, Request(d)
      PROVE  TimerOK(c)' /\ WaitOK(c)'
  <2>1. /\ pc[d] = "idle" /\ pc' = [pc EXCEPT ![d] = "reading"]
        /\ deadline' = [deadline EXCEPT !["get"][d] = now + CmdTimeout]
        /\ startedAt' = [startedAt EXCEPT ![d] = now]
        /\ UNCHANGED <<now, fetch, fetched, awaits, reason, upstreamTimer>>
    BY <1>3 DEF Request, GetRates, SendGet, Send, SendWithin, Command, worldVars
  <2>2. \A op \in Ops, e \in Calls :
          deadline'[op][e] = IF op = "get" /\ e = d THEN now + CmdTimeout ELSE deadline[op][e]
    BY <1>2, <2>1 DEF RepoTypeOK, Ops
  <2>3. startedAt'[c] = IF c = d THEN now ELSE startedAt[c]
    BY <2>1 DEF StackInv, StackTypeOK
  <2>4. RealTime(fetched[c])' = RealTime(fetched[c])
    BY <2>1 DEF RealTime
  <2>5. TimerOK(c)'
    <3>1. CASE c # d
      BY <1>1, <2>1, <2>2, <2>3, <2>4, <3>1 DEF TimerOK, Ops
    <3>2. CASE c = d
      <4>1. deadline["del"][c] = None /\ now \in Nat
        BY <1>1, <2>1, <3>2, TimerTypes DEF RaceOK
      <4> QED BY <1>1, <2>1, <2>2, <2>3, <2>4, <3>2, <4>1 DEF TimerOK, Ops
    <3> QED BY <3>1, <3>2
  <2>6. WaitOK(c)'
    <3>1. CASE pc'[c] = "waiting"
      <4>1. c # d /\ pc[c] = "waiting" /\ awaits[c] \in Calls
        BY <1>2, <2>1, <3>1, WaitsForOwn DEF ServiceTypeOK
      <4>2. ReadBy(c)' = ReadBy(c)
        BY <2>1, <2>3, <4>1 DEF ReadBy
      <4> QED BY <1>1, <2>1, <2>2, <4>1, <4>2 DEF WaitOK, Ops
    <3> QED BY <3>1 DEF WaitOK
  <2> QED BY <2>5, <2>6
<1>4. ASSUME NEW d \in Calls, ReadDone(d)
      PROVE  TimerOK(c)' /\ WaitOK(c)'
  <2>1. PICK op \in {"get", "del"} : deadline' = [deadline EXCEPT ![op][d] = None]
    BY <1>4, ReadDoneEffect
  <2>2. \A o \in Ops, e \in Calls : deadline'[o][e] = IF o = op /\ e = d THEN None ELSE deadline[o][e]
    BY <1>2, <2>1 DEF RepoTypeOK, Ops
  <2>3. pc' = [pc EXCEPT ![d] = pc'[d]] /\ pc'[d] \in {"cache", "waiting"} /\ pc[d] = "reading"
    BY <1>4, ReadDoneEffect
  <2>4. /\ UNCHANGED <<now, startedAt, fetched>>
        /\ \A e \in Calls \ {d} : awaits'[e] = awaits[e] /\ reason'[e] = reason[e]
        /\ \/ /\ fetch' = fetch /\ upstreamTimer' = upstreamTimer
              /\ pc'[d] = "waiting" => awaits'[d] = inFlight[ProcOf[d]] /\ inFlight[ProcOf[d]] # None
           \/ /\ fetch' = [fetch EXCEPT ![d] = "upstream"] /\ fetch[d] = "none"
              /\ upstreamTimer' = [upstreamTimer EXCEPT ![d] = now + UpstreamTimeout]
              /\ awaits'[d] = d
    BY <1>4, ReadDoneFetch DEF worldVars
  <2>5. RealTime(fetched[c])' = RealTime(fetched[c])
    BY <2>4 DEF RealTime
  <2>6. upstreamTimer'[c] = upstreamTimer[c] \/ upstreamTimer'[c] = now + UpstreamTimeout
    BY <2>4 DEF StackInv, StackTypeOK
  <2>7. now \in Nat /\ now + UpstreamTimeout \in now..(now + UpstreamTimeout)
    BY TimerTypes
  <2>8. TimerOK(c)'
    BY <1>1, <2>1, <2>2, <2>4, <2>5, <2>6, <2>7 DEF TimerOK, Ops
  <2>9. ASSUME pc'[c] = "waiting", c # d
        PROVE  WaitOK(c)'
    <3>1. pc[c] = "waiting" /\ awaits'[c] = awaits[c]
      BY <1>2, <2>3, <2>4, <2>9 DEF ServiceTypeOK
    <3>2. PICK f \in Calls : f = awaits[c] /\ fetch[f] \in Active
      BY <1>2, <3>1, WaitsForOwn
    <3>3. fetch'[f] = fetch[f] /\ upstreamTimer'[f] = upstreamTimer[f]
      BY <1>2, <2>4, <3>2 DEF ServiceTypeOK, StackInv, StackTypeOK, Active
    <3>4. ReadBy(c)' = ReadBy(c)
      BY <2>4, <2>9 DEF ReadBy
    <3>5. deadline'["set"][f] = deadline["set"][f]
      BY <2>1, <2>2, <3>2 DEF Ops
    <3>6. /\ fetch[f] = "upstream" => upstreamTimer[f] <= ReadBy(c) + UpstreamTimeout
          /\ fetch[f] = "writing" => deadline["set"][f] <= ReadBy(c) + UpstreamTimeout + CmdTimeout
      BY <1>1, <3>1, <3>2 DEF WaitOK
    <3>7. awaits'[c] = f
      BY <3>1, <3>2
    <3> QED BY <3>3, <3>4, <3>5, <3>6, <3>7, WaitOfFetch
  <2>10. ASSUME pc'[c] = "waiting", c = d
         PROVE  WaitOK(c)'
    <3>1. ReadBy(c)' \in Nat /\ now <= ReadBy(c)'
      BY <1>4, <2>10, ReadInTime
    <3>2. CASE fetch' = fetch /\ upstreamTimer' = upstreamTimer
      <4>1. PICK f \in Calls : f = awaits'[c]
        BY <1>2, <2>4, <2>10, <3>2 DEF ServiceTypeOK
      <4>2. ASSUME fetch[f] = "upstream"
            PROVE  upstreamTimer[f] <= ReadBy(c)' + UpstreamTimeout
        <5>1. upstreamTimer[f] \in now..(now + UpstreamTimeout)
          BY <4>2 DEF StackInv, TimersOK, TimerOK, RacesOK, RaceOK
        <5> QED BY <2>7, <3>1, <5>1
      <4>3. ASSUME fetch[f] = "writing"
            PROVE  deadline["set"][f] <= ReadBy(c)' + UpstreamTimeout + CmdTimeout
        <5>1. deadline["set"][f] = RealTime(fetched[f]) + CmdTimeout
          BY <4>3 DEF StackInv, TimersOK, TimerOK, RacesOK, RaceOK
        <5>2. RealTime(fetched[f]) \in Int /\ RealTime(fetched[f]) <= now
          BY <4>3, TimerTypes DEF StackInv, RacesOK, RaceOK
        <5> QED BY <2>7, <3>1, <5>1, <5>2
      <4>4. deadline'["set"][f] = deadline["set"][f]
        BY <2>1, <2>2 DEF Ops
      <4> QED BY <3>2, <4>1, <4>2, <4>3, <4>4, WaitOfFetch
    <3>3. CASE /\ fetch' = [fetch EXCEPT ![d] = "upstream"]
               /\ upstreamTimer' = [upstreamTimer EXCEPT ![d] = now + UpstreamTimeout]
               /\ awaits'[d] = d
      <4>1. fetch'[d] = "upstream" /\ upstreamTimer'[d] = now + UpstreamTimeout
        BY <1>2, <3>3 DEF ServiceTypeOK, StackInv, StackTypeOK
      <4>2. now + UpstreamTimeout <= ReadBy(c)' + UpstreamTimeout
        BY <2>7, <3>1
      <4>3. awaits'[d] = d /\ c = d
        BY <2>10, <3>3
      <4> QED BY <4>1, <4>2, <4>3, WaitOfFetch
    <3> QED BY <2>4, <3>2, <3>3
  <2> QED BY <2>8, <2>9, <2>10 DEF WaitOK
<1>5. ASSUME NEW d \in Calls, Discard(d)
      PROVE  TimerOK(c)' /\ WaitOK(c)'
  <2>1. PICK i \in DOMAIN turn[ProcOf[d]] : turn[ProcOf[d]][i].cmd = Command("get", d)
    BY <1>5 DEF Discard, DiscardBegins
  <2>2. /\ deadline' = [deadline EXCEPT !["get"][d] = None, !["del"][d] = now + CmdTimeout]
        /\ UNCHANGED <<worldVars, serviceVars, stackVars>>
    BY <1>5 DEF Discard, DiscardBegins
  <2>3. deadline["get"][d] # None
    BY <2>1, TurnAwaits DEF Ops
  <2>4. deadline["get"][d] \in Nat /\ now \in Nat /\ pc[d] = "reading" /\ startedAt[d] \in Nat
    BY <2>3, TimerTypes DEF StackInv, RacesOK, RaceOK, Ops
  <2>5. now <= deadline["get"][d] /\ deadline["get"][d] <= startedAt[d] + CmdTimeout
    BY <2>3 DEF StackInv, TimersOK, TimerOK, Ops
  <2>6. /\ now + CmdTimeout <= startedAt[d] + 2 * CmdTimeout
        /\ now <= now + CmdTimeout
    BY <2>4, <2>5
  <2>7. \A op \in Ops, e \in Calls :
          deadline'[op][e] = IF e = d /\ op = "get" THEN None
                             ELSE IF e = d /\ op = "del" THEN now + CmdTimeout ELSE deadline[op][e]
    BY <1>2, <2>2 DEF RepoTypeOK, Ops
  <2>8. RealTime(fetched[c])' = RealTime(fetched[c])
    BY <2>2 DEF RealTime, serviceVars
  <2>9. TimerOK(c)'
    <3>1. UNCHANGED <<now, upstreamTimer, startedAt, fetched>>
      BY <2>2 DEF worldVars, serviceVars, stackVars
    <3>2. CASE c # d
      BY <1>1, <2>7, <2>8, <3>1, <3>2 DEF TimerOK, Ops
    <3>3. CASE c = d
      BY <1>1, <2>6, <2>7, <2>8, <3>1, <3>3 DEF TimerOK, Ops
    <3> QED BY <3>2, <3>3
  <2>10. WaitOK(c)'
    <3>1. UNCHANGED <<pc, awaits, fetch, reason, upstreamTimer, startedAt>>
      BY <2>2 DEF serviceVars, stackVars
    <3>2. pc[c] = "waiting" => deadline'["set"][awaits[c]] = deadline["set"][awaits[c]]
      BY <1>2, <2>7, WaitsForOwn DEF Ops
    <3> QED BY <1>1, <3>1, <3>2 DEF WaitOK, ReadBy
  <2> QED BY <2>9, <2>10
<1>6. ASSUME NEW f \in Calls, UpstreamAnswers(f)
      PROVE  TimerOK(c)' /\ WaitOK(c)'
  <2>1. /\ fetch[f] = "upstream" /\ fetch' = [fetch EXCEPT ![f] = "writing"]
        /\ fetched' = [fetched EXCEPT ![f] = Stamped(f)] /\ RealTime(Stamped(f)) = now
        /\ deadline' = [deadline EXCEPT !["set"][f] = now + CmdTimeout]
        /\ upstreamTimer' = [upstreamTimer EXCEPT ![f] = None]
        /\ UNCHANGED <<now, pc, awaits, reason, startedAt>>
    BY <1>6, AnswersEffect DEF worldVars
  <2>2. \A op \in Ops, e \in Calls :
          deadline'[op][e] = IF op = "set" /\ e = f THEN now + CmdTimeout ELSE deadline[op][e]
    BY <1>2, <2>1 DEF RepoTypeOK, Ops
  <2>3. now \in Nat /\ upstreamTimer[f] \in now..(now + UpstreamTimeout)
    BY <2>1, TimerTypes DEF StackInv, RacesOK, RaceOK, TimersOK, TimerOK
  <2>4. /\ RealTime(fetched[c])' = IF c = f THEN now ELSE RealTime(fetched[c])
        /\ upstreamTimer'[c] = IF c = f THEN None ELSE upstreamTimer[c]
    <3>1. RealTime(fetched[c])' = RealTime(fetched'[c])
      BY DEF RealTime
    <3> QED BY <1>2, <2>1, <3>1 DEF ServiceTypeOK, StackInv, StackTypeOK
  <2>5. TimerOK(c)'
    BY <1>1, <2>1, <2>2, <2>3, <2>4 DEF TimerOK, Ops
  <2>6. ASSUME pc[c] = "waiting"
        PROVE  WaitOK(c)'
    <3>1. PICK g \in Calls : g = awaits[c]
      BY <1>2, <2>6, WaitsForOwn
    <3>2. awaits'[c] = g /\ ReadBy(c)' = ReadBy(c)
      BY <2>1, <3>1 DEF ReadBy
    <3>3. /\ fetch[g] = "upstream" => upstreamTimer[g] <= ReadBy(c) + UpstreamTimeout
          /\ fetch[g] = "writing" => deadline["set"][g] <= ReadBy(c) + UpstreamTimeout + CmdTimeout
      BY <1>1, <2>6, <3>1 DEF WaitOK
    <3>4. CASE g = f
      <4>1. ReadBy(c) \in Int
        BY <2>6, TimerTypes DEF ReadBy
      <4>2. now + CmdTimeout <= ReadBy(c) + UpstreamTimeout + CmdTimeout
        BY <2>1, <2>3, <3>3, <3>4, <4>1
      <4>3. fetch'[g] = "writing" /\ deadline'["set"][g] = now + CmdTimeout
        BY <1>2, <2>1, <2>2, <3>4 DEF ServiceTypeOK, Ops
      <4> QED BY <3>2, <4>2, <4>3, WaitOfFetch
    <3>5. CASE g # f
      <4>1. /\ fetch'[g] = fetch[g] /\ upstreamTimer'[g] = upstreamTimer[g]
            /\ deadline'["set"][g] = deadline["set"][g]
        BY <1>2, <2>1, <2>2, <3>5 DEF ServiceTypeOK, StackInv, StackTypeOK, Ops
      <4> QED BY <3>2, <3>3, <4>1, WaitOfFetch
    <3> QED BY <3>4, <3>5
  <2> QED BY <2>1, <2>5, <2>6 DEF WaitOK
<1>7. ASSUME NEW f \in Calls, UpstreamFails(f) \/ WriteDone(f)
      PROVE  TimerOK(c)' /\ WaitOK(c)'
  <2>1. /\ UNCHANGED <<now, awaits, reason, fetched, startedAt>>
        /\ \/ upstreamTimer' = [upstreamTimer EXCEPT ![f] = None] /\ deadline' = deadline
           \/ upstreamTimer' = upstreamTimer /\ deadline' = [deadline EXCEPT !["set"][f] = None]
        /\ \E outcome \in {"failed", "stored", "unstored"} : fetch' = [fetch EXCEPT ![f] = outcome]
    BY <1>7, SettlesEffect DEF worldVars
  <2>2. /\ pc'[c] = pc[c] \/ pc'[c] \in {"live", "failed"}
        /\ pc[c] = "waiting" /\ awaits[c] = f => pc'[c] \in {"live", "failed"}
    BY <1>7, SettlesEffect
  <2>3. \A op \in Ops, e \in Calls :
          deadline'[op][e] = deadline[op][e] \/ (e = f /\ deadline'[op][e] = None)
    <3>1. CASE deadline' = deadline
      BY <3>1
    <3>2. CASE deadline' = [deadline EXCEPT !["set"][f] = None]
      BY <1>2, <3>2 DEF RepoTypeOK, Ops
    <3> QED BY <2>1, <3>1, <3>2
  <2>4. \A e \in Calls : upstreamTimer'[e] = upstreamTimer[e] \/ (e = f /\ upstreamTimer'[e] = None)
    BY <2>1 DEF StackInv, StackTypeOK
  <2>5. RealTime(fetched[c])' = RealTime(fetched[c])
    BY <2>1 DEF RealTime
  <2>6. TimerOK(c)'
    BY <1>1, <2>1, <2>3, <2>4, <2>5 DEF TimerOK, Ops
  <2>7. ASSUME pc'[c] = "waiting"
        PROVE  WaitOK(c)'
    <3>1. PICK g \in Calls : g = awaits[c] /\ g # f
      BY <1>2, <2>2, <2>7, WaitsForOwn
    <3>2. /\ awaits'[c] = g /\ ReadBy(c)' = ReadBy(c)
          /\ fetch'[g] = fetch[g] /\ upstreamTimer'[g] = upstreamTimer[g]
          /\ deadline'["set"][g] = deadline["set"][g]
      BY <1>2, <2>1, <2>3, <2>4, <3>1 DEF ServiceTypeOK, ReadBy, Ops
    <3>3. pc[c] = "waiting"
      BY <2>2, <2>7
    <3>4. /\ fetch[g] = "upstream" => upstreamTimer[g] <= ReadBy(c) + UpstreamTimeout
          /\ fetch[g] = "writing" => deadline["set"][g] <= ReadBy(c) + UpstreamTimeout + CmdTimeout
      BY <1>1, <3>1, <3>3 DEF WaitOK
    <3> QED BY <3>2, <3>4, WaitOfFetch
  <2> QED BY <2>6, <2>7 DEF WaitOK
<1>8. ASSUME NEW p \in Procs, Dies(p)
      PROVE  TimerOK(c)' /\ WaitOK(c)'
  <2>1. /\ \A e \in Calls : pc'[e] = IF ProcOf[e] = p /\ pc[e] \in Pending THEN "lost" ELSE pc[e]
        /\ \A e \in Calls : fetch'[e] = IF ProcOf[e] = p /\ fetch[e] \in Active THEN "lost" ELSE fetch[e]
        /\ \A op \in Ops, e \in Calls : deadline'[op][e] = IF ProcOf[e] = p THEN None ELSE deadline[op][e]
        /\ \A e \in Calls : upstreamTimer'[e] = IF ProcOf[e] = p THEN None ELSE upstreamTimer[e]
        /\ UNCHANGED <<now, fetched, startedAt, awaits, reason>>
    BY <1>8 DEF Dies, Killed, ServiceDies, RepoDies
  <2>2. RealTime(fetched[c])' = RealTime(fetched[c])
    BY <2>1 DEF RealTime
  <2>3. TimerOK(c)'
    BY <1>1, <2>1, <2>2 DEF TimerOK, Ops
  <2>4. ASSUME pc'[c] = "waiting"
        PROVE  WaitOK(c)'
    <3>1. pc[c] = "waiting" /\ ProcOf[c] # p
      BY <2>1, <2>4 DEF Pending
    <3>2. PICK g \in Calls : g = awaits[c] /\ ProcOf[g] # p
      BY <1>2, <3>1, WaitsForOwn
    <3>3. /\ awaits'[c] = g /\ ReadBy(c)' = ReadBy(c)
          /\ fetch'[g] = fetch[g] /\ upstreamTimer'[g] = upstreamTimer[g]
          /\ deadline'["set"][g] = deadline["set"][g]
      BY <2>1, <3>2 DEF ReadBy, Ops
    <3>4. /\ fetch[g] = "upstream" => upstreamTimer[g] <= ReadBy(c) + UpstreamTimeout
          /\ fetch[g] = "writing" => deadline["set"][g] <= ReadBy(c) + UpstreamTimeout + CmdTimeout
      BY <1>1, <3>1, <3>2 DEF WaitOK
    <3> QED BY <3>3, <3>4, WaitOfFetch
  <2> QED BY <2>3, <2>4 DEF WaitOK
<1>9. ASSUME Tick
      PROVE  TimerOK(c)' /\ WaitOK(c)'
  <2>1. /\ now' = now + 1
        /\ UNCHANGED <<pc, awaits, reason, fetch, fetched, deadline, upstreamTimer, startedAt>>
    BY <1>9 DEF Tick, Advance, serviceVars, repoVars, stackVars
  <2>2. (\A op \in Ops : deadline[op][c] # now) /\ upstreamTimer[c] # now
    BY <1>9 DEF Tick, Timers
  <2>3. RealTime(fetched[c])' = RealTime(fetched[c])
    BY <2>1 DEF RealTime
  <2>4. /\ now \in Nat
        /\ upstreamTimer[c] # None => upstreamTimer[c] \in Nat
        /\ \A op \in Ops : deadline[op][c] # None => deadline[op][c] \in Nat
    BY TimerTypes
  <2>5. \A op \in Ops : deadline[op][c] # None => now + 1 <= deadline[op][c]
    BY <1>1, <2>2, <2>4 DEF TimerOK
  <2>6. upstreamTimer[c] # None => upstreamTimer[c] \in (now + 1)..(now + 1 + UpstreamTimeout)
    BY <1>1, <2>2, <2>4 DEF TimerOK
  <2>7. TimerOK(c)'
    BY <1>1, <2>1, <2>3, <2>5, <2>6 DEF TimerOK
  <2>8. WaitOK(c)'
    BY <1>1, <2>1 DEF WaitOK, ReadBy
  <2> QED BY <2>7, <2>8
<1>10. ASSUME UNCHANGED <<now, pc, awaits, reason, fetch, fetched, deadline, upstreamTimer, startedAt>>
      PROVE  TimerOK(c)' /\ WaitOK(c)'
  <2>1. RealTime(fetched[c])' = RealTime(fetched[c])
    BY <1>10 DEF RealTime
  <2> QED BY <1>1, <1>10, <2>1 DEF TimerOK, WaitOK, ReadBy
<1>11. ASSUME RedisSteps
      PROVE  UNCHANGED <<now, pc, awaits, reason, fetch, fetched, deadline, upstreamTimer, startedAt>>
  BY <1>11 DEF RedisSteps, RedisExecutes, ChunkArrives, LinkDrops, LinkReconnects,
              QueueFlushed, RedisRestarts, worldVars, serviceVars, stackVars
<1> QED
  BY <1>3, <1>4, <1>5, <1>6, <1>7, <1>8, <1>9, <1>10, <1>11
     DEF Next, TimeIsUp, vars, worldVars, serviceVars, repoVars, stackVars

-----------------------------------------------------------------------------
(* Types                                                                   *)

\* Sending a command leaves the connection and the turn typed.
LEMMA SendTypes ==
  ASSUME RepoTypeOK, now \in Nat, NEW cmd \in Commands, Send(cmd), store' = store
  PROVE  RepoTypeOK'
<1>1. /\ \A s \in Seq(Commands) : Append(s, cmd) \in Seq(Commands)
      /\ \A s \in Seq(Settlements) :
           Append(s, [cmd |-> cmd, reply |-> Rejection]) \in Seq(Settlements)
  BY ReplyType, AppendProperties DEF Settlements
<1>2. cmd.op \in Ops /\ cmd.call \in Calls /\ now + CmdTimeout \in Nat
  BY DEF Commands
<1>3. deadline' \in [Ops -> [Calls -> Nat \cup {None}]]
  BY <1>2 DEF RepoTypeOK, Send, SendWithin
<1>4. /\ wire \in [Procs -> Seq(Commands)] /\ turn \in [Procs -> Seq(Settlements)]
      /\ ProcOf[cmd.call] \in Procs
  BY <1>2 DEF RepoTypeOK
<1>5. CASE link[ProcOf[cmd.call]] = "up"
  <2>1. /\ wire' = [wire EXCEPT ![ProcOf[cmd.call]] = Append(@, cmd)] /\ turn' = turn
        /\ UNCHANGED <<link, answers, drops>>
    BY <1>5 DEF Send, SendWithin
  <2>2. Append(wire[ProcOf[cmd.call]], cmd) \in Seq(Commands)
    BY <1>1, <1>4
  <2>3. wire' \in [Procs -> Seq(Commands)]
    BY <1>4, <2>1, <2>2
  <2> QED BY <1>3, <2>1, <2>3 DEF RepoTypeOK
<1>6. CASE link[ProcOf[cmd.call]] # "up"
  <2> DEFINE refused == [cmd |-> cmd, reply |-> Rejection]
  <2>1. /\ turn' = [turn EXCEPT ![ProcOf[cmd.call]] = Append(@, refused)] /\ wire' = wire
        /\ UNCHANGED <<link, answers, drops>>
    BY <1>6 DEF Send, SendWithin
  <2>2. Append(turn[ProcOf[cmd.call]], refused) \in Seq(Settlements)
    BY <1>1, <1>4
  <2> HIDE DEF refused
  <2>3. turn' \in [Procs -> Seq(Settlements)]
    BY <1>4, <2>1, <2>2
  <2> QED BY <1>3, <2>1, <2>3 DEF RepoTypeOK
<1> QED BY <1>5, <1>6

\* So does the end of a race.
LEMMA RaceTypes ==
  ASSUME StackInv, NEW op \in Ops, NEW c \in Calls, NEW reply, RaceEnds(op, c, reply),
         UNCHANGED <<link, wire, answers, store, drops>>
  PROVE  RepoTypeOK'
<1>1. RepoTypeOK /\ ProcOf[c] \in Procs
  BY DEF StackInv, StackTypeOK
<1>2. deadline' \in [Ops -> [Calls -> Nat \cup {None}]]
  <2>1. deadline' = [deadline EXCEPT ![op][c] = None]
    BY RaceEffect
  <2> QED BY <1>1, <2>1 DEF RepoTypeOK
<1>3. \A i \in DOMAIN turn[ProcOf[c]] : RemoveAt(turn[ProcOf[c]], i) \in Seq(Settlements)
  BY <1>1, RemoveAtProperties DEF RepoTypeOK
<1>4. turn' \in [Procs -> Seq(Settlements)]
  <2>1. turn' = turn \/ \E i \in DOMAIN turn[ProcOf[c]] :
                           turn' = [turn EXCEPT ![ProcOf[c]] = RemoveAt(@, i)]
    BY RaceEffect
  <2>2. turn \in [Procs -> Seq(Settlements)]
    BY <1>1 DEF RepoTypeOK
  <2>3. ASSUME NEW i \in DOMAIN turn[ProcOf[c]],
               turn' = [turn EXCEPT ![ProcOf[c]] = RemoveAt(@, i)]
        PROVE  turn' \in [Procs -> Seq(Settlements)]
    <3>1. PICK rest : rest = RemoveAt(turn[ProcOf[c]], i)
      OBVIOUS
    <3>2. rest \in Seq(Settlements) /\ turn' = [turn EXCEPT ![ProcOf[c]] = rest]
      BY <1>3, <2>3, <3>1
    <3> QED BY <1>1, <2>2, <3>2
  <2> QED BY <2>1, <2>2, <2>3
<1> QED BY <1>1, <1>2, <1>4 DEF RepoTypeOK

\* Every step leaves the repository and Redis typed.
LEMMA RepoTypeKept == StackInv /\ [Next]_vars => RepoTypeOK'
<1> SUFFICES ASSUME StackInv, [Next]_vars
             PROVE  RepoTypeOK'
  OBVIOUS
<1>1. RepoTypeOK /\ now \in Nat
  BY DEF StackInv, StackTypeOK, ServiceInv, ServiceTypeOK, WorldTypeOK
<1>2. ASSUME NEW c \in Calls, Request(c)
      PROVE  RepoTypeOK'
  <2>1. Command("get", c) \in Commands
    BY DEF Command, Commands, Ops
  <2> QED BY <1>1, <1>2, <2>1, SendTypes DEF Request, SendGet, Send, SendWithin
<1>3. ASSUME NEW f \in Calls, UpstreamAnswers(f)
      PROVE  RepoTypeOK'
  <2>1. SetCommand(f, Stamped(f)) \in Commands
    BY <1>3, AnswersEffect DEF SetCommand, Commands, Ops
  <2> QED BY <1>1, <1>3, <2>1, SendTypes DEF UpstreamAnswers, SendSet, Send, SendWithin
<1>4. ASSUME NEW c \in Calls, ReadDone(c) \/ WriteDone(c)
      PROVE  RepoTypeOK'
  <2>1. PICK op \in Ops : \E reply : RaceEnds(op, c, reply)
    BY <1>4 DEF ReadDone, ReadReturns, GetReturns, DiscardReturns, WriteDone, WriteReturns, Ops
  <2>2. UNCHANGED <<link, wire, answers, store, drops>>
    BY <1>4 DEF ReadDone, ReadReturns, GetReturns, DiscardReturns, WriteDone, WriteReturns
  <2> QED BY <2>1, <2>2, RaceTypes
<1>5. ASSUME NEW c \in Calls, Discard(c)
      PROVE  RepoTypeOK'
  <2> DEFINE p == ProcOf[c]
             del == Command("del", c)
             refused == [cmd |-> del, reply |-> Rejection]
  <2>1. del \in Commands /\ refused \in Settlements
    BY <1>1, ReplyType DEF Command, Commands, Settlements, Ops
  <2>2. PICK i \in DOMAIN turn[p] :
          /\ deadline' = [deadline EXCEPT !["get"][c] = None, !["del"][c] = now + CmdTimeout]
          /\ \/ /\ wire' = [wire EXCEPT ![p] = Append(@, del)]
                /\ turn' = [turn EXCEPT ![p] = RemoveAt(@, i)]
             \/ /\ turn' = [turn EXCEPT ![p] = Append(RemoveAt(@, i), refused)]
                /\ wire' = wire
          /\ UNCHANGED <<link, answers, store, drops>>
    BY <1>5 DEF Discard, DiscardBegins
  <2>3. deadline' \in [Ops -> [Calls -> Nat \cup {None}]]
    <3>1. now + CmdTimeout \in Nat
      BY <1>1
    <3>2. [deadline["get"] EXCEPT ![c] = None] \in [Calls -> Nat \cup {None}]
      BY <1>1 DEF RepoTypeOK, Ops
    <3>3. [deadline["del"] EXCEPT ![c] = now + CmdTimeout] \in [Calls -> Nat \cup {None}]
      BY <1>1, <3>1 DEF RepoTypeOK, Ops
    <3>4. deadline' = [op \in Ops |-> CASE op = "get" -> [deadline["get"] EXCEPT ![c] = None]
                                         [] op = "del" -> [deadline["del"] EXCEPT ![c] = now + CmdTimeout]
                                         [] OTHER -> deadline[op]]
      BY <1>1, <2>2 DEF RepoTypeOK, Ops
    <3> QED BY <1>1, <3>2, <3>3, <3>4 DEF RepoTypeOK, Ops
  <2>4. RemoveAt(turn[p], i) \in Seq(Settlements) /\ p \in Procs
    BY <1>1, RemoveAtProperties DEF RepoTypeOK
  <2>5. /\ \A s \in Seq(Commands) : Append(s, del) \in Seq(Commands)
        /\ \A s \in Seq(Settlements) : Append(s, refused) \in Seq(Settlements)
    BY <2>1, AppendProperties
  <2> HIDE DEF p, del, refused
  <2>6. wire' \in [Procs -> Seq(Commands)] /\ turn' \in [Procs -> Seq(Settlements)]
    <3>1. wire \in [Procs -> Seq(Commands)] /\ turn \in [Procs -> Seq(Settlements)]
      BY <1>1 DEF RepoTypeOK
    <3>2. /\ Append(wire[p], del) \in Seq(Commands)
          /\ Append(RemoveAt(turn[p], i), refused) \in Seq(Settlements)
      BY <2>4, <2>5, <3>1
    <3>3. wire' \in [Procs -> Seq(Commands)]
      BY <2>2, <2>4, <3>1, <3>2
    <3>4. PICK rest : rest = RemoveAt(turn[p], i)
      OBVIOUS
    <3>5. turn' = [turn EXCEPT ![p] = rest] \/ turn' = [turn EXCEPT ![p] = Append(rest, refused)]
      BY <2>2, <3>4
    <3>6. rest \in Seq(Settlements) /\ Append(rest, refused) \in Seq(Settlements)
      BY <2>4, <3>2, <3>4
    <3>7. turn' \in [Procs -> Seq(Settlements)]
      BY <2>4, <3>1, <3>5, <3>6
    <3> QED BY <3>3, <3>7
  <2> QED BY <1>1, <2>2, <2>3, <2>6 DEF RepoTypeOK
<1>6. ASSUME NEW p \in Procs, RedisExecutes(p)
      PROVE  RepoTypeOK'
  <2>1. PICK reply \in Replies : answers' = answers \/
          answers' = [answers EXCEPT ![p] = Append(@, [cmd |-> Head(wire[p]), reply |-> reply])]
    BY <1>1, <1>6, ReplyType DEF RedisExecutes
  <2>2. Head(wire[p]) \in Commands /\ Tail(wire[p]) \in Seq(Commands)
    BY <1>1, <1>6, HeadTailProperties DEF RedisExecutes, RepoTypeOK
  <2>3. \A s \in Seq(Settlements) :
          Append(s, [cmd |-> Head(wire[p]), reply |-> reply]) \in Seq(Settlements)
    BY <2>2, AppendProperties DEF Settlements
  <2>4. answers' \in [Procs -> Seq(Settlements)]
    <3>1. answers \in [Procs -> Seq(Settlements)]
      BY <1>1 DEF RepoTypeOK
    <3>2. Append(answers[p], [cmd |-> Head(wire[p]), reply |-> reply]) \in Seq(Settlements)
      BY <2>3, <3>1
    <3> QED BY <2>1, <3>1, <3>2
  <2>5. wire' \in [Procs -> Seq(Commands)]
    BY <1>1, <1>6, <2>2 DEF RedisExecutes, RepoTypeOK
  <2> QED BY <1>1, <1>6, <2>4, <2>5, StoreKept DEF RedisExecutes, RepoTypeOK
<1>7. ASSUME NEW p \in Procs, ChunkArrives(p)
      PROVE  RepoTypeOK'
  <2>1. Len(answers[p]) \in Nat
    BY <1>1, LenProperties DEF RepoTypeOK
  <2>2. PICK n \in 1..MaxChunk :
          /\ n <= Len(answers[p])
          /\ \E settled \in AwaitedOf(p, n) : turn' = [turn EXCEPT ![p] = settled]
          /\ answers' = [answers EXCEPT ![p] = SubSeq(@, n + 1, Len(@))]
    BY <1>7 DEF ChunkArrives
  <2>3. n \in 1..Len(answers[p]) /\ UNCHANGED <<deadline, link, wire, store, drops>>
    BY <1>7, <2>1, <2>2 DEF ChunkArrives
  <2>4. answers[p] \in Seq(Settlements) /\ NoRepeats(answers[p], wire[p])
    BY <1>1 DEF StackInv, LinesOK, LineOK, RepoTypeOK
  <2>5. \A settled \in AwaitedOf(p, n) : settled \in Seq(Settlements)
    BY <2>4, <2>3, TurnBegins
  <2>6. SubSeq(answers[p], n + 1, Len(answers[p])) \in Seq(Settlements)
    BY <2>4, <2>3, LineDelivers
  <2>7. turn' \in [Procs -> Seq(Settlements)] /\ answers' \in [Procs -> Seq(Settlements)]
    BY <1>1, <2>2, <2>5, <2>6 DEF RepoTypeOK
  <2> QED BY <1>1, <2>7, <2>3 DEF RepoTypeOK
<1>8. \A p \in Procs : Resendable(p) \in Seq(Commands)
  <2> SUFFICES ASSUME NEW p \in Procs
               PROVE  Resendable(p) \in Seq(Commands)
    OBVIOUS
  <2>1. /\ answers[p] \in Seq(Settlements) /\ wire[p] \in Seq(Commands)
        /\ NoRepeats(answers[p], wire[p])
    BY <1>1 DEF StackInv, LinesOK, LineOK, RepoTypeOK
  <2>2. [i \in DOMAIN answers[p] |-> answers[p][i].cmd] \o wire[p] \in Seq(Commands)
    BY <2>1, LineResends
  <2> QED BY <2>2 DEF Resendable
<1>9. <<>> \in Seq(Commands) /\ <<>> \in Seq(Settlements)
  BY EmptySeq
<1>10. ASSUME NEW p \in Procs, LinkDrops(p)
      PROVE  RepoTypeOK'
  <2>1. wire' \in [Procs -> Seq(Commands)]
    BY <1>1, <1>8, <1>10 DEF LinkDrops, RepoTypeOK
  <2>2. answers' \in [Procs -> Seq(Settlements)]
    BY <1>1, <1>9, <1>10 DEF LinkDrops, RepoTypeOK
  <2>3. drops' \in 0..MaxDrops /\ link' \in [Procs -> {"up", "down"}]
    BY <1>1, <1>10 DEF LinkDrops, RepoTypeOK
  <2> QED BY <1>1, <1>10, <2>1, <2>2, <2>3 DEF LinkDrops, RepoTypeOK
<1>11. ASSUME NEW p \in Procs, LinkReconnects(p) \/ QueueFlushed(p)
       PROVE  RepoTypeOK'
  <2>1. CASE LinkReconnects(p)
    BY <1>1, <2>1 DEF LinkReconnects, RepoTypeOK
  <2>2. CASE QueueFlushed(p)
    <3>1. wire' \in [Procs -> Seq(Commands)]
      BY <1>1, <1>9, <2>2 DEF QueueFlushed, RepoTypeOK
    <3> QED BY <1>1, <2>2, <3>1 DEF QueueFlushed, RepoTypeOK
  <2> QED BY <1>11, <2>1, <2>2
<1>12. ASSUME RedisRestarts
       PROVE  RepoTypeOK'
  <2>1. wire' \in [Procs -> Seq(Commands)] /\ answers' \in [Procs -> Seq(Settlements)]
    BY <1>8, <1>9, <1>12 DEF RedisRestarts
  <2>2. drops' \in 0..MaxDrops /\ link' \in [Procs -> {"up", "down"}]
    BY <1>1, <1>12 DEF RedisRestarts, RepoTypeOK
  <2> QED BY <1>1, <1>12, <2>1, <2>2, StoreKept DEF RedisRestarts, RepoTypeOK
<1>13. ASSUME NEW p \in Procs, Dies(p)
       PROVE  RepoTypeOK'
  <2>1. PICK n \in 0..Len(wire[p]) : wire' = [wire EXCEPT ![p] = SubSeq(@, 1, n)]
    BY <1>13 DEF Dies, RepoDies
  <2>2. wire[p] \in Seq(Commands) /\ NoRepeats(answers[p], wire[p])
    BY <1>1 DEF StackInv, LinesOK, LineOK, RepoTypeOK
  <2>3. SubSeq(wire[p], 1, n) \in Seq(Commands)
    BY <2>2, LineEnds
  <2>4. wire' \in [Procs -> Seq(Commands)]
    BY <1>1, <2>1, <2>3 DEF RepoTypeOK
  <2>5. answers' \in [Procs -> Seq(Settlements)] /\ turn' \in [Procs -> Seq(Settlements)]
    BY <1>1, <1>9, <1>13 DEF Dies, RepoDies, RepoTypeOK
  <2>6. deadline' \in [Ops -> [Calls -> Nat \cup {None}]]
    BY <1>1, <1>13 DEF Dies, RepoDies, RepoTypeOK
  <2> QED BY <1>1, <1>13, <2>4, <2>5, <2>6 DEF Dies, RepoDies, RepoTypeOK
<1>14. ASSUME UNCHANGED repoVars
       PROVE  RepoTypeOK'
  BY <1>1, <1>14 DEF RepoTypeOK, repoVars
<1> QED
  BY <1>2, <1>3, <1>4, <1>5, <1>6, <1>7, <1>10, <1>11, <1>12, <1>13, <1>14
     DEF Next, RedisSteps, UpstreamFails, Tick, TimeIsUp, vars

\* A call is answered with a snapshot that was fetched.
LEMMA AnswersKept == StackInv /\ [Next]_vars => AnswersOK'
<1> SUFFICES ASSUME StackInv, [Next]_vars, NEW c \in Calls, pc'[c] \in Served
             PROVE  Known(answer[c])'
  BY DEF AnswersOK
<1>1. /\ ServiceTypeOK /\ WritingHasSnapshot
      /\ pc[c] \in Served => Known(answer[c])
      /\ \A f \in Calls : fetched[f] # None => Known(fetched[f])
  <2>1. ServiceTypeOK /\ WritingHasSnapshot
    BY DEF StackInv, ServiceInv
  <2>2. \A f \in Calls : fetched[f] # None => Known(fetched[f])
    BY <2>1 DEF StackInv, RacesOK, RaceOK, Known, ServiceTypeOK
  <2> QED BY <2>1, <2>2 DEF StackInv, AnswersOK
<1>2. \A s : Known(s) => Known(s)'
  BY KnownKept
<1>3. SUFFICES \/ pc[c] \in Served /\ answer'[c] = answer[c]
               \/ Known(answer'[c])
  <2>1. PICK s : s = answer'[c]
    OBVIOUS
  <2>2. Known(s)
    BY <1>1, <1>3, <2>1
  <2>3. Known(s)'
    BY <1>2, <2>2
  <2> QED BY <2>1, <2>3 DEF Known
<1>4. ASSUME NEW d \in Calls, GetRates(d)
      PROVE  pc[c] \in Served /\ answer'[c] = answer[c]
  BY <1>1, <1>4 DEF GetRates, Served, ServiceTypeOK
<1>5. ASSUME NEW d \in Calls, NEW read \in PossibleReads, ReadSettles(d, read)
      PROVE  \/ pc[c] \in Served /\ answer'[c] = answer[c]
             \/ Known(answer'[c])
  <2>1. CASE ServeCached(d, read.snapshot) /\ read.status = "hit"
    <3>1. PICK f \in Calls : fetched[f] # None /\ read.snapshot = fetched[f]
      BY <2>1 DEF PossibleReads, Failing, Hit
    <3>2. pc' = [pc EXCEPT ![d] = "cache"] /\ answer' = [answer EXCEPT ![d] = fetched[f]]
      BY <2>1, <3>1 DEF ServeCached
    <3>3. Known(fetched[f])
      BY <1>1, <3>1
    <3>4. CASE c = d
      <4>1. answer'[c] = fetched[f]
        BY <1>1, <3>2, <3>4 DEF ServiceTypeOK
      <4> QED BY <3>3, <4>1 DEF Known
    <3>5. CASE c # d
      BY <1>1, <3>2, <3>5 DEF ServiceTypeOK
    <3> QED BY <3>4, <3>5
  <2>2. ASSUME NEW why, Miss(d, why)
        PROVE  pc[c] \in Served /\ answer'[c] = answer[c]
    BY <1>1, <2>2 DEF Miss, Served, ServiceTypeOK
  <2> QED BY <1>5, <2>1, <2>2 DEF ReadSettles
<1>6. ASSUME NEW f \in Calls, NEW outcome, NEW calls \in {"live", "failed"},
             calls = "live" => fetch[f] = "writing", FetchSettles(f, outcome, calls)
      PROVE  \/ pc[c] \in Served /\ answer'[c] = answer[c]
             \/ Known(answer'[c])
  <2>1. CASE pc'[c] = pc[c] /\ answer'[c] = answer[c]
    BY <2>1
  <2>2. CASE pc'[c] = calls /\ answer'[c] = fetched[f]
    <3>1. calls = "live" /\ fetched[f] # None
      BY <1>1, <1>6, <2>2 DEF Served, WritingHasSnapshot
    <3>2. Known(fetched[f])
      BY <1>1, <3>1
    <3> QED BY <2>2, <3>2 DEF Known
  <2> QED BY <1>6, <2>1, <2>2 DEF FetchSettles
<1>7. ASSUME NEW f \in Calls, ProviderResolves(f)
      PROVE  pc[c] \in Served /\ answer'[c] = answer[c]
  BY <1>7 DEF ProviderResolves
<1>8. ASSUME NEW f \in Calls, ProviderRejects(f)
      PROVE  \/ pc[c] \in Served /\ answer'[c] = answer[c]
             \/ Known(answer'[c])
  BY <1>6, <1>8 DEF ProviderRejects
<1>9. ASSUME NEW f \in Calls, NEW ok \in BOOLEAN, WriteSettles(f, ok)
      PROVE  \/ pc[c] \in Served /\ answer'[c] = answer[c]
             \/ Known(answer'[c])
  BY <1>6, <1>9 DEF WriteSettles
<1>10. ASSUME NEW p \in Procs, ServiceDies(p)
      PROVE  pc[c] \in Served /\ answer'[c] = answer[c]
  BY <1>10 DEF ServiceDies, Served
<1>11. ASSUME UNCHANGED serviceVars
       PROVE  pc[c] \in Served /\ answer'[c] = answer[c]
  BY <1>11 DEF serviceVars
<1> QED
  BY ServiceSteps, <1>4, <1>5, <1>7, <1>8, <1>9, <1>10, <1>11 DEF ServiceNext, svcVars

\* The newest stamp served, if any was served, is a stamp.
LEMMA NewestType ==
  ASSUME StackInv, NEW p \in Procs
  PROVE  NewestServed(p) \in Nat \cup {None}
<1> DEFINE D == {d \in Calls : ProcOf[d] = p /\ pc[d] \in Served}
           f == [d \in D |-> answer[d].fetchedAt]
           stamps == {answer[d].fetchedAt : d \in D}
<1>1. IsFiniteSet(D)
  BY FiniteAssumption, FS_Subset
<1>2. \A d \in D : f[d] = answer[d].fetchedAt /\ f[d] \in Nat
  BY DEF StackInv, AnswersOK, Known, Snapshots
<1>3. {f[d] : d \in D} = stamps
  BY <1>2
<1>4. NewestServed(p) = IF stamps = {} THEN None ELSE Max(stamps)
  BY DEF NewestServed
<1>5. CASE D = {}
  BY <1>4, <1>5
<1>6. CASE D # {}
  <2>1. stamps # {} /\ stamps \subseteq Nat
    BY <1>2, <1>3, <1>6
  <2> HIDE DEF D, f
  <2>2. \A d \in D : f[d] \in Int
    BY <1>2
  <2>3. Max({f[d] : d \in D}) \in {f[d] : d \in D}
    BY <1>1, <1>6, <2>2, GreatestIsMax
  <2>4. Max(stamps) \in stamps
    BY <1>3, <2>3
  <2> HIDE DEF stamps
  <2> QED BY <1>4, <2>1, <2>4
<1> QED BY <1>5, <1>6

\* Every step leaves every variable typed.
LEMMA TypeKept == StackInv /\ [Next]_vars => StackTypeOK'
<1> SUFFICES ASSUME StackInv, [Next]_vars
             PROVE  StackTypeOK'
  OBVIOUS
<1>1. ServiceTypeOK' /\ RepoTypeOK'
  BY ServiceInvKept, RepoTypeKept DEF ServiceInv
<1>2. /\ upstreamTimer \in [Calls -> Nat \cup {None}]
      /\ startedAt \in [Calls -> Nat \cup {None}]
      /\ newest \in [Calls -> Nat \cup {None}]
      /\ now \in Nat
  BY DEF StackInv, StackTypeOK, ServiceTypeOK, WorldTypeOK
<1>3. now + UpstreamTimeout \in Nat
  BY <1>2
<1>4. upstreamTimer' \in [Calls -> Nat \cup {None}]
  BY <1>2, <1>3 DEF Next, Request, ReadDone, Discard, UpstreamAnswers, UpstreamFails, WriteDone,
                    RedisSteps, Dies, Tick, TimeIsUp, vars, stackVars
<1>5. startedAt' \in [Calls -> Nat \cup {None}]
  BY <1>2 DEF Next, Request, ReadDone, Discard, UpstreamAnswers, UpstreamFails, WriteDone,
              RedisSteps, Dies, Tick, TimeIsUp, vars, stackVars
<1>6. newest' \in [Calls -> Nat \cup {None}]
  <2>1. \A p \in Procs : NewestServed(p) \in Nat \cup {None}
    BY NewestType
  <2>2. \A c \in Calls : ProcOf[c] \in Procs
    OBVIOUS
  <2> QED
    BY <1>2, <2>1, <2>2 DEF Next, Request, ReadDone, Discard, UpstreamAnswers, UpstreamFails,
                            WriteDone, RedisSteps, Dies, Tick, TimeIsUp, vars, stackVars
<1> QED BY <1>1, <1>4, <1>5, <1>6 DEF StackTypeOK

-----------------------------------------------------------------------------
(* The invariant, and what follows from it                                 *)

\* The program starts in the invariant: nothing is sent, awaited or armed.
LEMMA StackInvInit == Init => StackInv
<1> SUFFICES ASSUME Init
             PROVE  StackInv
  OBVIOUS
<1> USE DEF Init, RepoInit
<1>1. ServiceInv /\ now = 0
  BY ServiceInvInit DEF WorldInit
<1>2. \A c \in Calls : pc[c] = "idle" /\ fetch[c] = "none" /\ fetched[c] = None
  BY DEF ServiceInit
<1>3. DOMAIN <<>> = {} /\ <<>> \in Seq(Commands) /\ <<>> \in Seq(Settlements)
  BY EmptySeq
<1>4. store \in Values /\ store.kind # "snapshot"
  <2>1. PICK kind \in {"absent", "garbled", "wrongType"} : store = Holding(kind)
    OBVIOUS
  <2> QED BY <2>1 DEF Holding, Values, Kinds
<1>5. StackTypeOK
  <2>1. deadline \in [Ops -> [Calls -> Nat \cup {None}]]
    OBVIOUS
  <2> QED BY <1>1, <1>3, <1>4, <2>1 DEF StackTypeOK, ServiceInv, RepoTypeOK
<1>6. LinesOK /\ TurnsOK /\ RepliesOK
  BY <1>3 DEF LinesOK, LineOK, TurnsOK, TurnOK, RepliesOK, CommandsOf, NoRepeats, ToSet
<1>7. StoreOK /\ AnswersOK
  BY <1>2, <1>4 DEF StoreOK, AnswersOK, Served
<1>8. RacesOK /\ TimersOK
  BY <1>2 DEF RacesOK, RaceOK, TimersOK, TimerOK, WaitOK, Ops
<1> QED BY <1>1, <1>5, <1>6, <1>7, <1>8 DEF StackInv

\* Every step keeps it.
LEMMA StackInvStep == StackInv /\ [Next]_vars => StackInv'
BY TypeKept, ServiceInvKept, LinesKept, TurnsKept, RepliesKept, StoreKept, AnswersKept,
   RacesKept, TimersKept DEF StackInv

\* StackInv is an inductive invariant of the wired subsystem, whatever Redis, the
\* network and the upstream do and whoever is killed.
THEOREM StackInvariant == Spec => []StackInv
BY StackInvInit, StackInvStep, PTL DEF Spec

\* Every variable keeps its type.
THEOREM StackTypeCorrect == Spec => []StackTypeOK
<1>1. StackInv => StackTypeOK
  BY DEF StackInv
<1> QED BY <1>1, StackInvariant, PTL

\* A pending call has been pending no longer than the bound: what it waits for has a
\* timer, and the timers of the stages add up.
LEMMA LatencyFollows == StackInv => LatencyBound
<1> SUFFICES ASSUME StackInv, NEW c \in Calls, pc[c] \in Pending
             PROVE  now - startedAt[c] <=
                      UpstreamTimeout + (IF Discarding(c) THEN 3 ELSE 2) * CmdTimeout
  BY DEF LatencyBound
<1>1. RaceOK(c) /\ TimerOK(c) /\ WaitOK(c) /\ ServiceInv
  BY DEF StackInv, RacesOK, TimersOK
<1>2. /\ now \in Nat /\ startedAt[c] \in Nat
      /\ \A op \in Ops : deadline[op][c] # None => deadline[op][c] \in Nat
  BY TimerTypes DEF Pending
<1>3. SUFFICES \/ now <= startedAt[c] + UpstreamTimeout + 2 * CmdTimeout
               \/ Discarding(c) /\ now <= startedAt[c] + UpstreamTimeout + 3 * CmdTimeout
  BY <1>2
<1>4. CASE pc[c] = "reading"
  <2>1. CASE deadline["get"][c] # None
    BY <1>1, <1>2, <2>1 DEF TimerOK, Ops
  <2>2. CASE deadline["del"][c] # None
    BY <1>1, <1>2, <2>2 DEF TimerOK, Discarding, Ops
  <2> QED BY <1>1, <1>4, <2>1, <2>2 DEF RaceOK
<1>5. CASE pc[c] = "waiting"
  <2>1. PICK f \in Calls : f = awaits[c] /\ fetch[f] \in Active
    BY <1>1, <1>5, WaitsForOwn
  <2>2. RaceOK(f) /\ TimerOK(f)
    BY DEF StackInv, RacesOK, TimersOK
  <2>3. /\ upstreamTimer[f] # None => upstreamTimer[f] \in Nat
        /\ \A op \in Ops : deadline[op][f] # None => deadline[op][f] \in Nat
    BY TimerTypes
  <2>4. now <= ReadBy(c) + UpstreamTimeout + CmdTimeout
    <3>1. ReadBy(c) \in Int
      BY <1>2 DEF ReadBy
    <3>2. CASE fetch[f] = "upstream"
      <4>1. now <= upstreamTimer[f] /\ upstreamTimer[f] \in Nat
        BY <1>2, <2>2, <2>3, <3>2 DEF RaceOK, TimerOK
      <4>2. upstreamTimer[f] <= ReadBy(c) + UpstreamTimeout
        BY <1>1, <1>5, <2>1, <3>2 DEF WaitOK
      <4> QED BY <1>2, <3>1, <4>1, <4>2
    <3>3. CASE fetch[f] = "writing"
      <4>1. now <= deadline["set"][f] /\ deadline["set"][f] \in Nat
        BY <2>2, <2>3, <3>3 DEF RaceOK, TimerOK, Ops
      <4>2. deadline["set"][f] <= ReadBy(c) + UpstreamTimeout + CmdTimeout
        BY <1>1, <1>5, <2>1, <3>3 DEF WaitOK
      <4> QED BY <1>2, <3>1, <4>1, <4>2
    <3> QED BY <2>1, <3>2, <3>3 DEF Active
  <2>5. CASE reason[c] = "corrupt"
    BY <1>2, <2>4, <2>5 DEF ReadBy, Discarding
  <2>6. CASE reason[c] # "corrupt"
    BY <1>2, <2>4, <2>6 DEF ReadBy
  <2> QED BY <2>5, <2>6
<1> QED BY <1>4, <1>5 DEF Pending

\* A call is answered, or loses its process, within the upstream's limit and two command
\* timeouts, or three when it discards: for any number of calls and processes, and
\* however commands hang, connections drop and processes die.
THEOREM CallsAreBounded == Spec => []LatencyBound
BY LatencyFollows, StackInvariant, PTL

\* Zero or what lies above it.
LEMMA MaxWithZero ==
  ASSUME NEW a \in Int
  PROVE  Max({0, a}) \in Int /\ Max({0, a}) >= 0 /\ Max({0, a}) >= a
<1>1. \E x \in {0, a} : \A y \in {0, a} : x >= y
  OBVIOUS
<1> QED BY <1>1 DEF Max

\* A served call is served from its read or by the write of its fetch.
LEMMA AnswerIsFresh ==
  ASSUME StackInv, [Next]_vars, NEW c \in Calls, Serves(c)
  PROVE  LET written == ProcOf[answer'[c].by]
             ahead   == Skew[written] - Skew[ProcOf[c]]
         IN now - RealTime(answer'[c]) <= TTL + Max({0, ahead})
<1>1. ServiceTypeOK /\ now \in Nat /\ WritingHasSnapshot
  BY DEF StackInv, ServiceInv, ServiceTypeOK, WorldTypeOK
<1>2. SUFFICES ASSUME NEW s \in Snapshots, s = answer'[c],
                      \/ IsFresh(ProcOf[c], s)
                      \/ RealTime(s) \in Int /\ now <= RealTime(s) + CmdTimeout
               PROVE  now - RealTime(s) <= TTL + Max({0, Skew[ProcOf[s.by]] - Skew[ProcOf[c]]})
  <2>1. ASSUME NEW d \in Calls, ReadDone(d)
        PROVE  answer'[c] \in Snapshots /\ IsFresh(ProcOf[c], answer'[c])
    <3>1. PICK read \in PossibleReads : ReadSettles(d, read)
      BY <2>1, ReadIsPossible DEF ReadDone
    <3>2. /\ c = d /\ read.status = "hit" /\ IsFresh(ProcOf[d], read.snapshot)
          /\ ServeCached(d, read.snapshot)
      BY <1>1, <3>1 DEF ReadSettles, Miss, ServeCached, Serves, Served, ServiceTypeOK
    <3>3. PICK s : s = read.snapshot
      OBVIOUS
    <3>4. s \in Snapshots
      BY <1>1, <3>1, <3>2, <3>3, PossibleReadsType DEF MissReason
    <3>5. answer'[c] = s /\ IsFresh(ProcOf[c], s)
      BY <1>1, <3>2, <3>3 DEF ServeCached, ServiceTypeOK
    <3> QED BY <3>4, <3>5
  <2>2. ASSUME NEW f \in Calls, WriteDone(f)
        PROVE  /\ answer'[c] \in Snapshots
               /\ RealTime(answer'[c]) \in Int /\ now <= RealTime(answer'[c]) + CmdTimeout
    <3>1. fetch[f] = "writing" /\ answer'[c] = fetched[f]
      BY <2>2 DEF WriteDone, WriteSettles, FetchSettles, Serves
    <3>2. fetched[f] \in Snapshots /\ RealTime(fetched[f]) \in Int
      BY <1>1, <3>1, TimerTypes DEF WritingHasSnapshot
    <3>3. now <= deadline["set"][f] /\ deadline["set"][f] = RealTime(fetched[f]) + CmdTimeout
      BY <3>1 DEF StackInv, RacesOK, RaceOK, TimersOK, TimerOK, Ops
    <3> QED BY <3>1, <3>2, <3>3
  <2>3. (\E d \in Calls : ReadDone(d)) \/ (\E f \in Calls : WriteDone(f))
    BY <1>1 DEF Serves, Served, Next, Request, GetRates, Discard, UpstreamAnswers, ProviderResolves,
           UpstreamFails, ProviderRejects, FetchSettles, RedisSteps, Dies, ServiceDies, Tick,
           TimeIsUp, vars, serviceVars, ServiceTypeOK
  <2>4. PICK s : s = answer'[c]
    OBVIOUS
  <2>5. /\ s \in Snapshots
        /\ \/ IsFresh(ProcOf[c], s)
           \/ RealTime(s) \in Int /\ now <= RealTime(s) + CmdTimeout
    BY <2>1, <2>2, <2>3, <2>4
  <2> QED BY <1>2, <2>4, <2>5
<1>3. /\ s.by \in Calls /\ s.fetchedAt \in Nat
      /\ Skew[ProcOf[c]] \in Nat /\ Skew[ProcOf[s.by]] \in Nat
  BY DEF Snapshots
<1> DEFINE ahead == Skew[ProcOf[s.by]] - Skew[ProcOf[c]]
<1>4. ahead \in Int
  BY <1>3
<1>5. Max({0, ahead}) \in Int /\ Max({0, ahead}) >= 0 /\ Max({0, ahead}) >= ahead
  BY <1>4, MaxWithZero
<1>6. CASE IsFresh(ProcOf[c], s)
  <2>1. now + Skew[ProcOf[c]] - s.fetchedAt <= TTL
    BY <1>1, <1>3, <1>6 DEF IsFresh, Clock
  <2>2. now - RealTime(s) <= TTL + ahead
    BY <1>1, <1>3, <2>1 DEF RealTime
  <2>3. RealTime(s) \in Int
    BY <1>3 DEF RealTime
  <2> QED BY <1>1, <1>4, <1>5, <2>2, <2>3
<1>7. CASE RealTime(s) \in Int /\ now <= RealTime(s) + CmdTimeout
  BY <1>1, <1>5, <1>7
<1> QED BY <1>2, <1>6, <1>7

\* No call is answered with rates older than the TTL by more than its writer's clock was
\* ahead of its reader's, from the cache or live.
THEOREM AnswersAreFresh == Spec => EveryAnswerFresh
<1>1. StackInv /\ [Next]_vars =>
        [\A c \in Calls : Serves(c) =>
           LET written == ProcOf[answer'[c].by]
               ahead   == Skew[written] - Skew[ProcOf[c]]
           IN now - RealTime(answer'[c]) <= TTL + Max({0, ahead})]_vars
  BY AnswerIsFresh
<1> QED BY <1>1, StackInvariant, PTL DEF Spec, EveryAnswerFresh

\* What the Redis repository and the provider do together is within what RatesService
\* was specified against.
THEOREM StackImplementsService == Spec => ImplementsService
<1>1. Init => ServiceStart
  BY DEF Init, ServiceStart
<1> QED BY <1>1, ServiceSteps, StackInvariant, PTL DEF Spec, ImplementsService, ServiceSpec

\* So what is proved of RatesService holds of it as wired: all who share a fetch get its
\* one outcome, and the upstream is asked once per flight.
COROLLARY StackImplementsSingleFlight == Spec => ImplementsSingleFlight
BY StackImplementsService, ServiceImplementsSingleFlight, PTL DEF ImplementsService

-----------------------------------------------------------------------------
(* The Redis repository agrees with the in-memory one                      *)

\* What Redis finds is what read() of the in-memory repository leaves.
LEMMA FoundIsHeld ==
  ASSUME StackInv
  PROVE  /\ EntryOf(Found) = InMemory!Held
         /\ Found.snapshot = IF InMemory!Held = None THEN None ELSE InMemory!Held.snapshot
<1>1. store \in Values
  BY DEF StackInv, StackTypeOK, RepoTypeOK
<1>2. EntryOf(Nothing) = None /\ Nothing.snapshot = None
  BY DEF EntryOf, Nothing, Holding
<1>3. CASE store.kind # "snapshot"
  <2>1. store.snapshot = None
    BY <1>1, <1>3 DEF Values
  <2> QED BY <1>3, <2>1 DEF Found, EntryOf, InMemory!Held, InMemory!Expired
<1>4. CASE store.kind = "snapshot"
  <2>1. /\ EntryOf(store) \in Entries /\ EntryOf(store).expiresAt = store.expiresAt
        /\ EntryOf(store).snapshot = store.snapshot
    BY <1>1, <1>4 DEF Values, Kinds, EntryOf, Entries
  <2>2. InMemory!Expired <=> now > store.expiresAt
    BY <2>1, EntryAssumption DEF InMemory!Expired
  <2> QED BY <1>2, <1>4, <2>1, <2>2, EntryAssumption DEF Found, InMemory!Held
<1> QED BY <1>3, <1>4

\* A settled reply to a GET, unless it is a refusal, is on its way to the call.
LEMMA SettledIsOnTheWay ==
  ASSUME NEW p \in Procs, NEW e \in ToSet(answers[p]) \cup ToSet(turn[p]),
         e.cmd.op = "get", e.reply # Rejection
  PROVE  [by |-> e.cmd.call, got |-> e.reply.snapshot] \in OnTheirWay
BY DEF OnTheirWay

\* A step puts nothing on its way but what Redis finds for the GET it executes.
LEMMA NewOnTheWay ==
  ASSUME StackInv, [Next]_vars, NEW x \in OnTheirWay'
  PROVE  \/ x \in OnTheirWay
         \/ \E p \in Procs : /\ Executes(p) /\ Head(wire[p]).op = "get" /\ store' = Found
                             /\ x = [by |-> Head(wire[p]).call, got |-> Found.snapshot]
<1>1. PICK q \in Procs : \E e \in ToSet(answers'[q]) \cup ToSet(turn'[q]) :
        /\ e.cmd.op = "get" /\ e.reply # Rejection
        /\ x = [by |-> e.cmd.call, got |-> e.reply.snapshot]
  BY DEF OnTheirWay
<1>2. PICK e \in ToSet(answers'[q]) \cup ToSet(turn'[q]) :
        /\ e.cmd.op = "get" /\ e.reply # Rejection
        /\ x = [by |-> e.cmd.call, got |-> e.reply.snapshot]
  BY <1>1
<1>3. CASE e \in ToSet(answers[q]) \cup ToSet(turn[q])
  BY <1>2, <1>3, SettledIsOnTheWay
<1>4. ASSUME NEW p \in Procs, Executed(p, e)
      PROVE  /\ Executes(p) /\ Head(wire[p]).op = "get" /\ store' = Found
             /\ x = [by |-> Head(wire[p]).call, got |-> Found.snapshot]
  BY <1>2, <1>4 DEF Executed, ReplyTo, Effect, Reply
<1> QED BY <1>2, <1>3, <1>4, SettledBefore DEF Origin

\* A line without its first command is another.
LEMMA TailIsShorter ==
  ASSUME NEW w \in Seq(Commands), w # <<>>
  PROVE  Tail(w) # w
<1> DEFINE v == Tail(w)
<1>1. Len(v) = Len(w) - 1
  BY HeadTailProperties
<1>2. Len(w) \in Nat
  BY LenProperties
<1> HIDE DEF v
<1>3. v # w
  BY <1>1, <1>2
<1> QED BY <1>3 DEF v

\* Redis executes one command at a time.
LEMMA OneExecutes ==
  ASSUME StackInv, NEW p \in Procs, NEW q \in Procs, Executes(p), Executes(q)
  PROVE  p = q
<1>1. wire \in [Procs -> Seq(Commands)]
  BY DEF StackInv, StackTypeOK, RepoTypeOK
<1>2. /\ wire[p] # <<>> /\ wire' = [wire EXCEPT ![p] = Tail(@)]
      /\ wire' = [wire EXCEPT ![q] = Tail(@)]
  BY DEF Executes, RedisExecutes
<1> QED BY <1>1, <1>2, TailIsShorter

\* What set() was called with.
LEMMA GivenIs ==
  ASSUME NEW f \in Calls, fetched[f] # None
  PROVE  fetched[f] \in {fetched[g] : g \in {h \in Calls : fetched[h] # None}}
OBVIOUS

\* Only a read that is done takes anything.
LEMMA HadStays ==
  ASSUME \A c \in Calls : /\ pc'[c] = "cache" <=> pc[c] = "cache"
                          /\ pc[c] = "cache" => answer'[c] = answer[c]
                          /\ reason'[c] = reason[c]
  PROVE  Had' = Had
BY DEF Had

\* The command Redis executes is a get(), a set() or a clear().
LEMMA ExecutionIsInMemory ==
  ASSUME StackInv, [Next]_vars, NEW p \in Procs, Executes(p)
  PROVE  InMemory!Next
<1> DEFINE cmd == Head(wire[p])
           news == [by |-> cmd.call, got |-> Found.snapshot]
<1>1. Sent(cmd) /\ now \in Nat /\ cmd.call \in Calls
  BY HeadSent DEF Executes, RedisExecutes, StackInv, ServiceInv, ServiceTypeOK, WorldTypeOK, Sent
<1>2. now' = now /\ fetched' = fetched /\ Had' = Had
  BY HadStays DEF Executes, worldVars, serviceVars
<1>3. ASSUME store' # Found \/ cmd.op # "get"
      PROVE  OnTheirWay' \subseteq OnTheirWay
  BY <1>3, NewOnTheWay, OneExecutes
<1>4. OnTheirWay' \subseteq OnTheirWay \cup {news}
  BY NewOnTheWay, OneExecutes
<1>5. CASE store' = Found
  <2>1. EntryOf(store)' = InMemory!Held
    BY <1>5, FoundIsHeld DEF EntryOf
  <2> QED BY <1>1, <1>4, <1>2, <2>1, FoundIsHeld DEF InMemory!Next, InMemory!Get
<1>6. CASE store' # Found /\ cmd = Command("del", cmd.call)
  <2>1. store' = Nothing
    BY <1>6 DEF Executes, RedisExecutes, Effect, Command
  <2>2. EntryOf(store)' = None
    BY <2>1 DEF EntryOf, Nothing, Holding
  <2> QED BY <1>3, <1>6, <1>2, <2>2 DEF InMemory!Next, InMemory!Clear, InMemory!Arriving
<1>7. CASE /\ store' # Found
           /\ cmd = SetCommand(cmd.call, fetched[cmd.call]) /\ fetched[cmd.call] \in Snapshots
  <2>1. PICK s \in Snapshots : s = fetched[cmd.call]
    BY <1>7
  <2>2. store' = [kind |-> "snapshot", snapshot |-> s, expiresAt |-> now + TTL]
    BY <1>7, <2>1 DEF Executes, RedisExecutes, Effect, SetCommand
  <2>3. EntryOf(store)' = [snapshot |-> s, expiresAt |-> now + TTL]
    BY <2>2 DEF EntryOf
  <2>4. s \in {fetched[g] : g \in {h \in Calls : fetched[h] # None}}
    BY <1>1, <2>1, NoneAssumption, GivenIs
  <2> QED BY <1>3, <1>7, <1>2, <2>3, <2>4 DEF InMemory!Next, InMemory!Set, InMemory!Arriving
<1>8. store' = Found \/ cmd # Command("get", cmd.call)
  BY DEF Executes, RedisExecutes, Effect, Command
<1> QED BY <1>1, <1>5, <1>6, <1>7, <1>8 DEF Sent

\* A restart of Redis is a clear(), or leaves what a get() would.
LEMMA RestartIsInMemory ==
  ASSUME StackInv, OnTheirWay' \subseteq OnTheirWay, store' \in {Found, Nothing},
         now' = now, Had' = Had, fetched' = fetched
  PROVE  InMemory!Next
<1>1. CASE store' = Nothing
  <2>1. EntryOf(store)' = None
    BY <1>1 DEF EntryOf, Nothing, Holding
  <2> QED BY <2>1 DEF InMemory!Next, InMemory!Clear, InMemory!Arriving
<1>2. CASE store' = store
  BY <1>2 DEF InMemory!Next, InMemory!Take, InMemory!Arriving, EntryOf
<1>3. CASE store' = Found /\ store.kind = "snapshot"
  <2>1. store.snapshot.by \in Calls
    BY <1>3 DEF StackInv, StackTypeOK, RepoTypeOK, Values, Snapshots, Kinds
  <2>2. EntryOf(store)' = InMemory!Held
    BY <1>3, FoundIsHeld DEF EntryOf
  <2> QED BY <2>1, <2>2 DEF InMemory!Next, InMemory!Get
<1> QED BY <1>1, <1>2, <1>3 DEF Found

\* A read that is done takes what was on its way to its call, and no other call's.
LEMMA ReadIsTaken ==
  ASSUME StackInv, NEW c \in Calls, ReadDone(c)
  PROVE  Had \subseteq Had' /\ Had' \subseteq Had \cup OnTheirWay
<1> USE DEF StackInv, ServiceInv, ServiceTypeOK
<1>1. PICK read : ReadReturns(c, read) /\ ReadSettles(c, read)
  BY DEF ReadDone
<1>2. /\ pc[c] = "reading" /\ reason[c] = "none"
      /\ \A d \in Calls \ {c} : pc'[d] = pc[d] /\ answer'[d] = answer[d] /\ reason'[d] = reason[d]
  BY <1>1 DEF ReadSettles, ServeCached, Miss, NothingEarly
<1>3. \/ pc'[c] = "cache" /\ reason'[c] = "none" /\ answer'[c] = read.snapshot /\ read.status = "hit"
      \/ pc'[c] = "waiting" /\ (reason'[c] = "absent" => read.status = "absent")
  BY <1>1, <1>2 DEF ReadSettles, ServeCached, Miss
<1>4. ASSUME read.status \in {"hit", "absent"}
      PROVE  [by |-> c, got |-> read.snapshot] \in OnTheirWay
  <2>1. PICK reply : RaceEnds("get", c, reply) /\ read = ReadOf(reply)
    BY <1>1, <1>4 DEF ReadReturns, GetReturns, DiscardReturns, Failing
  <2>2. reply # Rejection /\ read.snapshot = reply.snapshot
    BY <1>4, <2>1 DEF ReadOf, Rejection, Reply
  <2>3. PICK i \in DOMAIN turn[ProcOf[c]] :
          /\ turn[ProcOf[c]][i].cmd.op = "get" /\ turn[ProcOf[c]][i].cmd.call = c
          /\ turn[ProcOf[c]][i].reply = reply
    <3>1. "get" \in Ops /\ RaceEnds("get", c, reply)
      BY <2>1 DEF Ops
    <3> QED BY <2>2, <3>1, RaceEffect
  <2>4. turn[ProcOf[c]][i] \in ToSet(turn[ProcOf[c]])
    BY DEF ToSet
  <2> QED BY <2>2, <2>3, <2>4, SettledIsOnTheWay
<1>5. read.status = "absent" => read.snapshot = None
  BY <1>1, ReadIsPossible DEF PossibleReads, Failing, Hit
<1>6. ASSUME NEW x \in Had'
      PROVE  x \in Had \cup OnTheirWay
  <2>1. PICK d \in Calls : \/ pc'[d] = "cache" /\ x = [by |-> d, got |-> answer'[d]]
                           \/ reason'[d] = "absent" /\ x = [by |-> d, got |-> None]
    BY DEF Had
  <2>2. CASE d # c
    BY <1>2, <2>1, <2>2 DEF Had
  <2>3. CASE d = c
    BY <1>3, <1>4, <1>5, <2>1, <2>3
  <2> QED BY <2>2, <2>3
<1>7. ASSUME NEW x \in Had
      PROVE  x \in Had'
  <2>1. PICK d \in Calls : \/ pc[d] = "cache" /\ x = [by |-> d, got |-> answer[d]]
                           \/ reason[d] = "absent" /\ x = [by |-> d, got |-> None]
    BY DEF Had
  <2> QED BY <1>2, <2>1 DEF Had
<1> QED BY <1>6, <1>7

\* Every step is one of the in-memory repository and of those who use it.
LEMMA InMemoryStep == StackInv /\ [Next]_vars => [InMemory!Next]_(InMemory!inMemoryVars)
<1> SUFFICES ASSUME StackInv, [Next]_vars
             PROVE  InMemory!Next
  OBVIOUS
<1> USE DEF StackInv, ServiceInv, ServiceTypeOK
<1> DEFINE Given == {fetched[f] : f \in {g \in Calls : fetched[g] # None}}
<1>1. ASSUME NEW p \in Procs, Executes(p)
      PROVE  InMemory!Next
  BY <1>1, ExecutionIsInMemory
<1>2. ASSUME ~ \E p \in Procs : Executes(p)
      PROVE  OnTheirWay' \subseteq OnTheirWay
  BY <1>2, NewOnTheWay
<1>3. ASSUME store' = store, now' = now, fetched' = fetched, OnTheirWay' \subseteq OnTheirWay,
             Had \subseteq Had' /\ Had' \subseteq Had \cup OnTheirWay
      PROVE  InMemory!Next
  BY <1>3 DEF InMemory!Next, InMemory!Take, InMemory!Arriving, EntryOf
<1> SUFFICES ASSUME OnTheirWay' \subseteq OnTheirWay
             PROVE  InMemory!Next \/ \E p \in Procs : Executes(p)
  BY <1>1, <1>2
<1>4. CASE RedisSteps
  <2>1. now' = now /\ fetched' = fetched
    BY <1>4 DEF RedisSteps, worldVars, serviceVars
  <2>2. Had' = Had
    BY <1>4, HadStays DEF RedisSteps, serviceVars
  <2>3. \/ \E p \in Procs : Executes(p)
        \/ RedisRestarts /\ store' \in {Found, Nothing}
        \/ store' = store
    BY <1>4 DEF RedisSteps, Executes, ChunkArrives, LinkDrops, LinkReconnects, QueueFlushed, RedisRestarts
  <2> QED BY <1>3, <2>1, <2>2, <2>3, RestartIsInMemory
<1>5. CASE Tick
  <2>1. /\ now' = now + 1 /\ store' = store /\ fetched' = fetched
        /\ UNCHANGED <<pc, answer, reason>>
    BY <1>5 DEF Tick, Advance, repoVars, serviceVars
  <2>2. Had' = Had
    BY <2>1, HadStays
  <2> QED BY <2>1, <2>2 DEF InMemory!Next, InMemory!Pass, InMemory!Arriving, EntryOf
<1>6. ASSUME NEW f \in Calls, UpstreamAnswers(f)
      PROVE  InMemory!Next
  <2>1. /\ fetched' = [fetched EXCEPT ![f] = Stamped(f)] /\ fetched[f] = None
        /\ Stamped(f) \in Snapshots /\ now' = now
        /\ UNCHANGED <<pc, answer, reason>>
    BY <1>6, AnswersEffect DEF NothingEarly, worldVars, UpstreamAnswers, ProviderResolves
  <2>2. Had' = Had
    BY <2>1, HadStays
  <2>3. store' = store
    BY <1>6 DEF UpstreamAnswers, SendSet, Send, SendWithin
  <2>4. Given \subseteq Given' /\ Given' \subseteq Snapshots
    BY <2>1, NoneAssumption
  <2> QED BY <2>1, <2>2, <2>3, <2>4 DEF InMemory!Next, InMemory!Give, InMemory!Arriving, EntryOf
<1>7. ASSUME NEW c \in Calls, ReadDone(c)
      PROVE  InMemory!Next
  <2>1. now' = now /\ fetched' = fetched
    BY <1>7, ReadDoneFetch DEF worldVars
  <2>2. store' = store
    BY <1>7 DEF ReadDone, ReadReturns, GetReturns, DiscardReturns
  <2> QED BY <1>3, <1>7, <2>1, <2>2, ReadIsTaken
<1>8. ASSUME NEW f \in Calls, UpstreamFails(f) \/ WriteDone(f)
      PROVE  InMemory!Next
  <2>1. /\ \A c \in Calls : pc'[c] = "cache" <=> pc[c] = "cache"
        /\ UNCHANGED <<now, reason, fetched>>
    BY <1>8, SettlesEffect DEF worldVars
  <2>2. \A c \in Calls : pc[c] = "cache" => answer'[c] = answer[c]
    BY <1>8 DEF UpstreamFails, ProviderRejects, WriteDone, WriteSettles, FetchSettles
  <2>3. store' = store
    BY <1>8 DEF UpstreamFails, repoVars, WriteDone, WriteReturns
  <2> QED BY <1>3, <2>1, <2>2, <2>3, HadStays
<1>9. ASSUME NEW p \in Procs, Dies(p)
      PROVE  InMemory!Next
  <2>1. /\ \A c \in Calls : pc'[c] = "cache" <=> pc[c] = "cache"
        /\ UNCHANGED <<now, answer, reason, fetched, store>>
    BY <1>9 DEF Dies, Killed, ServiceDies, RepoDies, Pending
  <2> QED BY <1>3, <2>1, HadStays
<1>10. ASSUME NEW c \in Calls, Request(c)
       PROVE  InMemory!Next
  <2>1. /\ \A d \in Calls : pc'[d] = "cache" <=> pc[d] = "cache"
        /\ UNCHANGED <<now, answer, reason, fetched, store>>
    BY <1>10 DEF Request, GetRates, SendGet, Send, SendWithin, worldVars
  <2> QED BY <1>3, <2>1, HadStays
<1>11. CASE (\E c \in Calls : Discard(c)) \/ TimeIsUp \/ UNCHANGED vars
  <2>1. UNCHANGED <<now, pc, answer, reason, fetched, store>>
    BY <1>11 DEF Discard, DiscardBegins, TimeIsUp, vars, worldVars, serviceVars, repoVars
  <2> QED BY <1>3, <2>1, HadStays
<1> QED BY <1>4, <1>5, <1>6, <1>7, <1>8, <1>9, <1>10, <1>11 DEF Next

\* The two implementations of RatesRepository agree: however late, repeated, lost or refused
\* its commands are, what a call is served from Redis, or that it has nothing, is what an
\* in-memory repository found when Redis executed that call's GET, to the same expiry.
THEOREM RedisAgreesWithInMemory == Spec => AgreesWithInMemory
<1>1. Init => InMemory!Init
  <2> SUFFICES ASSUME Init
               PROVE  InMemory!Init
    OBVIOUS
  <2>1. PICK kind \in {"absent", "garbled", "wrongType"} : store = Holding(kind)
    BY DEF Init, RepoInit
  <2>2. EntryOf(store) = None /\ now = 0
    BY <2>1 DEF Init, WorldInit, EntryOf, Holding
  <2>3. {fetched[f] : f \in {g \in Calls : fetched[g] # None}} = {} /\ Had = {}
    BY DEF Init, ServiceInit, Had
  <2>4. OnTheirWay = {}
    <3>1. ToSet(<<>>) = {}
      BY DEF ToSet
    <3> QED BY <3>1 DEF Init, RepoInit, OnTheirWay
  <2> QED BY <2>2, <2>3, <2>4 DEF InMemory!Init
<1> QED BY <1>1, InMemoryStep, StackInvariant, PTL DEF Spec, AgreesWithInMemory, InMemory!Spec

-----------------------------------------------------------------------------
(* The subsystem asks its upstream by the provider's contract              *)

\* Every step is, for each fetch, one of the contract's or none of its business.
LEMMA ContractStep ==
  ASSUME StackInv, [Next]_vars, NEW f \in Calls
  PROVE  [Upstream(f)!Next]_(Upstream(f)!contractVars)
<1>1. /\ RaceOK(f) /\ TimerOK(f) /\ ServiceTypeOK /\ NothingEarly /\ WritingHasSnapshot
      /\ now \in Nat /\ upstreamTimer \in [Calls -> Nat \cup {None}]
  BY DEF StackInv, StackTypeOK, RacesOK, TimersOK, ServiceInv, ServiceTypeOK, WorldTypeOK
<1>2. ASSUME fetch'[f] = fetch[f], fetched'[f] = fetched[f], upstreamTimer'[f] = upstreamTimer[f],
             now' = now
      PROVE  UNCHANGED Upstream(f)!contractVars
  <2>1. StampOf(f)' = StampOf(f) /\ ContractOf(f)' = ContractOf(f)
    BY <1>2 DEF StampOf, ContractOf, RealTime
  <2> QED BY <1>2, <2>1 DEF Upstream!contractVars
<1>3. ASSUME NEW d \in Calls, ReadDone(d)
      PROVE  Upstream(f)!Next \/ UNCHANGED Upstream(f)!contractVars
  <2>1. CASE fetch' = fetch /\ upstreamTimer' = upstreamTimer
    BY <1>2, <1>3, <2>1, ReadDoneFetch DEF worldVars
  <2>2. CASE /\ fetch' = [fetch EXCEPT ![d] = "upstream"] /\ fetch[d] = "none"
             /\ upstreamTimer' = [upstreamTimer EXCEPT ![d] = now + UpstreamTimeout]
    <3>1. now' = now /\ fetched' = fetched
      BY <1>3, ReadDoneFetch DEF worldVars
    <3>2. CASE f # d
      BY <1>1, <1>2, <2>2, <3>1, <3>2 DEF ServiceTypeOK
    <3>3. CASE f = d
      <4>1. ContractOf(f) = "idle" /\ ContractOf(f)' = "asked"
        BY <1>1, <2>2, <3>3 DEF ContractOf, ServiceTypeOK
      <4>2. upstreamTimer'[f] = now + UpstreamTimeout /\ StampOf(f)' = StampOf(f)
        BY <1>1, <2>2, <3>1, <3>3 DEF StampOf, RealTime
      <4> QED BY <3>1, <4>1, <4>2 DEF Upstream!Next, Upstream!Ask
    <3> QED BY <3>2, <3>3
  <2> QED BY <1>3, <2>1, <2>2, ReadDoneFetch
<1>4. ASSUME NEW g \in Calls, UpstreamAnswers(g)
      PROVE  Upstream(f)!Next \/ UNCHANGED Upstream(f)!contractVars
  <2>1. /\ fetch[g] = "upstream" /\ fetch' = [fetch EXCEPT ![g] = "writing"]
        /\ fetched' = [fetched EXCEPT ![g] = Stamped(g)]
        /\ Stamped(g) \in Snapshots /\ RealTime(Stamped(g)) = now
        /\ upstreamTimer' = [upstreamTimer EXCEPT ![g] = None]
        /\ now' = now
    BY <1>4, AnswersEffect DEF worldVars
  <2>2. CASE f # g
    BY <1>1, <1>2, <2>1, <2>2 DEF ServiceTypeOK
  <2>3. CASE f = g
    <3>1. ContractOf(f) = "asked" /\ ContractOf(f)' = "resolved"
      BY <1>1, <2>1, <2>3 DEF ContractOf, ServiceTypeOK
    <3>2. fetched'[f] = Stamped(f) /\ Stamped(f) # None /\ upstreamTimer'[f] = None
      BY <1>1, <2>1, <2>3 DEF ServiceTypeOK
    <3>3. StampOf(f)' = RealTime(fetched'[f])
      BY <3>2 DEF StampOf, RealTime
    <3>4. StampOf(f)' = now
      BY <2>1, <2>3, <3>2, <3>3
    <3> QED BY <2>1, <3>1, <3>2, <3>4 DEF Upstream!Next, Upstream!Settle, Upstream!Settles
  <2> QED BY <2>2, <2>3
<1>5. ASSUME NEW g \in Calls, UpstreamFails(g) \/ WriteDone(g)
      PROVE  Upstream(f)!Next \/ UNCHANGED Upstream(f)!contractVars
  <2>1. /\ UNCHANGED <<now, fetched>>
        /\ \/ fetch[g] = "upstream" /\ upstreamTimer' = [upstreamTimer EXCEPT ![g] = None]
           \/ fetch[g] = "writing" /\ upstreamTimer' = upstreamTimer
        /\ fetch[g] = "upstream" => fetch' = [fetch EXCEPT ![g] = "failed"]
        /\ fetch[g] = "writing" => fetch' = [fetch EXCEPT ![g] = "stored"]
                                   \/ fetch' = [fetch EXCEPT ![g] = "unstored"]
    BY <1>5, SettlesEffect DEF worldVars, UpstreamFails, WriteDone, ProviderRejects, WriteSettles,
                              FetchSettles
  <2>2. StampOf(f)' = StampOf(f)
    BY <2>1 DEF StampOf, RealTime
  <2>3. CASE f # g
    BY <1>1, <1>2, <2>1, <2>3 DEF ServiceTypeOK
  <2>4. CASE f = g /\ fetch[g] = "upstream"
    <3>1. ContractOf(f) = "asked" /\ ContractOf(f)' = "rejected" /\ upstreamTimer'[f] = None
      BY <1>1, <2>1, <2>4 DEF ContractOf, ServiceTypeOK
    <3>2. StampOf(f)' = None
      BY <1>1, <2>2, <2>4 DEF StampOf, NothingEarly
    <3> QED BY <2>1, <3>1, <3>2 DEF Upstream!Next, Upstream!Settle, Upstream!Settles
  <2>5. CASE f = g /\ fetch[g] = "writing"
    <3>1. ContractOf(f) = "resolved" /\ ContractOf(f)' = "resolved"
      BY <1>1, <2>1, <2>5 DEF ContractOf, ServiceTypeOK
    <3> QED BY <2>1, <2>2, <2>5, <3>1 DEF Upstream!contractVars
  <2> QED BY <2>1, <2>3, <2>4, <2>5
<1>6. ASSUME NEW p \in Procs, Dies(p)
      PROVE  Upstream(f)!Next \/ UNCHANGED Upstream(f)!contractVars
  <2>1. /\ fetch'[f] = IF ProcOf[f] = p /\ fetch[f] \in Active THEN "lost" ELSE fetch[f]
        /\ upstreamTimer'[f] = IF ProcOf[f] = p THEN None ELSE upstreamTimer[f]
        /\ UNCHANGED <<now, fetched>>
    BY <1>6 DEF Dies, Killed, ServiceDies, RepoDies
  <2>2. StampOf(f)' = StampOf(f)
    BY <2>1 DEF StampOf, RealTime
  <2>3. CASE ProcOf[f] # p
    BY <1>2, <2>1, <2>3
  <2>4. CASE ProcOf[f] = p /\ fetch[f] = "upstream"
    <3>1. fetched[f] = None /\ StampOf(f)' = None
      BY <1>1, <2>2, <2>4 DEF StampOf, NothingEarly
    <3>2. ContractOf(f) = "asked" /\ ContractOf(f)' = "abandoned" /\ upstreamTimer'[f] = None
      BY <2>1, <2>4, <3>1 DEF ContractOf, Active
    <3> QED BY <2>1, <3>1, <3>2 DEF Upstream!Next, Upstream!Abandon, Upstream!Settles
  <2>5. CASE ProcOf[f] = p /\ fetch[f] # "upstream"
    <3>1. upstreamTimer'[f] = upstreamTimer[f]
      BY <1>1, <2>1, <2>5 DEF RaceOK
    <3>2. fetch[f] = "writing" => fetched[f] # None
      BY <1>1 DEF WritingHasSnapshot
    <3>3. ContractOf(f)' = ContractOf(f)
      BY <2>1, <2>5, <3>2 DEF ContractOf, Active
    <3> QED BY <2>1, <2>2, <3>1, <3>3 DEF Upstream!contractVars
  <2> QED BY <2>3, <2>4, <2>5
<1>7. ASSUME Tick
      PROVE  Upstream(f)!Next \/ UNCHANGED Upstream(f)!contractVars
  <2>1. now' = now + 1 /\ UNCHANGED <<fetch, fetched, upstreamTimer>>
    BY <1>7 DEF Tick, Advance, serviceVars, stackVars
  <2>2. StampOf(f)' = StampOf(f) /\ ContractOf(f)' = ContractOf(f)
    BY <2>1 DEF StampOf, ContractOf, RealTime
  <2>3. upstreamTimer[f] # now
    BY <1>7 DEF Tick, Timers
  <2>4. ContractOf(f) = "asked" => now < upstreamTimer[f]
    BY <1>1, <2>3 DEF ContractOf, RaceOK, TimerOK
  <2> QED BY <2>1, <2>2, <2>4 DEF Upstream!Next, Upstream!Pass
<1>8. ASSUME UNCHANGED <<now, fetch, fetched, upstreamTimer>>
      PROVE  UNCHANGED Upstream(f)!contractVars
  BY <1>2, <1>8
<1>9. ASSUME NEW c \in Calls, Request(c) \/ Discard(c)
      PROVE  UNCHANGED <<now, fetch, fetched, upstreamTimer>>
  BY <1>9 DEF Request, GetRates, Discard, worldVars, serviceVars, stackVars
<1> QED
  BY <1>3, <1>4, <1>5, <1>6, <1>7, <1>8, <1>9
     DEF Next, RedisSteps, TimeIsUp, vars, worldVars, serviceVars, stackVars

\* The subsystem asks its upstream by the contract that MonobankProvider keeps: one
\* getRates() per fetch, under one limit however many calls share it.
THEOREM StackAsksByContract == Spec => AsksByContract
<1>1. Init => \A f \in Calls : Upstream(f)!Init
  BY DEF Init, WorldInit, ServiceInit, Upstream!Init, ContractOf, StampOf
<1>2. StackInv /\ [Next]_vars =>
        [\A f \in Calls : [Upstream(f)!Next]_(Upstream(f)!contractVars)]_vars
  BY ContractStep
<1> QED BY <1>1, <1>2, StackInvariant, PTL DEF Spec, AsksByContract

=============================================================================
