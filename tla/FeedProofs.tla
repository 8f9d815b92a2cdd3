----------------------------- MODULE FeedProofs -----------------------------
(***************************************************************************)
(* Proofs about what becomes of a feed: how its items are mapped to rates, *)
(* and how rates are stored and read back, for any table of currencies and *)
(* any number of items.                                                    *)
(*                                                                         *)
(* The mapper is a loop.  Its turns are a recursive function, whose        *)
(* existence (TurnsExist) and whose effect (LoopMaps) are shown by         *)
(* induction over sets of numbers (Climbs).                                *)
(***************************************************************************)
EXTENDS MonobankFeed, StoredSnapshotCodec, DataLemmas

USE TableAssumption, FeedAssumption, CodecAssumption

-----------------------------------------------------------------------------
(* mapMonobankItems                                                        *)

\* A function that is what the loop makes of the first items.
Makes(f, items, upTo) ==
  f = [n \in 0..upTo |-> IF n = 0 THEN NoneMapped ELSE MapItem(f[n - 1], items[n])]

\* The loop's recursion defines its turns, however many items there are.
LEMMA TurnsExist ==
  ASSUME NEW items \in Seq(Items)
  PROVE  Makes(Turns(items), items, Len(items))
<1> DEFINE L == Len(items)
           D == {n \in 0..L : \E f : Makes(f, items, n)}
<1>1. L \in Nat
  OBVIOUS
<1> HIDE DEF L
<1>2. 0 \in D
  <2> DEFINE f == [n \in 0..0 |-> NoneMapped]
  <2>1. Makes(f, items, 0)
    BY DEF Makes
  <2> HIDE DEF f
  <2> QED BY <1>1, <2>1
<1>3. ASSUME NEW n \in 0..L, n \in D, n < L
      PROVE  n + 1 \in D
  <2>1. PICK f : Makes(f, items, n)
    BY <1>3
  <2> DEFINE g == [i \in 0..(n + 1) |-> IF i = n + 1 THEN MapItem(f[n], items[n + 1]) ELSE f[i]]
  <2>2. Makes(g, items, n + 1)
    <3>1. ASSUME NEW i \in 0..(n + 1)
          PROVE  g[i] = IF i = 0 THEN NoneMapped ELSE MapItem(g[i - 1], items[i])
      <4>1. CASE i = n + 1
        BY <1>1, <1>3, <4>1
      <4>2. CASE i # n + 1
        <5>1. f[i] = IF i = 0 THEN NoneMapped ELSE MapItem(f[i - 1], items[i])
          BY <1>1, <1>3, <2>1, <4>2 DEF Makes
        <5>2. g[i] = f[i] /\ (i # 0 => g[i - 1] = f[i - 1])
          BY <1>1, <1>3, <4>2
        <5> QED BY <5>1, <5>2
      <4> QED BY <4>1, <4>2
    <3> QED BY <3>1 DEF Makes
  <2> HIDE DEF g
  <2> QED BY <1>1, <1>3, <2>2
<1> HIDE DEF D
<1>4. L \in D
  <2>1. \A n \in 0..L : n \in D /\ n < L => n + 1 \in D
    BY <1>3
  <2>2. \A n \in 0..L : n \in D
    BY <1>1, <1>2, <2>1, Climbs
  <2> QED BY <1>1, <2>2
<1>5. PICK f : Makes(f, items, L)
  BY <1>4 DEF D
<1> QED BY <1>5 DEF Makes, Turns, L

-----------------------------------------------------------------------------

\* An item that could be a rate: two currencies, both known.
IsPair(item) == IsKnown(item) /\ PairOf(item)[1] # PairOf(item)[2]

Pairs == Alphas \X Alphas

\* What the loop carries from turn to turn.
Mapped ==
  [rates : Seq({RateOf(item) : item \in Items}), kept : SUBSET Pairs, unknown : SUBSET Codes,
   same : SUBSET Pairs, duplicate : SUBSET Pairs, skipped : Nat]

\* A known code is one of the table's.
LEMMA KnownCodes ==
  ASSUME NEW n \in DOMAIN AlphaOf
  PROVE  AlphaOf[n] \in Alphas
BY DEF AlphaOf, Alphas

\* A turn appends the rate of a pair it has not seen, and counts every other item.
LEMMA TurnTaken ==
  ASSUME NEW mapped \in Mapped, NEW item \in Items
  PROVE  LET turn == MapItem(mapped, item)
             new  == IsPair(item) /\ PairOf(item) \notin mapped.kept
         IN /\ turn \in Mapped
            /\ new => /\ turn.rates = Append(mapped.rates, RateOf(item))
                      /\ turn.kept = mapped.kept \cup {PairOf(item)}
                      /\ turn.skipped = mapped.skipped
            /\ ~new => /\ turn.rates = mapped.rates
                       /\ turn.kept = mapped.kept
                       /\ turn.skipped = mapped.skipped + 1
<1> DEFINE turn == MapItem(mapped, item)
<1>1. item.a \in Codes /\ item.b \in Codes
  BY DEF Items
<1>2. /\ mapped.rates \in Seq({RateOf(i) : i \in Items}) /\ mapped.kept \subseteq Pairs
      /\ mapped.unknown \subseteq Codes /\ mapped.same \subseteq Pairs
      /\ mapped.duplicate \subseteq Pairs /\ mapped.skipped \in Nat
  BY DEF Mapped
<1>3. Skip(mapped) = [mapped EXCEPT !.skipped = mapped.skipped + 1] /\ Skip(mapped) \in Mapped
  BY <1>2 DEF Skip, Mapped
<1>4. IsKnown(item) => PairOf(item) \in Pairs /\ PairOf(item) = <<AlphaOf[item.a], AlphaOf[item.b]>>
  BY KnownCodes DEF IsKnown, PairOf, Pairs
<1>5. CASE ~IsKnown(item)
  <2>1. turn = [Skip(mapped) EXCEPT !.unknown = @ \cup ({item.a, item.b} \ DOMAIN AlphaOf)]
    BY <1>5 DEF MapItem
  <2>2. Skip(mapped).unknown \cup ({item.a, item.b} \ DOMAIN AlphaOf) \subseteq Codes
    BY <1>1, <1>3 DEF Mapped
  <2>3. turn \in Mapped
    BY <1>3, <2>1, <2>2 DEF Mapped
  <2>4. turn.rates = mapped.rates /\ turn.kept = mapped.kept /\ turn.skipped = mapped.skipped + 1
    BY <1>3, <2>1 DEF Mapped
  <2> QED BY <1>5, <2>3, <2>4 DEF IsPair
<1>6. CASE IsKnown(item) /\ AlphaOf[item.a] = AlphaOf[item.b]
  <2>1. turn = [Skip(mapped) EXCEPT !.same = @ \cup {PairOf(item)}]
    BY <1>6 DEF MapItem
  <2>2. Skip(mapped).same \cup {PairOf(item)} \subseteq Pairs
    BY <1>3, <1>4, <1>6 DEF Mapped
  <2>3. turn \in Mapped
    BY <1>3, <2>1, <2>2 DEF Mapped
  <2>4. turn.rates = mapped.rates /\ turn.kept = mapped.kept /\ turn.skipped = mapped.skipped + 1
    BY <1>3, <2>1 DEF Mapped
  <2>5. ~IsPair(item)
    BY <1>4, <1>6 DEF IsPair
  <2> QED BY <2>3, <2>4, <2>5
<1>7. CASE IsKnown(item) /\ AlphaOf[item.a] # AlphaOf[item.b] /\ PairOf(item) \in mapped.kept
  <2>1. turn = [Skip(mapped) EXCEPT !.duplicate = @ \cup {PairOf(item)}]
    BY <1>7 DEF MapItem
  <2>2. Skip(mapped).duplicate \cup {PairOf(item)} \subseteq Pairs
    BY <1>3, <1>4, <1>7 DEF Mapped
  <2>3. turn \in Mapped
    BY <1>3, <2>1, <2>2 DEF Mapped
  <2>4. turn.rates = mapped.rates /\ turn.kept = mapped.kept /\ turn.skipped = mapped.skipped + 1
    BY <1>3, <2>1 DEF Mapped
  <2> QED BY <1>7, <2>3, <2>4
<1>8. CASE IsKnown(item) /\ AlphaOf[item.a] # AlphaOf[item.b] /\ PairOf(item) \notin mapped.kept
  <2>1. turn = [mapped EXCEPT !.kept = @ \cup {PairOf(item)}, !.rates = Append(@, RateOf(item))]
    BY <1>8 DEF MapItem
  <2>2. mapped.kept \cup {PairOf(item)} \subseteq Pairs
    BY <1>2, <1>4, <1>8
  <2>3. Append(mapped.rates, RateOf(item)) \in Seq({RateOf(i) : i \in Items})
    BY <1>2
  <2>4. turn \in Mapped
    BY <2>1, <2>2, <2>3 DEF Mapped
  <2>5. /\ turn.rates = Append(mapped.rates, RateOf(item))
        /\ turn.kept = mapped.kept \cup {PairOf(item)} /\ turn.skipped = mapped.skipped
    BY <2>1 DEF Mapped
  <2>6. IsPair(item)
    BY <1>4, <1>8 DEF IsPair
  <2> QED BY <1>8, <2>4, <2>5, <2>6
<1> QED BY <1>5, <1>6, <1>7, <1>8

\* The pairs of the first n items.
PairsOf(items, n) == {PairOf(items[i]) : i \in {j \in 1..n : IsPair(items[j])}}

\* An item is kept when none before it is of its pair.
LEMMA KeptIsFirst ==
  ASSUME NEW items \in Seq(Items), NEW i \in DOMAIN items
  PROVE  i \in Kept(items) <=> IsPair(items[i]) /\ PairOf(items[i]) \notin PairsOf(items, i - 1)
BY DEF Kept, IsPair, PairsOf

\* The rates are those of the items kept among the first n, and order is theirs.
InOrder(items, n, rates, order) ==
  /\ order \in [1..Len(rates) -> Nat]
  /\ \A j, k \in DOMAIN order : j < k => order[j] < order[k]
  /\ Kept(items) \cap 1..n = {order[k] : k \in DOMAIN order}
  /\ \A k \in DOMAIN order : rates[k] = RateOf(items[order[k]])

\* What the loop has made of the first n items.
MapsTo(items, n, mapped) ==
  /\ mapped \in Mapped
  /\ mapped.kept = PairsOf(items, n)
  /\ mapped.skipped = n - Len(mapped.rates)
  /\ \E order : InOrder(items, n, mapped.rates, order)

LEMMA NothingMapped ==
  ASSUME NEW items \in Seq(Items)
  PROVE  MapsTo(items, 0, NoneMapped)
<1>1. NoneMapped \in Mapped /\ NoneMapped.rates = <<>> /\ NoneMapped.kept = {} /\ NoneMapped.skipped = 0
  BY DEF NoneMapped, Mapped
<1>2. PairsOf(items, 0) = {}
  BY DEF PairsOf
<1> DEFINE order == [k \in 1..0 |-> 0]
<1>3. order \in [1..0 -> Nat] /\ DOMAIN order = {}
  OBVIOUS
<1>4. Kept(items) \cap 1..0 = {order[k] : k \in DOMAIN order}
  BY <1>3
<1>5. Len(NoneMapped.rates) = 0
  BY <1>1
<1> HIDE DEF order
<1>6. InOrder(items, 0, NoneMapped.rates, order)
  BY <1>3, <1>4, <1>5 DEF InOrder
<1>7. NoneMapped.skipped = 0 - Len(NoneMapped.rates)
  <2>1. 0 = 0 - 0
    OBVIOUS
  <2> QED BY <1>1, <1>5, <2>1, Zenon
<1>8. NoneMapped \in Mapped /\ NoneMapped.kept = PairsOf(items, 0)
  BY <1>1, <1>2
<1> QED BY <1>6, <1>7, <1>8 DEF MapsTo

\* Another turn extends it by the item's rate, at the end of the order, or by nothing.
LEMMA TurnKeeps ==
  ASSUME NEW items \in Seq(Items), NEW n \in Nat, n + 1 \in DOMAIN items,
         NEW mapped, MapsTo(items, n, mapped)
  PROVE  MapsTo(items, n + 1, MapItem(mapped, items[n + 1]))
<1> DEFINE item == items[n + 1]
           turn == MapItem(mapped, item)
           new  == IsPair(item) /\ PairOf(item) \notin mapped.kept
<1>1. item \in Items /\ mapped \in Mapped
  BY DEF MapsTo
<1>2. /\ turn \in Mapped
      /\ new => /\ turn.rates = Append(mapped.rates, RateOf(item))
                /\ turn.kept = mapped.kept \cup {PairOf(item)}
                /\ turn.skipped = mapped.skipped
      /\ ~new => /\ turn.rates = mapped.rates
                 /\ turn.kept = mapped.kept
                 /\ turn.skipped = mapped.skipped + 1
  BY <1>1, TurnTaken
<1>3. mapped.kept = PairsOf(items, n) /\ mapped.skipped = n - Len(mapped.rates)
  BY DEF MapsTo
<1>4. PairsOf(items, n + 1) =
        PairsOf(items, n) \cup IF IsPair(item) THEN {PairOf(item)} ELSE {}
  BY DEF PairsOf
<1>5. new <=> n + 1 \in Kept(items)
  BY <1>3, KeptIsFirst
<1>6. PICK order : InOrder(items, n, mapped.rates, order)
  BY DEF MapsTo
<1>7. mapped.rates \in Seq({RateOf(i) : i \in Items}) /\ Len(mapped.rates) \in Nat
  BY <1>1 DEF Mapped
<1> HIDE DEF turn, item
<1>8. CASE ~new
  <2>1. Kept(items) \cap 1..(n + 1) = Kept(items) \cap 1..n
    BY <1>5, <1>8
  <2>2. turn.kept = PairsOf(items, n + 1)
    BY <1>2, <1>3, <1>4, <1>8
  <2>3. turn.rates = mapped.rates /\ turn.skipped = mapped.skipped + 1 /\ turn \in Mapped
    BY <1>2, <1>8
  <2>4. turn.skipped = n + 1 - Len(turn.rates)
    BY <1>3, <1>7, <2>3
  <2>5. InOrder(items, n + 1, turn.rates, order)
    BY <1>6, <2>1, <2>3 DEF InOrder
  <2>6. MapsTo(items, n + 1, turn)
    BY <2>2, <2>3, <2>4, <2>5 DEF MapsTo
  <2> QED BY <2>6 DEF turn, item
<1>9. CASE new
  <2> DEFINE L == Len(mapped.rates)
             longer == [k \in 1..(L + 1) |-> IF k = L + 1 THEN n + 1 ELSE order[k]]
  <2>1. turn.rates = Append(mapped.rates, RateOf(item)) /\ Len(turn.rates) = L + 1
    BY <1>2, <1>7, <1>9
  <2>2. turn.kept = PairsOf(items, n + 1)
    BY <1>2, <1>3, <1>4, <1>9
  <2>3. turn.skipped = n + 1 - Len(turn.rates)
    BY <1>2, <1>3, <1>7, <1>9, <2>1
  <2>4. \A k \in 1..L : order[k] \in 1..n
    BY <1>6 DEF InOrder
  <2>5. longer \in [1..(L + 1) -> Nat] /\ DOMAIN longer = 1..(L + 1)
    BY <1>6, <1>7 DEF InOrder
  <2>6. \A k \in 1..L : longer[k] = order[k]
    BY <1>7
  <2>7. longer[L + 1] = n + 1
    BY <1>7
  <2> HIDE DEF longer
  <2>8. ASSUME NEW j \in DOMAIN longer, NEW k \in DOMAIN longer, j < k
        PROVE  longer[j] < longer[k]
    <3>1. j \in 1..L /\ longer[j] = order[j]
      BY <1>7, <2>5, <2>6, <2>8
    <3>2. CASE k = L + 1
      BY <2>4, <2>7, <3>1, <3>2
    <3>3. CASE k # L + 1
      <4>1. k \in 1..L /\ longer[k] = order[k]
        BY <1>7, <2>5, <2>6, <3>3
      <4> QED BY <1>6, <2>8, <3>1, <4>1 DEF InOrder
    <3> QED BY <3>2, <3>3
  <2>9. Kept(items) \cap 1..(n + 1) = {longer[k] : k \in DOMAIN longer}
    <3>1. Kept(items) \cap 1..(n + 1) = {order[k] : k \in 1..L} \cup {n + 1}
      BY <1>5, <1>6, <1>9 DEF InOrder
    <3>2. {longer[k] : k \in 1..(L + 1)} = {order[k] : k \in 1..L} \cup {n + 1}
      BY <1>7, <2>6, <2>7
    <3> QED BY <2>5, <3>1, <3>2
  <2>10. ASSUME NEW k \in DOMAIN longer
         PROVE  turn.rates[k] = RateOf(items[longer[k]])
    <3>1. CASE k = L + 1
      BY <1>7, <2>1, <2>7, <3>1 DEF item
    <3>2. CASE k # L + 1
      <4>1. k \in 1..L /\ turn.rates[k] = mapped.rates[k]
        BY <1>7, <2>1, <2>5, <3>2
      <4> QED BY <1>6, <2>6, <4>1 DEF InOrder
    <3> QED BY <3>1, <3>2
  <2>11. turn \in Mapped
    BY <1>2
  <2> HIDE DEF L
  <2>12. InOrder(items, n + 1, turn.rates, longer)
    BY <2>1, <2>5, <2>8, <2>9, <2>10 DEF InOrder
  <2>13. MapsTo(items, n + 1, turn)
    BY <2>2, <2>3, <2>11, <2>12 DEF MapsTo
  <2> QED BY <2>13 DEF turn, item
<1> QED BY <1>8, <1>9

\* So the whole loop does, by induction on its turns.
LEMMA LoopMaps ==
  ASSUME NEW items \in Seq(Items)
  PROVE  MapsTo(items, Len(items), MapItems(items))
<1> DEFINE L == Len(items)
           f == Turns(items)
           D == {n \in 0..L : MapsTo(items, n, f[n])}
<1>1. L \in Nat /\ DOMAIN items = 1..L
  OBVIOUS
<1>2. f[0] = NoneMapped /\ \A n \in 1..L : f[n] = MapItem(f[n - 1], items[n])
  <2>1. f = [n \in 0..L |-> IF n = 0 THEN NoneMapped ELSE MapItem(f[n - 1], items[n])]
    BY TurnsExist DEF Makes
  <2> HIDE DEF f, L
  <2> QED BY <1>1, <2>1
<1> HIDE DEF f, L
<1>3. 0 \in D
  BY <1>1, <1>2, NothingMapped
<1>4. ASSUME NEW n \in 0..L, n \in D, n < L
      PROVE  n + 1 \in D
  <2>1. n \in Nat /\ n + 1 \in 1..L /\ f[n + 1] = MapItem(f[n], items[n + 1])
    BY <1>1, <1>2, <1>4
  <2>2. MapsTo(items, n + 1, MapItem(f[n], items[n + 1]))
    BY <1>1, <1>4, <2>1, TurnKeeps
  <2> QED BY <2>1, <2>2
<1> HIDE DEF D
<1>5. \A n \in 0..L : n \in D /\ n < L => n + 1 \in D
  BY <1>4
<1>6. \A n \in 0..L : n \in D
  BY <1>1, <1>3, <1>5, Climbs
<1>7. MapsTo(items, L, f[L])
  BY <1>1, <1>6 DEF D
<1> QED BY <1>7 DEF MapItems, f, L

\* Whatever an upstream publishes, however many items, the rates mapped are those of the
\* first item of each pair, in upstream order, and every other item is counted once.
THEOREM MapperIsFaithful ==
  ASSUME NEW items \in Seq(Items)
  PROVE  MapsFaithfully(items)
<1> DEFINE mapped == MapItems(items)
           L == Len(items)
<1>1. MapsTo(items, L, mapped) /\ L \in Nat /\ DOMAIN items = 1..L
  BY LoopMaps
<1> HIDE DEF mapped, L
<1>2. PICK order : InOrder(items, L, mapped.rates, order)
  BY <1>1 DEF MapsTo
<1>3. /\ mapped.rates \in Seq({RateOf(item) : item \in Items})
      /\ mapped.skipped = L - Len(mapped.rates)
  BY <1>1 DEF MapsTo, Mapped
<1>4. DOMAIN order = DOMAIN mapped.rates
  BY <1>2, <1>3 DEF InOrder
<1>5. Kept(items) \cap 1..L = Kept(items)
  BY <1>1 DEF Kept
<1>6. \A j, k \in DOMAIN order : j < k => order[j] < order[k]
  BY <1>2 DEF InOrder
<1>7. Kept(items) = {order[k] : k \in DOMAIN order}
  BY <1>2, <1>5 DEF InOrder
<1>8. order \in [DOMAIN mapped.rates -> Kept(items)]
  BY <1>2, <1>4, <1>7 DEF InOrder
<1>9. mapped.rates = [k \in DOMAIN order |-> RateOf(items[order[k]])]
  <2>1. mapped.rates = [k \in DOMAIN mapped.rates |-> mapped.rates[k]]
    BY <1>3
  <2> QED BY <1>2, <1>4, <2>1 DEF InOrder
<1> QED BY <1>3, <1>6, <1>7, <1>8, <1>9 DEF MapsFaithfully, mapped, L

\* Every rate mapped is that of an item kept.
LEMMA MappedRates ==
  ASSUME NEW items \in Seq(Items)
  PROVE  /\ MapItems(items).rates \in Seq({RateOf(item) : item \in Items})
         /\ \A k \in DOMAIN MapItems(items).rates :
              \E i \in Kept(items) : MapItems(items).rates[k] = RateOf(items[i])
<1> DEFINE mapped == MapItems(items)
<1>1. MapsTo(items, Len(items), mapped)
  BY LoopMaps
<1> HIDE DEF mapped
<1>2. PICK order : InOrder(items, Len(items), mapped.rates, order)
  BY <1>1 DEF MapsTo
<1>3. mapped.rates \in Seq({RateOf(item) : item \in Items})
  BY <1>1 DEF MapsTo, Mapped
<1>4. \A k \in DOMAIN mapped.rates : order[k] \in Kept(items) /\ mapped.rates[k] = RateOf(items[order[k]])
  BY <1>2, <1>3 DEF InOrder
<1> QED BY <1>3, <1>4 DEF mapped

-----------------------------------------------------------------------------
(* stored-snapshot.codec.ts                                                *)

\* The rate fields there are.
RateKeys == {"rateBuy", "rateSell", "rateCross"}

\* What createRate() makes: two supported currencies, at least one value, a date.
Rates ==
  {rate \in [base : Alphas, quote : Alphas, values : SUBSET RateKeys, asOf : Nat] : IsRate(rate)}

\* The rates and stamps that fit the four-digit years the codec reads.
PlainRates == {rate \in Rates : rate.asOf <= LastPlainInstant}

\* A code is written as the text that is read as it: canonical, hence no other code's.
LEMMA CodeRoundTrips ==
  ASSUME NEW alpha \in Alphas
  PROVE  ParseCode(ValueOf(alpha)) = alpha /\ alpha # Unsupported
<1> DEFINE text == ValueOf(alpha)
<1>1. alpha \in [1..3 -> Capitals] /\ alpha # Unsupported
  <2>1. PICK info \in Table : info.alpha = alpha
    BY DEF Alphas
  <2> QED BY <2>1, TableAssumption DEF CurrencyInfos
<1>2. text.letters = alpha /\ ~text.padded
  BY DEF ValueOf, Text
<1> HIDE DEF text
<1>3. ASSUME NEW i \in 1..3
      PROVE  ToUpperCase(alpha)[i] = alpha[i] /\ alpha[i] \in Capitals
  <2>1. alpha[i] \in 65..90
    BY <1>1 DEF Capitals
  <2>2. alpha[i] \notin Smalls /\ alpha[i] \notin DOMAIN Folding
    BY <2>1 DEF Smalls, Folding
  <2> QED BY <1>1, <2>2 DEF ToUpperCase
<1>4. ToUpperCase(alpha) = alpha
  <2>1. ToUpperCase(alpha) = [i \in 1..3 |-> ToUpperCase(alpha)[i]]
    BY <1>1 DEF ToUpperCase
  <2>2. alpha = [i \in 1..3 |-> alpha[i]]
    BY <1>1
  <2> QED BY <1>3, <2>1, <2>2
<1>5. AreThreeAsciiLetters(alpha)
  BY <1>1, <1>3 DEF AreThreeAsciiLetters
<1>6. CurrencyOf(text) = alpha
  BY <1>2, <1>4, <1>5 DEF CurrencyOf
<1> QED BY <1>1, <1>2, <1>6 DEF ParseCode, text

\* A timestamp of a four-digit year is read as the instant it was written from.
LEMMA TimestampRoundTrips ==
  ASSUME NEW instant \in Nat, instant <= LastPlainInstant
  PROVE  IsTimestamp(IsoText(instant)) /\ IsoText(instant).instant = instant
BY DEF IsTimestamp, IsoText

\* A rate is accepted as it was written, and is read back with all its fields.
LEMMA RateRoundTrips ==
  ASSUME NEW rate \in PlainRates
  PROVE  IsStoredRate(StoredRate(rate)) /\ ParsedRate(StoredRate(rate)) = rate
<1>1. /\ rate \in [base : Alphas, quote : Alphas, values : SUBSET RateKeys, asOf : Nat]
      /\ IsRate(rate) /\ rate.asOf <= LastPlainInstant
  BY DEF PlainRates, Rates
<1>2. /\ StoredRate(rate).base = ValueOf(rate.base)
      /\ StoredRate(rate).quote = ValueOf(rate.quote)
      /\ StoredRate(rate).asOf = IsoText(rate.asOf)
      /\ StoredRate(rate).values = [key \in rate.values |-> "plain notation"]
  BY <1>1 DEF StoredRate
<1>3. /\ ParseCode(StoredRate(rate).base) = rate.base /\ rate.base # Unsupported
      /\ ParseCode(StoredRate(rate).quote) = rate.quote /\ rate.quote # Unsupported
  BY <1>1, <1>2, CodeRoundTrips
<1>4. ParsedRate(StoredRate(rate)) = rate
  <2>1. DOMAIN StoredRate(rate).values = rate.values
    BY <1>2
  <2>2. StoredRate(rate).asOf.instant = rate.asOf
    BY <1>1, <1>2, TimestampRoundTrips
  <2>3. rate = [base |-> rate.base, quote |-> rate.quote, values |-> rate.values,
                asOf |-> rate.asOf]
    BY <1>1
  <2> QED BY <1>3, <2>1, <2>2, <2>3 DEF ParsedRate
<1>5. IsStoredRate(StoredRate(rate))
  <2>1. IsTimestamp(StoredRate(rate).asOf)
    BY <1>1, <1>2, TimestampRoundTrips
  <2>2. \A key \in DOMAIN StoredRate(rate).values :
          StoredRate(rate).values[key] = "plain notation"
    BY <1>2
  <2> QED BY <1>1, <1>3, <1>4, <2>1, <2>2 DEF IsStoredRate
<1> QED BY <1>4, <1>5

\* A snapshot that was stored is read back as it was, whatever currencies, values and
\* number of rates it has, if its instants have four-digit years.
THEOREM SnapshotRoundTrips ==
  ASSUME NEW rates \in Seq(PlainRates), rates # <<>>,
         NEW at \in 0..LastPlainInstant
  PROVE  RoundTrips([rates |-> rates, fetchedAt |-> at])
<1> DEFINE snapshot == [rates |-> rates, fetchedAt |-> at]
           stored   == Serialize(snapshot)
<1>1. /\ stored.rates = [i \in DOMAIN rates |-> StoredRate(rates[i])]
      /\ stored.fetchedAt = IsoText(at)
  BY DEF Serialize
<1> HIDE DEF stored
<1>2. DOMAIN stored.rates = DOMAIN rates /\ stored.rates # <<>>
  <2>1. 1 \in DOMAIN rates
    OBVIOUS
  <2>2. 1 \in DOMAIN stored.rates
    BY <1>1, <2>1
  <2>3. stored.rates # <<>>
    BY <2>2
  <2> QED BY <1>1, <2>3
<1>3. ASSUME NEW i \in DOMAIN rates
      PROVE  IsStoredRate(stored.rates[i]) /\ ParsedRate(stored.rates[i]) = rates[i]
  <2>1. rates[i] \in PlainRates
    OBVIOUS
  <2>2. stored.rates[i] = StoredRate(rates[i])
    BY <1>1
  <2> QED BY <2>1, <2>2, RateRoundTrips
<1>4. [i \in DOMAIN stored.rates |-> ParsedRate(stored.rates[i])] = rates
  <2>1. rates = [i \in DOMAIN rates |-> rates[i]]
    OBVIOUS
  <2> QED BY <1>2, <1>3, <2>1
<1>5. Parse(stored) = [rates |-> [i \in DOMAIN stored.rates |-> ParsedRate(stored.rates[i])],
                       fetchedAt |-> stored.fetchedAt.instant]
  <2>1. IsTimestamp(stored.fetchedAt)
    BY <1>1, TimestampRoundTrips
  <2>2. \A i \in DOMAIN stored.rates : IsStoredRate(stored.rates[i])
    BY <1>2, <1>3
  <2> QED BY <1>2, <2>1, <2>2 DEF Parse
<1>6. stored.fetchedAt.instant = at
  BY <1>1, TimestampRoundTrips
<1>7. Parse(stored) = [rates |-> rates, fetchedAt |-> at]
  BY <1>4, <1>5, <1>6
<1> QED BY <1>7 DEF RoundTrips, stored

=============================================================================
