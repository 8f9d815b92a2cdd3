---------------------------- MODULE MonobankFeed ----------------------------
(***************************************************************************)
(* The pure half of the Monobank adapter: monobank-response.parser.ts,     *)
(* monobank-rate.mapper.ts and rate.factory.ts, from a body to rates.      *)
(*                                                                         *)
(* A body that is a JSON array is the sequence of its elements; every      *)
(* other body is NotItems.  An item's values are the rate fields it has;   *)
(* numbers are abstract but for what the rules look at: whether an element *)
(* has the right shape, the two currency codes and the date.               *)
(***************************************************************************)
EXTENDS CurrencyCodes, Sequences

CONSTANTS
  Codes,        \* the numeric currency codes the feed may use
  MaxDate,      \* MAX_DATE_SECONDS
  NotItems      \* a body that is empty, not JSON or not an array

ASSUME FeedAssumption ==
  DOMAIN AlphaOf \subseteq Codes /\ MaxDate \in Nat

Keys == {"rateBuy", "rateSell", "rateCross"}

\* `shaped`: an object whose codes are integers and whose rate fields, where it
\* has them, are finite numbers > 0.
Items == [shaped : BOOLEAN, a : Codes, b : Codes, date : Int, values : SUBSET Keys]

Invalid == [error |-> "invalid"]

-----------------------------------------------------------------------------
(* parseMonobankBody                                                       *)

IsItem(element) ==
  /\ element.shaped
  /\ element.date > 0 /\ element.date <= MaxDate
  /\ element.values # {}

\* One bad element spoils the body.
ParsesAsItems(body) ==
  /\ body # NotItems
  /\ body # <<>>
  /\ \A i \in DOMAIN body : IsItem(body[i])

-----------------------------------------------------------------------------
(* mapMonobankItems                                                        *)

IsKnown(item) == {item.a, item.b} \subseteq DOMAIN AlphaOf

PairOf(item) == <<AlphaOf[item.a], AlphaOf[item.b]>>

\* createRate: asOf is the item's date, the absent values stay absent.
RateOf(item) ==
  [base |-> AlphaOf[item.a], quote |-> AlphaOf[item.b], values |-> item.values, asOf |-> item.date]

NoneMapped ==
  [rates |-> <<>>, kept |-> {}, unknown |-> {}, same |-> {}, duplicate |-> {}, skipped |-> 0]

Skip(mapped) == [mapped EXCEPT !.skipped = @ + 1]

\* Faulty: a repeated pair replaces the one before it.
MapItemLastWins(mapped, item) ==
  IF ~IsKnown(item) \/ AlphaOf[item.a] = AlphaOf[item.b] THEN Skip(mapped)
  ELSE IF PairOf(item) \in mapped.kept
    THEN [Skip(mapped) EXCEPT !.rates =
            [i \in DOMAIN mapped.rates |->
               IF <<mapped.rates[i].base, mapped.rates[i].quote>> = PairOf(item)
                 THEN RateOf(item) ELSE mapped.rates[i]]]
    ELSE [mapped EXCEPT !.kept = @ \cup {PairOf(item)}, !.rates = Append(@, RateOf(item))]

\* One turn of the loop over the items.
MapItem(mapped, item) ==
  CASE ~IsKnown(item) ->
         [Skip(mapped) EXCEPT !.unknown = @ \cup ({item.a, item.b} \ DOMAIN AlphaOf)]
    [] IsKnown(item) /\ AlphaOf[item.a] = AlphaOf[item.b] ->
         [Skip(mapped) EXCEPT !.same = @ \cup {PairOf(item)}]
    [] IsKnown(item) /\ AlphaOf[item.a] # AlphaOf[item.b] /\ PairOf(item) \in mapped.kept ->
         [Skip(mapped) EXCEPT !.duplicate = @ \cup {PairOf(item)}]
    [] OTHER ->
         [mapped EXCEPT !.kept = @ \cup {PairOf(item)}, !.rates = Append(@, RateOf(item))]

\* What the loop has made of the items before each of its turns.
Turns(items) ==
  LET mapped[n \in 0..Len(items)] ==
        IF n = 0 THEN NoneMapped ELSE MapItem(mapped[n - 1], items[n])
  IN mapped

MapItems(items) == Turns(items)[Len(items)]

-----------------------------------------------------------------------------
(* What the mapper is for, without the loop.                               *)

\* The items kept: known, of two currencies, and the first of their pair.
Kept(items) ==
  {i \in DOMAIN items :
     /\ IsKnown(items[i])
     /\ PairOf(items[i])[1] # PairOf(items[i])[2]
     /\ \A j \in 1..(i - 1) : ~(IsKnown(items[j]) /\ PairOf(items[j]) = PairOf(items[i]))}

\* Upstream order, each rate as published, and every other item counted once.
MapsFaithfully(items) ==
  LET mapped == MapItems(items)
  IN /\ \E order \in [DOMAIN mapped.rates -> Kept(items)] :
          /\ \A m, n \in DOMAIN order : m < n => order[m] < order[n]
          /\ Kept(items) = {order[n] : n \in DOMAIN order}
          /\ mapped.rates = [n \in DOMAIN order |-> RateOf(items[order[n]])]
     /\ mapped.skipped = Len(items) - Len(mapped.rates)

=============================================================================
