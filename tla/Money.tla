------------------------------- MODULE Money -------------------------------
(***************************************************************************)
(* currency/money.ts and currency/conversion-limit.ts: one amount from the *)
(* client's input through the legs of a conversion to what is shown.       *)
(*                                                                         *)
(* Money is immutable and every operation returns another; `money' is the  *)
(* last one.  Operations that throw leave it and set `outcome'.  Nothing   *)
(* in src/ composes them yet: any order of calls is allowed here.          *)
(***************************************************************************)
EXTENDS DomainDecimal, CurrencyCodes

CONSTANTS
  MaxRateDigits,  \* MAX_RATE_DIGITS
  Limit,          \* CONVERSION_LIMIT
  Texts,          \* what a client may send as a currency
  Inputs,         \* what a client may send: a signed decimal, or NotANumber
  RateValues,     \* what a caller may pass as a rate, likewise
  NotANumber,
  MaxLegs         \* bound: the legs of one conversion

ASSUME MoneyAssumption ==
  /\ MaxRateDigits \in Nat \ {0} /\ MaxLegs \in Nat
  /\ Limit.currency \in Alphas /\ IsNormal(Limit.amount)
  \* A quotient can be told from the limit, as 40 digits can tell it from 4500000.
  /\ Sd(Limit.amount) <= GuardDigits

\* What is sent is a decimal as decimal.js keeps it, if it is one.
ASSUME InputAssumption ==
  \A d \in (Inputs \cup RateValues) \ {NotANumber} : d.coef \in Int /\ (d.coef > 0 => IsNormal(d))

VARIABLES
  money,     \* [amount, currency]
  stage,     \* "currency", "input", "unrounded", "rounded"
  outcome,   \* what the last call returned or threw
  legs,      \* bookkeeping of the bound MaxLegs
  named,     \* history: the text the currency was named by
  op,        \* history: what made money.amount
  exact,     \* history: what money.amount would be had nothing been rounded since the
             \* amount was last in minor units, as sent or as rounded to them
  quotients  \* history: how many quotients were rounded since then

history == <<named, op, exact, quotients>>
vars == <<money, stage, outcome, legs, history>>

Refused == {"unsupported", "not a number", "not positive", "too many decimals"}

MoneyTypeOK ==
  /\ money.currency \in Alphas \cup {Unsupported}
  /\ IsNormal(money.amount)
  /\ stage \in {"currency", "input", "unrounded", "rounded"}
  /\ outcome \in Refused \cup {"none", "money", "invalid rate", "mismatch", "passes", "exceeds"}
  /\ legs \in 0..MaxLegs
  /\ op \in {"none", "parse", "multiply", "divide"}
  /\ quotients \in 0..legs
  /\ stage \in {"currency", "input"} <=> op = "none"
  /\ stage = "currency" <=> money.currency = Unsupported

Init ==
  /\ money = [amount |-> Normal(0, 0), currency |-> Unsupported]
  /\ stage = "currency"
  /\ named \in Texts
  /\ outcome = "none"
  /\ legs = 0
  /\ op = "none"
  /\ exact = Exactly(Normal(0, 0))
  /\ quotients = 0

Throws(error) == outcome' = error /\ UNCHANGED <<money, stage, legs, history>>

-----------------------------------------------------------------------------
(* CurrencyCode.of                                                         *)

NameCurrency ==
  /\ stage = "currency" /\ outcome = "none"
  /\ IF CurrencyOf(named) = Unsupported THEN Throws("unsupported")
     ELSE /\ money' = [money EXCEPT !.currency = CurrencyOf(named)]
          /\ stage' = "input"
          /\ UNCHANGED <<outcome, legs, history>>

-----------------------------------------------------------------------------
(* parseClientAmount                                                       *)

\* readClientDecimal: plain notation, or a JSON number by its source digits; finite.
ReadsAsDecimal(input) == input # NotANumber

\* Faulty: only zero is refused as not positive.
VerdictUnsigned(input, currency) ==
  IF ~ReadsAsDecimal(input) THEN "not a number"
  ELSE IF input.coef = 0 THEN "not positive"
  ELSE IF DecimalPlaces(input) > MinorUnits[currency] THEN "too many decimals"
  ELSE "money"

\* The first rule the input breaks; "money" if none.
Verdict(input, currency) ==
  IF ~ReadsAsDecimal(input) THEN "not a number"
  ELSE IF input.coef <= 0 THEN "not positive"
  ELSE IF DecimalPlaces(input) > MinorUnits[currency] THEN "too many decimals"
  ELSE "money"

ParseClientAmount(input) ==
  /\ stage = "input"
  /\ outcome = "none"
  /\ LET verdict == Verdict(input, money.currency) IN
       IF verdict # "money" THEN Throws(verdict)
       ELSE /\ money' = [money EXCEPT !.amount = input]
            /\ stage' = "unrounded"
            /\ outcome' = "money"
            /\ op' = "parse"
            /\ exact' = Exactly(input)
            /\ UNCHANGED <<legs, named, quotients>>

-----------------------------------------------------------------------------
(* Conversion                                                              *)

\* toRate
IsRate(rate) == rate # NotANumber /\ rate.coef > 0 /\ Sd(rate) <= MaxRateDigits

\* The exact value a leg starts from: only minor units are given out to stand for themselves.
Operand == IF stage = "rounded" THEN Exactly(money.amount) ELSE exact
RoundedSoFar == IF stage = "rounded" THEN 0 ELSE quotients

Leg(name, amount, value, target) ==
  /\ money' = [amount |-> amount, currency |-> target]
  /\ stage' = "unrounded"
  /\ outcome' = "money"
  /\ legs' = legs + 1
  /\ UNCHANGED named
  /\ op' = name
  /\ exact' = value
  /\ quotients' = RoundedSoFar + (IF name = "divide" THEN 1 ELSE 0)

MultiplyByRate(rate, target) ==
  /\ op # "none" /\ legs < MaxLegs
  /\ IF ~IsRate(rate) THEN Throws("invalid rate")
     ELSE /\ Sd(money.amount) + Sd(rate) <= MaxDigits
          /\ Leg("multiply", ExactTimes(money.amount, rate), Product(Operand, rate), target)

DivideByRate(rate, target) ==
  /\ op # "none" /\ legs < MaxLegs
  /\ IF ~IsRate(rate) THEN Throws("invalid rate")
     ELSE /\ Sd(money.amount) + 2 * Sd(rate) + GuardDigits <= MaxDigits
          /\ Leg("divide", GuardedDiv(money.amount, rate), Quotient(Operand, rate), target)

\* Faulty: half up.
RoundHalfUp ==
  /\ stage = "unrounded"
  /\ LET units == ToUnit(Exactly(money.amount), -MinorUnits[money.currency] - 1)
         tenths == units.coef * Pow10[units.exp + MinorUnits[money.currency] + 1]
     IN money' = [money EXCEPT !.amount =
          Normal((tenths + 5) \div 10, -MinorUnits[money.currency])]
  /\ stage' = "rounded"
  /\ outcome' = "money"
  /\ UNCHANGED <<legs, history>>

\* round(), and what toFixed() renders.
Round ==
  /\ stage = "unrounded"
  /\ money' = [money EXCEPT !.amount =
       ToUnit(Exactly(money.amount), -MinorUnits[money.currency])]
  /\ stage' = "rounded"
  /\ outcome' = "money"
  /\ UNCHANGED <<legs, history>>

-----------------------------------------------------------------------------
(* The limit                                                               *)

\* assertWithinConversionLimit: exactly the limit passes.
AssertWithinConversionLimit ==
  /\ op # "none"
  /\ IF money.currency # Limit.currency THEN Throws("mismatch")
     ELSE IF Cmp(Exactly(money.amount), Exactly(Limit.amount)) > 0 THEN Throws("exceeds")
     ELSE Throws("passes")

\* The conversion is over.
Done == (legs = MaxLegs \/ outcome \in Refused) /\ UNCHANGED vars

Next ==
  \/ NameCurrency
  \/ \E input \in Inputs : ParseClientAmount(input)
  \/ \E rate \in RateValues, target \in Alphas :
       MultiplyByRate(rate, target) \/ DivideByRate(rate, target)
  \/ Round
  \/ AssertWithinConversionLimit
  \/ Done

Spec == Init /\ [][Next]_vars

-----------------------------------------------------------------------------
(* Properties                                                              *)

\* Letter by letter, small or capital.
Spells(text, code) ==
  DOMAIN text.letters = 1..3 /\ \A i \in 1..3 : text.letters[i] \in {code[i], code[i] + 32}

\* The currency is the one the client's text spells in ASCII letters of either case, with or
\* without blanks around it, and a text is refused only if it spells none: upper-casing, which
\* makes an S of a long s too, never finds a currency that was not written.
CurrencyAsNamed ==
  /\ stage = "input" \/ op = "parse" => Spells(named, money.currency)
  /\ outcome = "unsupported" => \A alpha \in Alphas : ~Spells(named, alpha)

\* However many products there are in a row, and however many digits they have, the
\* amount is exactly their product: nothing is rounded between two legs.
ProductsExact == quotients = 0 /\ op # "none" /\ stage = "unrounded"
                   => Cmp(Exactly(money.amount), exact) = 0

\* No quotient was rounded on the way, or only the last leg's: what is compared or rounded next
\* is what guardedDiv() guards.  Beyond that the code promises nothing and keeps nothing:
\* 4500000 / 13 * 13 need not be 4500000.
Guarded == quotients = 0 \/ (quotients = 1 /\ op = "divide")

\* The limit is judged as if nothing had been rounded: no product is rounded onto the limit
\* or across it, and neither is a quotient that is compared as it is, of such a product.
LimitJudgedExactly ==
  stage = "unrounded" /\ outcome \in {"passes", "exceeds"} /\ Guarded
    => (outcome = "passes" <=> Cmp(exact, Exactly(Limit.amount)) <= 0)

\* Rounding a product, or the quotient of one, to minor units rounds the exact value, once:
\* the quotient's precision never makes a tie or breaks one, as long as the digits it guards
\* reach half a minor unit.
RoundedOnce ==
  stage = "rounded" /\ Guarded
    => LET unit == -MinorUnits[money.currency] IN
         exact.num = 0 \/ Leading(exact) - unit + 2 <= GuardDigits
           => money.amount = ToUnit(exact, unit)

\* By way of one quotient and any number of products, before it and after it, a conversion that
\* comes to whole minor units is rounded to just these: 100 / 51.9994 * 51.9994 is 100.00.
ComesBackWhole ==
  stage = "rounded" /\ quotients <= 1
    => LET unit  == -MinorUnits[money.currency]
           whole == ToUnit(exact, unit)
       IN /\ Cmp(Exactly(whole), exact) = 0
          /\ exact.num = 0 \/ Leading(exact) - unit <= GuardDigits
          => money.amount = whole

=============================================================================
