--------------------------- MODULE CurrencyCodes ---------------------------
(***************************************************************************)
(* currency/currency-table.ts and currency/currency-code.ts: the supported *)
(* currencies and the ways to one: an upstream's number, a client's text,  *)
(* a stored text.                                                          *)
(*                                                                         *)
(* A text is its characters once trimmed, by their code points, and        *)
(* whether there were blanks around them.  Characters that become several  *)
(* in upper case are left out.                                             *)
(***************************************************************************)
EXTENDS Integers

CONSTANTS
  Table,        \* CURRENCY_TABLE
  Unsupported   \* UnsupportedCurrencyError, or no code

Capitals == 65..90
Smalls   == 97..122

CurrencyInfos == [alpha : [1..3 -> Capitals], numeric : Nat, minorUnits : Nat]

\* indexBy() throws on a key the table has twice.
ASSUME TableAssumption ==
  /\ Table \subseteq CurrencyInfos
  /\ \A a, b \in Table : a.alpha = b.alpha \/ a.numeric = b.numeric => a = b
  /\ \A a \in Table : a.alpha # Unsupported

Alphas == {info.alpha : info \in Table}

\* numericToAlpha
AlphaOf == [n \in {info.numeric : info \in Table} |->
              (CHOOSE info \in Table : info.numeric = n).alpha]

\* findCurrencyByAlpha, for the minor units
MinorUnits == [alpha \in Alphas |-> (CHOOSE info \in Table : info.alpha = alpha).minorUnits]

Text(letters, padded) == [letters |-> letters, padded |-> padded]

\* THREE_ASCII_LETTERS
AreThreeAsciiLetters(letters) ==
  DOMAIN letters = 1..3 /\ \A i \in 1..3 : letters[i] \in Capitals \cup Smalls

\* The characters outside ASCII whose capital is an ASCII letter: dotless i and long s.
Folding == [char \in {305, 383} |-> IF char = 305 THEN 73 ELSE 83]

ToUpperCase(letters) ==
  [i \in DOMAIN letters |-> CASE letters[i] \in Smalls -> letters[i] - 32
                               [] letters[i] \in DOMAIN Folding -> Folding[letters[i]]
                               [] OTHER -> letters[i]]

\* Faulty: the letters are looked at in upper case.
CurrencyOfUpper(text) ==
  LET code == ToUpperCase(text.letters)
  IN IF AreThreeAsciiLetters(code) /\ code \in Alphas THEN code ELSE Unsupported

\* CurrencyCode.of: the letters are looked at before any case change.
CurrencyOf(text) ==
  LET code == ToUpperCase(text.letters)
  IN IF AreThreeAsciiLetters(text.letters) /\ code \in Alphas THEN code ELSE Unsupported

\* CurrencyCode.value
ValueOf(code) == Text(code, FALSE)

=============================================================================
