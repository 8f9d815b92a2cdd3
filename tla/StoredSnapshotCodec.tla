------------------------ MODULE StoredSnapshotCodec ------------------------
(***************************************************************************)
(* rates/repository/stored-snapshot.codec.ts: the JSON document a snapshot *)
(* is stored as, and which documents are read back.                        *)
(*                                                                         *)
(* A timestamp is written by toISOString(): four year digits up to the     *)
(* year 9999, a sign and six digits beyond it.  A decimal is written in    *)
(* plain notation, whatever its magnitude.  A document nobody has          *)
(* serialised here (not JSON, another shape) is RedisRatesRepository's     *)
(* `garbled'.                                                              *)
(***************************************************************************)
EXTENDS CurrencyCodes, Sequences

CONSTANTS
  LastPlainInstant,  \* 9999-12-31T23:59:59.999Z
  Corrupt            \* parseStoredSnapshot returned null

ASSUME CodecAssumption == LastPlainInstant \in Nat

\* Date.prototype.toISOString()
IsoText(instant) ==
  [form |-> IF instant <= LastPlainInstant THEN "four-digit year" ELSE "expanded year",
   instant |-> instant]

\* serializeSnapshot
StoredRate(rate) ==
  [base |-> ValueOf(rate.base), quote |-> ValueOf(rate.quote), asOf |-> IsoText(rate.asOf),
   values |-> [key \in rate.values |-> "plain notation"]]

\* Faulty: only the first rate is stored.
SerializeFirst(snapshot) ==
  [rates |-> <<StoredRate(snapshot.rates[1])>>, fetchedAt |-> IsoText(snapshot.fetchedAt)]

Serialize(snapshot) ==
  [rates |-> [i \in DOMAIN snapshot.rates |-> StoredRate(snapshot.rates[i])],
   fetchedAt |-> IsoText(snapshot.fetchedAt)]

\* parseTimestamp accepts exactly the ISO_UTC_MILLIS form.
IsTimestamp(text) == text.form = "four-digit year"

\* parseCode: stricter than a client's text, canonical form only.
ParseCode(text) ==
  IF ~text.padded /\ text.letters \in [1..3 -> Capitals] THEN CurrencyOf(text) ELSE Unsupported

\* createRate's rules: two currencies, at least one value.
IsRate(rate) ==
  /\ rate.base # rate.quote
  /\ rate.values # {}

ParsedRate(stored) ==
  [base |-> ParseCode(stored.base), quote |-> ParseCode(stored.quote),
   values |-> DOMAIN stored.values, asOf |-> stored.asOf.instant]

\* parseRate, whose last word is createRate's.
IsStoredRate(stored) ==
  /\ IsTimestamp(stored.asOf)
  /\ Unsupported \notin {ParseCode(stored.base), ParseCode(stored.quote)}
  /\ \A key \in DOMAIN stored.values : stored.values[key] = "plain notation"
  /\ IsRate(ParsedRate(stored))

\* parseStoredSnapshot: one bad rate spoils the document.
Parse(document) ==
  IF /\ document.rates # <<>>
     /\ IsTimestamp(document.fetchedAt)
     /\ \A i \in DOMAIN document.rates : IsStoredRate(document.rates[i])
    THEN [rates |-> [i \in DOMAIN document.rates |-> ParsedRate(document.rates[i])],
          fetchedAt |-> document.fetchedAt.instant]
    ELSE Corrupt

\* What is stored is read back unchanged.
RoundTrips(snapshot) == Parse(Serialize(snapshot)) = snapshot

=============================================================================
