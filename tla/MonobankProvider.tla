-------------------------- MODULE MonobankProvider --------------------------
(***************************************************************************)
(* rates/providers/monobank/monobank-rate.provider.ts: one getRates().     *)
(*                                                                         *)
(* One timer covers the request, the headers and the body.  It races the   *)
(* response and every chunk: when it fires it aborts the request and       *)
(* destroys the stream, if there is one yet.  Aborting does not recall a   *)
(* response already on its way, so `http.get` may still resolve afterwards *)
(* with a stream nobody has destroyed.                                     *)
(***************************************************************************)
EXTENDS MonobankFeed, StoredSnapshotCodec

CONSTANTS
  TimeoutMs,    \* MONOBANK_TIMEOUT_MS
  MaxDelay,     \* the longest delay setTimeout keeps; it makes 1 of a longer one
  MaxBodyBytes, \* MONOBANK_MAX_BODY_BYTES
  ChunkSizes,   \* the sizes of the chunks a body may arrive in
  Bodies,       \* the bodies the upstream may send
  Statuses,     \* the HTTP statuses it may send
  MaxTime       \* bound: the model's clock stops here

ASSUME ProviderAssumption ==
  /\ TimeoutMs \in Nat \ {0} /\ MaxDelay \in Nat \ {0} /\ MaxTime \in Nat
  /\ MaxBodyBytes \in Nat /\ ChunkSizes \subseteq Nat \ {0}
  /\ Statuses \subseteq 100..599

ASSUME BodyAssumption == Bodies \subseteq {NotItems} \cup Seq(Items)

\* The program runs in a year of four digits.
ASSUME ClockAssumption == MaxTime <= LastPlainInstant

VARIABLES
  now,
  phase,        \* "idle", "requested" (http.get awaited), "reading", "settled"
  timer,        \* when the timer fires; Off when it is not armed
  timedOut,
  stream,       \* "none", "open", "destroyed", "ended"
  bytes,        \* how much of the body has been read
  body,         \* history: the body, once complete
  outcome,      \* the snapshot or the error getRates() settled with
  startedAt     \* history: when getRates() was called

providerVars == <<now, phase, timer, timedOut, stream, bytes, body, outcome, startedAt>>

Off == -1
Pending == [error |-> "none"]
Errors == [error : {"invalid", "timeout", "network", "rate limited", "http"}]
Rejected(error) == [error |-> error]

ProviderTypeOK ==
  /\ now \in Nat /\ startedAt \in Nat
  /\ phase \in {"idle", "requested", "reading", "settled"}
  /\ timer \in Nat \cup {Off}
  /\ timedOut \in BOOLEAN
  /\ stream \in {"none", "open", "destroyed", "ended"}
  /\ bytes \in 0..MaxBodyBytes
  /\ phase = "settled" <=> outcome # Pending
  /\ \/ outcome \in Errors \cup {Pending}
     \/ outcome.fetchedAt \in Nat /\ outcome.rates # <<>>

ProviderInit ==
  /\ now = 0 /\ startedAt = 0
  /\ phase = "idle"
  /\ timer = Off
  /\ timedOut = FALSE
  /\ stream = "none"
  /\ bytes = 0
  /\ body = NotItems
  /\ outcome = Pending

-----------------------------------------------------------------------------
(* fetchBody                                                               *)

\* setTimeout with a delay it cannot represent fires after 1 ms.
Delay(ms) == IF ms > MaxDelay THEN 1 ELSE ms

\* The bound leaves the call the time to settle.
GetRates ==
  /\ phase = "idle"
  /\ now + TimeoutMs <= MaxTime
  /\ phase' = "requested"
  /\ timer' = now + Delay(TimeoutMs)
  /\ startedAt' = now
  /\ UNCHANGED <<now, timedOut, stream, bytes, body, outcome>>

\* The end of getRates(): finally() clears the timer.
SettlesWith(result) ==
  /\ phase' = "settled"
  /\ outcome' = result
  /\ timer' = Off
  /\ UNCHANGED <<now, timedOut, startedAt>>

\* The catch of fetchBody: once timed out, every error is the timeout.
Throws(error) == SettlesWith(Rejected(IF timedOut THEN "timeout" ELSE error))

\* Faulty: the timer only aborts a request whose headers are not there yet.
TimerFiresEarly ==
  /\ phase \in {"requested", "reading"}
  /\ timer = now
  /\ timer' = Off
  /\ timedOut' = (phase = "requested")
  /\ UNCHANGED <<now, phase, stream, bytes, body, outcome, startedAt>>

TimerFires ==
  /\ phase \in {"requested", "reading"}
  /\ timer = now
  /\ timer' = Off
  /\ timedOut' = TRUE
  /\ stream' = IF stream = "open" THEN "destroyed" ELSE stream
  /\ UNCHANGED <<now, phase, bytes, body, outcome, startedAt>>

\* http.get rejects: refused, reset, not resolved, or aborted.
HttpRejects ==
  /\ phase = "requested"
  /\ Throws("network")
  /\ UNCHANGED <<stream, bytes, body>>

Reads ==
  /\ phase' = "reading"
  /\ stream' = "open"
  /\ UNCHANGED <<now, timer, timedOut, bytes, body, outcome, startedAt>>

\* The response is not read, its stream is `left`, and the status is the error.
Refuses(status, left) ==
  /\ stream' = left
  /\ Throws(IF status = 429 THEN "rate limited" ELSE "http")
  /\ UNCHANGED <<bytes, body>>

\* Faulty: a response that comes after the timer is read all the same.
HttpRespondsLate(status) ==
  phase = "requested" /\ IF status \in 200..299 THEN Reads ELSE Refuses(status, "destroyed")

\* Faulty: a response that is not read is left open.
HttpRespondsLeaking(status) ==
  phase = "requested" /\ IF status \in 200..299 /\ ~timedOut THEN Reads ELSE Refuses(status, "open")

\* http.get resolves with a stream: destroyed if the timer has fired or the
\* status is no success, else read.
HttpResponds(status) ==
  /\ phase = "requested"
  /\ \/ status \in 200..299 /\ ~timedOut /\ Reads
     \/ (status \notin 200..299 \/ timedOut) /\ Refuses(status, "destroyed")

\* Faulty: the limit is compared with what had been read before this chunk.
ChunkArrivesLate(size) ==
  /\ phase = "reading" /\ stream = "open"
  /\ bytes <= MaxBodyBytes
  /\ bytes' = bytes + size
  /\ UNCHANGED <<now, phase, timer, timedOut, stream, body, outcome, startedAt>>

\* readLimited: another chunk, which may be the one too many.
ChunkArrives(size) ==
  /\ phase = "reading" /\ stream = "open"
  /\ \/ /\ bytes + size <= MaxBodyBytes
        /\ bytes' = bytes + size
        /\ UNCHANGED <<now, phase, timer, timedOut, stream, body, outcome, startedAt>>
     \/ /\ bytes + size > MaxBodyBytes
        /\ stream' = "destroyed"
        /\ Throws("invalid")
        /\ UNCHANGED <<bytes, body>>

\* The stream breaks off, or the destroyed stream ends the loop that reads it.
StreamFails ==
  /\ phase = "reading"
  /\ stream' = "destroyed"
  /\ Throws("network")
  /\ UNCHANGED <<bytes, body>>

\* Faulty: the snapshot is stamped with the time of the request.
ResultEarly(complete) ==
  IF ~ParsesAsItems(complete) \/ MapItems(complete).rates = <<>>
    THEN Invalid
    ELSE [rates |-> MapItems(complete).rates, fetchedAt |-> startedAt]

\* The body is complete and stamped; it is parsed and mapped outside the catch, so
\* what is wrong with it is never a transport error.
Result(complete) ==
  IF ~ParsesAsItems(complete) \/ MapItems(complete).rates = <<>>
    THEN Invalid
    ELSE [rates |-> MapItems(complete).rates, fetchedAt |-> now]

BodyEnds(complete) ==
  /\ phase = "reading" /\ stream = "open"
  /\ bytes > 0 \/ complete = NotItems
  /\ stream' = "ended"
  /\ body' = complete
  /\ SettlesWith(Result(complete))
  /\ UNCHANGED bytes

-----------------------------------------------------------------------------

\* Time passes no due timer, and an abort takes effect at once.
Tick ==
  /\ now < MaxTime
  /\ timer # now
  /\ timedOut => phase = "settled"
  /\ now' = now + 1
  /\ UNCHANGED <<phase, timer, timedOut, stream, bytes, body, outcome, startedAt>>

-----------------------------------------------------------------------------
(* Properties                                                              *)

Fetched == phase = "settled" /\ outcome \notin Errors

\* Once the timer has fired the call ends as a timeout, even if the response comes
\* after it, and whatever the aborted transport reports.
TimeoutWins == timedOut /\ phase = "settled" => outcome = Rejected("timeout")

\* Nothing outlives the call: no armed timer, and no stream left open to be read by
\* nobody and hold its connection.
NothingOutlives == phase = "settled" => timer = Off /\ stream # "open"

\* The timer covers the complete response: headers on time and a body that never
\* ends are no way around it.
SettlesInTime == phase \in {"requested", "reading"} => now <= startedAt + TimeoutMs

\* A snapshot holds the feed's rates in upstream order, the first of each pair, and
\* no item is lost without being counted.
RatesAsPublished == Fetched => MapsFaithfully(body) /\ outcome.rates = MapItems(body).rates

\* A fetched snapshot survives the store, as long as its dates have four-digit years.
StoredAsFetched ==
  Fetched /\ (\A i \in DOMAIN outcome.rates : outcome.rates[i].asOf <= LastPlainInstant)
    => RoundTrips(outcome)

\* rates-repository-contract.ts: what the provider accepts is read back as it was set.
EveryFetchedRoundTrips == Fetched => RoundTrips(outcome)

\* MONOBANK_TIMEOUT_MS is the time allowed for a complete upstream response: no call
\* is given up before it.
TimeAllowed ==
  phase = "settled" /\ outcome = Rejected("timeout") => now >= startedAt + TimeoutMs

=============================================================================
