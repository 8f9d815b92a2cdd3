------------------------ MODULE MockedProviderProofs ------------------------
(***************************************************************************)
(* Proofs about one getRates() of MonobankProvider, for any timeout, body  *)
(* limit, feed and upstream, the mock included.                            *)
(*                                                                         *)
(* What is claimed of a call that has settled, or of how long it took, is  *)
(* made inductive by what is true of one under way: its timer is armed     *)
(* unless it has fired (CallTimed), and once it has fired there is no      *)
(* stream left to read (NothingToRead).  A snapshot's origin is kept as    *)
(* long as the call lives: it maps the body that was read, at the moment   *)
(* it was complete (FetchedFromBody), so what FeedProofs says of the       *)
(* mapper and of the stored form holds of it.  Against the mock, the mode  *)
(* that was recorded at the request's arrival decides the answer, and the  *)
(* answer what may be read (ModeInv); no arrival is counted twice          *)
(* (CounterInv).                                                           *)
(***************************************************************************)
EXTENDS MockedProvider, FeedProofs

USE ProviderAssumption

\* A call under way has its timer, for no longer than allowed, or has timed out this
\* very moment.
CallTimed ==
  /\ phase \in {"requested", "reading"} =>
       /\ startedAt <= now /\ now <= startedAt + TimeoutMs
       /\ ~timedOut => timer \in Nat /\ now <= timer /\ timer <= startedAt + TimeoutMs
  /\ phase = "idle" => ~timedOut

\* There is a stream only while it is read, and none once the timer has fired.
NothingToRead ==
  /\ phase \in {"idle", "requested"} => stream = "none"
  /\ stream = "open" => phase = "reading" /\ ~timedOut

ProviderInv ==
  /\ ProviderTypeOK
  /\ CallTimed
  /\ NothingToRead
  /\ TimeoutWins
  /\ NothingOutlives

-----------------------------------------------------------------------------

\* A snapshot is not the promise that is still pending.
LEMMA SnapshotNotPending ==
  ASSUME NEW rates, NEW at
  PROVE  [rates |-> rates, fetchedAt |-> at] # Pending
<1>1. DOMAIN [rates |-> rates, fetchedAt |-> at] = {"rates", "fetchedAt"}
  OBVIOUS
<1>2. DOMAIN Pending = {"error"}
  BY DEF Pending
<1> QED BY <1>1, <1>2

\* The errors a call may throw, all but the timeout it may be rejected with instead.
ThrownErrors == {"invalid", "network", "rate limited", "http"}

LEMMA ThrownNames ==
  /\ "invalid" \in ThrownErrors /\ "network" \in ThrownErrors
  /\ \A status : (IF status = 429 THEN "rate limited" ELSE "http") \in ThrownErrors
BY DEF ThrownErrors

\* The errors a call may be rejected with.
LEMMA RejectedIsError ==
  ASSUME NEW e, e \in ThrownErrors \/ e = "timeout"
  PROVE  Rejected(e) \in Errors /\ Rejected(e) # Pending
BY ONLY e \in ThrownErrors \/ e = "timeout" DEF ThrownErrors, Rejected, Errors, Pending

\* What is thrown settles the call: with the timeout, once the timer has fired, else with
\* the error it is thrown as.
LEMMA Thrown ==
  ASSUME NEW error \in ThrownErrors, Throws(error)
  PROVE  /\ phase' = "settled" /\ now' = now
         /\ outcome' \in Errors /\ outcome' # Pending
         /\ outcome' = Rejected("timeout") \/ (~timedOut /\ outcome' = Rejected(error))
<1> DEFINE e == IF timedOut THEN "timeout" ELSE error
<1>1. outcome' = Rejected(e) /\ phase' = "settled" /\ now' = now
  BY DEF Throws, SettlesWith
<1>2. (timedOut /\ e = "timeout") \/ (~timedOut /\ e = error)
  OBVIOUS
<1> HIDE DEF e
<1>3. e \in ThrownErrors \/ e = "timeout"
  BY ONLY <1>2, error \in ThrownErrors
<1>4. Rejected(e) \in Errors /\ Rejected(e) # Pending
  BY <1>3, RejectedIsError
<1> QED BY <1>1, <1>2, <1>4

\* The timer is armed for no longer than the timeout, also when setTimeout cuts it.
LEMMA DelayBounded == Delay(TimeoutMs) \in Nat /\ Delay(TimeoutMs) <= TimeoutMs
BY DEF Delay

\* What a body makes of itself settles the call.
LEMMA ResultType ==
  ASSUME NEW complete, now \in Nat
  PROVE  /\ Result(complete) # Pending
         /\ \/ Result(complete) \in Errors
            \/ Result(complete).fetchedAt \in Nat /\ Result(complete).rates # <<>>
<1>1. CASE ~ParsesAsItems(complete) \/ MapItems(complete).rates = <<>>
  <2>1. Result(complete) = Rejected("invalid")
    BY <1>1 DEF Result, Invalid, Rejected
  <2>2. Rejected("invalid") \in Errors /\ Rejected("invalid") # Pending
    BY ONLY ThrownNames, RejectedIsError
  <2> QED BY <2>1, <2>2
<1>2. CASE ~(~ParsesAsItems(complete) \/ MapItems(complete).rates = <<>>)
  BY <1>2, SnapshotNotPending DEF Result
<1> QED BY <1>1, <1>2

\* A call that throws keeps the invariant, if it leaves no stream open.
LEMMA ThrowsKeepsInv ==
  ASSUME ProviderInv, phase \in {"requested", "reading"},
         NEW error \in ThrownErrors, Throws(error),
         stream' \in {"none", "destroyed"}, UNCHANGED bytes
  PROVE  ProviderInv'
<1>1. outcome' \in Errors /\ outcome' # Pending
  BY ONLY Throws(error), error \in ThrownErrors, Thrown
<1> USE DEF ProviderInv, ProviderTypeOK, CallTimed, NothingToRead, TimeoutWins,
            NothingOutlives, Throws, SettlesWith
<1>2. timedOut => outcome' = Rejected("timeout")
  OBVIOUS
<1>3. ProviderTypeOK'
  BY <1>1
<1> QED BY <1>2, <1>3

\* Every step of the call keeps the invariant.
LEMMA CallKeepsInv ==
  ASSUME ProviderInv,
         \/ GetRates \/ HttpRejects \/ StreamFails \/ Tick \/ TimerFires
         \/ \E status \in Statuses : HttpResponds(status)
         \/ \E size \in ChunkSizes : ChunkArrives(size)
         \/ \E complete \in Bodies : BodyEnds(complete)
  PROVE  ProviderInv'
<1> USE DEF ProviderInv
<1> USE DEF ProviderTypeOK, CallTimed, NothingToRead, TimeoutWins, NothingOutlives
<1>1. CASE GetRates
  BY <1>1, DelayBounded DEF GetRates, Off
<1>2. CASE HttpRejects
  BY <1>2, ThrownNames, ThrowsKeepsInv DEF HttpRejects
<1>3. CASE StreamFails
  BY <1>3, ThrownNames, ThrowsKeepsInv DEF StreamFails
<1>4. CASE Tick
  BY <1>4 DEF Tick
<1>5. CASE TimerFires
  BY <1>5 DEF TimerFires, Off
<1>6. ASSUME NEW status \in Statuses, HttpResponds(status)
      PROVE  ProviderInv'
  <2>1. CASE ~timedOut /\ Reads
    BY <1>6, <2>1 DEF HttpResponds, Reads
  <2>2. CASE Refuses(status, "destroyed")
    <3> DEFINE e == IF status = 429 THEN "rate limited" ELSE "http"
    <3>1. phase = "requested" /\ Throws(e) /\ stream' = "destroyed" /\ UNCHANGED bytes
      BY <1>6, <2>2 DEF HttpResponds, Refuses
    <3>2. e \in ThrownErrors
      BY ThrownNames
    <3> HIDE DEF e
    <3> QED BY ONLY ProviderInv, <3>1, <3>2, ThrowsKeepsInv
  <2> QED BY <1>6, <2>1, <2>2 DEF HttpResponds
<1>7. ASSUME NEW size \in ChunkSizes, ChunkArrives(size)
      PROVE  ProviderInv'
  <2>1. CASE bytes + size <= MaxBodyBytes
    BY <1>7, <2>1 DEF ChunkArrives
  <2>2. CASE bytes + size > MaxBodyBytes
    <3>1. phase = "reading" /\ Throws("invalid") /\ stream' = "destroyed" /\ UNCHANGED bytes
      BY <1>7, <2>2 DEF ChunkArrives
    <3> QED BY ONLY ProviderInv, <3>1, ThrownNames, ThrowsKeepsInv
  <2> QED BY <1>7, <2>1, <2>2 DEF ChunkArrives
<1>8. ASSUME NEW complete \in Bodies, BodyEnds(complete)
      PROVE  ProviderInv'
  BY <1>8, ResultType DEF BodyEnds, SettlesWith
<1> QED BY <1>1, <1>2, <1>3, <1>4, <1>5, <1>6, <1>7, <1>8

\* The invariant holds at first and is kept: what the mock does on its own is no step
\* of the call.
LEMMA ProviderInvStep == ProviderInv /\ [Next]_vars => ProviderInv'
<1> SUFFICES ASSUME ProviderInv, [Next]_vars
             PROVE  ProviderInv'
  OBVIOUS
<1>1. CASE Asks
  BY <1>1, CallKeepsInv DEF Asks
<1>2. CASE Receives
  BY <1>2, CallKeepsInv DEF Receives
<1>3. CASE Breaks
  BY <1>3, CallKeepsInv DEF Breaks
<1>4. CASE TimePasses
  BY <1>4, CallKeepsInv DEF TimePasses
<1>5. ASSUME UNCHANGED providerVars
      PROVE  ProviderInv'
  BY <1>5 DEF providerVars, ProviderInv, ProviderTypeOK, CallTimed, NothingToRead,
              TimeoutWins, NothingOutlives
<1>6. CASE RequestArrives \/ HangsUp \/ Others \/ MockExits \/ TimeIsUp \/ UNCHANGED vars
  BY <1>5, <1>6 DEF RequestArrives, HangsUp, Others, MockExits, TimeIsUp, vars
<1> QED BY <1>1, <1>2, <1>3, <1>4, <1>6 DEF Next

\* ProviderInv holds in every reachable state.
THEOREM ProviderInvariant == Spec => []ProviderInv
<1>1. ASSUME Init
      PROVE  ProviderInv
  <2> USE <1>1 DEF Init, ProviderInit
  <2>1. ProviderTypeOK
    <3>1. now \in Nat /\ startedAt \in Nat /\ bytes \in 0..MaxBodyBytes
      OBVIOUS
    <3>2. timedOut \in BOOLEAN /\ outcome \in Errors \cup {Pending} /\ (phase = "settled" <=> outcome # Pending)
      OBVIOUS
    <3>3. /\ phase \in {"idle", "requested", "reading", "settled"}
          /\ stream \in {"none", "open", "destroyed", "ended"}
          /\ timer \in Nat \cup {Off}
      OBVIOUS
    <3> QED BY <3>1, <3>2, <3>3 DEF ProviderTypeOK
  <2>2. CallTimed /\ NothingToRead /\ TimeoutWins /\ NothingOutlives
    BY DEF CallTimed, NothingToRead, TimeoutWins, NothingOutlives
  <2> QED BY <2>1, <2>2 DEF ProviderInv
<1> QED BY <1>1, ProviderInvStep, PTL DEF Spec

\* The state of a call is what its declarations say.
THEOREM ProviderTypeCorrect == Spec => []ProviderTypeOK
<1>1. ProviderInv => ProviderTypeOK
  BY DEF ProviderInv
<1> QED BY <1>1, ProviderInvariant, PTL

\* A call whose timer has fired ends as a timeout, whatever the transport reports.
THEOREM TimeoutAlwaysWins == Spec => []TimeoutWins
<1>1. ProviderInv => TimeoutWins
  BY DEF ProviderInv
<1> QED BY <1>1, ProviderInvariant, PTL

\* No timer and no stream outlives its call.
THEOREM NothingEverOutlives == Spec => []NothingOutlives
<1>1. ProviderInv => NothingOutlives
  BY DEF ProviderInv
<1> QED BY <1>1, ProviderInvariant, PTL

\* No call takes longer than its timeout.
THEOREM CallSettlesInTime == Spec => []SettlesInTime
<1>1. ProviderInv => SettlesInTime
  BY DEF ProviderInv, CallTimed, SettlesInTime
<1> QED BY <1>1, ProviderInvariant, PTL

-----------------------------------------------------------------------------
(* The provider implements the safety of its contract.                     *)

\* A call starts under its contract with nothing settled.
LEMMA ContractInit == Init => Contract!Init
BY DEF Init, ProviderInit, Contract!Init, Fetched

\* A call that begins is asked, and due when its timeout is over.
LEMMA AskImplemented ==
  ASSUME ProviderInv, GetRates
  PROVE  Contract!Ask
BY DEF GetRates, Contract!Ask, Fetched

\* A call that throws is rejected, and one whose body is complete is resolved with a
\* stamp of that moment, or rejected.
LEMMA SettleImplemented ==
  ASSUME ProviderInv, phase \in {"requested", "reading"}, phase' = "settled", now' = now,
         outcome' \in Errors \/ (outcome' \notin Errors /\ outcome'.fetchedAt = now)
  PROVE  Contract!Settle
<1>1. CASE outcome' \in Errors
  BY <1>1 DEF Contract!Settle, Contract!Settles, Fetched
<1>2. CASE outcome' \notin Errors /\ outcome'.fetchedAt = now
  BY <1>2 DEF Contract!Settle, Contract!Settles, Fetched
<1> QED BY <1>1, <1>2

\* Time passes no call that is due.
LEMMA PassImplemented ==
  ASSUME ProviderInv, Tick
  PROVE  Contract!Pass
BY DEF ProviderInv, ProviderTypeOK, CallTimed, Tick, Contract!Pass, Fetched

\* What moves a call on without settling it is no step of the contract.
LEMMA StutterImplemented ==
  ASSUME UNCHANGED <<now, outcome, startedAt>>,
         \/ phase' = phase
         \/ phase = "requested" /\ phase' = "reading"
  PROVE  UNCHANGED Contract!contractVars
BY DEF Contract!contractVars, Fetched

\* Every step of the call is a step of its contract, or none.
LEMMA CallImplemented ==
  ASSUME ProviderInv,
         \/ GetRates \/ HttpRejects \/ StreamFails \/ Tick \/ TimerFires
         \/ \E status \in Statuses : HttpResponds(status)
         \/ \E size \in ChunkSizes : ChunkArrives(size)
         \/ \E complete \in Bodies : BodyEnds(complete)
  PROVE  [Contract!Next]_(Contract!contractVars)
<1>1. ASSUME NEW error \in ThrownErrors, Throws(error),
             phase \in {"requested", "reading"}
      PROVE  Contract!Settle
  BY <1>1, Thrown, SettleImplemented
<1>2. CASE GetRates
  BY <1>2, AskImplemented DEF Contract!Next
<1>3. CASE HttpRejects
  BY <1>1, <1>3, ThrownNames DEF HttpRejects, Contract!Next
<1>4. CASE StreamFails
  BY <1>1, <1>4, ThrownNames DEF StreamFails, Contract!Next
<1>5. CASE Tick
  BY <1>5, PassImplemented DEF Contract!Next
<1>6. CASE TimerFires
  BY <1>6, StutterImplemented DEF TimerFires
<1>7. ASSUME NEW status \in Statuses, HttpResponds(status)
      PROVE  [Contract!Next]_(Contract!contractVars)
  <2>1. CASE Reads
    BY <1>7, <2>1, StutterImplemented DEF HttpResponds, Reads
  <2>2. CASE Refuses(status, "destroyed")
    <3> DEFINE e == IF status = 429 THEN "rate limited" ELSE "http"
    <3>1. phase = "requested" /\ Throws(e)
      BY <1>7, <2>2 DEF HttpResponds, Refuses
    <3>2. e \in ThrownErrors
      BY ThrownNames
    <3> HIDE DEF e
    <3> QED BY <1>1, <3>1, <3>2 DEF Contract!Next
  <2> QED BY <1>7, <2>1, <2>2 DEF HttpResponds
<1>8. ASSUME NEW size \in ChunkSizes, ChunkArrives(size)
      PROVE  [Contract!Next]_(Contract!contractVars)
  <2>1. CASE Throws("invalid")
    BY <1>1, <1>8, <2>1, ThrownNames DEF ChunkArrives, Contract!Next
  <2>2. CASE UNCHANGED <<now, phase, timer, timedOut, stream, body, outcome, startedAt>>
    BY <2>2, StutterImplemented
  <2> QED BY <1>8, <2>1, <2>2 DEF ChunkArrives
<1>9. ASSUME NEW complete \in Bodies, BodyEnds(complete)
      PROVE  [Contract!Next]_(Contract!contractVars)
  <2>1. outcome' = Result(complete) /\ phase' = "settled" /\ now' = now /\ phase = "reading"
    BY <1>9 DEF BodyEnds, SettlesWith
  <2>2. Result(complete) \in Errors
          \/ (Result(complete) \notin Errors /\ Result(complete).fetchedAt = now)
    BY ResultType DEF Result, Invalid, Errors
  <2> QED BY <2>1, <2>2, SettleImplemented DEF Contract!Next
<1> QED BY <1>2, <1>3, <1>4, <1>5, <1>6, <1>7, <1>8, <1>9

\* Whatever the upstream does, the provider implements the safety half of KeepsContract:
\* one settlement, in time, stamped at the moment the body was complete.
THEOREM ProviderImplementsContract == Spec => Contract!Spec
<1>1. ProviderInv /\ [Next]_vars => [Contract!Next]_(Contract!contractVars)
  <2> SUFFICES ASSUME ProviderInv, [Next]_vars
               PROVE  [Contract!Next]_(Contract!contractVars)
    OBVIOUS
  <2>1. CASE Asks
    BY <2>1, CallImplemented DEF Asks
  <2>2. CASE Receives
    BY <2>2, CallImplemented DEF Receives
  <2>3. CASE Breaks
    BY <2>3, CallImplemented DEF Breaks
  <2>4. CASE TimePasses
    BY <2>4, CallImplemented DEF TimePasses
  <2>5. ASSUME UNCHANGED providerVars
        PROVE  UNCHANGED Contract!contractVars
    BY <2>5, StutterImplemented DEF providerVars
  <2>6. CASE RequestArrives \/ HangsUp \/ Others \/ MockExits \/ TimeIsUp \/ UNCHANGED vars
    BY <2>5, <2>6 DEF RequestArrives, HangsUp, Others, MockExits, TimeIsUp, vars
  <2> QED BY <2>1, <2>2, <2>3, <2>4, <2>6 DEF Next
<1> QED BY <1>1, ContractInit, ProviderInvariant, PTL DEF Spec, Contract!Spec

-----------------------------------------------------------------------------
(* What a call is resolved with                                            *)

\* A snapshot is what the mapper makes of a body that parses, stamped by the clock.
FetchedFromBody ==
  /\ now <= MaxTime
  /\ Fetched =>
       /\ body \in Seq(Items) /\ ParsesAsItems(body)
       /\ outcome.rates = MapItems(body).rates /\ outcome.rates # <<>>
       /\ \E at \in 0..MaxTime : outcome = [rates |-> MapItems(body).rates, fetchedAt |-> at]

\* Only a complete body resolves a call: every other way to settle rejects it.
LEMMA OnlyBodyResolves ==
  ASSUME ProviderInv, phase' = "settled", phase # "settled",
         \/ GetRates \/ HttpRejects \/ StreamFails \/ Tick \/ TimerFires
         \/ \E status \in Statuses : HttpResponds(status)
         \/ \E size \in ChunkSizes : ChunkArrives(size)
         \/ \E complete \in Bodies : BodyEnds(complete)
  PROVE  outcome' \in Errors \/ \E complete \in Bodies : BodyEnds(complete)
<1>1. ASSUME NEW error \in ThrownErrors, Throws(error)
      PROVE  outcome' \in Errors
  BY <1>1, Thrown
<1>2. CASE GetRates \/ Tick \/ TimerFires
  BY <1>2 DEF GetRates, Tick, TimerFires
<1>3. CASE HttpRejects \/ StreamFails
  BY <1>1, <1>3, ThrownNames DEF HttpRejects, StreamFails
<1>4. ASSUME NEW status \in Statuses, HttpResponds(status)
      PROVE  outcome' \in Errors
  <2> DEFINE e == IF status = 429 THEN "rate limited" ELSE "http"
  <2>1. Throws(e) /\ e \in ThrownErrors
    BY <1>4, ThrownNames DEF HttpResponds, Reads, Refuses
  <2> HIDE DEF e
  <2> QED BY <1>1, <2>1
<1>5. ASSUME NEW size \in ChunkSizes, ChunkArrives(size)
      PROVE  outcome' \in Errors
  BY <1>1, <1>5, ThrownNames DEF ChunkArrives
<1> QED BY <1>2, <1>3, <1>4, <1>5

\* A complete body resolves the call with its rates, or is invalid.
LEMMA BodyResolves ==
  ASSUME ProviderInv, now <= MaxTime, NEW complete \in Bodies, BodyEnds(complete)
  PROVE  \/ outcome' = Rejected("invalid") /\ outcome' \in Errors
         \/ /\ body' = complete /\ complete \in Seq(Items) /\ ParsesAsItems(complete)
            /\ MapItems(complete).rates # <<>> /\ now \in 0..MaxTime
            /\ outcome' = [rates |-> MapItems(complete).rates, fetchedAt |-> now]
<1>1. body' = complete /\ outcome' = Result(complete) /\ now \in 0..MaxTime
  BY DEF BodyEnds, SettlesWith, ProviderInv, ProviderTypeOK
<1>2. CASE ~ParsesAsItems(complete) \/ MapItems(complete).rates = <<>>
  <2>1. Result(complete) = Rejected("invalid")
    BY <1>2 DEF Result, Invalid, Rejected
  <2> QED BY <1>1, <2>1, ThrownNames, RejectedIsError
<1>3. CASE ParsesAsItems(complete) /\ MapItems(complete).rates # <<>>
  <2>1. complete \in Seq(Items)
    BY <1>3, BodyAssumption DEF ParsesAsItems
  <2> QED BY <1>1, <1>3, <2>1 DEF Result
<1> QED BY <1>2, <1>3

LEMMA FetchedFromBodyStep ==
  ASSUME ProviderInv, FetchedFromBody, [Next]_vars
  PROVE  FetchedFromBody'
<1> DEFINE CallStep ==
             \/ GetRates \/ HttpRejects \/ StreamFails \/ Tick \/ TimerFires
             \/ \E status \in Statuses : HttpResponds(status)
             \/ \E size \in ChunkSizes : ChunkArrives(size)
             \/ \E complete \in Bodies : BodyEnds(complete)
<1>1. CASE UNCHANGED providerVars
  BY <1>1 DEF providerVars, FetchedFromBody, Fetched
<1>2. CASE CallStep
  <2>1. now' <= MaxTime
    <3>1. CASE Tick
      BY <3>1 DEF Tick, ProviderInv, ProviderTypeOK
    <3>2. ASSUME NEW result, SettlesWith(result)
          PROVE  now' = now
      BY <3>2 DEF SettlesWith
    <3>3. GetRates \/ HttpRejects \/ StreamFails \/ TimerFires => now' = now
      BY <3>2 DEF GetRates, HttpRejects, StreamFails, TimerFires, Throws
    <3>4. ASSUME NEW status \in Statuses, HttpResponds(status)
          PROVE  now' = now
      <4>1. CASE Reads
        BY <4>1 DEF Reads
      <4>2. CASE Refuses(status, "destroyed")
        BY <3>2, <4>2 DEF Refuses, Throws
      <4> QED BY <3>4, <4>1, <4>2 DEF HttpResponds
    <3>5. \A size \in ChunkSizes : ChunkArrives(size) => now' = now
      BY <3>2 DEF ChunkArrives, Throws
    <3>6. \A complete \in Bodies : BodyEnds(complete) => now' = now
      BY <3>2 DEF BodyEnds
    <3>7. CASE now' = now
      BY <3>7 DEF FetchedFromBody
    <3> QED BY <1>2, <3>1, <3>3, <3>4, <3>5, <3>6, <3>7
  <2>2. CASE phase = "settled"
    <3>1. UNCHANGED <<phase, body, outcome>>
      BY <1>2, <2>2 DEF GetRates, HttpRejects, StreamFails, Tick, TimerFires, HttpResponds,
                        ChunkArrives, BodyEnds
    <3> QED BY <2>1, <3>1 DEF FetchedFromBody, Fetched
  <2>3. CASE phase # "settled" /\ phase' = "settled"
    <3>1. outcome' \in Errors \/ \E complete \in Bodies : BodyEnds(complete)
      BY <1>2, <2>3, OnlyBodyResolves
    <3>2. CASE outcome' \in Errors
      BY <2>1, <3>2 DEF FetchedFromBody, Fetched
    <3>3. ASSUME NEW complete \in Bodies, BodyEnds(complete)
          PROVE  FetchedFromBody'
      BY <2>1, <3>3, BodyResolves DEF FetchedFromBody, Fetched
    <3> QED BY <3>1, <3>2, <3>3
  <2>4. CASE phase' # "settled"
    BY <2>1, <2>4 DEF FetchedFromBody, Fetched
  <2> QED BY <2>2, <2>3, <2>4
<1>3. CallStep \/ UNCHANGED providerVars
  BY DEF Next, Asks, Receives, Breaks, TimePasses, RequestArrives, HangsUp, Others, MockExits,
         TimeIsUp, vars
<1> QED BY <1>1, <1>2, <1>3

LEMMA FetchedFromBodyInvariant == Spec => []FetchedFromBody
<1>1. Init => FetchedFromBody
  BY DEF Init, ProviderInit, FetchedFromBody, Fetched
<1>2. ProviderInv /\ FetchedFromBody /\ [Next]_vars => FetchedFromBody'
  BY FetchedFromBodyStep
<1> QED BY <1>1, <1>2, ProviderInvariant, PTL DEF Spec

\* Of any feed, a fetched snapshot holds the rates as published, in upstream order, the
\* first of each pair, and every item that is not among them is counted.
THEOREM AlwaysAsPublished == Spec => []RatesAsPublished
<1>1. FetchedFromBody => RatesAsPublished
  BY MapperIsFaithful DEF FetchedFromBody, RatesAsPublished
<1> QED BY <1>1, FetchedFromBodyInvariant, PTL

\* What the mapper makes of items that parse is what createRate() makes: two currencies of
\* the table, at least one value, a date.
LEMMA MappedAreRates ==
  ASSUME NEW items \in Seq(Items), ParsesAsItems(items),
         NEW k \in DOMAIN MapItems(items).rates
  PROVE  MapItems(items).rates[k] \in Rates
<1>1. PICK i \in Kept(items) : MapItems(items).rates[k] = RateOf(items[i])
  BY ONLY items \in Seq(Items), k \in DOMAIN MapItems(items).rates, MappedRates
<1> DEFINE item == items[i]
<1>2. item \in Items /\ IsItem(item) /\ IsKnown(item) /\ PairOf(item)[1] # PairOf(item)[2]
  BY <1>1 DEF Kept, ParsesAsItems
<1> HIDE DEF item
<1>3. AlphaOf[item.a] \in Alphas /\ AlphaOf[item.b] \in Alphas /\ AlphaOf[item.a] # AlphaOf[item.b]
  BY <1>2, KnownCodes DEF IsKnown, PairOf
<1>4. item.values \subseteq RateKeys /\ item.values # {} /\ item.date \in Nat
  <2>1. item.values \in SUBSET Keys /\ item.date \in Int /\ item.date > 0 /\ item.values # {}
    BY <1>2 DEF Items, IsItem
  <2> QED BY <2>1 DEF Keys, RateKeys
<1>5. RateOf(item) \in Rates
  BY <1>3, <1>4 DEF RateOf, Rates, IsRate
<1> QED BY <1>1, <1>5 DEF item

\* Whatever has been fetched is read back from the store as it was, as long as its dates
\* have four-digit years.
THEOREM AlwaysStoredAsFetched == Spec => []StoredAsFetched
<1>1. ASSUME FetchedFromBody, Fetched,
             \A i \in DOMAIN outcome.rates : outcome.rates[i].asOf <= LastPlainInstant
      PROVE  RoundTrips(outcome)
  <2> DEFINE rates == MapItems(body).rates
  <2>1. body \in Seq(Items) /\ ParsesAsItems(body) /\ rates # <<>> /\ outcome.rates = rates
    BY <1>1 DEF FetchedFromBody
  <2>2. PICK at \in 0..MaxTime : outcome = [rates |-> rates, fetchedAt |-> at]
    BY <1>1 DEF FetchedFromBody
  <2>3. rates \in Seq({RateOf(item) : item \in Items})
    BY <2>1, MappedRates
  <2>4. \A k \in DOMAIN rates : rates[k] \in PlainRates
    BY <1>1, <2>1, MappedAreRates DEF PlainRates
  <2> HIDE DEF rates
  <2>5. rates \in Seq(PlainRates)
    BY <2>3, <2>4
  <2>6. at \in 0..LastPlainInstant
    BY CodecAssumption, ClockAssumption
  <2>7. RoundTrips([rates |-> rates, fetchedAt |-> at])
    BY <2>1, <2>5, <2>6, SnapshotRoundTrips
  <2> QED BY <2>2, <2>7
<1>2. FetchedFromBody => StoredAsFetched
  BY <1>1 DEF StoredAsFetched
<1> QED BY <1>2, FetchedFromBodyInvariant, PTL

-----------------------------------------------------------------------------
(* The mock                                                                *)

\* What the counter counts.
Counted == {r \in Fetchers : arrival[r] # NotArrived /\ r \notin uncounted}

\* Who has arrived has a connection, and so has who is no longer counted.
Arrivals ==
  /\ mode \in MockModes
  /\ conn \in [Fetchers \cup Admins -> {"none", "open", "answered", "closed"}]
  /\ arrival = [r \in Fetchers |-> arrival[r]]
  /\ uncounted \subseteq Fetchers
  /\ \A r \in Fetchers : arrival[r] # NotArrived \/ r \in uncounted => conn[r] # "none"

CounterInv == Arrivals /\ IsFiniteSet(Counted) /\ CountsArrivals

\* The steps of the mock but a new currency request and a reset.
LEMMA OthersAreNotCounted ==
  ASSUME CounterInv, mode' \in MockModes, UNCHANGED <<arrival, requests, uncounted>>,
         conn' \in [Fetchers \cup Admins -> {"none", "open", "answered", "closed"}],
         \A r \in Fetchers \cup Admins : conn[r] # "none" => conn'[r] # "none"
  PROVE  CounterInv'
<1>1. Arrivals'
  BY DEF CounterInv, Arrivals
<1>2. Counted' = Counted
  BY DEF Counted
<1>3. CountsArrivals'
  BY DEF CounterInv, CountsArrivals
<1> QED BY <1>1, <1>2, <1>3 DEF CounterInv

\* A request is counted when it arrives, once.
LEMMA ServeCounts ==
  ASSUME CounterInv, NEW r \in Fetchers, ServeCurrency(r)
  PROVE  CounterInv'
<1>1. /\ conn[r] = "none" /\ requests' = requests + 1 /\ UNCHANGED <<mode, uncounted>>
      /\ arrival' = [arrival EXCEPT ![r] = [mode |-> mode, fixture |-> fixture]]
      /\ \E to \in {"open", "answered"} : conn' = [conn EXCEPT ![r] = to]
  BY DEF ServeCurrency
<1>2. [mode |-> mode, fixture |-> fixture] # NotArrived
  <2>1. mode # "none"
    BY DEF CounterInv, Arrivals, MockModes
  <2> QED BY <2>1 DEF NotArrived
<1>3. arrival[r] = NotArrived /\ r \notin uncounted
  BY <1>1 DEF CounterInv, Arrivals
<1>4. Arrivals'
  BY <1>1 DEF CounterInv, Arrivals
<1>5. Counted' = Counted \cup {r} /\ r \notin Counted
  BY <1>1, <1>2, <1>3 DEF Counted, CounterInv, Arrivals
<1>6. IsFiniteSet(Counted') /\ Cardinality(Counted') = Cardinality(Counted) + 1
  BY <1>5, FS_AddElement DEF CounterInv
<1>7. CountsArrivals'
  BY <1>1, <1>6 DEF CounterInv, CountsArrivals, Counted
<1> QED BY <1>4, <1>6, <1>7 DEF CounterInv

\* A reset counts nobody any more.
LEMMA ResetCounts ==
  ASSUME CounterInv, NEW a \in Admins, conn[a] = "open", conn' = [conn EXCEPT ![a] = "answered"],
         Reset, UNCHANGED arrival
  PROVE  CounterInv'
<1>1. mode' = "ok" /\ requests' = 0 /\ uncounted' = {r \in Fetchers : conn[r] # "none"}
  BY DEF Reset
<1>2. Arrivals'
  BY <1>1 DEF CounterInv, Arrivals, MockModes
<1>3. Counted' = {}
  BY <1>1 DEF CounterInv, Arrivals, Counted
<1>4. IsFiniteSet(Counted') /\ Cardinality(Counted') = 0
  BY <1>3, FS_EmptySet
<1>5. CountsArrivals'
  BY <1>1, <1>4 DEF CountsArrivals, Counted
<1> QED BY <1>2, <1>4, <1>5 DEF CounterInv

\* Every step of the mock keeps its counter.
LEMMA CounterInvStep == CounterInv /\ [Next]_vars => CounterInv'
<1> SUFFICES ASSUME CounterInv, [Next]_vars
             PROVE  CounterInv'
  OBVIOUS
<1> DEFINE Conns == [Fetchers \cup Admins -> {"none", "open", "answered", "closed"}]
<1>1. conn \in Conns /\ mode \in MockModes
  BY DEF CounterInv, Arrivals
<1>2. ASSUME UNCHANGED mockVars
      PROVE  CounterInv'
  BY <1>1, <1>2, OthersAreNotCounted DEF mockVars
<1>3. ASSUME NEW r \in Fetchers \cup Admins, ClientCloses(r)
      PROVE  CounterInv'
  BY <1>1, <1>3, OthersAreNotCounted DEF ClientCloses, stateVars
<1>4. ASSUME NEW a \in Admins, AdminArrives(a)
      PROVE  CounterInv'
  BY <1>1, <1>4, OthersAreNotCounted DEF AdminArrives, stateVars
<1>5. ASSUME NEW a \in Admins, ServeAdmin(a)
      PROVE  CounterInv'
  <2>1. conn[a] = "open" /\ conn' = [conn EXCEPT ![a] = "answered"] /\ UNCHANGED arrival
    BY <1>5 DEF ServeAdmin
  <2>2. CASE mode' \in MockModes /\ UNCHANGED <<requests, uncounted>>
    BY <1>1, <2>1, <2>2, OthersAreNotCounted
  <2>3. CASE Reset
    BY <2>1, <2>3, ResetCounts
  <2> QED BY <1>1, <1>5, <2>2, <2>3 DEF ServeAdmin, SetMode, SetFixture, stateVars
<1>6. CASE Signalled
  BY <1>1, <1>6, OthersAreNotCounted DEF Signalled, stateVars
<1>7. CASE MockExits
  BY <1>1, <1>7, OthersAreNotCounted DEF MockExits, Exits, stateVars
<1>8. CASE Others
  BY <1>3, <1>4, <1>5, <1>6, <1>8, ServeCounts DEF Others
<1>9. CASE RequestArrives \/ HangsUp
  BY <1>3, <1>9, ServeCounts, CallAssumption DEF RequestArrives, HangsUp
<1>10. CASE Asks \/ Receives \/ Breaks \/ TimePasses \/ TimeIsUp \/ UNCHANGED vars
  BY <1>2, <1>10 DEF Asks, Receives, Breaks, TimePasses, TimeIsUp, vars
<1> QED BY <1>7, <1>8, <1>9, <1>10 DEF Next

LEMMA CounterInvariant == Spec => []CounterInv
<1>1. ASSUME Init
      PROVE  CounterInv
  <2>1. Arrivals
    BY <1>1 DEF Init, MockInit, Arrivals, MockModes
  <2>2. Counted = {} /\ requests = 0
    BY <1>1 DEF Init, MockInit, Counted
  <2> QED BY <2>1, <2>2, FS_EmptySet DEF CounterInv, CountsArrivals, Counted
<1> QED BY <1>1, CounterInvStep, PTL DEF Spec

\* The mock's counter is the number of the requests that have arrived since its reset,
\* the ones that are held and never answered included.
THEOREM MockCountsArrivals == Spec => []CountsArrivals
<1>1. CounterInv => CountsArrivals
  BY DEF CounterInv
<1> QED BY <1>1, CounterInvariant, PTL

-----------------------------------------------------------------------------
(* The call as the mock has it end                                         *)

\* Answer, in the mode and with the fixture that a request has seen.
AnswerTo(seen) ==
  CASE seen.mode = "ok"        -> [status |-> 200, body |-> seen.fixture]
    [] seen.mode = "http500"   -> [status |-> 500, body |-> Malformed]
    [] seen.mode = "http429"   -> [status |-> 429, body |-> Malformed]
    [] seen.mode = "malformed" -> [status |-> 200, body |-> Malformed]
    [] seen.mode = "empty"     -> [status |-> 200, body |-> <<>>]

Answered(r) ==
  /\ conn[r] # "none"
  /\ arrival[r].mode \in MockModes \ {"timeout"}
  /\ reply[r] = AnswerTo(arrival[r])

\* A request that has been answered was so in the mode in which it arrived.
Replies ==
  /\ reply = [r \in Fetchers |-> reply[r]]
  /\ \A r \in Fetchers : reply[r] = NoReply \/ Answered(r)

\* Only a success is read.
ReadsSuccess == upstream = "mock" /\ phase = "reading" => reply[Call].status = 200

Unanswered == {Rejected("timeout"), Rejected("network")}

ModeInv == Arrivals /\ Replies /\ ReadsSuccess /\ OutcomeOfMode

\* An answer has a status and a body of its mode; no answer has neither.
LEMMA AnswersOfModes ==
  ASSUME NEW seen, seen.mode \in MockModes \ {"timeout"}
  PROVE  /\ AnswerTo(seen).status \in {200, 429, 500}
         /\ AnswerTo(seen).status = 500 => seen.mode = "http500"
         /\ AnswerTo(seen).status = 429 => seen.mode = "http429"
         /\ AnswerTo(seen).status = 200 => seen.mode \in {"ok", "malformed", "empty"}
         /\ seen.mode = "ok" => AnswerTo(seen).body = seen.fixture
         /\ seen.mode = "malformed" => AnswerTo(seen).body = Malformed
         /\ seen.mode = "empty" => AnswerTo(seen).body = <<>>
BY DEF AnswerTo, MockModes

\* The mock answers in the mode of the moment, and changes no answer it has given.
LEMMA RepliesStep ==
  ASSUME Arrivals, Replies, [Next]_vars
  PROVE  Replies'
<1>1. ASSUME UNCHANGED <<reply, arrival>>, \A r \in Fetchers : conn[r] # "none" => conn'[r] # "none"
      PROVE  Replies'
  BY <1>1 DEF Replies, Answered
<1>2. ASSUME NEW r \in Fetchers, ServeCurrency(r)
      PROVE  Replies'
  <2> DEFINE seen == [mode |-> mode, fixture |-> fixture]
  <2>1. /\ conn[r] = "none" /\ mode \in MockModes
        /\ arrival' = [arrival EXCEPT ![r] = seen]
        /\ \E to \in {"open", "answered"} : conn' = [conn EXCEPT ![r] = to]
    BY <1>2 DEF ServeCurrency, Arrivals
  <2>2. \/ mode = "timeout" /\ reply' = reply
        \/ mode # "timeout" /\ reply' = [reply EXCEPT ![r] = Answer]
    BY <1>2 DEF ServeCurrency
  <2>3. reply[r] = NoReply
    BY <2>1 DEF Replies, Answered
  <2>4. mode # "timeout" => Answer = AnswerTo(seen)
    BY <2>1 DEF Answer, AnswerTo, MockModes
  <2>5. ASSUME NEW q \in Fetchers
        PROVE  reply'[q] = NoReply \/ Answered(q)'
    <3>1. CASE q # r
      BY <2>1, <2>2, <3>1 DEF Replies, Answered, Arrivals
    <3>2. CASE q = r /\ mode = "timeout"
      BY <2>2, <2>3, <3>2
    <3>3. CASE q = r /\ mode # "timeout"
      <4>1. conn'[q] # "none" /\ arrival'[q] = seen /\ reply'[q] = AnswerTo(seen)
        BY <2>1, <2>2, <2>4, <3>3 DEF Replies, Arrivals
      <4> QED BY <2>1, <3>3, <4>1 DEF Answered
    <3> QED BY <3>1, <3>2, <3>3
  <2>6. reply' = [q \in Fetchers |-> reply'[q]]
    BY <2>2 DEF Replies
  <2> QED BY <2>5, <2>6 DEF Replies
<1>3. ASSUME NEW r \in Fetchers \cup Admins, ClientCloses(r)
      PROVE  Replies'
  BY <1>1, <1>3 DEF ClientCloses, Arrivals
<1>4. ASSUME NEW a \in Admins, AdminArrives(a) \/ ServeAdmin(a)
      PROVE  Replies'
  BY <1>1, <1>4 DEF AdminArrives, ServeAdmin, SetMode, SetFixture, Reset, Arrivals
<1>5. CASE Signalled \/ MockExits
  BY <1>1, <1>5 DEF Signalled, MockExits, Exits, Arrivals
<1>6. CASE Others
  BY <1>2, <1>3, <1>4, <1>5, <1>6 DEF Others
<1>7. CASE RequestArrives \/ HangsUp
  BY <1>2, <1>3, <1>7, CallAssumption DEF RequestArrives, HangsUp
<1>8. CASE Asks \/ Receives \/ Breaks \/ TimePasses \/ TimeIsUp \/ UNCHANGED vars
  BY <1>1, <1>8 DEF Asks, Receives, Breaks, TimePasses, TimeIsUp, vars, mockVars
<1> QED BY <1>5, <1>6, <1>7, <1>8 DEF Next

\* What the mock does to the call's own request: once it is answered, nothing.
LEMMA CallIsServedOnce ==
  ASSUME Arrivals, Replies, [Next]_vars
  PROVE  \/ UNCHANGED <<arrival[Call], reply[Call]>>
         \/ RequestArrives /\ reply[Call] = NoReply
<1>1. CASE RequestArrives
  <2>1. conn[Call] = "none"
    BY <1>1 DEF RequestArrives, ServeCurrency
  <2> QED BY <1>1, <2>1, CallAssumption DEF Replies, Answered
<1>2. ASSUME NEW r \in Fetchers \ {Call}, ServeCurrency(r)
      PROVE  UNCHANGED <<arrival[Call], reply[Call]>>
  BY <1>2, CallAssumption DEF ServeCurrency, Arrivals, Replies
<1>3. ASSUME UNCHANGED <<reply, arrival>>
      PROVE  UNCHANGED <<arrival[Call], reply[Call]>>
  BY <1>3
<1>4. CASE HangsUp \/ MockExits
  BY <1>3, <1>4 DEF HangsUp, ClientCloses, MockExits, Exits
<1>5. CASE Others
  BY <1>2, <1>3, <1>5 DEF Others, ClientCloses, AdminArrives, ServeAdmin, SetMode, SetFixture, Reset,
                          Signalled
<1>6. CASE Asks \/ Receives \/ Breaks \/ TimePasses \/ TimeIsUp \/ UNCHANGED vars
  BY <1>3, <1>6 DEF Asks, Receives, Breaks, TimePasses, TimeIsUp, vars, mockVars
<1> QED BY <1>1, <1>4, <1>5, <1>6 DEF Next

\* The outcome is one that the mode of the request explains.
Explained ==
  \/ outcome \in Unanswered
  \/ /\ ExplainedBy(arrival[Call])
     /\ Fetched => outcome.rates = MapItems(arrival[Call].fixture).rates

\* What the provider receives of the mock ends its call as the mode has it.
LEMMA ReceiptExplained ==
  ASSUME ProviderInv, FetchedFromBody, ModeInv, upstream = "mock", Receives
  PROVE  /\ phase' = "reading" => reply'[Call].status = 200
         /\ phase' = "settled" => Explained'
<1> DEFINE seen == arrival[Call]
<1>1. UNCHANGED <<arrival, reply, upstream>>
  BY DEF Receives, mockVars
<1>2. reply[Call] = NoReply \/ (seen.mode \in MockModes \ {"timeout"} /\ reply[Call] = AnswerTo(seen))
  BY CallAssumption DEF ModeInv, Replies, Answered
<1>3. NoReply.status = 0
  BY DEF NoReply
<1>4. phase = "reading" =>
        /\ seen.mode \in {"ok", "malformed", "empty"} /\ reply[Call] = AnswerTo(seen)
  BY <1>2, <1>3, AnswersOfModes DEF ModeInv, ReadsSuccess
<1>5. ASSUME NEW status \in Statuses, status = reply[Call].status, HttpResponds(status)
      PROVE  /\ phase' = "reading" => reply'[Call].status = 200
             /\ phase' = "settled" => Explained'
  <2>1. status # 0
    OBVIOUS
  <2>2. seen.mode \in MockModes \ {"timeout"} /\ reply[Call] = AnswerTo(seen)
    BY <1>2, <1>3, <1>5, <2>1
  <2>3. /\ status \in {200, 429, 500}
        /\ status = 500 => seen.mode = "http500"
        /\ status = 429 => seen.mode = "http429"
    BY <1>5, <2>2, AnswersOfModes
  <2>4. CASE status = 200 /\ ~timedOut
    <3>1. phase' = "reading"
      BY <1>5, <2>4 DEF HttpResponds, Reads
    <3> QED BY <1>1, <1>5, <2>4, <3>1
  <2>5. CASE timedOut
    <3>1. phase' = "settled" /\ outcome' = Rejected("timeout")
      BY <1>5, <2>5 DEF HttpResponds, Refuses, Throws, SettlesWith
    <3> QED BY <3>1 DEF Explained, Unanswered
  <2>6. CASE status # 200 /\ ~timedOut
    <3> DEFINE e == IF status = 429 THEN "rate limited" ELSE "http"
    <3>1. phase' = "settled" /\ Throws(e) /\ e \in ThrownErrors
      <4>1. status \notin 200..299
        BY <2>3, <2>6
      <4>2. Throws(e)
        BY <1>5, <4>1 DEF HttpResponds, Refuses
      <4> QED BY <4>2, ThrownNames DEF Throws, SettlesWith
    <3>2. outcome' = Rejected(e)
      BY <2>6, <3>1 DEF Throws, SettlesWith
    <3>3. outcome' \in Errors
      BY <3>1, Thrown
    <3>4. ExplainedBy(seen)'
      <4>1. CASE status = 429
        <5>1. e = "rate limited" /\ seen.mode = "http429"
          BY ONLY <2>3, <4>1
        <5> QED BY <1>1, <3>2, <5>1 DEF ExplainedBy
      <4>2. CASE status = 500
        <5>1. e = "http" /\ seen.mode = "http500"
          BY ONLY <2>3, <4>2
        <5> QED BY <1>1, <3>2, <5>1 DEF ExplainedBy
      <4> QED BY <2>3, <2>6, <4>1, <4>2
    <3> QED BY <1>1, <3>1, <3>3, <3>4 DEF Explained, Fetched
  <2> QED BY <2>3, <2>4, <2>5, <2>6
<1>6. ASSUME NEW size \in ChunkSizes, ChunkArrives(size)
      PROVE  /\ phase' = "reading" => reply'[Call].status = 200
             /\ phase' = "settled" => Explained'
  <2>1. phase = "reading" /\ (phase' = phase \/ Throws("invalid"))
    BY <1>6 DEF ChunkArrives
  <2>2. CASE phase' = phase
    BY <1>1, <2>1, <2>2 DEF ModeInv, ReadsSuccess
  <2>3. CASE Throws("invalid")
    <3>1. phase' = "settled" /\ outcome' \in Errors
          /\ (outcome' = Rejected("timeout") \/ outcome' = Rejected("invalid"))
      BY <2>3, Thrown, ThrownNames DEF Throws, SettlesWith
    <3>2. outcome' = Rejected("invalid") => ExplainedBy(seen)'
      BY <1>1, <1>4, <2>1 DEF ExplainedBy
    <3> QED BY <1>1, <3>1, <3>2 DEF Explained, Unanswered, Fetched
  <2> QED BY <2>1, <2>2, <2>3
<1>7. ASSUME NEW complete \in Bodies, complete = reply[Call].body, BodyEnds(complete)
      PROVE  phase' = "settled" /\ Explained'
  <2>1. phase = "reading" /\ phase' = "settled"
    BY <1>7 DEF BodyEnds, SettlesWith
  <2>2. CASE outcome' = Rejected("invalid") /\ outcome' \in Errors
    <3>1. ExplainedBy(seen)'
      BY <1>1, <1>4, <2>1, <2>2 DEF ExplainedBy
    <3> QED BY <1>1, <2>1, <2>2, <3>1 DEF Explained, Fetched
  <2>3. CASE /\ ParsesAsItems(complete)
             /\ outcome' = [rates |-> MapItems(complete).rates, fetchedAt |-> now]
    <3>1. seen.mode \in {"ok", "malformed", "empty"} /\ reply[Call] = AnswerTo(seen)
      BY <1>4, <2>1
    <3>2. seen.mode = "ok" /\ complete = seen.fixture
      BY <1>7, <2>3, <3>1, AnswersOfModes, CallAssumption DEF ParsesAsItems, MockModes
    <3>3. outcome'.rates = MapItems(seen.fixture).rates /\ outcome' \notin Errors
      BY <2>3, <3>2 DEF Errors
    <3>4. ExplainedBy(seen)'
      BY <1>1, <3>2, <3>3 DEF ExplainedBy
    <3> QED BY <1>1, <2>1, <3>3, <3>4 DEF Explained
  <2>4. now <= MaxTime
    BY DEF FetchedFromBody
  <2> QED BY <1>7, <2>1, <2>2, <2>3, <2>4, BodyResolves
<1> QED BY <1>5, <1>6, <1>7 DEF Receives

\* Every step leaves the call with an outcome that its mode explains.
LEMMA ModeInvStep ==
  ASSUME ProviderInv, FetchedFromBody, ModeInv, CounterInv, CounterInv', [Next]_vars
  PROVE  ModeInv'
<1>1. Arrivals' /\ Replies'
  BY RepliesStep DEF ModeInv, CounterInv
<1>2. upstream' = upstream
  BY DEF Next, Asks, Receives, Breaks, TimePasses, RequestArrives, HangsUp, Others, MockExits,
         TimeIsUp, vars
<1>3. CASE upstream # "mock"
  BY <1>1, <1>2, <1>3 DEF ModeInv, ReadsSuccess, OutcomeOfMode
<1>4. ASSUME upstream = "mock",
             phase' = "reading" => reply'[Call].status = 200,
             phase' = "settled" => Explained'
      PROVE  ModeInv'
  BY <1>1, <1>4 DEF ModeInv, ReadsSuccess, OutcomeOfMode, Explained, Unanswered
<1>5. CASE upstream = "mock" /\ Receives
  BY <1>4, <1>5, ReceiptExplained
<1>6. ASSUME upstream = "mock", Breaks
      PROVE  ModeInv'
  <2>1. phase' = "settled" /\ Throws("network")
    BY <1>6 DEF Breaks, HttpRejects, StreamFails, Throws, SettlesWith
  <2>2. outcome' = Rejected("timeout") \/ outcome' = Rejected("network")
    BY <2>1, Thrown, ThrownNames
  <2>3. Explained'
    BY <2>2 DEF Explained, Unanswered
  <2> QED BY <1>4, <1>6, <2>1, <2>3
<1>7. upstream = "mock" =>
        /\ phase = "reading" => reply[Call].status = 200
        /\ phase = "settled" => Explained
  BY DEF ModeInv, ReadsSuccess, OutcomeOfMode, Explained, Unanswered
<1>8. ASSUME upstream = "mock", UNCHANGED <<arrival[Call], reply[Call]>>, UNCHANGED <<phase, outcome>>
      PROVE  ModeInv'
  <2>1. phase' = "settled" => Explained'
    BY <1>7, <1>8 DEF Explained, ExplainedBy, Fetched
  <2> QED BY <1>4, <1>7, <1>8, <2>1
<1>9. ASSUME upstream = "mock", Asks \/ TimePasses
      PROVE  ModeInv'
  <2>1. UNCHANGED mockVars /\ (UNCHANGED <<phase, outcome>> \/ phase' = "requested")
    BY <1>9 DEF Asks, GetRates, TimePasses, Tick, TimerFires
  <2>2. CASE phase' = "requested"
    BY <1>4, <1>9, <2>2
  <2>3. CASE UNCHANGED <<phase, outcome>>
    BY <1>8, <1>9, <2>1, <2>3 DEF mockVars
  <2> QED BY <2>1, <2>2, <2>3
<1>10. ASSUME upstream = "mock", UNCHANGED providerVars
       PROVE  ModeInv'
  <2>1. UNCHANGED <<phase, outcome>>
    BY <1>10 DEF providerVars
  <2>2. CASE UNCHANGED <<arrival[Call], reply[Call]>>
    BY <1>8, <1>10, <2>1, <2>2
  <2>3. CASE RequestArrives /\ reply[Call] = NoReply
    <3>1. phase # "reading"
      BY <1>7, <1>10, <2>3 DEF NoReply
    <3>2. phase = "settled" => outcome \in Unanswered
      BY <2>3 DEF RequestArrives, Unanswered
    <3>3. phase' = "settled" => Explained'
      BY <2>1, <3>2 DEF Explained, Unanswered
    <3> QED BY <1>4, <1>10, <2>1, <3>1, <3>3
  <2> QED BY <2>2, <2>3, CallIsServedOnce DEF ModeInv
<1>11. CASE RequestArrives \/ HangsUp \/ Others \/ MockExits \/ TimeIsUp \/ UNCHANGED vars
  <2>1. UNCHANGED providerVars
    BY <1>11 DEF RequestArrives, HangsUp, Others, MockExits, TimeIsUp, vars
  <2> QED BY <1>2, <1>3, <1>10, <2>1 DEF ModeInv
<1> QED BY <1>3, <1>5, <1>6, <1>9, <1>11 DEF Next

\* A call to the mock ends as the mode and the fixture of the moment it arrived have it,
\* unless the timer or the network ends it, whatever the admin API changes meanwhile.
THEOREM OutcomeAlwaysOfMode == Spec => []OutcomeOfMode
<1>1. ASSUME Init
      PROVE  ModeInv
  BY <1>1 DEF Init, ProviderInit, MockInit, ModeInv, Arrivals, MockModes, Replies, ReadsSuccess,
              OutcomeOfMode
<1>2. /\ ProviderInv /\ FetchedFromBody /\ CounterInv /\ CounterInv' /\ ModeInv /\ [Next]_vars
      => ModeInv'
  BY ModeInvStep
<1>3. ModeInv => OutcomeOfMode
  BY DEF ModeInv
<1> QED BY <1>1, <1>2, <1>3, ProviderInvariant, FetchedFromBodyInvariant, CounterInvariant, PTL DEF Spec

=============================================================================
