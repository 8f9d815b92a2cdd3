# Verification of the currency converter's rates backend

TLA+ modules, TLC configurations and TLAPS proofs for the NestJS backend in
`backend/src`, and the upstream mock it is tested with. The repository's code is the reference: every definition names the
lines it translates in `PROJECT.json` ("map").

## 1. The system

| Component | State | Operations | Interacts with |
|---|---|---|---|
| `RatesService` (`rates/rates.service.ts`) | `inFlight`, the promise of the fetch under way; the pending `getRates()` calls | `getRates`, `readRepository`, `isFresh`, `sharedFetch`, `fetchAndStore` | awaits the repository and the provider; shares one promise among calls |
| `RedisRatesRepository` (`rates/repository/`) | a timer per command; the commands ioredis has accepted; the Redis key | `read`, `get`, `set`, `clear`, `discardCorrupt`, `command` | ioredis and Redis; called by the service |
| Stored snapshot codec | none | `serializeSnapshot`, `parseStoredSnapshot` | called by the repository |
| `MonobankRateProvider` (`rates/providers/monobank/`) | per call: the timer, `timedOut`, the stream, the bytes read | `getRates`, `fetchBody`, `readLimited` | axios and the upstream; called by the service |
| Monobank feed: parser, mapper, rate factory | none | `parseMonobankBody`, `mapMonobankItems`, `createRate` | called by the provider |
| `InMemoryRatesRepository` | the stored snapshot and its expiry | `read`, `get`, `set`, `clear` | tests only |
| Redis client: health check, `RedisConnectionMonitor` | `inOutage`; one PING race per check | `isHealthy`, `onError`, `onReady` | ioredis events |
| Process: boot, HTTP and its log (`bootstrap.ts`, `app.setup.ts`, `common/logging/`) | Express's stack; the Redis client once made | `bootstrap`, `configureApp`, `reportBootstrapFailure`, one completion line per request | creates the client; serves the health check |
| Money and decimals (`currency/`) | none | `parseClientAmount`, `multiplyByRate`, `divideByRate`, `round`, `exactTimes`, `guardedDiv` | nothing calls them yet |
| Currency codes (`currency/`) | a constant table | `CurrencyCode.of`, lookups by number and by letters | feed, codec, Money |
| Monobank mock (`tools/monobank-mock`) | the mode, the fixture, the request counter; the responses held open | `GET /bank/currency`, the admin API, the signal | stands in for the upstream in the end-to-end tests |

Any number of `getRates()` calls run concurrently in one Node process, and several
backend processes share one Redis key. Node runs one event at a time, so code is
atomic between two awaits and everything else interleaves.

**What is hard.**

- *Interleaving.* `inFlight` is set after an await and cleared by a `finally()` that
  does not look at what the field holds; calls start, miss and join at any moment.
- *Time.* Every Redis command races its own timer, and loses without being recalled:
  a SET or DEL given up on is executed all the same. The upstream's timer races the
  headers, each chunk and the end of the body.
- *Microtasks.* Replies of one socket chunk settle in one turn of the event loop, and
  the longer chain of awaits resumes after the shorter one.
- *Failure.* Redis is slow, refuses commands, drops the connection (ioredis resends
  what had no reply) or restarts; a process is killed with commands on the wire.
  Nothing drains pending calls at shutdown.
- *Clocks.* A snapshot is stamped by the clock of the process that fetched it, judged
  by the reader's, and expired by Redis from the moment of the write.
- *The process.* The Redis client is created while the application is built and keeps the
  process alive, so a boot that fails afterwards does not end by itself. Which requests
  are logged depends on the order in which middlewares are mounted.
- *The mock.* Its mode is switched while requests come in and are held; it has to stop
  while it holds some; its counter is what tests take for the number of upstream calls.
- *Limits.* The TTL exactly, the body limit, dates with five-digit years, a timeout
  longer than `setTimeout` keeps.

**What correctness means.** For the service: one fetch per process, everyone who
waits is answered by it, answers within the timeouts and no older than the TTL,
rates that do not go back in time, a cache that is used. For the repository: a late
command or reply does no harm, only corrupt values are discarded. For the provider:
a timeout is reported as one, nothing outlives the call, the feed is mapped in
order, first pair first. For the codec: what is stored is read back. For the Redis
client: a health check is answered in time, an outage is logged once. For the process:
a failed boot ends and says why, every request is logged once. For the mock: a request
is counted when it comes and answered in the mode it met, and a signalled mock stops.
For Money: products are exact, the limit and the minor units never see the rounding of a quotient compared or
rounded as it is, and an amount keeps the currency its client named.

## 2. The modules

    RatesWorld ── RatesService ─────────────┐        SingleFlight
        │             │  INSTANCE ... WITH ──────────────^
        └──── RedisRatesRepository ── RatesStack     RatesServiceProofs
                                         │  INSTANCE ... WITH
                                         ├──> InMemoryRates
                                         └──> RateProvider <──┐
    CurrencyCodes ─┬─ MonobankFeed ───────┐                   │
                   ├─ StoredSnapshotCodec ┴─ MonobankProvider ┤
                   │                         MonobankMock ────┴─ MockedProvider
                   └─ DomainDecimal ── Money
    RedisClient ── Backend

`MockedProviderProofs`, `BackendProofs` and `MoneyProofs` extend the modules they are named for;
`FeedProofs` extends `MonobankFeed` and `StoredSnapshotCodec`, and `MockedProviderProofs` it. The
stack has three: `RatesStackInvariant` (the two inductive invariants, which the runs `one_process` and
`faultless` check, and `Faultless`, the condition of the second), `RatesStackProofs` (every step keeps the
first, part by part, and what follows; it also extends `RatesServiceProofs`) and `RatesStackOrder`
(the second, and what follows from both). `DataLemmas` has what several of them need about
numbers, sets and sequences and the library does not have: induction as facts about sets
(`Climbs`), functions defined by recursion (`RecursionDefines`), the greatest of finitely many.

**`RatesWorld`** holds what the others share: calls, processes, real time, clocks,
snapshots. A call is made once and a fetch is named by the call that started it, so
no counter is needed. A snapshot is who fetched it and its stamp.

**`RatesService`** has one action per stretch of code between two awaits:

| Action | Code |
|---|---|
| `GetRates` | a call arrives and awaits `readRepository()` |
| `ReadSettles` (`ServeCached`, `Miss`, `SharedFetch`, `IsFresh`) | the rest of `getRates()` up to its next await |
| `ProviderResolves`, `ProviderRejects` | `fetchAndStore()` after the upstream |
| `WriteSettles` (`FetchSettles`) | `fetchAndStore()` after `set()`, `finally()`, and every awaiting call |
| `Killed /\ ServiceDies` | SIGTERM or a crash: nothing is drained |

`pc`, `reason`, `awaits` and `answer` are the locals of a call, `inFlight` the field,
`fetch` and `fetched` the locals of `fetchAndStore()`. The repository and the provider
are parameters of the actions; in `ServiceSpec` they answer anything at any time,
including any snapshot that was ever handed to `set()`.

**`SingleFlight`** is the abstract promise: a call is served from the store or boards
its process's flight; a flight asks the upstream once, and all aboard land together.

**`RedisRatesRepository`** models `read`, `set`, `discardCorrupt` and `command` over one
connection per process. `deadline` are the timers, `wire` what ioredis has sent,
`answers` the replies not yet delivered, `turn` the settled commands whose callers
have still to resume in this turn of the event loop, `store` the key. `Depth` counts
the promise reactions between ioredis settling a command and the service's code
resuming: five for `set()` up to `finally()`, six for `read()` up to `getRates()`,
seven by way of `discardCorrupt()`. ioredis and Redis are external: in-order
execution, refusals, drops, resends and restarts as the options in
`redis-client.factory.ts` imply.

**`RatesStack`** composes the two as `rates.module.ts` does. Each action joins what the
service and the repository do in one event; the provider's timer is
`upstreamTimer`. What the two layers know of each other is only the value a read or a
write returns.

**`InMemoryRates`** is `InMemoryRatesRepository`: a snapshot with an expiry, dropped when it is
looked at too late. Its operations are atomic and never fail; only what `get()` found may
reach the reader later, or not at all. The Redis repository is compared with it as its users see it:
`AgreesWithInMemory` maps the key and its expiry to `stored`, the GETs' replies still on their way to `found`,
and what calls were served from the cache, or missed because nothing was there, to `taken`. A call is told by Redis only
what `get()` would have told it when Redis executed its GET - up to exactly the boundary of the expiry, which each of the two
judges in its own way - however late, repeated, lost or refused the commands are.

**`RateProvider`** is the contract of `rate-provider.interface.ts`: asked once, a call settles
within the limit, with a snapshot stamped when it resolved or with an error.
The provider is shown to keep it (`KeepsContract`, with its liveness), and the stack to
ask no more than it gives (`AsksByContract`): the two halves of a composition that
would be too large to run whole.

**`MonobankFeed`** and **`StoredSnapshotCodec`** are the pure parts. Numbers are abstract
except where a rule looks at them (codes, dates, the shape of an element); a
timestamp's written form has four or more year digits. **`MonobankProvider`** is one
`fetchBody()` against every order of response, chunks, errors and timer, and the
snapshot made from the body.

**`CurrencyCodes`** is the table and the ways into it: by the feed's number, by a stored text, by
a client's text. A text is a sequence of code points once trimmed, and `CurrencyOf` takes the two steps of the code on it:
three ASCII letters, and only then the upper case, which makes ASCII letters of two that are
none (dotless i, long s). Characters whose upper case is several are left out.

**`MonobankMock`** is the mock server, one action per handler. A currency request is counted and
answered in the event that brings it, or held (`held`); an admin POST is served when its
body is complete, so others come in between; a signal cuts the connections and exits
once they have ended. **`MockedProvider`** joins it to the provider: `upstream` says
whether the provider talks to the mock or to a server that may answer anything, and
in the first case what it receives is the mock's `reply`, or what the network makes of it.

**`DomainDecimal`** and **`Money`** follow one amount from the client's input through the legs of
a conversion to what is shown. A decimal is a coefficient and an exponent; decimal.js
is external and rounds an exact ratio half-even to a precision. `money` is the value last
returned. `exact` is the ratio it would be had nothing been rounded since the amount was last in
minor units, as sent or as `round()` gave it: it is carried through products and quotients alike, and
`quotients` counts the quotients that the code has rounded since. Nothing in `src/` composes
these operations yet, so any order of them is allowed.

**`RedisClient`** models the client's other users: the health check's PING against its timer, and the
monitor's `inOutage`. The client's events are external and come in any order: drops with and
without an error, failed attempts, ready, and the end in `onModuleDestroy`.
**`Backend`** is the process around it: `stage` follows `bootstrap()`, `layers` is Express's stack
in mounting order, and a request writes one line for each logger it comes through. A
health check begins the client's `IsHealthy` and answers 200 or 503 with its end.

Definitions marked "Faulty" are variants of the one below them, as a plausible mistake
would have it. No specification uses them; they show that each property can fail.

## 3. The runs

| Run | Checks | Shows |
|---|---|---|
| `service` | `ServiceTypeOK`, `SingleFlightInv`, `WaitersAboard`, `ImplementsSingleFlight` | Against any repository and provider: one fetch per process, nobody awaits a promise that has settled or belongs to another process, and the refinement |
| `one_process` | `StackInv`, `LatencyBound`, `EveryAnswerFresh`, `AgreesWithInMemory`, `AsksByContract` | With timeouts, refusals, a corrupt value, two replies in a chunk, and a dropped connection or a Redis restart, no call waits longer than its timers add up to, no answer is older than the TTL, what calls get from Redis is what the in-memory repository tells them, and the provider is asked as its contract has it; the inductive invariant of its proofs, `StackTypeOK` included, holds where TLC can look |
| `settles` | `EveryCallSettles` | Every call is answered, although Redis, the network and the upstream may never do anything again |
| `faultless` | `OrderInv`, `MonotonicReads`, `SnapshotReused`, `NoRedundantFetch` | With a Redis that may be slow past every timer but loses and refuses nothing, rates never go back in time and are fetched only when they must be; the invariant the proofs of this rest on holds where TLC can look |
| `two_processes` | `ImplementsService`, `EveryAnswerFresh` | Two processes with clocks apart by one, one of which may be killed: the stack stays within `ServiceSpec`, so what is proved of it holds of the stack |
| `provider` | `ProviderTypeOK`, `TimeoutWins`, `NothingOutlives`, `SettlesInTime`, `RatesAsPublished`, `StoredAsFetched`, `KeepsContract`; `OutcomeOfMode`, `CountsArrivals`, `NothingHeldForEver`, `MockStops` | Against any upstream: the timer against the transport, the body limit, the mapping of every body of up to three items, the round trip through the codec, the contract. Against the mock: the outcome is that of the mode the request met, whatever is switched since; the counter counts; nothing is held for ever; the mock stops |
| `money` | `MoneyTypeOK`, `CurrencyAsNamed`, `ProductsExact`, `LimitJudgedExactly`, `RoundedOnce`, `ComesBackWhole` | An amount has the currency its client spelled letter by letter, and only what spells none is refused; products are exact over any number of legs; neither a product nor a quotient that ends a row of products is moved onto the conversion limit or across it, and rounding one to minor units rounds its exact value; and an amount that comes back whole by way of one quotient, whatever products follow it, is rounded to just that |
| `redis_client` | `BackendTypeOK`, `HealthInTime`, `OutageHoldsNobody`, `OneWarningPerOutage`, `EveryRequestLogged`, `OutageIsLogged`, `FailedBootEnds` | A health check is answered within its timer whatever the connection does meanwhile, nobody waits out an outage, no timer is left armed, an outage is logged once and a health check that met it writes an error; every request writes its one line; a failed boot ends |
| `shared_chunk`, `discard_race`, `timeout_too_long`, `far_dates` | one property each | the code's disagreements with its own documentation, section 6 |

**Bounds, and why they are enough.** A unit of time is one command timeout unless a
run says otherwise; the TTL is one or two units (never less than one: the environment
schema wants a whole number of seconds, and a command has one second), and the
upstream has one. `MaxTime` stops the clock, and `Request` starts a call only while
`LongestCall` still fits, so no call is cut short; it is long enough for a second call
to outlive what the first has stored. Two calls suffice for an overlap of read, fetch
and write in either order; the third of `faultless` and `service` is the one
that comes after two that overlapped, or in the other process. `MaxDrops` allows one
drop or one restart, which a call meets at any of its steps. `MaxChunk` allows two
replies per chunk in `one_process`, the least that interleaves within a turn; `faultless`
has one per chunk because with two the property is violated (`shared_chunk`), and
`settles` and `two_processes` have one to stay small, with no refusals in `settles`. `Mortal` names the
process that may die; a restarted process is a process whose calls come later.
`SYMMETRY` is used only where no liveness is checked. `provider` has one call, a timeout of two units and
a clock of three, so the call may start at once or a unit later and may end before, at and
after its timer; one other client of the mock that may be counted, held and cut off, and two
admin requests, the least that can switch the mode and reset, in either order and around
each other. It has a body limit of
three with chunks of one and two, so the limit is met exactly and exceeded; the codes
include an unknown one and the items a repeated pair, a same-currency pair and three
invalid ones. `money` keeps two digits where the code keeps forty, guards quotients with three
for forty and admits rates of two for twenty, so amounts of two legs exceed the precision as
the 43-digit amounts of `money.spec.ts` do; `MaxDigits` keeps integers within what TLC can hold, and
the limit has no more digits than the guard, as in the code. `RoundedOnce` and `ComesBackWhole` speak of values the
guard digits reach half a minor unit of, or a whole one: below 10^37 in the code. Two legs are
a quotient before a product and after one. The texts are three letters in
either case, with a blank around them and with a long s among them, an unknown code, and two letters and four. `redis_client` has two errors
per outage, one of which must not be logged; two checks, one documentation page and one unmatched
path; and a clock of four with a PING timeout of two, so that a timer can end within an outage, after it
and in the next one. `CHECK_DEADLOCK FALSE` is used in `service` alone, where calls are made once and
the system comes to rest; elsewhere `TimeIsUp` marks the end of the model's clock
and stopping anywhere else is an error.

**Fairness.** `FairSpec` assumes that time passes, that a process handles the settled
commands of its turn, and that its due timers fire. Node's event loop gives all
three. Nothing is assumed of Redis, the network or the upstream: `EveryCallSettles`
holds because of the timers alone. `Tick` does not pass a due timer, an idealisation of
timers that fire promptly; `LatencyBound` is exact under it.
`MockedProvider` assumes that time passes and timers fire, that a transfer that was aborted
ends, that a connection the provider has closed is noticed, and that `close()` calls back
when no connection is left. It assumes nothing of answers, clients or admins.
`Backend` assumes that the line of a failed boot is written and its callback called.

## 4. The proofs

The theorems hold for every value of the constants, under the ASSUMEs of the modules
they are about.

**The service.** `RatesServiceProofs` proves for any calls, processes, clocks, TTL, repository and
provider (assumptions: the ASSUMEs of `RatesWorld`):

| Theorem | States |
|---|---|
| `ServiceInvariant` | `ServiceSpec => []ServiceInv` |
| `ServiceTypeCorrect` | `ServiceSpec => []ServiceTypeOK` |
| `OneFetchPerProcess` | `ServiceSpec => []SingleFlightInv` |
| `NobodyStranded` | `ServiceSpec => []WaitersAboard` |
| `ServiceImplementsSingleFlight` | `ServiceSpec => ImplementsSingleFlight` |

`SingleFlightInv` is not inductive: `finally()` clears `inFlight` unconditionally, which is
harmless only because a fetch that settles is the one the field holds, and a new
one starts only when the field is empty. `ServiceInv` says the rest: what `inFlight` holds is active and
belongs to this process (`InFlightActive`), a fetch being written has its snapshot
(`WritingHasSnapshot`), and a call that has not missed has no fetch and a fetch that has
not resolved has no snapshot (`NothingEarly`), so a fetch started anew overwrites
nothing. Preservation has one step per action; `MissKeepsInv` and `FetchSettlesKeepsInv`
are the two interesting ones. The refinement maps a call's `pc` to its abstract state and
a process's flight to the fetch its `inFlight` holds; `AboardIsJoined` shows that those aboard
are exactly those that await that fetch.

**The stack.** `RatesStackProofs` proves, of `RatesStack`'s `Spec`, for any calls and processes, clocks apart by
any amount, any timeouts, and every order in which Redis, the network and the upstream can answer:

| Theorem | States |
|---|---|
| `StackInvariant` | `Spec => []StackInv` |
| `StackTypeCorrect` | `Spec => []StackTypeOK` |
| `CallsAreBounded` | `Spec => []LatencyBound` |
| `AnswersAreFresh` | `Spec => EveryAnswerFresh` |
| `StackImplementsService`, `StackImplementsSingleFlight` | `Spec => ImplementsService`, `Spec => ImplementsSingleFlight` |
| `RedisAgreesWithInMemory` | `Spec => AgreesWithInMemory` |
| `StackAsksByContract` | `Spec => AsksByContract` |

All rest on `StackInv`, whose parts lean on each other:

- `ServiceInv`, `StackTypeOK`: the service's own invariant, and the types of what lies below it.
- `LinesOK`: a command on a connection is one that a call of this process sent (`Sent`), and is there
  once. Without the second half a reply could be delivered to a race that was reopened; without the
  first, a late SET could carry anything.
- `TurnsOK`: what has settled in this turn is still awaited, so resuming it finds its caller where it left it.
- `RepliesOK`, `StoreOK`, `AnswersOK`: what a GET brings, what the key holds and what a call was
  answered with is a snapshot some fetch got from the provider, unchanged. This is what
  `StackImplementsService` needs: the service was specified against a repository that
  invents nothing.
- `RacesOK`: a call is reading exactly while its GET's or its DEL's race is open, a fetch has
  exactly the timer of its stage.
- `TimersOK`: no timer is overdue, and each was armed early enough for the wait it is part of - the
  DEL's after the GET's, the SET's at the moment the snapshot was stamped, and those of the
  flight a waiting call has boarded no later than its own read and the stages after it allow. `LatencyBound` is read off it.

The type of `newest`, the greatest stamp served so far, needs that there is one, hence that the calls
are finitely many (`FiniteAssumption`, true of a program up to any moment). `RedisAgreesWithInMemory`
takes each step for one of the in-memory repository: Redis executing a command is a `Get`, `Set` or `Clear`
(`ExecutionIsInMemory`), and nothing else puts a reply on its way (`NewOnTheWay`); a read that
settles takes what was on its way (`ReadIsTaken`); a restart is a `Clear`; every other step loses replies, gives a snapshot
to `set()` or lets time pass. It needs that a missing entry is not an entry (`EntryAssumption`), and everything that
`None` is no call, number or snapshot (`NoneAssumption`).

**The order of reads and writes.** `RatesStackOrder` proves, of `RatesStack`'s `Spec`, for any number of calls, any
skew and timeouts and any Redis that is merely slow (`ASSUME Faultless`):

| Theorem | States |
|---|---|
| `OrderInvariant` | `Spec => []OrderInv` |
| `ReadsAreMonotonic` | `Spec => MonotonicReads` |
| `SnapshotsAreReused` | `Spec => SnapshotReused` |
| `NoFetchIsRedundant` | `Spec => NoRedundantFetch` |

`Faultless` is the condition under which the code promises this, and each part of it is needed.
With two replies in a chunk a miss slips in between the end of a flight and its own turn (`shared_chunk`).
A corrupt value is discarded by a DEL that may meet a newer one (`discard_race`). Another
process's SET may put an older snapshot in place of a newer one: of several processes `MonotonicReads`
says nothing, and what bounds such a SET is `EveryAnswerFresh`, which `two_processes` checks. A dropped connection or a refused
command loses a SET, and with it the order. What it does not exclude is what this code does all day:
commands that time out and are executed much later, SETs given up on included, calls in any
number at any moment, a slow or failing upstream, and the death of the process.

`OrderInv` says, of one connection on which commands are executed in order, that a call's GET is ahead of the SET
of every fetch resolved since the call began, and that those fetches are still being written
(`ReadsComeFirst`: this is `NoRedundantFetch` once the GET's reply resumes its call); that
SETs are on the wire in the order of their stamps and none is older than the key (`LastIsNewest`,
`SetsInOrder`, `StoreInOrder`: a late SET cannot bring back an old snapshot); that what was
resolved is still on the wire, or in the key, or has been replaced by newer, or is older than the TTL
(`NothingLost`, `Covers`); and therefore that a GET on its way will see, and one that was executed has
seen, what its process had served before the call began (`GetsWillSee`, `GetsSaw`, `NewestResolved`). It is
inductive together with `StackInv`, which has the types and says that what is on a line was sent. Each action
of the subsystem is seen as a step of the wires, of the settlements and of one line, and each part of
`OrderInv` is proved from the view it is about.

**The Redis client and the log.** `BackendProofs` proves, of `Backend`'s `Spec`:

| Theorem | States |
|---|---|
| `BackendInvariant` | `Spec => []BackendInv` |
| `HealthAlwaysInTime` | `Spec => []HealthInTime` |
| `NobodyWaitsOutAnOutage` | `Spec => []OutageHoldsNobody` |
| `OutagesLoggedOnce` | `Spec => []OneWarningPerOutage` |
| `LogInvariant` | `Spec => []LogInv` |
| `BackendTypeCorrect` | `Spec => []BackendTypeOK` |
| `RequestsAreLogged` | `Spec => []EveryRequestLogged` |
| `OutagesAreLogged` | `Spec => []OutageIsLogged` |

`BackendInv` adds what the three of the client need to be inductive: a pending check's timer is its start plus
`PingTimeout` and is not past (`TimersAhead`); who waits in an outage asked before it
(`PingedBeforeOutage`); `inOutage` tells whether an error has been seen since the
client was ready (`OutageSeen`); and nobody is served before the port is bound
(`NobodyBeforeListening`), without which a boot that fails could end the client under a waiting check.
`LogInv` does the same for the log: once the port is bound Express's stack is the logger,
the documentation and the routes, in this order (`MountedInOrder`), so whatever layer ends a request it
has come through the logger, once; a line is written by the response's close, not before
(`LoggedOnClose`); and a check's answer is final when its response is made (`AnswersAreFinal`,
`SickFailed`), so the line tells what the check saw and not how the client is at the close.
The paths of checks and of other requests are disjoint (`PathAssumption`).

**The provider and the mock.** `MockedProviderProofs` proves, of `MockedProvider`'s `Spec`:

| Theorem | States |
|---|---|
| `ProviderInvariant` | `Spec => []ProviderInv` |
| `ProviderTypeCorrect`, `TimeoutAlwaysWins`, `NothingEverOutlives`, `CallSettlesInTime` | `[]` of `ProviderTypeOK`, `TimeoutWins`, `NothingOutlives`, `SettlesInTime` |
| `ProviderImplementsContract` | `Spec => Contract!Spec` |
| `AlwaysAsPublished` | `Spec => []RatesAsPublished` |
| `AlwaysStoredAsFetched` | `Spec => []StoredAsFetched` |
| `MockCountsArrivals` | `Spec => []CountsArrivals` |
| `OutcomeAlwaysOfMode` | `Spec => []OutcomeOfMode` |

`ProviderInv` says of a call under way that its timer is
armed, for no longer than allowed, or has fired this very moment (`CallTimed`), and that a stream
is open only while it is read and the timer has not fired (`NothingToRead`). `ProviderImplementsContract`
shows that every step of the provider is a step of
`RateProvider` or a stutter: the half of `KeepsContract` that is no liveness.
`FetchedFromBody` follows a snapshot to the body it was made of, where `MapperIsFaithful` and
`SnapshotRoundTrips` take over. `CounterInv` adds to `CountsArrivals` that a request that was counted
has a connection, so that no step counts it again, and that the counted are finitely many.
`ModeInv` adds to `OutcomeOfMode` that a reply is the answer to what the mock recorded when the
request arrived, whatever mode and fixture it has by now (`Replies`), and that the provider reads
on only after a 200 (`ReadsSuccess`).
Assumptions: a body is a list of elements or no JSON list at all (`BodyAssumption`), the mock's malformed
body is none that the parser takes (`CallAssumption`), and the clock stays in years of four digits
(`ClockAssumption`; the dates in a feed need not, and `StoredAsFetched` says what it says of those that do).

**Feed and codec.** `FeedProofs` proves two theorems about every input, of any length and for any table:
`MapperIsFaithful` (the rates are those of the first item of each known pair, in upstream order, and
the skipped counter has every other item) and `SnapshotRoundTrips` (what is stored is read back, if
its dates have four-digit years). The mapper's loop is a recursive function of its turns. Induction
theorems that take a predicate cannot be used, so the induction is made over sets: `Climbs` (in `DataLemmas`) derives from the
well-foundedness of strict inclusion that a set of numbers with 0 and with every successor up to a limit has
them all. `TurnsExist` uses it to show that the recursion defines a function, `LoopMaps` to carry the
loop's invariant `MapsTo` (the pairs kept, the count, and an increasing enumeration of the items kept).

**Money.** `MoneyProofs` proves, of `Money`'s `Spec`, for any precision, guard digits, limit, inputs, rates and number of legs:

| Theorem | States |
|---|---|
| `AlwaysExact` | `Spec => []ExactInv` |
| `TypeCorrect` | `Spec => []MoneyTypeOK` |
| `ProductsAreExact` | `Spec => []ProductsExact` |
| `LimitIsJudgedExactly` | `Spec => []LimitJudgedExactly` |
| `AlwaysRoundedOnce` | `Spec => []RoundedOnce` |
| `AlwaysComesBackWhole` | `Spec => []ComesBackWhole` |
| `AlwaysAsNamed` | `Spec => []CurrencyAsNamed` |

The argument for the amounts, from below:

- *Numbers.* The recursions `Pow10` and `Digits` define functions, and a number lies between the powers of
  ten its digits say (`PowersOfTen`, `DigitsBound`). `Normal` keeps the value (`NormalKeeps`).
- *Comparing.* Two ratios are compared as whole numerators in a unit small enough for both, and the choice
  of the unit does not matter (`OneUnit`); `Leading` finds the leading digit and `Cmp` the order (`LeadingBounds`, `CmpTells`).
- *Rounding.* `ToUnit` gives the nearest number of units, a tie going to the even one, and there is
  one such number (`ToUnitRounds`, `NearestUnique`).
- *Products.* A product has no more digits than its operands together, so `exactTimes` rounds on a
  grid the product is on (`ProductExact`).
- *Quotients.* A quotient `n/d` is either a given decimal or differs from it by at least `1/d` units of the last
  digit of `n` or of the decimal, whichever is the finer. The guard digits make half a unit of the rounding less than
  that, so the rounded quotient is the decimal only if the exact one is (`Separated`), and is else on the same side of it
  (`QuotientSides`). That decimal may be the limit (`QuotientJudged`) or a tie between two amounts in minor
  units (`QuotientRounds`).

- *Beyond the quotient.* A quotient is within half of the digit after its guard digits of the exact one
  (`QuotientNear`), a relative error that products keep (`NearProduct`). An error below half a unit cannot take a
  value away from the whole number of units that the exact one is (`NearWhole`).

`ExactInv` is what makes this inductive over the legs (`Tracks`). As long as no quotient was rounded, an
unrounded amount is its exact value. After one it is near it, and until the next leg it is the guarded quotient of two
decimals of which `exact` is the quotient. The verdict on the limit is that on the amount as it is (`Judged`).
Assumptions: the limit has no more digits than
`GuardDigits`, and what is sent and is a positive decimal is in normal form (`InputAssumption`). `RoundedOnce`
and `ComesBackWhole` carry their own condition, how far the guard digits have to reach.

What these theorems do not say, because it is not so: a *product of a quotient* is judged by the limit and rounded as the code
has it, not as its exact value is. 4500000 / 13 * 13 may exceed a limit of 4500000, and 7 / 3 * 1.5 need
not be the tie that 3.5 is. `LimitJudgedExactly` and `RoundedOnce` are therefore restricted to `Guarded`
states: no quotient was rounded, or only the last leg's. Of products of a quotient, `ComesBackWhole` says what
holds, which is what `money.spec.ts` tests on one pair of numbers. No document promises more, and nothing in `src/`
composes the operations.

`AlwaysAsNamed` needs that the currency is the one named until a leg changes it (`NamedUntilLeg`), that upper-casing three
ASCII letters gives the code they spell (`NamesWhatItSpells`), and that whatever spells a code is three ASCII letters
(`SpelledIsNamed`).

**Only model-checked.**

- Liveness (`EveryCallSettles`, `NothingHeldForEver`, `MockStops`, `FailedBootEnds`, the second half of
  `KeepsContract`): fairness and ENABLED are out of the prover's reach.

Every invariant and every action property that a run checks is also proved.

## 5. What is not modelled, and why

- `RedisRatesRepository.get()` is `read()` without its reason and has no caller.
- `env.schema.ts`: which values are accepted is declarative. Its limits are assumptions on
  constants, and its verdict is `ConfigIsRejected`.
- Of the HTTP set-up, the content of the Swagger pages; of the log, the buffering of lines before
  the logger is there, their format and what is redacted from them.
- `UnsupportedCurrencyError` shows a refused input shortened and escaped; only that it is refused is modelled.
- The mock's 404s, which change nothing, and its fixture file, a constant.
- A signal to the backend: no shutdown hooks are enabled, so it dies as in `Killed`.
  `onModuleDestroy` is modelled for the tests that close the application.
- Digits of decimals beyond a few, wording of errors, URLs and headers.
- Documents in Redis that the codec did not write: one value, `garbled`, in
  `RedisRatesRepository`. Two process clocks differ by a constant; a clock set back
  while the process runs is not modelled.

## 6. Where code and documentation disagree

- `shared_chunk` - `rates.service.ts:14` says one fetch is shared by every concurrent
  miss. When a GET's and a SET's reply come in one chunk, GET first, the flight is
  cleared one promise reaction before the miss would join it, and a second fetch starts.
- `discard_race` - `rates-repository.interface.ts:8` says of `corrupt` that the stored value was
  corrupt and has been removed. The DEL is sent a round trip after the GET that saw the corrupt
  value, and removes whatever is stored then: here a good snapshot of another process.
- `timeout_too_long` - `MONOBANK_TIMEOUT_MS` accepts any integer of at least 100, and
  `setTimeout` turns one above 2147483647 into 1 ms.
- `far_dates` - the parser accepts dates beyond the year 9999, and the codec writes them in
  a form it does not read: such a snapshot is stored and is corrupt at every read.

## 7. Plan

Done: the service, its abstraction and its proofs; the Redis repository and the in-memory one it is
compared with; the stack, its inductive invariant and what follows from it; the provider with the feed and the codec, its
contract and the mock it is tested against; currency codes and Money; the Redis client and the process.
Every safety property of the runs is proved for all constants. What could follow:

1. `MonotonicReads` and its companions for several processes, once the repository orders writes by
   stamp: today they are false there, and `EveryAnswerFresh` is what is promised.
2. The use of `Money` by a conversion service, when there is one: the order of its calls would replace
   "any order" and the number of legs its bound.
3. Fewer abstractions in the feed's numbers, with the decimals of `DomainDecimal` for those of a rate.
