---------------------------- MODULE RatesService ----------------------------
(***************************************************************************)
(* rates/rates.service.ts: cache-aside over a repository and a provider,   *)
(* with one fetch per process shared by every call that misses.            *)
(*                                                                         *)
(* getRates() is an async function; each action is what runs between two   *)
(* of its awaits, atomic in Node's event loop:                             *)
(*                                                                         *)
(*   idle --GetRates--> reading --ReadSettles--> cache                     *)
(*                                          \--> waiting --> live, failed  *)
(*                                                                         *)
(* and fetchAndStore(), shared through `inFlight`:                         *)
(*                                                                         *)
(*   upstream --ProviderResolves--> writing --WriteSettles--> stored       *)
(*           \--ProviderRejects--> failed                \--> unstored     *)
(*                                                                         *)
(* The repository and the provider are parameters of the actions: here     *)
(* they may answer anything at any time (ServiceNext); RatesStack binds    *)
(* them to the Redis repository and to the upstream's timeout.             *)
(***************************************************************************)
EXTENDS RatesWorld

VARIABLES
  pc,         \* pc[c]: how far the call is
  reason,     \* reason[c]: the MissReason the call logged
  awaits,     \* awaits[c]: the fetch whose promise the call awaits
  answer,     \* answer[c]: the snapshot the call returned
  inFlight,   \* inFlight[p]: the fetch RatesService.inFlight holds
  fetch,      \* fetch[f]: how far the fetch started by call f is
  fetched     \* fetched[f]: the snapshot that fetch got from the provider

serviceVars == <<pc, reason, awaits, answer, inFlight, fetch, fetched>>
svcVars == <<worldVars, serviceVars>>

Served    == {"cache", "live"}
Settled   == Served \cup {"failed", "lost"}
Pending   == {"reading", "waiting"}
MissReason == {"absent", "expired", "corrupt", "error"}
Active    == {"upstream", "writing"}

ServiceTypeOK ==
  /\ WorldTypeOK
  /\ pc \in [Calls -> {"idle"} \cup Pending \cup Settled]
  /\ reason \in [Calls -> MissReason \cup {"none"}]
  /\ awaits \in [Calls -> Calls \cup {None}]
  /\ answer \in [Calls -> Snapshots \cup {None}]
  /\ inFlight \in [Procs -> Calls \cup {None}]
  /\ fetch \in [Calls -> {"none", "stored", "unstored", "failed", "lost"} \cup Active]
  /\ fetched \in [Calls -> Snapshots \cup {None}]

ServiceInit ==
  /\ pc = [c \in Calls |-> "idle"]
  /\ reason = [c \in Calls |-> "none"]
  /\ awaits = [c \in Calls |-> None]
  /\ answer = [c \in Calls |-> None]
  /\ inFlight = [p \in Procs |-> None]
  /\ fetch = [c \in Calls |-> "none"]
  /\ fetched = [c \in Calls |-> None]

-----------------------------------------------------------------------------
(* Calls                                                                   *)

\* A call arrives and awaits readRepository().
GetRates(c) ==
  /\ alive[ProcOf[c]]
  /\ pc[c] = "idle"
  /\ pc' = [pc EXCEPT ![c] = "reading"]
  /\ UNCHANGED <<reason, awaits, answer, inFlight, fetch, fetched>>

\* Faulty: what Redis has not expired is trusted to be fresh.
IsFreshUnchecked(p, snapshot) == TRUE

\* Faulty: exactly the TTL is stale.
IsFreshBelow(p, snapshot) == Clock(p) - snapshot.fetchedAt < TTL

\* Exactly the TTL is still fresh, and so is a stamp from the future.
IsFresh(p, snapshot) == Clock(p) - snapshot.fetchedAt <= TTL

\* Faulty: answers with the read's result and not with its snapshot.
ServeCachedRead(c, snapshot) ==
  /\ pc' = [pc EXCEPT ![c] = "cache"]
  /\ answer' = [answer EXCEPT ![c] = Hit(snapshot)]
  /\ UNCHANGED <<reason, awaits, inFlight, fetch, fetched>>

ServeCached(c, snapshot) ==
  /\ pc' = [pc EXCEPT ![c] = "cache"]
  /\ answer' = [answer EXCEPT ![c] = snapshot]
  /\ UNCHANGED <<reason, awaits, inFlight, fetch, fetched>>

\* Faulty: every miss starts a fetch of its own.
SharedFetchNever(c) ==
  /\ inFlight' = [inFlight EXCEPT ![ProcOf[c]] = c]
  /\ fetch' = [fetch EXCEPT ![c] = "upstream"]
  /\ awaits' = [awaits EXCEPT ![c] = c]

\* inFlight ??= fetchAndStore(): start the process's fetch, or join it.
SharedFetch(c) ==
  LET p == ProcOf[c] IN
    IF inFlight[p] = None
      THEN /\ inFlight' = [inFlight EXCEPT ![p] = c]
           /\ fetch' = [fetch EXCEPT ![c] = "upstream"]
           /\ awaits' = [awaits EXCEPT ![c] = c]
      ELSE /\ awaits' = [awaits EXCEPT ![c] = inFlight[p]]
           /\ UNCHANGED <<inFlight, fetch>>

Miss(c, why) ==
  /\ reason' = [reason EXCEPT ![c] = why]
  /\ pc' = [pc EXCEPT ![c] = "waiting"]
  /\ SharedFetch(c)
  /\ UNCHANGED <<answer, fetched>>

\* readRepository() settles: served from the cache, or a miss.
ReadSettles(c, read) ==
  /\ pc[c] = "reading"
  /\ \/ /\ read.status = "hit"
        /\ IsFresh(ProcOf[c], read.snapshot)
        /\ ServeCached(c, read.snapshot)
     \/ /\ read.status = "hit"
        /\ ~IsFresh(ProcOf[c], read.snapshot)
        /\ Miss(c, "expired")
     \/ read.status # "hit" /\ Miss(c, read.status)

-----------------------------------------------------------------------------
(* The shared fetch                                                        *)

\* provider.getRates() resolves, stamped by this process's clock; the snapshot
\* goes to repository.set() before anyone is answered.
Stamped(f) == [by |-> f, fetchedAt |-> Clock(ProcOf[f])]

\* Faulty: finally() hangs on the provider's promise, and inFlight is cleared
\* before the write has settled.
ProviderResolvesClearing(f) ==
  /\ fetch[f] = "upstream"
  /\ fetched' = [fetched EXCEPT ![f] = Stamped(f)]
  /\ fetch' = [fetch EXCEPT ![f] = "writing"]
  /\ inFlight' = [inFlight EXCEPT ![ProcOf[f]] = None]
  /\ UNCHANGED <<pc, reason, awaits, answer>>

ProviderResolves(f) ==
  /\ fetch[f] = "upstream"
  /\ fetched' = [fetched EXCEPT ![f] = Stamped(f)]
  /\ fetch' = [fetch EXCEPT ![f] = "writing"]
  /\ UNCHANGED <<pc, reason, awaits, answer, inFlight>>

\* Faulty: without finally(), inFlight keeps the settled promise.
FetchSettlesHeld(f, outcome, calls) ==
  LET Joined == {c \in Calls : pc[c] = "waiting" /\ awaits[c] = f} IN
    /\ fetch' = [fetch EXCEPT ![f] = outcome]
    /\ pc' = [c \in Calls |-> IF c \in Joined THEN calls ELSE pc[c]]
    /\ answer' = [c \in Calls |-> IF c \in Joined THEN fetched[f] ELSE answer[c]]
    /\ UNCHANGED <<inFlight, reason, awaits, fetched>>

\* The fetch settles as `outcome`: finally() clears inFlight, whatever it holds,
\* and every call awaiting this promise resumes.
FetchSettles(f, outcome, calls) ==
  LET Joined == {c \in Calls : pc[c] = "waiting" /\ awaits[c] = f} IN
    /\ fetch' = [fetch EXCEPT ![f] = outcome]
    /\ inFlight' = [inFlight EXCEPT ![ProcOf[f]] = None]
    /\ pc' = [c \in Calls |-> IF c \in Joined THEN calls ELSE pc[c]]
    /\ answer' = [c \in Calls |-> IF c \in Joined THEN fetched[f] ELSE answer[c]]
    /\ UNCHANGED <<reason, awaits, fetched>>

\* provider.getRates() rejects: nothing was fetched, every joined call fails.
ProviderRejects(f) ==
  /\ fetch[f] = "upstream"
  /\ FetchSettles(f, "failed", "failed")

\* repository.set() settles; its failure is logged and the calls are served live.
WriteSettles(f, ok) ==
  /\ fetch[f] = "writing"
  /\ FetchSettles(f, IF ok THEN "stored" ELSE "unstored", "live")

-----------------------------------------------------------------------------
(* The process                                                             *)

\* SIGTERM or a crash: nothing is drained, the pending calls get no answer and
\* the process's memory is gone.
ServiceDies(p) ==
  LET Own == {c \in Calls : ProcOf[c] = p} IN
    /\ pc' = [c \in Calls |-> IF c \in Own /\ pc[c] \in Pending THEN "lost" ELSE pc[c]]
    /\ fetch' = [f \in Calls |-> IF f \in Own /\ fetch[f] \in Active THEN "lost" ELSE fetch[f]]
    /\ inFlight' = [inFlight EXCEPT ![p] = None]
    /\ UNCHANGED <<reason, awaits, answer, fetched>>

Killed(p) == alive[p] /\ alive' = [alive EXCEPT ![p] = FALSE] /\ UNCHANGED now

-----------------------------------------------------------------------------
(* The service with any repository and any provider.  A read may return    *)
(* any snapshot that was ever handed to repository.set(), however old.     *)

PossibleReads ==
  {Failing(status) : status \in {"absent", "corrupt", "error"}}
    \cup {Hit(fetched[f]) : f \in {g \in Calls : fetched[g] # None}}

ServiceNext ==
  \/ /\ UNCHANGED worldVars
     /\ \/ \E c \in Calls : GetRates(c)
        \/ \E c \in Calls : \E read \in PossibleReads : ReadSettles(c, read)
        \/ \E f \in Calls : ProviderResolves(f)
        \/ \E f \in Calls : ProviderRejects(f)
        \/ \E f \in Calls, ok \in BOOLEAN : WriteSettles(f, ok)
  \/ \E p \in Procs : Killed(p) /\ ServiceDies(p)
  \/ Advance /\ UNCHANGED serviceVars

ServiceStart == WorldInit /\ ServiceInit

ServiceSpec == ServiceStart /\ [][ServiceNext]_svcVars

-----------------------------------------------------------------------------
(* Properties                                                              *)

\* One fetch per process: an active fetch is the one its process's inFlight
\* holds, although finally() clears the field without looking at what it holds.
SingleFlightInv ==
  \A f \in Calls : fetch[f] \in Active => inFlight[ProcOf[f]] = f

\* A call never waits on a promise that has settled or belongs to another
\* process: it awaits the fetch in flight, and that fetch is still under way.
WaitersAboard ==
  \A c \in Calls : pc[c] = "waiting" =>
    /\ awaits[c] \in Calls
    /\ awaits[c] = inFlight[ProcOf[c]]
    /\ fetch[awaits[c]] \in Active

\* The inductive invariant behind both.
InFlightActive ==
  \A p \in Procs : inFlight[p] # None =>
    /\ fetch[inFlight[p]] \in Active
    /\ ProcOf[inFlight[p]] = p

WritingHasSnapshot ==
  \A f \in Calls : fetch[f] \in {"writing", "stored", "unstored"} => fetched[f] \in Snapshots

\* A call has missed nothing and has no fetch of its own before its read settles,
\* and a fetch no snapshot before the provider resolves.
NothingEarly ==
  \A c \in Calls :
    /\ pc[c] \in {"idle", "reading"} => fetch[c] = "none" /\ reason[c] = "none"
    /\ fetch[c] \in {"none", "upstream"} => fetched[c] = None

ServiceInv ==
  /\ ServiceTypeOK
  /\ SingleFlightInv
  /\ WaitersAboard
  /\ InFlightActive
  /\ WritingHasSnapshot
  /\ NothingEarly

\* The service implements SingleFlight: a call is aboard while it waits, and the
\* flight of a process is the fetch its inFlight holds.
CallOf(c) == CASE pc[c] = "reading"              -> "asking"
               [] pc[c] = "waiting"              -> "aboard"
               [] pc[c] \in Served               -> "served"
               [] OTHER                          -> pc[c]
FlightOf(p) == IF inFlight[p] = None THEN "none" ELSE fetch[inFlight[p]]
CargoOf(p)  == IF inFlight[p] = None THEN None ELSE fetched[inFlight[p]]

Flights == INSTANCE SingleFlight WITH
  call   <- [c \in Calls |-> CallOf(c)],
  flight <- [p \in Procs |-> FlightOf(p)],
  cargo  <- [p \in Procs |-> CargoOf(p)]

\* Every behaviour of the service is one of SingleFlight: all who share a fetch
\* get its one outcome together, and the upstream is asked once per flight.
ImplementsSingleFlight == Flights!Spec

=============================================================================
