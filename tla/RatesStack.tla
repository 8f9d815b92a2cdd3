----------------------------- MODULE RatesStack -----------------------------
(***************************************************************************)
(* The rates subsystem as rates.module.ts wires it: RatesService over      *)
(* RedisRatesRepository in every process, one Redis, and a provider that   *)
(* answers within its own timeout or not at all.  Each action joins what   *)
(* the service and the repository do in one event of a process.            *)
(*                                                                         *)
(* Time does not pass a due timer: a process handles its timers promptly.  *)
(* Redis, the network and the upstream may be arbitrarily slow.            *)
(***************************************************************************)
EXTENDS RatesService, RedisRatesRepository

CONSTANTS
  UpstreamTimeout,  \* MONOBANK_TIMEOUT_MS
  Mortal            \* bound: the processes that may be killed

ASSUME UpstreamAssumption == UpstreamTimeout \in Nat \ {0} /\ Mortal \subseteq Procs
ASSUME FiniteAssumption == IsFiniteSet(Calls)

VARIABLES
  upstreamTimer,  \* upstreamTimer[f]: when fetchBody()'s timer fires
  startedAt,      \* history: when each call began
  newest          \* history: the newest stamp its process had served before it began

stackVars == <<upstreamTimer, startedAt, newest>>
vars == <<worldVars, serviceVars, repoVars, stackVars>>

StackTypeOK ==
  /\ ServiceTypeOK
  /\ RepoTypeOK
  /\ upstreamTimer \in [Calls -> Nat \cup {None}]
  /\ startedAt \in [Calls -> Nat \cup {None}]
  /\ newest \in [Calls -> Nat \cup {None}]

Init ==
  /\ WorldInit /\ ServiceInit /\ RepoInit
  /\ upstreamTimer = [c \in Calls |-> None]
  /\ startedAt = [c \in Calls |-> None]
  /\ newest = [c \in Calls |-> None]

\* The longest a call can take: a read, a discard, a fetch and a write.
LongestCall == 3 * CmdTimeout + UpstreamTimeout

NewestServed(p) ==
  LET stamps == {answer[c].fetchedAt : c \in {d \in Calls : ProcOf[d] = p /\ pc[d] \in Served}}
  IN IF stamps = {} THEN None ELSE Max(stamps)

-----------------------------------------------------------------------------
(* A call of process p                                                     *)

\* The bound leaves every call the time to settle.
Request(c) ==
  /\ AtRest(ProcOf[c])
  /\ now + LongestCall <= MaxTime
  /\ GetRates(c)
  /\ SendGet(c)
  /\ startedAt' = [startedAt EXCEPT ![c] = now]
  /\ newest' = [newest EXCEPT ![c] = NewestServed(ProcOf[c])]
  /\ UNCHANGED <<worldVars, upstreamTimer>>

\* Faulty: whoever joins a fetch gives it the full time again.
ReadDoneRearming(c) ==
  /\ \E read \in {ReadOf(reply) : reply \in Outcomes("get", c)} \cup {Failing("corrupt")} :
       ReadReturns(c, read) /\ ReadSettles(c, read)
  /\ upstreamTimer' = IF awaits'[c] = None \/ fetch'[awaits'[c]] # "upstream" THEN upstreamTimer
                        ELSE [upstreamTimer EXCEPT ![awaits'[c]] = now + UpstreamTimeout]
  /\ UNCHANGED <<worldVars, startedAt, newest>>

\* read() returns into getRates(), which may start a fetch and with it the timer
\* of fetchBody().
ReadDone(c) ==
  /\ \E read \in {ReadOf(reply) : reply \in Outcomes("get", c)} \cup {Failing("corrupt")} :
       ReadReturns(c, read) /\ ReadSettles(c, read)
  /\ upstreamTimer' = IF fetch'[c] = fetch[c] THEN upstreamTimer
                        ELSE [upstreamTimer EXCEPT ![c] = now + UpstreamTimeout]
  /\ UNCHANGED <<worldVars, startedAt, newest>>

Discard(c) ==
  /\ DiscardBegins(c)
  /\ UNCHANGED <<worldVars, serviceVars, stackVars>>

-----------------------------------------------------------------------------
(* A fetch                                                                 *)

\* Faulty: when the read had failed, the snapshot is not written at all.
UpstreamAnswersUnsaved(f) ==
  /\ AtRest(ProcOf[f])
  /\ IF reason[f] # "error" THEN ProviderResolves(f) /\ SendSet(f, Stamped(f))
     ELSE /\ fetch[f] = "upstream"
          /\ fetch' = [fetch EXCEPT ![f] = "unstored"]
          /\ fetched' = [fetched EXCEPT ![f] = Stamped(f)]
          /\ inFlight' = [inFlight EXCEPT ![ProcOf[f]] = None]
          /\ pc' = [c \in Calls |-> IF awaits[c] = f THEN "live" ELSE pc[c]]
          /\ answer' = [c \in Calls |-> IF awaits[c] = f THEN Stamped(f) ELSE answer[c]]
          /\ UNCHANGED <<reason, awaits, repoVars>>
  /\ upstreamTimer' = [upstreamTimer EXCEPT ![f] = None]
  /\ UNCHANGED <<worldVars, startedAt, newest>>

\* The body is complete before the timer fires; the snapshot goes to Redis.
UpstreamAnswers(f) ==
  /\ AtRest(ProcOf[f])
  /\ ProviderResolves(f)
  /\ SendSet(f, Stamped(f))
  /\ upstreamTimer' = [upstreamTimer EXCEPT ![f] = None]
  /\ UNCHANGED <<worldVars, startedAt, newest>>

\* Any Upstream* error: refused, malformed, or the timer.
UpstreamFails(f) ==
  /\ AtRest(ProcOf[f])
  /\ ProviderRejects(f)
  /\ upstreamTimer' = [upstreamTimer EXCEPT ![f] = None]
  /\ UNCHANGED <<worldVars, repoVars, startedAt, newest>>

WriteDone(f) ==
  /\ \E ok \in BOOLEAN : WriteReturns(f, ok) /\ WriteSettles(f, ok)
  /\ UNCHANGED <<worldVars, stackVars>>

-----------------------------------------------------------------------------
(* Redis, processes, time                                                  *)

RedisSteps ==
  /\ \/ \E p \in Procs : RedisExecutes(p)
     \/ \E p \in Procs : ChunkArrives(p)
     \/ \E p \in Procs : LinkDrops(p)
     \/ \E p \in Procs : LinkReconnects(p)
     \/ \E p \in Procs : QueueFlushed(p)
     \/ RedisRestarts
  /\ UNCHANGED <<worldVars, serviceVars, stackVars>>

Dies(p) ==
  /\ p \in Mortal
  /\ Killed(p)
  /\ ServiceDies(p)
  /\ RepoDies(p)
  /\ upstreamTimer' = [f \in Calls |-> IF ProcOf[f] = p THEN None ELSE upstreamTimer[f]]
  /\ UNCHANGED <<startedAt, newest>>

Timers == {deadline[op][c] : op \in Ops, c \in Calls} \cup {upstreamTimer[f] : f \in Calls}

\* Time passes while every process is between two events and no timer is due.
Tick ==
  /\ Advance
  /\ now \notin Timers
  /\ \A p \in Procs : turn[p] = <<>>
  /\ UNCHANGED <<serviceVars, repoVars, stackVars>>

\* The model's clock has stopped; stopping anywhere else is a deadlock.
TimeIsUp == now = MaxTime /\ UNCHANGED vars

Next ==
  \/ \E c \in Calls : Request(c) \/ ReadDone(c) \/ Discard(c)
  \/ \E f \in Calls : UpstreamAnswers(f) \/ UpstreamFails(f) \/ WriteDone(f)
  \/ RedisSteps
  \/ \E p \in Procs : Dies(p)
  \/ Tick
  \/ TimeIsUp

Spec == Init /\ [][Next]_vars

\* A process keeps handling its turn and its timers, and time passes.  Nothing is
\* assumed of Redis, of the network or of the upstream.
Fairness ==
  /\ WF_vars(Tick)
  /\ \A c \in Calls :
       /\ WF_vars(ReadDone(c))
       /\ WF_vars(Discard(c))
       /\ WF_vars(WriteDone(c))
       /\ WF_vars(upstreamTimer[c] = now /\ UpstreamFails(c))

FairSpec == Spec /\ Fairness

-----------------------------------------------------------------------------
(* Properties                                                              *)

StartsFetch(c) == fetch[c] = "none" /\ fetch'[c] = "upstream"
Serves(c) == pc[c] \notin Served /\ pc'[c] \in Served

\* A call is answered in time however Redis and the upstream behave: two command
\* timeouts beyond the upstream's, three if it had a corrupt value to discard
\* (rates.service.spec.ts:486 measures the first with every command hanging).
Discarding(c) == reason[c] = "corrupt" \/ deadline["del"][c] # None

LatencyBound ==
  \A c \in Calls : pc[c] \in Pending =>
    now - startedAt[c] <= UpstreamTimeout + (IF Discarding(c) THEN 3 ELSE 2) * CmdTimeout

\* No answer is older than the TTL, whichever of the cache and a slow write it
\* waited for, beyond what the clocks of its writer and its reader disagree by.
EveryAnswerFresh ==
  [][\A c \in Calls : Serves(c) =>
       LET written == ProcOf[answer'[c].by]
           ahead   == Skew[written] - Skew[ProcOf[c]]
       IN now - RealTime(answer'[c]) <= TTL + Max({0, ahead})]_vars

\* With one process and a Redis that loses and refuses nothing, a call never gets
\* rates older than some the process had served before the call began, though
\* reads and writes time out and are executed late.
MonotonicReads ==
  [][\A c \in Calls : Serves(c) /\ newest[c] # None
       => answer'[c].fetchedAt >= newest[c]]_vars

\* Under the same assumptions the cache does its work: a call asks the upstream
\* again on an absent or expired value only once what was served before it began
\* is older than the TTL.
SnapshotReused ==
  [][\A c \in Calls : StartsFetch(c) /\ reason'[c] \in {"absent", "expired"} /\ newest[c] # None
       => Clock(ProcOf[c]) - newest[c] > TTL]_vars

\* "one fetch per process is shared by every concurrent miss": a miss does not
\* fetch again when its process fetched a snapshot after the call began.
NoRedundantFetch ==
  [][\A c \in Calls : StartsFetch(c) =>
       \A f \in Calls : ProcOf[f] = ProcOf[c] /\ fetched[f] # None
         => RealTime(fetched[f]) <= startedAt[c]]_vars

\* rates-repository.interface.ts: on "corrupt" the stored value was corrupt and has been
\* removed. It was that value which was removed: discarding never costs a good snapshot.
DiscardOnlyRemovesCorrupt ==
  [][Found.kind = "snapshot" /\ store'.kind = "absent"
       => ~\E p \in Procs : wire[p] # <<>> /\ wire[p] # wire'[p] /\ Head(wire[p]).op = "del"]_vars

\* Every call that began gets its answer, or its process died.
EveryCallSettles == \A c \in Calls : (pc[c] \in Pending) ~> (pc[c] \in Settled)

\* What the repository, Redis and the provider do together is within what
\* RatesService was specified against.
ImplementsService == ServiceSpec

\* What InMemoryRates holds where Redis's key holds `value`.
Entries == [snapshot : Snapshots, expiresAt : Nat]
EntryOf(value) == IF value.kind # "snapshot" THEN None
                  ELSE [snapshot |-> value.snapshot, expiresAt |-> value.expiresAt]

ASSUME EntryAssumption == None \notin Entries

\* What GETs found and no caller has had yet: a value that is no snapshot is nothing to get().
OnTheirWay ==
  LET settled == UNION {ToSet(answers[p]) \cup ToSet(turn[p]) : p \in Procs} IN
    {[by |-> e.cmd.call, got |-> e.reply.snapshot] :
       e \in {d \in settled : d.cmd.op = "get" /\ d.reply # Rejection}}

\* What calls were served from the cache, and that they missed as nothing was there.
Had ==
  {[by |-> c, got |-> answer[c]] : c \in {d \in Calls : pc[d] = "cache"}}
    \cup {[by |-> c, got |-> None] : c \in {d \in Calls : reason[d] = "absent"}}

InMemory == INSTANCE InMemoryRates WITH
  Reader   <- Calls,
  Snapshot <- Snapshots,
  Ttl      <- TTL,
  clock    <- now,
  stored   <- EntryOf(store),
  given    <- {fetched[f] : f \in {g \in Calls : fetched[g] # None}},
  found    <- OnTheirWay,
  taken    <- Had

\* The two implementations of RatesRepository agree: however late, repeated, lost or refused
\* its commands are, the snapshot a call is served from Redis, or that it has none, is what
\* an in-memory repository told whoever asked it when Redis executed that call's GET, up to
\* the boundary of the expiry ("Expiry follows Redis `EX`").
AgreesWithInMemory == InMemory!Spec

\* The getRates() of the provider that fetch f stands for.
ContractOf(f) == CASE fetch[f] = "none" -> "idle"
                   [] fetch[f] = "upstream" -> "asked"
                   [] fetch[f] = "failed" -> "rejected"
                   [] fetch[f] = "lost" /\ fetched[f] = None -> "abandoned"
                   [] OTHER -> "resolved"
StampOf(f) == IF fetched[f] = None THEN None ELSE RealTime(fetched[f])

Upstream(f) == INSTANCE RateProvider WITH
  Limit <- UpstreamTimeout,
  clock <- now,
  call  <- ContractOf(f),
  due   <- upstreamTimer[f],
  stamp <- StampOf(f)

\* The subsystem asks of its upstream what MonobankProvider keeps: one getRates() per
\* fetch, under one limit however many calls share it.
AsksByContract ==
  /\ \A f \in Calls : Upstream(f)!Init
  /\ [][\A f \in Calls : [Upstream(f)!Next]_(Upstream(f)!contractVars)]_vars

=============================================================================
