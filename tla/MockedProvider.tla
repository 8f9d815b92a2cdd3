--------------------------- MODULE MockedProvider ---------------------------
(***************************************************************************)
(* MonobankProvider and what it talks to: an upstream that may do          *)
(* anything, or the mock of docker-compose.test.yml while its admin API is *)
(* in use and its container may be stopped.  The network between them may  *)
(* delay and break everything.                                             *)
(***************************************************************************)
EXTENDS MonobankProvider, MonobankMock

CONSTANTS
  Call   \* the request of the provider's one call, among the Fetchers

ASSUME CallAssumption == Call \in Fetchers /\ ~ParsesAsItems(Malformed)

VARIABLE upstream   \* "any" or "mock", chosen by the configuration

vars == <<providerVars, mockVars, upstream>>

Init == ProviderInit /\ MockInit /\ upstream \in {"any", "mock"}

-----------------------------------------------------------------------------

\* What the provider receives is the mock's answer, if the mock is its upstream.
Receives ==
  /\ \/ \E status \in Statuses :
          /\ upstream = "mock" => status = reply[Call].status
          /\ HttpResponds(status)
     \/ \E size \in ChunkSizes : ChunkArrives(size)
     \/ \E complete \in Bodies :
          /\ upstream = "mock" => complete = reply[Call].body
          /\ BodyEnds(complete)
  /\ UNCHANGED <<mockVars, upstream>>

Breaks == (HttpRejects \/ StreamFails) /\ UNCHANGED <<mockVars, upstream>>

TimePasses == (Tick \/ TimerFires) /\ UNCHANGED <<mockVars, upstream>>

Asks == GetRates /\ UNCHANGED <<mockVars, upstream>>

\* The provider's request reaches the mock while the call, or an abort, is under way.
RequestArrives ==
  /\ upstream = "mock"
  /\ phase # "idle"
  /\ phase = "settled" => outcome \in {Rejected("timeout"), Rejected("network")}
  /\ ServeCurrency(Call)
  /\ UNCHANGED <<providerVars, upstream>>

\* A settled call has closed its connection.
HangsUp ==
  /\ upstream = "mock" /\ phase = "settled"
  /\ ClientCloses(Call)
  /\ UNCHANGED <<providerVars, upstream>>

\* Other clients of the mock: tests, their admin requests, and Docker.
Others ==
  /\ upstream = "mock"
  /\ \/ \E r \in Fetchers \ {Call} : ServeCurrency(r)
     \/ \E r \in (Fetchers \ {Call}) \cup Admins : ClientCloses(r)
     \/ \E a \in Admins : AdminArrives(a) \/ ServeAdmin(a)
     \/ Signalled
  /\ UNCHANGED <<providerVars, upstream>>

MockExits == Exits /\ UNCHANGED <<providerVars, upstream>>

\* The model's clock has stopped.
TimeIsUp == now = MaxTime /\ UNCHANGED vars

Next ==
  \/ Asks \/ Receives \/ Breaks \/ TimePasses
  \/ RequestArrives \/ HangsUp \/ Others \/ MockExits
  \/ TimeIsUp

Spec == Init /\ [][Next]_vars

\* Timers fire, an aborted transfer ends, a closed connection is noticed, and the
\* mock's close() returns.  Nothing is assumed of answers, clients or admins.
Fairness ==
  /\ WF_vars(TimePasses)
  /\ WF_vars(timedOut /\ Breaks)
  /\ WF_vars(HangsUp)
  /\ WF_vars(MockExits)

FairSpec == Spec /\ Fairness

-----------------------------------------------------------------------------
(* Properties                                                              *)

\* The call ends as the mode and the fixture of the moment it arrived have it, unless
\* the network or the timer ends it, whatever the admin API has changed since.
ExplainedBy(seen) ==
  CASE seen.mode = "ok"      -> outcome = Rejected("invalid") \/ outcome \notin Errors
    [] seen.mode = "http500" -> outcome = Rejected("http")
    [] seen.mode = "http429" -> outcome = Rejected("rate limited")
    [] seen.mode \in {"malformed", "empty"} -> outcome = Rejected("invalid")
    [] OTHER -> FALSE

OutcomeOfMode ==
  upstream = "mock" /\ phase = "settled"
    => \/ outcome \in {Rejected("timeout"), Rejected("network")}
       \/ /\ ExplainedBy(arrival[Call])
          /\ Fetched => outcome.rates = MapItems(arrival[Call].fixture).rates

\* A response held in mode `timeout' is let go when the provider's timer aborts the
\* request: the mock keeps no response for a client that has gone.
NothingHeldForEver == (Call \in held) ~> (Call \notin held)

Contract == INSTANCE RateProvider WITH
  Limit <- TimeoutMs,
  None  <- Off,
  clock <- now,
  call  <- CASE phase = "idle" -> "idle"
             [] phase \in {"requested", "reading"} -> "asked"
             [] phase = "settled" /\ outcome \in Errors -> "rejected"
             [] OTHER -> "resolved",
  due   <- IF phase \in {"requested", "reading"} THEN startedAt + TimeoutMs ELSE Off,
  stamp <- IF Fetched THEN outcome.fetchedAt ELSE Off

\* The provider keeps the contract of rate-provider.interface.ts, whatever its upstream
\* does: it settles once, in time and at last, and stamps a snapshot when it is complete.
KeepsContract == Contract!FairSpec

=============================================================================
