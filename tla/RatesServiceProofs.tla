------------------------- MODULE RatesServiceProofs -------------------------
(***************************************************************************)
(* Proofs about RatesService, for any set of calls and processes, any      *)
(* clocks, and a repository and a provider that answer as they please.     *)
(*                                                                         *)
(* ServiceInv is inductive.  SingleFlightInv alone is not: that finally()  *)
(* clears inFlight of the right fetch needs InFlightActive (the field      *)
(* holds an active fetch of its own process), and that nobody is left      *)
(* waiting needs WaitersAboard.                                            *)
(***************************************************************************)
EXTENDS RatesService, TLAPS

USE CallsAssumption, NoneAssumption, TimeAssumption, SkewAssumption

\* A stamp is a snapshot: the process's clock shows a natural number.
LEMMA StampedType ==
  ASSUME WorldTypeOK, NEW f \in Calls
  PROVE  Stamped(f) \in Snapshots
BY DEF WorldTypeOK, Stamped, Snapshots, Clock

\* Whatever a read returns, its status is a miss reason or it carries a snapshot.
LEMMA PossibleReadsType ==
  ASSUME ServiceTypeOK, NEW read \in PossibleReads
  PROVE  \/ read.status \in MissReason
         \/ read.status = "hit" /\ read.snapshot \in Snapshots
BY DEF ServiceTypeOK, PossibleReads, Failing, Hit, MissReason

-----------------------------------------------------------------------------

\* The program starts in the invariant.
LEMMA ServiceInvInit == WorldInit /\ ServiceInit => ServiceInv
BY DEF WorldInit, ServiceInit, ServiceInv, ServiceTypeOK, WorldTypeOK, SingleFlightInv,
       WaitersAboard, InFlightActive, WritingHasSnapshot, NothingEarly, Active, Pending,
       Settled, Served, MissReason

\* A miss preserves the invariant, whether it starts the fetch or joins it.
LEMMA MissKeepsInv ==
  ASSUME ServiceInv, UNCHANGED worldVars, NEW c \in Calls, pc[c] = "reading",
         NEW why \in MissReason, Miss(c, why)
  PROVE  ServiceInv'
<1> DEFINE p == ProcOf[c]
<1> USE DEF ServiceInv, Miss, SharedFetch, Active, worldVars
<1>1. ServiceTypeOK'
  BY DEF ServiceTypeOK, WorldTypeOK, Pending, Settled, Served, MissReason
<1>2. CASE inFlight[p] = None
  BY <1>1, <1>2 DEF ServiceTypeOK, SingleFlightInv, WaitersAboard, InFlightActive,
                    WritingHasSnapshot, NothingEarly
<1>3. CASE inFlight[p] # None
  BY <1>1, <1>3 DEF ServiceTypeOK, SingleFlightInv, WaitersAboard, InFlightActive,
                    WritingHasSnapshot, NothingEarly
<1> QED BY <1>2, <1>3

\* So does the end of a fetch: it clears inFlight of the only fetch it can hold,
\* and takes along everyone who waited.
LEMMA FetchSettlesKeepsInv ==
  ASSUME ServiceInv, UNCHANGED worldVars, NEW f \in Calls, fetch[f] \in Active,
         NEW outcome \in {"stored", "unstored", "failed"}, NEW calls \in Settled,
         outcome # "failed" => fetched[f] \in Snapshots,
         FetchSettles(f, outcome, calls)
  PROVE  ServiceInv'
<1> USE DEF ServiceInv, FetchSettles, Active, worldVars
<1>1. ServiceTypeOK'
  BY DEF ServiceTypeOK, WorldTypeOK, Settled, Served
<1>2. inFlight[ProcOf[f]] = f
  BY DEF SingleFlightInv
<1>3. SingleFlightInv' /\ InFlightActive' /\ WritingHasSnapshot' /\ NothingEarly'
  BY <1>2 DEF ServiceTypeOK, SingleFlightInv, InFlightActive, WritingHasSnapshot,
              NothingEarly, Settled, Served
<1>4. ASSUME NEW c \in Calls, pc'[c] = "waiting"
      PROVE  pc[c] = "waiting" /\ awaits[c] # f
  BY <1>4 DEF ServiceTypeOK, Settled, Served
<1>5. WaitersAboard'
  BY <1>1, <1>2, <1>4 DEF ServiceTypeOK, WaitersAboard, InFlightActive
<1> QED BY <1>1, <1>3, <1>5

\* Every step preserves the invariant.
LEMMA ServiceInvStep == ServiceInv /\ [ServiceNext]_svcVars => ServiceInv'
<1> SUFFICES ASSUME ServiceInv, [ServiceNext]_svcVars
             PROVE  ServiceInv'
  OBVIOUS
<1>1. ASSUME UNCHANGED worldVars, NEW c \in Calls, GetRates(c)
      PROVE  ServiceInv'
  BY <1>1 DEF ServiceInv, ServiceTypeOK, WorldTypeOK, worldVars, GetRates, Pending,
              SingleFlightInv, WaitersAboard, InFlightActive, WritingHasSnapshot, NothingEarly
<1>2. ASSUME UNCHANGED worldVars, NEW c \in Calls, NEW read \in PossibleReads,
             ReadSettles(c, read)
      PROVE  ServiceInv'
  <2>1. CASE read.status = "hit" /\ IsFresh(ProcOf[c], read.snapshot)
             /\ ServeCached(c, read.snapshot)
    <3>1. read.snapshot \in Snapshots
      BY <2>1, PossibleReadsType DEF ServiceInv, MissReason
    <3> QED
      BY <2>1, <3>1, <1>2 DEF ServiceInv, ServiceTypeOK, WorldTypeOK, worldVars, ServeCached,
           Settled, Served, SingleFlightInv, WaitersAboard, InFlightActive, WritingHasSnapshot,
           NothingEarly
  <2>2. CASE Miss(c, "expired")
    BY <2>2, <1>2, MissKeepsInv DEF ReadSettles, MissReason
  <2>3. CASE read.status # "hit" /\ Miss(c, read.status)
    <3>1. read.status \in MissReason
      BY <2>3, PossibleReadsType DEF ServiceInv
    <3> QED
      BY <2>3, <3>1, <1>2, MissKeepsInv DEF ReadSettles
  <2> QED BY <1>2, <2>1, <2>2, <2>3 DEF ReadSettles
<1>3. ASSUME UNCHANGED worldVars, NEW f \in Calls, ProviderResolves(f)
      PROVE  ServiceInv'
  <2>1. Stamped(f) \in Snapshots
    BY StampedType DEF ServiceInv, ServiceTypeOK
  <2> QED
    BY <1>3, <2>1 DEF ServiceInv, ServiceTypeOK, WorldTypeOK, worldVars, ProviderResolves,
         Active, SingleFlightInv, WaitersAboard, InFlightActive, WritingHasSnapshot, NothingEarly
<1>4. ASSUME UNCHANGED worldVars, NEW f \in Calls, ProviderRejects(f)
      PROVE  ServiceInv'
  BY <1>4, FetchSettlesKeepsInv DEF ProviderRejects, Active, Settled
<1>5. ASSUME UNCHANGED worldVars, NEW f \in Calls, NEW ok \in BOOLEAN, WriteSettles(f, ok)
      PROVE  ServiceInv'
  <2>1. fetched[f] \in Snapshots
    BY <1>5 DEF WriteSettles, ServiceInv, WritingHasSnapshot
  <2> QED
    BY <1>5, <2>1, FetchSettlesKeepsInv DEF WriteSettles, Active, Settled, Served
<1>6. ASSUME NEW p \in Procs, Killed(p), ServiceDies(p)
      PROVE  ServiceInv'
  <2> USE <1>6 DEF ServiceInv, ServiceDies, Killed, Active, Pending
  <2>1. ServiceTypeOK'
    BY DEF ServiceTypeOK, WorldTypeOK, Settled, Served
  <2>2. SingleFlightInv' /\ InFlightActive' /\ WritingHasSnapshot' /\ NothingEarly'
    BY DEF ServiceTypeOK, SingleFlightInv, InFlightActive, WritingHasSnapshot, NothingEarly
  <2>3. WaitersAboard'
    BY <2>1 DEF ServiceTypeOK, WaitersAboard, InFlightActive
  <2> QED BY <2>1, <2>2, <2>3
<1>7. CASE Advance /\ UNCHANGED serviceVars
  BY <1>7 DEF Advance, serviceVars, ServiceInv, ServiceTypeOK, WorldTypeOK,
              SingleFlightInv, WaitersAboard, InFlightActive, WritingHasSnapshot, NothingEarly
<1>8. CASE UNCHANGED svcVars
  BY <1>8 DEF svcVars, worldVars, serviceVars, ServiceInv, ServiceTypeOK, WorldTypeOK,
              SingleFlightInv, WaitersAboard, InFlightActive, WritingHasSnapshot, NothingEarly
<1> QED
  BY <1>1, <1>2, <1>3, <1>4, <1>5, <1>6, <1>7, <1>8 DEF ServiceNext

\* The inductive invariant holds throughout.
THEOREM ServiceInvariant == ServiceSpec => []ServiceInv
BY ServiceInvInit, ServiceInvStep, PTL DEF ServiceSpec, ServiceStart

\* Every variable keeps its type.
THEOREM ServiceTypeCorrect == ServiceSpec => []ServiceTypeOK
<1>1. ServiceInv => ServiceTypeOK
  BY DEF ServiceInv
<1> QED BY <1>1, ServiceInvariant, PTL

\* Never two fetches at once in a process: the one under way is in inFlight.
THEOREM OneFetchPerProcess == ServiceSpec => []SingleFlightInv
<1>1. ServiceInv => SingleFlightInv
  BY DEF ServiceInv
<1> QED BY <1>1, ServiceInvariant, PTL

\* No call is left waiting on a fetch that is over or is another process's.
THEOREM NobodyStranded == ServiceSpec => []WaitersAboard
<1>1. ServiceInv => WaitersAboard
  BY DEF ServiceInv
<1> QED BY <1>1, ServiceInvariant, PTL

-----------------------------------------------------------------------------
(* RatesService implements SingleFlight.                                   *)

\* The initial states of the service are those of SingleFlight.
LEMMA FlightsInit == WorldInit /\ ServiceInit => Flights!Init
BY DEF WorldInit, ServiceInit, Flights!Init, CallOf, FlightOf, CargoOf, Served

\* The calls aboard a process's flight are those that await the fetch it holds.
LEMMA AboardIsJoined ==
  ASSUME ServiceInv, NEW f \in Calls, fetch[f] \in Active
  PROVE  /\ inFlight[ProcOf[f]] = f
         /\ \A c \in Calls : c \in Flights!Aboard(ProcOf[f])
                              <=> pc[c] = "waiting" /\ awaits[c] = f
BY DEF ServiceInv, ServiceTypeOK, SingleFlightInv, WaitersAboard, InFlightActive,
       Flights!Aboard, CallOf, Served, Pending, Settled

\* A miss boards the flight, and starts it if there was none.
LEMMA MissBoards ==
  ASSUME ServiceInv, NEW c \in Calls, pc[c] = "reading", NEW why, Miss(c, why)
  PROVE  Flights!Board(c)
<1> USE DEF ServiceInv, ServiceTypeOK, Miss, SharedFetch
<1>1. CallOf(c) = "asking" /\ CallOf(c)' = "aboard"
  BY DEF CallOf, Served
<1>2. \A d \in Calls \ {c} : CallOf(d)' = CallOf(d)
  BY DEF CallOf
<1>3. /\ FlightOf(ProcOf[c])' = IF FlightOf(ProcOf[c]) = "none" THEN "upstream"
                                  ELSE FlightOf(ProcOf[c])
      /\ CargoOf(ProcOf[c])' = CargoOf(ProcOf[c])
  BY DEF FlightOf, CargoOf, InFlightActive, Active, NothingEarly
<1>4. \A p \in Procs \ {ProcOf[c]} : FlightOf(p)' = FlightOf(p) /\ CargoOf(p)' = CargoOf(p)
  BY DEF FlightOf, CargoOf, InFlightActive, Active
<1> QED BY <1>1, <1>2, <1>3, <1>4 DEF Flights!Board

\* The end of a fetch lands the flight with everyone aboard.
LEMMA FetchSettlesLands ==
  ASSUME ServiceInv, NEW f \in Calls, fetch[f] \in Active,
         NEW outcome \in {"stored", "unstored", "failed"},
         NEW calls \in {"live", "failed"}, NEW landed,
         landed = IF calls = "live" THEN "served" ELSE "failed",
         FetchSettles(f, outcome, calls)
  PROVE  Flights!Land(ProcOf[f], fetch[f], landed)
<1> DEFINE p == ProcOf[f]
<1> USE DEF ServiceInv, ServiceTypeOK, FetchSettles
<1>1. inFlight[p] = f /\ p \in Procs
  BY AboardIsJoined
<1>2. FlightOf(p) = fetch[f] /\ CargoOf(p) = fetched[f]
  BY <1>1 DEF FlightOf, CargoOf
<1>3. FlightOf(p)' = "none" /\ CargoOf(p)' = None
  BY <1>1 DEF FlightOf, CargoOf
<1>4. \A r \in Procs \ {p} : FlightOf(r)' = FlightOf(r) /\ CargoOf(r)' = CargoOf(r)
  BY <1>1 DEF FlightOf, CargoOf, InFlightActive
<1>5. \A c \in Calls : c \in Flights!Aboard(p) <=> pc[c] = "waiting" /\ awaits[c] = f
  BY AboardIsJoined
<1>6. \A c \in Calls : CallOf(c)' = IF c \in Flights!Aboard(p) THEN landed ELSE CallOf(c)
  BY <1>5 DEF CallOf, Served
<1>7. answer' = [c \in Calls |-> IF c \in Flights!Aboard(p) THEN CargoOf(p) ELSE answer[c]]
  BY <1>2, <1>5
<1> DEFINE flights == [r \in Procs |-> FlightOf(r)]
<1> DEFINE cargos  == [r \in Procs |-> CargoOf(r)]
<1>8. flights' = [flights EXCEPT ![p] = "none"] /\ cargos' = [cargos EXCEPT ![p] = None]
  BY <1>1, <1>3, <1>4
<1>9. [c \in Calls |-> CallOf(c)']
        = [c \in Calls |-> IF c \in Flights!Aboard(p) THEN landed ELSE [d \in Calls |-> CallOf(d)][c]]
  BY <1>6
<1>10. answer' = [c \in Calls |-> IF c \in Flights!Aboard(p) THEN cargos[p] ELSE answer[c]]
  BY <1>1, <1>7
<1>11. flights[p] = fetch[f]
  BY <1>1, <1>2
<1> HIDE DEF ServiceInv, ServiceTypeOK, FetchSettles
<1> QED BY <1>8, <1>9, <1>10, <1>11 DEF Flights!Land

\* Every step of the service is a step of SingleFlight, or leaves it alone.
LEMMA FlightsStep == ServiceInv /\ [ServiceNext]_svcVars => [Flights!Next]_(Flights!vars)
<1> SUFFICES ASSUME ServiceInv, [ServiceNext]_svcVars
             PROVE  [Flights!Next]_(Flights!vars)
  OBVIOUS
<1>1. ServiceTypeOK
  BY DEF ServiceInv
<1>2. ASSUME NEW c \in Calls, GetRates(c)
      PROVE  Flights!Ask(c)
  <2>1. CallOf(c) = "idle" /\ CallOf(c)' = "asking"
    BY <1>1, <1>2 DEF ServiceTypeOK, GetRates, CallOf, Served
  <2>2. \A d \in Calls \ {c} : CallOf(d)' = CallOf(d)
    BY <1>1, <1>2 DEF ServiceTypeOK, GetRates, CallOf
  <2> QED BY <1>2, <2>1, <2>2 DEF GetRates, Flights!Ask, FlightOf, CargoOf
<1>3. ASSUME NEW c \in Calls, NEW read \in PossibleReads, ReadSettles(c, read)
      PROVE  Flights!ServeStored(c) \/ Flights!Board(c)
  <2>1. CASE read.status = "hit" /\ ServeCached(c, read.snapshot)
    <3>1. read.snapshot \in Snapshots
      BY <1>1, <2>1, PossibleReadsType DEF MissReason
    <3>2. CallOf(c) = "asking" /\ CallOf(c)' = "served"
      BY <1>1, <1>3, <2>1 DEF ServiceTypeOK, ReadSettles, ServeCached, CallOf, Served
    <3>3. \A d \in Calls \ {c} : CallOf(d)' = CallOf(d)
      BY <1>1, <2>1 DEF ServiceTypeOK, ServeCached, CallOf
    <3>4. answer'[c] \in Snapshots /\ answer' = [answer EXCEPT ![c] = answer'[c]]
      BY <1>1, <2>1, <3>1 DEF ServiceTypeOK, ServeCached
    <3> QED BY <2>1, <3>2, <3>3, <3>4 DEF ServeCached, Flights!ServeStored, FlightOf, CargoOf
  <2>2. CASE \E why : Miss(c, why)
    BY <1>3, <2>2, MissBoards DEF ReadSettles
  <2> QED BY <1>3, <2>1, <2>2 DEF ReadSettles
<1>4. ASSUME NEW f \in Calls, ProviderResolves(f)
      PROVE  Flights!Load(ProcOf[f])
  <2>1. inFlight[ProcOf[f]] = f /\ ProcOf[f] \in Procs
    BY <1>4, AboardIsJoined DEF ProviderResolves, Active
  <2>2. FlightOf(ProcOf[f]) = "upstream" /\ FlightOf(ProcOf[f])' = "writing"
    BY <1>1, <1>4, <2>1 DEF ServiceTypeOK, ProviderResolves, FlightOf
  <2>3. CargoOf(ProcOf[f])' \in Snapshots
    BY <1>1, <1>4, <2>1, StampedType DEF ServiceTypeOK, ProviderResolves, CargoOf
  <2>4. \A p \in Procs \ {ProcOf[f]} : FlightOf(p)' = FlightOf(p) /\ CargoOf(p)' = CargoOf(p)
    BY <1>1, <1>4 DEF ServiceInv, ServiceTypeOK, InFlightActive, ProviderResolves, FlightOf, CargoOf
  <2> DEFINE flights == [p \in Procs |-> FlightOf(p)]
  <2> DEFINE cargos  == [p \in Procs |-> CargoOf(p)]
  <2>5. /\ flights' = [flights EXCEPT ![ProcOf[f]] = "writing"]
        /\ cargos' = [cargos EXCEPT ![ProcOf[f]] = cargos'[ProcOf[f]]]
        /\ flights[ProcOf[f]] = "upstream" /\ cargos'[ProcOf[f]] \in Snapshots
    BY <2>1, <2>2, <2>3, <2>4
  <2>6. [c \in Calls |-> CallOf(c)'] = [c \in Calls |-> CallOf(c)] /\ answer' = answer
    BY <1>4 DEF ProviderResolves, CallOf
  <2> QED
    BY <2>5, <2>6 DEF Flights!Load
<1>5. ASSUME NEW f \in Calls, ProviderRejects(f)
      PROVE  Flights!Land(ProcOf[f], "upstream", "failed")
  BY <1>5, FetchSettlesLands DEF ProviderRejects, Active
<1>6. ASSUME NEW f \in Calls, NEW ok \in BOOLEAN, WriteSettles(f, ok)
      PROVE  Flights!Land(ProcOf[f], "writing", "served")
  BY <1>6, FetchSettlesLands DEF WriteSettles, Active
<1>7. ASSUME NEW p \in Procs, ServiceDies(p)
      PROVE  Flights!Die(p)
  <2>1. FlightOf(p)' = "none" /\ CargoOf(p)' = None
    BY <1>1, <1>7 DEF ServiceTypeOK, ServiceDies, FlightOf, CargoOf
  <2>2. \A r \in Procs \ {p} : FlightOf(r)' = FlightOf(r) /\ CargoOf(r)' = CargoOf(r)
    BY <1>1, <1>7 DEF ServiceInv, ServiceTypeOK, InFlightActive, ServiceDies, FlightOf, CargoOf
  <2>3. \A c \in Calls :
          CallOf(c)' = IF ProcOf[c] = p /\ CallOf(c) \in {"asking", "aboard"}
                         THEN "lost" ELSE CallOf(c)
    BY <1>1, <1>7 DEF ServiceTypeOK, ServiceDies, CallOf, Served, Pending, Settled
  <2> QED BY <1>7, <2>1, <2>2, <2>3 DEF ServiceDies, Flights!Die
<1>8. ASSUME UNCHANGED serviceVars
      PROVE  UNCHANGED Flights!vars
  BY <1>8 DEF serviceVars, Flights!vars, CallOf, FlightOf, CargoOf
<1> QED
  BY <1>2, <1>3, <1>4, <1>5, <1>6, <1>7, <1>8, CallsAssumption
     DEF ServiceNext, svcVars, Flights!Next

\* The service implements SingleFlight: whoever misses while a fetch is under way
\* boards it, the upstream is asked once per flight, and all aboard get its one
\* outcome together.
THEOREM ServiceImplementsSingleFlight == ServiceSpec => ImplementsSingleFlight
BY FlightsInit, FlightsStep, ServiceInvariant, PTL DEF ServiceSpec, ServiceStart, ImplementsSingleFlight, Flights!Spec

=============================================================================
