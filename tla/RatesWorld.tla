----------------------------- MODULE RatesWorld -----------------------------
(***************************************************************************)
(* What every part of the rates subsystem shares: the backend processes,   *)
(* the getRates() calls they serve, real time, and rate snapshots.         *)
(*                                                                         *)
(* A call is made once, and a fetch is named by the call that started it,  *)
(* so neither needs a counter.  A snapshot is the fetch that produced it   *)
(* and the `fetchedAt` stamp of that process's clock; the rates it carries *)
(* never influence the control flow modelled here.                         *)
(***************************************************************************)
EXTENDS Integers

CONSTANTS
  Calls,      \* the getRates() calls that may be made
  Procs,      \* backend processes; a restarted process is another member
  ProcOf,     \* the process each call arrives at
  Skew,       \* how far each process's Date.now() is ahead of real time
  TTL,        \* RATES_CACHE_TTL_SECONDS
  MaxTime,    \* bound: the model's clock stops here
  None        \* no call, no snapshot, no timer

ASSUME CallsAssumption == ProcOf \in [Calls -> Procs]
ASSUME TimeAssumption  == TTL \in Nat \ {0} /\ MaxTime \in Nat
ASSUME SkewAssumption  == Skew \in [Procs -> Nat]

VARIABLES
  now,        \* real time
  alive       \* alive[p]: the process has not been killed

worldVars == <<now, alive>>

Snapshots == [by : Calls, fetchedAt : Nat]

ASSUME NoneAssumption == None \notin Calls /\ None \notin Nat /\ None \notin Snapshots

\* A read of the repository: RatesRepository.read() resolved (`status`), or it
\* rejected with a CacheUnavailableError ("error").
Reads == [status : {"absent", "corrupt", "error"}, snapshot : {None}]
           \cup [status : {"hit"}, snapshot : Snapshots]

Failing(status) == [status |-> status, snapshot |-> None]
Hit(snapshot)   == [status |-> "hit", snapshot |-> snapshot]

\* Date.now() in process p.
Clock(p) == now + Skew[p]

\* The real time at which a snapshot's body was complete.
RealTime(snapshot) == snapshot.fetchedAt - Skew[ProcOf[snapshot.by]]

WorldTypeOK == now \in Nat /\ alive \in [Procs -> BOOLEAN]

WorldInit == now = 0 /\ alive = [p \in Procs |-> TRUE]

\* Time passes; the bound keeps the model finite.
Advance == now < MaxTime /\ now' = now + 1 /\ UNCHANGED alive

=============================================================================
