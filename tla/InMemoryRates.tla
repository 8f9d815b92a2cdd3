--------------------------- MODULE InMemoryRates ---------------------------
(***************************************************************************)
(* rates/repository/in-memory-rates.repository.ts: the RatesRepository     *)
(* that never fails, one value with an expiry.  "Expiry follows Redis EX": *)
(* RatesStack shows the Redis repository to be one of these, as its users  *)
(* see it.                                                                 *)
(*                                                                         *)
(* Each operation is atomic here.  Its user may be far from it: what get() *)
(* finds is on its way to the reader until it is taken, or is lost, and a  *)
(* snapshot may be set once it was given, and again.                       *)
(***************************************************************************)
EXTENDS Integers

CONSTANTS
  Reader,    \* who calls get()
  Snapshot,  \* what may be stored
  Ttl,       \* ttlSeconds
  None       \* nothing is stored, or found

VARIABLES
  clock,
  stored,    \* [snapshot, expiresAt], or None
  given,     \* the snapshots set() was called with
  found,     \* [by, got]: what get() found for a reader, on its way
  taken      \* [by, got]: what get() returned to a reader

inMemoryVars == <<clock, stored, given, found, taken>>

Init ==
  /\ clock = 0 /\ stored = None
  /\ given = {} /\ found = {} /\ taken = {}

\* Faulty: gone as soon as the TTL has passed.
ExpiredEarly == stored # None /\ clock >= stored.expiresAt

\* Gone only once more than the TTL has passed since set().
Expired == stored # None /\ clock > stored.expiresAt

\* What is still stored: read() drops what has expired when it looks at it.
Held == IF Expired THEN None ELSE stored

\* Results are lost, or arrive later.
Arriving == found' \subseteq found

\* read(), and get() by way of it.
Get(reader) ==
  /\ stored' = Held
  /\ found' \subseteq
       found \cup {[by |-> reader, got |-> IF Held = None THEN None ELSE Held.snapshot]}
  /\ UNCHANGED <<clock, given, taken>>

Take ==
  /\ Arriving
  /\ taken \subseteq taken' /\ taken' \subseteq taken \cup found
  /\ UNCHANGED <<clock, stored, given>>

Give ==
  /\ Arriving
  /\ given \subseteq given' /\ given' \subseteq Snapshot
  /\ UNCHANGED <<clock, stored, taken>>

\* set(): a copy, whatever was there before.
Set ==
  /\ Arriving
  /\ \E snapshot \in given : stored' = [snapshot |-> snapshot, expiresAt |-> clock + Ttl]
  /\ UNCHANGED <<clock, given, taken>>

Clear == Arriving /\ stored' = None /\ UNCHANGED <<clock, given, taken>>

Pass == Arriving /\ clock' = clock + 1 /\ UNCHANGED <<stored, given, taken>>

Next ==
  \/ \E reader \in Reader : Get(reader)
  \/ Take
  \/ Give \/ Set
  \/ Clear
  \/ Pass

Spec == Init /\ [][Next]_inMemoryVars

=============================================================================
