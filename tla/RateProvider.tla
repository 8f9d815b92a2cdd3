---------------------------- MODULE RateProvider ----------------------------
(***************************************************************************)
(* What rate-provider.interface.ts promises of one getRates(), with the    *)
(* limit its options set: it settles once and in time, and a snapshot      *)
(* carries "the instant the complete response arrived" (rate.types.ts).    *)
(* MonobankProvider implements this; RatesStack relies on no more of its   *)
(* upstream.                                                               *)
(***************************************************************************)
EXTENDS Integers

CONSTANTS
  Limit,   \* the time a call is given
  None     \* no deadline, no stamp

VARIABLES
  clock,
  call,    \* "idle", "asked", "resolved", "rejected", or "abandoned" by a dead caller
  due,     \* when the call has to be settled
  stamp    \* the snapshot's fetchedAt, in real time

contractVars == <<clock, call, due, stamp>>

Init == clock = 0 /\ call = "idle" /\ due = None /\ stamp = None

Ask ==
  /\ call = "idle"
  /\ call' = "asked"
  /\ due' = clock + Limit
  /\ UNCHANGED <<clock, stamp>>

Settles(how, at) ==
  /\ call = "asked"
  /\ call' = how
  /\ due' = None
  /\ stamp' = at
  /\ UNCHANGED clock

Settle == Settles("resolved", clock) \/ Settles("rejected", None)

Abandon == Settles("abandoned", None)

Pass ==
  /\ call = "asked" => clock < due
  /\ clock' = clock + 1
  /\ UNCHANGED <<call, due, stamp>>

Next == Ask \/ Settle \/ Abandon \/ Pass

Spec == Init /\ [][Next]_contractVars

FairSpec == Spec /\ WF_contractVars(Settle)

=============================================================================
