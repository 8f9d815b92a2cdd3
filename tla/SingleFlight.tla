---------------------------- MODULE SingleFlight ----------------------------
(***************************************************************************)
(* What RatesService promises its callers, with nothing of how it keeps    *)
(* track of it: a call is answered from the store, or it boards the one    *)
(* flight its process has under way; a flight asks the upstream once, and  *)
(* all who boarded get the same outcome at the same moment.                *)
(***************************************************************************)
CONSTANTS Calls, Procs, ProcOf, Snapshots, None

VARIABLES
  call,       \* call[c] : "idle", "asking", "aboard", "served", "failed", "lost"
  answer,     \* answer[c] : what a served call got
  flight,     \* flight[p] : "none", "upstream", "writing"
  cargo       \* cargo[p] : what the flight brought back, None until it has

vars == <<call, answer, flight, cargo>>

Aboard(p) == {c \in Calls : ProcOf[c] = p /\ call[c] = "aboard"}

Init ==
  /\ call = [c \in Calls |-> "idle"]
  /\ answer = [c \in Calls |-> None]
  /\ flight = [p \in Procs |-> "none"]
  /\ cargo = [p \in Procs |-> None]

Ask(c) ==
  /\ call[c] = "idle"
  /\ call' = [call EXCEPT ![c] = "asking"]
  /\ UNCHANGED <<answer, flight, cargo>>

\* The store had a fresh snapshot.
ServeStored(c) ==
  /\ call[c] = "asking"
  /\ call' = [call EXCEPT ![c] = "served"]
  /\ answer'[c] \in Snapshots
  /\ answer' = [answer EXCEPT ![c] = answer'[c]]
  /\ UNCHANGED <<flight, cargo>>

\* The first to board starts the flight; a flight under way is never restarted.
Board(c) ==
  /\ call[c] = "asking"
  /\ call' = [call EXCEPT ![c] = "aboard"]
  /\ flight' = [flight EXCEPT ![ProcOf[c]] = IF @ = "none" THEN "upstream" ELSE @]
  /\ UNCHANGED <<answer, cargo>>

Load(p) ==
  /\ flight[p] = "upstream"
  /\ flight' = [flight EXCEPT ![p] = "writing"]
  /\ cargo'[p] \in Snapshots
  /\ cargo' = [cargo EXCEPT ![p] = cargo'[p]]
  /\ UNCHANGED <<call, answer>>

Land(p, phase, outcome) ==
  /\ flight[p] = phase
  /\ flight' = [flight EXCEPT ![p] = "none"]
  /\ cargo' = [cargo EXCEPT ![p] = None]
  /\ call' = [c \in Calls |-> IF c \in Aboard(p) THEN outcome ELSE call[c]]
  /\ answer' = [c \in Calls |-> IF c \in Aboard(p) THEN cargo[p] ELSE answer[c]]

\* The process dies: its unanswered calls are lost, its flight forgotten.
Die(p) ==
  /\ call' = [c \in Calls |-> IF ProcOf[c] = p /\ call[c] \in {"asking", "aboard"}
                                THEN "lost" ELSE call[c]]
  /\ flight' = [flight EXCEPT ![p] = "none"]
  /\ cargo' = [cargo EXCEPT ![p] = None]
  /\ UNCHANGED answer

Next ==
  \/ \E c \in Calls : Ask(c) \/ ServeStored(c) \/ Board(c)
  \/ \E p \in Procs :
       Load(p) \/ Land(p, "writing", "served") \/ Land(p, "upstream", "failed") \/ Die(p)

Spec == Init /\ [][Next]_vars

=============================================================================
