---------------------------- MODULE RedisClient ----------------------------
(***************************************************************************)
(* The Redis client's other users: redis-connection-monitor.ts, which logs *)
(* the connection's events, and redis.health.ts, which races a PING        *)
(* against a timer on every GET /health.  Backend composes them with what  *)
(* asks for them.                                                          *)
(*                                                                         *)
(* The client is ioredis, external: it reconnects for ever, reports every  *)
(* failed attempt as an `error', and with no offline queue refuses a       *)
(* command at once while it is not ready.  A command sent before the       *)
(* connection dropped is kept for the next one.                            *)
(***************************************************************************)
EXTENDS Integers

CONSTANTS
  Checks,       \* the health checks that may be made
  PingTimeout,  \* REDIS_PING_TIMEOUT_MS
  MaxErrors,    \* bound: the errors of one outage
  MaxTime,      \* bound: the model's clock stops here
  Off           \* no timer is armed

ASSUME ClientAssumption ==
  /\ PingTimeout \in Nat \ {0} /\ MaxErrors \in Nat /\ MaxTime \in Nat
  /\ Off \notin Nat

VARIABLES
  now,
  client,     \* "none", "ready", "down" (connecting or waiting to), "ended"
  check,      \* check[h]: "idle", "pinged", "up", or why it is down
  timer,      \* timer[h]: when the timer of that check fires
  inOutage,   \* the monitor's field
  startedAt,  \* history: when each check began
  errors,     \* history: the errors since the client was last ready
  warnings,   \* history: the warnings since then
  downSince   \* history: when the client was last ready, or began

clientVars == <<now, client, check, timer, inOutage, startedAt, errors, warnings, downSince>>

Answers == {"up", "no answer", "unexpected", "failed"}

ClientTypeOK ==
  /\ now \in Nat
  /\ client \in {"none", "ready", "down", "ended"}
  /\ check \in [Checks -> {"idle", "pinged"} \cup Answers]
  /\ timer \in [Checks -> Nat \cup {Off}]
  /\ inOutage \in BOOLEAN
  /\ startedAt \in [Checks -> Nat]
  /\ errors \in 0..MaxErrors /\ warnings \in Nat /\ downSince \in Nat
  \* finally() clears the timer of every check that has been answered.
  /\ \A h \in Checks : timer[h] # Off <=> check[h] = "pinged"

ClientInit ==
  /\ now = 0
  /\ client = "none"
  /\ check = [h \in Checks |-> "idle"]
  /\ timer = [h \in Checks |-> Off]
  /\ inOutage = FALSE
  /\ startedAt = [h \in Checks |-> 0]
  /\ errors = 0 /\ warnings = 0 /\ downSince = 0

monitorVars == <<inOutage, errors, warnings>>
healthVars == <<check, timer, startedAt>>

-----------------------------------------------------------------------------
(* RedisConnectionMonitor                                                  *)

\* Faulty: every error is logged.
OnErrorAlways ==
  /\ errors < MaxErrors
  /\ errors' = errors + 1
  /\ inOutage' = TRUE
  /\ warnings' = warnings + 1

\* The first error of an outage is logged, the others are not.
OnError ==
  /\ errors < MaxErrors
  /\ errors' = errors + 1
  /\ inOutage' = TRUE
  /\ warnings' = IF inOutage THEN warnings ELSE warnings + 1

OnReady ==
  /\ errors' = 0 /\ warnings' = 0
  /\ inOutage' = FALSE

-----------------------------------------------------------------------------
(* RedisHealthIndicator                                                    *)

\* Faulty: the timer is not cleared when the PING rejects.
AnswersLeaving(h, answer) ==
  /\ check' = [check EXCEPT ![h] = answer]
  /\ timer' = IF answer = "failed" THEN timer ELSE [timer EXCEPT ![h] = Off]
  /\ UNCHANGED startedAt

Answered(h, answer) ==
  /\ check' = [check EXCEPT ![h] = answer]
  /\ timer' = [timer EXCEPT ![h] = Off]
  /\ UNCHANGED startedAt

Pings(h, limit) ==
  /\ check' = [check EXCEPT ![h] = "pinged"]
  /\ timer' = [timer EXCEPT ![h] = now + limit]
  /\ startedAt' = [startedAt EXCEPT ![h] = now]

\* Faulty: the PING waits in a queue while the client is not ready.
IsHealthyQueued(h) ==
  /\ check[h] = "idle"
  /\ Pings(h, PingTimeout)
  /\ UNCHANGED <<now, client, downSince, monitorVars>>

\* Faulty: only the reply ends the race.
IsHealthyUntimed(h) ==
  /\ check[h] = "idle"
  /\ IF client = "ready" THEN Pings(h, MaxTime + 1)
     ELSE Answered(h, "failed")
  /\ UNCHANGED <<now, client, downSince, monitorVars>>

\* GET /health: the PING goes out, or is refused within the same turn.
IsHealthy(h) ==
  /\ check[h] = "idle"
  /\ IF client = "ready" THEN Pings(h, PingTimeout)
     ELSE /\ check' = [check EXCEPT ![h] = "failed"]
          /\ startedAt' = [startedAt EXCEPT ![h] = now]
          /\ UNCHANGED timer
  /\ UNCHANGED <<now, client, downSince, monitorVars>>

\* The race ends with a reply, which may be other than PONG, or a rejection.
PingSettles(h) ==
  /\ check[h] = "pinged"
  /\ client = "ready"
  /\ \E answer \in {"up", "unexpected", "failed"} : Answered(h, answer)
  /\ UNCHANGED <<now, client, downSince, monitorVars>>

\* It ends with TIMED_OUT.
PingTimesOut(h) ==
  /\ check[h] = "pinged"
  /\ timer[h] = now
  /\ Answered(h, "no answer")
  /\ UNCHANGED <<now, client, downSince, monitorVars>>

-----------------------------------------------------------------------------
(* The client                                                              *)

\* createRedisClient: the monitor is attached before any event can come.
Created ==
  /\ client = "none"
  /\ client' = "down"
  /\ downSince' = now
  /\ UNCHANGED <<now, healthVars, monitorVars>>

\* The connection is lost, with an error or closed by Redis without one.
Drops ==
  /\ client = "ready"
  /\ client' = "down"
  /\ downSince' = now
  /\ OnError \/ UNCHANGED monitorVars
  /\ UNCHANGED <<now, healthVars>>

AttemptFails ==
  /\ client = "down"
  /\ OnError
  /\ UNCHANGED <<now, client, downSince, healthVars>>

\* Ready again; the commands kept are sent, and Redis may answer them.
Connects ==
  /\ client = "down"
  /\ client' = "ready"
  /\ OnReady
  /\ UNCHANGED <<now, downSince, healthVars>>

\* onModuleDestroy: disconnect() stops reconnecting and rejects what is pending, but
\* for commands kept from an earlier connection.
Destroyed ==
  /\ client \in {"ready", "down"}
  /\ client' = "ended"
  /\ downSince' = IF client = "ready" THEN now ELSE downSince
  /\ LET rejected == IF client = "ready" THEN {h \in Checks : check[h] = "pinged"} ELSE {} IN
       /\ check' = [h \in Checks |-> IF h \in rejected THEN "failed" ELSE check[h]]
       /\ timer' = [h \in Checks |-> IF h \in rejected THEN Off ELSE timer[h]]
  /\ UNCHANGED <<now, monitorVars, startedAt>>

Tick ==
  /\ now < MaxTime
  /\ \A h \in Checks : timer[h] # now
  /\ now' = now + 1
  /\ UNCHANGED <<client, downSince, healthVars, monitorVars>>

-----------------------------------------------------------------------------
(* Properties                                                              *)

\* A health check never takes longer than its timer, whatever the connection does
\* between the PING and its answer.
HealthInTime == \A h \in Checks : check[h] = "pinged" => now - startedAt[h] <= PingTimeout

\* "Callers are never stuck behind an outage" (redis-client.factory.ts): an outage
\* longer than the timer has nobody waiting, neither those who sent their PING
\* before it nor those who came during it.
OutageHoldsNobody ==
  client \in {"down", "ended"} /\ now - downSince > PingTimeout => \A h \in Checks : check[h] # "pinged"

\* An outage is logged once, however many attempts fail in it, and so is the next
\* one; a connection closed and reopened without an error is not.
OneWarningPerOutage == warnings = IF errors > 0 THEN 1 ELSE 0

=============================================================================
