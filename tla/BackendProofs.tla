--------------------------- MODULE BackendProofs ---------------------------
(***************************************************************************)
(* Proofs about the Redis client within the backend, for any health checks *)
(* and timers, and a connection that does as it pleases, and about the     *)
(* HTTP log, for any documentation and other requests.                     *)
(*                                                                         *)
(* None of the three properties of the client is inductive.  HealthInTime  *)
(* needs that the timer of a pending check is armed for its whole          *)
(* allowance and that the clock never passes it; OutageHoldsNobody that no *)
(* PING goes out during an outage; OneWarningPerOutage that inOutage tells *)
(* whether an error has been seen since the client was ready.              *)
(*                                                                         *)
(* That every request leaves one line needs that the logger was mounted    *)
(* before the port was bound, once (MountedInOrder), and that a line is    *)
(* only written when the response closes (LoggedOnClose); that the line of *)
(* an outage is a warning needs that a check's answer is final once its    *)
(* response is made (AnswersAreFinal, SickFailed).                         *)
(***************************************************************************)
EXTENDS Backend, FiniteSetTheorems, TLAPS

USE ClientAssumption

\* A pending check is timed from its start, and its timer is not past.
TimersAhead ==
  \A h \in Checks :
    check[h] = "pinged" =>
      timer[h] = startedAt[h] + PingTimeout /\ startedAt[h] <= now /\ now <= timer[h]

\* Who waits during an outage has waited since before it.
PingedBeforeOutage ==
  /\ downSince <= now
  /\ client # "ready" =>
       \A h \in Checks : check[h] = "pinged" => startedAt[h] <= downSince

\* The monitor's field and the history agree.
OutageSeen == inOutage <=> errors > 0

ClientInv ==
  /\ ClientTypeOK
  /\ TimersAhead
  /\ PingedBeforeOutage
  /\ OutageSeen
  /\ OneWarningPerOutage

\* Nobody is served but by a process that listens, so one that exits leaves nobody waiting.
NobodyBeforeListening ==
  stage # "listening" => \A h \in Checks : check[h] # "pinged"

BackendInv == ClientInv /\ NobodyBeforeListening

-----------------------------------------------------------------------------

\* The process starts in the invariant: nobody has asked, nothing has gone wrong.
LEMMA BackendInvInit == Init => BackendInv
<1> SUFFICES ASSUME Init
             PROVE  BackendInv
  OBVIOUS
<1> USE DEF Init, ClientInit
<1>1. ClientTypeOK
  <2>1. now \in Nat /\ client \in {"none", "ready", "down", "ended"} /\ inOutage \in BOOLEAN
    OBVIOUS
  <2>2. check \in [Checks -> {"idle", "pinged"} \cup Answers]
    OBVIOUS
  <2>3. timer \in [Checks -> Nat \cup {Off}] /\ startedAt \in [Checks -> Nat]
    OBVIOUS
  <2>4. errors \in 0..MaxErrors /\ warnings \in Nat /\ downSince \in Nat
    OBVIOUS
  <2>5. \A h \in Checks : timer[h] # Off <=> check[h] = "pinged"
    OBVIOUS
  <2> QED BY <2>1, <2>2, <2>3, <2>4, <2>5 DEF ClientTypeOK
<1>2. TimersAhead /\ PingedBeforeOutage
  BY DEF TimersAhead, PingedBeforeOutage
<1>3. OutageSeen /\ OneWarningPerOutage
  BY DEF OutageSeen, OneWarningPerOutage
<1>4. NobodyBeforeListening
  BY DEF NobodyBeforeListening
<1> QED BY <1>1, <1>2, <1>3, <1>4 DEF ClientInv, BackendInv

\* The steps of the health check preserve it: a PING goes out with its timer, and
\* whatever ends the race clears that timer.
LEMMA HealthKeepsInv ==
  ASSUME ClientInv, NEW h \in Checks,
         IsHealthy(h) \/ PingSettles(h) \/ PingTimesOut(h)
  PROVE  ClientInv'
<1> USE DEF ClientInv, ClientTypeOK, TimersAhead, PingedBeforeOutage, OutageSeen,
            OneWarningPerOutage, monitorVars
<1>1. CASE IsHealthy(h) /\ client = "ready"
  BY <1>1 DEF IsHealthy, Pings
<1>2. CASE IsHealthy(h) /\ client # "ready"
  BY <1>2 DEF IsHealthy, Answers
<1>3. ASSUME NEW answer \in Answers, check[h] = "pinged", Answered(h, answer),
             UNCHANGED <<now, client, downSince, monitorVars>>
      PROVE  ClientInv'
  BY <1>3 DEF Answered, Answers
<1>4. CASE PingSettles(h)
  BY <1>3, <1>4 DEF PingSettles, Answers
<1>5. CASE PingTimesOut(h)
  BY <1>3, <1>5 DEF PingTimesOut, Answers
<1> QED BY <1>1, <1>2, <1>4, <1>5

\* So do the client's events: an outage begins no earlier than the PINGs sent before
\* it, its first error is the one that is logged, and its end forgets both.
LEMMA EventsKeepInv ==
  ASSUME ClientInv, Created \/ Drops \/ AttemptFails \/ Connects \/ Destroyed
  PROVE  ClientInv'
<1> USE DEF ClientInv, ClientTypeOK, TimersAhead, PingedBeforeOutage, OutageSeen,
            OneWarningPerOutage, monitorVars, healthVars
<1>1. \A h \in Checks : check[h] = "pinged" => startedAt[h] <= now
  OBVIOUS
<1>2. CASE Created
  BY <1>1, <1>2 DEF Created
<1>3. CASE Drops
  <2>1. CASE OnError
    BY <1>1, <1>3, <2>1 DEF Drops, OnError
  <2>2. CASE UNCHANGED monitorVars
    BY <1>1, <1>3, <2>2 DEF Drops
  <2> QED BY <1>3, <2>1, <2>2 DEF Drops
<1>4. CASE AttemptFails
  BY <1>4 DEF AttemptFails, OnError
<1>5. CASE Connects
  <2> USE <1>5 DEF Connects, OnReady
  <2>1. ClientTypeOK'
    <3>1. inOutage' = FALSE /\ errors' = 0 /\ warnings' = 0
      OBVIOUS
    <3>2. 0 \in 0..MaxErrors
      OBVIOUS
    <3>3. errors' \in 0..MaxErrors /\ warnings' \in Nat
      BY <3>1, <3>2
    <3>4. inOutage' \in BOOLEAN
      BY <3>1
    <3> QED BY <3>3, <3>4
  <2>2. TimersAhead' /\ PingedBeforeOutage'
    OBVIOUS
  <2>3. OutageSeen' /\ OneWarningPerOutage'
    OBVIOUS
  <2> QED BY <2>1, <2>2, <2>3
<1>6. CASE Destroyed
  <2> USE <1>1, <1>6 DEF Destroyed, Answers
  <2>1. ClientTypeOK'
    OBVIOUS
  <2>2. ASSUME NEW h \in Checks, check'[h] = "pinged"
        PROVE  client = "down" /\ check[h] = "pinged" /\ timer'[h] = timer[h]
    BY <2>2
  <2>3. TimersAhead' /\ PingedBeforeOutage'
    <3>1. ASSUME NEW h \in Checks, check'[h] = "pinged"
          PROVE  /\ timer'[h] = startedAt'[h] + PingTimeout
                 /\ startedAt'[h] <= downSince' /\ startedAt'[h] <= now' /\ now' <= timer'[h]
      BY <2>2, <3>1
    <3>2. now \in Nat /\ now' = now /\ downSince <= now /\ downSince' \in {now, downSince}
      OBVIOUS
    <3>3. downSince' <= now'
      BY ONLY <3>2
    <3> QED BY <3>1, <3>3
  <2>4. OutageSeen' /\ OneWarningPerOutage'
    OBVIOUS
  <2> QED BY <2>1, <2>3, <2>4
<1> QED BY <1>2, <1>3, <1>4, <1>5, <1>6

\* Time does not pass a due timer.
LEMMA TickKeepsInv ==
  ASSUME ClientInv, Tick
  PROVE  ClientInv'
BY DEF ClientInv, ClientTypeOK, TimersAhead, PingedBeforeOutage, OutageSeen,
       OneWarningPerOutage, monitorVars, healthVars, Tick

\* Only a step of a process that listens has a check wait, and the stage comes to
\* "listening" before it and never leaves it.
LEMMA NobodyBeforeListeningStep ==
  ASSUME NobodyBeforeListening, [Next]_vars
  PROVE  NobodyBeforeListening'
<1> USE DEF NobodyBeforeListening, healthVars
<1>1. CASE ConfigIsRejected \/ ConfigureApp \/ StartServer \/ LineIsOut \/ Exits
  BY <1>1 DEF ConfigIsRejected, ConfigureApp, StartServer, LineIsOut, Exits, clientVars
<1>2. CASE CreatesClient
  BY <1>2 DEF CreatesClient, Created, backendVars
<1>3. ASSUME NEW h \in Checks, Check(h) \/ CheckEnds(h) \/ ProberLeaves(h)
      PROVE  NobodyBeforeListening'
  BY <1>3 DEF Check, CheckEnds, ProberLeaves, Closes, clientVars, bootVars
<1>4. ASSUME NEW r \in Docs \cup Others, Serves(r)
      PROVE  NobodyBeforeListening'
  BY <1>4 DEF Serves, Closes, clientVars, bootVars
<1>5. ASSUME UNCHANGED backendVars, NEW h \in Checks, PingSettles(h) \/ PingTimesOut(h)
      PROVE  NobodyBeforeListening'
  BY <1>5 DEF PingSettles, PingTimesOut, Answered, backendVars
<1>6. ASSUME UNCHANGED backendVars,
             Drops \/ AttemptFails \/ Connects \/ Tick \/ (stage = "listening" /\ Destroyed)
      PROVE  NobodyBeforeListening'
  BY <1>6 DEF Drops, AttemptFails, Connects, Tick, Destroyed, backendVars
<1>7. CASE ClientSteps
  <2>1. UNCHANGED backendVars
    BY <1>7 DEF ClientSteps
  <2>2. CASE \E h \in Checks : PingSettles(h) \/ PingTimesOut(h)
    BY <1>5, <2>1, <2>2
  <2>3. CASE Drops \/ AttemptFails \/ Connects \/ Tick \/ (stage = "listening" /\ Destroyed)
    BY <1>6, <2>1, <2>3
  <2> QED BY <1>7, <2>2, <2>3 DEF ClientSteps
<1>8. CASE Stopped \/ UNCHANGED vars
  BY <1>8 DEF Stopped, vars, clientVars, backendVars
<1> QED BY <1>1, <1>2, <1>3, <1>4, <1>7, <1>8 DEF Next

\* Every step of the process preserves the invariant; those of the boot and of the HTTP
\* side leave the client alone, and the process ends with nobody waiting.
LEMMA BackendInvStep == BackendInv /\ [Next]_vars => BackendInv'
<1> SUFFICES ASSUME ClientInv, NobodyBeforeListening, [Next]_vars
             PROVE  ClientInv'
  BY NobodyBeforeListeningStep DEF BackendInv
<1>1. ASSUME UNCHANGED clientVars
      PROVE  ClientInv'
  BY <1>1 DEF ClientInv, ClientTypeOK, TimersAhead, PingedBeforeOutage, OutageSeen,
              OneWarningPerOutage, clientVars
<1>2. CASE ConfigIsRejected \/ ConfigureApp \/ StartServer \/ LineIsOut
  BY <1>1, <1>2 DEF ConfigIsRejected, ConfigureApp, StartServer, LineIsOut
<1>3. CASE CreatesClient
  BY <1>3, EventsKeepInv DEF CreatesClient
<1>4. CASE Exits
  <2> USE <1>4 DEF Exits, ClientInv, ClientTypeOK, TimersAhead, PingedBeforeOutage,
                   OutageSeen, OneWarningPerOutage, monitorVars, healthVars
  <2>1. ClientTypeOK' /\ TimersAhead'
    OBVIOUS
  <2>2. PingedBeforeOutage'
    BY DEF NobodyBeforeListening
  <2>3. OutageSeen' /\ OneWarningPerOutage'
    OBVIOUS
  <2> QED BY <2>1, <2>2, <2>3
<1>5. ASSUME NEW h \in Checks, Check(h) \/ CheckEnds(h) \/ ProberLeaves(h)
      PROVE  ClientInv'
  BY <1>1, <1>5, HealthKeepsInv DEF Check, CheckEnds, ProberLeaves
<1>6. ASSUME NEW r \in Docs \cup Others, Serves(r)
      PROVE  ClientInv'
  BY <1>1, <1>6 DEF Serves
<1>7. CASE ClientSteps
  BY <1>7, HealthKeepsInv, EventsKeepInv, TickKeepsInv DEF ClientSteps
<1>8. CASE Stopped \/ UNCHANGED vars
  BY <1>1, <1>8 DEF Stopped, vars
<1> QED BY <1>2, <1>3, <1>4, <1>5, <1>6, <1>7, <1>8 DEF Next

-----------------------------------------------------------------------------

\* BackendInv holds in every reachable state.
THEOREM BackendInvariant == Spec => []BackendInv
BY BackendInvInit, BackendInvStep, PTL DEF Spec

\* Every health check is answered within its timer, for any number of checks.
THEOREM HealthAlwaysInTime == Spec => []HealthInTime
<1>1. BackendInv => HealthInTime
  BY DEF BackendInv, ClientInv, ClientTypeOK, TimersAhead, HealthInTime
<1> QED BY <1>1, BackendInvariant, PTL

\* An outage longer than the timer has nobody waiting.
THEOREM NobodyWaitsOutAnOutage == Spec => []OutageHoldsNobody
<1>1. ASSUME BackendInv, client # "ready", now - downSince > PingTimeout,
             NEW h \in Checks, check[h] = "pinged"
      PROVE  FALSE
  <2>1. startedAt[h] \in Nat /\ now \in Nat /\ downSince \in Nat
    BY <1>1 DEF BackendInv, ClientInv, ClientTypeOK
  <2>2. startedAt[h] <= downSince /\ now <= startedAt[h] + PingTimeout
    BY <1>1 DEF BackendInv, ClientInv, TimersAhead, PingedBeforeOutage
  <2> QED BY <1>1, <2>1, <2>2
<1>2. BackendInv => OutageHoldsNobody
  BY <1>1 DEF OutageHoldsNobody
<1> QED BY <1>2, BackendInvariant, PTL

\* An outage is logged once, however many errors it has.
THEOREM OutagesLoggedOnce == Spec => []OneWarningPerOutage
<1>1. BackendInv => OneWarningPerOutage
  BY DEF BackendInv, ClientInv
<1> QED BY <1>1, BackendInvariant, PTL

-----------------------------------------------------------------------------
(* The HTTP log                                                            *)

\* bootstrap() has mounted the layers in their order when the port is bound, and nobody
\* is served before.
MountedInOrder ==
  /\ stage = "starting" => layers = <<"logger", "docs">>
  /\ stage = "listening" => layers = <<"logger", "docs", "routes">>
  /\ stage # "listening" => \A r \in Requests : request[r] = "none"

\* A request is logged when it closes, never before.
LoggedOnClose == \A r \in Requests : request[r] \in {"none", "open"} => lines[r] = <<>>

\* The answer a response was made of does not change after it.
AnswersAreFinal == \A h \in Checks : request[h] = "finished" => check[h] \in Answers

\* A check asked while the client is not ready has failed, for good.
SickFailed == \A h \in sick : check[h] = "failed"

LogInv ==
  /\ BackendTypeOK
  /\ MountedInOrder
  /\ LoggedOnClose
  /\ AnswersAreFinal
  /\ SickFailed
  /\ EveryRequestLogged
  /\ OutageIsLogged

\* Once the port is bound, every request passes the logger once.
LEMMA OneLogger ==
  ASSUME layers = <<"logger", "docs", "routes">>, NEW r \in Requests
  PROVE  Loggers(r) = 1
<1> DEFINE served == CHOOSE i \in DOMAIN layers : layers[i] = LayerOf(r)
<1>1. DOMAIN layers = 1..3 /\ layers[1] = "logger" /\ layers[2] = "docs" /\ layers[3] = "routes"
  OBVIOUS
<1>2. \E i \in DOMAIN layers : layers[i] = LayerOf(r)
  BY <1>1 DEF LayerOf
<1>3. served \in DOMAIN layers /\ layers[served] = LayerOf(r)
  BY <1>2
<1> HIDE DEF served
<1>4. served \in {2, 3}
  BY <1>1, <1>3 DEF LayerOf
<1>5. {i \in 1..served : layers[i] = "logger"} = {1}
  BY <1>1, <1>4
<1>6. Cardinality({1}) = 1
  BY FS_Singleton
<1> QED BY <1>5, <1>6 DEF Loggers, served

\* What a close does: the request has its one line, or none when its level is silent.
LEMMA ClosesEffect ==
  ASSUME LogInv, NEW r \in Requests, NEW how \in {"finished", "aborted"},
         NEW status \in {200, 404, 503},
         stage = "listening", request[r] \in {"none", "open"}, Closes(r, how, status)
  PROVE  /\ request' = [request EXCEPT ![r] = how]
         /\ lines' = [lines EXCEPT ![r] =
              IF CompletionLogLevel(r, status) = "silent" THEN <<>>
              ELSE <<CompletionLogLevel(r, status)>>]
         /\ UNCHANGED <<sick, bootVars>>
<1> DEFINE level == CompletionLogLevel(r, status)
<1>1. Loggers(r) = 1
  BY OneLogger DEF LogInv, MountedInOrder
<1>2. lines[r] = <<>>
  BY DEF LogInv, LoggedOnClose
<1> HIDE DEF level
<1>3. <<>> \o [i \in 1..1 |-> level] = <<level>>
  OBVIOUS
<1> QED BY <1>1, <1>2, <1>3 DEF Closes, level

\* No step changes the answer of a check that has one.
LEMMA AnswersStand ==
  ASSUME ClientTypeOK, [Next]_vars, NEW h \in Checks, check[h] \in Answers
  PROVE  check'[h] = check[h]
<1> USE DEF Answers, healthVars
<1>1. CASE ConfigIsRejected \/ ConfigureApp \/ StartServer \/ LineIsOut \/ Exits \/ CreatesClient
  BY <1>1 DEF ConfigIsRejected, ConfigureApp, StartServer, LineIsOut, Exits, CreatesClient,
              Created, clientVars
<1>2. ASSUME NEW g \in Checks,
             Check(g) \/ CheckEnds(g) \/ ProberLeaves(g) \/ PingSettles(g) \/ PingTimesOut(g)
      PROVE  check'[h] = check[h]
  <2>1. CASE Check(g)
    BY <2>1 DEF Check, IsHealthy, Pings, ClientTypeOK
  <2>2. CASE CheckEnds(g) \/ ProberLeaves(g)
    BY <2>2 DEF CheckEnds, ProberLeaves, clientVars
  <2>3. CASE PingSettles(g) \/ PingTimesOut(g)
    BY <2>3 DEF PingSettles, PingTimesOut, Answered, ClientTypeOK
  <2> QED BY <1>2, <2>1, <2>2, <2>3
<1>3. ASSUME NEW r \in Docs \cup Others, Serves(r)
      PROVE  check'[h] = check[h]
  BY <1>3 DEF Serves, clientVars
<1>4. CASE ClientSteps
  <2>1. CASE Drops \/ AttemptFails \/ Connects \/ Tick
    BY <2>1 DEF Drops, AttemptFails, Connects, Tick
  <2>2. CASE Destroyed
    BY <2>2 DEF Destroyed, ClientTypeOK
  <2> QED BY <1>2, <1>4, <2>1, <2>2 DEF ClientSteps
<1>5. CASE Stopped \/ UNCHANGED vars
  BY <1>5 DEF Stopped, vars, clientVars
<1> QED BY <1>1, <1>2, <1>3, <1>4, <1>5 DEF Next

LEMMA LogInvInit == Init => LogInv
<1> SUFFICES ASSUME Init
             PROVE  LogInv
  OBVIOUS
<1>1. ClientTypeOK
  BY BackendInvInit DEF BackendInv, ClientInv
<1>2. layers = <<>> /\ layers \in Seq({"logger", "docs", "routes"})
  BY DEF Init
<1>3. lines \in [Requests -> Seq({"info", "warn", "error"})]
  BY DEF Init
<1>4. BackendTypeOK
  BY <1>1, <1>2, <1>3 DEF Init, BackendTypeOK
<1>5. MountedInOrder /\ LoggedOnClose
  BY DEF Init, MountedInOrder, LoggedOnClose
<1>6. AnswersAreFinal /\ SickFailed /\ EveryRequestLogged /\ OutageIsLogged
  BY DEF Init, Requests, AnswersAreFinal, SickFailed, EveryRequestLogged, OutageIsLogged
<1> QED BY <1>4, <1>5, <1>6 DEF LogInv

\* A step that serves nobody keeps what has been logged true.
LEMMA SilentKeepsLog ==
  ASSUME ClientTypeOK, ClientTypeOK', LogInv, [Next]_vars, UNCHANGED httpVars,
         layers' \in Seq({"logger", "docs", "routes"}), reported' \in BOOLEAN,
         stage' \in {"creating", "starting", "listening", "failing", "exited"},
         MountedInOrder'
  PROVE  LogInv'
<1> USE DEF LogInv, httpVars
<1>1. BackendTypeOK'
  BY DEF BackendTypeOK
<1>2. LoggedOnClose'
  BY DEF LoggedOnClose
<1>3. \A h \in Checks : check[h] \in Answers => check'[h] = check[h]
  BY AnswersStand
<1>4. AnswersAreFinal'
  BY <1>3 DEF AnswersAreFinal
<1>5. SickFailed'
  BY <1>3 DEF SickFailed, BackendTypeOK, Answers
<1>6. EveryRequestLogged'
  BY <1>3 DEF EveryRequestLogged, Answers200, AnswersAreFinal
<1>7. OutageIsLogged'
  BY DEF OutageIsLogged
<1> QED BY <1>1, <1>2, <1>4, <1>5, <1>6, <1>7

\* A close writes its line, and only a health check that was answered 200 or whose
\* prober left is silent.
LEMMA ClosesKeepsLog ==
  ASSUME LogInv, stage = "listening",
         NEW r \in Requests, NEW how \in {"finished", "aborted"}, NEW status \in {200, 404, 503},
         request[r] \in {"none", "open"}, Closes(r, how, status), UNCHANGED clientVars,
         how = "aborted" => r \in Checks /\ status = 200,
         how = "finished" /\ r \in Checks =>
           check[r] \in Answers /\ status = IF check[r] = "up" THEN 200 ELSE 503
  PROVE  LogInv'
<1> DEFINE level == CompletionLogLevel(r, status)
           written == IF level = "silent" THEN <<>> ELSE <<level>>
<1>1. /\ request' = [request EXCEPT ![r] = how]
      /\ lines' = [lines EXCEPT ![r] = written]
      /\ UNCHANGED <<sick, stage, layers, reported>>
  BY ClosesEffect DEF bootVars
<1>2. level \in {"silent", "info", "warn", "error"}
  BY DEF CompletionLogLevel
<1>3. level = "silent" <=> r \in Checks /\ status = 200
  BY DEF CompletionLogLevel
<1>4. status = 503 => level = "error"
  BY DEF CompletionLogLevel
<1> HIDE DEF level
<1>5. written \in Seq({"info", "warn", "error"}) /\ Len(written) = IF level = "silent" THEN 0 ELSE 1
  <2>1. CASE level = "silent"
    <3>1. written = <<>>
      BY <2>1
    <3> QED BY <2>1, <3>1
  <2>2. CASE level # "silent"
    <3>1. written = <<level>> /\ level \in {"info", "warn", "error"}
      BY <1>2, <2>2
    <3> QED BY <2>2, <3>1
  <2> QED BY <2>1, <2>2
<1> HIDE DEF written
<1>6. check' = check /\ ClientTypeOK'
  BY DEF clientVars, LogInv, BackendTypeOK, ClientTypeOK
<1>7. BackendTypeOK'
  BY <1>1, <1>5, <1>6 DEF LogInv, BackendTypeOK
<1>8. /\ request \in [Requests -> {"none", "open", "finished", "aborted"}] /\ DOMAIN lines = Requests
      /\ sick \subseteq Checks /\ Checks \subseteq Requests
  BY DEF LogInv, BackendTypeOK, Requests
<1>9. MountedInOrder' /\ LoggedOnClose'
  BY <1>1, <1>8 DEF LogInv, MountedInOrder, LoggedOnClose
<1>10. AnswersAreFinal' /\ SickFailed'
  BY <1>1, <1>6, <1>8 DEF LogInv, AnswersAreFinal, SickFailed
<1>11. ASSUME NEW q \in Requests, request'[q] \in {"finished", "aborted"}
       PROVE  Len(lines'[q]) =
                IF q \in Checks /\ (check[q] = "up" \/ request'[q] = "aborted") THEN 0 ELSE 1
  <2>1. CASE q = r
    BY <1>1, <1>3, <1>5, <1>8, <2>1
  <2>2. CASE q # r
    BY <1>1, <1>8, <1>11, <2>2 DEF LogInv, EveryRequestLogged, Answers200
  <2> QED BY <2>1, <2>2
<1>12. EveryRequestLogged'
  BY <1>6, <1>11 DEF EveryRequestLogged, Answers200
<1>13. ASSUME NEW h \in sick, request'[h] = "finished"
       PROVE  lines'[h] = <<"error">>
  <2>1. CASE h = r
    <3>1. check[h] = "failed" /\ how = "finished" /\ h \in Checks
      BY <1>1, <1>8, <1>13, <2>1 DEF LogInv, SickFailed
    <3> QED BY <1>1, <1>3, <1>4, <1>8, <2>1, <3>1 DEF written
  <2>2. CASE h # r
    BY <1>1, <1>8, <1>13, <2>2 DEF LogInv, OutageIsLogged
  <2> QED BY <2>1, <2>2
<1>14. OutageIsLogged'
  BY <1>1, <1>13 DEF OutageIsLogged
<1> QED BY <1>7, <1>9, <1>10, <1>12, <1>14 DEF LogInv

\* The steps of the boot mount the layers in order and serve nobody.
LEMMA BootKeepsLog ==
  ASSUME ClientTypeOK, ClientTypeOK', LogInv, [Next]_vars,
         ConfigIsRejected \/ CreatesClient \/ ConfigureApp \/ StartServer \/ LineIsOut \/ Exits
  PROVE  LogInv'
<1> USE DEF httpVars, backendVars, LogInv, MountedInOrder, BackendTypeOK
<1>1. ASSUME UNCHANGED <<layers, httpVars>>, stage' \in {stage, "failing", "exited"},
             stage' # "listening" => stage # "listening", reported' \in BOOLEAN
      PROVE  LogInv'
  BY <1>1, SilentKeepsLog
<1>2. CASE ConfigIsRejected \/ CreatesClient \/ LineIsOut \/ Exits
  BY <1>1, <1>2 DEF ConfigIsRejected, CreatesClient, LineIsOut, Exits
<1>3. CASE ConfigureApp
  <2>1. /\ layers' = <<"logger", "docs">> /\ stage = "creating" /\ stage' = "starting"
        /\ UNCHANGED <<reported, httpVars>>
    BY <1>3 DEF ConfigureApp
  <2>2. layers' \in Seq({"logger", "docs", "routes"})
    BY <2>1
  <2>3. MountedInOrder'
    BY <2>1
  <2> QED BY <2>1, <2>2, <2>3, SilentKeepsLog
<1>4. CASE StartServer
  <2>1. /\ stage = "starting" /\ stage' \in {"listening", "failing"}
        /\ layers' = Append(<<"logger", "docs">>, "routes")
        /\ UNCHANGED <<reported, httpVars>>
    BY <1>4 DEF StartServer
  <2>2. layers' = <<"logger", "docs", "routes">>
    <3> DEFINE mounted == Append(<<"logger", "docs">>, "routes")
    <3>1. mounted \in Seq({"logger", "docs", "routes"}) /\ Len(mounted) = 3
      OBVIOUS
    <3>2. mounted[1] = "logger" /\ mounted[2] = "docs" /\ mounted[3] = "routes"
      OBVIOUS
    <3> HIDE DEF mounted
    <3>3. mounted = <<"logger", "docs", "routes">>
      BY ONLY <3>1, <3>2
    <3> QED BY <2>1, <3>3 DEF mounted
  <2>3. layers' \in Seq({"logger", "docs", "routes"})
    BY <2>2
  <2>4. MountedInOrder'
    BY <2>1, <2>2
  <2> QED BY <2>1, <2>3, <2>4, SilentKeepsLog
<1> QED BY <1>2, <1>3, <1>4

\* Every step keeps the log's invariant.
LEMMA LogInvStep ==
  ASSUME ClientTypeOK, ClientTypeOK', LogInv, [Next]_vars
  PROVE  LogInv'
<1>1. CASE ConfigIsRejected \/ CreatesClient \/ ConfigureApp \/ StartServer \/ LineIsOut \/ Exits
  BY <1>1, BootKeepsLog
<1>2. \A r \in Requests : request[r] # "none" => stage = "listening"
  BY DEF LogInv, MountedInOrder
<1>3. ASSUME NEW h \in Checks, Check(h)
      PROVE  LogInv'
  <2> USE DEF LogInv
  <2>1. /\ stage = "listening" /\ request[h] = "none" /\ request' = [request EXCEPT ![h] = "open"]
        /\ sick' = IF client = "ready" THEN sick ELSE sick \cup {h}
        /\ UNCHANGED <<lines, stage, layers, reported>>
    BY <1>3 DEF Check, bootVars
  <2>2. /\ request \in [Requests -> {"none", "open", "finished", "aborted"}]
        /\ sick \subseteq Checks /\ h \in Requests /\ lines[h] = <<>>
    BY <2>1 DEF BackendTypeOK, Requests, LoggedOnClose
  <2>3. BackendTypeOK'
    BY <2>1, <2>2 DEF BackendTypeOK
  <2>4. MountedInOrder' /\ LoggedOnClose'
    BY <2>1, <2>2 DEF MountedInOrder, LoggedOnClose
  <2>5. \A g \in Checks : check[g] \in Answers => check'[g] = check[g]
    BY AnswersStand
  <2>6. AnswersAreFinal'
    BY <2>1, <2>2, <2>5 DEF AnswersAreFinal
  <2>7. \A g \in sick : check'[g] = "failed"
    BY <2>2, <2>5 DEF SickFailed, Answers
  <2>8. client # "ready" => check'[h] = "failed"
    BY <1>3 DEF Check, IsHealthy, ClientTypeOK
  <2>9. SickFailed'
    BY <2>1, <2>7, <2>8 DEF SickFailed
  <2>10. EveryRequestLogged'
    <3> SUFFICES ASSUME NEW r \in Requests, request'[r] \in {"finished", "aborted"}
                 PROVE  Len(lines'[r]) =
                          IF r \in Checks /\ (check'[r] = "up" \/ request'[r] = "aborted")
                          THEN 0 ELSE 1
      BY DEF EveryRequestLogged, Answers200
    <3>1. r # h /\ request'[r] = request[r] /\ lines'[r] = lines[r]
      BY <2>1, <2>2
    <3>2. r \in Checks /\ request[r] = "finished" => check'[r] = check[r]
      BY <2>5 DEF AnswersAreFinal
    <3> QED BY <3>1, <3>2 DEF EveryRequestLogged, Answers200
  <2>11. OutageIsLogged'
    BY <2>1, <2>2 DEF OutageIsLogged
  <2> QED BY <2>3, <2>4, <2>6, <2>9, <2>10, <2>11
<1>4. ASSUME NEW h \in Checks, CheckEnds(h)
      PROVE  LogInv'
  <2>1. /\ h \in Requests /\ request[h] = "open" /\ check[h] \in Answers /\ UNCHANGED clientVars
        /\ Closes(h, "finished", IF check[h] = "up" THEN 200 ELSE 503)
    BY <1>4 DEF CheckEnds, Answers200, Requests
  <2> QED BY <1>2, <2>1, ClosesKeepsLog
<1>5. ASSUME NEW h \in Checks, ProberLeaves(h)
      PROVE  LogInv'
  <2>1. /\ h \in Requests /\ request[h] = "open" /\ UNCHANGED clientVars
        /\ Closes(h, "aborted", 200)
    BY <1>5 DEF ProberLeaves, Requests
  <2> QED BY <1>2, <2>1, ClosesKeepsLog
<1>6. ASSUME NEW r \in Docs \cup Others, Serves(r)
      PROVE  LogInv'
  <2>1. /\ r \in Requests /\ r \notin Checks /\ stage = "listening" /\ request[r] = "none"
        /\ Closes(r, "finished", IF r \in Docs THEN 200 ELSE 404) /\ UNCHANGED clientVars
    BY <1>6, PathAssumption DEF Serves, Requests
  <2> QED BY <2>1, ClosesKeepsLog
<1>7. CASE ClientSteps \/ Stopped \/ UNCHANGED vars
  <2>1. UNCHANGED backendVars
    BY <1>7 DEF ClientSteps, Stopped, vars
  <2>2. UNCHANGED <<stage, layers, reported>> /\ UNCHANGED httpVars
    BY <2>1 DEF backendVars, httpVars
  <2>3. MountedInOrder'
    BY <2>2 DEF LogInv, MountedInOrder, httpVars
  <2> QED BY <2>2, <2>3, SilentKeepsLog DEF LogInv, BackendTypeOK
<1> QED BY <1>1, <1>3, <1>4, <1>5, <1>6, <1>7 DEF Next

\* LogInv holds in every reachable state.
THEOREM LogInvariant == Spec => []LogInv
<1>1. BackendInv => ClientTypeOK
  BY DEF BackendInv, ClientInv
<1>2. BackendInv /\ BackendInv' /\ LogInv /\ [Next]_vars => LogInv'
  <2>1. BackendInv' => ClientTypeOK'
    BY <1>1, PTL
  <2> QED BY <1>1, <2>1, LogInvStep
<1> QED BY <1>2, LogInvInit, BackendInvariant, PTL DEF Spec

\* Every variable of the process keeps its type.
THEOREM BackendTypeCorrect == Spec => []BackendTypeOK
<1>1. LogInv => BackendTypeOK
  BY DEF LogInv
<1> QED BY <1>1, LogInvariant, PTL

\* Every request that closes has its one completion line, but for the health checks that
\* were answered 200 or not waited for, whatever the order in which they close.
THEOREM RequestsAreLogged == Spec => []EveryRequestLogged
<1>1. LogInv => EveryRequestLogged
  BY DEF LogInv
<1> QED BY <1>1, LogInvariant, PTL

\* A health check asked during an outage ends in an error line, even if the connection is
\* back before its response.
THEOREM OutagesAreLogged == Spec => []OutageIsLogged
<1>1. LogInv => OutageIsLogged
  BY DEF LogInv
<1> QED BY <1>1, LogInvariant, PTL

=============================================================================
