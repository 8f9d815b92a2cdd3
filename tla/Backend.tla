------------------------------ MODULE Backend ------------------------------
(***************************************************************************)
(* The backend process around the rates: bootstrap.ts, app.setup.ts, the   *)
(* modules' factories, the health controller and the HTTP log.             *)
(*                                                                         *)
(*   creating --> starting --> listening                                   *)
(*          \--> failing <--/          \--> exited (failing only)          *)
(*                                                                         *)
(* A request goes through Express's layers in the order in which they were *)
(* mounted; pino-http, one of them, writes a line when the response of a   *)
(* request that came through it closes.  The Redis client lives on its own *)
(* from its creation, and keeps the process alive.                         *)
(***************************************************************************)
EXTENDS RedisClient, Sequences, FiniteSets

CONSTANTS
  Docs,     \* requests for the Swagger pages
  Others    \* requests no route matches

\* A request has one path.
ASSUME PathAssumption == Checks \cap (Docs \cup Others) = {}

Requests == Checks \cup Docs \cup Others

VARIABLES
  stage,     \* as above
  layers,    \* Express's stack
  reported,  \* the line of reportBootstrapFailure() is out
  request,   \* request[r]: "none", "open", "finished", or "aborted" by its client
  lines,     \* lines[r]: the levels of the completion lines written for it
  sick       \* history: the health checks asked while the client was not ready

backendVars == <<stage, layers, reported, request, lines, sick>>
vars == <<clientVars, backendVars>>

BackendTypeOK ==
  /\ ClientTypeOK
  /\ stage \in {"creating", "starting", "listening", "failing", "exited"}
  /\ layers \in Seq({"logger", "docs", "routes"})
  /\ reported \in BOOLEAN
  /\ request \in [Requests -> {"none", "open", "finished", "aborted"}]
  /\ lines \in [Requests -> Seq({"info", "warn", "error"})]
  /\ sick \subseteq Checks

Init ==
  /\ ClientInit
  /\ stage = "creating"
  /\ layers = <<>>
  /\ reported = FALSE
  /\ request = [r \in Requests |-> "none"]
  /\ lines = [r \in Requests |-> <<>>]
  /\ sick = {}

bootVars == <<stage, layers, reported>>
httpVars == <<request, lines, sick>>

-----------------------------------------------------------------------------
(* bootstrap()                                                             *)

\* The environment is validated before anything is built from it.
ConfigIsRejected ==
  /\ stage = "creating" /\ client = "none"
  /\ stage' = "failing"
  /\ UNCHANGED <<clientVars, layers, reported, httpVars>>

\* RedisModule's factory.
CreatesClient ==
  /\ stage = "creating"
  /\ Created
  /\ UNCHANGED backendVars

\* Faulty: Swagger's routes come before the HTTP logger.
ConfigureAppDocsFirst ==
  /\ stage = "creating" /\ client # "none"
  /\ layers' = <<"docs", "logger">>
  /\ stage' = "starting"
  /\ UNCHANGED <<clientVars, reported, httpVars>>

\* configureApp
ConfigureApp ==
  /\ stage = "creating" /\ client # "none"
  /\ layers' = <<"logger", "docs">>
  /\ stage' = "starting"
  /\ UNCHANGED <<clientVars, reported, httpVars>>

\* app.listen(): the routes are registered, and the port is bound or is not.
StartServer ==
  /\ stage = "starting"
  /\ layers' = Append(layers, "routes")
  /\ stage' \in {"listening", "failing"}
  /\ UNCHANGED <<clientVars, reported, httpVars>>

\* reportBootstrapFailure: the line is written ...
LineIsOut ==
  /\ stage = "failing" /\ ~reported
  /\ reported' = TRUE
  /\ UNCHANGED <<clientVars, stage, layers, httpVars>>

\* Faulty: the exit code is set, and the process ends when nothing is left to do.
ExitsWhenIdle ==
  /\ stage = "failing" /\ reported
  /\ client = "none"
  /\ stage' = "exited"
  /\ UNCHANGED <<clientVars, layers, reported, httpVars>>

\* ... and its callback exits, which ends the Redis client with the process.
Exits ==
  /\ stage = "failing" /\ reported
  /\ stage' = "exited"
  /\ client' = IF client = "none" THEN "none" ELSE "ended"
  /\ UNCHANGED <<now, downSince, healthVars, monitorVars, layers, reported, httpVars>>

-----------------------------------------------------------------------------
(* Requests                                                                *)

LayerOf(r) == IF r \in Docs THEN "docs" ELSE "routes"

\* How many HTTP loggers a request passes on its way.
Loggers(r) ==
  LET served == CHOOSE i \in DOMAIN layers : layers[i] = LayerOf(r)
  IN Cardinality({i \in 1..served : layers[i] = "logger"})

\* Faulty: health checks are never logged.
CompletionLogLevelByPath(r, status) ==
  IF r \in Checks THEN "silent"
  ELSE IF status >= 500 THEN "error" ELSE IF status >= 400 THEN "warn" ELSE "info"

CompletionLogLevel(r, status) ==
  IF r \in Checks /\ status = 200 THEN "silent"
  ELSE IF status >= 500 THEN "error" ELSE IF status >= 400 THEN "warn" ELSE "info"

Closes(r, how, status) ==
  /\ request' = [request EXCEPT ![r] = how]
  /\ lines' = [lines EXCEPT ![r] =
       IF CompletionLogLevel(r, status) = "silent" THEN @
       ELSE @ \o [i \in 1..Loggers(r) |-> CompletionLogLevel(r, status)]]
  /\ UNCHANGED <<sick, bootVars>>

\* HealthController.check() begins.
Check(h) ==
  /\ stage = "listening" /\ request[h] = "none"
  /\ IsHealthy(h)
  /\ request' = [request EXCEPT ![h] = "open"]
  /\ sick' = IF client = "ready" THEN sick ELSE sick \cup {h}
  /\ UNCHANGED <<lines, bootVars>>

\* Terminus: 200 or 503.
Answers200(h) == check[h] = "up"
CheckEnds(h) ==
  /\ request[h] = "open" /\ check[h] \in Answers
  /\ Closes(h, "finished", IF Answers200(h) THEN 200 ELSE 503)
  /\ UNCHANGED clientVars

\* The prober gives up.  A response without headers counts as 200.
ProberLeaves(h) ==
  /\ request[h] = "open"
  /\ Closes(h, "aborted", 200)
  /\ UNCHANGED clientVars

\* A documentation page, or 404.
Serves(r) ==
  /\ stage = "listening" /\ request[r] = "none"
  /\ Closes(r, "finished", IF r \in Docs THEN 200 ELSE 404)
  /\ UNCHANGED clientVars

-----------------------------------------------------------------------------
(* The Redis client and its health checks                                  *)

ClientSteps ==
  /\ stage # "exited"
  /\ \/ \E h \in Checks : PingSettles(h) \/ PingTimesOut(h)
     \/ Drops \/ AttemptFails \/ Connects
     \/ stage = "listening" /\ Destroyed
     \/ Tick
  /\ UNCHANGED backendVars

\* The process has ended, or the model's clock has stopped.
Stopped == (stage = "exited" \/ now = MaxTime) /\ UNCHANGED vars

Next ==
  \/ ConfigIsRejected \/ CreatesClient \/ ConfigureApp \/ StartServer
  \/ LineIsOut \/ Exits
  \/ \E h \in Checks : Check(h) \/ CheckEnds(h) \/ ProberLeaves(h)
  \/ \E r \in Docs \cup Others : Serves(r)
  \/ ClientSteps
  \/ Stopped

Spec == Init /\ [][Next]_vars

\* Node writes the line and calls back.
FairSpec == Spec /\ WF_vars(LineIsOut) /\ WF_vars(Exits)

-----------------------------------------------------------------------------
(* Properties                                                              *)

\* A process that could not boot tells why and ends, so that its container is seen to
\* fail: also when its Redis client is already there, connecting for ever.
FailedBootEnds == (stage = "failing") ~> (stage = "exited" /\ reported)

\* "Every request, including Swagger routes and unmatched paths, gets one completion line"
\* (logging.module.ts), but for health checks that were answered 200 or not waited for.
EveryRequestLogged ==
  \A r \in Requests :
    LET quiet == r \in Checks /\ (Answers200(r) \/ request[r] = "aborted")
    IN request[r] \in {"finished", "aborted"} => Len(lines[r]) = IF quiet THEN 0 ELSE 1

\* No outage passes unseen: a health check asked while the client was not ready ends in
\* an error line, unless its prober left, even if the connection is back by then.
OutageIsLogged == \A h \in sick : request[h] = "finished" => lines[h] = <<"error">>

=============================================================================
