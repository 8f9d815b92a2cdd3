---------------------------- MODULE MonobankMock ----------------------------
(***************************************************************************)
(* tools/monobank-mock/src: a server that answers GET /bank/currency in a  *)
(* mode, and an admin API that switches the mode, swaps the fixture and    *)
(* resets both and the request counter.                                    *)
(*                                                                         *)
(* A currency request is served within the event that brings it.  An admin *)
(* POST is served when its body is complete: others come in between.       *)
(***************************************************************************)
EXTENDS Integers, FiniteSets

CONSTANTS
  Fetchers,   \* the GET /bank/currency requests that may be made
  Admins,     \* the POST requests to the admin API
  Fixtures,   \* the JSON arrays it may be given to serve
  Default,    \* fixtures/default.json
  Malformed   \* MALFORMED_BODY: never parses

MockModes == {"ok", "http500", "http429", "timeout", "malformed", "empty"}

ASSUME MockAssumption == Default \in Fixtures /\ Malformed \notin Fixtures

VARIABLES
  server,    \* "up", "closing", "exited"
  mode, fixture, requests,   \* MockState
  conn,      \* conn[r]: "none", "open", "answered", "closed"
  held,      \* the responses held open
  reply,     \* reply[r]: the status and the body of the answer
  arrival,   \* history: the mode and the fixture when the request arrived
  uncounted  \* history: the requests that arrived before the last reset

mockVars == <<server, mode, fixture, requests, conn, held, reply, arrival, uncounted>>
stateVars == <<mode, fixture, requests, uncounted>>

NoReply == [status |-> 0, body |-> Malformed]
NotArrived == [mode |-> "none", fixture |-> Default]

MockInit ==
  /\ server = "up"
  /\ mode = "ok" /\ fixture = Default /\ requests = 0
  /\ conn = [r \in Fetchers \cup Admins |-> "none"]
  /\ held = {}
  /\ reply = [r \in Fetchers |-> NoReply]
  /\ arrival = [r \in Fetchers |-> NotArrived]
  /\ uncounted = {}

-----------------------------------------------------------------------------
(* GET /bank/currency                                                      *)

\* The answer of every mode but `timeout'.
Answer ==
  CASE mode = "ok"        -> [status |-> 200, body |-> fixture]
    [] mode = "http500"   -> [status |-> 500, body |-> Malformed]
    [] mode = "http429"   -> [status |-> 429, body |-> Malformed]
    [] mode = "malformed" -> [status |-> 200, body |-> Malformed]
    [] mode = "empty"     -> [status |-> 200, body |-> <<>>]

\* Faulty: a request is counted when it is answered.
ServeCurrencyCounting(r) ==
  /\ server = "up" /\ conn[r] = "none"
  /\ arrival' = [arrival EXCEPT ![r] = [mode |-> mode, fixture |-> fixture]]
  /\ \/ /\ mode = "timeout"
        /\ conn' = [conn EXCEPT ![r] = "open"]
        /\ held' = held \cup {r}
        /\ UNCHANGED <<reply, requests>>
     \/ /\ mode # "timeout"
        /\ conn' = [conn EXCEPT ![r] = "answered"]
        /\ reply' = [reply EXCEPT ![r] = Answer]
        /\ requests' = requests + 1
        /\ UNCHANGED held
  /\ UNCHANGED <<server, mode, fixture, uncounted>>

\* Counted on arrival and answered in the mode of that moment, or never.
ServeCurrency(r) ==
  /\ server = "up" /\ conn[r] = "none"
  /\ requests' = requests + 1
  /\ arrival' = [arrival EXCEPT ![r] = [mode |-> mode, fixture |-> fixture]]
  /\ \/ /\ mode = "timeout"
        /\ conn' = [conn EXCEPT ![r] = "open"]
        /\ held' = held \cup {r}
        /\ UNCHANGED reply
     \/ /\ mode # "timeout"
        /\ conn' = [conn EXCEPT ![r] = "answered"]
        /\ reply' = [reply EXCEPT ![r] = Answer]
        /\ UNCHANGED held
  /\ UNCHANGED <<server, mode, fixture, uncounted>>

\* Faulty: nobody listens to `close'.
ClientClosesUnheard(r) ==
  /\ conn[r] = "open"
  /\ conn' = [conn EXCEPT ![r] = "closed"]
  /\ UNCHANGED <<server, stateVars, held, reply, arrival>>

\* The client disconnects; its response, if held, leaves the set.
ClientCloses(r) ==
  /\ conn[r] = "open"
  /\ conn' = [conn EXCEPT ![r] = "closed"]
  /\ held' = held \ {r}
  /\ UNCHANGED <<server, stateVars, reply, arrival>>

-----------------------------------------------------------------------------
(* The admin API                                                           *)

\* readBody() begins.
AdminArrives(a) ==
  /\ server = "up" /\ conn[a] = "none"
  /\ conn' = [conn EXCEPT ![a] = "open"]
  /\ UNCHANGED <<server, stateVars, held, reply, arrival>>

\* Faulty: who waits in mode `timeout' is answered once the mode is another.
SetModeReleasing(m) ==
  /\ mode' = m
  /\ reply' = [r \in Fetchers |-> IF r \in held THEN [status |-> 200, body |-> fixture] ELSE reply[r]]
  /\ UNCHANGED <<fixture, requests, uncounted>>

\* Whoever is held stays held.
SetMode(m) == mode' = m /\ UNCHANGED <<fixture, requests, uncounted, reply>>

SetFixture(array) == fixture' = array /\ UNCHANGED <<mode, requests, uncounted, reply>>

Reset ==
  /\ mode' = "ok" /\ fixture' = Default /\ requests' = 0
  /\ uncounted' = {r \in Fetchers : conn[r] # "none"}
  /\ UNCHANGED reply

\* The body is complete: 200 and the effect, or 400 and none, for a body over the
\* cap, no mode, or no JSON array.
ServeAdmin(a) ==
  /\ conn[a] = "open"
  /\ conn' = [conn EXCEPT ![a] = "answered"]
  /\ \/ \E m \in MockModes : SetMode(m)
     \/ \E array \in Fixtures : SetFixture(array)
     \/ Reset
     \/ UNCHANGED <<stateVars, reply>>
  /\ UNCHANGED <<server, held, arrival>>

-----------------------------------------------------------------------------
(* The process                                                             *)

\* Faulty: close() alone, which waits for every open connection.
SignalledGently ==
  /\ server = "up"
  /\ server' = "closing"
  /\ UNCHANGED <<stateVars, conn, held, reply, arrival>>

\* SIGTERM or SIGINT: closeAllConnections(), then close().
Signalled ==
  /\ server = "up"
  /\ server' = "closing"
  /\ conn' = [r \in Fetchers \cup Admins |-> IF conn[r] = "open" THEN "closed" ELSE conn[r]]
  /\ held' = {}
  /\ UNCHANGED <<stateVars, reply, arrival>>

\* The callback of close(): every connection has ended.
Exits ==
  /\ server = "closing"
  /\ \A r \in Fetchers \cup Admins : conn[r] # "open"
  /\ server' = "exited"
  /\ UNCHANGED <<stateVars, conn, held, reply, arrival>>

-----------------------------------------------------------------------------
(* Properties                                                              *)

\* "Probes the admin API, never /bank/currency, so the request counter stays at 0"
\* (docker-compose.test.yml): the counter is what a test takes for the upstream calls
\* made since its reset, the ones that are never answered included.
CountsArrivals ==
  requests = Cardinality({r \in Fetchers : arrival[r] # NotArrived /\ r \notin uncounted})

\* "Held `timeout` requests would otherwise keep close() waiting until the container
\* is killed" (main.ts): a signalled mock exits, whoever is connected.
MockStops == (server = "closing") ~> (server = "exited")

=============================================================================
