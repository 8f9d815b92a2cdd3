------------------------ MODULE RedisRatesRepository ------------------------
(***************************************************************************)
(* rates/repository/redis-rates.repository.ts over ioredis and one Redis   *)
(* key: GET, SET EX and DEL, each raced against its own timer.             *)
(*                                                                         *)
(* A command outlives its timer.  It waits on the wire of its process's    *)
(* one connection, Redis executes each wire in order, and the reply waits  *)
(* to be delivered; a reply nobody awaits any more changes nothing, but    *)
(* its SET or DEL has been, or will be, executed all the same.             *)
(*                                                                         *)
(* One chunk of the socket may settle several commands.  Their promise     *)
(* reactions then interleave within one turn of the event loop, and a SET  *)
(* reaches the end of its shorter chain of awaits before a GET of the same *)
(* chunk reaches the end of its own (`turn`, Depth).                       *)
(***************************************************************************)
EXTENDS RatesWorld, SequencesExt

CONSTANTS
  CmdTimeout,   \* REDIS_COMMAND_TIMEOUT_MS
  MaxDrops,     \* bound: how often connections drop
  MaxChunk,     \* bound: how many replies one chunk of the socket carries
  Refusable,    \* the commands Redis may answer with an error
  InitKinds     \* what the key may hold before the first call

Ops == {"get", "set", "del"}
Kinds == {"absent", "garbled", "wrongType", "snapshot"}

ASSUME TimeoutAssumption ==
  \* TTL is a whole number of seconds, at least one: env.schema.ts.
  CmdTimeout \in Nat \ {0} /\ CmdTimeout <= TTL
ASSUME RedisAssumption ==
  /\ MaxDrops \in Nat /\ MaxChunk \in Nat \ {0}
  /\ Refusable \subseteq Ops
  /\ InitKinds \subseteq {"absent", "garbled", "wrongType"}

VARIABLES
  deadline,   \* deadline[op][c]: when the timer of that command of call c fires
  link,       \* link[p]: the process's Redis connection, "up" or "down"
  wire,       \* wire[p]: commands sent and not executed; kept while the link is down
  answers,    \* answers[p]: executed commands whose reply has not been delivered
  turn,       \* turn[p]: settled commands whose caller resumes in this turn
  store,      \* the Redis key
  drops       \* bookkeeping of the bound MaxDrops

repoVars == <<deadline, link, wire, answers, turn, store, drops>>

\* A stored value, or the key's absence.  Garbled text and values of another
\* Redis type come from elsewhere and have no expiry.
Values == [kind : Kinds \ {"snapshot"}, snapshot : {None}, expiresAt : {None}]
            \cup [kind : {"snapshot"}, snapshot : Snapshots, expiresAt : Nat]

Holding(kind) == [kind |-> kind, snapshot |-> None, expiresAt |-> None]
Nothing == Holding("absent")

Commands == [op : Ops, call : Calls, snapshot : Snapshots \cup {None}, ex : Nat \cup {None}]

\* "text" carries the value a GET found, "error" covers every rejection.
Replies == [kind : Kinds \cup {"ok", "error"}, snapshot : Snapshots \cup {None}]

Reply(kind, snapshot) == [kind |-> kind, snapshot |-> snapshot]
Rejection == Reply("error", None)

Settlements == [cmd : Commands, reply : Replies]

RepoTypeOK ==
  /\ deadline \in [Ops -> [Calls -> Nat \cup {None}]]
  /\ link \in [Procs -> {"up", "down"}]
  /\ wire \in [Procs -> Seq(Commands)]
  /\ answers \in [Procs -> Seq(Settlements)]
  /\ turn \in [Procs -> Seq(Settlements)]
  /\ store \in Values
  /\ drops \in 0..MaxDrops

RepoInit ==
  /\ deadline = [op \in Ops |-> [c \in Calls |-> None]]
  /\ link = [p \in Procs |-> "up"]
  /\ wire = [p \in Procs |-> <<>>]
  /\ answers = [p \in Procs |-> <<>>]
  /\ turn = [p \in Procs |-> <<>>]
  /\ store \in {Holding(kind) : kind \in InitKinds}
  /\ drops = 0

Command(op, c) == [op |-> op, call |-> c, snapshot |-> None, ex |-> None]

\* SET key text EX ttlSeconds
SetCommand(f, snapshot) == [op |-> "set", call |-> f, snapshot |-> snapshot, ex |-> TTL]

\* The race is still open: neither reply nor timer has settled the command.
Awaited(cmd) == deadline[cmd.op][cmd.call] # None

\* No turn of the event loop is under way in p, so its next event may be handled.
AtRest(p) == alive[p] /\ turn[p] = <<>>

-----------------------------------------------------------------------------
(* Commands                                                                *)

\* command(): arm the timer and hand the command to ioredis, which refuses it at
\* once while the link is down (enableOfflineQueue: false).
SendWithin(cmd, limit) ==
  LET p == ProcOf[cmd.call] IN
    /\ deadline' = [deadline EXCEPT ![cmd.op][cmd.call] = now + limit]
    /\ IF link[p] = "up"
         THEN wire' = [wire EXCEPT ![p] = Append(@, cmd)] /\ UNCHANGED turn
         ELSE turn' = [turn EXCEPT ![p] = Append(@, [cmd |-> cmd, reply |-> Rejection])]
              /\ UNCHANGED wire
    /\ UNCHANGED <<link, answers, store, drops>>

\* Faulty: the commands of read() and set() are given twice the time.
SendPatiently(cmd) == SendWithin(cmd, 2 * CmdTimeout)

\* Faulty: they are not timed, and only a reply ends them.
SendUntimed(cmd) == SendWithin(cmd, MaxTime + 1)

Send(cmd) == SendWithin(cmd, CmdTimeout)

\* read() begins; set() begins.
SendGet(c) == Send(Command("get", c))
SendSet(f, snapshot) == Send(SetCommand(f, snapshot))

\* Promise reactions between ioredis settling a command and the service resuming:
\* set() to finally(), read() to getRates(), and read() by way of discardCorrupt().
Depth(settlement) == CASE settlement.cmd.op = "set" -> 5
                       [] settlement.cmd.op = "get" -> 6
                       [] settlement.cmd.op = "del" -> 7

\* The i-th settled command of the turn is the next to get through to its caller.
Resumes(p, i) ==
  \A j \in DOMAIN turn[p] :
    \/ Depth(turn[p][i]) < Depth(turn[p][j])
    \/ Depth(turn[p][i]) = Depth(turn[p][j]) /\ i <= j

\* The race of command `op` of call c ends with `reply`: ioredis settled it, or
\* its timer fired first.
RaceEnds(op, c, reply) ==
  LET p == ProcOf[c] IN
    /\ \/ \E i \in DOMAIN turn[p] :
            /\ Resumes(p, i)
            /\ turn[p][i].cmd.op = op /\ turn[p][i].cmd.call = c
            /\ turn[p][i].reply = reply
            /\ turn' = [turn EXCEPT ![p] = RemoveAt(@, i)]
       \/ /\ AtRest(p)
          /\ deadline[op][c] = now
          /\ reply = Rejection
          /\ UNCHANGED turn
    /\ deadline' = [deadline EXCEPT ![op][c] = None]

Outcomes(op, c) ==
  {Rejection} \cup {turn[ProcOf[c]][i].reply : i \in DOMAIN turn[ProcOf[c]]}

IsCorrupt(reply) == reply.kind \in {"garbled", "wrongType"}

\* Faulty: the codec stamps the snapshot when it is read back.
ReadOfRestamped(reply) ==
  [status |-> IF reply.kind = "snapshot" THEN "hit" ELSE reply.kind,
   snapshot |-> IF reply.kind = "snapshot" THEN [reply.snapshot EXCEPT !.fetchedAt = now]
                                           ELSE None]

ReadOf(reply) == [status |-> IF reply.kind = "snapshot" THEN "hit" ELSE reply.kind,
                  snapshot |-> reply.snapshot]

\* read() settles with what GET found, or rejects.
GetReturns(c, read) ==
  /\ \E reply \in Outcomes("get", c) :
       RaceEnds("get", c, reply) /\ ~IsCorrupt(reply) /\ read = ReadOf(reply)
  /\ UNCHANGED <<link, wire, answers, store, drops>>

\* discardCorrupt(): the GET found a value it cannot use, so DEL goes out.
DiscardBegins(c) ==
  LET p == ProcOf[c]
      del == Command("del", c) IN
    \E i \in DOMAIN turn[p] :
      /\ Resumes(p, i)
      /\ turn[p][i].cmd = Command("get", c)
      /\ IsCorrupt(turn[p][i].reply)
      /\ deadline' = [deadline EXCEPT !["get"][c] = None, !["del"][c] = now + CmdTimeout]
      /\ IF link[p] = "up"
           THEN /\ wire' = [wire EXCEPT ![p] = Append(@, del)]
                /\ turn' = [turn EXCEPT ![p] = RemoveAt(@, i)]
           ELSE /\ turn' = [turn EXCEPT ![p] =
                     Append(RemoveAt(@, i), [cmd |-> del, reply |-> Rejection])]
                /\ UNCHANGED wire
      /\ UNCHANGED <<link, answers, store, drops>>

\* However the DEL ended, read() returns CORRUPT.
DiscardReturns(c, read) ==
  /\ \E reply \in Outcomes("del", c) : RaceEnds("del", c, reply)
  /\ read = Failing("corrupt")
  /\ UNCHANGED <<link, wire, answers, store, drops>>

ReadReturns(c, read) == GetReturns(c, read) \/ DiscardReturns(c, read)

\* set() resolves, or rejects.
WriteReturns(f, ok) ==
  /\ \E reply \in Outcomes("set", f) : RaceEnds("set", f, reply) /\ ok = (reply # Rejection)
  /\ UNCHANGED <<link, wire, answers, store, drops>>

-----------------------------------------------------------------------------
(* Redis and the connections: external code, as ioredis and Redis behave   *)
(* towards src/.                                                           *)

\* The value Redis would find: a key is alive up to and including its expiry.
Found == IF store.kind = "snapshot" /\ now > store.expiresAt THEN Nothing ELSE store

Effect(cmd) ==
  CASE cmd.op = "get" -> Found
    [] cmd.op = "set" -> [kind |-> "snapshot", snapshot |-> cmd.snapshot, expiresAt |-> now + cmd.ex]
    [] cmd.op = "del" -> Nothing

ReplyTo(cmd) == IF cmd.op = "get" THEN Reply(Found.kind, Found.snapshot) ELSE Reply("ok", None)

\* Redis takes the next command of one connection, and may refuse it (-OOM,
\* -READONLY, -LOADING ...).  The reply to a dead process goes nowhere.
RedisExecutes(p) ==
  /\ link[p] = "up"
  /\ wire[p] # <<>>
  /\ LET cmd == Head(wire[p])
         Answer(reply) == IF alive[p]
           THEN answers' = [answers EXCEPT ![p] = Append(@, [cmd |-> cmd, reply |-> reply])]
           ELSE UNCHANGED answers
     IN \/ store' = Effect(cmd) /\ Answer(ReplyTo(cmd))
        \/ cmd.op \in Refusable /\ store' = Found /\ Answer(Rejection)
  /\ wire' = [wire EXCEPT ![p] = Tail(@)]
  /\ UNCHANGED <<deadline, link, turn, drops>>

\* Of the oldest n replies those somebody awaits, in their order.
AwaitedOf(p, n) ==
  LET kept == {i \in 1..n : Awaited(answers[p][i].cmd)} IN
    {[k \in 1..Cardinality(kept) |-> answers[p][pick[k]]] :
       pick \in {f \in [1..Cardinality(kept) -> kept] :
                   \A j, k \in 1..Cardinality(kept) : j < k => f[j] < f[k]}}

\* A chunk of the socket: the oldest n replies settle their commands at once.
ChunkArrives(p) ==
  /\ AtRest(p)
  /\ link[p] = "up"
  /\ \E n \in 1..MaxChunk :
       /\ n <= Len(answers[p])
       /\ \E settled \in AwaitedOf(p, n) : turn' = [turn EXCEPT ![p] = settled]
       /\ answers' = [answers EXCEPT ![p] = SubSeq(@, n + 1, Len(@))]
  /\ UNCHANGED <<deadline, link, wire, store, drops>>

\* A connection drops.  Commands without a reply, executed or not, are kept to be
\* sent again (autoResendUnfulfilledCommands).
Resendable(p) == [i \in DOMAIN answers[p] |-> answers[p][i].cmd] \o wire[p]

LinkDrops(p) ==
  /\ AtRest(p)
  /\ link[p] = "up"
  /\ drops < MaxDrops
  /\ drops' = drops + 1
  /\ link' = [link EXCEPT ![p] = "down"]
  /\ wire' = [wire EXCEPT ![p] = Resendable(p)]
  /\ answers' = [answers EXCEPT ![p] = <<>>]
  /\ UNCHANGED <<deadline, turn, store>>

\* The connection is ready again, and the kept commands are sent in their order.
LinkReconnects(p) ==
  /\ AtRest(p)
  /\ link[p] = "down"
  /\ link' = [link EXCEPT ![p] = "up"]
  /\ UNCHANGED <<deadline, wire, answers, turn, store, drops>>

\* maxRetriesPerRequest failed attempts take ten seconds, ten times CmdTimeout: the
\* commands ioredis then gives up are awaited by nobody.
QueueFlushed(p) ==
  /\ AtRest(p)
  /\ link[p] = "down"
  /\ wire[p] # <<>>
  /\ \A i \in DOMAIN wire[p] : ~Awaited(wire[p][i])
  /\ wire' = [wire EXCEPT ![p] = <<>>]
  /\ UNCHANGED <<deadline, link, answers, turn, store, drops>>

\* Redis restarts, and keeps the key or loses it, as its persistence has it: every
\* connection drops.
RedisRestarts ==
  /\ \A p \in Procs : alive[p] => AtRest(p)
  /\ drops < MaxDrops
  /\ drops' = drops + 1
  /\ store' \in {Found, Nothing}
  /\ link' = [p \in Procs |-> "down"]
  /\ wire' = [p \in Procs |-> IF alive[p] THEN Resendable(p) ELSE <<>>]
  /\ answers' = [p \in Procs |-> <<>>]
  /\ UNCHANGED <<deadline, turn>>

\* The process dies.  What it has put on a live connection may still be executed,
\* up to some command.
RepoDies(p) ==
  /\ \E n \in 0..Len(wire[p]) :
       /\ link[p] = "down" => n = 0
       /\ wire' = [wire EXCEPT ![p] = SubSeq(@, 1, n)]
  /\ answers' = [answers EXCEPT ![p] = <<>>]
  /\ turn' = [turn EXCEPT ![p] = <<>>]
  /\ deadline' = [op \in Ops |-> [c \in Calls |->
                    IF ProcOf[c] = p THEN None ELSE deadline[op][c]]]
  /\ UNCHANGED <<link, store, drops>>

=============================================================================
