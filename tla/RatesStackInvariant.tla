-------------------------- MODULE RatesStackInvariant --------------------------
(***************************************************************************)
(* The inductive invariant of RatesStack.                                  *)
(*                                                                         *)
(* That a call is answered in time and with what its writer fetched rests  *)
(* on what lies between it and Redis: every command on the wire, in Redis  *)
(* or in a turn is one its call really sent, and once; every reply of a    *)
(* GET carries a snapshot some fetch got from the provider; and a call     *)
(* that waits has a timer, armed early enough.                             *)
(***************************************************************************)
EXTENDS RatesStack

\* A snapshot some fetch got from the provider, unchanged.
Known(snapshot) == snapshot \in Snapshots /\ fetched[snapshot.by] = snapshot

\* The commands of a line of settled ones and a line of those still to be executed.
CommandsOf(settled, waiting) == {e.cmd : e \in ToSet(settled)} \cup ToSet(waiting)

NoRepeats(settled, waiting) ==
  /\ \A i, j \in DOMAIN settled : settled[i].cmd = settled[j].cmd => i = j
  /\ \A i, j \in DOMAIN waiting : waiting[i] = waiting[j] => i = j
  /\ \A i \in DOMAIN settled, j \in DOMAIN waiting : settled[i].cmd # waiting[j]

\* The command is one its call sent: the GET of a call that has begun, the DEL after
\* its GET, the SET of what the fetch it started has brought.
Sent(cmd) ==
  LET c == cmd.call IN
    /\ c \in Calls
    /\ pc[c] # "idle"
    /\ \/ cmd = Command("get", c)
       \/ cmd = Command("del", c) /\ deadline["get"][c] = None
       \/ cmd = SetCommand(c, fetched[c]) /\ fetched[c] \in Snapshots

\* A process's connection carries commands of its own calls, each of them once.
LineOK(p) ==
  /\ \A cmd \in CommandsOf(answers[p], wire[p]) : Sent(cmd) /\ ProcOf[cmd.call] = p
  /\ NoRepeats(answers[p], wire[p])

\* What resumes in a turn is awaited by its caller.
TurnOK(p) ==
  /\ \A cmd \in CommandsOf(turn[p], <<>>) : Sent(cmd) /\ ProcOf[cmd.call] = p /\ Awaited(cmd)
  /\ NoRepeats(turn[p], <<>>)

\* A GET finds a snapshot that was fetched, or none.
ReplyOK(e) ==
  e.cmd.op = "get" =>
    \/ e.reply.kind = "snapshot" /\ Known(e.reply.snapshot)
    \/ e.reply.kind \in (Kinds \ {"snapshot"}) \cup {"error"} /\ e.reply.snapshot = None

LinesOK   == \A p \in Procs : LineOK(p)
TurnsOK   == \A p \in Procs : TurnOK(p)
RepliesOK == \A p \in Procs : \A e \in ToSet(answers[p]) \cup ToSet(turn[p]) : ReplyOK(e)

StoreOK == store.kind = "snapshot" => Known(store.snapshot)

AnswersOK == \A c \in Calls : pc[c] \in Served => Known(answer[c])

\* A call is reading while the race of its GET or of its DEL is open, and a fetch under
\* way has the timer of its stage.
RaceOK(c) ==
  /\ pc[c] = "reading" <=> (deadline["get"][c] # None \/ deadline["del"][c] # None)
  /\ deadline["get"][c] = None \/ deadline["del"][c] = None
  /\ fetch[c] = "upstream" <=> upstreamTimer[c] # None
  /\ fetch[c] = "writing" <=> deadline["set"][c] # None
  /\ pc[c] # "idle" => startedAt[c] \in Nat
  /\ fetched[c] # None => fetched[c].by = c /\ RealTime(fetched[c]) <= now

\* By when a call has its read.
ReadBy(c) == startedAt[c] + (IF reason[c] = "corrupt" THEN 2 ELSE 1) * CmdTimeout

\* No timer is overdue, and none was armed later than the wait it is part of allows.
TimerOK(c) ==
  /\ \A op \in Ops : deadline[op][c] # None => now <= deadline[op][c]
  /\ upstreamTimer[c] # None => upstreamTimer[c] \in now..(now + UpstreamTimeout)
  /\ deadline["get"][c] # None => deadline["get"][c] <= startedAt[c] + CmdTimeout
  /\ deadline["del"][c] # None => deadline["del"][c] <= startedAt[c] + 2 * CmdTimeout
  /\ deadline["set"][c] # None => deadline["set"][c] = RealTime(fetched[c]) + CmdTimeout

WaitOK(c) ==
  pc[c] = "waiting" =>
    LET f == awaits[c] IN
      /\ fetch[f] = "upstream" => upstreamTimer[f] <= ReadBy(c) + UpstreamTimeout
      /\ fetch[f] = "writing" => deadline["set"][f] <= ReadBy(c) + UpstreamTimeout + CmdTimeout

RacesOK  == \A c \in Calls : RaceOK(c)
TimersOK == \A c \in Calls : TimerOK(c) /\ WaitOK(c)

\* The inductive invariant: whatever is on a line or in a turn was sent by its call, and
\* once; what Redis holds, answers and serves is what some fetch got; and every wait of
\* command(), fetchBody() or inFlight has its timer, armed early enough.
StackInv ==
  /\ StackTypeOK
  /\ ServiceInv
  /\ LinesOK
  /\ TurnsOK
  /\ RepliesOK
  /\ StoreOK
  /\ AnswersOK
  /\ RacesOK
  /\ TimersOK

-----------------------------------------------------------------------------
(* The order of things, where Redis loses and refuses nothing              *)

\* One process, whose connection never drops, over a Redis that executes every command,
\* settles one per chunk, and at first holds nothing.
Faultless ==
  /\ \A c, d \in Calls : ProcOf[c] = ProcOf[d]
  /\ MaxDrops = 0 /\ MaxChunk = 1
  /\ Refusable = {} /\ InitKinds \subseteq {"absent"}

Gets(c) == Command("get", c)
Sets(f) == SetCommand(f, fetched[f])

\* What was sent and has not resumed its caller, in the order in which it was sent.
CommandsIn(settlements) == [i \in DOMAIN settlements |-> settlements[i].cmd]
Line(p) == CommandsIn(turn[p]) \o CommandsIn(answers[p]) \o wire[p]

\* Nothing goes wrong: no connection is down, nothing is corrupt and nothing discarded.
NoFaults ==
  /\ \A p \in Procs : link[p] = "up" /\ Len(turn[p]) <= 1
  /\ \A p \in Procs : \A i \in DOMAIN wire[p] : wire[p][i].op # "del"
  /\ \A p \in Procs : \A e \in ToSet(turn[p]) \cup ToSet(answers[p]) : ~IsCorrupt(e.reply)
  /\ \A c \in Calls : deadline["del"][c] = None
  /\ store.kind \in {"absent", "snapshot"}

\* A dead process has neither calls nor a fetch under way.
DeadAreSilent ==
  \A c \in Calls : ~alive[ProcOf[c]] => pc[c] \notin Pending /\ fetch[c] \notin Active

\* In `line' the one comes before the other.
Precedes(line, first, second) ==
  \A i, j \in DOMAIN line : line[i] = first /\ line[j] = second => i < j

\* The GET of a call that reads is on its way, and ahead of the SET of every fetch that
\* was resolved since the call began, all of which are still being written.
ReadsComeFirst ==
  \A c \in Calls : pc[c] = "reading" =>
    /\ Gets(c) \in ToSet(Line(ProcOf[c]))
    /\ \A f \in Calls : fetched[f] # None /\ RealTime(fetched[f]) > startedAt[c] =>
         fetch[f] = "writing" /\ Precedes(Line(ProcOf[c]), Gets(c), Sets(f))

\* Fetches resolve one after the other, and SETs go out in that order.
Resolved == {f \in Calls : fetched[f] # None}
LastIsNewest ==
  \A f, g \in Resolved : fetch[f] = "writing" => fetched[g].fetchedAt <= fetched[f].fetchedAt

IsSet(cmd) == cmd.op = "set"
SetsInOrder ==
  \A p \in Procs : \A i, j \in DOMAIN wire[p] :
    i < j /\ IsSet(wire[p][i]) /\ IsSet(wire[p][j])
      => wire[p][i].snapshot.fetchedAt <= wire[p][j].snapshot.fetchedAt

\* What Redis holds is kept for the TTL and is replaced by nothing older.
StoreInOrder ==
  store.kind = "snapshot" =>
    /\ RealTime(store.snapshot) + TTL <= store.expiresAt
    /\ \A p \in Procs : \A i \in DOMAIN wire[p] :
         IsSet(wire[p][i]) => store.snapshot.fetchedAt <= wire[p][i].snapshot.fetchedAt

\* Whoever reads the key sees what was stamped `stamp' or newer, or sees nothing because
\* that is older than the TTL.
Covers(p, stamp) ==
  \/ store.kind = "snapshot" /\ stamp <= store.snapshot.fetchedAt
  \/ store.kind # "snapshot" /\ stamp + TTL < Clock(p)

\* What was resolved is still to be written, or was, and nothing older is.
NothingLost ==
  \A f \in Resolved : alive[ProcOf[f]] =>
    LET line == wire[ProcOf[f]] IN
      \/ \E i \in DOMAIN line : line[i] = Sets(f)
      \/ /\ Covers(ProcOf[f], fetched[f].fetchedAt)
         /\ \A i \in DOMAIN line :
              IsSet(line[i]) => fetched[f].fetchedAt <= line[i].snapshot.fetchedAt

\* A GET on its way will see what its process had served before the call began, or newer:
\* such a SET is ahead of it, or the key covers it and no SET is.
WillSee(p, i, stamp) ==
  \/ \E j \in 1..(i - 1) : IsSet(wire[p][j]) /\ stamp <= wire[p][j].snapshot.fetchedAt
  \/ Covers(p, stamp) /\ \A j \in 1..(i - 1) : ~IsSet(wire[p][j])

GetsWillSee ==
  \A p \in Procs : alive[p] =>
    \A i \in DOMAIN wire[p] : \A c \in Calls :
      wire[p][i] = Gets(c) /\ newest[c] # None => WillSee(p, i, newest[c])

\* A GET that was executed has seen it.
Saw(p, e) ==
  \A c \in Calls : e.cmd = Gets(c) /\ newest[c] # None =>
    \/ e.reply.kind = "snapshot" /\ newest[c] <= e.reply.snapshot.fetchedAt
    \/ e.reply.kind = "absent" /\ newest[c] + TTL < Clock(p)
GetsSaw == \A p \in Procs : \A e \in ToSet(turn[p]) \cup ToSet(answers[p]) : Saw(p, e)

\* What was served before a call began had been resolved.
NewestResolved ==
  \A c \in Calls : newest[c] # None => \E f \in Resolved : fetched[f].fetchedAt = newest[c]

\* What MonotonicReads, SnapshotReused and NoRedundantFetch rest on.
OrderInv ==
  /\ NoFaults /\ DeadAreSilent
  /\ ReadsComeFirst
  /\ LastIsNewest /\ SetsInOrder /\ StoreInOrder
  /\ NothingLost
  /\ GetsWillSee /\ GetsSaw /\ NewestResolved

=============================================================================
